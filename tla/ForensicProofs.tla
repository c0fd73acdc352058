--------------------------- MODULE ForensicProofs ---------------------------
(***************************************************************************)
(* Theorems about forensic, for every tree of directories, every command   *)
(* line, every size of the buffer, whatever fails and whenever CTRL+C is   *)
(* pressed.                                                                *)
(***************************************************************************)
EXTENDS Forensic, FiniteSetTheorems, SequenceTheorems, TLAPS

-----------------------------------------------------------------------------
(* Types, with the places of the processes: who lists has a directory, and *)
(* who is at dump_stat is at a file.                                       *)

Cells == (Files \cup {"garbage"}) \X (1 .. 2)

PlaceOK(p) ==
    /\ pc[p] = "main" => p = Main
    /\ pc[p] = "list" => Where(p) \in Dirs
    /\ pc[p] = "stat" =>
        /\ Entry(p) \in Files
        /\ Where(p) \in Files \/ (Where(p) \in Dirs /\ pos[p] <= Len(Entries[Where(p)]))
    /\ pc[p] = "wait" =>
        Where(p) \in Files \/ (Where(p) \in Dirs /\ pos[p] > Len(Entries[Where(p)]))

TypeInv ==
    /\ TypeOK
    /\ pos \in [Processes -> Nat \ {0}]
    /\ buf \in [Processes -> Seq(Cells)]
    /\ out \in Seq(Cells)
    /\ late \in [Processes -> Nat]
    /\ \A p \in Processes : PlaceOK(p)

\* What is in two sequences after each other.
LEMMA ConcatFacts ==
    ASSUME NEW S, NEW s \in Seq(S), NEW t \in Seq(S)
    PROVE  /\ s \o t \in Seq(S)
           /\ Len(s \o t) = Len(s) + Len(t)
           /\ ToSet(s \o t) = ToSet(s) \cup ToSet(t)
  <1>1. /\ s \o t \in Seq(S) /\ Len(s \o t) = Len(s) + Len(t)
        /\ Len(s) \in Nat /\ Len(t) \in Nat
        /\ DOMAIN s = 1 .. Len(s) /\ DOMAIN t = 1 .. Len(t)
        /\ DOMAIN (s \o t) = 1 .. Len(s) + Len(t)
        /\ \A i \in 1 .. Len(s) : (s \o t)[i] = s[i]
        /\ \A i \in 1 .. Len(t) : (s \o t)[Len(s) + i] = t[i]
    OBVIOUS
  <1> DEFINE r == s \o t
  <1> HIDE DEF r
  <1>2. ASSUME NEW i \in 1 .. Len(s) + Len(t) PROVE r[i] \in ToSet(s) \cup ToSet(t)
    <2>1. CASE i <= Len(s)
      BY <1>1, <2>1 DEF ToSet, r
    <2>2. CASE i > Len(s)
      <3>1. i - Len(s) \in 1 .. Len(t) /\ i = Len(s) + (i - Len(s))
        BY <1>1, <2>2
      <3> QED
        BY <1>1, <3>1 DEF ToSet, r
    <2> QED
      BY <1>1, <2>1, <2>2
  <1>3. ASSUME NEW i \in 1 .. Len(s) PROVE s[i] \in ToSet(r)
    <2>1. i \in 1 .. Len(s) + Len(t) /\ r[i] = s[i]
      BY <1>1 DEF r
    <2> QED
      BY <1>1, <2>1 DEF ToSet, r
  <1>4. ASSUME NEW i \in 1 .. Len(t) PROVE t[i] \in ToSet(r)
    <2>1. Len(s) + i \in 1 .. Len(s) + Len(t) /\ r[Len(s) + i] = t[i]
      BY <1>1 DEF r
    <2> QED
      BY <1>1, <2>1 DEF ToSet, r
  <1>5. ToSet(r) = ToSet(s) \cup ToSet(t)
    <2>1. ToSet(r) \subseteq ToSet(s) \cup ToSet(t)
      <3> SUFFICES ASSUME NEW x \in ToSet(r) PROVE x \in ToSet(s) \cup ToSet(t)
        OBVIOUS
      <3>1. PICK i \in DOMAIN r : x = r[i]
        BY DEF ToSet
      <3> QED
        BY <1>1, <1>2, <3>1 DEF r
    <2>2. ToSet(s) \subseteq ToSet(r) /\ ToSet(t) \subseteq ToSet(r)
      BY <1>1, <1>3, <1>4 DEF ToSet
    <2> QED
      BY <2>1, <2>2
  <1> QED
    BY <1>1, <1>5 DEF r

\* A full buffer is cut where it ends: nothing is lost, and what is kept fits.
LEMMA CutFacts ==
    ASSUME NEW S, NEW b \in Seq(S), Len(b) <= BUFSIZ + 2
    PROVE  /\ Flushed(b) \in Seq(S) /\ Kept(b) \in Seq(S)
           /\ Len(Kept(b)) <= BUFSIZ
           /\ ToSet(b) = ToSet(Flushed(b)) \cup ToSet(Kept(b))
  <1> DEFINE n == Len(b)
  <1>0. BUFSIZ \in Nat /\ BUFSIZ >= 2 /\ n \in Nat
        /\ <<>> \in Seq(S) /\ Len(<<>>) = 0
    BY ForensicAssumption
  <1>1. CASE n > BUFSIZ
    <2> DEFINE u == SubSeq(b, 1, BUFSIZ)
               v == SubSeq(b, BUFSIZ + 1, n)
    <2>1. /\ u \in Seq(S) /\ Len(u) = BUFSIZ /\ \A i \in 1 .. BUFSIZ : u[i] = b[i]
      BY <1>0, <1>1
    <2>2. /\ v \in Seq(S) /\ Len(v) = n - BUFSIZ
          /\ \A i \in 1 .. n - BUFSIZ : v[i] = b[BUFSIZ + i]
      BY <1>0, <1>1
    <2> HIDE DEF u, v
    <2>3. DOMAIN u = 1 .. BUFSIZ /\ DOMAIN v = 1 .. n - BUFSIZ /\ DOMAIN b = 1 .. n
      BY <1>0, <2>1, <2>2
    <2>4. ToSet(b) = ToSet(u) \cup ToSet(v)
      <3>1. ASSUME NEW i \in 1 .. n PROVE b[i] \in ToSet(u) \cup ToSet(v)
        <4>1. CASE i <= BUFSIZ
          BY <1>0, <2>1, <2>3, <4>1 DEF ToSet
        <4>2. CASE i > BUFSIZ
          <5>1. i - BUFSIZ \in 1 .. n - BUFSIZ /\ BUFSIZ + (i - BUFSIZ) = i
            BY <1>0, <4>2
          <5>2. v[i - BUFSIZ] = b[i]
            BY <2>2, <5>1
          <5> QED
            BY <2>3, <5>1, <5>2 DEF ToSet
        <4> QED
          BY <1>0, <4>1, <4>2
      <3>2. \A i \in 1 .. BUFSIZ : u[i] \in ToSet(b)
        BY <1>0, <1>1, <2>1, <2>3 DEF ToSet
      <3>3. ASSUME NEW i \in 1 .. n - BUFSIZ PROVE v[i] \in ToSet(b)
        <4>1. BUFSIZ + i \in 1 .. n /\ v[i] = b[BUFSIZ + i]
          BY <1>0, <2>2
        <4> QED
          BY <2>3, <4>1 DEF ToSet
      <3> QED
        BY <2>3, <3>1, <3>2, <3>3 DEF ToSet
    <2>5. CASE LineBuffered
      <3>1. ToSet(<<>>) = {}
        BY DEF ToSet
      <3> QED
        BY <1>0, <2>5, <3>1 DEF Flushed, Kept
    <2>6. CASE ~LineBuffered
      <3>1. Flushed(b) = u /\ Kept(b) = v
        BY <1>1, <2>6 DEF Flushed, Kept, u, v
      <3> QED
        BY <1>0, <2>1, <2>2, <2>4, <3>1
    <2> QED
      BY <2>5, <2>6
  <1>2. CASE ~(n > BUFSIZ)
    <2>1. ToSet(<<>>) = {}
      BY DEF ToSet
    <2>2. \/ Flushed(b) = b /\ Kept(b) = <<>>
          \/ Flushed(b) = <<>> /\ Kept(b) = b
      BY <1>2 DEF Flushed, Kept
    <2>3. Len(b) <= BUFSIZ /\ Len(<<>>) <= BUFSIZ
      BY <1>0, <1>2
    <2> QED
      BY <1>0, <2>1, <2>2, <2>3
  <1> QED
    BY <1>1, <1>2

\* The two cells of a line.
LEMMA LineFacts ==
    ASSUME NEW f \in Files \cup {"garbage"}
    PROVE  Line(f) \in Seq(Cells) /\ Len(Line(f)) = 2 /\ ToSet(Line(f)) = {<<f, 1>>, <<f, 2>>}
  <1>1. <<f, 1>> \in Cells /\ <<f, 2>> \in Cells
    BY DEF Cells
  <1> DEFINE a == <<f, 1>>
             b == <<f, 2>>
  <1> HIDE DEF a, b
  <1>2. <<a, b>> \in Seq(Cells) /\ Len(<<a, b>>) = 2
    BY <1>1 DEF a, b
  <1>3. ToSet(<<a, b>>) = {a, b}
    BY DEF ToSet
  <1> QED
    BY <1>2, <1>3 DEF Line, a, b

\* The entry that a process is at when it lists.
LEMMA EntryFacts ==
    ASSUME TypeInv, NEW p \in Processes, AtEntry(p)
    PROVE  /\ Where(p) \in Dirs
           /\ pos[p] \in DOMAIN Entries[Where(p)]
           /\ Entry(p) = Entries[Where(p)][pos[p]]
           /\ Entry(p) \in Dirs \cup Files
  <1>1. Where(p) \in Dirs /\ pos[p] \in Nat \ {0} /\ pos[p] <= Len(Entries[Where(p)])
    BY DEF TypeInv, PlaceOK, AtEntry
  <1>2. Entries[Where(p)] \in Seq(Dirs \cup Files)
    BY <1>1, ForensicAssumption
  <1>3. pos[p] \in DOMAIN Entries[Where(p)]
    BY <1>1, <1>2
  <1>4. Entry(p) = Entries[Where(p)][pos[p]]
    BY <1>1, ForensicAssumption DEF Entry
  <1> QED
    BY <1>1, <1>2, <1>3, <1>4

\* A process that does not step stays where it is.
LEMMA Elsewhere ==
    ASSUME NEW q \in Processes, PlaceOK(q), argv' = argv, pc'[q] = pc[q],
           pos'[q] = pos[q]
    PROVE  PlaceOK(q)'
  BY DEF PlaceOK, Where, Target, Entry

\* At the start nobody but Main is there, and nothing is printed.
LEMMA TypeInit == Init => TypeInv
  <1> SUFFICES ASSUME Init PROVE TypeInv
    OBVIOUS
  <1>1. <<>> \in Seq(Cells) /\ Len(<<>>) = 0 /\ BUFSIZ \in Nat /\ 0 <= BUFSIZ
    BY ForensicAssumption
  <1>2. TypeOK
    <2>1. \A p \in Processes : pos[p] \in Nat /\ Len(buf[p]) <= BUFSIZ
      BY <1>1 DEF Init
    <2>2. /\ argv \in Argvs /\ LOGFILENAME \in BOOLEAN /\ tty \in BOOLEAN
          /\ exit_program \in BOOLEAN
      BY Zenon DEF Init
    <2> QED
      BY <2>1, <2>2 DEF Init, TypeOK, Ends
  <1>3. /\ pos \in [Processes -> Nat \ {0}] /\ buf \in [Processes -> Seq(Cells)]
        /\ out \in Seq(Cells) /\ late \in [Processes -> Nat]
    BY <1>1 DEF Init
  <1>4. \A p \in Processes : PlaceOK(p)
    BY DEF Init, PlaceOK
  <1> QED
    BY <1>2, <1>3, <1>4 DEF TypeInv

\* What a process that ends in exit() does to the buffers.
LEMMA ExitFacts ==
    ASSUME TypeInv, NEW p \in Processes, NEW from, NEW status, Exit(p, from, status)
    PROVE  /\ pc[p] = from /\ pc' = [pc EXCEPT ![p] = status]
           /\ buf' = [buf EXCEPT ![p] = <<>>] /\ out' = out \o buf[p]
           /\ out' \in Seq(Cells) /\ buf' \in [Processes -> Seq(Cells)]
           /\ \A q \in Processes : Len(buf'[q]) <= BUFSIZ
           /\ ToSet(out') = ToSet(out) \cup ToSet(buf[p])
  <1>1. /\ pc[p] = from /\ pc' = [pc EXCEPT ![p] = status]
        /\ buf' = [buf EXCEPT ![p] = <<>>] /\ out' = out \o buf[p]
    BY DEF Exit, Go
  <1>2. out \in Seq(Cells) /\ buf \in [Processes -> Seq(Cells)] /\ buf[p] \in Seq(Cells)
    BY DEF TypeInv
  <1>3. out' \in Seq(Cells) /\ ToSet(out') = ToSet(out) \cup ToSet(buf[p])
    BY <1>1, <1>2, ConcatFacts
  <1>4. <<>> \in Seq(Cells) /\ Len(<<>>) <= BUFSIZ
    BY ForensicAssumption
  <1>5. buf' \in [Processes -> Seq(Cells)] /\ \A q \in Processes : Len(buf'[q]) <= BUFSIZ
    BY <1>1, <1>2, <1>4 DEF TypeInv, TypeOK
  <1> QED
    BY <1>1, <1>3, <1>5

\* What a printed line does to the buffers: it is in the output or kept.
LEMMA PrintFacts ==
    ASSUME TypeInv, NEW p \in Processes, NEW f \in Files \cup {"garbage"},
           PrintFileinfo(p, f)
    PROVE  /\ pc[p] = "stat" /\ pc' = [pc EXCEPT ![p] = AfterPrint(p)]
           /\ out' \in Seq(Cells) /\ buf' \in [Processes -> Seq(Cells)]
           /\ \A q \in Processes : Len(buf'[q]) <= BUFSIZ
           /\ \A q \in Processes : q # p => buf'[q] = buf[q]
           /\ ToSet(out) \subseteq ToSet(out')
           /\ ToSet(out') \cup ToSet(buf'[p]) =
                ToSet(out) \cup ToSet(buf[p]) \cup {<<f, 1>>, <<f, 2>>}
  <1> DEFINE b == buf[p] \o Line(f)
  <1>1. /\ pc[p] = "stat" /\ pc' = [pc EXCEPT ![p] = AfterPrint(p)]
        /\ out' = out \o Flushed(b) /\ buf' = [buf EXCEPT ![p] = Kept(b)]
    BY DEF PrintFileinfo, Go
  <1>2. /\ out \in Seq(Cells) /\ buf \in [Processes -> Seq(Cells)]
        /\ buf[p] \in Seq(Cells) /\ Len(buf[p]) <= BUFSIZ /\ Len(buf[p]) \in Nat
    BY DEF TypeInv, TypeOK
  <1>3. Line(f) \in Seq(Cells) /\ Len(Line(f)) = 2 /\ ToSet(Line(f)) = {<<f, 1>>, <<f, 2>>}
    BY LineFacts
  <1>4. b \in Seq(Cells) /\ Len(b) = Len(buf[p]) + 2
        /\ ToSet(b) = ToSet(buf[p]) \cup {<<f, 1>>, <<f, 2>>}
    <2>1. /\ b \in Seq(Cells) /\ Len(b) = Len(buf[p]) + Len(Line(f))
          /\ ToSet(b) = ToSet(buf[p]) \cup ToSet(Line(f))
      BY <1>2, <1>3, ConcatFacts, ZenonT(40)
    <2> QED
      BY <1>3, <2>1
  <1>5. Len(b) <= BUFSIZ + 2
    BY <1>2, <1>4, ForensicAssumption
  <1> HIDE DEF b
  <1>6. /\ Flushed(b) \in Seq(Cells) /\ Kept(b) \in Seq(Cells) /\ Len(Kept(b)) <= BUFSIZ
        /\ ToSet(b) = ToSet(Flushed(b)) \cup ToSet(Kept(b))
    BY <1>4, <1>5, CutFacts
  <1>7. out' \in Seq(Cells) /\ ToSet(out') = ToSet(out) \cup ToSet(Flushed(b))
    BY <1>1, <1>2, <1>6, ConcatFacts
  <1>8. /\ buf' \in [Processes -> Seq(Cells)] /\ buf'[p] = Kept(b)
        /\ \A q \in Processes : Len(buf'[q]) <= BUFSIZ
        /\ \A q \in Processes : q # p => buf'[q] = buf[q]
    BY <1>1, <1>2, <1>6 DEF TypeInv, TypeOK
  <1> QED
    BY <1>1, <1>4, <1>6, <1>7, <1>8

\* The types of the signals and of the counters.
SignalsOK ==
    /\ signalled \subseteq sent /\ sent \subseteq Dirs \cup Files
    /\ pending \subseteq {"SIGUSR1", "SIGUSR2"}
    /\ dirs \in Nat /\ files \in Nat

\* A signal keeps them.
LEMMA NotifyTypes ==
    ASSUME TypeInv, NEW p, NEW e \in Dirs \cup Files, Notify(p, e),
           signalled' \in {signalled, signalled \cup {e}}
    PROVE  SignalsOK'
  <1>1. pending' \subseteq {"SIGUSR1", "SIGUSR2"}
    BY DEF TypeInv, TypeOK, Notify
  <1>2. dirs' \in Nat /\ files' \in Nat
    BY DEF TypeInv, TypeOK, Notify
  <1>3. signalled' \subseteq sent' /\ sent' \subseteq Dirs \cup Files
    BY DEF TypeInv, TypeOK, Notify
  <1> QED
    BY <1>1, <1>2, <1>3 DEF SignalsOK

\* So does an announcement.
LEMMA AnnounceTypes ==
    ASSUME TypeInv, NEW p \in Processes, AtEntry(p), Announce(p)
    PROVE  SignalsOK'
  <1>1. CASE Raised("-o")
    BY <1>1, NotifyTypes, EntryFacts DEF Announce
  <1>2. CASE ~Raised("-o")
    BY <1>2 DEF Announce, TypeInv, TypeOK, SignalsOK
  <1> QED
    BY <1>1, <1>2

\* Main starts on its target if that can be opened.
LEMMA TypeStart == TypeInv /\ Start => TypeInv'
  <1> SUFFICES ASSUME TypeInv, Start PROVE TypeInv'
    OBVIOUS
  <1>0. Main \in Processes
    BY DEF Processes
  <1>1. PICK to \in {"success", "failure", "list", "stat"} :
          /\ pc' = [pc EXCEPT ![Main] = to]
          /\ to = "list" => Target \in Dirs
          /\ to = "stat" => Target \in Files
    BY DEF Start, Go, Opened, Exists
  <1>2. UNCHANGED <<argv, LOGFILENAME, tty, pos, buf, out, analized, signalled,
                    exit_program, spoilt, pending, dirs, files, sent, late>>
    BY DEF Start, signalVars
  <1>3. ASSUME NEW q \in Processes PROVE PlaceOK(q)'
    <2>1. CASE q = Main
      <3>1. pc'[Main] = to
        BY <1>0, <1>1 DEF TypeInv, TypeOK
      <3> QED
        BY <1>1, <1>2, <2>1, <3>1 DEF PlaceOK, Where, Target, Entry
    <2>2. CASE q # Main
      BY <1>1, <1>2, <2>2, Elsewhere DEF TypeInv, TypeOK
    <2> QED
      BY <2>1, <2>2
  <1>4. pc' \in [Processes -> {"none", "main", "list", "stat", "wait", "exit"} \cup Ends]
    BY <1>1 DEF TypeInv, TypeOK, Ends
  <1> QED
    BY <1>2, <1>3, <1>4 DEF TypeInv, TypeOK

\* The steps that end a process.
LEMMA TypeEnd ==
    ASSUME TypeInv, NEW p \in Processes,
           AnnounceFails(p) \/ ReportFails(p) \/ Quit(p) \/ Crash(p) \/ Finish(p)
    PROVE  TypeInv'
  <1>1. /\ UNCHANGED <<argv, LOGFILENAME, tty, exit_program, spoilt, pos, late>>
        /\ pc' \in {[pc EXCEPT ![p] = "failure"], [pc EXCEPT ![p] = "crash"],
                     [pc EXCEPT ![p] = "success"]}
    BY DEF AnnounceFails, ReportFails, Quit, Crash, Finish, Exit, Go, inputVars, signalVars
  <1>2. PICK e \in Ends : pc' = [pc EXCEPT ![p] = e]
    BY <1>1 DEF Ends
  <1>3. pc' \in [Processes -> {"none", "main", "list", "stat", "wait", "exit"} \cup Ends]
    BY <1>2 DEF TypeInv, TypeOK
  <1>4. ASSUME NEW q \in Processes PROVE PlaceOK(q)'
    <2>1. CASE q = p
      <3>1. pc'[p] \in Ends
        BY <1>2 DEF TypeInv, TypeOK
      <3> QED
        BY <2>1, <3>1 DEF PlaceOK, Ends
    <2>2. CASE q # p
      BY <1>1, <1>2, <2>2, Elsewhere DEF TypeInv, TypeOK
    <2> QED
      BY <2>1, <2>2
  <1>5. /\ buf' \in [Processes -> Seq(Cells)] /\ out' \in Seq(Cells)
        /\ \A q \in Processes : Len(buf'[q]) <= BUFSIZ
    <2>1. CASE AnnounceFails(p) \/ ReportFails(p) \/ Quit(p) \/ Finish(p)
      BY <2>1, ExitFacts DEF AnnounceFails, ReportFails, Quit, Finish
    <2>2. CASE Crash(p)
      <3>1. <<>> \in Seq(Cells) /\ Len(<<>>) <= BUFSIZ
        BY ForensicAssumption
      <3> QED
        BY <2>2, <3>1 DEF Crash, TypeInv, TypeOK
    <2> QED
      BY <2>1, <2>2
  <1>6. analized' \in [Files -> Nat]
    <2>1. CASE LogAnalized(p) /\ pc[p] = "stat"
      BY <2>1 DEF LogAnalized, TypeInv, TypeOK, PlaceOK
    <2>2. CASE UNCHANGED analized
      BY <2>2 DEF TypeInv, TypeOK
    <2> QED
      BY <2>1, <2>2 DEF AnnounceFails, ReportFails, Quit, Crash, Finish, Go
  <1>7. SignalsOK'
    <2>1. CASE AnnounceFails(p)
      BY <2>1, EntryFacts, NotifyTypes DEF AnnounceFails
    <2>2. CASE UNCHANGED <<signalled, pending, dirs, files, sent>>
      BY <2>2 DEF SignalsOK, TypeInv, TypeOK
    <2> QED
      BY <2>1, <2>2 DEF ReportFails, Quit, Crash, Finish, signalVars
  <1> QED
    BY <1>1, <1>3, <1>4, <1>5, <1>6, <1>7 DEF TypeInv, TypeOK, SignalsOK

\* The steps through a directory, but fork.
LEMMA TypeList ==
    ASSUME TypeInv, NEW p \in Processes, SkipDirectory(p) \/ Stat(p) \/ EndOfDirectory(p)
    PROVE  TypeInv'
  <1>1. CASE SkipDirectory(p)
    <2>1. UNCHANGED <<argv, LOGFILENAME, tty, exit_program, spoilt, late, buf, out,
                      analized, signalled, pending, dirs, files, sent>>
      BY <1>1 DEF SkipDirectory, inputVars, signalVars
    <2>2. /\ pc' = [pc EXCEPT ![p] = "list"] /\ pos' = [pos EXCEPT ![p] = @ + 1]
          /\ Where(p) \in Dirs
      BY <1>1, EntryFacts DEF SkipDirectory, Go
    <2>3. ASSUME NEW q \in Processes PROVE PlaceOK(q)'
      <3>1. CASE q = p
        <4>1. pc'[p] = "list" /\ Where(p)' = Where(p)
          BY <2>1, <2>2 DEF TypeInv, TypeOK, Where, Target
        <4> QED
          BY <2>2, <3>1, <4>1 DEF PlaceOK
      <3>2. CASE q # p
        BY <2>1, <2>2, <3>2, Elsewhere DEF TypeInv, TypeOK
      <3> QED
        BY <3>1, <3>2
    <2>4. /\ pc' \in [Processes -> {"none", "main", "list", "stat", "wait", "exit"} \cup Ends]
          /\ pos' \in [Processes -> Nat \ {0}]
      BY <2>2 DEF TypeInv, TypeOK
    <2> QED
      BY <2>1, <2>3, <2>4 DEF TypeInv, TypeOK
  <1>2. CASE Stat(p)
    <2>1. UNCHANGED <<argv, LOGFILENAME, tty, exit_program, spoilt, late, pos, analized>>
      BY <1>2 DEF Stat, inputVars
    <2>2. Entry(p) \in Files /\ Where(p) \in Dirs /\ pos[p] <= Len(Entries[Where(p)])
      BY <1>2, EntryFacts DEF Stat, AtEntry
    <2>3. PICK to \in {"stat", "failure"} : pc' = [pc EXCEPT ![p] = to]
      BY <1>2 DEF Stat, Go, Exit
    <2>4. ASSUME NEW q \in Processes PROVE PlaceOK(q)'
      <3>1. CASE q = p
        <4>1. pc'[p] = to /\ Where(p)' = Where(p) /\ Entry(p)' = Entry(p)
          BY <2>1, <2>3 DEF TypeInv, TypeOK, Where, Target, Entry
        <4> QED
          BY <2>1, <2>2, <2>3, <3>1, <4>1 DEF PlaceOK
      <3>2. CASE q # p
        BY <2>1, <2>3, <3>2, Elsewhere DEF TypeInv, TypeOK
      <3> QED
        BY <3>1, <3>2
    <2>5. pc' \in [Processes -> {"none", "main", "list", "stat", "wait", "exit"} \cup Ends]
      BY <2>3 DEF TypeInv, TypeOK, Ends
    <2>6. /\ buf' \in [Processes -> Seq(Cells)] /\ out' \in Seq(Cells)
          /\ \A q \in Processes : Len(buf'[q]) <= BUFSIZ
      <3>1. CASE UNCHANGED <<buf, out>>
        BY <3>1 DEF TypeInv, TypeOK
      <3>2. CASE Exit(p, "list", "failure")
        BY <3>2, ExitFacts
      <3> QED
        BY <1>2, <3>1, <3>2 DEF Stat
    <2>7. SignalsOK'
      BY <1>2, AnnounceTypes DEF Stat
    <2> QED
      BY <2>1, <2>4, <2>5, <2>6, <2>7 DEF TypeInv, TypeOK, SignalsOK
  <1>3. CASE EndOfDirectory(p)
    <2>1. UNCHANGED <<argv, LOGFILENAME, tty, exit_program, spoilt, late, buf, out, pos,
                      analized, signalled, pending, dirs, files, sent>>
      BY <1>3 DEF EndOfDirectory, inputVars, signalVars
    <2>2. /\ pc[p] = "list" /\ pc' = [pc EXCEPT ![p] = "wait"]
          /\ pos[p] > Len(Entries[Where(p)])
      BY <1>3 DEF EndOfDirectory, Go
    <2>3. ASSUME NEW q \in Processes PROVE PlaceOK(q)'
      <3>1. CASE q = p
        <4>1. pc'[p] = "wait" /\ Where(p)' = Where(p) /\ Where(p) \in Dirs
          BY <2>1, <2>2 DEF TypeInv, TypeOK, PlaceOK, Where, Target
        <4> QED
          BY <2>1, <2>2, <3>1, <4>1 DEF PlaceOK
      <3>2. CASE q # p
        BY <2>1, <2>2, <3>2, Elsewhere DEF TypeInv, TypeOK
      <3> QED
        BY <3>1, <3>2
    <2>4. pc' \in [Processes -> {"none", "main", "list", "stat", "wait", "exit"} \cup Ends]
      BY <2>2 DEF TypeInv, TypeOK
    <2> QED
      BY <2>1, <2>3, <2>4 DEF TypeInv, TypeOK
  <1> QED
    BY <1>1, <1>2, <1>3

\* What fork does: a child that begins with a copy of the buffer, ends at once,
\* writing its copy, or is never born.
LEMMA ForkFacts ==
    ASSUME TypeInv, NEW p \in Processes, Fork(p)
    PROVE  LET d == Entry(p)
           IN  /\ AtEntry(p) /\ pc[p] = "list" /\ d \in Dirs /\ d # Main /\ d \in Processes
               /\ Raised("-r") /\ pos' = [pos EXCEPT ![p] = @ + 1] /\ Announce(p)
               /\ UNCHANGED <<argv, LOGFILENAME, tty, command, exit_program, spoilt, late,
                              analized>>
               /\ \E to \in {"list", "failure", "unborn"} : pc' = [pc EXCEPT ![d] = to]
               /\ out' \in Seq(Cells) /\ buf' \in [Processes -> Seq(Cells)]
               /\ \A q \in Processes : Len(buf'[q]) <= BUFSIZ
               /\ \A q \in Processes : q # d => buf'[q] = buf[q]
               /\ ToSet(buf'[d]) \subseteq ToSet(buf[d]) \cup ToSet(buf[p])
               /\ ToSet(out) \subseteq ToSet(out')
               /\ ToSet(out') \subseteq ToSet(out) \cup ToSet(buf[p])
  <1> DEFINE d == Entry(p)
  <1>1. /\ AtEntry(p) /\ d \in Dirs /\ Raised("-r") /\ Announce(p)
        /\ pos' = [pos EXCEPT ![p] = @ + 1]
        /\ UNCHANGED <<argv, LOGFILENAME, tty, command, exit_program, spoilt, late, analized>>
    BY DEF Fork, inputVars
  <1>2. d # Main /\ d \in Processes /\ d \notin Files
    BY <1>1, ForensicAssumption DEF Processes
  <1> HIDE DEF d
  <1>3. /\ out \in Seq(Cells) /\ buf \in [Processes -> Seq(Cells)] /\ buf[p] \in Seq(Cells)
        /\ \A q \in Processes : Len(buf[q]) <= BUFSIZ
        /\ <<>> \in Seq(Cells) /\ Len(<<>>) <= BUFSIZ
    BY ForensicAssumption DEF TypeInv, TypeOK
  <1>4. ToSet(<<>>) = {}
    BY DEF ToSet
  <1>5. CASE /\ pc' = [pc EXCEPT ![d] = Opened(d)]
             /\ buf' = [buf EXCEPT ![d] = IF d \in Locked THEN <<>> ELSE buf[p]]
             /\ out' = IF d \in Locked THEN out \o buf[p] ELSE out
    <2>1. Opened(d) \in {"list", "failure", "unborn"}
      BY <1>2 DEF Opened
    <2>2. /\ out' \in Seq(Cells) /\ ToSet(out) \subseteq ToSet(out')
          /\ ToSet(out') \subseteq ToSet(out) \cup ToSet(buf[p])
      BY <1>3, <1>5, ConcatFacts
    <2>3. /\ buf' \in [Processes -> Seq(Cells)]
          /\ \A q \in Processes : Len(buf'[q]) <= BUFSIZ
          /\ \A q \in Processes : q # d => buf'[q] = buf[q]
          /\ buf'[d] \in {<<>>, buf[p]}
      BY <1>2, <1>3, <1>5
    <2> QED
      BY <1>1, <1>2, <1>4, <1>5, <2>1, <2>2, <2>3 DEF d, AtEntry
  <1>6. CASE pc' = [pc EXCEPT ![d] = "unborn"] /\ UNCHANGED <<buf, out>>
    BY <1>1, <1>2, <1>3, <1>6 DEF d, AtEntry
  <1> QED
    BY <1>5, <1>6 DEF Fork, d

\* A fork keeps the types.
LEMMA TypeFork ==
    ASSUME TypeInv, NEW p \in Processes, Fork(p)
    PROVE  TypeInv'
  <1>0. PICK d \in Dirs : d = Entry(p)
    BY ForkFacts
  <1>1. /\ AtEntry(p) /\ pc[p] = "list" /\ d \in Dirs /\ d # Main /\ d \in Processes
        /\ pos' = [pos EXCEPT ![p] = @ + 1] /\ Announce(p)
        /\ UNCHANGED <<argv, LOGFILENAME, tty, exit_program, spoilt, late, analized>>
        /\ out' \in Seq(Cells) /\ buf' \in [Processes -> Seq(Cells)]
        /\ \A q \in Processes : Len(buf'[q]) <= BUFSIZ
    BY <1>0, ForkFacts
  <1>2. PICK to \in {"list", "failure", "unborn"} : pc' = [pc EXCEPT ![d] = to]
    BY <1>0, ForkFacts
  <1>3. Where(p) \in Dirs
    BY <1>1, EntryFacts
  <1>4. ASSUME NEW q \in Processes PROVE PlaceOK(q)'
    <2>1. CASE q = d
      <3>1. pc'[d] = to /\ Where(d)' = d
        BY <1>1, <1>2 DEF TypeInv, TypeOK, Where
      <3> QED
        BY <1>1, <2>1, <3>1 DEF PlaceOK
    <2>2. CASE q = p /\ q # d
      <3>1. pc'[p] = "list" /\ Where(p)' = Where(p)
        BY <1>1, <1>2, <2>2 DEF TypeInv, TypeOK, Where, Target
      <3> QED
        BY <1>3, <2>2, <3>1 DEF PlaceOK
    <2>3. CASE q # p /\ q # d
      BY <1>1, <1>2, <2>3, Elsewhere DEF TypeInv, TypeOK
    <2> QED
      BY <2>1, <2>2, <2>3
  <1>5. /\ pc' \in [Processes -> {"none", "main", "list", "stat", "wait", "exit"} \cup Ends]
        /\ pos' \in [Processes -> Nat \ {0}]
    BY <1>1, <1>2 DEF TypeInv, TypeOK, Ends
  <1>6. SignalsOK'
    BY <1>1, AnnounceTypes
  <1> QED
    BY <1>1, <1>4, <1>5, <1>6 DEF TypeInv, TypeOK, SignalsOK

\* What Report does.
LEMMA ReportFacts ==
    ASSUME TypeInv, NEW p \in Processes, Report(p)
    PROVE  /\ pc[p] = "stat" /\ Entry(p) \in Files
           /\ pc' = [pc EXCEPT ![p] = AfterPrint(p)]
           /\ pos' = [pos EXCEPT ![p] = @ + 1]
           /\ UNCHANGED <<argv, LOGFILENAME, tty, command, exit_program, spoilt,
                          signalled, pending, dirs, files, sent>>
           /\ LogAnalized(p)
           /\ late' = IF exit_program THEN [late EXCEPT ![p] = @ + 1] ELSE late
           /\ \E f \in {Entry(p), "garbage"} :
                /\ f = "garbage" => p \in spoilt
                /\ PrintFileinfo(p, f)
  <1>1. pc[p] = "stat" /\ Entry(p) \in Files
    BY DEF Report, TypeInv, PlaceOK
  <1>2. PICK f \in {Entry(p)} \cup (IF p \in spoilt THEN {"garbage"} ELSE {}) :
          PrintFileinfo(p, f)
    BY DEF Report
  <1>3. f \in {Entry(p), "garbage"} /\ (f = "garbage" => p \in spoilt)
    BY <1>1, <1>2, ForensicAssumption
  <1>4. pc' = [pc EXCEPT ![p] = AfterPrint(p)]
    BY <1>2 DEF PrintFileinfo, Go
  <1> QED
    BY <1>1, <1>2, <1>3, <1>4 DEF Report, inputVars

\* The end of dump_stat keeps the types: a line fits into an empty buffer.
LEMMA TypeReport ==
    ASSUME TypeInv, NEW p \in Processes, Report(p)
    PROVE  TypeInv'
  <1>1. /\ pc[p] = "stat" /\ Entry(p) \in Files
        /\ pc' = [pc EXCEPT ![p] = AfterPrint(p)] /\ pos' = [pos EXCEPT ![p] = @ + 1]
        /\ UNCHANGED <<argv, LOGFILENAME, tty, exit_program, spoilt, signalled, pending,
                       dirs, files, sent>>
        /\ LogAnalized(p)
        /\ late' = IF exit_program THEN [late EXCEPT ![p] = @ + 1] ELSE late
    BY ReportFacts
  <1>2. PICK f \in Files \cup {"garbage"} : PrintFileinfo(p, f)
    BY ReportFacts
  <1>3. /\ out' \in Seq(Cells) /\ buf' \in [Processes -> Seq(Cells)]
        /\ \A q \in Processes : Len(buf'[q]) <= BUFSIZ
    BY <1>2, PrintFacts
  <1>4. ASSUME NEW q \in Processes PROVE PlaceOK(q)'
    <2>1. CASE q = p
      <3>1. pc'[p] = AfterPrint(p) /\ Where(p)' = Where(p)
        BY <1>1 DEF TypeInv, TypeOK, Where, Target
      <3>2. Where(p) \in Dirs \cup Files
        BY <1>1 DEF TypeInv, PlaceOK
      <3> QED
        BY <2>1, <3>1, <3>2 DEF PlaceOK, AfterPrint
    <2>2. CASE q # p
      BY <1>1, <2>2, Elsewhere DEF TypeInv, TypeOK
    <2> QED
      BY <2>1, <2>2
  <1>5. /\ pc' \in [Processes -> {"none", "main", "list", "stat", "wait", "exit"} \cup Ends]
        /\ pos' \in [Processes -> Nat \ {0}]
    BY <1>1 DEF TypeInv, TypeOK, AfterPrint
  <1>6. analized' \in [Files -> Nat] /\ late' \in [Processes -> Nat]
    BY <1>1 DEF TypeInv, TypeOK, LogAnalized
  <1> QED
    BY <1>1, <1>3, <1>4, <1>5, <1>6 DEF TypeInv, TypeOK

\* Every step keeps the types.
LEMMA TypeStep == TypeInv /\ [Next]_vars => TypeInv'
  <1> SUFFICES ASSUME TypeInv, [Next]_vars PROVE TypeInv'
    OBVIOUS
  <1>1. ASSUME NEW p \in Processes, ProcessStep(p) PROVE TypeInv'
    BY <1>1, TypeEnd, TypeList, TypeFork, TypeReport DEF ProcessStep
  <1>2. ASSUME NEW signo \in {"SIGUSR1", "SIGUSR2"}, Handle(signo) PROVE TypeInv'
    <2>1. UNCHANGED <<inputVars, pc, pos, buf, out, analized, signalled, exit_program,
                      spoilt, sent, late>>
      BY <1>2 DEF Handle
    <2>2. pending' \subseteq {"SIGUSR1", "SIGUSR2"} /\ dirs' \in Nat /\ files' \in Nat
      BY <1>2 DEF Handle, TypeInv, TypeOK
    <2>3. \A q \in Processes : PlaceOK(q)'
      BY <2>1, Elsewhere DEF TypeInv, inputVars
    <2> QED
      BY <2>1, <2>2, <2>3 DEF TypeInv, TypeOK, inputVars
  <1>3. CASE Interrupt
    <2>1. UNCHANGED <<inputVars, pc, pos, buf, out, analized, signalled, pending, dirs,
                      files, sent, late>>
      BY <1>3 DEF Interrupt
    <2>2. exit_program' \in BOOLEAN /\ spoilt' \subseteq Processes
      BY <1>3 DEF Interrupt
    <2>3. \A q \in Processes : PlaceOK(q)'
      BY <2>1, Elsewhere DEF TypeInv, inputVars
    <2> QED
      BY <2>1, <2>2, <2>3 DEF TypeInv, TypeOK, inputVars
  <1>4. CASE UNCHANGED vars
    <2>1. \A q \in Processes : PlaceOK(q)'
      BY <1>4, Elsewhere DEF TypeInv, vars, inputVars
    <2> QED
      BY <1>4, <2>1 DEF TypeInv, TypeOK, vars, inputVars, signalVars
  <1> QED
    BY <1>1, <1>2, <1>3, <1>4, TypeStart DEF Next

\* The processes, the buffers and the counters keep to their types: no buffer
\* grows over its size, also in a child that has inherited a full one.
THEOREM TypeCorrect == Spec => []TypeOK
  <1>1. TypeInv => TypeOK
    BY DEF TypeInv
  <1> QED
    BY <1>1, TypeInit, TypeStep, PTL DEF Spec

-----------------------------------------------------------------------------
(* The tree of processes.  A process is forked for a directory below the   *)
(* target only, and once: when its parent comes to it, it does not exist.  *)

Depth ==
    CHOOSE depth \in [Dirs -> 0 .. Cardinality(Dirs)] :
        \A d \in Dirs : \A i \in DOMAIN Entries[d] :
            Entries[d][i] \in Dirs => depth[Entries[d][i]] > depth[d]

\* The processes that may have a directory to list.
Lists(p) == Target \in Dirs /\ p # Target

Unused(d) == pos[d] = 1 /\ buf[d] = <<>> /\ late[d] = 0

TreeInv ==
    /\ \A d \in Dirs :
        IF pc[d] = "none" THEN Unused(d)
                          ELSE Target \in Dirs /\ Depth[d] > Depth[Target]
    /\ \A p \in Processes : Lists(p) =>
        \A j \in DOMAIN Entries[Where(p)] :
            Entries[Where(p)][j] \in Dirs /\ j >= pos[p] => pc[Entries[Where(p)][j]] = "none"
    /\ pc[Main] = "main" =>
        /\ out = <<>> /\ \A p \in Processes : buf[p] = <<>>
        /\ \A d \in Dirs : pc[d] = "none"

Live == {"list", "stat", "wait", "exit"}

\* The depth of an entry is more than that of its directory.
LEMMA DepthFacts ==
    /\ Depth \in [Dirs -> Nat]
    /\ \A d \in Dirs : \A i \in DOMAIN Entries[d] :
        Entries[d][i] \in Dirs => Depth[Entries[d][i]] > Depth[d]
  <1>1. \E depth \in [Dirs -> 0 .. Cardinality(Dirs)] :
          \A d \in Dirs : \A i \in DOMAIN Entries[d] :
            Entries[d][i] \in Dirs => depth[Entries[d][i]] > depth[d]
    BY ForensicAssumption DEF IsTree
  <1>2. /\ Depth \in [Dirs -> 0 .. Cardinality(Dirs)]
        /\ \A d \in Dirs : \A i \in DOMAIN Entries[d] :
             Entries[d][i] \in Dirs => Depth[Entries[d][i]] > Depth[d]
    BY <1>1, Zenon DEF Depth
  <1>3. Cardinality(Dirs) \in Nat
    BY FS_CardinalityType, ForensicAssumption
  <1> QED
    BY <1>2, <1>3

\* No two processes that list have an entry in common.
LEMMA OneParent ==
    ASSUME NEW p \in Processes, NEW q \in Processes, Lists(p), Lists(q),
           NEW i \in DOMAIN Entries[Where(p)], NEW j \in DOMAIN Entries[Where(q)],
           Entries[Where(p)][i] = Entries[Where(q)][j]
    PROVE  p = q /\ i = j
  <1>1. Where(p) \in Dirs /\ Where(q) \in Dirs
    BY DEF Where, Lists, Processes
  <1>2. Where(p) = Where(q) /\ i = j
    BY <1>1, ForensicAssumption DEF IsTree
  <1>3. p = q
    BY <1>2 DEF Where, Lists
  <1> QED
    BY <1>2, <1>3

\* A process that lists a directory, or waits at a file of one, is not the
\* target's namesake.
LEMMA ListsFacts ==
    ASSUME TypeInv, TreeInv, NEW p \in Processes, pc[p] # "none", Where(p) \in Dirs
    PROVE  Lists(p) /\ (p # Main => Depth[p] > Depth[Target])
  <1>1. CASE p = Main
    BY <1>1, ForensicAssumption DEF Where, Lists
  <1>2. CASE p # Main
    <2>1. p \in Dirs
      BY <1>2 DEF Processes
    <2>2. Target \in Dirs /\ Depth[p] > Depth[Target]
      BY <2>1 DEF TreeInv
    <2>3. p # Target
      BY <2>1, <2>2, DepthFacts
    <2> QED
      BY <1>2, <2>2, <2>3 DEF Lists
  <1> QED
    BY <1>1, <1>2

\* What all steps of a process but fork have in common.
LEMMA Moves ==
    ASSUME TypeInv, NEW p \in Processes, ProcessStep(p), ~Fork(p)
    PROVE  /\ pc[p] \in Live /\ pc'[p] \in Live \cup {"success", "failure", "crash"}
           /\ pc[p] = "exit" => Ended(p)'
           /\ pos'[p] \in {pos[p], pos[p] + 1}
           /\ \A q \in Processes : q # p =>
                pc'[q] = pc[q] /\ pos'[q] = pos[q] /\ buf'[q] = buf[q] /\ late'[q] = late[q]
           /\ argv' = argv /\ command' = command /\ exit_program' = exit_program
           /\ Report(p) \/ late' = late
  <1>1. CASE AnnounceFails(p) \/ ReportFails(p) \/ Quit(p) \/ Finish(p)
    <2>1. PICK from \in Live, status \in {"success", "failure"} : Exit(p, from, status)
      BY <1>1 DEF AnnounceFails, ReportFails, Quit, Finish, Live
    <2>2. pos' = pos /\ late' = late /\ argv' = argv /\ command' = command
          /\ exit_program' = exit_program
      BY <1>1 DEF AnnounceFails, ReportFails, Quit, Finish, inputVars, signalVars
    <2> QED
      BY <2>1, <2>2 DEF Exit, Go, TypeInv, TypeOK, Ended, Ends
  <1>2. CASE Crash(p)
    BY <1>2 DEF Crash, Go, TypeInv, TypeOK, Ended, Ends, Live, inputVars, signalVars
  <1>3. CASE SkipDirectory(p) \/ EndOfDirectory(p)
    BY <1>3 DEF SkipDirectory, EndOfDirectory, Go, TypeInv, TypeOK, Live, inputVars,
                signalVars
  <1>4. CASE Stat(p)
    BY <1>4 DEF Stat, Go, Exit, TypeInv, TypeOK, Live, inputVars
  <1>5. CASE Report(p)
    <2>1. /\ pc[p] = "stat" /\ pc' = [pc EXCEPT ![p] = AfterPrint(p)]
          /\ pos' = [pos EXCEPT ![p] = @ + 1]
          /\ argv' = argv /\ command' = command /\ exit_program' = exit_program
          /\ late' = IF exit_program THEN [late EXCEPT ![p] = @ + 1] ELSE late
      BY <1>5, ReportFacts
    <2>2. PICK f \in Files \cup {"garbage"} : PrintFileinfo(p, f)
      BY <1>5, ReportFacts
    <2>3. \A q \in Processes : q # p => buf'[q] = buf[q]
      BY <2>2, PrintFacts
    <2> QED
      BY <1>5, <2>1, <2>3 DEF TypeInv, TypeOK, AfterPrint, Live
  <1> QED
    BY <1>1, <1>2, <1>3, <1>4, <1>5 DEF ProcessStep

\* The rest: CTRL+C, the handler in Main, and steps of other programs.
LEMMA Quiet ==
    ASSUME \/ \E signo \in {"SIGUSR1", "SIGUSR2"} : Handle(signo)
           \/ Interrupt \/ UNCHANGED vars
    PROVE  UNCHANGED <<argv, command, pc, pos, buf, out, analized, signalled, sent, late>>
  BY DEF Handle, Interrupt, vars, inputVars, signalVars

\* At the start no directory has a process.
LEMMA TreeInit == Init => TreeInv
  <1> SUFFICES ASSUME Init PROVE TreeInv
    OBVIOUS
  <1>1. \A d \in Dirs : d \in Processes /\ d # Main
    BY ForensicAssumption DEF Processes
  <1>2. \A d \in Dirs : pc[d] = "none" /\ Unused(d)
    BY <1>1 DEF Init, Unused
  <1> QED
    BY <1>2 DEF Init, TreeInv

\* Every step keeps the tree of processes.
LEMMA TreeStep == TypeInv /\ TreeInv /\ [Next]_vars => TreeInv'
  <1> SUFFICES ASSUME TypeInv, TreeInv, [Next]_vars PROVE TreeInv'
    OBVIOUS
  <1>0. \A d \in Dirs : d \in Processes /\ d # Main
    BY ForensicAssumption DEF Processes
  <1>1. CASE Start
    <2>1. /\ \A q \in Processes : q # Main => pc'[q] = pc[q]
          /\ pc[Main] = "main" /\ pc'[Main] # "main"
      BY <1>1 DEF Start, Go, Opened, TypeInv, TypeOK, Processes
    <2>2. UNCHANGED <<argv, pos, buf, late>>
      BY <1>1 DEF Start, signalVars
    <2> QED
      BY <1>0, <2>1, <2>2 DEF TreeInv, Unused, Lists, Target, Where
  <1>2. ASSUME NEW p \in Processes, ProcessStep(p), ~Fork(p) PROVE TreeInv'
    <2>1. /\ pc[p] \in Live /\ pc'[p] \in Live \cup {"success", "failure", "crash"}
          /\ pos'[p] \in {pos[p], pos[p] + 1}
          /\ \A q \in Processes : q # p =>
               pc'[q] = pc[q] /\ pos'[q] = pos[q] /\ buf'[q] = buf[q] /\ late'[q] = late[q]
          /\ argv' = argv
      BY <1>2, Moves
    <2>2. Target' = Target /\ \A q : Where(q)' = Where(q) /\ (Lists(q)' <=> Lists(q))
      BY <2>1 DEF Target, Where, Lists
    <2>3. pc[Main] # "main" /\ pc'[Main] # "main"
      BY <1>0, <2>1 DEF TreeInv, Live, Processes
    <2>4. ASSUME NEW d \in Dirs
          PROVE  IF pc'[d] = "none" THEN Unused(d)'
                                    ELSE Target \in Dirs /\ Depth[d] > Depth[Target]
      <3>1. pc'[d] = "none" => d # p /\ pc[d] = "none"
        BY <1>0, <2>1 DEF Live
      <3>2. pc'[d] # "none" => pc[d] # "none"
        BY <1>0, <2>1 DEF Live
      <3> QED
        BY <1>0, <2>1, <3>1, <3>2 DEF TreeInv, Unused
    <2>5. ASSUME NEW q \in Processes, Lists(q), NEW j \in DOMAIN Entries[Where(q)],
                 Entries[Where(q)][j] \in Dirs, j >= pos'[q]
          PROVE  pc'[Entries[Where(q)][j]] = "none"
      <3>1. j >= pos[q]
        <4>1. pos[q] \in Nat /\ pos'[q] \in {pos[q], pos[q] + 1}
          BY <2>1 DEF TypeInv
        <4>2. Where(q) \in Dirs
          BY <2>5 DEF Where, Lists, Processes
        <4>3. j \in Nat
          BY <4>2, ForensicAssumption
        <4> QED
          BY <2>5, <4>1, <4>3
      <3>2. pc[Entries[Where(q)][j]] = "none"
        BY <2>5, <3>1 DEF TreeInv
      <3> QED
        BY <1>0, <2>1, <2>5, <3>2 DEF Live
    <2> QED
      BY <2>2, <2>3, <2>4, <2>5 DEF TreeInv
  <1>3. ASSUME NEW p \in Processes, Fork(p) PROVE TreeInv'
    <2>0. PICK d \in Dirs : d = Entry(p)
      BY <1>3, ForkFacts
    <2>1. /\ AtEntry(p) /\ pc[p] = "list" /\ d # Main /\ d \in Processes
          /\ pos' = [pos EXCEPT ![p] = @ + 1] /\ argv' = argv /\ late' = late
          /\ \A q \in Processes : q # d => buf'[q] = buf[q]
      BY <1>3, <2>0, ForkFacts
    <2>2. PICK to \in {"list", "failure", "unborn"} : pc' = [pc EXCEPT ![d] = to]
      BY <1>3, <2>0, ForkFacts
    <2>3. Target' = Target /\ \A q : Where(q)' = Where(q) /\ (Lists(q)' <=> Lists(q))
      BY <2>1 DEF Target, Where, Lists
    <2>4. /\ Where(p) \in Dirs /\ pos[p] \in DOMAIN Entries[Where(p)]
          /\ d = Entries[Where(p)][pos[p]]
      BY <2>0, <2>1, EntryFacts
    <2>5. Lists(p) /\ (p # Main => Depth[p] > Depth[Target])
      BY <2>1, <2>4, ListsFacts
    <2>6. /\ \A q \in Processes : pc'[q] = IF q = d THEN to ELSE pc[q]
          /\ \A q \in Processes : pos'[q] = IF q = p THEN pos[p] + 1 ELSE pos[q]
      BY <2>1, <2>2 DEF TypeInv, TypeOK
    <2>7. pc'[Main] # "main"
      BY <1>0, <2>1, <2>6 DEF TreeInv, Processes
    <2>8. Target \in Dirs /\ Depth[d] > Depth[Target]
      <3>1. Depth[d] > Depth[Where(p)]
        BY <2>4, DepthFacts
      <3>2. Target \in Dirs /\ Where(p) = IF p = Main THEN Target ELSE p
        BY <2>5 DEF Lists, Where
      <3> QED
        BY <2>4, <2>5, <3>1, <3>2, DepthFacts
    <2>9. ASSUME NEW c \in Dirs
          PROVE  IF pc'[c] = "none" THEN Unused(c)'
                                    ELSE Target \in Dirs /\ Depth[c] > Depth[Target]
      <3>1. CASE c = d
        BY <2>1, <2>6, <2>8, <3>1
      <3>2. CASE c # d
        BY <1>0, <2>1, <2>6, <3>2 DEF TreeInv, Unused
      <3> QED
        BY <3>1, <3>2
    <2>10. ASSUME NEW q \in Processes, Lists(q), NEW j \in DOMAIN Entries[Where(q)],
                  Entries[Where(q)][j] \in Dirs, j >= pos'[q]
           PROVE  pc'[Entries[Where(q)][j]] = "none"
      <3>1. j >= pos[q] /\ ~(q = p /\ j = pos[p])
        <4>1. pos[q] \in Nat
          BY DEF TypeInv
        <4>2. Where(q) \in Dirs
          BY <2>10 DEF Where, Lists, Processes
        <4>3. j \in Nat
          BY <4>2, ForensicAssumption
        <4> QED
          BY <2>6, <2>10, <4>1, <4>3
      <3>2. Entries[Where(q)][j] # d
        BY <2>4, <2>5, <2>10, <3>1, OneParent
      <3>3. pc[Entries[Where(q)][j]] = "none"
        BY <2>10, <3>1 DEF TreeInv
      <3> QED
        BY <1>0, <2>6, <2>10, <3>2, <3>3
    <2> QED
      BY <2>3, <2>7, <2>9, <2>10 DEF TreeInv
  <1>4. CASE \/ \E signo \in {"SIGUSR1", "SIGUSR2"} : Handle(signo)
             \/ Interrupt \/ UNCHANGED vars
    <2>1. UNCHANGED <<argv, pc, pos, buf, out, late>>
      BY <1>4, Quiet
    <2> QED
      BY <2>1 DEF TreeInv, Unused, Lists, Where, Target
  <1> QED
    BY <1>1, <1>2, <1>3, <1>4 DEF Next

-----------------------------------------------------------------------------
(* After CTRL+C.  A process that has printed a line since is at its exit;  *)
(* a process is forked with a fresh count, because it did not exist.       *)

\* Every step keeps what holds after CTRL+C.
LEMMA StopStep == TypeInv /\ TreeInv /\ StopsAfterLine /\ [Next]_vars => StopsAfterLine'
  <1> SUFFICES ASSUME TypeInv, TreeInv, StopsAfterLine, [Next]_vars,
                      NEW q \in Processes
               PROVE  late'[q] <= 1 /\ (late'[q] = 1 => pc'[q] \in {"exit"} \cup Ends)
    BY DEF StopsAfterLine, Ended
  <1>0. late[q] \in Nat /\ late[q] <= 1 /\ (late[q] = 1 => pc[q] \in {"exit"} \cup Ends)
    BY DEF StopsAfterLine, Ended, TypeInv
  <1>1. CASE Start
    BY <1>0, <1>1 DEF Start, Go, Ends, TypeInv, TypeOK, signalVars
  <1>2. ASSUME NEW p \in Processes, ProcessStep(p), ~Fork(p)
        PROVE  late'[q] <= 1 /\ (late'[q] = 1 => pc'[q] \in {"exit"} \cup Ends)
    <2>1. /\ pc[p] \in Live /\ (pc[p] = "exit" => pc'[p] \in Ends)
          /\ q # p => pc'[q] = pc[q] /\ late'[q] = late[q]
          /\ Report(p) \/ late' = late
      BY <1>2, Moves DEF Ended
    <2>2. CASE q # p
      BY <1>0, <2>1, <2>2
    <2>3. CASE q = p /\ late' = late
      BY <1>0, <2>1, <2>3 DEF Live, Ends
    <2>4. CASE q = p /\ Report(p)
      <3>1. /\ pc[p] = "stat" /\ pc' = [pc EXCEPT ![p] = AfterPrint(p)]
            /\ late' = IF exit_program THEN [late EXCEPT ![p] = @ + 1] ELSE late
        BY <2>4, ReportFacts
      <3>2. late[q] = 0
        BY <1>0, <2>4, <3>1 DEF Ends
      <3> QED
        BY <2>4, <3>1, <3>2 DEF AfterPrint, TypeInv, TypeOK
    <2> QED
      BY <2>1, <2>2, <2>3, <2>4
  <1>3. ASSUME NEW p \in Processes, Fork(p)
        PROVE  late'[q] <= 1 /\ (late'[q] = 1 => pc'[q] \in {"exit"} \cup Ends)
    <2>0. PICK d \in Dirs : d = Entry(p)
      BY <1>3, ForkFacts
    <2>1. late' = late /\ AtEntry(p) /\ pc[p] = "list"
      BY <1>3, ForkFacts
    <2>2. PICK to \in {"list", "failure", "unborn"} : pc' = [pc EXCEPT ![d] = to]
      BY <1>3, <2>0, ForkFacts
    <2>3. /\ Where(p) \in Dirs /\ pos[p] \in DOMAIN Entries[Where(p)]
          /\ d = Entries[Where(p)][pos[p]] /\ pos[p] \in Nat
      BY <2>0, <2>1, EntryFacts DEF TypeInv
    <2>4. Lists(p)
      BY <2>1, <2>3, ListsFacts
    <2>5. pc[d] = "none"
      BY <2>3, <2>4 DEF TreeInv
    <2>6. late[d] = 0
      BY <2>5 DEF TreeInv, Unused
    <2> QED
      BY <1>0, <2>1, <2>2, <2>6 DEF TypeInv, TypeOK
  <1>4. CASE \/ \E signo \in {"SIGUSR1", "SIGUSR2"} : Handle(signo)
             \/ Interrupt \/ UNCHANGED vars
    BY <1>0, <1>4, Quiet
  <1> QED
    BY <1>1, <1>2, <1>3, <1>4 DEF Next

\* After CTRL+C a process prints at most one more line, also one that was born
\* later, and goes on to nothing but its end.
THEOREM StopsAfterOneLine == Spec => []StopsAfterLine
  <1>1. Init => StopsAfterLine
    BY DEF Init, StopsAfterLine
  <1> QED
    BY <1>1, TypeInit, TypeStep, TreeInit, TreeStep, StopStep, PTL DEF Spec

-----------------------------------------------------------------------------
(* Signals.  An entry that is still ahead of its process has not been      *)
(* announced, so that no signal is sent twice for it; a pending signal     *)
(* stands for one that was sent and is not yet counted.                    *)

Ahead(p, j) == j > pos[p] \/ (j = pos[p] /\ pc[p] \in {"none", "main", "list"})

Unsent ==
    \A p \in Processes : Lists(p) =>
        \A j \in DOMAIN Entries[Where(p)] : Ahead(p, j) => Entries[Where(p)][j] \notin sent

One(signo) == IF signo \in pending THEN 1 ELSE 0

Alone == \A d \in Dirs : pc[d] \in {"none", "unborn"}

Counts ==
    /\ dirs + One("SIGUSR1") <= Cardinality(sent \cap Dirs)
    /\ files + One("SIGUSR2") <= Cardinality(sent \cap Files)

Exact ==
    /\ pending = {}
    /\ dirs = Cardinality(sent \cap Dirs) /\ files = Cardinality(sent \cap Files)

CountInv == Unsent /\ Counts /\ (Alone => Exact)

\* A process that goes on listing has left an entry behind, and one that comes to
\* dump_stat was listing.
LEMMA Advances ==
    ASSUME TypeInv, NEW p \in Processes, ProcessStep(p), ~Fork(p)
    PROVE  /\ pc'[p] = "list" => pos'[p] = pos[p] + 1
           /\ pc'[p] = "stat" => Stat(p) /\ pos' = pos
           /\ pc[p] = "wait" => pos' = pos
  <1>1. CASE AnnounceFails(p) \/ ReportFails(p) \/ Quit(p) \/ Finish(p)
    <2>1. PICK from \in Live, status \in {"success", "failure"} : Exit(p, from, status)
      BY <1>1 DEF AnnounceFails, ReportFails, Quit, Finish, Live
    <2>2. pos' = pos
      BY <1>1 DEF AnnounceFails, ReportFails, Quit, Finish
    <2> QED
      BY <2>1, <2>2 DEF Exit, Go, TypeInv, TypeOK
  <1>2. CASE Crash(p) \/ EndOfDirectory(p)
    BY <1>2 DEF Crash, EndOfDirectory, Go, TypeInv, TypeOK
  <1>3. CASE SkipDirectory(p)
    BY <1>3 DEF SkipDirectory, Go, TypeInv, TypeOK
  <1>4. CASE Stat(p)
    BY <1>4 DEF Stat, Go, Exit, TypeInv, TypeOK
  <1>5. CASE Report(p)
    <2>1. /\ pc[p] = "stat" /\ pc' = [pc EXCEPT ![p] = AfterPrint(p)]
          /\ pos' = [pos EXCEPT ![p] = @ + 1]
      BY <1>5, ReportFacts
    <2>2. pc'[p] # "stat" /\ pos'[p] = pos[p] + 1
      BY <2>1 DEF AfterPrint, TypeInv, TypeOK
    <2> QED
      BY <2>1, <2>2
  <1> QED
    BY <1>1, <1>2, <1>3, <1>4, <1>5 DEF ProcessStep

\* A fork makes a process of a directory that has none.
LEMMA Born ==
    ASSUME TypeInv, TreeInv, NEW p \in Processes, Fork(p)
    PROVE  \E d \in Dirs, to \in {"list", "failure", "unborn"} :
             /\ d = Entry(p) /\ pc[d] = "none" /\ Unused(d) /\ d # p /\ d # Main
             /\ d \in Processes
             /\ pc' = [pc EXCEPT ![d] = to] /\ pos' = [pos EXCEPT ![p] = @ + 1]
             /\ \A q \in Processes : pc'[q] = IF q = d THEN to ELSE pc[q]
             /\ \A q \in Processes : pos'[q] = IF q = p THEN pos[p] + 1 ELSE pos[q]
             /\ argv' = argv /\ command' = command
  <1>0. PICK d \in Dirs : d = Entry(p)
    BY ForkFacts
  <1>1. /\ AtEntry(p) /\ pc[p] = "list" /\ d # Main /\ d \in Processes
        /\ pos' = [pos EXCEPT ![p] = @ + 1] /\ argv' = argv /\ command' = command
    BY <1>0, ForkFacts
  <1>2. PICK to \in {"list", "failure", "unborn"} : pc' = [pc EXCEPT ![d] = to]
    BY <1>0, ForkFacts
  <1>3. /\ Where(p) \in Dirs /\ pos[p] \in DOMAIN Entries[Where(p)]
        /\ d = Entries[Where(p)][pos[p]] /\ pos[p] \in Nat
    BY <1>0, <1>1, EntryFacts DEF TypeInv
  <1>4. Lists(p)
    BY <1>1, <1>3, ListsFacts
  <1>5. pc[d] = "none"
    BY <1>3, <1>4 DEF TreeInv
  <1>6. Unused(d) /\ d # p
    BY <1>1, <1>5 DEF TreeInv
  <1>7. /\ \A q \in Processes : pc'[q] = IF q = d THEN to ELSE pc[q]
        /\ \A q \in Processes : pos'[q] = IF q = p THEN pos[p] + 1 ELSE pos[q]
    BY <1>1, <1>2 DEF TypeInv, TypeOK
  <1> QED
    BY <1>0, <1>1, <1>2, <1>5, <1>6, <1>7

\* Nothing comes ahead of a process that was not, and a process that steps leaves
\* the entry it is at.
LEMMA AheadStep ==
    ASSUME TypeInv, TreeInv, NEW p \in Processes, ProcessStep(p), NEW q \in Processes,
           NEW j \in Nat, Ahead(q, j)'
    PROVE  Ahead(q, j) /\ (q = p => j > pos[p])
  <1>0. pos[q] \in Nat /\ pos[p] \in Nat
    BY DEF TypeInv
  <1>1. CASE Fork(p)
    <2>1. PICK d \in Dirs, to \in {"list", "failure", "unborn"} :
             /\ pc[d] = "none" /\ d # p
             /\ \A r \in Processes : pc'[r] = IF r = d THEN to ELSE pc[r]
             /\ \A r \in Processes : pos'[r] = IF r = p THEN pos[p] + 1 ELSE pos[r]
      BY <1>1, Born
    <2> QED
      BY <1>0, <2>1 DEF Ahead
  <1>2. CASE ~Fork(p)
    <2>1. /\ q # p => pc'[q] = pc[q] /\ pos'[q] = pos[q]
          /\ pos'[p] \in {pos[p], pos[p] + 1}
          /\ pc'[p] \in Live \cup {"success", "failure", "crash"}
          /\ pc'[p] = "list" => pos'[p] = pos[p] + 1
      BY <1>2, Moves, Advances
    <2> QED
      BY <1>0, <2>1 DEF Ahead, Live
  <1> QED
    BY <1>1, <1>2

\* A step sends nothing, or the signal for the entry that the process is at.
LEMMA Sends ==
    ASSUME TypeInv, NEW p \in Processes, ProcessStep(p)
    PROVE  \/ UNCHANGED <<pending, dirs, files, sent>>
           \/ AtEntry(p) /\ pc[p] = "list" /\ Notify(p, Entry(p))
  <1>1. CASE AnnounceFails(p)
    BY <1>1 DEF AnnounceFails, AtEntry
  <1>2. CASE Fork(p) \/ Stat(p)
    <2>1. AtEntry(p) /\ Announce(p)
      BY <1>2 DEF Fork, Stat
    <2> QED
      BY <2>1 DEF Announce, AtEntry
  <1>3. CASE \/ SkipDirectory(p) \/ Report(p) \/ ReportFails(p) \/ Crash(p) \/ Quit(p)
             \/ EndOfDirectory(p) \/ Finish(p)
    BY <1>3 DEF SkipDirectory, Report, ReportFails, Crash, Quit, EndOfDirectory, Finish,
                signalVars
  <1> QED
    BY <1>1, <1>2, <1>3 DEF ProcessStep

\* One element more is one more of its kind.
LEMMA AddOne ==
    ASSUME NEW S, IsFiniteSet(S), NEW T, NEW e, e \notin T
    PROVE  /\ Cardinality(T \cap S) \in Nat
           /\ Cardinality((T \cup {e}) \cap S) =
                IF e \in S THEN Cardinality(T \cap S) + 1 ELSE Cardinality(T \cap S)
  <1>1. IsFiniteSet(T \cap S) /\ Cardinality(T \cap S) \in Nat
    BY FS_Intersection, FS_CardinalityType
  <1>2. CASE e \in S
    <2>1. (T \cup {e}) \cap S = (T \cap S) \cup {e} /\ e \notin T \cap S
      BY <1>2
    <2> QED
      BY <1>1, <1>2, <2>1, FS_AddElement
  <1>3. CASE e \notin S
    <2>1. (T \cup {e}) \cap S = T \cap S
      BY <1>3
    <2> QED
      BY <1>1, <1>3, <2>1
  <1> QED
    BY <1>2, <1>3

\* A signal counts once: at once if Main sends it to itself.
LEMMA NotifyCounts ==
    ASSUME TypeInv, CountInv, NEW p \in Processes, NEW e \in Dirs \cup Files, e \notin sent,
           Notify(p, e)
    PROVE  Counts' /\ (p = Main /\ Exact => Exact')
  <1>0. /\ dirs \in Nat /\ files \in Nat
        /\ IsFiniteSet(Dirs) /\ IsFiniteSet(Files) /\ Dirs \cap Files = {}
        /\ One("SIGUSR1") \in Nat /\ One("SIGUSR2") \in Nat
    BY ForensicAssumption DEF TypeInv, TypeOK, One
  <1>1. /\ sent' = sent \cup {e}
        /\ Cardinality(sent \cap Dirs) \in Nat /\ Cardinality(sent \cap Files) \in Nat
        /\ Cardinality(sent' \cap Dirs) =
             IF e \in Dirs THEN Cardinality(sent \cap Dirs) + 1 ELSE Cardinality(sent \cap Dirs)
        /\ Cardinality(sent' \cap Files) =
             IF e \in Files THEN Cardinality(sent \cap Files) + 1
                            ELSE Cardinality(sent \cap Files)
    BY <1>0, AddOne DEF Notify
  <1>2. CASE p = Main
    <2>1. /\ dirs' = IF e \in Dirs THEN dirs + 1 ELSE dirs
          /\ files' = IF e \in Files THEN files + 1 ELSE files
          /\ pending' = pending
      BY <1>2 DEF Notify
    <2>2. One("SIGUSR1")' = One("SIGUSR1") /\ One("SIGUSR2")' = One("SIGUSR2")
      BY <2>1 DEF One
    <2> QED
      BY <1>0, <1>1, <2>1, <2>2 DEF CountInv, Counts, Exact
  <1>3. CASE p # Main
    <2>1. dirs' = dirs /\ files' = files
      BY <1>3 DEF Notify
    <2>2. /\ One("SIGUSR1")' <= IF e \in Dirs THEN One("SIGUSR1") + 1 ELSE One("SIGUSR1")
          /\ One("SIGUSR2")' <= IF e \in Files THEN One("SIGUSR2") + 1 ELSE One("SIGUSR2")
          /\ One("SIGUSR1")' \in Nat /\ One("SIGUSR2")' \in Nat
      BY <1>0 DEF Notify, One
    <2> QED
      BY <1>0, <1>1, <1>3, <2>1, <2>2 DEF CountInv, Counts
  <1> QED
    BY <1>2, <1>3

\* Every step keeps the count.
LEMMA CountStep == TypeInv /\ TreeInv /\ CountInv /\ [Next]_vars => CountInv'
  <1> SUFFICES ASSUME TypeInv, TreeInv, CountInv, [Next]_vars PROVE CountInv'
    OBVIOUS
  <1>0. /\ \A d \in Dirs : d \in Processes /\ d # Main
        /\ dirs \in Nat /\ files \in Nat
        /\ Cardinality(sent \cap Dirs) \in Nat /\ Cardinality(sent \cap Files) \in Nat
    BY ForensicAssumption, FS_Intersection, FS_CardinalityType
       DEF Processes, TypeInv, TypeOK
  <1>1. CASE Start
    <2>1. /\ \A q \in Processes : q # Main => pc'[q] = pc[q]
          /\ pc[Main] = "main"
          /\ UNCHANGED <<argv, pos, pending, dirs, files, sent>>
      BY <1>1 DEF Start, Go, TypeInv, TypeOK, signalVars
    <2>2. Alone' <=> Alone
      BY <1>0, <2>1 DEF Alone
    <2>3. Unsent'
      BY <2>1 DEF CountInv, Unsent, Ahead, Lists, Where, Target
    <2> QED
      BY <2>1, <2>2, <2>3 DEF CountInv, Counts, Exact, One
  <1>2. ASSUME NEW p \in Processes, ProcessStep(p) PROVE CountInv'
    <2>1. argv' = argv
      BY <1>2, Moves, Born
    <2>2. Target' = Target /\ \A q : Where(q)' = Where(q) /\ (Lists(q)' <=> Lists(q))
      BY <2>1 DEF Target, Where, Lists
    <2>3. Alone' => Alone
      <3>1. CASE Fork(p)
        BY <1>0, <3>1, Born DEF Alone
      <3>2. CASE ~Fork(p)
        <4>1. /\ pc'[p] \in Live \cup {"success", "failure", "crash"}
              /\ \A q \in Processes : q # p => pc'[q] = pc[q]
          BY <1>2, <3>2, Moves
        <4> QED
          BY <1>0, <4>1 DEF Alone, Live
      <3> QED
        BY <3>1, <3>2
    <2>4. ASSUME NEW q \in Processes, Lists(q), NEW j \in DOMAIN Entries[Where(q)], Ahead(q, j)'
          PROVE  /\ Entries[Where(q)][j] \notin sent
                 /\ q = p => j # pos[p]
      <3>1. j \in Nat /\ pos[p] \in Nat
        <4>1. Where(q) \in Dirs
          BY <2>4 DEF Where, Lists, Processes
        <4> QED
          BY <4>1, ForensicAssumption DEF TypeInv
      <3>2. Ahead(q, j) /\ (q = p => j > pos[p])
        BY <1>2, <2>4, <3>1, AheadStep
      <3> QED
        BY <2>4, <3>1, <3>2 DEF CountInv, Unsent
    <2>5. CASE UNCHANGED <<pending, dirs, files, sent>>
      <3>1. Unsent'
        BY <2>2, <2>4, <2>5 DEF Unsent
      <3> QED
        BY <2>3, <2>5, <3>1 DEF CountInv, Counts, Exact, One
    <2>6. CASE AtEntry(p) /\ pc[p] = "list" /\ Notify(p, Entry(p))
      <3>0. PICK e \in Dirs \cup Files : e = Entry(p)
        BY <2>6, EntryFacts
      <3>1. /\ Where(p) \in Dirs /\ pos[p] \in DOMAIN Entries[Where(p)]
            /\ e = Entries[Where(p)][pos[p]]
        BY <2>6, <3>0, EntryFacts
      <3>2. Lists(p)
        BY <2>6, <3>1, ListsFacts
      <3>3. e \notin sent
        BY <2>6, <3>1, <3>2 DEF CountInv, Unsent, Ahead
      <3>4. Counts' /\ (p = Main /\ Exact => Exact')
        BY <2>6, <3>0, <3>3, NotifyCounts
      <3>5. Alone => p = Main
        BY <1>0, <2>6 DEF Alone, Processes
      <3>6. Unsent'
        <4>1. ASSUME NEW q \in Processes, Lists(q), NEW j \in DOMAIN Entries[Where(q)],
                     Ahead(q, j)'
              PROVE  Entries[Where(q)][j] \notin sent'
          <5>1. Entries[Where(q)][j] \notin sent /\ (q = p => j # pos[p])
            BY <2>4, <4>1
          <5>2. Entries[Where(q)][j] # e
            BY <3>1, <3>2, <4>1, <5>1, OneParent
          <5> QED
            BY <2>6, <3>0, <5>1, <5>2 DEF Notify
        <4> QED
          BY <2>2, <4>1 DEF Unsent
      <3> QED
        BY <2>3, <3>4, <3>5, <3>6 DEF CountInv
    <2> QED
      BY <1>2, <2>5, <2>6, Sends
  <1>3. ASSUME NEW signo \in {"SIGUSR1", "SIGUSR2"}, Handle(signo) PROVE CountInv'
    <2>1. /\ signo \in pending /\ pending' = pending \ {signo}
          /\ dirs' = IF signo = "SIGUSR1" THEN dirs + 1 ELSE dirs
          /\ files' = IF signo = "SIGUSR2" THEN files + 1 ELSE files
          /\ UNCHANGED <<argv, pc, pos, sent>>
      BY <1>3 DEF Handle, inputVars
    <2>2. Unsent'
      BY <2>1 DEF CountInv, Unsent, Ahead, Lists, Where, Target
    <2>3. ~Alone /\ ~Alone'
      BY <2>1 DEF CountInv, Exact, Alone
    <2>4. /\ dirs' + One("SIGUSR1")' = dirs + One("SIGUSR1")
          /\ files' + One("SIGUSR2")' = files + One("SIGUSR2")
      BY <1>0, <2>1 DEF One
    <2> QED
      BY <2>1, <2>2, <2>3, <2>4 DEF CountInv, Counts
  <1>4. CASE Interrupt \/ UNCHANGED vars
    <2>1. UNCHANGED <<argv, pc, pos, pending, dirs, files, sent>>
      BY <1>4 DEF Interrupt, vars, inputVars, signalVars
    <2> QED
      BY <2>1 DEF CountInv, Unsent, Counts, Exact, One, Alone, Ahead, Lists, Where, Target
  <1> QED
    BY <1>1, <1>2, <1>3, <1>4 DEF Next

\* The entries of Main's own directory are counted when they are found.
Own ==
    /\ Cardinality(sent \cap Children(Main)) <= dirs
    /\ Cardinality(sent \cap FilesOf(Main)) <= files

\* The count of Main's own entries goes up only when Main announces one, which is
\* then new: the entries of other processes are in other directories.
LEMMA OwnNotify ==
    ASSUME TypeInv, TreeInv, CountInv, Own, NEW p \in Processes, AtEntry(p), pc[p] = "list",
           Notify(p, Entry(p)), argv' = argv
    PROVE  Own'
  <1>0. PICK e \in Dirs \cup Files : e = Entry(p)
    BY EntryFacts
  <1>1. /\ Where(p) \in Dirs /\ pos[p] \in DOMAIN Entries[Where(p)]
        /\ e = Entries[Where(p)][pos[p]]
    BY <1>0, EntryFacts
  <1>2. Lists(p) /\ Target \in Dirs /\ Lists(Main) /\ Where(Main) = Target
        /\ Main \in Processes
    BY <1>1, ListsFacts, ForensicAssumption DEF Lists, Where, Processes
  <1>3. e \notin sent
    BY <1>1, <1>2 DEF CountInv, Unsent, Ahead
  <1>4. p # Main => e \notin ToSet(Entries[Target])
    BY <1>1, <1>2, OneParent DEF ToSet
  <1>5. p = Main => e \in ToSet(Entries[Target])
    BY <1>1, <1>2 DEF ToSet
  <1> DEFINE D == ToSet(Entries[Target]) \cap Dirs
             F == ToSet(Entries[Target]) \cap Files
  <1>6. Children(Main) = D /\ FilesOf(Main) = F /\ Children(Main)' = D /\ FilesOf(Main)' = F
    BY <1>2 DEF Children, FilesOf, Where, Target
  <1>7. IsFiniteSet(D) /\ IsFiniteSet(F)
    BY ForensicAssumption, FS_Intersection
  <1>8. (e \in D => e \in Dirs /\ p = Main) /\ (e \in F => e \in Files /\ p = Main)
    BY <1>4
  <1> HIDE DEF D, F
  <1>9. /\ Cardinality(sent \cap D) \in Nat /\ Cardinality(sent \cap F) \in Nat
        /\ Cardinality((sent \cup {e}) \cap D) =
             IF e \in D THEN Cardinality(sent \cap D) + 1 ELSE Cardinality(sent \cap D)
        /\ Cardinality((sent \cup {e}) \cap F) =
             IF e \in F THEN Cardinality(sent \cap F) + 1 ELSE Cardinality(sent \cap F)
    BY <1>3, <1>7, AddOne
  <1>10. /\ sent' = sent \cup {e} /\ dirs \in Nat /\ files \in Nat
         /\ dirs' = IF p = Main /\ e \in Dirs THEN dirs + 1 ELSE dirs
         /\ files' = IF p = Main /\ e \in Files THEN files + 1 ELSE files
    BY <1>0 DEF Notify, TypeInv, TypeOK
  <1> QED
    BY <1>6, <1>8, <1>9, <1>10 DEF Own

\* Every step keeps it.
LEMMA OwnStep == TypeInv /\ TreeInv /\ CountInv /\ Own /\ [Next]_vars => Own'
  <1> SUFFICES ASSUME TypeInv, TreeInv, CountInv, Own, [Next]_vars PROVE Own'
    OBVIOUS
  <1>1. ASSUME argv' = argv, sent' = sent, dirs' >= dirs, files' >= files PROVE Own'
    <2>1. /\ Cardinality(sent \cap Children(Main)) \in Nat
          /\ Cardinality(sent \cap FilesOf(Main)) \in Nat
      <3>1. IsFiniteSet(Children(Main))
        BY ForensicAssumption, FS_Intersection, FS_EmptySet DEF Children
      <3>2. IsFiniteSet(FilesOf(Main))
        BY ForensicAssumption, FS_Intersection, FS_Singleton DEF FilesOf
      <3> QED
        BY <3>1, <3>2, FS_Intersection, FS_CardinalityType
    <2>2. Children(Main)' = Children(Main) /\ FilesOf(Main)' = FilesOf(Main)
      BY <1>1 DEF Children, FilesOf, Where, Target
    <2>3. dirs \in Nat /\ files \in Nat /\ dirs' \in Nat /\ files' \in Nat
      BY TypeStep DEF TypeInv, TypeOK
    <2> QED
      BY <1>1, <2>1, <2>2, <2>3 DEF Own
  <1>2. dirs \in Nat /\ files \in Nat
    BY DEF TypeInv, TypeOK
  <1>3. CASE Start
    <2>1. UNCHANGED <<argv, sent, dirs, files>>
      BY <1>3 DEF Start, signalVars
    <2> QED
      BY <1>1, <1>2, <2>1
  <1>4. ASSUME NEW p \in Processes, ProcessStep(p) PROVE Own'
    <2>1. argv' = argv
      BY <1>4, Moves, Born
    <2> QED
      BY <1>1, <1>2, <1>4, <2>1, Sends, OwnNotify
  <1>5. ASSUME NEW signo \in {"SIGUSR1", "SIGUSR2"}, Handle(signo) PROVE Own'
    BY <1>1, <1>2, <1>5 DEF Handle, inputVars
  <1>6. CASE Interrupt \/ UNCHANGED vars
    BY <1>1, <1>2, <1>6 DEF Interrupt, vars, inputVars, signalVars
  <1> QED
    BY <1>3, <1>4, <1>5, <1>6 DEF Next

\* The handler's counters never run ahead of the entries announced, although
\* signals merge; they never miss an entry of Main's own directory, and are exact
\* as long as no child was born.
THEOREM CountersCount == Spec => []Counted
  <1>1. Init => CountInv
    <2>1. ASSUME Init PROVE Counts /\ Exact
      <3>1. sent \cap Dirs = {} /\ sent \cap Files = {} /\ pending = {}
            /\ dirs = 0 /\ files = 0
        BY <2>1 DEF Init
      <3> QED
        BY <3>1, FS_EmptySet DEF Counts, Exact, One
    <2> QED
      BY <2>1 DEF Init, CountInv, Unsent
  <1>0. Init => Own
    <2> SUFFICES ASSUME Init PROVE Own
      OBVIOUS
    <2>1. sent \cap Children(Main) = {} /\ sent \cap FilesOf(Main) = {} /\ dirs = 0 /\ files = 0
      BY DEF Init
    <2> QED
      BY <2>1, FS_EmptySet DEF Own
  <1>2. TypeInv /\ CountInv /\ Own => Counted
    <2> SUFFICES ASSUME TypeInv, CountInv, Own PROVE Counted
      OBVIOUS
    <2>1. /\ dirs \in Nat /\ files \in Nat
          /\ Cardinality(sent \cap Dirs) \in Nat /\ Cardinality(sent \cap Files) \in Nat
      BY ForensicAssumption, FS_Intersection, FS_CardinalityType DEF TypeInv, TypeOK
    <2>2. dirs <= Cardinality(sent \cap Dirs) /\ files <= Cardinality(sent \cap Files)
      BY <2>1 DEF CountInv, Counts, One
    <2> QED
      BY <2>2 DEF CountInv, Exact, Alone, Own, Counted
  <1> QED
    BY <1>0, <1>1, <1>2, TypeInit, TypeStep, TreeInit, TreeStep, CountStep, OwnStep, PTL
       DEF Spec

-----------------------------------------------------------------------------
(* The log.  A file that is still ahead is not logged, so that none is     *)
(* logged twice; what is printed was logged and announced, wherever its    *)
(* line is now: in the output, in a buffer or in a copy of one.            *)

Untouched(p, j) ==
    j > pos[p] \/ (j = pos[p] /\ pc[p] \in {"none", "main", "list", "stat"})

Unlogged ==
    /\ Target \in Files /\ pc[Main] \in {"main", "stat"} => analized[Target] = 0
    /\ \A p \in Processes : Lists(p) =>
        \A j \in DOMAIN Entries[Where(p)] :
            Entries[Where(p)][j] \in Files /\ Untouched(p, j)
                => analized[Entries[Where(p)][j]] = 0

Accounted(f) ==
    /\ Raised("-v") => analized[f] = 1
    /\ Raised("-o") /\ Target \in Dirs => f \in signalled

Printed(f) ==
    \E i \in 1 .. 2 : <<f, i>> \in ToSet(out) \/ \E p \in Processes : <<f, i>> \in ToSet(buf[p])

LogInv ==
    /\ Unlogged
    /\ \A f \in Files : analized[f] <= 1 /\ (Printed(f) => Accounted(f))
    /\ \A p \in Processes :
        pc[p] = "stat" /\ Raised("-o") /\ Target \in Dirs => Entry(p) \in signalled

\* No file becomes untouched, and a process that leaves dump_stat leaves its file.
LEMMA UntouchedStep ==
    ASSUME TypeInv, TreeInv, NEW p \in Processes, ProcessStep(p), NEW q \in Processes,
           NEW j \in Nat, Untouched(q, j)'
    PROVE  Untouched(q, j) /\ (q = p /\ pc[p] = "stat" => j > pos[p])
  <1>0. pos[q] \in Nat /\ pos[p] \in Nat
    BY DEF TypeInv
  <1>1. CASE Fork(p)
    <2>1. PICK d \in Dirs, to \in {"list", "failure", "unborn"} :
             /\ pc[d] = "none" /\ d # p
             /\ \A r \in Processes : pc'[r] = IF r = d THEN to ELSE pc[r]
             /\ \A r \in Processes : pos'[r] = IF r = p THEN pos[p] + 1 ELSE pos[r]
      BY <1>1, Born
    <2> QED
      BY <1>0, <2>1 DEF Untouched
  <1>2. CASE ~Fork(p)
    <2>1. /\ q # p => pc'[q] = pc[q] /\ pos'[q] = pos[q]
          /\ pos'[p] \in {pos[p], pos[p] + 1}
          /\ pc'[p] \in Live \cup {"success", "failure", "crash"}
          /\ pc'[p] = "list" => pos'[p] = pos[p] + 1
          /\ pc'[p] = "stat" => Stat(p)
      BY <1>2, Moves, Advances
    <2>2. Stat(p) => pc[p] = "list"
      BY DEF Stat, AtEntry
    <2> QED
      BY <1>0, <2>1, <2>2 DEF Untouched, Live
  <1> QED
    BY <1>1, <1>2

\* A step leaves the log of files alone, or adds a line at the end of dump_stat.
LEMMA Logs ==
    ASSUME TypeInv, NEW p \in Processes, ProcessStep(p)
    PROVE  /\ \/ analized' = analized /\ ~Report(p)
              \/ pc[p] = "stat" /\ LogAnalized(p) /\ pc'[p] # "stat"
           /\ signalled \subseteq signalled'
           /\ argv' = argv /\ command' = command
  <1>1. CASE AnnounceFails(p) \/ SkipDirectory(p) \/ ReportFails(p) \/ Quit(p)
             \/ EndOfDirectory(p) \/ Finish(p)
    <2>1. UNCHANGED <<analized, signalled, argv, command>>
      BY <1>1 DEF AnnounceFails, SkipDirectory, ReportFails, Quit, EndOfDirectory, Finish,
                  inputVars
    <2>2. ~Report(p)
      BY <1>1 DEF AnnounceFails, SkipDirectory, ReportFails, Quit, EndOfDirectory, Finish,
                  Exit, Go, Report, AtEntry
    <2> QED
      BY <2>1, <2>2
  <1>2. CASE Fork(p) \/ Stat(p)
    <2>1. /\ UNCHANGED <<analized, argv, command>>
          /\ AtEntry(p) /\ Announce(p)
      BY <1>2 DEF Fork, Stat, inputVars
    <2> QED
      BY <2>1 DEF Announce, AtEntry, Report
  <1>3. CASE Crash(p)
    BY <1>3 DEF Crash, Go, Report, PrintFileinfo, AfterPrint, TypeInv, TypeOK, inputVars
  <1>4. CASE Report(p)
    <2>1. /\ pc[p] = "stat" /\ pc' = [pc EXCEPT ![p] = AfterPrint(p)]
          /\ LogAnalized(p) /\ UNCHANGED <<signalled, argv, command>>
      BY <1>4, ReportFacts
    <2>2. pc'[p] # "stat"
      BY <2>1 DEF AfterPrint, TypeInv, TypeOK
    <2> QED
      BY <2>1, <2>2
  <1> QED
    BY <1>1, <1>2, <1>3, <1>4 DEF ProcessStep

\* A line that is somewhere was there before, perhaps elsewhere, or is printed now.
LEMMA Prints ==
    ASSUME TypeInv, NEW p \in Processes, ProcessStep(p), NEW f \in Files, Printed(f)'
    PROVE  Printed(f) \/ (Report(p) /\ f = Entry(p))
  <1>0. PICK i \in 1 .. 2 :
          <<f, i>> \in ToSet(out') \/ \E q \in Processes : <<f, i>> \in ToSet(buf'[q])
    BY DEF Printed
  <1>1. CASE Report(p)
    <2>1. PICK g \in {Entry(p), "garbage"} : PrintFileinfo(p, g)
      BY <1>1, ReportFacts
    <2>2. g \in Files \cup {"garbage"}
      BY <1>1, <2>1, ReportFacts
    <2>3. /\ \A q \in Processes : q # p => buf'[q] = buf[q]
          /\ ToSet(out') \cup ToSet(buf'[p]) =
               ToSet(out) \cup ToSet(buf[p]) \cup {<<g, 1>>, <<g, 2>>}
      BY <2>1, <2>2, PrintFacts
    <2>4. CASE <<f, i>> \in ToSet(out') \cup ToSet(buf'[p])
      <3>1. \/ <<f, i>> \in ToSet(out) \/ <<f, i>> \in ToSet(buf[p])
            \/ <<f, i>> = <<g, 1>> \/ <<f, i>> = <<g, 2>>
        BY <2>3, <2>4
      <3>2. f = g => f = Entry(p)
        BY <2>1, ForensicAssumption
      <3> QED
        BY <1>1, <3>1, <3>2 DEF Printed
    <2>5. CASE \E q \in Processes : q # p /\ <<f, i>> \in ToSet(buf'[q])
      BY <2>3, <2>5 DEF Printed
    <2> QED
      BY <1>0, <2>4, <2>5
  <1>2. CASE Fork(p)
    <2>0. PICK d \in Dirs : d = Entry(p)
      BY <1>2, ForkFacts
    <2>1. /\ d \in Processes
          /\ \A q \in Processes : q # d => buf'[q] = buf[q]
          /\ ToSet(buf'[d]) \subseteq ToSet(buf[d]) \cup ToSet(buf[p])
          /\ ToSet(out') \subseteq ToSet(out) \cup ToSet(buf[p])
      BY <1>2, <2>0, ForkFacts
    <2> QED
      BY <1>0, <2>1 DEF Printed
  <1>3. CASE ~Report(p) /\ ~Fork(p)
    <2>1. \A q \in Processes : q # p => buf'[q] = buf[q]
      BY <1>3, Moves
    <2>2. ToSet(<<>>) = {}
      BY DEF ToSet
    <2>3. CASE UNCHANGED <<buf, out>>
      BY <1>0, <2>3 DEF Printed
    <2>4. CASE \E from, status : Exit(p, from, status)
      <3>1. buf' = [buf EXCEPT ![p] = <<>>] /\ ToSet(out') = ToSet(out) \cup ToSet(buf[p])
        BY <2>4, ExitFacts
      <3>2. buf'[p] = <<>>
        BY <3>1 DEF TypeInv
      <3> QED
        BY <1>0, <2>1, <2>2, <3>1, <3>2 DEF Printed
    <2>5. CASE Crash(p)
      <3>1. buf'[p] = <<>> /\ out' = out
        BY <2>5 DEF Crash, TypeInv
      <3> QED
        BY <1>0, <2>1, <2>2, <3>1 DEF Printed
    <2> QED
      BY <1>3, <2>3, <2>4, <2>5 DEF ProcessStep, AnnounceFails, SkipDirectory, Stat,
         ReportFails, Quit, EndOfDirectory, Finish
  <1> QED
    BY <1>1, <1>2, <1>3

\* The place of a process that is in dump_stat for a file of a directory.
LEMMA AtFile ==
    ASSUME TypeInv, TreeInv, NEW p \in Processes, pc[p] = "stat", Where(p) \notin Files
    PROVE  /\ Lists(p) /\ pos[p] \in DOMAIN Entries[Where(p)]
           /\ Entry(p) = Entries[Where(p)][pos[p]]
  <1>1. /\ Where(p) \in Dirs /\ pos[p] <= Len(Entries[Where(p)]) /\ pos[p] \in Nat \ {0}
    BY DEF TypeInv, PlaceOK
  <1>2. Entries[Where(p)] \in Seq(Dirs \cup Files)
    BY <1>1, ForensicAssumption
  <1>3. Lists(p)
    BY <1>1, ListsFacts
  <1> QED
    BY <1>1, <1>2, <1>3 DEF Entry

\* The file at which a process is in dump_stat is not logged yet.
LEMMA NotYet ==
    ASSUME TypeInv, TreeInv, LogInv, NEW p \in Processes, pc[p] = "stat"
    PROVE  Entry(p) \in Files /\ analized[Entry(p)] = 0
  <1>1. Entry(p) \in Files
    BY DEF TypeInv, PlaceOK
  <1>2. CASE Where(p) \in Files
    <2>1. p = Main /\ Entry(p) = Target /\ Target \in Files
      BY <1>2, ForensicAssumption DEF Where, Entry, Processes
    <2> QED
      BY <1>1, <2>1 DEF LogInv, Unlogged
  <1>3. CASE Where(p) \notin Files
    <2>1. /\ Lists(p) /\ pos[p] \in DOMAIN Entries[Where(p)]
          /\ Entry(p) = Entries[Where(p)][pos[p]]
      BY <1>3, AtFile
    <2>2. Untouched(p, pos[p])
      BY DEF Untouched
    <2> QED
      BY <1>1, <2>1, <2>2 DEF LogInv, Unlogged
  <1> QED
    BY <1>2, <1>3

\* A process's step keeps the log.
LEMMA LogProcess ==
    ASSUME TypeInv, TreeInv, LogInv, NEW p \in Processes, ProcessStep(p)
    PROVE  LogInv'
  <1>0. argv' = argv /\ command' = command /\ signalled \subseteq signalled'
    BY Logs
  <1>1. /\ Target' = Target /\ \A q : Where(q)' = Where(q) /\ (Lists(q)' <=> Lists(q))
        /\ \A flag : Raised(flag)' <=> Raised(flag)
    BY <1>0 DEF Target, Where, Lists, Raised
  <1>2. \/ analized' = analized /\ ~Report(p)
        \/ pc[p] = "stat" /\ LogAnalized(p) /\ pc'[p] # "stat"
    BY Logs
  <1>3. pc[p] = "stat" => Entry(p) \in Files /\ analized[Entry(p)] = 0
    BY NotYet
  <1>4. ASSUME NEW f \in Files
        PROVE  /\ analized'[f] \in {analized[f], 1}
               /\ analized'[f] # analized[f] => pc[p] = "stat" /\ f = Entry(p) /\ analized[f] = 0
    <2>1. CASE analized' = analized
      BY <2>1
    <2>2. CASE pc[p] = "stat" /\ LogAnalized(p)
      BY <1>3, <2>2 DEF LogAnalized, TypeInv, TypeOK
    <2> QED
      BY <1>2, <2>1, <2>2
  <1>5. Unlogged'
    <2>1. ASSUME Target \in Files, pc'[Main] \in {"main", "stat"} PROVE analized'[Target] = 0
      <3>0. Main \in Processes /\ Target \notin Dirs
        BY <2>1, ForensicAssumption DEF Processes
      <3>1. p = Main
        BY <3>0 DEF ProcessStep, TreeInv, Processes, AnnounceFails, SkipDirectory, Fork, Stat,
           Report, ReportFails, Crash, Quit, EndOfDirectory, Finish, Exit, Go, AtEntry
      <3>2. ~Fork(p)
        <4>1. Where(p) \notin Dirs
          BY <3>0, <3>1 DEF Where
        <4> QED
          BY <4>1, EntryFacts DEF Fork
      <3>3. Stat(p)
        BY <2>1, <3>1, <3>2, Moves, Advances DEF Live
      <3>4. FALSE
        <4>1. Where(p) \notin Dirs
          BY <3>0, <3>1 DEF Where
        <4> QED
          BY <3>3, <4>1, EntryFacts DEF Stat
      <3> QED
        BY <3>4
    <2>2. ASSUME NEW q \in Processes, Lists(q), NEW j \in DOMAIN Entries[Where(q)],
                 Entries[Where(q)][j] \in Files, Untouched(q, j)'
          PROVE  analized'[Entries[Where(q)][j]] = 0
      <3>1. j \in Nat /\ pos[p] \in Nat
        <4>1. Where(q) \in Dirs
          BY <2>2 DEF Where, Lists, Processes
        <4> QED
          BY <2>2, <4>1, ForensicAssumption DEF TypeInv
      <3>2. Untouched(q, j) /\ (q = p /\ pc[p] = "stat" => j > pos[p])
        BY <2>2, <3>1, UntouchedStep
      <3>3. analized[Entries[Where(q)][j]] = 0
        BY <2>2, <3>2 DEF LogInv, Unlogged
      <3>4. pc[p] = "stat" => Entries[Where(q)][j] # Entry(p)
        <4> SUFFICES ASSUME pc[p] = "stat", Entries[Where(q)][j] = Entry(p) PROVE FALSE
          OBVIOUS
        <4>1. Target \in Dirs /\ Target \notin Files
          BY <2>2, ForensicAssumption DEF Lists
        <4>2. Where(p) \notin Files
          BY <4>1, ForensicAssumption DEF Where, Processes
        <4>3. /\ Lists(p) /\ pos[p] \in DOMAIN Entries[Where(p)]
              /\ Entry(p) = Entries[Where(p)][pos[p]]
          BY <4>2, AtFile
        <4>4. p = q /\ pos[p] = j
          BY <2>2, <4>3, OneParent
        <4> QED
          BY <3>1, <3>2, <4>4
      <3> QED
        BY <1>4, <2>2, <3>3, <3>4
    <2> QED
      BY <1>1, <2>1, <2>2 DEF Unlogged
  <1>6. ASSUME NEW f \in Files PROVE analized'[f] <= 1 /\ (Printed(f)' => Accounted(f)')
    <2>1. analized'[f] <= 1
      <3>1. analized[f] <= 1
        BY DEF LogInv
      <3>2. analized'[f] = analized[f] \/ analized'[f] = 1
        BY <1>4
      <3> QED
        BY <3>1, <3>2
    <2>2. CASE Printed(f)
      <3>1. Accounted(f)
        BY <2>2 DEF LogInv
      <3> QED
        BY <1>0, <1>1, <1>4, <2>1, <3>1 DEF Accounted
    <2>3. CASE Report(p) /\ f = Entry(p)
      <3>1. pc[p] = "stat" /\ LogAnalized(p)
        BY <2>3, ReportFacts
      <3>2. Raised("-v") => analized'[f] = 1
        BY <1>3, <2>3, <3>1 DEF LogAnalized, TypeInv, TypeOK
      <3>3. Raised("-o") /\ Target \in Dirs => f \in signalled'
        BY <1>0, <2>3, <3>1 DEF LogInv
      <3> QED
        BY <1>1, <2>1, <3>2, <3>3 DEF Accounted
    <2> QED
      BY <2>1, <2>2, <2>3, Prints
  <1>7. ASSUME NEW q \in Processes, pc'[q] = "stat", Raised("-o"), Target \in Dirs
        PROVE  Entry(q)' \in signalled'
    <2>1. CASE Fork(p)
      <3>1. PICK d \in Dirs, to \in {"list", "failure", "unborn"} :
              /\ \A r \in Processes : pc'[r] = IF r = d THEN to ELSE pc[r]
              /\ \A r \in Processes : pos'[r] = IF r = p THEN pos[p] + 1 ELSE pos[r]
        BY <2>1, Born
      <3>2. pc[q] = "stat" /\ q # p
        BY <1>7, <2>1, <3>1 DEF Fork, AtEntry
      <3>3. Entry(q)' = Entry(q)
        BY <1>1, <3>1, <3>2 DEF Entry
      <3> QED
        BY <1>0, <1>7, <3>2, <3>3 DEF LogInv
    <2>2. CASE ~Fork(p) /\ q # p
      <3>1. pc[q] = "stat" /\ pos'[q] = pos[q]
        BY <1>7, <2>2, Moves
      <3>2. Entry(q)' = Entry(q)
        BY <1>1, <3>1 DEF Entry
      <3> QED
        BY <1>0, <1>7, <3>1, <3>2 DEF LogInv
    <2>3. CASE ~Fork(p) /\ q = p
      <3>1. Stat(p) /\ pos' = pos
        BY <1>7, <2>3, Advances
      <3>2. Entry(q)' = Entry(p)
        BY <1>1, <2>3, <3>1 DEF Entry
      <3>3. Entry(p) \in signalled'
        BY <1>7, <3>1 DEF Stat, Announce
      <3> QED
        BY <3>2, <3>3
    <2> QED
      BY <2>1, <2>2, <2>3
  <1> QED
    BY <1>1, <1>5, <1>6, <1>7 DEF LogInv

\* Every step keeps the log.
LEMMA LogStep == TypeInv /\ TreeInv /\ LogInv /\ [Next]_vars => LogInv'
  <1> SUFFICES ASSUME TypeInv, TreeInv, LogInv, [Next]_vars PROVE LogInv'
    OBVIOUS
  <1>1. CASE Start
    <2>1. /\ UNCHANGED <<argv, pos, buf, out, analized>>
          /\ pc[Main] = "main"
          /\ \A q \in Processes : q # Main => pc'[q] = pc[q]
          /\ pc'[Main] = "stat" => Target \in Files
      BY <1>1 DEF Start, Go, Opened, TypeInv, TypeOK, Processes
    <2>2. out' = <<>> /\ \A q \in Processes : buf'[q] = <<>>
      BY <2>1 DEF TreeInv
    <2>3. ToSet(<<>>) = {}
      BY DEF ToSet
    <2>4. \A f \in Files : ~Printed(f)'
      BY <2>2, <2>3 DEF Printed
    <2>5. Target' = Target /\ \A q : Where(q)' = Where(q) /\ (Lists(q)' <=> Lists(q))
      BY <2>1 DEF Target, Where, Lists
    <2>6. \A q \in Processes, j \in Nat : Untouched(q, j)' => Untouched(q, j)
      BY <2>1 DEF Untouched
    <2>7. Unlogged'
      <3>1. Target \in Files => analized'[Target] = 0
        BY <2>1 DEF LogInv, Unlogged
      <3>2. ASSUME NEW q \in Processes, Lists(q), NEW j \in DOMAIN Entries[Where(q)],
                   Entries[Where(q)][j] \in Files, Untouched(q, j)'
            PROVE  analized'[Entries[Where(q)][j]] = 0
        <4>1. Where(q) \in Dirs
          BY <3>2 DEF Where, Lists, Processes
        <4>2. j \in Nat
          BY <4>1, ForensicAssumption
        <4> QED
          BY <2>1, <2>6, <3>2, <4>2 DEF LogInv, Unlogged
      <3> QED
        BY <2>5, <3>1, <3>2 DEF Unlogged
    <2>8. ASSUME NEW q \in Processes, pc'[q] = "stat", Target \in Dirs PROVE FALSE
      <3>1. q = Main
        BY <2>1, <2>8 DEF TreeInv, Processes
      <3> QED
        BY <2>1, <2>8, <3>1, ForensicAssumption
    <2> QED
      BY <2>1, <2>4, <2>5, <2>7, <2>8 DEF LogInv
  <1>2. CASE \/ \E signo \in {"SIGUSR1", "SIGUSR2"} : Handle(signo)
             \/ Interrupt \/ UNCHANGED vars
    <2>1. UNCHANGED <<argv, command, pc, pos, buf, out, analized, signalled>>
      BY <1>2, Quiet
    <2> QED
      BY <2>1 DEF LogInv, Unlogged, Untouched, Printed, Accounted, Raised, Entry, Lists, Where,
                  Target
  <1> QED
    BY <1>1, <1>2, LogProcess DEF Next

\* Each file that was printed is logged exactly once, with -v, and was announced,
\* with -o, however often fork has copied its line; no file is logged twice.
THEOREM LoggedOnce == Spec => []LogExact
  <1>1. Init => LogInv
    <2> SUFFICES ASSUME Init PROVE LogInv
      OBVIOUS
    <2>1. ToSet(<<>>) = {}
      BY DEF ToSet
    <2>2. \A f \in Files : ~Printed(f)
      BY <2>1 DEF Init, Printed
    <2>3. \A p \in Processes : pc[p] # "stat"
      BY DEF Init
    <2>4. \A f \in Files : analized[f] = 0
      BY DEF Init
    <2> QED
      BY <2>2, <2>3, <2>4 DEF LogInv, Unlogged
  <1>2. TypeInv /\ LogInv => LogExact
    <2> SUFFICES ASSUME TypeInv, LogInv, NEW f \in Files
                 PROVE  /\ analized[f] <= 1
                        /\ Copies(<<f, 1>>) > 0 => Accounted(f)
      BY DEF LogExact, Accounted
    <2>1. ASSUME Copies(<<f, 1>>) > 0 PROVE Printed(f)
      <3>1. {i \in DOMAIN out : out[i] = <<f, 1>>} # {}
        BY <2>1, FS_EmptySet DEF Copies
      <3>2. <<f, 1>> \in ToSet(out)
        BY <3>1 DEF ToSet
      <3> QED
        BY <3>2 DEF Printed
    <2> QED
      BY <2>1 DEF LogInv
  <1> QED
    BY <1>1, <1>2, TypeInit, TypeStep, TreeInit, TreeStep, LogStep, PTL DEF Spec

-----------------------------------------------------------------------------
(* Completeness.  A process that goes on has printed the files behind it,  *)
(* each line being in its buffer or in the output, and forked the          *)
(* directories behind it.  A line may be garbage only after CTRL+C, and    *)
(* then the process does not go on.                                        *)

Behind(p, j) ==
    LET e == Entries[Where(p)][j]
    IN  /\ e \in Files => {<<e, 1>>, <<e, 2>>} \subseteq ToSet(out) \cup ToSet(buf[p])
        /\ e \in Dirs /\ Raised("-r") => pc[e] # "none"

Complete(p) ==
    /\ pc[p] \in {"list", "stat", "wait", "success"} /\ Where(p) \in Dirs =>
        /\ pc[p] = "success" => pos[p] > Len(Entries[Where(p)])
        /\ \A j \in DOMAIN Entries[Where(p)] : j < pos[p] => Behind(p, j)
    /\ pc[p] \in {"wait", "success"} /\ Where(p) \in Files =>
        {<<Target, 1>>, <<Target, 2>>} \subseteq ToSet(out) \cup ToSet(buf[p])
    /\ pc[p] = "success" =>
        /\ Where(p) \in Dirs \cup Files /\ buf[p] = <<>>
        /\ Raised("-r") => \A d \in Children(p) : Ended(d)

CompleteInv ==
    /\ pc[Main] = "main" => pos[Main] = 1
    /\ exit_program \/ spoilt = {}
    /\ argv[1] # "--help" => \A p \in Processes : Complete(p)

\* The output only grows, who exists goes on existing and who has ended stays so.
LEMMA Grows ==
    ASSUME TypeInv, TreeInv, NEW p \in Processes, ProcessStep(p)
    PROVE  /\ ToSet(out) \subseteq ToSet(out')
           /\ \A q \in Processes : pc[q] # "none" => pc'[q] # "none"
           /\ \A q \in Processes : Ended(q) => Ended(q)'
           /\ UNCHANGED <<exit_program, spoilt>>
  <1>1. UNCHANGED <<exit_program, spoilt>>
    BY DEF ProcessStep, AnnounceFails, SkipDirectory, Fork, Stat, Report, ReportFails, Crash,
           Quit, EndOfDirectory, Finish, signalVars
  <1>2. CASE Fork(p)
    <2>1. PICK d \in Dirs, to \in {"list", "failure", "unborn"} :
            /\ pc[d] = "none"
            /\ \A r \in Processes : pc'[r] = IF r = d THEN to ELSE pc[r]
      BY <1>2, Born
    <2> QED
      BY <1>1, <1>2, <2>1, ForkFacts DEF Ended, Ends
  <1>3. CASE ~Fork(p)
    <2>1. /\ pc[p] \in Live /\ pc'[p] \in Live \cup {"success", "failure", "crash"}
          /\ \A q \in Processes : q # p => pc'[q] = pc[q]
      BY <1>3, Moves
    <2>2. ToSet(out) \subseteq ToSet(out')
      <3>1. CASE Report(p)
        <4>1. PICK f \in Files \cup {"garbage"} : PrintFileinfo(p, f)
          BY <3>1, ReportFacts
        <4> QED
          BY <4>1, PrintFacts
      <3>2. CASE out' = out
        BY <3>2
      <3>3. CASE \E from, status : Exit(p, from, status)
        BY <3>3, ExitFacts
      <3> QED
        BY <1>3, <3>1, <3>2, <3>3 DEF ProcessStep, AnnounceFails, SkipDirectory, Stat, Crash,
           ReportFails, Quit, EndOfDirectory, Finish
    <2> QED
      BY <1>1, <2>1, <2>2 DEF Ended, Ends, Live
  <1> QED
    BY <1>2, <1>3

\* A process that does not step stays complete.
LEMMA StaysComplete ==
    ASSUME TypeInv, TreeInv, NEW p \in Processes, ProcessStep(p), NEW q \in Processes,
           Complete(q), pc'[q] = pc[q], pos'[q] = pos[q], buf'[q] = buf[q]
    PROVE  Complete(q)'
  <1>1. argv' = argv /\ command' = command
    BY Logs
  <1>2. /\ ToSet(out) \subseteq ToSet(out')
        /\ \A d \in Dirs : pc[d] # "none" => pc'[d] # "none"
        /\ \A d \in Dirs : Ended(d) => Ended(d)'
    BY Grows DEF Processes
  <1>3. /\ Target' = Target /\ Where(q)' = Where(q) /\ Children(q)' = Children(q)
        /\ (Raised("-r"))' <=> Raised("-r")
    BY <1>1 DEF Target, Where, Raised, Children
  <1>4. \A j : Behind(q, j) => Behind(q, j)'
    BY <1>2, <1>3 DEF Behind
  <1>5. Children(q) \subseteq Dirs
    BY DEF Children
  <1>6. pc'[q] \in {"list", "stat", "wait", "success"} /\ Where(q) \in Dirs =>
          /\ pc'[q] = "success" => pos'[q] > Len(Entries[Where(q)])
          /\ \A j \in DOMAIN Entries[Where(q)] : j < pos'[q] => Behind(q, j)'
    BY <1>4 DEF Complete
  <1>7. pc'[q] \in {"wait", "success"} /\ Where(q) \in Files =>
          {<<Target, 1>>, <<Target, 2>>} \subseteq ToSet(out') \cup ToSet(buf'[q])
    BY <1>2 DEF Complete
  <1>8. pc'[q] = "success" =>
          /\ Where(q) \in Dirs \cup Files /\ buf'[q] = <<>>
          /\ Raised("-r") => \A d \in Children(q) : Ended(d)'
    BY <1>2, <1>5 DEF Complete
  <1> QED
    BY <1>3, <1>6, <1>7, <1>8 DEF Complete

\* A fork leaves a directory behind its parent, and nothing behind the child.
LEMMA ForkComplete ==
    ASSUME TypeInv, TreeInv, NEW p \in Processes, Fork(p), NEW q \in Processes, Complete(q)
    PROVE  Complete(q)'
  <1>0. ProcessStep(p)
    BY DEF ProcessStep
  <1>1. PICK d \in Dirs, to \in {"list", "failure", "unborn"} :
          /\ d = Entry(p) /\ pc[d] = "none" /\ Unused(d) /\ d # p /\ d # Main
          /\ \A r \in Processes : pc'[r] = IF r = d THEN to ELSE pc[r]
          /\ \A r \in Processes : pos'[r] = IF r = p THEN pos[p] + 1 ELSE pos[r]
          /\ argv' = argv /\ command' = command
    BY Born
  <1>2. \A r \in Processes : r # d => buf'[r] = buf[r]
    BY <1>1, ForkFacts
  <1>3. CASE q = d
    <2>1. Where(q)' = d /\ d \notin Files /\ pc'[q] = to /\ pos'[q] = 1
      BY <1>1, <1>3, ForensicAssumption DEF Where, Unused
    <2>2. \A j \in DOMAIN Entries[d] : ~(j < 1)
      BY ForensicAssumption
    <2> QED
      BY <1>1, <2>1, <2>2 DEF Complete
  <1>4. CASE q = p
    <2>1. pc[p] = "list" /\ AtEntry(p)
      BY DEF Fork, AtEntry
    <2>2. /\ Where(p) \in Dirs /\ pos[p] \in DOMAIN Entries[Where(p)] /\ pos[p] \in Nat
          /\ d = Entries[Where(p)][pos[p]] /\ Where(p) \notin Files /\ d \notin Files
      BY <1>1, <2>1, EntryFacts, ForensicAssumption DEF TypeInv
    <2>3. Where(p)' = Where(p) /\ ((Raised("-r"))' <=> Raised("-r"))
      BY <1>1 DEF Where, Target, Raised
    <2>4. pc'[p] = "list" /\ pos'[p] = pos[p] + 1 /\ buf'[p] = buf[p]
      BY <1>1, <1>2, <2>1
    <2>5. ASSUME NEW j \in DOMAIN Entries[Where(p)], j < pos'[p] PROVE Behind(p, j)'
      <3>1. CASE j = pos[p]
        <4>1. pc'[d] # "none"
          BY <1>1 DEF Processes
        <4> QED
          BY <2>2, <2>3, <3>1, <4>1 DEF Behind
      <3>2. CASE j # pos[p]
        <4>1. j < pos[p]
          BY <2>2, <2>4, <2>5, <3>2, ForensicAssumption
        <4>2. Behind(p, j)
          BY <1>4, <2>1, <2>2, <4>1 DEF Complete
        <4>3. /\ ToSet(out) \subseteq ToSet(out')
              /\ \A c \in Dirs : pc[c] # "none" => pc'[c] # "none"
          BY <1>0, Grows DEF Processes
        <4> QED
          BY <2>3, <2>4, <4>2, <4>3 DEF Behind
      <3> QED
        BY <3>1, <3>2
    <2> QED
      BY <1>4, <2>2, <2>3, <2>4, <2>5 DEF Complete
  <1>5. CASE q # d /\ q # p
    BY <1>0, <1>1, <1>2, <1>5, StaysComplete
  <1> QED
    BY <1>3, <1>4, <1>5

\* A process that passes a directory over, or comes to dump_stat or to the end of
\* its directory, leaves behind what it should.
LEMMA ListComplete ==
    ASSUME TypeInv, TreeInv, NEW p \in Processes, Complete(p),
           SkipDirectory(p) \/ Stat(p) \/ EndOfDirectory(p)
    PROVE  Complete(p)'
  <1>0. ProcessStep(p) /\ argv' = argv /\ command' = command
    BY Logs DEF ProcessStep
  <1>1. /\ pc[p] = "list" /\ pos[p] \in Nat /\ Where(p) \in Dirs /\ Where(p) \notin Files
        /\ pc'[p] # "success"
    <2>1. pc[p] = "list" /\ pc'[p] # "success"
      BY DEF SkipDirectory, Stat, EndOfDirectory, Exit, Go, TypeInv, TypeOK
    <2> QED
      BY <2>1, ForensicAssumption DEF TypeInv, PlaceOK
  <1>2. /\ Where(p)' = Where(p) /\ ((Raised("-r"))' <=> Raised("-r"))
    BY <1>0 DEF Where, Target, Raised
  <1>3. /\ ToSet(out) \subseteq ToSet(out')
        /\ \A c \in Dirs : pc[c] # "none" => pc'[c] # "none"
    BY <1>0, Grows DEF Processes
  <1>4. CASE pc'[p] = "failure"
    BY <1>4 DEF Complete
  <1>5. CASE pc'[p] # "failure"
    <2>1. buf' = buf
      BY <1>5 DEF SkipDirectory, Stat, EndOfDirectory, Exit, Go, TypeInv, TypeOK
    <2>2. ASSUME NEW j \in DOMAIN Entries[Where(p)], j < pos[p] PROVE Behind(p, j)'
      <3>1. Behind(p, j)
        BY <1>1, <2>2 DEF Complete
      <3> QED
        BY <1>2, <1>3, <2>1, <3>1 DEF Behind
    <2>3. ASSUME NEW j \in DOMAIN Entries[Where(p)], j < pos'[p] PROVE Behind(p, j)'
      <3>1. CASE SkipDirectory(p)
        <4>1. /\ pos'[p] = pos[p] + 1 /\ ~Raised("-r")
              /\ Entries[Where(p)][pos[p]] \in Dirs
          BY <3>1, EntryFacts DEF SkipDirectory, TypeInv
        <4>2. CASE j = pos[p]
          <5>1. Entries[Where(p)][j] \notin Files
            BY <4>1, <4>2, ForensicAssumption
          <5> QED
            BY <1>2, <4>1, <5>1 DEF Behind
        <4>3. CASE j # pos[p]
          <5>1. j < pos[p]
            BY <1>1, <2>3, <4>1, <4>3, ForensicAssumption
          <5> QED
            BY <2>2, <5>1
        <4> QED
          BY <4>2, <4>3
      <3>2. CASE Stat(p) \/ EndOfDirectory(p)
        BY <2>2, <2>3, <3>2 DEF Stat, EndOfDirectory
      <3> QED
        BY <3>1, <3>2
    <2> QED
      BY <1>1, <1>2, <2>3 DEF Complete
  <1> QED
    BY <1>4, <1>5

\* A process that goes on after dump_stat has printed its file, and not garbage.
LEMMA ReportComplete ==
    ASSUME TypeInv, TreeInv, NEW p \in Processes, Complete(p), Report(p),
           exit_program \/ spoilt = {}
    PROVE  Complete(p)'
  <1>0. ProcessStep(p) /\ argv' = argv /\ command' = command
    BY Logs DEF ProcessStep
  <1>1. /\ pc[p] = "stat" /\ Entry(p) \in Files /\ pos[p] \in Nat
        /\ pc'[p] = AfterPrint(p) /\ pos'[p] = pos[p] + 1
    BY ReportFacts DEF TypeInv, TypeOK
  <1>2. /\ Where(p)' = Where(p) /\ Target' = Target /\ ((Raised("-r"))' <=> Raised("-r"))
    BY <1>0 DEF Where, Target, Raised
  <1>3. CASE exit_program
    BY <1>1, <1>3 DEF AfterPrint, Complete
  <1>4. CASE ~exit_program
    <2>1. PICK f \in {Entry(p), "garbage"} :
            (f = "garbage" => p \in spoilt) /\ PrintFileinfo(p, f)
      BY ReportFacts
    <2>2. f = Entry(p)
      BY <1>4, <2>1
    <2>3. /\ ToSet(out) \subseteq ToSet(out')
          /\ ToSet(out') \cup ToSet(buf'[p]) =
               ToSet(out) \cup ToSet(buf[p]) \cup {<<f, 1>>, <<f, 2>>}
      BY <1>1, <2>1, <2>2, PrintFacts
    <2>4. pc'[p] = IF Where(p) \in Files THEN "wait" ELSE "list"
      BY <1>1, <1>4 DEF AfterPrint
    <2>5. CASE Where(p) \in Files
      <3>1. f = Target /\ Where(p) \notin Dirs
        BY <2>2, <2>5, ForensicAssumption DEF Entry
      <3>2. {<<Target, 1>>, <<Target, 2>>} \subseteq ToSet(out') \cup ToSet(buf'[p])
        BY <2>3, <3>1
      <3>3. pc'[p] = "wait"
        BY <2>4, <2>5
      <3> QED
        BY <1>2, <3>1, <3>2, <3>3 DEF Complete
    <2>6. CASE Where(p) \notin Files
      <3>1. f = Entries[Where(p)][pos[p]] /\ Where(p) \in Dirs /\ f \in Files /\ f \notin Dirs
        BY <1>1, <2>2, <2>6, ForensicAssumption DEF Entry, TypeInv, PlaceOK
      <3>2. \A c \in Dirs : pc[c] # "none" => pc'[c] # "none"
        BY <1>0, Grows DEF Processes
      <3>3. ASSUME NEW j \in DOMAIN Entries[Where(p)], j < pos'[p] PROVE Behind(p, j)'
        <4>1. CASE j = pos[p]
          <5>1. {<<f, 1>>, <<f, 2>>} \subseteq ToSet(out') \cup ToSet(buf'[p])
            BY <2>3
          <5> QED
            BY <1>2, <3>1, <4>1, <5>1 DEF Behind
        <4>2. CASE j # pos[p]
          <5>1. j < pos[p]
            BY <1>1, <3>1, <3>3, <4>2, ForensicAssumption
          <5>2. Behind(p, j)
            BY <1>1, <3>1, <5>1 DEF Complete
          <5>3. ToSet(out) \cup ToSet(buf[p]) \subseteq ToSet(out') \cup ToSet(buf'[p])
            BY <2>3
          <5> QED
            BY <1>2, <3>2, <5>2, <5>3 DEF Behind
        <4> QED
          BY <4>1, <4>2
      <3>4. pc'[p] = "list"
        BY <2>4, <2>6
      <3> QED
        BY <1>2, <2>6, <3>3, <3>4 DEF Complete
    <2> QED
      BY <2>5, <2>6
  <1> QED
    BY <1>3, <1>4

\* exit() writes what is left, and wait() has seen the children end.
LEMMA FinishComplete ==
    ASSUME TypeInv, TreeInv, NEW p \in Processes, Complete(p), Finish(p)
    PROVE  Complete(p)'
  <1>0. ProcessStep(p) /\ argv' = argv /\ command' = command
    BY Logs DEF ProcessStep
  <1>1. /\ pc[p] = "wait" /\ pc'[p] = "success" /\ pos' = pos /\ buf'[p] = <<>>
        /\ ToSet(out') = ToSet(out) \cup ToSet(buf[p]) /\ Waited(p)
    <2>1. Exit(p, "wait", "success") /\ pos' = pos /\ Waited(p)
      BY DEF Finish
    <2> QED
      BY <2>1, ExitFacts DEF TypeInv, TypeOK
  <1>2. /\ Where(p)' = Where(p) /\ Target' = Target /\ ((Raised("-r"))' <=> Raised("-r"))
        /\ Children(p)' = Children(p)
    BY <1>0 DEF Where, Target, Raised, Children
  <1>3. /\ \A c \in Dirs : pc[c] # "none" => pc'[c] # "none"
        /\ \A c \in Dirs : Ended(c) => Ended(c)'
    BY <1>0, Grows DEF Processes
  <1>4. Where(p) \in Files \/ (Where(p) \in Dirs /\ pos[p] > Len(Entries[Where(p)]))
    BY <1>1 DEF TypeInv, PlaceOK
  <1>5. ASSUME Where(p) \in Dirs, NEW j \in DOMAIN Entries[Where(p)]
        PROVE  Behind(p, j) /\ Behind(p, j)'
    <2>1. j < pos[p]
      <3>1. /\ Entries[Where(p)] \in Seq(Dirs \cup Files) /\ pos[p] \in Nat
            /\ pos[p] > Len(Entries[Where(p)])
        BY <1>4, <1>5, ForensicAssumption DEF TypeInv
      <3> QED
        BY <1>5, <3>1
    <2>2. Behind(p, j)
      BY <1>1, <1>5, <2>1 DEF Complete
    <2> QED
      BY <1>1, <1>2, <1>3, <2>2 DEF Behind
  <1>6. ASSUME Raised("-r"), NEW d \in Children(p) PROVE Ended(d)'
    <2>1. Where(p) \in Dirs /\ d \in Dirs /\ d \in ToSet(Entries[Where(p)])
      BY <1>6 DEF Children
    <2>2. PICK j \in DOMAIN Entries[Where(p)] : d = Entries[Where(p)][j]
      BY <2>1 DEF ToSet
    <2>3. pc[d] # "none"
      BY <1>5, <1>6, <2>1, <2>2 DEF Behind
    <2> QED
      BY <1>1, <1>3, <1>6, <2>1, <2>3 DEF Waited
  <1>7. Where(p) \in Files =>
          {<<Target, 1>>, <<Target, 2>>} \subseteq ToSet(out') \cup ToSet(buf'[p])
    BY <1>1 DEF Complete
  <1>8. Where(p) \in Dirs => pos'[p] > Len(Entries[Where(p)])
    BY <1>1, <1>4, ForensicAssumption
  <1> QED
    BY <1>1, <1>2, <1>4, <1>5, <1>6, <1>7, <1>8 DEF Complete

\* Every step keeps the processes complete.
LEMMA CompleteStep == TypeInv /\ TreeInv /\ CompleteInv /\ [Next]_vars => CompleteInv'
  <1> SUFFICES ASSUME TypeInv, TreeInv, CompleteInv, [Next]_vars PROVE CompleteInv'
    OBVIOUS
  <1>0. Main \in Processes
    BY DEF Processes
  <1>1. CASE Start
    <2>1. /\ UNCHANGED <<argv, pos, buf, out, exit_program, spoilt>>
          /\ pc[Main] = "main" /\ pos'[Main] = 1
          /\ \A q \in Processes : q # Main => pc'[q] = pc[q]
      BY <1>1 DEF Start, Go, TypeInv, TypeOK, CompleteInv, signalVars
    <2>2. pc'[Main] \in {"failure", "list", "stat"} \/ (pc'[Main] = "success" /\ argv[1] = "--help")
      BY <1>0, <1>1 DEF Start, Go, Opened, TypeInv, TypeOK
    <2>3. ASSUME NEW q \in Processes, argv[1] # "--help" PROVE Complete(q)'
      <3>1. CASE q # Main
        <4>1. pc'[q] = "none"
          BY <2>1, <3>1 DEF TreeInv, Processes
        <4> QED
          BY <4>1 DEF Complete
      <3>2. CASE q = Main
        <4>1. pc'[Main] \in {"failure", "list", "stat"} /\ Where(q)' = Target
          BY <2>1, <2>2, <2>3, <3>2 DEF Where, Target
        <4>2. Target \in Dirs => \A j \in DOMAIN Entries[Target] : ~(j < 1)
          BY ForensicAssumption
        <4> QED
          BY <2>1, <3>2, <4>1, <4>2 DEF Complete
      <3> QED
        BY <3>1, <3>2
    <2>4. pc'[Main] # "main"
      BY <2>2
    <2> QED
      BY <2>1, <2>3, <2>4 DEF CompleteInv
  <1>2. ASSUME NEW p \in Processes, ProcessStep(p) PROVE CompleteInv'
    <2>1. argv' = argv /\ UNCHANGED <<exit_program, spoilt>>
      BY <1>2, Logs, Grows
    <2>2. pc[Main] = "main" => pos'[Main] = 1 /\ pc'[Main] # "main"
      <3>1. pc[Main] = "main" => FALSE
        <4>1. pc[p] \in Live
          BY <1>2, Moves DEF Fork, AtEntry, Live
        <4> QED
          BY <4>1 DEF TreeInv, Live, Processes
      <3> QED
        BY <3>1
    <2>3. pc'[Main] # "main"
      <3>1. CASE Fork(p)
        BY <1>0, <2>2, <3>1, Born
      <3>2. CASE ~Fork(p)
        BY <1>0, <1>2, <2>2, <3>2, Moves DEF Live
      <3> QED
        BY <3>1, <3>2
    <2>4. ASSUME NEW q \in Processes, argv[1] # "--help" PROVE Complete(q)'
      <3>0. Complete(q)
        BY <2>4 DEF CompleteInv
      <3>1. CASE Fork(p)
        BY <3>0, <3>1, ForkComplete
      <3>2. CASE ~Fork(p) /\ q # p
        <4>1. pc'[q] = pc[q] /\ pos'[q] = pos[q] /\ buf'[q] = buf[q]
          BY <1>2, <3>2, Moves
        <4> QED
          BY <1>2, <3>0, <4>1, StaysComplete
      <3>3. CASE ~Fork(p) /\ q = p
        <4>1. CASE AnnounceFails(p) \/ ReportFails(p) \/ Quit(p) \/ Crash(p)
          <5>1. pc'[p] \in {"failure", "crash"}
            BY <4>1 DEF AnnounceFails, ReportFails, Quit, Crash, Exit, Go, TypeInv, TypeOK
          <5> QED
            BY <3>3, <5>1 DEF Complete
        <4>2. CASE SkipDirectory(p) \/ Stat(p) \/ EndOfDirectory(p)
          BY <3>0, <3>3, <4>2, ListComplete
        <4>3. CASE Report(p)
          BY <3>0, <3>3, <4>3, ReportComplete DEF CompleteInv
        <4>4. CASE Finish(p)
          BY <3>0, <3>3, <4>4, FinishComplete
        <4> QED
          BY <1>2, <3>3, <4>1, <4>2, <4>3, <4>4 DEF ProcessStep
      <3> QED
        BY <3>1, <3>2, <3>3
    <2> QED
      BY <2>1, <2>3, <2>4 DEF CompleteInv
  <1>3. CASE \/ \E signo \in {"SIGUSR1", "SIGUSR2"} : Handle(signo)
             \/ Interrupt \/ UNCHANGED vars
    <2>1. UNCHANGED <<argv, command, pc, pos, buf, out>>
      BY <1>3, Quiet
    <2>2. (exit_program \/ spoilt = {})'
      BY <1>3 DEF Handle, Interrupt, vars, signalVars, CompleteInv
    <2>3. \A q \in Processes : Complete(q) => Complete(q)'
      BY <2>1 DEF Complete, Behind, Where, Target, Raised, Children, Ended
    <2> QED
      BY <2>1, <2>2, <2>3 DEF CompleteInv
  <1> QED
    BY <1>1, <1>2, <1>3 DEF Next

\* A process that ends with success has written every line of its files at least
\* once and, with -r, its children have ended: what is missing is below a process
\* that failed, crashed or was never born.
THEOREM CompleteOnSuccess == Spec => []SuccessIsComplete
  <1>1. Init => CompleteInv
    <2> SUFFICES ASSUME Init PROVE CompleteInv
      OBVIOUS
    <2>1. pos[Main] = 1 /\ spoilt = {} /\ \A p \in Processes : pc[p] \in {"main", "none"}
      BY DEF Init, Processes
    <2> QED
      BY <2>1 DEF CompleteInv, Complete
  <1>2. TypeInv /\ CompleteInv => SuccessIsComplete
    <2> SUFFICES ASSUME TypeInv, CompleteInv, NEW p \in Processes, pc[p] = "success",
                        argv[1] # "--help"
                 PROVE  /\ \A f \in FilesOf(p), i \in 1 .. 2 : Copies(<<f, i>>) >= 1
                        /\ Raised("-r") => \A d \in Children(p) : Ended(d)
      BY DEF SuccessIsComplete
    <2>0. Complete(p)
      BY DEF CompleteInv
    <2>1. Where(p) \in Dirs \cup Files /\ buf[p] = <<>> /\ ToSet(<<>>) = {}
      BY <2>0 DEF Complete, ToSet
    <2>2. ASSUME NEW f \in FilesOf(p), NEW i \in 1 .. 2 PROVE <<f, i>> \in ToSet(out)
      <3>1. CASE Where(p) \in Dirs
        <4>1. f \in Files /\ f \in ToSet(Entries[Where(p)])
          BY <2>2, <3>1 DEF FilesOf
        <4>2. PICK j \in DOMAIN Entries[Where(p)] : f = Entries[Where(p)][j]
          BY <4>1 DEF ToSet
        <4>3. j < pos[p]
          <5>1. pos[p] > Len(Entries[Where(p)]) /\ pos[p] \in Nat
            BY <2>0, <3>1 DEF Complete, TypeInv
          <5>2. Entries[Where(p)] \in Seq(Dirs \cup Files)
            BY <3>1, ForensicAssumption
          <5> QED
            BY <5>1, <5>2
        <4>4. {<<f, 1>>, <<f, 2>>} \subseteq ToSet(out) \cup ToSet(buf[p])
          BY <2>0, <3>1, <4>1, <4>2, <4>3 DEF Complete, Behind
        <4> QED
          BY <2>1, <4>4
      <3>2. CASE Where(p) \in Files
        <4>1. f = Target
          BY <2>2, <3>2, ForensicAssumption DEF FilesOf
        <4> QED
          BY <2>0, <2>1, <3>2, <4>1 DEF Complete
      <3> QED
        BY <2>1, <3>1, <3>2
    <2>3. ASSUME NEW cell, cell \in ToSet(out) PROVE Copies(cell) >= 1
      <3> DEFINE I == {i \in DOMAIN out : out[i] = cell}
      <3>1. I # {}
        BY <2>3 DEF ToSet
      <3>2. IsFiniteSet(DOMAIN out)
        <4>1. DOMAIN out = 1 .. Len(out) /\ Len(out) \in Nat
          BY DEF TypeInv
        <4> QED
          BY <4>1, FS_Interval
      <3>3. IsFiniteSet(I)
        BY <3>2, FS_Subset
      <3>4. Cardinality(I) \in Nat /\ Cardinality(I) # 0
        BY <3>1, <3>3, FS_CardinalityType, FS_EmptySet
      <3> QED
        BY <3>4 DEF Copies
    <2> QED
      BY <2>0, <2>2, <2>3 DEF Complete
  <1> QED
    BY <1>1, <1>2, TypeInit, TypeStep, TreeInit, TreeStep, CompleteStep, PTL DEF Spec

-----------------------------------------------------------------------------
(* Copies.  The copies of a cell are those in the output and those still   *)
(* in a buffer.  A buffer holds a cell at most once; the buffers that hold *)
(* it belong to the process that printed it and to processes below, and    *)
(* each birth below accounts for at most one copy more.                    *)

Number(s, c) == Cardinality({i \in DOMAIN s : s[i] = c})

Holders(c) == {q \in Processes : c \in ToSet(buf[q])}

Total(c) == Copies(c) + Cardinality(Holders(c))

InBuffersOnce(c) == \A q \in Processes : Number(buf[q], c) <= 1

Allowed(d) ==
    IF LineBuffered THEN 0 ELSE Cardinality({x \in Below(d) : pc[x] # "none"})

CopiesOf(p, j) ==
    LET f == Entries[Where(p)][j]
    IN  /\ Untouched(p, j) => ~Printed(f)
        /\ \A i \in 1 .. 2 :
            /\ InBuffersOnce(<<f, i>>)
            /\ Holders(<<f, i>>) \subseteq {p} \cup Below(Where(p))
            /\ Total(<<f, i>>) <= 1 + Allowed(Where(p))

CopyInv ==
    /\ LineBuffered => \A q \in Processes : buf[q] = <<>>
    /\ \A p \in Processes : Lists(p) =>
        \A j \in DOMAIN Entries[Where(p)] : Entries[Where(p)][j] \in Files => CopiesOf(p, j)
    /\ Target \notin Dirs => \A f \in Files :
        /\ f # Target \/ pc[Main] \in {"main", "stat"} => ~Printed(f)
        /\ \A i \in 1 .. 2 : InBuffersOnce(<<f, i>>) /\ Total(<<f, i>>) <= 1

\* How often a cell is in a sequence.
LEMMA NumberFacts ==
    ASSUME NEW S, NEW s \in Seq(S), NEW c
    PROVE  /\ IsFiniteSet({i \in DOMAIN s : s[i] = c})
           /\ Number(s, c) \in Nat
           /\ Number(s, c) = 0 <=> c \notin ToSet(s)
  <1> DEFINE I == {i \in DOMAIN s : s[i] = c}
  <1>1. DOMAIN s = 1 .. Len(s) /\ Len(s) \in Nat
    OBVIOUS
  <1>2. IsFiniteSet(I)
    <2>1. IsFiniteSet(DOMAIN s)
      BY <1>1, FS_Interval
    <2> QED
      BY <2>1, FS_Subset
  <1>3. Cardinality(I) \in Nat /\ (Cardinality(I) = 0 <=> I = {})
    BY <1>2, FS_CardinalityType, FS_EmptySet
  <1>4. I = {} <=> c \notin ToSet(s)
    BY DEF ToSet
  <1> QED
    BY <1>2, <1>3, <1>4 DEF Number

\* In an empty sequence there is none.
LEMMA NumberEmpty == ASSUME NEW c PROVE Number(<<>>, c) = 0 /\ ToSet(<<>>) = {}
  <1>1. {i \in DOMAIN <<>> : <<>>[i] = c} = {}
    OBVIOUS
  <1> QED
    BY <1>1, FS_EmptySet DEF Number, ToSet

\* In two sequences after each other there are as many as in both.
LEMMA NumberConcat ==
    ASSUME NEW S, NEW s \in Seq(S), NEW t \in Seq(S), NEW c
    PROVE  Number(s \o t, c) = Number(s, c) + Number(t, c)
  <1> DEFINE n == Len(s)
             A == {i \in DOMAIN s : s[i] = c}
             B == {i \in DOMAIN t : t[i] = c}
             C == {i \in DOMAIN (s \o t) : (s \o t)[i] = c}
             shift == [i \in B |-> n + i]
             D == {n + i : i \in B}
  <1>1. /\ n \in Nat /\ Len(t) \in Nat
        /\ DOMAIN s = 1 .. n /\ DOMAIN t = 1 .. Len(t)
        /\ DOMAIN (s \o t) = 1 .. n + Len(t)
        /\ \A i \in 1 .. n : (s \o t)[i] = s[i]
        /\ \A i \in 1 .. Len(t) : (s \o t)[n + i] = t[i]
    OBVIOUS
  <1>2. IsFiniteSet(A) /\ IsFiniteSet(B)
    BY NumberFacts
  <1>3. B \subseteq Nat /\ A \subseteq 1 .. n /\ \A i \in B : i >= 1
    BY <1>1
  <1> HIDE DEF n
  <1>4. IsFiniteSet(D) /\ Cardinality(D) = Cardinality(B)
    <2>1. shift \in Bijection(B, D)
      <3>1. shift \in [B -> D]
        OBVIOUS
      <3>2. \A i, j \in B : shift[i] = shift[j] => i = j
        BY <1>1, <1>3
      <3>3. \A d \in D : \E i \in B : shift[i] = d
        OBVIOUS
      <3> QED
        BY <3>1, <3>2, <3>3 DEF Bijection, Injection, Surjection, IsInjective
    <2> QED
      BY <1>2, <2>1, FS_Bijection DEF ExistsBijection
  <1>5. A \cap D = {}
    BY <1>1, <1>3
  <1>6. C = A \cup D
    <2>1. ASSUME NEW i \in C PROVE i \in A \cup D
      <3>1. CASE i <= n
        BY <1>1, <3>1
      <3>2. CASE i > n
        <4>1. i - n \in 1 .. Len(t) /\ i = n + (i - n)
          BY <1>1, <3>2
        <4>2. i - n \in B
          BY <1>1, <4>1
        <4> QED
          BY <4>1, <4>2
      <3> QED
        BY <1>1, <3>1, <3>2
    <2>2. A \subseteq C
      BY <1>1
    <2>3. ASSUME NEW i \in B PROVE n + i \in C
      BY <1>1
    <2> QED
      BY <2>1, <2>2, <2>3
  <1> HIDE DEF A, B, C, D
  <1>7. Cardinality(C) = Cardinality(A) + Cardinality(D)
    <2>1. Cardinality(A \cup D) = Cardinality(A) + Cardinality(D) - Cardinality(A \cap D)
      BY <1>2, <1>4, FS_Union
    <2>2. Cardinality(A) \in Nat /\ Cardinality(D) \in Nat /\ Cardinality({}) = 0
      BY <1>2, <1>4, FS_CardinalityType, FS_EmptySet
    <2>3. Cardinality(A \cap D) = 0
      BY <1>5, <2>2, Zenon
    <2>4. Cardinality(C) = Cardinality(A \cup D)
      BY <1>6, Zenon
    <2> QED
      BY <2>1, <2>2, <2>3, <2>4
  <1> QED
    BY <1>4, <1>7 DEF Number, A, B, C

\* Each cell is once in its own line.
LEMMA NumberLine ==
    ASSUME NEW f, NEW g, NEW i \in 1 .. 2
    PROVE  Number(Line(g), <<f, i>>) = IF f = g THEN 1 ELSE 0
  <1> DEFINE I == {k \in DOMAIN Line(g) : Line(g)[k] = <<f, i>>}
  <1>1. DOMAIN Line(g) = 1 .. 2 /\ \A k \in 1 .. 2 : Line(g)[k] = <<g, k>>
    BY DEF Line
  <1>2. I = IF f = g THEN {i} ELSE {}
    BY <1>1
  <1> QED
    BY <1>2, FS_Singleton, FS_EmptySet DEF Number

\* What is flushed and what is kept make up the buffer.
LEMMA NumberCut ==
    ASSUME NEW S, NEW b \in Seq(S), Len(b) <= BUFSIZ + 2, NEW c
    PROVE  Number(b, c) = Number(Flushed(b), c) + Number(Kept(b), c)
  <1>1. Flushed(b) \in Seq(S) /\ Kept(b) \in Seq(S)
    BY CutFacts
  <1>2. Flushed(b) \o Kept(b) = b
    <2>1. CASE LineBuffered \/ ~(Len(b) > BUFSIZ)
      BY <2>1 DEF Flushed, Kept
    <2>2. CASE ~LineBuffered /\ Len(b) > BUFSIZ
      <3> DEFINE u == SubSeq(b, 1, BUFSIZ)
                 v == SubSeq(b, BUFSIZ + 1, Len(b))
      <3>0. BUFSIZ \in Nat /\ Len(b) \in Nat
        BY ForensicAssumption
      <3>1. /\ u \in Seq(S) /\ Len(u) = BUFSIZ /\ \A i \in 1 .. BUFSIZ : u[i] = b[i]
        BY <2>2, <3>0
      <3>2. /\ v \in Seq(S) /\ Len(v) = Len(b) - BUFSIZ
            /\ \A i \in 1 .. Len(b) - BUFSIZ : v[i] = b[BUFSIZ + i]
        BY <2>2, <3>0
      <3> HIDE DEF u, v
      <3>3. u \o v \in Seq(S) /\ Len(u \o v) = Len(b)
        BY <3>0, <3>1, <3>2, ConcatFacts
      <3>4. ASSUME NEW i \in 1 .. Len(b) PROVE (u \o v)[i] = b[i]
        <4>1. CASE i <= BUFSIZ
          BY <3>0, <3>1, <3>2, <4>1
        <4>2. CASE i > BUFSIZ
          <5>1. i - BUFSIZ \in 1 .. Len(v) /\ i = Len(u) + (i - BUFSIZ)
            BY <3>0, <3>1, <3>2, <4>2
          <5>2. (u \o v)[i] = v[i - BUFSIZ]
            BY <3>1, <3>2, <5>1
          <5>3. v[i - BUFSIZ] = b[i]
            BY <3>0, <3>1, <3>2, <5>1
          <5> QED
            BY <5>2, <5>3
        <4>3. i <= BUFSIZ \/ i > BUFSIZ
          BY <3>0
        <4> QED
          BY <4>1, <4>2, <4>3
      <3>5. u \o v = b
        BY <3>3, <3>4, SeqEqual
      <3> QED
        BY <2>2, <3>5 DEF Flushed, Kept, u, v
    <2> QED
      BY <2>1, <2>2
  <1>3. Number(Flushed(b) \o Kept(b), c) = Number(Flushed(b), c) + Number(Kept(b), c)
    BY <1>1, NumberConcat
  <1> QED
    BY <1>2, <1>3

\* One process more or less among the holders of a cell.
LEMMA HoldersCount ==
    ASSUME NEW b \in [Processes -> Seq(Cells)], NEW r \in Processes, NEW c,
           Number(b[r], c) <= 1
    PROVE  LET H == {q \in Processes : c \in ToSet(b[q])}
           IN  /\ IsFiniteSet(H) /\ Cardinality(H \ {r}) \in Nat
               /\ Cardinality(H) = Cardinality(H \ {r}) + Number(b[r], c)
               /\ r \in H <=> Number(b[r], c) = 1
  <1> DEFINE H == {q \in Processes : c \in ToSet(b[q])}
  <1>1. IsFiniteSet(Processes)
    BY ForensicAssumption, FS_AddElement DEF Processes
  <1>2. IsFiniteSet(H) /\ IsFiniteSet(H \ {r})
    <2>1. H \subseteq Processes /\ H \ {r} \subseteq Processes
      OBVIOUS
    <2> HIDE DEF H
    <2> QED
      BY <1>1, <2>1, FS_Subset
  <1>3. Cardinality(H \ {r}) \in Nat
    BY <1>2, FS_CardinalityType
  <1>4. Number(b[r], c) \in Nat /\ (Number(b[r], c) = 0 <=> c \notin ToSet(b[r]))
    <2>1. b[r] \in Seq(Cells)
      OBVIOUS
    <2> QED
      BY <2>1, NumberFacts
  <1>5. r \in H <=> Number(b[r], c) = 1
    BY <1>4
  <1> HIDE DEF H
  <1>6. Cardinality(H) = Cardinality(H \ {r}) + Number(b[r], c)
    <2>1. CASE r \in H
      <3>1. H = (H \ {r}) \cup {r} /\ r \notin H \ {r}
        BY <2>1
      <3>2. Cardinality((H \ {r}) \cup {r}) = Cardinality(H \ {r}) + 1
        BY <1>2, <3>1, FS_AddElement
      <3> QED
        BY <1>3, <1>5, <2>1, <3>1, <3>2
    <2>2. CASE r \notin H
      <3>1. H = H \ {r} /\ Number(b[r], c) = 0
        BY <1>4, <1>5, <2>2
      <3>2. Cardinality(H) = Cardinality(H \ {r})
        BY <3>1, Zenon
      <3> QED
        BY <1>3, <3>1, <3>2
    <2> QED
      BY <2>1, <2>2
  <1> QED
    BY <1>2, <1>3, <1>5, <1>6 DEF H

\* A step that changes one buffer changes the copies by what it puts there and
\* into the output.
LEMMA Rebuffer ==
    ASSUME TypeInv, TypeInv', NEW r \in Processes, NEW c, InBuffersOnce(c),
           \A q \in Processes : q # r => buf'[q] = buf[q],
           Number(buf'[r], c) <= 1
    PROVE  /\ InBuffersOnce(c)'
           /\ Cardinality(Holders(c) \ {r}) \in Nat
           /\ Total(c) = Copies(c) + Cardinality(Holders(c) \ {r}) + Number(buf[r], c)
           /\ Total(c)' = Copies(c)' + Cardinality(Holders(c) \ {r}) + Number(buf'[r], c)
           /\ r \in Holders(c) <=> Number(buf[r], c) = 1
           /\ Holders(c)' \subseteq
                Holders(c) \cup (IF Number(buf'[r], c) = 1 THEN {r} ELSE {})
  <1>1. buf \in [Processes -> Seq(Cells)] /\ buf' \in [Processes -> Seq(Cells)]
    BY DEF TypeInv
  <1>2. InBuffersOnce(c)'
    BY DEF InBuffersOnce
  <1>3. /\ Cardinality(Holders(c) \ {r}) \in Nat
        /\ Cardinality(Holders(c)) = Cardinality(Holders(c) \ {r}) + Number(buf[r], c)
        /\ r \in Holders(c) <=> Number(buf[r], c) = 1
    <2>1. Number(buf[r], c) <= 1
      BY DEF InBuffersOnce
    <2> QED
      BY <1>1, <2>1, HoldersCount, ZenonT(40) DEF Holders
  <1> DEFINE H == {q \in Processes : c \in ToSet(buf'[q])}
  <1>4. H = Holders(c)'
    BY DEF Holders
  <1>5. /\ Cardinality(H) = Cardinality(H \ {r}) + Number(buf'[r], c)
        /\ r \in H <=> Number(buf'[r], c) = 1
    BY <1>1, HoldersCount
  <1>6. H \ {r} = Holders(c) \ {r}
    BY DEF Holders
  <1> HIDE DEF H
  <1>7. /\ Cardinality(Holders(c)') = Cardinality(Holders(c) \ {r}) + Number(buf'[r], c)
        /\ Holders(c)' \subseteq
             Holders(c) \cup (IF Number(buf'[r], c) = 1 THEN {r} ELSE {})
    <2>1. Cardinality(Holders(c)') = Cardinality(Holders(c) \ {r}) + Number(buf'[r], c)
      BY <1>4, <1>5, <1>6
    <2>2. H \subseteq Holders(c) \cup (IF Number(buf'[r], c) = 1 THEN {r} ELSE {})
      BY <1>5, <1>6
    <2> QED
      BY <1>4, <2>1, <2>2
  <1>8. Copies(c) \in Nat /\ Copies(c)' \in Nat /\ Number(buf[r], c) \in Nat
        /\ Number(buf'[r], c) \in Nat
    <2>1. out \in Seq(Cells) /\ out' \in Seq(Cells)
          /\ buf[r] \in Seq(Cells) /\ buf'[r] \in Seq(Cells)
      BY DEF TypeInv
    <2> QED
      BY <2>1, NumberFacts DEF Copies, Number
  <1>9. /\ Total(c) = Copies(c) + Cardinality(Holders(c))
        /\ Total(c)' = Copies(c)' + Cardinality(Holders(c)')
    BY DEF Total
  <1> QED
    BY <1>2, <1>3, <1>7, <1>8, <1>9

\* A printed line adds one copy of each of its cells.
LEMMA ReportNumbers ==
    ASSUME TypeInv, TypeInv', NEW p \in Processes, Report(p), NEW f \in Files,
           NEW i \in 1 .. 2
    PROVE  \E k \in 0 .. 1 :
             /\ f # Entry(p) => k = 0
             /\ Number(out', <<f, i>>) + Number(buf'[p], <<f, i>>)
                  = Number(out, <<f, i>>) + Number(buf[p], <<f, i>>) + k
             /\ Number(buf'[p], <<f, i>>) <= Number(buf[p], <<f, i>>) + k
  <1> DEFINE c == <<f, i>>
  <1> HIDE DEF c
  <1>0. /\ out \in Seq(Cells) /\ buf[p] \in Seq(Cells) /\ Len(buf[p]) <= BUFSIZ
    BY DEF TypeInv, TypeOK
  <1>1. Number(out, c) \in Nat /\ Number(buf[p], c) \in Nat
    BY <1>0, NumberFacts
  <1>2. PICK g \in {Entry(p), "garbage"} : PrintFileinfo(p, g)
    BY ReportFacts
  <1>3. g \in Files \cup {"garbage"} /\ (f = g => f = Entry(p))
    BY <1>2, ReportFacts, ForensicAssumption
  <1> DEFINE b == buf[p] \o Line(g)
  <1>4. Line(g) \in Seq(Cells) /\ Len(Line(g)) = 2
    BY <1>3, LineFacts
  <1>5. b \in Seq(Cells) /\ Len(b) <= BUFSIZ + 2
    <2>1. b \in Seq(Cells) /\ Len(b) = Len(buf[p]) + Len(Line(g))
      BY <1>0, <1>4, ConcatFacts
    <2>2. Len(buf[p]) \in Nat /\ BUFSIZ \in Nat
      BY <1>0, ForensicAssumption
    <2> QED
      BY <1>0, <1>4, <2>1, <2>2
  <1>6. PICK k \in 0 .. 1 : k = Number(Line(g), c) /\ (f # Entry(p) => k = 0)
    <2>1. Number(Line(g), c) = IF f = g THEN 1 ELSE 0
      BY NumberLine DEF c
    <2> QED
      BY <1>3, <2>1
  <1>7. Number(b, c) = Number(buf[p], c) + k
    BY <1>0, <1>4, <1>6, NumberConcat
  <1> HIDE DEF b
  <1>8. out' = out \o Flushed(b) /\ buf'[p] = Kept(b)
    BY <1>2 DEF PrintFileinfo, TypeInv, b
  <1>9. /\ Flushed(b) \in Seq(Cells) /\ Kept(b) \in Seq(Cells)
        /\ Number(b, c) = Number(Flushed(b), c) + Number(Kept(b), c)
    BY <1>5, CutFacts, NumberCut
  <1>10. Number(out', c) = Number(out, c) + Number(Flushed(b), c)
    BY <1>0, <1>8, <1>9, NumberConcat
  <1>11. Number(Flushed(b), c) \in Nat /\ Number(Kept(b), c) \in Nat
    BY <1>9, NumberFacts
  <1>12. /\ Number(out', c) + Number(buf'[p], c) = Number(out, c) + Number(buf[p], c) + k
         /\ Number(buf'[p], c) <= Number(buf[p], c) + k
    <2>1. Number(buf'[p], c) = Number(Kept(b), c)
      BY <1>8
    <2>2. Number(buf[p], c) + k = Number(Flushed(b), c) + Number(Kept(b), c) /\ k \in Nat
      BY <1>6, <1>7, <1>9
    <2> QED
      BY <1>1, <1>10, <1>11, <2>1, <2>2
  <1> QED
    BY <1>6, <1>12 DEF c

\* The copies of a cell that is not printed now, when a process but a fork steps.
LEMMA OldCells ==
    ASSUME TypeInv, TypeInv', NEW p \in Processes, ProcessStep(p), ~Fork(p),
           NEW f \in Files, NEW i \in 1 .. 2, ~(Report(p) /\ f = Entry(p)),
           InBuffersOnce(<<f, i>>)
    PROVE  /\ InBuffersOnce(<<f, i>>)'
           /\ Holders(<<f, i>>)' \subseteq Holders(<<f, i>>)
           /\ Total(<<f, i>>)' <= Total(<<f, i>>)
  <1> DEFINE c == <<f, i>>
  <1> HIDE DEF c
  <1>0. /\ out \in Seq(Cells) /\ out' \in Seq(Cells)
        /\ buf[p] \in Seq(Cells) /\ buf'[p] \in Seq(Cells)
        /\ Len(buf[p]) <= BUFSIZ
    BY DEF TypeInv, TypeOK
  <1>1. /\ Number(out, c) \in Nat /\ Number(out', c) \in Nat
        /\ Number(buf[p], c) \in Nat /\ Number(buf'[p], c) \in Nat
        /\ Copies(c) = Number(out, c) /\ Copies(c)' = Number(out', c)
    BY <1>0, NumberFacts DEF Copies, Number
  <1>2. \A q \in Processes : q # p => buf'[q] = buf[q]
    BY Moves
  <1>3. /\ Number(out', c) + Number(buf'[p], c) <= Number(out, c) + Number(buf[p], c)
        /\ Number(buf'[p], c) <= Number(buf[p], c)
    <2>1. CASE UNCHANGED <<buf, out>>
      BY <1>1, <2>1
    <2>2. CASE \E from, status : Exit(p, from, status)
      <3>1. buf' = [buf EXCEPT ![p] = <<>>] /\ out' = out \o buf[p]
        BY <2>2, ExitFacts
      <3>2. buf'[p] = <<>>
        BY <3>1 DEF TypeInv
      <3>3. Number(out', c) = Number(out, c) + Number(buf[p], c) /\ Number(buf'[p], c) = 0
        BY <1>0, <3>1, <3>2, NumberConcat, NumberEmpty
      <3> QED
        BY <1>1, <3>3
    <2>3. CASE Crash(p)
      <3>1. buf'[p] = <<>> /\ out' = out
        BY <2>3 DEF Crash, TypeInv
      <3>2. Number(buf'[p], c) = 0
        BY <3>1, NumberEmpty
      <3> QED
        BY <1>1, <3>1, <3>2
    <2>4. CASE Report(p)
      <3>1. PICK k \in 0 .. 1 :
              /\ f # Entry(p) => k = 0
              /\ Number(out', c) + Number(buf'[p], c) = Number(out, c) + Number(buf[p], c) + k
              /\ Number(buf'[p], c) <= Number(buf[p], c) + k
        BY <2>4, ReportNumbers DEF c
      <3> QED
        BY <1>1, <2>4, <3>1
    <2> QED
      BY <2>1, <2>2, <2>3, <2>4 DEF ProcessStep, AnnounceFails, SkipDirectory, Stat,
         ReportFails, Quit, EndOfDirectory, Finish
  <1>4. InBuffersOnce(c)
    BY DEF c
  <1>5. Number(buf[p], c) <= 1 /\ Number(buf'[p], c) <= 1
    BY <1>1, <1>3, <1>4 DEF InBuffersOnce
  <1>6. /\ InBuffersOnce(c)'
        /\ Cardinality(Holders(c) \ {p}) \in Nat
        /\ Total(c) = Copies(c) + Cardinality(Holders(c) \ {p}) + Number(buf[p], c)
        /\ Total(c)' = Copies(c)' + Cardinality(Holders(c) \ {p}) + Number(buf'[p], c)
        /\ p \in Holders(c) <=> Number(buf[p], c) = 1
        /\ Holders(c)' \subseteq
             Holders(c) \cup (IF Number(buf'[p], c) = 1 THEN {p} ELSE {})
    BY <1>2, <1>4, <1>5, Rebuffer
  <1>7. Total(c)' <= Total(c)
    BY <1>1, <1>3, <1>6
  <1>8. Holders(c)' \subseteq Holders(c)
    <2>1. Number(buf'[p], c) = 1 => Number(buf[p], c) = 1
      BY <1>1, <1>3, <1>5
    <2> QED
      BY <1>6, <2>1
  <1> QED
    BY <1>6, <1>7, <1>8 DEF c

\* The copies of a cell that is printed now, for the first time.
LEMMA NewCells ==
    ASSUME TypeInv, TypeInv', NEW p \in Processes, Report(p), NEW f \in Files,
           NEW i \in 1 .. 2, ~Printed(f)
    PROVE  /\ InBuffersOnce(<<f, i>>)'
           /\ Holders(<<f, i>>)' \subseteq {p}
           /\ Total(<<f, i>>)' <= 1
  <1>1. <<f, i>> \notin ToSet(out) /\ \A q \in Processes : <<f, i>> \notin ToSet(buf[q])
    BY DEF Printed
  <1> DEFINE c == <<f, i>>
  <1>2. PICK k \in 0 .. 1 :
          /\ Number(out', c) + Number(buf'[p], c) = Number(out, c) + Number(buf[p], c) + k
          /\ Number(buf'[p], c) <= Number(buf[p], c) + k
    BY ReportNumbers
  <1>3. c \notin ToSet(out) /\ \A q \in Processes : c \notin ToSet(buf[q])
    BY <1>1
  <1> HIDE DEF c
  <1>4. /\ out \in Seq(Cells) /\ out' \in Seq(Cells) /\ buf'[p] \in Seq(Cells)
        /\ \A q \in Processes : buf[q] \in Seq(Cells)
    BY DEF TypeInv
  <1>5. Number(out, c) = 0 /\ \A q \in Processes : Number(buf[q], c) = 0
    BY <1>3, <1>4, NumberFacts
  <1>6. Number(out', c) \in Nat /\ Number(buf'[p], c) \in Nat /\ Copies(c)' = Number(out', c)
    BY <1>4, NumberFacts DEF Copies, Number
  <1>7. Number(out', c) + Number(buf'[p], c) <= 1 /\ Number(buf'[p], c) <= 1
    BY <1>2, <1>5, <1>6
  <1>8. \A q \in Processes : q # p => buf'[q] = buf[q]
    <2>1. ProcessStep(p)
      BY DEF ProcessStep
    <2>2. ~Fork(p)
      BY DEF Fork, AtEntry, Report
    <2> QED
      BY <2>1, <2>2, Moves
  <1>9. Holders(c) = {}
    BY <1>3 DEF Holders
  <1>10. /\ InBuffersOnce(c)'
         /\ Total(c)' = Copies(c)' + Cardinality(Holders(c) \ {p}) + Number(buf'[p], c)
         /\ Holders(c)' \subseteq
              Holders(c) \cup (IF Number(buf'[p], c) = 1 THEN {p} ELSE {})
    <2>1. InBuffersOnce(c)
      BY <1>5 DEF InBuffersOnce
    <2> QED
      BY <1>7, <1>8, <2>1, Rebuffer
  <1>11. Cardinality(Holders(c) \ {p}) = 0
    <2>1. Holders(c) \ {p} = {}
      BY <1>9
    <2> QED
      BY <2>1, FS_EmptySet
  <1>12. Total(c)' <= 1 /\ Holders(c)' \subseteq {p}
    <2>1. Total(c)' <= 1
      BY <1>6, <1>7, <1>10, <1>11
    <2>2. Holders(c)' \subseteq {p}
      BY <1>9, <1>10
    <2> QED
      BY <2>1, <2>2
  <1> QED
    BY <1>10, <1>12 DEF c

\* A fork adds a copy of what is in the parent's buffer, in the child's or, if the
\* child ends at once, in the output.
LEMMA ForkCells ==
    ASSUME TypeInv, TypeInv', TreeInv, NEW p \in Processes, Fork(p), NEW c,
           InBuffersOnce(c)
    PROVE  /\ InBuffersOnce(c)'
           /\ Holders(c)' \subseteq Holders(c) \cup (IF p \in Holders(c) THEN {Entry(p)} ELSE {})
           /\ Total(c)' <= Total(c) + (IF p \in Holders(c) THEN 1 ELSE 0)
  <1>0. /\ out \in Seq(Cells) /\ out' \in Seq(Cells) /\ buf \in [Processes -> Seq(Cells)]
        /\ buf' \in [Processes -> Seq(Cells)]
    BY DEF TypeInv
  <1>1. PICK d \in Dirs :
          d = Entry(p) /\ Unused(d) /\ d # p /\ d \in Processes
    BY Born
  <1>2. \A q \in Processes : q # d => buf'[q] = buf[q]
    BY <1>1, ForkFacts
  <1>3. /\ Number(out, c) \in Nat /\ Number(out', c) \in Nat
        /\ Number(buf[p], c) \in Nat /\ Number(buf'[d], c) \in Nat
        /\ Copies(c) = Number(out, c) /\ Copies(c)' = Number(out', c)
    <2>1. buf[p] \in Seq(Cells) /\ buf'[d] \in Seq(Cells)
      BY <1>0, <1>1
    <2> QED
      BY <1>0, <2>1, NumberFacts DEF Copies, Number
  <1>4. buf[d] = <<>> /\ Number(buf[d], c) = 0 /\ Number(<<>>, c) = 0
    BY <1>1, NumberEmpty DEF Unused
  <1>5. /\ Number(out', c) + Number(buf'[d], c) <= Number(out, c) + Number(buf[p], c)
        /\ Number(buf'[d], c) <= Number(buf[p], c)
    <2>1. CASE buf' = [buf EXCEPT ![d] = <<>>] /\ out' = out \o buf[p]
      <3>1. buf'[d] = <<>> /\ buf[p] \in Seq(Cells)
        BY <1>0, <1>1, <2>1
      <3>2. Number(out', c) = Number(out, c) + Number(buf[p], c)
        BY <1>0, <2>1, <3>1, NumberConcat
      <3> QED
        BY <1>3, <1>4, <3>1, <3>2
    <2>2. CASE buf' = [buf EXCEPT ![d] = buf[p]] /\ out' = out
      <3>1. buf'[d] = buf[p]
        BY <1>0, <1>1, <2>2
      <3> QED
        BY <1>3, <2>2, <3>1
    <2>3. CASE UNCHANGED <<buf, out>>
      BY <1>3, <1>4, <2>3
    <2> QED
      BY <1>1, <2>1, <2>2, <2>3 DEF Fork
  <1>6. Number(buf[p], c) <= 1 /\ (p \in Holders(c) <=> Number(buf[p], c) = 1)
    <2>1. Number(buf[p], c) <= 1
      BY DEF InBuffersOnce
    <2> QED
      BY <1>0, <2>1, HoldersCount DEF Holders
  <1>7. Number(buf'[d], c) <= 1
    BY <1>3, <1>5, <1>6
  <1>8. /\ InBuffersOnce(c)'
        /\ Cardinality(Holders(c) \ {d}) \in Nat
        /\ Total(c) = Copies(c) + Cardinality(Holders(c) \ {d}) + Number(buf[d], c)
        /\ Total(c)' = Copies(c)' + Cardinality(Holders(c) \ {d}) + Number(buf'[d], c)
        /\ Holders(c)' \subseteq
             Holders(c) \cup (IF Number(buf'[d], c) = 1 THEN {d} ELSE {})
    BY <1>1, <1>2, <1>7, Rebuffer
  <1>9. Total(c)' <= Total(c) + Number(buf[p], c)
    BY <1>3, <1>4, <1>5, <1>8
  <1>10. CASE p \in Holders(c)
    BY <1>1, <1>6, <1>8, <1>9, <1>10
  <1>11. CASE p \notin Holders(c)
    <2>1. Number(buf[p], c) = 0 /\ Number(buf'[d], c) # 1
      BY <1>3, <1>5, <1>6, <1>11
    <2>2. Total(c)' <= Total(c) + 0
      BY <1>9, <2>1
    <2> QED
      BY <1>8, <1>11, <2>1, <2>2
  <1> QED
    BY <1>10, <1>11

\* The directories below one, by depth: none is below itself.
LEMMA BelowFacts ==
    ASSUME NEW d \in Dirs, NEW y \in {d} \cup Below(d), NEW i \in DOMAIN Entries[y],
           Entries[y][i] \in Dirs
    PROVE  Entries[y][i] \in Below(d)
  <1> DEFINE z == Entries[y][i]
             Closed(S) == d \in S /\ \A x \in S : Children(x) \subseteq S
  <1>1. y \in Dirs
    BY DEF Below
  <1>2. \A x \in Dirs : Children(x) = ToSet(Entries[x]) \cap Dirs
    BY ForensicAssumption DEF Children, Where
  <1>3. z \in Children(y)
    BY <1>1, <1>2 DEF ToSet
  <1>4. \A S \in SUBSET Dirs : Closed(S) => y \in S
    BY DEF Below
  <1>5. \A S \in SUBSET Dirs : Closed(S) => z \in S
    BY <1>3, <1>4
  <1>6. z # d
    <2> DEFINE D == {x \in Dirs : x = d \/ Depth[x] > Depth[d]}
    <2>1. Closed(D)
      <3>1. ASSUME NEW x \in D, NEW e \in Children(x) PROVE e \in D
        <4>1. PICK k \in DOMAIN Entries[x] : e = Entries[x][k] /\ e \in Dirs
          BY <1>2, <3>1 DEF ToSet
        <4>2. Depth[e] > Depth[x] /\ Depth[e] \in Nat /\ Depth[x] \in Nat /\ Depth[d] \in Nat
          BY <4>1, DepthFacts
        <4> QED
          BY <4>1, <4>2
      <3> QED
        BY <3>1
    <2>2. y \in D
      BY <1>4, <2>1
    <2>3. /\ Depth[z] > Depth[y] /\ Depth[z] \in Nat /\ Depth[y] \in Nat
          /\ Depth[d] \in Nat
      BY <1>1, DepthFacts
    <2> QED
      BY <2>2, <2>3
  <1> QED
    BY <1>5, <1>6 DEF Below

\* More copies may be there after a step than before, and one more after a birth.
LEMMA AllowedGrows ==
    ASSUME TypeInv, TreeInv, NEW p \in Processes, ProcessStep(p), NEW d \in Dirs
    PROVE  /\ Below(d)' = Below(d) /\ (LineBuffered' <=> LineBuffered)
           /\ Allowed(d) \in Nat /\ Allowed(d)' \in Nat /\ Allowed(d) <= Allowed(d)'
           /\ Fork(p) /\ Entry(p) \in Below(d) /\ ~LineBuffered => Allowed(d) + 1 <= Allowed(d)'
  <1>1. argv' = argv /\ command' = command
    BY Logs
  <1>2. tty' = tty
    BY DEF ProcessStep, AnnounceFails, SkipDirectory, Fork, Stat, Report, ReportFails, Crash,
           Quit, EndOfDirectory, Finish, inputVars
  <1>3. Below(d)' = Below(d) /\ (LineBuffered' <=> LineBuffered)
    BY <1>1, <1>2 DEF Below, Children, Where, Target, LineBuffered, Raised
  <1> DEFINE A == {x \in Below(d) : pc[x] # "none"}
             B == {x \in Below(d) : pc'[x] # "none"}
  <1>4. A \subseteq B
    <2>1. \A x \in Below(d) : x \in Processes
      BY DEF Below, Processes
    <2> QED
      BY <2>1, Grows
  <1>5. IsFiniteSet(A) /\ IsFiniteSet(B)
    <2>1. A \subseteq Dirs /\ B \subseteq Dirs
      BY DEF Below
    <2> HIDE DEF A, B
    <2> QED
      BY <2>1, FS_Subset, ForensicAssumption
  <1>6. /\ Allowed(d) = IF LineBuffered THEN 0 ELSE Cardinality(A)
        /\ Allowed(d)' = IF LineBuffered THEN 0 ELSE Cardinality(B)
    BY <1>3 DEF Allowed
  <1>7. ASSUME Fork(p), Entry(p) \in Below(d) PROVE Cardinality(A) + 1 <= Cardinality(B)
    <2>1. PICK c \in Dirs, to \in {"list", "failure", "unborn"} :
            /\ c = Entry(p) /\ pc[c] = "none" /\ c \in Processes
            /\ \A q \in Processes : pc'[q] = IF q = c THEN to ELSE pc[q]
      BY <1>7, Born
    <2>2. c \in B /\ c \notin A
      BY <1>7, <2>1
    <2> HIDE DEF A, B
    <2>3. Cardinality(A \cup {c}) = Cardinality(A) + 1
      BY <1>5, <2>2, FS_AddElement
    <2>4. A \cup {c} \subseteq B
      BY <1>4, <2>2
    <2>5. Cardinality(A \cup {c}) <= Cardinality(B)
      BY <1>5, <2>4, FS_Subset
    <2> QED
      BY <2>3, <2>5
  <1> HIDE DEF A, B
  <1>8. Cardinality(A) \in Nat /\ Cardinality(B) \in Nat /\ Cardinality(A) <= Cardinality(B)
    BY <1>4, <1>5, FS_Subset, FS_CardinalityType
  <1> QED
    BY <1>3, <1>6, <1>7, <1>8

\* At a terminal, nothing stays in a buffer.
LEMMA TerminalStep ==
    ASSUME TypeInv, TreeInv, NEW p \in Processes, ProcessStep(p), LineBuffered,
           \A q \in Processes : buf[q] = <<>>
    PROVE  \A q \in Processes : buf'[q] = <<>>
  <1>1. CASE Fork(p)
    <2>1. PICK d \in Dirs : d = Entry(p)
      BY <1>1, ForkFacts
    <2>2. \/ buf' = [buf EXCEPT ![d] = IF d \in Locked THEN <<>> ELSE buf[p]]
          \/ buf' = buf
      BY <1>1, <2>1 DEF Fork
    <2> QED
      BY <2>2 DEF TypeInv
  <1>2. CASE ~Fork(p)
    <2>1. \A q \in Processes : q # p => buf'[q] = buf[q]
      BY <1>2, Moves
    <2>2. buf'[p] = <<>>
      <3>1. CASE Report(p)
        <4>1. PICK f : PrintFileinfo(p, f)
          BY <3>1 DEF Report
        <4> QED
          BY <4>1 DEF PrintFileinfo, Kept, TypeInv
      <3>2. CASE UNCHANGED <<buf, out>>
        BY <3>2
      <3>3. CASE \E from, status : Exit(p, from, status)
        BY <3>3 DEF Exit, TypeInv
      <3>4. CASE Crash(p)
        BY <3>4 DEF Crash, TypeInv
      <3> QED
        BY <1>2, <3>1, <3>2, <3>3, <3>4 DEF ProcessStep, AnnounceFails, SkipDirectory, Stat,
           ReportFails, Quit, EndOfDirectory, Finish
    <2> QED
      BY <2>1, <2>2
  <1> QED
    BY <1>1, <1>2

\* The copies of a cell are a number, and some of them are in the output.
LEMMA TotalTyped ==
    ASSUME TypeInv, NEW c
    PROVE  Total(c) \in Nat /\ Copies(c) \in Nat /\ Copies(c) <= Total(c)
  <1>1. IsFiniteSet(Processes)
    BY ForensicAssumption, FS_AddElement DEF Processes
  <1>2. IsFiniteSet(Holders(c))
    <2>1. Holders(c) \subseteq Processes
      BY DEF Holders
    <2> QED
      BY <1>1, <2>1, FS_Subset
  <1>3. Cardinality(Holders(c)) \in Nat
    BY <1>2, FS_CardinalityType
  <1>4. Copies(c) \in Nat
    <2>1. out \in Seq(Cells)
      BY DEF TypeInv
    <2> QED
      BY <2>1, NumberFacts DEF Copies, Number
  <1> QED
    BY <1>3, <1>4 DEF Total

\* The copies of a cell are a number before and after a step.
LEMMA CopiesTyped ==
    ASSUME TypeInv, TypeInv', NEW c
    PROVE  Total(c) \in Nat /\ Total(c)' \in Nat
  <1>1. IsFiniteSet(Processes)
    BY ForensicAssumption, FS_AddElement DEF Processes
  <1>2. IsFiniteSet(Holders(c)) /\ IsFiniteSet(Holders(c)')
    <2>1. Holders(c) \subseteq Processes /\ Holders(c)' \subseteq Processes
      BY DEF Holders
    <2> QED
      BY <1>1, <2>1, FS_Subset
  <1>3. Cardinality(Holders(c)) \in Nat /\ Cardinality(Holders(c)') \in Nat
    BY <1>2, FS_CardinalityType
  <1>4. Copies(c) \in Nat /\ Copies(c)' \in Nat
    <2>1. out \in Seq(Cells) /\ out' \in Seq(Cells)
      BY DEF TypeInv
    <2> QED
      BY <2>1, NumberFacts DEF Copies, Number
  <1>5. /\ Total(c) = Copies(c) + Cardinality(Holders(c))
        /\ Total(c)' = Copies(c)' + Cardinality(Holders(c)')
    BY DEF Total
  <1> QED
    BY <1>3, <1>4, <1>5

\* The copies of the files of a directory, when a process steps.
LEMMA CopiesStep ==
    ASSUME TypeInv, TypeInv', TreeInv, CopyInv, NEW p \in Processes, ProcessStep(p),
           NEW q \in Processes, Lists(q), NEW j \in DOMAIN Entries[Where(q)],
           Entries[Where(q)][j] \in Files
    PROVE  CopiesOf(q, j)'
  <1>0. /\ Where(q)' = Where(q) /\ Where(q) \in Dirs
    <2>1. argv' = argv
      BY Logs
    <2> QED
      BY <2>1 DEF Where, Target, Lists, Processes
  <1> DEFINE f == Entries[Where(q)][j]
             d == Where(q)
  <1>1. /\ Untouched(q, j) => ~Printed(f)
        /\ \A i \in 1 .. 2 :
             /\ InBuffersOnce(<<f, i>>) /\ Holders(<<f, i>>) \subseteq {q} \cup Below(d)
             /\ Total(<<f, i>>) <= 1 + Allowed(d)
    BY DEF CopyInv, CopiesOf
  <1>2. ASSUME Report(p), f = Entry(p) PROVE q = p /\ j = pos[p] /\ pc[p] = "stat"
    <2>1. pc[p] = "stat" /\ Target \notin Files
      BY <1>2, ReportFacts, ForensicAssumption DEF Lists
    <2>2. Where(p) \notin Files
      BY <2>1, ForensicAssumption DEF Where, Processes
    <2>3. /\ Lists(p) /\ pos[p] \in DOMAIN Entries[Where(p)]
          /\ Entry(p) = Entries[Where(p)][pos[p]]
      BY <2>1, <2>2, AtFile
    <2> QED
      BY <1>2, <2>1, <2>3, OneParent
  <1>3. PICK e \in Files : e = f
    OBVIOUS
  <1>4. PICK g \in Dirs : g = d
    BY <1>0
  <1> HIDE DEF f, d
  <1>5. Untouched(q, j)' => ~Printed(e)'
    <2> SUFFICES ASSUME Untouched(q, j)' PROVE ~Printed(e)'
      OBVIOUS
    <2>1. j \in Nat /\ pos[p] \in Nat
      <3>1. Entries[Where(q)] \in Seq(Dirs \cup Files)
        BY <1>0, ForensicAssumption
      <3>2. pos[p] \in Nat \ {0}
        BY DEF TypeInv
      <3> QED
        BY <3>1, <3>2
    <2>2. Untouched(q, j) /\ (q = p /\ pc[p] = "stat" => j > pos[p])
      BY <2>1, UntouchedStep
    <2>3. ~(Report(p) /\ e = Entry(p))
      BY <1>2, <1>3, <2>1, <2>2
    <2> QED
      BY <1>1, <1>3, <2>2, <2>3, Prints
  <1>6. /\ Below(g)' = Below(g) /\ (LineBuffered' <=> LineBuffered)
        /\ Allowed(g) \in Nat /\ Allowed(g)' \in Nat /\ Allowed(g) <= Allowed(g)'
        /\ Fork(p) /\ Entry(p) \in Below(g) /\ ~LineBuffered => Allowed(g) + 1 <= Allowed(g)'
    BY AllowedGrows
  <1>7. ASSUME NEW i \in 1 .. 2
        PROVE  /\ InBuffersOnce(<<e, i>>)'
               /\ Holders(<<e, i>>)' \subseteq {q} \cup Below(g)
               /\ Total(<<e, i>>)' <= 1 + Allowed(g)'
    <2> DEFINE c == <<e, i>>
    <2>0. InBuffersOnce(c) /\ Holders(c) \subseteq {q} \cup Below(g) /\ Total(c) <= 1 + Allowed(g)
      BY <1>1, <1>3, <1>4
    <2>1. Total(c) \in Int /\ Total(c)' \in Int
      BY CopiesTyped
    <2>2. CASE Fork(p)
      <3>1. /\ InBuffersOnce(c)'
            /\ Holders(c)' \subseteq Holders(c) \cup (IF p \in Holders(c) THEN {Entry(p)} ELSE {})
            /\ Total(c)' <= Total(c) + (IF p \in Holders(c) THEN 1 ELSE 0)
        BY <2>0, <2>2, ForkCells
      <3>2. CASE p \notin Holders(c)
        <4>1. Total(c)' <= Total(c)
          BY <2>1, <3>1, <3>2
        <4>2. Holders(c)' \subseteq Holders(c)
          BY <3>1, <3>2
        <4>3. Total(c)' <= 1 + Allowed(g)'
          BY <1>6, <2>0, <2>1, <4>1
        <4> QED
          BY <2>0, <3>1, <4>2, <4>3
      <3>3. CASE p \in Holders(c)
        <4>1. AtEntry(p) /\ Entry(p) \in Dirs
          BY <2>2 DEF Fork
        <4>2. pos[p] \in DOMAIN Entries[Where(p)] /\ Entry(p) = Entries[Where(p)][pos[p]]
          BY <4>1, EntryFacts
        <4>3. Where(p) \in {g} \cup Below(g)
          <5>1. CASE p = q
            BY <1>4, <5>1 DEF d
          <5>2. CASE p # q
            <6>1. p \in Below(g)
              BY <2>0, <3>3, <5>2
            <6>2. p # Main
              BY <6>1, ForensicAssumption DEF Below
            <6> QED
              BY <6>1, <6>2 DEF Where
          <5> QED
            BY <5>1, <5>2
        <4>4. Entry(p) \in Below(g)
          BY <4>1, <4>2, <4>3, BelowFacts
        <4>5. ~LineBuffered
          <5>1. buf[p] # <<>>
            BY <3>3, NumberEmpty DEF Holders
          <5> QED
            BY <5>1 DEF CopyInv
        <4>6. Total(c)' <= Total(c) + 1
          BY <3>1, <3>3
        <4>7. Total(c)' <= 1 + Allowed(g)'
          BY <1>6, <2>0, <2>1, <2>2, <4>4, <4>5, <4>6
        <4>8. Holders(c)' \subseteq {q} \cup Below(g)
          BY <2>0, <3>1, <4>4
        <4> QED
          BY <3>1, <4>7, <4>8
      <3> QED
        BY <3>2, <3>3
    <2>3. CASE Report(p) /\ e = Entry(p)
      <3>1. q = p /\ Untouched(q, j)
        BY <1>2, <1>3, <2>3 DEF Untouched
      <3>2. ~Printed(e)
        BY <1>1, <1>3, <3>1
      <3>3. InBuffersOnce(c)' /\ Holders(c)' \subseteq {p} /\ Total(c)' <= 1
        BY <2>3, <3>2, NewCells
      <3>4. Total(c)' <= 1 + Allowed(g)'
        BY <1>6, <2>1, <3>3
      <3> QED
        BY <3>1, <3>3, <3>4
    <2>4. CASE ~Fork(p) /\ ~(Report(p) /\ e = Entry(p))
      <3>1. /\ InBuffersOnce(c)' /\ Holders(c)' \subseteq Holders(c) /\ Total(c)' <= Total(c)
        BY <2>0, <2>4, OldCells
      <3>2. Total(c)' <= 1 + Allowed(g)'
        BY <1>6, <2>0, <2>1, <3>1
      <3> QED
        BY <2>0, <3>1, <3>2
    <2> QED
      BY <2>2, <2>3, <2>4
  <1>8. /\ Entries[Where(q)'][j] = e
        /\ Below(Where(q))' = Below(g) /\ Allowed(Where(q))' = Allowed(g)'
    <2>1. Where(q)' = g
      BY <1>0, <1>4 DEF d
    <2> QED
      BY <1>3, <1>4, <1>6, <2>1 DEF f, d
  <1> QED
    BY <1>5, <1>7, <1>8 DEF CopiesOf

\* The copies of a file that is the target itself, and of no other file, when a
\* process steps.
LEMMA FileStep ==
    ASSUME TypeInv, TypeInv', TreeInv, CopyInv, NEW p \in Processes, ProcessStep(p),
           Target \notin Dirs, NEW f \in Files
    PROVE  /\ f # Target \/ pc'[Main] \in {"main", "stat"} => ~Printed(f)'
           /\ \A i \in 1 .. 2 : InBuffersOnce(<<f, i>>)' /\ Total(<<f, i>>)' <= 1
  <1>1. p = Main /\ Where(p) \notin Dirs
    <2>1. pc[p] # "none"
      BY Moves DEF Fork, AtEntry, Live
    <2>2. Where(p) \notin Dirs
      BY <2>1, ListsFacts DEF Lists
    <2> QED
      BY <2>2 DEF Where, Processes
  <1>2. ~Fork(p) /\ ~Stat(p)
    BY <1>1, EntryFacts DEF Fork, Stat
  <1>3. pc'[Main] \notin {"main", "stat"}
    BY <1>1, <1>2, Moves, Advances DEF Live
  <1>4. ASSUME Report(p), f = Entry(p) PROVE f = Target /\ ~Printed(f)
    <2>1. pc[Main] = "stat" /\ Where(p) \in Files
      BY <1>1, <1>4, ReportFacts DEF TypeInv, PlaceOK
    <2> QED
      BY <1>4, <2>1 DEF Entry, CopyInv
  <1>5. f # Target => ~Printed(f)'
    <2>1. f # Target => ~Printed(f)
      BY DEF CopyInv
    <2> QED
      BY <1>4, <2>1, Prints
  <1>6. ASSUME NEW i \in 1 .. 2 PROVE InBuffersOnce(<<f, i>>)' /\ Total(<<f, i>>)' <= 1
    <2>1. CASE Report(p) /\ f = Entry(p)
      BY <1>4, <2>1, NewCells
    <2>2. CASE ~(Report(p) /\ f = Entry(p))
      <3>1. InBuffersOnce(<<f, i>>) /\ Total(<<f, i>>) <= 1
        BY DEF CopyInv
      <3>2. InBuffersOnce(<<f, i>>)' /\ Total(<<f, i>>)' <= Total(<<f, i>>)
        BY <1>2, <2>2, <3>1, OldCells
      <3>3. Total(<<f, i>>) \in Nat /\ Total(<<f, i>>)' \in Nat
        BY CopiesTyped
      <3> QED
        BY <3>1, <3>2, <3>3
    <2> QED
      BY <2>1, <2>2
  <1> QED
    BY <1>3, <1>5, <1>6

\* Before anything is printed there is no copy.
Blank == out = <<>> /\ \A q \in Processes : buf[q] = <<>>

\* Then there is nothing to bound.
LEMMA BlankCopies == Blank => CopyInv
  <1> SUFFICES ASSUME Blank PROVE CopyInv
    OBVIOUS
  <1>1. \A f \in Files : ~Printed(f)
    BY NumberEmpty DEF Blank, Printed
  <1>2. ASSUME NEW c PROVE InBuffersOnce(c) /\ Holders(c) = {} /\ Total(c) = 0
    <2>1. Number(<<>>, c) = 0 /\ ToSet(<<>>) = {}
      BY NumberEmpty
    <2>2. InBuffersOnce(c) /\ Holders(c) = {}
      BY <2>1 DEF InBuffersOnce, Holders, Blank
    <2>3. Copies(c) = Number(out, c)
      BY DEF Copies, Number
    <2>4. Copies(c) = 0
      BY <2>1, <2>3 DEF Blank
    <2>5. Cardinality(Holders(c)) = 0
      BY <2>2, FS_EmptySet
    <2> QED
      BY <2>2, <2>4, <2>5 DEF Total
  <1>3. ASSUME NEW d PROVE Allowed(d) \in Nat
    <2>1. {x \in Below(d) : pc[x] # "none"} \subseteq Dirs
      BY DEF Below
    <2>2. Cardinality({x \in Below(d) : pc[x] # "none"}) \in Nat
      BY <2>1, FS_Subset, FS_CardinalityType, ForensicAssumption
    <2> QED
      BY <2>2 DEF Allowed
  <1>4. ASSUME NEW p \in Processes, NEW j, Entries[Where(p)][j] \in Files PROVE CopiesOf(p, j)
    <2>1. Allowed(Where(p)) \in Nat
      BY <1>3
    <2>2. ASSUME NEW i \in 1 .. 2
          PROVE  LET c == <<Entries[Where(p)][j], i>>
                 IN  /\ InBuffersOnce(c) /\ Holders(c) \subseteq {p} \cup Below(Where(p))
                     /\ Total(c) <= 1 + Allowed(Where(p))
      <3> DEFINE c == <<Entries[Where(p)][j], i>>
      <3>1. InBuffersOnce(c) /\ Holders(c) = {} /\ Total(c) = 0
        BY <1>2
      <3> HIDE DEF c
      <3>2. Total(c) <= 1 + Allowed(Where(p))
        BY <2>1, <3>1
      <3> QED
        BY <3>1, <3>2 DEF c
    <2> QED
      BY <1>1, <1>4, <2>2 DEF CopiesOf
  <1>5. ASSUME NEW f \in Files, NEW i \in 1 .. 2
        PROVE  InBuffersOnce(<<f, i>>) /\ Total(<<f, i>>) <= 1
    <2>1. InBuffersOnce(<<f, i>>) /\ Total(<<f, i>>) = 0
      BY <1>2
    <2> QED
      BY <2>1
  <1> QED
    BY <1>1, <1>4, <1>5 DEF CopyInv, Blank

\* Every step keeps the copies within their bound.
LEMMA CopyStep ==
    TypeInv /\ TypeInv' /\ TreeInv /\ CopyInv /\ [Next]_vars => CopyInv'
  <1>1. ASSUME TypeInv, TreeInv, Start PROVE Blank'
    <2>1. out' = out /\ buf' = buf /\ pc[Main] = "main"
      BY <1>1 DEF Start, Go
    <2> QED
      BY <1>1, <2>1 DEF TreeInv, Blank
  <1>2. Blank' => CopyInv'
    BY BlankCopies, PTL
  <1> SUFFICES ASSUME TypeInv, TypeInv', TreeInv, CopyInv, [Next]_vars PROVE CopyInv'
    OBVIOUS
  <1>3. ASSUME NEW p \in Processes, ProcessStep(p) PROVE CopyInv'
    <2>1. argv' = argv
      BY <1>3, Logs
    <2>2. Target' = Target /\ \A q : Where(q)' = Where(q) /\ (Lists(q)' <=> Lists(q))
      BY <2>1 DEF Target, Where, Lists
    <2>3. LineBuffered' => \A q \in Processes : buf'[q] = <<>>
      <3>1. LineBuffered' <=> LineBuffered
        <4>1. command' = command
          BY <1>3, Logs
        <4>2. tty' = tty
          BY <1>3 DEF ProcessStep, AnnounceFails, SkipDirectory, Fork, Stat, Report,
             ReportFails, Crash, Quit, EndOfDirectory, Finish, inputVars
        <4> QED
          BY <4>1, <4>2 DEF LineBuffered, Raised
      <3> QED
        BY <1>3, <3>1, TerminalStep DEF CopyInv
    <2>4. ASSUME NEW q \in Processes, Lists(q), NEW j \in DOMAIN Entries[Where(q)],
                 Entries[Where(q)][j] \in Files
          PROVE  CopiesOf(q, j)'
      BY <1>3, <2>4, CopiesStep
    <2>5. ASSUME Target \notin Dirs, NEW f \in Files
          PROVE  /\ f # Target \/ pc'[Main] \in {"main", "stat"} => ~Printed(f)'
                 /\ \A i \in 1 .. 2 : InBuffersOnce(<<f, i>>)' /\ Total(<<f, i>>)' <= 1
      BY <1>3, <2>5, FileStep
    <2> QED
      BY <2>2, <2>3, <2>4, <2>5 DEF CopyInv
  <1>4. CASE \/ \E signo \in {"SIGUSR1", "SIGUSR2"} : Handle(signo)
             \/ Interrupt \/ UNCHANGED vars
    <2>1. UNCHANGED <<argv, command, pc, pos, buf, out>>
      BY <1>4, Quiet
    <2>2. tty' = tty
      BY <1>4 DEF Handle, Interrupt, vars, inputVars
    <2>3. Target' = Target /\ \A q : Where(q)' = Where(q) /\ (Lists(q)' <=> Lists(q))
      BY <2>1 DEF Target, Where, Lists
    <2>4. /\ LineBuffered' <=> LineBuffered
          /\ \A c : (InBuffersOnce(c)' <=> InBuffersOnce(c)) /\ Holders(c)' = Holders(c)
          /\ \A c : Copies(c)' = Copies(c)
          /\ \A f : Printed(f)' <=> Printed(f)
      BY <2>1, <2>2 DEF LineBuffered, Raised, InBuffersOnce, Holders, Copies, Printed
    <2>5. \A c : Total(c)' = Total(c)
      BY <2>4 DEF Total
    <2>6. \A q, j : Untouched(q, j)' <=> Untouched(q, j)
      BY <2>1 DEF Untouched
    <2>7. \A d : Below(d)' = Below(d)
      BY <2>3 DEF Below, Children
    <2>8. \A d : Allowed(d)' = Allowed(d)
      BY <2>1, <2>4, <2>7 DEF Allowed
    <2>9. ASSUME NEW q, NEW j, CopiesOf(q, j) PROVE CopiesOf(q, j)'
      <3>1. Below(Where(q))' = Below(Where(q)) /\ Allowed(Where(q))' = Allowed(Where(q))
        BY <2>3, <2>7, <2>8
      <3> QED
        BY <2>3, <2>4, <2>5, <2>6, <2>9, <3>1 DEF CopiesOf
    <2> QED
      BY <2>1, <2>3, <2>4, <2>5, <2>9 DEF CopyInv
  <1> QED
    BY <1>1, <1>2, <1>3, <1>4 DEF Next

\* A line is written once if stdout is a terminal, and otherwise at most once more
\* for each directory below the one of its file: for every tree of directories.
THEOREM CopiesBounded == Spec => []CopiesByForkOnly
  <1>1. Init => CopyInv
    <2>1. Init => Blank
      BY DEF Init, Blank
    <2> QED
      BY <2>1, BlankCopies
  <1>2. TypeInv /\ CopyInv => CopiesByForkOnly
    <2> SUFFICES ASSUME TypeInv, CopyInv, NEW d \in Dirs,
                        NEW f \in ToSet(Entries[d]) \cap Files, NEW i \in 1 .. 2
                 PROVE  Copies(<<f, i>>) <=
                          1 + (IF LineBuffered THEN 0 ELSE Cardinality(Below(d)))
      BY DEF CopiesByForkOnly
    <2>1. IsFiniteSet(Below(d)) /\ Cardinality(Below(d)) \in Nat
      <3>1. Below(d) \subseteq Dirs
        BY DEF Below
      <3> QED
        BY <3>1, FS_Subset, FS_CardinalityType, ForensicAssumption
    <2>2. Allowed(d) \in Nat /\ Allowed(d) <= IF LineBuffered THEN 0 ELSE Cardinality(Below(d))
      <3>1. {x \in Below(d) : pc[x] # "none"} \subseteq Below(d)
        OBVIOUS
      <3>2. /\ Cardinality({x \in Below(d) : pc[x] # "none"}) \in Nat
            /\ Cardinality({x \in Below(d) : pc[x] # "none"}) <= Cardinality(Below(d))
        BY <2>1, <3>1, FS_Subset, FS_CardinalityType
      <3> QED
        BY <2>1, <3>2 DEF Allowed
    <2>3. Total(<<f, i>>) <= 1 + Allowed(d)
      <3>1. CASE Target \in Dirs
        <4>1. PICK p \in Processes : Lists(p) /\ Where(p) = d
          <5>1. CASE d = Target
            <6>1. Main \in Processes /\ Lists(Main) /\ Where(Main) = d
              BY <3>1, <5>1, ForensicAssumption DEF Processes, Lists, Where
            <6> QED
              BY <6>1
          <5>2. CASE d # Target
            <6>1. d \in Processes /\ Lists(d) /\ Where(d) = d
              BY <3>1, <5>2, ForensicAssumption DEF Processes, Lists, Where
            <6> QED
              BY <6>1
          <5> QED
            BY <5>1, <5>2
        <4>2. PICK j \in DOMAIN Entries[d] : f = Entries[d][j]
          BY DEF ToSet
        <4>3. CopiesOf(p, j)
          BY <4>1, <4>2 DEF CopyInv
        <4> QED
          BY <4>1, <4>2, <4>3 DEF CopiesOf
      <3>2. CASE Target \notin Dirs
        <4>1. Total(<<f, i>>) <= 1
          BY <3>2 DEF CopyInv
        <4>2. Total(<<f, i>>) \in Nat
          BY TotalTyped
        <4> QED
          BY <2>2, <4>1, <4>2
      <3> QED
        BY <3>1, <3>2
    <2>4. Copies(<<f, i>>) <= Total(<<f, i>>) /\ Copies(<<f, i>>) \in Nat
          /\ Total(<<f, i>>) \in Nat
      BY TotalTyped
    <2> QED
      BY <2>1, <2>2, <2>3, <2>4
  <1> QED
    BY <1>1, <1>2, TypeInit, TypeStep, TreeInit, TreeStep, CopyStep, PTL DEF Spec

=============================================================================
