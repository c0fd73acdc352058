----------------------------- MODULE LogProofs -----------------------------
(***************************************************************************)
(* Theorems about the logs, for any threads, processes and calls: what two *)
(* threads of a process can spoil, and what no interleaving can.           *)
(***************************************************************************)
EXTENDS Log, WellFoundedInduction, TLAPS

-----------------------------------------------------------------------------
(* The lines that are formatted.                                           *)

\* Every log function formats a sequence of fields.
LEMMA TextIsSequence ==
    ASSUME NEW p, NEW c, c.fun \in LogFunctions
    PROVE  \E S : Text(p, c) \in Seq(S)
  <1> DEFINE S == {"R", "E", "I", "S", "A", "OPEN", "CLOSE", "args", "value", "val",
                   "delay", "\n", c.id, c.type, c.account, c.op}
  <1>1. BaseRequestInfo(p, c) \in Seq(S) /\ BaseReplyInfo(p, c) \in Seq(S)
    BY DEF BaseRequestInfo, BaseReplyInfo
  <1>2. /\ <<>> \in Seq(S) /\ <<"args">> \in Seq(S) /\ <<"value">> \in Seq(S)
        /\ <<"\n">> \in Seq(S)
    OBVIOUS
  <1>3. /\ BankOfficeInfo(c, "OPEN") \in Seq(S) /\ BankOfficeInfo(c, "CLOSE") \in Seq(S)
        /\ <<"I", c.id, c.account, "\n">> \in Seq(S)
        /\ <<"S", c.id, c.op, "\n">> \in Seq(S)
        /\ <<"S", c.id, c.op, "val", "\n">> \in Seq(S)
        /\ <<"A", c.id, "delay", "\n">> \in Seq(S)
        /\ <<"A", c.id, c.account, "delay", "\n">> \in Seq(S)
    BY DEF BankOfficeInfo
  <1> HIDE DEF S
  <1>4. \A a, b \in Seq(S) : a \o b \in Seq(S)
    OBVIOUS
  <1>5. RequestText(p, c) \in Seq(S)
    BY <1>1, <1>2, <1>4 DEF RequestText
  <1>6. ReplyText(p, c) \in Seq(S)
    BY <1>1, <1>2, <1>4 DEF ReplyText
  <1>7. c.fun \notin {"logRequest", "logReply"} => EventText(c) \in Seq(S)
    BY <1>3 DEF EventText, LogFunctions
  <1> QED
    BY <1>5, <1>6, <1>7 DEF Text, LogFunctions

\* The fields of the lines of a process.
FieldsOf(p) ==
    UNION {ToSet(Text(p, c)) :
            c \in UNION {Range(Calls[t]) : t \in {s \in Threads : getpid[s] = p}}}

\* A line fits into the buffer with its NUL, and it is made of fields of its
\* process, none of which is a NUL.
LEMMA LineFacts ==
    ASSUME NEW t \in Threads, NEW i \in 1 .. Len(Calls[t])
    PROVE  LET line == Text(getpid[t], Calls[t][i])
           IN  /\ line \in Seq(FieldsOf(getpid[t]))
               /\ Len(line) \in Nat /\ Len(line) < PIPE_BUF
               /\ \A j \in 1 .. Len(line) :
                    line[j] # NUL /\ line[j] \in FieldsOf(getpid[t])
  <1> DEFINE line == Text(getpid[t], Calls[t][i])
             F == FieldsOf(getpid[t])
  <1>1. /\ Calls[t][i].fun \in LogFunctions
        /\ Len(line) < PIPE_BUF /\ NUL \notin ToSet(line)
        /\ Calls[t] \in Seq(Range(Calls[t]))
    BY LogAssumption
  <1>2. PICK S : line \in Seq(S)
    BY <1>1, TextIsSequence
  <1>3. DOMAIN Calls[t] = 1 .. Len(Calls[t])
    BY <1>1
  <1>4. Calls[t][i] \in Range(Calls[t])
    BY <1>3 DEF Range
  <1>5. ToSet(line) \subseteq F
    BY <1>4 DEF FieldsOf
  <1> HIDE DEF line, F
  <1>6. \A j \in 1 .. Len(line) : line[j] \in ToSet(line)
    BY <1>2 DEF ToSet
  <1>7. Len(line) \in Nat /\ line \in Seq(F)
    BY <1>2, <1>5, <1>6
  <1> QED
    BY <1>1, <1>5, <1>6, <1>7 DEF line, F

\* The least of a set of numbers.
LEMMA MinFacts ==
    ASSUME NEW Z, Z \subseteq Nat, Z # {}
    PROVE  Min(Z) \in Z /\ \A z \in Z : Min(Z) <= z
  <1>1. PICK x \in Z : \A y \in Z : <<y, x>> \notin OpToRel(<, Nat)
    BY NatLessThanWellFounded, WFMin
  <1>2. \A y \in Z : ~(y < x)
    BY <1>1 DEF OpToRel
  <1>3. \A y \in Z : x <= y
    BY <1>2
  <1> QED
    BY <1>3 DEF Min

\* The fields of all processes.
Fields == {NUL} \cup UNION {FieldsOf(p) : p \in Processes}

-----------------------------------------------------------------------------
(* Types.  A thread that formats stays within the buffer, and never puts   *)
(* anything but a NUL into its last cell: this is why strlen finds a NUL   *)
(* even if two threads format at the same time.                            *)

PlaceOK(t) ==
    /\ call[t] \in 1 .. Len(Calls[t]) + 1
    /\ pc[t] # "idle" => call[t] \in 1 .. Len(Calls[t]) /\ Line(t) # <<>>
    /\ pc[t] = "format" => at[t] \in 1 .. Len(Line(t)) + 1
    /\ pc[t] = "write" => at[t] \in 0 .. PIPE_BUF - 1

Places ==
    /\ pc \in [Threads -> {"idle", "format", "strlen", "write"}]
    /\ at \in [Threads -> 0 .. PIPE_BUF + 1]
    /\ call \in [Threads -> Nat]
    /\ \A t \in Threads : PlaceOK(t)

Buffers ==
    /\ buffer \in [Processes -> [1 .. PIPE_BUF -> Fields]]
    /\ \A p \in Processes : buffer[p][PIPE_BUF] = NUL

Logs ==
    /\ file \in [Range(logfile) ->
                    Seq([by : Threads, call : Nat, text : Seq(Fields)])]
    /\ \A x \in Chunks : Len(x.text) < PIPE_BUF

TypeInv == Places /\ Buffers /\ Logs

\* The processes and logs of the threads.
LEMMA OfThread ==
    ASSUME NEW t \in Threads
    PROVE  /\ getpid[t] \in Processes /\ Buffer(t) = getpid[t]
           /\ logfile[getpid[t]] \in Range(logfile)
  BY LogAssumption DEF Processes, Buffer, Range

\* The number of calls of a thread.
LEMMA CallCount == \A t \in Threads : Len(Calls[t]) \in Nat
  BY LogAssumption

\* What Format stores: a field of the line, or the NUL after it.
LEMMA FormatFacts ==
    ASSUME TypeInv, NEW t \in Threads, Format(t)
    PROVE  LET line == Line(t)
               cell == IF at[t] > Len(line) THEN NUL ELSE line[at[t]]
           IN  /\ call[t] \in 1 .. Len(Calls[t])
               /\ at[t] \in 1 .. Len(line) + 1 /\ Len(line) + 1 <= PIPE_BUF
               /\ line \in Seq(FieldsOf(getpid[t])) /\ Len(line) \in Nat
               /\ cell \in FieldsOf(getpid[t]) \cup {NUL}
               /\ cell = NUL <=> at[t] = Len(line) + 1
               /\ buffer' \in [Processes -> [1 .. PIPE_BUF -> Fields]]
               /\ \A p \in Processes, i \in 1 .. PIPE_BUF :
                    buffer'[p][i] = IF p = getpid[t] /\ i = at[t] THEN cell
                                                                  ELSE buffer[p][i]
  <1> DEFINE line == Line(t)
             cell == IF at[t] > Len(line) THEN NUL ELSE line[at[t]]
             p == getpid[t]
  <1>1. call[t] \in 1 .. Len(Calls[t]) /\ at[t] \in 1 .. Len(line) + 1
    BY DEF TypeInv, Places, PlaceOK, Format, Go
  <1>2. /\ line \in Seq(FieldsOf(p)) /\ Len(line) \in Nat /\ Len(line) < PIPE_BUF
        /\ \A j \in 1 .. Len(line) : line[j] # NUL /\ line[j] \in FieldsOf(p)
    BY <1>1, LineFacts DEF Line
  <1>3. p \in Processes /\ Buffer(t) = p
    BY OfThread
  <1>4. buffer' = [buffer EXCEPT ![p][at[t]] = cell]
    BY <1>3 DEF Format
  <1> HIDE DEF line, p
  <1>5. cell \in FieldsOf(p) \cup {NUL} /\ (cell = NUL <=> at[t] = Len(line) + 1)
    BY <1>1, <1>2
  <1> HIDE DEF cell
  <1>6. cell \in Fields
    <2>1. FieldsOf(p) \cup {NUL} \subseteq Fields
      <3>1. ASSUME NEW f \in FieldsOf(p) PROVE f \in Fields
        BY <1>3, Zenon DEF Fields
      <3>2. NUL \in Fields
        BY Zenon DEF Fields
      <3> QED
        BY <3>1, <3>2
    <2> QED
      BY <1>5, <2>1
  <1>7. at[t] \in 1 .. PIPE_BUF
    BY <1>1, <1>2, LogAssumption
  <1>8. /\ buffer' \in [Processes -> [1 .. PIPE_BUF -> Fields]]
        /\ \A q \in Processes, i \in 1 .. PIPE_BUF :
             buffer'[q][i] = IF q = p /\ i = at[t] THEN cell ELSE buffer[q][i]
    BY <1>3, <1>4, <1>6, <1>7 DEF TypeInv, Buffers
  <1> QED
    BY <1>1, <1>2, <1>5, <1>8, LogAssumption DEF line, cell, p

\* The length that strlen finds: the place before the first NUL.
LEMMA StrlenFacts ==
    ASSUME TypeInv, NEW t \in Threads, Strlen(t)
    PROVE  LET b == buffer[getpid[t]]
           IN  /\ at'[t] \in 0 .. PIPE_BUF - 1
               /\ b[at'[t] + 1] = NUL
               /\ \A i \in 1 .. PIPE_BUF : b[i] = NUL => at'[t] < i
  <1> DEFINE b == buffer[getpid[t]]
             Z == {i \in 1 .. PIPE_BUF : b[i] = NUL}
  <1>1. PIPE_BUF \in Z /\ Z \subseteq Nat
    BY OfThread, LogAssumption DEF TypeInv, Buffers
  <1>2. at'[t] = Min(Z) - 1
    BY OfThread DEF Strlen, TypeInv, Places
  <1>3. Min(Z) \in Z /\ \A z \in Z : Min(Z) <= z
    BY <1>1, MinFacts
  <1>4. Min(Z) \in 1 .. PIPE_BUF /\ b[Min(Z)] = NUL
    BY <1>3
  <1>5. \A i \in 1 .. PIPE_BUF : b[i] = NUL => Min(Z) <= i
    BY <1>3
  <1> DEFINE m == Min(Z)
  <1> HIDE DEF Z
  <1>6. /\ at'[t] = m - 1 /\ m \in 1 .. PIPE_BUF /\ PIPE_BUF \in Nat
        /\ b[m] = NUL /\ \A i \in 1 .. PIPE_BUF : b[i] = NUL => m <= i
    BY <1>2, <1>4, <1>5, LogAssumption
  <1> HIDE DEF m
  <1>7. at'[t] \in 0 .. PIPE_BUF - 1 /\ at'[t] + 1 = m
    BY <1>6
  <1> QED
    BY <1>6, <1>7

\* What Write appends.
LEMMA WriteFacts ==
    ASSUME TypeInv, NEW t \in Threads, Write(t)
    PROVE  LET l == logfile[getpid[t]]
               x == Chunk(t)
           IN  /\ l \in Range(logfile)
               /\ x \in [by : Threads, call : Nat, text : Seq(Fields)]
               /\ x.by = t /\ x.call = call[t]
               /\ Len(x.text) = at[t] /\ at[t] \in 0 .. PIPE_BUF - 1
               /\ \A i \in 1 .. at[t] : x.text[i] = buffer[getpid[t]][i]
               /\ file' = [file EXCEPT ![l] = Append(@, x)]
               /\ \A y \in Chunks' : y \in Chunks \/ y = x
  <1> DEFINE l == logfile[getpid[t]]
             x == Chunk(t)
             b == buffer[getpid[t]]
             R == [by : Threads, call : Nat, text : Seq(Fields)]
  <1>1. l \in Range(logfile) /\ getpid[t] \in Processes /\ Buffer(t) = getpid[t]
    BY OfThread
  <1>2. b \in Seq(Fields) /\ Len(b) = PIPE_BUF
    <2>1. b \in [1 .. PIPE_BUF -> Fields] /\ PIPE_BUF \in Nat
      BY <1>1, LogAssumption DEF TypeInv, Buffers
    <2> HIDE DEF b
    <2> QED
      BY <2>1
  <1>3. at[t] \in 0 .. PIPE_BUF - 1 /\ call[t] \in Nat
    BY DEF TypeInv, Places, PlaceOK, Write, Go
  <1>4. x.by = t /\ x.call = call[t] /\ x.text = SubSeq(b, 1, at[t])
    BY <1>1 DEF Chunk
  <1>5. /\ SubSeq(b, 1, at[t]) \in Seq(Fields)
        /\ Len(SubSeq(b, 1, at[t])) = at[t]
        /\ \A i \in 1 .. at[t] : SubSeq(b, 1, at[t])[i] = b[i]
    <2> HIDE DEF b
    <2> QED
      BY <1>2, <1>3, LogAssumption
  <1>6. x \in R
    BY <1>1, <1>3, <1>5 DEF Chunk
  <1>7. file' = [file EXCEPT ![l] = Append(@, x)]
    BY DEF Write
  <1> HIDE DEF l, x, b, R
  <1>8. file \in [Range(logfile) -> Seq(R)]
    BY DEF TypeInv, Logs, R
  <1>9. ASSUME NEW y \in Chunks' PROVE y \in Chunks \/ y = x
    <2>0. PICK k \in Range(logfile) : \E i \in DOMAIN file'[k] : y = file'[k][i]
      BY <1>7, <1>8, <1>9 DEF Chunks, Range
    <2>1. PICK i \in DOMAIN file'[k] : y = file'[k][i]
      BY <2>0
    <2>2. CASE k # l
      <3>1. file'[k] = file[k]
        BY <1>7, <1>8, <2>2
      <3> QED
        BY <1>8, <2>1, <3>1 DEF Chunks, Range
    <2>3. CASE k = l
      <3>1. file'[k] = Append(file[l], x) /\ file[l] \in Seq(R)
        BY <1>1, <1>7, <1>8, <2>3 DEF l
      <3>2. i \in 1 .. Len(file[l]) + 1
        BY <1>6, <2>1, <3>1
      <3>3. CASE i = Len(file[l]) + 1
        BY <1>6, <2>1, <3>1, <3>3
      <3>4. CASE i \in 1 .. Len(file[l])
        <4>1. y = file[l][i] /\ i \in DOMAIN file[l]
          BY <1>6, <2>1, <3>1, <3>4
        <4> QED
          BY <1>1, <1>8, <4>1 DEF Chunks, Range, l
      <3> QED
        BY <3>1, <3>2, <3>3, <3>4
    <2> QED
      BY <2>2, <2>3
  <1> QED
    BY <1>1, <1>3, <1>4, <1>5, <1>6, <1>7, <1>9 DEF l, x, b, R

\* At the start all buffers are full of NULs and the logs are empty.
LEMMA TypeInit == Init => TypeInv
  <1> SUFFICES ASSUME Init PROVE TypeInv
    OBVIOUS
  <1>1. PIPE_BUF \in Nat /\ PIPE_BUF >= 1 /\ 1 \in 0 .. PIPE_BUF + 1
    BY LogAssumption
  <1>2. Places
    BY <1>1, CallCount DEF Init, Places, PlaceOK
  <1>3. NUL \in Fields
    BY DEF Fields
  <1>4. Buffers
    BY <1>1, <1>3 DEF Init, Buffers
  <1>5. Logs
    <2>1. Chunks = {}
      BY DEF Init, Chunks, Range
    <2> QED
      BY <2>1 DEF Init, Logs
  <1> QED
    BY <1>2, <1>4, <1>5 DEF TypeInv

\* A step of a thread that does not write leaves the chunks alone, and one that
\* does not format the buffers.
LEMMA Frames ==
    ASSUME NEW t \in Threads
    PROVE  /\ Skip(t) \/ Begin(t) \/ Format(t) \/ Strlen(t) => file' = file
           /\ Skip(t) \/ Begin(t) \/ Strlen(t) \/ Write(t) => buffer' = buffer
           /\ file' = file => Chunks' = Chunks
           /\ Skip(t) \/ Begin(t) \/ Strlen(t) \/ Write(t) => overlapped' = overlapped
  BY DEF Skip, Begin, Format, Strlen, Write, Chunks

\* A thread that does not step stays where it is.
LEMMA Elsewhere ==
    ASSUME NEW s \in Threads, PlaceOK(s),
           pc'[s] = pc[s], call'[s] = call[s], at'[s] = at[s]
    PROVE  PlaceOK(s)'
  BY DEF PlaceOK, Line

\* Every step keeps the threads within the buffer and its last cell a NUL.
LEMMA TypeStep == TypeInv /\ [Next]_vars => TypeInv'
  <1> SUFFICES ASSUME TypeInv, [Next]_vars PROVE TypeInv'
    OBVIOUS
  <1>0. PIPE_BUF \in Nat /\ PIPE_BUF >= 1
    BY LogAssumption
  <1>1. ASSUME NEW t \in Threads, Skip(t) PROVE TypeInv'
    <2>1. PlaceOK(t)'
      BY <1>1, CallCount DEF TypeInv, Places, PlaceOK, Skip, Go, Line
    <2>2. Places'
      <3>1. call' \in [Threads -> Nat]
        BY <1>1 DEF TypeInv, Places, Skip
      <3> QED
        BY <1>1, <2>1, <3>1, Elsewhere DEF TypeInv, Places, Skip, Go
    <2> QED
      BY <1>1, <2>2, Frames DEF TypeInv, Buffers, Logs
  <1>2. ASSUME NEW t \in Threads, Begin(t) PROVE TypeInv'
    <2>1. call[t] \in 1 .. Len(Calls[t])
      BY <1>2, CallCount DEF TypeInv, Places, PlaceOK, Begin, Go
    <2>2. Len(Line(t)) \in Nat /\ Len(Line(t)) < PIPE_BUF
      BY <2>1, LineFacts DEF Line
    <2>3. PlaceOK(t)'
      BY <1>0, <1>2, <2>1, <2>2 DEF TypeInv, Places, PlaceOK, Begin, Go, Line
    <2>4. Places'
      BY <1>0, <1>2, <2>3, Elsewhere DEF TypeInv, Places, Begin, Go
    <2> QED
      BY <1>2, <2>4, Frames DEF TypeInv, Buffers, Logs
  <1>3. ASSUME NEW t \in Threads, Format(t) PROVE TypeInv'
    <2>1. /\ call[t] \in 1 .. Len(Calls[t]) /\ Len(Line(t)) \in Nat
          /\ at[t] \in 1 .. Len(Line(t)) + 1 /\ Len(Line(t)) + 1 <= PIPE_BUF
      BY <1>3, FormatFacts
    <2>2. Places'
      <3>1. /\ pc' = [pc EXCEPT ![t] = IF at[t] > Len(Line(t)) THEN "strlen" ELSE "format"]
            /\ at' = [at EXCEPT ![t] = @ + 1] /\ call' = call
        BY <1>3 DEF Format, Go
      <3>2. PlaceOK(t) /\ Line(t)' = Line(t) /\ at'[t] = at[t] + 1
        BY <3>1 DEF TypeInv, Places, Line
      <3>3. PlaceOK(t)'
        BY <1>3, <2>1, <3>1, <3>2 DEF TypeInv, Places, PlaceOK, Format, Go
      <3>4. at' \in [Threads -> 0 .. PIPE_BUF + 1]
        BY <1>0, <2>1, <3>1 DEF TypeInv, Places
      <3> QED
        BY <3>1, <3>3, <3>4, Elsewhere DEF TypeInv, Places
    <2>3. Buffers'
      <3> DEFINE cell == IF at[t] > Len(Line(t)) THEN NUL ELSE Line(t)[at[t]]
      <3>1. /\ cell = NUL <=> at[t] = Len(Line(t)) + 1
            /\ buffer' \in [Processes -> [1 .. PIPE_BUF -> Fields]]
            /\ \A p \in Processes, i \in 1 .. PIPE_BUF :
                 buffer'[p][i] = IF p = getpid[t] /\ i = at[t] THEN cell
                                                               ELSE buffer[p][i]
        BY <1>3, FormatFacts
      <3> HIDE DEF cell
      <3>2. ASSUME NEW p \in Processes PROVE buffer'[p][PIPE_BUF] = NUL
        <4>1. PIPE_BUF \in 1 .. PIPE_BUF /\ buffer[p][PIPE_BUF] = NUL
          BY <1>0 DEF TypeInv, Buffers
        <4>2. PIPE_BUF = at[t] => cell = NUL
          BY <1>0, <2>1, <3>1
        <4> QED
          BY <3>1, <4>1, <4>2
      <3> QED
        BY <3>1, <3>2 DEF Buffers
    <2> QED
      BY <1>3, <2>2, <2>3, Frames DEF TypeInv, Logs
  <1>4. ASSUME NEW t \in Threads, Strlen(t) PROVE TypeInv'
    <2>1. at'[t] \in 0 .. PIPE_BUF - 1
      BY <1>4, StrlenFacts
    <2>2. PlaceOK(t)'
      BY <1>4, <2>1 DEF TypeInv, Places, PlaceOK, Strlen, Go, Line
    <2>3. at' \in [Threads -> 0 .. PIPE_BUF + 1]
      <3>1. at'[t] \in 0 .. PIPE_BUF + 1
        BY <1>0, <2>1
      <3> DEFINE n == Min({i \in 1 .. PIPE_BUF : buffer[Buffer(t)][i] = NUL}) - 1
      <3>2. at' = [at EXCEPT ![t] = n]
        BY <1>4 DEF Strlen
      <3> HIDE DEF n
      <3> QED
        BY <3>1, <3>2 DEF TypeInv, Places
    <2>4. Places'
      <3>1. \A s \in Threads : s # t => at'[s] = at[s]
        BY <1>4 DEF TypeInv, Places, Strlen
      <3> QED
        BY <1>4, <2>2, <2>3, <3>1, Elsewhere DEF TypeInv, Places, Strlen, Go
    <2> QED
      BY <1>4, <2>4, Frames DEF TypeInv, Buffers, Logs
  <1>5. ASSUME NEW t \in Threads, Write(t) PROVE TypeInv'
    <2> DEFINE l == logfile[getpid[t]]
               x == Chunk(t)
               R == [by : Threads, call : Nat, text : Seq(Fields)]
    <2>1. /\ l \in Range(logfile) /\ x \in R /\ x.by = t
          /\ Len(x.text) = at[t] /\ at[t] \in 0 .. PIPE_BUF - 1
          /\ \A i \in 1 .. at[t] : x.text[i] = buffer[getpid[t]][i]
          /\ file' = [file EXCEPT ![l] = Append(@, x)]
          /\ \A y \in Chunks' : y \in Chunks \/ y = x
      BY <1>5, WriteFacts
    <2> HIDE DEF l, x
    <2>3. file' \in [Range(logfile) -> Seq(R)]
      <3>1. file \in [Range(logfile) -> Seq(R)]
        BY DEF TypeInv, Logs
      <3> HIDE DEF R
      <3> QED
        BY <2>1, <3>1
    <2>4. Logs'
      <3>1. Len(x.text) < PIPE_BUF
        BY <1>0, <2>1
      <3> QED
        BY <2>1, <2>3, <3>1 DEF TypeInv, Logs
    <2>5. PlaceOK(t)'
      BY <1>5, CallCount DEF TypeInv, Places, PlaceOK, Write, Go
    <2>6. Places'
      BY <1>5, <2>5, Elsewhere DEF TypeInv, Places, Write, Go
    <2> QED
      BY <1>5, <2>4, <2>6, Frames DEF TypeInv, Buffers
  <1>6. CASE UNCHANGED vars
    <2>1. Chunks' = Chunks
      BY <1>6 DEF vars, Chunks
    <2>2. Places'
      BY <1>6 DEF vars, TypeInv, Places, PlaceOK, Line
    <2>3. Buffers' /\ Logs'
      BY <1>6, <2>1 DEF vars, TypeInv, Buffers, Logs
    <2> QED
      BY <2>2, <2>3 DEF TypeInv
  <1> QED
    BY <1>1, <1>2, <1>3, <1>4, <1>5, <1>6 DEF Next

\* However the threads mix up their lines, strlen finds a NUL in the buffer: a
\* write is never longer than the buffer, and the places keep to their types.
THEOREM TypeCorrect == Spec => []TypeOK
  <1>1. TypeInv => TypeOK
    <2> SUFFICES ASSUME TypeInv PROVE TypeOK
      OBVIOUS
    <2> DEFINE R == [by : Threads, call : Nat, text : Seq(Fields)]
    <2>1. \A l \in DOMAIN file : Range(file[l]) \subseteq R
      <3>1. file \in [Range(logfile) -> Seq(R)]
        BY DEF TypeInv, Logs
      <3> HIDE DEF R
      <3> QED
        BY <3>1 DEF Range
    <2>2. \A x \in Chunks : x.by \in Threads
      BY <2>1 DEF Chunks
    <2> QED
      BY <2>2 DEF TypeInv, Places, PlaceOK, Buffers, Logs, TypeOK
  <1> QED
    BY <1>1, TypeInit, TypeStep, PTL DEF Spec

-----------------------------------------------------------------------------
(* Whole lines.  As long as no other thread has stored into the buffer     *)
(* during its call, what a thread has formatted so far is there; after the *)
(* NUL is stored, strlen finds the length of the line.                     *)

Undisturbed(t) ==
    LET line == Line(t)
        b == buffer[getpid[t]]
    IN  pc[t] # "idle" /\ <<t, call[t]>> \notin overlapped =>
            /\ \A j \in 1 .. Len(line) : pc[t] # "format" \/ j < at[t] => b[j] = line[j]
            /\ pc[t] \in {"strlen", "write"} => b[Len(line) + 1] = NUL
            /\ pc[t] = "write" => at[t] = Len(line)

WholeInv ==
    /\ WholeUnlessOverlapped
    /\ \A t \in Threads : Undisturbed(t)

\* Threads whose buffer and place do not change stay undisturbed, even if more
\* calls are overlapped.
LEMMA StaysUndisturbed ==
    ASSUME NEW s \in Threads, Undisturbed(s), overlapped \subseteq overlapped',
           pc'[s] = pc[s], call'[s] = call[s], at'[s] = at[s],
           buffer'[getpid[s]] = buffer[getpid[s]]
    PROVE  Undisturbed(s)'
  <1>1. Line(s)' = Line(s)
    BY DEF Line
  <1> QED
    BY <1>1 DEF Undisturbed

\* The chunks written so far stay whole, too.
LEMMA StayWhole ==
    ASSUME WholeUnlessOverlapped, Chunks' = Chunks, overlapped \subseteq overlapped'
    PROVE  WholeUnlessOverlapped'
  BY DEF WholeUnlessOverlapped

\* Every step keeps undisturbed lines whole.
LEMMA WholeStep == TypeInv /\ WholeInv /\ [Next]_vars => WholeInv'
  <1> SUFFICES ASSUME TypeInv, WholeInv, [Next]_vars PROVE WholeInv'
    OBVIOUS
  <1>0. PIPE_BUF \in Nat /\ PIPE_BUF >= 1
    BY LogAssumption
  <1>1. ASSUME NEW t \in Threads, Skip(t) \/ Begin(t) PROVE WholeInv'
    <2>1. Undisturbed(t)'
      <3>1. pc'[t] = "idle" \/ (pc'[t] = "format" /\ at'[t] = 1)
        BY <1>1 DEF TypeInv, Places, Skip, Begin, Go
      <3> QED
        BY <3>1 DEF Undisturbed
    <2>2. ASSUME NEW s \in Threads, s # t PROVE Undisturbed(s)'
      <3>1. pc'[s] = pc[s] /\ call'[s] = call[s] /\ at'[s] = at[s]
        BY <1>1, <2>2 DEF TypeInv, Places, Skip, Begin, Go
      <3> QED
        BY <1>1, <3>1, Frames, StaysUndisturbed DEF WholeInv
    <2>3. WholeUnlessOverlapped'
      BY <1>1, Frames, StayWhole DEF WholeInv
    <2> QED
      BY <2>1, <2>2, <2>3 DEF WholeInv
  <1>2. ASSUME NEW t \in Threads, Format(t) PROVE WholeInv'
    <2> DEFINE line == Line(t)
               p == getpid[t]
               cell == IF at[t] > Len(line) THEN NUL ELSE line[at[t]]
    <2>1. /\ at[t] \in 1 .. Len(line) + 1 /\ Len(line) + 1 <= PIPE_BUF
          /\ Len(line) \in Nat
          /\ buffer' \in [Processes -> [1 .. PIPE_BUF -> Fields]]
          /\ \A q \in Processes, i \in 1 .. PIPE_BUF :
               buffer'[q][i] = IF q = p /\ i = at[t] THEN cell ELSE buffer[q][i]
      BY <1>2, FormatFacts
    <2>2. /\ pc' = [pc EXCEPT ![t] = IF at[t] > Len(line) THEN "strlen" ELSE "format"]
          /\ at' = [at EXCEPT ![t] = @ + 1] /\ call' = call /\ pc[t] = "format"
          /\ overlapped' = overlapped \cup {<<s, call[s]>> : s \in Users(t)}
      BY <1>2 DEF Format, Go
    <2>3. Line(t)' = line /\ p \in Processes
      BY <2>2, OfThread DEF Line
    <2>4. /\ at'[t] = at[t] + 1 /\ call'[t] = call[t]
          /\ pc'[t] = IF at[t] > Len(line) THEN "strlen" ELSE "format"
          /\ overlapped \subseteq overlapped'
      BY <2>2 DEF TypeInv, Places
    <2>5. Undisturbed(t)'
      <3> SUFFICES ASSUME <<t, call[t]>> \notin overlapped
                   PROVE  Undisturbed(t)'
        BY <2>4 DEF Undisturbed
      <3>1. \A j \in 1 .. Len(line) : j < at[t] => buffer[p][j] = line[j]
        BY <2>2 DEF WholeInv, Undisturbed
      <3> HIDE DEF line, p, cell
      <3>2. \A j \in 1 .. Len(line) : j < at[t] + 1 => buffer'[p][j] = line[j]
        <4> SUFFICES ASSUME NEW j \in 1 .. Len(line), j < at[t] + 1
                     PROVE  buffer'[p][j] = line[j]
          OBVIOUS
        <4>1. j \in 1 .. PIPE_BUF /\ (j = at[t] => cell = line[j])
          BY <1>0, <2>1 DEF cell
        <4> QED
          BY <2>1, <2>3, <3>1, <4>1
      <3>3. at[t] > Len(line) => buffer'[p][Len(line) + 1] = NUL
        BY <1>0, <2>1, <2>3 DEF cell
      <3> QED
        BY <2>1, <2>3, <2>4, <3>2, <3>3 DEF Undisturbed, line, p
    <2>6. ASSUME NEW s \in Threads, s # t PROVE Undisturbed(s)'
      <3>1. pc'[s] = pc[s] /\ call'[s] = call[s] /\ at'[s] = at[s]
        BY <2>2, <2>6 DEF TypeInv, Places
      <3>2. CASE getpid[s] = p /\ pc[s] # "idle"
        <4>1. <<s, call[s]>> \in overlapped'
          BY <2>2, <2>6, <3>2, OfThread DEF Users
        <4> QED
          BY <3>1, <4>1 DEF Undisturbed
      <3>3. CASE pc[s] = "idle"
        BY <3>1, <3>3 DEF Undisturbed
      <3>4. CASE getpid[s] # p
        <4>1. buffer' = [buffer EXCEPT ![p] = [@ EXCEPT ![at[t]] = cell]]
          BY <1>2, OfThread DEF Format
        <4> HIDE DEF p, cell
        <4>2. buffer'[getpid[s]] = buffer[getpid[s]]
          BY <3>4, <4>1, OfThread DEF TypeInv, Buffers
        <4> QED
          BY <2>4, <3>1, <4>2, StaysUndisturbed DEF WholeInv
      <3> QED
        BY <3>2, <3>3, <3>4
    <2>7. WholeUnlessOverlapped'
      BY <1>2, <2>4, Frames, StayWhole DEF WholeInv
    <2> QED
      BY <2>5, <2>6, <2>7 DEF WholeInv
  <1>3. ASSUME NEW t \in Threads, Strlen(t) PROVE WholeInv'
    <2> DEFINE line == Line(t)
               b == buffer[getpid[t]]
    <2>1. /\ pc[t] = "strlen" /\ pc'[t] = "write" /\ call'[t] = call[t]
          /\ Line(t)' = line /\ buffer' = buffer /\ overlapped' = overlapped
      BY <1>3 DEF TypeInv, Places, Strlen, Go, Line
    <2>2. call[t] \in 1 .. Len(Calls[t])
      BY <2>1 DEF TypeInv, Places, PlaceOK
    <2>3. /\ Len(line) \in Nat /\ Len(line) < PIPE_BUF
          /\ \A j \in 1 .. Len(line) : line[j] # NUL
      BY <2>2, LineFacts DEF Line
    <2>4. /\ at'[t] \in 0 .. PIPE_BUF - 1 /\ b[at'[t] + 1] = NUL
          /\ \A i \in 1 .. PIPE_BUF : b[i] = NUL => at'[t] < i
      BY <1>3, StrlenFacts
    <2>5. Undisturbed(t)'
      <3> SUFFICES ASSUME <<t, call[t]>> \notin overlapped PROVE Undisturbed(t)'
        BY <2>1 DEF Undisturbed
      <3>1. /\ \A j \in 1 .. Len(line) : b[j] = line[j]
            /\ b[Len(line) + 1] = NUL
        BY <2>1 DEF WholeInv, Undisturbed
      <3> HIDE DEF line, b
      <3>2. at'[t] < Len(line) + 1
        BY <1>0, <2>3, <2>4, <3>1
      <3>3. at'[t] + 1 \notin 1 .. Len(line)
        BY <2>3, <2>4, <3>1
      <3>4. at'[t] = Len(line)
        BY <1>0, <2>3, <2>4, <3>2, <3>3
      <3> QED
        BY <2>1, <3>1, <3>4 DEF Undisturbed, line, b
    <2>6. ASSUME NEW s \in Threads, s # t PROVE Undisturbed(s)'
      <3>1. pc'[s] = pc[s] /\ call'[s] = call[s] /\ at'[s] = at[s]
        BY <1>3, <2>6 DEF TypeInv, Places, Strlen, Go
      <3> QED
        BY <2>1, <3>1, StaysUndisturbed DEF WholeInv
    <2>7. WholeUnlessOverlapped'
      BY <1>3, Frames, StayWhole DEF WholeInv
    <2> QED
      BY <2>5, <2>6, <2>7 DEF WholeInv
  <1>4. ASSUME NEW t \in Threads, Write(t) PROVE WholeInv'
    <2> DEFINE line == Line(t)
               x == Chunk(t)
    <2>1. /\ x.by = t /\ x.call = call[t] /\ x.text \in Seq(Fields)
          /\ Len(x.text) = at[t] /\ at[t] \in 0 .. PIPE_BUF - 1
          /\ \A i \in 1 .. at[t] : x.text[i] = buffer[getpid[t]][i]
          /\ \A y \in Chunks' : y \in Chunks \/ y = x
      BY <1>4, WriteFacts
    <2>2. pc[t] = "write" /\ pc'[t] = "idle"
      BY <1>4 DEF TypeInv, Places, Write, Go
    <2>3. line \in Seq(FieldsOf(getpid[t])) /\ line = Text(getpid[t], Calls[t][call[t]])
      BY <2>2, LineFacts DEF TypeInv, Places, PlaceOK, Line
    <2>4. <<t, call[t]>> \notin overlapped => x.text = line
      <3> SUFFICES ASSUME <<t, call[t]>> \notin overlapped PROVE x.text = line
        OBVIOUS
      <3>1. /\ \A j \in 1 .. Len(line) : buffer[getpid[t]][j] = line[j]
            /\ at[t] = Len(line)
        BY <2>2 DEF WholeInv, Undisturbed
      <3> HIDE DEF x, line
      <3> QED
        BY <2>1, <2>3, <3>1
    <2>5. WholeUnlessOverlapped'
      <3> HIDE DEF x, line
      <3> QED
        BY <1>4, <2>1, <2>3, <2>4, Frames, SMTT(30) DEF WholeInv, WholeUnlessOverlapped
    <2>6. ASSUME NEW s \in Threads PROVE Undisturbed(s)'
      <3>1. CASE s = t
        BY <2>2, <3>1 DEF Undisturbed
      <3>2. CASE s # t
        <4>1. pc'[s] = pc[s] /\ call'[s] = call[s] /\ at'[s] = at[s]
          BY <1>4, <3>2 DEF TypeInv, Places, Write, Go
        <4> QED
          BY <1>4, <4>1, Frames, StaysUndisturbed DEF WholeInv
      <3> QED
        BY <3>1, <3>2
    <2> QED
      BY <2>5, <2>6 DEF WholeInv
  <1>5. CASE UNCHANGED vars
    <2>1. Chunks' = Chunks
      BY <1>5 DEF vars, Chunks
    <2> QED
      BY <1>5, <2>1, StayWhole, StaysUndisturbed DEF vars, WholeInv
  <1> QED
    BY <1>1, <1>2, <1>3, <1>4, <1>5 DEF Next

\* A line is in the log as its call formats it, unless another thread of the same
\* process has stored into the buffer during the call.
THEOREM LinesAreWhole == Spec => []WholeUnlessOverlapped
  <1>1. Init => WholeInv
    <2> SUFFICES ASSUME Init PROVE WholeInv
      OBVIOUS
    <2>1. Chunks = {}
      BY DEF Init, Chunks, Range
    <2>2. \A t \in Threads : pc[t] = "idle"
      BY DEF Init
    <2> QED
      BY <2>1, <2>2 DEF WholeInv, WholeUnlessOverlapped, Undisturbed
  <1>2. WholeInv => WholeUnlessOverlapped
    BY DEF WholeInv
  <1> QED
    BY <1>1, <1>2, TypeInit, TypeStep, WholeStep, PTL DEF Spec

-----------------------------------------------------------------------------
(* One write per call.  OneEach is inductive: a write adds the chunk of    *)
(* the thread's present call after all chunks of its earlier ones, and the *)
(* chunks of other threads keep their places.                              *)

LogOf(t) == file[logfile[getpid[t]]]

Own(t) == {k \in DOMAIN LogOf(t) : LogOf(t)[k].by = t}

Over(t) == {i \in 1 .. call[t] - 1 : Text(getpid[t], Calls[t][i]) # <<>>}

Logged(t) ==
    /\ {LogOf(t)[k].call : k \in Own(t)} = Over(t)
    /\ \A j, k \in Own(t) : j < k => LogOf(t)[j].call < LogOf(t)[k].call

OneEach == \A t \in Threads : Logged(t)

\* A log that is not written, or to which another thread appends.
LEMMA StaysLogged ==
    ASSUME NEW s \in Threads, Logged(s), call'[s] = call[s],
           NEW R, LogOf(s) \in Seq(R),
           \/ LogOf(s)' = LogOf(s)
           \/ \E x \in R : x.by # s /\ LogOf(s)' = Append(LogOf(s), x)
    PROVE  Logged(s)'
  <1>1. Over(s)' = Over(s)
    BY DEF Over
  <1>2. CASE LogOf(s)' = LogOf(s)
    BY <1>1, <1>2 DEF Logged, Own
  <1>3. ASSUME NEW x \in R, x.by # s, LogOf(s)' = Append(LogOf(s), x)
        PROVE  Logged(s)'
    <2> DEFINE log == LogOf(s)
               new == LogOf(s)'
    <2>1. /\ DOMAIN log = 1 .. Len(log) /\ DOMAIN new = 1 .. Len(log) + 1
          /\ Len(log) \in Nat
          /\ \A k \in 1 .. Len(log) : new[k] = log[k]
          /\ new[Len(log) + 1] = x
      <3> HIDE DEF log
      <3>1. new = Append(log, x) /\ log \in Seq(R)
        BY <1>3 DEF log
      <3> HIDE DEF new
      <3> QED
        BY <3>1
    <2>2. Own(s)' = Own(s)
      <3> HIDE DEF log, new
      <3>1. {k \in DOMAIN new : new[k].by = s} = {k \in DOMAIN log : log[k].by = s}
        BY <1>3, <2>1
      <3> QED
        BY <3>1 DEF Own, log, new
    <2>3. \A k \in Own(s) : new[k] = log[k]
      BY <2>1 DEF Own
    <2> QED
      BY <1>1, <2>2, <2>3 DEF Logged
  <1> QED
    BY <1>2, <1>3

\* Every step keeps the logs complete and in order.
LEMMA LoggedStep == TypeInv /\ OneEach /\ [Next]_vars => OneEach'
  <1> SUFFICES ASSUME TypeInv, \A s \in Threads : Logged(s), [Next]_vars,
                      NEW s \in Threads
               PROVE  Logged(s)'
    BY DEF OneEach
  <1> DEFINE R == [by : Threads, call : Nat, text : Seq(Fields)]
  <1>0. LogOf(s) \in Seq(R) /\ file \in [Range(logfile) -> Seq(R)]
    BY OfThread DEF TypeInv, Logs, LogOf
  <1> HIDE DEF R
  <1>1. ASSUME NEW t \in Threads, Skip(t) PROVE Logged(s)'
    <2>1. LogOf(s)' = LogOf(s)
      BY <1>1, Frames DEF LogOf
    <2>2. CASE s # t
      <3>1. call'[s] = call[s]
        BY <1>1, <2>2 DEF TypeInv, Places, Skip
      <3> QED
        BY <1>0, <2>1, <3>1, StaysLogged
    <2>3. CASE s = t
      <3>1. /\ call'[s] = call[s] + 1 /\ call[s] \in Nat
            /\ Text(getpid[s], Calls[s][call[s]]) = <<>>
        BY <1>1, <2>3 DEF TypeInv, Places, Skip, Line
      <3>2. Over(s)' = Over(s)
        BY <3>1 DEF Over
      <3> QED
        BY <2>1, <3>2 DEF Logged, Own
    <2> QED
      BY <2>2, <2>3
  <1>2. ASSUME NEW t \in Threads, Begin(t) \/ Format(t) \/ Strlen(t) PROVE Logged(s)'
    <2>1. LogOf(s)' = LogOf(s) /\ call'[s] = call[s]
      BY <1>2, Frames DEF LogOf, Begin, Format, Strlen
    <2> QED
      BY <1>0, <2>1, StaysLogged
  <1>3. ASSUME NEW t \in Threads, Write(t) PROVE Logged(s)'
    <2> DEFINE l == logfile[getpid[t]]
               x == Chunk(t)
    <2>1. /\ l \in Range(logfile) /\ x \in R /\ x.by = t /\ x.call = call[t]
          /\ file' = [file EXCEPT ![l] = Append(@, x)]
      BY <1>3, WriteFacts DEF R
    <2> HIDE DEF x
    <2>2. CASE s # t
      <3>1. call'[s] = call[s]
        BY <1>3, <2>2 DEF TypeInv, Places, Write
      <3>2. LogOf(s)' = LogOf(s) \/ LogOf(s)' = Append(LogOf(s), x)
        BY <1>0, <2>1, OfThread DEF LogOf
      <3> QED
        BY <1>0, <2>1, <2>2, <3>1, <3>2, StaysLogged
    <2>3. CASE s = t
      <3> DEFINE log == LogOf(s)
                 new == LogOf(s)'
      <3>1. new = Append(log, x)
        BY <1>0, <2>1, <2>3, OfThread DEF LogOf
      <3>2. /\ DOMAIN log = 1 .. Len(log) /\ DOMAIN new = 1 .. Len(log) + 1
            /\ Len(log) \in Nat
            /\ \A k \in 1 .. Len(log) : new[k] = log[k]
            /\ new[Len(log) + 1] = x
        <4> HIDE DEF log, new
        <4> QED
          BY <1>0, <2>1, <3>1 DEF log
      <3>3. Own(s)' = Own(s) \cup {Len(log) + 1}
        <4>1. /\ Own(s) = {k \in DOMAIN log : log[k].by = s}
              /\ Own(s)' = {k \in DOMAIN new : new[k].by = s}
          BY DEF Own
        <4> HIDE DEF log, new
        <4> QED
          BY <2>1, <2>3, <3>2, <4>1
      <3>4. /\ call'[s] = call[s] + 1 /\ call[s] \in Nat /\ call[s] >= 1
            /\ Text(getpid[s], Calls[s][call[s]]) # <<>>
        <4>1. call'[s] = call[s] + 1 /\ pc[s] = "write"
          BY <1>3, <2>3 DEF TypeInv, Places, Write, Go
        <4>2. PlaceOK(s) /\ call[s] \in Nat
          BY DEF TypeInv, Places
        <4> QED
          BY <4>1, <4>2, CallCount DEF PlaceOK, Line
      <3>5. Over(s)' = Over(s) \cup {call[s]}
        BY <3>4 DEF Over
      <3>6. \A k \in Own(s) : new[k] = log[k] /\ k < Len(log) + 1 /\ k \in Nat
        BY <3>2 DEF Own
      <3>7. \A k \in Own(s) : log[k].call \in Over(s)
        BY DEF Logged
      <3>8. \A k \in Own(s) : log[k].call < call[s]
        BY <3>4, <3>7 DEF Over
      <3> HIDE DEF log, new
      <3>9. {new[k].call : k \in Own(s)'} = Over(s)'
        <4>1. {log[k].call : k \in Own(s)} = Over(s)
          BY DEF Logged, log
        <4> QED
          BY <2>1, <2>3, <3>2, <3>3, <3>5, <3>6, <4>1
      <3>10. \A j, k \in Own(s)' : j < k => new[j].call < new[k].call
        <4>1. \A j, k \in Own(s) : j < k => log[j].call < log[k].call
          BY DEF Logged, log
        <4> QED
          BY <2>1, <2>3, <3>2, <3>3, <3>6, <3>8, <4>1
      <3> QED
        BY <3>9, <3>10 DEF Logged, new
    <2> QED
      BY <2>2, <2>3
  <1>4. CASE UNCHANGED vars
    BY <1>0, <1>4, StaysLogged DEF vars, LogOf
  <1> QED
    BY <1>1, <1>2, <1>3, <1>4 DEF Next

\* Only a thread of the same process disturbs a call.
Shared ==
    \A t \in Threads : \A i : <<t, i>> \in overlapped =>
        \E s \in Threads \ {t} : getpid[s] = getpid[t]

\* Every step keeps this: the users of a buffer are threads of its process.
LEMMA SharedStep == Shared /\ [Next]_vars => Shared'
  <1> SUFFICES ASSUME Shared, [Next]_vars, NEW t \in Threads, NEW i, <<t, i>> \in overlapped'
               PROVE  \E s \in Threads \ {t} : getpid[s] = getpid[t]
    BY DEF Shared
  <1>1. CASE <<t, i>> \in overlapped
    BY <1>1 DEF Shared
  <1>2. ASSUME NEW u \in Threads, Format(u), <<t, i>> \notin overlapped
        PROVE  \E s \in Threads \ {t} : getpid[s] = getpid[t]
    <2>1. overlapped' = overlapped \cup {<<s, call[s]>> : s \in Users(u)}
      BY <1>2 DEF Format
    <2>2. PICK s \in Users(u) : <<t, i>> = <<s, call[s]>>
      BY <1>2, <2>1, Zenon
    <2>3. t = s
      BY <2>2
    <2> QED
      BY <2>2, <2>3 DEF Users, Buffer
  <1>3. ASSUME ~ \E u \in Threads : Format(u) PROVE overlapped' = overlapped
    BY <1>3 DEF Next, Skip, Begin, Strlen, Write, vars
  <1> QED
    BY <1>1, <1>2, <1>3

\* Every call that is over has written once to the log of its process, in the
\* order of the calls of its thread, whoever else appends to the file; what a user
\* has written is its line.
THEOREM CallsAreLogged == Spec => []OneWritePerCall
  <1>1. Init => OneEach /\ Shared
    <2>1. ASSUME Init, NEW t \in Threads PROVE Logged(t)
      <3>1. LogOf(t) = <<>> /\ call[t] = 1
        BY <2>1, OfThread DEF Init, LogOf
      <3>2. Own(t) = {} /\ Over(t) = {}
        BY <3>1 DEF Own, Over
      <3> QED
        BY <3>2 DEF Logged
    <2> QED
      BY <2>1 DEF OneEach, Init, Shared
  <1>2. TypeInv /\ OneEach /\ Shared /\ WholeUnlessOverlapped => OneWritePerCall
    <2> SUFFICES ASSUME TypeInv, OneEach, Shared, WholeUnlessOverlapped, NEW t \in Threads
                 PROVE  /\ Logged(t)
                        /\ (\A s \in Threads \ {t} : getpid[s] # getpid[t]) =>
                             \A k \in Own(t) :
                                LogOf(t)[k].text = Text(getpid[t], Calls[t][LogOf(t)[k].call])
      BY DEF OneWritePerCall, Logged, LogOf, Own, Over
    <2>1. ASSUME \A s \in Threads \ {t} : getpid[s] # getpid[t], NEW k \in Own(t)
          PROVE  LogOf(t)[k].text = Text(getpid[t], Calls[t][LogOf(t)[k].call])
      <3>1. logfile[getpid[t]] \in Range(logfile)
        BY OfThread
      <3>2. LogOf(t)[k] \in Chunks
        BY <3>1 DEF TypeInv, Logs, Chunks, LogOf, Own, Range
      <3>3. <<t, LogOf(t)[k].call>> \notin overlapped /\ LogOf(t)[k].by = t
        BY <2>1 DEF Shared, Own
      <3> QED
        BY <3>2, <3>3 DEF WholeUnlessOverlapped
    <2> QED
      BY <2>1 DEF OneEach
  <1>3. Spec => []WholeUnlessOverlapped
    BY LinesAreWhole
  <1> QED
    BY <1>1, <1>2, <1>3, TypeInit, TypeStep, LoggedStep, SharedStep, PTL DEF Spec

=============================================================================
