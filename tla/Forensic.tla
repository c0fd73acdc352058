------------------------------ MODULE Forensic ------------------------------
(***************************************************************************)
(* forensic (project1): lists the files of a directory, one process per    *)
(* directory.  The processes share the output file through descriptors     *)
(* they inherit, but each has its own copy of the stdio buffer in front of *)
(* it; the log is opened and closed for every line.  With -o every process *)
(* signals the first one for each entry it finds.                          *)
(*                                                                         *)
(* A process is named by its directory, the first one Main.  A step is     *)
(* what a process does to one entry up to the point where it waits for     *)
(* another program or process.  The lines of the output are kept as two    *)
(* cells, so that a line may be cut where the buffer ends.                 *)
(***************************************************************************)
EXTENDS Integers, Sequences, FiniteSets, SequencesExt

CONSTANTS
    Dirs, Files,
    Missing,    \* the files that are not there before -o makes one of them
    Entries,    \* what readdir returns for a directory, "." and ".." left out
    Broken,     \* the files that stat() does not find: dangling links
    Locked,     \* the directories that opendir() refuses
    ForkFails,  \* the directories for which fork() may fail
    Argvs,      \* the command lines, without the name of the program
    Hashes,     \* the values of -h made of md5, sha1 and sha256 only
    BUFSIZ,     \* the cells that fit into a stdio buffer
    Main

\* Entries are named by their paths: each is in one directory, once, and no
\* directory is below itself.
IsTree ==
    /\ \A c, d \in Dirs : \A i \in DOMAIN Entries[c], j \in DOMAIN Entries[d] :
        Entries[c][i] = Entries[d][j] => c = d /\ i = j
    /\ \E depth \in [Dirs -> 0 .. Cardinality(Dirs)] :
        \A d \in Dirs : \A i \in DOMAIN Entries[d] :
            Entries[d][i] \in Dirs => depth[Entries[d][i]] > depth[d]

ASSUME ForensicAssumption ==
    /\ IsFiniteSet(Dirs) /\ IsFiniteSet(Files)
    /\ Entries \in [Dirs -> Seq(Dirs \cup Files)]
    /\ IsTree
    /\ "garbage" \notin Files
    /\ Broken \subseteq Files /\ Missing \subseteq Files \ Broken
    /\ \A d \in Dirs : ToSet(Entries[d]) \cap Missing = {}
    /\ Locked \subseteq Dirs /\ ForkFails \subseteq Dirs
    /\ Dirs \cap Files = {} /\ Main \notin Dirs
    /\ BUFSIZ \in Nat /\ BUFSIZ >= 2

MAX_ARGS == 7
Processes == Dirs \cup {Main}

VARIABLES
    argv, LOGFILENAME, tty,  \* the inputs: arguments, is the variable set, is
                             \* stdout a terminal
    command,       \* what the arguments mean
    pc,            \* where each process is, or how it has ended
    pos,           \* the entry it is at
    buf,           \* what it has printed and not yet written
    out,           \* what was written to the output file or to stdout
    analized,      \* how many times the log says so of each file
    signalled,     \* the entries for which the log shows a signal
    exit_program,  \* CTRL+C was pressed; it reaches all processes, and their
                   \* children inherit the flag
    spoilt,        \* the processes whose file command CTRL+C has killed
    pending,       \* the signals that Main has not yet handled
    dirs, files,   \* the counters of its handler
    sent,          \* history: the entries for which a signal was sent
    late           \* history: the lines each process has printed since CTRL+C

inputVars  == <<argv, LOGFILENAME, tty, command>>
signalVars == <<exit_program, spoilt, pending, dirs, files, sent, late>>
vars == <<inputVars, pc, pos, buf, out, analized, signalled, signalVars>>

-----------------------------------------------------------------------------
(* The command line.                                                       *)

NoCommand == [ok |-> TRUE, raised |-> {}, cryptohash |-> "", outfile |-> ""]

\* A value given again later replaces the earlier one.
Value(later, value) == IF later = "" THEN value ELSE later

\* Mutant of ParseFlags: -h takes another option as its value.
ParseFlagsBlind(args) ==
    LET n == Len(args)
        From[i \in 1 .. n + 1] ==
            IF i >= n THEN NoCommand
            ELSE CASE args[i] \in {"-r", "-v"} ->
                        [From[i + 1] EXCEPT !.raised = @ \cup {args[i]}]
                   [] args[i] = "-h" ->
                        [From[i + 2] EXCEPT !.raised = @ \cup {"-h"},
                                            !.cryptohash = Value(@, args[i + 1])]
                   [] args[i] = "-o" /\ args[i + 1] \notin {"-h", "-v", "-r"} ->
                        [From[i + 2] EXCEPT !.raised = @ \cup {"-o"},
                                            !.outfile = Value(@, args[i + 1])]
                   [] OTHER -> [NoCommand EXCEPT !.ok = FALSE]
    IN  From[1]

\* The loop over the options, all arguments but the last.  -h and -o take the
\* next argument unless it is another option, even if it is the last one.
ParseFlags(args) ==
    LET n == Len(args)
        From[i \in 1 .. n + 1] ==
            IF i >= n THEN NoCommand
            ELSE CASE args[i] \in {"-r", "-v"} ->
                        [From[i + 1] EXCEPT !.raised = @ \cup {args[i]}]
                   [] args[i] = "-h" /\ args[i + 1] \notin {"-o", "-v", "-r"} ->
                        [From[i + 2] EXCEPT !.raised = @ \cup {"-h"},
                                            !.cryptohash = Value(@, args[i + 1])]
                   [] args[i] = "-o" /\ args[i + 1] \notin {"-h", "-v", "-r"} ->
                        [From[i + 2] EXCEPT !.raised = @ \cup {"-o"},
                                            !.outfile = Value(@, args[i + 1])]
                   [] OTHER -> [NoCommand EXCEPT !.ok = FALSE]
    IN  From[1]

\* What -o names is a directory or may become a file.
ASSUME OutfileAssumption ==
    \A args \in Argvs : ParseFlags(args).outfile \in Dirs \cup Files \cup {""}

Raised(flag) == flag \in command.raised

\* fopen of the log succeeds: the name is empty unless -v has set it.
CanLog == Raised("-v") /\ LOGFILENAME

\* fopen(outfile, "w") fails for a directory, and print_location is NULL.
NoOutput == Raised("-o") /\ command.outfile \in Dirs

LineBuffered == tty /\ ~Raised("-o")

Target == Last(argv)
Where(p) == IF p = Main THEN Target ELSE p
Entry(p) == IF Where(p) \in Files THEN Target ELSE Entries[Where(p)][pos[p]]

Ends == {"success", "failure", "crash", "unborn"}
Ended(p) == pc[p] \in Ends

Init ==
    /\ argv \in Argvs
    /\ LOGFILENAME \in BOOLEAN
    /\ tty \in BOOLEAN
    /\ command = NoCommand
    /\ pc = [p \in Processes |-> IF p = Main THEN "main" ELSE "none"]
    /\ pos = [p \in Processes |-> 1]
    /\ buf = [p \in Processes |-> <<>>]
    /\ out = <<>>
    /\ analized = [f \in Files |-> 0]
    /\ signalled = {}
    /\ exit_program = FALSE
    /\ spoilt = {}
    /\ pending = {}
    /\ dirs = 0
    /\ files = 0
    /\ sent = {}
    /\ late = [p \in Processes |-> 0]

-----------------------------------------------------------------------------
\* A signal is handled before the process goes on.
Go(p, from, to) ==
    /\ pc[p] = from
    /\ p = Main => pending = {}
    /\ pc' = [pc EXCEPT ![p] = to]

\* exit() writes what is left in the buffer.
Exit(p, from, status) ==
    /\ Go(p, from, status)
    /\ out' = out \o buf[p]
    /\ buf' = [buf EXCEPT ![p] = <<>>]

\* Where a process starts to work on its target: opendir may fail.
Opened(target) ==
    IF target \in Files THEN IF target \in Broken THEN "failure" ELSE "stat"
    ELSE IF target \in Locked THEN "failure" ELSE "list"

\* access(directory) finds the target: fopen(outfile, "w") comes before it.
Exists(target, c) ==
    target \in Dirs \cup Files /\ (target \in Missing => target = c.outfile)

\* main up to the call of listdir or dump_stat.
Start ==
    LET c == ParseFlags(argv)
    IN  /\ Go(Main, "main",
              IF argv = <<>> \/ Len(argv) > MAX_ARGS THEN "failure"
              ELSE IF argv[1] = "--help" THEN "success"
              ELSE IF ~c.ok \/ c.cryptohash \notin Hashes \cup {""} THEN "failure"
              ELSE IF ~Exists(Target, c) THEN "failure"
              ELSE Opened(Target))
        /\ command' = c
        /\ UNCHANGED <<argv, LOGFILENAME, tty, pos, buf, out, analized, signalled,
                       signalVars>>

\* kill(parentPID, SIGUSR1 or SIGUSR2).  Main's own signal is handled before
\* kill returns, another one stays pending, once.
Notify(p, e) ==
    LET signo == IF e \in Dirs THEN "SIGUSR1" ELSE "SIGUSR2"
    IN  /\ sent' = sent \cup {e}
        /\ pending' = IF p = Main \/ Ended(Main) THEN pending ELSE pending \cup {signo}
        /\ dirs' = IF p = Main /\ e \in Dirs THEN dirs + 1 ELSE dirs
        /\ files' = IF p = Main /\ e \in Files THEN files + 1 ELSE files

\* Mutant of Announce: the signal is logged, but kill is forgotten.
AnnounceUnsent(p) ==
    /\ signalled' = IF Raised("-o") THEN signalled \cup {Entry(p)} ELSE signalled
    /\ UNCHANGED <<pending, dirs, files, sent>>

\* With -o, the signal for an entry and its line in the log.
Announce(p) ==
    IF Raised("-o")
    THEN Notify(p, Entry(p)) /\ signalled' = signalled \cup {Entry(p)}
    ELSE UNCHANGED <<pending, dirs, files, sent, signalled>>

AtEntry(p) == pc[p] = "list" /\ pos[p] <= Len(Entries[Where(p)])

\* write_log cannot open the log: the process ends, the signal has been sent.
AnnounceFails(p) ==
    /\ AtEntry(p)
    /\ Entry(p) \in Files \/ Raised("-r")
    /\ Raised("-o") /\ ~CanLog
    /\ Exit(p, "list", "failure")
    /\ Notify(p, Entry(p))
    /\ UNCHANGED <<inputVars, pos, analized, signalled, exit_program, spoilt, late>>

\* A directory is left alone without -r.
SkipDirectory(p) ==
    /\ AtEntry(p)
    /\ Entry(p) \in Dirs /\ ~Raised("-r")
    /\ Go(p, "list", "list")
    /\ pos' = [pos EXCEPT ![p] = @ + 1]
    /\ UNCHANGED <<inputVars, buf, out, analized, signalled, signalVars>>

\* fork: the child begins in listdir of the directory, with a copy of the
\* buffer, which it writes at its end; if fork fails nobody notices.
Fork(p) ==
    LET d == Entry(p)
        born == [pc EXCEPT ![d] = Opened(d)]
    IN  /\ AtEntry(p)
        /\ d \in Dirs /\ Raised("-r")
        /\ Raised("-o") => CanLog
        /\ p = Main => pending = {}
        /\ \/ /\ pc' = born
              /\ buf' = [buf EXCEPT ![d] = IF d \in Locked THEN <<>> ELSE buf[p]]
              /\ out' = IF d \in Locked THEN out \o buf[p] ELSE out
           \/ /\ d \in ForkFails
              /\ pc' = [pc EXCEPT ![d] = "unborn"]
              /\ UNCHANGED <<buf, out>>
        /\ Announce(p)
        /\ pos' = [pos EXCEPT ![p] = @ + 1]
        /\ UNCHANGED <<inputVars, analized, exit_program, spoilt, late>>

\* dump_stat begins: stat, and the file and hash commands are started.
Stat(p) ==
    /\ AtEntry(p)
    /\ Entry(p) \in Files
    /\ Raised("-o") => CanLog
    /\ \/ Entry(p) \notin Broken /\ Go(p, "list", "stat") /\ UNCHANGED <<buf, out>>
       \/ Entry(p) \in Broken /\ Exit(p, "list", "failure")
    /\ Announce(p)
    /\ UNCHANGED <<inputVars, pos, analized, exit_program, spoilt, late>>

Line(f) == <<<<f, 1>>, <<f, 2>>>>

\* What a printed line sends to the file, and what remains in the buffer: a full
\* buffer is written as it is.
Flushed(b) ==
    IF LineBuffered THEN b
    ELSE IF Len(b) > BUFSIZ THEN SubSeq(b, 1, BUFSIZ) ELSE <<>>

Kept(b) ==
    IF LineBuffered THEN <<>>
    ELSE IF Len(b) > BUFSIZ THEN SubSeq(b, BUFSIZ + 1, Len(b)) ELSE b

\* Mutant of AfterPrint: CTRL+C is not looked at.
AfterPrintOn(p) == IF Where(p) \in Files THEN "wait" ELSE "list"

\* CTRL+C is looked at here only, and ends the process without waiting for its
\* children.
AfterPrint(p) ==
    IF exit_program THEN "exit" ELSE IF Where(p) \in Files THEN "wait" ELSE "list"

\* Mutant of PrintFileinfo: with -v the line is printed again.
PrintFileinfoTwice(p, f) ==
    LET b == buf[p] \o Line(f) \o (IF Raised("-v") THEN Line(f) ELSE <<>>)
    IN  /\ Go(p, "stat", AfterPrint(p))
        /\ out' = out \o Flushed(b)
        /\ buf' = [buf EXCEPT ![p] = Kept(b)]

PrintFileinfo(p, f) ==
    LET b == buf[p] \o Line(f)
    IN  /\ Go(p, "stat", AfterPrint(p))
        /\ out' = out \o Flushed(b)
        /\ buf' = [buf EXCEPT ![p] = Kept(b)]

Quit(p) ==
    /\ Exit(p, "exit", "failure")
    /\ UNCHANGED <<inputVars, pos, analized, signalled, signalVars>>

\* Mutant of LogAnalized: the file is logged by a process that goes on only.
LogAnalizedLate(p) ==
    analized' = IF Raised("-v") /\ ~exit_program
                THEN [analized EXCEPT ![Entry(p)] = @ + 1] ELSE analized

\* if (LOGFILE) write_log(ANALIZED)
LogAnalized(p) ==
    analized' = IF Raised("-v") THEN [analized EXCEPT ![Entry(p)] = @ + 1] ELSE analized

\* dump_stat ends; what it read from a command that was killed may be anything.
Report(p) ==
    /\ pc[p] = "stat"
    /\ Raised("-v") => LOGFILENAME
    /\ ~NoOutput
    /\ \E f \in {Entry(p)} \cup (IF p \in spoilt THEN {"garbage"} ELSE {}) :
        PrintFileinfo(p, f)
    /\ LogAnalized(p)
    /\ pos' = [pos EXCEPT ![p] = @ + 1]
    /\ late' = IF exit_program THEN [late EXCEPT ![p] = @ + 1] ELSE late
    /\ UNCHANGED <<inputVars, signalled, exit_program, spoilt, pending, dirs, files,
                   sent>>

\* Without LOGFILENAME write_log ends the process.
ReportFails(p) ==
    /\ Raised("-v") /\ ~LOGFILENAME
    /\ Exit(p, "stat", "failure")
    /\ UNCHANGED <<inputVars, pos, analized, signalled, signalVars>>

\* strtok of what was never read, or fwrite to NULL.
Crash(p) ==
    /\ Go(p, "stat", "crash")
    /\ \/ p \in spoilt /\ UNCHANGED analized
       \/ NoOutput /\ (Raised("-v") => LOGFILENAME) /\ LogAnalized(p)
    /\ buf' = [buf EXCEPT ![p] = <<>>]
    /\ UNCHANGED <<inputVars, pos, out, signalled, signalVars>>

EndOfDirectory(p) ==
    /\ Go(p, "list", "wait")
    /\ pos[p] > Len(Entries[Where(p)])
    /\ UNCHANGED <<inputVars, pos, buf, out, analized, signalled, signalVars>>

Children(p) ==
    IF Where(p) \in Dirs THEN ToSet(Entries[Where(p)]) \cap Dirs ELSE {}

\* Mutants of Waited: a child that was never born is waited for; wait is called once.
WaitedForAll(p) == \A d \in Children(p) : pc[d] # "unborn" /\ Ended(d)
WaitedOnce(p) ==
    Children(p) = {} \/ \E d \in Children(p) : pc[d] = "none" \/ Ended(d)

\* wait() has no child left to return.
Waited(p) == \A d \in Children(p) : pc[d] = "none" \/ Ended(d)

Finish(p) ==
    /\ Exit(p, "wait", "success")
    /\ Waited(p)
    /\ UNCHANGED <<inputVars, pos, analized, signalled, signalVars>>

-----------------------------------------------------------------------------
\* Mutant of Handle: the break after files++ is missing.
HandleFallthrough(signo) ==
    /\ signo \in pending /\ ~Ended(Main)
    /\ pending' = pending \ {signo}
    /\ dirs' = dirs + 1
    /\ files' = IF signo = "SIGUSR2" THEN files + 1 ELSE files
    /\ UNCHANGED <<inputVars, pc, pos, buf, out, analized, signalled, exit_program,
                   spoilt, sent, late>>

\* signal_handler in Main, for the signals of its descendants.
Handle(signo) ==
    /\ signo \in pending /\ ~Ended(Main)
    /\ pending' = pending \ {signo}
    /\ dirs' = IF signo = "SIGUSR1" THEN dirs + 1 ELSE dirs
    /\ files' = IF signo = "SIGUSR2" THEN files + 1 ELSE files
    /\ UNCHANGED <<inputVars, pc, pos, buf, out, analized, signalled, exit_program,
                   spoilt, sent, late>>

\* CTRL+C: the terminal sends SIGINT to all processes, the commands included.
Interrupt ==
    /\ ~exit_program
    /\ \E p \in Processes : pc[p] # "none" /\ ~Ended(p)
    /\ exit_program' = TRUE
    /\ spoilt' = {p \in Processes : pc[p] = "stat"}
    /\ UNCHANGED <<inputVars, pc, pos, buf, out, analized, signalled, pending, dirs,
                   files, sent, late>>

ProcessStep(p) ==
    \/ AnnounceFails(p) \/ SkipDirectory(p) \/ Fork(p) \/ Stat(p)
    \/ Report(p) \/ ReportFails(p) \/ Crash(p) \/ Quit(p)
    \/ EndOfDirectory(p) \/ Finish(p)

Next ==
    \/ Start
    \/ \E p \in Processes : ProcessStep(p)
    \/ \E signo \in {"SIGUSR1", "SIGUSR2"} : Handle(signo)
    \/ Interrupt

Spec == Init /\ [][Next]_vars

\* Every process runs; nobody has to press CTRL+C.
FairSpec ==
    /\ Spec
    /\ WF_vars(Start)
    /\ \A p \in Processes : WF_vars(ProcessStep(p))
    /\ \A signo \in {"SIGUSR1", "SIGUSR2"} : WF_vars(Handle(signo))

-----------------------------------------------------------------------------
\* Types of the processes' states, of the buffers and of the counters.
TypeOK ==
    /\ argv \in Argvs /\ LOGFILENAME \in BOOLEAN /\ tty \in BOOLEAN
    /\ pc \in [Processes -> {"none", "main", "list", "stat", "wait", "exit"} \cup Ends]
    /\ \A p \in Processes : pos[p] \in Nat /\ Len(buf[p]) <= BUFSIZ
    /\ analized \in [Files -> Nat]
    /\ signalled \subseteq sent /\ sent \subseteq Dirs \cup Files
    /\ exit_program \in BOOLEAN /\ spoilt \subseteq Processes
    /\ pending \subseteq {"SIGUSR1", "SIGUSR2"}
    /\ dirs \in Nat /\ files \in Nat

-----------------------------------------------------------------------------
(* The usage message as a reference for the loop over the options:         *)
(* [-r] [-h <hashes>] [-o <outfile>] [-v] <file|dir>, in any order.        *)

Flags == {"-r", "-h", "-o", "-v"}

Options(args) == {<<"-r">>, <<"-v">>} \cup ({"-h", "-o"} \X (ToSet(args) \ Flags))

\* The options in front of the target, as the usage message has them.
Usages(args) ==
    {opts \in BoundedSeq(Options(args), Len(args)) : FlattenSeq(opts) = Front(args)}

ValueOf(opts, flag) ==
    LET given == {i \in DOMAIN opts : opts[i][1] = flag}
    IN  IF given = {} THEN "" ELSE opts[Max(given)][2]

\* An option has its own name as its value.
NamedAsValue(args) ==
    \E i \in 2 .. Len(args) : args[i] \in {"-h", "-o"} /\ args[i] = args[i - 1]

\* Arguments in the form of the usage message are accepted, and mean what they say,
\* the last value of an option given twice.  Others are refused, but for two forms:
\* the last option takes the target as its value, or its value is its own name.
ParsedAsUsage ==
    pc[Main] = "main" /\ Len(argv) \in 1 .. MAX_ARGS =>
        LET c == ParseFlags(argv)
        IN  /\ \A opts \in Usages(argv) :
                /\ c.ok
                /\ c.raised = {opts[i][1] : i \in DOMAIN opts}
                /\ c.cryptohash = ValueOf(opts, "-h")
                /\ c.outfile = ValueOf(opts, "-o")
            /\ c.ok /\ Usages(argv) = {} =>
                NamedAsValue(argv) \/ Target \in {c.cryptohash, c.outfile}

-----------------------------------------------------------------------------
FilesOf(p) ==
    IF Where(p) \in Dirs THEN ToSet(Entries[Where(p)]) \cap Files ELSE {Target}

Copies(cell) == Cardinality({i \in DOMAIN out : out[i] = cell})

\* The directories below d.
Below(d) ==
    {x \in Dirs \ {d} : \A S \in SUBSET Dirs :
        d \in S /\ (\A y \in S : Children(y) \subseteq S) => x \in S}

\* A process that ends with success has written all lines of its files, and its
\* children have ended: whatever is missing when Main has ended, or is still
\* running then, is below a process that failed, crashed or was never born.
SuccessIsComplete ==
    \A p \in Processes : pc[p] = "success" /\ argv[1] # "--help" =>
        /\ \A f \in FilesOf(p), i \in 1 .. 2 : Copies(<<f, i>>) >= 1
        /\ Raised("-r") => \A d \in Children(p) : Ended(d)

\* A line is written once if stdout is a terminal; otherwise each directory below
\* may write it once more, because fork has copied the buffer.
CopiesByForkOnly ==
    \A d \in Dirs : \A f \in ToSet(Entries[d]) \cap Files, i \in 1 .. 2 :
        Copies(<<f, i>>) <= 1 + (IF LineBuffered THEN 0 ELSE Cardinality(Below(d)))

\* The log is exact although the output is not: each file that was printed is
\* logged once, with -v, and was announced, with -o.
LogExact ==
    \A f \in Files :
        /\ analized[f] <= 1
        /\ Raised("-v") /\ Copies(<<f, 1>>) > 0 => analized[f] = 1
        /\ Raised("-o") /\ Copies(<<f, 1>>) > 0 /\ Target \in Dirs => f \in signalled

\* The counters never run ahead of what was sent, and never miss an entry that
\* Main itself has found: only signals of other processes merge.  They are exact
\* as long as Main is alone.
Counted ==
    /\ dirs <= Cardinality(sent \cap Dirs) /\ files <= Cardinality(sent \cap Files)
    /\ sent # {} =>
        /\ Cardinality(sent \cap Children(Main)) <= dirs
        /\ Cardinality(sent \cap FilesOf(Main)) <= files
    /\ (\A d \in Dirs : pc[d] \in {"none", "unborn"}) =>
        dirs = Cardinality(sent \cap Dirs) /\ files = Cardinality(sent \cap Files)

\* After CTRL+C a process prints at most one more line, also one that was born
\* later, and then it ends.
StopsAfterLine ==
    \A p \in Processes : late[p] <= 1 /\ (late[p] = 1 => pc[p] = "exit" \/ Ended(p))

\* Every process ends, whatever fails or is interrupted.
EveryoneEnds == <>[](\A p \in Processes : pc[p] = "none" \/ Ended(p))

-----------------------------------------------------------------------------
\* The log is used only with -v: without it, nothing but CTRL+C, a link to nowhere
\* or a directory that cannot be read ends a process early.
LogOnlyWithV ==
    ~Raised("-v") /\ ~exit_program /\ Broken = {} /\ Locked = {}
        => \A p \in Processes : pc[p] # "failure"
=============================================================================
