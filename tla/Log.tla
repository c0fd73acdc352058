-------------------------------- MODULE Log --------------------------------
(***************************************************************************)
(* The logs (log.c): slog.txt of the server, whose threads all log, and    *)
(* ulog.txt, to which every user process appends.  atomicPrintf formats    *)
(* into one static buffer per process and then writes it: the write is     *)
(* atomic, the rest is not.                                                *)
(*                                                                         *)
(* A step is the store of one field into the buffer, a strlen or a write.  *)
(* A field stands for its characters, with the blanks around it.           *)
(***************************************************************************)
EXTENDS Integers, Sequences, FiniteSets, SequencesExt

CONSTANTS
    Threads,
    getpid,    \* the process of each thread
    logfile,   \* the log of each process
    Calls,     \* the calls of log functions that each thread makes, in order
    PIPE_BUF   \* the length of the buffer, in fields

Processes == Range(getpid)
NUL == "NUL"

OP_TYPE_STR == {"CREATE", "BALANCE", "TRANSFER", "SHUTDOWN"}

\* What the log functions format for a call c of a thread of process p; nothing,
\* if they have no line for the type of request or reply.  A request is sent (E)
\* by the process whose id is given and received (R) by others, a reply conversely.
BaseRequestInfo(p, c) == <<IF c.id # p THEN "R" ELSE "E", c.id, c.type>>
BaseReplyInfo(p, c)   == <<IF c.id = p THEN "R" ELSE "E", c.id, c.type>>
BankOfficeInfo(c, event) == <<"I", c.id, event, "\n">>

RequestText(p, c) ==
    IF c.type \notin OP_TYPE_STR THEN <<>>
    ELSE BaseRequestInfo(p, c)
         \o (IF c.type \in {"CREATE", "TRANSFER"} THEN <<"args">> ELSE <<>>) \o <<"\n">>

ReplyText(p, c) ==
    IF c.type \notin OP_TYPE_STR THEN <<>>
    ELSE BaseReplyInfo(p, c)
         \o (IF c.type = "CREATE" THEN <<>> ELSE <<"value">>) \o <<"\n">>

EventText(c) ==
    CASE c.fun = "logBankOfficeOpen"  -> BankOfficeInfo(c, "OPEN")
      [] c.fun = "logBankOfficeClose" -> BankOfficeInfo(c, "CLOSE")
      [] c.fun = "logAccountCreation" -> <<"I", c.id, c.account, "\n">>
      [] c.fun = "logSyncMech"        -> <<"S", c.id, c.op, "\n">>
      [] c.fun = "logSyncMechSem"     -> <<"S", c.id, c.op, "val", "\n">>
      [] c.fun = "logDelay"           -> <<"A", c.id, "delay", "\n">>
      [] c.fun = "logSyncDelay"       -> <<"A", c.id, c.account, "delay", "\n">>

Text(p, c) ==
    CASE c.fun = "logRequest" -> RequestText(p, c)
      [] c.fun = "logReply"   -> ReplyText(p, c)
      [] OTHER                -> EventText(c)

LogFunctions ==
    {"logRequest", "logReply", "logBankOfficeOpen", "logBankOfficeClose",
     "logAccountCreation", "logSyncMech", "logSyncMechSem", "logDelay", "logSyncDelay"}

\* A line fits into the buffer, and what is formatted contains no NUL.
ASSUME LogAssumption ==
    /\ IsFiniteSet(Threads)
    /\ PIPE_BUF \in Nat \ {0}
    /\ DOMAIN getpid = Threads /\ DOMAIN Calls = Threads
    /\ DOMAIN logfile = Range(getpid)
    /\ \A t \in Threads :
        /\ Calls[t] \in Seq(Range(Calls[t]))
        /\ \A i \in 1 .. Len(Calls[t]) :
            /\ Calls[t][i].fun \in LogFunctions
            /\ Len(Text(getpid[t], Calls[t][i])) < PIPE_BUF
            /\ NUL \notin ToSet(Text(getpid[t], Calls[t][i]))

VARIABLES
    pc,         \* where each thread is in atomicPrintf
    call,       \* the call it is at
    at,         \* the position it formats at, then the length it writes
    buffer,     \* the static buffer of each process
    file,       \* the chunks written to each log, with the call they are from
    overlapped  \* history: the calls during which the buffer was changed by another

vars == <<pc, call, at, buffer, file, overlapped>>

Init ==
    /\ pc = [t \in Threads |-> "idle"]
    /\ call = [t \in Threads |-> 1]
    /\ at = [t \in Threads |-> 1]
    /\ buffer = [p \in Processes |-> [i \in 1 .. PIPE_BUF |-> NUL]]
    /\ file = [l \in Range(logfile) |-> <<>>]
    /\ overlapped = {}

\* The buffer that a thread uses.
Buffer(t) == getpid[t]

Line(t) == Text(getpid[t], Calls[t][call[t]])

Go(t, from, to) ==
    /\ pc[t] = from
    /\ call[t] <= Len(Calls[t])
    /\ pc' = [pc EXCEPT ![t] = to]

\* A request or reply of unknown type is not logged.
Skip(t) ==
    /\ Go(t, "idle", "idle")
    /\ Line(t) = <<>>
    /\ call' = [call EXCEPT ![t] = @ + 1]
    /\ UNCHANGED <<at, buffer, file, overlapped>>

Begin(t) ==
    /\ Go(t, "idle", "format")
    /\ Line(t) # <<>>
    /\ at' = [at EXCEPT ![t] = 1]
    /\ UNCHANGED <<call, buffer, file, overlapped>>

\* The other threads that are using the buffer.
Users(t) == {s \in Threads \ {t} : Buffer(s) = Buffer(t) /\ pc[s] # "idle"}

\* Mutant of Format: the line is copied without a NUL at its end.
FormatUnterminated(t) ==
    LET done == at[t] > Len(Line(t))
    IN  /\ Go(t, "format", IF done THEN "strlen" ELSE "format")
        /\ buffer' = IF done THEN buffer
                     ELSE [buffer EXCEPT ![Buffer(t)][at[t]] = Line(t)[at[t]]]
        /\ at' = [at EXCEPT ![t] = @ + 1]
        /\ overlapped' = overlapped \cup {<<s, call[s]>> : s \in Users(t)}
        /\ UNCHANGED <<call, file>>

\* vsnprintf: one field after the other and a NUL.
Format(t) ==
    LET done == at[t] > Len(Line(t))
    IN  /\ Go(t, "format", IF done THEN "strlen" ELSE "format")
        /\ buffer' = [buffer EXCEPT ![Buffer(t)][at[t]] =
                        IF done THEN NUL ELSE Line(t)[at[t]]]
        /\ at' = [at EXCEPT ![t] = @ + 1]
        /\ overlapped' = overlapped \cup {<<s, call[s]>> : s \in Users(t)}
        /\ UNCHANGED <<call, file>>

\* Mutant of Strlen: sizeof(buffer) is written.
StrlenSizeof(t) ==
    /\ Go(t, "strlen", "write")
    /\ at' = [at EXCEPT ![t] = PIPE_BUF]
    /\ UNCHANGED <<call, buffer, file, overlapped>>

Strlen(t) ==
    /\ Go(t, "strlen", "write")
    /\ at' = [at EXCEPT ![t] =
                Min({i \in 1 .. PIPE_BUF : buffer[Buffer(t)][i] = NUL}) - 1]
    /\ UNCHANGED <<call, buffer, file, overlapped>>

Chunk(t) ==
    [by |-> t, call |-> call[t], text |-> SubSeq(buffer[Buffer(t)], 1, at[t])]

\* Mutant of Write: without O_APPEND a process writes after its own last chunk.
WriteAtOffset(t) ==
    LET l == logfile[getpid[t]]
        own == {i \in DOMAIN file[l] : getpid[file[l][i].by] = getpid[t]}
        offset == Cardinality(own) + 1
    IN  /\ Go(t, "write", "idle")
        /\ file' = [file EXCEPT ![l] =
                    IF offset > Len(@) THEN Append(@, Chunk(t))
                    ELSE [@ EXCEPT ![offset] = Chunk(t)]]
        /\ call' = [call EXCEPT ![t] = @ + 1]
        /\ UNCHANGED <<at, buffer, overlapped>>

\* The log is open with O_APPEND: a write adds to its end, whoever wrote before.
Write(t) ==
    LET l == logfile[getpid[t]]
    IN  /\ Go(t, "write", "idle")
        /\ file' = [file EXCEPT ![l] = Append(@, Chunk(t))]
        /\ call' = [call EXCEPT ![t] = @ + 1]
        /\ UNCHANGED <<at, buffer, overlapped>>

Next == \E t \in Threads : Skip(t) \/ Begin(t) \/ Format(t) \/ Strlen(t) \/ Write(t)

Spec == Init /\ [][Next]_vars

-----------------------------------------------------------------------------
Chunks == UNION {Range(file[l]) : l \in DOMAIN file}

\* Types of the threads' places and lengths; strlen finds a NUL in the buffer
\* however its users have mixed it up.
TypeOK ==
    /\ pc \in [Threads -> {"idle", "format", "strlen", "write"}]
    /\ at \in [Threads -> 0 .. PIPE_BUF + 1]
    /\ \A t \in Threads : call[t] \in 1 .. Len(Calls[t]) + 1
    /\ \A p \in Processes : buffer[p][PIPE_BUF] = NUL
    /\ \A x \in Chunks : x.by \in Threads /\ Len(x.text) < PIPE_BUF

\* A line is written as its call formats it, unless another thread of the same
\* process has used the buffer meanwhile: lines of users are always whole.
WholeUnlessOverlapped ==
    \A x \in Chunks : <<x.by, x.call>> \notin overlapped =>
        x.text = Text(getpid[x.by], Calls[x.by][x.call])

\* Every call that is over has written once to the log of its process, in the order
\* of the calls of the thread, although processes share the file.  What it has
\* written is its line if its process has no other thread, as a user has none; a
\* thread of the server may have written the line of another one instead.
OneWritePerCall ==
    \A t \in Threads :
        LET log == file[logfile[getpid[t]]]
            own == {k \in DOMAIN log : log[k].by = t}
        IN  /\ {log[k].call : k \in own} =
                 {i \in 1 .. call[t] - 1 : Text(getpid[t], Calls[t][i]) # <<>>}
            /\ \A j, k \in own : j < k => log[j].call < log[k].call
            /\ (\A s \in Threads \ {t} : getpid[s] # getpid[t]) =>
                \A k \in own : log[k].text = Text(getpid[t], Calls[t][log[k].call])
=============================================================================
