------------------------------ MODULE Channels ------------------------------
(***************************************************************************)
(* The FIFOs between users and server, and what the processes do at their  *)
(* ends: the request FIFO /tmp/secure_srv that all users write, and for    *)
(* each user a reply FIFO /tmp/secure_<pid>, made by whoever in the server *)
(* answers it (an office, or the main thread for a SHUTDOWN).              *)
(*                                                                         *)
(* A step is one system call on a FIFO.  open() blocks until the other end *)
(* of the same inode is opened, except with O_NONBLOCK; a write without a  *)
(* reader raises SIGPIPE, which ends the process.  The queue of requests   *)
(* is the one that Offices.tla is about, here with front() and pop() as    *)
(* one step each.  After a shutdown two offices may take the same request, *)
(* and then the FIFOs that they make for its user are not told apart.      *)
(***************************************************************************)
EXTENDS Integers, Sequences, FiniteSets

CONSTANTS
    Users,     \* the user processes, each sends one request
    Admins,    \* the users that send a SHUTDOWN with the admin's credentials
    Refused,   \* the users that send a SHUTDOWN that is refused
    Mortal,    \* the users that may be killed
    Leftover,  \* the users whose FIFO path exists from an earlier process
    Offices,
    Main,
    CAPACITY   \* how many requests fit into the request FIFO

ASSUME ChannelsAssumption ==
    /\ IsFiniteSet(Users) /\ IsFiniteSet(Offices)
    /\ Admins \subseteq Users /\ Refused \subseteq Users
    /\ Admins \cap Refused = {}
    /\ Mortal \subseteq Users /\ Leftover \subseteq Users
    /\ Main \notin Offices
    /\ CAPACITY \in Nat \ {0}

Handlers == Offices \cup {Main}

VARIABLES
    upc,       \* where each user is
    got,       \* what its read returned: "none", "reply" or "garbage"
    mpc,       \* where the main thread is; "killed" when the server was
    hpc,       \* where each thread of the server is in answering a user
    hfor,      \* the user it answers, as a set of at most one
    queue,     \* request_queue
    shutdown,
    srv_path,  \* /tmp/secure_srv: "none", "stale" (of an earlier server), "live"
    writable,  \* its permissions let users write
    srv_open,  \* the server has it open for reading
    buffer,    \* the requests in it
    path,      \* the inode at each user's path: "none", "old" or "new"
    rd,        \* the inode that the user has open, or waits to open
    wr,        \* the inode that the server has opened, or waits to open, for it
    sent,      \* the users to whom the reply was written
    taken      \* history: the users whose request the server has read

userVars   == <<upc, got>>
serverVars == <<mpc, hpc, hfor, queue, shutdown, taken>>
srvFifo    == <<srv_path, writable, srv_open, buffer>>
replyFifos == <<path, rd, wr, sent>>
vars == <<userVars, serverVars, srvFifo, replyFifos>>

Init ==
    /\ upc = [u \in Users |-> "start"]
    /\ got = [u \in Users |-> "none"]
    /\ mpc = "mkfifo"
    /\ hpc = [h \in Handlers |-> "idle"]
    /\ hfor = [h \in Handlers |-> {}]
    /\ queue = <<>>
    /\ shutdown = FALSE
    /\ srv_path \in {"none", "stale"}
    /\ writable = TRUE
    /\ srv_open = FALSE
    /\ buffer = <<>>
    /\ path = [u \in Users |-> IF u \in Leftover THEN "old" ELSE "none"]
    /\ rd = [u \in Users |-> "none"]
    /\ wr = [u \in Users |-> "none"]
    /\ sent = {}
    /\ taken = {}

-----------------------------------------------------------------------------
(* A user (user.c).                                                        *)

UserGo(u, from, to) ==
    /\ upc[u] = from
    /\ upc' = [upc EXCEPT ![u] = to]
    /\ UNCHANGED <<serverVars, srv_path, writable, srv_open, wr, sent>>

\* user_connect_server: no FIFO, no permission or no reader make the user exit.
ConnectServer(u) ==
    /\ UserGo(u, "start",
              IF srv_path # "none" /\ writable /\ srv_open THEN "write" ELSE "failed")
    /\ UNCHANGED <<got, buffer, path, rd>>

\* The request is written without waiting and without looking at the result: a
\* full FIFO drops it, and a server that is gone ends the user.
WriteRequest(u) ==
    /\ UserGo(u, "write", IF srv_open THEN "await" ELSE "dead")
    /\ buffer' = IF srv_open /\ Len(buffer) < CAPACITY THEN Append(buffer, u)
                                                        ELSE buffer
    /\ UNCHANGED <<got, path, rd>>

\* Mutant of AwaitReplyFifo: the user does not wait for the path to exist.
AwaitNothing(u) ==
    /\ UserGo(u, "await", "open")
    /\ UNCHANGED <<got, buffer, path, rd>>

\* user_connect_fifo_reply: poll until the path exists, then open it.
AwaitReplyFifo(u) ==
    /\ UserGo(u, "await", "open")
    /\ path[u] # "none"
    /\ UNCHANGED <<got, buffer, path, rd>>

OpenReply(u) ==
    /\ UserGo(u, "open", IF path[u] = "none" THEN "failed" ELSE "opening")
    /\ rd' = [rd EXCEPT ![u] = path[u]]
    /\ UNCHANGED <<got, buffer, path>>

ReplyOpened(u) ==
    /\ UserGo(u, "opening", "read")
    /\ wr[u] = rd[u]
    /\ UNCHANGED <<got, buffer, path, rd>>

ServerGone == mpc \in {"exited", "killed"}

\* read_reply: the reply, or nothing at all once the server has gone.
ReadReply(u) ==
    /\ UserGo(u, "read", "remove")
    /\ \/ u \in sent /\ got' = [got EXCEPT ![u] = "reply"]
       \/ u \notin sent /\ ServerGone /\ got' = [got EXCEPT ![u] = "garbage"]
    /\ UNCHANGED <<buffer, path, rd>>

RemoveReply(u) ==
    /\ UserGo(u, "remove", "done")
    /\ path' = [path EXCEPT ![u] = "none"]
    /\ UNCHANGED <<got, buffer, rd>>

\* A user is killed; its end of a FIFO that nobody has opened meanwhile is gone.
Kill(u) ==
    /\ u \in Mortal
    /\ upc[u] \notin {"done", "failed", "dead"}
    /\ upc' = [upc EXCEPT ![u] = "dead"]
    /\ rd' = [rd EXCEPT ![u] = IF wr[u] = rd[u] THEN @ ELSE "none"]
    /\ UNCHANGED <<got, serverVars, srvFifo, path, wr, sent>>

-----------------------------------------------------------------------------
(* A thread of the server answers a user: user_fifo_create, write, close.  *)

HandlerGo(h, u, from, to) ==
    /\ ~ServerGone
    /\ u \in hfor[h]
    /\ hpc[h] = from
    /\ hpc' = [hpc EXCEPT ![h] = to]
    /\ UNCHANGED <<userVars, hfor, queue, shutdown, taken, srv_path, writable,
                   buffer, rd>>

\* A signal or an exit(-2) ends the server before its time, and its ends of the
\* FIFOs that nobody has opened meanwhile are gone.
ServerKilled ==
    /\ mpc' = "killed"
    /\ srv_open' = FALSE
    /\ wr' = [v \in Users |-> IF rd[v] = wr[v] THEN wr[v] ELSE "none"]

\* Mutant of MakeFifo: a FIFO that exists is used as it is.
MakeFifoKept(h, u) ==
    /\ HandlerGo(h, u, "mkfifo", "open")
    /\ path' = IF path[u] = "none" THEN [path EXCEPT ![u] = "new"] ELSE path
    /\ UNCHANGED <<mpc, srv_open, wr, sent>>

\* mkfifo fails if the path exists: unlink it and try again.
MakeFifo(h, u) ==
    /\ HandlerGo(h, u, "mkfifo", IF path[u] = "none" THEN "open" ELSE "unlink")
    /\ path' = IF path[u] = "none" THEN [path EXCEPT ![u] = "new"] ELSE path
    /\ UNCHANGED <<mpc, srv_open, wr, sent>>

UnlinkFifo(h, u) ==
    /\ HandlerGo(h, u, "unlink", "again")
    /\ path' = [path EXCEPT ![u] = "none"]
    /\ UNCHANGED <<mpc, srv_open, wr, sent>>

\* The second attempt, and open, fail only if another office answers the same user.
MakeFifoAgain(h, u) ==
    /\ HandlerGo(h, u, "again", "open")
    /\ IF path[u] = "none"
       THEN path' = [path EXCEPT ![u] = "new"] /\ UNCHANGED <<mpc, srv_open, wr>>
       ELSE ServerKilled /\ UNCHANGED path
    /\ UNCHANGED sent

OpenFifo(h, u) ==
    /\ HandlerGo(h, u, "open", "opening")
    /\ IF path[u] # "none"
       THEN wr' = [wr EXCEPT ![u] = path[u]] /\ UNCHANGED <<mpc, srv_open>>
       ELSE ServerKilled
    /\ UNCHANGED <<path, sent>>

FifoOpened(h, u) ==
    /\ HandlerGo(h, u, "opening", "write")
    /\ rd[u] = wr[u]
    /\ UNCHANGED <<mpc, srv_open, path, wr, sent>>

\* Without a reader the write kills the server.
WriteReply(h, u) ==
    /\ HandlerGo(h, u, "write", "written")
    /\ IF upc[u] \in {"opening", "read"}
       THEN sent' = sent \cup {u} /\ UNCHANGED <<mpc, srv_open, wr>>
       ELSE ServerKilled /\ UNCHANGED sent
    /\ UNCHANGED path

Answer(h) ==
    \E u \in Users :
        \/ MakeFifo(h, u) \/ UnlinkFifo(h, u) \/ MakeFifoAgain(h, u)
        \/ OpenFifo(h, u) \/ FifoOpened(h, u) \/ WriteReply(h, u)

-----------------------------------------------------------------------------
(* The main thread and the offices.                                        *)

MainGo(from, to) ==
    /\ mpc = from
    /\ mpc' = to
    /\ UNCHANGED <<userVars, replyFifos>>

\* server_fifo_create, where an existing file is deleted first; then the
\* offices start.
MakeRequestFifo ==
    /\ MainGo("mkfifo", IF srv_path = "none" THEN "open" ELSE "unlink")
    /\ srv_path' = IF srv_path = "none" THEN "live" ELSE srv_path
    /\ UNCHANGED <<hpc, hfor, queue, shutdown, taken, writable, srv_open, buffer>>

UnlinkRequestFifo ==
    /\ MainGo("unlink", "mkfifo")
    /\ srv_path' = "none"
    /\ UNCHANGED <<hpc, hfor, queue, shutdown, taken, writable, srv_open, buffer>>

OpenRequestFifo ==
    /\ MainGo("open", "read")
    /\ srv_open' = TRUE
    /\ UNCHANGED <<hpc, hfor, queue, shutdown, taken, srv_path, writable, buffer>>

\* read_request: a request is queued; a SHUTDOWN is answered by the main thread,
\* which first closes the FIFO to new writers if it is the admin's.
ReadRequest ==
    /\ buffer # <<>>
    /\ LET u == Head(buffer)
           own == u \in Admins \cup Refused
       IN  /\ MainGo("read", IF own THEN "reply" ELSE "read")
           /\ buffer' = Tail(buffer)
           /\ taken' = taken \cup {u}
           /\ queue' = IF own THEN queue ELSE Append(queue, u)
           /\ hpc' = IF own THEN [hpc EXCEPT ![Main] = "mkfifo"] ELSE hpc
           /\ hfor' = IF own THEN [hfor EXCEPT ![Main] = {u}] ELSE hfor
           /\ writable' = (writable /\ u \notin Admins)
           /\ shutdown' = (shutdown \/ u \in Admins)
    /\ UNCHANGED <<srv_path, srv_open>>

\* Mutant of MainAnswered: a refused SHUTDOWN ends the reading, too.
MainAnsweredLast ==
    /\ MainGo("reply", "join")
    /\ hpc[Main] = "written"
    /\ hpc' = [hpc EXCEPT ![Main] = "idle"]
    /\ hfor' = [hfor EXCEPT ![Main] = {}]
    /\ UNCHANGED <<queue, shutdown, taken, srvFifo>>

MainAnswered ==
    /\ MainGo("reply", IF shutdown THEN "join" ELSE "read")
    /\ hpc[Main] = "written"
    /\ hpc' = [hpc EXCEPT ![Main] = "idle"]
    /\ hfor' = [hfor EXCEPT ![Main] = {}]
    /\ UNCHANGED <<queue, shutdown, taken, srvFifo>>

\* Mutant of Join: the main thread does not wait for the offices.
JoinNobody ==
    /\ MainGo("join", "close")
    /\ UNCHANGED <<hpc, hfor, queue, shutdown, taken, srvFifo>>

Join ==
    /\ MainGo("join", "close")
    /\ \A o \in Offices : hpc[o] = "closed"
    /\ UNCHANGED <<hpc, hfor, queue, shutdown, taken, srvFifo>>

CloseRequestFifo ==
    /\ MainGo("close", "remove")
    /\ srv_open' = FALSE
    /\ UNCHANGED <<hpc, hfor, queue, shutdown, taken, srv_path, writable, buffer>>

RemoveRequestFifo ==
    /\ MainGo("remove", "exited")
    /\ srv_path' = "none"
    /\ UNCHANGED <<hpc, hfor, queue, shutdown, taken, writable, srv_open, buffer>>

OfficeGo(o, from, to) ==
    /\ ~ServerGone
    /\ mpc \notin {"mkfifo", "unlink", "open"}
    /\ hpc[o] = from
    /\ hpc' = [hpc EXCEPT ![o] = to]
    /\ UNCHANGED <<userVars, mpc, shutdown, taken, srvFifo, replyFifos>>

\* front(), to which queue_mut admits one office at a time as long as the flag is
\* down; the main thread, which it keeps out too, only appends to the queue.
Front(o) ==
    /\ OfficeGo(o, "idle", "pop")
    /\ queue # <<>>
    /\ ~shutdown => \A p \in Offices : hpc[p] # "pop"
    /\ hfor' = [hfor EXCEPT ![o] = {Head(queue)}]
    /\ UNCHANGED queue

\* pop(), of whatever is in front by now; with nothing there it uses NULL.
Pop(o) ==
    /\ ~ServerGone
    /\ hpc[o] = "pop"
    /\ hpc' = [hpc EXCEPT ![o] = "mkfifo"]
    /\ IF queue = <<>>
       THEN ServerKilled /\ UNCHANGED queue
       ELSE queue' = Tail(queue) /\ UNCHANGED <<mpc, srv_open, wr>>
    /\ UNCHANGED <<userVars, hfor, shutdown, taken, srv_path, writable, buffer,
                   path, rd, sent>>

Answered(o) ==
    /\ OfficeGo(o, "written", "idle")
    /\ hfor' = [hfor EXCEPT ![o] = {}]
    /\ UNCHANGED queue

Close(o) ==
    /\ OfficeGo(o, "idle", "closed")
    /\ queue = <<>> /\ shutdown
    /\ UNCHANGED <<hfor, queue>>

-----------------------------------------------------------------------------
UserStep(u) ==
    \/ ConnectServer(u) \/ WriteRequest(u) \/ AwaitReplyFifo(u) \/ OpenReply(u)
    \/ ReplyOpened(u) \/ ReadReply(u) \/ RemoveReply(u)

MainStep ==
    \/ MakeRequestFifo \/ UnlinkRequestFifo \/ OpenRequestFifo
    \/ ReadRequest \/ Answer(Main) \/ MainAnswered
    \/ Join \/ CloseRequestFifo \/ RemoveRequestFifo

OfficeStep(o) == Front(o) \/ Pop(o) \/ Answer(o) \/ Answered(o) \/ Close(o)

Next ==
    \/ MainStep
    \/ \E o \in Offices : OfficeStep(o)
    \/ \E u \in Users : UserStep(u) \/ Kill(u)

Spec == Init /\ [][Next]_vars

\* Every process and thread that can go on does; users are killed at will.
FairSpec ==
    /\ Spec
    /\ WF_vars(MainStep)
    /\ \A o \in Offices : WF_vars(OfficeStep(o))
    /\ \A u \in Users : WF_vars(UserStep(u))

-----------------------------------------------------------------------------
\* Types of the processes' states and of the FIFOs: no request more than fits waits
\* in the FIFO, a thread answers one user at most, and what the server opens for a
\* user is never a FIFO that an earlier process has left.
TypeOK ==
    /\ upc \in [Users -> {"start", "write", "await", "open", "opening", "read",
                          "remove", "done", "failed", "dead"}]
    /\ got \in [Users -> {"none", "reply", "garbage"}]
    /\ mpc \in {"mkfifo", "unlink", "open", "read", "reply", "join", "close",
                "remove", "exited", "killed"}
    /\ hpc \in [Handlers -> {"idle", "pop", "mkfifo", "unlink", "again",
                             "open", "opening", "write", "written", "closed"}]
    /\ hfor \in [Handlers -> SUBSET Users]
    /\ \A h \in Handlers : Cardinality(hfor[h]) <= 1
    /\ queue \in Seq(Users)
    /\ buffer \in Seq(Users)
    /\ Len(buffer) <= CAPACITY
    /\ shutdown \in BOOLEAN /\ writable \in BOOLEAN /\ srv_open \in BOOLEAN
    /\ srv_path \in {"none", "stale", "live"}
    /\ path \in [Users -> {"none", "old", "new"}]
    /\ rd \in [Users -> {"none", "old", "new"}]
    /\ wr \in [Users -> {"none", "new"}]
    /\ sent \subseteq Users
    /\ taken \subseteq Users

\* What a user reads is the reply, unless the server was killed: never nothing
\* because the server has ended, even if users die or find old FIFOs.  And no user
\* whose request was read finds that the FIFO it saw is gone, except an old one.
OwnReply ==
    \A u \in Users :
        /\ got[u] = "garbage" => mpc = "killed"
        /\ upc[u] = "failed" /\ u \notin Leftover => u \notin taken

\* A server that has ended has answered all that it had read.
ExitAnswered == mpc = "exited" => taken \subseteq sent

\* A thread that waits for a user who has died, who has given up because the old
\* FIFO it saw was gone when it opened it, or who waits at that old FIFO.
Stuck(h) ==
    /\ hpc[h] = "opening"
    /\ \E u \in hfor[h] :
        wr[u] # rd[u] /\ (upc[u] \in {"dead", "failed"} \/ rd[u] = "old")

\* A request that was dropped at a full FIFO, or is left in it by a shutdown.
Unread(u) == u \notin taken /\ (shutdown \/ \A i \in DOMAIN buffer : buffer[i] # u)

\* Nothing else keeps a user waiting for its reply: a user who neither dies nor
\* finds an old FIFO is answered, unless its request is never read, the server is
\* killed by a write, or other users keep the main thread or every office waiting.
UsersAnswered ==
    \A u \in Users \ (Mortal \cup Leftover) :
        upc[u] = "await" ~> \/ upc[u] = "done"
                            \/ Unread(u)
                            \/ mpc = "killed"
                            \/ Stuck(Main)
                            \/ \A o \in Offices : Stuck(o)
=============================================================================
