------------------------------- MODULE Offices -------------------------------
(***************************************************************************)
(* The home banking server as threads: the main thread (server.c, main)    *)
(* reads requests and enqueues them, the bank offices (thread_work) take   *)
(* and process them, and a SHUTDOWN request makes the offices close.       *)
(*                                                                         *)
(* A step is one access to shared state: a mutex or condition variable     *)
(* call, or one load or store of a shared variable (the program is built   *)
(* with -O0, so every read of a global is a load).  Mutexes are glibc's    *)
(* normal ones: locking one's own mutex blocks for ever, and unlocking a   *)
(* mutex of another thread releases it.                                    *)
(*                                                                         *)
(* The linked list of queue.c is kept as the sequence of the nodes it ever *)
(* allocated: a pointer is a position in that sequence or NULL, and the    *)
(* next field of a node is the position after it.                          *)
(***************************************************************************)
EXTENDS Integers, Sequences, FiniteSets

CONSTANTS
    Offices,   \* the office threads, num_threads of them
    Requests,  \* the requests (not SHUTDOWN) that users send, one per user
    Main,      \* the main thread
    Free,      \* owner of a mutex that nobody holds
    Spurious   \* may pthread_cond_wait return without a signal?

ASSUME OfficesAssumption ==
    /\ IsFiniteSet(Offices)
    /\ Main \notin Offices
    /\ Free \notin Offices
    /\ Main # Free
    /\ Spurious \in BOOLEAN

NULL == 0

VARIABLES
    mpc,                 \* where the main thread is
    pc,                  \* where each office is
    req,                 \* main: the request it has read, as a set of at most one
    shutdown,            \* the flag set by shutdown_server
    active_offices,      \* the number of active offices reported to the admin
    queue_mut,           \* owner of the mutex of the request queue
    counter_mut,         \* owner of the mutex of the counter
    cond_queued_req,     \* the offices blocked in pthread_cond_wait
    num_active_threads,  \* the counter of offices processing a request
    nodes,               \* request_queue: the requests pushed, in node order
    front,               \* request_queue.front
    size,                \* request_queue.size (only compared with 0)
    freed,               \* the nodes given back to free()
    reg,                 \* the value an office has loaded and not yet stored
    tmp,                 \* pop()'s local tmp
    fault,               \* a NULL or freed node was used: the model stops there
    handed               \* history: the requests taken, in the order of taking

mainVars   == <<mpc, req, shutdown, active_offices>>
queueVars  == <<nodes, front, size, freed>>
syncVars   == <<queue_mut, counter_mut, cond_queued_req>>
officeVars == <<pc, num_active_threads, reg, tmp, fault, handed>>
vars == <<mainVars, queueVars, syncVars, officeVars>>

-----------------------------------------------------------------------------
Init ==
    /\ mpc = "read"
    /\ pc = [o \in Offices |-> "test"]
    /\ req = {}
    /\ shutdown = FALSE
    /\ active_offices = 0
    /\ queue_mut = Free
    /\ counter_mut = Free
    /\ cond_queued_req = {}
    /\ num_active_threads = 0
    /\ nodes = <<>>
    /\ front = NULL
    /\ size = 0
    /\ freed = {}
    /\ reg = [o \in Offices |-> 0]
    /\ tmp = [o \in Offices |-> NULL]
    /\ fault = FALSE
    /\ handed = <<>>

\* Mutant of NextNode: push() forgets to set the next field to NULL.
NextNodeUnset(n) == n + 1

\* What a next field holds: the node allocated after this one, or NULL.
NextNode(n) == IF n < Len(nodes) THEN n + 1 ELSE NULL

\* A pointer that may be dereferenced.
Valid(n) == n # NULL /\ n \notin freed

-----------------------------------------------------------------------------
(* The main thread.                                                        *)

MainGo(from, to) ==
    /\ mpc = from
    /\ mpc' = to
    /\ UNCHANGED <<officeVars, counter_mut, freed>>

\* A step of the main thread that changes nothing the offices see.
MainJump(from, to) ==
    /\ MainGo(from, to)
    /\ UNCHANGED <<req, shutdown, active_offices, queueVars, syncVars>>

\* read_request returned a request that is not a SHUTDOWN.
MainRead(r) ==
    /\ MainGo("read", "lock")
    /\ \A i \in 1..Len(nodes) : nodes[i] # r
    /\ req' = {r}
    /\ UNCHANGED <<shutdown, active_offices, queueVars, syncVars>>

MainLock ==
    /\ MainGo("lock", "push")
    /\ queue_mut = Free
    /\ queue_mut' = Main
    /\ UNCHANGED <<req, shutdown, active_offices, queueVars, cond_queued_req>>

\* Mutant of MainPush: the new node goes to the front of the list.
MainPushFront ==
    /\ MainGo("push", "signal")
    /\ \E r \in req : nodes' = Append(nodes, r)
    /\ front' = Len(nodes) + 1
    /\ size' = size + 1
    /\ UNCHANGED <<req, shutdown, active_offices, syncVars>>

\* push(): the new node is linked after last, which is always the node
\* allocated most recently, or becomes front when the list is empty.
MainPush ==
    /\ MainGo("push", "signal")
    /\ \E r \in req : nodes' = Append(nodes, r)
    /\ front' = IF front = NULL THEN Len(nodes) + 1 ELSE front
    /\ size' = size + 1
    /\ UNCHANGED <<req, shutdown, active_offices, syncVars>>

\* Mutant of MainSignal: the signal is forgotten.
MainNoSignal == MainJump("signal", "unlock")

\* pthread_cond_signal wakes one of the waiting offices, if any.
MainSignal ==
    /\ MainGo("signal", "unlock")
    /\ \/ cond_queued_req = {} /\ UNCHANGED cond_queued_req
       \/ \E o \in cond_queued_req : cond_queued_req' = cond_queued_req \ {o}
    /\ UNCHANGED <<req, shutdown, active_offices, queueVars, queue_mut>>

MainUnlock ==
    /\ MainGo("unlock", "read")
    /\ queue_mut' = Free
    /\ req' = {}
    /\ UNCHANGED <<shutdown, active_offices, queueVars, cond_queued_req>>

\* A SHUTDOWN request that validate_request refuses: only its sender hears of it.
MainRefuse      == MainJump("read", "refuse")
MainRefuseReply == MainJump("refuse", "read")

\* A SHUTDOWN request of the admin: shutdown_server sets the flag...
MainShutdown ==
    /\ MainGo("read", "report")
    /\ shutdown' = TRUE
    /\ UNCHANGED <<req, active_offices, queueVars, syncVars>>

\* ... and reads the counter, without counter_mut.
MainReport ==
    /\ MainGo("report", "broadcast")
    /\ active_offices' = num_active_threads
    /\ UNCHANGED <<req, shutdown, queueVars, syncVars>>

\* The broadcast is sent without queue_mut.
MainBroadcast ==
    /\ MainGo("broadcast", "reply")
    /\ cond_queued_req' = {}
    /\ UNCHANGED <<req, shutdown, active_offices, queueVars, queue_mut>>

MainReply == MainJump("reply", "join")

MainJoin == MainJump("join", "done") /\ \A o \in Offices : pc[o] = "closed"

-----------------------------------------------------------------------------
(* A bank office: the loop of thread_work.                                 *)

Go(o, from, to) ==
    /\ pc[o] = from
    /\ pc' = [pc EXCEPT ![o] = to]
    /\ UNCHANGED <<mainVars, nodes>>

\* A step that only moves the office on.
Jump(o, from, to) ==
    /\ Go(o, from, to)
    /\ UNCHANGED <<front, size, freed, syncVars, num_active_threads, reg, tmp,
                   fault, handed>>

\* pthread_mutex_lock and pthread_mutex_unlock on queue_mut.  Unlocking a
\* mutex that another thread holds takes it away from that thread.
QueueLock(o, from, to) ==
    /\ Go(o, from, to)
    /\ queue_mut = Free
    /\ queue_mut' = o
    /\ UNCHANGED <<front, size, freed, counter_mut, cond_queued_req,
                   num_active_threads, reg, tmp, fault, handed>>

QueueUnlock(o, from, to) ==
    /\ Go(o, from, to)
    /\ queue_mut' = Free
    /\ UNCHANGED <<front, size, freed, counter_mut, cond_queued_req,
                   num_active_threads, reg, tmp, fault, handed>>

\* Mutant of Lock: the office does not wait for queue_mut.
LockSkipped(o) == Jump(o, "lock", "empty")

\* Mutant of Test: the flag is not looked at on top of the loop.
TestNothing(o) == Jump(o, "test", "lock")

\* if (!shutdown), read without any mutex: an office that sees the flag
\* unlocks queue_mut, whoever holds it, instead of locking it.
Test(o)   == Jump(o, "test", IF shutdown THEN "unlock" ELSE "lock")
Lock(o)   == QueueLock(o, "lock", "empty")
Unlock(o) == QueueUnlock(o, "unlock", "empty")

\* Mutant of Empty: an office closes at shutdown with requests still queued.
EmptyOrShutdown(o) ==
    Jump(o, "empty", IF size = 0 \/ shutdown THEN "check" ELSE "take")

\* if (empty(&request_queue))
Empty(o) == Jump(o, "empty", IF size = 0 THEN "check" ELSE "take")

\* if (shutdown) break: the office closes without unlocking queue_mut.
Check(o) == Jump(o, "check", IF shutdown THEN "closed" ELSE "wait")

\* pthread_cond_wait: release the mutex and block, in one step...
Wait(o) ==
    /\ Go(o, "wait", "blocked")
    /\ queue_mut' = Free
    /\ cond_queued_req' = cond_queued_req \cup {o}
    /\ UNCHANGED <<front, size, freed, counter_mut, num_active_threads, reg,
                   tmp, fault, handed>>

\* ... and lock it again once woken,
Wake(o) == o \notin cond_queued_req /\ QueueLock(o, "blocked", "take")

\* which may happen without a signal.
SpuriousWakeup(o) ==
    /\ Spurious
    /\ o \in cond_queued_req
    /\ cond_queued_req' = cond_queued_req \ {o}
    /\ UNCHANGED <<mainVars, queueVars, queue_mut, counter_mut, officeVars>>

\* if (!empty(&request_queue)): an office that finds nothing goes back to the
\* top of the loop without unlocking queue_mut.
Take(o) == Jump(o, "take", IF size = 0 THEN "test" ELSE "front")

\* next_request = front(&request_queue)
Front(o) ==
    /\ IF Valid(front)
       THEN /\ Go(o, "front", "inc")
            /\ handed' = Append(handed, nodes[front])
            /\ UNCHANGED fault
       ELSE Go(o, "front", "front") /\ fault' = TRUE /\ UNCHANGED handed
    /\ UNCHANGED <<front, size, freed, syncVars, num_active_threads, reg, tmp>>

\* Mutant of CounterLoad: counter_mut is not waited for.
CounterLoadUnlocked(o, from, to) ==
    /\ Go(o, from, to)
    /\ counter_mut' = o
    /\ reg' = [reg EXCEPT ![o] = num_active_threads]
    /\ UNCHANGED <<front, size, freed, queue_mut, cond_queued_req,
                   num_active_threads, tmp, fault, handed>>

\* Lock counter_mut and load num_active_threads, before (inc) and after (dec)
\* the request is processed; store it back and unlock counter_mut.
CounterLoad(o, from, to) ==
    /\ Go(o, from, to)
    /\ counter_mut = Free
    /\ counter_mut' = o
    /\ reg' = [reg EXCEPT ![o] = num_active_threads]
    /\ UNCHANGED <<front, size, freed, queue_mut, cond_queued_req,
                   num_active_threads, tmp, fault, handed>>

CounterStore(o, from, to, change) ==
    /\ Go(o, from, to)
    /\ num_active_threads' = reg[o] + change
    /\ counter_mut' = Free
    /\ UNCHANGED <<front, size, freed, queue_mut, cond_queued_req, reg, tmp,
                   fault, handed>>

IncLoad(o)  == CounterLoad(o, "inc", "inc_store")
IncStore(o) == CounterStore(o, "inc_store", "pop", 1)

\* pop(): q->size--, a load and a store;
PopGo(o, from, to) ==
    Go(o, from, to) /\ UNCHANGED <<syncVars, num_active_threads, handed>>

PopSizeLoad(o) ==
    /\ PopGo(o, "pop", "pop_size")
    /\ reg' = [reg EXCEPT ![o] = size]
    /\ UNCHANGED <<front, size, freed, tmp, fault>>

PopSizeStore(o) ==
    /\ PopGo(o, "pop_size", "pop_tmp")
    /\ size' = reg[o] - 1
    /\ UNCHANGED <<front, freed, reg, tmp, fault>>

\* tmp = q->front;
PopTmp(o) ==
    /\ PopGo(o, "pop_tmp", "pop_next")
    /\ tmp' = [tmp EXCEPT ![o] = front]
    /\ UNCHANGED <<front, size, freed, reg, fault>>

\* Mutant of PopNextStore: pop() frees the node and leaves front on it.
PopNextForgotten(o) ==
    /\ PopGo(o, "pop_front", "pop_free")
    /\ UNCHANGED <<front, size, freed, reg, tmp, fault>>

\* q->front = q->front->next, a load through the list and a store;
PopNextLoad(o) ==
    /\ IF Valid(front)
       THEN /\ PopGo(o, "pop_next", "pop_front")
            /\ reg' = [reg EXCEPT ![o] = NextNode(front)]
            /\ UNCHANGED fault
       ELSE PopGo(o, "pop_next", "pop_next") /\ fault' = TRUE /\ UNCHANGED reg
    /\ UNCHANGED <<front, size, freed, tmp>>

PopNextStore(o) ==
    /\ PopGo(o, "pop_front", "pop_free")
    /\ front' = reg[o]
    /\ UNCHANGED <<size, freed, reg, tmp, fault>>

\* free(tmp): freeing a node twice aborts, freeing NULL does nothing.
PopFree(o) ==
    /\ IF tmp[o] \in freed
       THEN PopGo(o, "pop_free", "pop_free") /\ fault' = TRUE /\ UNCHANGED freed
       ELSE /\ PopGo(o, "pop_free", "leave")
            /\ freed' = freed \cup ({tmp[o]} \ {NULL})
            /\ UNCHANGED fault
    /\ UNCHANGED <<front, size, reg, tmp>>

\* Mutant of Leave: queue_mut is kept while the request is processed.
LeaveLocked(o) == Jump(o, "leave", "serve")

\* pthread_mutex_unlock(&queue_mut)
Leave(o) == QueueUnlock(o, "leave", "serve")

\* acknowledge_request, user_fifo_create, write and close: what they do to the
\* accounts and to the user's FIFO is the subject of other modules.
Serve(o) == Jump(o, "serve", "dec")

DecLoad(o)  == CounterLoad(o, "dec", "dec_store")
DecStore(o) == CounterStore(o, "dec_store", "test", -1)

-----------------------------------------------------------------------------
MainStep ==
    \/ MainLock \/ MainPush \/ MainSignal \/ MainUnlock
    \/ MainRefuseReply
    \/ MainReport \/ MainBroadcast \/ MainReply \/ MainJoin

\* What the main thread reads next is up to the users.
MainInput ==
    \/ \E r \in Requests : MainRead(r)
    \/ MainRefuse
    \/ MainShutdown

OfficeStep(o) ==
    \/ Test(o) \/ Lock(o) \/ Unlock(o) \/ Empty(o) \/ Check(o)
    \/ Wait(o) \/ Wake(o) \/ Take(o) \/ Front(o)
    \/ IncLoad(o) \/ IncStore(o)
    \/ PopSizeLoad(o) \/ PopSizeStore(o) \/ PopTmp(o)
    \/ PopNextLoad(o) \/ PopNextStore(o) \/ PopFree(o)
    \/ Leave(o) \/ Serve(o)
    \/ DecLoad(o) \/ DecStore(o)

Next ==
    /\ ~fault
    /\ \/ MainInput
       \/ MainStep
       \/ \E o \in Offices : OfficeStep(o) \/ SpuriousWakeup(o)

Spec == Init /\ [][Next]_vars

\* Every runnable thread is scheduled.  Nothing obliges users to send, nor
\* pthread_cond_wait to return unsignalled.
FairSpec ==
    /\ Spec
    /\ WF_vars(~fault /\ MainStep)
    /\ \A o \in Offices : WF_vars(~fault /\ OfficeStep(o))

-----------------------------------------------------------------------------
MainPCs == {"read", "lock", "push", "signal", "unlock", "refuse", "report",
            "broadcast", "reply", "join", "done"}

PopPCs == {"pop", "pop_size", "pop_tmp", "pop_next", "pop_front", "pop_free"}

\* Where thread_work is between the two places where it may hold queue_mut.
QueuePCs == {"empty", "check", "wait", "take", "front", "inc", "inc_store",
             "leave"} \cup PopPCs

OfficePCs == QueuePCs \cup {"test", "lock", "unlock", "blocked", "closed",
                            "serve", "dec", "dec_store"}

\* Types of the shared variables and of the threads' locals.
TypeOK ==
    /\ mpc \in MainPCs
    /\ pc \in [Offices -> OfficePCs]
    /\ req \subseteq Requests
    /\ shutdown \in BOOLEAN
    /\ active_offices \in Int
    /\ queue_mut \in Offices \cup {Main, Free}
    /\ counter_mut \in Offices \cup {Free}
    /\ cond_queued_req \subseteq Offices
    /\ num_active_threads \in Int
    /\ nodes \in Seq(Requests)
    /\ front \in 0..Len(nodes)
    /\ size \in Int
    /\ freed \subseteq 1..Len(nodes)
    /\ reg \in [Offices -> Int]
    /\ tmp \in [Offices -> 0..Len(nodes)]
    /\ fault \in BOOLEAN
    /\ handed \in Seq(Requests)

\* num_active_threads is the number of offices that have counted themselves in
\* and not yet out: no increment or decrement is lost, whatever shutdown does
\* to queue_mut, so the number read by shutdown_server is the true one.
ActiveOffices ==
    {o \in Offices : pc[o] \in PopPCs \cup {"leave", "serve", "dec", "dec_store"}}

ActiveCount == num_active_threads = Cardinality(ActiveOffices)

\* Only one thread at a time is in the section of the request queue.
InQueue == {o \in Offices : pc[o] \in QueuePCs}

QueueExclusive ==
    /\ \A o, p \in InQueue : o = p
    /\ mpc \in {"push", "signal", "unlock"} => InQueue = {}

\* queue_mut gives that exclusion until the shutdown flag is raised.
ExclusiveBeforeShutdown == ~shutdown => QueueExclusive

\* Who may keep the other threads out of the queue: an office inside its section,
\* one that went back to the top of the loop with the mutex because it was woken
\* for nothing, and after the shutdown one that has closed; never one that
\* processes a request or sleeps, nor a main thread that does anything else.
LockHolder ==
    /\ queue_mut = Main => mpc \in {"push", "signal", "unlock"}
    /\ queue_mut \in Offices =>
         \/ pc[queue_mut] \in QueuePCs \cup {"test", "lock"}
         \/ shutdown /\ pc[queue_mut] \in {"unlock", "closed"}

\* Requests are taken once each and in the order of arrival, and the list is
\* never used through a dangling or NULL pointer.
InOrderOnce ==
    /\ ~fault
    /\ Len(handed) <= Len(nodes)
    /\ \A i \in 1..Len(handed) : handed[i] = nodes[i]

\* The offices do so until the shutdown flag is raised.
InOrderBeforeShutdown == ~shutdown => InOrderOnce

\* Before a shutdown, a queued request whose signal was sent never finds all
\* the offices asleep: the wakeup of a request is not lost.
SomeoneAwake ==
    Offices # {} /\ ~shutdown /\ mpc # "signal" /\ size > 0
        => cond_queued_req # Offices

\* The offices close only when every queued request was taken, exactly once:
\* the server ends with nothing pending and nothing done twice.
Drained == mpc = "done" => handed = nodes

\* An office waits for queue_mut and holds it itself: it was woken for nothing and
\* went back to the top of the loop.  A single office then waits for good.
SelfLocked(o) == pc[o] = "lock" /\ queue_mut = o

\* Every request that the main thread has read is eventually taken by an
\* office, also when a shutdown follows it, unless an office was woken for nothing
\* and waits for itself.
Handed(r) == \E i \in 1..Len(handed) : handed[i] = r

RequestsServed ==
    \A r \in Requests : r \in req ~> Handed(r) \/ \E o \in Offices : SelfLocked(o)

\* The server ends after the admin's SHUTDOWN, unless an office waits for itself or
\* misses the broadcast: it read the flag before it was raised and fell asleep
\* afterwards.  An office that slept already does neither.
ShutdownEnds ==
    /\ shutdown ~> \/ mpc = "done"
                   \/ mpc = "join" /\ cond_queued_req # {}
                   \/ \E o \in Offices : SelfLocked(o)
    /\ mpc = "report" /\ cond_queued_req = Offices ~> mpc = "done"

\* As long as no shutdown intervenes, a request that was read is eventually
\* taken: the signal sent for it lets a blocked office process it.
ServedWhileOpen == \A r \in Requests : r \in req ~> Handed(r) \/ shutdown
=============================================================================
