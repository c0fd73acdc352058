---------------------------- MODULE OfficesProofs ----------------------------
(***************************************************************************)
(* Theorems about the threads of the server, for every number of offices   *)
(* and requests, with or without spurious wakeups.                         *)
(***************************************************************************)
EXTENDS Offices, TLAPS, FiniteSetTheorems

-----------------------------------------------------------------------------
(* Types.  An office stores into front the pointer it has loaded before,   *)
(* so the pointer has to be one while it is still in the register.         *)

RegOK == \A o \in Offices : pc[o] = "pop_front" => reg[o] \in 0..Len(nodes)

TypeInv == TypeOK /\ RegOK

\* The variables start with values of their types.
LEMMA TypeInit == Init => TypeInv
  <1> SUFFICES ASSUME Init PROVE TypeInv
    OBVIOUS
  <1> USE DEF Init
  <1>1. pc \in [Offices -> OfficePCs] /\ mpc \in MainPCs
    BY DEF OfficePCs, MainPCs
  <1>2. nodes \in Seq(Requests) /\ handed \in Seq(Requests) /\ Len(nodes) = 0
    OBVIOUS
  <1>3. front = 0 /\ tmp \in [Offices -> 0..0] /\ reg \in [Offices -> Int]
    BY DEF NULL
  <1>4. shutdown \in BOOLEAN /\ fault \in BOOLEAN
    BY Zenon
  <1>5. RegOK
    BY DEF RegOK
  <1> QED
    BY <1>1, <1>2, <1>3, <1>4, <1>5 DEF TypeInv, TypeOK

\* A step of the main thread keeps the types.
LEMMA TypeMain == TypeInv /\ (MainInput \/ MainStep) => TypeInv'
  <1> SUFFICES ASSUME TypeInv, MainInput \/ MainStep PROVE TypeInv'
    OBVIOUS
  <1> USE DEF TypeInv, TypeOK, RegOK, MainPCs, MainGo, MainJump, officeVars, queueVars,
          syncVars
  <1>1. CASE \E r \in Requests : MainRead(r)
    BY <1>1 DEF MainRead
  <1>2. CASE MainRefuse \/ MainRefuseReply \/ MainReply \/ MainJoin
    BY <1>2 DEF MainRefuse, MainRefuseReply, MainReply, MainJoin
  <1>3. CASE MainShutdown \/ MainReport \/ MainBroadcast
    BY <1>3 DEF MainShutdown, MainReport, MainBroadcast
  <1>4. CASE MainLock \/ MainUnlock \/ MainSignal
    BY <1>4 DEF MainLock, MainUnlock, MainSignal
  <1>5. CASE MainPush
    <2>1. PICK r \in req : nodes' = Append(nodes, r)
      BY <1>5 DEF MainPush
    <2>2. nodes' \in Seq(Requests) /\ Len(nodes') = Len(nodes) + 1
      BY <2>1
    <2> QED
      BY <1>5, <2>2 DEF MainPush, NULL
  <1> QED
    BY <1>1, <1>2, <1>3, <1>4, <1>5 DEF MainInput, MainStep

\* A step of an office keeps the types.
LEMMA TypeOffice ==
    ASSUME TypeInv, NEW o \in Offices, OfficeStep(o) \/ SpuriousWakeup(o)
    PROVE  TypeInv'
  <1> USE DEF TypeInv, TypeOK, RegOK, Go, Jump, QueueLock, QueueUnlock, PopGo, mainVars,
          queueVars, syncVars
  <1>p. /\ pc' \in [Offices -> OfficePCs]
        /\ \A p \in Offices : p # o => pc'[p] = pc[p]
    BY DEF OfficePCs, QueuePCs, PopPCs, OfficeStep, Test, Lock, Unlock, Empty, Check,
       Wait, Wake, Take, Front, IncLoad, IncStore, PopSizeLoad, PopSizeStore, PopTmp,
       PopNextLoad, PopNextStore, PopFree, Leave, Serve, DecLoad, DecStore, CounterLoad,
       CounterStore, SpuriousWakeup, officeVars
  <1>1. CASE Test(o) \/ Empty(o) \/ Check(o) \/ Take(o) \/ Serve(o)
    BY <1>1, <1>p DEF Test, Empty, Check, Take, Serve
  <1>2. CASE Lock(o) \/ Wake(o) \/ Unlock(o) \/ Leave(o) \/ Wait(o)
    BY <1>2, <1>p DEF Lock, Wake, Unlock, Leave, Wait
  <1>3. CASE Front(o)
    <2>1. CASE Valid(front)
      <3>1. nodes[front] \in Requests
        BY <2>1 DEF Valid, NULL
      <3>2. handed' = Append(handed, nodes[front]) /\ fault' = fault
        BY <1>3, <2>1 DEF Front
      <3>3. handed' \in Seq(Requests)
        BY <3>1, <3>2
      <3> QED
        BY <1>3, <1>p, <3>2, <3>3 DEF Front
    <2>2. CASE ~Valid(front)
      BY <1>3, <1>p, <2>2 DEF Front
    <2> QED
      BY <2>1, <2>2
  <1>4. CASE IncLoad(o) \/ IncStore(o) \/ DecLoad(o) \/ DecStore(o)
    <2>1. CASE IncLoad(o) \/ DecLoad(o)
      BY <2>1, <1>p DEF IncLoad, DecLoad, CounterLoad
    <2>2. CASE IncStore(o) \/ DecStore(o)
      <3>1. num_active_threads' \in Int
        BY <2>2 DEF IncStore, DecStore, CounterStore
      <3>2. RegOK'
        BY <2>2 DEF IncStore, DecStore, CounterStore
      <3> QED
        BY <2>2, <1>p, <3>1, <3>2 DEF IncStore, DecStore, CounterStore
    <2> QED
      BY <1>4, <2>1, <2>2
  <1>5. CASE PopSizeLoad(o) \/ PopSizeStore(o)
    <2>1. CASE PopSizeLoad(o)
      BY <2>1, <1>p DEF PopSizeLoad
    <2>2. CASE PopSizeStore(o)
      BY <2>2, <1>p DEF PopSizeStore
    <2> QED
      BY <1>5, <2>1, <2>2
  <1>6. CASE PopTmp(o)
    BY <1>6, <1>p DEF PopTmp
  <1>7. CASE PopNextLoad(o)
    <2>1. NextNode(front) \in 0..Len(nodes)
      BY DEF NextNode, NULL
    <2>2. CASE Valid(front)
      BY <1>7, <1>p, <2>1, <2>2 DEF PopNextLoad
    <2>3. CASE ~Valid(front)
      BY <1>7, <1>p, <2>3 DEF PopNextLoad
    <2> QED
      BY <2>2, <2>3
  <1>8. CASE PopNextStore(o)
    BY <1>8, <1>p DEF PopNextStore
  <1>9. CASE PopFree(o)
    <2>1. CASE tmp[o] \in freed
      BY <1>9, <1>p, <2>1 DEF PopFree
    <2>2. CASE tmp[o] \notin freed
      <3>1. freed' \subseteq 1..Len(nodes)
        <4>1. freed' = freed \cup ({tmp[o]} \ {0})
          BY <1>9, <2>2 DEF PopFree, NULL
        <4>2. tmp[o] \in 0..Len(nodes) /\ Len(nodes) \in Nat
          OBVIOUS
        <4>3. freed \subseteq 1..Len(nodes)
          OBVIOUS
        <4>4. tmp[o] # 0 => tmp[o] \in 1..Len(nodes)
          BY <4>2
        <4> QED
          BY <4>1, <4>3, <4>4, Zenon
      <3>2. RegOK'
        BY <1>9, <2>2 DEF PopFree
      <3> QED
        BY <1>9, <1>p, <2>2, <3>1, <3>2 DEF PopFree
    <2> QED
      BY <2>1, <2>2
  <1>10. CASE SpuriousWakeup(o)
    BY <1>10 DEF SpuriousWakeup, officeVars
  <1> QED
    BY <1>1, <1>2, <1>3, <1>4, <1>5, <1>6, <1>7, <1>8, <1>9, <1>10 DEF OfficeStep

\* The strengthened type invariant is inductive.
LEMMA TypeStep == TypeInv /\ [Next]_vars => TypeInv'
  <1> SUFFICES ASSUME TypeInv, [Next]_vars PROVE TypeInv'
    OBVIOUS
  <1>1. CASE MainInput \/ MainStep
    BY <1>1, TypeMain
  <1>2. CASE \E o \in Offices : OfficeStep(o) \/ SpuriousWakeup(o)
    BY <1>2, TypeOffice
  <1>3. CASE UNCHANGED vars
    BY <1>3 DEF vars, mainVars, queueVars, syncVars, officeVars, TypeInv, TypeOK, RegOK
  <1> QED
    BY <1>1, <1>2, <1>3 DEF Next

\* Every variable keeps its type; in particular front and the locals of pop()
\* are NULL or the address of a node that was allocated.
THEOREM TypeCorrect == Spec => []TypeOK
  <1>1. TypeInv => TypeOK
    BY DEF TypeInv
  <1> QED
    BY <1>1, TypeInit, TypeStep, PTL DEF Spec

-----------------------------------------------------------------------------
(* The counter of active offices.  An office that has loaded the counter   *)
(* holds counter_mut and has the current value; nobody else can change it. *)

Counting == {"inc_store", "dec_store"}

Loaded ==
    \A o \in Offices : pc[o] \in Counting =>
        counter_mut = o /\ reg[o] = num_active_threads

CounterInv == Loaded /\ ActiveCount

\* ActiveOffices by its program counters.
ActivePCs == PopPCs \cup {"leave", "serve", "dec", "dec_store"}

\* A step that neither touches the counter nor moves an office into or out of
\* the active part keeps the invariant.
LEMMA CounterFrame ==
    ASSUME TypeInv, CounterInv,
           UNCHANGED <<num_active_threads, counter_mut>>,
           \A p \in Offices : (pc'[p] \in ActivePCs) <=> (pc[p] \in ActivePCs),
           \A p \in Offices : pc'[p] \in Counting =>
                pc[p] \in Counting /\ reg'[p] = reg[p]
    PROVE  CounterInv'
  <1>1. ActiveOffices' = ActiveOffices
    BY DEF ActiveOffices, ActivePCs
  <1>2. ActiveCount'
    BY <1>1 DEF CounterInv, ActiveCount
  <1>3. Loaded'
    BY DEF CounterInv, Loaded
  <1> QED
    BY <1>2, <1>3 DEF CounterInv

\* counter_mut is waited for, and the value loaded is the current one.
LEMMA CounterLoads ==
    ASSUME TypeInv, CounterInv, NEW o \in Offices, IncLoad(o) \/ DecLoad(o)
    PROVE  CounterInv'
  <1> USE DEF IncLoad, DecLoad, CounterLoad, Go, TypeInv, TypeOK
  <1>1. ActiveOffices' = ActiveOffices
    BY DEF ActiveOffices, PopPCs
  <1>2. ActiveCount'
    BY <1>1 DEF CounterInv, ActiveCount
  <1>3. Loaded'
    BY OfficesAssumption DEF CounterInv, Loaded, Counting
  <1> QED
    BY <1>2, <1>3 DEF CounterInv

\* The store adds or removes the office from the active ones, and nobody else
\* is in between its load and its store.
LEMMA CounterStores ==
    ASSUME TypeInv, CounterInv, NEW o \in Offices, IncStore(o) \/ DecStore(o)
    PROVE  CounterInv'
  <1> USE DEF CounterStore, Go, TypeInv, TypeOK
  <1>0. IsFiniteSet(ActiveOffices)
    BY OfficesAssumption, FS_Subset DEF ActiveOffices
  <1>1. Loaded'
    BY OfficesAssumption DEF CounterInv, Loaded, Counting, IncStore, DecStore
  <1>2. CASE IncStore(o)
    <2>1. o \notin ActiveOffices /\ ActiveOffices' = ActiveOffices \cup {o}
      BY <1>2 DEF IncStore, ActiveOffices, PopPCs
    <2>2. Cardinality(ActiveOffices') = Cardinality(ActiveOffices) + 1
      BY <1>0, <2>1, FS_AddElement
    <2>3. num_active_threads' = num_active_threads + 1
      BY <1>2 DEF IncStore, CounterInv, Loaded, Counting
    <2> QED
      BY <1>1, <2>2, <2>3 DEF CounterInv, ActiveCount
  <1>3. CASE DecStore(o)
    <2>1. o \in ActiveOffices /\ ActiveOffices' = ActiveOffices \ {o}
      BY <1>3 DEF DecStore, ActiveOffices, PopPCs
    <2>2. Cardinality(ActiveOffices') = Cardinality(ActiveOffices) - 1
      BY <1>0, <2>1, FS_RemoveElement
    <2>3. num_active_threads' = num_active_threads - 1
      BY <1>3 DEF DecStore, CounterInv, Loaded, Counting
    <2> QED
      BY <1>1, <2>2, <2>3 DEF CounterInv, ActiveCount
  <1> QED
    BY <1>2, <1>3

\* Every other step of an office leaves the counter alone.
LEMMA CounterOthers ==
    ASSUME TypeInv, CounterInv, NEW o \in Offices,
           OfficeStep(o) \/ SpuriousWakeup(o),
           ~(IncLoad(o) \/ DecLoad(o) \/ IncStore(o) \/ DecStore(o))
    PROVE  CounterInv'
  <1> USE DEF Go, Jump, QueueLock, QueueUnlock, PopGo, syncVars
  <1>1. UNCHANGED <<num_active_threads, counter_mut>>
    BY DEF OfficeStep, Test, Lock, Unlock, Empty, Check, Wait, Wake, Take, Front,
       PopSizeLoad, PopSizeStore, PopTmp, PopNextLoad, PopNextStore, PopFree, Leave,
       Serve, SpuriousWakeup, officeVars
  <1>2. \A p \in Offices : p # o => pc'[p] = pc[p] /\ reg'[p] = reg[p]
    BY DEF TypeInv, TypeOK, OfficeStep, Test, Lock, Unlock, Empty, Check, Wait, Wake,
       Take, Front, PopSizeLoad, PopSizeStore, PopTmp, PopNextLoad, PopNextStore,
       PopFree, Leave, Serve, SpuriousWakeup, officeVars
  <1>3. (pc'[o] \in ActivePCs) <=> (pc[o] \in ActivePCs)
    BY DEF TypeInv, TypeOK, ActivePCs, PopPCs, OfficeStep, Test, Lock, Unlock, Empty,
       Check, Wait, Wake, Take, Front, PopSizeLoad, PopSizeStore, PopTmp, PopNextLoad,
       PopNextStore, PopFree, Leave, Serve, SpuriousWakeup, officeVars
  <1>4. pc'[o] \in Counting => pc[o] \in Counting /\ reg'[o] = reg[o]
    BY DEF TypeInv, TypeOK, Counting, OfficeStep, Test, Lock, Unlock, Empty, Check,
       Wait, Wake, Take, Front, PopSizeLoad, PopSizeStore, PopTmp, PopNextLoad,
       PopNextStore, PopFree, Leave, Serve, SpuriousWakeup, officeVars
  <1> QED
    BY <1>1, <1>2, <1>3, <1>4, CounterFrame

\* Whatever a shutdown does to queue_mut, num_active_threads is the number of
\* offices at work on a request: shutdown_server reports the true number.
THEOREM CountsActive == Spec => []ActiveCount
  <1>1. Init => CounterInv
    <2> SUFFICES ASSUME Init PROVE CounterInv
      OBVIOUS
    <2>1. ActiveOffices = {}
      BY DEF Init, ActiveOffices, PopPCs
    <2> QED
      BY <2>1, FS_EmptySet DEF Init, CounterInv, Loaded, Counting, ActiveCount
  <1>2. TypeInv /\ CounterInv /\ [Next]_vars => CounterInv'
    <2> SUFFICES ASSUME TypeInv, CounterInv, [Next]_vars PROVE CounterInv'
      OBVIOUS
    <2>1. CASE MainInput \/ MainStep
      <3>1. UNCHANGED <<officeVars, counter_mut>>
        BY <2>1 DEF MainInput, MainStep, MainRead, MainRefuse, MainShutdown, MainLock,
           MainPush, MainSignal, MainUnlock, MainRefuseReply, MainReport, MainBroadcast,
           MainReply, MainJoin, MainJump, MainGo
      <3> QED
        BY <3>1, CounterFrame DEF officeVars
    <2>2. CASE \E o \in Offices : OfficeStep(o) \/ SpuriousWakeup(o)
      BY <2>2, CounterLoads, CounterStores, CounterOthers
    <2>3. CASE UNCHANGED vars
      BY <2>3, CounterFrame DEF vars, officeVars, syncVars
    <2> QED
      BY <2>1, <2>2, <2>3 DEF Next
  <1>3. CounterInv => ActiveCount
    BY DEF CounterInv
  <1> QED
    BY <1>1, <1>2, <1>3, TypeInit, TypeStep, PTL DEF Spec

-----------------------------------------------------------------------------
(* The mutex of the request queue.  Until the flag is raised, whoever is   *)
(* in the section of the queue owns queue_mut.                             *)

\* An office never touches the flag, nor where the main thread is.
LEMMA OfficeElsewhere ==
    ASSUME NEW o \in Offices, OfficeStep(o) \/ SpuriousWakeup(o)
    PROVE  UNCHANGED <<shutdown, mpc, nodes>>
  BY DEF OfficeStep, Test, Lock, Unlock, Empty, Check, Wait, Wake, Take, Front, IncLoad,
     IncStore, PopSizeLoad, PopSizeStore, PopTmp, PopNextLoad, PopNextStore, PopFree,
     Leave, Serve, DecLoad, DecStore, SpuriousWakeup, CounterLoad, CounterStore, Go, Jump,
     QueueLock, QueueUnlock, PopGo, mainVars, queueVars

MainInQueue == mpc \in {"push", "signal", "unlock"}

MutexInv ==
    ~shutdown =>
        /\ \A o \in Offices : pc[o] \in QueuePCs => queue_mut = o
        /\ \A o \in Offices : pc[o] # "unlock"
        /\ MainInQueue => queue_mut = Main

\* The main thread locks before it pushes, and unlocks only what it owns.
LEMMA MutexMain ==
    ASSUME TypeInv, MutexInv, MainInput \/ MainStep PROVE MutexInv'
  <1> USE DEF MutexInv, MainGo, MainJump, MainInQueue, queueVars, syncVars, officeVars
  <1>1. CASE \E r \in Requests : MainRead(r)
    BY <1>1 DEF MainRead
  <1>2. CASE MainRefuse \/ MainRefuseReply \/ MainReply \/ MainJoin
    BY <1>2 DEF MainRefuse, MainRefuseReply, MainReply, MainJoin
  <1>3. CASE MainShutdown \/ MainReport \/ MainBroadcast
    BY <1>3 DEF MainShutdown, MainReport, MainBroadcast
  <1>4. CASE MainLock
    BY <1>4, OfficesAssumption DEF MainLock
  <1>5. CASE MainPush \/ MainSignal
    BY <1>5 DEF MainPush, MainSignal
  <1>6. CASE MainUnlock
    BY <1>6, OfficesAssumption DEF MainUnlock
  <1> QED
    BY <1>1, <1>2, <1>3, <1>4, <1>5, <1>6 DEF MainInput, MainStep

\* An office enters the section by locking queue_mut, and leaves it before, or
\* together with, unlocking it.
LEMMA MutexOffice ==
    ASSUME TypeInv, MutexInv, NEW o \in Offices, OfficeStep(o) \/ SpuriousWakeup(o)
    PROVE  MutexInv'
  <1>0. UNCHANGED <<shutdown, mpc>>
    BY OfficeElsewhere
  <1> SUFFICES ASSUME ~shutdown PROVE MutexInv'
    BY <1>0 DEF MutexInv
  <1> USE <1>0, OfficesAssumption DEF MutexInv, MainInQueue, QueuePCs, PopPCs, TypeInv,
          TypeOK, Go, Jump, PopGo, QueueLock, QueueUnlock, syncVars
  <1>1. CASE Test(o) \/ Empty(o) \/ Check(o) \/ Take(o) \/ Serve(o)
    BY <1>1 DEF Test, Empty, Check, Take, Serve
  <1>2. CASE Lock(o) \/ Wake(o)
    BY <1>2 DEF Lock, Wake
  <1>3. CASE Unlock(o) \/ Leave(o) \/ Wait(o)
    BY <1>3 DEF Unlock, Leave, Wait
  <1>4. CASE Front(o)
    BY <1>4 DEF Front
  <1>5. CASE IncLoad(o) \/ IncStore(o) \/ DecLoad(o) \/ DecStore(o)
    BY <1>5 DEF IncLoad, IncStore, DecLoad, DecStore, CounterLoad, CounterStore
  <1>6. CASE PopSizeLoad(o) \/ PopSizeStore(o) \/ PopTmp(o)
    BY <1>6 DEF PopSizeLoad, PopSizeStore, PopTmp
  <1>7. CASE PopNextLoad(o) \/ PopNextStore(o) \/ PopFree(o)
    BY <1>7 DEF PopNextLoad, PopNextStore, PopFree
  <1>8. CASE SpuriousWakeup(o)
    BY <1>8 DEF SpuriousWakeup, officeVars
  <1> QED
    BY <1>1, <1>2, <1>3, <1>4, <1>5, <1>6, <1>7, <1>8 DEF OfficeStep

\* The mutex invariant is inductive, given the types.
LEMMA MutexStep == TypeInv /\ MutexInv /\ [Next]_vars => MutexInv'
  <1> SUFFICES ASSUME TypeInv, MutexInv, [Next]_vars PROVE MutexInv'
    OBVIOUS
  <1>1. CASE MainInput \/ MainStep
    BY <1>1, MutexMain
  <1>2. CASE \E o \in Offices : OfficeStep(o) \/ SpuriousWakeup(o)
    BY <1>2, MutexOffice
  <1>3. CASE UNCHANGED vars
    BY <1>3 DEF vars, mainVars, syncVars, officeVars, MutexInv, MainInQueue
  <1> QED
    BY <1>1, <1>2, <1>3 DEF Next

\* Nobody is in the section at the start.
LEMMA MutexInit == Init => MutexInv
  BY DEF Init, MutexInv, MainInQueue, QueuePCs, PopPCs

\* Until a shutdown, one thread at a time accesses the request queue.
THEOREM QueueMutualExclusion == Spec => []ExclusiveBeforeShutdown
  <1>1. MutexInv => ExclusiveBeforeShutdown
    BY OfficesAssumption DEF MutexInv, MainInQueue, ExclusiveBeforeShutdown,
       QueueExclusive, InQueue
  <1> QED
    BY <1>1, TypeInit, TypeStep, MutexInit, MutexStep, PTL DEF Spec

-----------------------------------------------------------------------------
(* Who owns queue_mut, also after the flag is raised and the exclusion is  *)
(* gone: a mutex somebody unlocked for its owner is no longer the owner's. *)

HolderInv ==
    /\ LockHolder
    /\ \A o \in Offices : pc[o] = "unlock" => shutdown

\* The main thread keeps queue_mut only from its lock to its unlock.
LEMMA HolderMain ==
    ASSUME TypeInv, HolderInv, MainInput \/ MainStep PROVE HolderInv'
  <1> USE OfficesAssumption DEF TypeInv, TypeOK, HolderInv, LockHolder, MainGo, MainJump,
          queueVars, syncVars, officeVars
  <1>1. CASE \E r \in Requests : MainRead(r)
    BY <1>1 DEF MainRead
  <1>2. CASE MainRefuse \/ MainRefuseReply \/ MainReply \/ MainJoin
    BY <1>2 DEF MainRefuse, MainRefuseReply, MainReply, MainJoin
  <1>3. CASE MainShutdown \/ MainReport \/ MainBroadcast
    BY <1>3 DEF MainShutdown, MainReport, MainBroadcast
  <1>4. CASE MainLock \/ MainUnlock
    BY <1>4 DEF MainLock, MainUnlock
  <1>5. CASE MainPush \/ MainSignal
    BY <1>5 DEF MainPush, MainSignal
  <1> QED
    BY <1>1, <1>2, <1>3, <1>4, <1>5 DEF MainInput, MainStep

\* An office gives it up before it processes a request and before it sleeps.
LEMMA HolderOffice ==
    ASSUME TypeInv, HolderInv, NEW o \in Offices, OfficeStep(o) \/ SpuriousWakeup(o)
    PROVE  HolderInv'
  <1>0. UNCHANGED <<shutdown, mpc>>
    BY OfficeElsewhere
  <1> USE <1>0, OfficesAssumption DEF HolderInv, LockHolder, QueuePCs, PopPCs, TypeInv,
          TypeOK, Go, Jump, PopGo, QueueLock, QueueUnlock, syncVars
  <1>1. CASE Test(o) \/ Empty(o) \/ Check(o) \/ Take(o) \/ Serve(o)
    BY <1>1 DEF Test, Empty, Check, Take, Serve
  <1>2. CASE Lock(o) \/ Wake(o)
    BY <1>2 DEF Lock, Wake
  <1>3. CASE Unlock(o) \/ Leave(o) \/ Wait(o)
    BY <1>3 DEF Unlock, Leave, Wait
  <1>4. CASE Front(o)
    BY <1>4 DEF Front
  <1>5. CASE IncLoad(o) \/ IncStore(o) \/ DecLoad(o) \/ DecStore(o)
    BY <1>5 DEF IncLoad, IncStore, DecLoad, DecStore, CounterLoad, CounterStore
  <1>6. CASE PopSizeLoad(o) \/ PopSizeStore(o) \/ PopTmp(o)
    BY <1>6 DEF PopSizeLoad, PopSizeStore, PopTmp
  <1>7. CASE PopNextLoad(o) \/ PopNextStore(o) \/ PopFree(o)
    BY <1>7 DEF PopNextLoad, PopNextStore, PopFree
  <1>8. CASE SpuriousWakeup(o)
    BY <1>8 DEF SpuriousWakeup, officeVars
  <1> QED
    BY <1>1, <1>2, <1>3, <1>4, <1>5, <1>6, <1>7, <1>8 DEF OfficeStep

\* Whatever a shutdown does, the other threads are kept out of the queue only by
\* a thread in its section, by an office that went back to the top of the loop
\* with queue_mut, or after the flag by one that closed with it.
THEOREM LockHolders == Spec => []LockHolder
  <1>1. Init => HolderInv
    BY OfficesAssumption DEF Init, HolderInv, LockHolder
  <1>2. TypeInv /\ HolderInv /\ [Next]_vars => HolderInv'
    <2> SUFFICES ASSUME TypeInv, HolderInv, [Next]_vars PROVE HolderInv'
      OBVIOUS
    <2>1. CASE MainInput \/ MainStep
      BY <2>1, HolderMain
    <2>2. CASE \E o \in Offices : OfficeStep(o) \/ SpuriousWakeup(o)
      BY <2>2, HolderOffice
    <2>3. CASE UNCHANGED vars
      BY <2>3 DEF vars, mainVars, syncVars, officeVars, HolderInv, LockHolder
    <2> QED
      BY <2>1, <2>2, <2>3 DEF Next
  <1>3. HolderInv => LockHolder
    BY DEF HolderInv
  <1> QED
    BY <1>1, <1>2, <1>3, TypeInit, TypeStep, PTL DEF Spec

-----------------------------------------------------------------------------
(* The request queue before a shutdown.  An office takes the request at    *)
(* the front and pops it in several steps; in between, size, front and     *)
(* freed each lag behind the requests taken until their own store.         *)

BeforeSize  == {"inc", "inc_store", "pop", "pop_size"}
BeforeFront == BeforeSize \cup {"pop_tmp", "pop_next", "pop_front"}
BeforeFree  == BeforeFront \cup {"pop_free"}

Within(pcs) == \E o \in Offices : pc[o] \in pcs

ListInv ==
    /\ size = Len(nodes) - Len(handed) + (IF Within(BeforeSize) THEN 1 ELSE 0)
    /\ front = IF Within(BeforeFront) THEN Len(handed) ELSE NextNode(Len(handed))
    /\ freed = 1 .. (IF Within(BeforeFree) THEN Len(handed) - 1 ELSE Len(handed))
    /\ Within(BeforeFree) => Len(handed) > 0

LocalInv ==
    \A o \in Offices :
        /\ pc[o] = "front" => size # 0
        /\ pc[o] \in {"check", "wait"} => size = 0
        /\ pc[o] = "pop_size" => reg[o] = size
        /\ pc[o] \in {"pop_next", "pop_front", "pop_free"} => tmp[o] = Len(handed)
        /\ pc[o] = "pop_front" => reg[o] = NextNode(Len(handed))

QueueOK == InOrderOnce /\ ListInv /\ LocalInv

DataInv == ~shutdown => QueueOK

\* A step outside of the section, or one that only walks through it, does not
\* touch the list.
LEMMA DataWalk ==
    ASSUME TypeInv, QueueOK, NEW o \in Offices,
           \/ Test(o) \/ Lock(o) \/ Unlock(o) \/ Empty(o) \/ Check(o) \/ Wait(o)
           \/ Wake(o) \/ Take(o) \/ Leave(o) \/ Serve(o) \/ DecLoad(o) \/ DecStore(o)
           \/ SpuriousWakeup(o)
    PROVE  QueueOK'
  <1> USE DEF Go, Jump, QueueLock, QueueUnlock
  <1>1. UNCHANGED <<nodes, handed, size, front, freed, fault, tmp>>
    BY DEF Test, Lock, Unlock, Empty, Check, Wait, Wake, Take, Leave, Serve, DecLoad,
       DecStore, CounterLoad, CounterStore, SpuriousWakeup, queueVars, officeVars
  <1>2. \A p \in Offices : p # o => pc'[p] = pc[p] /\ reg'[p] = reg[p]
    BY DEF TypeInv, TypeOK, Test, Lock, Unlock, Empty, Check, Wait, Wake, Take, Leave,
       Serve, DecLoad, DecStore, CounterLoad, CounterStore, SpuriousWakeup, officeVars
  <1>3. \/ pc[o] \notin BeforeFree /\ pc'[o] \notin BeforeFree
        \/ pc'[o] = pc[o] /\ reg'[o] = reg[o]
    <2>1. CASE SpuriousWakeup(o)
      BY <2>1 DEF SpuriousWakeup, officeVars
    <2>2. CASE ~SpuriousWakeup(o)
      BY <2>2 DEF TypeInv, TypeOK, Test, Lock, Unlock, Empty, Check, Wait, Wake, Take,
         Leave, Serve, DecLoad, DecStore, CounterLoad, CounterStore, BeforeFree,
         BeforeFront, BeforeSize
    <2> QED
      BY <2>1, <2>2
  <1>4. /\ pc'[o] = "front" => size # 0
        /\ pc'[o] \in {"check", "wait"} => size = 0
    BY DEF TypeInv, TypeOK, QueueOK, LocalInv, Test, Lock, Unlock, Empty, Check, Wait,
       Wake, Take, Leave, Serve, DecLoad, DecStore, CounterLoad, CounterStore,
       SpuriousWakeup, officeVars
  <1>5. /\ Within(BeforeSize)' <=> Within(BeforeSize)
        /\ Within(BeforeFront)' <=> Within(BeforeFront)
        /\ Within(BeforeFree)' <=> Within(BeforeFree)
    BY <1>2, <1>3 DEF Within, BeforeFree, BeforeFront, BeforeSize
  <1>6. InOrderOnce'
    BY <1>1 DEF QueueOK, InOrderOnce
  <1>7. ListInv'
    BY <1>1, <1>5 DEF QueueOK, ListInv, NextNode
  <1>8. LocalInv'
    <2>1. NextNode(Len(handed))' = NextNode(Len(handed))
      BY <1>1 DEF NextNode
    <2>2. LocalInv
      BY DEF QueueOK
    <2>3. ASSUME NEW p \in Offices
          PROVE  /\ pc'[p] = "front" => size' # 0
                 /\ pc'[p] \in {"check", "wait"} => size' = 0
      BY <1>1, <1>2, <1>4, <2>2 DEF LocalInv
    <2>4. ASSUME NEW p \in Offices, pc'[p] \in BeforeFree
          PROVE  pc[p] = pc'[p] /\ reg[p] = reg'[p] /\ tmp[p] = tmp'[p]
      BY <1>1, <1>2, <1>3, <2>4
    <2> QED
      BY <1>1, <2>1, <2>2, <2>3, <2>4 DEF LocalInv, BeforeFree, BeforeFront, BeforeSize
  <1> QED
    BY <1>6, <1>7, <1>8 DEF QueueOK

\* The office that takes and pops a request.
LEMMA DataTake ==
    ASSUME TypeInv, QueueOK, NEW o \in Offices,
           \A p \in Offices : p # o => pc[p] \notin QueuePCs,
           \/ Front(o) \/ IncLoad(o) \/ IncStore(o) \/ PopSizeLoad(o)
           \/ PopSizeStore(o) \/ PopTmp(o) \/ PopNextLoad(o) \/ PopNextStore(o)
           \/ PopFree(o)
    PROVE  QueueOK'
  <1> DEFINE k == Len(handed)
             n == Len(nodes)
  <1> USE DEF Go, PopGo, mainVars
  <1>1. UNCHANGED nodes
    BY DEF Front, IncLoad, IncStore, PopSizeLoad, PopSizeStore, PopTmp, PopNextLoad,
       PopNextStore, PopFree, CounterLoad, CounterStore
  <1>2. \A p \in Offices : p # o => pc[p] \notin QueuePCs /\ pc'[p] = pc[p]
    BY DEF TypeInv, TypeOK, Front, IncLoad, IncStore, PopSizeLoad,
       PopSizeStore, PopTmp, PopNextLoad, PopNextStore, PopFree, CounterLoad, CounterStore
  <1>4. /\ Within(BeforeSize) <=> pc[o] \in BeforeSize
        /\ Within(BeforeFront) <=> pc[o] \in BeforeFront
        /\ Within(BeforeFree) <=> pc[o] \in BeforeFree
        /\ Within(BeforeSize)' <=> pc'[o] \in BeforeSize
        /\ Within(BeforeFront)' <=> pc'[o] \in BeforeFront
        /\ Within(BeforeFree)' <=> pc'[o] \in BeforeFree
    BY <1>2 DEF Within, BeforeFree, BeforeFront, BeforeSize, QueuePCs, PopPCs
  <1>5. /\ k \in Nat /\ n \in Nat /\ k <= n /\ ~fault
        /\ size = n - k + (IF pc[o] \in BeforeSize THEN 1 ELSE 0)
        /\ front = IF pc[o] \in BeforeFront THEN k ELSE NextNode(k)
        /\ freed = 1 .. (IF pc[o] \in BeforeFree THEN k - 1 ELSE k)
        /\ pc[o] \in BeforeFree => k > 0
    BY <1>4 DEF QueueOK, InOrderOnce, ListInv, TypeInv, TypeOK
  <1>6. /\ pc[o] = "front" => size # 0
        /\ pc[o] = "pop_size" => reg[o] = size
        /\ pc[o] \in {"pop_next", "pop_front", "pop_free"} => tmp[o] = k
        /\ pc[o] = "pop_front" => reg[o] = NextNode(k)
    BY DEF QueueOK, LocalInv
  \* It is enough to look at this office.
  <1>7. ASSUME handed' = handed, fault' = fault,
               size' = n - k + (IF pc'[o] \in BeforeSize THEN 1 ELSE 0),
               front' = IF pc'[o] \in BeforeFront THEN k ELSE NextNode(k),
               freed' = 1 .. (IF pc'[o] \in BeforeFree THEN k - 1 ELSE k),
               pc'[o] \in BeforeFree => k > 0,
               pc'[o] \notin {"front", "check", "wait"},
               pc'[o] = "pop_size" => reg'[o] = size',
               pc'[o] \in {"pop_next", "pop_front", "pop_free"} => tmp'[o] = k,
               pc'[o] = "pop_front" => reg'[o] = NextNode(k)
        PROVE  QueueOK'
    <2>1. InOrderOnce'
      BY <1>1, <1>7 DEF QueueOK, InOrderOnce
    <2>2. ListInv'
      BY <1>1, <1>4, <1>7 DEF ListInv, NextNode
    <2>3. LocalInv'
      BY <1>1, <1>2, <1>7 DEF LocalInv, NextNode, QueuePCs, PopPCs
    <2> QED
      BY <2>1, <2>2, <2>3 DEF QueueOK
  <1>8. CASE Front(o)
    <2>1. pc[o] = "front" /\ front = k + 1 /\ k < n
      BY <1>8, <1>5, <1>6 DEF Front, NextNode, NULL, BeforeFree, BeforeFront, BeforeSize
    <2>2. Valid(front)
      BY <2>1, <1>5 DEF Valid, NULL, BeforeFree, BeforeFront, BeforeSize
    <2>3. /\ pc'[o] = "inc" /\ handed' = Append(handed, nodes[k + 1]) /\ ~fault'
          /\ UNCHANGED <<front, size, freed>>
      BY <1>8, <1>5, <2>1, <2>2 DEF Front, TypeInv, TypeOK
    <2>4. Len(handed') = k + 1 /\ \A i \in 1..k + 1 : handed'[i] = nodes[i]
      <3>1. nodes[k + 1] \in Requests /\ handed \in Seq(Requests)
        BY <1>5, <2>1 DEF TypeInv, TypeOK
      <3>2. \A i \in 1..k : handed[i] = nodes[i]
        BY DEF QueueOK, InOrderOnce
      <3>3. Len(handed') = k + 1 /\ handed'[k + 1] = nodes[k + 1]
        BY <2>3, <3>1
      <3>4. \A i \in 1..k : handed'[i] = handed[i]
        BY <2>3, <3>1
      <3> QED
        BY <1>5, <3>2, <3>3, <3>4
    <2>5. InOrderOnce'
      BY <1>1, <2>1, <2>3, <2>4 DEF InOrderOnce
    <2>6. ListInv'
      BY <1>1, <1>4, <1>5, <2>1, <2>3, <2>4 DEF ListInv, BeforeFree, BeforeFront,
         BeforeSize
    <2>7. LocalInv'
      BY <1>2, <2>3 DEF LocalInv, QueuePCs, PopPCs
    <2> QED
      BY <2>5, <2>6, <2>7 DEF QueueOK
  <1> USE <1>5, <1>6 DEF BeforeFree, BeforeFront, BeforeSize, TypeInv, TypeOK
  <1>9. CASE IncLoad(o) \/ IncStore(o)
    BY <1>7, <1>9 DEF IncLoad, IncStore, CounterLoad, CounterStore
  <1>10. CASE PopSizeLoad(o) \/ PopSizeStore(o)
    BY <1>7, <1>10 DEF PopSizeLoad, PopSizeStore
  <1>11. CASE PopTmp(o)
    BY <1>7, <1>11 DEF PopTmp
  <1>12. CASE PopNextLoad(o)
    <2>1. front = k /\ Valid(front)
      BY <1>12 DEF PopNextLoad, Valid, NULL
    <2> QED
      BY <1>7, <1>12, <2>1 DEF PopNextLoad
  <1>13. CASE PopNextStore(o)
    BY <1>7, <1>13 DEF PopNextStore
  <1>14. CASE PopFree(o)
    <2>1. tmp[o] = k /\ k # NULL /\ tmp[o] \notin freed
      BY <1>14 DEF PopFree, NULL
    <2>2. freed' = 1 .. k
      <3>1. freed' = (1 .. k - 1) \cup ({k} \ {0})
        BY <1>14, <2>1 DEF PopFree, NULL
      <3> QED
        BY <3>1, <2>1 DEF NULL
    <2> QED
      BY <1>7, <1>14, <2>1, <2>2 DEF PopFree
  <1> QED
    BY <1>8, <1>9, <1>10, <1>11, <1>12, <1>13, <1>14

\* The main thread pushes when no office is in the section.
LEMMA DataPush ==
    ASSUME TypeInv, QueueOK, \A p \in Offices : pc[p] \notin QueuePCs, MainPush
    PROVE  QueueOK'
  <1> USE DEF MainPush, MainGo, officeVars
  <1>1. PICK r \in req : nodes' = Append(nodes, r)
    OBVIOUS
  <1>2. /\ nodes \in Seq(Requests) /\ r \in Requests
        /\ handed \in Seq(Requests) /\ Len(handed) \in Nat /\ Len(nodes) \in Nat
    BY DEF TypeInv, TypeOK
  <1>3. /\ Len(nodes') = Len(nodes) + 1
        /\ \A i \in 1..Len(nodes) : nodes'[i] = nodes[i]
    BY <1>1, <1>2
  <1>4. ~Within(BeforeSize) /\ ~Within(BeforeFront) /\ ~Within(BeforeFree)
    BY DEF Within, BeforeFree, BeforeFront, BeforeSize, QueuePCs, PopPCs
  <1>5. UNCHANGED <<pc, handed, freed, fault>> /\ size' = size + 1
    OBVIOUS
  <1>6. InOrderOnce'
    BY <1>2, <1>3, <1>5 DEF QueueOK, InOrderOnce
  <1>7. ~Within(BeforeSize)' /\ ~Within(BeforeFront)' /\ ~Within(BeforeFree)'
    BY <1>4, <1>5 DEF Within
  <1>8. front' = NextNode(Len(handed))'
    BY <1>2, <1>3, <1>4, <1>5 DEF QueueOK, InOrderOnce, ListInv, NextNode, NULL
  <1>9. ListInv'
    BY <1>2, <1>3, <1>4, <1>5, <1>7, <1>8 DEF QueueOK, ListInv
  <1>10. LocalInv'
    BY <1>5 DEF LocalInv, QueuePCs, PopPCs
  <1> QED
    BY <1>6, <1>9, <1>10 DEF QueueOK

\* Its other steps leave the list alone, and none of its steps lowers the flag.
LEMMA MainElsewhere ==
    ASSUME MainInput \/ MainStep
    PROVE  /\ shutdown => shutdown'
           /\ ~MainPush => /\ UNCHANGED <<pc, handed, nodes, size>>
                           /\ QueueOK => QueueOK'
  <1> USE DEF MainGo, MainJump, officeVars, queueVars, MainInput, MainStep, MainRead,
          MainRefuse, MainShutdown, MainLock, MainSignal, MainUnlock, MainRefuseReply,
          MainReport, MainBroadcast, MainReply, MainJoin
  <1>1. shutdown => shutdown'
    BY DEF MainPush
  <1>2. ASSUME ~MainPush
        PROVE  UNCHANGED <<pc, handed, nodes, size, front, freed, fault, reg, tmp>>
    BY <1>2
  <1>3. ASSUME ~MainPush, QueueOK PROVE QueueOK'
    BY <1>2, <1>3 DEF QueueOK, InOrderOnce, ListInv, LocalInv, Within, NextNode
  <1> QED
    BY <1>1, <1>2, <1>3

\* An office that is alone in the section keeps the list in order.
LEMMA DataOffice ==
    ASSUME TypeInv, QueueOK, NEW o \in Offices, OfficeStep(o) \/ SpuriousWakeup(o),
           pc[o] \in QueuePCs => \A p \in Offices : p # o => pc[p] \notin QueuePCs
    PROVE  QueueOK'
  <1>1. CASE \/ Front(o) \/ IncLoad(o) \/ IncStore(o) \/ PopSizeLoad(o)
             \/ PopSizeStore(o) \/ PopTmp(o) \/ PopNextLoad(o) \/ PopNextStore(o)
             \/ PopFree(o)
    <2>1. pc[o] \in QueuePCs
      BY <1>1 DEF Front, IncLoad, IncStore, PopSizeLoad, PopSizeStore, PopTmp,
         PopNextLoad, PopNextStore, PopFree, CounterLoad, CounterStore, Go, PopGo,
         QueuePCs, PopPCs
    <2> QED
      BY <1>1, <2>1, DataTake
  <1> QED
    BY <1>1, DataWalk DEF OfficeStep

\* The description of the list is inductive, given the mutex invariant.
LEMMA DataStep == TypeInv /\ MutexInv /\ DataInv /\ [Next]_vars => DataInv'
  <1> SUFFICES ASSUME TypeInv, MutexInv, DataInv, [Next]_vars, ~shutdown' PROVE QueueOK'
    BY DEF DataInv
  <1>1. CASE MainInput \/ MainStep
    <2>1. ~shutdown /\ QueueOK
      BY <1>1, MainElsewhere DEF DataInv
    <2>2. MainPush => \A p \in Offices : pc[p] \notin QueuePCs
      BY <2>1, OfficesAssumption DEF MainPush, MainGo, MutexInv, MainInQueue
    <2> QED
      BY <1>1, <2>1, <2>2, MainElsewhere, DataPush
  <1>2. ASSUME NEW o \in Offices, OfficeStep(o) \/ SpuriousWakeup(o)
        PROVE  QueueOK'
    <2>1. ~shutdown /\ QueueOK
      BY <1>2, OfficeElsewhere DEF DataInv
    <2>2. pc[o] \in QueuePCs => \A p \in Offices : p # o => pc[p] \notin QueuePCs
      BY <2>1, OfficesAssumption DEF MutexInv
    <2> QED
      BY <1>2, <2>1, <2>2, DataOffice
  <1>3. CASE UNCHANGED vars
    BY <1>3 DEF vars, mainVars, queueVars, officeVars, DataInv, QueueOK, InOrderOnce,
       ListInv, LocalInv, Within, NextNode
  <1> QED
    BY <1>1, <1>2, <1>3 DEF Next

\* The empty list fits the description.
LEMMA DataInit == Init => QueueOK
  <1> SUFFICES ASSUME Init PROVE QueueOK
    OBVIOUS
  <1>1. InOrderOnce
    BY DEF Init, InOrderOnce
  <1>2. ~Within(BeforeSize) /\ ~Within(BeforeFront) /\ ~Within(BeforeFree)
    BY DEF Init, Within, BeforeFree, BeforeFront, BeforeSize
  <1>3. ListInv
    BY <1>2 DEF Init, ListInv, NextNode, NULL
  <1>4. LocalInv
    BY DEF Init, LocalInv
  <1> QED
    BY <1>1, <1>3, <1>4 DEF QueueOK

\* Until a shutdown, for any number of offices and requests, the requests are
\* taken once each in the order of arrival, and pop() and front() never use a
\* NULL or a freed node.
THEOREM TakenInOrder == Spec => []InOrderBeforeShutdown
  <1>1. DataInv => InOrderBeforeShutdown
    BY DEF DataInv, QueueOK, InOrderBeforeShutdown
  <1>2. QueueOK => DataInv
    BY DEF DataInv
  <1> QED
    BY <1>1, <1>2, TypeInit, TypeStep, MutexInit, MutexStep, DataInit, DataStep, PTL DEF Spec

-----------------------------------------------------------------------------
(* Wakeups.  An office goes to sleep only on an empty queue, and the push  *)
(* that ends this is followed by the signal.                               *)

\* The property is inductive, given the description of the list.
LEMMA AwakeStep ==
    TypeInv /\ DataInv /\ SomeoneAwake /\ [Next]_vars => SomeoneAwake'
  <1> SUFFICES ASSUME TypeInv, DataInv, SomeoneAwake, [Next]_vars, Offices # {},
                      ~shutdown', mpc' # "signal", size' > 0
               PROVE  cond_queued_req' # Offices
    BY DEF SomeoneAwake
  <1> USE DEF SomeoneAwake, TypeInv, TypeOK
  <1>1. CASE MainSignal \/ MainBroadcast
    BY <1>1 DEF MainSignal, MainBroadcast
  <1>2. CASE (MainInput \/ MainStep) /\ ~(MainSignal \/ MainBroadcast)
    BY <1>2 DEF MainInput, MainStep, MainRead, MainRefuse, MainShutdown, MainLock,
       MainPush, MainUnlock, MainRefuseReply, MainReport, MainReply, MainJoin, MainGo,
       MainJump, syncVars, queueVars
  <1>3. ASSUME NEW o \in Offices, OfficeStep(o) \/ SpuriousWakeup(o)
        PROVE  cond_queued_req' # Offices
    <2>1. UNCHANGED <<mpc, shutdown>>
      BY <1>3, OfficeElsewhere
    <2>2. CASE Wait(o)
      BY <2>1, <2>2 DEF Wait, Go, DataInv, QueueOK, LocalInv
    <2>3. CASE SpuriousWakeup(o)
      BY <2>3 DEF SpuriousWakeup
    <2>4. CASE PopSizeStore(o)
      BY <2>1, <2>4 DEF PopSizeStore, PopGo, Go, syncVars, DataInv, QueueOK, LocalInv
    <2>5. CASE ~(Wait(o) \/ SpuriousWakeup(o) \/ PopSizeStore(o))
      <3>1. UNCHANGED <<cond_queued_req, size>>
        BY <1>3, <2>5 DEF OfficeStep, Test, Lock, Unlock, Empty, Check, Wake, Take, Front,
           IncLoad, IncStore, PopSizeLoad, PopTmp, PopNextLoad, PopNextStore, PopFree,
           Leave, Serve, DecLoad, DecStore, CounterLoad, CounterStore, Jump, QueueLock,
           QueueUnlock, PopGo, syncVars
      <3> QED
        BY <2>1, <3>1
    <2> QED
      BY <2>2, <2>3, <2>4, <2>5
  <1>4. CASE UNCHANGED vars
    BY <1>4 DEF vars, mainVars, queueVars, syncVars
  <1> QED
    BY <1>1, <1>2, <1>3, <1>4 DEF Next

\* Until a shutdown, no queued request whose signal was sent finds all the
\* offices asleep, spurious wakeups or not.
THEOREM NoLostWakeup == Spec => []SomeoneAwake
  <1>1. Init => SomeoneAwake
    BY DEF Init, SomeoneAwake
  <1>2. QueueOK => DataInv
    BY DEF DataInv
  <1> QED
    BY <1>1, <1>2, TypeInit, TypeStep, MutexInit, MutexStep, DataInit, DataStep, AwakeStep,
       PTL DEF Spec

-----------------------------------------------------------------------------
(* A server with one office.  What breaks the exclusion at a shutdown is   *)
(* that an office unlocks the mutex of another: with a single one the list *)
(* stays in order to the end, since the main thread pushes nothing after   *)
(* it raised the flag.                                                     *)

Closing == {"report", "broadcast", "reply", "join", "done"}

SoleInv ==
    /\ QueueOK
    /\ shutdown => mpc \in Closing
    /\ \A o \in Offices : pc[o] = "closed" => shutdown /\ size = 0
    /\ mpc = "done" => \A o \in Offices : pc[o] = "closed"

\* The main thread pushes only before the shutdown, when queue_mut protects it.
LEMMA SoleMain ==
    ASSUME TypeInv, MutexInv, SoleInv, MainInput \/ MainStep PROVE SoleInv'
  <1>1. CASE MainPush
    <2>1. ~shutdown /\ mpc' = "signal" /\ UNCHANGED <<pc, shutdown>>
      BY <1>1 DEF MainPush, MainGo, SoleInv, Closing, officeVars
    <2>2. \A p \in Offices : pc[p] \notin QueuePCs
      BY <1>1, <2>1, OfficesAssumption DEF MainPush, MainGo, MutexInv, MainInQueue
    <2>3. QueueOK'
      BY <1>1, <2>2, DataPush DEF SoleInv
    <2> QED
      BY <2>1, <2>3 DEF SoleInv
  <1>2. CASE ~MainPush
    <2>1. UNCHANGED <<pc, size>> /\ QueueOK' /\ (shutdown => shutdown')
      BY <1>2, MainElsewhere DEF SoleInv
    <2>2. /\ shutdown' => mpc' \in Closing
          /\ mpc' = "done" => \A o \in Offices : pc'[o] = "closed"
      BY <1>2, <2>1 DEF SoleInv, Closing, MainInput, MainStep, MainRead, MainRefuse,
         MainShutdown, MainLock, MainSignal, MainUnlock, MainRefuseReply, MainReport,
         MainBroadcast, MainReply, MainJoin, MainGo, MainJump
    <2> QED
      BY <2>1, <2>2 DEF SoleInv
  <1> QED
    BY <1>1, <1>2

\* The office closes when it finds the queue empty, and that is then for good.
LEMMA SoleOffice ==
    ASSUME TypeInv, SoleInv, NEW o, Offices = {o}, OfficeStep(o) \/ SpuriousWakeup(o)
    PROVE  SoleInv'
  <1>1. UNCHANGED <<shutdown, mpc, nodes>>
    BY OfficeElsewhere
  <1>2. QueueOK'
    BY DataOffice DEF SoleInv
  <1>3. pc[o] # "closed" \/ UNCHANGED <<pc, size>>
    BY DEF OfficeStep, Test, Lock, Unlock, Empty, Check, Wait, Wake, Take, Front, IncLoad,
       IncStore, PopSizeLoad, PopSizeStore, PopTmp, PopNextLoad, PopNextStore, PopFree,
       Leave, Serve, DecLoad, DecStore, SpuriousWakeup, CounterLoad, CounterStore, Go,
       Jump, QueueLock, QueueUnlock, PopGo, queueVars, officeVars
  <1>4. pc'[o] = "closed" /\ pc[o] # "closed" =>
            pc[o] = "check" /\ shutdown /\ UNCHANGED size
    BY DEF TypeInv, TypeOK, OfficeStep, Test, Lock, Unlock, Empty, Check, Wait, Wake,
       Take, Front, IncLoad, IncStore, PopSizeLoad, PopSizeStore, PopTmp, PopNextLoad,
       PopNextStore, PopFree, Leave, Serve, DecLoad, DecStore, SpuriousWakeup,
       CounterLoad, CounterStore, Go, Jump, QueueLock, QueueUnlock, PopGo, queueVars,
       officeVars
  <1>5. pc[o] = "check" => size = 0
    BY DEF SoleInv, QueueOK, LocalInv
  <1>6. pc'[o] = "closed" => shutdown' /\ size' = 0
    BY <1>1, <1>3, <1>4, <1>5 DEF SoleInv
  <1>7. mpc' = "done" => pc'[o] = "closed"
    BY <1>1, <1>3 DEF SoleInv
  <1> QED
    BY <1>1, <1>2, <1>6, <1>7 DEF SoleInv

\* The invariant of a server with one office is inductive.
LEMMA SoleStep ==
    ASSUME NEW o, Offices = {o}
    PROVE  TypeInv /\ MutexInv /\ SoleInv /\ [Next]_vars => SoleInv'
  <1> SUFFICES ASSUME TypeInv, MutexInv, SoleInv, [Next]_vars PROVE SoleInv'
    OBVIOUS
  <1>1. CASE MainInput \/ MainStep
    BY <1>1, SoleMain
  <1>2. CASE \E p \in Offices : OfficeStep(p) \/ SpuriousWakeup(p)
    BY <1>2, SoleOffice
  <1>3. CASE UNCHANGED vars
    BY <1>3 DEF vars, mainVars, queueVars, officeVars, SoleInv, QueueOK, InOrderOnce,
       ListInv, LocalInv, Within, NextNode
  <1> QED
    BY <1>1, <1>2, <1>3 DEF Next

\* It holds at the start.
LEMMA SoleInit == Init => SoleInv
  <1> SUFFICES ASSUME Init PROVE SoleInv
    OBVIOUS
  <1>1. QueueOK
    BY DataInit
  <1> QED
    BY <1>1 DEF Init, SoleInv

\* With one office, requests are taken once each and in the order of arrival, and
\* no NULL or freed node is used, also during a shutdown: for any requests.
THEOREM OneOfficeInOrder ==
    ASSUME NEW o, Offices = {o} PROVE Spec => []InOrderOnce
  <1>1. TypeInv /\ MutexInv /\ SoleInv /\ [Next]_vars => SoleInv'
    BY SoleStep
  <1>2. SoleInv => InOrderOnce
    BY DEF SoleInv, QueueOK
  <1> QED
    BY <1>1, <1>2, TypeInit, TypeStep, MutexInit, MutexStep, SoleInit, PTL DEF Spec

\* With one office, a server that ended has taken every request it queued,
\* exactly once.
THEOREM OneOfficeDrains ==
    ASSUME NEW o, Offices = {o} PROVE Spec => []Drained
  <1>1. TypeInv /\ MutexInv /\ SoleInv /\ [Next]_vars => SoleInv'
    BY SoleStep
  <1>2. TypeInv /\ SoleInv => Drained
    <2> SUFFICES ASSUME TypeInv, SoleInv, mpc = "done" PROVE handed = nodes
      BY DEF Drained
    <2>1. pc[o] = "closed" /\ size = 0
      BY DEF SoleInv
    <2>2. ~Within(BeforeSize)
      BY <2>1 DEF Within, BeforeSize
    <2>3. handed \in Seq(Requests) /\ nodes \in Seq(Requests)
      BY DEF TypeInv, TypeOK
    <2>4. size = Len(nodes) - Len(handed)
      BY <2>2, <2>3 DEF SoleInv, QueueOK, ListInv
    <2>5. Len(handed) = Len(nodes)
      BY <2>1, <2>3, <2>4
    <2>6. \A i \in 1..Len(handed) : handed[i] = nodes[i]
      BY DEF SoleInv, QueueOK, InOrderOnce
    <2> QED
      BY <2>3, <2>5, <2>6
  <1> QED
    BY <1>1, <1>2, TypeInit, TypeStep, MutexInit, MutexStep, SoleInit, PTL DEF Spec

=============================================================================
