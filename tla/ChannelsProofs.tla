--------------------------- MODULE ChannelsProofs ---------------------------
(***************************************************************************)
(* Theorems about the FIFOs between users and server, for every number of  *)
(* users, whoever dies and whatever an earlier process left; and for every *)
(* number of offices until the shutdown, which leaves the queue without    *)
(* its mutex, and with one office also after it.                           *)
(***************************************************************************)
EXTENDS Channels, FiniteSetTheorems, TLAPS

-----------------------------------------------------------------------------
(* Sequences, as what is in them.                                          *)

InSeq(u, s) == \E i \in 1..Len(s) : s[i] = u

Distinct(s) == \A i, j \in 1..Len(s) : s[i] = s[j] => i = j

\* What is in a longer sequence.
LEMMA AppendFacts ==
    ASSUME NEW S, NEW s \in Seq(S), NEW x \in S
    PROVE  /\ Append(s, x) \in Seq(S) /\ Len(Append(s, x)) = Len(s) + 1
           /\ \A y : InSeq(y, Append(s, x)) <=> InSeq(y, s) \/ y = x
           /\ Distinct(s) /\ ~InSeq(x, s) => Distinct(Append(s, x))
           /\ s # <<>> => Append(s, x) # <<>> /\ Head(Append(s, x)) = Head(s)
  <1>1. /\ Append(s, x) \in Seq(S) /\ Len(Append(s, x)) = Len(s) + 1
        /\ \A i \in 1..Len(s) : Append(s, x)[i] = s[i]
        /\ Append(s, x)[Len(s) + 1] = x
        /\ Len(s) \in Nat
    OBVIOUS
  <1> DEFINE t == Append(s, x)
  <1> HIDE DEF t
  <1>2. ASSUME NEW y PROVE InSeq(y, t) <=> InSeq(y, s) \/ y = x
    BY <1>1 DEF InSeq, t
  <1>3. ASSUME Distinct(s), ~InSeq(x, s) PROVE Distinct(t)
    BY <1>1, <1>3 DEF Distinct, InSeq, t
  <1>4. s # <<>> => Append(s, x) # <<>> /\ Head(Append(s, x)) = Head(s)
    OBVIOUS
  <1> QED
    BY <1>1, <1>2, <1>3, <1>4 DEF t

\* What is in the rest of a sequence.
LEMMA TailFacts ==
    ASSUME NEW S, NEW s \in Seq(S), s # <<>>
    PROVE  /\ Head(s) \in S /\ Tail(s) \in Seq(S) /\ Len(Tail(s)) = Len(s) - 1
           /\ InSeq(Head(s), s)
           /\ \A y : InSeq(y, Tail(s)) => InSeq(y, s)
           /\ \A y : InSeq(y, s) => InSeq(y, Tail(s)) \/ y = Head(s)
           /\ Distinct(s) => Distinct(Tail(s)) /\ ~InSeq(Head(s), Tail(s))
  <1>1. /\ Head(s) \in S /\ Tail(s) \in Seq(S) /\ Len(Tail(s)) = Len(s) - 1
        /\ Len(s) \in Nat /\ Len(s) > 0
        /\ Head(s) = s[1]
        /\ \A i \in 1 .. Len(s) - 1 : Tail(s)[i] = s[i + 1]
    OBVIOUS
  <1> DEFINE t == Tail(s)
  <1> HIDE DEF t
  <1>2. InSeq(Head(s), s)
    BY <1>1 DEF InSeq
  <1>3. ASSUME NEW y, InSeq(y, t) PROVE InSeq(y, s)
    BY <1>1, <1>3 DEF InSeq, t
  <1>4. ASSUME NEW y, InSeq(y, s), y # Head(s) PROVE InSeq(y, t)
    <2>1. PICK i \in 1..Len(s) : s[i] = y
      BY <1>4 DEF InSeq
    <2>2. i - 1 \in 1..Len(s) - 1 /\ t[i - 1] = y
      BY <1>1, <1>4, <2>1 DEF t
    <2> QED
      BY <1>1, <2>2 DEF InSeq, t
  <1>5. ASSUME Distinct(s) PROVE Distinct(t) /\ ~InSeq(Head(s), t)
    <2>1. Distinct(t)
      BY <1>1, <1>5 DEF Distinct, t
    <2>2. ~InSeq(Head(s), t)
      BY <1>1, <1>5 DEF Distinct, InSeq, t
    <2> QED
      BY <2>1, <2>2
  <1> QED
    BY <1>1, <1>2, <1>3, <1>4, <1>5 DEF t

-----------------------------------------------------------------------------
(* Types.  A thread opens only a FIFO that it has made itself.             *)

Renewed ==
    \A h \in Handlers, u \in Users :
        u \in hfor[h] /\ hpc[h] \in {"again", "open", "opening", "write", "written"}
            => path[u] # "old"

TypeInv == TypeOK /\ Renewed

\* Initially no FIFO is open and nothing was sent.
LEMMA TypeInit == Init => TypeInv
  <1> SUFFICES ASSUME Init PROVE TypeInv
    OBVIOUS
  <1>1. Cardinality({}) = 0
    BY FS_EmptySet
  <1>2. <<>> \in Seq(Users) /\ Len(<<>>) = 0 /\ 0 <= CAPACITY
    BY ChannelsAssumption
  <1>3. /\ hfor \in [Handlers -> SUBSET Users]
        /\ \A h \in Handlers : Cardinality(hfor[h]) <= 1
        /\ queue \in Seq(Users) /\ buffer \in Seq(Users) /\ Len(buffer) <= CAPACITY
    BY <1>1, <1>2 DEF Init
  <1>4. shutdown \in BOOLEAN /\ writable \in BOOLEAN /\ srv_open \in BOOLEAN
    BY Zenon DEF Init
  <1>5. TypeOK
    BY <1>3, <1>4 DEF Init, TypeOK
  <1>6. Renewed
    BY DEF Init, Renewed, Handlers
  <1> QED
    BY <1>5, <1>6 DEF TypeInv

\* A thread has one user to answer.
LEMMA Sole ==
    ASSUME TypeOK, NEW h \in Handlers, NEW u \in hfor[h], NEW v \in hfor[h]
    PROVE  u = v
  <1> SUFFICES ASSUME u # v PROVE FALSE
    OBVIOUS
  <1>1. hfor[h] \subseteq Users /\ Cardinality(hfor[h]) <= 1
    BY DEF TypeOK
  <1>2. IsFiniteSet(hfor[h])
    BY <1>1, FS_Subset, ChannelsAssumption
  <1>3. IsFiniteSet({u}) /\ Cardinality({u}) = 1
    BY FS_Singleton
  <1>4. Cardinality({u} \cup {v}) = 2
    BY <1>3, FS_AddElement
  <1>5. Cardinality({u} \cup {v}) <= Cardinality(hfor[h])
    BY <1>2, FS_Subset
  <1>6. Cardinality(hfor[h]) \in Nat
    BY <1>2, FS_CardinalityType
  <1> QED
    BY <1>1, <1>4, <1>5, <1>6

\* A step of a user keeps the types and never brings an old FIFO back.
LEMMA TypeUser ==
    ASSUME TypeInv, NEW u \in Users, UserStep(u) \/ Kill(u)
    PROVE  TypeInv'
  <1> USE DEF TypeInv
  <1>1. CASE ConnectServer(u)
    BY <1>1 DEF TypeOK, Renewed, ConnectServer, UserGo, serverVars
  <1>2. CASE WriteRequest(u)
    <2>1. buffer' \in Seq(Users) /\ Len(buffer') <= CAPACITY
      BY <1>2, AppendFacts, ChannelsAssumption DEF TypeOK, WriteRequest
    <2> QED
      BY <1>2, <2>1 DEF TypeOK, Renewed, WriteRequest, UserGo, serverVars
  <1>3. CASE AwaitReplyFifo(u)
    BY <1>3 DEF TypeOK, Renewed, AwaitReplyFifo, UserGo, serverVars
  <1>4. CASE OpenReply(u)
    BY <1>4 DEF TypeOK, Renewed, OpenReply, UserGo, serverVars
  <1>5. CASE ReplyOpened(u)
    BY <1>5 DEF TypeOK, Renewed, ReplyOpened, UserGo, serverVars
  <1>6. CASE ReadReply(u)
    BY <1>6, ZenonT(40) DEF TypeOK, Renewed, ReadReply, UserGo, serverVars
  <1>7. CASE RemoveReply(u)
    BY <1>7 DEF TypeOK, Renewed, RemoveReply, UserGo, serverVars
  <1>8. CASE Kill(u)
    BY <1>8 DEF TypeOK, Renewed, Kill, serverVars, srvFifo
  <1> QED
    BY <1>1, <1>2, <1>3, <1>4, <1>5, <1>6, <1>7, <1>8 DEF UserStep

\* A thread that answers a user keeps the types: what it opens it has made.
LEMMA TypeAnswer ==
    ASSUME TypeInv, NEW h \in Handlers, Answer(h)
    PROVE  TypeInv'
  <1> USE DEF TypeInv
  <1> PICK u \in Users :
        \/ MakeFifo(h, u) \/ UnlinkFifo(h, u) \/ MakeFifoAgain(h, u)
        \/ OpenFifo(h, u) \/ FifoOpened(h, u) \/ WriteReply(h, u)
    BY DEF Answer
  <1>1. CASE MakeFifo(h, u)
    <2>1. TypeOK'
      BY <1>1 DEF TypeOK, MakeFifo, HandlerGo, userVars
    <2>2. ASSUME NEW g \in Handlers, NEW v \in Users, v \in hfor'[g],
                 hpc'[g] \in {"again", "open", "opening", "write", "written"}
          PROVE  path'[v] # "old"
      <3>1. CASE v = u
        BY <1>1, <2>2, <3>1 DEF TypeOK, Renewed, MakeFifo, HandlerGo
      <3>2. CASE v # u
        <4>1. g # h
          BY <1>1, <2>2, <3>2, Sole DEF MakeFifo, HandlerGo
        <4> QED
          BY <1>1, <2>2, <3>2, <4>1 DEF TypeOK, Renewed, MakeFifo, HandlerGo
      <3> QED
        BY <3>1, <3>2
    <2> QED
      BY <2>1, <2>2 DEF Renewed
  <1>2. CASE UnlinkFifo(h, u)
    <2>1. TypeOK'
      BY <1>2 DEF TypeOK, UnlinkFifo, HandlerGo, userVars
    <2>2. ASSUME NEW g \in Handlers, NEW v \in Users, v \in hfor'[g],
                 hpc'[g] \in {"again", "open", "opening", "write", "written"}
          PROVE  path'[v] # "old"
      <3>1. CASE v = u
        BY <1>2, <2>2, <3>1 DEF TypeOK, Renewed, UnlinkFifo, HandlerGo
      <3>2. CASE v # u
        <4>1. g # h
          BY <1>2, <2>2, <3>2, Sole DEF UnlinkFifo, HandlerGo
        <4> QED
          BY <1>2, <2>2, <3>2, <4>1 DEF TypeOK, Renewed, UnlinkFifo, HandlerGo
      <3> QED
        BY <3>1, <3>2
    <2> QED
      BY <2>1, <2>2 DEF Renewed
  <1>3. CASE MakeFifoAgain(h, u)
    <2>1. TypeOK'
      BY <1>3 DEF TypeOK, MakeFifoAgain, ServerKilled, HandlerGo, userVars
    <2>2. Renewed'
      BY <1>3 DEF TypeOK, Renewed, MakeFifoAgain, HandlerGo
    <2> QED
      BY <2>1, <2>2
  <1>4. CASE OpenFifo(h, u)
    <2>1. path[u] \in {"none", "new"}
      BY <1>4 DEF TypeOK, Renewed, OpenFifo, HandlerGo
    <2> QED
      BY <1>4, <2>1 DEF TypeOK, Renewed, OpenFifo, ServerKilled, HandlerGo, userVars
  <1>5. CASE FifoOpened(h, u)
    BY <1>5 DEF TypeOK, Renewed, FifoOpened, HandlerGo, userVars
  <1>6. CASE WriteReply(h, u)
    BY <1>6, ZenonT(40) DEF TypeOK, Renewed, WriteReply, ServerKilled, HandlerGo, userVars
  <1> QED
    BY <1>1, <1>2, <1>3, <1>4, <1>5, <1>6

\* The rest of what the main thread does keeps the types.
LEMMA TypeMain ==
    ASSUME TypeInv, MainStep
    PROVE  TypeInv'
  <1> USE DEF TypeInv
  <1>1. CASE MakeRequestFifo
    BY <1>1 DEF TypeOK, Renewed, MakeRequestFifo, MainGo, userVars, replyFifos
  <1>2. CASE UnlinkRequestFifo
    BY <1>2 DEF TypeOK, Renewed, UnlinkRequestFifo, MainGo, userVars, replyFifos
  <1>3. CASE OpenRequestFifo
    BY <1>3 DEF TypeOK, Renewed, OpenRequestFifo, MainGo, userVars, replyFifos
  <1>4. CASE ReadRequest
    <2> DEFINE u == Head(buffer)
    <2>1. /\ u \in Users /\ buffer' \in Seq(Users) /\ Len(buffer') <= CAPACITY
          /\ queue' \in Seq(Users)
      BY <1>4, TailFacts, AppendFacts, ChannelsAssumption DEF TypeOK, ReadRequest
    <2>2. Cardinality({u}) = 1 /\ Main \in Handlers
      BY FS_Singleton DEF Handlers
    <2>3. /\ hfor' \in [Handlers -> SUBSET Users]
          /\ \A h \in Handlers : Cardinality(hfor'[h]) <= 1
      BY <1>4, <2>1, <2>2 DEF TypeOK, ReadRequest
    <2>4. writable' \in BOOLEAN /\ shutdown' \in BOOLEAN
      BY <1>4, Zenon DEF TypeOK, ReadRequest
    <2>5. hpc' \in [Handlers -> {"idle", "pop", "mkfifo", "unlink", "again",
                                 "open", "opening", "write", "written", "closed"}]
      BY <1>4, <2>2 DEF TypeOK, ReadRequest
    <2>6. taken' \subseteq Users
      BY <1>4, <2>1 DEF TypeOK, ReadRequest
    <2> HIDE DEF u
    <2>7. Renewed'
      BY <1>4, <2>1, <2>2 DEF TypeOK, Renewed, ReadRequest, MainGo, replyFifos
    <2> QED
      BY <1>4, <2>1, <2>3, <2>4, <2>5, <2>6, <2>7
      DEF TypeOK, ReadRequest, MainGo, userVars, replyFifos
  <1>5. CASE MainAnswered
    <2>1. Cardinality({}) = 0
      BY FS_EmptySet
    <2>2. TypeOK'
      <3>1. /\ hfor' \in [Handlers -> SUBSET Users]
            /\ \A h \in Handlers : Cardinality(hfor'[h]) <= 1
        <4>1. hfor' = [hfor EXCEPT ![Main] = {}] /\ Main \in Handlers
          BY <1>5 DEF MainAnswered, Handlers
        <4> QED
          BY <2>1, <4>1 DEF TypeOK
      <3>2. mpc' \in {"join", "read"}
        BY <1>5 DEF MainAnswered, MainGo
      <3> QED
        BY <1>5, <3>1, <3>2
        DEF TypeOK, MainAnswered, MainGo, userVars, replyFifos, srvFifo
    <2>3. Renewed'
      BY <1>5 DEF TypeOK, Renewed, MainAnswered, MainGo, replyFifos
    <2> QED
      BY <2>2, <2>3
  <1>6. CASE Join
    BY <1>6 DEF TypeOK, Renewed, Join, MainGo, userVars, replyFifos, srvFifo
  <1>7. CASE CloseRequestFifo
    BY <1>7 DEF TypeOK, Renewed, CloseRequestFifo, MainGo, userVars, replyFifos
  <1>8. CASE RemoveRequestFifo
    BY <1>8 DEF TypeOK, Renewed, RemoveRequestFifo, MainGo, userVars, replyFifos
  <1>9. CASE Answer(Main)
    BY <1>9, TypeAnswer DEF Handlers
  <1> QED
    BY <1>1, <1>2, <1>3, <1>4, <1>5, <1>6, <1>7, <1>8, <1>9 DEF MainStep

\* An office takes, answers and closes within the types.
LEMMA TypeOffice ==
    ASSUME TypeInv, NEW o \in Offices, OfficeStep(o)
    PROVE  TypeInv'
  <1> USE DEF TypeInv
  <1>0. o \in Handlers
    BY DEF Handlers
  <1>1. CASE Front(o)
    <2>1. Head(queue) \in Users
      BY <1>1, TailFacts DEF TypeOK, Front
    <2>2. Cardinality({Head(queue)}) = 1
      BY FS_Singleton
    <2> QED
      BY <1>0, <1>1, <2>1, <2>2
      DEF TypeOK, Renewed, Front, OfficeGo, userVars, replyFifos, srvFifo
  <1>2. CASE Answered(o)
    BY <1>0, <1>2, FS_EmptySet
    DEF TypeOK, Renewed, Answered, OfficeGo, userVars, replyFifos, srvFifo
  <1>3. CASE Close(o)
    BY <1>0, <1>3
    DEF TypeOK, Renewed, Close, OfficeGo, userVars, replyFifos, srvFifo
  <1>4. CASE Answer(o)
    BY <1>0, <1>4, TypeAnswer
  <1>5. CASE Pop(o)
    <2>0. queue' = queue \/ (queue # <<>> /\ queue' = Tail(queue))
      BY <1>5 DEF Pop
    <2>1. queue' \in Seq(Users)
      <3>1. queue \in Seq(Users)
        BY DEF TypeOK
      <3>2. CASE queue # <<>> /\ queue' = Tail(queue)
        BY <3>1, <3>2
      <3> QED
        BY <2>0, <3>1, <3>2
    <2> QED
      BY <1>0, <1>5, <2>1, ZenonT(40) DEF TypeOK, Renewed, Pop, ServerKilled, userVars
  <1> QED
    BY <1>1, <1>2, <1>3, <1>4, <1>5 DEF OfficeStep

\* Every step keeps the types.
LEMMA TypeStep == TypeInv /\ [Next]_vars => TypeInv'
  <1> SUFFICES ASSUME TypeInv, [Next]_vars PROVE TypeInv'
    OBVIOUS
  <1>1. CASE UNCHANGED vars
    BY <1>1 DEF vars, userVars, serverVars, srvFifo, replyFifos, TypeInv, TypeOK,
                Renewed
  <1> QED
    BY <1>1, TypeUser, TypeMain, TypeOffice DEF Next

\* The processes and the FIFOs keep to their types; a thread answers at most
\* one user, and the request FIFO never holds more than fits into it.
THEOREM TypeCorrect == Spec => []TypeOK
  <1>1. TypeInv => TypeOK
    BY DEF TypeInv
  <1> QED
    BY <1>1, TypeInit, TypeStep, PTL DEF Spec

-----------------------------------------------------------------------------
(* Where the request of a user is: at most once in the FIFO, then at most  *)
(* once in the queue, then with one thread, then answered.  This needs the *)
(* offices to come to the queue one at a time.                             *)

Orderly == ~shutdown \/ \A o, p \in Offices : o = p

\* A thread has the request of u, which has left the queue.
Held(u) == \E h \in Handlers : u \in hfor[h] /\ hpc[h] # "pop"

Once ==
    /\ Distinct(buffer) /\ Distinct(queue)
    /\ sent \subseteq taken
    /\ \A u \in Users :
         /\ InSeq(u, buffer) => u \notin taken /\ upc[u] \notin {"start", "write"}
         /\ InSeq(u, queue) => u \in taken /\ u \notin sent /\ ~Held(u)
         /\ u \in taken => upc[u] \notin {"start", "write"}
    /\ \A g, h \in Handlers, u \in Users :
         u \in hfor[g] => u \in taken /\ (u \in hfor[h] => g = h)

\* No request is dropped once it was read, and no thread leaves one unanswered.
Kept ==
    mpc # "killed" =>
        /\ \A u \in taken : u \in sent \/ Held(u) \/ InSeq(u, queue)
        /\ \A h \in Handlers : hpc[h] = "written" => hfor[h] \subseteq sent
        /\ \A u \in Users : wr[u] # "none" \/ upc[u] = "read" => u \in sent \/ Held(u)

\* The order in which the server ends.
Ending ==
    /\ \A h \in Handlers : hpc[h] \in {"idle", "closed"} => hfor[h] = {}
    /\ mpc \notin {"reply", "killed"} => hpc[Main] = "idle"
    /\ shutdown => mpc \in {"reply", "join", "close", "remove", "exited", "killed"}
    /\ \A o \in Offices : hpc[o] = "closed" => shutdown /\ queue = <<>>
    /\ mpc \in {"close", "remove", "exited"} => \A o \in Offices : hpc[o] = "closed"

\* What a user opens exists, and it is cut off only when the server is killed.
Opens ==
    \A u \in Users :
        /\ upc[u] = "opening" => rd[u] # "none"
        /\ got[u] = "garbage" => mpc = "killed"

\* An office that has read the front of the queue is alone there, and pops just that.
Popping ==
    /\ hpc[Main] # "pop"
    /\ \A o \in Offices : hpc[o] = "pop" => queue # <<>> /\ hfor[o] = {Head(queue)}
    /\ \A o, p \in Offices : hpc[o] = "pop" /\ hpc[p] = "pop" => o = p

RequestInv == Once /\ Kept /\ Ending /\ Opens /\ Popping

\* At the start there is no request.
LEMMA RequestInit == Init => RequestInv
  <1> SUFFICES ASSUME Init PROVE RequestInv
    OBVIOUS
  <1>1. \A u : ~InSeq(u, <<>>)
    BY DEF InSeq
  <1>2. Distinct(<<>>)
    BY DEF Distinct
  <1>3. Once /\ Kept
    BY <1>1, <1>2 DEF Init, Once, Kept, Held
  <1>4. Ending
    BY DEF Init, Ending, Handlers
  <1>5. Opens /\ Popping
    BY DEF Init, Opens, Popping, Handlers
  <1> QED
    BY <1>3, <1>4, <1>5 DEF RequestInv

\* Steps of a user.  It writes its request once, opens what exists, and reads
\* only what a thread has opened for it.
LEMMA RequestUser ==
    ASSUME TypeInv, RequestInv, NEW u \in Users, UserStep(u) \/ Kill(u)
    PROVE  RequestInv'
  <1> USE DEF TypeInv, RequestInv
  <1>0. UNCHANGED <<mpc, hpc, hfor, queue, shutdown, taken, wr, sent>>
    BY DEF UserStep, ConnectServer, WriteRequest, AwaitReplyFifo, OpenReply,
           ReplyOpened, ReadReply, RemoveReply, Kill, UserGo, serverVars
  <1>1. \A v \in Users : upc'[v] \in {"start", "write"} => upc[v] \in {"start", "write"}
    BY DEF TypeOK, UserStep, ConnectServer, WriteRequest, AwaitReplyFifo, OpenReply,
           ReplyOpened, ReadReply, RemoveReply, Kill, UserGo
  <1>2. \A v \in Users : upc'[v] = "read" => upc[v] = "read" \/ wr[v] # "none"
    BY DEF TypeOK, Opens, UserStep, ConnectServer, WriteRequest, AwaitReplyFifo,
           OpenReply, ReplyOpened, ReadReply, RemoveReply, Kill, UserGo
  <1>3. \A v \in Users : upc'[v] = "opening" => rd'[v] # "none"
    BY DEF TypeOK, Opens, UserStep, ConnectServer, WriteRequest, AwaitReplyFifo,
           OpenReply, ReplyOpened, ReadReply, RemoveReply, Kill, UserGo
  <1>4. \/ buffer' = buffer
        \/ /\ buffer' = Append(buffer, u) /\ upc[u] = "write"
           /\ upc' = [upc EXCEPT ![u] = "await"]
    BY DEF UserStep, ConnectServer, WriteRequest, AwaitReplyFifo,
           OpenReply, ReplyOpened, ReadReply, RemoveReply, Kill, UserGo, srvFifo
  <1>5. \A v \in Users : got'[v] = "garbage" => mpc = "killed"
    <2>1. CASE ReadReply(u)
      <3>1. mpc = "exited" => ~Held(u)
        BY DEF Ending, Held, Handlers
      <3>2. mpc = "exited" => u \in sent
        BY <2>1, <3>1 DEF Kept, ReadReply, UserGo
      <3> QED
        BY <2>1, <3>2 DEF TypeOK, Opens, ReadReply, ServerGone
    <2>2. CASE UNCHANGED got
      BY <2>2 DEF Opens
    <2> QED
      BY <2>1, <2>2 DEF UserStep, ConnectServer, WriteRequest, AwaitReplyFifo,
             OpenReply, ReplyOpened, RemoveReply, Kill
  <1>6. Once'
    <2>1. CASE buffer' = buffer
      BY <1>0, <1>1, <2>1 DEF Once, Held
    <2>2. CASE /\ buffer' = Append(buffer, u) /\ upc[u] = "write"
               /\ upc' = [upc EXCEPT ![u] = "await"]
      <3>1. ~InSeq(u, buffer) /\ u \notin taken /\ upc'[u] = "await"
        BY <2>2 DEF Once, TypeOK
      <3>2. /\ \A y : InSeq(y, buffer') <=> InSeq(y, buffer) \/ y = u
            /\ Distinct(buffer')
        BY <2>2, <3>1, AppendFacts DEF Once, TypeOK
      <3> QED
        BY <1>0, <1>1, <3>1, <3>2 DEF Once, Held
    <2> QED
      BY <1>4, <2>1, <2>2
  <1>7. Kept' /\ Ending' /\ Opens' /\ Popping'
    BY <1>0, <1>2, <1>3, <1>5 DEF Kept, Ending, Opens, Popping, Held
  <1> QED
    BY <1>6, <1>7

\* A thread at work on its user: it writes the reply to that user and to nobody
\* else, or the server is killed.
LEMMA RequestAnswer ==
    ASSUME TypeInv, RequestInv, NEW h \in Handlers, Answer(h)
    PROVE  RequestInv'
  <1> USE DEF TypeInv, RequestInv
  <1> PICK u \in Users :
        \/ MakeFifo(h, u) \/ UnlinkFifo(h, u) \/ MakeFifoAgain(h, u)
        \/ OpenFifo(h, u) \/ FifoOpened(h, u) \/ WriteReply(h, u)
    BY DEF Answer
  <1>0. /\ UNCHANGED <<upc, got, hfor, queue, shutdown, taken, buffer, rd>>
        /\ u \in hfor[h]
    BY DEF MakeFifo, UnlinkFifo, MakeFifoAgain, OpenFifo, FifoOpened, WriteReply,
           HandlerGo, userVars
  <1>1. /\ hpc[h] \notin {"idle", "closed", "pop"}
        /\ hpc'[h] \notin {"idle", "closed", "pop"}
        /\ \A g \in Handlers : g # h => hpc'[g] = hpc[g]
    BY DEF TypeOK, MakeFifo, UnlinkFifo, MakeFifoAgain, OpenFifo, FifoOpened,
           WriteReply, HandlerGo
  <1>2. mpc' = mpc \/ mpc' = "killed"
    BY DEF MakeFifo, UnlinkFifo, MakeFifoAgain, OpenFifo, FifoOpened, WriteReply,
           ServerKilled
  <1>3. /\ sent' = sent \/ sent' = sent \cup {u}
        /\ hpc'[h] = "written" => u \in sent' \/ mpc' = "killed"
    BY DEF TypeOK, MakeFifo, UnlinkFifo, MakeFifoAgain, OpenFifo, FifoOpened,
           WriteReply, ServerKilled, HandlerGo
  <1>4. \A v \in Users : wr'[v] # "none" => wr[v] # "none" \/ v = u
    BY DEF TypeOK, MakeFifo, UnlinkFifo, MakeFifoAgain, OpenFifo, FifoOpened,
           WriteReply, ServerKilled, HandlerGo
  <1>5. mpc = "killed" => FALSE
    BY DEF MakeFifo, UnlinkFifo, MakeFifoAgain, OpenFifo, FifoOpened, WriteReply,
           HandlerGo, ServerGone
  <1>6. /\ \A v : Held(v)' <=> Held(v)
        /\ Held(u)
    BY <1>0, <1>1 DEF Held
  <1>7. Once'
    BY <1>0, <1>3, <1>6 DEF Once
  <1>8. Kept'
    <2>1. \A g \in Handlers : hpc'[g] = "written" /\ mpc' # "killed" => hfor[g] \subseteq sent'
      BY <1>0, <1>1, <1>3, <1>5, Sole DEF Kept
    <2> QED
      BY <1>0, <1>3, <1>4, <1>5, <1>6, <2>1 DEF Kept
  <1>9. Ending'
    BY <1>0, <1>1, <1>2, <1>5 DEF Ending, Handlers
  <1>10. Opens' /\ Popping'
    BY <1>0, <1>1, <1>2, <1>5 DEF Opens, Popping, Handlers
  <1> QED
    BY <1>7, <1>8, <1>9, <1>10

\* The main thread reads a request, answers a SHUTDOWN itself, and ends after
\* the offices.
LEMMA RequestMain ==
    ASSUME TypeInv, RequestInv, MainStep
    PROVE  RequestInv'
  <1> USE DEF TypeInv, RequestInv
  <1>0. Main \in Handlers
    BY DEF Handlers
  <1>1. CASE MakeRequestFifo \/ UnlinkRequestFifo \/ OpenRequestFifo \/ Join
             \/ CloseRequestFifo \/ RemoveRequestFifo
    <2>1. UNCHANGED <<upc, got, rd, wr, sent, hpc, hfor, queue, shutdown, taken, buffer>>
      BY <1>1 DEF MakeRequestFifo, UnlinkRequestFifo, OpenRequestFifo, Join, MainGo,
             CloseRequestFifo, RemoveRequestFifo, userVars, replyFifos, srvFifo
    <2>2. mpc # "killed" /\ mpc' # "killed"
      BY <1>1 DEF MakeRequestFifo, UnlinkRequestFifo, OpenRequestFifo, Join, MainGo,
             CloseRequestFifo, RemoveRequestFifo
    <2>3. Ending'
      BY <1>1, <2>1 DEF Ending, MakeRequestFifo, UnlinkRequestFifo, OpenRequestFifo,
             Join, MainGo, CloseRequestFifo, RemoveRequestFifo
    <2> QED
      BY <2>1, <2>2, <2>3 DEF Once, Kept, Opens, Popping, Held
  <1>2. CASE ReadRequest
    <2> DEFINE u == Head(buffer)
               own == u \in Admins \cup Refused
    <2>1. /\ u \in Users /\ InSeq(u, buffer) /\ Distinct(buffer')
          /\ ~InSeq(u, buffer')
          /\ \A y : InSeq(y, buffer') => InSeq(y, buffer)
      BY <1>2, TailFacts DEF TypeOK, ReadRequest, Once
    <2>2. /\ mpc = "read" /\ mpc' = IF own THEN "reply" ELSE "read"
          /\ UNCHANGED <<upc, got, rd, wr, sent>>
          /\ taken' = taken \cup {u}
          /\ queue' = IF own THEN queue ELSE Append(queue, u)
          /\ hpc' = IF own THEN [hpc EXCEPT ![Main] = "mkfifo"] ELSE hpc
          /\ hfor' = IF own THEN [hfor EXCEPT ![Main] = {u}] ELSE hfor
      BY <1>2 DEF ReadRequest, MainGo, userVars, replyFifos
    <2>3. shutdown' => own
      BY <1>2 DEF ReadRequest, Ending, MainGo
    <2> HIDE DEF u, own
    <2>4. u \notin taken /\ upc[u] \notin {"start", "write"} /\ ~InSeq(u, queue)
      BY <2>1 DEF Once
    <2>5. /\ ~Held(u) /\ u \notin sent
          /\ hfor[Main] = {} /\ hpc[Main] = "idle" /\ ~shutdown
      BY <1>0, <2>1, <2>2, <2>4 DEF Once, Held, Ending
    <2>6. /\ Distinct(queue')
          /\ \A y : InSeq(y, queue') <=> InSeq(y, queue) \/ (~own /\ y = u)
      BY <2>1, <2>2, <2>4, AppendFacts DEF Once, TypeOK
    <2>7. \A g \in Handlers :
            /\ hfor'[g] = IF own /\ g = Main THEN {u} ELSE hfor[g]
            /\ hpc'[g] = IF own /\ g = Main THEN "mkfifo" ELSE hpc[g]
      BY <1>0, <2>2 DEF TypeOK
    <2>8. \A y : Held(y)' <=> Held(y) \/ (own /\ y = u)
      BY <1>0, <2>5, <2>7 DEF Held
    <2>9. Once'
      <3>1. \A v \in Users :
              /\ InSeq(v, buffer') => v \notin taken' /\ upc'[v] \notin {"start", "write"}
              /\ InSeq(v, queue') => v \in taken' /\ v \notin sent' /\ ~Held(v)'
              /\ v \in taken' => upc'[v] \notin {"start", "write"}
        BY <2>1, <2>2, <2>4, <2>5, <2>6, <2>8 DEF Once
      <3>2. \A f, g \in Handlers, v \in Users :
              v \in hfor'[f] => v \in taken' /\ (v \in hfor'[g] => f = g)
        BY <2>2, <2>4, <2>5, <2>7 DEF Once, Held
      <3>3. sent' \subseteq taken'
        BY <2>2 DEF Once
      <3> QED
        BY <2>1, <2>6, <3>1, <3>2, <3>3 DEF Once
    <2>10. Kept'
      <3>1. \A v \in taken' : v \in sent' \/ Held(v)' \/ InSeq(v, queue')
        BY <2>2, <2>6, <2>8 DEF Kept
      <3>2. \A g \in Handlers : hpc'[g] = "written" => hfor'[g] \subseteq sent'
        BY <2>2, <2>7 DEF Kept
      <3>3. \A v \in Users : wr'[v] # "none" \/ upc'[v] = "read" => v \in sent' \/ Held(v)'
        BY <2>2, <2>8 DEF Kept
      <3> QED
        BY <3>1, <3>2, <3>3 DEF Kept
    <2>11. Ending'
      <3>1. \A o \in Offices : hpc'[o] # "closed"
        BY <2>5, <2>7 DEF Ending, Handlers
      <3> QED
        BY <1>0, <2>2, <2>3, <2>5, <2>7, <3>1 DEF Ending
    <2>12. Opens'
      BY <2>2 DEF Opens
    <2>13. Popping'
      <3>1. queue # <<>> => queue' # <<>> /\ Head(queue') = Head(queue)
        BY <2>1, <2>2, AppendFacts DEF TypeOK
      <3>2. \A o \in Offices : o \in Handlers /\ o # Main
        BY ChannelsAssumption DEF Handlers
      <3> QED
        BY <1>0, <2>7, <3>1, <3>2 DEF Popping
    <2> QED
      BY <2>9, <2>10, <2>11, <2>12, <2>13
  <1>3. CASE MainAnswered
    <2>1. /\ mpc = "reply" /\ mpc' = IF shutdown THEN "join" ELSE "read"
          /\ hpc[Main] = "written"
          /\ UNCHANGED <<upc, got, rd, wr, sent, queue, shutdown, taken, buffer>>
          /\ \A g \in Handlers :
               /\ hfor'[g] = IF g = Main THEN {} ELSE hfor[g]
               /\ hpc'[g] = IF g = Main THEN "idle" ELSE hpc[g]
      BY <1>0, <1>3 DEF TypeOK, MainAnswered, MainGo, userVars, replyFifos, srvFifo
    <2>2. hfor[Main] \subseteq sent
      BY <1>0, <2>1 DEF Kept
    <2>3. \A y : (Held(y)' => Held(y)) /\ (Held(y) => Held(y)' \/ y \in sent)
      BY <2>1, <2>2 DEF Held
    <2>4. Once'
      BY <2>1, <2>3 DEF Once
    <2>5. Kept'
      BY <2>1, <2>3 DEF Kept
    <2>6. Ending'
      BY <1>0, <2>1, ChannelsAssumption DEF Ending, Handlers
    <2>7. Opens' /\ Popping'
      BY <1>0, <2>1, ChannelsAssumption DEF Opens, Popping, Handlers
    <2> QED
      BY <2>4, <2>5, <2>6, <2>7
  <1>4. CASE Answer(Main)
    BY <1>0, <1>4, RequestAnswer
  <1> QED
    BY <1>1, <1>2, <1>3, <1>4 DEF MainStep

\* An office takes the first request of the queue, lets go of an answered user,
\* and closes when the queue is empty after a shutdown.
LEMMA RequestOffice ==
    ASSUME TypeInv, RequestInv, Orderly, NEW o \in Offices, OfficeStep(o)
    PROVE  RequestInv'
  <1> USE DEF TypeInv, RequestInv
  <1>0. o \in Handlers /\ o # Main
    BY ChannelsAssumption DEF Handlers
  <1>1. CASE Front(o)
    <2> DEFINE u == Head(queue)
    <2>1. u \in Users /\ InSeq(u, queue)
      BY <1>1, TailFacts DEF TypeOK, Front
    <2>2. /\ hpc[o] = "idle" /\ queue # <<>>
          /\ UNCHANGED <<upc, got, mpc, rd, wr, sent, shutdown, taken, buffer, queue>>
          /\ \A g \in Handlers :
               /\ hfor'[g] = IF g = o THEN {u} ELSE hfor[g]
               /\ hpc'[g] = IF g = o THEN "pop" ELSE hpc[g]
      BY <1>0, <1>1 DEF TypeOK, Front, OfficeGo, userVars, replyFifos, srvFifo
    <2>3. \A g \in Handlers : hpc[g] # "pop"
      BY <1>1, <2>2 DEF Front, Orderly, Popping, Handlers
    <2>4. Head(queue') = u
      BY <2>2
    <2> HIDE DEF u
    <2>5. hfor[o] = {} /\ u \in taken /\ u \notin sent /\ ~Held(u)
      BY <1>0, <2>1, <2>2 DEF Ending, Once
    <2>6. \A y : Held(y)' <=> Held(y)
      BY <1>0, <2>2, <2>5 DEF Held
    <2>7. Once'
      <3>1. \A f, g \in Handlers, v \in Users :
              v \in hfor'[f] => v \in taken' /\ (v \in hfor'[g] => f = g)
        BY <2>2, <2>3, <2>5 DEF Once, Held
      <3> QED
        BY <2>2, <2>6, <3>1 DEF Once
    <2>8. Kept'
      BY <2>2, <2>6 DEF Kept
    <2>9. Ending'
      <3>1. \A p \in Offices : hpc[p] # "closed"
        BY <2>2 DEF Ending
      <3> QED
        BY <1>0, <2>2, <3>1 DEF Ending, Handlers
    <2>10. Opens' /\ Popping'
      BY <1>0, <2>2, <2>3, <2>4 DEF Opens, Popping, Handlers
    <2> QED
      BY <2>7, <2>8, <2>9, <2>10
  <1>5. CASE Pop(o)
    <2> DEFINE u == Head(queue)
    <2>0. hpc[o] = "pop" /\ queue # <<>> /\ hfor[o] = {u}
      BY <1>5 DEF Pop, Popping
    <2>9. queue' = Tail(queue)
      BY <1>5, <2>0 DEF Pop
    <2>1. /\ u \in Users /\ InSeq(u, queue) /\ Distinct(queue') /\ ~InSeq(u, queue')
          /\ \A y : InSeq(y, queue') => InSeq(y, queue)
          /\ \A y : InSeq(y, queue) => InSeq(y, queue') \/ y = u
      BY <2>0, <2>9, TailFacts DEF TypeOK, Once
    <2>2. /\ UNCHANGED <<upc, got, mpc, rd, wr, sent, shutdown, taken, buffer, hfor>>
          /\ \A g \in Handlers : hpc'[g] = IF g = o THEN "mkfifo" ELSE hpc[g]
      BY <1>0, <1>5, <2>0 DEF TypeOK, Pop, userVars
    <2> HIDE DEF u
    <2>3. u \in taken /\ u \notin sent /\ ~Held(u)
      BY <2>1 DEF Once
    <2>4. \A y : Held(y)' <=> Held(y) \/ y = u
      BY <1>0, <2>0, <2>2 DEF Held
    <2>5. Once'
      BY <2>1, <2>2, <2>4 DEF Once
    <2>6. Kept'
      BY <2>1, <2>2, <2>4 DEF Kept
    <2>7. Ending'
      <3>1. \A p \in Offices : hpc[p] # "closed"
        BY <2>0 DEF Ending
      <3> QED
        BY <1>0, <2>0, <2>2, <3>1 DEF Ending, Handlers
    <2>8. Opens' /\ Popping'
      BY <1>0, <2>0, <2>2 DEF Opens, Popping, Handlers
    <2> QED
      BY <2>5, <2>6, <2>7, <2>8
  <1>2. CASE Answered(o)
    <2>1. /\ mpc # "killed" /\ hpc[o] = "written"
          /\ UNCHANGED <<upc, got, mpc, rd, wr, sent, queue, shutdown, taken, buffer>>
          /\ \A g \in Handlers :
               /\ hfor'[g] = IF g = o THEN {} ELSE hfor[g]
               /\ hpc'[g] = IF g = o THEN "idle" ELSE hpc[g]
      BY <1>0, <1>2 DEF TypeOK, Answered, OfficeGo, ServerGone, userVars, replyFifos,
                        srvFifo
    <2>2. hfor[o] \subseteq sent
      BY <1>0, <2>1 DEF Kept
    <2>3. \A y : (Held(y)' => Held(y)) /\ (Held(y) => Held(y)' \/ y \in sent)
      BY <2>1, <2>2 DEF Held
    <2>4. Once'
      BY <2>1, <2>3 DEF Once
    <2>5. Kept'
      BY <2>1, <2>3 DEF Kept
    <2>6. Ending'
      BY <1>0, <2>1 DEF Ending, Handlers
    <2>7. Opens' /\ Popping'
      BY <1>0, <2>1 DEF Opens, Popping, Handlers
    <2> QED
      BY <2>4, <2>5, <2>6, <2>7
  <1>3. CASE Close(o)
    <2>1. /\ hpc[o] = "idle" /\ queue = <<>> /\ shutdown
          /\ UNCHANGED <<upc, got, mpc, rd, wr, sent, queue, shutdown, taken, buffer, hfor>>
          /\ \A g \in Handlers : hpc'[g] = IF g = o THEN "closed" ELSE hpc[g]
      BY <1>0, <1>3 DEF TypeOK, Close, OfficeGo, userVars, replyFifos, srvFifo
    <2>2. \A y : Held(y)' <=> Held(y)
      BY <1>0, <2>1 DEF Held, Ending
    <2>3. Once' /\ Opens' /\ Popping'
      BY <1>0, <2>1, <2>2 DEF Once, Opens, Popping, Handlers
    <2>4. Kept'
      BY <2>1, <2>2 DEF Kept
    <2>5. Ending'
      BY <1>0, <2>1 DEF Ending, Handlers
    <2> QED
      BY <2>3, <2>4, <2>5
  <1>4. CASE Answer(o)
    BY <1>0, <1>4, RequestAnswer
  <1> QED
    BY <1>1, <1>2, <1>3, <1>4, <1>5 DEF OfficeStep

\* The flag is never taken back.
LEMMA OrderlyBefore == [Next]_vars /\ Orderly' => Orderly
  <1> SUFFICES ASSUME [Next]_vars, shutdown PROVE shutdown'
    BY DEF Orderly
  <1>1. CASE UNCHANGED vars
    BY <1>1 DEF vars, serverVars
  <1>2. CASE MainStep
    BY <1>2 DEF MainStep, Answer, MakeRequestFifo, UnlinkRequestFifo, OpenRequestFifo,
           ReadRequest, MainAnswered, Join, CloseRequestFifo, RemoveRequestFifo,
           MakeFifo, UnlinkFifo, MakeFifoAgain, OpenFifo, FifoOpened, WriteReply,
           HandlerGo
  <1>3. CASE \E o \in Offices : OfficeStep(o)
    BY <1>3 DEF OfficeStep, Front, Pop, Answered, Close, OfficeGo, Answer, MakeFifo,
           UnlinkFifo, MakeFifoAgain, OpenFifo, FifoOpened, WriteReply, HandlerGo
  <1>4. CASE \E u \in Users : UserStep(u) \/ Kill(u)
    BY <1>4 DEF UserStep, ConnectServer, WriteRequest, AwaitReplyFifo, OpenReply,
           ReplyOpened, ReadReply, RemoveReply, Kill, UserGo, serverVars
  <1> QED
    BY <1>1, <1>2, <1>3, <1>4 DEF Next

\* Every step keeps track of the requests, as long as the offices are orderly.
TrackInv == Orderly => RequestInv

LEMMA RequestStep == TypeInv /\ TrackInv /\ [Next]_vars => TrackInv'
  <1> SUFFICES ASSUME TypeInv, RequestInv, Orderly, [Next]_vars PROVE RequestInv'
    BY OrderlyBefore DEF TrackInv
  <1>1. CASE UNCHANGED vars
    BY <1>1 DEF vars, userVars, serverVars, srvFifo, replyFifos, RequestInv, Once,
                Kept, Ending, Opens, Popping, Held
  <1> QED
    BY <1>1, RequestUser, RequestMain, RequestOffice DEF Next

\* A server with one office that has ended has answered every user whose request it
\* had read, whoever dies and whatever FIFOs were left behind.  (Two offices may
\* lose a request after the shutdown, and with none the queue is never emptied.)
THEOREM EndsAfterAnswers ==
    ASSUME NEW o, Offices = {o}
    PROVE  Spec => []ExitAnswered
  <1>1. TypeInv /\ TrackInv => ExitAnswered
    <2> SUFFICES ASSUME TypeInv, RequestInv, mpc = "exited" PROVE taken \subseteq sent
      BY DEF ExitAnswered, TrackInv, Orderly
    <2> USE DEF RequestInv
    <2>1. \A u : ~Held(u)
      BY DEF Ending, Held, Handlers
    <2>2. queue = <<>>
      BY DEF Ending
    <2>3. \A u : ~InSeq(u, queue)
      BY <2>2 DEF InSeq
    <2> QED
      BY <2>1, <2>3 DEF Kept
  <1>2. Init => TrackInv
    BY RequestInit DEF TrackInv
  <1> QED
    BY <1>1, <1>2, TypeInit, TypeStep, RequestStep, PTL DEF Spec

-----------------------------------------------------------------------------
(* What a user finds at the path of its reply FIFO.                        *)

\* Without an old FIFO in the way, a user finds one only when it is there to stay.
Fresh(u) ==
    /\ u \notin taken \/ InSeq(u, queue) => path[u] = "none"
    /\ \A h \in Handlers : u \in hfor[h] =>
         hpc[h] \notin {"unlink", "again"} /\ (hpc[h] = "mkfifo" => path[u] = "none")
    /\ upc[u] = "open" => path[u] # "none"
    /\ upc[u] = "failed" => u \notin taken /\ ~InSeq(u, buffer)

FreshInv == Orderly => \A u \in Users \ Leftover : Fresh(u)

\* A user whose path was free at the start has no FIFO until a thread that has its
\* request makes one, and that one stays until the user removes it.
LEMMA FreshStep == TypeInv /\ TrackInv /\ FreshInv /\ [Next]_vars => FreshInv'
  <1> SUFFICES ASSUME TypeInv, RequestInv, Orderly, FreshInv, [Next]_vars,
                      NEW w \in Users \ Leftover
               PROVE  Fresh(w)'
    BY OrderlyBefore DEF FreshInv, TrackInv
  <1> USE DEF TypeInv, RequestInv
  <1>0. Fresh(w) /\ w \in Users
    BY DEF FreshInv
  <1>1. ASSUME NEW u \in Users, UserStep(u) \/ Kill(u) PROVE Fresh(w)'
    <2>0. UNCHANGED <<hpc, hfor, queue, taken>>
      BY <1>1 DEF UserStep, ConnectServer, WriteRequest, AwaitReplyFifo, OpenReply,
             ReplyOpened, ReadReply, RemoveReply, Kill, UserGo, serverVars
    <2>1. CASE RemoveReply(u)
      BY <1>0, <2>0, <2>1 DEF TypeOK, Fresh, RemoveReply, UserGo
    <2>2. CASE WriteRequest(u)
      <3>1. \A y : InSeq(y, buffer') => InSeq(y, buffer) \/ y = u
        BY <2>2, AppendFacts DEF TypeOK, WriteRequest
      <3> QED
        BY <1>0, <2>0, <2>2, <3>1 DEF TypeOK, Fresh, WriteRequest, UserGo
    <2>3. CASE ConnectServer(u)
      <3>1. upc[u] = "start" => u \notin taken /\ ~InSeq(u, buffer)
        BY DEF Once
      <3> QED
        BY <1>0, <2>0, <2>3, <3>1 DEF TypeOK, Fresh, ConnectServer, UserGo
    <2>4. CASE AwaitReplyFifo(u) \/ ReplyOpened(u) \/ ReadReply(u) \/ Kill(u)
      BY <1>0, <2>0, <2>4 DEF TypeOK, Fresh, AwaitReplyFifo, ReplyOpened, ReadReply,
                             Kill, UserGo, srvFifo
    <2>5. CASE OpenReply(u)
      BY <1>0, <2>0, <2>5 DEF TypeOK, Fresh, OpenReply, UserGo
    <2> QED
      BY <1>1, <2>1, <2>2, <2>3, <2>4, <2>5 DEF UserStep
  <1>2. ASSUME NEW h \in Handlers, Answer(h) PROVE Fresh(w)'
    <2> PICK u \in Users :
          \/ MakeFifo(h, u) \/ UnlinkFifo(h, u) \/ MakeFifoAgain(h, u)
          \/ OpenFifo(h, u) \/ FifoOpened(h, u) \/ WriteReply(h, u)
      BY <1>2 DEF Answer
    <2>0. /\ UNCHANGED <<upc, hfor, queue, taken, buffer>>
          /\ u \in hfor[h] /\ hpc[h] # "pop"
      BY DEF MakeFifo, UnlinkFifo, MakeFifoAgain, OpenFifo, FifoOpened, WriteReply,
             HandlerGo, userVars
    <2>1. CASE u = w
      <3>1. w \in taken /\ ~InSeq(w, queue)
        BY <1>0, <2>0, <2>1 DEF Once, Held
      <3>2. \A g \in Handlers : w \in hfor[g] => g = h
        BY <1>0, <2>0, <2>1 DEF Once
      <3>3. /\ hpc'[h] \notin {"mkfifo", "unlink", "again"}
            /\ path'[w] # "none" \/ path'[w] = path[w]
        BY <1>0, <2>0, <2>1
        DEF TypeOK, Fresh, MakeFifo, UnlinkFifo, MakeFifoAgain, OpenFifo, FifoOpened,
            WriteReply, HandlerGo
      <3> QED
        BY <1>0, <2>0, <3>1, <3>2, <3>3 DEF Fresh
    <2>2. CASE u # w
      <3>1. path'[w] = path[w] /\ \A g \in Handlers : g # h => hpc'[g] = hpc[g]
        BY <1>0, <2>2
        DEF TypeOK, MakeFifo, UnlinkFifo, MakeFifoAgain, OpenFifo, FifoOpened,
            WriteReply, HandlerGo
      <3>2. w \notin hfor[h]
        BY <2>0, <2>2, Sole
      <3> QED
        BY <1>0, <2>0, <3>1, <3>2 DEF Fresh
    <2> QED
      BY <2>1, <2>2
  <1>3. CASE MainStep
    <2>1. CASE Answer(Main)
      BY <1>2, <2>1 DEF Handlers
    <2>2. CASE ReadRequest
      <3> DEFINE u == Head(buffer)
                 own == u \in Admins \cup Refused
      <3>1. /\ u \in Users /\ InSeq(u, buffer)
            /\ \A y : InSeq(y, buffer') => InSeq(y, buffer)
        BY <2>2, TailFacts DEF TypeOK, ReadRequest
      <3>2. /\ UNCHANGED <<upc, path>>
            /\ taken' = taken \cup {u}
            /\ queue' = IF own THEN queue ELSE Append(queue, u)
            /\ hpc' = IF own THEN [hpc EXCEPT ![Main] = "mkfifo"] ELSE hpc
            /\ hfor' = IF own THEN [hfor EXCEPT ![Main] = {u}] ELSE hfor
        BY <2>2 DEF ReadRequest, MainGo, userVars, replyFifos
      <3> HIDE DEF u, own
      <3>3. u \notin taken
        BY <3>1 DEF Once
      <3>4. \A y : InSeq(y, queue') => InSeq(y, queue) \/ y = u
        BY <3>1, <3>2, AppendFacts DEF TypeOK
      <3>5. \A g \in Handlers :
              /\ hfor'[g] = IF own /\ g = Main THEN {u} ELSE hfor[g]
              /\ hpc'[g] = IF own /\ g = Main THEN "mkfifo" ELSE hpc[g]
        BY <3>2 DEF TypeOK
      <3> QED
        BY <1>0, <3>1, <3>2, <3>3, <3>4, <3>5 DEF Fresh
    <2>3. CASE MainAnswered
      BY <1>0, <2>3 DEF TypeOK, Fresh, MainAnswered, MainGo, userVars, replyFifos,
                        srvFifo
    <2>4. CASE MakeRequestFifo \/ UnlinkRequestFifo \/ OpenRequestFifo \/ Join
               \/ CloseRequestFifo \/ RemoveRequestFifo
      BY <1>0, <2>4
      DEF Fresh, MakeRequestFifo, UnlinkRequestFifo, OpenRequestFifo, Join, MainGo,
          CloseRequestFifo, RemoveRequestFifo, userVars, replyFifos, srvFifo
    <2> QED
      BY <1>3, <2>1, <2>2, <2>3, <2>4 DEF MainStep
  <1>4. ASSUME NEW o \in Offices, OfficeStep(o) PROVE Fresh(w)'
    <2>0. o \in Handlers
      BY DEF Handlers
    <2>1. CASE Front(o)
      <3>1. /\ UNCHANGED <<upc, taken, buffer, path, queue>>
            /\ InSeq(Head(queue), queue)
            /\ \A g \in Handlers :
                 /\ hfor'[g] = IF g = o THEN {Head(queue)} ELSE hfor[g]
                 /\ hpc'[g] = IF g = o THEN "pop" ELSE hpc[g]
        BY <2>0, <2>1, TailFacts DEF TypeOK, Front, OfficeGo, userVars, replyFifos, srvFifo
      <3> QED
        BY <1>0, <3>1 DEF Fresh
    <2>4. CASE Pop(o)
      <3>0. hpc[o] = "pop" /\ queue # <<>> /\ hfor[o] = {Head(queue)}
        BY <2>4 DEF Pop, Popping
      <3>3. queue' = Tail(queue)
        BY <2>4, <3>0 DEF Pop
      <3>1. /\ InSeq(Head(queue), queue)
            /\ \A y : InSeq(y, queue') => InSeq(y, queue)
        BY <3>0, <3>3, TailFacts DEF TypeOK
      <3>2. /\ UNCHANGED <<upc, taken, buffer, path, hfor>>
            /\ \A g \in Handlers : hpc'[g] = IF g = o THEN "mkfifo" ELSE hpc[g]
        BY <2>0, <2>4 DEF TypeOK, Pop, userVars
      <3> QED
        BY <1>0, <3>0, <3>1, <3>2 DEF Fresh
    <2>2. CASE Answered(o) \/ Close(o)
      BY <1>0, <2>0, <2>2 DEF TypeOK, Fresh, Answered, Close, OfficeGo, userVars,
                              replyFifos, srvFifo
    <2>3. CASE Answer(o)
      BY <1>2, <2>0, <2>3
    <2> QED
      BY <1>4, <2>1, <2>2, <2>3, <2>4 DEF OfficeStep
  <1>5. CASE UNCHANGED vars
    BY <1>0, <1>5 DEF vars, userVars, serverVars, srvFifo, replyFifos, Fresh
  <1> QED
    BY <1>1, <1>3, <1>4, <1>5 DEF Next

\* As long as the offices are orderly, what a user reads is its reply.
LEMMA OrderlyReplies == Spec => [](Orderly => OwnReply)
  <1>1. Init => FreshInv
    <2> SUFFICES ASSUME Init, NEW u \in Users \ Leftover PROVE Fresh(u)
      BY DEF FreshInv
    <2>1. ~InSeq(u, <<>>)
      BY DEF InSeq
    <2> QED
      BY <2>1 DEF Init, Fresh
  <1>2. Init => TrackInv
    BY RequestInit DEF TrackInv
  <1>3. TrackInv /\ FreshInv => (Orderly => OwnReply)
    BY DEF TrackInv, RequestInv, Opens, FreshInv, Fresh, OwnReply
  <1> QED
    BY <1>1, <1>2, <1>3, TypeInit, TypeStep, RequestStep, FreshStep, PTL DEF Spec

\* Until the shutdown, and with one office also after it, what a user reads is its
\* reply unless the server was killed, whoever dies and whatever FIFOs were left
\* behind; and a user whose request was read never finds that the FIFO it saw is
\* gone, unless that FIFO was left by an earlier process.
THEOREM RepliesAreOwn ==
    /\ Spec => [](shutdown \/ OwnReply)
    /\ (\E o : Offices = {o}) => (Spec => []OwnReply)
  <1>1. Spec => [](shutdown \/ OwnReply)
    <2>1. (Orderly => OwnReply) => shutdown \/ OwnReply
      BY DEF Orderly
    <2> QED
      BY <2>1, OrderlyReplies, PTL
  <1>2. ASSUME NEW o, Offices = {o} PROVE Spec => []OwnReply
    <2>1. (Orderly => OwnReply) => OwnReply
      BY <1>2 DEF Orderly
    <2> QED
      BY <2>1, OrderlyReplies, PTL
  <1> QED
    BY <1>1, <1>2

=============================================================================
