------------------------ MODULE PeerConnectionProofs ------------------------
(***************************************************************************)
(* Proofs about PeerConnection, for every bound.  The argument is about    *)
(* the order of the network thread's tasks: what is posted before what,    *)
(* and what can no longer be posted once the destructor has invoked the    *)
(* thread.  The queue is a sequence of unbounded length, so each part of   *)
(* the invariant speaks of all positions.                                  *)
(***************************************************************************)
EXTENDS PeerConnection, SequenceTheorems, TLAPS

-----------------------------------------------------------------------------
(* Types *)

PlainTasks ==
    {"createNetwork", "createController", "createTransport", "candidate", "gather",
     "createSend", "resetController", "sendRtp"}

Tasks ==
    [kind : PlainTasks] \cup [kind : {"local"}, mid : {"audio", "video"}]
        \cup [kind : {"remote"}, ice : Nat, desc : Nat]

FlagTypes ==
    /\ orderly \in BOOLEAN /\ network \in BOOLEAN /\ iceState \in BOOLEAN
    /\ controller \in {"null", "alive", "freed"}
    /\ app \in {"idle", "remote", "remoteCreated", "destroy", "destroyed", "gone"}

CountTypes ==
    /\ owned \in Nat /\ ices \in Nat /\ send \in Nat /\ paced \in Nat
    /\ rtcp \in Nat /\ inRtcp \in Nat /\ offers \in Nat

TypeOK ==
    /\ FlagTypes /\ CountTypes
    /\ queue \in Seq(Tasks)
    /\ ice \in Seq(SUBSET Steps)
    /\ desc \in [id : Nat, good : BOOLEAN]

-----------------------------------------------------------------------------
(* The inductive invariant *)

\* The context's parts are created before the controller that uses them.
ConstructorOrder ==
    \A i \in DOMAIN queue :
        /\ queue[i].kind = "createNetwork" => i = 1 /\ controller = "null"
        /\ queue[i].kind = "createController" => 
             /\ controller = "null" 
             /\ \/ i = 1 /\ network 
                \/ i = 2 /\ queue[1].kind = "createNetwork"

\* Once the destructor has invoked the network thread only the pacer posts.
DestructorOrder ==
    /\ \A i \in DOMAIN queue : queue[i].kind = "resetController" =>
           /\ app = "destroy"
           /\ \A j \in DOMAIN queue : j > i => queue[j].kind = "sendRtp"
    /\ app = "destroyed" => \A i \in DOMAIN queue : queue[i].kind = "sendRtp"
    /\ controller = "freed" <=> app = "destroyed"
    /\ app = "destroyed" => owned = 0

\* set_remote_sdp waits for the transport it has asked for, and the collection
\* owns the last one that was made.
TransportOrder ==
    /\ \A i \in DOMAIN queue : queue[i].kind = "createTransport" =>
           /\ app = "remote"
           /\ \A j \in DOMAIN queue : j # i => queue[j].kind # "createTransport"
    /\ owned = Len(ice) \/ app = "destroyed"

\* The send side is posted before the task that makes the transport gather, and
\* only a transport that has gathered calls back.
SendOrder ==
    /\ \A i \in DOMAIN queue : queue[i].kind = "gather" =>
           send # 0 \/ \E j \in 1 .. i - 1 : queue[j].kind = "createSend"
    /\ \A k \in DOMAIN ice : "gather" \in ice[k] => send # 0
    /\ rtcp # 0 \/ inRtcp # 0 => send # 0

\* In orderly use there is one description and one transport, made for it ...
OrderlyState ==
    /\ desc.id <= 1 /\ desc.good
    /\ desc.id = 0 => app \notin {"remote", "remoteCreated"} /\ owned = 0
    /\ app = "remote" => owned = 0
    /\ app = "remoteCreated" => owned # 0 /\ ices = 0
    /\ ices # 0 => ices = owned \/ app = "destroyed"
    /\ offers = 0 => send = 0

\* ... and the tasks find what they were posted for.
OrderlyTasks ==
    \A i \in DOMAIN queue :
        /\ queue[i].kind = "remote" => /\ queue[i].desc = desc.id /\ desc.id # 0
                                       /\ queue[i].ice = owned /\ owned # 0
        /\ queue[i].kind = "local" => queue[i].mid = "audio" /\ ices # 0
        /\ queue[i].kind = "createSend" =>
               /\ send = 0 /\ offers # 0
               /\ \A j \in DOMAIN queue : j # i => queue[j].kind # "createSend"

OrderlyOrder == OrderlyState /\ OrderlyTasks

\* The tasks of a connection that is still there.
TaskOrder ==
    /\ ConstructorOrder /\ DestructorOrder /\ TransportOrder /\ SendOrder
    /\ orderly => OrderlyOrder

Safe == CallbacksFindTheirObjects /\ FreedControllerIsQuiet /\ OrderlyUseIsSafe

\* The inductive invariant.  Nothing runs after a fault or in a connection that
\* is gone, so the order matters only before.
IInv == Safe /\ (fault = "none" /\ app # "gone" => TaskOrder)

-----------------------------------------------------------------------------
\* The positions of a queue without its first task.
LEMMA TailOfQueue ==
    ASSUME NEW q \in Seq(Tasks), q # <<>>
    PROVE  /\ Tail(q) \in Seq(Tasks)
           /\ 1 \in DOMAIN q /\ Head(q) = q[1] /\ Head(q) \in Tasks
           /\ \A i \in DOMAIN Tail(q) : i \in Nat \ {0} /\ i + 1 \in DOMAIN q /\ Tail(q)[i] = q[i + 1]
           /\ \A i \in DOMAIN q : i \in Nat \ {0} /\ (i # 1 => i - 1 \in DOMAIN Tail(q))
  OBVIOUS

\* A step of the network thread takes one task off the queue.
LEMMA NetworkTaskIsQueued ==
    ASSUME NetworkTask
    PROVE  queue # <<>> /\ queue' = Tail(queue)
  BY DEF NetworkTask, CreateNetwork, CreateController, CreateTransport, RemoteTask,
     VisitTask, LocalTask, CreateSend, ResetController, SendRtp, IsNext

\* The positions of a queue with one more task.
LEMMA PostedTask ==
    ASSUME NEW q \in Seq(Tasks), NEW t \in Tasks
    PROVE  /\ Append(q, t) \in Seq(Tasks)
           /\ \A i \in DOMAIN Append(q, t) :
                  \/ i \in DOMAIN q /\ Append(q, t)[i] = q[i]
                  \/ i = Len(q) + 1 /\ Append(q, t)[i] = t
           /\ \A i \in DOMAIN q : i \in Nat \ {0} /\ i <= Len(q) /\ i \in DOMAIN Append(q, t)
  OBVIOUS

\* The positions of a queue with more tasks.
LEMMA PostedTasks ==
    ASSUME NEW q \in Seq(Tasks), NEW s \in Seq(Tasks)
    PROVE  /\ q \o s \in Seq(Tasks)
           /\ \A i \in DOMAIN (q \o s) :
                  \/ i \in DOMAIN q /\ (q \o s)[i] = q[i]
                  \/ i - Len(q) \in DOMAIN s /\ i > Len(q) /\ (q \o s)[i] = s[i - Len(q)]
           /\ \A i \in DOMAIN q : i \in Nat \ {0} /\ i <= Len(q) /\ i \in DOMAIN (q \o s)
  OBVIOUS

\* What the code posts are tasks.
LEMMA TasksAreTasks ==
    /\ \A kind \in PlainTasks : Task(kind) \in Tasks /\ Task(kind).kind = kind
    /\ \A mid \in {"audio", "video"} : 
           OfferTasks(mid) \in Seq(Tasks)
    /\ \A i, d \in Nat : [kind |-> "remote", ice |-> i, desc |-> d] \in Tasks
  BY DEF Task, Tasks, PlainTasks, OfferTasks

\* The constructor leaves a well-typed connection.
LEMMA InitTypes == Init => TypeOK
  <1>1. ConstructorTasks \in Seq(Tasks)
    BY TasksAreTasks DEF ConstructorTasks, PlainTasks
  <1>2. <<>> \in Seq(SUBSET Steps)
    OBVIOUS
  <1>3. [id |-> 0, good |-> TRUE] \in [id : Nat, good : BOOLEAN]
    OBVIOUS
  <1>. QED
    BY <1>1, <1>2, <1>3, Zenon DEF Init, TypeOK, FlagTypes, CountTypes

\* A transport is given only what transports are given.
LEMMA GiveTypes ==
    ASSUME TypeOK, NEW g \in Nat, NEW what \in SUBSET Steps, Give(g, what)
    PROVE  ice' \in Seq(SUBSET Steps)
  <1>0. ice \in Seq(SUBSET Steps)
    BY DEF TypeOK
  <1>1. CASE ice' = ice
    BY <1>1, <1>0
  <1>2. CASE ice' = [ice EXCEPT ![g] = ice[g] \cup what]
    <2>1. CASE g \in 1 .. Len(ice)
      <3>1. ice[g] \in SUBSET Steps
        BY <1>0, <2>1
      <3>2. ice[g] \cup what \in SUBSET Steps
        BY <3>1
      <3>. QED
        BY <1>0, <1>2, <2>1, <3>2, ExceptSeq
    <2>2. CASE g \notin 1 .. Len(ice)
      <3>1. [ice EXCEPT ![g] = ice[g] \cup what] = ice
        BY <1>0, <2>2
      <3>. QED
        BY <1>0, <1>2, <3>1
    <2>. QED
      BY <2>1, <2>2
  <1>. QED
    BY <1>1, <1>2 DEF Give

\* The definitions of all actions: every one changes few of the variables.
\* No step of any thread leaves the types of the flags ...
LEMMA NextFlags ==
    ASSUME FlagTypes, [Next]_vars
    PROVE  FlagTypes'
  <1>. USE DEF contextVars, transportVars, mediaVars, rtcpVars, appVars, FlagTypes
  <1>0. CASE UNCHANGED vars
    BY <1>0 DEF vars
  <1>1. CASE Running /\ Application
    BY <1>1, Zenon DEF Running, Application, SetRemoteSdp, FinishRemoteSdp, CreateOffer,
       Destroy, FinishDestroy
  <1>2. CASE Running /\ NetworkTask
    BY <1>2, Zenon DEF Running, NetworkTask, CreateNetwork, CreateController, CreateTransport,
       RemoteTask, VisitTask, LocalTask, CreateSend, ResetController, SendRtp
  <1>3. CASE Running /\ (Callbacks \/ Signalling \/ Media)
    BY <1>3, Zenon DEF Running, Callbacks, IceTransportStateChanged, OnRtcpPacketReceived,
       Signalling, BeginRtcp, EndRtcp, Media, SendVideoEncode, GeneratePadding, SendPacket
  <1>. QED
    BY <1>0, <1>1, <1>2, <1>3 DEF Next

\* ... of the counters and object numbers ...
LEMMA NextCounts ==
    ASSUME CountTypes, [Next]_vars
    PROVE  CountTypes'
  <1>. USE DEF contextVars, transportVars, mediaVars, rtcpVars, appVars, CountTypes
  <1>0. CASE UNCHANGED vars
    BY <1>0 DEF vars
  <1>1. CASE Application
    BY <1>1 DEF Application, SetRemoteSdp, FinishRemoteSdp, CreateOffer,
       Destroy, FinishDestroy
  <1>2. CASE NetworkTask
    BY <1>2 DEF NetworkTask, CreateNetwork, CreateController, CreateTransport,
       RemoteTask, VisitTask, LocalTask, CreateSend, ResetController, SendRtp,
       Guarded, Give, Fault, IsNext
  <1>3. CASE Callbacks \/ Signalling \/ Media
    BY <1>3 DEF Callbacks, IceTransportStateChanged, OnRtcpPacketReceived,
       Signalling, BeginRtcp, EndRtcp, Media, SendVideoEncode, GeneratePadding, SendPacket
  <1>. QED
    BY <1>0, <1>1, <1>2, <1>3 DEF Next

\* ... of the network thread's queue ...
LEMMA NextQueue ==
    ASSUME TypeOK, [Next]_vars
    PROVE  queue' \in Seq(Tasks)
  <1>. USE DEF TypeOK
  <1>0. CASE UNCHANGED vars
    BY <1>0 DEF vars
  <1>1. CASE \E sdp \in Sdps : SetRemoteSdp(sdp)
    <2>1. queue' = queue \/ queue' = Append(queue, Task("createTransport"))
      BY <1>1 DEF SetRemoteSdp, Post
    <2>2. Task("createTransport") \in Tasks
      BY TasksAreTasks DEF PlainTasks
    <2>. QED
      BY <2>1, <2>2
  <1>2. CASE FinishRemoteSdp
    <2>1. RemoteTasks \in Seq(Tasks)
      BY TasksAreTasks DEF RemoteTasks, CountTypes, PlainTasks
    <2>. QED
      BY <1>2, <2>1, PostedTasks DEF FinishRemoteSdp
  <1>3. CASE \E mid \in {"audio", "video"} : CreateOffer(mid)
    <2>1. PICK mid \in {"audio", "video"} : queue' = queue \/ queue' = queue \o OfferTasks(mid)
      BY <1>3 DEF CreateOffer
    <2>2. OfferTasks(mid) \in Seq(Tasks)
      BY TasksAreTasks
    <2>3. queue \o OfferTasks(mid) \in Seq(Tasks)
      BY <2>2, PostedTasks
    <2>. QED
      BY <2>1, <2>3
  <1>4. CASE Destroy
    BY <1>4, PostedTask, TasksAreTasks DEF Destroy, Post, PlainTasks
  <1>5. CASE FinishDestroy
    BY <1>5 DEF FinishDestroy
  <1>6. CASE NetworkTask
    BY <1>6, TailOfQueue, NetworkTaskIsQueued
  <1>7. CASE Callbacks \/ Signalling \/ SendVideoEncode \/ GeneratePadding
    BY <1>7 DEF Callbacks, IceTransportStateChanged, OnRtcpPacketReceived, Signalling,
       BeginRtcp, EndRtcp, SendVideoEncode, GeneratePadding
  <1>8. CASE SendPacket
    <2>1. queue' = queue \/ queue' = Append(queue, Task("sendRtp"))
      BY <1>8 DEF SendPacket, Post
    <2>2. Task("sendRtp") \in Tasks
      BY TasksAreTasks DEF PlainTasks
    <2>. QED
      BY <2>1, <2>2
  <1>. QED
    BY <1>0, <1>1, <1>2, <1>3, <1>4, <1>5, <1>6, <1>7, <1>8 DEF Next, Application, Media

\* ... of what the transports were given ...
LEMMA NextIce ==
    ASSUME TypeOK, [Next]_vars
    PROVE  ice' \in Seq(SUBSET Steps)
  <1>. USE DEF TypeOK, transportVars
  <1>0. CASE UNCHANGED ice
    BY <1>0
  <1>1. CASE CreateTransport
    BY <1>1 DEF CreateTransport, NewTransport
  <1>2. CASE NetworkTask /\ RemoteTask
    <2>1. Head(queue).ice \in Nat
      BY <1>2, NetworkTaskIsQueued, TailOfQueue DEF RemoteTask, IsNext, Tasks, PlainTasks
    <2>2. {"remoteParams", "fingerprint"} \subseteq Steps
      BY DEF Steps, IceSteps
    <2>. QED
      BY <1>2, <2>1, <2>2, GiveTypes DEF RemoteTask, Guarded
  <1>3. ASSUME NEW kind \in {"candidate", "gather"}, VisitTask(kind)
        PROVE  ice' \in Seq(SUBSET Steps)
    <2>1. {kind} \subseteq Steps
      BY DEF Steps, IceSteps
    <2>. QED
      BY <1>3, <2>1, GiveTypes DEF VisitTask, Guarded, CountTypes
  <1>4. CASE LocalTask
    <2>1. {"localParams"} \subseteq Steps
      BY DEF Steps, IceSteps
    <2>. QED
      BY <1>4, <2>1, GiveTypes DEF LocalTask, Guarded, CountTypes
  <1>5. CASE NetworkTask
    <2>1. CASE CreateNetwork \/ CreateController \/ CreateSend \/ ResetController \/ SendRtp
      BY <2>1, <1>0 DEF CreateNetwork, CreateController, CreateSend, ResetController, SendRtp,
         Guarded
    <2>. QED
      BY <1>1, <1>2, <1>3, <1>4, <1>5, <2>1 DEF NetworkTask
  <1>6. CASE Application \/ Callbacks \/ Signalling \/ Media
    BY <1>0, <1>6 DEF Application, SetRemoteSdp, FinishRemoteSdp, CreateOffer,
       Destroy, FinishDestroy, Callbacks, IceTransportStateChanged, OnRtcpPacketReceived,
       Signalling, BeginRtcp, EndRtcp, Media, SendVideoEncode, GeneratePadding, SendPacket
  <1>. QED
    BY <1>0, <1>5, <1>6 DEF Next, vars

\* ... or of remote_desc_.
LEMMA NextDesc ==
    ASSUME desc \in [id : Nat, good : BOOLEAN], [Next]_vars
    PROVE  desc' \in [id : Nat, good : BOOLEAN]
  <1>1. CASE \E sdp \in Sdps : SetRemoteSdp(sdp)
    BY <1>1 DEF SetRemoteSdp
  <1>2. CASE UNCHANGED desc
    BY <1>2
  <1>3. [Next]_vars => UNCHANGED desc \/ \E sdp \in Sdps : SetRemoteSdp(sdp)
    <2>. USE DEF appVars
    <2>0. UNCHANGED vars => UNCHANGED desc
      BY DEF vars
    <2>1. Application => UNCHANGED desc \/ \E sdp \in Sdps : SetRemoteSdp(sdp)
      BY DEF Application, FinishRemoteSdp, CreateOffer, Destroy, FinishDestroy
    <2>2. NetworkTask => UNCHANGED desc
      BY DEF NetworkTask, CreateNetwork, CreateController, CreateTransport, RemoteTask,
         VisitTask, LocalTask, CreateSend, ResetController, SendRtp
    <2>3. Callbacks \/ Signalling \/ Media => UNCHANGED desc
      BY DEF Callbacks, IceTransportStateChanged, OnRtcpPacketReceived, Signalling, BeginRtcp,
         EndRtcp, Media, SendVideoEncode, GeneratePadding, SendPacket
    <2>. QED
      BY <2>0, <2>1, <2>2, <2>3 DEF Next
  <1>. QED
    BY <1>1, <1>2, <1>3

\* Every variable keeps its type whatever the threads do: in particular the
\* object numbers and counters are never negative and the network thread's queue
\* only ever holds tasks that the code posts.
THEOREM Types == Spec => []TypeOK
  <1>1. TypeOK /\ [Next]_vars => TypeOK'
    BY NextFlags, NextCounts, NextQueue, NextIce, NextDesc DEF TypeOK
  <1>. QED
    BY InitTypes, <1>1, PTL DEF Spec

-----------------------------------------------------------------------------
(* What a step does to the queue *)

\* Tasks are posted behind the ones that are there.
Posted(kinds) ==
    /\ \A i \in DOMAIN queue : i \in DOMAIN queue' /\ queue'[i] = queue[i]
    /\ \A i \in DOMAIN queue' :
           i \in DOMAIN queue \/ (i > Len(queue) /\ queue'[i].kind \in kinds)

\* The first task is taken off.
Taken ==
    /\ 1 \in DOMAIN queue /\ queue[1] = Head(queue)
    /\ \A i \in DOMAIN queue' : i + 1 \in DOMAIN queue /\ queue'[i] = queue[i + 1]
    /\ \A i \in DOMAIN queue : i # 1 => i - 1 \in DOMAIN queue'

\* The network thread takes the first task.
LEMMA TaskTaken ==
    ASSUME TypeOK, NetworkTask
    PROVE  Taken
  BY NetworkTaskIsQueued, TailOfQueue DEF Taken, TypeOK

\* Post adds one task behind the others.
LEMMA PostPosts ==
    ASSUME TypeOK, NEW kind \in PlainTasks, Post(kind)
    PROVE  Posted({kind})
  <1>1. Task(kind) \in Tasks /\ Task(kind).kind = kind
    BY TasksAreTasks
  <1>. QED
    BY <1>1, PostedTask DEF Posted, Post, TypeOK

\* set_remote_sdp's tasks capture the current transport and description.
LEMMA RemotePosts ==
    ASSUME TypeOK, queue' = queue \o RemoteTasks
    PROVE  /\ Posted({"remote", "candidate"})
           /\ \A i \in DOMAIN queue' : i \in DOMAIN queue
                 \/ queue'[i] = [kind |-> "remote", ice |-> owned, desc |-> desc.id]
                 \/ queue'[i] = Task("candidate")
  <1>1. /\ RemoteTasks \in Seq(Tasks)
        /\ \A i \in DOMAIN RemoteTasks :
              \/ RemoteTasks[i] = [kind |-> "remote", ice |-> owned, desc |-> desc.id]
              \/ RemoteTasks[i] = Task("candidate")
    BY TasksAreTasks DEF RemoteTasks, TypeOK, CountTypes, PlainTasks
  <1>2. Task("candidate").kind = "candidate"
    BY DEF Task
  <1>. QED
    BY <1>1, <1>2, PostedTasks DEF Posted, TypeOK

\* create_offer's tasks come in this order.
LEMMA OfferPosts ==
    ASSUME TypeOK, NEW mid \in {"audio", "video"}, queue' = queue \o OfferTasks(mid)
    PROVE  /\ Posted({"createSend", "local", "gather"})
           /\ queue'[Len(queue) + 1] = Task("createSend")
           /\ queue'[Len(queue) + 2] = [kind |-> "local", mid |-> mid]
           /\ queue'[Len(queue) + 3] = Task("gather")
           /\ DOMAIN queue' = 1 .. Len(queue) + 3
  <1>1. /\ OfferTasks(mid) \in Seq(Tasks) /\ Len(OfferTasks(mid)) = 3
        /\ OfferTasks(mid)[1] = Task("createSend")
        /\ OfferTasks(mid)[2] = [kind |-> "local", mid |-> mid]
        /\ OfferTasks(mid)[3] = Task("gather")
    BY TasksAreTasks DEF OfferTasks
  <1>2. Task("createSend").kind = "createSend" /\ Task("gather").kind = "gather"
    BY DEF Task
  <1>3. DOMAIN queue' = 1 .. Len(queue) + 3 /\ Len(queue) \in Nat /\ DOMAIN queue = 1 .. Len(queue)
    <2>1. queue \in Seq(Tasks) /\ Len(queue) \in Nat /\ DOMAIN queue = 1 .. Len(queue)
      BY DEF TypeOK
    <2>2. queue' \in Seq(Tasks) /\ Len(queue') = Len(queue) + 3
      <3>1. /\ queue \o OfferTasks(mid) \in Seq(Tasks)
            /\ Len(queue \o OfferTasks(mid)) = Len(queue) + Len(OfferTasks(mid))
        BY <1>1, <2>1, ConcatProperties
      <3>. QED
        BY <1>1, <3>1
    <2>. QED
      BY <2>1, <2>2
  <1>4. /\ \A i \in 1 .. Len(queue) : queue'[i] = queue[i]
        /\ queue'[Len(queue) + 1] = Task("createSend")
        /\ queue'[Len(queue) + 2] = [kind |-> "local", mid |-> mid]
        /\ queue'[Len(queue) + 3] = Task("gather")
    BY <1>1, <1>3 DEF TypeOK
  <1>5. ASSUME NEW i \in 1 .. Len(queue) + 3, i > Len(queue)
        PROVE  queue'[i].kind \in {"createSend", "local", "gather"}
    <2>1. i = Len(queue) + 1 \/ i = Len(queue) + 2 \/ i = Len(queue) + 3
      BY <1>3, <1>5
    <2>2. CASE i = Len(queue) + 1
      BY <1>2, <1>4, <2>2
    <2>3. CASE i = Len(queue) + 2
      <3>1. [kind |-> "local", mid |-> mid].kind = "local"
        OBVIOUS
      <3>. QED
        BY <1>4, <2>3, <3>1
    <2>4. CASE i = Len(queue) + 3
      BY <1>2, <1>4, <2>4
    <2>. QED
      BY <2>1, <2>2, <2>3, <2>4
  <1>6. Posted({"createSend", "local", "gather"})
    BY <1>3, <1>4, <1>5 DEF Posted
  <1>. QED
    BY <1>3, <1>4, <1>6

-----------------------------------------------------------------------------
(* The order of the tasks *)

\* No step puts a task before the constructor's.
LEMMA ConstructorStep ==
    ASSUME TypeOK, TypeOK', ConstructorOrder, DestructorOrder, Next, app' # "gone"
    PROVE  ConstructorOrder'
  <1>. USE DEF contextVars
  <1>0. \A i \in DOMAIN queue : i \in Nat /\ i > 0 /\ i <= Len(queue) /\ 1 \in DOMAIN queue
    BY DEF TypeOK
  <1>a. \A i \in DOMAIN queue' : i \in Nat /\ i > 0
    BY DEF TypeOK
  <1>1. ASSUME UNCHANGED <<queue, network, controller>>
        PROVE  ConstructorOrder'
    BY <1>1 DEF ConstructorOrder
  <1>2. ASSUME NEW kinds, Posted(kinds), UNCHANGED <<network, controller>>,
               "createNetwork" \notin kinds, "createController" \notin kinds
        PROVE  ConstructorOrder'
    BY <1>0, <1>a, <1>2 DEF ConstructorOrder, Posted
  <1>3. ASSUME Taken, Head(queue).kind \notin {"createNetwork", "createController"},
               UNCHANGED <<network, controller>>
        PROVE  ConstructorOrder'
    BY <1>0, <1>a, <1>3 DEF ConstructorOrder, Taken
  <1>4. CASE Application
    <2>1. CASE \E sdp \in Sdps : SetRemoteSdp(sdp)
      <3>1. UNCHANGED queue \/ Post("createTransport")
        BY <2>1 DEF SetRemoteSdp
      <3>2. UNCHANGED <<network, controller>>
        BY <2>1 DEF SetRemoteSdp
      <3>. QED
        BY <1>1, <1>2, <3>1, <3>2, PostPosts DEF PlainTasks
    <2>2. CASE FinishRemoteSdp
      BY <2>2, <1>2, RemotePosts DEF FinishRemoteSdp
    <2>3. CASE \E mid \in {"audio", "video"} : CreateOffer(mid)
      BY <2>3, <1>1, <1>2, OfferPosts DEF CreateOffer
    <2>4. CASE Destroy
      BY <2>4, <1>2, PostPosts DEF Destroy, PlainTasks
    <2>5. CASE FinishDestroy
      BY <2>5 DEF FinishDestroy
    <2>. QED
      BY <1>4, <2>1, <2>2, <2>3, <2>4, <2>5 DEF Application
  <1>5. CASE NetworkTask
    <2>0. Taken
      BY <1>5, TaskTaken
    <2>1. CASE CreateNetwork
      BY <1>0, <1>a, <2>0, <2>1 DEF CreateNetwork, IsNext, ConstructorOrder, Taken
    <2>2. CASE CreateController
      BY <1>0, <1>a, <2>0, <2>2 DEF CreateController, IsNext, ConstructorOrder, Taken
    <2>3. CASE ResetController
      BY <1>0, <1>a, <2>0, <2>3 DEF ResetController, IsNext, ConstructorOrder, DestructorOrder, Taken
    <2>4. CASE CreateTransport \/ RemoteTask \/ VisitTask("candidate") \/ LocalTask
               \/ VisitTask("gather") \/ CreateSend \/ SendRtp
      BY <2>0, <2>4, <1>3 DEF CreateTransport, RemoteTask, VisitTask, LocalTask, CreateSend,
         SendRtp, IsNext
    <2>. QED
      BY <1>5, <2>1, <2>2, <2>3, <2>4 DEF NetworkTask
  <1>6. CASE Callbacks \/ Signalling \/ SendVideoEncode \/ GeneratePadding
    BY <1>1, <1>6 DEF Callbacks, IceTransportStateChanged, OnRtcpPacketReceived, Signalling,
       BeginRtcp, EndRtcp, SendVideoEncode, GeneratePadding
  <1>7. CASE SendPacket
    BY <1>1, <1>2, <1>7, PostPosts DEF SendPacket, PlainTasks
  <1>. QED
    BY <1>4, <1>5, <1>6, <1>7 DEF Next, Media

\* After the destructor's Invoke only send_rtp_packet's tasks come.
LEMMA DestructorStep ==
    ASSUME TypeOK, TypeOK', DestructorOrder, TransportOrder, Next, app' # "gone"
    PROVE  DestructorOrder'
  <1>. USE DEF contextVars, transportVars, appVars
  <1>0. \A i \in DOMAIN queue : i \in Nat /\ i > 0 /\ i <= Len(queue)
    BY DEF TypeOK
  <1>a. \A i \in DOMAIN queue' : i \in Nat /\ i > 0
    BY DEF TypeOK
  <1>1. ASSUME UNCHANGED <<queue, controller, app, owned>>
        PROVE  DestructorOrder'
    BY <1>1 DEF DestructorOrder
  <1>2. ASSUME NEW kinds, Posted(kinds), UNCHANGED <<controller, owned>>,
               "resetController" \notin kinds,
               \/ app \notin {"destroy", "destroyed"} /\ app' \notin {"destroy", "destroyed"}
               \/ UNCHANGED app /\ kinds = {"sendRtp"}
        PROVE  DestructorOrder'
    <2>1. CASE app \notin {"destroy", "destroyed"} /\ app' \notin {"destroy", "destroyed"}
      BY <1>0, <1>a, <1>2, <2>1 DEF DestructorOrder, Posted
    <2>2. CASE UNCHANGED app /\ kinds = {"sendRtp"}
      BY <1>0, <1>a, <1>2, <2>2 DEF DestructorOrder, Posted
    <2>. QED
      BY <1>2, <2>1, <2>2
  <1>3. ASSUME Taken, UNCHANGED <<controller, app, owned>>
        PROVE  DestructorOrder'
    BY <1>0, <1>a, <1>3 DEF DestructorOrder, Taken
  <1>4. CASE Application
    <2>1. CASE \E sdp \in Sdps : SetRemoteSdp(sdp)
      <3>1. UNCHANGED <<queue, app>> \/ (Post("createTransport") /\ app' = "remote")
        BY <2>1 DEF SetRemoteSdp
      <3>2. UNCHANGED <<controller, owned>> /\ app = "idle"
        BY <2>1 DEF SetRemoteSdp
      <3>. QED
        BY <1>1, <1>2, <3>1, <3>2, PostPosts DEF PlainTasks
    <2>2. CASE FinishRemoteSdp
      BY <2>2, <1>2, RemotePosts DEF FinishRemoteSdp
    <2>3. CASE \E mid \in {"audio", "video"} : CreateOffer(mid)
      BY <2>3, <1>1, <1>2, OfferPosts DEF CreateOffer
    <2>4. CASE Destroy
      <3>1. DOMAIN queue' = 1 .. Len(queue) + 1 /\ Len(queue) \in Nat
        BY <2>4 DEF Destroy, Post, TypeOK
      <3>. QED
        BY <1>0, <2>4, <3>1, PostPosts DEF Destroy, PlainTasks, Posted, DestructorOrder
    <2>5. CASE FinishDestroy
      BY <2>5 DEF FinishDestroy
    <2>. QED
      BY <1>4, <2>1, <2>2, <2>3, <2>4, <2>5 DEF Application
  <1>5. CASE NetworkTask
    <2>0. Taken
      BY <1>5, TaskTaken
    <2>1. CASE CreateController
      BY <1>0, <1>a, <2>0, <2>1 DEF CreateController, IsNext, DestructorOrder, Taken
    <2>2. CASE CreateTransport
      BY <1>0, <1>a, <2>0, <2>2 DEF CreateTransport, IsNext, DestructorOrder, TransportOrder, Taken
    <2>3. CASE ResetController
      BY <1>0, <1>a, <2>0, <2>3 DEF ResetController, IsNext, DestructorOrder, Taken
    <2>4. CASE CreateNetwork \/ RemoteTask \/ VisitTask("candidate") \/ LocalTask
               \/ VisitTask("gather") \/ CreateSend \/ SendRtp
      BY <2>0, <2>4, <1>3 DEF CreateNetwork, RemoteTask, VisitTask, LocalTask, CreateSend,
         SendRtp
    <2>. QED
      BY <1>5, <2>1, <2>2, <2>3, <2>4 DEF NetworkTask
  <1>6. CASE Callbacks \/ Signalling \/ SendVideoEncode \/ GeneratePadding
    BY <1>1, <1>6 DEF Callbacks, IceTransportStateChanged, OnRtcpPacketReceived, Signalling,
       BeginRtcp, EndRtcp, SendVideoEncode, GeneratePadding
  <1>7. CASE SendPacket
    BY <1>1, <1>2, <1>7, PostPosts DEF SendPacket, PlainTasks
  <1>. QED
    BY <1>4, <1>5, <1>6, <1>7 DEF Next, Media

\* Whatever a transport is given, there are as many as before.
LEMMA GiveKeepsTransports ==
    ASSUME TypeOK, NEW g, NEW what, Give(g, what) \/ UNCHANGED ice
    PROVE  /\ Len(ice') = Len(ice) /\ DOMAIN ice' = DOMAIN ice
           /\ \A k \in DOMAIN ice : ice'[k] = ice[k] \/ ice'[k] = ice[k] \cup what
  BY DEF Give, TypeOK

\* set_remote_sdp's Invoke is the only one under way, and the transport it makes
\* is the one that is owned.
LEMMA TransportStep ==
    ASSUME TypeOK, TypeOK', DestructorOrder, TransportOrder, Next, app' # "gone"
    PROVE  TransportOrder'
  <1>. USE DEF contextVars, transportVars, appVars
  <1>0. \A i \in DOMAIN queue : i \in Nat /\ i > 0 /\ i <= Len(queue)
    BY DEF TypeOK
  <1>a. \A i \in DOMAIN queue' : i \in Nat /\ i > 0
    BY DEF TypeOK
  <1>1. ASSUME UNCHANGED <<queue, app, owned, ice>>
        PROVE  TransportOrder'
    BY <1>1 DEF TransportOrder
  <1>2. ASSUME NEW kinds, Posted(kinds), UNCHANGED <<owned, ice>>,
               "createTransport" \notin kinds,
               UNCHANGED app \/ app \in {"idle", "remoteCreated"}
        PROVE  TransportOrder'
    BY <1>0, <1>a, <1>2 DEF TransportOrder, Posted
  <1>3. ASSUME Taken, UNCHANGED <<app, owned>>, Len(ice') = Len(ice)
        PROVE  TransportOrder'
    <2>1. ASSUME NEW i \in DOMAIN queue', NEW j \in DOMAIN queue', j # i
          PROVE  i + 1 # j + 1
      BY <1>a, <2>1
    <2>. QED
      BY <1>0, <1>a, <1>3, <2>1 DEF TransportOrder, Taken
  <1>4. CASE Application
    <2>1. CASE \E sdp \in Sdps : SetRemoteSdp(sdp)
      <3>1. UNCHANGED <<queue, app>> \/ (Post("createTransport") /\ app' = "remote")
        BY <2>1 DEF SetRemoteSdp
      <3>2. UNCHANGED <<ice, owned>> /\ app = "idle"
        BY <2>1 DEF SetRemoteSdp
      <3>3. CASE Post("createTransport") /\ app' = "remote"
        <4>1. DOMAIN queue' = 1 .. Len(queue) + 1 /\ Len(queue) \in Nat /\ DOMAIN queue = 1 .. Len(queue)
          BY <3>3 DEF Post, TypeOK
        <4>. QED
          BY <1>0, <3>2, <3>3, <4>1, PostPosts DEF PlainTasks, Posted, TransportOrder
      <3>. QED
        BY <1>1, <3>1, <3>2, <3>3
    <2>2. CASE FinishRemoteSdp
      BY <2>2, <1>2, RemotePosts DEF FinishRemoteSdp
    <2>3. CASE \E mid \in {"audio", "video"} : CreateOffer(mid)
      BY <2>3, <1>1, <1>2, OfferPosts DEF CreateOffer
    <2>4. CASE Destroy
      BY <2>4, <1>2, PostPosts DEF Destroy, PlainTasks
    <2>5. CASE FinishDestroy
      BY <2>5 DEF FinishDestroy
    <2>. QED
      BY <1>4, <2>1, <2>2, <2>3, <2>4, <2>5 DEF Application
  <1>5. CASE NetworkTask
    <2>0. Taken
      BY <1>5, TaskTaken
    <2>1. CASE CreateTransport
      <3>1. Len(ice') = Len(ice) + 1 /\ owned' = owned + 1
        BY <2>1 DEF CreateTransport, TypeOK
      <3>2. app = "remote" /\ owned = Len(ice)
        BY <2>0, <2>1 DEF CreateTransport, IsNext, Taken, TransportOrder
      <3>3. \A i \in DOMAIN queue' : queue'[i].kind # "createTransport"
        BY <1>a, <2>0, <2>1 DEF CreateTransport, IsNext, Taken, TransportOrder
      <3>. QED
        BY <3>1, <3>2, <3>3 DEF TransportOrder
    <2>2. CASE ResetController
      <3>1. \A i \in DOMAIN queue' : queue'[i].kind # "createTransport"
        BY <1>a, <2>0, <2>2 DEF ResetController, IsNext, Taken, DestructorOrder
      <3>. QED
        BY <2>2, <3>1 DEF ResetController, TransportOrder
    <2>3. CASE CreateNetwork \/ CreateController \/ CreateSend \/ SendRtp
      BY <2>0, <2>3, <1>3 DEF CreateNetwork, CreateController, CreateSend, SendRtp, Guarded
    <2>4. CASE RemoteTask \/ VisitTask("candidate") \/ LocalTask \/ VisitTask("gather")
      <3>1. UNCHANGED <<app, owned>>
        BY <2>4 DEF RemoteTask, VisitTask, LocalTask
      <3>2. UNCHANGED ice \/ \E g, what : Give(g, what)
        BY <2>4 DEF RemoteTask, VisitTask, LocalTask, Guarded
      <3>. QED
        BY <1>3, <2>0, <3>1, <3>2, GiveKeepsTransports
    <2>. QED
      BY <1>5, <2>1, <2>2, <2>3, <2>4 DEF NetworkTask
  <1>6. CASE Callbacks \/ Signalling \/ SendVideoEncode \/ GeneratePadding
    BY <1>1, <1>6 DEF Callbacks, IceTransportStateChanged, OnRtcpPacketReceived, Signalling,
       BeginRtcp, EndRtcp, SendVideoEncode, GeneratePadding
  <1>7. CASE SendPacket
    BY <1>1, <1>2, <1>7, PostPosts DEF SendPacket, PlainTasks
  <1>. QED
    BY <1>4, <1>5, <1>6, <1>7 DEF Next, Media

\* Nothing gathers before there is a send side.
LEMMA SendStep ==
    ASSUME TypeOK, TypeOK', TransportOrder, SendOrder, Next, app' # "gone"
    PROVE  SendOrder'
  <1>. USE DEF contextVars, transportVars, appVars, mediaVars, rtcpVars
  <1>0. \A i \in DOMAIN queue : i \in Nat /\ i > 0 /\ i <= Len(queue)
    BY DEF TypeOK
  <1>a. \A i \in DOMAIN queue' : i \in Nat /\ i > 0
    BY DEF TypeOK
  <1>b. \A i \in DOMAIN queue : \A j \in 1 .. i - 1 : j \in DOMAIN queue
    BY DEF TypeOK
  <1>1. ASSUME UNCHANGED <<queue, ice, send>>, rtcp' # 0 \/ inRtcp' # 0 => send # 0
        PROVE  SendOrder'
    BY <1>1 DEF SendOrder
  <1>2. ASSUME NEW kinds, Posted(kinds), "gather" \notin kinds,
               UNCHANGED <<ice, send, rtcp, inRtcp>>
        PROVE  SendOrder'
    <2>1. ASSUME NEW i \in DOMAIN queue', queue'[i].kind = "gather"
          PROVE  send' # 0 \/ \E j \in 1 .. i - 1 : queue'[j].kind = "createSend"
      BY <1>0, <1>a, <1>b, <1>2, <2>1 DEF SendOrder, Posted
    <2>. QED
      BY <1>2, <2>1 DEF SendOrder
  <1>3. ASSUME Taken, Head(queue).kind # "createSend", UNCHANGED <<send, rtcp, inRtcp>>,
               \A k \in DOMAIN ice' : "gather" \in ice'[k] => send # 0
        PROVE  SendOrder'
    <2>1. ASSUME NEW i \in DOMAIN queue', queue'[i].kind = "gather"
          PROVE  send' # 0 \/ \E j \in 1 .. i - 1 : queue'[j].kind = "createSend"
      <3>1. i + 1 \in DOMAIN queue /\ queue[i + 1].kind = "gather" /\ i \in Nat
        BY <1>3, <1>a, <2>1 DEF Taken
      <3>2. CASE send = 0
        <4>1. PICK j \in 1 .. i : queue[j].kind = "createSend"
          BY <3>1, <3>2 DEF SendOrder
        <4>2. j # 1 /\ j \in DOMAIN queue
          BY <1>3, <1>b, <3>1, <4>1 DEF Taken
        <4>3. j - 1 \in DOMAIN queue' /\ j - 1 \in 1 .. i - 1 /\ (j - 1) + 1 = j
          BY <1>3, <3>1, <4>1, <4>2 DEF Taken
        <4>4. queue'[j - 1].kind = "createSend"
          BY <1>3, <4>1, <4>3 DEF Taken
        <4>. QED
          BY <4>3, <4>4
      <3>. QED
        BY <1>3, <3>2
    <2>. QED
      BY <1>3, <2>1 DEF SendOrder
  <1>4. CASE Application
    <2>1. CASE \E sdp \in Sdps : SetRemoteSdp(sdp)
      <3>1. UNCHANGED queue \/ Post("createTransport")
        BY <2>1 DEF SetRemoteSdp
      <3>2. UNCHANGED <<ice, send, rtcp, inRtcp>>
        BY <2>1 DEF SetRemoteSdp
      <3>3. rtcp' # 0 \/ inRtcp' # 0 => send # 0
        BY <3>2 DEF SendOrder
      <3>. QED
        BY <1>1, <1>2, <3>1, <3>2, <3>3, PostPosts DEF PlainTasks
    <2>2. CASE FinishRemoteSdp
      BY <2>2, <1>2, RemotePosts DEF FinishRemoteSdp
    <2>3. ASSUME NEW mid \in {"audio", "video"}, CreateOffer(mid)
          PROVE  SendOrder'
      <3>1. UNCHANGED <<ice, send, rtcp, inRtcp>>
        BY <2>3 DEF CreateOffer
      <3>2. CASE UNCHANGED queue
        BY <1>1, <3>1, <3>2 DEF SendOrder
      <3>3. CASE queue' = queue \o OfferTasks(mid)
        <4>0. Len(queue) \in Nat /\ DOMAIN queue = 1 .. Len(queue)
          BY DEF TypeOK
        <4>1. /\ Posted({"createSend", "local", "gather"})
              /\ DOMAIN queue' = 1 .. Len(queue) + 3
              /\ queue'[Len(queue) + 1].kind = "createSend"
              /\ queue'[Len(queue) + 2].kind = "local"
          <5>1. [kind |-> "local", mid |-> mid].kind = "local"
            OBVIOUS
          <5>2. Task("createSend").kind = "createSend"
            BY DEF Task
          <5>. QED
            BY <3>3, <5>1, <5>2, OfferPosts
        <4>2. ASSUME NEW i \in DOMAIN queue', queue'[i].kind = "gather"
              PROVE  send' # 0 \/ \E j \in 1 .. i - 1 : queue'[j].kind = "createSend"
          <5>1. CASE i \in DOMAIN queue
            BY <1>0, <1>b, <3>1, <4>1, <4>2, <5>1 DEF SendOrder, Posted
          <5>2. CASE i \notin DOMAIN queue
            <6>1. Len(queue) + 1 \in 1 .. i - 1
              BY <4>0, <4>1, <4>2, <5>2
            <6>. QED
              BY <4>1, <6>1
          <5>. QED
            BY <5>1, <5>2
        <4>. QED
          BY <3>1, <4>2 DEF SendOrder
      <3>. QED
        BY <2>3, <3>2, <3>3 DEF CreateOffer
    <2>4. CASE Destroy
      BY <2>4, <1>2, PostPosts DEF Destroy, PlainTasks
    <2>5. CASE FinishDestroy
      BY <2>5 DEF FinishDestroy
    <2>. QED
      BY <1>4, <2>1, <2>2, <2>3, <2>4, <2>5 DEF Application
  <1>5. CASE NetworkTask
    <2>0. Taken
      BY <1>5, TaskTaken
    <2>1. CASE CreateSend
      <3>1. send' # 0 /\ UNCHANGED <<ice, rtcp, inRtcp>>
        BY <2>1 DEF CreateSend, TypeOK, CountTypes
      <3>. QED
        BY <3>1 DEF SendOrder
    <2>2. CASE CreateTransport
      <3>1. \A k \in DOMAIN ice' : (k \in DOMAIN ice /\ ice'[k] = ice[k]) \/ ice'[k] = {}
        BY <2>2 DEF CreateTransport, NewTransport, TypeOK
      <3>2. \A k \in DOMAIN ice' : "gather" \in ice'[k] => send # 0
        BY <3>1 DEF SendOrder
      <3>. QED
        BY <1>3, <2>0, <2>2, <3>2 DEF CreateTransport, IsNext
    <2>3. CASE CreateNetwork \/ CreateController \/ ResetController \/ SendRtp
      BY <2>0, <2>3, <1>3 DEF CreateNetwork, CreateController, ResetController, SendRtp, Guarded,
         IsNext, SendOrder
    <2>4. CASE RemoteTask \/ VisitTask("candidate") \/ LocalTask
      <3>1. Head(queue).kind # "createSend" /\ UNCHANGED <<send, rtcp, inRtcp>>
        BY <2>4 DEF RemoteTask, VisitTask, LocalTask, IsNext
      <3>2. UNCHANGED ice \/ \E g : \/ Give(g, {"remoteParams", "fingerprint"})
                                   \/ Give(g, {"candidate"}) \/ Give(g, {"localParams"})
        BY <2>4 DEF RemoteTask, VisitTask, LocalTask, Guarded
      <3>3. \A k \in DOMAIN ice' : "gather" \in ice'[k] => send # 0
        <4>1. CASE UNCHANGED ice
          BY <4>1 DEF SendOrder
        <4>2. ASSUME NEW g, NEW what \in {{"remoteParams", "fingerprint"}, {"candidate"}, {"localParams"}},
                     Give(g, what)
              PROVE  \A k \in DOMAIN ice' : "gather" \in ice'[k] => send # 0
          <5>1. "gather" \notin what
            OBVIOUS
          <5>. QED
            BY <4>2, <5>1, GiveKeepsTransports DEF SendOrder
        <4>. QED
          BY <3>2, <4>1, <4>2
      <3>. QED
        BY <1>3, <2>0, <3>1, <3>3
    <2>5. CASE VisitTask("gather")
      <3>1. send # 0
        <4>1. 1 \in DOMAIN queue /\ queue[1].kind = "gather"
          BY <2>0, <2>5 DEF VisitTask, IsNext, Taken
        <4>. QED
          BY <4>1 DEF SendOrder
      <3>. QED
        BY <1>3, <2>0, <2>5, <3>1 DEF VisitTask, IsNext
    <2>. QED
      BY <1>5, <2>1, <2>2, <2>3, <2>4, <2>5 DEF NetworkTask
  <1>6. CASE Callbacks \/ Signalling \/ SendVideoEncode \/ GeneratePadding
    BY <1>1, <1>6 DEF Callbacks, IceTransportStateChanged, OnRtcpPacketReceived, Signalling,
       BeginRtcp, EndRtcp, SendVideoEncode, GeneratePadding, SendOrder, TypeOK, CountTypes
  <1>7. CASE SendPacket
    <2>1. UNCHANGED <<ice, send, rtcp, inRtcp>> /\ (UNCHANGED queue \/ Post("sendRtp"))
      BY <1>7 DEF SendPacket
    <2>2. rtcp' # 0 \/ inRtcp' # 0 => send # 0
      BY <2>1 DEF SendOrder
    <2>. QED
      BY <1>1, <1>2, <2>1, <2>2, PostPosts DEF PlainTasks
  <1>. QED
    BY <1>4, <1>5, <1>6, <1>7 DEF Next, Media

\* Orderly use keeps to one description, one transport and one send side.
LEMMA OrderlyStep ==
    ASSUME TypeOK, TypeOK', DestructorOrder, TransportOrder, OrderlyOrder, orderly, Next,
           app' # "gone"
    PROVE  OrderlyOrder'
  <1>. USE DEF contextVars, transportVars, appVars, mediaVars, rtcpVars, OrderlyOrder
  <1>0. \A i \in DOMAIN queue : i \in Nat /\ i > 0 /\ i <= Len(queue)
    BY DEF TypeOK
  <1>a. \A i \in DOMAIN queue' : i \in Nat /\ i > 0
    BY DEF TypeOK
  <1>1. ASSUME UNCHANGED <<queue, desc, app, owned, ices, offers, send>>
        PROVE  OrderlyOrder'
    BY <1>1 DEF OrderlyState, OrderlyTasks
  <1>2. ASSUME NEW kind, kind \notin {"remote", "local", "createSend"}, Posted({kind}),
               UNCHANGED <<desc, owned, ices, offers, send>>
        PROVE  OrderlyTasks'
    BY <1>0, <1>a, <1>2 DEF OrderlyTasks, Posted
  <1>3. ASSUME Taken, UNCHANGED <<desc, owned, ices, offers, send>>
        PROVE  OrderlyTasks'
    <2>1. ASSUME NEW i \in DOMAIN queue', NEW j \in DOMAIN queue', j # i
          PROVE  i + 1 # j + 1
      BY <1>a, <2>1
    <2>. QED
      BY <1>3, <2>1 DEF OrderlyTasks, Taken
  <1>4. CASE Application
    <2>1. ASSUME NEW sdp \in Sdps, SetRemoteSdp(sdp)
          PROVE  OrderlyOrder'
      <3>1. /\ desc.id = 0 /\ desc'.id = 1 /\ desc'.good /\ app = "idle"
            /\ UNCHANGED <<owned, ices, offers, send>>
            /\ \/ UNCHANGED <<queue, app>>
               \/ Post("createTransport") /\ app' = "remote"
        <4>1. desc.id = 0 /\ sdp = "good" /\ desc' = [id |-> desc.id + 1, good |-> sdp = "good"]
          BY <2>1 DEF SetRemoteSdp
        <4>2. desc'.id = 1 /\ desc'.good
          <5>1. desc'.id = desc.id + 1 /\ desc'.good = (sdp = "good")
            BY <4>1, Zenon
          <5>2. desc'.good = TRUE
            BY <4>1, <5>1, Zenon
          <5>. QED
            BY <4>1, <5>1, <5>2
        <4>3. /\ app = "idle" /\ UNCHANGED <<owned, ices, offers, send>>
              /\ \/ UNCHANGED <<queue, app>>
                 \/ Post("createTransport") /\ app' = "remote"
          BY <2>1 DEF SetRemoteSdp
        <4>. QED
          BY <4>1, <4>2, <4>3
      <3>2. OrderlyState'
        BY <3>1 DEF OrderlyState
      <3>3. UNCHANGED queue \/ Posted({"createTransport"})
        BY <3>1, PostPosts DEF PlainTasks
      <3>4. OrderlyTasks'
        BY <1>0, <1>a, <3>1, <3>3 DEF OrderlyTasks, Posted
      <3>. QED
        BY <3>2, <3>4
    <2>2. CASE FinishRemoteSdp
      <3>1. /\ app = "remoteCreated" /\ app' = "idle" /\ ices = 0 /\ ices' = owned
            /\ owned # 0 /\ desc.id # 0
            /\ UNCHANGED <<owned, desc, offers, send>> /\ queue' = queue \o RemoteTasks
        BY <2>2 DEF FinishRemoteSdp, OrderlyState
      <3>2. OrderlyState'
        BY <3>1 DEF OrderlyState
      <3>3. /\ Posted({"remote", "candidate"})
            /\ \A i \in DOMAIN queue' : i \in DOMAIN queue
                 \/ queue'[i] = [kind |-> "remote", ice |-> owned, desc |-> desc.id]
                 \/ queue'[i] = Task("candidate")
        BY <3>1, RemotePosts
      <3>4. ASSUME NEW i \in DOMAIN queue', i \notin DOMAIN queue,
                   queue'[i] = [kind |-> "remote", ice |-> owned, desc |-> desc.id]
            PROVE  queue'[i].kind = "remote" /\ queue'[i].ice = owned /\ queue'[i].desc = desc.id
        BY <3>4
      <3>5. Task("candidate").kind = "candidate"
        BY DEF Task
      <3>6. ASSUME NEW i \in DOMAIN queue', queue'[i].kind = "remote"
            PROVE  queue'[i].ice = owned /\ queue'[i].desc = desc.id
        BY <3>3, <3>4, <3>5, <3>6 DEF Posted, OrderlyTasks
      <3>7. ASSUME NEW i \in DOMAIN queue', queue'[i].kind \in {"local", "createSend"}
            PROVE  i \in DOMAIN queue /\ queue'[i] = queue[i]
        BY <3>3, <3>7 DEF Posted
      <3>8. OrderlyTasks'
        BY <3>1, <3>6, <3>7 DEF OrderlyTasks
      <3>. QED
        BY <3>2, <3>8
    <2>3. ASSUME NEW mid \in {"audio", "video"}, CreateOffer(mid)
          PROVE  OrderlyOrder'
      <3>1. /\ ices # 0 /\ mid = "audio" /\ offers = 0 /\ offers' = 1
            /\ UNCHANGED <<desc, app, owned, ices, send>>
            /\ UNCHANGED queue \/ queue' = queue \o OfferTasks(mid)
        BY <2>3 DEF CreateOffer
      <3>2. OrderlyState'
        BY <3>1 DEF OrderlyState
      <3>3. CASE UNCHANGED queue
        BY <3>1, <3>3, <3>2 DEF OrderlyTasks
      <3>4. CASE queue' = queue \o OfferTasks(mid)
        <4>0. Len(queue) \in Nat /\ DOMAIN queue = 1 .. Len(queue)
          BY DEF TypeOK
        <4>1. /\ Posted({"createSend", "local", "gather"})
              /\ DOMAIN queue' = 1 .. Len(queue) + 3
              /\ queue'[Len(queue) + 1].kind = "createSend"
              /\ queue'[Len(queue) + 2].kind = "local" /\ queue'[Len(queue) + 2].mid = mid
              /\ queue'[Len(queue) + 3].kind = "gather"
          <5>1. [kind |-> "local", mid |-> mid].kind = "local" /\ [kind |-> "local", mid |-> mid].mid = mid
            OBVIOUS
          <5>2. Task("createSend").kind = "createSend" /\ Task("gather").kind = "gather"
            BY DEF Task
          <5>. QED
            BY <3>4, <5>1, <5>2, OfferPosts
        <4>2. \A i \in DOMAIN queue' : \/ i \in DOMAIN queue /\ queue'[i] = queue[i]
                                       \/ i = Len(queue) + 1 \/ i = Len(queue) + 2
                                       \/ i = Len(queue) + 3
          BY <4>0, <4>1 DEF Posted
        <4>3. \A i \in DOMAIN queue : queue[i].kind # "createSend"
          BY <3>1 DEF OrderlyTasks
        <4>4. \A i \in DOMAIN queue' : queue'[i].kind = "createSend" <=> i = Len(queue) + 1
          BY <4>0, <4>1, <4>2, <4>3
        <4>5. \A i \in DOMAIN queue' : queue'[i].kind = "local" => queue'[i].mid = "audio"
          BY <3>1, <4>1, <4>2 DEF OrderlyTasks
        <4>6. \A i \in DOMAIN queue' : queue'[i].kind = "remote" => i \in DOMAIN queue /\ queue'[i] = queue[i]
          BY <4>1, <4>2
        <4>7. send = 0
          BY <3>1 DEF OrderlyState
        <4>8. OrderlyTasks'
          BY <3>1, <4>4, <4>5, <4>6, <4>7 DEF OrderlyTasks
        <4>. QED
          BY <3>2, <4>8
      <3>. QED
        BY <3>1, <3>3, <3>4
    <2>4. CASE Destroy
      <3>1. OrderlyTasks'
        BY <2>4, <1>2, PostPosts DEF Destroy, PlainTasks
      <3>. QED
        BY <2>4, <3>1 DEF Destroy, OrderlyState
    <2>5. CASE FinishDestroy
      BY <2>5 DEF FinishDestroy
    <2>. QED
      BY <1>4, <2>1, <2>2, <2>3, <2>4, <2>5 DEF Application
  <1>5. CASE NetworkTask
    <2>0. Taken
      BY <1>5, TaskTaken
    <2>1. CASE CreateTransport
      <3>1. app = "remote"
        BY <2>0, <2>1 DEF CreateTransport, IsNext, Taken, TransportOrder
      <3>2. owned = 0 /\ ices = 0 /\ desc.id # 0
        BY <3>1 DEF OrderlyState
      <3>3. owned' = 1 /\ app' = "remoteCreated" /\ UNCHANGED <<desc, ices, offers, send>>
        BY <2>1, <3>2 DEF CreateTransport
      <3>4. OrderlyState'
        BY <3>2, <3>3 DEF OrderlyState
      <3>5. \A i \in DOMAIN queue : queue[i].kind \notin {"remote", "local"}
        BY <3>2 DEF OrderlyTasks
      <3>6. ASSUME NEW i \in DOMAIN queue', NEW j \in DOMAIN queue', j # i
            PROVE  i + 1 # j + 1
        BY <1>a, <3>6
      <3>7. OrderlyTasks'
        BY <2>0, <3>3, <3>5, <3>6 DEF OrderlyTasks, Taken
      <3>. QED
        BY <3>4, <3>7
    <2>2. CASE CreateSend
      <3>1. queue[1].kind = "createSend" /\ 1 \in DOMAIN queue
        BY <2>0, <2>2 DEF CreateSend, IsNext, Taken
      <3>2. UNCHANGED <<desc, app, owned, ices, offers>>
        BY <2>2 DEF CreateSend
      <3>3. offers # 0
        BY <3>1 DEF OrderlyTasks
      <3>4. OrderlyState'
        BY <3>2, <3>3 DEF OrderlyState
      <3>5. \A i \in DOMAIN queue : i # 1 => queue[i].kind # "createSend"
        BY <3>1 DEF OrderlyTasks
      <3>6. \A i \in DOMAIN queue' : i + 1 \in DOMAIN queue /\ i + 1 # 1 /\ queue'[i] = queue[i + 1]
        BY <1>a, <2>0 DEF Taken
      <3>7. OrderlyTasks'
        BY <3>2, <3>5, <3>6 DEF OrderlyTasks
      <3>. QED
        BY <3>4, <3>7
    <2>3. CASE ResetController
      <3>1. \A i \in DOMAIN queue' : queue'[i].kind = "sendRtp"
        BY <1>a, <2>0, <2>3 DEF ResetController, IsNext, Taken, DestructorOrder
      <3>2. OrderlyState'
        BY <2>3 DEF ResetController, OrderlyState
      <3>. QED
        BY <3>1, <3>2 DEF OrderlyTasks
    <2>4. CASE CreateNetwork \/ CreateController \/ RemoteTask \/ VisitTask("candidate") \/ LocalTask
               \/ VisitTask("gather") \/ SendRtp
      <3>1. UNCHANGED <<desc, app, owned, ices, offers, send>>
        BY <2>4 DEF CreateNetwork, CreateController, RemoteTask, VisitTask, LocalTask, SendRtp
      <3>2. OrderlyState'
        BY <3>1 DEF OrderlyState
      <3>. QED
        BY <1>3, <2>0, <3>1, <3>2
    <2>. QED
      BY <1>5, <2>1, <2>2, <2>3, <2>4 DEF NetworkTask
  <1>6. CASE Callbacks \/ Signalling \/ SendVideoEncode \/ GeneratePadding
    BY <1>1, <1>6 DEF Callbacks, IceTransportStateChanged, OnRtcpPacketReceived, Signalling,
       BeginRtcp, EndRtcp, SendVideoEncode, GeneratePadding
  <1>7. CASE SendPacket
    <2>1. UNCHANGED <<desc, app, owned, ices, offers, send>> /\ (UNCHANGED queue \/ Post("sendRtp"))
      BY <1>7 DEF SendPacket
    <2>2. OrderlyState'
      BY <2>1 DEF OrderlyState
    <2>. QED
      BY <1>1, <1>2, <2>1, <2>2, PostPosts DEF PlainTasks
  <1>. QED
    BY <1>4, <1>5, <1>6, <1>7 DEF Next, Media

-----------------------------------------------------------------------------
(* What may go wrong *)

\* With the tasks in order, no step makes one of the excluded faults.
LEMMA FaultStep ==
    ASSUME TypeOK, ConstructorOrder, DestructorOrder, TransportOrder, SendOrder,
           orderly => OrderlyOrder, Next
    PROVE  CallbacksFindTheirObjects' /\ FreedControllerIsQuiet' /\ OrderlyUseIsSafe'
  <1>. USE DEF contextVars, transportVars, appVars, mediaVars, rtcpVars, Fault
  <1>. DEFINE Pacer == "freedControllerInPacer"
  <1>0. fault = "none" /\ app # "gone" /\ UNCHANGED orderly
    BY DEF Next, Running
  <1>1. ASSUME fault' \in {"none", Pacer}
        PROVE  CallbacksFindTheirObjects' /\ FreedControllerIsQuiet' /\ OrderlyUseIsSafe'
    BY <1>1 DEF CallbacksFindTheirObjects, FreedControllerIsQuiet, OrderlyUseIsSafe
  <1>2. ASSUME controller' # "freed", ~orderly, CallbacksFindTheirObjects'
        PROVE  CallbacksFindTheirObjects' /\ FreedControllerIsQuiet' /\ OrderlyUseIsSafe'
    BY <1>0, <1>2 DEF FreedControllerIsQuiet, OrderlyUseIsSafe
  <1>4. CASE Application
    <2>1. CASE \E sdp \in Sdps : SetRemoteSdp(sdp)
      <3>1. \/ fault' = "none"
            \/ fault' = "nullController" /\ controller' = "null" /\ ~orderly
        BY <1>0, <2>1 DEF SetRemoteSdp, MayCallController
      <3>. QED
        BY <1>1, <1>2, <3>1 DEF CallbacksFindTheirObjects
    <2>2. CASE \E mid \in {"audio", "video"} : CreateOffer(mid)
      <3>1. \/ fault' = "none"
            \/ fault' = "nullController" /\ controller' = "null" /\ ~orderly
        BY <1>0, <2>2 DEF CreateOffer, MayCallController
      <3>. QED
        BY <1>1, <1>2, <3>1 DEF CallbacksFindTheirObjects
    <2>3. CASE FinishRemoteSdp \/ Destroy \/ FinishDestroy
      BY <1>0, <1>1, <2>3 DEF FinishRemoteSdp, Destroy, FinishDestroy
    <2>. QED
      BY <1>4, <2>1, <2>2, <2>3 DEF Application
  <1>5. CASE NetworkTask
    <2>0. 1 \in DOMAIN queue /\ queue[1] = Head(queue)
      BY <1>5, TaskTaken DEF Taken
    <2>1. CASE CreateNetwork \/ CreateTransport \/ ResetController \/ SendRtp
      BY <1>0, <1>1, <2>1 DEF CreateNetwork, CreateTransport, ResetController, SendRtp, Guarded
    <2>2. CASE CreateController
      <3>1. network
        BY <2>0, <2>2 DEF CreateController, IsNext, ConstructorOrder
      <3>. QED
        BY <1>0, <1>1, <2>2, <3>1 DEF CreateController
    <2>3. CASE CreateSend
      <3>1. app # "destroyed"
        BY <2>0, <2>3 DEF CreateSend, IsNext, DestructorOrder
      <3>2. controller' # "freed"
        BY <2>3, <3>1 DEF CreateSend, DestructorOrder
      <3>3. orderly => inRtcp = 0
        BY <2>0, <2>3 DEF CreateSend, IsNext, OrderlyOrder, OrderlyTasks, SendOrder
      <3>. QED
        BY <1>0, <1>1, <1>2, <2>3, <3>2, <3>3 DEF CreateSend, CallbacksFindTheirObjects
    <2>4. ASSUME NEW g, NEW what, Give(g, what), app # "destroyed", UNCHANGED controller,
                 orderly => g # 0 /\ g = owned
          PROVE  CallbacksFindTheirObjects' /\ FreedControllerIsQuiet' /\ OrderlyUseIsSafe'
      <3>1. controller' # "freed"
        BY <2>4 DEF DestructorOrder
      <3>2. \/ fault' = "none"
            \/ fault' \in {"nullTransport", "freedTransport"} /\ ~orderly
        BY <1>0, <2>4 DEF Give
      <3>. QED
        BY <1>1, <1>2, <3>1, <3>2 DEF CallbacksFindTheirObjects
    <2>5. CASE RemoteTask
      <3>1. app # "destroyed" /\ UNCHANGED controller /\ controller # "freed"
        BY <2>0, <2>5 DEF RemoteTask, IsNext, DestructorOrder
      <3>2. orderly => /\ Head(queue).desc = desc.id /\ desc.good
                       /\ Head(queue).ice # 0 /\ Head(queue).ice = owned
        BY <2>0, <2>5 DEF RemoteTask, IsNext, OrderlyOrder, OrderlyTasks, OrderlyState
      <3>3. \/ fault' = "none"
            \/ fault' \in {"freedDescription", "nullFingerprint"} /\ ~orderly
            \/ Give(Head(queue).ice, {"remoteParams", "fingerprint"})
        BY <1>0, <2>5, <3>2 DEF RemoteTask, Guarded
      <3>. QED
        BY <1>1, <1>2, <2>4, <3>1, <3>2, <3>3 DEF CallbacksFindTheirObjects
    <2>6. ASSUME NEW kind \in {"candidate", "gather"}, VisitTask(kind)
          PROVE  CallbacksFindTheirObjects' /\ FreedControllerIsQuiet' /\ OrderlyUseIsSafe'
      <3>1. app # "destroyed" /\ UNCHANGED controller
        BY <2>0, <2>6 DEF VisitTask, IsNext, DestructorOrder
      <3>2. fault' = "none" \/ (ices # 0 /\ Give(ices, {kind}))
        BY <1>0, <2>6 DEF VisitTask, Guarded
      <3>3. orderly /\ ices # 0 => ices = owned
        BY <3>1 DEF OrderlyOrder, OrderlyState
      <3>. QED
        BY <1>1, <2>4, <3>1, <3>2, <3>3
    <2>7. CASE LocalTask
      <3>1. app # "destroyed" /\ UNCHANGED controller
        BY <2>0, <2>7 DEF LocalTask, IsNext, DestructorOrder
      <3>2. orderly => Head(queue).mid = "audio" /\ ices # 0 /\ ices = owned
        BY <2>0, <2>7, <3>1 DEF LocalTask, IsNext, OrderlyOrder, OrderlyTasks, OrderlyState
      <3>3. \/ fault' = "none"
            \/ Give(IF Head(queue).mid = "audio" THEN ices ELSE 0, {"localParams"})
        BY <1>0, <2>7 DEF LocalTask, Guarded
      <3>. QED
        BY <1>1, <2>4, <3>1, <3>2, <3>3
    <2>. QED
      BY <1>5, <2>1, <2>2, <2>3, <2>5, <2>6, <2>7 DEF NetworkTask
  <1>6. CASE Callbacks
    <2>1. ASSUME NEW completed \in BOOLEAN, IceTransportStateChanged(completed)
          PROVE  send # 0
      <3>1. owned = Len(ice) /\ owned # 0 /\ "gather" \in ice[owned]
        BY <2>1 DEF IceTransportStateChanged, IceSteps, TransportOrder, DestructorOrder
      <3>2. owned \in DOMAIN ice
        BY <3>1 DEF TypeOK, CountTypes
      <3>. QED
        BY <3>1, <3>2 DEF SendOrder
    <2>2. fault' = "none"
      BY <1>0, <1>6, <2>1 DEF Callbacks, IceTransportStateChanged, OnRtcpPacketReceived
    <2>. QED
      BY <1>1, <2>2
  <1>7. CASE Signalling
    <2>1. fault' = "none"
      BY <1>0, <1>7 DEF Signalling, BeginRtcp, EndRtcp, SendOrder, TypeOK, CountTypes
    <2>. QED
      BY <1>1, <2>1
  <1>8. CASE Media
    <2>1. CASE SendVideoEncode
      <3>1. \/ fault' = "none"
            \/ fault' = "nullSend" /\ ~orderly /\ controller' # "freed"
        BY <1>0, <2>1 DEF SendVideoEncode, DestructorOrder
      <3>. QED
        BY <1>1, <1>2, <3>1 DEF CallbacksFindTheirObjects
    <2>2. CASE GeneratePadding \/ SendPacket
      BY <1>0, <1>1, <2>2 DEF GeneratePadding, SendPacket
    <2>. QED
      BY <1>8, <2>1, <2>2 DEF Media
  <1>. QED
    BY <1>4, <1>5, <1>6, <1>7, <1>8 DEF Next

-----------------------------------------------------------------------------
\* The constructor posts its tasks in order.
LEMMA InitOrder == Init => IInv
  <1>1. /\ DOMAIN ConstructorTasks = 1 .. 2
        /\ ConstructorTasks[1].kind = "createNetwork"
        /\ ConstructorTasks[2].kind = "createController"
    BY DEF ConstructorTasks, Task
  <1>2. Init => Safe
    BY DEF Init, Safe, CallbacksFindTheirObjects, FreedControllerIsQuiet, OrderlyUseIsSafe
  <1>3. Init => ConstructorOrder /\ DestructorOrder
    BY <1>1 DEF Init, ConstructorOrder, DestructorOrder
  <1>4. Init => TransportOrder /\ SendOrder
    BY <1>1 DEF Init, TransportOrder, SendOrder
  <1>5. Init => OrderlyOrder
    BY <1>1 DEF Init, OrderlyOrder, OrderlyState, OrderlyTasks
  <1>. QED
    BY <1>2, <1>3, <1>4, <1>5 DEF IInv, TaskOrder

\* Every step of every thread keeps the order and makes no excluded fault.
LEMMA NextOrder ==
    ASSUME TypeOK, TypeOK', IInv, [Next]_vars
    PROVE  IInv'
  <1>1. CASE UNCHANGED vars
    BY <1>1 DEF vars, contextVars, transportVars, mediaVars, rtcpVars, appVars, IInv, Safe,
       CallbacksFindTheirObjects, FreedControllerIsQuiet, OrderlyUseIsSafe, TaskOrder,
       ConstructorOrder, DestructorOrder, TransportOrder, SendOrder, OrderlyOrder,
       OrderlyState, OrderlyTasks
  <1>2. CASE Next
    <2>1. TaskOrder /\ UNCHANGED orderly
      BY <1>2 DEF Next, Running, IInv
    <2>2. Safe'
      BY <1>2, <2>1, FaultStep DEF Safe, TaskOrder
    <2>3. app' # "gone" => TaskOrder'
      BY <1>2, <2>1, ConstructorStep, DestructorStep, TransportStep, SendStep, OrderlyStep
         DEF TaskOrder
    <2>. QED
      BY <2>2, <2>3 DEF IInv
  <1>. QED
    BY <1>1, <1>2

\* The network thread's tasks are always in the order that makes them safe, as
\* long as nothing has faulted and the connection is there.
THEOREM OrderInvariant == Spec => []IInv
  <1>1. TypeOK /\ TypeOK' /\ IInv /\ [Next]_vars => IInv'
    BY NextOrder
  <1>. QED
    BY InitOrder, Types, <1>1, PTL DEF Spec

\* Whatever the application does and whenever: a callback of a transport finds
\* transport_send_ and rtp_rtcp_impl_, and the controller's constructor finds the
\* network manager, for any number of descriptions, offers, frames and RTCP
\* packets.
THEOREM CallbacksAreSafe == Spec => []CallbacksFindTheirObjects
  <1>1. IInv => CallbacksFindTheirObjects
    BY DEF IInv, Safe
  <1>. QED
    BY OrderInvariant, <1>1, PTL

\* The tasks of the controller that the destructor has outrun do nothing: after
\* the controller is freed only the pacer can reach it.
THEOREM FreedControllerStaysQuiet == Spec => []FreedControllerIsQuiet
  <1>1. IInv => FreedControllerIsQuiet
    BY DEF IInv, Safe
  <1>. QED
    BY OrderInvariant, <1>1, PTL

\* An application that uses the connection in an orderly way meets no null and
\* no freed object on any thread, but for the pacer's use of the controller.
THEOREM OrderlyUse == Spec => []OrderlyUseIsSafe
  <1>1. IInv => OrderlyUseIsSafe
    BY DEF IInv, Safe
  <1>. QED
    BY OrderInvariant, <1>1, PTL
=============================================================================
