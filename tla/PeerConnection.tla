--------------------------- MODULE PeerConnection ---------------------------
(***************************************************************************)
(* p2p_peer_connection, its transport_controller and its ConnectionContext *)
(* on their threads.  The application's thread makes the calls; they post  *)
(* tasks to the network thread, which runs them in order, or Invoke it and *)
(* wait.  RTCP is handed on to the signalling thread.  The encoder's and   *)
(* the pacer's threads use the members without posting.                    *)
(*                                                                         *)
(* Objects that are replaced are numbered: 0 is a null pointer, n the n-th *)
(* object, and using a number that is no longer the live one is a use      *)
(* after free.  A step that dereferences a null or freed pointer records   *)
(* which in `fault`, and nothing runs after it.  Only the first media      *)
(* section of a description gets transports, so one set of them is         *)
(* modelled.                                                               *)
(***************************************************************************)
EXTENDS Naturals, Sequences

CONSTANTS
    MaxRemote,     \* bound: calls of set_remote_sdp
    MaxOffers,     \* bound: calls of create_offer
    MaxFrames,     \* bound: packets waiting in the pacer
    MaxQueue,      \* bound: tasks on the network thread when the pacer sends
    MaxRtcp        \* bound: RTCP packets waiting for the signalling thread

ASSUME BoundsAssumption ==
    /\ MaxRemote \in Nat /\ MaxOffers \in Nat /\ MaxFrames \in Nat
    /\ MaxQueue \in Nat /\ MaxRtcp \in Nat

VARIABLES
    orderly,     \* does the application wait for the constructor's tasks and keep
                 \* to one good remote description, one offer after it, media, and
                 \* an empty pacer when it lets the connection go?
    queue,       \* the network thread's task queue
    network,     \* default_network_manager_ and default_socket_factory_ exist
    controller,  \* transport_controller_: "null", "alive" or "freed"
    owned,       \* ICE and DTLS transport owned by the JsepTransportCollection
    ices,        \* the one in ices_ and dtls_transports_
    ice,         \* per transport: what it was given
    desc,        \* remote_desc_: [id, good], its fingerprint being set or not
    send,        \* transport_send_ and rtp_rtcp_impl_
    paced,       \* packets waiting in transport_send_'s pacer
    rtcp,        \* RTCP packets posted to the signalling thread
    inRtcp,      \* rtp_rtcp_impl_ the signalling thread is in
    iceState,    \* ice_state
    app,         \* where the application's thread is
    offers,      \* number of create_offer calls
    fault        \* what was dereferenced wrongly, or "none"

contextVars == <<network, controller>>
transportVars == <<owned, ices, ice>>
mediaVars == <<send, paced, iceState>>
rtcpVars == <<rtcp, inRtcp>>
appVars == <<desc, app, offers>>

vars == <<orderly, queue, contextVars, transportVars, mediaVars, rtcpVars, appVars, fault>>

\* What a transport is given: by set_remote_sdp, set_remote_candidate and
\* set_local_sdp.
IceSteps == {"remoteParams", "candidate", "localParams", "gather"}
Steps == IceSteps \cup {"fingerprint"}

Task(kind) == [kind |-> kind]

Post(kind) == queue' = Append(queue, Task(kind))

Fault(what) == fault' = what

\* Every step is one of a connection that is still there; what kind of
\* application it has does not change.
Running == fault = "none" /\ app # "gone" /\ UNCHANGED orderly

-----------------------------------------------------------------------------
(* The application's thread *)

\* A method of the controller is called through transport_controller_, which
\* the constructor leaves for the network thread to set.
MayCallController == controller = "alive" \/ ~orderly

Sdps == {"good", "malformed", "badFingerprint"}

\* ParseTransportInfo and ParseCandidates over the lines of the SDP.  For a
\* fingerprint line that is no good the first returns -1, which converts to
\* true.
ParseTransportInfo(sdp) == sdp # "malformed"

\* set_remote_sdp, up to the controller's Invoke.  remote_desc_ is replaced
\* before the SDP is parsed.
SetRemoteSdp(sdp) ==
    /\ app = "idle" /\ desc.id < MaxRemote /\ MayCallController
    /\ orderly => desc.id = 0 /\ sdp = "good"
    /\ desc' = [id |-> desc.id + 1, good |-> sdp = "good"]
    /\ IF ~ParseTransportInfo(sdp) THEN UNCHANGED <<queue, app, fault>>
       ELSE IF controller = "null"
       THEN Fault("nullController") /\ UNCHANGED <<queue, app>>
       ELSE Post("createTransport") /\ app' = "remote" /\ UNCHANGED fault
    /\ UNCHANGED <<contextVars, transportVars, mediaVars, rtcpVars, offers>>

\* Mutant: the transport is looked up in ices_ before it is inserted.
RemoteTasksFromMap == <<[kind |-> "remote", ice |-> ices, desc |-> desc.id], Task("candidate")>>

\* The tasks it posts, with the pointers they capture.
RemoteTasks == <<[kind |-> "remote", ice |-> owned, desc |-> desc.id], Task("candidate")>>

\* The rest of it, once the network thread has run the Invoke: insert() keeps
\* an entry that is already there.
FinishRemoteSdp ==
    /\ app = "remoteCreated"
    /\ app' = "idle"
    /\ ices' = IF ices = 0 THEN owned ELSE ices
    /\ queue' = queue \o RemoteTasks
    /\ UNCHANGED <<contextVars, owned, ice, mediaVars, rtcpVars, desc, offers, fault>>

\* Mutant: set_local_sdp is called before the send side is posted.
SendSideLast(mid) == <<[kind |-> "local", mid |-> mid], Task("gather"), Task("createSend")>>

\* Mutant: the transport is not told to gather.
NoGathering(mid) == <<Task("createSend"), [kind |-> "local", mid |-> mid]>>

\* The tasks of create_offer and of the set_local_sdp it calls; `mid` is the
\* first section of the local description.
OfferTasks(mid) == <<Task("createSend"), [kind |-> "local", mid |-> mid], Task("gather")>>

CreateOffer(mid) ==
    /\ app = "idle" /\ offers < MaxOffers /\ MayCallController
    /\ orderly => ices # 0 /\ mid = "audio" /\ offers = 0
    /\ offers' = offers + 1
    /\ IF controller = "null"
       THEN Fault("nullController") /\ UNCHANGED queue
       ELSE queue' = queue \o OfferTasks(mid) /\ UNCHANGED fault
    /\ UNCHANGED <<contextVars, transportVars, mediaVars, rtcpVars, desc, app>>

\* ~p2p_peer_connection: the Invoke that frees the controller ...
Destroy ==
    /\ app = "idle"
    /\ orderly => paced = 0
    /\ Post("resetController")
    /\ app' = "destroy"
    /\ UNCHANGED <<contextVars, transportVars, mediaVars, rtcpVars, desc, offers, fault>>

\* ... then the context's threads are stopped and the members freed.
FinishDestroy ==
    /\ app = "destroyed" /\ inRtcp = 0
    /\ app' = "gone" /\ queue' = <<>> /\ rtcp' = 0
    /\ network' = FALSE /\ send' = 0 /\ paced' = 0
    /\ UNCHANGED <<controller, transportVars, inRtcp, iceState, desc, offers, fault>>

-----------------------------------------------------------------------------
(* The network thread *)

IsNext(kind) == queue # <<>> /\ Head(queue).kind = kind

\* ConnectionContext's constructor.
CreateNetwork ==
    /\ IsNext("createNetwork")
    /\ network' = TRUE
    /\ UNCHANGED <<controller, transportVars, mediaVars, rtcpVars, appVars, fault>>

\* p2p_peer_connection's: the controller's port allocator takes the network
\* manager and the socket factory.
CreateController ==
    /\ IsNext("createController")
    /\ controller' = "alive"
    /\ IF network THEN UNCHANGED fault ELSE Fault("nullNetworkManager")
    /\ UNCHANGED <<network, transportVars, mediaVars, rtcpVars, appVars>>

\* CreateIceTransport, CreateDtlsTransport and CreateDtlsSrtpTransport: the
\* three on top of each other, their signals connected to the controller, with
\* nothing of either side yet.
NewTransport == {}

\* The Invoke in set_remote_sdp: RegisterTransport frees the transports that
\* were registered for the section.
CreateTransport ==
    /\ IsNext("createTransport")
    /\ owned' = owned + 1
    /\ ice' = Append(ice, NewTransport)
    /\ app' = "remoteCreated"
    /\ UNCHANGED <<contextVars, ices, mediaVars, rtcpVars, desc, offers, fault>>

\* Mutant: the task runs whether the controller is there or not.
Unguarded(action) ==
    IF controller = "alive" THEN action
    ELSE Fault("freedController") /\ UNCHANGED ice

\* A task of the controller runs only while its ScopedTaskSafety is alive.
Guarded(action) == IF controller = "alive" THEN action ELSE UNCHANGED <<ice, fault>>

\* Transport g is used.
Give(g, what) ==
    IF g = 0 \/ g # owned
    THEN Fault(IF g = 0 THEN "nullTransport" ELSE "freedTransport") /\ UNCHANGED ice
    ELSE ice' = [ice EXCEPT ![g] = @ \cup what] /\ UNCHANGED fault

\* SetRemoteIceParameters and SetRemoteFingerprint with pointers captured by
\* set_remote_sdp: the transport, and the description in remote_desc_.
RemoteTask ==
    /\ IsNext("remote")
    /\ LET t == Head(queue)
       IN  Guarded(IF t.desc # desc.id
                   THEN Fault("freedDescription") /\ UNCHANGED ice
                   ELSE IF ~desc.good
                   THEN Fault("nullFingerprint") /\ UNCHANGED ice
                   ELSE Give(t.ice, {"remoteParams", "fingerprint"}))
    /\ UNCHANGED <<contextVars, owned, ices, mediaVars, rtcpVars, appVars>>

\* set_remote_candidate and the second task of set_local_sdp visit ices_.
VisitTask(kind) ==
    /\ IsNext(kind)
    /\ Guarded(IF ices = 0 THEN UNCHANGED <<ice, fault>> ELSE Give(ices, {kind}))
    /\ UNCHANGED <<contextVars, owned, ices, mediaVars, rtcpVars, appVars>>

\* The first indexes it by the section's name, and [] makes a null entry.
LocalTask ==
    /\ IsNext("local")
    /\ Guarded(Give(IF Head(queue).mid = "audio" THEN ices ELSE 0, {"localParams"}))
    /\ UNCHANGED <<contextVars, owned, ices, mediaVars, rtcpVars, appVars>>

\* transport_send_ and rtp_rtcp_impl_ are replaced, whoever is using them.
CreateSend ==
    /\ IsNext("createSend")
    /\ send' = send + 1
    /\ paced' = 0
    /\ IF inRtcp # 0 THEN Fault("freedRtpRtcp") ELSE UNCHANGED fault
    /\ UNCHANGED <<contextVars, transportVars, iceState, rtcpVars, appVars>>

ResetController ==
    /\ IsNext("resetController")
    /\ controller' = "freed"
    /\ owned' = 0
    /\ app' = "destroyed"
    /\ UNCHANGED <<network, ices, ice, mediaVars, rtcpVars, desc, offers, fault>>

\* send_rtp_packet's task looks the transport up again by its name.
SendRtp ==
    /\ IsNext("sendRtp")
    /\ Guarded(UNCHANGED <<ice, fault>>)
    /\ UNCHANGED <<contextVars, owned, ices, mediaVars, rtcpVars, appVars>>

NetworkTask ==
    /\ \/ CreateNetwork \/ CreateController \/ CreateTransport \/ RemoteTask
       \/ VisitTask("candidate") \/ LocalTask \/ VisitTask("gather")
       \/ CreateSend \/ ResetController \/ SendRtp
    /\ queue' = Tail(queue)

\* Callbacks of the owned transport (libice).  It completes or fails once it
\* has its parameters and has gathered, and transport_send_ is told ...
IceTransportStateChanged(completed) ==
    /\ owned # 0 /\ IceSteps \subseteq ice[owned]
    /\ iceState' = completed
    /\ IF send = 0 THEN Fault("nullSendInCallback") ELSE UNCHANGED fault
    /\ UNCHANGED <<queue, contextVars, transportVars, send, paced, rtcpVars, appVars>>

\* ... and an RTCP packet is handed on when there is an rtp_rtcp_impl_.
OnRtcpPacketReceived ==
    /\ owned # 0 /\ ice[owned] = Steps
    /\ send # 0 /\ rtcp < MaxRtcp
    /\ rtcp' = rtcp + 1
    /\ UNCHANGED <<queue, contextVars, transportVars, mediaVars, inRtcp, appVars, fault>>

-----------------------------------------------------------------------------
(* The other threads *)

\* The signalling thread enters and leaves IncomingRtcpPacket.
BeginRtcp ==
    /\ rtcp > 0 /\ inRtcp = 0
    /\ rtcp' = rtcp - 1
    /\ inRtcp' = send
    /\ IF send = 0 THEN Fault("nullRtpRtcpInCallback") ELSE UNCHANGED fault
    /\ UNCHANGED <<queue, contextVars, transportVars, mediaVars, appVars>>

EndRtcp ==
    /\ inRtcp # 0
    /\ inRtcp' = 0
    /\ UNCHANGED <<queue, contextVars, transportVars, mediaVars, rtcp, appVars, fault>>

\* SendVideoEncode on the encoder's thread.
SendVideoEncode ==
    /\ app = "idle" /\ paced < MaxFrames
    /\ orderly => send # 0
    /\ IF send = 0 THEN Fault("nullSend") /\ UNCHANGED paced
                   ELSE paced' = paced + 1 /\ UNCHANGED fault
    /\ UNCHANGED <<queue, contextVars, transportVars, send, iceState, rtcpVars, appVars>>

\* GeneratePadding: the pacer pads and probes by itself once the network is up.
GeneratePadding ==
    /\ send # 0 /\ iceState /\ paced < MaxFrames
    /\ paced' = paced + 1
    /\ UNCHANGED <<queue, contextVars, transportVars, send, iceState, rtcpVars, appVars, fault>>

\* PacketSender::SendPacket on the pacer's thread.
SendPacket ==
    /\ paced > 0 /\ Len(queue) < MaxQueue
    /\ paced' = paced - 1
    /\ IF controller = "alive" THEN Post("sendRtp") /\ UNCHANGED fault
       ELSE Fault("freedControllerInPacer") /\ UNCHANGED queue
    /\ UNCHANGED <<contextVars, transportVars, send, iceState, rtcpVars, appVars>>

-----------------------------------------------------------------------------
\* The constructor has posted the creation of the context's and its own parts.
ConstructorTasks == <<Task("createNetwork"), Task("createController")>>

Init ==
    /\ orderly \in BOOLEAN
    /\ queue = ConstructorTasks
    /\ network = FALSE /\ controller = "null"
    /\ owned = 0 /\ ices = 0 /\ ice = <<>>
    /\ desc = [id |-> 0, good |-> TRUE]
    /\ send = 0 /\ paced = 0 /\ iceState = FALSE
    /\ rtcp = 0 /\ inRtcp = 0
    /\ app = "idle" /\ offers = 0
    /\ fault = "none"

Application ==
    \/ \E sdp \in Sdps : SetRemoteSdp(sdp)
    \/ FinishRemoteSdp
    \/ \E mid \in {"audio", "video"} : CreateOffer(mid)
    \/ Destroy
    \/ FinishDestroy

Callbacks ==
    \/ \E completed \in BOOLEAN : IceTransportStateChanged(completed)
    \/ OnRtcpPacketReceived

Signalling == BeginRtcp \/ EndRtcp

Media == SendVideoEncode \/ GeneratePadding \/ SendPacket

Next ==
    /\ Running
    /\ Application \/ NetworkTask \/ Callbacks \/ Signalling \/ Media

\* The network thread runs what is posted to it, and a thread that is inside a
\* call of the connection gets on with it.  Nobody has to make a call.
Fairness ==
    /\ WF_vars(Running /\ NetworkTask)
    /\ WF_vars(Running /\ FinishRemoteSdp)

Spec == Init /\ [][Next]_vars /\ Fairness

-----------------------------------------------------------------------------
(* Properties *)

\* An application that waits for the constructor's tasks, then sets one good
\* remote description, makes one offer and drains the pacer before it lets the
\* connection go, makes no thread use a null or freed object: the tasks find
\* the transport, the description and the send side they were posted for,
\* whatever has been posted behind them.  Only the pacer, which pads by itself,
\* may still reach the controller the destructor has freed.
OrderlyUseIsSafe ==
    orderly => fault \in {"none", "freedControllerInPacer"}

\* Whatever the application does and whenever, a callback of a transport finds
\* the transport_send_ and rtp_rtcp_impl_ it goes to, and the controller finds
\* the network manager: the order the tasks are posted in sees to it.
CallbacksFindTheirObjects ==
    fault \notin {"nullNetworkManager", "nullSendInCallback",
                  "nullRtpRtcpInCallback"}

\* Whatever the application does, a task of the controller that outlives it
\* does nothing: once the controller is freed only the pacer can still fault.
FreedControllerIsQuiet ==
    controller = "freed" => fault \in {"none", "freedControllerInPacer"}

\* In orderly use every offer sets the transport going: it gets the remote and
\* the local parameters, the fingerprint and the candidate, and gathers, even
\* if the connection is being destroyed behind it.
OffersTakeEffect == (orderly /\ offers > 0) ~> (ice # <<>> /\ ice[Len(ice)] = Steps)
=============================================================================
