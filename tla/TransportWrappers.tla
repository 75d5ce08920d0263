-------------------------- MODULE TransportWrappers --------------------------
(***************************************************************************)
(* DtlsTransport, IceTransportWithPointer and SctpTransport                *)
(* (dtls_transport.cpp, ice_transport.cc, sctp_transport.cc): wrappers     *)
(* that own libice's and the SCTP library's transports and keep a          *)
(* snapshot of their state.  Everything happens on the network thread,     *)
(* except that other threads read a DTLS snapshot between any two locked   *)
(* sections.                                                               *)
(***************************************************************************)
CONSTANTS
    Transports,   \* DtlsTransport objects
    Watched,      \* those that are observed and read on another thread
    Null          \* no DtlsTransport

ASSUME TransportsAssumption == 
    Null \notin Transports /\ Watched \subseteq Transports

VARIABLES
    dtls,      \* the DtlsTransports
    sctp,      \* the SctpTransport
    net,       \* where the network thread is
    seen,      \* the last Information() on another thread said closed
    signals,   \* libice's transport signals its state when it is destroyed
    crashed,   \* a failed RTC_CHECK or a null pointer: the process is gone
    misused    \* history: a sequence of calls JsepTransport does not make

vars == <<dtls, sctp, net, seen, signals, crashed, misused>>

DtlsStates == {"new", "connecting", "connected", "closed", "failed"}

Ended == {"closed", "failed"}

\* What libice's transport may do next; a new remote fingerprint takes it
\* back to "new".
DtlsSteps(state) ==
    CASE state = "new" -> {"connecting", "closed", "failed"}
      [] state = "connecting" -> {"new", "connected", "closed", "failed"}
      [] state = "connected" -> {"new", "closed", "failed"}
      [] state = "failed" -> {"closed"}
      [] OTHER -> {}

Idle == [at |-> "idle", t |-> Null, event |-> FALSE]

\* The constructor.
NewDtls ==
    [state |-> "new",        \* dtls_state() of the libice transport
     owned |-> TRUE,         \* internal_dtls_transport_ is set
     exists |-> TRUE,        \* the libice transport has not been destroyed
     ice |-> TRUE,           \* ice_transport_ points to its ICE transport
     info |-> "new",         \* info_: its state
     tls |-> "none",         \* and its TLS parameters
     observer |-> FALSE,     \* observer_
     told |-> "nothing",     \* what the observer was told last
     sctp |-> FALSE]         \* SctpTransport has subscribed to it

NewSctp ==
    [owned |-> TRUE, state |-> "new", dtls |-> Null, infoDtls |-> Null,
     started |-> FALSE, observer |-> FALSE, told |-> "nothing",
     late |-> FALSE]         \* history: its association was heard of too late

Init ==
    /\ dtls = [t \in Transports |-> NewDtls]
    /\ sctp = NewSctp
    /\ net = Idle
    /\ seen = [t \in Watched |-> FALSE]
    /\ signals \in BOOLEAN
    /\ crashed = FALSE /\ misused = FALSE

Quiet == net = Idle /\ ~crashed

-----------------------------------------------------------------------------
(* DtlsTransport *)

\* UpdateInformation; the TLS parameters are complete or they are left out.
Updated(d, complete) ==
    IF ~d.owned THEN [d EXCEPT !.info = "closed", !.tls = "none"]
    ELSE [d EXCEPT !.info = d.state,
                   !.tls = IF d.state # "connected" THEN "none"
                           ELSE IF complete THEN "complete" ELSE "partial"]

\* observer_->OnStateChange(Information())
Told(d) == IF d.observer THEN [d EXCEPT !.told = d.info] ELSE d

\* OnInternalDtlsState
OnInternalDtlsState(d, complete) == Told(Updated(d, complete))

-----------------------------------------------------------------------------
(* SctpTransport *)

\* UpdateInformation
SctpUpdated(s, state) ==
    [s EXCEPT !.state = state, !.infoDtls = s.dtls,
              !.told = IF s.observer /\ state # s.state THEN state ELSE @]

\* The RTC_CHECK of OnDtlsStateChange, null dereference included.
IsCurrentDtls(t) == sctp.dtls = t /\ dtls[t].owned

\* Mutant: a DTLS transport that fails is not taken for closed.
ClosedOnly(t, state) ==
    IF ~dtls[t].sctp THEN UNCHANGED <<sctp, crashed>>
    ELSE IF ~IsCurrentDtls(t) THEN crashed' = TRUE /\ UNCHANGED sctp
    ELSE /\ sctp' = IF state = "closed" THEN SctpUpdated(sctp, "closed") ELSE sctp
         /\ UNCHANGED crashed

\* OnDtlsStateChange of a transport it has subscribed to.
OnDtlsStateChange(t, state) ==
    IF ~dtls[t].sctp THEN UNCHANGED <<sctp, crashed>>
    ELSE IF ~IsCurrentDtls(t) THEN crashed' = TRUE /\ UNCHANGED sctp
    ELSE /\ sctp' = IF state \in Ended THEN SctpUpdated(sctp, "closed") ELSE sctp
         /\ UNCHANGED crashed

\* Mutant: SetDtlsTransport subscribes and forgets the transport.
SubscribeOnly(t) ==
    /\ Quiet /\ t # Null /\ dtls[t].owned
    /\ sctp' = IF sctp.state = "new" THEN SctpUpdated(sctp, "connecting") ELSE sctp
    /\ dtls' = [dtls EXCEPT ![t].sctp = TRUE]
    /\ misused' = (misused \/ sctp.dtls # Null \/ dtls[t].state # "new")
    /\ UNCHANGED <<net, seen, signals, crashed>>

\* SetDtlsTransport
SetSctpDtlsTransport(t) ==
    /\ Quiet
    /\ t # Null => dtls[t].owned
    /\ LET next == IF sctp.owned /\ t # Null /\ sctp.state = "new"
                   THEN "connecting" ELSE sctp.state
       IN  sctp' = SctpUpdated([sctp EXCEPT !.dtls = t], next)
    /\ dtls' = IF sctp.owned /\ t # Null THEN [dtls EXCEPT ![t].sctp = TRUE]
               ELSE dtls
    \* JsepTransport's constructor does it, once, with a new transport.
    /\ misused' = (misused \/ sctp.dtls # Null \/ sctp.state # "new"
                   \/ t = Null \/ (t # Null /\ dtls[t].state # "new"))
    /\ UNCHANGED <<net, seen, signals, crashed>>

\* Start calls the SCTP library, which may refuse the parameters.
StartSctp(ok) ==
    /\ Quiet
    /\ IF ~sctp.owned THEN crashed' = TRUE /\ misused' = TRUE /\ UNCHANGED sctp
       ELSE /\ sctp' = LET s == [sctp EXCEPT !.started = TRUE]
                       IN  IF ok THEN s ELSE SctpUpdated(s, "closed")
            /\ UNCHANGED <<crashed, misused>>
    /\ UNCHANGED <<dtls, net, seen, signals>>

\* The DTLS transport that the SctpTransport had has ended, or it has none.
DtlsHasEnded ==
    \/ sctp.dtls = Null
    \/ ~dtls[sctp.dtls].owned \/ dtls[sctp.dtls].state \in Ended

\* The SCTP library has an association once it has been started, and says so
\* when it gets to it: the handler looks neither at its own state nor at the
\* DTLS transport, which may have ended meanwhile.
OnAssociationChangeCommunicationUp ==
    /\ Quiet /\ sctp.owned /\ sctp.started
    /\ sctp' = SctpUpdated([sctp EXCEPT !.late = DtlsHasEnded], "connected")
    /\ UNCHANGED <<dtls, net, seen, signals, crashed, misused>>

RegisterSctpObserver(on) ==
    /\ Quiet /\ sctp.observer # on
    /\ sctp' = [sctp EXCEPT !.observer = on, !.told = "nothing"]
    /\ UNCHANGED <<dtls, net, seen, signals, crashed, misused>>

\* Clear
SctpCleared == SctpUpdated([sctp EXCEPT !.dtls = Null, !.owned = FALSE], "closed")

-----------------------------------------------------------------------------
(* The network thread on a DtlsTransport *)

\* libice's transport changes its state and calls its subscribers, the wrapper
\* first, the SctpTransport after it.
SetDtlsState(t, state, complete) ==
    /\ Quiet /\ dtls[t].owned /\ state \in DtlsSteps(dtls[t].state)
    /\ dtls' = [dtls EXCEPT ![t] =
                    OnInternalDtlsState([@ EXCEPT !.state = state], complete)]
    /\ OnDtlsStateChange(t, state)
    /\ UNCHANGED <<net, seen, signals, misused>>

RegisterObserver(t, on) ==
    /\ Quiet /\ dtls[t].observer # on
    /\ dtls' = [dtls EXCEPT ![t].observer = on, ![t].told = "nothing"]
    /\ UNCHANGED <<sctp, net, seen, signals, crashed, misused>>

\* Mutant: the pointer to the ICE transport is kept.
TakenWithIce(d) == [d EXCEPT !.owned = FALSE]

\* Mutant: the snapshot is reset until UpdateInformation.
TakenAndReset(d) == [d EXCEPT !.owned = FALSE, !.ice = FALSE, !.info = "new"]

\* The locked section of Clear, with IceTransportWithPointer::Clear.
Taken(d) == [d EXCEPT !.owned = FALSE, !.ice = FALSE]

\* Clear, to the end of its locked section.  JsepTransport's destructor clears
\* its SctpTransport first; a DtlsTransport cleared on its own takes the
\* transport from under an SctpTransport that uses it.
Clear(t, jsep) ==
    /\ Quiet /\ dtls[t].owned
    /\ sctp' = IF jsep /\ sctp.owned
               THEN [SctpCleared EXCEPT !.observer = FALSE, !.told = "nothing"]
               ELSE sctp
    /\ dtls' = [dtls EXCEPT ![t] = Taken(@)]
    /\ net' = [at |-> "taken", t |-> t, event |-> dtls[t].state # "closed"]
    /\ misused' = (misused \/ IF jsep THEN sctp.dtls \notin {t, Null}
                              ELSE dtls[t].sctp)
    /\ UNCHANGED <<seen, signals, crashed>>

\* Mutant: the observer is told only.
TellOnly(t) ==
    dtls' = [dtls EXCEPT ![t] = IF net.event THEN Told(@) ELSE @]

\* The rest of Clear's body: UpdateInformation and the observer.
FinishClear(t) ==
    dtls' = [dtls EXCEPT ![t] =
                IF net.event THEN Told(Updated(@, FALSE)) ELSE Updated(@, FALSE)]

\* Mutant: the transport is let go of and never destroyed.
LeakTransport ==
    /\ ~crashed /\ net.at = "taken"
    /\ FinishClear(net.t)
    /\ net' = Idle
    /\ UNCHANGED <<sctp, seen, signals, crashed, misused>>

EndClear ==
    /\ ~crashed /\ net.at = "taken"
    /\ FinishClear(net.t)
    /\ net' = [net EXCEPT !.at = "release"]
    /\ UNCHANGED <<sctp, seen, signals, crashed, misused>>

\* transport_to_release goes out of scope: the libice transport and its ICE
\* transport are gone, and if its destructor signals, both subscribers hear it.
Release ==
    /\ ~crashed /\ net.at = "release"
    /\ LET d == [dtls[net.t] EXCEPT !.exists = FALSE]
       IN  dtls' = [dtls EXCEPT ![net.t] =
                       IF signals THEN OnInternalDtlsState(d, FALSE) ELSE d]
    /\ IF signals THEN OnDtlsStateChange(net.t, dtls[net.t].state)
       ELSE UNCHANGED <<sctp, crashed>>
    /\ net' = Idle
    /\ UNCHANGED <<seen, signals, misused>>

\* Another thread calls Information().
Read(t) ==
    /\ ~crashed
    /\ seen' = [seen EXCEPT ![t] = dtls[t].info = "closed"]
    /\ UNCHANGED <<dtls, sctp, net, signals, crashed, misused>>

Next ==
    \/ \E t \in Transports :
        \/ SetSctpDtlsTransport(t)
        \/ \E state \in DtlsStates, complete \in BOOLEAN :
               /\ t \notin Watched => complete
               /\ SetDtlsState(t, state, complete)
        \/ \E jsep \in BOOLEAN : Clear(t, jsep)
    \/ \E t \in Watched : Read(t) \/ \E on \in BOOLEAN : RegisterObserver(t, on)
    \/ SetSctpDtlsTransport(Null)
    \/ \E ok \in BOOLEAN : StartSctp(ok)
    \/ OnAssociationChangeCommunicationUp
    \/ \E on \in BOOLEAN : RegisterSctpObserver(on)
    \/ EndClear
    \/ Release

\* The network thread does not stop in the middle of Clear.
Spec == Init /\ [][Next]_vars /\ WF_vars(EndClear) /\ WF_vars(Release)

-----------------------------------------------------------------------------
(* Properties *)

SctpStates == {"new", "connecting", "connected", "closed"}

\* Types of the wrappers' members.
TypeOK ==
    /\ dtls \in [Transports ->
           [state : DtlsStates, owned : BOOLEAN, exists : BOOLEAN, ice : BOOLEAN,
            info : DtlsStates, tls : {"none", "complete", "partial"},
            observer : BOOLEAN, told : DtlsStates \cup {"nothing"},
            sctp : BOOLEAN]]
    /\ sctp \in [owned : BOOLEAN, state : SctpStates,
                 dtls : Transports \cup {Null}, infoDtls : Transports \cup {Null},
                 started : BOOLEAN, late : BOOLEAN,
                 observer : BOOLEAN, told : SctpStates \cup {"nothing"}]
    /\ net \in [at : {"idle", "taken", "release"},
                t : Transports \cup {Null}, event : BOOLEAN]
    /\ seen \in [Watched -> BOOLEAN]
    /\ signals \in BOOLEAN /\ crashed \in BOOLEAN /\ misused \in BOOLEAN

\* "ensure that Clear() is called before the underlying IceTransport is
\* deallocated" (ice_transport.h:33): no wrapper points to an ICE transport
\* that its DTLS transport has taken with it.
IcePointerIsLive == \A t \in Transports : dtls[t].ice => dtls[t].exists

\* Whenever the network thread is between two calls, the snapshot is the state
\* of the transport, closed after Clear, and an observer that was told anything
\* was told that state last.
SnapshotIsCurrent ==
    Quiet => \A t \in Transports :
        LET d == dtls[t]
        IN  /\ d.info = IF d.owned THEN d.state ELSE "closed"
            /\ d.told \in {"nothing", d.info}
            /\ d.tls # "none" <=> d.info = "connected"

\* The same of SctpTransport: its observer knows the state, and the DTLS
\* transport in the snapshot is the one in use.
SctpSnapshotIsCurrent ==
    /\ sctp.told \in {"nothing", sctp.state}
    /\ sctp.infoDtls = sctp.dtls

\* What other threads read of the two wrappers, and what observers were told,
\* is the state of the transports (Information, UpdateInformation).
SnapshotsAreCurrent ==
    /\ SnapshotIsCurrent
    /\ SctpSnapshotIsCurrent

\* Used as JsepTransport uses it, SctpTransport is connected without a live
\* DTLS transport exactly if it heard of its association after the transport
\* had ended: an end that comes later closes it, on every way to it through
\* restarts, observers and Clear, and one that came before never does
\* (OnAssociationChangeCommunicationUp, OnDtlsStateChange).  A DTLS transport
\* that starts again leaves it connected.
WithoutDtlsOnlyIfLate ==
    ~misused /\ ~crashed /\ sctp.state = "connected" => (DtlsHasEnded <=> sctp.late)

\* The subscription is never taken back, so OnDtlsStateChange may find another
\* DTLS transport or none.  As JsepTransport uses them this takes a transport
\* that signals when it is destroyed.
CrashNeedsStaleSubscription ==
    crashed => misused \/ (signals /\ \E t \in Transports : dtls[t].sctp)

\* For a thread that reads the snapshot, a closed transport stays closed.
ClosedIsFinal ==
    [][\A t \in Watched : seen[t] => seen'[t]]_vars

\* What is taken from a wrapper is destroyed, or the process is gone.
TakenIsReleased ==
    \A t \in Transports : ~dtls[t].owned ~> (~dtls[t].exists \/ crashed)
=============================================================================
