-------------------------- MODULE DtlsSrtpTransport --------------------------
(***************************************************************************)
(* DtlsSrtpTransport (dtls_srtp_transport.cpp) on top of SrtpTransport: it *)
(* installs SRTP keys exported from the DTLS associations of the transports*)
(* it is given, and drops them when those associations change.             *)
(*                                                                         *)
(* The DTLS transports themselves belong to libice, which is not part of   *)
(* the repository: their states, writability and association keys are an   *)
(* environment that changes them and then calls the subscribed callbacks   *)
(* (OnDtlsState, OnWritableState, OnReadyToSend) synchronously.            *)
(***************************************************************************)
EXTENDS Naturals, SrtpTransport

CONSTANTS
    RtpTransports,          \* DTLS transports that may carry RTP
    RtcpTransports,         \* DTLS transports that may carry RTCP
    ExtIds,                 \* lists of encrypted header extension ids
    NoIds,                  \* the empty list
    ActiveResetSrtpParams,  \* active_reset_srtp_params_
    LibsrtpMayFail,         \* may libsrtp refuse a key?
    PlainIce,               \* may a transport without DTLS be writable?
    MaxEpoch                \* bound: handshakes per DTLS transport

Transports == RtpTransports \cup RtcpTransports

\* An SRTP session that holds a key: whose association exported it, and the
\* header extensions it encrypts.
Roles == {"client", "server"}

Keys == [dtls : Transports, epoch : Nat, writer : Roles]

Sessions == [key : Keys, ids : ExtIds]

ASSUME TransportsAssumption ==
    /\ None \notin Transports
    /\ RtpTransports \cap RtcpTransports = {}

ASSUME SessionsAssumption == None \notin Sessions

ASSUME ParametersAssumption ==
    /\ NoIds \in ExtIds
    /\ None \notin ExtIds
    /\ ActiveResetSrtpParams \in BOOLEAN
    /\ LibsrtpMayFail \in BOOLEAN
    /\ PlainIce \in BOOLEAN
    /\ MaxEpoch \in Nat

VARIABLES
    dtls,      \* per DTLS transport: state, writable, epoch and role
    tr,        \* the fields of the transport object
    ids,       \* send_extension_ids_ and recv_extension_ids_ (None: not set)
    enotconn   \* history: <<t, rtcp>> whose last send returned ENOTCONN

vars == <<dtls, tr, ids, enotconn>>

-----------------------------------------------------------------------------
(* The DTLS transports (libice) *)

\* "inactive": no local certificate yet, DTLS is off and the transport is
\* plain ICE.  The epoch counts the handshakes completed on the transport.
DtlsStates == {"inactive", "new", "connecting", "connected", "closed", "failed"}

Dtls == [state : DtlsStates, writable : BOOLEAN, epoch : Nat, role : Roles]

Writable(d) == [t \in DOMAIN d |-> d[t].writable]

\* set_dtls_state() along the life of one DTLS transport; a new remote
\* fingerprint takes it back to "new".
DtlsSteps ==
    {<<"new", "connecting">>, <<"connecting", "connected">>,
     <<"connecting", "failed">>, <<"connecting", "closed">>,
     <<"connected", "closed">>, <<"connected", "failed">>,
     <<"connecting", "new">>, <<"connected", "new">>}

\* The key one side of association number `epoch` of transport t writes with.
Key(t, epoch, writer) == [dtls |-> t, epoch |-> epoch, writer |-> writer]

-----------------------------------------------------------------------------
(* DtlsSrtpTransport *)

Peer(role) == IF role = "client" THEN "server" ELSE "client"

\* The RTCP transport that counts: none under rtcp-mux.
RtcpInUse(s) == IF s.mux THEN None ELSE s.rtcp

IsDtlsActive(s, d) ==
    /\ s.rtp # None /\ d[s.rtp].state # "inactive"
    /\ RtcpInUse(s) # None => d[s.rtcp].state # "inactive"

IsDtlsConnected(s, d) ==
    /\ s.rtp # None /\ d[s.rtp].state = "connected"
    /\ RtcpInUse(s) # None => d[s.rtcp].state = "connected"

IsDtlsWritable(s, d) ==
    /\ s.rtp # None /\ d[s.rtp].writable
    /\ RtcpInUse(s) # None => d[s.rtcp].writable

DtlsHandshakeCompleted(s, d) == IsDtlsActive(s, d) /\ IsDtlsConnected(s, d)

\* ExtractParams succeeds once the association has a crypto suite and keys.
CanExtract(d, t) == t # None /\ d[t].state = "connected"

SendKey(d, t) == Key(t, d[t].epoch, d[t].role)

RecvKey(d, t) == Key(t, d[t].epoch, Peer(d[t].role))

\* Encrypted header extension ids: the empty list when none were negotiated.
OrEmpty(i) == IF i = None THEN NoIds ELSE i

\* What libsrtp answers to the keys one call installs.
Outcomes ==
    [rtp  : IF LibsrtpMayFail THEN BOOLEAN ELSE {TRUE},
     rtcp : IF LibsrtpMayFail THEN {"ok", "send", "recv"} ELSE {"ok"}]

SetupRtpDtlsSrtp(s, d, i, o) ==
    IF CanExtract(d, s.rtp)
    THEN SetRtpParams(s, Writable(d),
                      Session(SendKey(d, s.rtp), OrEmpty(i.send)),
                      Session(RecvKey(d, s.rtp), OrEmpty(i.recv)), o.rtp)
    ELSE s

\* Returns early when SRTP is active, so it runs only after a failed RTP setup.
SetupRtcpDtlsSrtp(s, d, i, o) ==
    IF ~IsSrtpActive(s) /\ CanExtract(d, s.rtcp)
    THEN SetRtcpParams(s, Writable(d),
                       Session(SendKey(d, s.rtcp), OrEmpty(i.send)),
                       Session(RecvKey(d, s.rtcp), OrEmpty(i.recv)), o.rtcp)
    ELSE s

MaybeSetupDtlsSrtp(s, d, i, o) ==
    IF IsSrtpActive(s) \/ ~IsDtlsWritable(s, d) THEN s
    ELSE LET r == SetupRtpDtlsSrtp(s, d, i, o)
         IN  IF RtcpInUse(r) # None THEN SetupRtcpDtlsSrtp(r, d, i, o) ELSE r

\* Mutant: a new RTP transport alone does not reset SRTP.
ResetOnlyWhenAsked(s, d, r) ==
    IF IsSrtpActive(s) /\ ActiveResetSrtpParams THEN ResetParams(s, Writable(d)) ELSE s

\* The reset that a change of DTLS transport forces.
ResetForNewTransport(s, d, r) ==
    IF IsSrtpActive(s) /\ (r # s.rtp \/ ActiveResetSrtpParams)
    THEN ResetParams(s, Writable(d)) ELSE s

SetDtlsTransportsOf(s, d, i, r, c, o) ==
    LET reset    == ResetForNewTransport(s, d, r)
        withRtcp == SetRtcpPacketTransport(reset, Writable(d), c)
        withRtp  == SetRtpPacketTransport(withRtcp, Writable(d), r)
    IN  MaybeSetupDtlsSrtp(withRtp, d, i, o)

SetRtcpMuxEnabledOf(s, d, i, enable, o) ==
    LET r == RtpSetRtcpMuxEnabled(s, enable)
    IN  IF enable THEN MaybeSetupDtlsSrtp(r, d, i, o) ELSE r

OnDtlsState(s, d, i, t, o) ==
    IF d[t].state # "connected" THEN ResetParams(s, Writable(d))
    ELSE MaybeSetupDtlsSrtp(s, d, i, o)

\* Mutant: the callback is ignored.
OnWritableStateIgnored(s, d, i, o) == s

OnWritableState(s, d, i, o) == MaybeSetupDtlsSrtp(s, d, i, o)

-----------------------------------------------------------------------------
(* Calls into the object *)

\* Sends remembered for the transports that stay in place.
StillAttached(r, c) == {p \in enotconn : p[1] \in {r, c} /\ p[1] \in {tr.rtp, tr.rtcp}}

\* RTC_CHECK(!IsSrtpActive()) aborts the process when an RTCP transport is
\* added while SRTP is active; what is modelled is every call that returns.
SetDtlsTransports(r, c, o) ==
    /\ ~(c \notin {None, tr.rtcp} /\ IsSrtpActive(ResetForNewTransport(tr, dtls, r)))
    /\ tr' = SetDtlsTransportsOf(tr, dtls, ids, r, c, o)
    /\ enotconn' = StillAttached(r, c)
    /\ UNCHANGED <<dtls, ids>>

SetRtcpMuxEnabled(enable, o) ==
    /\ tr' = SetRtcpMuxEnabledOf(tr, dtls, ids, enable, o)
    /\ UNCHANGED <<dtls, ids, enotconn>>

\* JsepTransport::SetRtcpMux for an answer that turns rtcp-mux on: the RTCP
\* transport is dropped first, then muxing is enabled.
ActivateRtcpMux(o) ==
    /\ tr.rtp # None
    /\ LET dropped == SetDtlsTransportsOf(tr, dtls, ids, tr.rtp, None, o)
       IN  tr' = SetRtcpMuxEnabledOf(dropped, dtls, ids, TRUE, o)
    /\ enotconn' = StillAttached(tr.rtp, None)
    /\ UNCHANGED <<dtls, ids>>

\* Mutant: the ids are stored and the sessions left alone.
UpdateIdsOnly(dir, x, o) ==
    /\ ids[dir] # x
    /\ ids' = [ids EXCEPT ![dir] = x]
    /\ UNCHANGED <<dtls, tr, enotconn>>

\* UpdateSendEncryptedHeaderExtensionIds, UpdateRecvEncryptedHeaderExtensionIds.
UpdateEncryptedHeaderExtensionIds(dir, x, o) ==
    /\ ids[dir] # x
    /\ ids' = [ids EXCEPT ![dir] = x]
    /\ tr' = IF DtlsHandshakeCompleted(tr, dtls)
             THEN SetupRtpDtlsSrtp(tr, dtls, ids', o) ELSE tr
    /\ UNCHANGED <<dtls, enotconn>>

\* SendRtpPacket, SendRtcpPacket: refused while SRTP is inactive or when the
\* session holds no key; a missing channel would be dereferenced.
Send(rtcp, outcome) ==
    /\ IsSrtpActive(tr)
    /\ ProtectSession(tr, rtcp) # NoKey
    /\ ChannelOf(tr, rtcp) # None
    /\ tr' = SendPacket(tr, rtcp, outcome)
    /\ LET p == <<ChannelOf(tr, rtcp), rtcp>>
       IN  enotconn' = IF outcome = "enotconn" THEN enotconn \cup {p}
                                               ELSE enotconn \ {p}
    /\ UNCHANGED <<dtls, ids>>

-----------------------------------------------------------------------------
(* The environment: libice changes a DTLS transport and calls back *)

Attached(t) == t \in {tr.rtp, tr.rtcp}

\* SetLocalCertificate turns DTLS on; no callback is made.
SetLocalCertificate(t) ==
    /\ dtls[t].state = "inactive"
    /\ dtls' = [dtls EXCEPT ![t].state = "new"]
    /\ UNCHANGED <<tr, ids, enotconn>>

SetDtlsState(t, to, role, o) ==
    /\ <<dtls[t].state, to>> \in DtlsSteps
    /\ to = "connected" => dtls[t].epoch < MaxEpoch
    /\ dtls' = [dtls EXCEPT ![t].state = to,
                            ![t].epoch = IF to = "connected" THEN @ + 1 ELSE @,
                            ![t].role = IF to = "connected" THEN role ELSE @]
    /\ tr' = IF Attached(t) THEN OnDtlsState(tr, dtls', ids, t, o) ELSE tr
    /\ UNCHANGED <<ids, enotconn>>

\* A transport turns writable only as plain ICE or over a finished handshake.
SetWritable(t, o) ==
    /\ \/ dtls[t].writable
       \/ dtls[t].state = "connected"
       \/ PlainIce /\ dtls[t].state = "inactive"
    /\ dtls' = [dtls EXCEPT ![t].writable = ~@]
    /\ tr' = IF Attached(t) THEN OnWritableState(tr, dtls', ids, o) ELSE tr
    /\ UNCHANGED <<ids, enotconn>>

\* The socket can be written again after ENOTCONN.
ReadyToSend(t) ==
    /\ Attached(t)
    /\ tr' = OnReadyToSend(tr, t)
    /\ enotconn' = {p \in enotconn : p[1] # t}
    /\ UNCHANGED <<dtls, ids>>

-----------------------------------------------------------------------------
Init ==
    /\ dtls = [t \in Transports |-> [state |-> "inactive", writable |-> FALSE,
                                     epoch |-> 0, role |-> "client"]]
    /\ \E mux \in BOOLEAN : tr = NewSrtpTransport(mux)
    /\ ids = [send |-> None, recv |-> None]
    /\ enotconn = {}

Calls ==
    \E o \in Outcomes :
        \/ \E r \in RtpTransports, c \in RtcpTransports \cup {None} :
               SetDtlsTransports(r, c, o)
        \/ \E enable \in BOOLEAN : SetRtcpMuxEnabled(enable, o)
        \/ ActivateRtcpMux(o)
        \/ \E dir \in {"send", "recv"}, x \in ExtIds :
               UpdateEncryptedHeaderExtensionIds(dir, x, o)

Packets ==
    \E rtcp \in BOOLEAN, outcome \in {"sent", "enotconn", "error"} :
        Send(rtcp, outcome)

Environment ==
    \E t \in Transports :
        \/ SetLocalCertificate(t)
        \/ \E to \in DtlsStates, role \in Roles, o \in Outcomes :
               SetDtlsState(t, to, role, o)
        \/ \E o \in Outcomes : SetWritable(t, o)
        \/ ReadyToSend(t)

Next == Calls \/ Packets \/ Environment

Spec == Init /\ [][Next]_vars

-----------------------------------------------------------------------------
(* Properties *)

Objects ==
    [mux : BOOLEAN, rtp : RtpTransports \cup {None},
     rtcp : RtcpTransports \cup {None},
     rtpReady : BOOLEAN, rtcpReady : BOOLEAN, ready : BOOLEAN,
     send : Sessions \cup {None}, recv : Sessions \cup {None},
     sendRtcp : Sessions \cup {None, NoKey},
     recvRtcp : Sessions \cup {None, NoKey},
     writable : BOOLEAN]

NegotiatedIds == [send : ExtIds \cup {None}, recv : ExtIds \cup {None}]

\* The fields, the DTLS transports and the histories have their types: in
\* particular a session that exists always holds a key and a list of ids.
TypeOK ==
    /\ dtls \in [Transports -> Dtls]
    /\ tr \in Objects
    /\ ids \in NegotiatedIds
    /\ enotconn \subseteq Transports \X BOOLEAN

\* While SRTP is active both RTP sessions hold the keys of the association
\* that the present RTP DTLS transport has completed, each in its direction:
\* no handshake, role or transport change leaves an old key in use.
KeysAreCurrent ==
    IsSrtpActive(tr) =>
        /\ CanExtract(dtls, tr.rtp)
        /\ tr.send.key = SendKey(dtls, tr.rtp)
        /\ tr.recv.key = RecvKey(dtls, tr.rtp)

\* SignalWritableState(true) is in force only over active SRTP whose RTP
\* transport has finished its handshake.
WritableNeedsHandshake ==
    tr.writable => IsSrtpActive(tr) /\ CanExtract(dtls, tr.rtp)

\* ready_to_send is reported only while no RTP send, and no RTCP send on the
\* RTCP transport, is known to have hit ENOTCONN.
ReadyIsHonest ==
    tr.ready => /\ <<tr.rtp, FALSE>> \notin enotconn
                /\ ~tr.mux => <<tr.rtcp, TRUE>> \notin enotconn

\* When libsrtp never fails: SRTP is active whenever the handshakes of the
\* transports in use are complete and those transports are writable, whatever
\* the order of the calls and callbacks that led there.  Under rtcp-mux the
\* class expects the RTCP transport to be null (dtls_srtp_transport.h:46).
SrtpFollowsDtls ==
    (/\ ~LibsrtpMayFail
     /\ tr.mux => tr.rtcp = None
     /\ DtlsHandshakeCompleted(tr, dtls)
     /\ IsDtlsWritable(tr, dtls)) => IsSrtpActive(tr)

\* In the way the transport controller uses the class (no RTCP transport):
\* the active sessions encrypt the header extensions negotiated last, even
\* when the handshake finished before the offer/answer that named them.
IdsAreApplied ==
    (RtcpTransports = {} /\ IsSrtpActive(tr)) =>
        /\ tr.send.ids = OrEmpty(ids.send)
        /\ tr.recv.ids = OrEmpty(ids.recv)
=============================================================================
