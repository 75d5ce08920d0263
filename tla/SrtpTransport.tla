---------------------------- MODULE SrtpTransport ----------------------------
(***************************************************************************)
(* The methods of RtpTransport (rtp_transport.cc) and of its subclass      *)
(* SrtpTransport (srtp_transport.cpp) as operators on the record of the    *)
(* object's fields.  The object lives on the network thread: every method  *)
(* runs to completion, and the signals it fires are synchronous.           *)
(*                                                                         *)
(* An operator takes the object `s` and, where the method reads            *)
(* PacketTransportInternal::writable(), the function `w` from packet       *)
(* transports to BOOLEAN, and returns the object after the call.  A null   *)
(* pointer and an empty optional are None.                                 *)
(***************************************************************************)
CONSTANT None

(***************************************************************************)
(* An SrtpSession: NoKey is a session object whose SetSend/SetRecv failed  *)
(* (it exists, so the pointer is not null, but it protects nothing).       *)
(***************************************************************************)
NoKey == [key |-> None, ids |-> None]

Session(key, ids) == [key |-> key, ids |-> ids]

\* The fields of a freshly constructed object.
NewSrtpTransport(mux) ==
    [mux       |-> mux,    \* rtcp_mux_enabled_
     rtp       |-> None,   \* rtp_packet_transport_ (and rtp_dtls_transport_)
     rtcp      |-> None,   \* rtcp_packet_transport_ (and rtcp_dtls_transport_)
     rtpReady  |-> FALSE,  \* rtp_ready_to_send_
     rtcpReady |-> FALSE,  \* rtcp_ready_to_send_
     ready     |-> FALSE,  \* ready_to_send_: the last SignalReadyToSend
     send      |-> None,   \* send_session_
     recv      |-> None,   \* recv_session_
     sendRtcp  |-> None,   \* send_rtcp_session_
     recvRtcp  |-> None,   \* recv_rtcp_session_
     writable  |-> FALSE]  \* writable_: the last SignalWritableState

-----------------------------------------------------------------------------
(* RtpTransport *)

\* Fires SignalReadyToSend exactly when the value changes.
MaybeSignalReadyToSend(s) ==
    [s EXCEPT !.ready = s.rtpReady /\ (s.rtcpReady \/ s.mux)]

SetReadyToSend(s, rtcp, ready) ==
    MaybeSignalReadyToSend(IF rtcp THEN [s EXCEPT !.rtcpReady = ready]
                                   ELSE [s EXCEPT !.rtpReady = ready])

RtpSetRtcpMuxEnabled(s, enable) ==
    MaybeSignalReadyToSend([s EXCEPT !.mux = enable])

IsUp(w, t) == t # None /\ w[t]

\* A new packet transport is assumed ready to send when it is writable.
SetRtpPacketTransport(s, w, t) ==
    IF t = s.rtp THEN s
    ELSE SetReadyToSend([s EXCEPT !.rtp = t], FALSE, IsUp(w, t))

SetRtcpPacketTransport(s, w, t) ==
    IF t = s.rtcp THEN s
    ELSE SetReadyToSend([s EXCEPT !.rtcp = t], TRUE, IsUp(w, t))

\* The packet transport that carries RTP (rtcp = FALSE) or RTCP packets.
ChannelOf(s, rtcp) == IF rtcp /\ ~s.mux THEN s.rtcp ELSE s.rtp

RtpIsWritable(s, w, rtcp) == IsUp(w, ChannelOf(s, rtcp))

\* Mutant: ENOTCONN clears the flag of the other kind of packet.
SendPacketOtherFlag(s, rtcp, outcome) ==
    IF outcome = "enotconn" THEN SetReadyToSend(s, ~rtcp, FALSE) ELSE s

\* SendPacket: outcome is "sent", "enotconn" or "error".  ENOTCONN clears the
\* flag of the packet's kind, not the flag of the channel that carried it.
SendPacket(s, rtcp, outcome) ==
    IF outcome = "enotconn" THEN SetReadyToSend(s, rtcp, FALSE) ELSE s

OnReadyToSend(s, t) == SetReadyToSend(s, t = s.rtcp, TRUE)

-----------------------------------------------------------------------------
(* SrtpTransport *)

IsSrtpActive(s) == s.send # None /\ s.recv # None

IsWritable(s, w, rtcp) == IsSrtpActive(s) /\ RtpIsWritable(s, w, rtcp)

MaybeUpdateWritableState(s, w) ==
    [s EXCEPT !.writable = IsWritable(s, w, TRUE) /\ IsWritable(s, w, FALSE)]

\* Mutant: the writable state is not updated.
ResetParamsSilently(s, w) ==
    [s EXCEPT !.send = None, !.recv = None, !.sendRtcp = None, !.recvRtcp = None]

ResetParams(s, w) ==
    MaybeUpdateWritableState([s EXCEPT !.send = None, !.recv = None,
                                       !.sendRtcp = None, !.recvRtcp = None], w)

(***************************************************************************)
(* SetRtpParams: new sessions are created, or the existing ones updated,   *)
(* with the two keys; when libsrtp refuses one of them every session is    *)
(* dropped.                                                                *)
(***************************************************************************)
SetRtpParams(s, w, sendSession, recvSession, ok) ==
    IF ok THEN MaybeUpdateWritableState(
                   [s EXCEPT !.send = sendSession, !.recv = recvSession], w)
          ELSE ResetParams(s, w)

(***************************************************************************)
(* SetRtcpParams: refused when an RTCP session object exists.  A failure   *)
(* part way leaves the session objects created so far behind.              *)
(* outcome: "ok", "send" (SetSend fails) or "recv" (SetRecv fails).        *)
(***************************************************************************)
SetRtcpParams(s, w, sendSession, recvSession, outcome) ==
    IF s.sendRtcp # None \/ s.recvRtcp # None THEN s
    ELSE CASE outcome = "ok"   -> MaybeUpdateWritableState(
                                    [s EXCEPT !.sendRtcp = sendSession,
                                              !.recvRtcp = recvSession], w)
           [] outcome = "send" -> [s EXCEPT !.sendRtcp = NoKey]
           [] outcome = "recv" -> [s EXCEPT !.sendRtcp = sendSession,
                                            !.recvRtcp = NoKey]

\* The session that ProtectRtp and ProtectRtcp use.
ProtectSession(s, rtcp) ==
    IF rtcp /\ s.sendRtcp # None THEN s.sendRtcp ELSE s.send
=============================================================================
