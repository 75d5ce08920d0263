---------------------------- MODULE JsepTransport ----------------------------
(***************************************************************************)
(* JsepTransport (jsep_transport.cpp): applies local and remote transport  *)
(* descriptions to one bundle of ICE, DTLS and RTP transports.  The        *)
(* methods are operators on the record of the object's fields and yield    *)
(* the object after the call and whether the RTCError is OK; an error part *)
(* way keeps what was already applied.                                     *)
(*                                                                         *)
(* The header extension ids and SRTP itself are in DtlsSrtpTransport.      *)
(***************************************************************************)
EXTENDS RtcpMuxFilter

CONSTANT None

SdpTypes == {"offer", "pranswer", "answer"}

ConnectionRoles == {"none", "active", "passive", "actpass", "holdconn"}

DtlsRoles == {"client", "server"}

(***************************************************************************)
(* A description: rtcp_mux_enabled, connection_role, ICE credentials (None *)
(* when IceParameters::Validate() rejects them) and the fingerprint: None, *)
(* or whether it is the one of the local certificate.                      *)
(***************************************************************************)
Fingerprints == {None, "own", "other"}

HasFingerprint(d) == d.fp # None

NewJsepTransport(hasRtcp, role) ==
    [filter |-> NewFilter,      \* rtcp_mux_negotiator_
     mux    |-> ~hasRtcp,       \* rtp_transport()->rtcp_mux_enabled()
     rtcp   |-> hasRtcp,        \* rtcp_dtls_transport_ is not null
     cert   |-> FALSE,          \* local_certificate_ is not null
     local  |-> None,           \* local_description_
     remote |-> None,           \* remote_description_
     ice    |-> None,           \* local credentials given to the ICE transports
     role   |-> role,           \* GetDtlsRole() of the DTLS transports
     dtls   |-> FALSE,          \* a remote fingerprint is applied to them
     needs  |-> FALSE]          \* needs_ice_restart_

Done(jt, ok) == [jt |-> jt, ok |-> ok]

\* Mutant: a provisional answer drops the RTCP transport as well.
SetRtcpMuxEagerly(jt, enable, type, src) ==
    LET r == CASE type = "offer"    -> SetOffer(jt.filter, enable, src)
               [] type = "pranswer" -> SetProvisionalAnswer(jt.filter, enable, src)
               [] type = "answer"   -> SetAnswer(jt.filter, enable, src)
    IN  Done([jt EXCEPT !.filter = r.filter,
                        !.rtcp = @ /\ ~(r.ok /\ IsActive(r.filter)),
                        !.mux = IF r.ok THEN IsActive(r.filter) ELSE @], r.ok)

\* SetRtcpMux: a final answer that activates muxing drops the RTCP transport.
SetRtcpMux(jt, enable, type, src) ==
    LET r == CASE type = "offer"    -> SetOffer(jt.filter, enable, src)
               [] type = "pranswer" -> SetProvisionalAnswer(jt.filter, enable, src)
               [] type = "answer"   -> SetAnswer(jt.filter, enable, src)
    IN  Done([jt EXCEPT !.filter = r.filter,
                        !.rtcp = @ /\ ~(type = "answer" /\ r.ok /\ IsActive(r.filter)),
                        !.mux = IF r.ok THEN IsActive(r.filter) ELSE @], r.ok)

\* VerifyCertificateFingerprint.
Verified(jt, d) == jt.cert /\ d.fp = "own"

(***************************************************************************)
(* NegotiateDtlsRole: None is an error.  The switch over a remote role     *)
(* while no role is assigned has no case for holdconn.                     *)
(***************************************************************************)
RemoteOfferFits(current, local, remote) ==
    CASE remote = "active"  -> IF current = None THEN local = "passive"
                                                 ELSE current = "server"
      [] remote = "passive" -> IF current = None THEN local = "active"
                                                 ELSE current = "client"
      [] OTHER              -> TRUE

\* Mutant: an offerer becomes client when the answerer is active.
RoleOfAnswerer(localType, local, remote, current) ==
    IF remote = "active" \/ local = "active" THEN "client" ELSE "server"

NegotiateDtlsRole(localType, local, remote, current) ==
    IF localType = "offer"
    THEN CASE local = "actpass" /\ remote = "passive"              -> "client"
           [] local = "actpass" /\ remote \in {"active", "none"}   -> "server"
           [] OTHER                                                -> None
    ELSE IF ~RemoteOfferFits(current, local, remote) THEN None
         ELSE CASE local = "active"  -> "client"
                [] local = "passive" -> "server"
                [] OTHER             -> None

\* SetNegotiatedDtlsParameters: libice refuses another role once DTLS is set up.
SetNegotiatedDtlsParameters(jt, role) ==
    IF jt.dtls /\ jt.role # role THEN Done(jt, FALSE)
    ELSE Done([jt EXCEPT !.role = role, !.dtls = TRUE], TRUE)

\* "We are not doing DTLS": the empty fingerprint turns it off.
DtlsOff(jt) == Done([jt EXCEPT !.dtls = FALSE], TRUE)

\* Mutant: only the remote description is asked for a fingerprint.
RemoteDoesDtls(jt) == HasFingerprint(jt.remote)

BothDoDtls(jt) == HasFingerprint(jt.local) /\ HasFingerprint(jt.remote)

NegotiateAndSetDtlsParameters(jt, localType) ==
    CASE jt.local = None \/ jt.remote = None -> Done(jt, FALSE)
      [] OTHER ->
         IF BothDoDtls(jt)
         THEN LET role == NegotiateDtlsRole(localType, jt.local.role,
                                            jt.remote.role, jt.role)
              IN  IF role = None THEN Done(jt, FALSE)
                  ELSE SetNegotiatedDtlsParameters(jt, role)
         ELSE IF HasFingerprint(jt.local) /\ localType = "answer" THEN Done(jt, FALSE)
         ELSE DtlsOff(jt)

\* Does the new local description restart ICE?
IceRestarting(jt, d) == jt.local # None /\ jt.local.ice # d.ice

SetLocalJsepTransportDescription(jt, d, type) ==
    LET muxed   == SetRtcpMux(jt, d.mux, type, "local")
        stored  == [muxed.jt EXCEPT !.local = d, !.cert = @ /\ HasFingerprint(d)]
        onIce   == [stored EXCEPT !.ice = d.ice]
        agreed  == IF type = "offer" THEN Done(onIce, TRUE)
                   ELSE NegotiateAndSetDtlsParameters(onIce, type)
    IN  CASE d.ice = None -> Done(jt, FALSE)
          [] d.ice # None /\ ~muxed.ok -> muxed
          [] OTHER ->
             IF HasFingerprint(d) /\ ~Verified(jt, d)
             THEN Done([stored EXCEPT !.local = None], FALSE)
             ELSE IF ~agreed.ok THEN Done([agreed.jt EXCEPT !.local = None], FALSE)
             ELSE Done([agreed.jt EXCEPT !.needs = @ /\ ~IceRestarting(jt, d)], TRUE)

\* A remote answer is negotiated as the answer to a local offer.
SetRemoteJsepTransportDescription(jt, d, type) ==
    LET muxed  == SetRtcpMux(jt, d.mux, type, "remote")
        stored == [muxed.jt EXCEPT !.remote = d]
        agreed == IF type = "offer" THEN Done(stored, TRUE)
                  ELSE NegotiateAndSetDtlsParameters(stored, "offer")
    IN  CASE d.ice = None -> Done([jt EXCEPT !.remote = None], FALSE)
          [] d.ice # None /\ ~muxed.ok -> muxed
          [] OTHER -> IF agreed.ok THEN agreed
                      ELSE Done([agreed.jt EXCEPT !.remote = None], FALSE)
=============================================================================
