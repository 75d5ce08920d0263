----------------------------- MODULE OfferAnswer -----------------------------
(***************************************************************************)
(* Two JsepTransports that negotiate with each other.  What carries the    *)
(* descriptions between them and decides what they say, the application's  *)
(* signalling, is not part of the repository: it delivers in order, starts *)
(* an exchange only when the previous one is over, may answer several      *)
(* times provisionally, may try another description after an error of the  *)
(* local one, and gives up after an error of a remote one.                 *)
(***************************************************************************)
EXTENDS Naturals, Sequences, JsepTransport

CONSTANTS
    Peers,         \* the two endpoints
    HasRtcp,       \* are there separate RTCP transports at first?
    InitialRole,   \* DTLS role before the first negotiation
    OfferRoles,    \* setup attributes an offer may have
    AnswerRoles,   \* setup attributes an answer may have
    Credentials,   \* ICE credentials; None: invalid ones
    LocalFps,      \* fingerprints a local description may have
    MaxOffers,     \* bound: offers made
    MaxInFlight    \* bound: descriptions in flight to one endpoint

ASSUME PeersAssumption ==
    /\ \E p, q \in Peers : p # q /\ Peers = {p, q}
    /\ None \notin DtlsRoles
    /\ HasRtcp \in BOOLEAN
    /\ InitialRole \in DtlsRoles \cup {None}
    /\ OfferRoles \subseteq ConnectionRoles /\ AnswerRoles \subseteq ConnectionRoles
    /\ LocalFps \subseteq Fingerprints
    /\ MaxOffers \in Nat /\ MaxInFlight \in Nat

VARIABLES
    jt,      \* the JsepTransport of each endpoint
    sig,     \* the application's signalling state of each endpoint
    wire,    \* descriptions in flight to each endpoint, with their types
    offers   \* number of offers made

vars == <<jt, sig, wire, offers>>

Other(p) == CHOOSE q \in Peers : q # p

Descriptions(roles) ==
    [mux : BOOLEAN, role : roles, ice : Credentials, fp : LocalFps]

SetLocalCertificate(p) ==
    /\ ~jt[p].cert
    /\ jt' = [jt EXCEPT ![p].cert = TRUE]
    /\ UNCHANGED <<sig, wire, offers>>

SetNeedsIceRestartFlag(p) ==
    /\ jt[p].ice # None
    /\ jt' = [jt EXCEPT ![p].needs = TRUE]
    /\ UNCHANGED <<sig, wire, offers>>

\* Endpoint p applies its own description and sends it when that succeeds.
Describe(p, d, type, next) ==
    LET r == SetLocalJsepTransportDescription(jt[p], d, type)
    IN  /\ jt' = [jt EXCEPT ![p] = r.jt]
        /\ sig' = IF r.ok THEN [sig EXCEPT ![p] = next] ELSE sig
        /\ wire' = IF r.ok THEN [wire EXCEPT ![Other(p)] = Append(@, <<type, d>>)]
                           ELSE wire

Offer(p, d) ==
    /\ \A q \in Peers : sig[q] = "stable" /\ wire[q] = <<>>
    /\ offers < MaxOffers
    /\ offers' = offers + 1
    /\ Describe(p, d, "offer", "localOffer")

Answer(p, d, type) ==
    /\ sig[p] = "remoteOffer"
    /\ Len(wire[Other(p)]) < MaxInFlight
    /\ Describe(p, d, type, IF type = "answer" THEN "stable" ELSE "remoteOffer")
    /\ UNCHANGED offers

\* Endpoint p applies the next description of the other one.
Receive(p, expected, next) ==
    /\ wire[p] # <<>>
    /\ LET type == Head(wire[p])[1]
           r    == SetRemoteJsepTransportDescription(jt[p], Head(wire[p])[2], type)
       IN  /\ sig[p] = expected
           /\ next[type] # None
           /\ jt' = [jt EXCEPT ![p] = r.jt]
           /\ sig' = [sig EXCEPT ![p] = IF r.ok THEN next[type] ELSE "failed"]
    /\ wire' = [wire EXCEPT ![p] = Tail(@)]
    /\ UNCHANGED offers

ReceiveOffer(p) ==
    Receive(p, "stable", [offer |-> "remoteOffer", pranswer |-> None, answer |-> None])

ReceiveAnswer(p) ==
    Receive(p, "localOffer", [offer |-> None, pranswer |-> "localOffer", answer |-> "stable"])

-----------------------------------------------------------------------------
Init ==
    /\ jt = [p \in Peers |-> NewJsepTransport(HasRtcp, InitialRole)]
    /\ sig = [p \in Peers |-> "stable"]
    /\ wire = [p \in Peers |-> <<>>]
    /\ offers = 0

Next ==
    \E p \in Peers :
        \/ SetLocalCertificate(p)
        \/ SetNeedsIceRestartFlag(p)
        \/ \E d \in Descriptions(OfferRoles) : Offer(p, d)
        \/ \E d \in Descriptions(AnswerRoles), type \in {"pranswer", "answer"} :
               Answer(p, d, type)
        \/ ReceiveOffer(p)
        \/ ReceiveAnswer(p)

Spec == Init /\ [][Next]_vars

-----------------------------------------------------------------------------
(* Properties *)

\* Both endpoints have completed an exchange and nothing is in flight.
Settled ==
    \A p \in Peers : /\ sig[p] = "stable" /\ wire[p] = <<>>
                     /\ jt[p].local # None /\ jt[p].remote # None

\* After an exchange both endpoints multiplex RTCP or neither does, whatever
\* provisional answers and failed attempts came before.
MuxAgrees ==
    Settled => \A p, q \in Peers : /\ jt[p].mux = jt[q].mux
                                   /\ IsActive(jt[p].filter) = IsActive(jt[q].filter)

\* After an exchange DTLS runs on both sides or on neither ...
DtlsAgrees == Settled => \A p, q \in Peers : jt[p].dtls = jt[q].dtls

\* ... and then with one client and one server, across renegotiations in
\* either direction.
RolesAreOpposite ==
    (Settled /\ \A p \in Peers : jt[p].dtls) =>
        \A p, q \in Peers : p # q => jt[p].role # jt[q].role

\* "we don't yet destroy the transport because the final answer may deactivate
\* it" (jsep_transport.cpp:468): an endpoint that had an RTCP transport always
\* has a way to send RTCP, muxed or on that transport.
RtcpHasAChannel ==
    HasRtcp => \A p \in Peers : jt[p].mux \/ jt[p].rtcp
=============================================================================
