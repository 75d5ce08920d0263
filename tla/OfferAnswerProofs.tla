------------------------- MODULE OfferAnswerProofs -------------------------
(***************************************************************************)
(* Proofs about OfferAnswer, for every set of roles, credentials and       *)
(* fingerprints and any number of exchanges.  First what each method of    *)
(* RtcpMuxFilter and JsepTransport establishes when it succeeds and leaves *)
(* alone when it fails, then the exchange: a final answer alone decides    *)
(* what each side ends up with, so the two sides agree as soon as both     *)
(* have applied it, whatever happened on the way.                          *)
(*                                                                         *)
(* Then the text of an offer, for the calls of SequentialParts: an offer   *)
(* is its bundle and its sections, reading is a loop over lines, and what  *)
(* a section or any number of lines behind it do to the reader follows by  *)
(* looking at the first line that would refute it.                         *)
(***************************************************************************)
EXTENDS OfferAnswer, SequentialParts, FiniteSetTheorems, SequenceTheorems,
        NaturalsInduction, WellFoundedInduction, TLAPS

-----------------------------------------------------------------------------
(* Types *)

FilterStates ==
    {"init", "sentOffer", "receivedOffer", "sentPrAnswer", "receivedPrAnswer", "active"}

Filters == [state : FilterStates, offerEnable : BOOLEAN]

AllDescriptions == Descriptions(OfferRoles \cup AnswerRoles)

JsepTransports ==
    [filter : Filters, mux : BOOLEAN, rtcp : BOOLEAN, cert : BOOLEAN,
     local : AllDescriptions \cup {None}, remote : AllDescriptions \cup {None},
     ice : Credentials \cup {None}, role : DtlsRoles \cup {None},
     dtls : BOOLEAN, needs : BOOLEAN]

TypeOK ==
    /\ jt \in [Peers -> JsepTransports]
    /\ sig \in [Peers -> {"stable", "localOffer", "remoteOffer", "failed"}]
    /\ wire \in [Peers -> Seq(SdpTypes \X AllDescriptions)]
    /\ offers \in Nat

-----------------------------------------------------------------------------
(* The inductive invariant *)

\* No exchange is under way.
Quiet == \A p \in Peers : sig[p] = "stable" /\ wire[p] = <<>>

\* What a final answer settles on the side that applies it.
SettledBy(j, offer, answer) ==
    /\ j.filter.state = (IF answer.mux THEN "active" ELSE "init")
    /\ j.mux = answer.mux
    /\ j.dtls = (HasFingerprint(offer) /\ HasFingerprint(answer))

\* The DTLS roles a side has as the answerer, and as the offerer.
AnswererRole(j, answer) ==
    j.dtls => \/ answer.role = "active" /\ j.role = "client"
              \/ answer.role = "passive" /\ j.role = "server"

OffererRole(j, answer) ==
    j.dtls => \/ answer.role = "passive" /\ j.role = "client"
              \/ answer.role \in {"active", "none"} /\ j.role = "server"

\* The offer is on its way.
Offered(p, q) ==
    /\ sig[p] = "localOffer" /\ sig[q] = "stable"
    /\ wire[p] = <<>> /\ wire[q] = << <<"offer", jt[p].local>> >>

\* The answerer has the offer and has answered provisionally at most.
Answering(p, q) ==
    /\ sig[p] = "localOffer" /\ sig[q] = "remoteOffer"
    /\ wire[q] = <<>> /\ jt[q].remote = jt[p].local
    /\ \A i \in DOMAIN wire[p] : wire[p][i][1] = "pranswer"

\* The final answer is on its way, behind the provisional ones, and the answerer
\* has settled on it.
Answered(p, q) ==
    /\ sig[p] = "localOffer" /\ sig[q] = "stable"
    /\ wire[q] = <<>> /\ wire[p] # <<>>
    /\ \A i \in DOMAIN wire[p] :
           wire[p][i][1] = (IF i = Len(wire[p]) THEN "answer" ELSE "pranswer")
    /\ LET answer == wire[p][Len(wire[p])][2]
       IN  SettledBy(jt[q], jt[p].local, answer) /\ AnswererRole(jt[q], answer)

\* Where an exchange between p, who offers, and q can be; with no exchange under
\* way the two sides agree.
Exchange ==
    \/ \E p \in Peers : sig[p] = "failed"
    \/ Quiet /\ MuxAgrees /\ DtlsAgrees /\ RolesAreOpposite
    \/ \E p, q \in Peers : p # q /\ (Offered(p, q) \/ Answering(p, q) \/ Answered(p, q))

\* An RTCP transport is given up only for a muxing that cannot be undone.
RtcpHasChannel(j) == j.rtcp \/ (j.mux /\ IsFullyActive(j.filter))

RtcpKept == HasRtcp => \A p \in Peers : RtcpHasChannel(jt[p])

-----------------------------------------------------------------------------
(* The mux filter *)

\* ContentSource: whose description it is.
Sources == {"local", "remote"}

\* RtcpMuxFilter::SetOffer: an active filter stays as it is, and so does one that
\* refuses the offer.
LEMMA OfferToFilter ==
    ASSUME NEW f \in Filters, NEW enable \in BOOLEAN, NEW src \in Sources
    PROVE  LET r == SetOffer(f, enable, src)
           IN  /\ r.filter \in Filters /\ r.ok \in BOOLEAN
               /\ ~r.ok => r.filter = f
               /\ IsFullyActive(f) => r.filter = f
  BY DEF SetOffer, Result, IsFullyActive, Filters, FilterStates

\* RtcpMuxFilter::SetProvisionalAnswer, likewise.
LEMMA ProvisionalAnswerToFilter ==
    ASSUME NEW f \in Filters, NEW enable \in BOOLEAN, NEW src \in Sources
    PROVE  LET r == SetProvisionalAnswer(f, enable, src)
           IN  /\ r.filter \in Filters /\ r.ok \in BOOLEAN
               /\ ~r.ok => r.filter = f
               /\ IsFullyActive(f) => r.filter = f
  BY DEF SetProvisionalAnswer, Result, IsFullyActive, Filters, FilterStates

\* RtcpMuxFilter::SetAnswer: an answer that is accepted alone decides the state.
LEMMA AnswerToFilter ==
    ASSUME NEW f \in Filters, NEW enable \in BOOLEAN, NEW src \in Sources
    PROVE  LET r == SetAnswer(f, enable, src)
           IN  /\ r.filter \in Filters /\ r.ok \in BOOLEAN
               /\ ~r.ok => r.filter = f
               /\ IsFullyActive(f) => r.filter = f
               /\ r.ok => r.filter.state = IF enable THEN "active" ELSE "init"
  BY DEF SetAnswer, Result, IsFullyActive, Filters, FilterStates

\* The call SetRtcpMux makes.
FilterAfter(f, enable, type, src) ==
    CASE type = "offer"    -> SetOffer(f, enable, src)
      [] type = "pranswer" -> SetProvisionalAnswer(f, enable, src)
      [] type = "answer"   -> SetAnswer(f, enable, src)

\* The three together.
LEMMA FilterStep ==
    ASSUME NEW f \in Filters, NEW enable \in BOOLEAN, NEW type \in SdpTypes,
           NEW src \in Sources
    PROVE  LET r == FilterAfter(f, enable, type, src)
           IN  /\ r.filter \in Filters /\ r.ok \in BOOLEAN
               /\ ~r.ok => r.filter = f
               /\ IsFullyActive(f) => r.filter = f
               /\ r.ok /\ type = "answer" =>
                      r.filter.state = IF enable THEN "active" ELSE "init"
  <1>1. CASE type = "offer"
    <2>1. FilterAfter(f, enable, type, src) = SetOffer(f, enable, src) /\ type # "answer"
      BY <1>1 DEF FilterAfter
    <2>. QED
      BY <2>1, OfferToFilter
  <1>2. CASE type = "pranswer"
    <2>1. /\ FilterAfter(f, enable, type, src) = SetProvisionalAnswer(f, enable, src)
          /\ type # "answer"
      BY <1>2 DEF FilterAfter
    <2>. QED
      BY <2>1, ProvisionalAnswerToFilter
  <1>3. CASE type = "answer"
    <2>1. FilterAfter(f, enable, type, src) = SetAnswer(f, enable, src)
      BY <1>3 DEF FilterAfter
    <2>. QED
      BY <2>1, AnswerToFilter
  <1>. QED
    BY <1>1, <1>2, <1>3 DEF SdpTypes

\* SetRtcpMux: what a final answer decides, that a refusal changes nothing, and
\* that an endpoint does not lose its way to send RTCP.
LEMMA MuxStep ==
    ASSUME NEW j \in JsepTransports, NEW enable \in BOOLEAN, NEW type \in SdpTypes,
           NEW src \in Sources
    PROVE  LET r == SetRtcpMux(j, enable, type, src)
           IN  /\ r.jt \in JsepTransports /\ r.ok \in BOOLEAN
               /\ ~r.ok => r.jt = j
               /\ r.jt.local = j.local /\ r.jt.remote = j.remote /\ r.jt.cert = j.cert
               /\ r.jt.ice = j.ice /\ r.jt.role = j.role /\ r.jt.dtls = j.dtls
               /\ r.ok /\ type = "answer" =>
                      /\ r.jt.filter.state = IF enable THEN "active" ELSE "init"
                      /\ r.jt.mux = enable
               /\ RtcpHasChannel(j) => RtcpHasChannel(r.jt)
  <1>. DEFINE f == FilterAfter(j.filter, enable, type, src)
              m == IF f.ok THEN IsActive(f.filter) ELSE j.mux
              c == j.rtcp /\ ~(type = "answer" /\ f.ok /\ IsActive(f.filter))
              k == [j EXCEPT !.filter = f.filter, !.rtcp = c, !.mux = m]
  <1>1. j.filter \in Filters /\ j.mux \in BOOLEAN /\ j.rtcp \in BOOLEAN
    BY DEF JsepTransports
  <1>2. /\ f.filter \in Filters /\ f.ok \in BOOLEAN
        /\ ~f.ok => f.filter = j.filter
        /\ IsFullyActive(j.filter) => f.filter = j.filter
        /\ f.ok /\ type = "answer" =>
               f.filter.state = IF enable THEN "active" ELSE "init"
    BY <1>1, FilterStep
  <1>3. SetRtcpMux(j, enable, type, src) = Done(k, f.ok)
    BY DEF SetRtcpMux, FilterAfter
  <1>. HIDE DEF f
  <1>4. m \in BOOLEAN /\ c \in BOOLEAN
    BY <1>1, <1>2 DEF IsActive, IsFullyActive, IsProvisionallyActive
  <1>. HIDE DEF m, c
  <1>5. /\ k \in JsepTransports
        /\ k.filter = f.filter /\ k.rtcp = c /\ k.mux = m
        /\ k.local = j.local /\ k.remote = j.remote /\ k.cert = j.cert
        /\ k.ice = j.ice /\ k.role = j.role /\ k.dtls = j.dtls
    BY <1>2, <1>4 DEF JsepTransports
  <1>6. ~f.ok => k = j
    <2>1. ~f.ok => m = j.mux /\ c = j.rtcp
      BY <1>1 DEF m, c
    <2>. QED
      BY <1>2, <2>1 DEF JsepTransports
  <1>7. f.ok /\ type = "answer" => m = enable
    BY <1>2 DEF m, IsActive, IsFullyActive, IsProvisionallyActive
  <1>8. RtcpHasChannel(j) => RtcpHasChannel(k)
    <2>1. SUFFICES ASSUME RtcpHasChannel(j), ~c PROVE m /\ IsFullyActive(f.filter)
      BY <1>5 DEF RtcpHasChannel
    <2>2. CASE j.mux /\ IsFullyActive(j.filter)
      BY <1>2, <2>2 DEF m, IsActive
    <2>3. CASE j.rtcp
      <3>1. type = "answer" /\ f.ok /\ IsActive(f.filter)
        BY <2>1, <2>3 DEF c
      <3>2. IsFullyActive(f.filter)
        BY <1>2, <3>1 DEF IsActive, IsFullyActive, IsProvisionallyActive
      <3>. QED
        BY <3>1, <3>2 DEF m
    <2>. QED
      BY <2>1, <2>2, <2>3 DEF RtcpHasChannel
  <1>9. Done(k, f.ok).jt = k /\ Done(k, f.ok).ok = f.ok
    BY DEF Done
  <1>. HIDE DEF k
  <1>. QED
    BY <1>2, <1>3, <1>5, <1>6, <1>7, <1>8, <1>9

-----------------------------------------------------------------------------
(* DTLS parameters *)

\* NegotiateDtlsRole on the answerer's side: its own setup attribute decides ...
LEMMA RoleOfAnswer ==
    ASSUME NEW localType \in SdpTypes, localType # "offer", NEW local, NEW remote, NEW current
    PROVE  LET role == NegotiateDtlsRole(localType, local, remote, current)
           IN  \/ role = None
               \/ role = "client" /\ local = "active"
               \/ role = "server" /\ local = "passive"
  BY DEF NegotiateDtlsRole

\* ... and on the offerer's the one of the answer.
LEMMA RoleOfOffer ==
    ASSUME NEW local, NEW remote, NEW current
    PROVE  LET role == NegotiateDtlsRole("offer", local, remote, current)
           IN  \/ role = None
               \/ role = "client" /\ remote = "passive"
               \/ role = "server" /\ remote \in {"active", "none"}
  BY DEF NegotiateDtlsRole

\* What a negotiation that succeeds has set, and that nothing else is touched.
LEMMA DtlsStep ==
    ASSUME NEW j \in JsepTransports, NEW localType \in SdpTypes
    PROVE  LET r == NegotiateAndSetDtlsParameters(j, localType)
           IN  /\ r.jt \in JsepTransports /\ r.ok \in BOOLEAN
               /\ r.jt.filter = j.filter /\ r.jt.mux = j.mux /\ r.jt.rtcp = j.rtcp
               /\ r.jt.local = j.local /\ r.jt.remote = j.remote
               /\ r.ok => /\ r.jt.dtls = BothDoDtls(j)
                          /\ BothDoDtls(j) => 
                                /\ r.jt.role # None
                                /\ r.jt.role = NegotiateDtlsRole(localType, j.local.role,
                                                              j.remote.role, j.role)
  <1>. DEFINE r == NegotiateAndSetDtlsParameters(j, localType)
              role == NegotiateDtlsRole(localType, j.local.role, j.remote.role, j.role)
              set == [j EXCEPT !.role = role, !.dtls = TRUE]
              off == [j EXCEPT !.dtls = FALSE]
  <1>1. \/ r = Done(j, FALSE)
        \/ BothDoDtls(j) /\ role # None /\ r = Done(set, TRUE)
        \/ ~BothDoDtls(j) /\ r = Done(off, TRUE)
    BY DEF NegotiateAndSetDtlsParameters, SetNegotiatedDtlsParameters, DtlsOff
  <1>2. BothDoDtls(j) \in BOOLEAN
    BY DEF BothDoDtls, HasFingerprint
  <1>3. role \in DtlsRoles \cup {None}
    <2>1. CASE localType = "offer"
      BY <2>1, RoleOfOffer DEF DtlsRoles
    <2>2. CASE localType # "offer"
      BY <2>2, RoleOfAnswer DEF DtlsRoles
    <2>. QED
      BY <2>1, <2>2
  <1>. HIDE DEF r, role
  <1>4. /\ set \in JsepTransports /\ set.filter = j.filter /\ set.mux = j.mux
        /\ set.rtcp = j.rtcp /\ set.local = j.local /\ set.remote = j.remote
        /\ set.dtls = TRUE /\ set.role = role
    BY <1>3 DEF JsepTransports
  <1>5. /\ off \in JsepTransports /\ off.filter = j.filter /\ off.mux = j.mux
        /\ off.rtcp = j.rtcp /\ off.local = j.local /\ off.remote = j.remote
        /\ off.dtls = FALSE
    BY DEF JsepTransports
  <1>. HIDE DEF set, off
  <1>6. \A k, ok : Done(k, ok).jt = k /\ Done(k, ok).ok = ok
    BY DEF Done
  <1>7. CASE r = Done(j, FALSE)
    <2>1. r.jt = j /\ r.ok = FALSE
      BY <1>6, <1>7
    <2>. QED
      BY <2>1 DEF r
  <1>8. CASE BothDoDtls(j) /\ role # None /\ r = Done(set, TRUE)
    <2>1. r.jt = set /\ r.ok = TRUE
      BY <1>6, <1>8
    <2>2. set.dtls = BothDoDtls(j) /\ set.role # None
      BY <1>2, <1>4, <1>8
    <2>. QED
      BY <1>4, <2>1, <2>2 DEF r, role
  <1>9. CASE ~BothDoDtls(j) /\ r = Done(off, TRUE)
    <2>1. r.jt = off /\ r.ok = TRUE
      BY <1>6, <1>9
    <2>2. off.dtls = BothDoDtls(j)
      BY <1>2, <1>5, <1>9
    <2>. QED
      BY <1>5, <1>9, <2>1, <2>2 DEF r
  <1>. QED
    BY <1>1, <1>7, <1>8, <1>9

-----------------------------------------------------------------------------
(* Descriptions *)

\* The two parts of a result.
LEMMA DoneFields ==
    \A k, ok : Done(k, ok).jt = k /\ Done(k, ok).ok = ok
  BY DEF Done

\* SetLocalJsepTransportDescription: what success establishes, and that a failure
\* leaves the object as it was or without a local description.
LEMMA LocalStep ==
    ASSUME NEW j \in JsepTransports, NEW d \in AllDescriptions, NEW type \in SdpTypes
    PROVE  LET r == SetLocalJsepTransportDescription(j, d, type)
           IN  /\ r.jt \in JsepTransports /\ r.ok \in BOOLEAN
               /\ r.jt.remote = j.remote
               /\ RtcpHasChannel(j) => RtcpHasChannel(r.jt)
               /\ r.ok => r.jt.local = d
               /\ ~r.ok => r.jt.local = None \/ r.jt = j
               /\ r.ok /\ type = "answer" =>
                      SettledBy(r.jt, j.remote, d) /\ AnswererRole(r.jt, d)
  <1>. DEFINE r      == SetLocalJsepTransportDescription(j, d, type)
              muxed  == SetRtcpMux(j, d.mux, type, "local")
              stored == [muxed.jt EXCEPT !.local = d, !.cert = muxed.jt.cert /\ HasFingerprint(d)]
              onIce  == [stored EXCEPT !.ice = d.ice]
              agreed == IF type = "offer" THEN Done(onIce, TRUE)
                        ELSE NegotiateAndSetDtlsParameters(onIce, type)
              done   == [agreed.jt EXCEPT !.needs = agreed.jt.needs /\ ~IceRestarting(j, d)]
              lost   == [stored EXCEPT !.local = None]
              undone == [agreed.jt EXCEPT !.local = None]
  <1>1. \/ r = Done(j, FALSE)
        \/ ~muxed.ok /\ r = muxed
        \/ muxed.ok /\ r = Done(lost, FALSE)
        \/ muxed.ok /\ ~agreed.ok /\ r = Done(undone, FALSE)
        \/ muxed.ok /\ agreed.ok /\ r = Done(done, TRUE)
    BY DEF SetLocalJsepTransportDescription
  <1>2. d.mux \in BOOLEAN /\ d.ice \in Credentials
    BY DEF AllDescriptions, Descriptions
  <1>3. /\ muxed.jt \in JsepTransports /\ muxed.ok \in BOOLEAN
        /\ ~muxed.ok => muxed.jt = j
        /\ muxed.jt.remote = j.remote
        /\ muxed.ok /\ type = "answer" =>
               /\ muxed.jt.filter.state = IF d.mux THEN "active" ELSE "init"
               /\ muxed.jt.mux = d.mux
        /\ RtcpHasChannel(j) => RtcpHasChannel(muxed.jt)
    BY <1>2, MuxStep DEF Sources
  <1>. HIDE DEF r, muxed
  <1>4. (muxed.jt.cert /\ HasFingerprint(d)) \in BOOLEAN
    BY <1>3 DEF JsepTransports, HasFingerprint
  <1>5. /\ stored \in JsepTransports
        /\ stored.local = d /\ stored.remote = j.remote
        /\ stored.filter = muxed.jt.filter /\ stored.mux = muxed.jt.mux
        /\ stored.rtcp = muxed.jt.rtcp
    <2>. DEFINE cert == muxed.jt.cert /\ HasFingerprint(d)
    <2>1. stored = [muxed.jt EXCEPT !.local = d, !.cert = cert] /\ cert \in BOOLEAN
      BY <1>4
    <2>. HIDE DEF cert, stored
    <2>2. stored \in JsepTransports
      BY <1>3, <2>1 DEF JsepTransports
    <2>3. /\ stored.local = d /\ stored.remote = muxed.jt.remote
          /\ stored.filter = muxed.jt.filter /\ stored.mux = muxed.jt.mux
          /\ stored.rtcp = muxed.jt.rtcp
      BY <1>3, <2>1 DEF JsepTransports
    <2>. QED BY <1>3, <2>2, <2>3
  <1>. HIDE DEF stored
  <1>6. /\ onIce \in JsepTransports
        /\ onIce.local = d /\ onIce.remote = j.remote
        /\ onIce.filter = muxed.jt.filter /\ onIce.mux = muxed.jt.mux
        /\ onIce.rtcp = muxed.jt.rtcp
    BY <1>2, <1>5 DEF JsepTransports
  <1>7. /\ lost \in JsepTransports
        /\ lost.local = None /\ lost.remote = j.remote
        /\ lost.filter = muxed.jt.filter /\ lost.mux = muxed.jt.mux
        /\ lost.rtcp = muxed.jt.rtcp
    BY <1>5 DEF JsepTransports
  <1>. HIDE DEF onIce, lost
  <1>8. /\ agreed.jt \in JsepTransports /\ agreed.ok \in BOOLEAN
        /\ agreed.jt.local = d /\ agreed.jt.remote = j.remote
        /\ agreed.jt.filter = muxed.jt.filter /\ agreed.jt.mux = muxed.jt.mux
        /\ agreed.jt.rtcp = muxed.jt.rtcp
    <2>1. CASE type = "offer"
      BY <1>6, <2>1, DoneFields
    <2>2. CASE type # "offer"
      BY <1>6, <2>2, DtlsStep
    <2>. QED
      BY <2>1, <2>2
  <1>9. agreed.ok /\ type = "answer" =>
            /\ agreed.jt.dtls = (HasFingerprint(j.remote) /\ HasFingerprint(d))
            /\ AnswererRole(agreed.jt, d)
    <2>1. SUFFICES ASSUME agreed.ok, type = "answer"
                   PROVE  /\ agreed.jt.dtls = (HasFingerprint(j.remote) /\ HasFingerprint(d))
                          /\ AnswererRole(agreed.jt, d)
      OBVIOUS
    <2>2. agreed = NegotiateAndSetDtlsParameters(onIce, "answer")
      BY <2>1
    <2>3. /\ agreed.jt.dtls = BothDoDtls(onIce)
          /\ BothDoDtls(onIce) =>
                 /\ agreed.jt.role # None
                 /\ agreed.jt.role = NegotiateDtlsRole("answer", d.role, j.remote.role, onIce.role)
      BY <1>6, <2>1, <2>2, DtlsStep DEF SdpTypes
    <2>4. BothDoDtls(onIce) = (HasFingerprint(j.remote) /\ HasFingerprint(d))
      BY <1>6 DEF BothDoDtls, HasFingerprint
    <2>5. AnswererRole(agreed.jt, d)
      <3>. DEFINE role == NegotiateDtlsRole("answer", d.role, j.remote.role, onIce.role)
      <3>1. \/ role = None
            \/ role = "client" /\ d.role = "active"
            \/ role = "server" /\ d.role = "passive"
        BY RoleOfAnswer DEF SdpTypes
      <3>. HIDE DEF role
      <3>2. agreed.jt.dtls => agreed.jt.role # None /\ agreed.jt.role = role
        BY <2>3 DEF role
      <3>. QED
        BY <3>1, <3>2 DEF AnswererRole
    <2>. QED
      BY <2>3, <2>4, <2>5
  <1>. HIDE DEF agreed
  <1>10. (agreed.jt.needs /\ ~IceRestarting(j, d)) \in BOOLEAN
    BY <1>8 DEF JsepTransports, IceRestarting
  <1>11. /\ done \in JsepTransports
         /\ done.local = d /\ done.remote = j.remote
         /\ done.filter = muxed.jt.filter /\ done.mux = muxed.jt.mux
         /\ done.rtcp = muxed.jt.rtcp /\ done.dtls = agreed.jt.dtls
         /\ done.role = agreed.jt.role
    BY <1>8, <1>10 DEF JsepTransports
  <1>12. /\ undone \in JsepTransports
         /\ undone.local = None /\ undone.remote = j.remote
         /\ undone.filter = muxed.jt.filter /\ undone.mux = muxed.jt.mux
         /\ undone.rtcp = muxed.jt.rtcp
    BY <1>8 DEF JsepTransports
  <1>. HIDE DEF done, undone
  <1>13. CASE r = Done(j, FALSE)
    <2>1. r.jt = j /\ r.ok = FALSE
      BY <1>13, DoneFields
    <2>. QED
      BY <2>1 DEF r
  <1>14. CASE ~muxed.ok /\ r = muxed
    BY <1>3, <1>14 DEF r
  <1>15. CASE muxed.ok /\ r = Done(lost, FALSE)
    <2>1. r.jt = lost /\ r.ok = FALSE
      BY <1>15, DoneFields
    <2>2. RtcpHasChannel(j) => RtcpHasChannel(lost)
      BY <1>3, <1>7 DEF RtcpHasChannel
    <2>. QED
      BY <1>7, <2>1, <2>2 DEF r
  <1>16. CASE muxed.ok /\ ~agreed.ok /\ r = Done(undone, FALSE)
    <2>1. r.jt = undone /\ r.ok = FALSE
      BY <1>16, DoneFields
    <2>2. RtcpHasChannel(j) => RtcpHasChannel(undone)
      BY <1>3, <1>12 DEF RtcpHasChannel
    <2>. QED
      BY <1>12, <2>1, <2>2 DEF r
  <1>17. CASE muxed.ok /\ agreed.ok /\ r = Done(done, TRUE)
    <2>1. r.jt = done /\ r.ok = TRUE
      BY <1>17, DoneFields
    <2>2. RtcpHasChannel(j) => RtcpHasChannel(done)
      BY <1>3, <1>11 DEF RtcpHasChannel
    <2>3. type = "answer" => SettledBy(done, j.remote, d) /\ AnswererRole(done, d)
      BY <1>3, <1>9, <1>11, <1>17 DEF SettledBy, AnswererRole
    <2>. QED
      BY <1>11, <2>1, <2>2, <2>3 DEF r
  <1>. QED
    BY <1>1, <1>13, <1>14, <1>15, <1>16, <1>17

\* SetRemoteJsepTransportDescription, likewise.
LEMMA RemoteStep ==
    ASSUME NEW j \in JsepTransports, NEW d \in AllDescriptions, NEW type \in SdpTypes
    PROVE  LET r == SetRemoteJsepTransportDescription(j, d, type)
           IN  /\ r.jt \in JsepTransports /\ r.ok \in BOOLEAN
               /\ r.jt.local = j.local
               /\ RtcpHasChannel(j) => RtcpHasChannel(r.jt)
               /\ r.ok => r.jt.remote = d
               /\ r.ok /\ type = "answer" =>
                      SettledBy(r.jt, j.local, d) /\ OffererRole(r.jt, d)
  <1>. DEFINE r      == SetRemoteJsepTransportDescription(j, d, type)
              muxed  == SetRtcpMux(j, d.mux, type, "remote")
              stored == [muxed.jt EXCEPT !.remote = d]
              agreed == IF type = "offer" THEN Done(stored, TRUE)
                        ELSE NegotiateAndSetDtlsParameters(stored, "offer")
              lost   == [j EXCEPT !.remote = None]
              undone == [agreed.jt EXCEPT !.remote = None]
  <1>1. \/ r = Done(lost, FALSE)
        \/ ~muxed.ok /\ r = muxed
        \/ muxed.ok /\ ~agreed.ok /\ r = Done(undone, FALSE)
        \/ muxed.ok /\ agreed.ok /\ r = agreed
    BY DEF SetRemoteJsepTransportDescription
  <1>2. d.mux \in BOOLEAN
    BY DEF AllDescriptions, Descriptions
  <1>3. /\ muxed.jt \in JsepTransports /\ muxed.ok \in BOOLEAN
        /\ ~muxed.ok => muxed.jt = j
        /\ muxed.jt.local = j.local
        /\ muxed.ok /\ type = "answer" =>
               /\ muxed.jt.filter.state = IF d.mux THEN "active" ELSE "init"
               /\ muxed.jt.mux = d.mux
        /\ RtcpHasChannel(j) => RtcpHasChannel(muxed.jt)
    BY <1>2, MuxStep DEF Sources
  <1>. HIDE DEF r, muxed
  <1>4. /\ stored \in JsepTransports
        /\ stored.remote = d /\ stored.local = j.local
        /\ stored.filter = muxed.jt.filter /\ stored.mux = muxed.jt.mux
        /\ stored.rtcp = muxed.jt.rtcp
    BY <1>3 DEF JsepTransports
  <1>5. /\ lost \in JsepTransports
        /\ lost.local = j.local
        /\ lost.filter = j.filter /\ lost.mux = j.mux /\ lost.rtcp = j.rtcp
    BY DEF JsepTransports
  <1>. HIDE DEF stored, lost
  <1>6. /\ agreed.jt \in JsepTransports /\ agreed.ok \in BOOLEAN
        /\ agreed.jt.remote = d /\ agreed.jt.local = j.local
        /\ agreed.jt.filter = muxed.jt.filter /\ agreed.jt.mux = muxed.jt.mux
        /\ agreed.jt.rtcp = muxed.jt.rtcp
    <2>1. CASE type = "offer"
      BY <1>4, <2>1, DoneFields
    <2>2. CASE type # "offer"
      BY <1>4, <2>2, DtlsStep DEF SdpTypes
    <2>. QED
      BY <2>1, <2>2
  <1>7. agreed.ok /\ type = "answer" =>
            /\ agreed.jt.dtls = (HasFingerprint(j.local) /\ HasFingerprint(d))
            /\ OffererRole(agreed.jt, d)
    <2>1. SUFFICES ASSUME agreed.ok, type = "answer"
                   PROVE  /\ agreed.jt.dtls = (HasFingerprint(j.local) /\ HasFingerprint(d))
                          /\ OffererRole(agreed.jt, d)
      OBVIOUS
    <2>2. agreed = NegotiateAndSetDtlsParameters(stored, "offer")
      BY <2>1
    <2>3. /\ agreed.jt.dtls = BothDoDtls(stored)
          /\ BothDoDtls(stored) =>
                 /\ agreed.jt.role # None
                 /\ agreed.jt.role = NegotiateDtlsRole("offer", j.local.role, d.role, stored.role)
      BY <1>4, <2>1, <2>2, DtlsStep DEF SdpTypes
    <2>4. BothDoDtls(stored) = (HasFingerprint(j.local) /\ HasFingerprint(d))
      BY <1>4 DEF BothDoDtls, HasFingerprint
    <2>5. OffererRole(agreed.jt, d)
      <3>. DEFINE role == NegotiateDtlsRole("offer", j.local.role, d.role, stored.role)
      <3>1. \/ role = None
            \/ role = "client" /\ d.role = "passive"
            \/ role = "server" /\ d.role \in {"active", "none"}
        BY RoleOfOffer
      <3>. HIDE DEF role
      <3>2. agreed.jt.dtls => agreed.jt.role # None /\ agreed.jt.role = role
        BY <2>3 DEF role
      <3>. QED
        BY <3>1, <3>2 DEF OffererRole
    <2>. QED
      BY <2>3, <2>4, <2>5
  <1>. HIDE DEF agreed
  <1>8. /\ undone \in JsepTransports
        /\ undone.local = j.local
        /\ undone.filter = muxed.jt.filter /\ undone.mux = muxed.jt.mux
        /\ undone.rtcp = muxed.jt.rtcp
    BY <1>6 DEF JsepTransports
  <1>. HIDE DEF undone
  <1>9. CASE r = Done(lost, FALSE)
    <2>1. r.jt = lost /\ r.ok = FALSE
      BY <1>9, DoneFields
    <2>2. RtcpHasChannel(j) => RtcpHasChannel(lost)
      BY <1>5 DEF RtcpHasChannel
    <2>. QED
      BY <1>5, <2>1, <2>2 DEF r
  <1>10. CASE ~muxed.ok /\ r = muxed
    BY <1>3, <1>10 DEF r
  <1>11. CASE muxed.ok /\ ~agreed.ok /\ r = Done(undone, FALSE)
    <2>1. r.jt = undone /\ r.ok = FALSE
      BY <1>11, DoneFields
    <2>2. RtcpHasChannel(j) => RtcpHasChannel(undone)
      BY <1>3, <1>8 DEF RtcpHasChannel
    <2>. QED
      BY <1>8, <2>1, <2>2 DEF r
  <1>12. CASE muxed.ok /\ agreed.ok /\ r = agreed
    <2>1. RtcpHasChannel(j) => RtcpHasChannel(agreed.jt)
      BY <1>3, <1>6 DEF RtcpHasChannel
    <2>2. type = "answer" => SettledBy(agreed.jt, j.local, d) /\ OffererRole(agreed.jt, d)
      BY <1>3, <1>6, <1>7, <1>12 DEF SettledBy
    <2>. QED
      BY <1>6, <1>12, <2>1, <2>2 DEF r
  <1>. QED
    BY <1>1, <1>9, <1>10, <1>11, <1>12

-----------------------------------------------------------------------------
(* Two endpoints *)

\* The other one of two.
LEMMA TwoPeers ==
    /\ \A p \in Peers : Other(p) \in Peers /\ Other(p) # p
    /\ \A p, q \in Peers : q # p => q = Other(p)
  <1>1. PICK a, b \in Peers : a # b /\ Peers = {a, b}
    BY PeersAssumption
  <1>2. \A p \in Peers : \E q \in Peers : q # p
    BY <1>1
  <1>3. \A p \in Peers : Other(p) \in Peers /\ Other(p) # p
    BY <1>2 DEF Other
  <1>. QED
    BY <1>1, <1>3

\* Offers and answers are descriptions.
LEMMA DescriptionsAreDescriptions ==
    /\ Descriptions(OfferRoles) \subseteq AllDescriptions
    /\ Descriptions(AnswerRoles) \subseteq AllDescriptions
  BY DEF AllDescriptions, Descriptions

\* New transports are well typed.
LEMMA InitTypes == Init => TypeOK
  <1>1. NewJsepTransport(HasRtcp, InitialRole) \in JsepTransports
    <2>1. (~HasRtcp) \in BOOLEAN /\ HasRtcp \in BOOLEAN /\ InitialRole \in DtlsRoles \cup {None}
      BY PeersAssumption
    <2>2. NewFilter \in Filters
      BY DEF NewFilter, Filters, FilterStates
    <2>. QED
      BY <2>1, <2>2 DEF NewJsepTransport, JsepTransports
  <1>. QED
    BY <1>1 DEF Init, TypeOK

\* No step of an endpoint or of the signalling leaves the types.
LEMMA NextTypes ==
    ASSUME TypeOK, [Next]_vars
    PROVE  TypeOK'
  <1>1. ASSUME NEW p \in Peers, SetLocalCertificate(p)
        PROVE  TypeOK'
    <2>1. [jt[p] EXCEPT !.cert = TRUE] \in JsepTransports
      BY DEF TypeOK, JsepTransports
    <2>2. jt' = [jt EXCEPT ![p] = [jt[p] EXCEPT !.cert = TRUE]]
      BY <1>1 DEF SetLocalCertificate
    <2>. QED
      BY <1>1, <2>1, <2>2 DEF SetLocalCertificate, TypeOK
  <1>2. ASSUME NEW p \in Peers, SetNeedsIceRestartFlag(p)
        PROVE  TypeOK'
    <2>1. [jt[p] EXCEPT !.needs = TRUE] \in JsepTransports
      BY DEF TypeOK, JsepTransports
    <2>2. jt' = [jt EXCEPT ![p] = [jt[p] EXCEPT !.needs = TRUE]]
      BY <1>2 DEF SetNeedsIceRestartFlag
    <2>. QED
      BY <1>2, <2>1, <2>2 DEF SetNeedsIceRestartFlag, TypeOK
  <1>3. ASSUME NEW p \in Peers, NEW d \in AllDescriptions, NEW type \in SdpTypes,
               NEW next \in {"stable", "localOffer", "remoteOffer"}, Describe(p, d, type, next)
        PROVE  /\ jt' \in [Peers -> JsepTransports]
               /\ sig' \in [Peers -> {"stable", "localOffer", "remoteOffer", "failed"}]
               /\ wire' \in [Peers -> Seq(SdpTypes \X AllDescriptions)]
    <2>. DEFINE r == SetLocalJsepTransportDescription(jt[p], d, type)
    <2>1. r.jt \in JsepTransports
      BY LocalStep DEF TypeOK
    <2>2. /\ jt' = [jt EXCEPT ![p] = r.jt]
          /\ sig' = sig \/ sig' = [sig EXCEPT ![p] = next]
          /\ \/ wire' = wire
             \/ wire' = [wire EXCEPT ![Other(p)] = Append(wire[Other(p)], <<type, d>>)]
      BY <1>3 DEF Describe
    <2>. HIDE DEF r
    <2>3. Append(wire[Other(p)], <<type, d>>) \in Seq(SdpTypes \X AllDescriptions)
      BY TwoPeers DEF TypeOK
    <2>. QED
      BY <2>1, <2>2, <2>3 DEF TypeOK
  <1>4. ASSUME NEW p \in Peers, NEW d \in Descriptions(OfferRoles), Offer(p, d)
        PROVE  TypeOK'
    BY <1>3, <1>4, DescriptionsAreDescriptions DEF Offer, TypeOK, SdpTypes
  <1>5. ASSUME NEW p \in Peers, NEW d \in Descriptions(AnswerRoles),
               NEW type \in {"pranswer", "answer"}, Answer(p, d, type)
        PROVE  TypeOK'
    BY <1>3, <1>5, DescriptionsAreDescriptions DEF Answer, TypeOK, SdpTypes
  <1>6. ASSUME NEW p \in Peers, NEW expected, NEW next,
               \A type \in SdpTypes : next[type] \in {"stable", "localOffer", "remoteOffer", None},
               Receive(p, expected, next)
        PROVE  TypeOK'
    <2>. DEFINE type == Head(wire[p])[1]
                d == Head(wire[p])[2]
                r == SetRemoteJsepTransportDescription(jt[p], d, type)
    <2>1. wire[p] \in Seq(SdpTypes \X AllDescriptions) /\ wire[p] # <<>>
      BY <1>6 DEF Receive, TypeOK
    <2>2. /\ Head(wire[p]) \in SdpTypes \X AllDescriptions
          /\ Tail(wire[p]) \in Seq(SdpTypes \X AllDescriptions)
      BY <2>1
    <2>3. type \in SdpTypes /\ d \in AllDescriptions
      BY <2>2
    <2>4. r.jt \in JsepTransports
      BY <2>3, RemoteStep DEF TypeOK
    <2>5. /\ jt' = [jt EXCEPT ![p] = r.jt] /\ next[type] # None
          /\ sig' = [sig EXCEPT ![p] = IF r.ok THEN next[type] ELSE "failed"]
          /\ wire' = [wire EXCEPT ![p] = Tail(wire[p])]
          /\ UNCHANGED offers
      BY <1>6 DEF Receive
    <2>. HIDE DEF r, type, d
    <2>6. (IF r.ok THEN next[type] ELSE "failed")
              \in {"stable", "localOffer", "remoteOffer", "failed"}
      BY <1>6, <2>3, <2>5
    <2>. QED
      BY <2>2, <2>4, <2>5, <2>6 DEF TypeOK
  <1>7. ASSUME NEW p \in Peers, ReceiveOffer(p)
        PROVE  TypeOK'
    BY <1>6, <1>7 DEF ReceiveOffer, SdpTypes
  <1>8. ASSUME NEW p \in Peers, ReceiveAnswer(p)
        PROVE  TypeOK'
    BY <1>6, <1>8 DEF ReceiveAnswer, SdpTypes
  <1>9. CASE UNCHANGED vars
    BY <1>9 DEF vars, TypeOK
  <1>. QED
    BY <1>1, <1>2, <1>4, <1>5, <1>7, <1>8, <1>9 DEF Next

\* The transports, the signalling state and the descriptions in flight keep their
\* types: in particular the filter is always in one of the states of the C++ enum
\* and the DTLS role is one of the two or unset.
THEOREM Types == Spec => []TypeOK
  BY InitTypes, NextTypes, PTL DEF Spec

-----------------------------------------------------------------------------
(* RTCP *)

\* No step makes an endpoint that has a way to send RTCP lose it.
LEMMA RtcpStep ==
    ASSUME TypeOK, RtcpKept, [Next]_vars
    PROVE  RtcpKept'
  <1>1. SUFFICES ASSUME HasRtcp, NEW p \in Peers, RtcpHasChannel(jt[p])
                 PROVE  RtcpHasChannel(jt'[p])
    BY DEF RtcpKept
  <1>2. ASSUME NEW q \in Peers, NEW k, jt' = [jt EXCEPT ![q] = k],
               RtcpHasChannel(jt[q]) => RtcpHasChannel(k)
        PROVE  RtcpHasChannel(jt'[p])
    BY <1>1, <1>2 DEF TypeOK
  <1>3. ASSUME NEW q \in Peers, SetLocalCertificate(q) \/ SetNeedsIceRestartFlag(q)
        PROVE  RtcpHasChannel(jt'[p])
    <2>1. jt'[p].rtcp = jt[p].rtcp /\ jt'[p].mux = jt[p].mux /\ jt'[p].filter = jt[p].filter
      BY <1>3 DEF SetLocalCertificate, SetNeedsIceRestartFlag, TypeOK, JsepTransports
    <2>. QED
      BY <1>1, <2>1 DEF RtcpHasChannel
  <1>4. ASSUME NEW q \in Peers, NEW d \in AllDescriptions, NEW type \in SdpTypes, NEW next,
               Describe(q, d, type, next)
        PROVE  RtcpHasChannel(jt'[p])
    <2>. DEFINE r == SetLocalJsepTransportDescription(jt[q], d, type)
    <2>1. RtcpHasChannel(jt[q]) => RtcpHasChannel(r.jt)
      BY LocalStep DEF TypeOK
    <2>2. jt' = [jt EXCEPT ![q] = r.jt]
      BY <1>4 DEF Describe
    <2>. HIDE DEF r
    <2>. QED
      BY <1>2, <2>1, <2>2
  <1>5. ASSUME NEW q \in Peers, NEW expected, NEW next, Receive(q, expected, next)
        PROVE  RtcpHasChannel(jt'[p])
    <2>. DEFINE type == Head(wire[q])[1]
                d == Head(wire[q])[2]
                r == SetRemoteJsepTransportDescription(jt[q], d, type)
    <2>1. Head(wire[q]) \in SdpTypes \X AllDescriptions
      BY <1>5 DEF Receive, TypeOK
    <2>2. type \in SdpTypes /\ d \in AllDescriptions
      BY <2>1
    <2>3. RtcpHasChannel(jt[q]) => RtcpHasChannel(r.jt)
      BY <2>2, RemoteStep DEF TypeOK
    <2>4. jt' = [jt EXCEPT ![q] = r.jt]
      BY <1>5 DEF Receive
    <2>. HIDE DEF r
    <2>. QED
      BY <1>2, <2>3, <2>4
  <1>6. ASSUME NEW q \in Peers, NEW d \in Descriptions(OfferRoles), Offer(q, d)
        PROVE  RtcpHasChannel(jt'[p])
    BY <1>4, <1>6, DescriptionsAreDescriptions DEF Offer, SdpTypes
  <1>7. ASSUME NEW q \in Peers, NEW d \in Descriptions(AnswerRoles),
               NEW type \in {"pranswer", "answer"}, Answer(q, d, type)
        PROVE  RtcpHasChannel(jt'[p])
    BY <1>4, <1>7, DescriptionsAreDescriptions DEF Answer, SdpTypes
  <1>8. ASSUME NEW q \in Peers, ReceiveOffer(q) \/ ReceiveAnswer(q)
        PROVE  RtcpHasChannel(jt'[p])
    BY <1>5, <1>8 DEF ReceiveOffer, ReceiveAnswer
  <1>9. CASE UNCHANGED vars
    BY <1>1, <1>9 DEF vars
  <1>. QED
    BY <1>3, <1>6, <1>7, <1>8, <1>9 DEF Next

\* An endpoint that had an RTCP transport always has a way to send RTCP: the
\* transport is dropped only by a final answer that leaves the filter active, and
\* an active filter never goes back, whatever offers and provisional answers fail
\* or follow.
THEOREM RtcpAlwaysHasAChannel == Spec => []RtcpHasAChannel
  <1>1. Init => RtcpKept
    BY DEF Init, RtcpKept, RtcpHasChannel, NewJsepTransport
  <1>2. TypeOK /\ RtcpKept /\ [Next]_vars => RtcpKept'
    BY RtcpStep
  <1>3. RtcpKept => RtcpHasAChannel
    BY DEF RtcpKept, RtcpHasChannel, RtcpHasAChannel
  <1>. QED
    BY <1>1, <1>2, <1>3, Types, PTL DEF Spec

-----------------------------------------------------------------------------
(* The exchange *)

\* What the two sides are to agree on.
Agreement == MuxAgrees /\ DtlsAgrees /\ RolesAreOpposite

\* Nothing the agreement is about has changed.
SameTransports ==
    \A p \in Peers :
        /\ jt'[p].filter = jt[p].filter /\ jt'[p].mux = jt[p].mux
        /\ jt'[p].local = jt[p].local /\ jt'[p].remote = jt[p].remote
        /\ jt'[p].dtls = jt[p].dtls /\ jt'[p].role = jt[p].role

\* A step that touches none of it keeps the exchange where it is.
LEMMA ExchangeKept ==
    ASSUME Exchange, SameTransports, UNCHANGED <<sig, wire>>
    PROVE  Exchange'
  <1>1. CASE \E p \in Peers : sig[p] = "failed"
    BY <1>1 DEF Exchange
  <1>2. CASE Quiet /\ Agreement
    <2>1. Settled' <=> Settled
      BY DEF Settled, SameTransports
    <2>2. Quiet'
      BY <1>2 DEF Quiet
    <2>3. MuxAgrees'
      BY <1>2, <2>1 DEF Agreement, MuxAgrees, SameTransports
    <2>4. DtlsAgrees' /\ RolesAreOpposite'
      BY <1>2, <2>1 DEF Agreement, DtlsAgrees, RolesAreOpposite, SameTransports
    <2>. QED
      BY <2>2, <2>3, <2>4 DEF Exchange
  <1>3. ASSUME NEW p \in Peers, NEW q \in Peers, p # q,
               Offered(p, q) \/ Answering(p, q) \/ Answered(p, q)
        PROVE  Exchange'
    <2>1. Offered(p, q) => Offered(p, q)'
      BY DEF Offered, SameTransports
    <2>2. Answering(p, q) => Answering(p, q)'
      BY DEF Answering, SameTransports
    <2>3. Answered(p, q) => Answered(p, q)'
      BY DEF Answered, SameTransports, SettledBy, AnswererRole
    <2>. QED
      BY <1>3, <2>1, <2>2, <2>3 DEF Exchange
  <1>. QED
    BY <1>1, <1>2, <1>3 DEF Exchange, Agreement

\* An exchange one side of which has failed is over.
LEMMA FailureIsFinal ==
    ASSUME TypeOK, NEW p \in Peers, sig[p] = "failed", [Next]_vars
    PROVE  sig'[p] = "failed"
  <1>1. ASSUME NEW q \in Peers, sig[q] # "failed", NEW new, sig' = [sig EXCEPT ![q] = new]
        PROVE  sig'[p] = "failed"
    BY <1>1 DEF TypeOK
  <1>2. ASSUME NEW q \in Peers, NEW expected \in {"stable", "localOffer"}, NEW next,
               Receive(q, expected, next)
        PROVE  sig'[p] = "failed"
    BY <1>1, <1>2 DEF Receive
  <1>3. ASSUME NEW q \in Peers, NEW d, NEW type, Answer(q, d, type)
        PROVE  sig'[p] = "failed"
    BY <1>1, <1>3 DEF Answer, Describe
  <1>4. ASSUME NEW q \in Peers, NEW d
        PROVE  ~Offer(q, d)
    BY DEF Offer
  <1>5. ASSUME NEW q \in Peers, SetLocalCertificate(q) \/ SetNeedsIceRestartFlag(q)
        PROVE  sig'[p] = "failed"
    BY <1>5 DEF SetLocalCertificate, SetNeedsIceRestartFlag
  <1>6. CASE UNCHANGED vars
    BY <1>6 DEF vars
  <1>. QED
    BY <1>2, <1>3, <1>4, <1>5, <1>6 DEF Next, ReceiveOffer, ReceiveAnswer

\* An offer starts an exchange; one that fails leaves the offerer unsettled.
LEMMA OfferStep ==
    ASSUME TypeOK, Exchange, NEW p \in Peers, NEW d \in Descriptions(OfferRoles), Offer(p, d)
    PROVE  Exchange'
  <1>. DEFINE q == Other(p)
              r == SetLocalJsepTransportDescription(jt[p], d, "offer")
  <1>0. q \in Peers /\ q # p /\ \A x \in Peers : x = p \/ x = q
    BY TwoPeers
  <1>1. Quiet /\ Agreement
    BY DEF Offer, Quiet, Exchange, Agreement, Offered, Answering, Answered
  <1>2. /\ r.jt \in JsepTransports
        /\ r.ok => r.jt.local = d
        /\ ~r.ok => r.jt.local = None \/ r.jt = jt[p]
    BY LocalStep, DescriptionsAreDescriptions DEF TypeOK, SdpTypes
  <1>3. /\ jt' = [jt EXCEPT ![p] = r.jt]
        /\ sig' = IF r.ok THEN [sig EXCEPT ![p] = "localOffer"] ELSE sig
        /\ wire' = IF r.ok THEN [wire EXCEPT ![q] = Append(wire[q], <<"offer", d>>)] ELSE wire
    BY DEF Offer, Describe
  <1>. HIDE DEF q, r
  <1>4. CASE r.ok
    <2>1. Append(wire[q], <<"offer", d>>) = << <<"offer", d>> >>
      <3>1. wire[q] = <<>>
        BY <1>0, <1>1 DEF Quiet
      <3>2. Append(<<>>, <<"offer", d>>) = << <<"offer", d>> >>
        OBVIOUS
      <3>. QED
        BY <3>1, <3>2
    <2>2. /\ sig'[p] = "localOffer" /\ sig'[q] = "stable" /\ jt'[p].local = d
          /\ wire'[p] = <<>> /\ wire'[q] = << <<"offer", d>> >>
      BY <1>0, <1>1, <1>2, <1>3, <1>4, <2>1 DEF Quiet, TypeOK
    <2>. QED
      BY <1>0, <2>2 DEF Exchange, Offered
  <1>5. CASE ~r.ok /\ r.jt = jt[p]
    <2>1. jt' = jt /\ UNCHANGED <<sig, wire>>
      BY <1>3, <1>5 DEF TypeOK
    <2>. QED
      BY <2>1, ExchangeKept DEF SameTransports
  <1>6. CASE ~r.ok /\ r.jt.local = None
    <2>1. jt'[p].local = None
      BY <1>3, <1>6 DEF TypeOK
    <2>2. ~Settled'
      BY <2>1 DEF Settled
    <2>3. Quiet'
      BY <1>1, <1>3, <1>6 DEF Quiet
    <2>. QED
      BY <2>2, <2>3 DEF Exchange, MuxAgrees, DtlsAgrees, RolesAreOpposite
  <1>. QED
    BY <1>2, <1>4, <1>5, <1>6

\* An answer that fails may be tried again; one that succeeds goes to the offerer.
LEMMA AnswerStep ==
    ASSUME TypeOK, Exchange, \A x \in Peers : sig[x] # "failed",
           NEW p \in Peers, NEW d \in Descriptions(AnswerRoles),
           NEW type \in {"pranswer", "answer"}, Answer(p, d, type)
    PROVE  Exchange'
  <1>. DEFINE q == Other(p)
              r == SetLocalJsepTransportDescription(jt[p], d, type)
              next == IF type = "answer" THEN "stable" ELSE "remoteOffer"
              answers == Append(wire[q], <<type, d>>)
  <1>0. q \in Peers /\ q # p /\ \A x \in Peers : x = p \/ x = q
    BY TwoPeers
  <1>1. Answering(q, p)
    <2>1. sig[p] = "remoteOffer"
      BY DEF Answer
    <2>2. PICK a, b \in Peers : a # b /\ Answering(a, b) /\ b = p
      BY <1>0, <2>1 DEF Exchange, Quiet, Offered, Answering, Answered
    <2>. QED
      BY <1>0, <2>2
  <1>2. /\ r.jt \in JsepTransports
        /\ r.jt.remote = jt[p].remote
        /\ r.ok /\ type = "answer" => SettledBy(r.jt, jt[p].remote, d) /\ AnswererRole(r.jt, d)
    BY LocalStep, DescriptionsAreDescriptions DEF TypeOK, SdpTypes
  <1>3. /\ jt' = [jt EXCEPT ![p] = r.jt]
        /\ sig' = IF r.ok THEN [sig EXCEPT ![p] = next] ELSE sig
        /\ wire' = IF r.ok THEN [wire EXCEPT ![q] = answers] ELSE wire
    BY DEF Answer, Describe
  <1>. HIDE DEF q, r
  <1>4. jt'[p] = r.jt /\ jt'[q] = jt[q]
    BY <1>0, <1>3 DEF TypeOK
  <1>5. wire[q] \in Seq(SdpTypes \X AllDescriptions)
    BY <1>0 DEF TypeOK
  <1>6. /\ DOMAIN answers = 1 .. Len(wire[q]) + 1 /\ Len(answers) = Len(wire[q]) + 1
        /\ Len(wire[q]) \in Nat /\ DOMAIN wire[q] = 1 .. Len(wire[q])
        /\ \A i \in 1 .. Len(wire[q]) : answers[i] = wire[q][i]
        /\ answers[Len(wire[q]) + 1] = <<type, d>> /\ answers # <<>>
    BY <1>5
  <1>. HIDE DEF answers
  <1>7. CASE ~r.ok
    <2>1. Answering(q, p)'
      BY <1>0, <1>1, <1>2, <1>3, <1>4, <1>7 DEF Answering
    <2>. QED
      BY <1>0, <2>1 DEF Exchange
  <1>8. CASE r.ok /\ type = "pranswer"
    <2>1. /\ sig'[p] = "remoteOffer" /\ sig'[q] = "localOffer"
          /\ wire'[p] = <<>> /\ wire'[q] = answers
      BY <1>0, <1>1, <1>3, <1>8 DEF Answering, TypeOK
    <2>2. \A i \in DOMAIN answers : answers[i][1] = "pranswer"
      BY <1>1, <1>6, <1>8 DEF Answering
    <2>3. Answering(q, p)'
      BY <1>1, <1>2, <1>4, <2>1, <2>2 DEF Answering
    <2>. QED
      BY <1>0, <2>3 DEF Exchange
  <1>9. CASE r.ok /\ type = "answer"
    <2>1. /\ sig'[p] = "stable" /\ sig'[q] = "localOffer"
          /\ wire'[p] = <<>> /\ wire'[q] = answers
      BY <1>0, <1>1, <1>3, <1>9 DEF Answering, TypeOK
    <2>2. \A i \in DOMAIN answers :
              answers[i][1] = (IF i = Len(answers) THEN "answer" ELSE "pranswer")
      BY <1>1, <1>6, <1>9 DEF Answering
    <2>3. SettledBy(jt'[p], jt'[q].local, d) /\ AnswererRole(jt'[p], d)
      BY <1>1, <1>2, <1>4, <1>9 DEF Answering
    <2>4. answers[Len(answers)][2] = d
      BY <1>6
    <2>5. Answered(q, p)'
      BY <1>6, <2>1, <2>2, <2>3, <2>4 DEF Answered
    <2>. QED
      BY <1>0, <2>5 DEF Exchange
  <1>. QED
    BY <1>7, <1>8, <1>9, <1>2

\* The offer reaches the answerer, or the exchange fails.
LEMMA ReceiveOfferStep ==
    ASSUME TypeOK, Exchange, \A x \in Peers : sig[x] # "failed",
           NEW p \in Peers, ReceiveOffer(p)
    PROVE  Exchange'
  <1>. DEFINE q == Other(p)
              type == Head(wire[p])[1]
              d == Head(wire[p])[2]
              r == SetRemoteJsepTransportDescription(jt[p], d, type)
              next == [offer |-> "remoteOffer", pranswer |-> None, answer |-> None]
  <1>0. q \in Peers /\ q # p /\ \A x \in Peers : x = p \/ x = q
    BY TwoPeers
  <1>1. sig[p] = "stable" /\ wire[p] # <<>>
    BY DEF ReceiveOffer, Receive
  <1>2. Offered(q, p)
    <2>1. PICK a, b \in Peers : a # b /\ Offered(a, b) /\ b = p
      BY <1>0, <1>1 DEF Exchange, Quiet, Offered, Answering, Answered
    <2>. QED
      BY <1>0, <2>1
  <1>3. type = "offer" /\ d = jt[q].local /\ Tail(wire[p]) = <<>>
    BY <1>2 DEF Offered
  <1>4. d \in AllDescriptions
    BY <1>0, <1>1 DEF TypeOK
  <1>5. r.jt \in JsepTransports /\ r.ok \in BOOLEAN /\ (r.ok => r.jt.remote = d)
    BY <1>3, <1>4, RemoteStep DEF TypeOK, SdpTypes
  <1>6. /\ jt' = [jt EXCEPT ![p] = r.jt]
        /\ sig' = [sig EXCEPT ![p] = IF r.ok THEN next[type] ELSE "failed"]
        /\ wire' = [wire EXCEPT ![p] = Tail(wire[p])]
    BY DEF ReceiveOffer, Receive
  <1>7. next[type] = "remoteOffer"
    BY <1>3
  <1>. HIDE DEF q, r, type, d, next
  <1>8. CASE ~r.ok
    <2>1. sig'[p] = "failed"
      BY <1>6, <1>8 DEF TypeOK
    <2>. QED
      BY <2>1 DEF Exchange
  <1>9. CASE r.ok
    <2>1. /\ sig'[p] = "remoteOffer" /\ sig'[q] = "localOffer"
          /\ wire'[p] = <<>> /\ wire'[q] = <<>>
          /\ jt'[p].remote = d /\ jt'[q] = jt[q]
      BY <1>0, <1>2, <1>3, <1>5, <1>6, <1>7, <1>9 DEF TypeOK, Offered
    <2>2. Answering(q, p)'
      BY <1>3, <2>1 DEF Answering
    <2>. QED
      BY <1>0, <2>2 DEF Exchange
  <1>. QED
    BY <1>5, <1>8, <1>9

\* The offerer settles on the final answer as the answerer did, or fails.
LEMMA ReceiveAnswerStep ==
    ASSUME TypeOK, TypeOK', Exchange, \A x \in Peers : sig[x] # "failed",
           NEW p \in Peers, ReceiveAnswer(p)
    PROVE  Exchange'
  <1>. DEFINE q == Other(p)
              type == Head(wire[p])[1]
              d == Head(wire[p])[2]
              r == SetRemoteJsepTransportDescription(jt[p], d, type)
              next == [offer |-> None, pranswer |-> "localOffer", answer |-> "stable"]
              rest == Tail(wire[p])
  <1>0. q \in Peers /\ q # p /\ \A x \in Peers : x = p \/ x = q
    BY TwoPeers
  <1>1. sig[p] = "localOffer" /\ wire[p] # <<>>
    BY DEF ReceiveAnswer, Receive
  <1>2. Answering(p, q) \/ Answered(p, q)
    <2>1. PICK a, b \in Peers : a # b /\ (Answering(a, b) \/ Answered(a, b)) /\ a = p
      BY <1>0, <1>1 DEF Exchange, Quiet, Offered, Answering, Answered
    <2>. QED
      BY <1>0, <2>1
  <1>3. wire[p] \in Seq(SdpTypes \X AllDescriptions)
    BY DEF TypeOK
  <1>4. /\ Head(wire[p]) = wire[p][1] /\ Head(wire[p]) \in SdpTypes \X AllDescriptions
        /\ Len(wire[p]) \in Nat \ {0} /\ DOMAIN wire[p] = 1 .. Len(wire[p])
        /\ DOMAIN rest = 1 .. Len(wire[p]) - 1 /\ Len(rest) = Len(wire[p]) - 1
        /\ \A i \in DOMAIN rest : rest[i] = wire[p][i + 1]
        /\ Len(wire[p]) = 1 => rest = <<>>
        /\ Len(wire[p]) # 1 => rest # <<>>
    <2>1. /\ Head(wire[p]) = wire[p][1] /\ Head(wire[p]) \in SdpTypes \X AllDescriptions
          /\ Len(wire[p]) \in Nat \ {0} /\ DOMAIN wire[p] = 1 .. Len(wire[p])
      BY <1>1, <1>3
    <2>2. /\ rest \in Seq(SdpTypes \X AllDescriptions) /\ Len(rest) = Len(wire[p]) - 1
          /\ \A i \in 1 .. Len(wire[p]) - 1 : rest[i] = wire[p][i + 1]
      BY <1>1, <1>3, HeadTailProperties
    <2>3. DOMAIN rest = 1 .. Len(wire[p]) - 1
      BY <2>1, <2>2
    <2>4. (Len(wire[p]) = 1 => rest = <<>>) /\ (Len(wire[p]) # 1 => rest # <<>>)
      <3>1. rest = <<>> <=> Len(rest) = 0
        <4>. HIDE DEF rest
        <4>. QED
          BY <2>2, EmptySeq
      <3>. QED
        BY <2>1, <2>2, <3>1
    <2>. QED
      BY <2>1, <2>2, <2>3, <2>4
  <1>5. type \in SdpTypes /\ d \in AllDescriptions
    BY <1>4
  <1>6. /\ r.jt \in JsepTransports /\ r.ok \in BOOLEAN
        /\ r.jt.local = jt[p].local
        /\ r.ok /\ type = "answer" => SettledBy(r.jt, jt[p].local, d) /\ OffererRole(r.jt, d)
    BY <1>5, RemoteStep DEF TypeOK
  <1>7. /\ jt' = [jt EXCEPT ![p] = r.jt]
        /\ sig' = [sig EXCEPT ![p] = IF r.ok THEN next[type] ELSE "failed"]
        /\ wire' = [wire EXCEPT ![p] = rest]
    BY DEF ReceiveAnswer, Receive
  <1>8. next["pranswer"] = "localOffer" /\ next["answer"] = "stable"
    OBVIOUS
  <1>t. type = wire[p][1][1] /\ d = wire[p][1][2]
    BY <1>4
  <1>. HIDE DEF q, r, type, d, next, rest
  <1>9. /\ jt'[p] = r.jt /\ jt'[q] = jt[q] /\ sig'[q] = sig[q]
        /\ wire'[p] = rest /\ wire'[q] = wire[q]
        /\ sig'[p] = IF r.ok THEN next[type] ELSE "failed"
    BY <1>0, <1>7 DEF TypeOK
  <1>10. CASE ~r.ok
    BY <1>9, <1>10 DEF Exchange
  <1>11. CASE r.ok /\ Answering(p, q)
    <2>1. type = "pranswer"
      BY <1>4, <1>t, <1>11 DEF Answering
    <2>2. \A i \in DOMAIN rest : rest[i][1] = "pranswer"
      BY <1>4, <1>11 DEF Answering
    <2>3. Answering(p, q)'
      BY <1>6, <1>8, <1>9, <1>11, <2>1, <2>2 DEF Answering
    <2>. QED
      BY <1>0, <2>3 DEF Exchange
  <1>12. CASE r.ok /\ Answered(p, q) /\ Len(wire[p]) # 1
    <2>1. type = "pranswer"
      BY <1>4, <1>t, <1>12 DEF Answered
    <2>2. \A i \in DOMAIN rest : rest[i][1] = (IF i = Len(rest) THEN "answer" ELSE "pranswer")
      <3>1. SUFFICES ASSUME NEW i \in DOMAIN rest
                     PROVE  rest[i][1] = (IF i = Len(rest) THEN "answer" ELSE "pranswer")
        OBVIOUS
      <3>2. /\ i + 1 \in DOMAIN wire[p] /\ rest[i] = wire[p][i + 1]
            /\ (i = Len(rest) <=> i + 1 = Len(wire[p]))
        BY <1>4, <3>1
      <3>. QED
        BY <1>12, <3>2 DEF Answered
    <2>3. rest[Len(rest)] = wire[p][Len(wire[p])]
      BY <1>4, <1>12
    <2>4. Answered(p, q)'
      BY <1>4, <1>6, <1>8, <1>9, <1>12, <2>1, <2>2, <2>3 DEF Answered
    <2>. QED
      BY <1>0, <2>4 DEF Exchange
  <1>13. CASE r.ok /\ Answered(p, q) /\ Len(wire[p]) = 1
    <2>1. type = "answer"
      BY <1>4, <1>t, <1>13 DEF Answered
    <2>2. /\ SettledBy(jt'[p], jt[p].local, d) /\ OffererRole(jt'[p], d)
          /\ SettledBy(jt'[q], jt[p].local, d) /\ AnswererRole(jt'[q], d)
      BY <1>t, <1>6, <1>9, <1>13, <2>1 DEF Answered
    <2>3. Quiet'
      BY <1>0, <1>4, <1>8, <1>9, <1>13, <2>1 DEF Quiet, Answered
    <2>4. Agreement'
      <3>. DEFINE offer == jt[p].local
      <3>1. /\ SettledBy(jt'[p], offer, d) /\ OffererRole(jt'[p], d)
            /\ SettledBy(jt'[q], offer, d) /\ AnswererRole(jt'[q], d)
        BY <2>2
      <3>. HIDE DEF offer
      <3>2. jt'[p].mux = jt'[q].mux /\ jt'[p].filter.state = jt'[q].filter.state
            /\ jt'[p].dtls = jt'[q].dtls
        BY <3>1 DEF SettledBy
      <3>3. IsActive(jt'[p].filter) = IsActive(jt'[q].filter)
        BY <3>2 DEF IsActive, IsFullyActive, IsProvisionallyActive
      <3>4. jt'[p].dtls => jt'[p].role # jt'[q].role
        BY <3>1, <3>2 DEF OffererRole, AnswererRole
      <3>5. MuxAgrees'
        BY <1>0, <3>2, <3>3 DEF MuxAgrees
      <3>6. DtlsAgrees'
        BY <1>0, <3>2 DEF DtlsAgrees
      <3>7. RolesAreOpposite'
        BY <1>0, <3>2, <3>4 DEF RolesAreOpposite
      <3>. QED
        BY <3>5, <3>6, <3>7 DEF Agreement
    <2>. QED
      BY <2>3, <2>4 DEF Exchange, Agreement
  <1>. QED
    BY <1>2, <1>6, <1>10, <1>11, <1>12, <1>13

\* Every step keeps to the exchange.
LEMMA ExchangeStep ==
    ASSUME TypeOK, TypeOK', Exchange, [Next]_vars
    PROVE  Exchange'
  <1>1. CASE \E p \in Peers : sig[p] = "failed"
    BY <1>1, FailureIsFinal DEF Exchange
  <1>2. CASE UNCHANGED vars
    BY <1>2, ExchangeKept DEF vars, SameTransports
  <1>3. ASSUME NEW p \in Peers, SetLocalCertificate(p) \/ SetNeedsIceRestartFlag(p)
        PROVE  Exchange'
    <2>. DEFINE k == IF SetLocalCertificate(p) THEN [jt[p] EXCEPT !.cert = TRUE]
                     ELSE [jt[p] EXCEPT !.needs = TRUE]
    <2>0. /\ k.filter = jt[p].filter /\ k.mux = jt[p].mux
          /\ k.local = jt[p].local /\ k.remote = jt[p].remote
          /\ k.dtls = jt[p].dtls /\ k.role = jt[p].role
      BY DEF TypeOK, JsepTransports
    <2>a. jt' = [jt EXCEPT ![p] = k]
      BY <1>3 DEF SetLocalCertificate, SetNeedsIceRestartFlag
    <2>. HIDE DEF k
    <2>1. SameTransports
      BY <2>0, <2>a DEF SameTransports, TypeOK
    <2>. QED
      BY <1>3, <2>1, ExchangeKept DEF SetLocalCertificate, SetNeedsIceRestartFlag
  <1>4. CASE Next /\ \A p \in Peers : sig[p] # "failed"
    BY <1>3, <1>4, OfferStep, AnswerStep, ReceiveOfferStep, ReceiveAnswerStep DEF Next
  <1>. QED
    BY <1>1, <1>2, <1>4

\* At any time no exchange is under way and the two sides agree, or one is and is
\* at one of its stages, or a remote description has failed.
THEOREM ExchangeInvariant == Spec => []Exchange
  <1>1. Init => Exchange
    <2>1. Init => ~Settled /\ Quiet
      BY TwoPeers, PeersAssumption DEF Init, Settled, Quiet, NewJsepTransport
    <2>. QED
      BY <2>1 DEF Exchange, MuxAgrees, DtlsAgrees, RolesAreOpposite
  <1>2. TypeOK /\ TypeOK' /\ Exchange /\ [Next]_vars => Exchange'
    BY ExchangeStep
  <1>. QED
    BY <1>1, <1>2, Types, PTL DEF Spec

\* At the end of an exchange the two sides agree.
LEMMA ExchangeAgrees ==
    ASSUME Exchange
    PROVE  MuxAgrees /\ DtlsAgrees /\ RolesAreOpposite
  <1>1. Settled => Quiet /\ \A p \in Peers : sig[p] = "stable"
    BY DEF Settled, Quiet
  <1>2. Settled => Agreement
    BY <1>1 DEF Exchange, Offered, Answering, Answered, Agreement
  <1>. QED
    BY <1>2 DEF Agreement, MuxAgrees, DtlsAgrees, RolesAreOpposite

\* After an exchange both endpoints multiplex RTCP or neither does, for any
\* sequence of exchanges, provisional answers and failed attempts.
THEOREM MuxAlwaysAgrees == Spec => []MuxAgrees
  <1>1. Exchange => MuxAgrees
    BY ExchangeAgrees
  <1>. QED
    BY <1>1, ExchangeInvariant, PTL

\* After an exchange DTLS runs on both sides or on neither.
THEOREM DtlsAlwaysAgrees == Spec => []DtlsAgrees
  <1>1. Exchange => DtlsAgrees
    BY ExchangeAgrees
  <1>. QED
    BY <1>1, ExchangeInvariant, PTL

\* When DTLS runs on both sides, one is the client and the other the server, in
\* the first exchange and in every later one, whichever side makes the offer.
THEOREM RolesAreAlwaysOpposite == Spec => []RolesAreOpposite
  <1>1. Exchange => RolesAreOpposite
    BY ExchangeAgrees
  <1>. QED
    BY <1>1, ExchangeInvariant, PTL

-----------------------------------------------------------------------------
(* Session descriptions: the lines of an offer *)

\* FlattenSeq of few lists.
LEMMA Flattened ==
    /\ FlattenSeq(<<>>) = <<>>
    /\ \A a : FlattenSeq(<<a>>) = a
    /\ \A a, b : FlattenSeq(<<a, b>>) = a \o b
<1>1. FlattenSeq(<<>>) = <<>>
  BY DEF FlattenSeq
<1>2. ASSUME NEW a PROVE FlattenSeq(<<a>>) = a
  <2> DEFINE Flat(f) == f = [i \in 1 .. 1 |-> IF i = 1 THEN a ELSE f[i - 1] \o <<a>>[i]]
             f == CHOOSE f : Flat(f)
  <2>1. Flat([i \in 1 .. 1 |-> a])
    OBVIOUS
  <2>2. Flat(f)
    BY <2>1
  <2>3. FlattenSeq(<<a>>) = f[1]
    BY DEF FlattenSeq
  <2> QED BY <2>2, <2>3
<1>3. ASSUME NEW a, NEW b PROVE FlattenSeq(<<a, b>>) = a \o b
  <2> DEFINE Flat(f) == f = [i \in 1 .. 2 |-> IF i = 1 THEN <<a, b>>[i]
                                               ELSE f[i - 1] \o <<a, b>>[i]]
             f == CHOOSE f : Flat(f)
             g == [i \in 1 .. 2 |-> IF i = 1 THEN a ELSE a \o b]
  <2>1. Flat(g)
    OBVIOUS
  <2>2. Flat(f)
    BY <2>1
  <2>3. FlattenSeq(<<a, b>>) = f[2]
    BY DEF FlattenSeq
  <2> HIDE DEF f
  <2>4. f[1] = a
    BY <2>2
  <2>5. f[2] = f[1] \o b
    <3>1. 2 \in 1 .. 2 /\ 2 # 1 /\ 2 - 1 = 1 /\ <<a, b>>[2] = b
      OBVIOUS
    <3>2. f[2] = IF 2 = 1 THEN <<a, b>>[2] ELSE f[2 - 1] \o <<a, b>>[2]
      BY <2>2, <3>1, Zenon
    <3> QED BY <3>1, <3>2
  <2> QED BY <2>3, <2>4, <2>5
<1> QED BY <1>1, <1>2, <1>3

\* A value that is a list.
IsList(s) == \E n \in Nat : s = [i \in 1 .. n |-> s[i]]

\* Lists of few lines.
LEMMA FewAreList ==
    /\ IsList(<<>>) /\ Len(<<>>) = 0
    /\ \A a : IsList(<<a>>) /\ Len(<<a>>) = 1 /\ <<a>>[1] = a
    /\ \A a, b : /\ IsList(<<a, b>>) /\ Len(<<a, b>>) = 2
                 /\ <<a, b>>[1] = a /\ <<a, b>>[2] = b
<1>1. \A a : <<a>> = [i \in 1 .. 1 |-> <<a>>[i]]
  OBVIOUS
<1>2. \A a, b : <<a, b>> = [i \in 1 .. 2 |-> <<a, b>>[i]]
  OBVIOUS
<1>3. <<>> = [i \in 1 .. 0 |-> <<>>[i]]
  OBVIOUS
<1>4. IsList(<<>>) /\ \A a : IsList(<<a>>)
  BY <1>1, <1>3 DEF IsList
<1>5. \A a, b : IsList(<<a, b>>)
  BY <1>2 DEF IsList
<1> QED BY <1>4, <1>5

\* One list behind another.
LEMMA Joined ==
    ASSUME NEW s, NEW t, IsList(s), IsList(t)
    PROVE  /\ IsList(s \o t) /\ Len(s) \in Nat /\ Len(t) \in Nat
           /\ DOMAIN s = 1 .. Len(s) /\ DOMAIN t = 1 .. Len(t)
           /\ Len(s \o t) = Len(s) + Len(t) /\ DOMAIN (s \o t) = 1 .. Len(s) + Len(t)
           /\ \A i \in 1 .. Len(s) : (s \o t)[i] = s[i]
           /\ \A i \in 1 .. Len(t) : (s \o t)[Len(s) + i] = t[i]
<1> DEFINE A == {s[i] : i \in DOMAIN s} \cup {t[i] : i \in DOMAIN t}
<1>1. PICK m \in Nat : s = [i \in 1 .. m |-> s[i]]
  BY DEF IsList
<1>2. PICK n \in Nat : t = [i \in 1 .. n |-> t[i]]
  BY DEF IsList
<1>3. DOMAIN s = 1 .. m /\ DOMAIN t = 1 .. n
  BY <1>1, <1>2
<1>4. \A i \in 1 .. m : s[i] \in A
  BY <1>3
<1>5. \A i \in 1 .. n : t[i] \in A
  BY <1>3
<1> HIDE DEF A
<1>6. [i \in 1 .. m |-> s[i]] \in Seq(A) /\ [i \in 1 .. n |-> t[i]] \in Seq(A)
  BY <1>4, <1>5
<1>7. s \in Seq(A) /\ t \in Seq(A)
  BY <1>1, <1>2, <1>6
<1>8. /\ s \o t \in Seq(A) /\ Len(s) \in Nat /\ Len(t) \in Nat
      /\ DOMAIN s = 1 .. Len(s) /\ DOMAIN t = 1 .. Len(t)
      /\ Len(s \o t) = Len(s) + Len(t) /\ DOMAIN (s \o t) = 1 .. Len(s) + Len(t)
      /\ \A i \in 1 .. Len(s) : (s \o t)[i] = s[i]
      /\ \A i \in 1 .. Len(t) : (s \o t)[Len(s) + i] = t[i]
  BY <1>7
<1>9. IsList(s \o t)
  <2> DEFINE r == s \o t
  <2>0. \A q \in Seq(A) : q = [i \in 1 .. Len(q) |-> q[i]] /\ Len(q) \in Nat
    OBVIOUS
  <2>1. r = [i \in 1 .. Len(r) |-> r[i]] /\ Len(r) \in Nat
    BY <1>8, <2>0
  <2> HIDE DEF r
  <2>2. IsList(r)
    BY <2>1 DEF IsList
  <2> QED BY <2>2 DEF r
<1> QED BY <1>8, <1>9

\* The lines of an offer.
Mapping(type) == [line |-> "rtpmap", type |-> type]

Parameters(type, apt) == [line |-> "fmtp", type |-> type, apt |-> apt]

Grouped(ssrcs) == [line |-> "ssrc-group", ssrcs |-> ssrcs]

Described(ssrc) == [line |-> "ssrc", ssrc |-> ssrc]

\* The sections of an offer.
AudioSection(options) ==
    [name |-> "audio", codecs |-> AudioCodecs,
     streams |-> IF Sends(options.audio) THEN AudioStreams ELSE <<>>]

VideoSection(options) ==
    [name |-> "video", codecs |-> IF Sends(options.video) THEN VideoCodecsOffered ELSE <<>>,
     streams |-> IF Sends(options.video) THEN VideoStreams ELSE <<>>]

LEMMA CodecLinesAre ==
    /\ \A c : c.codecs = <<>> => CodecLines(c) = <<>>
    /\ \A c : c.codecs = AudioCodecs => CodecLines(c) = <<Mapping(111), Parameters(111, 0)>>
    /\ \A c : c.codecs = VideoCodecsOffered =>
           CodecLines(c) = <<Mapping(107), Parameters(107, 0)>>
                           \o <<Mapping(99), Parameters(99, 107)>>
<1> DEFINE Both(codecs) == [i \in DOMAIN codecs |->
               <<[line |-> "rtpmap", type |-> codecs[i].type],
                 [line |-> "fmtp", type |-> codecs[i].type, apt |-> codecs[i].apt]>>]
<1>1. \A c : CodecLines(c) = FlattenSeq(Both(c.codecs))
  BY DEF CodecLines
<1>2. Both(<<>>) = <<>>
  OBVIOUS
<1>3. Both(AudioCodecs) = << <<Mapping(111), Parameters(111, 0)>> >>
  BY DEF AudioCodecs, Mapping, Parameters
<1>4. Both(VideoCodecsOffered) = << <<Mapping(107), Parameters(107, 0)>>,
                                    <<Mapping(99), Parameters(99, 107)>> >>
  BY DEF VideoCodecsOffered, Mapping, Parameters
<1> HIDE DEF Both
<1>5. \A c : c.codecs = <<>> => CodecLines(c) = <<>>
  BY <1>1, <1>2, Flattened
<1>6. \A c : c.codecs = AudioCodecs => CodecLines(c) = <<Mapping(111), Parameters(111, 0)>>
  BY <1>1, <1>3, Flattened
<1>7. \A c : c.codecs = VideoCodecsOffered =>
          CodecLines(c) = <<Mapping(107), Parameters(107, 0)>>
                          \o <<Mapping(99), Parameters(99, 107)>>
  <2> DEFINE a == <<Mapping(107), Parameters(107, 0)>>
             b == <<Mapping(99), Parameters(99, 107)>>
  <2>1. Both(VideoCodecsOffered) = <<a, b>>
    BY <1>4
  <2> HIDE DEF a, b
  <2>2. FlattenSeq(<<a, b>>) = a \o b
    BY Flattened
  <2> QED BY <1>1, <2>1, <2>2 DEF a, b
<1> QED BY <1>5, <1>6, <1>7

LEMMA StreamLinesAre ==
    /\ \A c : c.streams = <<>> => StreamLines(c) = <<>>
    /\ \A c : c.streams = AudioStreams => StreamLines(c) = <<Described(11)>>
    /\ \A c : c.streams = VideoStreams =>
           StreamLines(c) = (<<Grouped(<<21, 22>>)>> \o <<Described(21)>>) \o <<Described(22)>>
<1> DEFINE Of(stream) ==
             (IF stream.group = <<>> THEN <<>>
              ELSE <<[line |-> "ssrc-group", ssrcs |-> stream.group]>>)
             \o [k \in DOMAIN stream.ssrcs |-> [line |-> "ssrc", ssrc |-> stream.ssrcs[k]]]
           All(streams) == [i \in DOMAIN streams |-> Of(streams[i])]
<1>1. \A c : StreamLines(c) = FlattenSeq(All(c.streams))
  BY DEF StreamLines
<1>2. All(<<>>) = <<>>
  OBVIOUS
<1>3. \A s : [k \in DOMAIN <<s>> |-> [line |-> "ssrc", ssrc |-> <<s>>[k]]] = <<Described(s)>>
  BY DEF Described
<1>4. \A s : Of([ssrcs |-> <<s>>, group |-> <<>>]) = <<Described(s)>>
  <2> TAKE s
  <2>1. Of([ssrcs |-> <<s>>, group |-> <<>>])
            = <<>> \o [k \in DOMAIN <<s>> |-> [line |-> "ssrc", ssrc |-> <<s>>[k]]]
    OBVIOUS
  <2>2. <<>> \o <<Described(s)>> = <<Described(s)>>
    OBVIOUS
  <2> QED BY <1>3, <2>1, <2>2
<1>5. Of([ssrcs |-> <<21>>, group |-> <<21, 22>>])
          = <<Grouped(<<21, 22>>)>> \o <<Described(21)>>
  <2>1. <<21, 22>> # <<>>
    OBVIOUS
  <2>2. Of([ssrcs |-> <<21>>, group |-> <<21, 22>>])
            = <<[line |-> "ssrc-group", ssrcs |-> <<21, 22>>]>>
              \o [k \in DOMAIN <<21>> |-> [line |-> "ssrc", ssrc |-> <<21>>[k]]]
    BY <2>1
  <2> QED BY <1>3, <2>2 DEF Grouped
<1> HIDE DEF Of
<1>6. All(AudioStreams) = << <<Described(11)>> >>
  BY <1>4 DEF AudioStreams
<1>7. All(VideoStreams) = << <<Grouped(<<21, 22>>)>> \o <<Described(21)>>,
                             <<Described(22)>> >>
  BY <1>4, <1>5 DEF VideoStreams
<1> HIDE DEF All
<1>8. \A c : c.streams = <<>> => StreamLines(c) = <<>>
  BY <1>1, <1>2, Flattened
<1>9. \A c : c.streams = AudioStreams => StreamLines(c) = <<Described(11)>>
  BY <1>1, <1>6, Flattened
<1>10. \A c : c.streams = VideoStreams =>
           StreamLines(c) = (<<Grouped(<<21, 22>>)>> \o <<Described(21)>>) \o <<Described(22)>>
  <2> DEFINE a == <<Grouped(<<21, 22>>)>> \o <<Described(21)>>
             b == <<Described(22)>>
  <2>1. All(VideoStreams) = <<a, b>>
    BY <1>7
  <2> HIDE DEF a, b
  <2>2. FlattenSeq(<<a, b>>) = a \o b
    BY Flattened
  <2> QED BY <1>1, <2>1, <2>2 DEF a, b
<1> QED BY <1>8, <1>9, <1>10

\* What a section of an offer starts with: its own m= line and its transport.
StartsSection(s, name, types) ==
    /\ IsList(s) /\ Len(s) \in Nat /\ Len(s) >= 4 /\ DOMAIN s = 1 .. Len(s)
    /\ s[1] = [line |-> "m", name |-> name, types |-> types]
    /\ s[2] = [line |-> "ufrag", value |-> "ufrag"]
    /\ s[3] = [line |-> "pwd", value |-> "pwd"]
    /\ s[4] = [line |-> "fingerprint", value |-> "own"]
    /\ \A j \in 5 .. Len(s) : s[j].line \in {"rtpmap", "fmtp", "ssrc-group", "ssrc"}

\* And that it explains itself.
ExplainsItself(s) ==
    LET At(kind) == {j \in DOMAIN s : s[j].line = kind}
        types == ToSet(s[1].types)
    IN  /\ types = {s[j].type : j \in At("rtpmap")}
        /\ {s[j].apt : j \in At("fmtp")} \ {0} \subseteq types
        /\ UNION {ToSet(s[j].ssrcs) : j \in At("ssrc-group")}
               \subseteq {s[j].ssrc : j \in At("ssrc")}

\* The head of a section.
LEMMA HeadIs ==
    ASSUME NEW content, NEW t, t = OwnTransport(content.name)
    PROVE  LET s == <<MediaLine(content)>> \o TransportLines(t)
           IN  /\ StartsSection(s, content.name, MediaLine(content).types) /\ Len(s) = 4
<1> DEFINE a == <<[line |-> "ufrag", value |-> "ufrag"], [line |-> "pwd", value |-> "pwd"]>>
           b == <<[line |-> "fingerprint", value |-> "own"]>>
           m == <<MediaLine(content)>>
<1>1. TransportLines(t) = a \o b
  BY DEF TransportLines, OwnTransport, NoFingerprint
<1>2. /\ IsList(a) /\ Len(a) = 2 /\ IsList(b) /\ Len(b) = 1 /\ IsList(m) /\ Len(m) = 1
      /\ a[1] = [line |-> "ufrag", value |-> "ufrag"] /\ a[2] = [line |-> "pwd", value |-> "pwd"]
      /\ b[1] = [line |-> "fingerprint", value |-> "own"] /\ m[1] = MediaLine(content)
  BY FewAreList
<1> HIDE DEF a, b, m
<1>3. /\ IsList(a \o b) /\ Len(a \o b) = 3
      /\ (a \o b)[1] = [line |-> "ufrag", value |-> "ufrag"]
      /\ (a \o b)[2] = [line |-> "pwd", value |-> "pwd"]
      /\ (a \o b)[3] = [line |-> "fingerprint", value |-> "own"]
  <2> DEFINE c == a \o b
  <2>0. IsList(a) /\ IsList(b)
    BY <1>2
  <2>1. /\ IsList(c) /\ Len(c) = Len(a) + Len(b) /\ \A i \in 1 .. Len(a) : c[i] = a[i]
        /\ \A i \in 1 .. Len(b) : c[Len(a) + i] = b[i]
    BY <2>0, Joined
  <2> HIDE DEF c
  <2>2. Len(c) = 3 /\ c[1] = a[1] /\ c[2] = a[2] /\ c[2 + 1] = b[1]
    BY <1>2, <2>1
  <2> QED BY <1>2, <2>1, <2>2 DEF c
<1> DEFINE c == a \o b
           s == m \o c
<1> HIDE DEF c
<1>4. /\ IsList(s) /\ Len(s) = 4 /\ DOMAIN s = 1 .. 4 /\ s[1] = m[1]
      /\ s[1 + 1] = c[1] /\ s[1 + 2] = c[2] /\ s[1 + 3] = c[3]
  <2>1. IsList(c) /\ Len(c) = 3
    BY <1>3 DEF c
  <2>0. IsList(m) /\ IsList(c)
    BY <1>2, <2>1
  <2>2. /\ IsList(s) /\ Len(s) = Len(m) + Len(c) /\ DOMAIN s = 1 .. Len(m) + Len(c)
        /\ \A i \in 1 .. Len(m) : s[i] = m[i]
        /\ \A i \in 1 .. Len(c) : s[Len(m) + i] = c[i]
    BY <2>0, Joined
  <2> HIDE DEF s
  <2> QED BY <1>2, <2>1, <2>2
<1> HIDE DEF s
<1>5. StartsSection(s, content.name, MediaLine(content).types)
  BY <1>2, <1>3, <1>4 DEF StartsSection, MediaLine, c
<1> QED BY <1>1, <1>4, <1>5 DEF s, m, c

\* A section with more lines.
LEMMA MoreLines ==
    ASSUME NEW s, NEW name, NEW types, StartsSection(s, name, types), NEW t, IsList(t),
           \A j \in DOMAIN t : t[j].line \in {"rtpmap", "fmtp", "ssrc-group", "ssrc"}
    PROVE  /\ StartsSection(s \o t, name, types) /\ Len(s \o t) = Len(s) + Len(t)
           /\ Len(s) \in Nat /\ Len(t) \in Nat
           /\ \A i \in 1 .. Len(s) : (s \o t)[i] = s[i]
           /\ \A i \in 1 .. Len(t) : (s \o t)[Len(s) + i] = t[i]
<1> DEFINE r == s \o t
<1>1. IsList(s)
  BY DEF StartsSection
<1>2. /\ IsList(r) /\ Len(s) \in Nat /\ Len(t) \in Nat
      /\ DOMAIN s = 1 .. Len(s) /\ DOMAIN t = 1 .. Len(t)
      /\ Len(r) = Len(s) + Len(t) /\ DOMAIN r = 1 .. Len(s) + Len(t)
      /\ \A i \in 1 .. Len(s) : r[i] = s[i]
      /\ \A i \in 1 .. Len(t) : r[Len(s) + i] = t[i]
  BY <1>1, Joined
<1> HIDE DEF r
<1>3. Len(s) >= 4
  BY DEF StartsSection
<1>4. ASSUME NEW j \in 5 .. Len(r)
      PROVE  r[j].line \in {"rtpmap", "fmtp", "ssrc-group", "ssrc"}
  <2>1. CASE j <= Len(s)
    <3>1. j \in 5 .. Len(s) /\ j \in 1 .. Len(s)
      BY <1>2, <2>1
    <3> QED BY <1>2, <3>1 DEF StartsSection
  <2>2. CASE j > Len(s)
    <3>1. j - Len(s) \in 1 .. Len(t) /\ Len(s) + (j - Len(s)) = j
      BY <1>2, <2>2
    <3>2. r[j] = t[j - Len(s)] /\ j - Len(s) \in DOMAIN t
      BY <1>2, <3>1
    <3> QED BY <3>2
  <2> QED BY <1>2, <2>1, <2>2
<1>5. r[1] = s[1] /\ r[2] = s[2] /\ r[3] = s[3] /\ r[4] = s[4] /\ Len(r) \in Nat /\ Len(r) >= 4
  BY <1>2, <1>3
<1>6. StartsSection(r, name, types)
  BY <1>2, <1>4, <1>5 DEF StartsSection
<1> QED BY <1>2, <1>6 DEF r

Passive(t) == \A j \in DOMAIN t : t[j].line \in {"rtpmap", "fmtp", "ssrc-group", "ssrc"}

\* A section: its head, its codecs and its streams.
LEMMA SectionIs ==
    ASSUME NEW offer, NEW content, NEW c, NEW d,
           GetTransportInfoByName(offer, content.name) = OwnTransport(content.name),
           CodecLines(content) = c, IsList(c), Passive(c),
           StreamLines(content) = d, IsList(d), Passive(d)
    PROVE  LET s == SectionLines(offer, content)
           IN  /\ StartsSection(s, content.name, MediaLine(content).types)
               /\ Len(c) \in Nat /\ Len(d) \in Nat /\ Len(s) = 4 + Len(c) + Len(d)
               /\ \A i \in 1 .. Len(c) : s[4 + i] = c[i]
               /\ \A i \in 1 .. Len(d) : s[4 + Len(c) + i] = d[i]
<1> DEFINE name == content.name
           types == MediaLine(content).types
           t == GetTransportInfoByName(offer, content.name)
           h == <<MediaLine(content)>> \o TransportLines(t)
<1>1. StartsSection(h, name, types) /\ Len(h) = 4
  BY HeadIs
<1> DEFINE g == h \o c
           s == g \o d
<1>2. SectionLines(offer, content) = s
  BY DEF SectionLines
<1> HIDE DEF h, name, types
<1>3. /\ StartsSection(g, name, types) /\ Len(g) = Len(h) + Len(c) /\ Len(c) \in Nat
      /\ \A i \in 1 .. Len(c) : g[Len(h) + i] = c[i]
  <2>1. /\ StartsSection(h, name, types) /\ IsList(c)
        /\ \A j \in DOMAIN c : c[j].line \in {"rtpmap", "fmtp", "ssrc-group", "ssrc"}
    BY <1>1 DEF Passive
  <2> QED BY <2>1, MoreLines
<1> HIDE DEF g
<1>4. /\ StartsSection(s, name, types) /\ Len(s) = Len(g) + Len(d) /\ Len(d) \in Nat
      /\ \A i \in 1 .. Len(g) : s[i] = g[i]
      /\ \A i \in 1 .. Len(d) : s[Len(g) + i] = d[i]
  <2>1. /\ StartsSection(g, name, types) /\ IsList(d)
        /\ \A j \in DOMAIN d : d[j].line \in {"rtpmap", "fmtp", "ssrc-group", "ssrc"}
    BY <1>3 DEF Passive
  <2> QED BY <2>1, MoreLines
<1> HIDE DEF s
<1>5. Len(s) = 4 + Len(c) + Len(d) /\ Len(g) = 4 + Len(c)
  BY <1>1, <1>3, <1>4
<1>6. ASSUME NEW i \in 1 .. Len(c) PROVE s[4 + i] = c[i]
  <2>1. 4 + i \in 1 .. Len(g) /\ g[4 + i] = c[i]
    BY <1>1, <1>3, <1>5
  <2> QED BY <1>4, <2>1
<1>7. ASSUME NEW i \in 1 .. Len(d) PROVE s[4 + Len(c) + i] = d[i]
  BY <1>4, <1>5
<1> QED BY <1>2, <1>3, <1>4, <1>5, <1>6, <1>7 DEF name, types

\* The section for audio.
LEMMA AudioIsSection ==
    ASSUME NEW options, NEW offer,
           GetTransportInfoByName(offer, "audio") = OwnTransport("audio")
    PROVE  LET s == SectionLines(offer, AudioSection(options))
           IN  StartsSection(s, "audio", <<111>>) /\ ExplainsItself(s)
<1> DEFINE content == AudioSection(options)
           c == CodecLines(content)
           d == StreamLines(content)
           r == SectionLines(offer, content)
<1>1. /\ content.name = "audio" /\ content.codecs = AudioCodecs
      /\ content.streams = IF Sends(options.audio) THEN AudioStreams ELSE <<>>
  BY DEF AudioSection
<1>2. MediaLine(content).types = <<111>>
  <2>1. MediaLine(content).types = [i \in DOMAIN AudioCodecs |-> AudioCodecs[i].type]
    BY <1>1 DEF MediaLine
  <2> QED BY <2>1 DEF AudioCodecs
<1>3. c = <<Mapping(111), Parameters(111, 0)>> /\ d \in {<<>>, <<Described(11)>>}
  BY <1>1, CodecLinesAre, StreamLinesAre
<1> HIDE DEF content
<1>4. /\ IsList(c) /\ Len(c) = 2 /\ DOMAIN c = 1 .. 2
      /\ c[1] = Mapping(111) /\ c[2] = Parameters(111, 0)
  BY <1>3, FewAreList
<1>5. IsList(d) /\ (Len(d) = 0 \/ (Len(d) = 1 /\ d[1] = Described(11))) /\ DOMAIN d = 1 .. Len(d)
  BY <1>3, FewAreList
<1>6. Passive(c)
  BY <1>4 DEF Mapping, Parameters, Passive
<1>7. Passive(d)
  BY <1>5 DEF Described, Passive
<1>8. GetTransportInfoByName(offer, content.name) = OwnTransport(content.name)
  BY <1>1
<1> HIDE DEF c, d
<1>9. /\ StartsSection(r, content.name, MediaLine(content).types)
      /\ Len(r) = 4 + Len(c) + Len(d)
      /\ \A i \in 1 .. Len(c) : r[4 + i] = c[i]
      /\ \A i \in 1 .. Len(d) : r[4 + Len(c) + i] = d[i]
  <2>1. CodecLines(content) = c /\ StreamLines(content) = d /\ IsList(c) /\ IsList(d)
    BY <1>4, <1>5 DEF c, d
  <2> QED BY <1>6, <1>7, <1>8, <2>1, SectionIs
<1> HIDE DEF r
<1>10. /\ StartsSection(r, "audio", <<111>>) /\ Len(r) \in 6 .. 7
       /\ r[5] = Mapping(111) /\ r[6] = Parameters(111, 0)
       /\ Len(r) = 7 => r[7] = Described(11)
  <2>1. r[4 + 1] = c[1] /\ r[4 + 2] = c[2] /\ (Len(d) = 1 => r[4 + 2 + 1] = d[1])
    BY <1>4, <1>5, <1>9
  <2>2. Len(r) = 6 \/ (Len(r) = 7 /\ Len(d) = 1 /\ d[1] = Described(11))
    BY <1>4, <1>5, <1>9
  <2> QED BY <1>1, <1>2, <1>4, <1>9, <2>1, <2>2
<1>11. ExplainsItself(r)
  <2> DEFINE At(kind) == {j \in DOMAIN r : r[j].line = kind}
  <2>1. /\ DOMAIN r = 1 .. Len(r) /\ r[1].types = <<111>> /\ r[1].line = "m" /\ r[2].line = "ufrag"
        /\ r[3].line = "pwd" /\ r[4].line = "fingerprint"
    BY <1>10 DEF StartsSection
  <2>2. /\ r[5].line = "rtpmap" /\ r[5].type = 111 /\ r[6].line = "fmtp" /\ r[6].apt = 0
        /\ Len(r) = 7 => r[7].line = "ssrc"
    BY <1>10 DEF Mapping, Parameters, Described
  <2>3. \A j \in DOMAIN r : j \in {1, 2, 3, 4, 5, 6} \/ (j = 7 /\ Len(r) = 7)
    BY <1>10, <2>1
  <2>4. 5 \in DOMAIN r /\ 6 \in DOMAIN r
    BY <1>10, <2>1
  <2>5. At("rtpmap") = {5} /\ At("fmtp") = {6} /\ At("ssrc-group") = {}
    BY <2>1, <2>2, <2>3, <2>4
  <2>6. ToSet(r[1].types) = {111}
    BY <2>1 DEF ToSet
  <2> QED BY <2>2, <2>5, <2>6 DEF ExplainsItself
<1>12. StartsSection(r, "audio", <<111>>)
  BY <1>10
<1> QED BY <1>11, <1>12 DEF r, content

\* The section for video.
LEMMA VideoIsSection ==
    ASSUME NEW options, NEW offer,
           GetTransportInfoByName(offer, "video") = OwnTransport("video")
    PROVE  LET s == SectionLines(offer, VideoSection(options))
           IN  /\ StartsSection(s, "video", IF Sends(options.video) THEN <<107, 99>> ELSE <<>>)
               /\ ExplainsItself(s)
<1> DEFINE content == VideoSection(options)
           c == CodecLines(content)
           d == StreamLines(content)
           r == SectionLines(offer, content)
<1>1. /\ content.name = "video"
      /\ content.codecs = IF Sends(options.video) THEN VideoCodecsOffered ELSE <<>>
      /\ content.streams = IF Sends(options.video) THEN VideoStreams ELSE <<>>
  BY DEF VideoSection
<1>2. MediaLine(content).types = [i \in DOMAIN content.codecs |-> content.codecs[i].type]
  BY DEF MediaLine
<1>3. GetTransportInfoByName(offer, content.name) = OwnTransport(content.name)
  BY <1>1
<1> HIDE DEF content
<1>4. CASE ~Sends(options.video)
  <2>1. c = <<>> /\ d = <<>>
    BY <1>1, <1>4, CodecLinesAre, StreamLinesAre
  <2>2. /\ IsList(c) /\ Len(c) = 0 /\ DOMAIN c = {} /\ IsList(d) /\ Len(d) = 0 /\ DOMAIN d = {}
    BY <2>1, FewAreList
  <2>3. MediaLine(content).types = <<>>
    BY <1>1, <1>2, <1>4
  <2>4. Passive(c) /\ Passive(d)
    BY <2>2 DEF Passive
  <2> HIDE DEF c, d
  <2>5. StartsSection(r, content.name, MediaLine(content).types) /\ Len(r) = 4 + Len(c) + Len(d)
    <3>1. CodecLines(content) = c /\ StreamLines(content) = d /\ IsList(c) /\ IsList(d)
      BY <2>2 DEF c, d
    <3> QED BY <1>3, <2>4, <3>1, SectionIs
  <2> HIDE DEF r
  <2>6. StartsSection(r, "video", <<>>) /\ Len(r) = 4
    BY <1>1, <2>2, <2>3, <2>5
  <2>7. ExplainsItself(r)
    <3> DEFINE At(kind) == {j \in DOMAIN r : r[j].line = kind}
    <3>1. /\ DOMAIN r = 1 .. 4 /\ r[1].types = <<>> /\ r[1].line = "m"
          /\ r[2].line = "ufrag" /\ r[3].line = "pwd" /\ r[4].line = "fingerprint"
      BY <2>6 DEF StartsSection
    <3>2. At("rtpmap") = {} /\ At("fmtp") = {} /\ At("ssrc-group") = {}
      BY <3>1
    <3>3. ToSet(r[1].types) = {}
      BY <3>1 DEF ToSet
    <3> QED BY <3>2, <3>3 DEF ExplainsItself
  <2> QED BY <1>4, <2>6, <2>7 DEF r, content
<1>5. CASE Sends(options.video)
  <2> DEFINE c1 == <<Mapping(107), Parameters(107, 0)>>
             c2 == <<Mapping(99), Parameters(99, 107)>>
             d1 == <<Grouped(<<21, 22>>)>>
             d2 == <<Described(21)>>
             d3 == <<Described(22)>>
  <2>1. c = c1 \o c2 /\ d = (d1 \o d2) \o d3
    BY <1>1, <1>5, CodecLinesAre, StreamLinesAre
  <2>2. /\ IsList(c1) /\ Len(c1) = 2 /\ c1[1] = Mapping(107) /\ c1[2] = Parameters(107, 0)
        /\ IsList(c2) /\ Len(c2) = 2 /\ c2[1] = Mapping(99) /\ c2[2] = Parameters(99, 107)
    BY FewAreList
  <2>3. /\ IsList(d1) /\ Len(d1) = 1 /\ d1[1] = Grouped(<<21, 22>>)
        /\ IsList(d2) /\ Len(d2) = 1 /\ d2[1] = Described(21)
        /\ IsList(d3) /\ Len(d3) = 1 /\ d3[1] = Described(22)
    BY FewAreList
  <2>4. MediaLine(content).types = <<107, 99>>
    <3>1. content.codecs = VideoCodecsOffered
      BY <1>1, <1>5
    <3> QED BY <1>2, <3>1 DEF VideoCodecsOffered
  <2> HIDE DEF c1, c2, d1, d2, d3
  <2>5. /\ IsList(c) /\ Len(c) = 4 /\ DOMAIN c = 1 .. 4 /\ c[1] = Mapping(107)
        /\ c[2] = Parameters(107, 0) /\ c[3] = Mapping(99) /\ c[4] = Parameters(99, 107)
    <3> DEFINE e == c1 \o c2
    <3>1. IsList(c1) /\ IsList(c2)
      BY <2>2
    <3>2. /\ IsList(e) /\ Len(e) = Len(c1) + Len(c2) /\ DOMAIN e = 1 .. Len(c1) + Len(c2)
          /\ \A i \in 1 .. Len(c1) : e[i] = c1[i]
          /\ \A i \in 1 .. Len(c2) : e[Len(c1) + i] = c2[i]
      BY <3>1, Joined
    <3> HIDE DEF e
    <3>3. e[1] = c1[1] /\ e[2] = c1[2] /\ e[2 + 1] = c2[1] /\ e[2 + 2] = c2[2]
      BY <2>2, <3>2
    <3>4. /\ IsList(e) /\ Len(e) = 4 /\ DOMAIN e = 1 .. 4 /\ e[1] = Mapping(107)
          /\ e[2] = Parameters(107, 0) /\ e[3] = Mapping(99) /\ e[4] = Parameters(99, 107)
      BY <2>2, <3>2, <3>3
    <3> HIDE DEF c
    <3>5. c = e
      BY <2>1 DEF e
    <3> QED BY <3>4, <3>5
  <2>6. /\ IsList(d) /\ Len(d) = 3 /\ DOMAIN d = 1 .. 3 /\ d[1] = Grouped(<<21, 22>>)
        /\ d[2] = Described(21) /\ d[3] = Described(22)
    <3> DEFINE e == d1 \o d2
               f == e \o d3
    <3>1. IsList(d1) /\ IsList(d2)
      BY <2>3
    <3>2. /\ IsList(e) /\ Len(e) = Len(d1) + Len(d2)
          /\ \A i \in 1 .. Len(d1) : e[i] = d1[i]
          /\ \A i \in 1 .. Len(d2) : e[Len(d1) + i] = d2[i]
      BY <3>1, Joined
    <3> HIDE DEF e
    <3>3. IsList(e) /\ IsList(d3)
      BY <2>3, <3>2
    <3>4. /\ IsList(f) /\ Len(f) = Len(e) + Len(d3) /\ DOMAIN f = 1 .. Len(e) + Len(d3)
          /\ \A i \in 1 .. Len(e) : f[i] = e[i]
          /\ \A i \in 1 .. Len(d3) : f[Len(e) + i] = d3[i]
      BY <3>3, Joined
    <3> HIDE DEF f
    <3>5. Len(e) = 2 /\ e[1] = Grouped(<<21, 22>>) /\ e[1 + 1] = Described(21)
      BY <2>3, <3>2
    <3>6. Len(f) = 3 /\ f[1] = e[1] /\ f[2] = e[2] /\ f[2 + 1] = d3[1]
      BY <2>3, <3>4, <3>5
    <3>7. /\ IsList(f) /\ Len(f) = 3 /\ DOMAIN f = 1 .. 3 /\ f[1] = Grouped(<<21, 22>>)
          /\ f[2] = Described(21) /\ f[3] = Described(22)
      BY <2>3, <3>4, <3>5, <3>6
    <3> HIDE DEF d
    <3>8. d = f
      BY <2>1 DEF e, f
    <3> QED BY <3>7, <3>8
  <2>7. Passive(c)
    BY <2>5 DEF Passive, Mapping, Parameters
  <2>8. Passive(d)
    BY <2>6 DEF Passive, Grouped, Described
  <2> HIDE DEF c, d
  <2>9. /\ StartsSection(r, content.name, MediaLine(content).types)
        /\ Len(r) = 4 + Len(c) + Len(d)
        /\ \A i \in 1 .. Len(c) : r[4 + i] = c[i]
        /\ \A i \in 1 .. Len(d) : r[4 + Len(c) + i] = d[i]
    <3>1. CodecLines(content) = c /\ StreamLines(content) = d /\ IsList(c) /\ IsList(d)
      BY <2>5, <2>6 DEF c, d
    <3> QED BY <1>3, <2>7, <2>8, <3>1, SectionIs
  <2> HIDE DEF r
  <2>10. StartsSection(r, "video", <<107, 99>>) /\ Len(r) = 11
    BY <1>1, <2>4, <2>5, <2>6, <2>9
  <2>11. /\ r[5] = Mapping(107) /\ r[6] = Parameters(107, 0) /\ r[7] = Mapping(99)
         /\ r[8] = Parameters(99, 107)
    <3>1. r[4 + 1] = c[1] /\ r[4 + 2] = c[2] /\ r[4 + 3] = c[3] /\ r[4 + 4] = c[4]
      BY <2>5, <2>9
    <3> QED BY <2>5, <3>1
  <2>12. r[9] = Grouped(<<21, 22>>) /\ r[10] = Described(21) /\ r[11] = Described(22)
    <3>1. r[4 + 4 + 1] = d[1] /\ r[4 + 4 + 2] = d[2] /\ r[4 + 4 + 3] = d[3]
      BY <2>5, <2>6, <2>9
    <3> QED BY <2>6, <3>1
  <2>13. ExplainsItself(r)
    <3> DEFINE At(kind) == {j \in DOMAIN r : r[j].line = kind}
    <3>1. /\ DOMAIN r = 1 .. 11 /\ r[1].types = <<107, 99>> /\ r[1].line = "m"
          /\ r[2].line = "ufrag" /\ r[3].line = "pwd" /\ r[4].line = "fingerprint"
      BY <2>10 DEF StartsSection
    <3>2. /\ r[5].line = "rtpmap" /\ r[5].type = 107 /\ r[7].line = "rtpmap" /\ r[7].type = 99
          /\ r[6].line = "fmtp" /\ r[6].apt = 0 /\ r[8].line = "fmtp" /\ r[8].apt = 107
      BY <2>11 DEF Mapping, Parameters
    <3>3. /\ r[9].line = "ssrc-group" /\ r[9].ssrcs = <<21, 22>>
          /\ r[10].line = "ssrc" /\ r[10].ssrc = 21 /\ r[11].line = "ssrc" /\ r[11].ssrc = 22
      BY <2>12 DEF Grouped, Described
    <3>4. DOMAIN r = {1, 2, 3, 4, 5, 6, 7, 8, 9, 10, 11}
      BY <3>1
    <3>5. /\ At("rtpmap") = {5, 7} /\ At("fmtp") = {6, 8} /\ At("ssrc-group") = {9}
          /\ At("ssrc") = {10, 11}
      BY <3>1, <3>2, <3>3, <3>4
    <3>6. ToSet(r[1].types) = {107, 99} /\ ToSet(r[9].ssrcs) = {21, 22}
      BY <3>1, <3>3 DEF ToSet
    <3> HIDE DEF At
    <3>7. {r[j].type : j \in At("rtpmap")} = {107, 99}
      BY <3>2, <3>5
    <3>8. {r[j].apt : j \in At("fmtp")} \ {0} \subseteq {107, 99}
      BY <3>2, <3>5
    <3>9. UNION {ToSet(r[j].ssrcs) : j \in At("ssrc-group")} = {21, 22}
      BY <3>5, <3>6
    <3>10. {r[j].ssrc : j \in At("ssrc")} = {21, 22}
      BY <3>3, <3>5
    <3> QED BY <3>6, <3>7, <3>8, <3>9, <3>10 DEF ExplainsItself, At
  <2> QED BY <1>5, <2>10, <2>13 DEF r, content
<1> QED BY <1>4, <1>5

-----------------------------------------------------------------------------
(* Session descriptions: reading *)

LEMMA LeastNumber ==
    ASSUME NEW T \in SUBSET Nat, T # {}
    PROVE  \E x \in T : \A y \in T : x <= y
<1>1. PICK x \in T : \A y \in T : ~(<<y, x>> \in OpToRel(<, Nat))
  BY WFMin, NatLessThanWellFounded
<1>2. \A y \in Nat : y < x => <<y, x>> \in OpToRel(<, Nat)
  BY Zenon DEF OpToRel
<1>3. \A y \in T : ~(y < x)
  BY <1>1, <1>2
<1> QED BY <1>3

\* What each line leaves behind.
Reads(after, lines) ==
    /\ after[0] = Unread
    /\ \A n \in 1 .. Len(lines) : after[n] = ReadLine(after[n - 1], lines[n])

\* The loop over the lines ends: what every line leaves is defined.
LEMMA LinesAreRead ==
    ASSUME NEW lines, Len(lines) \in Nat
    PROVE  \E after : Reads(after, lines) /\ ReadLines(lines) = after[Len(lines)]
<1> DEFINE L == Len(lines)
           Runs(g, m) == g = [n \in 0 .. m |-> IF n = 0 THEN Unread
                                               ELSE ReadLine(g[n - 1], lines[n])]
           T == {m \in 0 .. L : ~\E g : Runs(g, m)}
<1>1. T = {}
  <2>1. SUFFICES ASSUME T # {} PROVE FALSE
    OBVIOUS
  <2>2. PICK m \in T : \A k \in T : m <= k
    <3>1. T \in SUBSET Nat
      OBVIOUS
    <3> HIDE DEF T
    <3> QED BY <2>1, <3>1, LeastNumber
  <2>3. m \in 0 .. L /\ ~\E g : Runs(g, m)
    BY <2>2
  <2>4. m # 0
    <3> DEFINE g == [n \in 0 .. 0 |-> Unread]
    <3>1. g = [n \in 0 .. 0 |-> IF n = 0 THEN Unread ELSE ReadLine(g[n - 1], lines[n])]
      OBVIOUS
    <3> QED BY <2>3, <3>1
  <2>5. m - 1 \in 0 .. L /\ m - 1 \notin T
    <3>1. m \in Nat /\ m - 1 \in 0 .. L /\ ~(m <= m - 1)
      BY <2>3, <2>4
    <3> HIDE DEF T
    <3> QED BY <2>2, <3>1
  <2>6. PICK g : Runs(g, m - 1)
    BY <2>5
  <2> DEFINE h == [n \in 0 .. m |-> IF n = m THEN ReadLine(g[m - 1], lines[m]) ELSE g[n]]
             r == [n \in 0 .. m |-> IF n = 0 THEN Unread ELSE ReadLine(h[n - 1], lines[n])]
  <2>7. ASSUME NEW n \in 0 .. m PROVE h[n] = r[n]
    <3>1. CASE n = m
      <4>1. m - 1 \in 0 .. m /\ m - 1 # m
        BY <2>3, <2>4
      <4>2. h[m - 1] = g[m - 1]
        BY <4>1
      <4> QED BY <2>4, <3>1, <4>2
    <3>2. CASE n # m
      <4>1. n \in 0 .. m - 1
        BY <2>3, <3>2
      <4>2. g[n] = IF n = 0 THEN Unread ELSE ReadLine(g[n - 1], lines[n])
        BY <2>6, <4>1
      <4>3. n # 0 => n - 1 \in 0 .. m /\ n - 1 # m
        BY <2>3, <4>1
      <4>4. n # 0 => h[n - 1] = g[n - 1]
        BY <4>3
      <4> QED BY <3>2, <4>2, <4>4
    <3> QED BY <3>1, <3>2
  <2>8. h = r
    BY <2>7
  <2> QED BY <2>3, <2>8
<1>2. \E g : Runs(g, L)
  BY <1>1
<1> DEFINE after == CHOOSE g : Runs(g, L)
<1>3. Runs(after, L)
  BY <1>2
<1>4. ReadLines(lines) = after[L]
  BY DEF ReadLines
<1> HIDE DEF after
<1>5. after[0] = Unread /\ \A n \in 1 .. L : after[n] = ReadLine(after[n - 1], lines[n])
  <2>1. \A n \in 0 .. L : after[n] = IF n = 0 THEN Unread ELSE ReadLine(after[n - 1], lines[n])
    BY <1>3
  <2> QED BY <2>1
<1> QED BY <1>4, <1>5 DEF Reads

IsTransport(t) == \E n, u, p, f : t = [name |-> n, ufrag |-> u, pwd |-> p, fingerprint |-> f]

Yes == TRUE

\* What has been read.
Told(ok, defined, mid, audio, video, types, groups, candidates) ==
    [ok |-> ok, defined |-> defined, mid |-> mid, audio |-> audio, video |-> video,
     types |-> types, groups |-> groups, candidates |-> candidates]

\* Lines that say nothing of the transport leave what has been read.
LEMMA PassiveLine ==
    ASSUME NEW acc, NEW line, line.line \in {"rtpmap", "fmtp", "ssrc-group", "ssrc"}
    PROVE  ReadLine(acc, line) = acc
  BY DEF ReadLine

\* What the m= line of a section leaves of defined and of the payload type.
StillDefined(d, types) == d /\ types # <<>>

FirstType(old, types) == IF types = <<>> THEN old ELSE types[1]

\* The head of a section.
ReadHead(acc, name, types) ==
    LET s1 == ReadLine(acc, [line |-> "m", name |-> name, types |-> types])
        s2 == ReadLine(s1, [line |-> "ufrag", value |-> "ufrag"])
        s3 == ReadLine(s2, [line |-> "pwd", value |-> "pwd"])
    IN  ReadLine(s3, [line |-> "fingerprint", value |-> "own"])

\* The head of a section for audio.
LEMMA ReadsAudioHead ==
    ASSUME NEW d, NEW mid, NEW a, NEW v, NEW at, NEW vt, NEW g, NEW c, IsTransport(a),
           NEW types
    PROVE  ReadHead(Told(Yes, d, mid, a, v, [audio |-> at, video |-> vt], g, c), "audio", types)
               = Told(Yes, StillDefined(d, types), "audio", OwnTransport("audio"), v,
                         [audio |-> FirstType(at, types), video |-> vt], g, c)
<1> DEFINE t == [audio |-> at, video |-> vt]
           u == [audio |-> FirstType(at, types), video |-> vt]
           e == StillDefined(d, types)
           s0 == Told(Yes, d, mid, a, v, t, g, c)
           m == [line |-> "m", name |-> "audio", types |-> types]
           T(n, x, y, f) == [name |-> n, ufrag |-> x, pwd |-> y, fingerprint |-> f]
<1>0. Yes /\ ("ufrag" # "") = Yes /\ ("pwd" # "") = Yes
  BY DEF Yes
<1>1. PICK n, x, y, f : a = T(n, x, y, f)
  BY DEF IsTransport
<1>2. ReadLine(s0, m) = ReadMedia(s0, m)
  BY <1>0 DEF ReadLine, Told
<1>3. ReadMedia(s0, m) = Told(Yes, e, "audio", T("audio", x, y, f), v, u, g, c)
  BY <1>1 DEF ReadMedia, Told, StillDefined, FirstType
<1> HIDE DEF e, u, t
<1>4. ASSUME NEW x1 PROVE
        ReadLine(Told(Yes, e, "audio", T("audio", x1, y, f), v, u, g, c),
                 [line |-> "ufrag", value |-> "ufrag"])
            = Told(Yes, e, "audio", T("audio", "ufrag", y, f), v, u, g, c)
  <2> DEFINE s == Told(Yes, e, "audio", T("audio", x1, y, f), v, u, g, c)
             l == [line |-> "ufrag", value |-> "ufrag"]
  <2>1. ReadLine(s, l) = ReadTransport(s, l)
    BY <1>0 DEF ReadLine, Told
  <2>2. ReadTransport(s, l) = Told(Yes, e, "audio", T("audio", "ufrag", y, f), v, u, g, c)
    BY <1>0 DEF ReadTransport, Told
  <2> QED BY <2>1, <2>2
<1>5. ASSUME NEW x1, NEW y1 PROVE
        ReadLine(Told(Yes, e, "audio", T("audio", x1, y1, f), v, u, g, c),
                 [line |-> "pwd", value |-> "pwd"])
            = Told(Yes, e, "audio", T("audio", x1, "pwd", f), v, u, g, c)
  <2> DEFINE s == Told(Yes, e, "audio", T("audio", x1, y1, f), v, u, g, c)
             l == [line |-> "pwd", value |-> "pwd"]
  <2>1. ReadLine(s, l) = ReadTransport(s, l)
    BY <1>0 DEF ReadLine, Told
  <2>2. ReadTransport(s, l) = Told(Yes, e, "audio", T("audio", x1, "pwd", f), v, u, g, c)
    BY <1>0 DEF ReadTransport, Told
  <2> QED BY <2>1, <2>2
<1>6. ASSUME NEW x1, NEW y1, NEW f1 PROVE
        ReadLine(Told(Yes, e, "audio", T("audio", x1, y1, f1), v, u, g, c),
                 [line |-> "fingerprint", value |-> "own"])
            = Told(Yes, e, "audio", T("audio", x1, y1, "own"), v, u, g, c)
  <2> DEFINE s == Told(Yes, e, "audio", T("audio", x1, y1, f1), v, u, g, c)
             l == [line |-> "fingerprint", value |-> "own"]
  <2>1. ReadLine(s, l) = ReadTransport(s, l)
    BY <1>0 DEF ReadLine, Told
  <2>2. ReadTransport(s, l) = Told(Yes, e, "audio", T("audio", x1, y1, "own"), v, u, g, c)
    BY <1>0 DEF ReadTransport, Told
  <2> QED BY <2>1, <2>2
<1>7. OwnTransport("audio") = T("audio", "ufrag", "pwd", "own")
  BY DEF OwnTransport
<1> DEFINE s1 == ReadLine(s0, m)
           s2 == ReadLine(s1, [line |-> "ufrag", value |-> "ufrag"])
           s3 == ReadLine(s2, [line |-> "pwd", value |-> "pwd"])
           s4 == ReadLine(s3, [line |-> "fingerprint", value |-> "own"])
<1> HIDE DEF T, e, u, t, s0, m
<1>8. s1 = Told(Yes, e, "audio", T("audio", x, y, f), v, u, g, c)
  BY <1>2, <1>3
<1> HIDE DEF s1
<1>9. s2 = Told(Yes, e, "audio", T("audio", "ufrag", y, f), v, u, g, c)
  BY <1>4, <1>8
<1> HIDE DEF s2
<1>10. s3 = Told(Yes, e, "audio", T("audio", "ufrag", "pwd", f), v, u, g, c)
  BY <1>5, <1>9
<1> HIDE DEF s3
<1>11. s4 = Told(Yes, e, "audio", T("audio", "ufrag", "pwd", "own"), v, u, g, c)
  BY <1>6, <1>10
<1> HIDE DEF s4
<1>12. s4 = Told(Yes, e, "audio", OwnTransport("audio"), v, u, g, c)
  BY <1>7, <1>11
<1>13. s4 = ReadHead(s0, "audio", types)
  BY Zenon DEF s1, s2, s3, s4, m, ReadHead
<1> QED BY <1>12, <1>13, Zenon DEF s0, t, u, e
\* The head of a section for video.
LEMMA ReadsVideoHead ==
    ASSUME NEW d, NEW mid, NEW a, NEW v, NEW at, NEW vt, NEW g, NEW c, IsTransport(v),
           NEW types
    PROVE  ReadHead(Told(Yes, d, mid, a, v, [audio |-> at, video |-> vt], g, c), "video", types)
               = Told(Yes, StillDefined(d, types), "video", a, OwnTransport("video"),
                         [audio |-> at, video |-> FirstType(vt, types)], g, c)
<1> DEFINE t == [audio |-> at, video |-> vt]
           u == [audio |-> at, video |-> FirstType(vt, types)]
           e == StillDefined(d, types)
           s0 == Told(Yes, d, mid, a, v, t, g, c)
           m == [line |-> "m", name |-> "video", types |-> types]
           T(n, x, y, f) == [name |-> n, ufrag |-> x, pwd |-> y, fingerprint |-> f]
<1>0. Yes /\ ("ufrag" # "") = Yes /\ ("pwd" # "") = Yes
  BY DEF Yes
<1>1. PICK n, x, y, f : v = T(n, x, y, f)
  BY DEF IsTransport
<1>2. ReadLine(s0, m) = ReadMedia(s0, m)
  BY <1>0 DEF ReadLine, Told
<1>3. ReadMedia(s0, m) = Told(Yes, e, "video", a, T("video", x, y, f), u, g, c)
  BY <1>1 DEF ReadMedia, Told, StillDefined, FirstType
<1> HIDE DEF e, u, t
<1>4. ASSUME NEW x1 PROVE
        ReadLine(Told(Yes, e, "video", a, T("video", x1, y, f), u, g, c),
                 [line |-> "ufrag", value |-> "ufrag"])
            = Told(Yes, e, "video", a, T("video", "ufrag", y, f), u, g, c)
  <2> DEFINE s == Told(Yes, e, "video", a, T("video", x1, y, f), u, g, c)
             l == [line |-> "ufrag", value |-> "ufrag"]
  <2>1. ReadLine(s, l) = ReadTransport(s, l)
    BY <1>0 DEF ReadLine, Told
  <2>2. ReadTransport(s, l) = Told(Yes, e, "video", a, T("video", "ufrag", y, f), u, g, c)
    BY <1>0 DEF ReadTransport, Told
  <2> QED BY <2>1, <2>2
<1>5. ASSUME NEW x1, NEW y1 PROVE
        ReadLine(Told(Yes, e, "video", a, T("video", x1, y1, f), u, g, c),
                 [line |-> "pwd", value |-> "pwd"])
            = Told(Yes, e, "video", a, T("video", x1, "pwd", f), u, g, c)
  <2> DEFINE s == Told(Yes, e, "video", a, T("video", x1, y1, f), u, g, c)
             l == [line |-> "pwd", value |-> "pwd"]
  <2>1. ReadLine(s, l) = ReadTransport(s, l)
    BY <1>0 DEF ReadLine, Told
  <2>2. ReadTransport(s, l) = Told(Yes, e, "video", a, T("video", x1, "pwd", f), u, g, c)
    BY <1>0 DEF ReadTransport, Told
  <2> QED BY <2>1, <2>2
<1>6. ASSUME NEW x1, NEW y1, NEW f1 PROVE
        ReadLine(Told(Yes, e, "video", a, T("video", x1, y1, f1), u, g, c),
                 [line |-> "fingerprint", value |-> "own"])
            = Told(Yes, e, "video", a, T("video", x1, y1, "own"), u, g, c)
  <2> DEFINE s == Told(Yes, e, "video", a, T("video", x1, y1, f1), u, g, c)
             l == [line |-> "fingerprint", value |-> "own"]
  <2>1. ReadLine(s, l) = ReadTransport(s, l)
    BY <1>0 DEF ReadLine, Told
  <2>2. ReadTransport(s, l) = Told(Yes, e, "video", a, T("video", x1, y1, "own"), u, g, c)
    BY <1>0 DEF ReadTransport, Told
  <2> QED BY <2>1, <2>2
<1>7. OwnTransport("video") = T("video", "ufrag", "pwd", "own")
  BY DEF OwnTransport
<1> DEFINE s1 == ReadLine(s0, m)
           s2 == ReadLine(s1, [line |-> "ufrag", value |-> "ufrag"])
           s3 == ReadLine(s2, [line |-> "pwd", value |-> "pwd"])
           s4 == ReadLine(s3, [line |-> "fingerprint", value |-> "own"])
<1> HIDE DEF T, e, u, t, s0, m
<1>8. s1 = Told(Yes, e, "video", a, T("video", x, y, f), u, g, c)
  BY <1>2, <1>3
<1> HIDE DEF s1
<1>9. s2 = Told(Yes, e, "video", a, T("video", "ufrag", y, f), u, g, c)
  BY <1>4, <1>8
<1> HIDE DEF s2
<1>10. s3 = Told(Yes, e, "video", a, T("video", "ufrag", "pwd", f), u, g, c)
  BY <1>5, <1>9
<1> HIDE DEF s3
<1>11. s4 = Told(Yes, e, "video", a, T("video", "ufrag", "pwd", "own"), u, g, c)
  BY <1>6, <1>10
<1> HIDE DEF s4
<1>12. s4 = Told(Yes, e, "video", a, OwnTransport("video"), u, g, c)
  BY <1>7, <1>11
<1>13. s4 = ReadHead(s0, "video", types)
  BY Zenon DEF s1, s2, s3, s4, m, ReadHead
<1> QED BY <1>12, <1>13, Zenon DEF s0, t, u, e

\* Passive lines one after the other.
LEMMA PassiveLines ==
    ASSUME NEW after, NEW lines, Reads(after, lines), NEW from \in Nat, NEW to \in Nat,
           from <= to, to <= Len(lines), Len(lines) \in Nat,
           \A j \in from + 1 .. to :
               lines[j].line \in {"rtpmap", "fmtp", "ssrc-group", "ssrc"}
    PROVE  after[to] = after[from]
<1> DEFINE T == {j \in Nat : j >= from /\ j <= to /\ after[j] # after[from]}
<1>1. SUFFICES ASSUME T # {} PROVE FALSE
  OBVIOUS
<1>2. PICK m \in T : \A k \in T : m <= k
  <2>1. T \in SUBSET Nat
    OBVIOUS
  <2> HIDE DEF T
  <2> QED BY <1>1, <2>1, LeastNumber
<1>3. m \in Nat /\ m >= from /\ m <= to /\ after[m] # after[from]
  BY <1>2
<1>4. m # from
  BY <1>3
<1>5. m - 1 \in Nat /\ m - 1 >= from /\ m - 1 <= to /\ ~(m <= m - 1)
  BY <1>3, <1>4
<1>6. after[m - 1] = after[from]
  BY <1>2, <1>5
<1>7. m \in from + 1 .. to /\ m \in 1 .. Len(lines)
  BY <1>3, <1>4
<1>8. lines[m].line \in {"rtpmap", "fmtp", "ssrc-group", "ssrc"}
  BY <1>7
<1>9. after[m] = ReadLine(after[m - 1], lines[m])
  BY <1>7 DEF Reads
<1>10. after[m] = after[m - 1]
  BY <1>8, <1>9, PassiveLine
<1> QED BY <1>3, <1>6, <1>10

\* A section that stands behind the first k lines.
Stands(s, lines, k) ==
    /\ k \in Nat /\ Len(lines) \in Nat /\ k + Len(s) <= Len(lines)
    /\ \A j \in 1 .. Len(s) : lines[k + j] = s[j]

\* The lines of a section, one after the other.
LEMMA SectionIsRead ==
    ASSUME NEW after, NEW lines, Reads(after, lines), NEW s, NEW name, NEW types,
           StartsSection(s, name, types), NEW k, Stands(s, lines, k)
    PROVE  after[k + Len(s)] = ReadHead(after[k], name, types)
<1>1. /\ k \in Nat /\ Len(lines) \in Nat /\ k + Len(s) <= Len(lines)
      /\ \A j \in 1 .. Len(s) : lines[k + j] = s[j]
  BY DEF Stands
<1>2. Len(s) \in Nat /\ Len(s) >= 4
  BY DEF StartsSection
<1>3. /\ lines[k + 1] = s[1] /\ lines[k + 2] = s[2] /\ lines[k + 3] = s[3] /\ lines[k + 4] = s[4]
  BY <1>1, <1>2
<1>4. ASSUME NEW i \in 1 .. 4 PROVE after[k + i] = ReadLine(after[(k + i) - 1], lines[k + i])
  <2>1. k + i \in 1 .. Len(lines)
    BY <1>1, <1>2
  <2>2. \A n \in 1 .. Len(lines) : after[n] = ReadLine(after[n - 1], lines[n])
    BY DEF Reads
  <2> QED BY <2>1, <2>2, Zenon
<1>5. after[k + 1] = ReadLine(after[k], s[1])
  <2>1. 1 \in 1 .. 4 /\ (k + 1) - 1 = k
    BY <1>1
  <2>2. after[k + 1] = ReadLine(after[(k + 1) - 1], lines[k + 1])
    BY <1>4, <2>1
  <2> QED BY <1>3, <2>1, <2>2
<1>6. after[k + 2] = ReadLine(after[k + 1], s[2])
  <2>1. 2 \in 1 .. 4 /\ (k + 2) - 1 = k + 1
    BY <1>1
  <2>2. after[k + 2] = ReadLine(after[(k + 2) - 1], lines[k + 2])
    BY <1>4, <2>1
  <2> QED BY <1>3, <2>1, <2>2
<1>7. after[k + 3] = ReadLine(after[k + 2], s[3])
  <2>1. 3 \in 1 .. 4 /\ (k + 3) - 1 = k + 2
    BY <1>1
  <2>2. after[k + 3] = ReadLine(after[(k + 3) - 1], lines[k + 3])
    BY <1>4, <2>1
  <2> QED BY <1>3, <2>1, <2>2
<1>8. after[k + 4] = ReadLine(after[k + 3], s[4])
  <2>1. 4 \in 1 .. 4 /\ (k + 4) - 1 = k + 3
    BY <1>1
  <2>2. after[k + 4] = ReadLine(after[(k + 4) - 1], lines[k + 4])
    BY <1>4, <2>1
  <2> QED BY <1>3, <2>1, <2>2
<1>9. after[k + Len(s)] = after[k + 4]
  <2>1. /\ k + 4 \in Nat /\ k + Len(s) \in Nat /\ k + 4 <= k + Len(s)
        /\ k + Len(s) <= Len(lines) /\ Len(lines) \in Nat
    BY <1>1, <1>2
  <2>2. ASSUME NEW j \in (k + 4) + 1 .. k + Len(s)
        PROVE  lines[j].line \in {"rtpmap", "fmtp", "ssrc-group", "ssrc"}
    <3>1. j - k \in 5 .. Len(s) /\ j - k \in 1 .. Len(s) /\ k + (j - k) = j
      BY <1>1, <1>2
    <3>2. lines[j] = s[j - k]
      BY <1>1, <3>1
    <3> QED BY <3>1, <3>2 DEF StartsSection
  <2> QED BY <2>1, <2>2, PassiveLines
<1>10. /\ s[1] = [line |-> "m", name |-> name, types |-> types]
       /\ s[2] = [line |-> "ufrag", value |-> "ufrag"]
       /\ s[3] = [line |-> "pwd", value |-> "pwd"]
       /\ s[4] = [line |-> "fingerprint", value |-> "own"]
  BY DEF StartsSection
<1> QED BY <1>5, <1>6, <1>7, <1>8, <1>9, <1>10 DEF ReadHead

\* Two lists of one line.
LEMMA Pair == \A a, b : <<a>> \o <<b>> = <<a, b>>
<1> TAKE a, b
<1> DEFINE x == <<a>>
           y == <<b>>
           r == x \o y
           q == <<a, b>>
<1>1. IsList(x) /\ IsList(y) /\ Len(x) = 1 /\ Len(y) = 1 /\ x[1] = a /\ y[1] = b
  BY FewAreList
<1>2. q = [i \in 1 .. 2 |-> q[i]] /\ q[1] = a /\ q[2] = b
  OBVIOUS
<1> HIDE DEF x, y, q
<1>3. IsList(x) /\ IsList(y)
  BY <1>1
<1>4. /\ IsList(r) /\ Len(r) = Len(x) + Len(y) /\ DOMAIN r = 1 .. Len(x) + Len(y)
      /\ \A i \in 1 .. Len(x) : r[i] = x[i]
      /\ \A i \in 1 .. Len(y) : r[Len(x) + i] = y[i]
  BY <1>3, Joined
<1> HIDE DEF r
<1>5. r[1] = a /\ r[1 + 1] = b /\ DOMAIN r = 1 .. 2
  BY <1>1, <1>4
<1>6. r = [i \in 1 .. 2 |-> r[i]]
  BY <1>4, <1>5 DEF IsList
<1>7. \A i \in 1 .. 2 : r[i] = q[i]
  BY <1>2, <1>5
<1>8. r = q
  BY <1>2, <1>6, <1>7
<1> QED BY <1>8 DEF r, x, y, q

\* A list before or behind none.
LEMMA JoinedToNone ==
    ASSUME NEW s, IsList(s)
    PROVE  <<>> \o s = s /\ s \o <<>> = s
<1> DEFINE A == {s[i] : i \in DOMAIN s}
<1>1. PICK m \in Nat : s = [i \in 1 .. m |-> s[i]]
  BY DEF IsList
<1>2. DOMAIN s = 1 .. m
  BY <1>1
<1>3. \A i \in 1 .. m : s[i] \in A
  BY <1>2
<1> HIDE DEF A
<1>4. s \in Seq(A)
  <2>1. [i \in 1 .. m |-> s[i]] \in Seq(A)
    BY <1>3
  <2> QED BY <1>1, <2>1
<1> QED BY <1>4

-----------------------------------------------------------------------------
(* Session descriptions: an offer and its parts *)

NamesOf(options) ==
    IF Offers(options.audio)
    THEN IF Offers(options.video) THEN <<"audio", "video">> ELSE <<"audio">>
    ELSE IF Offers(options.video) THEN <<"video">> ELSE <<>>

ContentsOf(options) ==
    IF Offers(options.audio)
    THEN IF Offers(options.video) THEN <<AudioSection(options), VideoSection(options)>>
         ELSE <<AudioSection(options)>>
    ELSE IF Offers(options.video) THEN <<VideoSection(options)>> ELSE <<>>

\* What an offer consists of.
LEMMA OfferIs ==
    ASSUME NEW options
    PROVE  LET offer == CreateOffer(options)
           IN  /\ offer.contents = ContentsOf(options)
               /\ offer.groups = IF options.mux /\ NamesOf(options) # <<>>
                                 THEN <<NamesOf(options)>> ELSE <<>>
               /\ offer.transports = [i \in DOMAIN NamesOf(options) |->
                                         OwnTransport(NamesOf(options)[i])]
<1> DEFINE a == AudioSection(options)
           v == VideoSection(options)
           contents == (IF Offers(options.audio) THEN <<a>> ELSE <<>>)
                       \o (IF Offers(options.video) THEN <<v>> ELSE <<>>)
           names == [i \in DOMAIN contents |-> contents[i].name]
           offer == [contents |-> contents,
                     transports |-> [i \in DOMAIN contents |-> OwnTransport(names[i])],
                     groups |-> IF options.mux /\ names # <<>> THEN <<names>> ELSE <<>>]
<1>1. CreateOffer(options) = offer
  BY DEF CreateOffer, AudioSection, VideoSection
<1>2. a.name = "audio" /\ v.name = "video"
  BY DEF AudioSection, VideoSection
<1> HIDE DEF a, v
<1>3. contents = ContentsOf(options)
  <2>1. IsList(<<>>) /\ IsList(<<a>>) /\ IsList(<<v>>)
    BY FewAreList
  <2>2. <<>> \o <<>> = <<>> /\ <<>> \o <<v>> = <<v>> /\ <<a>> \o <<>> = <<a>>
    BY <2>1, JoinedToNone
  <2>3. <<a>> \o <<v>> = <<a, v>>
    BY Pair
  <2> QED BY <2>2, <2>3 DEF ContentsOf, a, v
<1>4. [i \in DOMAIN <<>> |-> <<>>[i].name] = <<>>
  OBVIOUS
<1>5. [i \in DOMAIN <<a>> |-> <<a>>[i].name] = <<"audio">>
  BY <1>2
<1>6. [i \in DOMAIN <<v>> |-> <<v>>[i].name] = <<"video">>
  BY <1>2
<1>7. [i \in DOMAIN <<a, v>> |-> <<a, v>>[i].name] = <<"audio", "video">>
  BY <1>2
<1> HIDE DEF contents
<1>8. names = NamesOf(options)
  <2>1. contents = IF Offers(options.audio)
                   THEN IF Offers(options.video) THEN <<a, v>> ELSE <<a>>
                   ELSE IF Offers(options.video) THEN <<v>> ELSE <<>>
    BY <1>3 DEF ContentsOf, a, v
  <2> QED BY <1>4, <1>5, <1>6, <1>7, <2>1 DEF NamesOf
<1>9. DOMAIN contents = DOMAIN names
  OBVIOUS
<1> HIDE DEF names
<1>10. [i \in DOMAIN contents |-> OwnTransport(names[i])]
           = [i \in DOMAIN NamesOf(options) |-> OwnTransport(NamesOf(options)[i])]
  BY <1>8, <1>9
<1> QED BY <1>1, <1>3, <1>8, <1>10

\* A transport is found by its name.
LEMMA TransportsAreFound ==
    ASSUME NEW options
    PROVE  LET offer == CreateOffer(options)
           IN  /\ Offers(options.audio) =>
                      GetTransportInfoByName(offer, "audio") = OwnTransport("audio")
               /\ Offers(options.video) =>
                      GetTransportInfoByName(offer, "video") = OwnTransport("video")
<1> DEFINE offer == CreateOffer(options)
           At(name) == {i \in DOMAIN offer.transports : offer.transports[i].name = name}
<1>1. offer.transports = [i \in DOMAIN NamesOf(options) |-> OwnTransport(NamesOf(options)[i])]
  BY OfferIs
<1> HIDE DEF offer
<1>2. \A i \in DOMAIN NamesOf(options) :
          /\ offer.transports[i] = OwnTransport(NamesOf(options)[i])
          /\ offer.transports[i].name = NamesOf(options)[i]
  BY <1>1 DEF OwnTransport
<1>3. DOMAIN offer.transports = DOMAIN NamesOf(options)
  BY <1>1
<1>4. Min({1}) = 1 /\ Min({2}) = 2
  BY DEF Min
<1>5. ASSUME NEW name, NEW k \in {1, 2}, At(name) = {k}, k \in DOMAIN NamesOf(options),
             NamesOf(options)[k] = name
      PROVE  GetTransportInfoByName(offer, name) = OwnTransport(name)
  <2>1. GetTransportInfoByName(offer, name) = offer.transports[Min({k})]
    BY <1>5 DEF GetTransportInfoByName
  <2> QED BY <1>2, <1>4, <1>5, <2>1
<1>6. ASSUME Offers(options.audio)
      PROVE  GetTransportInfoByName(offer, "audio") = OwnTransport("audio")
  <2>1. CASE Offers(options.video)
    <3>1. NamesOf(options) = <<"audio", "video">>
      BY <1>6, <2>1 DEF NamesOf
    <3>2. At("audio") = {1}
      BY <1>2, <1>3, <3>1
    <3> HIDE DEF At
    <3> QED BY <1>5, <3>1, <3>2
  <2>2. CASE ~Offers(options.video)
    <3>1. NamesOf(options) = <<"audio">>
      BY <1>6, <2>2 DEF NamesOf
    <3>2. At("audio") = {1}
      BY <1>2, <1>3, <3>1
    <3> HIDE DEF At
    <3> QED BY <1>5, <3>1, <3>2
  <2> QED BY <2>1, <2>2
<1>7. ASSUME Offers(options.video)
      PROVE  GetTransportInfoByName(offer, "video") = OwnTransport("video")
  <2>1. CASE Offers(options.audio)
    <3>1. NamesOf(options) = <<"audio", "video">>
      BY <1>7, <2>1 DEF NamesOf
    <3>2. At("video") = {2}
      BY <1>2, <1>3, <3>1
    <3> HIDE DEF At
    <3> QED BY <1>5, <3>1, <3>2
  <2>2. CASE ~Offers(options.audio)
    <3>1. NamesOf(options) = <<"video">>
      BY <1>7, <2>2 DEF NamesOf
    <3>2. At("video") = {1}
      BY <1>2, <1>3, <3>1
    <3> HIDE DEF At
    <3> QED BY <1>5, <3>1, <3>2
  <2> QED BY <2>1, <2>2
<1> QED BY <1>6, <1>7 DEF offer

\* The parts of an offer's text.
BundleOf(options) ==
    IF options.mux /\ NamesOf(options) # <<>>
    THEN <<[line |-> "group", names |-> NamesOf(options)]>> ELSE <<>>

AudioOf(options) ==
    IF Offers(options.audio) THEN SectionLines(CreateOffer(options), AudioSection(options))
    ELSE <<>>

VideoOf(options) ==
    IF Offers(options.video) THEN SectionLines(CreateOffer(options), VideoSection(options))
    ELSE <<>>

LEMMA PartsAre ==
    ASSUME NEW options
    PROVE  /\ IsList(BundleOf(options)) /\ IsList(AudioOf(options)) /\ IsList(VideoOf(options))
           /\ Offers(options.audio) => /\ StartsSection(AudioOf(options), "audio", <<111>>)
                                       /\ ExplainsItself(AudioOf(options))
           /\ Offers(options.video) =>
                  /\ StartsSection(VideoOf(options), "video",
                                   IF Sends(options.video) THEN <<107, 99>> ELSE <<>>)
                  /\ ExplainsItself(VideoOf(options))
<1>1. IsList(BundleOf(options))
  BY FewAreList DEF BundleOf
<1>2. Offers(options.audio) => /\ StartsSection(AudioOf(options), "audio", <<111>>)
                               /\ ExplainsItself(AudioOf(options))
  BY TransportsAreFound, AudioIsSection DEF AudioOf
<1>3. Offers(options.video) =>
          /\ StartsSection(VideoOf(options), "video",
                           IF Sends(options.video) THEN <<107, 99>> ELSE <<>>)
          /\ ExplainsItself(VideoOf(options))
  BY TransportsAreFound, VideoIsSection DEF VideoOf
<1>4. IsList(AudioOf(options))
  <2>1. CASE Offers(options.audio)
    BY <1>2, <2>1 DEF StartsSection
  <2>2. CASE ~Offers(options.audio)
    BY <2>2, FewAreList DEF AudioOf
  <2> QED BY <2>1, <2>2
<1>5. IsList(VideoOf(options))
  <2>1. CASE Offers(options.video)
    BY <1>3, <2>1 DEF StartsSection
  <2>2. CASE ~Offers(options.video)
    BY <2>2, FewAreList DEF VideoOf
  <2> QED BY <2>1, <2>2
<1> QED BY <1>1, <1>2, <1>3, <1>4, <1>5

\* An offer is its bundle, its section for audio and its section for video.
LEMMA OfferLinesAre ==
    ASSUME NEW options
    PROVE  SdpLines(CreateOffer(options))
               = BundleOf(options) \o (AudioOf(options) \o VideoOf(options))
<1> DEFINE offer == CreateOffer(options)
           a == AudioSection(options)
           v == VideoSection(options)
           All(contents) == [i \in DOMAIN contents |-> SectionLines(offer, contents[i])]
<1>1. /\ offer.contents = ContentsOf(options)
      /\ offer.groups = IF options.mux /\ NamesOf(options) # <<>>
                        THEN <<NamesOf(options)>> ELSE <<>>
  BY OfferIs
<1> HIDE DEF offer
<1>2. (IF offer.groups = <<>> THEN <<>> ELSE <<[line |-> "group", names |-> offer.groups[1]]>>)
          = BundleOf(options)
  <2>1. \A n : <<n>> # <<>> /\ <<n>>[1] = n
    OBVIOUS
  <2> QED BY <1>1, <2>1 DEF BundleOf
<1>3. FlattenSeq(All(offer.contents)) = AudioOf(options) \o VideoOf(options)
  <2>0. IsList(AudioOf(options)) /\ IsList(VideoOf(options)) /\ IsList(<<>>)
    BY PartsAre, FewAreList
  <2>1. CASE Offers(options.audio) /\ Offers(options.video)
    <3> DEFINE x == SectionLines(offer, a)
               y == SectionLines(offer, v)
    <3>1. AudioOf(options) = x /\ VideoOf(options) = y
      BY <2>1 DEF AudioOf, VideoOf, offer
    <3>2. offer.contents = <<a, v>>
      BY <1>1, <2>1 DEF ContentsOf
    <3> HIDE DEF a, v
    <3>3. All(<<a, v>>) = <<x, y>>
      OBVIOUS
    <3> HIDE DEF x, y, All
    <3>4. FlattenSeq(<<x, y>>) = x \o y
      BY Flattened
    <3> QED BY <3>1, <3>2, <3>3, <3>4
  <2>2. CASE Offers(options.audio) /\ ~Offers(options.video)
    <3> DEFINE x == SectionLines(offer, a)
    <3>1. AudioOf(options) = x /\ VideoOf(options) = <<>>
      BY <2>2 DEF AudioOf, VideoOf, offer
    <3>2. offer.contents = <<a>>
      BY <1>1, <2>2 DEF ContentsOf
    <3> HIDE DEF a
    <3>3. All(<<a>>) = <<x>>
      OBVIOUS
    <3> HIDE DEF x, All
    <3>4. FlattenSeq(<<x>>) = x
      BY Flattened
    <3>5. IsList(x)
      BY <2>0, <3>1
    <3>6. x \o <<>> = x
      BY <3>5, JoinedToNone
    <3> QED BY <3>1, <3>2, <3>3, <3>4, <3>6
  <2>3. CASE ~Offers(options.audio) /\ Offers(options.video)
    <3> DEFINE y == SectionLines(offer, v)
    <3>1. AudioOf(options) = <<>> /\ VideoOf(options) = y
      BY <2>3 DEF AudioOf, VideoOf, offer
    <3>2. offer.contents = <<v>>
      BY <1>1, <2>3 DEF ContentsOf
    <3> HIDE DEF v
    <3>3. All(<<v>>) = <<y>>
      OBVIOUS
    <3> HIDE DEF y, All
    <3>4. FlattenSeq(<<y>>) = y
      BY Flattened
    <3>5. IsList(y)
      BY <2>0, <3>1
    <3>6. <<>> \o y = y
      BY <3>5, JoinedToNone
    <3> QED BY <3>1, <3>2, <3>3, <3>4, <3>6
  <2>4. CASE ~Offers(options.audio) /\ ~Offers(options.video)
    <3>1. AudioOf(options) = <<>> /\ VideoOf(options) = <<>>
      BY <2>4 DEF AudioOf, VideoOf
    <3>2. offer.contents = <<>>
      BY <1>1, <2>4 DEF ContentsOf
    <3>3. All(<<>>) = <<>>
      OBVIOUS
    <3> HIDE DEF All
    <3>4. FlattenSeq(<<>>) = <<>>
      BY Flattened
    <3>5. <<>> \o <<>> = <<>>
      BY <2>0, JoinedToNone
    <3> QED BY <3>1, <3>2, <3>3, <3>4, <3>5
  <2> QED BY <2>1, <2>2, <2>3, <2>4
<1> QED BY <1>2, <1>3 DEF SdpLines, offer

\* Where the parts stand.
LEMMA PartsStand ==
    ASSUME NEW options, NEW extra, IsList(extra)
    PROVE  LET lines == SdpLines(CreateOffer(options)) \o extra
               nb == Len(BundleOf(options))
               na == Len(AudioOf(options))
               nv == Len(VideoOf(options))
           IN  /\ nb \in Nat /\ na \in Nat /\ nv \in Nat /\ Len(extra) \in Nat
               /\ IsList(SdpLines(CreateOffer(options)))
               /\ Len(SdpLines(CreateOffer(options))) = nb + na + nv
               /\ Len(lines) = nb + na + nv + Len(extra) /\ DOMAIN lines = 1 .. Len(lines)
               /\ \A j \in 1 .. nb : lines[j] = BundleOf(options)[j]
               /\ Stands(AudioOf(options), lines, nb)
               /\ Stands(VideoOf(options), lines, nb + na)
               /\ Stands(extra, lines, nb + na + nv)
<1> DEFINE b == BundleOf(options)
           a == AudioOf(options)
           v == VideoOf(options)
           c == a \o v
           o == b \o c
           lines == o \o extra
<1>1. IsList(b) /\ IsList(a) /\ IsList(v)
  BY PartsAre
<1>2. SdpLines(CreateOffer(options)) = o
  BY OfferLinesAre
<1> HIDE DEF b, a, v
<1>3. /\ IsList(c) /\ Len(a) \in Nat /\ Len(v) \in Nat /\ Len(c) = Len(a) + Len(v)
      /\ \A i \in 1 .. Len(a) : c[i] = a[i]
      /\ \A i \in 1 .. Len(v) : c[Len(a) + i] = v[i]
  BY <1>1, Joined
<1> HIDE DEF c
<1>4. IsList(b) /\ IsList(c)
  BY <1>1, <1>3
<1>5. /\ IsList(o) /\ Len(b) \in Nat /\ Len(c) \in Nat /\ Len(o) = Len(b) + Len(c)
      /\ \A i \in 1 .. Len(b) : o[i] = b[i]
      /\ \A i \in 1 .. Len(c) : o[Len(b) + i] = c[i]
  BY <1>4, Joined
<1> HIDE DEF o
<1>6. IsList(o) /\ IsList(extra)
  BY <1>5
<1>7. /\ Len(o) \in Nat /\ Len(extra) \in Nat /\ Len(lines) = Len(o) + Len(extra)
      /\ DOMAIN lines = 1 .. Len(o) + Len(extra)
      /\ \A i \in 1 .. Len(o) : lines[i] = o[i]
      /\ \A i \in 1 .. Len(extra) : lines[Len(o) + i] = extra[i]
  BY <1>6, Joined
<1> HIDE DEF lines
<1> DEFINE nb == Len(b)
           na == Len(a)
           nv == Len(v)
           nx == Len(extra)
<1>8. nb \in Nat /\ na \in Nat /\ nv \in Nat /\ nx \in Nat /\ Len(o) = nb + na + nv
  BY <1>3, <1>5, <1>7
<1>9. Len(lines) = nb + na + nv + nx /\ Len(lines) \in Nat
  BY <1>7, <1>8
<1>10. ASSUME NEW j \in 1 .. nb PROVE lines[j] = b[j]
  <2>1. j \in 1 .. Len(o)
    BY <1>8
  <2> QED BY <1>5, <1>7, <2>1
<1>11. ASSUME NEW j \in 1 .. na PROVE lines[nb + j] = a[j]
  <2>1. nb + j \in 1 .. Len(o) /\ j \in 1 .. Len(c)
    BY <1>3, <1>8
  <2>2. o[nb + j] = c[j]
    BY <1>5, <2>1
  <2> QED BY <1>3, <1>7, <2>1, <2>2
<1>12. ASSUME NEW j \in 1 .. nv PROVE lines[(nb + na) + j] = v[j]
  <2>1. nb + (na + j) \in 1 .. Len(o) /\ na + j \in 1 .. Len(c) /\ nb + (na + j) = (nb + na) + j
    BY <1>3, <1>8
  <2>2. o[nb + (na + j)] = c[na + j]
    BY <1>5, <2>1
  <2>3. c[na + j] = v[j]
    BY <1>3
  <2> QED BY <1>7, <2>1, <2>2, <2>3
<1>13. Stands(a, lines, nb)
  BY <1>8, <1>9, <1>11 DEF Stands
<1>14. Stands(v, lines, nb + na)
  BY <1>8, <1>9, <1>12 DEF Stands
<1>15. Stands(extra, lines, nb + na + nv)
  BY <1>7, <1>8, <1>9 DEF Stands
<1> QED BY <1>2, <1>5, <1>7, <1>8, <1>9, <1>10, <1>13, <1>14, <1>15 DEF lines, b, a, v

\* What has been read when an offer has been.
AfterOffer(options) ==
    Told(Yes, ~(Offers(options.video) /\ ~Sends(options.video)),
         IF Offers(options.video) THEN "video"
         ELSE IF Offers(options.audio) THEN "audio" ELSE "",
         IF Offers(options.audio) THEN OwnTransport("audio") ELSE NoTransport,
         IF Offers(options.video) THEN OwnTransport("video") ELSE NoTransport,
         [audio |-> IF Offers(options.audio) THEN 111 ELSE 0,
          video |-> IF Offers(options.video) /\ Sends(options.video) THEN 107 ELSE 0],
         IF options.mux /\ NamesOf(options) # <<>> THEN <<NamesOf(options)>> ELSE <<>>,
         <<>>)

LEMMA OfferIsRead ==
    ASSUME NEW options, NEW extra, IsList(extra), NEW after,
           Reads(after, SdpLines(CreateOffer(options)) \o extra)
    PROVE  after[Len(BundleOf(options)) + Len(AudioOf(options)) + Len(VideoOf(options))]
               = AfterOffer(options)
<1> DEFINE lines == SdpLines(CreateOffer(options)) \o extra
           nb == Len(BundleOf(options))
           na == Len(AudioOf(options))
           nv == Len(VideoOf(options))
           g == IF options.mux /\ NamesOf(options) # <<>> THEN <<NamesOf(options)>> ELSE <<>>
           A == Offers(options.audio)
           V == Offers(options.video)
           types == IF Sends(options.video) THEN <<107, 99>> ELSE <<>>
           ta == IF A THEN OwnTransport("audio") ELSE NoTransport
           tv == IF V THEN OwnTransport("video") ELSE NoTransport
           pa == IF A THEN 111 ELSE 0
           ma == IF A THEN "audio" ELSE ""
<1>1. /\ nb \in Nat /\ na \in Nat /\ nv \in Nat /\ Len(extra) \in Nat
      /\ Len(lines) = nb + na + nv + Len(extra)
      /\ \A j \in 1 .. nb : lines[j] = BundleOf(options)[j]
      /\ Stands(AudioOf(options), lines, nb)
      /\ Stands(VideoOf(options), lines, nb + na)
  BY PartsStand
<1>2. Reads(after, lines)
  OBVIOUS
<1> HIDE DEF lines
<1>3. IsTransport(NoTransport)
  BY DEF IsTransport, NoTransport
<1>4. after[nb] = Told(Yes, TRUE, "", NoTransport, NoTransport, [audio |-> 0, video |-> 0], g, <<>>)
  <2>0. after[0] = Unread
    BY <1>2 DEF Reads
  <2>1. CASE options.mux /\ NamesOf(options) # <<>>
    <3>1. BundleOf(options) = <<[line |-> "group", names |-> NamesOf(options)]>>
      BY <2>1 DEF BundleOf
    <3>2. nb = 1 /\ BundleOf(options)[1] = [line |-> "group", names |-> NamesOf(options)]
      BY <3>1, FewAreList
    <3>3. 1 \in 1 .. Len(lines) /\ lines[1] = [line |-> "group", names |-> NamesOf(options)]
      BY <1>1, <3>2
    <3>4. after[1] = ReadLine(after[0], lines[1])
      <4>1. after[1] = ReadLine(after[1 - 1], lines[1])
        BY <1>2, <3>3, Zenon DEF Reads
      <4> QED BY <4>1
    <3>5. ReadLine(Unread, [line |-> "group", names |-> NamesOf(options)])
              = [Unread EXCEPT !.groups = Append(@, NamesOf(options))]
      BY <2>1 DEF ReadLine, Unread
    <3>6. [Unread EXCEPT !.groups = Append(@, NamesOf(options))]
              = Told(Yes, TRUE, "", NoTransport, NoTransport, [audio |-> 0, video |-> 0],
                     <<NamesOf(options)>>, <<>>)
      <4>1. \A n : Append(<<>>, n) = <<n>>
        OBVIOUS
      <4> DEFINE u(h) == Told(Yes, TRUE, "", NoTransport, NoTransport,
                              [audio |-> 0, video |-> 0], h, <<>>)
      <4>2. Unread = u(<<>>)
        BY DEF Unread, Told, Yes
      <4>3. ASSUME NEW h, NEW i PROVE [u(h) EXCEPT !.groups = i] = u(i)
        <5> DEFINE d == TRUE
                   mid == ""
                   t == [audio |-> 0, video |-> 0]
                   c == <<>>
                   w(j) == Told(Yes, d, mid, NoTransport, NoTransport, t, j, c)
        <5> HIDE DEF d, mid, t, c
        <5>1. [w(h) EXCEPT !.groups = i] = w(i)
          BY DEF Told
        <5> QED BY <5>1 DEF d, mid, t, c
      <4>5. u(<<>>).groups = <<>>
        BY DEF Told
      <4> HIDE DEF u
      <4>4. [Unread EXCEPT !.groups = Append(@, NamesOf(options))]
                = u(<<NamesOf(options)>>)
        BY <4>1, <4>2, <4>3, <4>5
      <4> QED BY <4>4 DEF u
    <3> QED BY <2>0, <2>1, <3>2, <3>3, <3>4, <3>5, <3>6
  <2>2. CASE ~(options.mux /\ NamesOf(options) # <<>>)
    <3>1. BundleOf(options) = <<>>
      BY <2>2 DEF BundleOf
    <3>2. nb = 0 /\ g = <<>>
      BY <2>2, <3>1, FewAreList
    <3>3. Unread = Told(Yes, TRUE, "", NoTransport, NoTransport, [audio |-> 0, video |-> 0],
                        <<>>, <<>>)
      BY DEF Unread, Told, Yes
    <3> HIDE DEF nb, g
    <3> QED BY <2>0, <3>2, <3>3
  <2> QED BY <2>1, <2>2
<1> HIDE DEF g, nb, na, nv
<1>5. after[nb + na] = Told(Yes, TRUE, ma, ta, NoTransport, [audio |-> pa, video |-> 0], g, <<>>)
  <2>1. CASE A
    <3>1. StartsSection(AudioOf(options), "audio", <<111>>)
      BY <2>1, PartsAre
    <3> DEFINE t == <<111>>
               s0 == Told(Yes, TRUE, "", NoTransport, NoTransport,
                          [audio |-> 0, video |-> 0], g, <<>>)
               s4 == ReadHead(s0, "audio", t)
    <3>2. after[nb + na] = s4
      <4>1. after[nb + na] = ReadHead(after[nb], "audio", t)
        BY <1>1, <1>2, <3>1, SectionIsRead DEF na
      <4>2. after[nb] = s0
        BY <1>4
      <4> HIDE DEF s0, t
      <4> QED BY <4>1, <4>2
    <3>3. t # <<>> /\ t[1] = 111
      OBVIOUS
    <3> HIDE DEF t
    <3>4. s4 = Told(Yes, TRUE, "audio", OwnTransport("audio"), NoTransport,
                    [audio |-> 111, video |-> 0], g, <<>>)
      <4> DEFINE d == TRUE
                 zero == 0
                 none == <<>>
                 mid == ""
                 N == NoTransport
      <4> HIDE DEF d, zero, none, mid, N
      <4>1. IsTransport(N)
        BY <1>3 DEF N
      <4>2. ReadHead(Told(Yes, d, mid, N, N, [audio |-> zero, video |-> zero], g, none),
                     "audio", t)
              = Told(Yes, StillDefined(d, t), "audio", OwnTransport("audio"), N,
                     [audio |-> FirstType(zero, t), video |-> zero], g, none)
        BY <4>1, ReadsAudioHead
      <4>3. StillDefined(d, t) = TRUE /\ FirstType(zero, t) = 111
        BY <3>3 DEF StillDefined, FirstType, d
      <4> QED BY <4>2, <4>3, Zenon DEF d, zero, none, mid, N
    <3> HIDE DEF s4
    <3> QED BY <2>1, <3>2, <3>3, <3>4
  <2>2. CASE ~A
    <3>1. na = 0
      BY <2>2, FewAreList DEF AudioOf, na
    <3>2. nb + na = nb
      BY <1>1, <3>1
    <3> HIDE DEF A
    <3> QED BY <1>4, <2>2, <3>2
  <2> QED BY <2>1, <2>2
<1>6. after[(nb + na) + nv]
          = Told(Yes, ~(V /\ ~Sends(options.video)), IF V THEN "video" ELSE ma, ta, tv,
                 [audio |-> pa, video |-> IF V /\ Sends(options.video) THEN 107 ELSE 0], g, <<>>)
  <2>1. CASE V
    <3>1. StartsSection(VideoOf(options), "video", types)
      BY <2>1, PartsAre
    <3> DEFINE s0 == Told(Yes, TRUE, ma, ta, NoTransport, [audio |-> pa, video |-> 0], g, <<>>)
               s4 == ReadHead(s0, "video", types)
    <3>2. after[(nb + na) + nv] = s4
      <4>1. after[(nb + na) + nv] = ReadHead(after[nb + na], "video", types)
        BY <1>1, <1>2, <3>1, SectionIsRead DEF nv
      <4>2. after[nb + na] = s0
        BY <1>5
      <4> HIDE DEF s0, types
      <4> QED BY <4>1, <4>2
    <3>3. (types = <<>> <=> ~Sends(options.video)) /\ (types # <<>> => types[1] = 107)
      OBVIOUS
    <3> HIDE DEF types, ma, ta, pa
    <3>4. s4 = Told(Yes, ~(V /\ ~Sends(options.video)), "video", ta, OwnTransport("video"),
                    [audio |-> pa, video |-> IF V /\ Sends(options.video) THEN 107 ELSE 0],
                    g, <<>>)
      <4> DEFINE d == TRUE
                 zero == 0
                 none == <<>>
                 N == NoTransport
      <4> HIDE DEF d, zero, none, N
      <4>1. IsTransport(N)
        BY <1>3 DEF N
      <4>2. ReadHead(Told(Yes, d, ma, ta, N, [audio |-> pa, video |-> zero], g, none),
                     "video", types)
              = Told(Yes, StillDefined(d, types), "video", ta, OwnTransport("video"),
                     [audio |-> pa, video |-> FirstType(zero, types)], g, none)
        BY <4>1, ReadsVideoHead
      <4>3. /\ StillDefined(d, types) = ~(V /\ ~Sends(options.video))
            /\ FirstType(zero, types) = IF V /\ Sends(options.video) THEN 107 ELSE 0
        BY <2>1, <3>3 DEF StillDefined, FirstType, d, zero
      <4> QED BY <4>2, <4>3, Zenon DEF d, zero, none, N
    <3> HIDE DEF s4, V
    <3> QED BY <2>1, <3>2, <3>4
  <2>2. CASE ~V
    <3>1. nv = 0
      BY <2>2, FewAreList DEF VideoOf, nv
    <3>2. (nb + na) + nv = nb + na
      BY <1>1, <3>1
    <3> HIDE DEF V, ma, ta, pa
    <3> QED BY <1>5, <2>2, <3>2
  <2> QED BY <2>1, <2>2
<1> QED BY <1>6 DEF AfterOffer, nb, na, nv, g

-----------------------------------------------------------------------------
(* Session descriptions: the lines behind an offer *)

TransportOf(n, u, p, f) == [name |-> n, ufrag |-> u, pwd |-> p, fingerprint |-> f]

LEMMA TransportFields ==
    /\ \A n, u, p, f : /\ IsTransport(TransportOf(n, u, p, f))
                       /\ TransportOf(n, u, p, f).name = n
                       /\ TransportOf(n, u, p, f).fingerprint = f
    /\ \A t : IsTransport(t) => \E n, u, p, f : t = TransportOf(n, u, p, f)
  BY DEF IsTransport, TransportOf

\* A fingerprint line leaves the fingerprint that was there, none, or its own.
LeftBy(old, value) ==
    IF value = "malformed" THEN old ELSE IF value = "undecodable" THEN NoFingerprint ELSE value

\* What such a line leaves of what has been read with a as the transport of audio.
LeavesTransport(read, line, a, ok1, d, mid, a1, v1, t, g, c) ==
    /\ read = Told(ok1, d, mid, a1, v1, t, g, c)
    /\ IsTransport(a1) /\ IsTransport(v1) /\ a1.name = a.name
    /\ a1.fingerprint = IF mid = "audio" /\ line.line = "fingerprint"
                        THEN LeftBy(a.fingerprint, line.value) ELSE a.fingerprint

LEMMA TransportLineIsRead ==
    ASSUME NEW ok, NEW d, NEW mid, mid \in {"audio", "video"}, NEW a, NEW v, NEW t,
           NEW g, NEW c, IsTransport(a), IsTransport(v), NEW line,
           line.line \in {"ufrag", "pwd", "fingerprint"}
    PROVE  \E ok1, a1, v1 :
               LeavesTransport(ReadTransport(Told(ok, d, mid, a, v, t, g, c), line), line, a,
                               ok1, d, mid, a1, v1, t, g, c)
<1> DEFINE s == Told(ok, d, mid, a, v, t, g, c)
           value == line.value
           full == value # ""
           Goal(ok1, a1, v1) ==
               LeavesTransport(ReadTransport(s, line), line, a, ok1, d, mid, a1, v1, t, g, c)
<1>1. PICK n, u, p, f : a = TransportOf(n, u, p, f)
  BY TransportFields
<1>2. PICK n2, u2, p2, f2 : v = TransportOf(n2, u2, p2, f2)
  BY TransportFields
<1>3. CASE line.line = "ufrag"
  <2>1. ReadTransport(s, line) = [s EXCEPT ![s.mid]["ufrag"] = value, !.ok = full]
    BY <1>3 DEF ReadTransport
  <2> HIDE DEF full, value
  <2>2. CASE mid = "audio"
    <3>1. [s EXCEPT ![s.mid]["ufrag"] = value, !.ok = full]
              = Told(full, d, mid, TransportOf(n, value, p, f), v, t, g, c)
      <4>1. s.mid = "audio"
        BY <2>2 DEF Told
      <4>2. [s EXCEPT !["audio"]["ufrag"] = value]
                = Told(ok, d, mid, TransportOf(n, value, p, f), v, t, g, c)
        BY <1>1, <2>2 DEF Told, TransportOf
      <4>3. [Told(ok, d, mid, TransportOf(n, value, p, f), v, t, g, c) EXCEPT !.ok = full]
                = Told(full, d, mid, TransportOf(n, value, p, f), v, t, g, c)
        BY DEF Told
      <4>4. \A r : [r EXCEPT !["audio"]["ufrag"] = value, !.ok = full]
                    = [[r EXCEPT !["audio"]["ufrag"] = value] EXCEPT !.ok = full]
        OBVIOUS
      <4> HIDE DEF s
      <4> QED BY <4>1, <4>2, <4>3, <4>4
    <3>2. Goal(full, TransportOf(n, value, p, f), v)
      <4> DEFINE a1 == TransportOf(n, value, p, f)
      <4>1. /\ IsTransport(a1) /\ a1.name = n /\ a1.fingerprint = f
            /\ a.name = n /\ a.fingerprint = f
        BY <1>1, TransportFields
      <4>2. ReadTransport(s, line) = Told(full, d, mid, a1, v, t, g, c)
        BY <2>1, <3>1
      <4> HIDE DEF a1, s
      <4> QED BY <1>3, <4>1, <4>2 DEF a1, LeavesTransport
    <3> QED BY <3>2
  <2>3. CASE mid = "video"
    <3>1. [s EXCEPT ![s.mid]["ufrag"] = value, !.ok = full]
              = Told(full, d, mid, a, TransportOf(n2, value, p2, f2), t, g, c)
      <4>1. s.mid = "video"
        BY <2>3 DEF Told
      <4>2. [s EXCEPT !["video"]["ufrag"] = value]
                = Told(ok, d, mid, a, TransportOf(n2, value, p2, f2), t, g, c)
        BY <1>2, <2>3 DEF Told, TransportOf
      <4>3. [Told(ok, d, mid, a, TransportOf(n2, value, p2, f2), t, g, c) EXCEPT !.ok = full]
                = Told(full, d, mid, a, TransportOf(n2, value, p2, f2), t, g, c)
        BY DEF Told
      <4>4. \A r : [r EXCEPT !["video"]["ufrag"] = value, !.ok = full]
                    = [[r EXCEPT !["video"]["ufrag"] = value] EXCEPT !.ok = full]
        OBVIOUS
      <4> HIDE DEF s
      <4> QED BY <4>1, <4>2, <4>3, <4>4
    <3>2. Goal(full, a, TransportOf(n2, value, p2, f2))
      BY <1>1, <1>3, <2>1, <3>1, TransportFields DEF LeavesTransport
    <3> QED BY <3>2
  <2> QED BY <2>2, <2>3
<1>4. CASE line.line = "pwd"
  <2>1. ReadTransport(s, line) = [s EXCEPT ![s.mid]["pwd"] = value, !.ok = full]
    BY <1>4 DEF ReadTransport
  <2> HIDE DEF full, value
  <2>2. CASE mid = "audio"
    <3>1. [s EXCEPT ![s.mid]["pwd"] = value, !.ok = full]
              = Told(full, d, mid, TransportOf(n, u, value, f), v, t, g, c)
      <4>1. s.mid = "audio"
        BY <2>2 DEF Told
      <4>2. [s EXCEPT !["audio"]["pwd"] = value]
                = Told(ok, d, mid, TransportOf(n, u, value, f), v, t, g, c)
        BY <1>1, <2>2 DEF Told, TransportOf
      <4>3. [Told(ok, d, mid, TransportOf(n, u, value, f), v, t, g, c) EXCEPT !.ok = full]
                = Told(full, d, mid, TransportOf(n, u, value, f), v, t, g, c)
        BY DEF Told
      <4>4. \A r : [r EXCEPT !["audio"]["pwd"] = value, !.ok = full]
                    = [[r EXCEPT !["audio"]["pwd"] = value] EXCEPT !.ok = full]
        OBVIOUS
      <4> HIDE DEF s
      <4> QED BY <4>1, <4>2, <4>3, <4>4
    <3>2. Goal(full, TransportOf(n, u, value, f), v)
      <4> DEFINE a1 == TransportOf(n, u, value, f)
      <4>1. /\ IsTransport(a1) /\ a1.name = n /\ a1.fingerprint = f
            /\ a.name = n /\ a.fingerprint = f
        BY <1>1, TransportFields
      <4>2. ReadTransport(s, line) = Told(full, d, mid, a1, v, t, g, c)
        BY <2>1, <3>1
      <4> HIDE DEF a1, s
      <4> QED BY <1>4, <4>1, <4>2 DEF a1, LeavesTransport
    <3> QED BY <3>2
  <2>3. CASE mid = "video"
    <3>1. [s EXCEPT ![s.mid]["pwd"] = value, !.ok = full]
              = Told(full, d, mid, a, TransportOf(n2, u2, value, f2), t, g, c)
      <4>1. s.mid = "video"
        BY <2>3 DEF Told
      <4>2. [s EXCEPT !["video"]["pwd"] = value]
                = Told(ok, d, mid, a, TransportOf(n2, u2, value, f2), t, g, c)
        BY <1>2, <2>3 DEF Told, TransportOf
      <4>3. [Told(ok, d, mid, a, TransportOf(n2, u2, value, f2), t, g, c) EXCEPT !.ok = full]
                = Told(full, d, mid, a, TransportOf(n2, u2, value, f2), t, g, c)
        BY DEF Told
      <4>4. \A r : [r EXCEPT !["video"]["pwd"] = value, !.ok = full]
                    = [[r EXCEPT !["video"]["pwd"] = value] EXCEPT !.ok = full]
        OBVIOUS
      <4> HIDE DEF s
      <4> QED BY <4>1, <4>2, <4>3, <4>4
    <3>2. Goal(full, a, TransportOf(n2, u2, value, f2))
      BY <1>1, <1>4, <2>1, <3>1, TransportFields DEF LeavesTransport
    <3> QED BY <3>2
  <2> QED BY <2>2, <2>3
<1>5. CASE line.line = "fingerprint"
  <2>1. CASE value = "malformed"
    <3>1. ReadTransport(s, line) = s
      BY <1>5, <2>1 DEF ReadTransport
    <3>2. LeftBy(a.fingerprint, line.value) = a.fingerprint
      BY <2>1 DEF LeftBy
    <3>3. Goal(ok, a, v)
      BY <3>1, <3>2 DEF LeavesTransport
    <3> QED BY <3>3
  <2>2. CASE value # "malformed"
    <3> DEFINE w == LeftBy(f, value)
               s1 == [s EXCEPT ![s.mid].fingerprint = w]
    <3>1. ReadTransport(s, line) = s1
      BY <1>5, <2>2 DEF ReadTransport, LeftBy
    <3>2. a.fingerprint = f
      BY <1>1, TransportFields
    <3> HIDE DEF w
    <3>3. CASE mid = "audio"
      <4>1. s1 = Told(ok, d, mid, TransportOf(n, u, p, w), v, t, g, c)
        BY <1>1, <3>3 DEF Told, TransportOf
      <4>2. w = LeftBy(a.fingerprint, line.value)
        BY <3>2 DEF w
      <4> HIDE DEF s1
      <4>3. Goal(ok, TransportOf(n, u, p, w), v)
        BY <1>1, <1>5, <3>1, <3>3, <4>1, <4>2, TransportFields DEF LeavesTransport
      <4> QED BY <4>3
    <3>4. CASE mid = "video"
      <4>1. s1 = Told(ok, d, mid, a, TransportOf(n2, u2, p2, w), t, g, c)
        BY <1>2, <3>4 DEF Told, TransportOf
      <4> HIDE DEF s1
      <4>2. Goal(ok, a, TransportOf(n2, u2, p2, w))
        BY <1>1, <1>5, <3>1, <3>4, <4>1, TransportFields DEF LeavesTransport
      <4> QED BY <4>2
    <3> QED BY <3>3, <3>4
  <2> QED BY <2>1, <2>2
<1> QED BY <1>3, <1>4, <1>5

\* The first i of the extra lines open no section.
InsideAt(extra, i) == \A j \in 1 .. i : extra[j].line # "m"

\* A fingerprint that counts for the last section of the offer.
CountsAt(extra, i) ==
    extra[i].line = "fingerprint" /\ extra[i].value # "malformed" /\ InsideAt(extra, i)

\* The last one of them that counts can be decoded.
LastIsDecoded(extra, i) ==
    \A j \in 1 .. i :
        CountsAt(extra, j) /\ (\A k \in j + 1 .. i : ~CountsAt(extra, k))
            => extra[j].value # "undecodable"

LEMMA LastCounts ==
    ASSUME NEW extra, NEW i \in Nat \ {0}
    PROVE  /\ ~CountsAt(extra, i) => (LastIsDecoded(extra, i) <=> LastIsDecoded(extra, i - 1))
           /\ CountsAt(extra, i) => (LastIsDecoded(extra, i) <=> extra[i].value # "undecodable")
           /\ extra[i].line # "m" => (InsideAt(extra, i) <=> InsideAt(extra, i - 1))
           /\ extra[i].line = "m" => ~InsideAt(extra, i)
<1>1. 1 .. i = (1 .. i - 1) \cup {i} /\ i \notin 1 .. i - 1 /\ i \in 1 .. i /\ i + 1 .. i = {}
  OBVIOUS
<1>2. \A j \in 1 .. i - 1 : j + 1 .. i = (j + 1 .. i - 1) \cup {i}
  OBVIOUS
<1>3. ASSUME ~CountsAt(extra, i)
      PROVE  LastIsDecoded(extra, i) <=> LastIsDecoded(extra, i - 1)
  <2>1. ASSUME NEW j \in 1 .. i - 1
        PROVE  (\A k \in j + 1 .. i : ~CountsAt(extra, k))
                   <=> \A k \in j + 1 .. i - 1 : ~CountsAt(extra, k)
    <3>1. j + 1 .. i = (j + 1 .. i - 1) \cup {i}
      BY <1>2
    <3> QED BY <1>3, <3>1, Zenon
  <2> QED BY <1>1, <1>3, <2>1 DEF LastIsDecoded
<1>4. ASSUME CountsAt(extra, i)
      PROVE  LastIsDecoded(extra, i) <=> extra[i].value # "undecodable"
  <2>1. \A j \in 1 .. i - 1 : i \in j + 1 .. i
    OBVIOUS
  <2> QED BY <1>1, <1>4, <2>1 DEF LastIsDecoded
<1>5. extra[i].line # "m" => (InsideAt(extra, i) <=> InsideAt(extra, i - 1))
  BY <1>1 DEF InsideAt
<1>6. extra[i].line = "m" => ~InsideAt(extra, i)
  BY <1>1 DEF InsideAt
<1> QED BY <1>3, <1>4, <1>5, <1>6

\* The section an offer ends with, and the rest of what has been read.
MidOf(options) ==
    IF Offers(options.video) THEN "video" ELSE IF Offers(options.audio) THEN "audio" ELSE ""

DefinedBy(options) == ~(Offers(options.video) /\ ~Sends(options.video))

TypesBy(options) ==
    [audio |-> IF Offers(options.audio) THEN 111 ELSE 0,
     video |-> IF Offers(options.video) /\ Sends(options.video) THEN 107 ELSE 0]

GroupsBy(options) ==
    IF options.mux /\ NamesOf(options) # <<>> THEN <<NamesOf(options)>> ELSE <<>>

\* What has been read after the first i extra lines.
ReadAs(acc, options, extra, i, ok, mid, a, v, c) ==
    /\ acc = Told(ok, DefinedBy(options), mid, a, v, TypesBy(options), GroupsBy(options), c)
    /\ IsTransport(a) /\ IsTransport(v)
    /\ a.name = IF Offers(options.audio) THEN "audio" ELSE ""
    /\ ok => /\ IF InsideAt(extra, i) THEN mid = MidOf(options) ELSE mid \notin {"audio", "video"}
             /\ a.fingerprint # NoFingerprint <=>
                    /\ Offers(options.audio)
                    /\ Offers(options.video) \/ LastIsDecoded(extra, i)

ReadsOn(acc, options, extra, i) ==
    \E ok, mid, a, v, c : ReadAs(acc, options, extra, i, ok, mid, a, v, c)

LEMMA ToldFields ==
    ASSUME NEW ok, NEW d, NEW mid, NEW a, NEW v, NEW t, NEW g, NEW c
    PROVE  LET s == Told(ok, d, mid, a, v, t, g, c)
           IN  /\ s.ok = ok /\ s.mid = mid /\ s.audio = a /\ s.video = v /\ s.types = t
               /\ s.groups = g /\ s.candidates = c /\ s.defined = d
               /\ \A m : [s EXCEPT !.mid = m] = Told(ok, d, m, a, v, t, g, c)
               /\ \A o : [s EXCEPT !.ok = o] = Told(o, d, mid, a, v, t, g, c)
               /\ \A e : [s EXCEPT !.candidates = e] = Told(ok, d, mid, a, v, t, g, e)
<1> DEFINE s == Told(ok, d, mid, a, v, t, g, c)
<1>1. /\ s.ok = ok /\ s.mid = mid /\ s.audio = a /\ s.video = v /\ s.types = t
      /\ s.groups = g /\ s.candidates = c /\ s.defined = d
  BY DEF Told
<1>2. ASSUME NEW m PROVE [s EXCEPT !.mid = m] = Told(ok, d, m, a, v, t, g, c)
  BY DEF Told
<1>3. ASSUME NEW o PROVE [s EXCEPT !.ok = o] = Told(o, d, mid, a, v, t, g, c)
  BY DEF Told
<1>4. ASSUME NEW e PROVE [s EXCEPT !.candidates = e] = Told(ok, d, mid, a, v, t, g, e)
  BY DEF Told
<1> QED BY <1>1, <1>2, <1>3, <1>4

\* One more of the extra lines.
LEMMA ExtraLineIsRead ==
    ASSUME NEW options, NEW extra, NEW i \in Nat \ {0}, NEW acc,
           ReadsOn(acc, options, extra, i - 1),
           LET line == extra[i]
           IN  /\ line.line # "group"
               /\ line.line = "m" => line.name \notin {"audio", "video"}
               /\ line.line = "fingerprint" => line.value # NoFingerprint
    PROVE  ReadsOn(ReadLine(acc, extra[i]), options, extra, i)
<1> DEFINE line == extra[i]
           d == DefinedBy(options)
           t == TypesBy(options)
           g == GroupsBy(options)
           A == Offers(options.audio)
           V == Offers(options.video)
<1>1. PICK ok, mid, a, v, c : ReadAs(acc, options, extra, i - 1, ok, mid, a, v, c)
  BY DEF ReadsOn
<1>a. acc = Told(ok, d, mid, a, v, t, g, c)
  BY <1>1 DEF ReadAs
<1>2. /\ acc = Told(ok, d, mid, a, v, t, g, c)
      /\ IsTransport(a) /\ IsTransport(v)
      /\ a.name = IF A THEN "audio" ELSE ""
      /\ ok => /\ IF InsideAt(extra, i - 1) THEN mid = MidOf(options)
                  ELSE mid \notin {"audio", "video"}
               /\ a.fingerprint # NoFingerprint <=> A /\ (V \/ LastIsDecoded(extra, i - 1))
  BY <1>1 DEF ReadAs
<1>3. /\ ~CountsAt(extra, i) => (LastIsDecoded(extra, i) <=> LastIsDecoded(extra, i - 1))
      /\ CountsAt(extra, i) => (LastIsDecoded(extra, i) <=> line.value # "undecodable")
      /\ line.line # "m" => (InsideAt(extra, i) <=> InsideAt(extra, i - 1))
      /\ line.line = "m" => ~InsideAt(extra, i)
  BY LastCounts
<1>4. acc.ok = ok /\ acc.mid = mid /\ acc.candidates = c
  BY <1>a, ToldFields
<1>5. /\ line.line # "group" /\ (line.line = "m" => line.name \notin {"audio", "video"})
      /\ (line.line = "fingerprint" => line.value # NoFingerprint)
  OBVIOUS
<1> HIDE DEF line, d, t, g, A, V
<1>6. ASSUME NEW ok1, NEW mid1, NEW a1, NEW v1, NEW c1,
             ReadLine(acc, line) = Told(ok1, d, mid1, a1, v1, t, g, c1),
             IsTransport(a1), IsTransport(v1), a1.name = a.name,
             ok1 => /\ IF InsideAt(extra, i) THEN mid1 = MidOf(options)
                       ELSE mid1 \notin {"audio", "video"}
                    /\ a1.fingerprint # NoFingerprint <=> A /\ (V \/ LastIsDecoded(extra, i))
      PROVE  ReadsOn(ReadLine(acc, extra[i]), options, extra, i)
  <2>1. ReadAs(ReadLine(acc, extra[i]), options, extra, i, ok1, mid1, a1, v1, c1)
    BY <1>2, <1>6 DEF ReadAs, line, d, t, g, A, V
  <2> QED BY <2>1 DEF ReadsOn
<1>7. CASE ~ok
  <2>1. ReadLine(acc, line) = acc
    BY <1>4, <1>7 DEF ReadLine
  <2>2. ReadLine(acc, line) = Told(ok, d, mid, a, v, t, g, c)
    BY <1>2, <2>1
  <2> QED BY <1>2, <1>6, <1>7, <2>2
<1> DEFINE no == FALSE
<1>0. ~no
  OBVIOUS
<1>c. CASE ok /\ line.line = "m" /\ line.name = "cut"
  <2>1. ReadLine(acc, line) = ReadMedia(acc, line)
    BY <1>4, <1>c DEF ReadLine
  <2> DEFINE refused == [acc EXCEPT !.ok = no]
             other == [acc EXCEPT !.mid = line.name]
             media == [acc EXCEPT !.mid = line.name, ![line.name].name = line.name,
                                  !.defined = @ /\ line.types # <<>>,
                                  !.types[line.name] = IF line.types = <<>> THEN @
                                                       ELSE line.types[1]]
  <2>2. ReadMedia(acc, line) = CASE line.name = "cut" -> refused
                                 [] line.name \in {"audio", "video"} -> media
                                 [] OTHER -> other
    BY DEF ReadMedia
  <2>3. ReadLine(acc, line) = [acc EXCEPT !.ok = no]
    <3> HIDE DEF refused, other, media
    <3>1. ReadMedia(acc, line) = refused
      BY <1>c, <2>2
    <3> QED BY <2>1, <3>1 DEF refused
  <2> HIDE DEF no
  <2>4. ReadLine(acc, line) = Told(no, d, mid, a, v, t, g, c)
    BY <1>a, <2>3, ToldFields
  <2> QED BY <1>0, <1>2, <1>6, <2>4, Zenon
<1>8. CASE ok /\ line.line = "m" /\ line.name # "cut"
  <2>1. ReadLine(acc, line) = ReadMedia(acc, line)
    BY <1>4, <1>8 DEF ReadLine
  <2>2. ReadMedia(acc, line) = [acc EXCEPT !.mid = line.name]
    BY <1>5, <1>8 DEF ReadMedia
  <2>3. ReadLine(acc, line) = Told(ok, d, line.name, a, v, t, g, c)
    BY <1>a, <2>1, <2>2, ToldFields
  <2>4. ~CountsAt(extra, i)
    BY <1>8 DEF CountsAt, line
  <2> QED BY <1>2, <1>3, <1>5, <1>6, <1>8, <2>3, <2>4
<1> DEFINE inside == mid \in {"audio", "video"}
<1>9. CASE ok /\ line.line = "candidate" /\ inside
  <2>1. ReadLine(acc, line) = ReadCandidate(acc, line)
    BY <1>4, <1>9 DEF ReadLine
  <2>2. ~CountsAt(extra, i)
    BY <1>9 DEF CountsAt, line
  <2>3. CASE line.colons # 1 \/ line.fields < 8
    <3>1. ReadCandidate(acc, line) = [acc EXCEPT !.ok = no]
      BY <2>3 DEF ReadCandidate
    <3> HIDE DEF no
    <3>2. ReadLine(acc, line) = Told(no, d, mid, a, v, t, g, c)
      BY <1>a, <2>1, <3>1, ToldFields
    <3> QED BY <1>0, <1>2, <1>6, <3>2
  <2>4. CASE ~(line.colons # 1 \/ line.fields < 8)
    <3> DEFINE e == Append(c, line.value)
    <3>1. ReadCandidate(acc, line) = [acc EXCEPT !.candidates = e]
      BY <1>4, <2>4 DEF ReadCandidate
    <3> HIDE DEF e
    <3>2. ReadLine(acc, line) = Told(ok, d, mid, a, v, t, g, e)
      BY <1>a, <2>1, <3>1, ToldFields
    <3> QED BY <1>2, <1>3, <1>6, <1>9, <2>2, <3>2
  <2> QED BY <2>3, <2>4
<1>10. CASE ok /\ line.line \in {"ufrag", "pwd", "fingerprint"} /\ inside
  <2>1. ReadLine(acc, line) = ReadTransport(acc, line)
    BY <1>4, <1>10 DEF ReadLine
  <2>0. PICK ok1, a1, v1 :
            LeavesTransport(ReadTransport(Told(ok, d, mid, a, v, t, g, c), line), line, a,
                            ok1, d, mid, a1, v1, t, g, c)
    <3>1. /\ mid \in {"audio", "video"} /\ line.line \in {"ufrag", "pwd", "fingerprint"}
          /\ IsTransport(a) /\ IsTransport(v)
      BY <1>2, <1>10
    <3> QED BY <3>1, TransportLineIsRead
  <2>2. /\ ReadTransport(Told(ok, d, mid, a, v, t, g, c), line)
               = Told(ok1, d, mid, a1, v1, t, g, c)
        /\ IsTransport(a1) /\ IsTransport(v1) /\ a1.name = a.name
        /\ a1.fingerprint = IF mid = "audio" /\ line.line = "fingerprint"
                            THEN LeftBy(a.fingerprint, line.value) ELSE a.fingerprint
    BY <2>0 DEF LeavesTransport
  <2>3. ReadLine(acc, line) = Told(ok1, d, mid, a1, v1, t, g, c)
    BY <1>2, <2>1, <2>2
  <2>4. mid = MidOf(options) /\ InsideAt(extra, i - 1) /\ InsideAt(extra, i)
    BY <1>2, <1>3, <1>10
  <2>5. (mid = "video" => V) /\ (mid = "audio" => A /\ ~V)
    BY <1>10, <2>4 DEF MidOf, A, V
  <2>6. a1.fingerprint # NoFingerprint <=> A /\ (V \/ LastIsDecoded(extra, i))
    <3>1. CASE mid = "video"
      BY <1>2, <1>10, <2>2, <2>5, <3>1
    <3>2. CASE mid = "audio" /\ line.line # "fingerprint"
      <4>1. ~CountsAt(extra, i)
        BY <3>2 DEF CountsAt, line
      <4> QED BY <1>2, <1>3, <1>10, <2>2, <3>2, <4>1
    <3>3. CASE mid = "audio" /\ line.line = "fingerprint"
      <4>1. CASE line.value = "malformed"
        <5>1. ~CountsAt(extra, i)
          BY <4>1 DEF CountsAt, line
        <5>2. a1.fingerprint = a.fingerprint
          BY <2>2, <3>3, <4>1 DEF LeftBy
        <5> QED BY <1>2, <1>3, <1>10, <5>1, <5>2
      <4>2. CASE line.value # "malformed"
        <5>1. CountsAt(extra, i)
          BY <2>4, <3>3, <4>2 DEF CountsAt, line
        <5>2. a1.fingerprint = IF line.value = "undecodable" THEN NoFingerprint ELSE line.value
          BY <2>2, <3>3, <4>2 DEF LeftBy
        <5> QED BY <1>3, <1>5, <2>5, <3>3, <5>1, <5>2
      <4> QED BY <4>1, <4>2
    <3> QED BY <1>10, <3>1, <3>2, <3>3
  <2> QED BY <1>6, <2>2, <2>3, <2>4, <2>6
<1>11. CASE ok /\ line.line # "m"
            /\ ~(inside /\ line.line \in {"candidate", "ufrag", "pwd", "fingerprint"})
  <2>1. ReadLine(acc, line) = acc
    BY <1>4, <1>5, <1>11 DEF ReadLine
  <2>2. ReadLine(acc, line) = Told(ok, d, mid, a, v, t, g, c)
    BY <1>2, <2>1
  <2>3. A /\ ~V => (LastIsDecoded(extra, i) <=> LastIsDecoded(extra, i - 1))
    <3> SUFFICES ASSUME A, ~V PROVE ~CountsAt(extra, i)
      BY <1>3
    <3>1. MidOf(options) = "audio"
      BY DEF MidOf, A, V
    <3>2. CountsAt(extra, i) => line.line = "fingerprint" /\ InsideAt(extra, i)
      BY DEF CountsAt, line
    <3> QED BY <1>2, <1>3, <1>11, <3>1, <3>2
  <2> QED BY <1>2, <1>3, <1>6, <1>11, <2>2, <2>3
<1> QED BY <1>2, <1>7, <1>c, <1>8, <1>9, <1>10, <1>11

\* The lines behind an offer.
AreExtra(extra) ==
    /\ IsList(extra)
    /\ \A i \in DOMAIN extra :
           /\ extra[i].line # "group"
           /\ extra[i].line = "m" => extra[i].name \notin {"audio", "video"}
           /\ extra[i].line = "fingerprint" => extra[i].value # NoFingerprint

LEMMA AfterOfferReads ==
    ASSUME NEW options, NEW extra
    PROVE  ReadsOn(AfterOffer(options), options, extra, 0)
<1> DEFINE a == IF Offers(options.audio) THEN OwnTransport("audio") ELSE NoTransport
           v == IF Offers(options.video) THEN OwnTransport("video") ELSE NoTransport
<1>1. AfterOffer(options) = Told(Yes, DefinedBy(options), MidOf(options), a, v,
                                 TypesBy(options), GroupsBy(options), <<>>)
  BY DEF AfterOffer, DefinedBy, MidOf, TypesBy, GroupsBy
<1>2. /\ IsTransport(NoTransport) /\ NoTransport.name = ""
      /\ NoTransport.fingerprint = NoFingerprint
  BY DEF IsTransport, NoTransport
<1>3. \A n : /\ IsTransport(OwnTransport(n)) /\ OwnTransport(n).name = n
             /\ OwnTransport(n).fingerprint # NoFingerprint
  BY DEF IsTransport, OwnTransport, NoFingerprint
<1>4. IsTransport(a) /\ IsTransport(v) /\ a.name = IF Offers(options.audio) THEN "audio" ELSE ""
  BY <1>2, <1>3
<1>5. a.fingerprint # NoFingerprint <=> Offers(options.audio)
  BY <1>2, <1>3
<1>6. InsideAt(extra, 0) /\ LastIsDecoded(extra, 0)
  BY DEF InsideAt, LastIsDecoded
<1> HIDE DEF a, v
<1>7. ReadAs(AfterOffer(options), options, extra, 0, Yes, MidOf(options), a, v, <<>>)
  BY <1>1, <1>4, <1>5, <1>6 DEF ReadAs, a
<1> QED BY <1>7 DEF ReadsOn

\* What has been read at the end.
LEMMA DescriptionIsRead ==
    ASSUME NEW options, NEW extra, AreExtra(extra)
    PROVE  /\ ReadsOn(ReadLines(SdpLines(CreateOffer(options)) \o extra), options, extra,
                      Len(extra))
           /\ Len(extra) = 0 =>
                  ReadLines(SdpLines(CreateOffer(options)) \o extra) = AfterOffer(options)
<1> DEFINE lines == SdpLines(CreateOffer(options)) \o extra
           o == Len(BundleOf(options)) + Len(AudioOf(options)) + Len(VideoOf(options))
           n == Len(extra)
<1>1. IsList(extra)
  BY DEF AreExtra
<1>2. /\ Len(BundleOf(options)) \in Nat /\ Len(AudioOf(options)) \in Nat
      /\ Len(VideoOf(options)) \in Nat /\ n \in Nat
      /\ Len(lines) = o + n
      /\ \A j \in 1 .. n : lines[o + j] = extra[j]
  <2>1. /\ Len(BundleOf(options)) \in Nat /\ Len(AudioOf(options)) \in Nat
        /\ Len(VideoOf(options)) \in Nat /\ Len(extra) \in Nat
    BY <1>1, PartsStand
  <2>2. Len(lines) = Len(BundleOf(options)) + Len(AudioOf(options)) + Len(VideoOf(options))
                     + Len(extra)
    BY <1>1, PartsStand
  <2>3. \A j \in 1 .. Len(extra) :
            lines[Len(BundleOf(options)) + Len(AudioOf(options)) + Len(VideoOf(options)) + j]
                = extra[j]
    <3>1. Stands(extra, lines, Len(BundleOf(options)) + Len(AudioOf(options))
                               + Len(VideoOf(options)))
      BY <1>1, PartsStand
    <3> QED BY <3>1 DEF Stands
  <2> QED BY <2>1, <2>2, <2>3
<1>3. o \in Nat /\ n \in Nat /\ Len(lines) \in Nat
  BY <1>2
<1>4. PICK after : Reads(after, lines) /\ ReadLines(lines) = after[Len(lines)]
  BY <1>3, LinesAreRead
<1>5. after[o] = AfterOffer(options)
  BY <1>1, <1>4, OfferIsRead
<1>6. DOMAIN extra = 1 .. n
  BY <1>1, Joined
<1> HIDE DEF lines, o, n
<1> DEFINE T == {j \in Nat : j <= n /\ ~ReadsOn(after[o + j], options, extra, j)}
<1>7. T = {}
  <2>1. SUFFICES ASSUME T # {} PROVE FALSE
    OBVIOUS
  <2>2. PICK m \in T : \A k \in T : m <= k
    <3>1. T \in SUBSET Nat
      OBVIOUS
    <3> HIDE DEF T
    <3> QED BY <2>1, <3>1, LeastNumber
  <2>3. m \in Nat /\ m <= n /\ ~ReadsOn(after[o + m], options, extra, m)
    BY <2>2
  <2>4. m # 0
    <3>1. o + 0 = o
      BY <1>3
    <3> QED BY <1>5, <2>3, <3>1, AfterOfferReads
  <2>5. m - 1 \in Nat /\ m - 1 <= n /\ ~(m <= m - 1) /\ m \in Nat \ {0} /\ m \in 1 .. n
    BY <1>3, <2>3, <2>4
  <2>6. ReadsOn(after[o + (m - 1)], options, extra, m - 1)
    BY <2>2, <2>5
  <2>7. o + m \in 1 .. Len(lines) /\ (o + m) - 1 = o + (m - 1)
    BY <1>2, <1>3, <2>5 DEF o, n
  <2>8. after[o + m] = ReadLine(after[o + (m - 1)], extra[m])
    <3>1. after[o + m] = ReadLine(after[(o + m) - 1], lines[o + m])
      BY <1>4, <2>7, Zenon DEF Reads
    <3> QED BY <1>2, <2>5, <2>7, <3>1 DEF o, n
  <2>9. LET line == extra[m]
        IN  /\ line.line # "group"
            /\ line.line = "m" => line.name \notin {"audio", "video"}
            /\ line.line = "fingerprint" => line.value # NoFingerprint
    BY <1>6, <2>5 DEF AreExtra
  <2>10. ReadsOn(ReadLine(after[o + (m - 1)], extra[m]), options, extra, m)
    BY <2>5, <2>6, <2>9, ExtraLineIsRead
  <2> QED BY <2>3, <2>8, <2>10
<1>8. ReadsOn(after[o + n], options, extra, n)
  <2>1. n \in Nat /\ n <= n /\ n \notin T
    BY <1>3, <1>7
  <2> QED BY <2>1
<1>9. Len(lines) = o + n
  BY <1>2 DEF o, n
<1>10. n = 0 => o + n = o
  BY <1>3
<1> QED BY <1>4, <1>5, <1>8, <1>9, <1>10 DEF lines, n

\* set_remote_sdp hands on what has been read.
LEMMA SdpIs ==
    ASSUME NEW lines, NEW read, read = ReadLines(lines)
    PROVE  LET desc == ReadSdp(lines)
           IN  /\ desc.ok = read.ok /\ desc.defined = read.defined /\ desc.types = read.types
               /\ desc.contents = <<read.audio.name, read.video.name>>
               /\ desc.transports = <<read.audio, read.video>> /\ desc.groups = read.groups
  BY DEF ReadSdp

\* The controller looks at the transport of the first section.
LEMMA CanUse ==
    ASSUME NEW desc, NEW a, NEW v, desc.contents = <<a.name, v.name>>, desc.transports = <<a, v>>
    PROVE  ControllerCanUse(desc) <=> desc.groups # <<>> /\ a.fingerprint # NoFingerprint
<1> DEFINE at == {i \in DOMAIN desc.transports : desc.transports[i].name = a.name}
<1>1. DOMAIN desc.transports = {1, 2} /\ desc.transports[1] = a /\ desc.contents[1] = a.name
  BY SMT
<1>2. at \subseteq {1, 2} /\ 1 \in at
  BY <1>1
<1> HIDE DEF at
<1>3. Min(at) = 1
  <2>0. \A y : y = 1 \/ y = 2 => 1 <= y /\ (y <= 1 => y = 1)
    BY SMT
  <2>1. \A y \in at : 1 <= y /\ (y <= 1 => y = 1)
    BY <1>2, <2>0, Zenon
  <2> QED BY <1>2, <2>1 DEF Min
<1>4. GetTransportInfoByName(desc, a.name) = desc.transports[1]
  BY <1>2, <1>3 DEF GetTransportInfoByName, at
<1> QED BY <1>1, <1>4 DEF ControllerCanUse

-----------------------------------------------------------------------------
(* Session descriptions: what is read of an offer *)

LEMMA NamesAre ==
    ASSUME NEW options
    PROVE  NamesOf(options) # <<>> <=> Offers(options.audio) \/ Offers(options.video)
<1>1. <<"audio", "video">> # <<>> /\ <<"audio">> # <<>> /\ <<"video">> # <<>>
  OBVIOUS
<1> QED BY <1>1 DEF NamesOf

LEMMA UsableAre ==
    ASSUME NEW options, NEW extra, AreExtra(extra), NEW desc,
           desc = ReadSdp(SdpLines(CreateOffer(options)) \o extra), desc.ok
    PROVE  ControllerCanUse(desc) <=>
               /\ options.mux /\ Offers(options.audio)
               /\ Offers(options.video) \/ LastIsDecoded(extra, Len(extra))
<1> DEFINE lines == SdpLines(CreateOffer(options)) \o extra
           read == ReadLines(lines)
<1>1. ReadsOn(read, options, extra, Len(extra))
  BY DescriptionIsRead
<1>2. /\ desc.ok = read.ok /\ desc.contents = <<read.audio.name, read.video.name>>
      /\ desc.transports = <<read.audio, read.video>> /\ desc.groups = read.groups
  BY SdpIs
<1> HIDE DEF read
<1>3. PICK ok, mid, a, v, c : ReadAs(read, options, extra, Len(extra), ok, mid, a, v, c)
  BY <1>1 DEF ReadsOn
<1>4. read = Told(ok, DefinedBy(options), mid, a, v, TypesBy(options), GroupsBy(options), c)
  BY <1>3 DEF ReadAs
<1>5. read.ok = ok /\ read.audio = a /\ read.video = v /\ read.groups = GroupsBy(options)
  BY <1>4, ToldFields
<1>6. a.fingerprint # NoFingerprint <=>
          /\ Offers(options.audio)
          /\ Offers(options.video) \/ LastIsDecoded(extra, Len(extra))
  BY <1>2, <1>3, <1>5 DEF ReadAs
<1>7. ControllerCanUse(desc) <=> desc.groups # <<>> /\ a.fingerprint # NoFingerprint
  <2>1. desc.contents = <<a.name, v.name>> /\ desc.transports = <<a, v>>
    BY <1>2, <1>5
  <2> QED BY <2>1, CanUse
<1>8. desc.groups # <<>> <=> options.mux /\ (Offers(options.audio) \/ Offers(options.video))
  <2>1. \A names : <<names>> # <<>>
    OBVIOUS
  <2> QED BY <1>2, <1>5, <2>1, NamesAre DEF GroupsBy
<1> QED BY <1>6, <1>7, <1>8

LEMMA OffersAreRead ==
    ASSUME NEW options \in [audio : Directions, video : Directions, mux : BOOLEAN],
           NEW desc, desc = ReadSdp(SdpLines(CreateOffer(options)) \o <<>>)
    PROVE  LET offer == CreateOffer(options)
               Kept(i, name) ==
                   \A content \in ToSet(offer.contents) : content.name = name =>
                       /\ desc.contents[i] = name
                       /\ desc.transports[i] = GetTransportInfoByName(offer, name)
                       /\ content.codecs # <<>> => desc.types[name] = content.codecs[1].type
           IN  /\ desc.ok /\ Kept(1, "audio") /\ Kept(2, "video")
               /\ desc.groups = offer.groups
               /\ desc.defined <=> options.video # "recv"
<1> DEFINE none == <<>>
           lines == SdpLines(CreateOffer(options)) \o none
           read == ReadLines(lines)
           offer == CreateOffer(options)
           a == IF Offers(options.audio) THEN OwnTransport("audio") ELSE NoTransport
           v == IF Offers(options.video) THEN OwnTransport("video") ELSE NoTransport
           Kept(i, name) ==
               \A content \in ToSet(offer.contents) : content.name = name =>
                   /\ desc.contents[i] = name
                   /\ desc.transports[i] = GetTransportInfoByName(offer, name)
                   /\ content.codecs # <<>> => desc.types[name] = content.codecs[1].type
<1>1. IsList(none) /\ Len(none) = 0 /\ DOMAIN none = {}
  BY FewAreList
<1>2. /\ desc.ok = read.ok /\ desc.defined = read.defined /\ desc.types = read.types
      /\ desc.contents = <<read.audio.name, read.video.name>>
      /\ desc.transports = <<read.audio, read.video>> /\ desc.groups = read.groups
  BY SdpIs
<1> HIDE DEF none
<1>3. AreExtra(none)
  BY <1>1 DEF AreExtra
<1>4. read = AfterOffer(options)
  BY <1>1, <1>3, DescriptionIsRead
<1> HIDE DEF read
<1>5. AfterOffer(options) = Told(Yes, DefinedBy(options), MidOf(options), a, v,
                                 TypesBy(options), GroupsBy(options), <<>>)
  BY DEF AfterOffer, DefinedBy, MidOf, TypesBy, GroupsBy
<1> HIDE DEF a, v
<1>6. /\ read.ok = Yes /\ read.audio = a /\ read.video = v /\ read.groups = GroupsBy(options)
      /\ read.types = TypesBy(options) /\ read.defined = DefinedBy(options)
  BY <1>4, <1>5, ToldFields
<1>7. desc.ok
  BY <1>2, <1>6 DEF Yes
<1>8. desc.defined <=> options.video # "recv"
  <2>1. options.video \in {"none", "send", "recv", "both"}
    BY DEF Directions
  <2>2. DefinedBy(options) <=> options.video # "recv"
    BY <2>1 DEF DefinedBy, Offers, Sends
  <2>3. desc.defined = DefinedBy(options)
    BY <1>2, <1>6
  <2> QED BY <2>2, <2>3
<1>9. offer.contents = ContentsOf(options) /\ offer.groups = GroupsBy(options)
  BY OfferIs DEF GroupsBy
<1>10. desc.groups = offer.groups
  BY <1>2, <1>6, <1>9
<1>11. /\ desc.contents[1] = a.name /\ desc.contents[2] = v.name
       /\ desc.transports[1] = a /\ desc.transports[2] = v
  BY <1>2, <1>6
<1>12. \A n : OwnTransport(n).name = n
  BY DEF OwnTransport
<1>13. ASSUME NEW content \in ToSet(offer.contents)
       PROVE  \/ Offers(options.audio) /\ content = AudioSection(options)
              \/ Offers(options.video) /\ content = VideoSection(options)
  <2>1. PICK i \in DOMAIN offer.contents : content = offer.contents[i]
    BY DEF ToSet
  <2> DEFINE x == AudioSection(options)
             y == VideoSection(options)
  <2> HIDE DEF x, y
  <2>2. offer.contents = IF Offers(options.audio)
                         THEN IF Offers(options.video) THEN <<x, y>> ELSE <<x>>
                         ELSE IF Offers(options.video) THEN <<y>> ELSE <<>>
    BY <1>9 DEF ContentsOf, x, y
  <2> HIDE DEF offer
  <2>3. CASE Offers(options.audio) /\ Offers(options.video)
    BY <2>1, <2>2, <2>3 DEF x, y
  <2>4. CASE Offers(options.audio) /\ ~Offers(options.video)
    BY <2>1, <2>2, <2>4 DEF x, y
  <2>5. CASE ~Offers(options.audio) /\ Offers(options.video)
    BY <2>1, <2>2, <2>5 DEF x, y
  <2>6. CASE ~Offers(options.audio) /\ ~Offers(options.video)
    <3>1. offer.contents = <<>>
      BY <2>2, <2>6
    <3> QED BY <2>1, <3>1
  <2> QED BY <2>3, <2>4, <2>5, <2>6
<1>14. /\ AudioSection(options).name = "audio" /\ AudioSection(options).codecs = AudioCodecs
       /\ VideoSection(options).name = "video"
       /\ VideoSection(options).codecs = IF Sends(options.video) THEN VideoCodecsOffered ELSE <<>>
  BY DEF AudioSection, VideoSection
<1>15. AudioCodecs[1].type = 111 /\ VideoCodecsOffered[1].type = 107
  BY DEF AudioCodecs, VideoCodecsOffered
<1>16. /\ Offers(options.audio) => TypesBy(options)["audio"] = 111
       /\ Offers(options.video) /\ Sends(options.video) => TypesBy(options)["video"] = 107
  BY DEF TypesBy
<1>17. Kept(1, "audio")
  <2> SUFFICES ASSUME NEW content \in ToSet(offer.contents), content.name = "audio"
               PROVE  /\ desc.contents[1] = "audio"
                      /\ desc.transports[1] = GetTransportInfoByName(offer, "audio")
                      /\ content.codecs # <<>> => desc.types["audio"] = content.codecs[1].type
    OBVIOUS
  <2>1. Offers(options.audio) /\ content = AudioSection(options)
    <3>1. "audio" # "video"
      OBVIOUS
    <3> QED BY <1>13, <1>14, <3>1
  <2>2. a = OwnTransport("audio") /\ GetTransportInfoByName(offer, "audio") = OwnTransport("audio")
    BY <2>1, TransportsAreFound DEF a
  <2>3. desc.types["audio"] = 111 /\ content.codecs[1].type = 111
    BY <1>2, <1>6, <1>14, <1>15, <1>16, <2>1
  <2> HIDE DEF offer
  <2> QED BY <1>11, <1>12, <2>2, <2>3
<1>18. Kept(2, "video")
  <2> SUFFICES ASSUME NEW content \in ToSet(offer.contents), content.name = "video"
               PROVE  /\ desc.contents[2] = "video"
                      /\ desc.transports[2] = GetTransportInfoByName(offer, "video")
                      /\ content.codecs # <<>> => desc.types["video"] = content.codecs[1].type
    OBVIOUS
  <2>1. Offers(options.video) /\ content = VideoSection(options)
    <3>1. "audio" # "video"
      OBVIOUS
    <3> QED BY <1>13, <1>14, <3>1
  <2>2. v = OwnTransport("video") /\ GetTransportInfoByName(offer, "video") = OwnTransport("video")
    BY <2>1, TransportsAreFound DEF v
  <2>3. content.codecs # <<>> => Sends(options.video) /\ content.codecs = VideoCodecsOffered
    BY <1>14, <2>1
  <2>4. content.codecs # <<>> => desc.types["video"] = 107 /\ content.codecs[1].type = 107
    BY <1>2, <1>6, <1>15, <1>16, <2>1, <2>3
  <2> HIDE DEF offer
  <2> QED BY <1>11, <1>12, <2>2, <2>4
<1> HIDE DEF Kept
<1> QED BY <1>7, <1>8, <1>10, <1>17, <1>18 DEF Kept

-----------------------------------------------------------------------------
(* Session descriptions: every section explains itself *)

\* The positions of a kind of line, and those that belong to the m= line at m.
At(lines, kind) == {i \in DOMAIN lines : lines[i].line = kind}

MediaOf(lines, i) == Max({m \in At(lines, "m") : m <= i} \cup {0})

With(lines, kind, m) == {i \in At(lines, kind) : MediaOf(lines, i) = m}

Explained(lines, m) ==
    LET types == ToSet(lines[m].types)
    IN  /\ types = {lines[i].type : i \in With(lines, "rtpmap", m)}
        /\ {lines[i].apt : i \in With(lines, "fmtp", m)} \ {0} \subseteq types
        /\ UNION {ToSet(lines[i].ssrcs) : i \in With(lines, "ssrc-group", m)}
               \subseteq {lines[i].ssrc : i \in With(lines, "ssrc", m)}

LEMMA MediaOfIs ==
    ASSUME NEW lines, NEW n \in Nat, DOMAIN lines = 1 .. n, NEW i \in 1 .. n,
           NEW m \in 0 .. i, m = 0 \/ lines[m].line = "m",
           \A j \in m + 1 .. i : lines[j].line # "m"
    PROVE  MediaOf(lines, i) = m
<1> DEFINE S == {j \in At(lines, "m") : j <= i} \cup {0}
<1>1. \A j \in S : j \in Nat /\ j <= m
  BY DEF At
<1>2. m \in S
  BY DEF At
<1> HIDE DEF S
<1>3. Max(S) = m
  <2>1. \A x \in S : m >= x /\ (x >= m => x = m)
    BY <1>1, <1>2
  <2> QED BY <1>2, <2>1 DEF Max
<1> QED BY <1>3 DEF MediaOf, S

\* A section ends where the lines do or another one starts.
Ends(lines, e) == e = Len(lines) \/ lines[e + 1].line = "m"

\* A section that stands among lines, with another or none behind it.
LEMMA SectionIsExplained ==
    ASSUME NEW lines, DOMAIN lines = 1 .. Len(lines), NEW s, NEW name, NEW types,
           StartsSection(s, name, types), ExplainsItself(s), NEW k, Stands(s, lines, k),
           Ends(lines, k + Len(s))
    PROVE  Explained(lines, k + 1)
<1> DEFINE n == Len(lines)
           l == Len(s)
           Own(kind) == {j \in DOMAIN s : s[j].line = kind}
           Kinds == {"rtpmap", "fmtp", "ssrc-group", "ssrc"}
<1>1. k \in Nat /\ n \in Nat /\ k + l <= n /\ \A j \in 1 .. l : lines[k + j] = s[j]
  BY DEF Stands
<1>2. /\ l \in Nat /\ l >= 4 /\ DOMAIN s = 1 .. l /\ s[1].line = "m" /\ s[2].line = "ufrag"
      /\ s[3].line = "pwd" /\ s[4].line = "fingerprint"
      /\ \A j \in 5 .. l : s[j].line \in Kinds
  BY DEF StartsSection
<1>3. k + l = n \/ lines[(k + l) + 1].line = "m"
  BY DEF Ends
<1> HIDE DEF n, l
<1>a. k \in Nat /\ n \in Nat /\ l \in Nat /\ l >= 4 /\ k + l <= n
  BY <1>1, <1>2
<1>b. \A j \in 1 .. l : lines[k + j] = s[j]
  BY <1>1
<1>4. \A j \in 2 .. l : s[j].line # "m"
  <2>1. \A j \in 2 .. l : j = 2 \/ j = 3 \/ j = 4 \/ j \in 5 .. l
    BY <1>2
  <2> QED BY <1>2, <2>1
<1>5. lines[k + 1] = s[1]
  BY <1>a, <1>b
<1>6. ASSUME NEW j \in 1 .. l PROVE MediaOf(lines, k + j) = k + 1
  <2>1. k + j \in 1 .. n /\ k + 1 \in 0 .. k + j
    BY <1>a
  <2>2. ASSUME NEW i \in (k + 1) + 1 .. k + j PROVE lines[i].line # "m"
    <3>1. i - k \in 2 .. l /\ i - k \in 1 .. l /\ k + (i - k) = i
      BY <1>a
    <3>2. lines[i] = s[i - k]
      BY <1>1, <3>1
    <3> QED BY <1>4, <3>1, <3>2
  <2>3. lines[k + 1].line = "m"
    BY <1>2, <1>5
  <2>4. DOMAIN lines = 1 .. n /\ n \in Nat
    BY <1>1 DEF n
  <2> QED BY <2>1, <2>2, <2>3, <2>4, MediaOfIs
<1>7. ASSUME NEW i \in DOMAIN lines, MediaOf(lines, i) = k + 1
      PROVE  i - k \in 1 .. l /\ k + (i - k) = i
  <2> DEFINE S == {m \in At(lines, "m") : m <= i} \cup {0}
  <2>0. i \in 1 .. n
    BY DEF n
  <2>1. \A x \in S : x \in Nat /\ x <= i
    BY <2>0, <1>1 DEF At, n
  <2>2. IsFiniteSet(S) /\ S # {}
    <3>1. S \subseteq 0 .. i
      BY <2>0, <2>1
    <3>2. IsFiniteSet(0 .. i)
      BY <2>0, FS_Interval
    <3> QED BY <3>1, <3>2, FS_Subset
  <2>3. PICK m \in S : \A x \in S : m >= x
    <3> DEFINE D == {i - x : x \in S}
    <3>1. D \in SUBSET Nat /\ D # {}
      BY <2>0, <2>1
    <3> HIDE DEF D, S
    <3>2. PICK y \in D : \A z \in D : y <= z
      BY <3>1, LeastNumber
    <3>3. PICK x \in S : y = i - x
      BY DEF D
    <3>4. ASSUME NEW z \in S PROVE x >= z
      <4>1. i - z \in D
        BY DEF D
      <4>2. i - x <= i - z /\ x \in Nat /\ z \in Nat /\ i \in Nat
        BY <2>0, <2>1, <3>2, <3>3, <4>1
      <4> QED BY <4>2
    <3> QED BY <3>4
  <2> HIDE DEF S
  <2>4. Max(S) \in S /\ \A x \in S : Max(S) >= x
    BY <2>3 DEF Max
  <2>5. MediaOf(lines, i) = Max(S)
    BY DEF MediaOf, S
  <2>6. k + 1 \in S /\ \A x \in S : k + 1 >= x
    BY <1>7, <2>4, <2>5
  <2>7. k + 1 <= i
    BY <2>1, <2>6
  <2>8. ~(i > k + l)
    <3> SUFFICES ASSUME i > k + l PROVE FALSE
      OBVIOUS
    <3>1. k + l # n /\ (k + l) + 1 <= i /\ (k + l) + 1 \in 1 .. n
      BY <1>a, <2>0
    <3>2. lines[(k + l) + 1].line = "m"
      BY <1>3, <3>1
    <3>3. (k + l) + 1 \in S
      BY <3>1, <3>2 DEF S, At, n
    <3>4. k + 1 >= (k + l) + 1
      BY <2>6, <3>3
    <3> QED BY <1>a, <3>4
  <2> QED BY <1>a, <2>0, <2>7, <2>8
<1>8. ASSUME NEW kind PROVE With(lines, kind, k + 1) = {k + j : j \in Own(kind)}
  <2>1. ASSUME NEW j \in Own(kind) PROVE k + j \in With(lines, kind, k + 1)
    <3>1. j \in 1 .. l /\ s[j].line = kind
      BY <1>2
    <3>2. k + j \in 1 .. n
      BY <1>a, <3>1
    <3>3. k + j \in DOMAIN lines /\ lines[k + j] = s[j]
      BY <1>b, <3>1, <3>2 DEF n
    <3> QED BY <1>6, <3>1, <3>3 DEF With, At
  <2>2. ASSUME NEW i \in With(lines, kind, k + 1) PROVE \E j \in Own(kind) : i = k + j
    <3>1. i \in DOMAIN lines /\ lines[i].line = kind /\ MediaOf(lines, i) = k + 1
      BY DEF With, At
    <3>2. i - k \in 1 .. l /\ k + (i - k) = i
      BY <1>7, <3>1
    <3>3. lines[i] = s[i - k]
      BY <1>1, <3>2
    <3>4. i - k \in Own(kind)
      BY <1>2, <3>1, <3>2, <3>3
    <3> QED BY <3>2, <3>4
  <2> HIDE DEF Own
  <2> QED BY <2>1, <2>2
<1>9. \A kind : \A j \in Own(kind) : lines[k + j] = s[j]
  BY <1>1, <1>2
<1>10. /\ ToSet(s[1].types) = {s[j].type : j \in Own("rtpmap")}
       /\ {s[j].apt : j \in Own("fmtp")} \ {0} \subseteq ToSet(s[1].types)
       /\ UNION {ToSet(s[j].ssrcs) : j \in Own("ssrc-group")}
              \subseteq {s[j].ssrc : j \in Own("ssrc")}
  BY DEF ExplainsItself
<1> HIDE DEF Own
<1>11. {lines[i].type : i \in With(lines, "rtpmap", k + 1)} = {s[j].type : j \in Own("rtpmap")}
  BY <1>8, <1>9
<1>12. {lines[i].apt : i \in With(lines, "fmtp", k + 1)} = {s[j].apt : j \in Own("fmtp")}
  BY <1>8, <1>9
<1>13. {ToSet(lines[i].ssrcs) : i \in With(lines, "ssrc-group", k + 1)}
           = {ToSet(s[j].ssrcs) : j \in Own("ssrc-group")}
  BY <1>8, <1>9
<1>14. {lines[i].ssrc : i \in With(lines, "ssrc", k + 1)} = {s[j].ssrc : j \in Own("ssrc")}
  BY <1>8, <1>9
<1> QED BY <1>5, <1>10, <1>11, <1>12, <1>13, <1>14 DEF Explained

\* Every section of an offer explains itself.
LEMMA OffersAreExplained ==
    ASSUME NEW options, NEW m \in At(SdpLines(CreateOffer(options)), "m")
    PROVE  Explained(SdpLines(CreateOffer(options)), m)
<1> DEFINE lines == SdpLines(CreateOffer(options))
           none == <<>>
           b == BundleOf(options)
           a == AudioOf(options)
           v == VideoOf(options)
           nb == Len(b)
           na == Len(a)
           nv == Len(v)
           A == Offers(options.audio)
           V == Offers(options.video)
<1>1. IsList(none) /\ Len(none) = 0
  BY FewAreList
<1>2. IsList(lines)
  BY <1>1, PartsStand
<1>3. lines \o none = lines
  BY <1>2, JoinedToNone
<1> HIDE DEF none
<1>4. /\ nb \in Nat /\ na \in Nat /\ nv \in Nat /\ Len(lines) = nb + na + nv
      /\ \A j \in 1 .. nb : lines[j] = b[j]
      /\ Stands(a, lines, nb) /\ Stands(v, lines, nb + na)
      /\ DOMAIN lines = 1 .. Len(lines)
  <2>1. /\ nb \in Nat /\ na \in Nat /\ nv \in Nat /\ Len(lines) = nb + na + nv
        /\ DOMAIN (lines \o none) = 1 .. Len(lines \o none)
    BY <1>1, PartsStand
  <2>2. \A j \in 1 .. nb : (lines \o none)[j] = b[j]
    BY <1>1, PartsStand
  <2>3. Stands(a, lines \o none, nb) /\ Stands(v, lines \o none, nb + na)
    BY <1>1, PartsStand
  <2> HIDE DEF lines, nb, na, nv, b, a, v
  <2> QED BY <1>3, <2>1, <2>2, <2>3
<1>5. /\ A => StartsSection(a, "audio", <<111>>) /\ ExplainsItself(a)
      /\ ~A => na = 0
      /\ V => /\ StartsSection(v, "video", IF Sends(options.video) THEN <<107, 99>> ELSE <<>>)
              /\ ExplainsItself(v)
      /\ ~V => nv = 0
  BY PartsAre, FewAreList DEF AudioOf, VideoOf
<1>6. \A j \in 1 .. nb : b[j].line = "group"
  <2>1. CASE options.mux /\ NamesOf(options) # <<>>
    <3>1. b = <<[line |-> "group", names |-> NamesOf(options)]>>
      BY <2>1 DEF BundleOf
    <3>2. nb = 1 /\ b[1] = [line |-> "group", names |-> NamesOf(options)]
      BY <3>1, FewAreList
    <3> HIDE DEF b, nb
    <3> QED BY <3>2
  <2>2. CASE ~(options.mux /\ NamesOf(options) # <<>>)
    <3>1. b = <<>>
      BY <2>2 DEF BundleOf
    <3>2. nb = 0
      BY <3>1, FewAreList
    <3> HIDE DEF b, nb
    <3> QED BY <3>2
  <2> QED BY <2>1, <2>2
<1> HIDE DEF lines, b, a, v, nb, na, nv
<1>7. m \in 1 .. nb + na + nv /\ lines[m].line = "m"
  BY <1>4 DEF At, lines
<1>8. ~(m <= nb)
  <2> SUFFICES ASSUME m <= nb PROVE FALSE
    OBVIOUS
  <2>1. m \in 1 .. nb
    BY <1>4, <1>7
  <2> QED BY <1>4, <1>6, <1>7, <2>1
<1>9. ASSUME NEW s, NEW k \in Nat, NEW j \in 1 .. Len(s), NEW name, NEW types,
             StartsSection(s, name, types), Stands(s, lines, k), lines[k + j].line = "m"
      PROVE  j = 1
  <2>1. /\ s[2].line = "ufrag" /\ s[3].line = "pwd" /\ s[4].line = "fingerprint"
        /\ \A i \in 5 .. Len(s) : s[i].line # "m"
    BY <1>9 DEF StartsSection
  <2>2. s[j].line = "m" /\ Len(s) \in Nat
    BY <1>9 DEF Stands, StartsSection
  <2>3. j = 1 \/ j = 2 \/ j = 3 \/ j = 4 \/ j \in 5 .. Len(s)
    BY <2>2
  <2> QED BY <2>1, <2>2, <2>3
<1>10. CASE m <= nb + na
  <2>1. A
    BY <1>4, <1>5, <1>8, <1>10, <1>7
  <2>2. m - nb \in 1 .. na /\ nb + (m - nb) = m
    BY <1>4, <1>7, <1>8, <1>10
  <2>3. m - nb = 1
    <3>1. /\ StartsSection(a, "audio", <<111>>) /\ Stands(a, lines, nb) /\ nb \in Nat
          /\ m - nb \in 1 .. Len(a) /\ lines[nb + (m - nb)].line = "m"
      BY <1>4, <1>5, <1>7, <2>1, <2>2 DEF na
    <3> QED BY <1>9, <3>1
  <2>4. m = nb + 1
    BY <1>4, <1>7, <2>3
  <2>5. nb + Len(a) = Len(lines) \/ lines[nb + Len(a) + 1].line = "m"
    <3>1. CASE ~V
      BY <1>4, <1>5, <3>1 DEF na
    <3>2. CASE V
      <4>1. v[1].line = "m" /\ Len(v) >= 4 /\ Len(v) \in Nat
        BY <1>5, <3>2 DEF StartsSection
      <4>2. lines[(nb + na) + 1] = v[1]
        <5>1. 1 \in 1 .. Len(v)
          BY <4>1
        <5> QED BY <1>4, <5>1 DEF Stands
      <4> QED BY <4>1, <4>2 DEF na
    <3> QED BY <3>1, <3>2
  <2>6. /\ StartsSection(a, "audio", <<111>>) /\ ExplainsItself(a) /\ Stands(a, lines, nb)
        /\ DOMAIN lines = 1 .. Len(lines)
    BY <1>4, <1>5, <2>1
  <2>7. Explained(lines, nb + 1)
    <3>1. Ends(lines, nb + Len(a))
      BY <2>5 DEF Ends
    <3> QED BY <2>6, <3>1, SectionIsExplained
  <2> QED BY <2>4, <2>7 DEF lines
<1>11. CASE ~(m <= nb + na)
  <2> DEFINE types == IF Sends(options.video) THEN <<107, 99>> ELSE <<>>
  <2>1. V
    BY <1>4, <1>5, <1>11, <1>7
  <2> HIDE DEF types
  <2>2. StartsSection(v, "video", types) /\ ExplainsItself(v)
    BY <1>5, <2>1 DEF types
  <2>3. m - (nb + na) \in 1 .. nv /\ (nb + na) + (m - (nb + na)) = m /\ nb + na \in Nat
    <3>1. nb \in Nat /\ na \in Nat /\ nv \in Nat
      BY <1>4
    <3>2. m \in 1 .. nb + na + nv
      BY <1>7
    <3> QED BY <1>11, <3>1, <3>2
  <2>4. m - (nb + na) = 1
    <3>1. /\ Stands(v, lines, nb + na)
          /\ m - (nb + na) \in 1 .. Len(v) /\ lines[(nb + na) + (m - (nb + na))].line = "m"
      BY <1>4, <1>7, <2>3 DEF nv
    <3> QED BY <1>9, <2>2, <2>3, <3>1
  <2>5. m = (nb + na) + 1
    BY <1>4, <1>7, <2>4
  <2>6. /\ (nb + na) + Len(v) = Len(lines) /\ Stands(v, lines, nb + na)
        /\ DOMAIN lines = 1 .. Len(lines)
    BY <1>4 DEF nv
  <2>7. Explained(lines, (nb + na) + 1)
    <3>1. Ends(lines, (nb + na) + Len(v))
      BY <2>6 DEF Ends
    <3> QED BY <2>2, <2>6, <3>1, SectionIsExplained
  <2> QED BY <2>5, <2>7 DEF lines
<1> QED BY <1>10, <1>11

-----------------------------------------------------------------------------
(* Session descriptions: the theorems *)

\* The answer at hand, if a description has been asked for, is that of the call.
DescriptionIsKept ==
    job.kind = "description" =>
        /\ job.options \in OfferOptions
        /\ job.lines = SdpLines(CreateOffer(job.options))
        /\ \E n \in Nat : job.extra \in [1 .. n -> ExtraLines]
        /\ result = ReadSdp(job.lines \o job.extra)

LEMMA DescriptionsKept == DescriptionIsKept /\ [Call]_calls => DescriptionIsKept'
<1> SUFFICES ASSUME DescriptionIsKept, [Call]_calls PROVE DescriptionIsKept'
  OBVIOUS
<1>1. ASSUME job'.kind # "description" PROVE DescriptionIsKept'
  BY <1>1 DEF DescriptionIsKept
<1>2. CASE AskStreams
  BY <1>1, <1>2 DEF AskStreams
<1>3. CASE AskTypes \/ AskSettings \/ AskSelection
  BY <1>1, <1>3 DEF AskTypes, AskSettings, AskSelection
<1>4. CASE AskExtensions
  BY <1>1, <1>4 DEF AskExtensions
<1>5. CASE AskStatistics
  BY <1>1, <1>5 DEF AskStatistics
<1>6. CASE AskDescription
  <2>1. PICK options \in OfferOptions, n \in 0 .. MaxExtraLines :
            \E extra \in [1 .. n -> ExtraLines] :
                LET lines == SdpLines(CreateOffer(options))
                IN  /\ job' = [kind |-> "description", options |-> options, lines |-> lines,
                               extra |-> extra]
                    /\ result' = ReadSdp(lines \o extra)
    BY <1>6 DEF AskDescription
  <2>2. PICK extra \in [1 .. n -> ExtraLines] :
            LET lines == SdpLines(CreateOffer(options))
            IN  /\ job' = [kind |-> "description", options |-> options, lines |-> lines,
                           extra |-> extra]
                /\ result' = ReadSdp(lines \o extra)
    BY <2>1
  <2>3. /\ job'.options = options /\ job'.lines = SdpLines(CreateOffer(options))
        /\ job'.extra = extra /\ result' = ReadSdp(job'.lines \o job'.extra)
    BY <2>2
  <2>4. n \in Nat
    BY DescriptionsAssumption
  <2> QED BY <2>3, <2>4 DEF DescriptionIsKept
<1>7. CASE AskParameters
  BY <1>1, <1>7 DEF AskParameters
<1>8. CASE AskEncoderSettings
  BY <1>1, <1>8 DEF AskEncoderSettings
<1>9. CASE AskOwnExtensions
  BY <1>1, <1>9 DEF AskOwnExtensions
<1>10. CASE StartBundles
  BY <1>1, <1>10 DEF StartBundles
<1>11. CASE UpdateGroups \/ DeleteAMid \/ DeleteAGroup \/ Rollback \/ Commit
  BY <1>1, <1>11 DEF UpdateGroups, DeleteAMid, DeleteAGroup, Rollback, Commit, BundlesInUse
<1>12. CASE Return
  BY <1>1, <1>12 DEF Return, Idle
<1>13. CASE UNCHANGED calls
  BY <1>13 DEF DescriptionIsKept, calls
<1> QED
  BY <1>2, <1>3, <1>4, <1>5, <1>6, <1>7, <1>8, <1>9, <1>10, <1>11, <1>12, <1>13 DEF Call

\* Lines of other programs are such lines.
LEMMA ExtraAre ==
    ASSUME NEW n \in Nat, NEW extra \in [1 .. n -> ExtraLines]
    PROVE  AreExtra(extra) /\ DOMAIN extra = 1 .. Len(extra)
<1>1. extra = [i \in 1 .. n |-> extra[i]] /\ DOMAIN extra = 1 .. n
  OBVIOUS
<1>2. IsList(extra)
  BY <1>1 DEF IsList
<1>3. DOMAIN extra = 1 .. Len(extra)
  BY <1>2, Joined
<1>4. \A i \in DOMAIN extra : extra[i] \in ExtraLines
  BY <1>1
<1> QED BY <1>2, <1>3, <1>4, DescriptionsAssumption DEF AreExtra

\* Whatever is called, the answer to a description is that of the call.
THEOREM DescriptionsAreKept == Calls => []DescriptionIsKept
<1>1. NoCall => DescriptionIsKept
  BY DEF NoCall, Idle, DescriptionIsKept
<1> QED BY <1>1, DescriptionsKept, PTL DEF Calls

\* Whatever an offer is asked for, set_remote_sdp of another peer reads out of
\* it what create_offer put in: sections, credentials, fingerprints, first
\* payload types and bundle, with the read past the end of the m= line exactly
\* if video is only received; and every section explains its payload types,
\* retransmissions and SSRC groups itself (ToString, BuildRtpMap, BuildSsrc).
THEOREM OffersStayUnderstood == Calls => []OffersAreUnderstood
<1>1. DescriptionIsKept => OffersAreReadBack
  <2> SUFFICES ASSUME DescriptionIsKept, job.kind = "description", job.extra = <<>>
               PROVE  OffersAreReadBack
    BY DEF OffersAreReadBack
  <2>1. /\ job.options \in OfferOptions
        /\ result = ReadSdp(SdpLines(CreateOffer(job.options)) \o <<>>)
    BY DEF DescriptionIsKept
  <2>2. job.options \in [audio : Directions, video : Directions, mux : BOOLEAN]
    BY <2>1, DescriptionsAssumption
  <2> QED BY <2>1, <2>2, OffersAreRead DEF OffersAreReadBack
<1>2. DescriptionIsKept => OffersExplainThemselves
  <2> SUFFICES ASSUME DescriptionIsKept, job.kind = "description"
               PROVE  OffersExplainThemselves
    BY DEF OffersExplainThemselves
  <2>1. job.lines = SdpLines(CreateOffer(job.options))
    BY DEF DescriptionIsKept
  <2>2. \A m \in At(job.lines, "m") : Explained(job.lines, m)
    BY <2>1, OffersAreExplained
  <2> QED BY <2>2 DEF OffersExplainThemselves, Explained, With, MediaOf, At
<1>3. DescriptionIsKept => OffersAreUnderstood
  BY <1>1, <1>2 DEF OffersAreUnderstood
<1> QED BY <1>3, DescriptionsAreKept, PTL

\* Whatever an offer is asked for and however many lines of other programs
\* follow it, the transport controller survives what set_remote_sdp has read
\* exactly if there is a bundle, audio is offered, and video is offered behind
\* it or the last fingerprint that counts could be decoded.
THEOREM DescriptionsStayUsable == Calls => []UsableDescriptions
<1>1. DescriptionIsKept => UsableDescriptions
  <2> SUFFICES ASSUME DescriptionIsKept, job.kind = "description", result.ok
               PROVE  UsableDescriptions
    BY DEF UsableDescriptions
  <2> DEFINE extra == job.extra
             Inside(i) == \A j \in 1 .. i : extra[j].line # "m"
             Counts(i) == extra[i].line = "fingerprint" /\ extra[i].value # "malformed" /\ Inside(i)
             last == {i \in DOMAIN extra : Counts(i) /\ \A j \in i + 1 .. Len(extra) : ~Counts(j)}
  <2>1. PICK n \in Nat : extra \in [1 .. n -> ExtraLines]
    BY DEF DescriptionIsKept
  <2>2. AreExtra(extra) /\ DOMAIN extra = 1 .. Len(extra)
    BY <2>1, ExtraAre
  <2>3. result = ReadSdp(SdpLines(CreateOffer(job.options)) \o extra)
    BY DEF DescriptionIsKept
  <2>4. ControllerCanUse(result) <=>
            /\ job.options.mux /\ Offers(job.options.audio)
            /\ Offers(job.options.video) \/ LastIsDecoded(extra, Len(extra))
    BY <2>2, <2>3, UsableAre
  <2>5. LastIsDecoded(extra, Len(extra)) <=> \A i \in last : extra[i].value # "undecodable"
    BY <2>2 DEF LastIsDecoded, CountsAt, InsideAt
  <2> QED BY <2>4, <2>5 DEF UsableDescriptions
<1> QED BY <1>1, DescriptionsAreKept, PTL
=============================================================================
