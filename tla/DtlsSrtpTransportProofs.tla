----------------------- MODULE DtlsSrtpTransportProofs -----------------------
(***************************************************************************)
(* Proofs about DtlsSrtpTransport for every set of transports, extension   *)
(* ids and number of handshakes, whatever libsrtp answers.                 *)
(***************************************************************************)
EXTENDS DtlsSrtpTransport, TLAPS

Assoc == [Transports -> Dtls]

\* The fields that the key methods leave alone.
Same(r, s) ==
    /\ r.mux = s.mux /\ r.rtp = s.rtp /\ r.rtcp = s.rtcp
    /\ r.rtpReady = s.rtpReady /\ r.rtcpReady = s.rtcpReady
    /\ r.ready = s.ready

\* ready_to_send is never reported beyond what the flags say.
ReadyFormula(s) == s.ready => s.rtpReady /\ (s.rtcpReady \/ s.mux)

-----------------------------------------------------------------------------
(* What the methods return, for any object and any DTLS environment *)

\* Keys exported from an association are keys.
LEMMA KeyType ==
    ASSUME NEW d \in Assoc, NEW t \in Transports
    PROVE  SendKey(d, t) \in Keys /\ RecvKey(d, t) \in Keys
BY DEF Assoc, Dtls, Roles, Keys, SendKey, RecvKey, Key, Peer

\* MaybeSignalReadyToSend changes ready_to_send_ only.
LEMMA SignalType ==
    ASSUME NEW s \in Objects
    PROVE  LET r == MaybeSignalReadyToSend(s)
           IN  /\ r \in Objects
               /\ r.mux = s.mux /\ r.rtp = s.rtp /\ r.rtcp = s.rtcp
               /\ r.send = s.send /\ r.recv = s.recv /\ r.writable = s.writable
               /\ r.rtcpReady = s.rtcpReady /\ r.rtpReady = s.rtpReady
               /\ ReadyFormula(r)
<1> DEFINE b == s.rtpReady /\ (s.rtcpReady \/ s.mux)
           r == [s EXCEPT !.ready = b]
<1>1. b \in BOOLEAN /\ MaybeSignalReadyToSend(s) = r
  BY DEF MaybeSignalReadyToSend
<1> HIDE DEF b
<1>2. /\ r \in Objects /\ r.ready = b
      /\ r.mux = s.mux /\ r.rtp = s.rtp /\ r.rtcp = s.rtcp
      /\ r.send = s.send /\ r.recv = s.recv /\ r.writable = s.writable
      /\ r.rtcpReady = s.rtcpReady /\ r.rtpReady = s.rtpReady
  BY <1>1 DEF Objects
<1>3. ReadyFormula(r)
  BY <1>2 DEF ReadyFormula, b
<1>4. QED  BY <1>1, <1>2, <1>3

\* SetReadyToSend sets the flag of its kind and keeps every other field.
LEMMA RtcpReadyType ==
    ASSUME NEW s \in Objects, NEW ready \in BOOLEAN
    PROVE  LET r == SetReadyToSend(s, TRUE, ready)
           IN  /\ r \in Objects
               /\ r.mux = s.mux /\ r.rtp = s.rtp /\ r.rtcp = s.rtcp
               /\ r.send = s.send /\ r.recv = s.recv /\ r.writable = s.writable
               /\ r.rtcpReady = ready /\ r.rtpReady = s.rtpReady
               /\ ReadyFormula(r)
<1> DEFINE c == [s EXCEPT !.rtcpReady = ready]
<1>1. /\ c \in Objects
      /\ c.mux = s.mux /\ c.rtp = s.rtp /\ c.rtcp = s.rtcp
      /\ c.send = s.send /\ c.recv = s.recv /\ c.writable = s.writable
      /\ c.rtcpReady = ready /\ c.rtpReady = s.rtpReady
  BY DEF Objects
<1>2. SetReadyToSend(s, TRUE, ready) = MaybeSignalReadyToSend(c)
  BY DEF SetReadyToSend
<1> HIDE DEF c
<1>3. QED  BY <1>1, <1>2, SignalType

\* The same for the RTP flag.
LEMMA RtpReadyType ==
    ASSUME NEW s \in Objects, NEW ready \in BOOLEAN
    PROVE  LET r == SetReadyToSend(s, FALSE, ready)
           IN  /\ r \in Objects
               /\ r.mux = s.mux /\ r.rtp = s.rtp /\ r.rtcp = s.rtcp
               /\ r.send = s.send /\ r.recv = s.recv /\ r.writable = s.writable
               /\ r.rtpReady = ready /\ r.rtcpReady = s.rtcpReady
               /\ ReadyFormula(r)
<1> DEFINE c == [s EXCEPT !.rtpReady = ready]
<1>1. /\ c \in Objects
      /\ c.mux = s.mux /\ c.rtp = s.rtp /\ c.rtcp = s.rtcp
      /\ c.send = s.send /\ c.recv = s.recv /\ c.writable = s.writable
      /\ c.rtpReady = ready /\ c.rtcpReady = s.rtcpReady
  BY DEF Objects
<1>2. SetReadyToSend(s, FALSE, ready) = MaybeSignalReadyToSend(c)
  BY DEF SetReadyToSend
<1> HIDE DEF c
<1>3. QED  BY <1>1, <1>2, SignalType

\* MaybeUpdateWritableState changes writable_ only, and never sets it over
\* inactive SRTP.
LEMMA WritableType ==
    ASSUME NEW s \in Objects, NEW d \in Assoc
    PROVE  LET r == MaybeUpdateWritableState(s, Writable(d))
           IN  /\ r \in Objects
               /\ Same(r, s)
               /\ r.send = s.send /\ r.recv = s.recv
               /\ r.sendRtcp = s.sendRtcp /\ r.recvRtcp = s.recvRtcp
               /\ r.writable => IsSrtpActive(s)
<1> DEFINE b == IsWritable(s, Writable(d), TRUE) /\ IsWritable(s, Writable(d), FALSE)
<1>1. b \in BOOLEAN /\ (b => IsSrtpActive(s))
  BY DEF IsWritable, IsSrtpActive
<1>2. MaybeUpdateWritableState(s, Writable(d)) = [s EXCEPT !.writable = b]
  BY DEF MaybeUpdateWritableState
<1> HIDE DEF b
<1>3. QED  BY <1>1, <1>2 DEF Objects, Same

\* ResetParams leaves an inactive, unwritable object.
LEMMA ResetType ==
    ASSUME NEW s \in Objects, NEW d \in Assoc
    PROVE  LET r == ResetParams(s, Writable(d))
           IN  /\ r \in Objects
               /\ Same(r, s)
               /\ r.send = None /\ r.recv = None /\ ~r.writable
<1> DEFINE c == [s EXCEPT !.send = None, !.recv = None,
                          !.sendRtcp = None, !.recvRtcp = None]
<1>1. /\ c \in Objects
      /\ Same(c, s) /\ c.send = None /\ c.recv = None
  BY DEF Objects, Same
<1>2. ResetParams(s, Writable(d)) = MaybeUpdateWritableState(c, Writable(d))
  BY DEF ResetParams
<1> HIDE DEF c
<1>3. ~IsSrtpActive(c)
  BY <1>1 DEF IsSrtpActive
<1>4. QED  BY <1>1, <1>2, <1>3, WritableType DEF Same

\* SetRtpParams installs both sessions, or resets the object.
LEMMA RtpParamsType ==
    ASSUME NEW s \in Objects, NEW d \in Assoc,
           NEW x \in Sessions, NEW y \in Sessions, NEW ok \in BOOLEAN
    PROVE  LET r == SetRtpParams(s, Writable(d), x, y, ok)
           IN  /\ r \in Objects
               /\ Same(r, s)
               /\ ok => r.send = x /\ r.recv = y
               /\ ~ok => r.send = None /\ r.recv = None /\ ~r.writable
<1> DEFINE c == [s EXCEPT !.send = x, !.recv = y]
<1>1. /\ c \in Objects
      /\ Same(c, s) /\ c.send = x /\ c.recv = y
  BY DEF Objects, Same
<1>2. SetRtpParams(s, Writable(d), x, y, ok) =
          IF ok THEN MaybeUpdateWritableState(c, Writable(d))
                ELSE ResetParams(s, Writable(d))
  BY DEF SetRtpParams
<1> HIDE DEF c
<1>3. CASE ok
  BY <1>1, <1>2, <1>3, WritableType DEF Same
<1>4. CASE ~ok
  <2>1. SetRtpParams(s, Writable(d), x, y, ok) = ResetParams(s, Writable(d))
    BY <1>2, <1>4
  <2>2. QED  BY <1>4, <2>1, ResetType
<1>5. QED  BY <1>3, <1>4

\* SetRtcpParams touches neither the RTP sessions nor the other fields.
LEMMA RtcpParamsType ==
    ASSUME NEW s \in Objects, NEW d \in Assoc,
           NEW x \in Sessions, NEW y \in Sessions,
           NEW outcome \in {"ok", "send", "recv"}
    PROVE  LET r == SetRtcpParams(s, Writable(d), x, y, outcome)
           IN  /\ r \in Objects
               /\ Same(r, s) /\ r.send = s.send /\ r.recv = s.recv
               /\ r.writable => s.writable \/ IsSrtpActive(s)
<1> DEFINE c == [s EXCEPT !.sendRtcp = x, !.recvRtcp = y]
           c1 == [s EXCEPT !.sendRtcp = NoKey]
           c2 == [s EXCEPT !.sendRtcp = x, !.recvRtcp = NoKey]
<1>1. /\ c \in Objects
      /\ Same(c, s) /\ c.send = s.send /\ c.recv = s.recv
  BY DEF Objects, Same
<1>2. /\ c1 \in Objects
      /\ Same(c1, s) /\ c1.send = s.send /\ c1.recv = s.recv
      /\ c1.writable = s.writable
  BY DEF Objects, Same
<1>3. /\ c2 \in Objects
      /\ Same(c2, s) /\ c2.send = s.send /\ c2.recv = s.recv
      /\ c2.writable = s.writable
  BY DEF Objects, Same
<1>4. \/ SetRtcpParams(s, Writable(d), x, y, outcome) = s
      \/ SetRtcpParams(s, Writable(d), x, y, outcome) = c1
      \/ SetRtcpParams(s, Writable(d), x, y, outcome) = c2
      \/ SetRtcpParams(s, Writable(d), x, y, outcome)
             = MaybeUpdateWritableState(c, Writable(d))
  BY DEF SetRtcpParams
<1> HIDE DEF c, c1, c2
<1>5. IsSrtpActive(c) => IsSrtpActive(s)
  BY <1>1 DEF IsSrtpActive
<1>6. QED  BY <1>1, <1>2, <1>3, <1>4, <1>5, WritableType DEF Same

-----------------------------------------------------------------------------
(* The inductive invariant, as predicates on an object s, its DTLS          *)
(* environment d, its extension ids i and the ENOTCONN history e            *)

\* Sessions come in pairs, hold the keys of the present RTP association, and
\* writable_ is set over active SRTP only.
Good(s, d) ==
    /\ (s.send = None) <=> (s.recv = None)
    /\ IsSrtpActive(s) => /\ CanExtract(d, s.rtp)
                          /\ s.send.key = SendKey(d, s.rtp)
                          /\ s.recv.key = RecvKey(d, s.rtp)
    /\ s.writable => IsSrtpActive(s)

\* SRTP follows DTLS once the attached RTCP transport, muxed or not, is
\* connected too: the form that survives rtcp-mux being switched off.
Follows(s, d) ==
    (/\ ~LibsrtpMayFail
     /\ CanExtract(d, s.rtp)
     /\ s.rtcp # None => d[s.rtcp].state = "connected"
     /\ IsDtlsWritable(s, d)) => IsSrtpActive(s)

Applied(s, i) ==
    (RtcpTransports = {} /\ IsSrtpActive(s)) =>
        /\ s.send.ids = OrEmpty(i.send)
        /\ s.recv.ids = OrEmpty(i.recv)

\* Each ready flag vouches for the last send of its own kind.
Honest(s, e) ==
    /\ s.rtpReady => <<s.rtp, FALSE>> \notin e
    /\ s.rtcpReady => <<s.rtcp, TRUE>> \notin e
    /\ ReadyFormula(s)

\* SetupRtpDtlsSrtp installs the keys of the finished RTP association.
LEMMA SetupRtp ==
    ASSUME NEW s \in Objects, NEW d \in Assoc, NEW i \in NegotiatedIds,
           NEW o \in Outcomes
    PROVE  LET r == SetupRtpDtlsSrtp(s, d, i, o)
           IN  /\ r \in Objects
               /\ Same(r, s)
               /\ ~CanExtract(d, s.rtp) => r = s
               /\ CanExtract(d, s.rtp) /\ o.rtp =>
                      /\ r.send = Session(SendKey(d, s.rtp), OrEmpty(i.send))
                      /\ r.recv = Session(RecvKey(d, s.rtp), OrEmpty(i.recv))
               /\ CanExtract(d, s.rtp) /\ ~o.rtp =>
                      r.send = None /\ r.recv = None /\ ~r.writable
<1> DEFINE x == Session(SendKey(d, s.rtp), OrEmpty(i.send))
           y == Session(RecvKey(d, s.rtp), OrEmpty(i.recv))
<1>1. CASE CanExtract(d, s.rtp)
  <2>1. s.rtp \in Transports
    BY <1>1 DEF CanExtract, Objects, Transports
  <2>2. x \in Sessions /\ y \in Sessions
    BY <2>1, KeyType, ParametersAssumption
       DEF Session, Sessions, OrEmpty, NegotiatedIds
  <2>3. o.rtp \in BOOLEAN
    BY DEF Outcomes
  <2>4. SetupRtpDtlsSrtp(s, d, i, o) = SetRtpParams(s, Writable(d), x, y, o.rtp)
    BY <1>1 DEF SetupRtpDtlsSrtp
  <2> HIDE DEF x, y
  <2>5. QED  BY <1>1, <2>2, <2>3, <2>4, RtpParamsType DEF x, y
<1>2. CASE ~CanExtract(d, s.rtp)
  BY <1>2 DEF SetupRtpDtlsSrtp, Same
<1>3. QED  BY <1>1, <1>2

\* SetupRtcpDtlsSrtp leaves the RTP sessions alone.
LEMMA SetupRtcp ==
    ASSUME NEW s \in Objects, NEW d \in Assoc, NEW i \in NegotiatedIds,
           NEW o \in Outcomes
    PROVE  LET r == SetupRtcpDtlsSrtp(s, d, i, o)
           IN  /\ r \in Objects
               /\ Same(r, s) /\ r.send = s.send /\ r.recv = s.recv
               /\ r.writable => s.writable \/ IsSrtpActive(s)
<1> DEFINE x == Session(SendKey(d, s.rtcp), OrEmpty(i.send))
           y == Session(RecvKey(d, s.rtcp), OrEmpty(i.recv))
<1>1. CASE ~IsSrtpActive(s) /\ CanExtract(d, s.rtcp)
  <2>1. s.rtcp \in Transports
    BY <1>1 DEF CanExtract, Objects, Transports
  <2>2. x \in Sessions /\ y \in Sessions
    BY <2>1, KeyType, ParametersAssumption
       DEF Session, Sessions, OrEmpty, NegotiatedIds
  <2>3. o.rtcp \in {"ok", "send", "recv"}
    BY DEF Outcomes
  <2>4. SetupRtcpDtlsSrtp(s, d, i, o) = SetRtcpParams(s, Writable(d), x, y, o.rtcp)
    BY <1>1 DEF SetupRtcpDtlsSrtp
  <2> HIDE DEF x, y
  <2> DEFINE r == SetRtcpParams(s, Writable(d), x, y, o.rtcp)
  <2>5. /\ r \in Objects
        /\ Same(r, s) /\ r.send = s.send /\ r.recv = s.recv
        /\ r.writable => s.writable \/ IsSrtpActive(s)
    BY <2>2, <2>3, RtcpParamsType
  <2> HIDE DEF r
  <2>6. QED  BY <2>4, <2>5 DEF r
<1>2. CASE ~(~IsSrtpActive(s) /\ CanExtract(d, s.rtcp))
  BY <1>2 DEF SetupRtcpDtlsSrtp, Same
<1>3. QED  BY <1>1, <1>2
\* MaybeSetupDtlsSrtp keeps the keys current, and leaves SRTP active whenever
\* DTLS allows it.
LEMMA MaybeSetup ==
    ASSUME NEW s \in Objects, NEW d \in Assoc, NEW i \in NegotiatedIds,
           NEW o \in Outcomes
    PROVE  LET r == MaybeSetupDtlsSrtp(s, d, i, o)
           IN  /\ r \in Objects
               /\ Same(r, s)
               /\ Good(s, d) => Good(r, d)
               /\ Follows(r, d)
               /\ Applied(s, i) => Applied(r, i)
<1>1. CASE IsSrtpActive(s) \/ ~IsDtlsWritable(s, d)
  <2>1. MaybeSetupDtlsSrtp(s, d, i, o) = s
    BY <1>1 DEF MaybeSetupDtlsSrtp
  <2>2. QED  BY <1>1, <2>1 DEF Same, Follows
<1>2. CASE ~(IsSrtpActive(s) \/ ~IsDtlsWritable(s, d))
  <2> DEFINE m == SetupRtpDtlsSrtp(s, d, i, o)
             r == MaybeSetupDtlsSrtp(s, d, i, o)
  <2>1. /\ m \in Objects
        /\ Same(m, s)
        /\ ~CanExtract(d, s.rtp) => m = s
        /\ CanExtract(d, s.rtp) /\ o.rtp =>
                /\ m.send = Session(SendKey(d, s.rtp), OrEmpty(i.send))
                /\ m.recv = Session(RecvKey(d, s.rtp), OrEmpty(i.recv))
        /\ CanExtract(d, s.rtp) /\ ~o.rtp =>
                m.send = None /\ m.recv = None /\ ~m.writable
    BY SetupRtp
  <2>2. r = m \/ r = SetupRtcpDtlsSrtp(m, d, i, o)
    BY <1>2 DEF MaybeSetupDtlsSrtp
  <2> HIDE DEF m, r
  <2>3. /\ r \in Objects
        /\ Same(r, m) /\ r.send = m.send /\ r.recv = m.recv
        /\ r.writable => m.writable \/ IsSrtpActive(m)
    BY <2>1, <2>2, SetupRtcp DEF Same
  <2>4. Same(r, s)
    BY <2>1, <2>3 DEF Same
  <2>5. o.rtp \in BOOLEAN /\ (~LibsrtpMayFail => o.rtp)
    BY ParametersAssumption DEF Outcomes
  <2>6. CASE ~CanExtract(d, s.rtp)
    <3>1. m = s
      BY <2>1, <2>6
    <3>2. ~IsSrtpActive(r)
      BY <1>2, <2>3, <3>1 DEF IsSrtpActive
    <3>3. Good(s, d) => Good(r, d)
      BY <1>2, <2>3, <3>1, <3>2 DEF Good, IsSrtpActive
    <3>4. Follows(r, d)
      BY <2>4, <2>6 DEF Follows, Same
    <3>5. QED  BY <2>3, <2>4, <3>2, <3>3, <3>4 DEF Applied, r
  <2>7. CASE CanExtract(d, s.rtp) /\ o.rtp
    <3>1. s.rtp \in Transports
      BY <2>7 DEF CanExtract, Objects, Transports
    <3>2. /\ r.send = Session(SendKey(d, s.rtp), OrEmpty(i.send))
          /\ r.recv = Session(RecvKey(d, s.rtp), OrEmpty(i.recv))
      BY <2>1, <2>3, <2>7
    <3>3. r.send \in Sessions /\ r.recv \in Sessions
      BY <3>1, <3>2, KeyType, ParametersAssumption
         DEF Session, Sessions, OrEmpty, NegotiatedIds
    <3>4. IsSrtpActive(r)
      BY <3>3, SessionsAssumption DEF IsSrtpActive
    <3>5. /\ r.send.key = SendKey(d, s.rtp) /\ r.send.ids = OrEmpty(i.send)
          /\ r.recv.key = RecvKey(d, s.rtp) /\ r.recv.ids = OrEmpty(i.recv)
      BY <3>2 DEF Session
    <3>6. Good(r, d)
      BY <2>4, <2>7, <3>4, <3>5 DEF Good, Same, IsSrtpActive
    <3>7. QED  BY <2>3, <2>4, <3>4, <3>5, <3>6 DEF Applied, Follows, r
  <2>8. CASE CanExtract(d, s.rtp) /\ ~o.rtp
    <3>1. r.send = None /\ r.recv = None /\ ~r.writable
      BY <2>1, <2>3, <2>8 DEF IsSrtpActive
    <3>2. LibsrtpMayFail
      BY <2>5, <2>8
    <3>3. QED  BY <2>3, <2>4, <3>1, <3>2 DEF Good, Follows, Applied, IsSrtpActive, r
  <2>9. QED  BY <2>5, <2>6, <2>7, <2>8
<1>3. QED  BY <1>1, <1>2
\* Attaching packet transports: the ready flag of an unchanged transport stays,
\* and no key is touched.
LEMMA AttachRtcp ==
    ASSUME NEW s \in Objects, NEW d \in Assoc,
           NEW c \in RtcpTransports \cup {None}
    PROVE  LET r == SetRtcpPacketTransport(s, Writable(d), c)
           IN  /\ r \in Objects
               /\ r.mux = s.mux /\ r.rtp = s.rtp /\ r.rtcp = c
               /\ r.send = s.send /\ r.recv = s.recv /\ r.writable = s.writable
               /\ r.rtpReady = s.rtpReady
               /\ c = s.rtcp => r = s
               /\ ReadyFormula(s) => ReadyFormula(r)
<1>1. CASE c = s.rtcp
  BY <1>1 DEF SetRtcpPacketTransport
<1>2. CASE c # s.rtcp
  <2> DEFINE a == [s EXCEPT !.rtcp = c]
             up == IsUp(Writable(d), c)
  <2>1. /\ a \in Objects /\ a.mux = s.mux /\ a.rtp = s.rtp /\ a.rtcp = c
        /\ a.send = s.send /\ a.recv = s.recv /\ a.writable = s.writable
        /\ a.rtpReady = s.rtpReady
    BY DEF Objects
  <2>2. up \in BOOLEAN
    BY DEF IsUp
  <2>3. SetRtcpPacketTransport(s, Writable(d), c) = SetReadyToSend(a, TRUE, up)
    BY <1>2 DEF SetRtcpPacketTransport
  <2> HIDE DEF a, up
  <2> DEFINE r == SetReadyToSend(a, TRUE, up)
  <2>4. /\ r \in Objects /\ ReadyFormula(r)
        /\ r.mux = a.mux /\ r.rtp = a.rtp /\ r.rtcp = a.rtcp
        /\ r.send = a.send /\ r.recv = a.recv /\ r.writable = a.writable
        /\ r.rtpReady = a.rtpReady
    BY <2>1, <2>2, RtcpReadyType
  <2> HIDE DEF r
  <2>5. QED  BY <1>2, <2>1, <2>3, <2>4 DEF r
<1>3. QED  BY <1>1, <1>2

\* The same for the RTP transport.
LEMMA AttachRtp ==
    ASSUME NEW s \in Objects, NEW d \in Assoc, NEW t \in RtpTransports
    PROVE  LET r == SetRtpPacketTransport(s, Writable(d), t)
           IN  /\ r \in Objects
               /\ r.mux = s.mux /\ r.rtp = t /\ r.rtcp = s.rtcp
               /\ r.send = s.send /\ r.recv = s.recv /\ r.writable = s.writable
               /\ r.rtcpReady = s.rtcpReady
               /\ t = s.rtp => r = s
               /\ ReadyFormula(s) => ReadyFormula(r)
<1>1. CASE t = s.rtp
  BY <1>1 DEF SetRtpPacketTransport
<1>2. CASE t # s.rtp
  <2> DEFINE a == [s EXCEPT !.rtp = t]
             up == IsUp(Writable(d), t)
  <2>1. /\ a \in Objects /\ a.mux = s.mux /\ a.rtp = t /\ a.rtcp = s.rtcp
        /\ a.send = s.send /\ a.recv = s.recv /\ a.writable = s.writable
        /\ a.rtcpReady = s.rtcpReady
    BY DEF Objects
  <2>2. up \in BOOLEAN
    BY DEF IsUp
  <2>3. SetRtpPacketTransport(s, Writable(d), t) = SetReadyToSend(a, FALSE, up)
    BY <1>2 DEF SetRtpPacketTransport
  <2> HIDE DEF a, up
  <2> DEFINE r == SetReadyToSend(a, FALSE, up)
  <2>4. /\ r \in Objects /\ ReadyFormula(r)
        /\ r.mux = a.mux /\ r.rtp = a.rtp /\ r.rtcp = a.rtcp
        /\ r.send = a.send /\ r.recv = a.recv /\ r.writable = a.writable
        /\ r.rtcpReady = a.rtcpReady
    BY <2>1, <2>2, RtpReadyType
  <2> HIDE DEF r
  <2>5. QED  BY <1>2, <2>1, <2>3, <2>4 DEF r
<1>3. QED  BY <1>1, <1>2

\* SetDtlsTransports: a changed RTP transport never keeps the old keys.
LEMMA SetTransports ==
    ASSUME NEW s \in Objects, NEW d \in Assoc, NEW i \in NegotiatedIds,
           NEW o \in Outcomes, NEW t \in RtpTransports,
           NEW c \in RtcpTransports \cup {None},
           Good(s, d), Applied(s, i), ReadyFormula(s)
    PROVE  LET q == SetDtlsTransportsOf(s, d, i, t, c, o)
           IN  /\ q \in Objects
               /\ q.mux = s.mux /\ q.rtp = t /\ q.rtcp = c
               /\ Good(q, d) /\ Follows(q, d) /\ Applied(q, i)
               /\ t = s.rtp => q.rtpReady = s.rtpReady
               /\ c = s.rtcp => q.rtcpReady = s.rtcpReady
               /\ ReadyFormula(q)
<1> DEFINE a == ResetForNewTransport(s, d, t)
           b == SetRtcpPacketTransport(a, Writable(d), c)
           e == SetRtpPacketTransport(b, Writable(d), t)
           q == MaybeSetupDtlsSrtp(e, d, i, o)
<1>1. /\ a \in Objects /\ Same(a, s) /\ Good(a, d) /\ Applied(a, i)
      /\ IsSrtpActive(a) => t = s.rtp
  <2>1. CASE IsSrtpActive(s) /\ (t # s.rtp \/ ActiveResetSrtpParams)
    <3>1. a = ResetParams(s, Writable(d))
      BY <2>1 DEF ResetForNewTransport
    <3>2. QED  BY <3>1, ResetType DEF Good, Applied, IsSrtpActive
  <2>2. CASE ~(IsSrtpActive(s) /\ (t # s.rtp \/ ActiveResetSrtpParams))
    <3>1. a = s
      BY <2>2 DEF ResetForNewTransport
    <3>2. QED  BY <2>2, <3>1 DEF Same
  <2>3. QED  BY <2>1, <2>2
<1> HIDE DEF a
<1>2. /\ b \in Objects /\ b.mux = s.mux /\ b.rtp = s.rtp /\ b.rtcp = c
      /\ b.send = a.send /\ b.recv = a.recv /\ b.writable = a.writable
      /\ b.rtpReady = s.rtpReady /\ (c = s.rtcp => b.rtcpReady = s.rtcpReady)
      /\ ReadyFormula(b)
  <2>1. ReadyFormula(a)
    BY <1>1 DEF Same, ReadyFormula
  <2>2. a.mux = s.mux /\ a.rtp = s.rtp /\ a.rtcp = s.rtcp
        /\ a.rtpReady = s.rtpReady /\ a.rtcpReady = s.rtcpReady
    BY <1>1 DEF Same
  <2>3. QED  BY <1>1, <2>1, <2>2, AttachRtcp
<1> HIDE DEF b
<1>3. /\ e \in Objects /\ e.mux = s.mux /\ e.rtp = t /\ e.rtcp = c
      /\ e.send = a.send /\ e.recv = a.recv /\ e.writable = a.writable
      /\ (t = s.rtp => e.rtpReady = s.rtpReady)
      /\ (c = s.rtcp => e.rtcpReady = s.rtcpReady)
      /\ ReadyFormula(e)
  BY <1>2, AttachRtp
<1> HIDE DEF e
<1>4. Good(e, d) /\ Applied(e, i)
  BY <1>1, <1>3 DEF Good, Applied, IsSrtpActive, Same
<1>5. q \in Objects /\ Same(q, e) /\ Good(q, d) /\ Follows(q, d) /\ Applied(q, i)
  BY <1>3, <1>4, MaybeSetup
<1>6. SetDtlsTransportsOf(s, d, i, t, c, o) = q
  BY DEF SetDtlsTransportsOf, a, b, e
<1> HIDE DEF q
<1>7. QED  BY <1>3, <1>5, <1>6 DEF Same, ReadyFormula

\* SetRtcpMuxEnabled in either direction.
LEMMA SetMux ==
    ASSUME NEW s \in Objects, NEW d \in Assoc, NEW i \in NegotiatedIds,
           NEW o \in Outcomes, NEW enable \in BOOLEAN,
           Good(s, d), Follows(s, d), Applied(s, i)
    PROVE  LET q == SetRtcpMuxEnabledOf(s, d, i, enable, o)
           IN  /\ q \in Objects
               /\ q.mux = enable /\ q.rtp = s.rtp /\ q.rtcp = s.rtcp
               /\ q.rtpReady = s.rtpReady /\ q.rtcpReady = s.rtcpReady
               /\ Good(q, d) /\ Follows(q, d) /\ Applied(q, i)
               /\ ReadyFormula(q)
<1> DEFINE a == RtpSetRtcpMuxEnabled(s, enable)
           q == SetRtcpMuxEnabledOf(s, d, i, enable, o)
<1>1. /\ a \in Objects /\ a.mux = enable /\ a.rtp = s.rtp /\ a.rtcp = s.rtcp
      /\ a.rtpReady = s.rtpReady /\ a.rtcpReady = s.rtcpReady
      /\ a.send = s.send /\ a.recv = s.recv /\ a.writable = s.writable
      /\ ReadyFormula(a)
  <2> DEFINE m == [s EXCEPT !.mux = enable]
  <2>1. /\ m \in Objects /\ m.mux = enable /\ m.rtp = s.rtp /\ m.rtcp = s.rtcp
        /\ m.rtpReady = s.rtpReady /\ m.rtcpReady = s.rtcpReady
        /\ m.send = s.send /\ m.recv = s.recv /\ m.writable = s.writable
    BY DEF Objects
  <2>2. a = MaybeSignalReadyToSend(m)
    BY DEF RtpSetRtcpMuxEnabled
  <2> HIDE DEF m
  <2>3. QED  BY <2>1, <2>2, SignalType
<1>2. /\ enable => q = MaybeSetupDtlsSrtp(a, d, i, o)
      /\ ~enable => q = a
  BY DEF SetRtcpMuxEnabledOf
<1> HIDE DEF a, q
<1>3. Good(a, d) /\ Applied(a, i)
  BY <1>1 DEF Good, Applied, IsSrtpActive
<1>4. CASE enable
  <2>1. q \in Objects /\ Same(q, a) /\ Good(q, d) /\ Follows(q, d) /\ Applied(q, i)
    BY <1>1, <1>2, <1>3, <1>4, MaybeSetup
  <2>2. QED  BY <1>1, <2>1 DEF Same, ReadyFormula, q
<1>5. CASE ~enable
  <2>1. q = a /\ ~a.mux
    BY <1>1, <1>2, <1>5
  <2>2. IsDtlsWritable(a, d) => IsDtlsWritable(s, d)
    BY <1>1, <2>1 DEF IsDtlsWritable, RtcpInUse
  <2>3. Follows(a, d)
    BY <1>1, <2>2 DEF Follows, IsSrtpActive
  <2>4. QED  BY <1>1, <1>3, <2>1, <2>3 DEF q
<1>6. QED  BY <1>4, <1>5
-----------------------------------------------------------------------------
(* The invariant is inductive *)

IInv ==
    /\ TypeOK
    /\ Good(tr, dtls)
    /\ Follows(tr, dtls)
    /\ Applied(tr, ids)
    /\ Honest(tr, enotconn)

\* The constructor establishes the invariant.
LEMMA InitIInv == Init => IInv
<1> SUFFICES ASSUME Init PROVE IInv  OBVIOUS
<1>1. PICK mux \in BOOLEAN : tr = NewSrtpTransport(mux)
  BY DEF Init
<1>2. /\ tr \in Objects /\ tr.send = None /\ tr.recv = None /\ tr.rtp = None
      /\ tr.writable = FALSE
      /\ tr.rtpReady = FALSE /\ tr.rtcpReady = FALSE /\ tr.ready = FALSE
  BY <1>1 DEF NewSrtpTransport, Objects
<1>3. dtls \in [Transports -> Dtls] /\ ids \in NegotiatedIds /\ enotconn = {}
  BY DEF Init, Dtls, DtlsStates, Roles, NegotiatedIds
<1>4. TypeOK
  BY <1>2, <1>3 DEF TypeOK
<1>5. Good(tr, dtls) /\ Follows(tr, dtls) /\ Applied(tr, ids)
  BY <1>2 DEF Good, Follows, Applied, IsSrtpActive, CanExtract
<1>6. Honest(tr, enotconn)
  BY <1>2, <1>3 DEF Honest, ReadyFormula
<1>7. QED  BY <1>4, <1>5, <1>6 DEF IInv

\* A change of the DTLS transports keeps the invariant.
LEMMA SetDtlsTransportsIInv ==
    ASSUME IInv, NEW r \in RtpTransports, NEW c \in RtcpTransports \cup {None},
           NEW o \in Outcomes, SetDtlsTransports(r, c, o)
    PROVE  IInv'
<1>1. /\ tr \in Objects /\ dtls \in Assoc /\ ids \in NegotiatedIds
      /\ enotconn \subseteq Transports \X BOOLEAN
      /\ Good(tr, dtls) /\ Applied(tr, ids) /\ ReadyFormula(tr)
  BY DEF IInv, TypeOK, Assoc, Honest
<1>2. /\ tr' = SetDtlsTransportsOf(tr, dtls, ids, r, c, o)
      /\ enotconn' = StillAttached(r, c) /\ dtls' = dtls /\ ids' = ids
  BY DEF SetDtlsTransports
<1>3. /\ tr' \in Objects /\ tr'.rtp = r /\ tr'.rtcp = c
      /\ Good(tr', dtls) /\ Follows(tr', dtls) /\ Applied(tr', ids)
      /\ r = tr.rtp => tr'.rtpReady = tr.rtpReady
      /\ c = tr.rtcp => tr'.rtcpReady = tr.rtcpReady
      /\ ReadyFormula(tr')
  BY <1>1, <1>2, SetTransports
<1>4. TypeOK'
  BY <1>1, <1>2, <1>3 DEF TypeOK, StillAttached, Assoc
<1>5. tr.rtcp \in RtcpTransports \cup {None} /\ tr.rtp \in RtpTransports \cup {None}
  BY <1>1 DEF Objects
<1>6. r # tr.rtp => <<r, FALSE>> \notin enotconn'
  BY <1>2, <1>5, TransportsAssumption DEF StillAttached, Transports
<1>7. c # tr.rtcp => <<c, TRUE>> \notin enotconn'
  BY <1>1, <1>2, <1>5, TransportsAssumption DEF StillAttached, Transports
<1>8. Honest(tr', enotconn')
  BY <1>2, <1>3, <1>6, <1>7 DEF Honest, IInv, StillAttached
<1>9. QED  BY <1>2, <1>3, <1>4, <1>8 DEF IInv
\* So does switching rtcp-mux,
LEMMA SetRtcpMuxEnabledIInv ==
    ASSUME IInv, NEW enable \in BOOLEAN, NEW o \in Outcomes,
           SetRtcpMuxEnabled(enable, o)
    PROVE  IInv'
<1>1. /\ tr \in Objects /\ dtls \in Assoc /\ ids \in NegotiatedIds
      /\ Good(tr, dtls) /\ Follows(tr, dtls) /\ Applied(tr, ids)
  BY DEF IInv, TypeOK, Assoc
<1>2. /\ tr' = SetRtcpMuxEnabledOf(tr, dtls, ids, enable, o)
      /\ enotconn' = enotconn /\ dtls' = dtls /\ ids' = ids
  BY DEF SetRtcpMuxEnabled
<1>3. /\ tr' \in Objects /\ tr'.rtp = tr.rtp /\ tr'.rtcp = tr.rtcp
      /\ tr'.rtpReady = tr.rtpReady /\ tr'.rtcpReady = tr.rtcpReady
      /\ Good(tr', dtls) /\ Follows(tr', dtls) /\ Applied(tr', ids)
      /\ ReadyFormula(tr')
  BY <1>1, <1>2, SetMux
<1>4. Honest(tr', enotconn')
  BY <1>2, <1>3 DEF Honest, IInv
<1>5. QED  BY <1>2, <1>3, <1>4 DEF IInv, TypeOK

\* and the two calls of an answer that activates it.
LEMMA ActivateRtcpMuxIInv ==
    ASSUME IInv, NEW o \in Outcomes, ActivateRtcpMux(o)
    PROVE  IInv'
<1> DEFINE s == SetDtlsTransportsOf(tr, dtls, ids, tr.rtp, None, o)
<1>1. /\ tr \in Objects /\ dtls \in Assoc /\ ids \in NegotiatedIds
      /\ enotconn \subseteq Transports \X BOOLEAN
      /\ Good(tr, dtls) /\ Applied(tr, ids) /\ ReadyFormula(tr)
  BY DEF IInv, TypeOK, Assoc, Honest
<1>2. /\ tr.rtp \in RtpTransports
      /\ tr' = SetRtcpMuxEnabledOf(s, dtls, ids, TRUE, o)
      /\ enotconn' = StillAttached(tr.rtp, None) /\ dtls' = dtls /\ ids' = ids
  BY <1>1 DEF ActivateRtcpMux, Objects
<1>3. /\ s \in Objects /\ s.rtp = tr.rtp /\ s.rtcp = None
      /\ Good(s, dtls) /\ Follows(s, dtls) /\ Applied(s, ids)
      /\ s.rtpReady = tr.rtpReady
  BY <1>1, <1>2, SetTransports
<1> HIDE DEF s
<1>4. /\ tr' \in Objects /\ tr'.rtp = tr.rtp /\ tr'.rtcp = None
      /\ tr'.rtpReady = tr.rtpReady
      /\ Good(tr', dtls) /\ Follows(tr', dtls) /\ Applied(tr', ids)
      /\ ReadyFormula(tr')
  <2> DEFINE e == TRUE
  <2>1. e \in BOOLEAN  OBVIOUS
  <2>2. tr' = SetRtcpMuxEnabledOf(s, dtls, ids, e, o)
    BY <1>2
  <2> HIDE DEF e
  <2>3. QED  BY <1>1, <1>3, <2>1, <2>2, SetMux
<1>5. /\ <<None, TRUE>> \notin enotconn'
      /\ enotconn' \subseteq enotconn
  BY <1>1, <1>2, TransportsAssumption DEF StillAttached
<1>6. Honest(tr', enotconn')
  BY <1>4, <1>5 DEF Honest, IInv
<1>7. TypeOK'
  BY <1>1, <1>2, <1>4, <1>5 DEF TypeOK, Assoc
<1>8. QED  BY <1>2, <1>4, <1>6, <1>7 DEF IInv

\* New extension ids reach the active sessions.
LEMMA UpdateIdsIInv ==
    ASSUME IInv, NEW dir \in {"send", "recv"}, NEW x \in ExtIds,
           NEW o \in Outcomes, UpdateEncryptedHeaderExtensionIds(dir, x, o)
    PROVE  IInv'
<1>1. /\ tr \in Objects /\ dtls \in Assoc /\ ids \in NegotiatedIds
      /\ Good(tr, dtls) /\ Follows(tr, dtls)
  BY DEF IInv, TypeOK, Assoc
<1>2. /\ ids' \in NegotiatedIds /\ dtls' = dtls /\ enotconn' = enotconn
  BY <1>1 DEF UpdateEncryptedHeaderExtensionIds, NegotiatedIds
<1>3. CASE ~DtlsHandshakeCompleted(tr, dtls)
  <2>1. tr' = tr
    BY <1>3 DEF UpdateEncryptedHeaderExtensionIds
  <2>2. RtcpTransports = {} => ~IsSrtpActive(tr)
    <3> SUFFICES ASSUME RtcpTransports = {}, IsSrtpActive(tr) PROVE FALSE
      OBVIOUS
    <3>1. tr.rtcp = None
      BY <1>1 DEF Objects
    <3>2. CanExtract(dtls, tr.rtp)
      BY <1>1 DEF Good
    <3>3. QED  BY <1>3, <3>1, <3>2
               DEF DtlsHandshakeCompleted, IsDtlsActive, IsDtlsConnected,
                   RtcpInUse, CanExtract
  <2>3. Applied(tr', ids')
    BY <2>1, <2>2 DEF Applied
  <2>4. QED  BY <1>2, <2>1, <2>3 DEF IInv, TypeOK
<1>4. CASE DtlsHandshakeCompleted(tr, dtls)
  <2>1. tr' = SetupRtpDtlsSrtp(tr, dtls, ids', o)
    BY <1>4 DEF UpdateEncryptedHeaderExtensionIds
  <2>2. CanExtract(dtls, tr.rtp) /\ tr.rtp \in Transports
    BY <1>1, <1>4 DEF DtlsHandshakeCompleted, IsDtlsConnected, CanExtract,
                      Objects, Transports
  <2>3. /\ tr' \in Objects /\ Same(tr', tr)
        /\ o.rtp => /\ tr'.send = Session(SendKey(dtls, tr.rtp), OrEmpty(ids'.send))
                    /\ tr'.recv = Session(RecvKey(dtls, tr.rtp), OrEmpty(ids'.recv))
        /\ ~o.rtp => tr'.send = None /\ tr'.recv = None /\ ~tr'.writable
    BY <1>1, <1>2, <2>1, <2>2, SetupRtp
  <2>4. o.rtp \in BOOLEAN /\ (~LibsrtpMayFail => o.rtp)
    BY ParametersAssumption DEF Outcomes
  <2>5. Honest(tr', enotconn') /\ TypeOK'
    BY <1>1, <1>2, <2>3 DEF Honest, IInv, TypeOK, Same, ReadyFormula, Assoc
  <2>6. CASE o.rtp
    <3>1. tr'.send \in Sessions /\ tr'.recv \in Sessions
      BY <1>1, <1>2, <2>2, <2>3, <2>6, KeyType, ParametersAssumption
         DEF Session, Sessions, OrEmpty, NegotiatedIds
    <3>2. IsSrtpActive(tr')
      BY <3>1, SessionsAssumption DEF IsSrtpActive
    <3>3. /\ tr'.send.key = SendKey(dtls, tr.rtp) /\ tr'.send.ids = OrEmpty(ids'.send)
          /\ tr'.recv.key = RecvKey(dtls, tr.rtp) /\ tr'.recv.ids = OrEmpty(ids'.recv)
      BY <2>3, <2>6 DEF Session
    <3>4. Good(tr', dtls) /\ Follows(tr', dtls) /\ Applied(tr', ids')
      BY <2>2, <2>3, <3>2, <3>3 DEF Good, Follows, Applied, Same, IsSrtpActive
    <3>5. QED  BY <1>2, <2>5, <3>4 DEF IInv
  <2>7. CASE ~o.rtp
    <3>1. tr'.send = None /\ tr'.recv = None /\ ~tr'.writable /\ LibsrtpMayFail
      BY <2>3, <2>4, <2>7
    <3>2. Good(tr', dtls) /\ Follows(tr', dtls) /\ Applied(tr', ids')
      BY <3>1 DEF Good, Follows, Applied, IsSrtpActive
    <3>3. QED  BY <1>2, <2>5, <3>2 DEF IInv
  <2>8. QED  BY <2>4, <2>6, <2>7
<1>5. QED  BY <1>3, <1>4
\* Sending touches the ready flags only; ENOTCONN clears the flag of its kind.
LEMMA SendIInv ==
    ASSUME IInv, NEW rtcp \in BOOLEAN,
           NEW outcome \in {"sent", "enotconn", "error"}, Send(rtcp, outcome)
    PROVE  IInv'
<1> DEFINE p == <<ChannelOf(tr, rtcp), rtcp>>
<1>1. /\ tr \in Objects /\ dtls \in Assoc
      /\ Good(tr, dtls) /\ Follows(tr, dtls) /\ Applied(tr, ids)
      /\ tr.rtp \in RtpTransports \cup {None} /\ tr.rtcp \in RtcpTransports \cup {None}
      /\ enotconn \subseteq Transports \X BOOLEAN
      /\ Honest(tr, enotconn)
  BY DEF IInv, TypeOK, Assoc, Objects
<1>2. /\ tr' = SendPacket(tr, rtcp, outcome) /\ dtls' = dtls /\ ids' = ids
      /\ ChannelOf(tr, rtcp) # None
      /\ enotconn' = IF outcome = "enotconn" THEN enotconn \cup {p} ELSE enotconn \ {p}
  BY DEF Send
<1>3. p \in Transports \X BOOLEAN
  BY <1>1, <1>2 DEF ChannelOf, Transports
<1>4. enotconn' \subseteq Transports \X BOOLEAN
  BY <1>1, <1>2, <1>3
<1>5. CASE outcome # "enotconn"
  <2>1. tr' = tr /\ enotconn' \subseteq enotconn
    BY <1>2, <1>5 DEF SendPacket
  <2>2. QED  BY <1>1, <1>2, <1>4, <2>1 DEF IInv, TypeOK, Honest
<1>6. CASE outcome = "enotconn" /\ rtcp
  <2>1. tr' = SetReadyToSend(tr, TRUE, FALSE)
    BY <1>2, <1>6 DEF SendPacket, SetReadyToSend
  <2> DEFINE no == FALSE
  <2>2. tr' = SetReadyToSend(tr, TRUE, no) /\ no \in BOOLEAN
    BY <2>1
  <2> HIDE DEF no
  <2>3. /\ tr' \in Objects /\ ReadyFormula(tr')
        /\ tr'.mux = tr.mux /\ tr'.rtp = tr.rtp /\ tr'.rtcp = tr.rtcp
        /\ tr'.send = tr.send /\ tr'.recv = tr.recv /\ tr'.writable = tr.writable
        /\ tr'.rtcpReady = no /\ tr'.rtpReady = tr.rtpReady
    BY <1>1, <2>2, RtcpReadyType
  <2>4. ~tr'.rtcpReady
    BY <2>3 DEF no
  <2>5. <<tr.rtp, FALSE>> # p
    BY <1>6
  <2>6. Honest(tr', enotconn')
    BY <1>1, <1>2, <1>6, <2>3, <2>4, <2>5 DEF Honest
  <2>7. QED  BY <1>1, <1>2, <1>4, <2>3, <2>6
             DEF IInv, TypeOK, Good, Follows, Applied, IsSrtpActive,
                 IsDtlsWritable, RtcpInUse
<1>7. CASE outcome = "enotconn" /\ ~rtcp
  <2>1. tr' = SetReadyToSend(tr, FALSE, FALSE)
    BY <1>2, <1>7 DEF SendPacket, SetReadyToSend
  <2> DEFINE no == FALSE
  <2>2. tr' = SetReadyToSend(tr, FALSE, no) /\ no \in BOOLEAN
    BY <2>1
  <2> HIDE DEF no
  <2>3. /\ tr' \in Objects /\ ReadyFormula(tr')
        /\ tr'.mux = tr.mux /\ tr'.rtp = tr.rtp /\ tr'.rtcp = tr.rtcp
        /\ tr'.send = tr.send /\ tr'.recv = tr.recv /\ tr'.writable = tr.writable
        /\ tr'.rtpReady = no /\ tr'.rtcpReady = tr.rtcpReady
    BY <1>1, <2>2, RtpReadyType
  <2>4. ~tr'.rtpReady
    BY <2>3 DEF no
  <2>5. <<tr.rtcp, TRUE>> # p
    BY <1>7
  <2>6. Honest(tr', enotconn')
    BY <1>1, <1>2, <1>7, <2>3, <2>4, <2>5 DEF Honest
  <2>7. QED  BY <1>1, <1>2, <1>4, <2>3, <2>6
             DEF IInv, TypeOK, Good, Follows, Applied, IsSrtpActive,
                 IsDtlsWritable, RtcpInUse
<1>8. QED  BY <1>5, <1>6, <1>7

\* The socket of an attached transport becomes ready again.
LEMMA ReadyToSendIInv ==
    ASSUME IInv, NEW t \in Transports, ReadyToSend(t)
    PROVE  IInv'
<1>1. /\ tr \in Objects /\ dtls \in Assoc
      /\ Good(tr, dtls) /\ Follows(tr, dtls) /\ Applied(tr, ids)
      /\ tr.rtp \in RtpTransports \cup {None} /\ tr.rtcp \in RtcpTransports \cup {None}
      /\ enotconn \subseteq Transports \X BOOLEAN
      /\ Honest(tr, enotconn)
  BY DEF IInv, TypeOK, Assoc, Objects
<1>2. /\ tr' = OnReadyToSend(tr, t) /\ dtls' = dtls /\ ids' = ids
      /\ t = tr.rtp \/ t = tr.rtcp
      /\ enotconn' = {q \in enotconn : q[1] # t}
  BY DEF ReadyToSend, Attached
<1>3. enotconn' \subseteq enotconn /\ \A f \in BOOLEAN : <<t, f>> \notin enotconn'
  BY <1>2
<1> DEFINE yes == TRUE
<1>4. yes \in BOOLEAN  OBVIOUS
<1>5. CASE t = tr.rtcp
  <2>1. tr' = SetReadyToSend(tr, TRUE, yes)
    BY <1>2, <1>5 DEF OnReadyToSend, SetReadyToSend
  <2> HIDE DEF yes
  <2>2. /\ tr' \in Objects /\ ReadyFormula(tr')
        /\ tr'.mux = tr.mux /\ tr'.rtp = tr.rtp /\ tr'.rtcp = tr.rtcp
        /\ tr'.send = tr.send /\ tr'.recv = tr.recv /\ tr'.writable = tr.writable
        /\ tr'.rtpReady = tr.rtpReady
    BY <1>1, <1>4, <2>1, RtcpReadyType
  <2>3. Honest(tr', enotconn')
    BY <1>1, <1>3, <1>5, <2>2 DEF Honest
  <2>4. QED  BY <1>1, <1>2, <1>3, <2>2, <2>3
             DEF IInv, TypeOK, Good, Follows, Applied, IsSrtpActive,
                 IsDtlsWritable, RtcpInUse
<1>6. CASE t = tr.rtp /\ t # tr.rtcp
  <2>1. tr' = SetReadyToSend(tr, FALSE, yes)
    BY <1>2, <1>6 DEF OnReadyToSend, SetReadyToSend
  <2> HIDE DEF yes
  <2>2. /\ tr' \in Objects /\ ReadyFormula(tr')
        /\ tr'.mux = tr.mux /\ tr'.rtp = tr.rtp /\ tr'.rtcp = tr.rtcp
        /\ tr'.send = tr.send /\ tr'.recv = tr.recv /\ tr'.writable = tr.writable
        /\ tr'.rtcpReady = tr.rtcpReady
    BY <1>1, <1>4, <2>1, RtpReadyType
  <2>3. Honest(tr', enotconn')
    BY <1>1, <1>3, <1>6, <2>2 DEF Honest
  <2>4. QED  BY <1>1, <1>2, <1>3, <2>2, <2>3
             DEF IInv, TypeOK, Good, Follows, Applied, IsSrtpActive,
                 IsDtlsWritable, RtcpInUse
<1>7. QED  BY <1>2, <1>5, <1>6
\* Good and Follows look at the attached transports only.
LEMMA SameAttached ==
    ASSUME NEW s \in Objects, NEW d \in Assoc, NEW f \in Assoc,
           s.rtp # None => f[s.rtp] = d[s.rtp],
           s.rtcp # None => f[s.rtcp] = d[s.rtcp]
    PROVE  (Good(s, d) => Good(s, f)) /\ (Follows(s, d) => Follows(s, f))
BY DEF Good, Follows, CanExtract, SendKey, RecvKey, IsDtlsWritable, RtcpInUse

\* Turning DTLS on makes no association and calls nobody back.
LEMMA SetLocalCertificateIInv ==
    ASSUME IInv, NEW t \in Transports, SetLocalCertificate(t)
    PROVE  IInv'
<1>1. /\ tr \in Objects /\ dtls \in Assoc
      /\ Good(tr, dtls) /\ Follows(tr, dtls)
  BY DEF IInv, TypeOK, Assoc
<1>2. /\ dtls[t].state = "inactive" /\ dtls' = [dtls EXCEPT ![t].state = "new"]
      /\ tr' = tr /\ ids' = ids /\ enotconn' = enotconn
  BY DEF SetLocalCertificate
<1>3. dtls' \in Assoc
  BY <1>1, <1>2 DEF Assoc, Dtls, DtlsStates
<1>4. \A u \in Transports :
          /\ dtls'[u].state = "connected" <=> dtls[u].state = "connected"
          /\ dtls'[u].writable = dtls[u].writable
          /\ dtls'[u].epoch = dtls[u].epoch /\ dtls'[u].role = dtls[u].role
  BY <1>1, <1>2 DEF Assoc, Dtls
<1>5. tr.rtp \in Transports \cup {None} /\ tr.rtcp \in Transports \cup {None}
  BY <1>1 DEF Objects, Transports
<1>6. Good(tr, dtls') /\ Follows(tr, dtls')
  BY <1>1, <1>4, <1>5 DEF Good, Follows, CanExtract, SendKey, RecvKey, Key,
                          IsDtlsWritable, RtcpInUse
<1>7. QED  BY <1>2, <1>3, <1>6 DEF IInv, TypeOK, Assoc

\* A change of DTLS state: a lost association takes the sessions with it.
LEMMA SetDtlsStateIInv ==
    ASSUME IInv, NEW t \in Transports, NEW to \in DtlsStates, NEW role \in Roles,
           NEW o \in Outcomes, SetDtlsState(t, to, role, o)
    PROVE  IInv'
<1>1. /\ tr \in Objects /\ dtls \in Assoc /\ ids \in NegotiatedIds
      /\ Good(tr, dtls) /\ Follows(tr, dtls) /\ Applied(tr, ids)
      /\ Honest(tr, enotconn)
  BY DEF IInv, TypeOK, Assoc
<1>2. /\ <<dtls[t].state, to>> \in DtlsSteps
      /\ tr' = IF Attached(t) THEN OnDtlsState(tr, dtls', ids, t, o) ELSE tr
      /\ ids' = ids /\ enotconn' = enotconn
  BY DEF SetDtlsState
<1>3. /\ dtls' \in Assoc /\ dtls'[t].state = to
      /\ \A u \in Transports : u # t => dtls'[u] = dtls[u]
  BY <1>1 DEF SetDtlsState, Assoc, Dtls
<1>4. tr.rtp \in RtpTransports \cup {None} /\ tr.rtcp \in RtcpTransports \cup {None}
  BY <1>1 DEF Objects
<1>5. CASE ~Attached(t)
  <2>1. tr' = tr /\ t # tr.rtp /\ t # tr.rtcp
    BY <1>2, <1>5 DEF Attached
  <2>2. Good(tr, dtls') /\ Follows(tr, dtls')
    BY <1>1, <1>3, <1>4, <2>1, SameAttached DEF Transports
  <2>3. QED  BY <1>2, <1>3, <2>1, <2>2 DEF IInv, TypeOK, Assoc
<1>6. CASE Attached(t) /\ to # "connected"
  <2>1. tr' = ResetParams(tr, Writable(dtls'))
    BY <1>2, <1>3, <1>6 DEF OnDtlsState
  <2>2. /\ tr' \in Objects /\ Same(tr', tr)
        /\ tr'.send = None /\ tr'.recv = None /\ ~tr'.writable
    BY <1>1, <1>3, <2>1, ResetType
  <2>3. Good(tr', dtls') /\ Applied(tr', ids)
    BY <2>2 DEF Good, Applied, IsSrtpActive
  <2>4. Follows(tr', dtls')
    BY <1>3, <1>6, <2>2, TransportsAssumption DEF Attached, Follows, CanExtract, Same
  <2>5. Honest(tr', enotconn)
    BY <1>1, <2>2 DEF Honest, Same, ReadyFormula
  <2>6. QED  BY <1>2, <1>3, <2>2, <2>3, <2>4, <2>5 DEF IInv, TypeOK, Assoc
<1>7. CASE Attached(t) /\ to = "connected"
  <2>1. tr' = MaybeSetupDtlsSrtp(tr, dtls', ids, o)
    BY <1>2, <1>3, <1>7 DEF OnDtlsState
  <2>2. dtls[t].state # "connected"
    BY <1>2, <1>7 DEF DtlsSteps
  <2>3. Good(tr, dtls')
    <3>1. CASE t = tr.rtp
      <4>1. ~IsSrtpActive(tr)
        BY <1>1, <2>2, <3>1 DEF Good, CanExtract
      <4>2. QED  BY <1>1, <4>1 DEF Good
    <3>2. CASE t # tr.rtp
      <4>1. tr.rtp # None => dtls'[tr.rtp] = dtls[tr.rtp]
        BY <1>3, <1>4, <3>2 DEF Transports
      <4>2. QED  BY <1>1, <4>1 DEF Good, CanExtract, SendKey, RecvKey
    <3>3. QED  BY <3>1, <3>2
  <2>4. /\ tr' \in Objects /\ Same(tr', tr) /\ Good(tr', dtls')
        /\ Follows(tr', dtls') /\ Applied(tr', ids)
    BY <1>1, <1>3, <2>1, <2>3, MaybeSetup
  <2>5. Honest(tr', enotconn)
    BY <1>1, <2>4 DEF Honest, Same, ReadyFormula
  <2>6. QED  BY <1>2, <1>3, <2>4, <2>5 DEF IInv, TypeOK, Assoc
<1>8. QED  BY <1>5, <1>6, <1>7

\* A change of writability never touches installed keys.
LEMMA SetWritableIInv ==
    ASSUME IInv, NEW t \in Transports, NEW o \in Outcomes, SetWritable(t, o)
    PROVE  IInv'
<1>1. /\ tr \in Objects /\ dtls \in Assoc /\ ids \in NegotiatedIds
      /\ Good(tr, dtls) /\ Follows(tr, dtls) /\ Applied(tr, ids)
      /\ Honest(tr, enotconn)
  BY DEF IInv, TypeOK, Assoc
<1>2. /\ tr' = IF Attached(t) THEN OnWritableState(tr, dtls', ids, o) ELSE tr
      /\ ids' = ids /\ enotconn' = enotconn
  BY DEF SetWritable
<1>3. /\ dtls' \in Assoc
      /\ \A u \in Transports : u # t => dtls'[u] = dtls[u]
      /\ dtls'[t].state = dtls[t].state /\ dtls'[t].epoch = dtls[t].epoch
      /\ dtls'[t].role = dtls[t].role
  BY <1>1 DEF SetWritable, Assoc, Dtls
<1>4. tr.rtp \in RtpTransports \cup {None} /\ tr.rtcp \in RtcpTransports \cup {None}
  BY <1>1 DEF Objects
<1>5. CASE ~Attached(t)
  <2>1. tr' = tr /\ t # tr.rtp /\ t # tr.rtcp
    BY <1>2, <1>5 DEF Attached
  <2>2. Good(tr, dtls') /\ Follows(tr, dtls')
    BY <1>1, <1>3, <1>4, <2>1, SameAttached DEF Transports
  <2>3. QED  BY <1>2, <1>3, <2>1, <2>2 DEF IInv, TypeOK, Assoc
<1>6. CASE Attached(t)
  <2>1. tr' = MaybeSetupDtlsSrtp(tr, dtls', ids, o)
    BY <1>2, <1>6 DEF OnWritableState
  <2>2. \A u \in Transports :
            /\ dtls'[u].state = dtls[u].state /\ dtls'[u].epoch = dtls[u].epoch
            /\ dtls'[u].role = dtls[u].role
    BY <1>3
  <2>3. Good(tr, dtls')
    BY <1>1, <1>4, <2>2 DEF Good, CanExtract, SendKey, RecvKey, Transports
  <2>4. /\ tr' \in Objects /\ Same(tr', tr) /\ Good(tr', dtls')
        /\ Follows(tr', dtls') /\ Applied(tr', ids)
    BY <1>1, <1>3, <2>1, <2>3, MaybeSetup
  <2>5. Honest(tr', enotconn)
    BY <1>1, <2>4 DEF Honest, Same, ReadyFormula
  <2>6. QED  BY <1>2, <1>3, <2>4, <2>5 DEF IInv, TypeOK, Assoc
<1>7. QED  BY <1>5, <1>6

\* Every step of the specification keeps the invariant.
LEMMA NextIInv == IInv /\ [Next]_vars => IInv'
<1> SUFFICES ASSUME IInv, [Next]_vars PROVE IInv'  OBVIOUS
<1>1. CASE UNCHANGED vars
  BY <1>1 DEF vars, IInv, TypeOK
<1>2. CASE Calls
  BY <1>2, SetDtlsTransportsIInv, SetRtcpMuxEnabledIInv, ActivateRtcpMuxIInv,
     UpdateIdsIInv DEF Calls
<1>3. CASE Packets
  BY <1>3, SendIInv DEF Packets
<1>4. CASE Environment
  BY <1>4, SetLocalCertificateIInv, SetDtlsStateIInv, SetWritableIInv,
     ReadyToSendIInv DEF Environment
<1>5. QED  BY <1>1, <1>2, <1>3, <1>4 DEF Next

\* The invariant holds in every reachable state.
LEMMA Inductive == Spec => []IInv
BY InitIInv, NextIInv, PTL DEF Spec

-----------------------------------------------------------------------------
(* The theorems *)

\* Type correctness: every existing RTP session holds a key.
THEOREM TypeCorrect == Spec => []TypeOK
<1>1. IInv => TypeOK  BY DEF IInv
<1>2. QED  BY <1>1, Inductive, PTL

\* No call, callback or re-handshake order leaves SRTP active with keys that are
\* not those of the association its RTP DTLS transport has now.
THEOREM KeysStayCurrent == Spec => []KeysAreCurrent
<1>1. IInv => KeysAreCurrent  BY DEF IInv, Good, KeysAreCurrent
<1>2. QED  BY <1>1, Inductive, PTL

\* The transport is reported writable only over a finished handshake.
THEOREM WritableOverHandshake == Spec => []WritableNeedsHandshake
<1>1. IInv => WritableNeedsHandshake  BY DEF IInv, Good, WritableNeedsHandshake
<1>2. QED  BY <1>1, Inductive, PTL

\* Ready to send is reported only while no send of the two kinds is known to
\* have failed on its own channel.
THEOREM ReadyStaysHonest == Spec => []ReadyIsHonest
<1>1. IInv => ReadyIsHonest  BY DEF IInv, Honest, ReadyFormula, ReadyIsHonest
<1>2. QED  BY <1>1, Inductive, PTL

\* Unless libsrtp fails, finished handshakes on writable transports never leave
\* SRTP down.
THEOREM SrtpComesUp == Spec => []SrtpFollowsDtls
<1>1. IInv => SrtpFollowsDtls
  BY DEF IInv, Follows, SrtpFollowsDtls, DtlsHandshakeCompleted, IsDtlsConnected,
         CanExtract, RtcpInUse
<1>2. QED  BY <1>1, Inductive, PTL

\* Without RTCP transports the sessions always encrypt the ids negotiated last.
THEOREM IdsReachSessions == Spec => []IdsAreApplied
<1>1. IInv => IdsAreApplied  BY DEF IInv, Applied, IdsAreApplied
<1>2. QED  BY <1>1, Inductive, PTL
=============================================================================
