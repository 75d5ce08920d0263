------------------------- MODULE VideoChannelProofs -------------------------
(***************************************************************************)
(* A WebRtcVideoChannel, for every set of descriptions, codecs and         *)
(* streams.  Five invariants, each inductive by itself: the streams hold   *)
(* what the channel holds, reports go out under a live SSRC, the cap of    *)
(* the bandwidth follows the description, the codec in use is a negotiated *)
(* one, and the codecs to receive with are those of the last description.  *)
(***************************************************************************)
EXTENDS VideoChannel, SequentialParts, FiniteSetTheorems, TLAPS

Fields == {"ssrcs", "primary", "rtx", "rtxType", "codec", "max", "conference",
           "screencast", "encodingCap", "source", "extensions", "mid", "reduced",
           "mixed", "config"}

\* A stream that has a codec has an encoder configuration of its content and
\* mode, and the codec's payload type for RTX.
GoodStream(stream) ==
    /\ DOMAIN stream = Fields
    /\ stream.codec # None =>
           /\ stream.config.screen = stream.screencast
           /\ stream.config.conference = stream.conference
    /\ stream.codec # None /\ stream.rtx # <<>> =>
           stream.codec.rtx # -1 /\ stream.rtxType = stream.codec.rtx

\* Every stream is known by one of its own SSRCs.
StreamsAreGood ==
    \A s \in DOMAIN sendStreams :
        GoodStream(sendStreams[s]) /\ s \in sendStreams[s].ssrcs

\* The inductive invariant of the streams.
IInv ==
    /\ StreamsAreGood
    /\ SsrcsAreOfStreams
    /\ StreamsFollowChannel
    /\ KeptSwitchIsPending

-----------------------------------------------------------------------------
(* The properties by SSRCs *)

\* send_ssrcs_ is exact if it holds what some stream has and nothing else.
Exact(ssrcs, streams) ==
    /\ \A x : x \in ssrcs <=> \E s \in DOMAIN streams : x \in streams[s].ssrcs
    /\ \A s, t \in DOMAIN streams : s # t => streams[s].ssrcs \cap streams[t].ssrcs = {}

\* The two ways to say so agree.
LEMMA ExactSsrcs ==
    /\ SsrcsAreOfStreams <=> Exact(sendSsrcs, sendStreams)
    /\ SsrcsAreOfStreams' <=> Exact(sendSsrcs', sendStreams')
<1>1. ASSUME NEW ssrcs, NEW streams
      PROVE  ssrcs = UNION {stream.ssrcs : stream \in {streams[s] : s \in DOMAIN streams}}
                 <=> \A x : x \in ssrcs <=> \E s \in DOMAIN streams : x \in streams[s].ssrcs
  OBVIOUS
<1>2. SsrcsAreOfStreams <=> Exact(sendSsrcs, sendStreams)
  BY <1>1 DEF SsrcsAreOfStreams, Exact, Streams
<1>3. SsrcsAreOfStreams' <=> Exact(sendSsrcs', sendStreams')
  BY <1>1 DEF SsrcsAreOfStreams, Exact, Streams
<1> QED BY <1>2, <1>3

\* What a stream takes over from the channel.
Follows(stream, codec, extensions, params, mixed) ==
    /\ stream.codec = codec
    /\ stream.extensions = (IF extensions = None THEN <<>> ELSE extensions)
    /\ stream.mid = params.mid /\ stream.mixed = mixed
    /\ stream.conference = params.conference
    /\ stream.reduced = params.reduced

\* The same for all streams.
LEMMA FollowingStreams ==
    /\ StreamsFollowChannel <=>
           \A s \in DOMAIN sendStreams :
               Follows(sendStreams[s], sendCodec, sendExtensions, sendParams, extmapMixed)
    /\ StreamsFollowChannel' <=>
           \A s \in DOMAIN sendStreams' :
               Follows(sendStreams'[s], sendCodec', sendExtensions', sendParams', extmapMixed')
BY DEF StreamsFollowChannel, Follows, Streams

-----------------------------------------------------------------------------
(* What the operators do to a stream *)

\* SetCodec makes any stream good and leaves alone what it takes over from
\* the channel otherwise.
LEMMA SetCodecIsGood ==
    ASSUME NEW stream, DOMAIN stream = Fields, NEW settings
    PROVE  LET r == StreamSetCodec(stream, settings)
           IN  /\ GoodStream(r) /\ r.codec = settings /\ r.ssrcs = stream.ssrcs
               /\ r.extensions = stream.extensions /\ r.mid = stream.mid
               /\ r.mixed = stream.mixed /\ r.conference = stream.conference
               /\ r.reduced = stream.reduced
BY DEF StreamSetCodec, GoodStream, CreateVideoEncoderConfig, Fields

\* SetSendParameters takes over what has changed.
LEMMA SetParametersIsGood ==
    ASSUME NEW stream, GoodStream(stream), NEW changed
    PROVE  LET r == StreamSetSendParameters(stream, changed)
           IN  /\ GoodStream(r) /\ r.ssrcs = stream.ssrcs
               /\ r.codec = Set(stream.codec, changed.codec)
               /\ r.extensions = Set(stream.extensions, changed.extensions)
               /\ r.mid = Set(stream.mid, changed.mid)
               /\ r.mixed = Set(stream.mixed, changed.mixed)
               /\ r.conference = Set(stream.conference, changed.conference)
               /\ r.reduced = Set(stream.reduced, changed.reduced)
<1> DEFINE noted == [stream EXCEPT !.reduced = Set(stream.reduced, changed.reduced),
                                   !.mixed = Set(stream.mixed, changed.mixed),
                                   !.extensions = Set(stream.extensions, changed.extensions),
                                   !.mid = Set(stream.mid, changed.mid),
                                   !.max = Set(stream.max, changed.max),
                                   !.conference = Set(stream.conference, changed.conference)]
           r == StreamSetSendParameters(stream, changed)
<1>1. /\ DOMAIN noted = Fields /\ noted.ssrcs = stream.ssrcs /\ noted.codec = stream.codec
      /\ noted.extensions = Set(stream.extensions, changed.extensions)
      /\ noted.mid = Set(stream.mid, changed.mid)
      /\ noted.mixed = Set(stream.mixed, changed.mixed)
      /\ noted.conference = Set(stream.conference, changed.conference)
      /\ noted.reduced = Set(stream.reduced, changed.reduced)
      /\ noted.config = stream.config /\ noted.screencast = stream.screencast
      /\ noted.rtx = stream.rtx /\ noted.rtxType = stream.rtxType
  BY DEF GoodStream, Fields
<1>2. r = IF ~SetsCodec(stream, changed) THEN noted
          ELSE StreamSetCodec(noted, Set(stream.codec, changed.codec))
  BY DEF StreamSetSendParameters, GoodStream, Fields
<1> HIDE DEF noted, r
<1>3. CASE ~SetsCodec(stream, changed)
  <2>1. r = noted /\ changed.codec = None /\ (stream.codec # None => changed.conference = None)
    BY <1>2, <1>3 DEF SetsCodec
  <2>2. GoodStream(noted)
    BY <1>1, <2>1 DEF GoodStream, Set
  <2> QED BY <1>1, <2>1, <2>2 DEF r, Set
<1>4. CASE SetsCodec(stream, changed)
  <2>1. r = StreamSetCodec(noted, Set(stream.codec, changed.codec))
    BY <1>2, <1>4
  <2> DEFINE settings == Set(stream.codec, changed.codec)
             q == StreamSetCodec(noted, settings)
  <2>2. /\ GoodStream(q) /\ q.codec = settings /\ q.ssrcs = noted.ssrcs
        /\ q.extensions = noted.extensions /\ q.mid = noted.mid
        /\ q.mixed = noted.mixed /\ q.conference = noted.conference
        /\ q.reduced = noted.reduced
    <3> HIDE DEF settings
    <3> QED BY <1>1, SetCodecIsGood, Zenon
  <2>3. r = q
    BY <2>1
  <2> HIDE DEF q
  <2> QED BY <1>1, <2>2, <2>3 DEF r
<1> QED BY <1>3, <1>4

\* A new stream is good and has what the channel has.
LEMMA NewStreamIsGood ==
    ASSUME NEW sp
    PROVE  LET r == NewStream(sp)
           IN  /\ GoodStream(r) /\ r.ssrcs = ToSet(sp.ssrcs)
               /\ Follows(r, sendCodec, sendExtensions, sendParams, extmapMixed)
<1> DEFINE stream == [ssrcs |-> ToSet(sp.ssrcs), primary |-> sp.primary,
                   rtx |-> IF DOMAIN sp.rtx = {} THEN <<>>
                           ELSE [i \in DOMAIN sp.primary |-> sp.rtx[sp.primary[i]]],
                   rtxType |-> -1, codec |-> None, max |-> bitrate.max,
                   conference |-> sendParams.conference, screencast |-> FALSE,
                   encodingCap |-> 0, source |-> FALSE,
                   extensions |-> IF sendExtensions = None THEN <<>> ELSE sendExtensions,
                   mid |-> sendParams.mid, reduced |-> sendParams.reduced,
                   mixed |-> extmapMixed, config |-> None]
           q == StreamSetCodec(stream, sendCodec)
<1>1. /\ DOMAIN stream = Fields /\ stream.ssrcs = ToSet(sp.ssrcs) /\ stream.codec = None
      /\ stream.extensions = (IF sendExtensions = None THEN <<>> ELSE sendExtensions)
      /\ stream.mid = sendParams.mid /\ stream.mixed = extmapMixed
      /\ stream.conference = sendParams.conference /\ stream.reduced = sendParams.reduced
  BY DEF Fields
<1>2. NewStream(sp) = IF sendCodec = None THEN stream ELSE q
  BY DEF NewStream
<1> HIDE DEF stream
<1>3. /\ GoodStream(q) /\ q.codec = sendCodec /\ q.ssrcs = stream.ssrcs
      /\ q.extensions = stream.extensions /\ q.mid = stream.mid
      /\ q.mixed = stream.mixed /\ q.conference = stream.conference
      /\ q.reduced = stream.reduced
  BY <1>1, SetCodecIsGood, Zenon
<1> HIDE DEF q
<1>4. CASE sendCodec = None
  BY <1>1, <1>2, <1>4 DEF GoodStream, Follows
<1>5. CASE sendCodec # None
  BY <1>1, <1>2, <1>3, <1>5 DEF Follows
<1> QED BY <1>4, <1>5

WithOptions(stream, screencast, source) ==
    [StreamSetOptions(stream, screencast) EXCEPT !.source = source]

\* SetOptions leaves alone what a stream has from the channel.
LEMMA SetOptionsIsGood ==
    ASSUME NEW stream, GoodStream(stream), NEW screencast, NEW source
    PROVE  LET r == WithOptions(stream, screencast, source)
           IN  /\ GoodStream(r) /\ r.codec = stream.codec /\ r.ssrcs = stream.ssrcs
               /\ r.extensions = stream.extensions /\ r.mid = stream.mid
               /\ r.mixed = stream.mixed /\ r.conference = stream.conference
               /\ r.reduced = stream.reduced
<1> DEFINE noted == [stream EXCEPT !.screencast = screencast]
           q == StreamSetCodec(noted, stream.codec)
           o == StreamSetOptions(stream, screencast)
<1>1. /\ DOMAIN noted = Fields /\ noted.ssrcs = stream.ssrcs /\ noted.codec = stream.codec
      /\ noted.extensions = stream.extensions /\ noted.mid = stream.mid
      /\ noted.mixed = stream.mixed /\ noted.conference = stream.conference
      /\ noted.reduced = stream.reduced /\ noted.config = stream.config
      /\ noted.screencast = screencast /\ noted.rtx = stream.rtx
      /\ noted.rtxType = stream.rtxType
  BY DEF GoodStream, Fields
<1>2. o = IF stream.codec = None \/ screencast = stream.screencast THEN noted ELSE q
  BY DEF StreamSetOptions
<1> HIDE DEF noted
<1>3. /\ GoodStream(q) /\ q.codec = stream.codec /\ q.ssrcs = noted.ssrcs
      /\ q.extensions = noted.extensions /\ q.mid = noted.mid
      /\ q.mixed = noted.mixed /\ q.conference = noted.conference
      /\ q.reduced = noted.reduced
  BY <1>1, SetCodecIsGood, Zenon
<1>4. stream.codec = None \/ screencast = stream.screencast => GoodStream(noted)
  BY <1>1 DEF GoodStream
<1> HIDE DEF q, o
<1>5. /\ GoodStream(o) /\ o.codec = stream.codec /\ o.ssrcs = stream.ssrcs
      /\ o.extensions = stream.extensions /\ o.mid = stream.mid
      /\ o.mixed = stream.mixed /\ o.conference = stream.conference
      /\ o.reduced = stream.reduced
  BY <1>1, <1>2, <1>3, <1>4
<1>6. LET r == [o EXCEPT !.source = source]
      IN  /\ GoodStream(r) /\ r.codec = stream.codec /\ r.ssrcs = stream.ssrcs
          /\ r.extensions = stream.extensions /\ r.mid = stream.mid
          /\ r.mixed = stream.mixed /\ r.conference = stream.conference
          /\ r.reduced = stream.reduced
  BY <1>5 DEF GoodStream, Fields
<1> QED BY <1>6 DEF o, WithOptions

-----------------------------------------------------------------------------
(* Steps *)

\* It holds initially, and after a crash, when there is no stream any more.
LEMMA InitIInv == Init => IInv
<1> SUFFICES ASSUME Init PROVE IInv
  OBVIOUS
<1>1. DOMAIN sendStreams = {} /\ sendSsrcs = {} /\ requested = None
  BY DEF Init
<1>2. Exact(sendSsrcs, sendStreams)
  BY <1>1 DEF Exact
<1> QED BY <1>1, <1>2, ExactSsrcs, FollowingStreams
       DEF IInv, StreamsAreGood, KeptSwitchIsPending

\* A crash leaves nothing behind.
LEMMA CrashIInv == ASSUME NEW reason, Crash(reason) PROVE IInv'
<1>1. DOMAIN sendStreams' = {} /\ sendSsrcs' = {} /\ requested' = None
  BY DEF Crash
<1>2. Exact(sendSsrcs', sendStreams')
  BY <1>1 DEF Exact
<1> QED BY <1>1, <1>2, ExactSsrcs, FollowingStreams
       DEF IInv, StreamsAreGood, KeptSwitchIsPending

\* ApplyChangedParams, where the channel's own parameters are those that
\* the changes lead to.
LEMMA ApplyKeeps ==
    ASSUME IInv, NEW params, NEW changed, ApplyChangedParams(params, changed),
           sendParams'.mid = Set(sendParams.mid, changed.mid),
           sendParams'.conference = Set(sendParams.conference, changed.conference),
           sendParams'.reduced = Set(sendParams.reduced, changed.reduced)
    PROVE  StreamsAreGood' /\ SsrcsAreOfStreams' /\ StreamsFollowChannel'
<1>1. /\ sendStreams' = [s \in DOMAIN sendStreams |->
                            StreamSetSendParameters(sendStreams[s], changed)]
      /\ sendCodec' = Set(sendCodec, changed.codec)
      /\ extmapMixed' = Set(extmapMixed, changed.mixed)
      /\ sendExtensions' = Set(sendExtensions, changed.extensions)
      /\ sendSsrcs' = sendSsrcs
  BY DEF ApplyChangedParams
<1>2. ASSUME NEW s \in DOMAIN sendStreams
      PROVE  /\ GoodStream(sendStreams'[s]) /\ s \in sendStreams'[s].ssrcs
             /\ sendStreams'[s].ssrcs = sendStreams[s].ssrcs
             /\ Follows(sendStreams'[s], sendCodec', sendExtensions', sendParams', extmapMixed')
  <2> DEFINE stream == sendStreams[s]
             r == StreamSetSendParameters(stream, changed)
  <2>1. /\ GoodStream(stream) /\ s \in stream.ssrcs
        /\ Follows(stream, sendCodec, sendExtensions, sendParams, extmapMixed)
    BY FollowingStreams DEF IInv, StreamsAreGood
  <2> HIDE DEF stream
  <2>2. /\ GoodStream(r) /\ r.ssrcs = stream.ssrcs
        /\ r.codec = Set(stream.codec, changed.codec)
        /\ r.extensions = Set(stream.extensions, changed.extensions)
        /\ r.mid = Set(stream.mid, changed.mid)
        /\ r.mixed = Set(stream.mixed, changed.mixed)
        /\ r.conference = Set(stream.conference, changed.conference)
        /\ r.reduced = Set(stream.reduced, changed.reduced)
    BY <2>1, SetParametersIsGood, Zenon
  <2>3. sendStreams'[s] = r
    BY <1>1 DEF stream
  <2> HIDE DEF r
  <2>4. r.extensions = (IF sendExtensions' = None THEN <<>> ELSE sendExtensions')
    BY <1>1, <2>1, <2>2 DEF Follows, Set
  <2>5. Follows(r, sendCodec', sendExtensions', sendParams', extmapMixed')
    BY <1>1, <2>1, <2>2, <2>4 DEF Follows
  <2> QED BY <2>1, <2>2, <2>3, <2>5 DEF stream
<1>3. DOMAIN sendStreams' = DOMAIN sendStreams
  BY <1>1
<1>4. Exact(sendSsrcs', sendStreams')
  <2>1. Exact(sendSsrcs, sendStreams)
    BY ExactSsrcs DEF IInv
  <2> QED BY <1>1, <1>2, <1>3, <2>1 DEF Exact
<1> QED BY <1>2, <1>3, <1>4, ExactSsrcs, FollowingStreams DEF StreamsAreGood

\* SetSendParameters preserves the inductive invariant.
LEMMA SetSendParametersIInv ==
    ASSUME IInv, NEW params \in SendParameters, SetSendParameters(params)
    PROVE  IInv'
<1> DEFINE changed == ChangedSendParameters(params)
<1>1. CASE CrashWith(changed)
  BY <1>1, CrashIInv DEF CrashWith
<1>2. CASE ApplyChangedParams(params, changed) /\ sendParams' = params /\ UNCHANGED switchVars
  <2>1. /\ changed.mid = IfNew(sendParams.mid, params.mid)
        /\ changed.conference = IfNew(sendParams.conference, params.conference)
        /\ changed.reduced = IfNew(sendParams.reduced, params.reduced)
    BY DEF ChangedSendParameters
  <2> HIDE DEF changed
  <2>2. /\ sendParams'.mid = Set(sendParams.mid, changed.mid)
        /\ sendParams'.conference = Set(sendParams.conference, changed.conference)
        /\ sendParams'.reduced = Set(sendParams.reduced, changed.reduced)
    BY <1>2, <2>1, ParametersAssumption DEF Set, IfNew
  <2>3. StreamsAreGood' /\ SsrcsAreOfStreams' /\ StreamsFollowChannel'
    BY <1>2, <2>2, ApplyKeeps
  <2> QED BY <1>2, <2>3 DEF IInv, KeptSwitchIsPending, switchVars
<1> QED BY <1>1, <1>2 DEF SetSendParameters

\* A change that is none of the channel's own parameters.
LEMMA CodecChange ==
    ASSUME IInv, NEW changed,
           changed.mid = None, changed.conference = None, changed.reduced = None,
           ApplyChangedParams(sendParams, changed), sendParams' = sendParams
    PROVE  StreamsAreGood' /\ SsrcsAreOfStreams' /\ StreamsFollowChannel'
BY ApplyKeeps DEF Set

\* The encoder's requests end in such a change.
LEMMA RequestIInv ==
    ASSUME IInv, NEW changed,
           changed.mid = None, changed.conference = None, changed.reduced = None,
           \/ CrashWith(changed)
           \/ ApplyChangedParams(sendParams, changed) /\ UNCHANGED <<sendParams, switchVars>>
    PROVE  IInv'
<1>1. CASE CrashWith(changed)
  BY <1>1, CrashIInv DEF CrashWith
<1>2. CASE ApplyChangedParams(sendParams, changed) /\ UNCHANGED <<sendParams, switchVars>>
  <2>1. StreamsAreGood' /\ SsrcsAreOfStreams' /\ StreamsFollowChannel'
    BY <1>2, CodecChange
  <2> QED BY <1>2, <2>1 DEF IInv, KeptSwitchIsPending, switchVars
<1> QED BY <1>1, <1>2

\* RequestEncoderFallback preserves the inductive invariant.
LEMMA FallbackIInv == ASSUME IInv, RequestEncoderFallback PROVE IInv'
<1> DEFINE changed == [Unchanged EXCEPT !.negotiated = Tail(negotiated), !.codec = negotiated[2]]
<1>1. changed.mid = None /\ changed.conference = None /\ changed.reduced = None
  BY DEF Unchanged
<1>2. \/ CrashWith(changed)
      \/ ApplyChangedParams(sendParams, changed) /\ UNCHANGED <<sendParams, switchVars>>
  BY DEF RequestEncoderFallback
<1> HIDE DEF changed
<1> QED BY <1>1, <1>2, RequestIInv

\* RequestEncoderSwitch preserves the inductive invariant.
LEMMA SwitchIInv == ASSUME IInv, NEW name, RequestEncoderSwitch(name) PROVE IInv'
<1> DEFINE changed == [Unchanged EXCEPT !.codec = CodecToSwitchTo(name)]
<1>1. CASE /\ ~allowSwitch /\ requested' = name
           /\ UNCHANGED <<streamVars, sending, sendParams, codecVars, allowSwitch,
                          recvVars, crashed>>
  BY <1>1 DEF IInv, streamVars, codecVars, StreamsAreGood, SsrcsAreOfStreams,
              StreamsFollowChannel, KeptSwitchIsPending, Streams
<1>2. changed.mid = None /\ changed.conference = None /\ changed.reduced = None
  BY DEF Unchanged
<1>3. CASE \/ CrashWith(changed)
           \/ ApplyChangedParams(sendParams, changed) /\ UNCHANGED <<sendParams, switchVars>>
  <2> HIDE DEF changed
  <2> QED BY <1>2, <1>3, RequestIInv
<1> QED BY <1>1, <1>3 DEF RequestEncoderSwitch

\* RequestEncoderSwitchToFormat preserves the inductive invariant.
LEMMA SwitchToFormatIInv ==
    ASSUME IInv, NEW format, RequestEncoderSwitchToFormat(format)
    PROVE  IInv'
<1> DEFINE at == {i \in DOMAIN negotiated : IsSameCodec(format, negotiated[i].codec)}
           changed == [Unchanged EXCEPT !.codec = WithFormat(negotiated[Min(at)], format)]
<1>1. \/ CrashWith(changed)
      \/ ApplyChangedParams(sendParams, changed) /\ UNCHANGED <<sendParams, switchVars>>
  BY DEF RequestEncoderSwitchToFormat
<1> HIDE DEF at
<1>2. changed.mid = None /\ changed.conference = None /\ changed.reduced = None
  BY DEF Unchanged
<1> HIDE DEF changed
<1> QED BY <1>1, <1>2, RequestIInv

\* SetVideoCodecSwitchingEnabled preserves the inductive invariant.
LEMMA SwitchingIInv ==
    ASSUME IInv, NEW enabled \in BOOLEAN, SetVideoCodecSwitchingEnabled(enabled)
    PROVE  IInv'
<1> DEFINE kept == IF enabled /\ requested # None THEN CodecToSwitchTo(requested) ELSE None
           changed == [Unchanged EXCEPT !.codec = kept]
<1>1. \/ CrashWith(changed)
      \/ /\ ApplyChangedParams(sendParams, changed)
         /\ allowSwitch' = enabled
         /\ requested' = IF enabled THEN None ELSE requested
         /\ UNCHANGED sendParams
  BY DEF SetVideoCodecSwitchingEnabled
<1> HIDE DEF kept
<1>2. changed.mid = None /\ changed.conference = None /\ changed.reduced = None
  BY DEF Unchanged
<1> HIDE DEF changed
<1>3. CASE CrashWith(changed)
  BY <1>3, CrashIInv DEF CrashWith
<1>4. CASE /\ ApplyChangedParams(sendParams, changed)
           /\ allowSwitch' = enabled
           /\ requested' = IF enabled THEN None ELSE requested
           /\ UNCHANGED sendParams
  <2>1. StreamsAreGood' /\ SsrcsAreOfStreams' /\ StreamsFollowChannel'
    BY <1>2, <1>4, CodecChange
  <2> QED BY <1>4, <2>1 DEF IInv, KeptSwitchIsPending
<1> QED BY <1>1, <1>3, <1>4

\* AddSendStream preserves the inductive invariant.
LEMMA AddIInv == ASSUME IInv, NEW sp \in StreamParams, AddSendStream(sp) PROVE IInv'
<1> DEFINE ssrc == Head(sp.ssrcs)
           r == NewStream(sp)
<1>1. CASE Crash("noStream")
  BY <1>1, CrashIInv
<1>2. CASE /\ ~sending /\ ValidateStreamParams(sp) /\ ValidateSendSsrcAvailability(sp)
           /\ sendSsrcs' = sendSsrcs \cup ToSet(sp.ssrcs)
           /\ sendStreams' = [s \in DOMAIN sendStreams \cup {ssrc} |->
                                 IF s = ssrc THEN r ELSE sendStreams[s]]
           /\ UNCHANGED <<sending, sendParams, codecVars, switchVars, recvVars, crashed>>
  <2>1. ssrc \in ToSet(sp.ssrcs)
    <3>1. sp.ssrcs \in Seq(Nat) /\ sp.ssrcs # <<>>
      BY <1>2, ParametersAssumption DEF ValidateStreamParams
    <3> QED BY <3>1 DEF ToSet
  <2>2. ToSet(sp.ssrcs) \cap sendSsrcs = {}
    BY <1>2 DEF ValidateSendSsrcAvailability
  <2>3. /\ GoodStream(r) /\ r.ssrcs = ToSet(sp.ssrcs)
        /\ Follows(r, sendCodec, sendExtensions, sendParams, extmapMixed)
    BY NewStreamIsGood
  <2>4. DOMAIN sendStreams' = DOMAIN sendStreams \cup {ssrc}
    BY <1>2
  <2> HIDE DEF r, ssrc
  <2>5. Exact(sendSsrcs, sendStreams)
    BY ExactSsrcs DEF IInv
  <2>6. ssrc \notin DOMAIN sendStreams
    BY <2>1, <2>2, <2>5 DEF Exact, IInv, StreamsAreGood
  <2>7. /\ sendStreams'[ssrc] = r
        /\ \A s \in DOMAIN sendStreams : sendStreams'[s] = sendStreams[s]
    BY <1>2, <2>6
  <2>8. StreamsAreGood'
    BY <2>1, <2>3, <2>4, <2>7 DEF IInv, StreamsAreGood
  <2>9. Exact(sendSsrcs', sendStreams')
    <3>1. \A x : x \in sendSsrcs' <=> \E s \in DOMAIN sendStreams' : x \in sendStreams'[s].ssrcs
      BY <1>2, <2>3, <2>4, <2>5, <2>7 DEF Exact
    <3>2. \A s \in DOMAIN sendStreams : sendStreams[s].ssrcs \cap r.ssrcs = {}
      BY <2>2, <2>3, <2>5 DEF Exact
    <3>3. \A s, t \in DOMAIN sendStreams' :
              s # t => sendStreams'[s].ssrcs \cap sendStreams'[t].ssrcs = {}
      BY <2>4, <2>5, <2>7, <3>2 DEF Exact
    <3> QED BY <3>1, <3>3 DEF Exact
  <2>10. StreamsFollowChannel'
    BY <1>2, <2>3, <2>4, <2>7, FollowingStreams DEF IInv, codecVars
  <2>11. KeptSwitchIsPending'
    BY <1>2 DEF IInv, KeptSwitchIsPending, switchVars
  <2> QED BY <2>8, <2>9, <2>10, <2>11, ExactSsrcs DEF IInv
<1> QED BY <1>1, <1>2 DEF AddSendStream

\* RemoveSendStream preserves the inductive invariant.
LEMMA RemoveIInv == ASSUME IInv, NEW ssrc, RemoveSendStream(ssrc) PROVE IInv'
<1>1. /\ ssrc \in DOMAIN sendStreams
      /\ sendSsrcs' = sendSsrcs \ sendStreams[ssrc].ssrcs
      /\ sendStreams' = [s \in DOMAIN sendStreams \ {ssrc} |-> sendStreams[s]]
      /\ UNCHANGED <<sending, sendParams, codecVars, switchVars, recvVars, crashed>>
  BY DEF RemoveSendStream
<1>2. /\ DOMAIN sendStreams' = DOMAIN sendStreams \ {ssrc}
      /\ \A s \in DOMAIN sendStreams' : sendStreams'[s] = sendStreams[s]
  BY <1>1
<1>3. Exact(sendSsrcs, sendStreams)
  BY ExactSsrcs DEF IInv
<1>4. StreamsAreGood'
  BY <1>2 DEF IInv, StreamsAreGood
<1>5. Exact(sendSsrcs', sendStreams')
  BY <1>1, <1>2, <1>3 DEF Exact
<1>6. StreamsFollowChannel'
  BY <1>1, <1>2, FollowingStreams DEF IInv, codecVars
<1>7. KeptSwitchIsPending'
  BY <1>1 DEF IInv, KeptSwitchIsPending, switchVars
<1> QED BY <1>4, <1>5, <1>6, <1>7, ExactSsrcs DEF IInv

\* One stream is replaced by one with the same SSRCs and parameters.
LEMMA ReplaceIInv ==
    ASSUME IInv, NEW ssrc \in DOMAIN sendStreams, NEW r, GoodStream(r),
           r.ssrcs = sendStreams[ssrc].ssrcs,
           Follows(r, sendCodec, sendExtensions, sendParams, extmapMixed),
           sendStreams' = [sendStreams EXCEPT ![ssrc] = r],
           UNCHANGED <<sendSsrcs, sendParams, codecVars, switchVars>>
    PROVE  IInv'
<1>1. /\ DOMAIN sendStreams' = DOMAIN sendStreams /\ sendStreams'[ssrc] = r
      /\ \A s \in DOMAIN sendStreams : s # ssrc => sendStreams'[s] = sendStreams[s]
  OBVIOUS
<1>2. \A s \in DOMAIN sendStreams : sendStreams'[s].ssrcs = sendStreams[s].ssrcs
  BY <1>1
<1>3. StreamsAreGood'
  BY <1>1 DEF IInv, StreamsAreGood
<1>4. Exact(sendSsrcs', sendStreams')
  <2>1. Exact(sendSsrcs, sendStreams)
    BY ExactSsrcs DEF IInv
  <2> QED BY <1>1, <1>2, <2>1 DEF Exact
<1>5. StreamsFollowChannel'
  BY <1>1, FollowingStreams DEF IInv, codecVars
<1>6. KeptSwitchIsPending'
  BY DEF IInv, KeptSwitchIsPending, switchVars
<1> QED BY <1>3, <1>4, <1>5, <1>6, ExactSsrcs DEF IInv

\* SetVideoSend preserves the inductive invariant.
LEMMA SetVideoSendIInv ==
    ASSUME IInv, NEW ssrc, NEW screencast, NEW source, SetVideoSend(ssrc, screencast, source)
    PROVE  IInv'
<1>1. CASE Crash("unknownStream") \/ Crash("noStream")
  BY <1>1, CrashIInv
<1> DEFINE stream == sendStreams[ssrc]
           option == Set(stream.screencast, screencast)
           r == WithOptions(stream, option, source)
<1>2. CASE /\ ssrc \in DOMAIN sendStreams
           /\ sendStreams' = [sendStreams EXCEPT ![ssrc] = r]
           /\ UNCHANGED <<sendSsrcs, reportSsrc, sending, sendParams, codecVars,
                          switchVars, recvVars, crashed>>
  <2>1. /\ GoodStream(stream)
        /\ Follows(stream, sendCodec, sendExtensions, sendParams, extmapMixed)
    BY <1>2, FollowingStreams DEF IInv, StreamsAreGood
  <2> HIDE DEF option, stream
  <2>2. /\ GoodStream(r) /\ r.codec = stream.codec /\ r.ssrcs = stream.ssrcs
        /\ r.extensions = stream.extensions /\ r.mid = stream.mid
        /\ r.mixed = stream.mixed /\ r.conference = stream.conference
        /\ r.reduced = stream.reduced
    BY <2>1, SetOptionsIsGood, Zenon
  <2> HIDE DEF r
  <2>3. Follows(r, sendCodec, sendExtensions, sendParams, extmapMixed)
    BY <2>1, <2>2 DEF Follows
  <2>4. r.ssrcs = sendStreams[ssrc].ssrcs
    BY <2>2 DEF stream
  <2> QED BY <1>2, <2>2, <2>3, <2>4, ReplaceIInv
<1> QED BY <1>1, <1>2 DEF SetVideoSend, WithOptions

\* SetRtpSendParameters preserves the inductive invariant.
LEMMA SetRtpSendParametersIInv ==
    ASSUME IInv, NEW ssrc, NEW cap, SetRtpSendParameters(ssrc, cap)
    PROVE  IInv'
<1> DEFINE stream == sendStreams[ssrc]
           r == [stream EXCEPT !.encodingCap = cap]
<1>1. /\ ssrc \in DOMAIN sendStreams /\ sendStreams' = [sendStreams EXCEPT ![ssrc] = r]
      /\ UNCHANGED <<sendSsrcs, sendParams, codecVars, switchVars>>
  BY DEF SetRtpSendParameters
<1>2. /\ GoodStream(stream)
      /\ Follows(stream, sendCodec, sendExtensions, sendParams, extmapMixed)
  BY <1>1, FollowingStreams DEF IInv, StreamsAreGood
<1> HIDE DEF stream
<1>3. /\ GoodStream(r) /\ r.ssrcs = stream.ssrcs
      /\ Follows(r, sendCodec, sendExtensions, sendParams, extmapMixed)
  BY <1>2 DEF GoodStream, Follows, Fields
<1>4. r.ssrcs = sendStreams[ssrc].ssrcs
  BY <1>3 DEF stream
<1> HIDE DEF r
<1> QED BY <1>1, <1>3, <1>4, ReplaceIInv

\* A step that leaves the streams and what they follow alone.
LEMMA UnchangedIInv ==
    IInv /\ UNCHANGED <<streamVars, sendParams, codecVars, switchVars>> => IInv'
BY DEF IInv, streamVars, codecVars, switchVars, StreamsAreGood, SsrcsAreOfStreams,
       StreamsFollowChannel, KeptSwitchIsPending, Streams

\* Every step preserves it.
LEMMA NextIInv == IInv /\ [Next]_vars => IInv'
<1> SUFFICES ASSUME IInv, [Next]_vars PROVE IInv'
  OBVIOUS
<1>1. CASE UNCHANGED vars
  BY <1>1, UnchangedIInv DEF vars
<1>2. ASSUME NEW params \in SendParameters, SetSendParameters(params) PROVE IInv'
  BY <1>2, SetSendParametersIInv
<1>3. CASE \/ RequestEncoderFallback
           \/ \E wanted \in SwitchRequests : RequestEncoderSwitch(wanted)
           \/ \E format \in SwitchFormats : RequestEncoderSwitchToFormat(format)
           \/ \E enabled \in BOOLEAN : SetVideoCodecSwitchingEnabled(enabled)
  BY <1>3, FallbackIInv, SwitchIInv, SwitchToFormatIInv, SwitchingIInv
<1>4. CASE \/ \E sp \in StreamParams : AddSendStream(sp)
           \/ \E ssrc \in Ssrcs : RemoveSendStream(ssrc)
  BY <1>4, AddIInv, RemoveIInv
<1>5. ASSUME NEW send \in BOOLEAN, SetSend(send) PROVE IInv'
  BY <1>5, CrashIInv, UnchangedIInv DEF SetSend
<1>6. CASE \/ \E ssrc \in Ssrcs, screencast \in BOOLEAN \cup {None}, source \in BOOLEAN :
                 SetVideoSend(ssrc, screencast, source)
           \/ \E ssrc \in Ssrcs, cap \in EncodingCaps : SetRtpSendParameters(ssrc, cap)
  BY <1>6, SetVideoSendIInv, SetRtpSendParametersIInv
<1>7. ASSUME NEW params \in RecvParameters, SetRecvParameters(params) PROVE IInv'
  BY <1>7, UnchangedIInv DEF SetRecvParameters
<1>8. CASE OnNetworkEvent
  BY <1>8, CrashIInv DEF OnNetworkEvent
<1> QED BY <1>1, <1>2, <1>3, <1>4, <1>5, <1>6, <1>7, <1>8 DEF Next

-----------------------------------------------------------------------------
\* The inductive invariant holds in every reachable state.
THEOREM Invariance == Spec => []IInv
BY InitIInv, NextIInv, PTL DEF Spec

\* Every SSRC belongs to one stream and send_ssrcs_ holds just these, for
\* every set of streams and every order of AddSendStream and RemoveSendStream.
THEOREM SsrcsStayOfStreams == Spec => []SsrcsAreOfStreams
<1>1. IInv => SsrcsAreOfStreams
  BY DEF IInv
<1> QED BY <1>1, Invariance, PTL

\* For every set of descriptions, the changes GetChangedSendParameters hands
\* on leave every stream with the channel's codec and parameters, its encoder
\* configured for its content and mode, and RTX with the payload type that the
\* codec in use has for it.
THEOREM StreamsStayCurrent == Spec => []StreamsAreCurrent
<1>1. IInv => EncoderFollowsOptions
  BY DEF IInv, StreamsAreGood, GoodStream, EncoderFollowsOptions, Streams
<1>2. IInv => RtxFollowsCodec
  BY DEF IInv, StreamsAreGood, GoodStream, RtxFollowsCodec, Streams
<1>3. IInv => StreamsAreCurrent
  BY <1>1, <1>2 DEF IInv, StreamsAreCurrent
<1> QED BY <1>3, Invariance, PTL

\* A switch that was asked for is kept only while switching is off.
THEOREM KeptSwitchStaysPending == Spec => []KeptSwitchIsPending
<1>1. IInv => KeptSwitchIsPending
  BY DEF IInv
<1> QED BY <1>1, Invariance, PTL

-----------------------------------------------------------------------------
(* The SSRC of receiver reports *)

\* A set of numbers that is not empty has a least one.
LEMMA LeastNumber ==
    ASSUME NEW T \in SUBSET Nat, T # {}
    PROVE  \E x \in T : \A y \in T : x <= y
<1>1. PICK x \in T : \A y \in T : ~(<<y, x>> \in OpToRel(<, Nat))
  BY WFMin, NatLessThanWellFounded
<1>2. \A y \in Nat : y < x => <<y, x>> \in OpToRel(<, Nat)
  BY Zenon DEF OpToRel
<1>3. \A y \in T : ~(y < x)
  BY <1>1, <1>2
<1> QED BY <1>3

\* Min of such a set is the least one.
LEMMA MinIsIn == ASSUME NEW T \in SUBSET Nat, T # {} PROVE Min(T) \in T
<1>1. PICK x \in T : \A y \in T : x <= y
  BY LeastNumber
<1> QED BY <1>1 DEF Min

\* A value that is a function.
IsAMap(f) == f = [x \in DOMAIN f |-> f[x]]

\* send_streams_ is a map from numbers, and the reports have a live SSRC.
ReportInv ==
    /\ IsAMap(sendStreams) /\ DOMAIN sendStreams \subseteq Nat
    /\ IF DOMAIN sendStreams = {} THEN reportSsrc = DefaultReportSsrc
       ELSE reportSsrc \in DOMAIN sendStreams

\* With no stream the default SSRC is in use.
LEMMA NoStreamReport ==
    sendStreams' = <<>> /\ reportSsrc' = DefaultReportSsrc => ReportInv'
BY DEF ReportInv, IsAMap

\* A step that does not add or remove a stream.
LEMMA SameStreamsReport ==
    /\ ReportInv /\ reportSsrc' = reportSsrc
    /\ IsAMap(sendStreams') /\ DOMAIN sendStreams' = DOMAIN sendStreams
    => ReportInv'
BY DEF ReportInv

\* A step that leaves the streams alone.
LEMMA UnchangedReport ==
    ReportInv /\ sendStreams' = sendStreams /\ reportSsrc' = reportSsrc => ReportInv'
BY DEF ReportInv, IsAMap

\* A crash leaves no stream.
LEMMA CrashReport == ASSUME NEW reason, Crash(reason) PROVE ReportInv'
<1>1. sendStreams' = <<>> /\ reportSsrc' = DefaultReportSsrc
  BY DEF Crash
<1> QED BY <1>1, NoStreamReport

\* A change of parameters.
LEMMA ApplyReport ==
    ASSUME ReportInv, NEW params, NEW changed,
           CrashWith(changed) \/ ApplyChangedParams(params, changed)
    PROVE  ReportInv'
<1>1. CASE CrashWith(changed)
  BY <1>1, CrashReport DEF CrashWith
<1>2. CASE ApplyChangedParams(params, changed)
  <2>1. /\ IsAMap(sendStreams') /\ DOMAIN sendStreams' = DOMAIN sendStreams
        /\ reportSsrc' = reportSsrc
    BY <1>2 DEF ApplyChangedParams, IsAMap
  <2> QED BY <2>1, SameStreamsReport
<1> QED BY <1>1, <1>2

\* AddSendStream reports under the new SSRC if it reported under the default.
LEMMA AddReport ==
    ASSUME ReportInv, NEW sp \in StreamParams, AddSendStream(sp)
    PROVE  ReportInv'
<1> DEFINE ssrc == Head(sp.ssrcs)
<1>1. ssrc \in Nat
  <2>1. sp.ssrcs \in Seq(Nat) /\ sp.ssrcs # <<>>
    BY ParametersAssumption DEF AddSendStream, ValidateStreamParams
  <2> QED BY <2>1
<1>2. CASE Crash("noStream")
  BY <1>2, CrashReport
<1>3. CASE /\ IsAMap(sendStreams') /\ DOMAIN sendStreams' = DOMAIN sendStreams \cup {ssrc}
           /\ reportSsrc' = IF reportSsrc = DefaultReportSsrc THEN ssrc ELSE reportSsrc
  <2> HIDE DEF ssrc
  <2> QED BY <1>1, <1>3 DEF ReportInv
<1>4. CASE /\ sendStreams' = [s \in DOMAIN sendStreams \cup {ssrc} |->
                                 IF s = ssrc THEN NewStream(sp) ELSE sendStreams[s]]
           /\ reportSsrc' = IF reportSsrc = DefaultReportSsrc THEN ssrc ELSE reportSsrc
  BY <1>3, <1>4 DEF IsAMap
<1> QED BY <1>2, <1>4 DEF AddSendStream

\* RemoveSendStream reports under another stream's SSRC.
LEMMA RemoveReport ==
    ASSUME ReportInv, NEW ssrc, RemoveSendStream(ssrc)
    PROVE  ReportInv'
<1> DEFINE left == DOMAIN sendStreams \ {ssrc}
<1>1. /\ IsAMap(sendStreams') /\ DOMAIN sendStreams' = left
      /\ reportSsrc # ssrc => reportSsrc' = reportSsrc
      /\ reportSsrc = ssrc /\ left = {} => reportSsrc' = DefaultReportSsrc
      /\ reportSsrc = ssrc /\ left # {} => reportSsrc' = Min(left)
      /\ ssrc \in DOMAIN sendStreams
  BY DEF RemoveSendStream, IsAMap
<1>2. left # {} => Min(left) \in left
  BY MinIsIn DEF ReportInv
<1> QED BY <1>1, <1>2 DEF ReportInv

\* Every step keeps the reports under a live SSRC.
LEMMA NextReport == ReportInv /\ [Next]_vars => ReportInv'
<1> SUFFICES ASSUME ReportInv, [Next]_vars PROVE ReportInv'
  OBVIOUS
<1>1. CASE UNCHANGED vars
  BY <1>1, UnchangedReport DEF vars, streamVars
<1>2. CASE \E params \in SendParameters : SetSendParameters(params)
  BY <1>2, ApplyReport DEF SetSendParameters
<1>3. CASE RequestEncoderFallback
  BY <1>3, ApplyReport DEF RequestEncoderFallback
<1>4. CASE \E wanted \in SwitchRequests : RequestEncoderSwitch(wanted)
  BY <1>4, ApplyReport, UnchangedReport DEF RequestEncoderSwitch, streamVars
<1>5. CASE \E format \in SwitchFormats : RequestEncoderSwitchToFormat(format)
  BY <1>5, ApplyReport DEF RequestEncoderSwitchToFormat
<1>6. CASE \E enabled \in BOOLEAN : SetVideoCodecSwitchingEnabled(enabled)
  BY <1>6, ApplyReport DEF SetVideoCodecSwitchingEnabled
<1>7. CASE \E sp \in StreamParams : AddSendStream(sp)
  BY <1>7, AddReport
<1>8. CASE \E ssrc \in Ssrcs : RemoveSendStream(ssrc)
  BY <1>8, RemoveReport
<1>9. CASE \E send \in BOOLEAN : SetSend(send)
  BY <1>9, CrashReport, UnchangedReport DEF SetSend, streamVars
<1>10. CASE \E ssrc \in Ssrcs, screencast \in BOOLEAN \cup {None}, source \in BOOLEAN :
                SetVideoSend(ssrc, screencast, source)
  BY <1>10, CrashReport, SameStreamsReport DEF SetVideoSend, IsAMap
<1>11. CASE \E ssrc \in Ssrcs, cap \in EncodingCaps : SetRtpSendParameters(ssrc, cap)
  BY <1>11, SameStreamsReport DEF SetRtpSendParameters, IsAMap
<1>12. CASE \E params \in RecvParameters : SetRecvParameters(params)
  BY <1>12, UnchangedReport DEF SetRecvParameters, streamVars
<1>13. CASE OnNetworkEvent
  BY <1>13, CrashReport DEF OnNetworkEvent
<1> QED BY <1>1, <1>2, <1>3, <1>4, <1>5, <1>6, <1>7, <1>8, <1>9, <1>10, <1>11, <1>12, <1>13
       DEF Next

\* For every set of streams, and every order of AddSendStream and
\* RemoveSendStream, receiver reports go out under the SSRC of a stream there
\* is, or the default one while there is none.
THEOREM ReportSsrcStaysLive == Spec => []ReportSsrcIsLive
<1>1. Init => ReportInv
  BY DEF Init, ReportInv, IsAMap
<1>2. ReportInv => ReportSsrcIsLive
  BY DEF ReportInv, IsAMap, ReportSsrcIsLive
<1> QED BY <1>1, <1>2, NextReport, PTL DEF Spec

-----------------------------------------------------------------------------
(* The cap of the bandwidth estimation *)

\* The cap that a bandwidth and a codec ask for.
CapOf(max, codec) ==
    CASE max > 0 -> max
      [] max = 0 -> -1
      [] max < 0 /\ codec = None -> -1
      [] OTHER -> GetBitrateConfigForCodec(codec.codec).max

\* bitrate_config_ has the cap that send_params_ and send_codec_ ask for.
CapInv ==
    /\ "max" \in DOMAIN bitrate
    /\ sendParams.max \in Int /\ sendParams.max >= -1
    /\ bitrate.max = CapOf(sendParams.max, sendCodec)

\* A crash leaves the bit rates of a new channel.
LEMMA CrashCap == ASSUME NEW reason, Crash(reason) PROVE CapInv'
<1>1. /\ "max" \in DOMAIN bitrate' /\ bitrate'.max = -1
      /\ sendParams'.max = -1 /\ sendCodec' = None
  BY DEF Crash, NoBitrates, DefaultSendParams
<1> QED BY <1>1 DEF CapInv, CapOf

\* What is computed after a change is the cap asked for.
LEMMA NewBitrateCap ==
    ASSUME CapInv, NEW params, NEW codec, NEW changed,
           params.max \in Int, params.max >= -1,
           changed.codec # None \/ changed.max # None
    PROVE  LET b == NewBitrate(params, codec, changed)
           IN  "max" \in DOMAIN b /\ b.max = CapOf(params.max, codec)
<1> DEFINE none == [bitrate EXCEPT !.max = IF params.max = -1 THEN -1 ELSE @]
           config == GetBitrateConfigForCodec(codec.codec)
           some == [config EXCEPT !.start = IF changed.codec = None THEN -1 ELSE @]
           base == IF codec = None THEN none ELSE some
           b == NewBitrate(params, codec, changed)
<1>1. "max" \in DOMAIN none /\ (params.max = -1 => none.max = -1)
  BY DEF CapInv
<1>2. "max" \in DOMAIN config
  BY DEF GetBitrateConfigForCodec
<1> HIDE DEF config
<1>3. "max" \in DOMAIN some /\ some.max = config.max
  BY <1>2
<1>4. b = IF params.max < 0 THEN base
          ELSE [base EXCEPT !.max = IF params.max = 0 THEN -1 ELSE params.max]
  BY DEF NewBitrate, config
<1> HIDE DEF none, some, b
<1>5. /\ "max" \in DOMAIN base
      /\ params.max < 0 => base.max = IF codec = None THEN -1 ELSE config.max
  BY <1>1, <1>3
<1> HIDE DEF base
<1>6. "max" \in DOMAIN b
  BY <1>4, <1>5
<1>7. params.max < 0 => b.max = CapOf(params.max, codec)
  BY <1>4, <1>5 DEF CapOf, config
<1>8. params.max = 0 => b.max = CapOf(params.max, codec)
  BY <1>4, <1>5 DEF CapOf
<1>9. params.max > 0 => b.max = CapOf(params.max, codec)
  BY <1>4, <1>5 DEF CapOf
<1>10. b.max = CapOf(params.max, codec)
  BY <1>7, <1>8, <1>9
<1> QED BY <1>6, <1>10 DEF b

\* ApplyChangedParams, where nothing that is asked for is left out.
LEMMA ApplyCap ==
    ASSUME CapInv, NEW params, NEW changed, ApplyChangedParams(params, changed),
           sendParams' = params, params.max \in Int, params.max >= -1,
           changed.max = None => params.max = sendParams.max
    PROVE  CapInv'
<1> DEFINE codec == Set(sendCodec, changed.codec)
<1>1. sendCodec' = codec /\ bitrate' = NewBitrate(params, codec, changed)
  BY DEF ApplyChangedParams
<1>2. CASE changed.codec = None /\ changed.max = None
  <2>1. bitrate' = bitrate /\ sendCodec' = sendCodec /\ sendParams'.max = sendParams.max
    BY <1>1, <1>2 DEF NewBitrate, Set
  <2> QED BY <2>1 DEF CapInv
<1>3. CASE changed.codec # None \/ changed.max # None
  <2> DEFINE b == NewBitrate(params, codec, changed)
  <2> HIDE DEF codec
  <2>1. "max" \in DOMAIN b /\ b.max = CapOf(params.max, codec)
    BY <1>3, NewBitrateCap, Zenon
  <2> QED BY <1>1, <2>1 DEF CapInv
<1> QED BY <1>2, <1>3

\* SetSendParameters hands on every maximum that is new.
LEMMA SetSendParametersCap ==
    ASSUME CapInv, NEW params \in SendParameters, SetSendParameters(params)
    PROVE  CapInv'
<1> DEFINE changed == ChangedSendParameters(params)
<1>1. params.max \in Int /\ params.max >= -1 /\ None \notin Int
  BY BandwidthAssumption
<1>2. changed.max = IF params.max = sendParams.max \/ params.max < -1 THEN None
                    ELSE IF params.max = 0 THEN -1 ELSE params.max
  BY DEF ChangedSendParameters
<1>3. CASE CrashWith(changed)
  BY <1>3, CrashCap DEF CrashWith
<1>4. CASE ApplyChangedParams(params, changed) /\ sendParams' = params
  <2> HIDE DEF changed
  <2>1. changed.max = None => params.max = sendParams.max
    BY <1>1, <1>2
  <2> QED BY <1>1, <1>4, <2>1, ApplyCap
<1> QED BY <1>3, <1>4 DEF SetSendParameters

\* The encoder's requests change no parameters.
LEMMA RequestCap ==
    ASSUME CapInv, NEW changed,
           \/ CrashWith(changed)
           \/ ApplyChangedParams(sendParams, changed) /\ sendParams' = sendParams
    PROVE  CapInv'
<1>1. CASE CrashWith(changed)
  BY <1>1, CrashCap DEF CrashWith
<1>2. CASE ApplyChangedParams(sendParams, changed) /\ sendParams' = sendParams
  BY <1>2, ApplyCap DEF CapInv
<1> QED BY <1>1, <1>2

\* A step that changes no parameters and no codec.
LEMMA UnchangedCap ==
    CapInv /\ bitrate' = bitrate /\ sendParams' = sendParams /\ sendCodec' = sendCodec => CapInv'
BY DEF CapInv

\* Every step keeps the cap.
LEMMA NextCap == CapInv /\ [Next]_vars => CapInv'
<1> SUFFICES ASSUME CapInv, [Next]_vars PROVE CapInv'
  OBVIOUS
<1>1. CASE UNCHANGED vars
  BY <1>1, UnchangedCap DEF vars, codecVars
<1>2. CASE \E params \in SendParameters : SetSendParameters(params)
  BY <1>2, SetSendParametersCap
<1>3. CASE RequestEncoderFallback
  BY <1>3, RequestCap DEF RequestEncoderFallback
<1>4. CASE \E wanted \in SwitchRequests : RequestEncoderSwitch(wanted)
  BY <1>4, RequestCap, UnchangedCap DEF RequestEncoderSwitch, codecVars
<1>5. CASE \E format \in SwitchFormats : RequestEncoderSwitchToFormat(format)
  BY <1>5, RequestCap DEF RequestEncoderSwitchToFormat
<1>6. CASE \E enabled \in BOOLEAN : SetVideoCodecSwitchingEnabled(enabled)
  BY <1>6, RequestCap DEF SetVideoCodecSwitchingEnabled
<1>7. CASE \E sp \in StreamParams : AddSendStream(sp)
  BY <1>7, CrashCap, UnchangedCap DEF AddSendStream, codecVars
<1>8. CASE \E ssrc \in Ssrcs : RemoveSendStream(ssrc)
  BY <1>8, UnchangedCap DEF RemoveSendStream, codecVars
<1>9. CASE \E send \in BOOLEAN : SetSend(send)
  BY <1>9, CrashCap, UnchangedCap DEF SetSend, codecVars
<1>10. CASE \E ssrc \in Ssrcs, screencast \in BOOLEAN \cup {None}, source \in BOOLEAN :
                SetVideoSend(ssrc, screencast, source)
  BY <1>10, CrashCap, UnchangedCap DEF SetVideoSend, codecVars
<1>11. CASE \E ssrc \in Ssrcs, cap \in EncodingCaps : SetRtpSendParameters(ssrc, cap)
  BY <1>11, UnchangedCap DEF SetRtpSendParameters, codecVars
<1>12. CASE \E params \in RecvParameters : SetRecvParameters(params)
  BY <1>12, UnchangedCap DEF SetRecvParameters, codecVars
<1>13. CASE OnNetworkEvent
  BY <1>13, CrashCap DEF OnNetworkEvent
<1> QED BY <1>1, <1>2, <1>3, <1>4, <1>5, <1>6, <1>7, <1>8, <1>9, <1>10, <1>11, <1>12, <1>13
       DEF Next

\* For every set of descriptions with a bandwidth of at least kAutoBandwidth,
\* codecs and descriptions may change in any order: the cap is always the
\* description's or, without one, that of the codec in use.
THEOREM CapStaysFollowing == Spec => []CapFollowsDescription
<1>1. Init => CapInv
  BY DEF Init, CapInv, CapOf, NoBitrates, DefaultSendParams
<1>2. CapInv => CapFollowsDescription
  BY DEF CapInv, CapOf, CapFollowsDescription
<1> QED BY <1>1, <1>2, NextCap, PTL DEF Spec

-----------------------------------------------------------------------------
(* Lists and codecs *)

\* Max of a set of places is one of them.
LEMMA MaxIsIn == ASSUME NEW n \in Nat, NEW T \in SUBSET (1 .. n), T # {} PROVE Max(T) \in T
<1> DEFINE U == {n - x : x \in T}
<1>0. \A x \in T : x \in Nat /\ n - x \in Nat
  OBVIOUS
<1>1. U \in SUBSET Nat /\ U # {}
  BY <1>0
<1>2. PICK u \in U : \A v \in U : u <= v
  BY <1>1, LeastNumber
<1>3. PICK x \in T : u = n - x
  BY <1>2
<1>4. ASSUME NEW y \in T PROVE x >= y
  <2>1. n - x <= n - y
    BY <1>2, <1>3
  <2> QED BY <2>1
<1> QED BY <1>4 DEF Max

\* Every member of a finite set has a place in an order, and every place a
\* member.
LEMMA Ranked ==
    ASSUME NEW S, IsFiniteSet(S), NEW order,
           \A x \in S : <<x, x>> \notin order,
           \A x, y, z \in S : <<x, y>> \in order /\ <<y, z>> \in order => <<x, z>> \in order,
           \A x, y \in S : x = y \/ <<x, y>> \in order \/ <<y, x>> \in order
    PROVE  /\ Cardinality(S) \in Nat
           /\ \A n \in 1 .. Cardinality(S) : InOrder(S, order, n) \in S
           /\ \A m, n \in 1 .. Cardinality(S) :
                  m < n => <<InOrder(S, order, m), InOrder(S, order, n)>> \in order
           /\ \A x \in S : \E n \in 1 .. Cardinality(S) : InOrder(S, order, n) = x
<1> DEFINE Before(x) == {y \in S : <<y, x>> \in order}
           N == Cardinality(S)
           Place(x) == Cardinality(Before(x)) + 1
           place == [x \in S |-> Place(x)]
<1>1. N \in Nat
  BY FS_CardinalityType
<1>2. IsFiniteSet(1 .. N) /\ Cardinality(1 .. N) = N
  BY <1>1, FS_Interval
<1>3. ASSUME NEW x \in S
      PROVE  /\ IsFiniteSet(Before(x)) /\ Cardinality(Before(x)) \in Nat
             /\ Place(x) \in 1 .. N
  <2>1. Before(x) \in SUBSET S /\ x \notin Before(x)
    OBVIOUS
  <2>2. /\ IsFiniteSet(Before(x)) /\ Cardinality(Before(x)) <= N
        /\ N = Cardinality(Before(x)) => S = Before(x)
    BY <2>1, FS_Subset
  <2>3. Cardinality(Before(x)) \in Nat
    BY <2>2, FS_CardinalityType
  <2>4. Cardinality(Before(x)) # N
    BY <2>1, <2>2
  <2> QED BY <1>1, <2>2, <2>3, <2>4
<1>4. ASSUME NEW x \in S, NEW y \in S, <<x, y>> \in order PROVE Place(x) < Place(y)
  <2>1. \A z \in Before(x) : z \in Before(y)
    BY <1>4
  <2>2. Before(x) \in SUBSET Before(y) /\ x \in Before(y) /\ x \notin Before(x)
    BY <1>4, <2>1
  <2>3. /\ Cardinality(Before(x)) <= Cardinality(Before(y))
        /\ Cardinality(Before(x)) # Cardinality(Before(y))
    BY <1>3, <2>2, FS_Subset
  <2>4. Cardinality(Before(x)) \in Nat /\ Cardinality(Before(y)) \in Nat
    BY <1>3
  <2> HIDE DEF Before
  <2> QED BY <2>3, <2>4
<1>5. ASSUME NEW x \in S, NEW y \in S, Place(x) = Place(y) PROVE x = y
  <2>1. Place(x) \in Nat /\ Place(y) \in Nat
    <3>1. Cardinality(Before(x)) \in Nat /\ Cardinality(Before(y)) \in Nat
      BY <1>3
    <3> HIDE DEF Before
    <3> QED BY <3>1
  <2>2. ~(Place(x) < Place(y)) /\ ~(Place(y) < Place(x))
    BY <1>5, <2>1
  <2>3. <<x, y>> \notin order /\ <<y, x>> \notin order
    BY <1>4, <2>2
  <2> QED BY <2>3
<1>6. place \in Injection(S, 1 .. N)
  <2>1. \A x \in S : Place(x) \in 1 .. N
    BY <1>3
  <2> HIDE DEF Place
  <2> QED BY <1>5, <2>1 DEF Injection, IsInjective
<1>7. place \in Surjection(S, 1 .. N)
  BY <1>2, <1>6, FS_Injection
<1>8. ASSUME NEW x \in S PROVE InOrder(S, order, Place(x)) = x
  <2>0. \A y \in S : Cardinality(Before(y)) \in Nat
    BY <1>3
  <2>1. ASSUME NEW y \in S PROVE Cardinality(Before(y)) = Place(x) - 1 <=> y = x
    <3>1. Cardinality(Before(y)) = Place(x) - 1 <=> Place(y) = Place(x)
      BY <2>0
    <3> QED BY <1>5, <3>1
  <2>2. InOrder(S, order, Place(x)) = CHOOSE y \in S : Cardinality(Before(y)) = Place(x) - 1
    BY DEF InOrder
  <2> QED BY <2>1, <2>2
<1>9. ASSUME NEW n \in 1 .. N PROVE \E x \in S : Place(x) = n /\ InOrder(S, order, n) = x
  <2>1. PICK x \in S : Place(x) = n
    BY <1>7 DEF Surjection
  <2> QED BY <1>8, <2>1
<1>10. ASSUME NEW m \in 1 .. N, NEW n \in 1 .. N, m < n
       PROVE  <<InOrder(S, order, m), InOrder(S, order, n)>> \in order
  <2>1. PICK x \in S : Place(x) = m /\ InOrder(S, order, m) = x
    BY <1>9
  <2>2. PICK y \in S : Place(y) = n /\ InOrder(S, order, n) = y
    BY <1>9
  <2> HIDE DEF Place
  <2>3. <<y, x>> \notin order /\ y # x
    BY <1>4, <1>10, <2>1, <2>2
  <2> QED BY <2>1, <2>2, <2>3
<1> QED BY <1>1, <1>3, <1>8, <1>9, <1>10

\* Nth goes through a set of numbers in order.
LEMMA NthIsIn ==
    ASSUME NEW n \in Nat, NEW S \in SUBSET (1 .. n)
    PROVE  /\ IsFiniteSet(S) /\ Cardinality(S) \in Nat
           /\ \A i \in 1 .. Cardinality(S) : Nth(S, i) \in S
           /\ \A i, j \in 1 .. Cardinality(S) : i < j => Nth(S, i) < Nth(S, j)
           /\ \A k \in S : \E i \in 1 .. Cardinality(S) : Nth(S, i) = k
<1> DEFINE order == {pair \in S \X S : pair[1] < pair[2]}
<1>1. IsFiniteSet(S)
  <2>1. IsFiniteSet(1 .. n)
    BY FS_Interval
  <2> QED BY <2>1, FS_Subset
<1>2. \A x, y \in S : <<x, y>> \in order <=> x < y
  OBVIOUS
<1>3. \A i : Nth(S, i) = InOrder(S, order, i)
  <2>1. \A x \in S : {y \in S : y < x} = {y \in S : <<y, x>> \in order}
    BY <1>2
  <2> QED BY <2>1 DEF Nth, InOrder
<1> HIDE DEF order
<1>4. /\ \A x \in S : <<x, x>> \notin order
      /\ \A x, y, z \in S : <<x, y>> \in order /\ <<y, z>> \in order => <<x, z>> \in order
      /\ \A x, y \in S : x = y \/ <<x, y>> \in order \/ <<y, x>> \in order
  BY <1>2
<1>5. /\ Cardinality(S) \in Nat
      /\ \A i \in 1 .. Cardinality(S) : InOrder(S, order, i) \in S
      /\ \A i, j \in 1 .. Cardinality(S) :
             i < j => <<InOrder(S, order, i), InOrder(S, order, j)>> \in order
      /\ \A x \in S : \E i \in 1 .. Cardinality(S) : InOrder(S, order, i) = x
  BY <1>1, <1>4, Ranked
<1> QED BY <1>1, <1>2, <1>3, <1>5

-----------------------------------------------------------------------------
(* MapCodecs *)

Videos(codecs) == {i \in DOMAIN codecs : codecs[i].kind = "video"}

\* A list of codecs that share no payload type has one for every video codec.
LEMMA MappedAre ==
    ASSUME NEW codecs, AreCodecs(codecs), IsMappable(codecs)
    PROVE  LET places == Videos(codecs)
               mapped == MapCodecs(codecs)
           IN  /\ IsFiniteSet(places) /\ Cardinality(places) \in Nat
               /\ DOMAIN mapped = 1 .. Cardinality(places)
               /\ mapped = [i \in 1 .. Cardinality(places) |-> mapped[i]]
               /\ \A i \in DOMAIN mapped :
                      /\ Nth(places, i) \in places
                      /\ mapped[i] = Settings(codecs, codecs[Nth(places, i)])
               /\ \A i, j \in DOMAIN mapped : i < j => Nth(places, i) < Nth(places, j)
<1> DEFINE places == Videos(codecs)
           videos == Picked(codecs, places)
           mapped == MapCodecs(codecs)
           N == Cardinality(places)
<1>1. places \in SUBSET (1 .. Len(codecs)) /\ Len(codecs) \in Nat
  BY DEF Videos, AreCodecs
<1>2. /\ IsFiniteSet(places) /\ N \in Nat /\ \A i \in 1 .. N : Nth(places, i) \in places
      /\ \A i, j \in 1 .. N : i < j => Nth(places, i) < Nth(places, j)
  BY <1>1, NthIsIn
<1>3. mapped = [i \in DOMAIN videos |-> Settings(codecs, videos[i])]
  BY DEF MapCodecs, Videos
<1>4. DOMAIN videos = 1 .. N /\ \A i \in 1 .. N : videos[i] = codecs[Nth(places, i)]
  BY DEF Picked
<1> HIDE DEF videos, places, mapped
<1>5. /\ DOMAIN mapped = 1 .. N
      /\ \A i \in 1 .. N : mapped[i] = Settings(codecs, codecs[Nth(places, i)])
  BY <1>3, <1>4
<1>6. mapped = [i \in 1 .. N |-> mapped[i]]
  BY <1>3, <1>5
<1> QED BY <1>2, <1>5, <1>6 DEF mapped, places

\* The payload types of a list are those of its codecs.
LEMMA TypesAreOfCodecs ==
    ASSUME NEW codecs, AreCodecs(codecs)
    PROVE  /\ \A kind : \/ FirstOf(codecs, kind) = -1
                        \/ \E k \in DOMAIN codecs : /\ codecs[k].kind = kind
                                                    /\ codecs[k].id = FirstOf(codecs, kind)
           /\ \A id : LET type == TypeAt(codecs, RtxOf(codecs, id))
                      IN  \/ type = -1
                          \/ \E k \in DOMAIN codecs : /\ codecs[k].kind = "rtx"
                                                      /\ codecs[k].params["apt"] = id
                                                      /\ codecs[k].id = type
<1>1. DOMAIN codecs = 1 .. Len(codecs) /\ Len(codecs) \in Nat
  BY DEF AreCodecs
<1>2. ASSUME NEW kind
      PROVE  \/ FirstOf(codecs, kind) = -1
             \/ \E k \in DOMAIN codecs : /\ codecs[k].kind = kind
                                         /\ codecs[k].id = FirstOf(codecs, kind)
  <2> DEFINE at == {i \in DOMAIN codecs : codecs[i].kind = kind}
  <2>1. CASE at # {}
    <3>1. at \in SUBSET Nat
      BY <1>1
    <3>2. Min(at) \in at
      BY <2>1, <3>1, MinIsIn
    <3> QED BY <2>1, <3>2 DEF FirstOf
  <2> QED BY <2>1 DEF FirstOf
<1>3. ASSUME NEW id, TypeAt(codecs, RtxOf(codecs, id)) # -1
      PROVE  \E k \in DOMAIN codecs : /\ codecs[k].kind = "rtx" /\ codecs[k].params["apt"] = id
                                      /\ codecs[k].id = TypeAt(codecs, RtxOf(codecs, id))
  <2> DEFINE at == {i \in DOMAIN codecs : codecs[i].kind = "rtx" /\ codecs[i].params["apt"] = id}
  <2>1. at # {} /\ RtxOf(codecs, id) = Max(at)
    BY <1>3 DEF RtxOf, TypeAt
  <2>2. Max(at) \in at
    BY <1>1, <2>1, MaxIsIn
  <2>3. TypeAt(codecs, RtxOf(codecs, id)) = codecs[Max(at)].id
    BY <1>3, <2>1 DEF TypeAt
  <2> QED BY <2>2, <2>3
<1> QED BY <1>2, <1>3

\* Two codecs that were accepted share no payload type.
LEMMA MappedShareNoType ==
    ASSUME NEW codecs, AreCodecs(codecs)
    PROVE  LET mapped == MapCodecs(codecs)
               Types(s) == {s.codec.id, s.rtx} \ {-1}
               Fec(s) == {s.ulpfec.red, s.ulpfec.ulpfec, s.ulpfec.redRtx, s.flexfec} \ {-1}
           IN  \A i, j \in DOMAIN mapped :
                   /\ i # j => Types(mapped[i]) \cap Types(mapped[j]) = {}
                   /\ Types(mapped[i]) \cap Fec(mapped[i]) = {}
<1> DEFINE mapped == MapCodecs(codecs)
           Types(s) == {s.codec.id, s.rtx} \ {-1}
           Fec(s) == {s.ulpfec.red, s.ulpfec.ulpfec, s.ulpfec.redRtx, s.flexfec} \ {-1}
           Rtx(id) == TypeAt(codecs, RtxOf(codecs, id))
           Is(k, kind, type) == codecs[k].kind = kind /\ codecs[k].id = type
<1>1. CASE ~IsMappable(codecs)
  BY <1>1 DEF MapCodecs
<1>2. CASE IsMappable(codecs)
  <2>1. \A k, l \in DOMAIN codecs : codecs[k].id = codecs[l].id => k = l
    BY <1>2 DEF IsMappable
  <2>2. ASSUME NEW k \in Videos(codecs), NEW l \in Videos(codecs)
        PROVE  LET s == Settings(codecs, codecs[k])
                   t == Settings(codecs, codecs[l])
               IN  /\ k # l => Types(s) \cap Types(t) = {}
                   /\ Types(s) \cap Fec(s) = {}
    <3> DEFINE red == FirstOf(codecs, "red")
               redRtx == IF red = -1 THEN -1 ELSE Rtx(red)
    <3>1. /\ k \in DOMAIN codecs /\ l \in DOMAIN codecs
          /\ codecs[k].kind = "video" /\ codecs[l].kind = "video"
      BY DEF Videos
    <3>2. \A kind : \/ FirstOf(codecs, kind) = -1
                    \/ \E m \in DOMAIN codecs : Is(m, kind, FirstOf(codecs, kind))
      BY TypesAreOfCodecs
    <3>3. \A id : \/ Rtx(id) = -1
                  \/ \E m \in DOMAIN codecs : Is(m, "rtx", Rtx(id)) /\ codecs[m].params["apt"] = id
      BY TypesAreOfCodecs
    <3> HIDE DEF Rtx
    <3>4. ASSUME k # l
          PROVE  {codecs[k].id, Rtx(codecs[k].id)} \cap {codecs[l].id, Rtx(codecs[l].id)}
                     \subseteq {-1}
      BY <2>1, <3>1, <3>3, <3>4
    <3>5. {codecs[k].id, Rtx(codecs[k].id)}
              \cap {red, FirstOf(codecs, "ulpfec"), redRtx, FirstOf(codecs, "flexfec")}
              \subseteq {-1}
      <4>1. codecs[k].id \notin {red, FirstOf(codecs, "ulpfec"), FirstOf(codecs, "flexfec")} \ {-1}
        BY <2>1, <3>1, <3>2
      <4>2. codecs[k].id # redRtx \/ redRtx = -1
        BY <2>1, <3>1, <3>3
      <4>3. Rtx(codecs[k].id)
                \notin {red, FirstOf(codecs, "ulpfec"), FirstOf(codecs, "flexfec")} \ {-1}
        BY <2>1, <3>2, <3>3
      <4>4. Rtx(codecs[k].id) # redRtx \/ redRtx = -1
        <5>1. red # -1 => red # codecs[k].id
          BY <4>1
        <5> HIDE DEF red
        <5> QED BY <2>1, <3>3, <5>1
      <4> QED BY <4>1, <4>2, <4>3, <4>4
    <3>6. ASSUME NEW c
          PROVE  LET s == Settings(codecs, c)
                 IN  /\ s.codec = c /\ s.rtx = Rtx(c.id) /\ s.ulpfec.red = red
                     /\ s.ulpfec.ulpfec = FirstOf(codecs, "ulpfec") /\ s.ulpfec.redRtx = redRtx
                     /\ s.flexfec = FirstOf(codecs, "flexfec")
      BY DEF Settings, Rtx
    <3> HIDE DEF red, redRtx
    <3> QED BY <3>4, <3>5, <3>6
  <2>3. \A i \in DOMAIN mapped : \E k \in Videos(codecs) : mapped[i] = Settings(codecs, codecs[k])
    BY <1>2, MappedAre
  <2>4. ASSUME NEW i \in DOMAIN mapped, NEW j \in DOMAIN mapped
        PROVE  /\ i # j => Types(mapped[i]) \cap Types(mapped[j]) = {}
               /\ Types(mapped[i]) \cap Fec(mapped[i]) = {}
    <3> DEFINE k == Nth(Videos(codecs), i)
               l == Nth(Videos(codecs), j)
    <3>1. /\ k \in Videos(codecs) /\ l \in Videos(codecs)
          /\ mapped[i] = Settings(codecs, codecs[k]) /\ mapped[j] = Settings(codecs, codecs[l])
      BY <1>2, MappedAre
    <3>2. i # j => k # l
      <4>1. i \in Nat /\ j \in Nat /\ k \in Nat /\ l \in Nat
        <5>1. DOMAIN mapped = 1 .. Cardinality(Videos(codecs))
          BY <1>2, MappedAre
        <5>2. DOMAIN codecs \subseteq Nat
          BY DEF AreCodecs
        <5> QED BY <3>1, <5>1, <5>2 DEF Videos
      <4>2. i < j => k < l
        BY <1>2, MappedAre
      <4>3. j < i => l < k
        BY <1>2, MappedAre
      <4> QED BY <4>1, <4>2, <4>3
    <3> HIDE DEF k, l, mapped
    <3> QED BY <2>2, <3>1, <3>2
  <2> QED BY <2>4
<1> QED BY <1>1, <1>2

\* A codec that was accepted is one of the list, and no other has its type.
LEMMA MappedAreOfList ==
    ASSUME NEW codecs, AreCodecs(codecs)
    PROVE  LET mapped == MapCodecs(codecs)
           IN  /\ \E n \in Nat : DOMAIN mapped = 1 .. n /\ mapped = [i \in 1 .. n |-> mapped[i]]
               /\ \A i \in DOMAIN mapped : \E k \in DOMAIN codecs :
                      mapped[i] = Settings(codecs, codecs[k]) /\ mapped[i].codec = codecs[k]
               /\ \A i, j \in DOMAIN mapped : mapped[i].codec.id = mapped[j].codec.id => i = j
<1> DEFINE mapped == MapCodecs(codecs)
           places == Videos(codecs)
<1>1. CASE ~IsMappable(codecs)
  <2>1. mapped = <<>>
    BY <1>1 DEF MapCodecs
  <2>2. DOMAIN mapped = {} /\ {} = 1 .. 0 /\ 0 \in Nat
    BY <2>1
  <2>3. mapped = [i \in 1 .. 0 |-> mapped[i]]
    BY <2>1, <2>2
  <2> HIDE DEF mapped
  <2>4. \E n \in Nat : DOMAIN mapped = 1 .. n /\ mapped = [i \in 1 .. n |-> mapped[i]]
    BY <2>2, <2>3
  <2> QED BY <2>2, <2>4 DEF mapped
<1>2. CASE IsMappable(codecs)
  <2>1. /\ Cardinality(places) \in Nat /\ DOMAIN mapped = 1 .. Cardinality(places)
        /\ mapped = [i \in 1 .. Cardinality(places) |-> mapped[i]]
        /\ \A i \in DOMAIN mapped :
               Nth(places, i) \in places /\ mapped[i] = Settings(codecs, codecs[Nth(places, i)])
        /\ \A i, j \in DOMAIN mapped : i < j => Nth(places, i) < Nth(places, j)
    BY <1>2, MappedAre
  <2>2. \A k \in places : k \in DOMAIN codecs /\ k \in Nat
    BY DEF AreCodecs, Videos
  <2>3. \A i \in DOMAIN mapped : mapped[i].codec = codecs[Nth(places, i)]
    BY <2>1 DEF Settings
  <2>4. ASSUME NEW i \in DOMAIN mapped, NEW j \in DOMAIN mapped,
               mapped[i].codec.id = mapped[j].codec.id
        PROVE  i = j
    <3>1. Nth(places, i) = Nth(places, j)
      BY <1>2, <2>1, <2>2, <2>3, <2>4 DEF IsMappable
    <3>2. Nth(places, i) \in Nat /\ i \in Nat /\ j \in Nat
      BY <2>1, <2>2
    <3> QED BY <2>1, <3>1, <3>2
  <2> HIDE DEF mapped, places
  <2>5. \A i \in DOMAIN mapped : \E k \in DOMAIN codecs :
            mapped[i] = Settings(codecs, codecs[k]) /\ mapped[i].codec = codecs[k]
    BY <2>1, <2>2, <2>3
  <2> QED BY <2>1, <2>4, <2>5 DEF mapped
<1> QED BY <1>1, <1>2

\* What is selected is the remote codec, with more parameters.
LEMMA MergedKeeps ==
    ASSUME NEW codecs, NEW c, DOMAIN c = {"name", "id", "kind", "params"}, NEW format
    PROVE  LET m == Merged(Settings(codecs, c), format)
           IN  m.codec.id = c.id /\ m.codec.name = c.name
<1> DEFINE s == Settings(codecs, c)
           x == [p \in DOMAIN s.codec.params \cup DOMAIN format.params |->
                   IF p \in DOMAIN s.codec.params THEN s.codec.params[p] ELSE format.params[p]]
<1>1. DOMAIN s = {"codec", "ulpfec", "flexfec", "rtx", "rtxTime"} /\ s.codec = c
  BY DEF Settings
<1>2. Merged(s, format) = [s EXCEPT !.codec.params = x]
  BY DEF Merged
<1> HIDE DEF s, x
<1>3. [s EXCEPT !.codec.params = x].codec = [c EXCEPT !.params = x]
  BY <1>1
<1>4. [c EXCEPT !.params = x].id = c.id /\ [c EXCEPT !.params = x].name = c.name
  OBVIOUS
<1> QED BY <1>2, <1>3, <1>4 DEF s

\* The turns of the loops are in order, and no format is found twice.
LEMMA FoundInOrder ==
    ASSUME NEW remote, NEW formats, NEW n \in Nat, DOMAIN remote = 1 .. n,
           NEW l \in Nat, DOMAIN formats = 1 .. l
    PROVE  LET found == Found(remote, formats)
               turns == {pq \in found \X found :
                            \/ pq[1][1] < pq[2][1]
                            \/ pq[1][1] = pq[2][1] /\ pq[1][2] < pq[2][2]}
               At(i) == InOrder(found, turns, i)
           IN  /\ Cardinality(found) \in Nat
               /\ \A i \in 1 .. Cardinality(found) :
                      /\ At(i)[1] \in 1 .. n /\ At(i)[2] \in 1 .. l
                      /\ IsSameCodec(formats[At(i)[2]], remote[At(i)[1]].codec)
               /\ \A i, j \in 1 .. Cardinality(found) : i < j => At(i)[1] <= At(j)[1]
               /\ \A i, j \in 1 .. Cardinality(found) : At(i)[2] = At(j)[2] => i = j
<1> DEFINE found == Found(remote, formats)
           Earlier(p, q) == p[1] < q[1] \/ (p[1] = q[1] /\ p[2] < q[2])
           turns == {pq \in found \X found :
                        \/ pq[1][1] < pq[2][1]
                        \/ pq[1][1] = pq[2][1] /\ pq[1][2] < pq[2][2]}
           At(i) == InOrder(found, turns, i)
<1>1. \A p \in found : /\ p = <<p[1], p[2]>> /\ p[1] \in 1 .. n /\ p[2] \in 1 .. l
                       /\ IsSameCodec(formats[p[2]], remote[p[1]].codec)
                       /\ \A r \in 1 .. p[1] - 1 : ~IsSameCodec(formats[p[2]], remote[r].codec)
  BY DEF Found
<1>2. IsFiniteSet(found)
  <2>1. IsFiniteSet(1 .. n) /\ IsFiniteSet(1 .. l)
    BY FS_Interval
  <2>2. IsFiniteSet((1 .. n) \X (1 .. l))
    BY <2>1, FS_Product
  <2>3. found \in SUBSET ((1 .. n) \X (1 .. l))
    BY DEF Found
  <2> QED BY <2>2, <2>3, FS_Subset
<1>3. \A p, q \in found : <<p, q>> \in turns <=> Earlier(p, q)
  OBVIOUS
<1> HIDE DEF found, turns
<1>4. /\ \A p \in found : ~Earlier(p, p)
      /\ \A p, q, r \in found : Earlier(p, q) /\ Earlier(q, r) => Earlier(p, r)
      /\ \A p, q \in found : p = q \/ Earlier(p, q) \/ Earlier(q, p)
  <2>1. \A p \in found : p[1] \in Nat /\ p[2] \in Nat
    BY <1>1
  <2>2. \A p, q \in found : p[1] = q[1] /\ p[2] = q[2] => p = q
    BY <1>1
  <2>3. \A p, q, r \in found : Earlier(p, q) /\ Earlier(q, r) => Earlier(p, r)
    BY <2>1
  <2>4. \A p, q \in found : p = q \/ Earlier(p, q) \/ Earlier(q, p)
    BY <2>1, <2>2
  <2> QED BY <2>1, <2>3, <2>4
<1>5. /\ \A p \in found : <<p, p>> \notin turns
      /\ \A p, q, r \in found : <<p, q>> \in turns /\ <<q, r>> \in turns => <<p, r>> \in turns
      /\ \A p, q \in found : p = q \/ <<p, q>> \in turns \/ <<q, p>> \in turns
  <2> HIDE DEF Earlier
  <2> QED BY <1>3, <1>4
<1>6. /\ Cardinality(found) \in Nat
      /\ \A i \in 1 .. Cardinality(found) : At(i) \in found
      /\ \A i, j \in 1 .. Cardinality(found) : i < j => <<At(i), At(j)>> \in turns
  BY <1>2, <1>5, Ranked
<1> HIDE DEF At
<1>7. \A i, j \in 1 .. Cardinality(found) : i < j => Earlier(At(i), At(j))
  <2> HIDE DEF Earlier
  <2> QED BY <1>3, <1>6
<1>8. \A i, j \in 1 .. Cardinality(found) : i < j => At(i)[1] <= At(j)[1]
  <2>1. \A i \in 1 .. Cardinality(found) : At(i)[1] \in Nat
    BY <1>1, <1>6
  <2> QED BY <1>7, <2>1
<1>9. ASSUME NEW i \in 1 .. Cardinality(found), NEW j \in 1 .. Cardinality(found),
             At(i)[2] = At(j)[2]
      PROVE  i = j
  <2>1. At(i) \in found /\ At(j) \in found
    BY <1>6
  <2>2. At(i)[1] \in Nat /\ At(j)[1] \in Nat /\ At(i)[1] >= 1 /\ At(j)[1] >= 1
    BY <1>1, <2>1
  <2>3. ~(At(i)[1] < At(j)[1])
    <3>1. SUFFICES ASSUME At(i)[1] < At(j)[1] PROVE FALSE
      OBVIOUS
    <3>2. At(i)[1] \in 1 .. At(j)[1] - 1
      BY <2>2, <3>1
    <3> QED BY <1>1, <1>9, <2>1, <3>2
  <2>4. ~(At(j)[1] < At(i)[1])
    <3>1. SUFFICES ASSUME At(j)[1] < At(i)[1] PROVE FALSE
      OBVIOUS
    <3>2. At(j)[1] \in 1 .. At(i)[1] - 1
      BY <2>2, <3>1
    <3> QED BY <1>1, <1>9, <2>1, <3>2
  <2>5. At(i)[2] \in Nat /\ At(j)[2] \in Nat
    BY <1>1, <2>1
  <2>6. ~Earlier(At(i), At(j)) /\ ~Earlier(At(j), At(i))
    BY <1>9, <2>3, <2>4, <2>5
  <2>7. ~(i < j) /\ ~(j < i)
    <3> HIDE DEF Earlier
    <3> QED BY <1>7, <2>6
  <2> QED BY <2>7
<1>10. \A i \in 1 .. Cardinality(found) :
           /\ At(i)[1] \in 1 .. n /\ At(i)[2] \in 1 .. l
           /\ IsSameCodec(formats[At(i)[2]], remote[At(i)[1]].codec)
  BY <1>1, <1>6
<1> QED BY <1>6, <1>8, <1>9, <1>10 DEF At, found, turns

\* The codecs to send with are the other side's, in its order, and no more of a
\* name than there are local formats of it.
LEMMA SelectedAre ==
    ASSUME NEW codecs, AreCodecs(codecs), NEW formats, formats \in Seq(ToSet(formats))
    PROVE  LET remote == MapCodecs(codecs)
               out == SelectSendVideoCodecs(remote, formats)
               At(s) == CHOOSE i \in DOMAIN remote : remote[i].codec.id = s.codec.id
               Sent(name) == {i \in DOMAIN out : out[i].codec.name = name}
           IN  /\ \A i, j \in DOMAIN out : i < j => At(out[i]) <= At(out[j])
               /\ \A i \in DOMAIN out :
                      Cardinality(Sent(out[i].codec.name))
                          <= Cardinality({k \in DOMAIN formats :
                                             formats[k].name = out[i].codec.name})
<1> DEFINE remote == MapCodecs(codecs)
           out == SelectSendVideoCodecs(remote, formats)
           found == Found(remote, formats)
           turns == {pq \in found \X found :
                        \/ pq[1][1] < pq[2][1]
                        \/ pq[1][1] = pq[2][1] /\ pq[1][2] < pq[2][2]}
           Turn(n) == InOrder(found, turns, n)
           N == Cardinality(found)
           At(s) == CHOOSE i \in DOMAIN remote : remote[i].codec.id = s.codec.id
           Sent(name) == {i \in DOMAIN out : out[i].codec.name = name}
           Local(name) == {k \in DOMAIN formats : formats[k].name = name}
<1>1. PICK n \in Nat : DOMAIN remote = 1 .. n
  BY MappedAreOfList
<1>2. Len(formats) \in Nat /\ DOMAIN formats = 1 .. Len(formats)
  OBVIOUS
<1>3. /\ \A i \in DOMAIN remote : \E k \in DOMAIN codecs :
             remote[i] = Settings(codecs, codecs[k]) /\ remote[i].codec = codecs[k]
      /\ \A i, j \in DOMAIN remote : remote[i].codec.id = remote[j].codec.id => i = j
  BY MappedAreOfList
<1>4. out = [i \in 1 .. N |-> Merged(remote[Turn(i)[1]], formats[Turn(i)[2]])]
  BY DEF SelectSendVideoCodecs
<1> HIDE DEF remote
<1>5. /\ N \in Nat
      /\ \A i \in 1 .. N : /\ Turn(i)[1] \in 1 .. n /\ Turn(i)[2] \in DOMAIN formats
                           /\ IsSameCodec(formats[Turn(i)[2]], remote[Turn(i)[1]].codec)
      /\ \A i, j \in 1 .. N : i < j => Turn(i)[1] <= Turn(j)[1]
      /\ \A i, j \in 1 .. N : Turn(i)[2] = Turn(j)[2] => i = j
  BY <1>1, <1>2, FoundInOrder
<1> HIDE DEF Turn, N, out
<1>6. DOMAIN out = 1 .. N
  BY <1>4
<1>7. ASSUME NEW i \in 1 .. N
      PROVE  /\ out[i].codec.id = remote[Turn(i)[1]].codec.id
             /\ out[i].codec.name = remote[Turn(i)[1]].codec.name
  <2>1. Turn(i)[1] \in DOMAIN remote
    BY <1>1, <1>5
  <2>2. PICK k \in DOMAIN codecs : /\ remote[Turn(i)[1]] = Settings(codecs, codecs[k])
                                   /\ remote[Turn(i)[1]].codec = codecs[k]
    BY <1>3, <2>1
  <2>3. DOMAIN codecs[k] = {"name", "id", "kind", "params"}
    BY DEF AreCodecs
  <2>4. out[i] = Merged(Settings(codecs, codecs[k]), formats[Turn(i)[2]])
    BY <1>4, <2>2
  <2> QED BY <2>2, <2>3, <2>4, MergedKeeps
<1>8. ASSUME NEW i \in 1 .. N PROVE At(out[i]) = Turn(i)[1]
  <2>1. Turn(i)[1] \in DOMAIN remote
    BY <1>1, <1>5
  <2> QED BY <1>3, <1>7, <2>1
<1>9. \A i, j \in DOMAIN out : i < j => At(out[i]) <= At(out[j])
  <2> HIDE DEF At
  <2> QED BY <1>5, <1>6, <1>8
<1>10. ASSUME NEW name PROVE Cardinality(Sent(name)) <= Cardinality(Local(name))
  <2> DEFINE f == [i \in Sent(name) |-> Turn(i)[2]]
  <2>1. IsFiniteSet(Local(name))
    <3>1. IsFiniteSet(1 .. Len(formats))
      BY <1>2, FS_Interval
    <3> QED BY <1>2, <3>1, FS_Subset
  <2>2. ASSUME NEW i \in Sent(name) PROVE i \in 1 .. N /\ Turn(i)[2] \in Local(name)
    <3>1. i \in 1 .. N /\ out[i].codec.name = name
      BY <1>6
    <3>2. formats[Turn(i)[2]].name = remote[Turn(i)[1]].codec.name
      BY <1>5, <3>1 DEF IsSameCodec
    <3> QED BY <1>5, <1>7, <3>1, <3>2
  <2> HIDE DEF Sent, Local
  <2>3. f \in Injection(Sent(name), Local(name))
    BY <1>5, <2>2 DEF Injection, IsInjective
  <2> QED BY <2>1, <2>3, FS_Injection
<1> QED BY <1>9, <1>10 DEF remote, out

-----------------------------------------------------------------------------
(* GetPayloadTypesAndDefaultCodecs *)

\* The loop over the formats ends: what every turn leaves is defined.
LEMMA AssignedRuns ==
    ASSUME NEW all, Len(all) \in Nat
    PROVE  \E after : /\ after[0] = Unassigned
                      /\ \A n \in 1 .. Len(all) : after[n] = AddFormat(after[n - 1], all[n])
                      /\ Assigned(all) = after[Len(all)]
<1> DEFINE L == Len(all)
           Runs(g, m) == g = [n \in 0 .. m |-> IF n = 0 THEN Unassigned
                                               ELSE AddFormat(g[n - 1], all[n])]
           T == {m \in 0 .. L : ~\E g : Runs(g, m)}
<1>1. T = {}
  <2>1. SUFFICES ASSUME T # {} PROVE FALSE
    OBVIOUS
  <2>2. PICK m \in T : \A k \in T : m <= k
    <3>1. T \in SUBSET Nat
      OBVIOUS
    <3> HIDE DEF T
    <3> QED BY <2>1, <3>1, LeastNumber
  <2>3. m \in 0 .. L /\ ~\E g : Runs(g, m)
    BY <2>2
  <2>4. m # 0
    <3> DEFINE g == [n \in 0 .. 0 |-> Unassigned]
    <3>1. g = [n \in 0 .. 0 |-> IF n = 0 THEN Unassigned ELSE AddFormat(g[n - 1], all[n])]
      OBVIOUS
    <3> QED BY <2>3, <3>1
  <2>5. m - 1 \in 0 .. L /\ m - 1 \notin T
    <3>1. m \in Nat /\ m - 1 \in 0 .. L /\ ~(m <= m - 1)
      BY <2>3, <2>4
    <3> HIDE DEF T
    <3> QED BY <2>2, <3>1
  <2>6. PICK g : Runs(g, m - 1)
    BY <2>5
  <2> DEFINE h == [n \in 0 .. m |-> IF n = m THEN AddFormat(g[m - 1], all[m]) ELSE g[n]]
             r == [n \in 0 .. m |-> IF n = 0 THEN Unassigned ELSE AddFormat(h[n - 1], all[n])]
  <2>7. ASSUME NEW n \in 0 .. m PROVE h[n] = r[n]
    <3>1. CASE n = m
      <4>1. m - 1 \in 0 .. m /\ m - 1 # m
        BY <2>3, <2>4
      <4>2. h[m - 1] = g[m - 1]
        BY <4>1
      <4> QED BY <2>4, <3>1, <4>2
    <3>2. CASE n # m
      <4>1. n \in 0 .. m - 1
        BY <2>3, <3>2
      <4>2. g[n] = IF n = 0 THEN Unassigned ELSE AddFormat(g[n - 1], all[n])
        BY <2>6, <4>1
      <4>3. n # 0 => n - 1 \in 0 .. m /\ n - 1 # m
        BY <2>3, <4>1
      <4>4. n # 0 => h[n - 1] = g[n - 1]
        BY <4>3
      <4> QED BY <3>2, <4>2, <4>4
    <3> QED BY <3>1, <3>2
  <2>8. h = r
    BY <2>7
  <2> QED BY <2>3, <2>8
<1>2. \E g : Runs(g, L)
  BY <1>1
<1> DEFINE after == CHOOSE g : Runs(g, L)
<1>3. Runs(after, L)
  BY <1>2
<1>4. Assigned(all) = after[L]
  BY DEF Assigned
<1> HIDE DEF after
<1>5. after[0] = Unassigned /\ \A n \in 1 .. L : after[n] = AddFormat(after[n - 1], all[n])
  <2>1. \A n \in 0 .. L : after[n] = IF n = 0 THEN Unassigned ELSE AddFormat(after[n - 1], all[n])
    BY <1>3
  <2> QED BY <2>1
<1> QED BY <1>4, <1>5

\* A list is one of its own members.
LEMMA ListOfItself ==
    ASSUME NEW S, NEW list \in Seq(S)
    PROVE  list \in Seq(ToSet(list))
<1> DEFINE n == Len(list)
<1>1. n \in Nat /\ list = [i \in 1 .. n |-> list[i]] /\ DOMAIN list = 1 .. n
  OBVIOUS
<1>2. \A i \in 1 .. n : list[i] \in ToSet(list)
  BY <1>1 DEF ToSet
<1> HIDE DEF n
<1>3. [i \in 1 .. n |-> list[i]] \in Seq(ToSet(list))
  BY <1>1, <1>2
<1> QED BY <1>1, <1>3

\* The payload types that have been given out: those below the counters, each
\* to one codec, and an RTX codec is for one that came before it.
GoodOut(out, types) ==
    /\ types.lower \in FirstLower .. LastLower + 1 /\ types.upper \in FirstUpper .. LastUpper
    /\ AreCodecs(out)
    /\ \A i \in DOMAIN out :
           out[i].id \in (FirstLower .. types.lower - 1) \cup (FirstUpper .. types.upper - 1)
    /\ \A i, j \in DOMAIN out : out[i].id = out[j].id => i = j
    /\ \A i \in DOMAIN out : out[i].kind = "rtx" =>
           /\ HasParam(out[i], "apt")
           /\ \E j \in DOMAIN out : /\ out[j].id = out[i].params["apt"]
                                    /\ out[j].kind \in {"video", "red"}
    /\ \A i \in DOMAIN out : ValidateCodecFormat(out[i])

\* The next payload type is a new one.
LEMMA NextTypeIsNew ==
    ASSUME NEW out, NEW types, GoodOut(out, types), types.lower <= LastLower, NEW name
    PROVE  LET next == NextType(types, name)
           IN  /\ next.lower \in FirstLower .. LastLower + 1
               /\ next.upper \in FirstUpper .. LastUpper
               /\ next.lower >= types.lower /\ next.upper >= types.upper
               /\ next.id \in (FirstLower .. next.lower - 1) \cup (FirstUpper .. next.upper - 1)
               /\ \A i \in DOMAIN out : out[i].id # next.id
<1> DEFINE next == NextType(types, name)
<1>1. \/ /\ next.id = types.lower /\ next.lower = types.lower + 1 /\ next.upper = types.upper
      \/ /\ next.id = types.upper /\ next.lower = types.lower /\ next.upper = types.upper + 1
         /\ ~(types.upper >= LastUpper)
  BY DEF NextType
<1>2. types.lower \in 35 .. 63 /\ types.upper \in 96 .. 127
  BY DEF GoodOut, FirstLower, LastLower, FirstUpper, LastUpper
<1> HIDE DEF next
<1>3. /\ next.lower \in FirstLower .. LastLower + 1
      /\ next.upper \in FirstUpper .. LastUpper
      /\ next.lower >= types.lower /\ next.upper >= types.upper
      /\ next.id \in (FirstLower .. next.lower - 1) \cup (FirstUpper .. next.upper - 1)
  BY <1>1, <1>2 DEF FirstLower, LastLower, FirstUpper, LastUpper
<1>4. ASSUME NEW i \in DOMAIN out PROVE out[i].id # next.id
  <2>1. out[i].id \in (35 .. types.lower - 1) \cup (96 .. types.upper - 1)
    BY DEF GoodOut, FirstLower, FirstUpper
  <2> QED BY <1>1, <1>2, <2>1
<1> QED BY <1>3, <1>4 DEF next

\* A codec with the next payload type may be added.
LEMMA AddOne ==
    ASSUME NEW out, NEW types, GoodOut(out, types), types.lower <= LastLower,
           NEW name, NEW codec, DOMAIN codec = {"name", "id", "kind", "params"},
           codec.id = NextType(types, name).id,
           codec.kind = "rtx" =>
               /\ HasParam(codec, "apt")
               /\ \E j \in DOMAIN out : /\ out[j].id = codec.params["apt"]
                                        /\ out[j].kind \in {"video", "red"},
           codec.kind = "video" => ~HasParam(codec, "x-google-min-bitrate")
    PROVE  /\ GoodOut(Append(out, codec), NextType(types, name))
           /\ DOMAIN Append(out, codec) = 1 .. Len(out) + 1 /\ Len(out) \in Nat
           /\ Append(out, codec)[Len(out) + 1] = codec
           /\ \A i \in 1 .. Len(out) : Append(out, codec)[i] = out[i]
<1> DEFINE next == NextType(types, name)
           new == Append(out, codec)
           n == Len(out)
<1>1. /\ next.lower \in FirstLower .. LastLower + 1
      /\ next.upper \in FirstUpper .. LastUpper
      /\ next.lower >= types.lower /\ next.upper >= types.upper
      /\ next.id \in (FirstLower .. next.lower - 1) \cup (FirstUpper .. next.upper - 1)
      /\ \A i \in DOMAIN out : out[i].id # next.id
  BY NextTypeIsNew
<1>2. out \in Seq(ToSet(out)) /\ n \in Nat /\ DOMAIN out = 1 .. n
  BY DEF GoodOut, AreCodecs
<1>3. out \in Seq(ToSet(out) \cup {codec})
  BY <1>2
<1>4. /\ new \in Seq(ToSet(out) \cup {codec}) /\ DOMAIN new = 1 .. n + 1
      /\ new[n + 1] = codec /\ \A i \in 1 .. n : new[i] = out[i]
  BY <1>3
<1>5. new \in Seq(ToSet(new))
  BY <1>4, ListOfItself
<1> HIDE DEF new, next, n
<1>6. ASSUME NEW i \in DOMAIN new
      PROVE  (i = n + 1 /\ new[i] = codec) \/ (i \in DOMAIN out /\ new[i] = out[i])
  BY <1>2, <1>4
<1>7. codec.id \in Int
  BY <1>1 DEF FirstLower, LastLower, FirstUpper, LastUpper, next
<1>8. AreCodecs(new)
  BY <1>5, <1>6, <1>7 DEF AreCodecs, GoodOut
<1>9. ASSUME NEW i \in DOMAIN new
      PROVE  new[i].id \in (FirstLower .. next.lower - 1) \cup (FirstUpper .. next.upper - 1)
  <2>1. CASE new[i] = codec
    BY <1>1, <2>1 DEF next
  <2>2. CASE i \in DOMAIN out /\ new[i] = out[i]
    <3>1. out[i].id \in (FirstLower .. types.lower - 1) \cup (FirstUpper .. types.upper - 1)
      BY <2>2 DEF GoodOut
    <3>2. types.lower \in Int /\ types.upper \in Int /\ next.lower \in Int /\ next.upper \in Int
      BY <1>1 DEF GoodOut, FirstLower, LastLower, FirstUpper, LastUpper
    <3> QED BY <1>1, <2>2, <3>1, <3>2 DEF FirstLower, FirstUpper
  <2> QED BY <1>6, <2>1, <2>2
<1>10. ASSUME NEW i \in DOMAIN new, NEW j \in DOMAIN new, new[i].id = new[j].id PROVE i = j
  <2>1. \A k, l \in DOMAIN out : out[k].id = out[l].id => k = l
    BY DEF GoodOut
  <2>2. \A k \in DOMAIN out : out[k].id # codec.id
    BY <1>1 DEF next
  <2> QED BY <1>6, <1>10, <2>1, <2>2
<1>11. ASSUME NEW i \in DOMAIN new, new[i].kind = "rtx"
       PROVE  /\ HasParam(new[i], "apt")
              /\ \E j \in DOMAIN new : /\ new[j].id = new[i].params["apt"]
                                       /\ new[j].kind \in {"video", "red"}
  <2>1. \A j \in DOMAIN out : j \in DOMAIN new /\ new[j] = out[j]
    BY <1>2, <1>4
  <2>2. CASE new[i] = codec
    BY <1>11, <2>1, <2>2
  <2>3. CASE i \in DOMAIN out /\ new[i] = out[i]
    BY <1>11, <2>1, <2>3 DEF GoodOut
  <2> QED BY <1>6, <2>2, <2>3
<1>12. ASSUME NEW i \in DOMAIN new PROVE ValidateCodecFormat(new[i])
  <2>1. ValidateCodecFormat(codec)
    <3> DEFINE id == codec.id
               low == next.lower
               up == next.upper
    <3>1. /\ low \in 35 .. 64 /\ up \in 96 .. 127
          /\ id \in (35 .. low - 1) \cup (96 .. up - 1)
      BY <1>1 DEF next, FirstLower, LastLower, FirstUpper, LastUpper
    <3> HIDE DEF id, low, up
    <3>2. id \in 0 .. 127
      BY <3>1
    <3> QED BY <3>2 DEF ValidateCodecFormat, id
  <2>2. \A j \in DOMAIN out : ValidateCodecFormat(out[j])
    BY DEF GoodOut
  <2> QED BY <1>6, <2>1, <2>2
<1>13. GoodOut(new, next)
  BY <1>1, <1>8, <1>9, <1>10, <1>11, <1>12 DEF GoodOut
<1> QED BY <1>2, <1>4, <1>13 DEF new, next, n

\* What the turns of the loop leave; from the first one on there is a video
\* codec in front.
GoodTurn(acc, n) ==
    /\ DOMAIN acc = {"types", "out", "done"}
    /\ GoodOut(acc.out, acc.types)
    /\ n >= 1 => 1 \in DOMAIN acc.out /\ acc.out[1].kind = "video"

\* One turn.
LEMMA AddFormatIsGood ==
    ASSUME NEW acc, NEW n \in Nat, GoodTurn(acc, n), n = 0 => acc = Unassigned, NEW name,
           Kind(name) \in {"video", "red", "ulpfec"}, n = 0 => Kind(name) = "video"
    PROVE  GoodTurn(AddFormat(acc, name), n + 1)
<1> DEFINE first  == NextType(acc.types, name)
           codec  == Codec(name, first.id, NoParams)
           second == NextType(first, name)
           rtx    == Codec("rtx", second.id, [p \in {"apt"} |-> first.id])
           one    == Append(acc.out, codec)
           two    == Append(one, rtx)
           m      == Len(acc.out)
           new    == AddFormat(acc, name)
<1>1. CASE acc.done \/ acc.types.lower > LastLower
  <2>1. new = [acc EXCEPT !.done = TRUE]
    BY <1>1 DEF AddFormat
  <2>2. n # 0
    BY <1>1 DEF Unassigned, FirstLower, LastLower
  <2> HIDE DEF new
  <2>3. DOMAIN new = {"types", "out", "done"} /\ new.types = acc.types /\ new.out = acc.out
    BY <2>1 DEF GoodTurn
  <2>4. GoodTurn(new, n + 1)
    BY <2>2, <2>3 DEF GoodTurn
  <2> QED BY <2>4 DEF new
<1>2. CASE ~(acc.done \/ acc.types.lower > LastLower)
  <2>1. GoodOut(acc.out, acc.types) /\ DOMAIN acc = {"types", "out", "done"}
    BY DEF GoodTurn
  <2>2. acc.types.lower <= LastLower
    BY <1>2, <2>1 DEF GoodOut, FirstLower, LastLower
  <2>3. /\ DOMAIN codec = {"name", "id", "kind", "params"} /\ codec.id = first.id
        /\ codec.kind = Kind(name) /\ codec.kind # "rtx"
        /\ ~HasParam(codec, "x-google-min-bitrate")
    BY DEF Codec, HasParam, NoParams
  <2> HIDE DEF codec
  <2>4. /\ GoodOut(one, first) /\ DOMAIN one = 1 .. m + 1 /\ m \in Nat /\ one[m + 1] = codec
        /\ \A i \in 1 .. m : one[i] = acc.out[i]
    BY <2>1, <2>2, <2>3, AddOne
  <2>5. 1 \in DOMAIN one /\ one[1].kind = "video"
    <3>1. CASE n = 0
      <4>1. m = 0
        BY <3>1 DEF Unassigned
      <4> HIDE DEF m, one
      <4> QED BY <2>3, <2>4, <3>1, <4>1
    <3>2. CASE n # 0
      <4>1. 1 \in DOMAIN acc.out /\ acc.out[1].kind = "video"
        BY <3>2 DEF GoodTurn
      <4>2. DOMAIN acc.out = 1 .. m
        BY <2>1 DEF GoodOut, AreCodecs
      <4> HIDE DEF m, one
      <4> QED BY <2>4, <4>1, <4>2
    <3> QED BY <3>1, <3>2
  <2>6. CASE Kind(name) \in {"ulpfec", "flexfec"}
    <3>1. new = [acc EXCEPT !.types = first, !.out = one]
      BY <1>2, <2>6 DEF AddFormat, codec
    <3> HIDE DEF first, one, new
    <3>2. DOMAIN new = {"types", "out", "done"} /\ new.types = first /\ new.out = one
      BY <2>1, <3>1
    <3> QED BY <2>4, <2>5, <3>2 DEF GoodTurn, new
  <2>7. CASE Kind(name) \notin {"ulpfec", "flexfec"} /\ first.lower > LastLower
    <3>1. new = [types |-> first, out |-> one, done |-> TRUE]
      BY <1>2, <2>7 DEF AddFormat, codec
    <3> HIDE DEF first, one, new
    <3>2. DOMAIN new = {"types", "out", "done"} /\ new.types = first /\ new.out = one
      BY <3>1
    <3> QED BY <2>4, <2>5, <3>2 DEF GoodTurn, new
  <2>8. CASE Kind(name) \notin {"ulpfec", "flexfec"} /\ ~(first.lower > LastLower)
    <3>1. new = [acc EXCEPT !.types = second, !.out = acc.out \o <<codec, rtx>>]
      BY <1>2, <2>8 DEF AddFormat, codec
    <3>2. acc.out \o <<codec, rtx>> = two
      <4>1. acc.out \in Seq(ToSet(acc.out) \cup {codec, rtx})
        BY <2>1 DEF GoodOut, AreCodecs
      <4> HIDE DEF rtx
      <4> QED BY <4>1
    <3>3. first.lower <= LastLower
      <4>1. first.lower \in FirstLower .. LastLower + 1
        BY <2>4 DEF GoodOut
      <4>2. ~(first.lower > LastLower)
        BY <2>8
      <4> DEFINE low == first.lower
      <4>3. low \in 35 .. 64 /\ ~(low > 63)
        BY <4>1, <4>2 DEF FirstLower, LastLower
      <4> HIDE DEF low
      <4>4. low <= 63
        BY <4>3
      <4> QED BY <4>4 DEF low, LastLower
    <3>4. /\ DOMAIN rtx = {"name", "id", "kind", "params"} /\ rtx.id = second.id
          /\ HasParam(rtx, "apt") /\ rtx.params["apt"] = first.id
          /\ ~HasParam(rtx, "x-google-min-bitrate")
      BY DEF Codec, HasParam
    <3>5. \E j \in DOMAIN one : one[j].id = first.id /\ one[j].kind \in {"video", "red"}
      <4>1. m + 1 \in DOMAIN one
        BY <2>4
      <4>2. codec.kind \in {"video", "red"}
        BY <2>3, <2>8
      <4> HIDE DEF one, m
      <4> QED BY <2>3, <2>4, <4>1, <4>2
    <3> HIDE DEF rtx, one
    <3>6. /\ GoodOut(two, second) /\ DOMAIN two = 1 .. Len(one) + 1 /\ Len(one) \in Nat
          /\ \A i \in 1 .. Len(one) : two[i] = one[i]
      BY <2>4, <3>3, <3>4, <3>5, AddOne
    <3>7. 1 \in DOMAIN two /\ two[1].kind = "video"
      <4>1. DOMAIN one = 1 .. Len(one)
        BY <2>4 DEF GoodOut, AreCodecs
      <4> HIDE DEF two
      <4> QED BY <2>5, <3>6, <4>1
    <3> HIDE DEF two, second, new
    <3>8. DOMAIN new = {"types", "out", "done"} /\ new.types = second /\ new.out = two
      BY <2>1, <3>1, <3>2
    <3> QED BY <3>6, <3>7, <3>8 DEF GoodTurn, new
  <2> QED BY <2>6, <2>7, <2>8
<1> QED BY <1>1, <1>2

\* All turns.
LEMMA AssignedIsGood ==
    ASSUME NEW formats \in Seq(STRING), formats # <<>>,
           \A i \in DOMAIN formats : Kind(formats[i]) = "video"
    PROVE  \E acc : GoodTurn(acc, 1) /\ GetPayloadTypesAndDefaultCodecs(formats) = acc.out
<1> DEFINE all == formats \o <<"red", "ulpfec">>
           L == Len(all)
<1>1. /\ Len(formats) \in Nat /\ Len(formats) >= 1 /\ L = Len(formats) + 2
      /\ \A i \in 1 .. L : all[i] = IF i <= Len(formats) THEN formats[i]
                                    ELSE IF i = Len(formats) + 1 THEN "red" ELSE "ulpfec"
  OBVIOUS
<1>2. ASSUME NEW i \in 1 .. L
      PROVE  Kind(all[i]) \in {"video", "red", "ulpfec"} /\ (i = 1 => Kind(all[i]) = "video")
  <2>1. Kind("red") = "red" /\ Kind("ulpfec") = "ulpfec"
    BY DEF Kind
  <2> HIDE DEF all, L
  <2> QED BY <1>1, <2>1
<1> HIDE DEF all
<1>3. L \in Nat /\ L >= 1
  BY <1>1
<1>4. PICK after : /\ after[0] = Unassigned
                   /\ \A n \in 1 .. L : after[n] = AddFormat(after[n - 1], all[n])
                   /\ Assigned(all) = after[L]
  BY <1>3, AssignedRuns
<1> DEFINE T == {n \in 0 .. L : ~GoodTurn(after[n], n)}
<1>5. T = {}
  <2>1. SUFFICES ASSUME T # {} PROVE FALSE
    OBVIOUS
  <2>a. T \in SUBSET Nat
    BY <1>3
  <2>2. PICK n \in T : \A k \in T : n <= k
    <3> HIDE DEF T
    <3> QED BY <2>1, <2>a, LeastNumber
  <2>3. n \in 0 .. L /\ ~GoodTurn(after[n], n)
    BY <2>2
  <2>4. n # 0
    <3>1. GoodTurn(Unassigned, 0)
      <4>1. /\ DOMAIN Unassigned = {"types", "out", "done"} /\ Unassigned.out = <<>>
            /\ Unassigned.types.lower = FirstLower /\ Unassigned.types.upper = FirstUpper
        BY DEF Unassigned
      <4>2. GoodOut(<<>>, Unassigned.types)
        BY <4>1 DEF GoodOut, AreCodecs, ToSet, FirstLower, LastLower, FirstUpper, LastUpper
      <4> QED BY <4>1, <4>2 DEF GoodTurn
    <3> QED BY <1>4, <2>3, <3>1
  <2>5. n - 1 \in Nat /\ n - 1 \in 0 .. L /\ n \in 1 .. L /\ ~(n <= n - 1) /\ (n - 1) + 1 = n
    BY <1>3, <2>3, <2>4
  <2>6. GoodTurn(after[n - 1], n - 1)
    BY <2>2, <2>5
  <2>7. n - 1 = 0 => after[n - 1] = Unassigned /\ n = 1
    BY <1>4, <2>5
  <2>8. GoodTurn(AddFormat(after[n - 1], all[n]), (n - 1) + 1)
    BY <1>2, <2>5, <2>6, <2>7, AddFormatIsGood
  <2> QED BY <1>4, <2>3, <2>5, <2>8
<1>6. GoodTurn(after[L], L)
  BY <1>3, <1>5
<1>7. GoodTurn(after[L], 1) /\ GetPayloadTypesAndDefaultCodecs(formats) = after[L].out
  BY <1>3, <1>4, <1>6 DEF GoodTurn, GetPayloadTypesAndDefaultCodecs, all
<1> QED BY <1>7

\* An engine's own codecs.
LEMMA OwnAreAccepted ==
    ASSUME NEW formats \in Seq(STRING), formats # <<>>,
           \A i \in DOMAIN formats : Kind(formats[i]) = "video"
    PROVE  LET out == GetPayloadTypesAndDefaultCodecs(formats)
               codecs == ToSet(out)
           IN  /\ {c.id : c \in codecs} \subseteq (FirstLower .. LastLower)
                                                \cup (FirstUpper .. LastUpper)
               /\ Len(MapCodecs(out)) = Cardinality({c \in codecs : c.kind = "video"})
               /\ ValidateCodecFormats(out)
<1> DEFINE out == GetPayloadTypesAndDefaultCodecs(formats)
           V == {c \in ToSet(out) : c.kind = "video"}
<1>1. PICK acc : GoodTurn(acc, 1) /\ out = acc.out
  BY AssignedIsGood
<1> HIDE DEF out
<1>2. /\ GoodOut(out, acc.types) /\ AreCodecs(out)
      /\ 1 \in DOMAIN out /\ out[1].kind = "video"
  BY <1>1 DEF GoodTurn, GoodOut
<1>3. ASSUME NEW i \in DOMAIN out
      PROVE  out[i].id \in (FirstLower .. LastLower) \cup (FirstUpper .. LastUpper)
  <2>1. out[i].id \in (FirstLower .. acc.types.lower - 1) \cup (FirstUpper .. acc.types.upper - 1)
    BY <1>2 DEF GoodOut
  <2>2. /\ acc.types.lower \in FirstLower .. LastLower + 1
        /\ acc.types.upper \in FirstUpper .. LastUpper
    BY <1>2 DEF GoodOut
  <2> DEFINE id == out[i].id
             low == acc.types.lower
             up == acc.types.upper
  <2>3. /\ low \in 35 .. 64 /\ up \in 96 .. 127
        /\ id \in (35 .. low - 1) \cup (96 .. up - 1)
    BY <2>1, <2>2 DEF FirstLower, LastLower, FirstUpper, LastUpper
  <2> HIDE DEF id, low, up
  <2>4. id \in (35 .. 63) \cup (96 .. 127)
    BY <2>3
  <2> QED BY <2>4 DEF id, FirstLower, LastLower, FirstUpper, LastUpper
<1>4. IsMappable(out)
  <2>1. \A i, j \in DOMAIN out : i # j => out[i].id # out[j].id
    BY <1>2 DEF GoodOut
  <2>2. ASSUME NEW i \in DOMAIN out, out[i].kind = "rtx"
        PROVE  /\ HasParam(out[i], "apt") /\ out[i].params["apt"] \in 0 .. 127
               /\ \E j \in DOMAIN out : /\ out[j].id = out[i].params["apt"]
                                        /\ out[j].kind \in {"video", "red"}
    <3>1. HasParam(out[i], "apt")
      BY <1>2, <2>2 DEF GoodOut
    <3>2. PICK j \in DOMAIN out : /\ out[j].id = out[i].params["apt"]
                                  /\ out[j].kind \in {"video", "red"}
      BY <1>2, <2>2 DEF GoodOut
    <3>3. out[j].id \in 0 .. 127
      BY <1>3 DEF FirstLower, LastLower, FirstUpper, LastUpper
    <3> QED BY <3>1, <3>2, <3>3
  <2> QED BY <2>1, <2>2 DEF IsMappable
<1>5. /\ IsFiniteSet(Videos(out)) /\ Cardinality(Videos(out)) \in Nat
      /\ Len(MapCodecs(out)) = Cardinality(Videos(out))
  <2> DEFINE mapped == MapCodecs(out)
             N == Cardinality(Videos(out))
  <2>1. /\ IsFiniteSet(Videos(out)) /\ N \in Nat
        /\ mapped = [i \in 1 .. N |-> mapped[i]]
    BY <1>2, <1>4, MappedAre
  <2> HIDE DEF mapped, N
  <2>2. Len([i \in 1 .. N |-> mapped[i]]) = N
    BY <2>1
  <2> QED BY <2>1, <2>2 DEF mapped, N
<1>6. Cardinality(V) = Cardinality(Videos(out))
  <2> DEFINE f == [i \in Videos(out) |-> out[i]]
  <2>1. \A i, j \in DOMAIN out : out[i] = out[j] => i = j
    BY <1>2 DEF GoodOut
  <2>2. f \in Bijection(Videos(out), V)
    BY <2>1 DEF Bijection, Injection, Surjection, IsInjective, Videos, ToSet
  <2>3. ExistsBijection(Videos(out), V)
    BY <2>2 DEF ExistsBijection
  <2> QED BY <1>5, <2>3, FS_Bijection
<1>7. ValidateCodecFormats(out)
  BY <1>2 DEF ValidateCodecFormats, GoodOut
<1>8. \A c \in ToSet(out) : c.id \in (FirstLower .. LastLower) \cup (FirstUpper .. LastUpper)
  BY <1>3 DEF ToSet
<1> QED BY <1>5, <1>6, <1>7, <1>8 DEF out

-----------------------------------------------------------------------------
(* What the channel gets from them *)

\* A list that is a function of places is one of its own members.
LEMMA ListOfPlaces ==
    ASSUME NEW n \in Nat, NEW list, list = [i \in 1 .. n |-> list[i]]
    PROVE  DOMAIN list = 1 .. n /\ list \in Seq(ToSet(list))
<1>1. DOMAIN list = 1 .. n
  OBVIOUS
<1>2. \A i \in 1 .. n : list[i] \in ToSet(list)
  BY <1>1 DEF ToSet
<1>3. [i \in 1 .. n |-> list[i]] \in Seq(ToSet(list))
  BY <1>2
<1> QED BY <1>1, <1>3

\* A codec that was selected is a record that holds its own parameters.
LEMMA MergedHoldsParams ==
    ASSUME NEW codecs, NEW c, DOMAIN c = {"name", "id", "kind", "params"}, NEW format
    PROVE  LET m == Merged(Settings(codecs, c), format)
           IN  [m EXCEPT !.codec.params = m.codec.params] = m
<1> DEFINE s == Settings(codecs, c)
           x == [p \in DOMAIN s.codec.params \cup DOMAIN format.params |->
                   IF p \in DOMAIN s.codec.params THEN s.codec.params[p] ELSE format.params[p]]
           m == [s EXCEPT !.codec.params = x]
<1>1. DOMAIN s = {"codec", "ulpfec", "flexfec", "rtx", "rtxTime"} /\ s.codec = c
  BY DEF Settings
<1>2. Merged(s, format) = m
  BY DEF Merged
<1> HIDE DEF s, x
<1>3. m.codec.params = x
  BY <1>1
<1>4. [m EXCEPT !.codec.params = x] = [s EXCEPT !.codec.params = x]
  OBVIOUS
<1>5. [m EXCEPT !.codec.params = m.codec.params] = m
  BY <1>3, <1>4
<1> QED BY <1>2, <1>5 DEF s

\* SelectSendVideoCodecs of a description's codecs.
LEMMA CommonAreCodecs ==
    /\ \A params \in SendParameters : CommonCodecs[params] \in Seq(CodecSettings)
    /\ \A c \in CodecSettings : [c EXCEPT !.codec.params = c.codec.params] = c
<1>1. ASSUME NEW params \in SendParameters
      PROVE  /\ CommonCodecs[params] \in Seq(ToSet(CommonCodecs[params]))
             /\ \A c \in ToSet(CommonCodecs[params]) :
                    [c EXCEPT !.codec.params = c.codec.params] = c
  <2> DEFINE codecs == params.codecs
             remote == MapCodecs(codecs)
             formats == EncoderFormats
             found == Found(remote, formats)
             turns == {pq \in found \X found :
                          \/ pq[1][1] < pq[2][1]
                          \/ pq[1][1] = pq[2][1] /\ pq[1][2] < pq[2][2]}
             Turn(i) == InOrder(found, turns, i)
             N == Cardinality(found)
             out == SelectSendVideoCodecs(remote, formats)
  <2>1. AreCodecs(codecs) /\ formats \in Seq(ToSet(formats))
    BY FormatsAssumption
  <2>2. PICK n \in Nat : DOMAIN remote = 1 .. n
    BY <2>1, MappedAreOfList
  <2>3. PICK l \in Nat : DOMAIN formats = 1 .. l
    BY <2>1
  <2>4. N \in Nat /\ \A i \in 1 .. N : Turn(i)[1] \in 1 .. n
    BY <2>2, <2>3, FoundInOrder
  <2>5. out = [i \in 1 .. N |-> Merged(remote[Turn(i)[1]], formats[Turn(i)[2]])]
    BY DEF SelectSendVideoCodecs
  <2>6. \A k \in 1 .. n : \E j \in DOMAIN codecs : remote[k] = Settings(codecs, codecs[j])
    BY <2>1, <2>2, MappedAreOfList
  <2>7. \A j \in DOMAIN codecs : DOMAIN codecs[j] = {"name", "id", "kind", "params"}
    BY <2>1 DEF AreCodecs
  <2>8. CommonCodecs[params] = out
    BY DEF CommonCodecs
  <2> HIDE DEF codecs, remote, formats, Turn, N, out
  <2>9. out = [i \in 1 .. N |-> out[i]] /\ DOMAIN out = 1 .. N
    BY <2>5
  <2>10. out \in Seq(ToSet(out))
    BY <2>4, <2>9, ListOfPlaces
  <2>11. ASSUME NEW i \in 1 .. N
         PROVE  [out[i] EXCEPT !.codec.params = out[i].codec.params] = out[i]
    <3>1. out[i] = Merged(remote[Turn(i)[1]], formats[Turn(i)[2]])
      BY <2>5
    <3>2. PICK j \in DOMAIN codecs : remote[Turn(i)[1]] = Settings(codecs, codecs[j])
      BY <2>4, <2>6
    <3> QED BY <2>7, <3>1, <3>2, MergedHoldsParams
  <2>12. \A c \in ToSet(out) : [c EXCEPT !.codec.params = c.codec.params] = c
    BY <2>9, <2>11 DEF ToSet
  <2> QED BY <2>8, <2>10, <2>12
<1>2. ASSUME NEW params \in SendParameters PROVE CommonCodecs[params] \in Seq(CodecSettings)
  <2>1. ToSet(CommonCodecs[params]) \subseteq CodecSettings
    BY DEF CodecSettings
  <2> QED BY <1>1, <2>1
<1>3. ASSUME NEW c \in CodecSettings PROVE [c EXCEPT !.codec.params = c.codec.params] = c
  <2>1. PICK params \in SendParameters : c \in ToSet(CommonCodecs[params])
    BY DEF CodecSettings
  <2> QED BY <1>1, <2>1
<1> QED BY <1>2, <1>3

\* MapCodecs of a list: settings of codecs with different payload types.
LEMMA MappedIsList ==
    ASSUME NEW codecs, AreCodecs(codecs)
    PROVE  LET mapped == MapCodecs(codecs)
           IN  /\ mapped \in Seq(ToSet(mapped))
               /\ \A i, j \in DOMAIN mapped : mapped[i].codec.id = mapped[j].codec.id => i = j
               /\ \A c \in ToSet(mapped) :
                      c.codec.id \in Int /\ {"codec", "rtx"} \subseteq DOMAIN c
<1> DEFINE mapped == MapCodecs(codecs)
<1>1. PICK n \in Nat : DOMAIN mapped = 1 .. n /\ mapped = [i \in 1 .. n |-> mapped[i]]
  BY MappedAreOfList
<1>2. \A i \in DOMAIN mapped : \E k \in DOMAIN codecs :
          mapped[i] = Settings(codecs, codecs[k]) /\ mapped[i].codec = codecs[k]
  BY MappedAreOfList
<1>3. \A i, j \in DOMAIN mapped : mapped[i].codec.id = mapped[j].codec.id => i = j
  BY MappedAreOfList
<1> HIDE DEF mapped
<1>4. mapped \in Seq(ToSet(mapped))
  BY <1>1, ListOfPlaces
<1>5. \A k \in DOMAIN codecs : codecs[k].id \in Int
  BY DEF AreCodecs
<1>6. \A k \in DOMAIN codecs : {"codec", "rtx"} \subseteq DOMAIN Settings(codecs, codecs[k])
  BY DEF Settings
<1>7. \A c \in ToSet(mapped) : c.codec.id \in Int /\ {"codec", "rtx"} \subseteq DOMAIN c
  BY <1>2, <1>5, <1>6 DEF ToSet
<1> QED BY <1>3, <1>4, <1>7 DEF mapped

\* The codecs of a new channel and those of a description.
LEMMA MappedAreLists ==
    /\ IsCodecList(DefaultRecvCodecs)
    /\ \A params \in RecvParameters : IsCodecList(MappedCodecs[params])
    /\ \A c \in RecvSettings : c.codec.id \in Int /\ {"codec", "rtx"} \subseteq DOMAIN c
<1> DEFINE own == GetPayloadTypesAndDefaultCodecs(DecoderNames)
<1>1. AreCodecs(own)
  <2>1. CASE DecoderNames = <<>>
    <3>1. own = <<>>
      BY <2>1 DEF GetPayloadTypesAndDefaultCodecs
    <3> HIDE DEF own
    <3> QED BY <3>1 DEF AreCodecs, ToSet
  <2>2. CASE DecoderNames # <<>>
    <3>1. PICK acc : GoodTurn(acc, 1) /\ own = acc.out
      BY <2>2, FormatsAssumption, AssignedIsGood
    <3> QED BY <3>1 DEF GoodTurn, GoodOut
  <2> QED BY <2>1, <2>2
<1>2. DefaultRecvCodecs = MapCodecs(own)
  BY DEF DefaultRecvCodecs
<1>3. \A params \in RecvParameters : /\ MappedCodecs[params] = MapCodecs(params.codecs)
                                     /\ AreCodecs(params.codecs)
  BY FormatsAssumption DEF MappedCodecs
<1> HIDE DEF own
<1>4. /\ ToSet(DefaultRecvCodecs) \subseteq RecvSettings
      /\ \A params \in RecvParameters : ToSet(MappedCodecs[params]) \subseteq RecvSettings
  BY DEF RecvSettings
<1>5. IsCodecList(DefaultRecvCodecs)
  <2>1. /\ DefaultRecvCodecs \in Seq(ToSet(DefaultRecvCodecs))
        /\ \A i, j \in DOMAIN DefaultRecvCodecs :
               DefaultRecvCodecs[i].codec.id = DefaultRecvCodecs[j].codec.id => i = j
    BY <1>1, <1>2, MappedIsList
  <2> QED BY <1>4, <2>1 DEF IsCodecList
<1>6. ASSUME NEW params \in RecvParameters PROVE IsCodecList(MappedCodecs[params])
  <2> DEFINE list == MappedCodecs[params]
  <2>1. /\ list \in Seq(ToSet(list))
        /\ \A i, j \in DOMAIN list : list[i].codec.id = list[j].codec.id => i = j
    BY <1>3, MappedIsList
  <2>2. ToSet(list) \subseteq RecvSettings
    BY <1>4
  <2> HIDE DEF list
  <2> QED BY <2>1, <2>2 DEF IsCodecList, list
<1>7. ASSUME NEW c \in RecvSettings
      PROVE  c.codec.id \in Int /\ {"codec", "rtx"} \subseteq DOMAIN c
  <2>1. \/ c \in ToSet(DefaultRecvCodecs)
        \/ \E params \in RecvParameters : c \in ToSet(MappedCodecs[params])
    BY DEF RecvSettings
  <2> QED BY <1>1, <1>2, <1>3, <2>1, MappedIsList
<1> QED BY <1>5, <1>6, <1>7

-----------------------------------------------------------------------------
(* The codec in use *)

\* A codec is the one at a place of a list but for its parameters.
IsThatOf(codec, list, i) ==
    [codec EXCEPT !.codec.params = list[i].codec.params] = list[i]

\* A codec that is in use is of the list.
InUse(codec, list) == codec # None /\ \E i \in DOMAIN list : IsThatOf(codec, list, i)

\* negotiated_codecs_ is a list of codecs, one of which is in use.
CodecInv ==
    /\ negotiated \in Seq(CodecSettings)
    /\ negotiated # <<>> => InUse(sendCodec, negotiated)

\* Any codec of a list may be used, also with other parameters.
LEMMA AnyIsInUse ==
    ASSUME NEW list \in Seq(CodecSettings), NEW i \in DOMAIN list
    PROVE  /\ list[i] # None /\ InUse(list[i], list)
           /\ \A format : WithFormat(list[i], format) # None
                              => InUse(WithFormat(list[i], format), list)
<1> DEFINE c == list[i]
<1>1. c \in CodecSettings
  OBVIOUS
<1>2. c # None /\ [c EXCEPT !.codec.params = c.codec.params] = c
  BY <1>1, CodecsAssumption, CommonAreCodecs
<1>3. ASSUME NEW format PROVE [WithFormat(c, format) EXCEPT !.codec.params = c.codec.params] = c
  <2> DEFINE x == [p \in DOMAIN c.codec.params \cup DOMAIN format.params |->
                     IF p \in DOMAIN format.params THEN format.params[p] ELSE c.codec.params[p]]
             w == [c EXCEPT !.codec.params = x]
  <2>1. WithFormat(c, format) = w
    BY DEF WithFormat
  <2> HIDE DEF c, x
  <2>2. [w EXCEPT !.codec.params = c.codec.params] = [c EXCEPT !.codec.params = c.codec.params]
    OBVIOUS
  <2> QED BY <1>2, <2>1, <2>2
<1> QED BY <1>2, <1>3 DEF InUse, IsThatOf

\* A list that is one codec shorter is still of codecs.
LEMMA TailOfCodecs ==
    ASSUME NEW list \in Seq(CodecSettings), Len(list) > 1
    PROVE  /\ Tail(list) \in Seq(CodecSettings) /\ Tail(list) # None
           /\ 1 \in DOMAIN Tail(list) /\ Tail(list)[1] = list[2]
<1>1. /\ Tail(list) \in Seq(CodecSettings) /\ Len(Tail(list)) = Len(list) - 1
      /\ Tail(list)[1] = list[2]
  OBVIOUS
<1>2. Tail(list) # None
  BY <1>1, CodecsAssumption
<1>3. 1 \in DOMAIN Tail(list)
  BY <1>1
<1> QED BY <1>1, <1>2, <1>3

\* A crash leaves no codec.
LEMMA CrashCodec == ASSUME NEW reason, Crash(reason) PROVE CodecInv'
BY DEF Crash, CodecInv

\* A step that changes neither.
LEMMA UnchangedCodec ==
    CodecInv /\ negotiated' = negotiated /\ sendCodec' = sendCodec => CodecInv'
BY DEF CodecInv

\* SetSendParameters.
LEMMA SetSendParametersCodec ==
    ASSUME CodecInv, NEW params \in SendParameters, SetSendParameters(params)
    PROVE  CodecInv'
<1> DEFINE changed == ChangedSendParameters(params)
           codecs == CommonCodecs[params]
<1>1. /\ changed.negotiated = IfNew(negotiated, codecs)
      /\ changed.codec = IF codecs = negotiated \/ codecs = <<>> THEN None
                         ELSE IfNew(sendCodec, codecs[1])
  BY DEF ChangedSendParameters
<1>2. codecs \in Seq(CodecSettings) /\ codecs # None
  BY CodecsAssumption, CommonAreCodecs
<1>3. CASE CrashWith(changed)
  BY <1>3, CrashCodec DEF CrashWith
<1>4. CASE ApplyChangedParams(params, changed)
  <2>1. /\ negotiated' = Set(negotiated, changed.negotiated)
        /\ sendCodec' = Set(sendCodec, changed.codec)
    BY <1>4 DEF ApplyChangedParams
  <2> HIDE DEF changed, codecs
  <2>2. negotiated' = codecs
    BY <1>1, <1>2, <2>1 DEF Set, IfNew
  <2>3. CASE codecs = negotiated
    BY <1>1, <2>1, <2>2, <2>3, UnchangedCodec DEF Set
  <2>4. CASE codecs = <<>>
    BY <1>2, <2>2, <2>4 DEF CodecInv
  <2>5. CASE codecs # negotiated /\ codecs # <<>>
    <3>1. 1 \in DOMAIN codecs
      BY <1>2, <2>5
    <3>2. codecs[1] # None /\ InUse(codecs[1], codecs)
      BY <1>2, <3>1, AnyIsInUse
    <3>3. sendCodec' = codecs[1]
      BY <1>1, <2>1, <2>5, <3>2 DEF Set, IfNew
    <3> QED BY <1>2, <2>2, <3>2, <3>3 DEF CodecInv
  <2> QED BY <2>3, <2>4, <2>5
<1> QED BY <1>3, <1>4 DEF SetSendParameters

\* A change of the codec alone, to one of the list.
LEMMA SwitchCodec ==
    ASSUME CodecInv, NEW params, NEW changed, changed.negotiated = None,
           changed.codec # None => InUse(changed.codec, negotiated),
           CrashWith(changed) \/ ApplyChangedParams(params, changed)
    PROVE  CodecInv'
<1>1. CASE CrashWith(changed)
  BY <1>1, CrashCodec DEF CrashWith
<1>2. CASE ApplyChangedParams(params, changed)
  <2>1. negotiated' = negotiated /\ sendCodec' = Set(sendCodec, changed.codec)
    BY <1>2 DEF ApplyChangedParams, Set
  <2> QED BY <2>1 DEF CodecInv, Set
<1> QED BY <1>1, <1>2

\* RequestEncoderFallback.
LEMMA FallbackCodec == ASSUME CodecInv, RequestEncoderFallback PROVE CodecInv'
<1> DEFINE changed == [Unchanged EXCEPT !.negotiated = Tail(negotiated), !.codec = negotiated[2]]
<1>1. changed.negotiated = Tail(negotiated) /\ changed.codec = negotiated[2]
  BY DEF Unchanged
<1>2. Len(negotiated) > 1 /\ negotiated \in Seq(CodecSettings)
  BY DEF RequestEncoderFallback, CodecInv
<1>3. CASE CrashWith(changed)
  BY <1>3, CrashCodec DEF CrashWith
<1>4. CASE ApplyChangedParams(sendParams, changed)
  <2>1. /\ negotiated' = Set(negotiated, changed.negotiated)
        /\ sendCodec' = Set(sendCodec, changed.codec)
    BY <1>4 DEF ApplyChangedParams
  <2> DEFINE list == Tail(negotiated)
  <2>2. /\ list \in Seq(CodecSettings) /\ list # None /\ 1 \in DOMAIN list
        /\ list[1] = negotiated[2]
    BY <1>2, TailOfCodecs
  <2> HIDE DEF changed, list
  <2>3. list[1] # None /\ InUse(list[1], list)
    BY <2>2, AnyIsInUse
  <2>4. negotiated' = list /\ sendCodec' = list[1]
    BY <1>1, <2>1, <2>2, <2>3 DEF Set, list
  <2> QED BY <2>2, <2>3, <2>4 DEF CodecInv
<1> QED BY <1>3, <1>4 DEF RequestEncoderFallback

\* The codec to switch to is of the list.
LEMMA ToSwitchTo ==
    ASSUME CodecInv, NEW wanted, CodecToSwitchTo(wanted) # None
    PROVE  InUse(CodecToSwitchTo(wanted), negotiated)
<1> DEFINE Has(codec) ==
               /\ codec.name = wanted.name
               /\ wanted.param # None =>
                      /\ HasParam(codec, wanted.param)
                      /\ wanted.value # None => codec.params[wanted.param] = wanted.value
           at == {i \in DOMAIN negotiated : Has(negotiated[i].codec)}
<1>1. at # {} /\ CodecToSwitchTo(wanted) = negotiated[Min(at)]
  BY DEF CodecToSwitchTo
<1>2. negotiated \in Seq(CodecSettings) /\ at \in SUBSET Nat
  BY DEF CodecInv
<1> HIDE DEF Has
<1>3. Min(at) \in at
  BY <1>1, <1>2, MinIsIn
<1> QED BY <1>1, <1>2, <1>3, AnyIsInUse

\* RequestEncoderSwitchToFormat.
LEMMA FormatCodec ==
    ASSUME CodecInv, NEW format, RequestEncoderSwitchToFormat(format)
    PROVE  CodecInv'
<1> DEFINE at == {i \in DOMAIN negotiated : IsSameCodec(format, negotiated[i].codec)}
           codec == WithFormat(negotiated[Min(at)], format)
           changed == [Unchanged EXCEPT !.codec = codec]
<1>1. at # {} /\ (CrashWith(changed) \/ ApplyChangedParams(sendParams, changed))
  BY DEF RequestEncoderSwitchToFormat
<1>2. negotiated \in Seq(CodecSettings) /\ at \in SUBSET Nat
  BY DEF CodecInv
<1>3. Min(at) \in DOMAIN negotiated
  BY <1>1, <1>2, MinIsIn
<1>4. codec # None => InUse(codec, negotiated)
  BY <1>2, <1>3, AnyIsInUse
<1> HIDE DEF codec
<1>5. changed.negotiated = None /\ changed.codec = codec
  BY DEF Unchanged
<1> HIDE DEF changed
<1> QED BY <1>1, <1>4, <1>5, SwitchCodec

\* RequestEncoderSwitch, and the switch that SetVideoCodecSwitchingEnabled
\* carries out.
LEMMA NameCodec ==
    ASSUME CodecInv, NEW codec, codec # None => InUse(codec, negotiated),
           LET changed == [Unchanged EXCEPT !.codec = codec]
           IN  CrashWith(changed) \/ ApplyChangedParams(sendParams, changed)
    PROVE  CodecInv'
<1> DEFINE changed == [Unchanged EXCEPT !.codec = codec]
<1>1. changed.negotiated = None /\ changed.codec = codec
  BY DEF Unchanged
<1>2. CrashWith(changed) \/ ApplyChangedParams(sendParams, changed)
  OBVIOUS
<1> HIDE DEF changed
<1> QED BY <1>1, <1>2, SwitchCodec

\* Every step keeps a negotiated codec in use.
LEMMA NextCodec == CodecInv /\ [Next]_vars => CodecInv'
<1> SUFFICES ASSUME CodecInv, [Next]_vars PROVE CodecInv'
  OBVIOUS
<1>1. CASE UNCHANGED vars
  BY <1>1, UnchangedCodec DEF vars, codecVars
<1>2. CASE \E params \in SendParameters : SetSendParameters(params)
  BY <1>2, SetSendParametersCodec
<1>3. CASE RequestEncoderFallback
  BY <1>3, FallbackCodec
<1>4. ASSUME NEW name, RequestEncoderSwitch(name) PROVE CodecInv'
  BY <1>4, ToSwitchTo, NameCodec, UnchangedCodec DEF RequestEncoderSwitch, codecVars
<1>5. CASE \E format \in SwitchFormats : RequestEncoderSwitchToFormat(format)
  BY <1>5, FormatCodec
<1>6. ASSUME NEW enabled, SetVideoCodecSwitchingEnabled(enabled) PROVE CodecInv'
  <2> DEFINE kept == IF enabled /\ requested # None THEN CodecToSwitchTo(requested) ELSE None
  <2>1. kept # None => InUse(kept, negotiated)
    BY ToSwitchTo
  <2>2. LET changed == [Unchanged EXCEPT !.codec = kept]
        IN  CrashWith(changed) \/ ApplyChangedParams(sendParams, changed)
    BY <1>6 DEF SetVideoCodecSwitchingEnabled
  <2> HIDE DEF kept
  <2> QED BY <2>1, <2>2, NameCodec
<1>7. CASE \E sp \in StreamParams : AddSendStream(sp)
  BY <1>7, CrashCodec, UnchangedCodec DEF AddSendStream, codecVars
<1>8. CASE \E ssrc \in Ssrcs : RemoveSendStream(ssrc)
  BY <1>8, UnchangedCodec DEF RemoveSendStream, codecVars
<1>9. CASE \E send \in BOOLEAN : SetSend(send)
  BY <1>9, CrashCodec, UnchangedCodec DEF SetSend, codecVars
<1>10. CASE \E ssrc \in Ssrcs, screencast \in BOOLEAN \cup {None}, source \in BOOLEAN :
                SetVideoSend(ssrc, screencast, source)
  BY <1>10, CrashCodec, UnchangedCodec DEF SetVideoSend, codecVars
<1>11. CASE \E ssrc \in Ssrcs, cap \in EncodingCaps : SetRtpSendParameters(ssrc, cap)
  BY <1>11, UnchangedCodec DEF SetRtpSendParameters, codecVars
<1>12. CASE \E params \in RecvParameters : SetRecvParameters(params)
  BY <1>12, UnchangedCodec DEF SetRecvParameters, codecVars
<1>13. CASE OnNetworkEvent
  BY <1>13, CrashCodec DEF OnNetworkEvent
<1> QED BY <1>1, <1>2, <1>3, <1>4, <1>5, <1>6, <1>7, <1>8, <1>9, <1>10, <1>11, <1>12, <1>13
       DEF Next

\* For every set of descriptions and formats, the codec in use is one of those
\* negotiated last, through fallbacks, switches and descriptions.
THEOREM CodecStaysNegotiated == Spec => []CodecIsNegotiated
<1>1. Init => CodecInv
  BY DEF Init, CodecInv
<1>2. CodecInv => CodecIsNegotiated
  BY DEF CodecInv, InUse, IsThatOf, CodecIsNegotiated
<1> QED BY <1>1, <1>2, NextCodec, PTL DEF Spec

-----------------------------------------------------------------------------
(* The codecs to receive with *)

\* The codecs of a list with a higher payload type.
Higher(list, c) == {d \in ToSet(list) : d.codec.id > c.codec.id}

\* Payload types order a list: every codec has a place and every place a codec.
LEMMA SortedIsAll ==
    ASSUME NEW list, IsCodecList(list)
    PROVE  /\ \A i \in DOMAIN list : SortedAt(list, i) \in ToSet(list)
           /\ \A c \in ToSet(list) : \E i \in DOMAIN list : SortedAt(list, i) = c
<1> DEFINE S == ToSet(list)
           N == Len(list)
           Place(c) == Cardinality(Higher(list, c)) + 1
           place == [c \in S |-> Place(c)]
<1>1. /\ list \in Seq(RecvSettings) /\ N \in Nat /\ DOMAIN list = 1 .. N
      /\ \A i, j \in DOMAIN list : list[i].codec.id = list[j].codec.id => i = j
  BY DEF IsCodecList
<1>2. ASSUME NEW c \in S, NEW d \in S, c.codec.id = d.codec.id PROVE c = d
  BY <1>1, <1>2 DEF ToSet
<1>3. \A c \in S : c.codec.id \in Int
  BY <1>1, MappedAreLists DEF ToSet
<1>4. IsFiniteSet(1 .. N) /\ Cardinality(1 .. N) = N
  BY <1>1, FS_Interval
<1>5. IsFiniteSet(S) /\ Cardinality(S) = N
  <2>1. list \in Bijection(1 .. N, S)
    BY <1>1 DEF Bijection, Injection, Surjection, IsInjective, ToSet
  <2>2. ExistsBijection(1 .. N, S)
    BY <2>1 DEF ExistsBijection
  <2> QED BY <1>4, <2>2, FS_Bijection
<1>6. ASSUME NEW c \in S
      PROVE  /\ IsFiniteSet(Higher(list, c)) /\ Cardinality(Higher(list, c)) \in Nat
             /\ Place(c) \in 1 .. N
  <2>1. Higher(list, c) \in SUBSET S /\ c \notin Higher(list, c)
    BY <1>3 DEF Higher
  <2>2. /\ IsFiniteSet(Higher(list, c)) /\ Cardinality(Higher(list, c)) <= Cardinality(S)
        /\ Cardinality(S) = Cardinality(Higher(list, c)) => S = Higher(list, c)
    BY <1>5, <2>1, FS_Subset
  <2>3. Cardinality(Higher(list, c)) \in Nat
    BY <2>2, FS_CardinalityType
  <2>4. Cardinality(Higher(list, c)) # N
    BY <1>5, <2>1, <2>2
  <2> QED BY <1>1, <1>5, <2>2, <2>3, <2>4
<1>7. ASSUME NEW c \in S, NEW d \in S, c.codec.id > d.codec.id PROVE Place(c) # Place(d)
  <2>1. /\ Higher(list, c) \in SUBSET Higher(list, d)
        /\ c \in Higher(list, d) /\ c \notin Higher(list, c)
    BY <1>3, <1>7 DEF Higher
  <2>2. Cardinality(Higher(list, c)) # Cardinality(Higher(list, d))
    BY <1>6, <2>1, FS_Subset
  <2> QED BY <1>6, <2>2
<1>8. ASSUME NEW c \in S, NEW d \in S, Place(c) = Place(d) PROVE c = d
  <2>1. ~(c.codec.id > d.codec.id) /\ ~(d.codec.id > c.codec.id)
    BY <1>7, <1>8
  <2>2. c.codec.id = d.codec.id
    BY <1>3, <2>1
  <2> QED BY <1>2, <2>2
<1> HIDE DEF S, N
<1>9. place \in Injection(S, 1 .. N)
  BY <1>6, <1>8 DEF Injection, IsInjective
<1>10. place \in Surjection(S, 1 .. N)
  BY <1>4, <1>5, <1>9, FS_Injection
<1>11. ASSUME NEW c \in S PROVE SortedAt(list, Place(c)) = c
  <2>1. \A d \in S : Cardinality(Higher(list, d)) = Place(c) - 1 <=> d = c
    BY <1>6, <1>8
  <2>2. SortedAt(list, Place(c)) = CHOOSE d \in S : Cardinality(Higher(list, d)) = Place(c) - 1
    BY DEF SortedAt, Higher, S
  <2> QED BY <2>1, <2>2
<1>12. ASSUME NEW i \in 1 .. N PROVE SortedAt(list, i) \in S
  <2>1. PICK c \in S : Place(c) = i
    BY <1>10 DEF Surjection
  <2> QED BY <1>11, <2>1
<1> QED BY <1>1, <1>6, <1>11, <1>12 DEF S, N

\* Lists that have not changed have the same codecs and RTX payload types.
LEMMA UnchangedLists ==
    ASSUME NEW before, NEW after, IsCodecList(before), IsCodecList(after),
           ~NonFlexfecReceiveCodecsHaveChanged(before, after)
    PROVE  /\ {c.codec : c \in ToSet(before)} = {c.codec : c \in ToSet(after)}
           /\ {c.rtx : c \in ToSet(before)} = {c.rtx : c \in ToSet(after)}
<1>1. /\ DOMAIN before = DOMAIN after
      /\ \A i \in DOMAIN before :
             EqualsDisregardingFlexfec(SortedAt(before, i), SortedAt(after, i))
  BY DEF NonFlexfecReceiveCodecsHaveChanged, IsCodecList
<1>2. ASSUME NEW list, IsCodecList(list), NEW c \in ToSet(list)
      PROVE  {"codec", "rtx"} \subseteq DOMAIN c
  BY <1>2, MappedAreLists DEF IsCodecList, ToSet
<1>3. ASSUME NEW i \in DOMAIN before
      PROVE  /\ SortedAt(before, i).codec = SortedAt(after, i).codec
             /\ SortedAt(before, i).rtx = SortedAt(after, i).rtx
  <2> DEFINE a == SortedAt(before, i)
             b == SortedAt(after, i)
  <2>1. {"codec", "rtx"} \subseteq DOMAIN a
    BY <1>2, SortedIsAll
  <2>2. [a EXCEPT !.flexfec = b.flexfec] = b
    BY <1>1 DEF EqualsDisregardingFlexfec
  <2> HIDE DEF a, b
  <2>3. a.codec = b.codec /\ a.rtx = b.rtx
    BY <2>1, <2>2
  <2> QED BY <2>3 DEF a, b
<1>4. \A c \in ToSet(before) : \E d \in ToSet(after) : c.codec = d.codec /\ c.rtx = d.rtx
  BY <1>1, <1>3, SortedIsAll
<1>5. \A d \in ToSet(after) : \E c \in ToSet(before) : c.codec = d.codec /\ c.rtx = d.rtx
  BY <1>1, <1>3, SortedIsAll
<1> QED BY <1>4, <1>5

\* recv_codecs_ is a list of codecs, those of recv_params_.
RecvInv ==
    /\ IsCodecList(recvCodecs)
    /\ RecvCodecsFollow

\* A step that does not touch them.
LEMMA UnchangedRecv == RecvInv /\ UNCHANGED recvVars => RecvInv'
BY DEF RecvInv, recvVars, RecvCodecsFollow

\* A crash leaves those of a new channel.
LEMMA CrashRecv == ASSUME NEW reason, Crash(reason) PROVE RecvInv'
<1>1. recvCodecs' = DefaultRecvCodecs /\ recvParams'.codecs = <<>>
  BY DEF Crash, DefaultRecvParams
<1> QED BY <1>1, MappedAreLists DEF RecvInv, RecvCodecsFollow

\* SetRecvParameters.
LEMMA SetRecvParametersRecv ==
    ASSUME RecvInv, NEW params \in RecvParameters, SetRecvParameters(params)
    PROVE  RecvInv'
<1> DEFINE mapped == MappedCodecs[params]
<1>1. /\ recvFlexfec' = mapped[1].flexfec /\ recvParams' = params
      /\ recvCodecs' = IF NonFlexfecReceiveCodecsHaveChanged(recvCodecs, mapped)
                       THEN mapped ELSE recvCodecs
  BY DEF SetRecvParameters
<1>2. IsCodecList(mapped) /\ IsCodecList(recvCodecs)
  BY MappedAreLists DEF RecvInv
<1> HIDE DEF mapped
<1>3. /\ {c.codec : c \in ToSet(recvCodecs')} = {c.codec : c \in ToSet(mapped)}
      /\ {c.rtx : c \in ToSet(recvCodecs')} = {c.rtx : c \in ToSet(mapped)}
  <2>1. CASE NonFlexfecReceiveCodecsHaveChanged(recvCodecs, mapped)
    BY <1>1, <2>1
  <2>2. CASE ~NonFlexfecReceiveCodecsHaveChanged(recvCodecs, mapped)
    BY <1>1, <1>2, <2>2, UnchangedLists
  <2> QED BY <2>1, <2>2
<1>4. IsCodecList(recvCodecs')
  BY <1>1, <1>2
<1>5. RecvCodecsFollow'
  BY <1>1, <1>3 DEF RecvCodecsFollow, mapped
<1> QED BY <1>4, <1>5 DEF RecvInv

\* A change of what is sent.
LEMMA ApplyRecv ==
    ASSUME RecvInv, NEW params, NEW changed,
           CrashWith(changed) \/ ApplyChangedParams(params, changed)
    PROVE  RecvInv'
BY CrashRecv, UnchangedRecv DEF CrashWith, ApplyChangedParams

\* Every step keeps the codecs of the last description.
LEMMA NextRecv == RecvInv /\ [Next]_vars => RecvInv'
<1> SUFFICES ASSUME RecvInv, [Next]_vars PROVE RecvInv'
  OBVIOUS
<1>1. CASE UNCHANGED vars
  BY <1>1, UnchangedRecv DEF vars
<1>2. CASE \E params \in SendParameters : SetSendParameters(params)
  BY <1>2, ApplyRecv DEF SetSendParameters
<1>3. CASE RequestEncoderFallback
  BY <1>3, ApplyRecv DEF RequestEncoderFallback
<1>4. CASE \E wanted \in SwitchRequests : RequestEncoderSwitch(wanted)
  BY <1>4, ApplyRecv, UnchangedRecv DEF RequestEncoderSwitch
<1>5. CASE \E format \in SwitchFormats : RequestEncoderSwitchToFormat(format)
  BY <1>5, ApplyRecv DEF RequestEncoderSwitchToFormat
<1>6. CASE \E enabled \in BOOLEAN : SetVideoCodecSwitchingEnabled(enabled)
  BY <1>6, ApplyRecv DEF SetVideoCodecSwitchingEnabled
<1>7. CASE \E sp \in StreamParams : AddSendStream(sp)
  BY <1>7, CrashRecv, UnchangedRecv DEF AddSendStream
<1>8. CASE \E ssrc \in Ssrcs : RemoveSendStream(ssrc)
  BY <1>8, UnchangedRecv DEF RemoveSendStream
<1>9. CASE \E send \in BOOLEAN : SetSend(send)
  BY <1>9, CrashRecv, UnchangedRecv DEF SetSend
<1>10. CASE \E ssrc \in Ssrcs, screencast \in BOOLEAN \cup {None}, source \in BOOLEAN :
                SetVideoSend(ssrc, screencast, source)
  BY <1>10, CrashRecv, UnchangedRecv DEF SetVideoSend
<1>11. CASE \E ssrc \in Ssrcs, cap \in EncodingCaps : SetRtpSendParameters(ssrc, cap)
  BY <1>11, UnchangedRecv DEF SetRtpSendParameters
<1>12. CASE \E params \in RecvParameters : SetRecvParameters(params)
  BY <1>12, SetRecvParametersRecv
<1>13. CASE OnNetworkEvent
  BY <1>13, CrashRecv DEF OnNetworkEvent
<1> QED BY <1>1, <1>2, <1>3, <1>4, <1>5, <1>6, <1>7, <1>8, <1>9, <1>10, <1>11, <1>12, <1>13
       DEF Next

\* For every set of descriptions, the codecs to send and to receive with are
\* those of the last ones: the codec in use is one of those negotiated,
\* through fallbacks and switches, and a list of codecs that is kept because
\* it differs only in order and FlexFEC has the codecs and RTX payload types
\* of the new one.
THEOREM CodecsStayFollowing == Spec => []CodecsFollowDescriptions
<1>1. Init => RecvInv
  BY MappedAreLists DEF Init, RecvInv, RecvCodecsFollow, DefaultRecvParams
<1>2. Spec => []RecvInv
  BY <1>1, NextRecv, PTL DEF Spec
<1>3. RecvInv /\ CodecIsNegotiated => CodecsFollowDescriptions
  BY DEF RecvInv, CodecsFollowDescriptions
<1> QED BY <1>2, <1>3, CodecStaysNegotiated, PTL

-----------------------------------------------------------------------------
(* Header extensions *)

Extensions == [uri : Nat, id : Int, encrypt : BOOLEAN]

\* What is picked of a list are the members at the places, each once.
LEMMA PickedAre ==
    ASSUME NEW list, NEW n \in Nat, NEW places \in SUBSET (1 .. n)
    PROVE  LET out == Picked(list, places)
               N == Cardinality(places)
           IN  /\ N \in Nat /\ DOMAIN out = 1 .. N /\ out = [i \in 1 .. N |-> out[i]]
               /\ \A i \in 1 .. N : Nth(places, i) \in places /\ out[i] = list[Nth(places, i)]
               /\ \A i, j \in 1 .. N : Nth(places, i) = Nth(places, j) => i = j
               /\ \A k \in places : \E i \in 1 .. N : Nth(places, i) = k
<1> DEFINE N == Cardinality(places)
<1>1. /\ N \in Nat /\ \A i \in 1 .. N : Nth(places, i) \in places
      /\ \A i, j \in 1 .. N : i < j => Nth(places, i) < Nth(places, j)
      /\ \A k \in places : \E i \in 1 .. N : Nth(places, i) = k
  BY NthIsIn
<1>2. ASSUME NEW i \in 1 .. N, NEW j \in 1 .. N, Nth(places, i) = Nth(places, j) PROVE i = j
  <2>0. \A k \in places : k \in Nat
    OBVIOUS
  <2> HIDE DEF N
  <2>1. Nth(places, i) \in Nat /\ Nth(places, j) \in Nat
    BY <1>1, <2>0
  <2>2. ~(i < j) /\ ~(j < i)
    BY <1>1, <1>2, <2>1
  <2> QED BY <1>1, <2>2
<1>3. Picked(list, places) = [i \in 1 .. N |-> list[Nth(places, i)]]
  BY DEF Picked
<1> HIDE DEF N
<1>4. /\ DOMAIN Picked(list, places) = 1 .. N
      /\ \A i \in 1 .. N : Picked(list, places)[i] = list[Nth(places, i)]
      /\ Picked(list, places) = [i \in 1 .. N |-> Picked(list, places)[i]]
  BY <1>3
<1> QED BY <1>1, <1>2, <1>4 DEF N

\* They are a set that does not depend on the order.
LEMMA PickedSet ==
    ASSUME NEW list, NEW n \in Nat, NEW places \in SUBSET (1 .. n)
    PROVE  ToSet(Picked(list, places)) = {list[k] : k \in places}
<1> DEFINE out == Picked(list, places)
           N == Cardinality(places)
<1>1. /\ DOMAIN out = 1 .. N
      /\ \A i \in 1 .. N : Nth(places, i) \in places /\ out[i] = list[Nth(places, i)]
      /\ \A k \in places : \E i \in 1 .. N : Nth(places, i) = k
  BY PickedAre
<1> HIDE DEF out, N
<1>2. \A x \in ToSet(out) : x \in {list[k] : k \in places}
  BY <1>1 DEF ToSet
<1>3. ASSUME NEW k \in places PROVE list[k] \in ToSet(out)
  <2>1. PICK i \in 1 .. N : Nth(places, i) = k
    BY <1>1
  <2> QED BY <1>1, <2>1 DEF ToSet
<1> QED BY <1>2, <1>3 DEF out

\* An engine's extensions, which are numbered by their places.
LEMMA OwnExtensions ==
    ASSUME NEW advertised
    PROVE  LET own == GetDefaultEnabledRtpHeaderExtensions(advertised)
           IN  /\ ValidateRtpExtensions(own)
               /\ ToSet(own) \subseteq
                      ToSet(GetDefaultEnabledRtpHeaderExtensions(OptionalExtensions))
<1> DEFINE uris == BasicExtensions \o <<12, 13, 14, 15>>
           All(on) == GetRtpHeaderExtensions(on)
           Places(on) == {i \in DOMAIN All(on) : ~All(on)[i].stopped}
           Own(on) == GetDefaultEnabledRtpHeaderExtensions(on)
<1>1. DOMAIN uris = 1 .. 15
  BY DEF BasicExtensions
<1>2. ASSUME NEW on
      PROVE  /\ DOMAIN All(on) = 1 .. 15
             /\ \A i \in 1 .. 15 :
                    All(on)[i] = [uri |-> uris[i], id |-> i,
                                  stopped |-> uris[i] \in OptionalExtensions \ on]
  <2> HIDE DEF uris
  <2>1. All(on) = [i \in DOMAIN uris |->
                      [uri |-> uris[i], id |-> i,
                       stopped |-> uris[i] \in OptionalExtensions \ on]]
    BY DEF GetRtpHeaderExtensions, uris
  <2> QED BY <1>1, <2>1
<1> HIDE DEF uris, All
<1>3. ASSUME NEW on PROVE Own(on) = Picked(All(on), Places(on)) /\ Places(on) \in SUBSET (1 .. 15)
  BY <1>2 DEF GetDefaultEnabledRtpHeaderExtensions, All
<1>4. ASSUME NEW on, NEW i \in Places(on)
      PROVE  All(on)[i] = [uri |-> uris[i], id |-> i, stopped |-> FALSE] /\ i \in 1 .. 15
  <2>1. i \in 1 .. 15 /\ ~All(on)[i].stopped
    BY <1>2
  <2>2. All(on)[i] = [uri |-> uris[i], id |-> i,
                      stopped |-> uris[i] \in OptionalExtensions \ on]
    BY <1>2, <2>1
  <2>3. (uris[i] \in OptionalExtensions \ on) = FALSE
    <3>1. All(on)[i].stopped = (uris[i] \in OptionalExtensions \ on)
      BY <2>2
    <3>2. ~(uris[i] \in OptionalExtensions \ on)
      BY <2>1, <3>1
    <3> QED BY <3>2
  <2> QED BY <2>1, <2>2, <2>3
<1>5. ValidateRtpExtensions(Own(advertised))
  <2> DEFINE P == Places(advertised)
             N == Cardinality(P)
             own == Own(advertised)
  <2>1. own = Picked(All(advertised), P) /\ P \in SUBSET (1 .. 15)
    BY <1>3
  <2>2. \A i \in P : All(advertised)[i].id = i /\ i \in 1 .. 255
    BY <1>4
  <2> HIDE DEF P, own
  <2>3. /\ DOMAIN own = 1 .. N
        /\ \A i \in 1 .. N : Nth(P, i) \in P /\ own[i] = All(advertised)[Nth(P, i)]
        /\ \A i, j \in 1 .. N : Nth(P, i) = Nth(P, j) => i = j
    <3>1. PICK n \in Nat : P \in SUBSET (1 .. n)
      BY <2>1
    <3>2. LET out == Picked(All(advertised), P)
          IN  /\ DOMAIN out = 1 .. N
              /\ \A i \in 1 .. N :
                     Nth(P, i) \in P /\ out[i] = All(advertised)[Nth(P, i)]
              /\ \A i, j \in 1 .. N : Nth(P, i) = Nth(P, j) => i = j
      BY <3>1, PickedAre
    <3> QED BY <2>1, <3>2
  <2>4. \A i \in DOMAIN own : own[i].id = Nth(P, i) /\ Nth(P, i) \in 1 .. 255
    BY <2>2, <2>3
  <2> HIDE DEF N
  <2>5. \A i, j \in DOMAIN own : i # j => own[i].id # own[j].id
    BY <2>3, <2>4
  <2>6. ValidateRtpExtensions(own)
    BY <2>4, <2>5 DEF ValidateRtpExtensions
  <2> QED BY <2>6 DEF own
<1>6. ASSUME NEW i \in Places(advertised)
      PROVE  /\ i \in Places(OptionalExtensions)
             /\ All(advertised)[i] = All(OptionalExtensions)[i]
  <2>1. /\ i \in 1 .. 15
        /\ All(advertised)[i] = [uri |-> uris[i], id |-> i, stopped |-> FALSE]
    BY <1>4
  <2>2. All(OptionalExtensions)[i] =
            [uri |-> uris[i], id |-> i,
             stopped |-> uris[i] \in OptionalExtensions \ OptionalExtensions]
    BY <1>2, <2>1
  <2>3. (uris[i] \in OptionalExtensions \ OptionalExtensions) = FALSE
    OBVIOUS
  <2>4. All(OptionalExtensions)[i] = [uri |-> uris[i], id |-> i, stopped |-> FALSE]
    BY <2>2, <2>3
  <2>5. ~All(OptionalExtensions)[i].stopped /\ i \in DOMAIN All(OptionalExtensions)
    BY <1>2, <2>1, <2>4
  <2> QED BY <2>1, <2>4, <2>5
<1>7. ASSUME NEW on PROVE ToSet(Own(on)) = {All(on)[i] : i \in Places(on)}
  BY <1>3, PickedSet
<1>8. ToSet(Own(advertised)) \subseteq ToSet(Own(OptionalExtensions))
  <2> HIDE DEF Own, Places
  <2> QED BY <1>6, <1>7
<1> QED BY <1>5, <1>8

\* The order of a sorted list.
Order(members) == {pair \in members \X members : Precedes(pair[1], pair[2])}

\* Where no two extensions are the same but for the id, the sorted list is that
\* of the set.
LEMMA SortedIsOfSet ==
    ASSUME NEW a, NEW n \in Nat, DOMAIN a = 1 .. n,
           \A x, y \in ToSet(a) : x = y \/ Precedes(x, y) \/ Precedes(y, x)
    PROVE  SortExtensions(a) = [i \in 1 .. Cardinality(ToSet(a)) |->
                                   InOrder(ToSet(a), Order(ToSet(a)), i)]
<1> DEFINE members == ToSet(a)
           At(e) == CHOOSE i \in DOMAIN a : a[i] = e
           stable == {pair \in members \X members :
                         \/ Precedes(pair[1], pair[2])
                         \/ ~Precedes(pair[2], pair[1]) /\ At(pair[1]) < At(pair[2])}
<1>1. SortExtensions(a) = [i \in 1 .. Cardinality(members) |-> InOrder(members, stable, i)]
  BY DEF SortExtensions
<1>2. \A x \in members : At(x) \in Nat
  <2>1. \A x \in members : \E i \in 1 .. n : a[i] = x
    BY DEF ToSet
  <2> QED BY <2>1
<1> HIDE DEF members, At
<1>3. ASSUME NEW pair \in members \X members, ~Precedes(pair[1], pair[2]),
             ~Precedes(pair[2], pair[1])
      PROVE  ~(At(pair[1]) < At(pair[2]))
  <2>1. pair[1] \in members /\ pair[2] \in members
    OBVIOUS
  <2>2. pair[1] = pair[2]
    BY <1>3, <2>1 DEF members
  <2>3. At(pair[1]) \in Nat
    BY <1>2, <2>1
  <2> QED BY <2>2, <2>3
<1>4. stable = Order(members)
  BY <1>3 DEF Order
<1> HIDE DEF stable
<1> QED BY <1>1, <1>4 DEF members

\* The known extensions of a list and of its reverse are the same.
LEMMA ReverseIsFiltered ==
    ASSUME NEW all \in Seq(Extensions), NEW supported,
           \A i, j \in DOMAIN all :
               i # j => <<all[i].uri, all[i].encrypt>> # <<all[j].uri, all[j].encrypt>>
    PROVE  FilterRtpExtensions(Reverse(all), supported, TRUE)
               = FilterRtpExtensions(all, supported, TRUE)
<1> DEFINE N == Len(all)
           back == Reverse(all)
           Places(l) == {i \in DOMAIN l : l[i].uri \in supported}
           Known(l) == Picked(l, Places(l))
           S == {all[k] : k \in Places(all)}
<1>1. N \in Nat /\ DOMAIN all = 1 .. N /\ \A i \in 1 .. N : all[i] \in Extensions
  OBVIOUS
<1>2. DOMAIN back = 1 .. N /\ \A i \in 1 .. N : back[i] = all[(N - i) + 1]
  BY DEF Reverse
<1> HIDE DEF back, N
<1>3. {back[k] : k \in Places(back)} = S
  <2>1. ASSUME NEW k \in Places(back) PROVE back[k] \in S
    <3>1. (N - k) + 1 \in DOMAIN all /\ back[k] = all[(N - k) + 1]
      BY <1>1, <1>2
    <3> QED BY <3>1
  <2>2. ASSUME NEW k \in Places(all) PROVE \E i \in Places(back) : back[i] = all[k]
    <3>1. /\ (N - k) + 1 \in 1 .. N
          /\ (N - ((N - k) + 1)) + 1 = k
      BY <1>1
    <3>2. back[(N - k) + 1] = all[k]
      BY <1>2, <3>1
    <3>3. (N - k) + 1 \in Places(back)
      BY <1>2, <3>1, <3>2
    <3> QED BY <3>2, <3>3
  <2> QED BY <2>1, <2>2
<1>4. Places(all) \in SUBSET (1 .. N) /\ Places(back) \in SUBSET (1 .. N)
  BY <1>1, <1>2
<1>5. ToSet(Known(all)) = S /\ ToSet(Known(back)) = S
  <2> HIDE DEF Places
  <2> QED BY <1>1, <1>3, <1>4, PickedSet
<1>6. PICK m \in Nat : DOMAIN Known(all) = 1 .. m
  <2> HIDE DEF Places
  <2> QED BY <1>1, <1>4, PickedAre
<1>7. PICK l \in Nat : DOMAIN Known(back) = 1 .. l
  <2> HIDE DEF Places
  <2> QED BY <1>1, <1>4, PickedAre
<1>8. \A x, y \in S : x = y \/ Precedes(x, y) \/ Precedes(y, x)
  <2> TAKE x, y \in S
  <2>1. PICK i \in DOMAIN all : x = all[i]
    OBVIOUS
  <2>2. PICK j \in DOMAIN all : y = all[j]
    OBVIOUS
  <2>3. x \in Extensions /\ y \in Extensions
    BY <1>1, <2>1, <2>2
  <2>4. x = y \/ x.uri # y.uri \/ x.encrypt # y.encrypt
    BY <2>1, <2>2
  <2>5. x.uri \in Nat /\ y.uri \in Nat /\ x.encrypt \in BOOLEAN /\ y.encrypt \in BOOLEAN
    BY <2>3 DEF Extensions
  <2>6. CASE x.encrypt = y.encrypt
    BY <2>4, <2>5, <2>6 DEF Precedes
  <2>7. CASE x.encrypt # y.encrypt
    BY <2>5, <2>7, Zenon DEF Precedes
  <2> QED BY <2>6, <2>7
<1> HIDE DEF S, Known
<1>9. SortExtensions(Known(all)) = SortExtensions(Known(back))
  BY <1>5, <1>6, <1>7, <1>8, SortedIsOfSet
<1>10. /\ FilterRtpExtensions(all, supported, TRUE) =
              DiscardRedundantExtensions(Unique(SortExtensions(Known(all))))
       /\ FilterRtpExtensions(back, supported, TRUE) =
              DiscardRedundantExtensions(Unique(SortExtensions(Known(back))))
  BY DEF FilterRtpExtensions, Known
<1> QED BY <1>9, <1>10 DEF back

\* Sorting extensions of different names gives a list of the same.
LEMMA SortedAre ==
    ASSUME NEW a, NEW n \in Nat, DOMAIN a = 1 .. n, \A i \in 1 .. n : a[i] \in Extensions,
           \A x, y \in ToSet(a) : x.uri = y.uri => x = y
    PROVE  LET sorted == SortExtensions(a)
           IN  \E m \in Nat :
                   /\ DOMAIN sorted = 1 .. m
                   /\ \A i \in 1 .. m : sorted[i] \in ToSet(a)
                   /\ \A i, j \in 1 .. m : sorted[i].uri = sorted[j].uri => i = j
                   /\ \A x \in ToSet(a) : \E i \in 1 .. m : sorted[i] = x
<1> DEFINE S == ToSet(a)
           m == Cardinality(S)
           At(i) == InOrder(S, Order(S), i)
<1>1. IsFiniteSet(S)
  <2> DEFINE f == [i \in 1 .. n |-> a[i]]
  <2>1. IsFiniteSet(1 .. n)
    BY FS_Interval
  <2>2. f \in Surjection(1 .. n, S)
    BY DEF Surjection, ToSet
  <2> QED BY <2>1, <2>2, FS_Surjection
<1>2. \A x \in S : x.uri \in Nat /\ x.encrypt \in BOOLEAN
  BY DEF ToSet, Extensions
<1>3. \A x, y \in S : x.uri = y.uri => x = y
  OBVIOUS
<1> HIDE DEF S
<1>4. ASSUME NEW x \in S, NEW y \in S
      PROVE  Precedes(x, y) <=> \/ x.encrypt = y.encrypt /\ x.uri < y.uri
                                \/ x.encrypt # y.encrypt /\ x.encrypt
  BY DEF Precedes
<1>5. \A x \in S : ~Precedes(x, x)
  BY <1>2, <1>4
<1>6. \A x, y \in S : x = y \/ Precedes(x, y) \/ Precedes(y, x)
  <2> TAKE x, y \in S
  <2>1. CASE x.encrypt = y.encrypt
    BY <1>2, <1>3, <1>4, <2>1
  <2>2. CASE x.encrypt # y.encrypt
    <3>1. x.encrypt \in BOOLEAN /\ y.encrypt \in BOOLEAN
      BY <1>2
    <3>2. x.encrypt \/ y.encrypt
      BY <2>2, <3>1, Zenon
    <3> QED BY <1>4, <2>2, <3>2
  <2> QED BY <2>1, <2>2
<1>7. \A x, y, z \in S : Precedes(x, y) /\ Precedes(y, z) => Precedes(x, z)
  <2> TAKE x, y, z \in S
  <2> HAVE Precedes(x, y) /\ Precedes(y, z)
  <2>1. CASE x.encrypt = y.encrypt /\ y.encrypt = z.encrypt
    <3>1. x.uri < y.uri /\ y.uri < z.uri
      BY <1>4, <2>1
    <3>2. x.uri < z.uri
      BY <1>2, <3>1
    <3> QED BY <1>4, <2>1, <3>2
  <2>2. CASE x.encrypt # y.encrypt
    <3>1. x.encrypt /\ x.encrypt \in BOOLEAN /\ y.encrypt \in BOOLEAN /\ z.encrypt \in BOOLEAN
      BY <1>2, <1>4, <2>2
    <3>2. ~y.encrypt
      BY <2>2, <3>1, Zenon
    <3>3. z.encrypt = y.encrypt
      BY <1>4, <3>2
    <3>4. x.encrypt # z.encrypt
      BY <2>2, <3>3
    <3> QED BY <1>4, <3>1, <3>4
  <2>3. CASE x.encrypt = y.encrypt /\ y.encrypt # z.encrypt
    <3>1. y.encrypt
      BY <1>4, <2>3
    <3>2. x.encrypt # z.encrypt
      BY <2>3
    <3>3. x.encrypt
      BY <2>3, <3>1
    <3> QED BY <1>4, <3>2, <3>3
  <2> QED BY <2>1, <2>2, <2>3
<1>8. \A x, y \in S : <<x, y>> \in Order(S) <=> Precedes(x, y)
  BY DEF Order
<1>9. /\ m \in Nat
      /\ \A i \in 1 .. m : At(i) \in S
      /\ \A i, j \in 1 .. m : i < j => <<At(i), At(j)>> \in Order(S)
      /\ \A x \in S : \E i \in 1 .. m : At(i) = x
  <2>1. /\ \A x \in S : <<x, x>> \notin Order(S)
        /\ \A x, y, z \in S :
               <<x, y>> \in Order(S) /\ <<y, z>> \in Order(S) => <<x, z>> \in Order(S)
        /\ \A x, y \in S : x = y \/ <<x, y>> \in Order(S) \/ <<y, x>> \in Order(S)
    BY <1>5, <1>6, <1>7, <1>8
  <2> QED BY <1>1, <2>1, Ranked
<1>10. SortExtensions(a) = [i \in 1 .. m |-> At(i)]
  BY <1>6, SortedIsOfSet DEF S
<1> HIDE DEF m, At
<1>11. ASSUME NEW i \in 1 .. m, NEW j \in 1 .. m, At(i).uri = At(j).uri PROVE i = j
  <2>1. At(i) = At(j) /\ At(i) \in S
    BY <1>3, <1>9, <1>11
  <2>2. ~(i < j) /\ ~(j < i)
    BY <1>5, <1>8, <1>9, <2>1
  <2> QED BY <1>9, <2>2
<1>12. LET sorted == SortExtensions(a)
       IN  /\ DOMAIN sorted = 1 .. m
           /\ \A i \in 1 .. m : sorted[i] \in S
           /\ \A i, j \in 1 .. m : sorted[i].uri = sorted[j].uri => i = j
           /\ \A x \in S : \E i \in 1 .. m : sorted[i] = x
  BY <1>9, <1>10, <1>11
<1> QED BY <1>9, <1>12 DEF S

\* A list of different names is left alone by std::unique, up to a renumbering
\* of its places.
LEMMA UniqueAre ==
    ASSUME NEW a, NEW n \in Nat, DOMAIN a = 1 .. n,
           \A i, j \in 1 .. n : a[i].uri = a[j].uri => i = j
    PROVE  \E m \in Nat :
               /\ DOMAIN Unique(a) = 1 .. m
               /\ \A i \in 1 .. m : \E k \in 1 .. n : Unique(a)[i] = a[k]
               /\ \A i, j \in 1 .. m : Unique(a)[i].uri = Unique(a)[j].uri => i = j
               /\ \A k \in 1 .. n : \E i \in 1 .. m : Unique(a)[i] = a[k]
<1> DEFINE P == {i \in DOMAIN a : \/ i = 1
                                  \/ a[i - 1].uri # a[i].uri
                                  \/ a[i - 1].encrypt # a[i].encrypt}
           m == Cardinality(P)
<1>1. P = 1 .. n
  <2>1. ASSUME NEW i \in 1 .. n, i # 1 PROVE a[i - 1].uri # a[i].uri
    <3>1. i - 1 \in 1 .. n /\ i - 1 # i
      BY <2>1
    <3> QED BY <3>1
  <2> QED BY <2>1
<1>2. Unique(a) = Picked(a, P)
  BY DEF Unique
<1> HIDE DEF P
<1>3. /\ m \in Nat /\ DOMAIN Unique(a) = 1 .. m
      /\ \A i \in 1 .. m : Nth(P, i) \in P /\ Unique(a)[i] = a[Nth(P, i)]
      /\ \A i, j \in 1 .. m : Nth(P, i) = Nth(P, j) => i = j
      /\ \A k \in P : \E i \in 1 .. m : Nth(P, i) = k
  <2>1. P \in SUBSET (1 .. n)
    BY <1>1
  <2> QED BY <1>2, <2>1, PickedAre
<1> HIDE DEF m
<1>4. \A i, j \in 1 .. m : Unique(a)[i].uri = Unique(a)[j].uri => i = j
  BY <1>1, <1>3
<1>5. \A k \in 1 .. n : \E i \in 1 .. m : Unique(a)[i] = a[k]
  BY <1>1, <1>3
<1>6. \A i \in 1 .. m : \E k \in 1 .. n : Unique(a)[i] = a[k]
  BY <1>1, <1>3
<1> QED BY <1>3, <1>4, <1>5, <1>6

\* Of different names with an absolute send time, it stays and the timestamp
\* offset goes.
LEMMA DiscardedAre ==
    ASSUME NEW a, NEW n \in Nat, DOMAIN a = 1 .. n,
           \A i, j \in 1 .. n : a[i].uri = a[j].uri => i = j,
           NEW at \in 1 .. n, a[at].uri = AbsSendTime
    PROVE  LET out == DiscardRedundantExtensions(a)
           IN  /\ \E i \in DOMAIN out : out[i].uri = AbsSendTime
               /\ \A i \in DOMAIN out : out[i].uri # TimestampOffset
<1> DEFINE out == DiscardRedundantExtensions(a)
           At(uri) == {i \in DOMAIN a : a[i].uri = uri}
           T == At(TimestampOffset)
<1>1. At(AbsSendTime) # {} /\ AbsSendTime # TimestampOffset
  BY DEF AbsSendTime, TimestampOffset
<1>2. CASE T = {}
  <2>1. out = a
    BY <1>2 DEF DiscardRedundantExtensions
  <2> QED BY <1>2, <2>1
<1>3. CASE T # {}
  <2> DEFINE P == (1 .. n) \ {Min(T)}
             m == Cardinality(P)
  <2>1. out = Picked(a, P)
    BY <1>1, <1>3 DEF DiscardRedundantExtensions
  <2>2. Min(T) \in T
    <3>1. T \in SUBSET Nat
      OBVIOUS
    <3> QED BY <1>3, <3>1, MinIsIn
  <2> HIDE DEF out
  <2>3. /\ DOMAIN out = 1 .. m
        /\ \A i \in 1 .. m : Nth(P, i) \in P /\ out[i] = a[Nth(P, i)]
        /\ \A k \in P : \E i \in 1 .. m : Nth(P, i) = k
    <3>1. P \in SUBSET (1 .. n)
      OBVIOUS
    <3> HIDE DEF P
    <3> QED BY <2>1, <3>1, PickedAre
  <2> HIDE DEF m
  <2>4. at \in P
    BY <1>1, <2>2
  <2>5. \A k \in P : a[k].uri # TimestampOffset
    BY <2>2
  <2> HIDE DEF P
  <2>6. \E i \in 1 .. m : out[i].uri = AbsSendTime
    <3>1. PICK i \in 1 .. m : Nth(P, i) = at
      BY <2>3, <2>4
    <3> QED BY <2>3, <3>1
  <2>7. \A i \in 1 .. m : out[i].uri # TimestampOffset
    BY <2>3, <2>5
  <2>8. /\ \E i \in DOMAIN out : out[i].uri = AbsSendTime
        /\ \A i \in DOMAIN out : out[i].uri # TimestampOffset
    BY <2>3, <2>6, <2>7
  <2> QED BY <2>8 DEF out
<1> QED BY <1>2, <1>3

\* A list with every extension once that has an absolute send time.
LEMMA SendTimeWins ==
    ASSUME NEW all \in Seq(Extensions), NEW supported, AbsSendTime \in supported,
           \A i, j \in DOMAIN all : i # j => all[i].uri # all[j].uri,
           NEW at \in DOMAIN all, all[at].uri = AbsSendTime
    PROVE  LET out == FilterRtpExtensions(all, supported, TRUE)
               kept == {out[i].uri : i \in DOMAIN out}
           IN  AbsSendTime \in kept /\ TimestampOffset \notin kept
<1> DEFINE N == Len(all)
           P == {i \in DOMAIN all : all[i].uri \in supported}
           known == Picked(all, P)
           sorted == SortExtensions(known)
           unique == Unique(sorted)
<1>1. N \in Nat /\ DOMAIN all = 1 .. N /\ \A i \in 1 .. N : all[i] \in Extensions
  OBVIOUS
<1>2. P \in SUBSET (1 .. N) /\ at \in P
  BY <1>1
<1>3. FilterRtpExtensions(all, supported, TRUE) = DiscardRedundantExtensions(unique)
  BY DEF FilterRtpExtensions
<1> HIDE DEF P, N
<1>4. PICK n \in Nat : DOMAIN known = 1 .. n /\ \A i \in 1 .. n : \E k \in P : known[i] = all[k]
  BY <1>1, <1>2, PickedAre
<1>5. ToSet(known) = {all[k] : k \in P}
  BY <1>1, <1>2, PickedSet
<1> HIDE DEF known
<1>6. /\ \A i \in 1 .. n : known[i] \in Extensions
      /\ \A x, y \in ToSet(known) : x.uri = y.uri => x = y
      /\ all[at] \in ToSet(known)
  <2>1. \A i \in 1 .. n : known[i] \in Extensions
    BY <1>1, <1>2, <1>4
  <2>2. \A x, y \in ToSet(known) : x.uri = y.uri => x = y
    <3> TAKE x, y \in ToSet(known)
    <3>1. PICK i \in P : x = all[i]
      BY <1>5
    <3>2. PICK j \in P : y = all[j]
      BY <1>5
    <3>3. i \in DOMAIN all /\ j \in DOMAIN all
      BY <1>1, <1>2
    <3> QED BY <3>1, <3>2, <3>3
  <2> QED BY <1>2, <1>5, <2>1, <2>2
<1>7. PICK m \in Nat :
          /\ DOMAIN sorted = 1 .. m
          /\ \A i, j \in 1 .. m : sorted[i].uri = sorted[j].uri => i = j
          /\ \A x \in ToSet(known) : \E i \in 1 .. m : sorted[i] = x
  <2> HIDE DEF sorted
  <2> QED BY <1>4, <1>6, SortedAre DEF sorted
<1> HIDE DEF sorted
<1>8. PICK u \in Nat :
          /\ DOMAIN unique = 1 .. u
          /\ \A i, j \in 1 .. u : unique[i].uri = unique[j].uri => i = j
          /\ \A k \in 1 .. m : \E i \in 1 .. u : unique[i] = sorted[k]
  <2>1. \E u \in Nat :
            /\ DOMAIN Unique(sorted) = 1 .. u
            /\ \A i \in 1 .. u : \E k \in 1 .. m : Unique(sorted)[i] = sorted[k]
            /\ \A i, j \in 1 .. u : Unique(sorted)[i].uri = Unique(sorted)[j].uri => i = j
            /\ \A k \in 1 .. m : \E i \in 1 .. u : Unique(sorted)[i] = sorted[k]
    BY <1>7, UniqueAre
  <2> QED BY <2>1
<1> HIDE DEF unique
<1>9. PICK k \in 1 .. m : sorted[k] = all[at]
  BY <1>6, <1>7
<1>10. PICK i \in 1 .. u : unique[i] = all[at]
  BY <1>8, <1>9
<1>11. unique[i].uri = AbsSendTime
  BY <1>10
<1>12. LET out == DiscardRedundantExtensions(unique)
       IN  /\ \E j \in DOMAIN out : out[j].uri = AbsSendTime
           /\ \A j \in DOMAIN out : out[j].uri # TimestampOffset
  BY <1>8, <1>11, DiscardedAre
<1> QED BY <1>3, <1>12

-----------------------------------------------------------------------------
(* Statistics *)

\* A sum is a loop: what every turn leaves is defined.
LEMMA SumRuns ==
    ASSUME NEW list, Len(list) \in Nat
    PROVE  \E sum : /\ sum[0] = 0
                    /\ \A n \in 1 .. Len(list) : sum[n] = sum[n - 1] + list[n]
                    /\ SumOf(list) = sum[Len(list)]
<1> DEFINE L == Len(list)
           Runs(g, m) == g = [n \in 0 .. m |-> IF n = 0 THEN 0 ELSE g[n - 1] + list[n]]
           T == {m \in 0 .. L : ~\E g : Runs(g, m)}
<1>1. T = {}
  <2>1. SUFFICES ASSUME T # {} PROVE FALSE
    OBVIOUS
  <2>2. PICK m \in T : \A k \in T : m <= k
    <3>1. T \in SUBSET Nat
      OBVIOUS
    <3> HIDE DEF T
    <3> QED BY <2>1, <3>1, LeastNumber
  <2>3. m \in 0 .. L /\ ~\E g : Runs(g, m)
    BY <2>2
  <2>4. m # 0
    <3> DEFINE g == [n \in 0 .. 0 |-> 0]
    <3>1. g = [n \in 0 .. 0 |-> IF n = 0 THEN 0 ELSE g[n - 1] + list[n]]
      OBVIOUS
    <3> QED BY <2>3, <3>1
  <2>5. m - 1 \in 0 .. L /\ m - 1 \notin T
    <3>1. m \in Nat /\ m - 1 \in 0 .. L /\ ~(m <= m - 1)
      BY <2>3, <2>4
    <3> HIDE DEF T
    <3> QED BY <2>2, <3>1
  <2>6. PICK g : Runs(g, m - 1)
    BY <2>5
  <2> DEFINE h == [n \in 0 .. m |-> IF n = m THEN g[m - 1] + list[m] ELSE g[n]]
             r == [n \in 0 .. m |-> IF n = 0 THEN 0 ELSE h[n - 1] + list[n]]
  <2>7. ASSUME NEW n \in 0 .. m PROVE h[n] = r[n]
    <3>1. CASE n = m
      <4>1. m - 1 \in 0 .. m /\ m - 1 # m
        BY <2>3, <2>4
      <4>2. h[m - 1] = g[m - 1]
        BY <4>1
      <4> QED BY <2>4, <3>1, <4>2
    <3>2. CASE n # m
      <4>1. n \in 0 .. m - 1
        BY <2>3, <3>2
      <4>2. g[n] = IF n = 0 THEN 0 ELSE g[n - 1] + list[n]
        BY <2>6, <4>1
      <4>3. n # 0 => n - 1 \in 0 .. m /\ n - 1 # m
        BY <2>3, <4>1
      <4>4. n # 0 => h[n - 1] = g[n - 1]
        BY <4>3
      <4> QED BY <3>2, <4>2, <4>4
    <3> QED BY <3>1, <3>2
  <2>8. h = r
    BY <2>7
  <2> QED BY <2>3, <2>8
<1>2. \E g : Runs(g, L)
  BY <1>1
<1> DEFINE sum == CHOOSE g : Runs(g, L)
<1>3. Runs(sum, L)
  BY <1>2
<1>4. SumOf(list) = sum[L]
  BY DEF SumOf
<1> HIDE DEF sum
<1>5. sum[0] = 0 /\ \A n \in 1 .. L : sum[n] = sum[n - 1] + list[n]
  <2>1. \A n \in 0 .. L : sum[n] = IF n = 0 THEN 0 ELSE sum[n - 1] + list[n]
    BY <1>3
  <2> QED BY <2>1
<1> QED BY <1>4, <1>5

\* So is the report of a stream as a whole.
LEMMA AggregatedRuns ==
    ASSUME NEW config, NEW infos, Len(infos) \in Nat, Len(infos) >= 1
    PROVE  \E after :
               /\ after[1] = [infos[1] EXCEPT !.ssrcs = ToSet(config.ssrcs)]
               /\ \A n \in 2 .. Len(infos) : after[n] = AddInfo(after[n - 1], infos[n])
               /\ GetAggregatedVideoSenderInfo(config, infos) =
                      IF Len(infos) = 1 THEN infos[1] ELSE after[Len(infos)]
<1> DEFINE L == Len(infos)
           first == [infos[1] EXCEPT !.ssrcs = ToSet(config.ssrcs)]
           Runs(g, m) == g = [n \in 1 .. m |-> IF n = 1 THEN first
                                               ELSE AddInfo(g[n - 1], infos[n])]
           T == {m \in 1 .. L : ~\E g : Runs(g, m)}
<1>0. GetAggregatedVideoSenderInfo(config, infos) =
          IF L = 1 THEN infos[1] ELSE (CHOOSE g : Runs(g, L))[L]
  BY DEF GetAggregatedVideoSenderInfo
<1> HIDE DEF first
<1>1. T = {}
  <2>1. SUFFICES ASSUME T # {} PROVE FALSE
    OBVIOUS
  <2>2. PICK m \in T : \A k \in T : m <= k
    <3>1. T \in SUBSET Nat
      OBVIOUS
    <3> HIDE DEF T
    <3> QED BY <2>1, <3>1, LeastNumber
  <2>3. m \in 1 .. L /\ ~\E g : Runs(g, m)
    BY <2>2
  <2>4. m # 1
    <3> DEFINE g == [n \in 1 .. 1 |-> first]
    <3>1. g = [n \in 1 .. 1 |-> IF n = 1 THEN first ELSE AddInfo(g[n - 1], infos[n])]
      OBVIOUS
    <3> QED BY <2>3, <3>1
  <2>5. m - 1 \in 1 .. L /\ m - 1 \notin T
    <3>1. m \in Nat /\ m - 1 \in 1 .. L /\ ~(m <= m - 1)
      BY <2>3, <2>4
    <3> HIDE DEF T
    <3> QED BY <2>2, <3>1
  <2>6. PICK g : Runs(g, m - 1)
    BY <2>5
  <2> DEFINE h == [n \in 1 .. m |-> IF n = m THEN AddInfo(g[m - 1], infos[m]) ELSE g[n]]
             r == [n \in 1 .. m |-> IF n = 1 THEN first ELSE AddInfo(h[n - 1], infos[n])]
  <2>7. ASSUME NEW n \in 1 .. m PROVE h[n] = r[n]
    <3>1. CASE n = m
      <4>1. m - 1 \in 1 .. m /\ m - 1 # m
        BY <2>3, <2>4
      <4>2. h[m - 1] = g[m - 1]
        BY <4>1
      <4> QED BY <2>4, <3>1, <4>2
    <3>2. CASE n # m
      <4>1. n \in 1 .. m - 1
        BY <2>3, <3>2
      <4>2. g[n] = IF n = 1 THEN first ELSE AddInfo(g[n - 1], infos[n])
        BY <2>6, <4>1
      <4>3. n # 1 => n - 1 \in 1 .. m /\ n - 1 # m
        BY <2>3, <4>1
      <4>4. n # 1 => h[n - 1] = g[n - 1]
        BY <4>3
      <4> QED BY <3>2, <4>2, <4>4
    <3> QED BY <3>1, <3>2
  <2>8. h = r
    BY <2>7
  <2> QED BY <2>3, <2>8
<1>2. \E g : Runs(g, L)
  BY <1>1
<1> DEFINE after == CHOOSE g : Runs(g, L)
<1>3. Runs(after, L)
  BY <1>2
<1>4. GetAggregatedVideoSenderInfo(config, infos) = IF L = 1 THEN infos[1] ELSE after[L]
  BY <1>0
<1> HIDE DEF after
<1>5. after[1] = first /\ \A n \in 2 .. L : after[n] = AddInfo(after[n - 1], infos[n])
  <2>1. \A n \in 1 .. L : after[n] = IF n = 1 THEN first ELSE AddInfo(after[n - 1], infos[n])
    BY <1>3
  <2> QED BY <2>1
<1> QED BY <1>4, <1>5 DEF first

\* A report of a layer, and the quantisers it adds to a sum.
IsReport(info) ==
    /\ DOMAIN info = {"ssrcs", "rid", "bytes", "width", "qp"}
    /\ info = [f \in DOMAIN info |-> info[f]]
    /\ info.bytes \in Int /\ info.width \in Int /\ (info.qp \in Nat \/ info.qp = NoQp)

QpOf(info) == IF info.qp = NoQp THEN 0 ELSE info.qp

\* One more report.
LEMMA AddInfoAdds ==
    ASSUME NEW sum, IsReport(sum), NEW info, IsReport(info)
    PROVE  LET new == AddInfo(sum, info)
           IN  /\ IsReport(new) /\ new.bytes = sum.bytes + info.bytes
               /\ new.width \in {sum.width, info.width}
               /\ sum.width <= new.width /\ info.width <= new.width
               /\ new.qp = NoQp <=> sum.qp = NoQp /\ info.qp = NoQp
               /\ QpOf(new) = QpOf(sum) + QpOf(info)
<1> DEFINE new == AddInfo(sum, info)
           qp == IF info.qp = NoQp THEN sum.qp
                 ELSE (IF sum.qp = NoQp THEN 0 ELSE sum.qp) + info.qp
           width == IF info.width > sum.width THEN info.width ELSE sum.width
<1>1. /\ sum.bytes \in Int /\ sum.width \in Int /\ (sum.qp \in Nat \/ sum.qp = NoQp)
      /\ info.bytes \in Int /\ info.width \in Int /\ (info.qp \in Nat \/ info.qp = NoQp)
      /\ DOMAIN sum = {"ssrcs", "rid", "bytes", "width", "qp"}
  BY DEF IsReport
<1>2. /\ DOMAIN new = DOMAIN sum /\ new = [f \in DOMAIN new |-> new[f]]
      /\ new.bytes = sum.bytes + info.bytes /\ new.width = width /\ new.qp = qp
  BY <1>1 DEF AddInfo
<1> HIDE DEF new
<1>3. /\ width \in Int /\ width \in {sum.width, info.width}
      /\ sum.width <= width /\ info.width <= width
  BY <1>1
<1>4. /\ qp \in Nat \/ qp = NoQp
      /\ qp = NoQp <=> sum.qp = NoQp /\ info.qp = NoQp
      /\ (IF qp = NoQp THEN 0 ELSE qp)
             = (IF sum.qp = NoQp THEN 0 ELSE sum.qp) + (IF info.qp = NoQp THEN 0 ELSE info.qp)
  BY <1>1 DEF NoQp
<1> HIDE DEF qp, width
<1>5. IsReport(new)
  BY <1>1, <1>2, <1>3, <1>4 DEF IsReport
<1>6. QpOf(new) = QpOf(sum) + QpOf(info)
  BY <1>2, <1>4 DEF QpOf
<1> QED BY <1>2, <1>3, <1>4, <1>5, <1>6 DEF new

\* All of them.
LEMMA AggregatedAre ==
    ASSUME NEW config, NEW infos, NEW L \in Nat, L >= 1, Len(infos) = L,
           DOMAIN infos = 1 .. L, \A k \in 1 .. L : IsReport(infos[k]),
           NEW all, all = GetAggregatedVideoSenderInfo(config, infos)
    PROVE  /\ all.bytes = SumOf([k \in 1 .. L |-> infos[k].bytes])
           /\ \E k \in 1 .. L : all.width = infos[k].width
           /\ \A k \in 1 .. L : infos[k].width <= all.width
           /\ all.qp = NoQp <=> \A k \in 1 .. L : infos[k].qp = NoQp
           /\ QpOf(all) = SumOf([k \in 1 .. L |-> QpOf(infos[k])])
<1> DEFINE first == [infos[1] EXCEPT !.ssrcs = ToSet(config.ssrcs)]
           bytes == [k \in 1 .. L |-> infos[k].bytes]
           qps == [k \in 1 .. L |-> QpOf(infos[k])]
<1>1. PICK after : /\ after[1] = first
                   /\ \A n \in 2 .. L : after[n] = AddInfo(after[n - 1], infos[n])
                   /\ all = IF L = 1 THEN infos[1] ELSE after[L]
  <2>1. Len(infos) \in Nat /\ Len(infos) >= 1
    OBVIOUS
  <2>2. \E after :
            /\ after[1] = [infos[1] EXCEPT !.ssrcs = ToSet(config.ssrcs)]
            /\ \A n \in 2 .. Len(infos) : after[n] = AddInfo(after[n - 1], infos[n])
            /\ GetAggregatedVideoSenderInfo(config, infos) =
                   IF Len(infos) = 1 THEN infos[1] ELSE after[Len(infos)]
    BY <2>1, AggregatedRuns
  <2> QED BY <2>2
<1>2. Len(bytes) = L /\ Len(qps) = L
  OBVIOUS
<1>3. PICK sb : /\ sb[0] = 0 /\ \A n \in 1 .. L : sb[n] = sb[n - 1] + bytes[n]
                /\ SumOf(bytes) = sb[L]
  <2> HIDE DEF bytes
  <2> QED BY <1>2, SumRuns
<1>4. PICK sq : /\ sq[0] = 0 /\ \A n \in 1 .. L : sq[n] = sq[n - 1] + qps[n]
                /\ SumOf(qps) = sq[L]
  <2> HIDE DEF qps
  <2> QED BY <1>2, SumRuns
<1>5. \A k \in 1 .. L : bytes[k] = infos[k].bytes /\ qps[k] = QpOf(infos[k])
  OBVIOUS
<1> HIDE DEF bytes, qps
<1>6. /\ IsReport(first) /\ first.bytes = infos[1].bytes /\ first.width = infos[1].width
      /\ first.qp = infos[1].qp
  <2>1. 1 \in 1 .. L
    OBVIOUS
  <2>2. IsReport(infos[1])
    BY <2>1
  <2> QED BY <2>2 DEF IsReport
<1> HIDE DEF first
<1> DEFINE Turn(n) ==
               /\ IsReport(after[n]) /\ after[n].bytes = sb[n]
               /\ \E k \in 1 .. n : after[n].width = infos[k].width
               /\ \A k \in 1 .. n : infos[k].width <= after[n].width
               /\ after[n].qp = NoQp <=> \A k \in 1 .. n : infos[k].qp = NoQp
               /\ QpOf(after[n]) = sq[n]
           T == {n \in 1 .. L : ~Turn(n)}
<1>7. Turn(1)
  <2>1. 1 \in 1 .. L /\ 1 .. 1 = {1} /\ 1 - 1 = 0
    OBVIOUS
  <2>2. IsReport(infos[1])
    BY <2>1
  <2>3. infos[1].bytes \in Int /\ infos[1].width \in Int /\ QpOf(infos[1]) \in Int
    BY <2>2 DEF IsReport, QpOf, NoQp
  <2>4. sb[1] = infos[1].bytes
    <3>1. sb[1] = 0 + infos[1].bytes
      BY <1>3, <1>5, <2>1
    <3> QED BY <2>3, <3>1
  <2>5. sq[1] = QpOf(infos[1])
    <3>1. sq[1] = 0 + QpOf(infos[1])
      BY <1>4, <1>5, <2>1
    <3> QED BY <2>3, <3>1
  <2>6. QpOf(first) = QpOf(infos[1])
    BY <1>6 DEF QpOf
  <2> QED BY <1>1, <1>6, <2>1, <2>3, <2>4, <2>5, <2>6
<1>8. ASSUME NEW n \in 2 .. L, Turn(n - 1) PROVE Turn(n)
  <2>1. n \in 1 .. L /\ n - 1 \in 1 .. L /\ 1 .. n = (1 .. n - 1) \cup {n}
    OBVIOUS
  <2> DEFINE old == after[n - 1]
             new == after[n]
             info == infos[n]
  <2>2. IsReport(old) /\ IsReport(info)
    BY <1>8, <2>1
  <2>3. new = AddInfo(old, info)
    BY <1>1
  <2>4. /\ IsReport(new) /\ new.bytes = old.bytes + info.bytes
        /\ new.width \in {old.width, info.width}
        /\ old.width <= new.width /\ info.width <= new.width
        /\ new.qp = NoQp <=> old.qp = NoQp /\ info.qp = NoQp
        /\ QpOf(new) = QpOf(old) + QpOf(info)
    <3> HIDE DEF old, new, info
    <3> QED BY <2>2, <2>3, AddInfoAdds
  <2>5. new.bytes = sb[n]
    BY <1>3, <1>5, <1>8, <2>1, <2>4
  <2>6. QpOf(new) = sq[n]
    BY <1>4, <1>5, <1>8, <2>1, <2>4
  <2>7. \E k \in 1 .. n : new.width = infos[k].width
    <3>1. CASE new.width = info.width
      BY <2>1, <3>1
    <3>2. CASE new.width = old.width
      <4>1. PICK k \in 1 .. n - 1 : old.width = infos[k].width
        BY <1>8
      <4> QED BY <2>1, <3>2, <4>1
    <3> QED BY <2>4, <3>1, <3>2
  <2>8. \A k \in 1 .. n : infos[k].width <= new.width
    <3> TAKE k \in 1 .. n
    <3>1. CASE k = n
      BY <2>4, <3>1
    <3>2. CASE k # n
      <4>1. k \in 1 .. n - 1 /\ k \in 1 .. L
        BY <3>2
      <4>2. infos[k].width <= old.width
        BY <1>8, <4>1
      <4>3. infos[k].width \in Int /\ old.width \in Int /\ new.width \in Int
        BY <2>2, <2>4, <4>1 DEF IsReport
      <4> QED BY <2>4, <4>2, <4>3
    <3> QED BY <3>1, <3>2
  <2>9. new.qp = NoQp <=> \A k \in 1 .. n : infos[k].qp = NoQp
    <3>1. old.qp = NoQp <=> \A k \in 1 .. n - 1 : infos[k].qp = NoQp
      BY <1>8
    <3> QED BY <2>1, <2>4, <3>1
  <2> QED BY <2>4, <2>5, <2>6, <2>7, <2>8, <2>9
<1> HIDE DEF Turn
<1>9. T = {}
  <2>1. SUFFICES ASSUME T # {} PROVE FALSE
    OBVIOUS
  <2>2. PICK n \in T : \A k \in T : n <= k
    <3>1. T \in SUBSET Nat
      OBVIOUS
    <3> HIDE DEF T
    <3> QED BY <2>1, <3>1, LeastNumber
  <2>3. n \in 1 .. L /\ ~Turn(n)
    BY <2>2
  <2>4. n # 1
    BY <1>7, <2>3
  <2>5. n \in 2 .. L /\ n - 1 \in 1 .. L /\ ~(n <= n - 1)
    BY <2>3, <2>4
  <2>6. Turn(n - 1)
    BY <2>2, <2>5
  <2> QED BY <1>8, <2>3, <2>5, <2>6
<1>10. Turn(L)
  BY <1>9
<1>11. all.bytes = after[L].bytes /\ all.width = after[L].width /\ all.qp = after[L].qp
  <2>1. CASE L = 1
    BY <1>1, <1>6, <2>1
  <2>2. CASE L # 1
    BY <1>1, <2>2
  <2> QED BY <2>1, <2>2
<1>12. QpOf(all) = QpOf(after[L])
  BY <1>11 DEF QpOf
<1>13. /\ all.bytes = SumOf(bytes)
       /\ \E k \in 1 .. L : all.width = infos[k].width
       /\ \A k \in 1 .. L : infos[k].width <= all.width
       /\ all.qp = NoQp <=> \A k \in 1 .. L : infos[k].qp = NoQp
       /\ QpOf(all) = SumOf(qps)
  BY <1>3, <1>4, <1>10, <1>11, <1>12 DEF Turn
<1> QED BY <1>13 DEF bytes, qps

\* What Nth goes through, for any finite set of numbers.
LEMMA NthOfSet ==
    ASSUME NEW S \in SUBSET Nat, IsFiniteSet(S)
    PROVE  /\ Cardinality(S) \in Nat
           /\ \A i \in 1 .. Cardinality(S) : Nth(S, i) \in S
           /\ \A k \in S : \E i \in 1 .. Cardinality(S) : Nth(S, i) = k
           /\ \A i, j \in 1 .. Cardinality(S) : i # j => Nth(S, i) # Nth(S, j)
<1> DEFINE order == {pair \in S \X S : pair[1] < pair[2]}
<1>2. \A x, y \in S : <<x, y>> \in order <=> x < y
  OBVIOUS
<1>3. \A i : Nth(S, i) = InOrder(S, order, i)
  <2>1. \A x \in S : {y \in S : y < x} = {y \in S : <<y, x>> \in order}
    BY <1>2
  <2> QED BY <2>1 DEF Nth, InOrder
<1> HIDE DEF order
<1>4. /\ \A x \in S : <<x, x>> \notin order
      /\ \A x, y, z \in S : <<x, y>> \in order /\ <<y, z>> \in order => <<x, z>> \in order
      /\ \A x, y \in S : x = y \/ <<x, y>> \in order \/ <<y, x>> \in order
  BY <1>2
<1>5. /\ Cardinality(S) \in Nat
      /\ \A i \in 1 .. Cardinality(S) : InOrder(S, order, i) \in S
      /\ \A i, j \in 1 .. Cardinality(S) :
             i < j => <<InOrder(S, order, i), InOrder(S, order, j)>> \in order
      /\ \A x \in S : \E i \in 1 .. Cardinality(S) : InOrder(S, order, i) = x
  BY <1>4, Ranked
<1>6. ASSUME NEW i \in 1 .. Cardinality(S), NEW j \in 1 .. Cardinality(S), i # j
      PROVE  InOrder(S, order, i) # InOrder(S, order, j)
  <2>1. i < j \/ j < i
    BY <1>5, <1>6
  <2> QED BY <1>4, <1>5, <2>1
<1> QED BY <1>3, <1>5, <1>6

\* The sum of numbers is one.
LEMMA SumIsNumber ==
    ASSUME NEW list, Len(list) \in Nat, \A n \in 1 .. Len(list) : list[n] \in Int
    PROVE  SumOf(list) \in Int
<1> DEFINE L == Len(list)
<1>1. PICK sum : /\ sum[0] = 0
                 /\ \A n \in 1 .. L : sum[n] = sum[n - 1] + list[n]
                 /\ SumOf(list) = sum[L]
  BY SumRuns
<1> HIDE DEF L
<1> DEFINE T == {n \in 0 .. L : sum[n] \notin Int}
<1>2. L \in Nat /\ \A n \in 1 .. L : list[n] \in Int
  BY DEF L
<1>3. T = {}
  <2>1. SUFFICES ASSUME T # {} PROVE FALSE
    OBVIOUS
  <2>2. PICK n \in T : \A k \in T : n <= k
    <3>1. T \in SUBSET Nat
      OBVIOUS
    <3> HIDE DEF T
    <3> QED BY <2>1, <3>1, LeastNumber
  <2>3. n \in 0 .. L /\ sum[n] \notin Int
    BY <2>2
  <2>4. n # 0
    BY <1>1, <2>3
  <2>5. n \in 1 .. L /\ n - 1 \in 0 .. L /\ ~(n <= n - 1)
    BY <1>2, <2>3, <2>4
  <2>6. sum[n - 1] \in Int
    BY <2>2, <2>5
  <2>7. sum[n] = sum[n - 1] + list[n] /\ list[n] \in Int
    BY <1>1, <1>2, <2>5
  <2> QED BY <2>3, <2>6, <2>7
<1>4. L \in 0 .. L
  BY <1>2
<1> QED BY <1>1, <1>3, <1>4

\* The sum over at most two SSRCs.
LEMMA SumOfFew ==
    ASSUME NEW f, NEW E \in SUBSET Nat, NEW a, NEW b, a # b, E \subseteq {a, b},
           \A e \in E : f[e] \in Int
    PROVE  SumOf(Picked(f, E)) = (IF a \in E THEN f[a] ELSE 0) + (IF b \in E THEN f[b] ELSE 0)
<1> DEFINE list == Picked(f, E)
           N == Cardinality(E)
<1>1. E \in {{}, {a}, {b}, {a, b}}
  OBVIOUS
<1>2. /\ IsFiniteSet(E)
      /\ E = {} => N = 0
      /\ E = {a} => N = 1
      /\ E = {b} => N = 1
      /\ E = {a, b} => N = 2
  <2>1. IsFiniteSet({}) /\ Cardinality({}) = 0
    BY FS_EmptySet
  <2>2. /\ IsFiniteSet({a}) /\ Cardinality({a}) = 1
        /\ IsFiniteSet({b}) /\ Cardinality({b}) = 1
    BY FS_Singleton
  <2>3. IsFiniteSet({a} \cup {b}) /\ Cardinality({a} \cup {b}) = 2
    <3>1. b \notin {a}
      OBVIOUS
    <3>2. /\ IsFiniteSet({a} \cup {b})
          /\ Cardinality({a} \cup {b}) = IF b \in {a} THEN Cardinality({a})
                                         ELSE Cardinality({a}) + 1
      BY <2>2, FS_AddElement, Zenon
    <3> QED BY <2>2, <3>1, <3>2
  <2>4. {a, b} = {a} \cup {b}
    OBVIOUS
  <2> QED BY <1>1, <2>1, <2>2, <2>3, <2>4
<1>3. N \in Nat /\ Len(list) = N /\ list = [n \in 1 .. N |-> f[Nth(E, n)]]
  <2>1. N \in Nat
    BY <1>2, FS_CardinalityType
  <2> HIDE DEF N
  <2>2. list = [n \in 1 .. N |-> f[Nth(E, n)]]
    BY DEF Picked, N
  <2> QED BY <2>1, <2>2
<1>4. /\ \A i \in 1 .. N : Nth(E, i) \in E
      /\ \A k \in E : \E i \in 1 .. N : Nth(E, i) = k
      /\ \A i, j \in 1 .. N : i # j => Nth(E, i) # Nth(E, j)
  BY <1>2, NthOfSet
<1> HIDE DEF N, list
<1>5. PICK sum : /\ sum[0] = 0
                 /\ \A n \in 1 .. N : sum[n] = sum[n - 1] + list[n]
                 /\ SumOf(list) = sum[N]
  BY <1>3, SumRuns
<1>6. CASE E = {}
  <2>1. SumOf(list) = 0 /\ a \notin E /\ b \notin E
    BY <1>2, <1>5, <1>6
  <2> QED BY <2>1 DEF list
<1>7. ASSUME NEW c \in {a, b}, E = {c} PROVE SumOf(list) = f[c] /\ f[c] \in Int
  <2>1. N = 1 /\ 1 \in 1 .. N /\ 1 - 1 = 0
    BY <1>2, <1>7
  <2>2. Nth(E, 1) = c
    BY <1>4, <1>7, <2>1
  <2>3. list[1] = f[c] /\ f[c] \in Int
    BY <1>3, <1>7, <2>1, <2>2
  <2>4. sum[1] = 0 + f[c]
    BY <1>5, <2>1, <2>3
  <2> QED BY <1>5, <2>1, <2>3, <2>4
<1>8. CASE E = {a, b}
  <2>1. N = 2 /\ 1 \in 1 .. N /\ 2 \in 1 .. N /\ 1 - 1 = 0 /\ 2 - 1 = 1
    BY <1>2, <1>8
  <2>2. Nth(E, 1) \in {a, b} /\ Nth(E, 2) \in {a, b} /\ Nth(E, 1) # Nth(E, 2)
    BY <1>4, <1>8, <2>1
  <2>3. list[1] = f[Nth(E, 1)] /\ list[2] = f[Nth(E, 2)]
    BY <1>3, <2>1
  <2>4. sum[1] = 0 + list[1] /\ sum[2] = sum[1] + list[2]
    BY <1>5, <2>1
  <2>5. \/ list[1] = f[a] /\ list[2] = f[b]
        \/ list[1] = f[b] /\ list[2] = f[a]
    BY <2>2, <2>3
  <2>6. f[a] \in Int /\ f[b] \in Int
    BY <1>8
  <2>7. sum[2] = f[a] + f[b]
    BY <2>4, <2>5, <2>6
  <2>8. SumOf(list) = f[a] + f[b] /\ a \in E /\ b \in E
    BY <1>5, <1>8, <2>1, <2>7
  <2> QED BY <2>8 DEF list
<1>9. CASE E = {a}
  <2>1. SumOf(list) = f[a] /\ f[a] \in Int /\ a \in E /\ b \notin E
    BY <1>7, <1>9
  <2> QED BY <2>1 DEF list
<1>10. CASE E = {b}
  <2>1. SumOf(list) = f[b] /\ f[b] \in Int /\ b \in E /\ a \notin E
    BY <1>7, <1>10
  <2> QED BY <2>1 DEF list
<1> QED BY <1>1, <1>6, <1>8, <1>9, <1>10

\* The SSRCs of a stream are finitely many numbers.
LEMMA SsrcsAreFinite ==
    ASSUME NEW config \in RtpConfigs
    PROVE  IsFiniteSet(SsrcsOf(config)) /\ SsrcsOf(config) \in SUBSET Nat
<1> DEFINE ms == config.ssrcs
           xs == config.rtx
           F == {s \in {config.flexfec.ssrc} : IsFlexfecSsrc(config, s)}
<1>1. ms \in Seq(Nat) /\ xs \in Seq(Nat)
  BY RtpConfigsAssumption
<1>2. ASSUME NEW list \in Seq(Nat) PROVE IsFiniteSet(ToSet(list)) /\ ToSet(list) \in SUBSET Nat
  <2> DEFINE n == Len(list)
             g == [i \in 1 .. n |-> list[i]]
  <2>1. n \in Nat /\ DOMAIN list = 1 .. n /\ \A i \in 1 .. n : list[i] \in Nat
    OBVIOUS
  <2>2. IsFiniteSet(1 .. n)
    BY <2>1, FS_Interval
  <2> HIDE DEF n
  <2>3. g \in Surjection(1 .. n, ToSet(list))
    BY <2>1 DEF Surjection, ToSet
  <2>4. ToSet(list) \in SUBSET Nat
    BY <2>1 DEF ToSet
  <2> QED BY <2>2, <2>3, <2>4, FS_Surjection
<1>3. IsFiniteSet(F) /\ F \in SUBSET Nat
  <2>1. IsFiniteSet({config.flexfec.ssrc})
    BY FS_Singleton
  <2>2. F \in SUBSET {config.flexfec.ssrc}
    OBVIOUS
  <2>3. F \in SUBSET Nat
    BY RtpConfigsAssumption DEF IsFlexfecSsrc
  <2> QED BY <2>1, <2>2, <2>3, FS_Subset
<1>4. SsrcsOf(config) = (ToSet(ms) \cup ToSet(xs)) \cup F
  BY DEF SsrcsOf
<1> HIDE DEF F, ms, xs
<1>5. IsFiniteSet(ToSet(ms) \cup ToSet(xs))
  BY <1>1, <1>2, FS_Union
<1>6. IsFiniteSet((ToSet(ms) \cup ToSet(xs)) \cup F)
  BY <1>3, <1>5, FS_Union
<1> QED BY <1>1, <1>2, <1>3, <1>4, <1>6

\* The statistics of one SSRC: those of RTX and FlexFEC say which media SSRC
\* they are for.
LEMMA SubstreamsAre ==
    ASSUME NEW config \in RtpConfigs, NEW present \in SUBSET SsrcsOf(config), NEW wide,
           NEW withQp, NEW s \in present,
           NEW stats, stats = Substreams(config, present, wide, withQp)[s]
    PROVE  LET ms == config.ssrcs
               xs == config.rtx
           IN  /\ stats.bytes = s /\ s \in Nat /\ stats.width \in Int
               /\ stats.qp \in Nat \/ stats.qp = NoQp
               /\ stats.type = "media" <=> s \in ToSet(ms)
               /\ \A k \in DOMAIN xs : xs[k] = s => stats.media = ms[k]
               /\ s \notin ToSet(ms) /\ s \notin ToSet(xs) =>
                      /\ IsFlexfecSsrc(config, s)
                      /\ stats.media = config.flexfec.protected[1]
<1> DEFINE ms == config.ssrcs
           xs == config.rtx
           Stats(type, media) ==
               [type |-> type, media |-> media, bytes |-> s,
                width |-> IF s = wide THEN 1280 ELSE 320, qp |-> IF s \in withQp THEN s ELSE NoQp]
<1>1. stats = CASE IsMediaSsrc(config, s) -> Stats("media", -1)
                [] ~IsMediaSsrc(config, s) /\ IsRtxSsrc(config, s) ->
                     Stats("rtx", GetMediaSsrcAssociatedWithRtxSsrc(config, s))
                [] OTHER -> Stats("flexfec", GetMediaSsrcAssociatedWithFlexfecSsrc(config))
  <2>1. Substreams(config, present, wide, withQp)[s]
          = CASE IsMediaSsrc(config, s) -> Stats("media", -1)
              [] ~IsMediaSsrc(config, s) /\ IsRtxSsrc(config, s) ->
                   Stats("rtx", GetMediaSsrcAssociatedWithRtxSsrc(config, s))
              [] OTHER -> Stats("flexfec", GetMediaSsrcAssociatedWithFlexfecSsrc(config))
    BY DEF Substreams
  <2> QED BY <2>1
<1>2. ms \in Seq(Nat) /\ xs \in Seq(Nat) /\ ToSet(ms) \cap ToSet(xs) = {}
  BY RtpConfigsAssumption
<1>3. /\ IsMediaSsrc(config, s) <=> s \in ToSet(ms)
      /\ IsRtxSsrc(config, s) <=> s \in ToSet(xs)
  <2>1. \A list \in Seq(Nat) : Contains(list, s) <=> s \in ToSet(list)
    BY DEF Contains, ToSet
  <2> QED BY <1>2, <2>1 DEF IsMediaSsrc, IsRtxSsrc
<1>4. s \in Nat
  BY SsrcsAreFinite
<1>5. ASSUME NEW type, NEW media
      PROVE  LET r == Stats(type, media)
             IN  /\ r.bytes = s /\ r.width \in Int /\ (r.qp \in Nat \/ r.qp = NoQp)
                 /\ r.type = type /\ r.media = media
  BY <1>4
<1> HIDE DEF Stats
<1>6. CASE s \in ToSet(ms)
  <2>1. stats = Stats("media", -1)
    BY <1>1, <1>3, <1>6
  <2>2. \A k \in DOMAIN xs : xs[k] # s
    BY <1>2, <1>6 DEF ToSet
  <2> QED BY <1>4, <1>5, <1>6, <2>1, <2>2
<1>7. CASE s \notin ToSet(ms) /\ s \in ToSet(xs)
  <2>1. stats = Stats("rtx", GetMediaSsrcAssociatedWithRtxSsrc(config, s))
    BY <1>1, <1>3, <1>7
  <2>2. ASSUME NEW k \in DOMAIN xs, xs[k] = s
        PROVE  GetMediaSsrcAssociatedWithRtxSsrc(config, s) = ms[k]
    <3>1. \A i \in DOMAIN xs : xs[i] = s <=> i = k
      BY <2>2, RtpConfigsAssumption
    <3>2. \A j \in 1 .. k - 1 : xs[j] # s
      <4> TAKE j \in 1 .. k - 1
      <4>1. j \in DOMAIN xs /\ j # k
        BY <1>2
      <4> QED BY <3>1, <4>1
    <3>3. (CHOOSE i \in DOMAIN xs : xs[i] = s /\ \A j \in 1 .. i - 1 : xs[j] # s) = k
      BY <3>1, <3>2
    <3> QED BY <3>3 DEF GetMediaSsrcAssociatedWithRtxSsrc, FindAssociatedSsrc
  <2> QED BY <1>4, <1>5, <1>7, <2>1, <2>2
<1>8. CASE s \notin ToSet(ms) /\ s \notin ToSet(xs)
  <2>1. stats = Stats("flexfec", GetMediaSsrcAssociatedWithFlexfecSsrc(config))
    BY <1>1, <1>3, <1>8
  <2>2. IsFlexfecSsrc(config, s)
    BY <1>8 DEF SsrcsOf
  <2>3. GetMediaSsrcAssociatedWithFlexfecSsrc(config) = config.flexfec.protected[1]
    BY DEF GetMediaSsrcAssociatedWithFlexfecSsrc
  <2>4. \A k \in DOMAIN xs : xs[k] # s
    BY <1>8 DEF ToSet
  <2> QED BY <1>4, <1>5, <1>8, <2>1, <2>2, <2>3, <2>4
<1> QED BY <1>6, <1>7, <1>8

\* What is counted for a media SSRC: its own bytes and those of what protects
\* it.
CountsAre(config, subs, merged) ==
    LET fec == config.flexfec.ssrc
        Sent(s) == IF s \in DOMAIN subs THEN subs[s].bytes ELSE 0
    IN  \A i \in DOMAIN config.ssrcs : config.ssrcs[i] \in DOMAIN subs =>
            /\ config.ssrcs[i] \in DOMAIN merged
            /\ merged[config.ssrcs[i]] =
                   Sent(config.ssrcs[i])
                   + Sent(GetRtxSsrcAssociatedWithMediaSsrc(config, config.ssrcs[i]))
                   + IF /\ IsFlexfecSsrc(config, fec)
                        /\ config.flexfec.protected[1] = config.ssrcs[i]
                     THEN Sent(fec) ELSE 0

\* The statistics of a media SSRC and of what protects it are added up under
\* the media SSRC, and only SSRCs with statistics of their own are reported.
LEMMA MergedAre ==
    ASSUME NEW config \in RtpConfigs, NEW present \in SUBSET SsrcsOf(config), NEW wide,
           NEW withQp, NEW subs, subs = Substreams(config, present, wide, withQp),
           NEW merged, merged = MergeInfoAboutOutboundRtpSubstreams(subs)
    PROVE  /\ DOMAIN subs = present
           /\ DOMAIN merged \in SUBSET present
           /\ \A s \in DOMAIN merged : merged[s] \in Int
           /\ CountsAre(config, subs, merged)
<1> DEFINE ms == config.ssrcs
           xs == config.rtx
           fec == config.flexfec.ssrc
           Sent(s) == IF s \in present THEN subs[s].bytes ELSE 0
           media == {s \in DOMAIN subs : subs[s].type = "media"}
           extra == {s \in DOMAIN subs \ media : subs[s].media \in DOMAIN subs}
           known == media \cup {subs[s].media : s \in extra}
           bytes == [s \in DOMAIN subs |-> subs[s].bytes]
           Extra(s) == {x \in extra : subs[x].media = s}
<1>1. DOMAIN subs = present
  BY DEF Substreams
<1>2. merged = [s \in known |-> (IF s \in media THEN bytes[s] ELSE 0)
                                + SumOf(Picked(bytes, Extra(s)))]
  BY DEF MergeInfoAboutOutboundRtpSubstreams
<1>3. ASSUME NEW s \in present
      PROVE  /\ subs[s].bytes = s /\ s \in Nat
             /\ subs[s].type = "media" <=> s \in ToSet(ms)
             /\ \A k \in DOMAIN xs : xs[k] = s => subs[s].media = ms[k]
             /\ s \notin ToSet(ms) /\ s \notin ToSet(xs) =>
                    /\ IsFlexfecSsrc(config, s)
                    /\ subs[s].media = config.flexfec.protected[1]
  <2>1. subs[s] = Substreams(config, present, wide, withQp)[s]
    OBVIOUS
  <2> DEFINE stats == subs[s]
  <2>2. stats = Substreams(config, present, wide, withQp)[s]
    BY <2>1
  <2> HIDE DEF stats
  <2>3. /\ stats.bytes = s /\ s \in Nat
        /\ stats.type = "media" <=> s \in ToSet(ms)
        /\ \A k \in DOMAIN xs : xs[k] = s => stats.media = ms[k]
        /\ s \notin ToSet(ms) /\ s \notin ToSet(xs) =>
               IsFlexfecSsrc(config, s) /\ stats.media = config.flexfec.protected[1]
    BY <2>2, SubstreamsAre
  <2> QED BY <2>3 DEF stats
<1>4. known \in SUBSET present
  BY <1>1
<1>5. \A s \in present : bytes[s] = s /\ bytes[s] \in Int
  BY <1>1, <1>3
<1>6. IsFiniteSet(present) /\ present \in SUBSET Nat
  BY SsrcsAreFinite, FS_Subset
<1>7. ASSUME NEW s PROVE Extra(s) \in SUBSET present
  BY <1>1
<1> HIDE DEF known, bytes, Extra
<1>8. ASSUME NEW s \in known PROVE merged[s] \in Int
  <2> DEFINE E == Extra(s)
             list == Picked(bytes, E)
             N == Cardinality(E)
  <2>1. IsFiniteSet(E) /\ E \in SUBSET Nat /\ E \in SUBSET present
    BY <1>6, <1>7, FS_Subset
  <2> HIDE DEF E
  <2>2. N \in Nat /\ \A n \in 1 .. N : Nth(E, n) \in E
    BY <2>1, NthOfSet
  <2>3. list = [n \in 1 .. N |-> bytes[Nth(E, n)]]
    BY DEF Picked
  <2> HIDE DEF N, list
  <2>4. Len(list) = N /\ \A n \in 1 .. N : list[n] \in Int
    <3>1. Len(list) = N /\ \A n \in 1 .. N : list[n] = bytes[Nth(E, n)]
      BY <2>2, <2>3
    <3>2. \A n \in 1 .. N : bytes[Nth(E, n)] \in Int
      <4> TAKE n \in 1 .. N
      <4>1. Nth(E, n) \in present
        BY <2>1, <2>2
      <4> QED BY <1>5, <4>1
    <3> QED BY <3>1, <3>2
  <2>5. SumOf(list) \in Int
    BY <2>2, <2>4, SumIsNumber
  <2>6. s \in media => bytes[s] \in Int
    BY <1>4, <1>5
  <2>7. merged[s] = (IF s \in media THEN bytes[s] ELSE 0) + SumOf(list)
    BY <1>2 DEF list, E
  <2> HIDE DEF media
  <2> QED BY <2>5, <2>6, <2>7
<1>9. ASSUME NEW i \in DOMAIN ms, ms[i] \in present
      PROVE  LET rtx == GetRtxSsrcAssociatedWithMediaSsrc(config, ms[i])
             IN  /\ ms[i] \in known
                 /\ merged[ms[i]] =
                        Sent(ms[i]) + Sent(rtx)
                        + IF IsFlexfecSsrc(config, fec) /\ config.flexfec.protected[1] = ms[i]
                          THEN Sent(fec) ELSE 0
  <2> DEFINE m == ms[i]
             rtx == GetRtxSsrcAssociatedWithMediaSsrc(config, m)
             Guards == IsFlexfecSsrc(config, fec) /\ config.flexfec.protected[1] = m
             a == rtx
             b == IF config.flexfec.type # -1 THEN fec ELSE -2
             E == Extra(m)
  <2>1. /\ ms \in Seq(Nat) /\ xs \in Seq(Nat) /\ ToSet(ms) \cap ToSet(xs) = {}
        /\ xs # <<>> => Len(xs) = Len(ms)
        /\ \A k, j \in DOMAIN ms : ms[k] = ms[j] => k = j
        /\ \A k, j \in DOMAIN xs : xs[k] = xs[j] => k = j
        /\ config.flexfec.type # -1 => fec \in Nat \ (ToSet(ms) \cup ToSet(xs))
    BY RtpConfigsAssumption
  <2>2. m \in ToSet(ms) /\ m \in present /\ m \in Nat
    BY <1>6, <1>9 DEF ToSet
  <2>3. m \in media /\ m \in known
    BY <1>1, <1>3, <2>2 DEF known
  <2>4. xs = <<>> => rtx = -1 /\ DOMAIN xs = {}
    BY DEF GetRtxSsrcAssociatedWithMediaSsrc
  <2>5. xs # <<>> => rtx = xs[i] /\ DOMAIN xs = DOMAIN ms
    <3>1. SUFFICES ASSUME xs # <<>> PROVE rtx = xs[i] /\ DOMAIN xs = DOMAIN ms
      OBVIOUS
    <3>2. DOMAIN xs = DOMAIN ms
      BY <2>1, <3>1
    <3>3. \A j \in 1 .. i - 1 : ms[j] # m
      <4> TAKE j \in 1 .. i - 1
      <4>1. j \in DOMAIN ms /\ j # i
        BY <2>1
      <4> QED BY <2>1, <4>1
    <3>4. (CHOOSE k \in DOMAIN ms : ms[k] = m /\ \A j \in 1 .. k - 1 : ms[j] # m) = i
      BY <2>1, <3>3
    <3>5. rtx = xs[CHOOSE k \in DOMAIN ms : ms[k] = m /\ \A j \in 1 .. k - 1 : ms[j] # m]
      BY <3>1 DEF GetRtxSsrcAssociatedWithMediaSsrc, FindAssociatedSsrc
    <3> QED BY <3>2, <3>4, <3>5
  <2> HIDE DEF m, rtx
  <2>6. a # b
    <3>1. xs # <<>> => rtx \in ToSet(xs) /\ rtx \in Nat
      BY <1>9, <2>1, <2>5 DEF ToSet
    <3> QED BY <2>1, <2>4, <3>1
  <2>7. ASSUME NEW x \in present
        PROVE  x \in E <=> x = rtx \/ (x = fec /\ Guards)
    <3>1. x \in E <=> x \notin ToSet(ms) /\ subs[x].media = m
      BY <1>1, <1>3, <2>2 DEF Extra
    <3>2. x \in Nat
      BY <1>6
    <3>3. CASE x \in ToSet(ms)
      <4>1. x # rtx
        <5>1. xs # <<>> => rtx \in ToSet(xs)
          BY <1>9, <2>5 DEF ToSet
        <5> QED BY <2>1, <2>4, <3>2, <3>3, <5>1
      <4>2. IsFlexfecSsrc(config, fec) => x # fec
        BY <2>1, <3>3 DEF IsFlexfecSsrc
      <4> QED BY <3>1, <3>3, <4>1, <4>2
    <3>4. CASE x \notin ToSet(ms) /\ x \in ToSet(xs)
      <4>1. PICK k \in DOMAIN xs : x = xs[k]
        BY <3>4 DEF ToSet
      <4>2. subs[x].media = ms[k]
        BY <1>3, <4>1
      <4>3. xs # <<>> /\ k \in DOMAIN ms /\ i \in DOMAIN xs
        BY <1>9, <2>4, <2>5, <4>1
      <4>4. x = rtx <=> k = i
        BY <2>1, <2>5, <4>1, <4>3
      <4>5. ms[k] = m <=> k = i
        BY <1>9, <2>1, <4>3 DEF m
      <4>6. IsFlexfecSsrc(config, fec) => x # fec
        BY <2>1, <3>4 DEF IsFlexfecSsrc
      <4> QED BY <3>1, <3>4, <4>2, <4>4, <4>5, <4>6
    <3>5. CASE x \notin ToSet(ms) /\ x \notin ToSet(xs)
      <4>1. IsFlexfecSsrc(config, x) /\ subs[x].media = config.flexfec.protected[1]
        BY <1>3, <3>5
      <4>2. x = fec /\ IsFlexfecSsrc(config, fec)
        BY <4>1 DEF IsFlexfecSsrc
      <4>3. x # rtx
        BY <1>9, <2>4, <2>5, <3>2, <3>5 DEF ToSet
      <4> QED BY <3>1, <3>5, <4>1, <4>2, <4>3
    <3> QED BY <3>3, <3>4, <3>5
  <2>8. E \in SUBSET present /\ E \in SUBSET Nat
    BY <1>6, <1>7
  <2> HIDE DEF E
  <2>9. E \subseteq {a, b}
    BY <2>7, <2>8 DEF IsFlexfecSsrc
  <2>10. \A e \in E : bytes[e] \in Int
    BY <1>5, <2>8
  <2>11. SumOf(Picked(bytes, E))
             = (IF a \in E THEN bytes[a] ELSE 0) + (IF b \in E THEN bytes[b] ELSE 0)
    <3> HIDE DEF a, b
    <3> QED BY <2>6, <2>8, <2>9, <2>10, SumOfFew
  <2>12. \A s \in present : Sent(s) = bytes[s]
    BY <1>1 DEF bytes
  <2>13. (IF a \in E THEN bytes[a] ELSE 0) = Sent(rtx)
    BY <2>7, <2>8, <2>12
  <2>14. (IF b \in E THEN bytes[b] ELSE 0) = IF Guards THEN Sent(fec) ELSE 0
    <3>1. CASE config.flexfec.type = -1
      <4>1. b = -2 /\ ~Guards
        BY <3>1 DEF IsFlexfecSsrc
      <4>2. b \notin E
        BY <2>8, <4>1
      <4> QED BY <4>1, <4>2
    <3>2. CASE config.flexfec.type # -1
      <4>1. b = fec /\ fec # rtx
        BY <2>6, <3>2
      <4>2. fec \in E <=> fec \in present /\ Guards
        BY <2>7, <2>8, <4>1
      <4> QED BY <2>12, <4>1, <4>2
    <3> QED BY <3>1, <3>2
  <2>15. merged[m] = bytes[m] + SumOf(Picked(bytes, E))
    BY <1>2, <2>3 DEF E
  <2>16. bytes[m] = Sent(m) /\ bytes[m] \in Int
    BY <1>5, <2>2, <2>12
  <2>17. Sent(rtx) \in Int /\ (IF Guards THEN Sent(fec) ELSE 0) \in Int
    <3>1. \A s : Sent(s) \in Int
      BY <1>5, <2>12
    <3> HIDE DEF Sent
    <3> QED BY <3>1
  <2> DEFINE p == Sent(rtx)
             q == IF Guards THEN Sent(fec) ELSE 0
  <2>18. merged[m] = Sent(m) + (p + q) /\ p \in Int /\ q \in Int /\ Sent(m) \in Int
    BY <2>11, <2>13, <2>14, <2>15, <2>16, <2>17
  <2> HIDE DEF p, q, Sent
  <2>19. merged[m] = Sent(m) + p + q
    BY <2>18
  <2> QED BY <2>3, <2>19 DEF p, q, rtx, m, Sent
<1>10. DOMAIN merged = known
  BY <1>2
<1>11. CountsAre(config, subs, merged)
  BY <1>1, <1>9, <1>10 DEF CountsAre
<1> QED BY <1>1, <1>4, <1>8, <1>10, <1>11

\* A media SSRC has the RID of its place.
LEMMA RidIsOfPlace ==
    ASSUME NEW config \in RtpConfigs, NEW i \in DOMAIN config.ssrcs
    PROVE  GetRidForSsrc(config, config.ssrcs[i])
               = IF i > Len(config.rids) THEN "none" ELSE config.rids[i]
<1> DEFINE at == {k \in DOMAIN config.ssrcs : config.ssrcs[k] = config.ssrcs[i]}
<1>1. /\ config.ssrcs \in Seq(Nat)
      /\ \A k, j \in DOMAIN config.ssrcs : config.ssrcs[k] = config.ssrcs[j] => k = j
  BY RtpConfigsAssumption
<1>2. at = {i} /\ i \in Nat
  BY <1>1
<1>3. GetRidForSsrc(config, config.ssrcs[i]) =
          IF at = {} \/ Min(at) > Len(config.rids) THEN "none" ELSE config.rids[Min(at)]
  BY DEF GetRidForSsrc
<1> HIDE DEF at
<1>4. Min(at) = i
  <2>1. at \in SUBSET Nat /\ at # {}
    BY <1>2
  <2>2. Min(at) \in at
    BY <2>1, MinIsIn
  <2> QED BY <1>2, <2>2
<1> QED BY <1>2, <1>3, <1>4

\* A list of reports, and one that has a report for every SSRC that is known.
AreReports(senders) ==
    /\ Len(senders) \in Nat /\ DOMAIN senders = 1 .. Len(senders)
    /\ \A k \in DOMAIN senders : IsReport(senders[k])

OneForEach(config, merged, senders) ==
    \A s \in DOMAIN merged : \E k \in DOMAIN senders :
        /\ senders[k].ssrcs = {s} /\ senders[k].rid = GetRidForSsrc(config, s)
        /\ senders[k].bytes = merged[s]

\* The reports of the layers and that of the whole.
AllReports(config, out) ==
    /\ AreReports(out.senders)
    /\ out.aggregated = IF Len(out.senders) = 0 THEN <<>>
                        ELSE <<GetAggregatedVideoSenderInfo(config, out.senders)>>

\* All that a stream reports.
StreamReports(config, subs, merged, senders) ==
    /\ CountsAre(config, subs, merged)
    /\ \A k \in DOMAIN senders : senders[k].ssrcs \subseteq DOMAIN subs
    /\ OneForEach(config, merged, senders)

\* What is known of the reports about a stream, or about none.
Reported(config, hasStream, subs) ==
    LET out == FillSenderStats(config, hasStream, subs)
    IN  /\ AllReports(config, out)
        /\ hasStream /\ DOMAIN subs # {} =>
               StreamReports(config, subs, MergeInfoAboutOutboundRtpSubstreams(subs), out.senders)

\* The reports of a stream: one for every SSRC that is known, or one for all.
LEMMA ReportsAre ==
    ASSUME NEW config \in RtpConfigs, NEW present \in SUBSET SsrcsOf(config), NEW wide,
           NEW withQp, NEW hasStream \in BOOLEAN
    PROVE  Reported(config, hasStream, Substreams(config, present, wide, withQp))
<1> DEFINE subs == Substreams(config, present, wide, withQp)
           merged == MergeInfoAboutOutboundRtpSubstreams(subs)
           out == FillSenderStats(config, hasStream, subs)
           senders == out.senders
           known == DOMAIN merged
           N == Cardinality(known)
           Known(s, field, default) ==
               IF s \in DOMAIN subs THEN subs[s][field] ELSE default
           Info(s) == [CommonInfo EXCEPT !.ssrcs = {s}, !.rid = GetRidForSsrc(config, s),
                                         !.bytes = merged[s],
                                         !.width = Known(s, "width", 0),
                                         !.qp = Known(s, "qp", NoQp)]
           one == [CommonInfo EXCEPT !.ssrcs = ToSet(config.ssrcs)]
           many == [n \in 1 .. N |-> Info(Nth(known, n))]
<1>1. /\ senders = IF ~hasStream \/ DOMAIN subs = {} THEN <<one>> ELSE many
      /\ out.aggregated = IF senders = <<>> THEN <<>>
                          ELSE <<GetAggregatedVideoSenderInfo(config, senders)>>
  BY DEF FillSenderStats, GetPerLayerVideoSenderInfos
<1>2. /\ DOMAIN subs = present /\ known \in SUBSET present
      /\ (\A s \in known : merged[s] \in Int) /\ CountsAre(config, subs, merged)
  <2>1. /\ subs = Substreams(config, present, wide, withQp)
        /\ merged = MergeInfoAboutOutboundRtpSubstreams(subs)
    OBVIOUS
  <2> HIDE DEF subs, merged
  <2> QED BY <2>1, MergedAre
<1>3. \A s \in present : subs[s].width \in Int /\ (subs[s].qp \in Nat \/ subs[s].qp = NoQp)
  <2> TAKE s \in present
  <2>1. subs[s] = Substreams(config, present, wide, withQp)[s]
    OBVIOUS
  <2> DEFINE stats == subs[s]
  <2>2. stats = Substreams(config, present, wide, withQp)[s]
    BY <2>1
  <2> HIDE DEF stats
  <2>3. stats.width \in Int /\ (stats.qp \in Nat \/ stats.qp = NoQp)
    BY <2>2, SubstreamsAre
  <2> QED BY <2>3 DEF stats
<1> HIDE DEF subs, merged, out, senders
<1>4. ASSUME NEW s \in known
      PROVE  /\ IsReport(Info(s)) /\ Info(s).ssrcs = {s}
             /\ Info(s).rid = GetRidForSsrc(config, s) /\ Info(s).bytes = merged[s]
  <2>1. s \in present /\ merged[s] \in Int
    BY <1>2
  <2> DEFINE width == Known(s, "width", 0)
             qp == Known(s, "qp", NoQp)
             rid == GetRidForSsrc(config, s)
             bytes == merged[s]
  <2>2. width \in Int /\ (qp \in Nat \/ qp = NoQp)
    BY <1>2, <1>3, <2>1
  <2>3. Info(s) = [CommonInfo EXCEPT !.ssrcs = {s}, !.rid = rid, !.bytes = bytes,
                                     !.width = width, !.qp = qp]
    OBVIOUS
  <2> HIDE DEF Info, width, qp, rid, bytes
  <2>4. /\ DOMAIN Info(s) = {"ssrcs", "rid", "bytes", "width", "qp"}
        /\ Info(s) = [f \in DOMAIN Info(s) |-> Info(s)[f]]
        /\ Info(s).ssrcs = {s} /\ Info(s).rid = rid /\ Info(s).bytes = bytes
        /\ Info(s).width = width /\ Info(s).qp = qp
    BY <2>3 DEF CommonInfo
  <2>5. IsReport(Info(s))
    BY <2>1, <2>2, <2>4 DEF IsReport, bytes
  <2> QED BY <2>4, <2>5 DEF rid, bytes
<1>5. IsReport(one)
  <2> DEFINE all == ToSet(config.ssrcs)
  <2>1. one = [CommonInfo EXCEPT !.ssrcs = all]
    OBVIOUS
  <2> HIDE DEF one, all
  <2>2. /\ DOMAIN one = {"ssrcs", "rid", "bytes", "width", "qp"}
        /\ one = [f \in DOMAIN one |-> one[f]]
        /\ one.bytes = 0 /\ one.width = 0 /\ one.qp = NoQp
    BY <2>1 DEF CommonInfo
  <2> QED BY <2>2 DEF IsReport
<1> HIDE DEF Info, one
<1>6. /\ N \in Nat
      /\ \A n \in 1 .. N : Nth(known, n) \in known
      /\ \A s \in known : \E n \in 1 .. N : Nth(known, n) = s
  <2>1. IsFiniteSet(known) /\ known \in SUBSET Nat
    BY <1>2, SsrcsAreFinite, FS_Subset
  <2> HIDE DEF known
  <2> QED BY <2>1, NthOfSet
<1> HIDE DEF N, known
<1>7. /\ Len(many) = N /\ DOMAIN many = 1 .. N
      /\ \A n \in 1 .. N : many[n] = Info(Nth(known, n))
  BY <1>6
<1>8. \A n \in 1 .. N : IsReport(many[n]) /\ many[n].ssrcs \subseteq present
  <2> TAKE n \in 1 .. N
  <2>1. Nth(known, n) \in known /\ many[n] = Info(Nth(known, n))
    BY <1>6, <1>7
  <2> QED BY <1>2, <1>4, <2>1
<1>9. ASSUME NEW s \in known
      PROVE  \E k \in 1 .. N : /\ many[k].ssrcs = {s} /\ many[k].bytes = merged[s]
                               /\ many[k].rid = GetRidForSsrc(config, s)
  <2>1. PICK k \in 1 .. N : Nth(known, k) = s
    BY <1>6
  <2>2. many[k] = Info(s)
    BY <1>7, <2>1
  <2> QED BY <1>4, <2>2
<1> HIDE DEF many
<1>10. CASE ~hasStream \/ present = {}
  <2>1. senders = <<one>>
    BY <1>1, <1>2, <1>10
  <2>2. Len(senders) = 1 /\ DOMAIN senders = 1 .. 1 /\ senders[1] = one /\ senders # <<>>
    BY <2>1
  <2>3. \A k \in DOMAIN senders : IsReport(senders[k])
    BY <1>5, <2>2
  <2>4. out.aggregated = <<GetAggregatedVideoSenderInfo(config, senders)>>
    BY <1>1, <2>2
  <2>5. Len(senders) # 0 /\ AreReports(senders)
    BY <2>2, <2>3 DEF AreReports
  <2>6. AllReports(config, out)
    BY <2>4, <2>5 DEF AllReports, senders
  <2>7. ~(hasStream /\ DOMAIN subs # {})
    BY <1>2, <1>10
  <2> QED BY <2>6, <2>7 DEF Reported, out, subs
<1>11. CASE hasStream /\ present # {}
  <2>1. senders = many
    BY <1>1, <1>2, <1>11
  <2>2. senders = <<>> <=> N = 0
    <3>1. senders = <<>> => N = 0
      BY <1>7, <2>1
    <3>2. N = 0 => many = <<>>
      BY DEF many
    <3> QED BY <2>1, <3>1, <3>2
  <2>3. Len(senders) = N /\ DOMAIN senders = 1 .. N /\ N \in Nat
    BY <1>6, <1>7, <2>1
  <2>4. out.aggregated = IF Len(senders) = 0 THEN <<>>
                         ELSE <<GetAggregatedVideoSenderInfo(config, senders)>>
    BY <1>1, <2>2, <2>3
  <2>5. /\ \A k \in DOMAIN senders : IsReport(senders[k])
        /\ \A k \in DOMAIN senders : senders[k].ssrcs \subseteq present
    BY <1>8, <2>1, <2>3
  <2>6. OneForEach(config, merged, senders)
    BY <1>9, <2>1, <2>3 DEF OneForEach, known
  <2>7. AreReports(senders)
    BY <2>3, <2>5 DEF AreReports
  <2>8. StreamReports(config, subs, merged, senders)
    BY <1>2, <2>5, <2>6 DEF StreamReports
  <2>9. AllReports(config, out)
    BY <2>4, <2>7 DEF AllReports, senders
  <2> QED BY <2>8, <2>9 DEF Reported, senders, out, merged, subs
<1> QED BY <1>10, <1>11

\* The report of the whole in the words of the property.
LEMMA TotalsAre ==
    ASSUME NEW config, NEW layers, AreReports(layers), Len(layers) # 0,
           NEW all, all = GetAggregatedVideoSenderInfo(config, layers)
    PROVE  LET Qp(k) == IF layers[k].qp = NoQp THEN 0 ELSE layers[k].qp
           IN  /\ all.bytes = SumOf([k \in DOMAIN layers |-> layers[k].bytes])
               /\ all.width \in {layers[k].width : k \in DOMAIN layers}
               /\ \A k \in DOMAIN layers : layers[k].width <= all.width
               /\ all.qp = IF \A k \in DOMAIN layers : layers[k].qp = NoQp THEN NoQp
                           ELSE SumOf([k \in DOMAIN layers |-> Qp(k)])
<1> DEFINE L == Len(layers)
           Qp(k) == IF layers[k].qp = NoQp THEN 0 ELSE layers[k].qp
           sum == SumOf([k \in 1 .. L |-> Qp(k)])
<1>1. L \in Nat /\ L >= 1 /\ DOMAIN layers = 1 .. L /\ \A k \in 1 .. L : IsReport(layers[k])
  BY DEF AreReports
<1>2. /\ all.bytes = SumOf([k \in 1 .. L |-> layers[k].bytes])
      /\ \E k \in 1 .. L : all.width = layers[k].width
      /\ \A k \in 1 .. L : layers[k].width <= all.width
      /\ all.qp = NoQp <=> \A k \in 1 .. L : layers[k].qp = NoQp
      /\ QpOf(all) = SumOf([k \in 1 .. L |-> QpOf(layers[k])])
  <2>1. Len(layers) = L
    OBVIOUS
  <2> HIDE DEF L
  <2> QED BY <1>1, <2>1, AggregatedAre
<1>3. sum = SumOf([k \in 1 .. L |-> QpOf(layers[k])])
  BY DEF QpOf
<1> HIDE DEF sum, L
<1>4. all.qp = IF \A k \in 1 .. L : layers[k].qp = NoQp THEN NoQp ELSE sum
  <2>1. all.qp # NoQp => all.qp = sum
    BY <1>2, <1>3 DEF QpOf
  <2> QED BY <1>2, <2>1
<1> QED BY <1>1, <1>2, <1>4 DEF sum

-----------------------------------------------------------------------------
(* The engine's functions, called by themselves *)

\* The statistics that were asked for are those of SSRCs of a stream.
StatisticsAsked ==
    /\ job.config \in RtpConfigs /\ job.hasStream \in BOOLEAN
    /\ \E present \in SUBSET SsrcsOf(job.config), wide \in ToSet(job.config.ssrcs),
          withQp \in SUBSET ToSet(job.config.ssrcs) :
           job.substreams = Substreams(job.config, present, wide, withQp)
    /\ result = FillSenderStats(job.config, job.hasStream, job.substreams)

\* The answer is that of the call, and the call's arguments are an instance's.
Answered ==
    /\ job.kind = "types" =>
           /\ job.formats \in FormatLists
           /\ result = GetPayloadTypesAndDefaultCodecs(job.formats)
    /\ job.kind = "settings" =>
           job.codecs \in CodecLists /\ result = MapCodecs(job.codecs)
    /\ job.kind = "selection" =>
           /\ job.remote \in RemoteLists /\ job.formats \in LocalLists
           /\ result = SelectSendVideoCodecs(MapCodecs(job.remote), job.formats)
    /\ job.kind = "parameters" =>
           /\ job.old \in ParameterSets /\ job.new \in NewParameters
           /\ result = SetRtpParameters(job.old, job.new)
    /\ job.kind = "encoder" =>
           /\ job.screencast \in BOOLEAN
           /\ result.settings = ConfigureVideoEncoderSettings(job.codec, job.parameters,
                                    job.screencast, job.noiseReduction)
           /\ result.preference = GetDegradationPreference(job.detection, job.parameters,
                                                           job.hint, job.screencast)
    /\ job.kind = "extensions" =>
           /\ job.extensions \in ExtensionLists
           /\ result = FilterRtpExtensions(job.extensions, Supported, TRUE)
    /\ job.kind = "own" => result = GetDefaultEnabledRtpHeaderExtensions(job.advertised)
    /\ job.kind = "statistics" => StatisticsAsked

\* A layer of the encoder's streams.
LayerOf(width, height, min, max, target, tl, fps, active) ==
    [width |-> width, height |-> height, min |-> min, max |-> max, target |-> target,
     tl |-> tl, fps |-> fps, active |-> active]

\* Whether a layer is active has no part in its rates.
LEMMA RatesWithoutActive ==
    ASSUME NEW W, NEW H, NEW m, NEW M, NEW t, NEW T, NEW F, NEW wanted,
           wanted.min \in Int, wanted.max \in Int
    PROVE  \E low, high, aim : \A a :
               Configured(LayerOf(W, H, m, M, t, T, F, a), wanted)
                   = LayerOf(W, H, low, high, aim, T, F, a)
<1> DEFINE min == IF wanted.min > 0 THEN wanted.min ELSE m
           max == IF wanted.max > 0 THEN wanted.max ELSE M
           most == (max * 3) \div 4
           low == MinOf(min, max)
           aim == IF most < min THEN max ELSE most
<1>0. ASSUME NEW a
      PROVE  LET l == LayerOf(W, H, m, M, t, T, F, a)
             IN  Configured(l, wanted) =
                     CASE wanted.min > 0 /\ wanted.max > 0 ->
                            [l EXCEPT !.min = min, !.max = max, !.target = aim]
                       [] wanted.min > 0 /\ wanted.max <= 0 ->
                            [l EXCEPT !.min = min, !.max = MaxOf(max, min),
                                      !.target = MaxOf(t, min)]
                       [] wanted.min <= 0 /\ wanted.max > 0 ->
                            [l EXCEPT !.min = low, !.max = max,
                                      !.target = MaxOf(MinOf(MaxOf(t, most), max), low)]
                       [] OTHER -> l
  BY DEF Configured, LayerOf
<1> HIDE DEF min, max, most, low, aim
<1>1. CASE wanted.min > 0 /\ wanted.max > 0 /\ ~(wanted.min <= 0) /\ ~(wanted.max <= 0)
  <2>1. \A a : Configured(LayerOf(W, H, m, M, t, T, F, a), wanted)
                   = LayerOf(W, H, min, max, aim, T, F, a)
    BY <1>0, <1>1 DEF LayerOf
  <2> QED BY <2>1
<1>2. CASE wanted.min > 0 /\ wanted.max <= 0 /\ ~(wanted.max > 0)
  <2>1. \A a : Configured(LayerOf(W, H, m, M, t, T, F, a), wanted)
                   = LayerOf(W, H, min, MaxOf(max, min), MaxOf(t, min), T, F, a)
    BY <1>0, <1>2 DEF LayerOf
  <2> QED BY <2>1
<1>3. CASE wanted.min <= 0 /\ wanted.max > 0 /\ ~(wanted.min > 0)
  <2>1. \A a : Configured(LayerOf(W, H, m, M, t, T, F, a), wanted)
                   = LayerOf(W, H, low, max, MaxOf(MinOf(MaxOf(t, most), max), low), T, F, a)
    BY <1>0, <1>3 DEF LayerOf
  <2> QED BY <2>1
<1>4. CASE /\ ~(wanted.min > 0 /\ wanted.max > 0) /\ ~(wanted.min > 0 /\ wanted.max <= 0)
           /\ ~(wanted.min <= 0 /\ wanted.max > 0)
  <2>1. \A a : Configured(LayerOf(W, H, m, M, t, T, F, a), wanted)
                   = LayerOf(W, H, m, M, t, T, F, a)
    BY <1>0, <1>4
  <2> QED BY <2>1
<1> QED BY <1>1, <1>2, <1>3, <1>4

\* Configurations of one stream that differ in what makes no difference to it.
LikeConfigs(old, new) ==
    /\ old.streams = 1 /\ new.streams = 1
    /\ old.codec = new.codec /\ old.screenshare = new.screenshare
    /\ old.conference = new.conference /\ old.max = new.max
    /\ DOMAIN old.layers = DOMAIN new.layers /\ 1 \in DOMAIN old.layers
    /\ old.layers[1].mode = new.layers[1].mode
    /\ \A i \in DOMAIN old.layers :
           LET o == old.layers[i]
               n == new.layers[i]
           IN  /\ o.min \in Int /\ o.max \in Int
               /\ o.min = n.min /\ o.max = n.max /\ o.fps = n.fps /\ o.scale = n.scale
               /\ o.tl = n.tl

\* A layer of which some fields are set anew.
WithSize(layer, width, height) == [layer EXCEPT !.width = width, !.height = height]

WithSettings(layer, active, tl, fps) ==
    [layer EXCEPT !.active = active, !.tl = tl, !.fps = fps]

WithLowest(layers, min) == [layers EXCEPT ![1].min = min]

\* They are the layers one expects.
LEMMA LayerIsSized ==
    ASSUME NEW W, NEW H, NEW m, NEW M, NEW t, NEW T, NEW F, NEW a, NEW x, NEW y
    PROVE  WithSize(LayerOf(W, H, m, M, t, T, F, a), x, y)
               = LayerOf(x, y, m, M, t, T, F, a)
<1>1. [LayerOf(W, H, m, M, t, T, F, a) EXCEPT !.width = x] = LayerOf(x, H, m, M, t, T, F, a)
  BY DEF LayerOf
<1>2. [LayerOf(x, H, m, M, t, T, F, a) EXCEPT !.height = y] = LayerOf(x, y, m, M, t, T, F, a)
  BY DEF LayerOf
<1> QED BY <1>1, <1>2 DEF WithSize

\* So are the settings.
LEMMA LayerIsGiven ==
    ASSUME NEW W, NEW H, NEW m, NEW M, NEW t, NEW T, NEW F, NEW a, NEW x, NEW y, NEW z
    PROVE  WithSettings(LayerOf(W, H, m, M, t, T, F, a), x, y, z)
               = LayerOf(W, H, m, M, t, y, z, x)
<1>1. [LayerOf(W, H, m, M, t, T, F, a) EXCEPT !.active = x] = LayerOf(W, H, m, M, t, T, F, x)
  BY DEF LayerOf
<1>2. [LayerOf(W, H, m, M, t, T, F, x) EXCEPT !.tl = y] = LayerOf(W, H, m, M, t, y, F, x)
  BY DEF LayerOf
<1>3. [LayerOf(W, H, m, M, t, y, F, x) EXCEPT !.fps = z] = LayerOf(W, H, m, M, t, y, z, x)
  BY DEF LayerOf
<1> QED BY <1>1, <1>2, <1>3 DEF WithSettings

\* And so is the minimum.
LEMMA LayerIsRaised ==
    ASSUME NEW W, NEW H, NEW m, NEW M, NEW t, NEW T, NEW F, NEW a, NEW x
    PROVE  WithLowest(<<LayerOf(W, H, m, M, t, T, F, a)>>, x)
               = <<LayerOf(W, H, x, M, t, T, F, a)>>
<1> DEFINE l == LayerOf(W, H, m, M, t, T, F, a)
           k == [l EXCEPT !.min = x]
<1>1. k = LayerOf(W, H, x, M, t, T, F, a)
  BY DEF LayerOf
<1> HIDE DEF l
<1>2. [<<l>> EXCEPT ![1].min = x] = <<k>>
  OBVIOUS
<1> QED BY <1>1, <1>2 DEF l, WithLowest

\* The only stream of legacy screen sharing: whether its layer is active has no
\* part in the rest of it.
LEMMA LegacyStreamIs ==
    ASSUME NEW w, NEW h, NEW old, NEW new, NEW trials, LikeConfigs(old, new),
           old.codec \in {"VP8", "H264"}, old.screenshare, old.conference
    PROVE  \E W, H, low, high, aim, T, F :
               /\ CreateSimulcastStreams(w, h, old, trials)
                      = <<LayerOf(W, H, low, high, aim, T, F, old.layers[1].active)>>
               /\ CreateSimulcastStreams(w, h, new, trials)
                      = <<LayerOf(W, H, low, high, aim, T, F, new.layers[1].active)>>
<1> DEFINE first == IF trials.minimum >= 0 THEN trials.minimum ELSE 30
           on == TRUE
           wanted == old.layers[1]
           scaled == \E i \in DOMAIN old.layers : old.layers[i].scale # 0
           norm == ~scaled \/ IsScaleFactorsPowerOfTwo(old) \/ trials.exponent >= 0
           Norm(size) == IF norm THEN NormalizeSimulcastSize(size, 1, trials) ELSE size
           W == IF scaled THEN Scaled(Norm(w), wanted) ELSE w
           H == IF scaled THEN Scaled(Norm(h), wanted) ELSE h
           T == IF wanted.tl > 0 /\ IsTemporalLayersSupported(old.codec) THEN wanted.tl ELSE 2
           F == IF wanted.fps > 0 THEN wanted.fps ELSE 5
<1>1. ASSUME NEW config, config \in {old, new}
      PROVE  AdjustedLayers(w, h, config, trials)
                 = <<Configured(LayerOf(W, H, first, 1000, 200, T, F, config.layers[1].active),
                                wanted)>>
  <2> DEFINE mine == config.layers[1]
             given == GetSimulcastConfig(FindRequiredActiveLayers(config), config.streams, w, h,
                          config.screenshare /\ config.conference,
                          config.codec \in {"VP8", "H264"}, trials)
             minimum == WithMinimum(given, trials)
             some == \E i \in DOMAIN config.layers : config.layers[i].scale # 0
             Norms(size) == IF ~some \/ IsScaleFactorsPowerOfTwo(config) \/ trials.exponent >= 0
                            THEN NormalizeSimulcastSize(size, config.streams, trials) ELSE size
             Sized(layer, l) ==
                 IF ~some THEN layer
                 ELSE [layer EXCEPT !.width = Scaled(Norms(w), l),
                                    !.height = Scaled(Norms(h), l)]
             Given(layer, l) ==
                 [layer EXCEPT !.active = l.active,
                               !.tl = IF l.tl > 0 /\ IsTemporalLayersSupported(config.codec)
                                      THEN l.tl ELSE @,
                               !.fps = IF l.fps > 0 THEN l.fps ELSE @]
             Mine(i) == config.layers[i]
             adjusted == AdjustedLayers(w, h, config, trials)
  <2>1. /\ config.streams = 1 /\ config.codec = old.codec /\ config.screenshare
        /\ config.conference
    BY <1>1 DEF LikeConfigs
  <2>2. given = <<LayerOf(w, h, 30, 1000, 200, 2, 5, on)>>
    <3>1. given = GetScreenshareLayers(1, w, h, TRUE, trials)
      BY <2>1 DEF GetSimulcastConfig
    <3> HIDE DEF given
    <3> QED BY <3>1 DEF GetScreenshareLayers, LayerOf
  <2>3. adjusted = [i \in DOMAIN minimum |->
                       Configured(Sized(Given(minimum[i], Mine(i)), Mine(i)), Mine(i))]
    BY DEF AdjustedLayers
  <2> HIDE DEF given, adjusted, on
  <2>4. minimum = <<LayerOf(w, h, first, 1000, 200, 2, 5, on)>>
    <3>1. minimum = IF trials.minimum >= 0 THEN [given EXCEPT ![1].min = trials.minimum]
                    ELSE given
      BY DEF WithMinimum
    <3> HIDE DEF minimum
    <3>2. CASE trials.minimum >= 0
      <4>1. first = trials.minimum
        BY <3>2
      <4> HIDE DEF first
      <4>2. [given EXCEPT ![1].min = first] = <<LayerOf(w, h, first, 1000, 200, 2, 5, on)>>
        <5>1. WithLowest(given, first) = <<LayerOf(w, h, first, 1000, 200, 2, 5, on)>>
          BY <2>2, LayerIsRaised
        <5> QED BY <5>1 DEF WithLowest
      <4> QED BY <3>1, <3>2, <4>1, <4>2
    <3>3. CASE ~(trials.minimum >= 0)
      <4>1. first = 30
        BY <3>3
      <4> HIDE DEF first
      <4> QED BY <2>2, <3>1, <3>3, <4>1
    <3> QED BY <3>2, <3>3
  <2>5. /\ some = scaled /\ IsScaleFactorsPowerOfTwo(config) = IsScaleFactorsPowerOfTwo(old)
        /\ mine.min = wanted.min /\ mine.max = wanted.max /\ mine.tl = wanted.tl
        /\ mine.fps = wanted.fps /\ mine.scale = wanted.scale
    BY <1>1 DEF LikeConfigs, IsScaleFactorsPowerOfTwo, Scale
  <2>6. \A size : Scaled(Norms(size), mine) = Scaled(Norm(size), wanted)
    BY <2>1, <2>5 DEF Scaled, Scale
  <2> HIDE DEF minimum, first, some, scaled, Norms, Norm
  <2> DEFINE one == LayerOf(w, h, first, 1000, 200, 2, 5, on)
             two == LayerOf(w, h, first, 1000, 200, T, F, mine.active)
             layer == LayerOf(W, H, first, 1000, 200, T, F, mine.active)
             sized == Sized(Given(minimum[1], mine), mine)
  <2>7. Given(one, mine) = two
    <3>1. /\ T = IF mine.tl > 0 /\ IsTemporalLayersSupported(config.codec) THEN mine.tl ELSE 2
          /\ F = IF mine.fps > 0 THEN mine.fps ELSE 5
          /\ one.tl = 2 /\ one.fps = 5
      BY <2>1, <2>5 DEF LayerOf
    <3> HIDE DEF one
    <3>2. Given(one, mine) = [one EXCEPT !.active = mine.active, !.tl = T, !.fps = F]
      BY <3>1
    <3> HIDE DEF T, F, Given
    <3>3. [one EXCEPT !.active = mine.active, !.tl = T, !.fps = F] = two
      <4>1. WithSettings(one, mine.active, T, F) = two
        BY LayerIsGiven DEF one
      <4> QED BY <4>1 DEF WithSettings
    <3> QED BY <3>2, <3>3
  <2> HIDE DEF one, T, F
  <2>8. Sized(two, mine) = layer
    <3> DEFINE sw == Scaled(Norm(w), wanted)
               sh == Scaled(Norm(h), wanted)
    <3>1. Scaled(Norms(w), mine) = sw /\ Scaled(Norms(h), mine) = sh
      BY <2>6
    <3>2. CASE some
      <4> HIDE DEF two
      <4>1. Sized(two, mine) = [two EXCEPT !.width = sw, !.height = sh]
        BY <3>1, <3>2
      <4>2. W = sw /\ H = sh
        BY <2>5, <3>2
      <4> HIDE DEF sw, sh, W, H, Sized
      <4>3. [two EXCEPT !.width = sw, !.height = sh]
                = LayerOf(sw, sh, first, 1000, 200, T, F, mine.active)
        <5>1. WithSize(two, sw, sh) = LayerOf(sw, sh, first, 1000, 200, T, F, mine.active)
          BY LayerIsSized DEF two
        <5> QED BY <5>1 DEF WithSize
      <4> QED BY <4>1, <4>2, <4>3
    <3>3. CASE ~some
      <4>1. Sized(two, mine) = two /\ W = w /\ H = h
        BY <2>5, <3>3
      <4> HIDE DEF W, H, Sized
      <4> QED BY <4>1
    <3> QED BY <3>2, <3>3
  <2> HIDE DEF Given, Sized, two, layer
  <2>9. sized = layer
    <3>1. minimum[1] = one
      BY <2>4 DEF one
    <3> QED BY <2>7, <2>8, <3>1
  <2>10. DOMAIN minimum = {1}
    BY <2>4
  <2>11. adjusted = [i \in {1} |-> Configured(sized, mine)]
    BY <2>3, <2>10
  <2> HIDE DEF sized, mine, wanted
  <2>12. Configured(layer, mine) = Configured(layer, wanted)
    BY <2>5 DEF Configured
  <2>13. adjusted = <<Configured(layer, wanted)>>
    BY <2>9, <2>11, <2>12
  <2> QED BY <2>13 DEF layer, adjusted, mine
<1> HIDE DEF W, H, T, F, first
<1>2. wanted.min \in Int /\ wanted.max \in Int
  BY DEF LikeConfigs
<1>3. PICK low, high, aim : \A a :
          Configured(LayerOf(W, H, first, 1000, 200, T, F, a), wanted)
              = LayerOf(W, H, low, high, aim, T, F, a)
  <2> HIDE DEF wanted
  <2> QED BY <1>2, RatesWithoutActive
<1>4. ASSUME NEW config, config \in {old, new}
      PROVE  CreateSimulcastStreams(w, h, config, trials)
                 = <<LayerOf(W, H, low, high, aim, T, F, config.layers[1].active)>>
  <2> DEFINE layers == AdjustedLayers(w, h, config, trials)
  <2>1. layers = <<LayerOf(W, H, low, high, aim, T, F, config.layers[1].active)>>
    BY <1>1, <1>3, <1>4
  <2>2. DOMAIN layers = {1}
    BY <2>1
  <2> HIDE DEF layers
  <2>3. UpToTheCap(layers, config) = layers
    BY <1>4 DEF UpToTheCap, LikeConfigs
  <2>4. HandDownMinimum(layers) = layers
    <3> DEFINE index == ByMaxBitrate(layers)
               active == {i \in DOMAIN index : layers[index[i]].active}
    <3>1. DOMAIN index = {1}
      BY <2>2 DEF ByMaxBitrate
    <3>2. 1 \in active \/ active = {}
      BY <3>1
    <3> QED BY <3>2 DEF HandDownMinimum
  <2> QED BY <2>1, <2>3, <2>4 DEF CreateSimulcastStreams, layers
<1> QED BY <1>4

\* One stream is asked for in the same way.
LEMMA SameStreamIs ==
    ASSUME NEW w, NEW h, NEW old, NEW new, NEW trials, LikeConfigs(old, new), NEW sends,
           sends => old.layers[1].active = new.layers[1].active
    PROVE  SameStreams(CreateEncoderStreams(w, h, old, trials),
                       CreateEncoderStreams(w, h, new, trials), sends)
<1> DEFINE legacy == old.codec \in {"VP8", "H264"} /\ old.screenshare /\ old.conference
<1>1. CASE legacy
  <2>1. PICK W, H, low, high, aim, T, F :
            /\ CreateSimulcastStreams(w, h, old, trials)
                   = <<LayerOf(W, H, low, high, aim, T, F, old.layers[1].active)>>
            /\ CreateSimulcastStreams(w, h, new, trials)
                   = <<LayerOf(W, H, low, high, aim, T, F, new.layers[1].active)>>
    BY <1>1, LegacyStreamIs
  <2>2. /\ CreateEncoderStreams(w, h, old, trials) = CreateSimulcastStreams(w, h, old, trials)
        /\ CreateEncoderStreams(w, h, new, trials) = CreateSimulcastStreams(w, h, new, trials)
    BY <1>1 DEF CreateEncoderStreams, LikeConfigs
  <2> DEFINE a == old.layers[1].active
             b == new.layers[1].active
  <2> HIDE DEF a, b
  <2>3. SameStreams(<<LayerOf(W, H, low, high, aim, T, F, a)>>,
                    <<LayerOf(W, H, low, high, aim, T, F, b)>>, a = b)
    BY DEF SameStreams, LayerOf
  <2> QED BY <2>1, <2>2, <2>3 DEF SameStreams, a, b
<1>2. CASE ~legacy
  <2>1. /\ CreateEncoderStreams(w, h, old, trials) = CreateDefaultVideoStreams(w, h, old, trials)
        /\ CreateEncoderStreams(w, h, new, trials) = CreateDefaultVideoStreams(w, h, new, trials)
    BY <1>2 DEF CreateEncoderStreams, LikeConfigs
  <2> DEFINE l == old.layers[1]
             k == new.layers[1]
  <2>2. /\ old.codec = new.codec /\ old.screenshare = new.screenshare /\ old.max = new.max
        /\ l.min = k.min /\ l.scale = k.scale /\ l.tl = k.tl /\ l.fps = k.fps
        /\ l.mode = k.mode
    BY DEF LikeConfigs
  <2> HIDE DEF l, k
  <2>3. CreateDefaultVideoStreams(w, h, old, trials) = CreateDefaultVideoStreams(w, h, new, trials)
    BY <2>2 DEF CreateDefaultVideoStreams, Scaled, Scale, l, k
  <2> DEFINE s == CreateDefaultVideoStreams(w, h, new, trials)
             r == s[1]
  <2>4. s = <<r>> /\ r = [f \in DOMAIN r |-> r[f]]
    BY DEF CreateDefaultVideoStreams
  <2> HIDE DEF s
  <2>5. s[1] = [s[1] EXCEPT !.active = s[1].active]
    <3> HIDE DEF r
    <3>1. [r EXCEPT !.active = r.active] = r
      BY <2>4
    <3> QED BY <2>4, <3>1 DEF r
  <2>6. DOMAIN s = {1}
    <3> HIDE DEF r
    <3> QED BY <2>4
  <2>7. SameStreams(s, s, sends)
    BY <2>5, <2>6 DEF SameStreams
  <2> QED BY <2>1, <2>3, <2>7 DEF s
<1> QED BY <1>1, <1>2

\* What there is to know of parameters that were taken without the encoder being
\* configured anew: but for the fields that are not looked at, and the layers
\* that send nothing either way, they are those that were in force.
LEMMA EncodingsAreKept ==
    ASSUME NEW old \in ParameterSets, NEW new \in NewParameters,
           SetRtpParameters(old, new).taken, ~SetRtpParameters(old, new).reconfigured
    PROVE  LET os == old.encodings
               ns == new.encodings
           IN  /\ Len(os) \in Nat /\ Len(os) = Len(ns)
               /\ DOMAIN os = 1 .. Len(os) /\ DOMAIN ns = 1 .. Len(os)
               /\ os[1].priority = ns[1].priority /\ os[1].mode = ns[1].mode
               /\ \A i \in DOMAIN os :
                      /\ os[i].min = ns[i].min /\ os[i].max = ns[i].max
                      /\ os[i].fps = ns[i].fps /\ os[i].scale = ns[i].scale
                      /\ os[i].tl = ns[i].tl /\ os[i].min \in Int /\ os[i].max \in Int
                      /\ os[i].active \in BOOLEAN /\ ns[i].active \in BOOLEAN
                      /\ IsLayerActive(os[i]) = IsLayerActive(ns[i])
<1> DEFINE os == old.encodings
           ns == new.encodings
<1>1. CheckRtpParametersInvalidModificationAndValues(old, new)
  BY DEF SetRtpParameters
<1>2. /\ ~HasNewParam(old, new) /\ ~HasNewSendState(old, new)
      /\ os[1].priority = ns[1].priority /\ os[1].mode = ns[1].mode
  BY <1>1 DEF SetRtpParameters
<1>3. /\ Len(os) \in Nat /\ Len(os) = Len(ns)
      /\ DOMAIN os = 1 .. Len(os) /\ DOMAIN ns = 1 .. Len(os)
  <2>1. Len(os) = Len(ns)
    BY <1>1 DEF CheckRtpParametersInvalidModificationAndValues
  <2> QED BY <2>1, EncodingsAssumption
<1>4. ASSUME NEW i \in DOMAIN os
      PROVE  /\ os[i].min = ns[i].min /\ os[i].max = ns[i].max /\ os[i].fps = ns[i].fps
             /\ os[i].scale = ns[i].scale /\ os[i].tl = ns[i].tl
             /\ os[i].min \in Int /\ os[i].max \in Int
             /\ os[i].active \in BOOLEAN /\ ns[i].active \in BOOLEAN
             /\ IsLayerActive(os[i]) = IsLayerActive(ns[i])
  <2> DEFINE R == [ssrc : Int, rid : Int, active : BOOLEAN, min : Int, max : Int, fps : Int,
                   scale : Int, tl : Int, priority : Int, mode : Int]
  <2>1. os \in Seq(R) /\ ns \in Seq(R)
    BY EncodingsAssumption
  <2> HIDE DEF R
  <2>2. os[i] \in R /\ ns[i] \in R
    <3>1. \A s \in Seq(R) : \A k \in DOMAIN s : s[k] \in R
      OBVIOUS
    <3> QED BY <1>3, <2>1, <3>1
  <2>3. /\ os[i].active \in BOOLEAN /\ ns[i].active \in BOOLEAN
        /\ os[i].min \in Int /\ os[i].max \in Int
    BY <2>2 DEF R
  <2>4. /\ os[i].min = ns[i].min /\ os[i].max = ns[i].max /\ os[i].fps = ns[i].fps
        /\ os[i].scale = ns[i].scale /\ os[i].tl = ns[i].tl
    BY <1>2 DEF HasNewParam
  <2>5. IsLayerActive(os[i]) = IsLayerActive(ns[i])
    BY <1>2 DEF HasNewSendState
  <2> QED BY <2>3, <2>4, <2>5
<1> QED BY <1>2, <1>3, <1>4

\* Then the same is asked of the encoder.
LEMMA ChangesAreHeard ==
    ASSUME NEW old \in ParameterSets, NEW new \in NewParameters,
           SetRtpParameters(old, new).taken, ~SetRtpParameters(old, new).reconfigured,
           NEW codec, NEW screencast \in BOOLEAN, NEW conference,
           NEW bandwidth, NEW codecMax
    PROVE  AskTheSame(EncoderConfig(codec, old, screencast, conference, bandwidth, codecMax),
                      EncoderConfig(codec, new, screencast, conference, bandwidth, codecMax),
                      IsLayerActive(new.encodings[1]))
<1> DEFINE os == old.encodings
           ns == new.encodings
           Given(n) == IF n = Unset THEN 0 ELSE n
           Of(e) == [active |-> e.active, mode |-> e.mode, min |-> Given(e.min),
                     max |-> Given(e.max), fps |-> Given(e.fps),
                     scale |-> Given(e.scale), tl |-> Given(e.tl)]
           before == [i \in DOMAIN os |-> Of(os[i])]
           after == [i \in DOMAIN ns |-> Of(ns[i])]
           cap == MaxBitrate(old, bandwidth, codecMax)
           p == os[1].priority
           off == FALSE
           none == <<>>
           Config(layers) == [codec |-> codec, screenshare |-> screencast,
                              conference |-> conference, max |-> cap, streams |-> 1,
                              priority |-> p, scaling |-> off, layers |-> layers]
           sends == IsLayerActive(ns[1])
<1>1. /\ Len(os) \in Nat /\ Len(os) = Len(ns)
      /\ DOMAIN os = 1 .. Len(os) /\ DOMAIN ns = 1 .. Len(os)
      /\ os[1].priority = ns[1].priority /\ os[1].mode = ns[1].mode
      /\ \A i \in DOMAIN os :
             /\ os[i].min = ns[i].min /\ os[i].max = ns[i].max
             /\ os[i].fps = ns[i].fps /\ os[i].scale = ns[i].scale
             /\ os[i].tl = ns[i].tl /\ os[i].min \in Int /\ os[i].max \in Int
             /\ os[i].active \in BOOLEAN /\ ns[i].active \in BOOLEAN
             /\ IsLayerActive(os[i]) = IsLayerActive(ns[i])
  BY EncodingsAreKept
<1>2. cap = MaxBitrate(new, bandwidth, codecMax)
  BY <1>1 DEF MaxBitrate
<1>3. ~IsQualityScalingAllowed(old, screencast) /\ ~IsQualityScalingAllowed(new, screencast)
  BY DEF IsQualityScalingAllowed, DisableAutomaticResize
<1> DEFINE o == EncoderConfig(codec, old, screencast, conference, bandwidth, codecMax)
           n == EncoderConfig(codec, new, screencast, conference, bandwidth, codecMax)
<1>4. o = Config(before)
  <2>1. o = [codec |-> codec, screenshare |-> screencast, conference |-> conference,
             max |-> cap, streams |-> 1, priority |-> p,
             scaling |-> IsQualityScalingAllowed(old, screencast), layers |-> before]
    BY DEF EncoderConfig, IsCodecDisabledForSimulcast
  <2>2. IsQualityScalingAllowed(old, screencast) = FALSE
    BY <1>3 DEF IsQualityScalingAllowed
  <2> HIDE DEF o, cap, p, before
  <2> QED BY <2>1, <2>2
<1>5. n = Config(after)
  <2>1. n = [codec |-> codec, screenshare |-> screencast, conference |-> conference,
             max |-> MaxBitrate(new, bandwidth, codecMax), streams |-> 1,
             priority |-> ns[1].priority,
             scaling |-> IsQualityScalingAllowed(new, screencast), layers |-> after]
    BY DEF EncoderConfig, IsCodecDisabledForSimulcast
  <2>2. IsQualityScalingAllowed(new, screencast) = FALSE
    BY <1>3 DEF IsQualityScalingAllowed
  <2>3. p = ns[1].priority
    BY <1>1
  <2> HIDE DEF n, cap, p, after
  <2> QED BY <1>2, <2>1, <2>2, <2>3
<1>6. ASSUME NEW i \in DOMAIN os
      PROVE  /\ before[i].min = after[i].min /\ before[i].max = after[i].max
             /\ before[i].fps = after[i].fps /\ before[i].scale = after[i].scale
             /\ before[i].tl = after[i].tl /\ before[i].min \in Int /\ before[i].max \in Int
             /\ before[i].mode = os[i].mode /\ after[i].mode = ns[i].mode
             /\ before[i].active = os[i].active /\ after[i].active = ns[i].active
  <2>1. before[i] = Of(os[i]) /\ after[i] = Of(ns[i])
    BY <1>1
  <2>2. \A x \in Int : Given(x) \in Int
    OBVIOUS
  <2> HIDE DEF Given, before, after
  <2>3. /\ before[i].min = Given(os[i].min) /\ before[i].max = Given(os[i].max)
        /\ before[i].fps = Given(os[i].fps) /\ before[i].scale = Given(os[i].scale)
        /\ before[i].tl = Given(os[i].tl) /\ before[i].mode = os[i].mode
        /\ before[i].active = os[i].active
    BY <2>1
  <2>4. /\ after[i].min = Given(ns[i].min) /\ after[i].max = Given(ns[i].max)
        /\ after[i].fps = Given(ns[i].fps) /\ after[i].scale = Given(ns[i].scale)
        /\ after[i].tl = Given(ns[i].tl) /\ after[i].mode = ns[i].mode
        /\ after[i].active = ns[i].active
    BY <2>1
  <2>5. /\ os[i].min = ns[i].min /\ os[i].max = ns[i].max
        /\ os[i].fps = ns[i].fps /\ os[i].scale = ns[i].scale
        /\ os[i].tl = ns[i].tl /\ os[i].min \in Int /\ os[i].max \in Int
    BY <1>1
  <2>6. Given(os[i].min) \in Int /\ Given(os[i].max) \in Int
    BY <2>2, <2>5
  <2> HIDE DEF Of, os, ns
  <2> QED BY <2>3, <2>4, <2>5, <2>6
<1>7. DOMAIN before = DOMAIN os /\ DOMAIN after = DOMAIN os
  BY <1>1
<1> HIDE DEF o, n, before, after, cap, p, off, none
<1>8. [o EXCEPT !.layers = <<>>] = [n EXCEPT !.layers = <<>>]
  <2>1. [o EXCEPT !.layers = none] = Config(none)
    BY <1>4
  <2>2. [n EXCEPT !.layers = none] = Config(none)
    BY <1>5
  <2> QED BY <2>1, <2>2 DEF none
<1>9. ASSUME o # n, NEW size \in Sizes, NEW trials \in TrialSets
      PROVE  SameStreams(CreateEncoderStreams(size[1], size[2], o, trials),
                         CreateEncoderStreams(size[1], size[2], n, trials), sends)
  <2>1. 1 \in DOMAIN os
    <3>1. CASE Len(os) = 0
      <4>1. os = ns
        <5>1. os = <<>> /\ ns = <<>>
          BY <1>1, <3>1, EncodingsAssumption
        <5> QED BY <5>1
      <4>2. before = after
        BY <4>1 DEF before, after
      <4> QED BY <1>4, <1>5, <1>9, <4>2
    <3> QED BY <1>1, <3>1
  <2>2. /\ o.streams = 1 /\ n.streams = 1 /\ o.codec = n.codec
        /\ o.screenshare = n.screenshare /\ o.conference = n.conference /\ o.max = n.max
        /\ o.layers = before /\ n.layers = after
    BY <1>4, <1>5
  <2>3. before[1].mode = after[1].mode
    BY <1>1, <1>6, <2>1
  <2>4. LikeConfigs(o, n)
    BY <1>6, <1>7, <2>1, <2>2, <2>3 DEF LikeConfigs
  <2>5. ASSUME sends PROVE o.layers[1].active = n.layers[1].active
    <3>1. os[1].active /\ ns[1].active
      BY <1>1, <2>1, <2>5 DEF IsLayerActive
    <3>2. before[1].active = os[1].active /\ after[1].active = ns[1].active
      BY <1>6, <2>1
    <3>3. os[1].active = ns[1].active
      BY <1>1, <2>1, <3>1
    <3> QED BY <2>2, <3>2, <3>3
  <2> HIDE DEF sends
  <2> QED BY <2>4, <2>5, SameStreamIs
<1> QED BY <1>8, <1>9 DEF AskTheSame, o, n, sends

\* A stream that is not told whether it is active need not be.
LEMMA SendStateIsHeard ==
    ASSUME NEW old \in ParameterSets, NEW new \in NewParameters,
           SetRtpParameters(old, new).taken, ~SetRtpParameters(old, new).updated,
           NEW k \in DOMAIN new.encodings, IsLayerActive(new.encodings[k])
    PROVE  IsStreamActive(old) = IsStreamActive(new)
<1> DEFINE os == old.encodings
           ns == new.encodings
<1>1. /\ CheckRtpParametersInvalidModificationAndValues(old, new)
      /\ ~HasNewSendState(old, new)
  BY DEF SetRtpParameters
<1>2. Len(os) = Len(ns) /\ DOMAIN os = 1 .. Len(os) /\ DOMAIN ns = 1 .. Len(os)
      /\ Len(os) \in Nat
  <2>1. Len(os) = Len(ns)
    BY <1>1 DEF CheckRtpParametersInvalidModificationAndValues
  <2> QED BY <2>1, EncodingsAssumption
<1>3. \A i \in DOMAIN os : IsLayerActive(os[i]) = IsLayerActive(ns[i])
  BY <1>1 DEF HasNewSendState
<1>4. k \in DOMAIN os /\ ns[k].active /\ os[k].active
  BY <1>2, <1>3 DEF IsLayerActive
<1>5. CASE Len(os) = 1
  <2>1. IsLayerActive(os[1]) = IsLayerActive(ns[1])
    BY <1>2, <1>3, <1>5
  <2> QED BY <1>2, <1>5, <2>1 DEF IsStreamActive
<1>6. CASE Len(os) # 1
  <2>1. IsStreamActive(old) /\ IsStreamActive(new)
    BY <1>2, <1>4, <1>6 DEF IsStreamActive
  <2>2. IsStreamActive(old) \in BOOLEAN /\ IsStreamActive(new) \in BOOLEAN
    BY <1>2, <1>6 DEF IsStreamActive
  <2> QED BY <2>1, <2>2
<1> QED BY <1>5, <1>6

\* A preference that is not set again is the one before.
LEMMA PreferencesAreKept == ASSUME Answered PROVE PreferenceIsKept
<1>1. ASSUME job.kind = "parameters", result.taken, ~result.sourced,
             NEW detection, NEW hint, NEW screencast
      PROVE  GetDegradationPreference(detection, job.old, hint, screencast)
                 = GetDegradationPreference(detection, job.new, hint, screencast)
  <2>1. result = SetRtpParameters(job.old, job.new)
    BY <1>1 DEF Answered
  <2>2. job.old.degradation = job.new.degradation
    BY <1>1, <2>1 DEF SetRtpParameters
  <2> QED BY <2>2 DEF GetDegradationPreference
<1>2. ASSUME job.kind = "encoder", job.screencast
      PROVE  /\ ~result.settings.denoise
             /\ job.parameters.degradation = "unset" /\ job.hint # "fluid" =>
                    result.preference # "maintain-framerate"
  <2> DEFINE settings == result.settings
  <2>1. /\ job.screencast \in BOOLEAN
        /\ settings = ConfigureVideoEncoderSettings(job.codec, job.parameters,
                                 job.screencast, job.noiseReduction)
        /\ result.preference = GetDegradationPreference(job.detection, job.parameters,
                                                        job.hint, job.screencast)
    BY <1>2 DEF Answered
  <2> HIDE DEF settings
  <2>2. ~settings.denoise
    BY <1>2, <2>1 DEF ConfigureVideoEncoderSettings
  <2>3. job.parameters.degradation = "unset" /\ job.hint # "fluid" =>
            result.preference # "maintain-framerate"
    BY <1>2, <2>1 DEF GetDegradationPreference
  <2> QED BY <2>2, <2>3 DEF settings
<1> QED BY <1>1, <1>2 DEF PreferenceIsKept

\* A call keeps its argument and its answer.
LEMMA AnswersKept == Answered /\ [Call]_calls => Answered'
<1> SUFFICES ASSUME Answered, [Call]_calls PROVE Answered'
  OBVIOUS
<1>1. ASSUME job'.kind \notin {"types", "settings", "selection", "parameters", "encoder",
                               "extensions", "own", "statistics"}
      PROVE  Answered'
  BY <1>1 DEF Answered
<1>2. CASE AskStreams
  BY <1>1, <1>2 DEF AskStreams
<1>3. CASE AskTypes
  BY <1>3 DEF AskTypes, Answered
<1>4. CASE AskSettings
  BY <1>4 DEF AskSettings, Answered
<1>5. CASE AskSelection
  BY <1>5 DEF AskSelection, Answered
<1>6. CASE AskExtensions
  BY <1>6 DEF AskExtensions, Answered
<1>7. CASE AskStatistics
  <2>1. PICK config \in RtpConfigs, hasStream \in BOOLEAN : \E present \in SUBSET SsrcsOf(config) :
            \E wide \in ToSet(config.ssrcs), withQp \in SUBSET ToSet(config.ssrcs) :
                /\ job' = [kind |-> "statistics", config |-> config, hasStream |-> hasStream,
                           substreams |-> Substreams(config, present, wide, withQp)]
                /\ result' = FillSenderStats(config, hasStream,
                                             Substreams(config, present, wide, withQp))
    BY <1>7 DEF AskStatistics
  <2>2. PICK present \in SUBSET SsrcsOf(config), wide \in ToSet(config.ssrcs),
             withQp \in SUBSET ToSet(config.ssrcs) :
            /\ job' = [kind |-> "statistics", config |-> config, hasStream |-> hasStream,
                       substreams |-> Substreams(config, present, wide, withQp)]
            /\ result' = FillSenderStats(config, hasStream,
                                         Substreams(config, present, wide, withQp))
    BY <2>1
  <2>3. /\ job'.kind = "statistics" /\ job'.config = config /\ job'.hasStream = hasStream
        /\ job'.substreams = Substreams(config, present, wide, withQp)
    BY <2>2
  <2>4. StatisticsAsked'
    BY <2>2, <2>3 DEF StatisticsAsked
  <2> QED BY <2>3, <2>4 DEF Answered
<1>8. CASE AskDescription
  BY <1>1, <1>8 DEF AskDescription
<1>9. CASE AskParameters
  BY <1>9 DEF AskParameters, Answered
<1>10. CASE AskEncoderSettings
  BY <1>10 DEF AskEncoderSettings, Answered
<1>11. CASE AskOwnExtensions
  BY <1>11 DEF AskOwnExtensions, Answered
<1>12. CASE StartBundles
  BY <1>1, <1>12 DEF StartBundles
<1>13. CASE UpdateGroups \/ DeleteAMid \/ DeleteAGroup \/ Rollback \/ Commit
  BY <1>1, <1>13 DEF UpdateGroups, DeleteAMid, DeleteAGroup, Rollback, Commit, BundlesInUse
<1>14. CASE Return
  BY <1>1, <1>14 DEF Return, Idle
<1>15. CASE UNCHANGED calls
  BY <1>15 DEF Answered, StatisticsAsked, calls
<1> QED
  BY <1>2, <1>3, <1>4, <1>5, <1>6, <1>7, <1>8, <1>9, <1>10, <1>11, <1>12, <1>13, <1>14, <1>15
  DEF Call

\* Whatever is called, the answer at hand is that of the last call.
THEOREM AnswersAreKept == Calls => []Answered
<1>1. NoCall => Answered
  BY DEF NoCall, Idle, Answered
<1> QED BY <1>1, AnswersKept, PTL DEF Calls

\* For every set of parameters, what SetRtpParameters does not tell the encoder,
\* the stream or its source would make no difference to them: settings,
\* configuration and streams of the encoder, whether the stream is active, and
\* the preference are as before.
THEOREM EncoderStaysUpToDate == Calls => []EncoderIsUpToDate
<1>1. Answered => EncoderHearsOfChanges
  <2> SUFFICES ASSUME Answered, job.kind = "parameters", result.taken, ~result.reconfigured
               PROVE  EncoderHearsOfChanges
    BY DEF EncoderHearsOfChanges
  <2> DEFINE Config(p, codec, screencast, conference, bandwidth, codecMax) ==
                 EncoderConfig(codec, p, screencast, conference, bandwidth, codecMax)
  <2>1. /\ job.old \in ParameterSets /\ job.new \in NewParameters
        /\ result = SetRtpParameters(job.old, job.new)
    BY DEF Answered
  <2>2. \A codec, screencast, noise :
            ConfigureVideoEncoderSettings(codec, job.old, screencast, noise)
                = ConfigureVideoEncoderSettings(codec, job.new, screencast, noise)
    BY DEF ConfigureVideoEncoderSettings, DisableAutomaticResize
  <2>3. \A codec \in Codecs, screencast, conference \in BOOLEAN,
           bandwidth, codecMax \in Bandwidths :
            AskTheSame(EncoderConfig(codec, job.old, screencast, conference, bandwidth, codecMax),
                       EncoderConfig(codec, job.new, screencast, conference, bandwidth, codecMax),
                       IsLayerActive(job.new.encodings[1]))
    BY <2>1, ChangesAreHeard
  <2> QED BY <2>2, <2>3 DEF EncoderHearsOfChanges
<1>2. Answered => StreamHearsOfChanges
  <2> SUFFICES ASSUME Answered, job.kind = "parameters", result.taken, ~result.updated,
                      NEW k \in DOMAIN job.new.encodings, IsLayerActive(job.new.encodings[k])
               PROVE  IsStreamActive(job.old) = IsStreamActive(job.new)
    BY DEF StreamHearsOfChanges
  <2>1. /\ job.old \in ParameterSets /\ job.new \in NewParameters
        /\ result = SetRtpParameters(job.old, job.new)
    BY DEF Answered
  <2> QED BY <2>1, SendStateIsHeard
<1>3. Answered => EncoderIsUpToDate
  BY <1>1, <1>2, PreferencesAreKept DEF EncoderIsUpToDate
<1> QED BY <1>3, AnswersAreKept, PTL

\* For every list of formats and of codecs, a payload type means one thing:
\* the types an engine gives out are dynamic ones, each given once, and
\* MapCodecs accepts them; codecs that were accepted share none; and the
\* codecs to send with keep the order and the payload types of the remote
\* list, each local format behind one of them.
THEOREM TypesStayUnambiguous == Calls => []TypesAreUnambiguous
<1>1. Answered => OwnCodecsAreAccepted
  <2> SUFFICES ASSUME Answered, job.kind = "types", job.formats # <<>>
               PROVE  OwnCodecsAreAccepted
    BY DEF OwnCodecsAreAccepted
  <2>1. job.formats \in FormatLists /\ result = GetPayloadTypesAndDefaultCodecs(job.formats)
    BY DEF Answered
  <2>2. /\ job.formats \in Seq(STRING)
        /\ \A i \in DOMAIN job.formats : Kind(job.formats[i]) = "video"
    BY <2>1, CodecListsAssumption
  <2> QED BY <2>1, <2>2, OwnAreAccepted DEF OwnCodecsAreAccepted
<1>2. Answered => TypesAreNotShared
  <2> SUFFICES ASSUME Answered, job.kind = "settings" PROVE TypesAreNotShared
    BY DEF TypesAreNotShared
  <2>1. AreCodecs(job.codecs) /\ result = MapCodecs(job.codecs)
    BY CodecListsAssumption DEF Answered
  <2> QED BY <2>1, MappedShareNoType DEF TypesAreNotShared
<1>3. Answered => SelectedAreCommon
  <2> SUFFICES ASSUME Answered, job.kind = "selection" PROVE SelectedAreCommon
    BY DEF SelectedAreCommon
  <2>1. /\ AreCodecs(job.remote) /\ job.formats \in Seq(ToSet(job.formats))
        /\ result = SelectSendVideoCodecs(MapCodecs(job.remote), job.formats)
    BY CodecListsAssumption DEF Answered
  <2> QED BY <2>1, SelectedAre DEF SelectedAreCommon
<1>4. Answered => TypesAreUnambiguous
  BY <1>1, <1>2, <1>3 DEF TypesAreUnambiguous
<1> QED BY <1>4, AnswersAreKept, PTL

\* For every list of header extensions, an engine accepts what an engine
\* offers, under ids that do not depend on the trials; what is kept of a
\* description does not depend on its order unless an extension is repeated;
\* and the absolute send time wins over the timestamp offset
\* (FilterRtpExtensions, GetRtpHeaderExtensions).
THEOREM ExtensionsStaySettled == Calls => []ExtensionsAreSettled
<1>1. Answered => ExtensionsAreAgreed
  <2> SUFFICES ASSUME Answered, job.kind = "extensions" PROVE ExtensionsAreAgreed
    BY DEF ExtensionsAreAgreed
  <2> DEFINE all == job.extensions
  <2>1. all \in Seq(Extensions) /\ result = FilterRtpExtensions(all, Supported, TRUE)
    BY ExtensionsAssumption DEF Answered, Extensions
  <2> HIDE DEF all
  <2>2. (\A i, j \in DOMAIN all :
             i # j => <<all[i].uri, all[i].encrypt>> # <<all[j].uri, all[j].encrypt>>)
        => FilterRtpExtensions(Reverse(all), Supported, TRUE) = result
    BY <2>1, ReverseIsFiltered
  <2>3. ASSUME \A i, j \in DOMAIN all : i # j => all[i].uri # all[j].uri,
               NEW at \in DOMAIN all, all[at].uri = AbsSendTime
        PROVE  LET kept == {result[i].uri : i \in DOMAIN result}
               IN  AbsSendTime \in kept /\ TimestampOffset \notin kept
    <3> DEFINE out == FilterRtpExtensions(all, Supported, TRUE)
               kept == {out[i].uri : i \in DOMAIN out}
    <3>1. AbsSendTime \in Supported
      BY ExtensionsAssumption
    <3>2. AbsSendTime \in kept /\ TimestampOffset \notin kept
      BY <2>1, <2>3, <3>1, SendTimeWins
    <3> QED BY <2>1, <3>2
  <2> QED BY <2>2, <2>3 DEF ExtensionsAreAgreed, all
<1>2. Answered => OwnExtensionsAreAccepted
  BY OwnExtensions DEF Answered, OwnExtensionsAreAccepted
<1>3. Answered => ExtensionsAreSettled
  BY <1>1, <1>2 DEF ExtensionsAreSettled
<1> QED BY <1>3, AnswersAreKept, PTL

\* For every stream and every choice of SSRCs with statistics, what a media
\* SSRC is reported to have sent is its own and what protects it, under its
\* RID; nothing else is reported; and the report of the whole is the sum of
\* the others (FillSenderStats).
THEOREM ReportsStayExact == Calls => []ReportsAreExact
<1>1. ASSUME Answered, job.kind = "statistics" PROVE ReportsAreExact
  <2> DEFINE config == job.config
             subs == job.substreams
             merged == MergeInfoAboutOutboundRtpSubstreams(subs)
             senders == result.senders
             fec == config.flexfec.ssrc
             Sent(s) == IF s \in DOMAIN subs THEN subs[s].bytes ELSE 0
             Protects(s, media) == /\ IsFlexfecSsrc(config, s)
                                   /\ config.flexfec.protected[1] = media
  <2>1. /\ config \in RtpConfigs /\ job.hasStream \in BOOLEAN
        /\ result = FillSenderStats(config, job.hasStream, subs)
    BY <1>1 DEF Answered, StatisticsAsked
  <2>2. PICK present \in SUBSET SsrcsOf(config), wide \in ToSet(config.ssrcs),
             withQp \in SUBSET ToSet(config.ssrcs) :
            subs = Substreams(config, present, wide, withQp)
    BY <1>1 DEF Answered, StatisticsAsked
  <2>3. merged = MergeInfoAboutOutboundRtpSubstreams(subs) /\ senders = result.senders
    OBVIOUS
  <2> HIDE DEF config, subs, merged, senders
  <2>4. Reported(config, job.hasStream, subs)
    BY <2>1, <2>2, ReportsAre
  <2>5. /\ AllReports(config, result)
        /\ job.hasStream /\ DOMAIN subs # {} => StreamReports(config, subs, merged, senders)
    BY <2>1, <2>3, <2>4 DEF Reported
  <2>6. ASSUME job.hasStream, NEW i \in DOMAIN config.ssrcs, config.ssrcs[i] \in DOMAIN subs
        PROVE  \E k \in DOMAIN senders :
                   /\ senders[k].ssrcs = {config.ssrcs[i]}
                   /\ senders[k].rid = IF i > Len(config.rids) THEN "none" ELSE config.rids[i]
                   /\ senders[k].bytes =
                          Sent(config.ssrcs[i])
                          + Sent(GetRtxSsrcAssociatedWithMediaSsrc(config, config.ssrcs[i]))
                          + IF Protects(fec, config.ssrcs[i]) THEN Sent(fec) ELSE 0
    <3> DEFINE s == config.ssrcs[i]
               bytes == Sent(s) + Sent(GetRtxSsrcAssociatedWithMediaSsrc(config, s))
                        + IF Protects(fec, s) THEN Sent(fec) ELSE 0
    <3>1. CountsAre(config, subs, merged) /\ OneForEach(config, merged, senders)
      BY <2>5, <2>6 DEF StreamReports
    <3>2. s \in DOMAIN merged /\ merged[s] = bytes
      BY <2>6, <3>1 DEF CountsAre
    <3>3. GetRidForSsrc(config, s) = IF i > Len(config.rids) THEN "none" ELSE config.rids[i]
      BY <2>1, RidIsOfPlace
    <3> HIDE DEF bytes, s
    <3>4. PICK k \in DOMAIN senders :
              /\ senders[k].ssrcs = {s} /\ senders[k].rid = GetRidForSsrc(config, s)
              /\ senders[k].bytes = merged[s]
      BY <3>1, <3>2 DEF OneForEach
    <3>5. /\ senders[k].ssrcs = {s} /\ senders[k].bytes = bytes
          /\ senders[k].rid = IF i > Len(config.rids) THEN "none" ELSE config.rids[i]
      BY <3>2, <3>3, <3>4
    <3> QED BY <3>5 DEF s, bytes
  <2>7. StatisticsAreOfTheStream
    BY <2>6 DEF StatisticsAreOfTheStream, config, subs, senders
  <2>8. ReportedHaveStatistics
    BY <2>5 DEF ReportedHaveStatistics, StreamReports, subs, senders
  <2>9. ReportsAddUp
    <3>1. SUFFICES ASSUME result.aggregated # <<>> PROVE ReportsAddUp
      BY DEF ReportsAddUp
    <3> DEFINE whole == result.aggregated[1]
               Qp(k) == IF senders[k].qp = NoQp THEN 0 ELSE senders[k].qp
    <3>2. /\ AreReports(senders) /\ Len(senders) # 0
          /\ whole = GetAggregatedVideoSenderInfo(config, senders)
      BY <2>3, <2>5, <3>1 DEF AllReports
    <3> HIDE DEF whole
    <3>3. /\ whole.bytes = SumOf([k \in DOMAIN senders |-> senders[k].bytes])
          /\ whole.width \in {senders[k].width : k \in DOMAIN senders}
          /\ \A k \in DOMAIN senders : senders[k].width <= whole.width
          /\ whole.qp = IF \A k \in DOMAIN senders : senders[k].qp = NoQp THEN NoQp
                        ELSE SumOf([k \in DOMAIN senders |-> Qp(k)])
      BY <3>2, TotalsAre
    <3> QED BY <3>3 DEF ReportsAddUp, senders, whole
  <2> QED BY <2>7, <2>8, <2>9 DEF ReportsAreExact
<1>2. Answered => ReportsAreExact
  BY <1>1 DEF ReportsAreExact, StatisticsAreOfTheStream, ReportedHaveStatistics, ReportsAddUp
<1> QED BY <1>2, AnswersAreKept, PTL

-----------------------------------------------------------------------------
(* The streams that are asked of the encoder *)

\* A layer as the operators of EncoderStreams pass it on.
Layer == [width : Nat, height : Nat, min : Nat, target : Nat, max : Nat, tl : Nat, fps : Nat,
          active : BOOLEAN]

\* The rates of a layer are in order.
Ordered(layer) == layer.min <= layer.target /\ layer.target <= layer.max

\* The table of resolutions, number by number.
LEMMA FormatsAre ==
    ASSUME NEW lowres \in BOOLEAN
    PROVE  LET F == GetSimulcastFormats(lowres)
           IN  /\ F[1] = Format(1920, 1080, 3, 5000, 4000, 800)
               /\ F[2] = Format(1280, 720, 3, 2500, 2500, 600)
               /\ F[3] = Format(960, 540, 3, 1200, 1200, 350)
               /\ F[4] = Format(640, 360, 2, 700, 500, 150)
               /\ F[5] = Format(480, 270, 2, 450, 350, 150)
               /\ F[6] = Format(320, 180, 1, 200, 150, 30)
               /\ F[7] \in {Format(0, 0, 1, 0, 0, 30), Format(0, 0, 1, 200, 150, 30)}
<1>1. CASE lowres
  BY <1>1 DEF GetSimulcastFormats, kSimulcastFormats
<1>2. CASE ~lowres
  <2> DEFINE K == kSimulcastFormats
             low == [[[K[7] EXCEPT !.max = K[6].max] EXCEPT !.target = K[6].target]
                        EXCEPT !.min = K[6].min]
  <2>1. DOMAIN K = 1 .. 7
    BY DEF kSimulcastFormats
  <2>2. K[7] = Format(0, 0, 1, 0, 0, 30) /\ K[6] = Format(320, 180, 1, 200, 150, 30)
    BY DEF kSimulcastFormats
  <2>3. low = Format(0, 0, 1, 200, 150, 30)
    <3>1. K[6].max = 200 /\ K[6].target = 150 /\ K[6].min = 30
      BY <2>2 DEF Format
    <3>2. K[7] = [width |-> 0, height |-> 0, layers |-> 1, max |-> 0, target |-> 0, min |-> 30]
      BY <2>2 DEF Format
    <3> HIDE DEF K
    <3> DEFINE second == [K[7] EXCEPT !.max = K[6].max]
               third == [second EXCEPT !.target = K[6].target]
    <3>3. second
            = [width |-> 0, height |-> 0, layers |-> 1, max |-> 200, target |-> 0, min |-> 30]
      BY <3>1, <3>2
    <3>4. low = [third EXCEPT !.min = K[6].min]
      OBVIOUS
    <3> HIDE DEF low, second
    <3>5. third
            = [width |-> 0, height |-> 0, layers |-> 1, max |-> 200, target |-> 150, min |-> 30]
      BY <3>1, <3>3
    <3> HIDE DEF third
    <3> QED BY <3>1, <3>4, <3>5 DEF Format
  <2>4. GetSimulcastFormats(lowres) = [K EXCEPT ![7] = low]
    BY <1>2 DEF GetSimulcastFormats
  <2>5. /\ K[1] = Format(1920, 1080, 3, 5000, 4000, 800)
        /\ K[2] = Format(1280, 720, 3, 2500, 2500, 600)
        /\ K[3] = Format(960, 540, 3, 1200, 1200, 350)
        /\ K[4] = Format(640, 360, 2, 700, 500, 150)
        /\ K[5] = Format(480, 270, 2, 450, 350, 150)
    BY DEF kSimulcastFormats
  <2> HIDE DEF K, low
  <2> QED BY <2>1, <2>2, <2>3, <2>4, <2>5
<1> QED BY <1>1, <1>2

\* Where a size is in the table.
LEMMA IndexIs ==
    ASSUME NEW width \in Nat, NEW height \in Nat
    PROVE  LET index == FindSimulcastFormatIndex(width, height)
           IN  /\ index \in 1 .. 7
               /\ width * height >= Pixels(kSimulcastFormats[index])
               /\ \A j \in 1 .. index - 1 : width * height < Pixels(kSimulcastFormats[j])
<1> DEFINE p == width * height
           P(i) == Pixels(kSimulcastFormats[i])
           T == {i \in 1 .. 7 : p >= P(i)}
<1>1. p \in Nat
  OBVIOUS
<1>2. P(7) = 0 /\ \A i \in 1 .. 7 : P(i) \in Nat
  BY DEF kSimulcastFormats, Format, Pixels
<1>3. FindSimulcastFormatIndex(width, height)
        = CHOOSE i \in 1 .. 7 : p >= P(i) /\ \A j \in 1 .. i - 1 : p < P(j)
  BY DEF FindSimulcastFormatIndex
<1> HIDE DEF p, P
<1>4. T # {} /\ T \in SUBSET Nat
  BY <1>1, <1>2
<1>5. PICK i \in T : \A k \in T : i <= k
  BY <1>4, LeastNumber
<1>6. p >= P(i) /\ \A j \in 1 .. i - 1 : p < P(j)
  BY <1>1, <1>2, <1>5
<1>7. \E k \in 1 .. 7 : p >= P(k) /\ \A j \in 1 .. k - 1 : p < P(j)
  BY <1>5, <1>6
<1> QED BY <1>3, <1>7 DEF p, P

\* Between two resolutions of the table the rates stay in order.
LEMMA InterpolatedIs ==
    ASSUME NEW width \in Nat, NEW height \in Nat, NEW ratio, NEW lowres \in BOOLEAN
    PROVE  LET format == InterpolateSimulcastFormat(width, height, ratio, lowres)
           IN  /\ format.layers \in 1 .. 3 /\ format.min \in Nat
               /\ format.target \in Int /\ format.max \in Int /\ format.target <= format.max
<1> DEFINE F == GetSimulcastFormats(lowres)
           index == FindSimulcastFormatIndex(width, height)
           p == width * height
           format == InterpolateSimulcastFormat(width, height, ratio, lowres)
           Sound == /\ format.layers \in 1 .. 3 /\ format.min \in Nat
                    /\ format.target \in Int /\ format.max \in Int
                    /\ format.target <= format.max
<1> SUFFICES Sound
  OBVIOUS
<1>1. /\ F[1] = Format(1920, 1080, 3, 5000, 4000, 800)
      /\ F[2] = Format(1280, 720, 3, 2500, 2500, 600)
      /\ F[3] = Format(960, 540, 3, 1200, 1200, 350)
      /\ F[4] = Format(640, 360, 2, 700, 500, 150)
      /\ F[5] = Format(480, 270, 2, 450, 350, 150)
      /\ F[6] = Format(320, 180, 1, 200, 150, 30)
      /\ F[7] \in {Format(0, 0, 1, 0, 0, 30), Format(0, 0, 1, 200, 150, 30)}
  BY FormatsAre
<1>2. /\ index \in 1 .. 7 /\ p >= Pixels(kSimulcastFormats[index])
      /\ \A j \in 1 .. index - 1 : p < Pixels(kSimulcastFormats[j])
  BY IndexIs
<1>3. p \in Nat
  OBVIOUS
<1>4. \A i \in 1 .. 7 : Pixels(kSimulcastFormats[i]) = Pixels(F[i])
  BY <1>1, SMT DEF kSimulcastFormats, Format, Pixels
<1>5. /\ index = 1 => format = F[1]
      /\ index # 1 =>
            LET up   == F[index - 1]
                down == F[index]
                way  == (Pixels(up) - Pixels(down)) \div 16
                gone == (Pixels(up) - p) \div 16
            IN  /\ format.layers \in {up.layers, down.layers}
                /\ format.max = up.max + ((down.max - up.max) * gone) \div way
                /\ format.target = up.target + ((down.target - up.target) * gone) \div way
                /\ format.min = up.min + ((down.min - up.min) * gone) \div way
  BY SMT DEF InterpolateSimulcastFormat, Format
<1>6. /\ Pixels(F[1]) = 2073600 /\ Pixels(F[2]) = 921600 /\ Pixels(F[3]) = 518400
      /\ Pixels(F[4]) = 230400 /\ Pixels(F[5]) = 129600 /\ Pixels(F[6]) = 57600
      /\ Pixels(F[7]) = 0
  BY <1>1, SMT DEF Format, Pixels
<1> HIDE DEF p, index, format, F
<1>7. index # 1 => p < Pixels(F[index - 1]) /\ p >= Pixels(F[index])
  BY <1>2, <1>4, SMT
<1>8. CASE index = 1
  BY <1>1, <1>5, <1>8, SMT DEF Format
<1>9. CASE index = 2
  <2> DEFINE left == 2073600 - p
             gone == left \div 16
  <2>1. index - 1 = 1
    BY <1>9, SMT
  <2>2. p < 2073600 /\ p >= 921600
    BY <1>6, <1>7, <1>9, <2>1, SMT
  <2>3. gone \in Nat /\ gone <= 72000
    <3>1. left \in Nat /\ left <= 1152000
      BY <1>3, <2>2, SMT
    <3> HIDE DEF left
    <3> QED BY <3>1, SMT
  <2>4. (Pixels(F[index - 1]) - Pixels(F[index])) \div 16 = 72000
    BY <1>6, <1>9, <2>1, SMT
  <2>5. (Pixels(F[index - 1]) - p) \div 16 = gone
    BY <1>6, <2>1, SMT
  <2> HIDE DEF gone
  <2>6. /\ format.layers \in 1 .. 3
        /\ format.max = 5000 + ((2500 - 5000) * gone) \div 72000
        /\ format.target = 4000 + ((2500 - 4000) * gone) \div 72000
        /\ format.min = 800 + ((600 - 800) * gone) \div 72000
    BY <1>1, <1>5, <1>9, <2>1, <2>4, <2>5, SMT DEF Format
  <2> QED BY <2>3, <2>6, SMT
<1>10. CASE index = 3
  <2> DEFINE left == 921600 - p
             gone == left \div 16
  <2>1. index - 1 = 2
    BY <1>10, SMT
  <2>2. p < 921600 /\ p >= 518400
    BY <1>6, <1>7, <1>10, <2>1, SMT
  <2>3. gone \in Nat /\ gone <= 25200
    <3>1. left \in Nat /\ left <= 403200
      BY <1>3, <2>2, SMT
    <3> HIDE DEF left
    <3> QED BY <3>1, SMT
  <2>4. (Pixels(F[index - 1]) - Pixels(F[index])) \div 16 = 25200
    BY <1>6, <1>10, <2>1, SMT
  <2>5. (Pixels(F[index - 1]) - p) \div 16 = gone
    BY <1>6, <2>1, SMT
  <2> HIDE DEF gone
  <2>6. /\ format.layers \in 1 .. 3
        /\ format.max = 2500 + ((1200 - 2500) * gone) \div 25200
        /\ format.target = 2500 + ((1200 - 2500) * gone) \div 25200
        /\ format.min = 600 + ((350 - 600) * gone) \div 25200
    BY <1>1, <1>5, <1>10, <2>1, <2>4, <2>5, SMT DEF Format
  <2> QED BY <2>3, <2>6, SMT
<1>11. CASE index = 4
  <2> DEFINE left == 518400 - p
             gone == left \div 16
  <2>1. index - 1 = 3
    BY <1>11, SMT
  <2>2. p < 518400 /\ p >= 230400
    BY <1>6, <1>7, <1>11, <2>1, SMT
  <2>3. gone \in Nat /\ gone <= 18000
    <3>1. left \in Nat /\ left <= 288000
      BY <1>3, <2>2, SMT
    <3> HIDE DEF left
    <3> QED BY <3>1, SMT
  <2>4. (Pixels(F[index - 1]) - Pixels(F[index])) \div 16 = 18000
    BY <1>6, <1>11, <2>1, SMT
  <2>5. (Pixels(F[index - 1]) - p) \div 16 = gone
    BY <1>6, <2>1, SMT
  <2> HIDE DEF gone
  <2>6. /\ format.layers \in 1 .. 3
        /\ format.max = 1200 + ((700 - 1200) * gone) \div 18000
        /\ format.target = 1200 + ((500 - 1200) * gone) \div 18000
        /\ format.min = 350 + ((150 - 350) * gone) \div 18000
    BY <1>1, <1>5, <1>11, <2>1, <2>4, <2>5, SMT DEF Format
  <2>7. ((500 - 1200) * gone) \div 18000 <= ((700 - 1200) * gone) \div 18000
    BY <2>3, SMT
  <2>8. ((150 - 350) * gone) \div 18000 >= -200
    BY <2>3, SMT
  <2> QED BY <2>3, <2>6, <2>7, <2>8, SMT
<1>12. CASE index = 5
  <2> DEFINE left == 230400 - p
             gone == left \div 16
  <2>1. index - 1 = 4
    BY <1>12, SMT
  <2>2. p < 230400 /\ p >= 129600
    BY <1>6, <1>7, <1>12, <2>1, SMT
  <2>3. gone \in Nat /\ gone <= 6300
    <3>1. left \in Nat /\ left <= 100800
      BY <1>3, <2>2, SMT
    <3> HIDE DEF left
    <3> QED BY <3>1, SMT
  <2>4. (Pixels(F[index - 1]) - Pixels(F[index])) \div 16 = 6300
    BY <1>6, <1>12, <2>1, SMT
  <2>5. (Pixels(F[index - 1]) - p) \div 16 = gone
    BY <1>6, <2>1, SMT
  <2> HIDE DEF gone
  <2>6. /\ format.layers \in 1 .. 3
        /\ format.max = 700 + ((450 - 700) * gone) \div 6300
        /\ format.target = 500 + ((350 - 500) * gone) \div 6300
        /\ format.min = 150 + ((150 - 150) * gone) \div 6300
    BY <1>1, <1>5, <1>12, <2>1, <2>4, <2>5, SMT DEF Format
  <2> QED BY <2>3, <2>6, SMT
<1>13. CASE index = 6
  <2> DEFINE left == 129600 - p
             gone == left \div 16
  <2>1. index - 1 = 5
    BY <1>13, SMT
  <2>2. p < 129600 /\ p >= 57600
    BY <1>6, <1>7, <1>13, <2>1, SMT
  <2>3. gone \in Nat /\ gone <= 4500
    <3>1. left \in Nat /\ left <= 72000
      BY <1>3, <2>2, SMT
    <3> HIDE DEF left
    <3> QED BY <3>1, SMT
  <2>4. (Pixels(F[index - 1]) - Pixels(F[index])) \div 16 = 4500
    BY <1>6, <1>13, <2>1, SMT
  <2>5. (Pixels(F[index - 1]) - p) \div 16 = gone
    BY <1>6, <2>1, SMT
  <2> HIDE DEF gone
  <2>6. /\ format.layers \in 1 .. 3
        /\ format.max = 450 + ((200 - 450) * gone) \div 4500
        /\ format.target = 350 + ((150 - 350) * gone) \div 4500
        /\ format.min = 150 + ((30 - 150) * gone) \div 4500
    BY <1>1, <1>5, <1>13, <2>1, <2>4, <2>5, SMT DEF Format
  <2> QED BY <2>3, <2>6, SMT
<1>14. CASE index = 7
  <2> DEFINE left == 57600 - p
             gone == left \div 16
  <2>1. index - 1 = 6
    BY <1>14, SMT
  <2>2. p < 57600 /\ p >= 0
    BY <1>6, <1>7, <1>14, <2>1, SMT
  <2>3. gone \in Nat /\ gone <= 3600
    <3>1. left \in Nat /\ left <= 57600
      BY <1>3, <2>2, SMT
    <3> HIDE DEF left
    <3> QED BY <3>1, SMT
  <2>4. PICK max \in {0, 200}, target \in {0, 150} :
            /\ target <= max
            /\ F[7].max = max /\ F[7].target = target /\ F[7].min = 30 /\ F[7].layers = 1
    BY <1>1, SMT DEF Format
  <2>5. (Pixels(F[index - 1]) - Pixels(F[index])) \div 16 = 3600
    BY <1>6, <1>14, <2>1, SMT
  <2>6. (Pixels(F[index - 1]) - p) \div 16 = gone
    BY <1>6, <2>1, SMT
  <2> HIDE DEF gone
  <2>7. /\ format.layers \in 1 .. 3
        /\ format.max = 200 + ((max - 200) * gone) \div 3600
        /\ format.target = 150 + ((target - 150) * gone) \div 3600
        /\ format.min = 30 + ((30 - 30) * gone) \div 3600
    BY <1>1, <1>5, <1>14, <2>1, <2>4, <2>5, <2>6, SMT DEF Format
  <2>8. CASE max = 200 /\ target = 150
    BY <2>3, <2>7, <2>8, SMT
  <2>9. CASE max = 200 /\ target = 0
    BY <2>3, <2>7, <2>9, SMT
  <2>10. CASE max = 0 /\ target = 0
    BY <2>3, <2>7, <2>10, SMT
  <2> QED BY <2>4, <2>8, <2>9, <2>10, SMT
<1> QED BY <1>2, <1>8, <1>9, <1>10, <1>11, <1>12, <1>13, <1>14, SMT

\* There are one to four temporal layers.
LEMMA FewTemporalLayers ==
    ASSUME NEW screenshare \in BOOLEAN, NEW trials
    PROVE  DefaultNumberOfTemporalLayers(screenshare, trials) \in 1 .. 4
BY DEF DefaultNumberOfTemporalLayers

\* The rate of the lowest stream grows with the rate it is made from.
LEMMA BaseRateGrows ==
    ASSUME NEW trials \in TrialSets, NEW a \in Int, NEW b \in Int, a <= b
    PROVE  /\ BaseRate(a, trials) \in Int /\ BaseRate(b, trials) \in Int
           /\ BaseRate(a, trials) <= BaseRate(b, trials)
<1> DEFINE n == DefaultNumberOfTemporalLayers(FALSE, trials)
<1>1. trials.baseHeavy \in BOOLEAN
  BY ConfigsAssumption
<1>2. n \in 1 .. 4
  BY FewTemporalLayers
<1> HIDE DEF n
<1>3. CASE n = 3 /\ trials.baseHeavy
  <2>1. \A r : BaseRate(r, trials) = (r * 2) \div 3
    BY <1>3 DEF BaseRate, n
  <2> QED BY <2>1
<1>4. CASE n = 3 /\ ~trials.baseHeavy
  <2>1. \A r : BaseRate(r, trials) = r
    BY <1>4 DEF BaseRate, n
  <2> QED BY <2>1
<1>5. ASSUME n # 3
      PROVE  \A r : BaseRate(r, trials) = (r * 40) \div BaseLayerShare(n, FALSE)
  BY <1>5 DEF BaseRate, BaseLayerShare, n
<1>6. CASE n = 1
  <2>1. \A r : BaseRate(r, trials) = (r * 40) \div 100
    BY <1>5, <1>6 DEF BaseLayerShare
  <2> QED BY <2>1
<1>7. CASE n = 2
  <2>1. \A r : BaseRate(r, trials) = (r * 40) \div 60
    BY <1>5, <1>7 DEF BaseLayerShare
  <2> QED BY <2>1
<1>8. CASE n = 4
  <2>1. \A r : BaseRate(r, trials) = (r * 40) \div 25
    BY <1>5, <1>8 DEF BaseLayerShare
  <2> QED BY <2>1
<1> QED BY <1>1, <1>2, <1>3, <1>4, <1>6, <1>7, <1>8

\* A layer of simulcast before anything is configured.
LEMMA NormalLayerIs ==
    ASSUME NEW width \in Nat, NEW height \in Nat, NEW lowest, NEW temporal, NEW trials \in TrialSets
    PROVE  LET layer == NormalLayer(width, height, lowest, temporal, trials)
           IN  layer \in Layer /\ Ordered(layer) /\ layer.width = width /\ layer.height = height
<1> DEFINE format == InterpolateSimulcastFormat(width, height, kDefaultMaxRoundupRate,
                                                trials.lowres)
           Base(r) == IF lowest THEN BaseRate(r, trials) ELSE r
           Rate(r) == MaxOf(format.min, Base(r))
           n == DefaultNumberOfTemporalLayers(FALSE, trials)
           tl == IF temporal THEN n ELSE 1
           layer == NormalLayer(width, height, lowest, temporal, trials)
<1>1. layer = [width |-> width, height |-> height, min |-> format.min,
               max |-> Rate(format.max), target |-> Rate(format.target),
               tl |-> tl, fps |-> 60, active |-> TRUE]
  BY DEF NormalLayer
<1>2. /\ format.min \in Nat /\ format.target \in Int /\ format.max \in Int
      /\ format.target <= format.max
  <2>1. trials.lowres \in BOOLEAN
    BY ConfigsAssumption
  <2> QED BY <2>1, InterpolatedIs
<1>3. tl \in Nat
  <2>1. n \in 1 .. 4
    BY FewTemporalLayers
  <2> HIDE DEF n
  <2>2. n \in Nat /\ 1 \in Nat
    BY <2>1
  <2> QED BY <2>2, Zenon
<1> HIDE DEF format, tl, layer
<1>4. /\ Base(format.target) \in Int /\ Base(format.max) \in Int
      /\ Base(format.target) <= Base(format.max)
  BY <1>2, BaseRateGrows
<1> HIDE DEF Base
<1>5. /\ Rate(format.target) \in Nat /\ Rate(format.max) \in Nat
      /\ format.min <= Rate(format.target) /\ Rate(format.target) <= Rate(format.max)
  BY <1>2, <1>4 DEF MaxOf
<1> HIDE DEF Rate
<1>6. layer \in Layer
  BY <1>1, <1>2, <1>3, <1>5 DEF Layer
<1>7. Ordered(layer) /\ layer.width = width /\ layer.height = height
  BY <1>1, <1>5 DEF Ordered
<1> QED BY <1>6, <1>7 DEF layer

\* The first active stream is one of the configured ones.
LEMMA RequiredIs ==
    ASSUME NEW config \in Configs
    PROVE  /\ config.streams \in 1 .. 3
           /\ Len(config.layers) \in Nat /\ config.streams <= Len(config.layers)
           /\ DOMAIN config.layers = 1 .. Len(config.layers)
           /\ FindRequiredActiveLayers(config) \in 0 .. config.streams
           /\ (\E i \in 1 .. config.streams : config.layers[i].active)
                 => /\ FindRequiredActiveLayers(config) # 0
                    /\ config.layers[FindRequiredActiveLayers(config)].active
<1> DEFINE N == config.streams
           L == Len(config.layers)
           active == {i \in 1 .. N : config.layers[i].active}
           first == FindRequiredActiveLayers(config)
<1>1. N \in 1 .. 3 /\ L \in Nat /\ N <= L /\ DOMAIN config.layers = 1 .. L
  BY ConfigsAssumption
<1>2. first = IF \A i \in 1 .. N : ~config.layers[i].active THEN 0
              ELSE CHOOSE i \in 1 .. N : /\ config.layers[i].active
                                         /\ \A j \in 1 .. i - 1 : ~config.layers[j].active
  BY <1>1 DEF FindRequiredActiveLayers
<1> HIDE DEF first, N, L
<1>3. CASE active = {}
  <2>1. \A i \in 1 .. N : ~config.layers[i].active
    BY <1>3
  <2>2. first = 0
    BY <1>2, <2>1
  <2> QED BY <1>1, <2>1, <2>2 DEF first, N, L
<1>4. CASE active # {}
  <2>1. active \in SUBSET Nat
    BY <1>1
  <2>2. PICK i \in active : \A k \in active : i <= k
    BY <1>4, <2>1, LeastNumber
  <2>3. i \in 1 .. N /\ config.layers[i].active /\ \A j \in 1 .. i - 1 : ~config.layers[j].active
    BY <1>1, <2>2
  <2>4. first \in 1 .. N /\ config.layers[first].active
    BY <1>2, <2>3
  <2>5. first # 0 /\ first \in 0 .. N
    BY <1>1, <2>4
  <2> QED BY <1>1, <2>4, <2>5 DEF first, N, L
<1> QED BY <1>3, <1>4

\* The limit leaves a stream, and all up to the one that is required.
LEMMA LimitIs ==
    ASSUME NEW width \in Nat, NEW height \in Nat, NEW count \in 1 .. 3, NEW need \in 0 .. count,
           NEW trials \in TrialSets
    PROVE  LET limit == LimitSimulcastLayerCount(width, height, need, count, trials)
           IN  limit \in 1 .. count /\ need <= limit
<1> DEFINE layers == InterpolateSimulcastFormat(width, height, trials.roundUp,
                                                trials.lowres).layers
<1>1. layers \in 1 .. 3
  <2>1. trials.lowres \in BOOLEAN
    BY ConfigsAssumption
  <2> QED BY <2>1, InterpolatedIs
<1>2. LimitSimulcastLayerCount(width, height, need, count, trials)
        \in {count, MinOf(count, MaxOf(need, layers))}
  BY DEF LimitSimulcastLayerCount
<1> HIDE DEF layers
<1>3. /\ MinOf(count, MaxOf(need, layers)) \in 1 .. count
      /\ need <= MinOf(count, MaxOf(need, layers))
  BY <1>1 DEF MinOf, MaxOf
<1> QED BY <1>2, <1>3

\* A size is halved from layer to layer, and exactly if it was rounded to a
\* power of two that the layers divide.
LEMMA SizesNest ==
    ASSUME NEW size \in Nat, NEW count \in 1 .. 3, NEW trials \in TrialSets
    PROVE  LET N == NormalizeSimulcastSize(size, count, trials)
               At(s) == N \div (2 ^ (count - s))
           IN  /\ N \in Nat
               /\ \A s \in 1 .. count : At(s) \in Nat
               /\ \A s \in 2 .. count :
                      /\ At(s) \div 2 = At(s - 1)
                      /\ trials.exponent \notin 0 .. count - 2 => At(s) = 2 * At(s - 1)
<1> DEFINE N == NormalizeSimulcastSize(size, count, trials)
           own == trials.exponent >= 0 /\ size > 2 ^ trials.exponent
           power == IF own THEN trials.exponent ELSE count - 1
           factor == 2 ^ power
<1>1. 2 ^ 0 = 1 /\ 2 ^ 1 = 2 /\ 2 ^ 2 = 4 /\ 2 ^ 3 = 8 /\ 2 ^ 4 = 16 /\ 2 ^ 5 = 32
  OBVIOUS
<1>2. trials.exponent \in -1 .. 5
  BY ConfigsAssumption
<1>3. N = (size \div factor) * factor
  BY DEF NormalizeSimulcastSize, RoundedDown
<1> HIDE DEF N, own
<1>4. /\ power \in 0 .. 5
      /\ trials.exponent \notin 0 .. count - 2 => power >= count - 1
  <2>1. CASE own
    BY <1>2, <2>1 DEF own
  <2>2. CASE ~own
    BY <2>2
  <2> QED BY <2>1, <2>2
<1> HIDE DEF power
<1>5. /\ factor \in {1, 2, 4, 8, 16, 32}
      /\ power >= 1 => factor \in {2, 4, 8, 16, 32}
      /\ power >= 2 => factor \in {4, 8, 16, 32}
  <2>1. /\ power = 0 => factor = 1
        /\ power = 1 => factor = 2
        /\ power = 2 => factor = 4
        /\ power = 3 => factor = 8
        /\ power = 4 => factor = 16
        /\ power = 5 => factor = 32
    BY <1>1
  <2> HIDE DEF factor
  <2> QED BY <1>4, <2>1
<1> HIDE DEF factor
<1>6. /\ N \in Nat
      /\ power >= 1 => \E part \in Nat : N = 2 * part
      /\ power >= 2 => \E part \in Nat : N = 4 * part
  <2>1. ASSUME NEW f \in {1, 2, 4, 8, 16, 32}
        PROVE  LET n == (size \div f) * f
               IN  /\ n \in Nat
                   /\ f \in {2, 4, 8, 16, 32} => \E part \in Nat : n = 2 * part
                   /\ f \in {4, 8, 16, 32} => \E part \in Nat : n = 4 * part
    <3>1. size \div f \in Nat
      OBVIOUS
    <3> DEFINE q == size \div f
    <3> HIDE DEF q
    <3>2. /\ q * 1 \in Nat /\ q * 2 = 2 * q /\ q * 4 = 4 * q /\ q * 4 = 2 * (2 * q)
          /\ q * 8 = 4 * (2 * q) /\ q * 8 = 2 * (4 * q)
          /\ q * 16 = 4 * (4 * q) /\ q * 16 = 2 * (8 * q)
          /\ q * 32 = 4 * (8 * q) /\ q * 32 = 2 * (16 * q)
          /\ q \in Nat /\ 2 * q \in Nat /\ 4 * q \in Nat /\ 8 * q \in Nat /\ 16 * q \in Nat
      BY <3>1 DEF q
    <3>3. q * f \in Nat
      BY <3>2
    <3>4. f \in {2, 4, 8, 16, 32} => \E part \in Nat : q * f = 2 * part
      BY <3>2
    <3>5. f \in {4, 8, 16, 32} => \E part \in Nat : q * f = 4 * part
      BY <3>2
    <3> QED BY <3>3, <3>4, <3>5 DEF q
  <2> QED BY <1>3, <1>5, <2>1
<1>7. CASE count = 1
  <2>1. 2 ^ (count - 1) = 1 /\ N \div 1 = N
    BY <1>1, <1>6, <1>7
  <2> QED BY <1>6, <1>7, <2>1 DEF N
<1>8. CASE count = 2
  <2>1. 2 ^ (count - 1) = 2 /\ 2 ^ (count - 2) = 1
    BY <1>1, <1>8
  <2>2. N \div 2 \in Nat /\ N \div 1 = N
    BY <1>6
  <2>3. ASSUME trials.exponent \notin 0 .. count - 2 PROVE N = 2 * (N \div 2)
    <3>1. PICK part \in Nat : N = 2 * part
      BY <1>4, <1>6, <1>8, <2>3
    <3> QED BY <3>1
  <2> QED BY <1>6, <1>8, <2>1, <2>2, <2>3 DEF N
<1>9. CASE count = 3
  <2>1. 2 ^ (count - 1) = 4 /\ 2 ^ (count - 2) = 2 /\ 2 ^ (count - 3) = 1
    BY <1>1, <1>9
  <2>2. /\ N \div 4 \in Nat /\ N \div 2 \in Nat /\ N \div 1 = N
        /\ (N \div 2) \div 2 = N \div 4
    BY <1>6
  <2>3. ASSUME trials.exponent \notin 0 .. count - 2
        PROVE  N = 2 * (N \div 2) /\ N \div 2 = 2 * (N \div 4)
    <3>1. PICK part \in Nat : N = 4 * part
      BY <1>4, <1>6, <1>9, <2>3
    <3> QED BY <3>1
  <2> QED BY <1>6, <1>9, <2>1, <2>2, <2>3 DEF N
<1> QED BY <1>7, <1>8, <1>9

\* The setting in which the upper of two screens starves.
Starving(legacy, temporal, count, trials) ==
    legacy /\ ~temporal /\ count > 1 /\ trials.screenTemporal = 4

\* Layer i of two screens: only the upper one may starve.
IsScreen(layer, i, starving) ==
    layer.target <= layer.max /\ (Ordered(layer) \/ (i = 2 /\ starving))

\* The two layers of legacy screen sharing.
LEMMA ScreenLayersAre ==
    ASSUME NEW count \in 1 .. 3, NEW width \in Nat, NEW height \in Nat,
           NEW temporal \in BOOLEAN, NEW trials \in TrialSets
    PROVE  LET layers == GetScreenshareLayers(count, width, height, temporal, trials)
           IN  \E m \in 1 .. count :
                   /\ layers \in Seq(Layer) /\ Len(layers) = m
                   /\ \A i \in 1 .. m :
                          IsScreen(layers[i], i, Starving(TRUE, temporal, count, trials))
<1> DEFINE n == DefaultNumberOfTemporalLayers(TRUE, trials)
           share == BaseLayerShare(n, trials.baseHeavy)
           boost == temporal /\ (n # 3 \/ trials.baseHeavy)
           high == CASE ~temporal -> (1250 * share) \div 100
                     [] boost -> 1250
                     [] OTHER -> 2 * ((200 * 10) \div 4)
           least == IF boost THEN 600 ELSE 400
           lower == [width |-> width, height |-> height, min |-> 30, target |-> 200,
                     max |-> 1000, tl |-> IF temporal THEN 2 ELSE 1, fps |-> 5, active |-> TRUE]
           tl == IF temporal THEN n ELSE 1
           higher == [width |-> width, height |-> height, min |-> least, target |-> high,
                      max |-> high, tl |-> tl, fps |-> 60, active |-> TRUE]
           layers == GetScreenshareLayers(count, width, height, temporal, trials)
<1>1. layers = IF count >= 2 THEN <<lower, higher>> ELSE <<lower>>
  BY DEF GetScreenshareLayers
<1>2. n \in 1 .. 4 /\ trials.baseHeavy \in BOOLEAN /\ trials.screenTemporal \in Int
  BY FewTemporalLayers, ConfigsAssumption
<1>3. n = 4 => trials.screenTemporal = 4
  BY DEF DefaultNumberOfTemporalLayers
<1> HIDE DEF n, layers
<1>4. share \in {25, 40, 60, 100} /\ (share = 25 => n = 4)
  <2>1. n = 1 \/ n = 2 \/ n = 3 \/ n = 4
    BY <1>2
  <2>2. n = 4 => share = 25
    BY DEF BaseLayerShare
  <2>3. n = 1 => share = 100
    BY DEF BaseLayerShare
  <2>4. n = 2 => share = 60
    BY DEF BaseLayerShare
  <2>5. n = 3 => share \in {40, 60}
    BY DEF BaseLayerShare
  <2> QED BY <2>1, <2>2, <2>3, <2>4, <2>5
<1> HIDE DEF share
<1>5. /\ least \in Nat /\ high \in Nat
      /\ (temporal \/ share # 25) => least <= high
  <2>1. CASE temporal
    <3>1. high \in {1250, 2 * ((200 * 10) \div 4)} /\ least \in {400, 600}
      BY <2>1
    <3> QED BY <3>1
  <2>2. CASE ~temporal
    <3>1. high = (1250 * share) \div 100 /\ least = 400
      BY <2>2
    <3> QED BY <1>4, <2>2, <3>1
  <2> QED BY <2>1, <2>2
<1>6. tl \in Nat /\ (IF temporal THEN 2 ELSE 1) \in Nat
  BY <1>2
<1> HIDE DEF least, high, tl
<1>7. lower \in Layer /\ higher \in Layer
  BY <1>5, <1>6 DEF Layer
<1>8. Ordered(lower)
  BY DEF Ordered
<1> DEFINE starving == Starving(TRUE, temporal, count, trials)
<1>9. count >= 2 => Ordered(higher) \/ starving
  BY <1>3, <1>4, <1>5 DEF Ordered, Starving
<1>12. lower.target <= lower.max /\ higher.target <= higher.max
  BY <1>5
<1> HIDE DEF lower, higher, starving
<1>13. IsScreen(lower, 1, starving) /\ (count >= 2 => IsScreen(higher, 2, starving))
  BY <1>8, <1>9, <1>12 DEF IsScreen
<1>10. CASE count >= 2
  <2>1. layers = <<lower, higher>>
    BY <1>1, <1>10
  <2>2. layers \in Seq(Layer) /\ Len(layers) = 2 /\ 2 \in 1 .. count
    BY <1>7, <1>10, <2>1
  <2>3. layers[1] = lower /\ layers[2] = higher
    BY <2>1
  <2>4. \A i \in 1 .. 2 : IsScreen(layers[i], i, starving)
    BY <1>10, <1>13, <2>3
  <2> QED BY <2>2, <2>4 DEF layers, starving
<1>11. CASE ~(count >= 2)
  <2>1. layers = <<lower>>
    BY <1>1, <1>11
  <2>2. layers \in Seq(Layer) /\ Len(layers) = 1 /\ 1 \in 1 .. count
    BY <1>7, <2>1
  <2>3. \A i \in 1 .. 1 : IsScreen(layers[i], i, starving)
    BY <1>13, <2>1
  <2> QED BY <2>2, <2>3 DEF layers, starving
<1> QED BY <1>10, <1>11

\* The layers an encoder configuration starts from, before an experiment.
FirstLayers(width, height, config, trials) ==
    GetSimulcastConfig(FindRequiredActiveLayers(config), config.streams, width, height,
                       config.screenshare /\ config.conference,
                       config.codec \in {"VP8", "H264"}, trials)

BaseLayers(width, height, config, trials) ==
    WithMinimum(FirstLayers(width, height, config, trials), trials)

\* Layer i is as wide and as high as the one below it, doubled.
NestAt(layers, i, exact) ==
    /\ layers[i].width \div 2 = layers[i - 1].width
    /\ layers[i].height \div 2 = layers[i - 1].height
    /\ exact => /\ layers[i].width = 2 * layers[i - 1].width
                /\ layers[i].height = 2 * layers[i - 1].height

\* The rates of layer i may be out of order: an experiment's minimum is too
\* high for it, or the upper screen starves.
Excused(layers, i, starving, trials) ==
    \/ i = 1 /\ trials.minimum > layers[i].target /\ layers[i].min = trials.minimum
    \/ i = 2 /\ starving

\* One to m layers, no fewer than are required, and nested unless they are two
\* screens.
AreBase(base, m, config, trials) ==
    LET legacy == config.screenshare /\ config.conference
        starving == Starving(legacy, config.codec \in {"VP8", "H264"}, config.streams, trials)
    IN  /\ DOMAIN base = 1 .. m
        /\ \A i \in 1 .. m : /\ base[i] \in Layer /\ base[i].target <= base[i].max
                             /\ Ordered(base[i]) \/ Excused(base, i, starving, trials)
        /\ ~legacy => /\ FindRequiredActiveLayers(config) <= m
                      /\ \A i \in 2 .. m : NestAt(base, i, trials.exponent \notin 0 .. m - 2)

\* What there is to start from (GetSimulcastConfig).
LEMMA FirstLayersAre ==
    ASSUME NEW width \in Nat, NEW height \in Nat, NEW config \in Configs, NEW trials \in TrialSets
    PROVE  \E m \in 1 .. config.streams :
               AreBase(FirstLayers(width, height, config, trials), m, config, trials)
<1> DEFINE count == config.streams
           need == FindRequiredActiveLayers(config)
           legacy == config.screenshare /\ config.conference
           temporal == config.codec \in {"VP8", "H264"}
           base == FirstLayers(width, height, config, trials)
           m == LimitSimulcastLayerCount(width, height, need, count, trials)
           Width(s) == NormalizeSimulcastSize(width, m, trials) \div (2 ^ (m - s))
           Height(s) == NormalizeSimulcastSize(height, m, trials) \div (2 ^ (m - s))
           starving == Starving(legacy, temporal, count, trials)
           Goal(k) == /\ DOMAIN base = 1 .. k
                      /\ \A i \in 1 .. k : /\ base[i] \in Layer /\ base[i].target <= base[i].max
                                           /\ Ordered(base[i]) \/ Excused(base, i, starving, trials)
                      /\ ~legacy => /\ need <= k
                                    /\ \A i \in 2 .. k :
                                           NestAt(base, i, trials.exponent \notin 0 .. k - 2)
<1> SUFFICES \E k \in 1 .. count : Goal(k)
  BY Zenon DEF AreBase
<1>1. count \in 1 .. 3 /\ need \in 0 .. count
  BY RequiredIs
<1>2. temporal \in BOOLEAN
  OBVIOUS
<1>3. base = GetSimulcastConfig(need, count, width, height, legacy, temporal, trials)
  BY DEF FirstLayers
<1> HIDE DEF need, count, temporal, base
<1>4. CASE legacy
  <2> DEFINE screens == GetScreenshareLayers(count, width, height, temporal, trials)
  <2>1. base = screens
    BY <1>3, <1>4 DEF GetSimulcastConfig
  <2>2. PICK k \in 1 .. count :
            /\ screens \in Seq(Layer) /\ Len(screens) = k
            /\ \A i \in 1 .. k :
                   IsScreen(screens[i], i, Starving(TRUE, temporal, count, trials))
    BY <1>1, <1>2, ScreenLayersAre, Zenon
  <2> HIDE DEF screens
  <2>3. DOMAIN base = 1 .. k /\ \A i \in 1 .. k : base[i] \in Layer
    BY <2>1, <2>2
  <2>4. Starving(legacy, temporal, count, trials) <=> Starving(TRUE, temporal, count, trials)
    BY <1>4 DEF Starving
  <2>5. Goal(k)
    BY <1>4, <2>1, <2>2, <2>3, <2>4 DEF IsScreen, Excused
  <2> QED BY <2>2, <2>5
<1>5. CASE ~legacy
  <2>1. m \in 1 .. count /\ need <= m
    BY <1>1, LimitIs
  <2>2. base = [s \in 1 .. m |-> NormalLayer(Width(s), Height(s), s = 1, temporal, trials)]
    BY <1>3, <1>5 DEF GetSimulcastConfig, GetNormalSimulcastLayers
  <2>3. m \in 1 .. 3
    BY <1>1, <2>1
  <2> DEFINE exact == trials.exponent \notin 0 .. m - 2
  <2> HIDE DEF m
  <2>4. /\ \A s \in 1 .. m : Width(s) \in Nat /\ Height(s) \in Nat
        /\ \A s \in 2 .. m : /\ Width(s) \div 2 = Width(s - 1)
                             /\ Height(s) \div 2 = Height(s - 1)
                             /\ exact => /\ Width(s) = 2 * Width(s - 1)
                                         /\ Height(s) = 2 * Height(s - 1)
    BY <2>3, SizesNest
  <2> HIDE DEF Width, Height, exact
  <2>5. ASSUME NEW s \in 1 .. m
        PROVE  /\ base[s] \in Layer /\ Ordered(base[s]) /\ base[s].target <= base[s].max
               /\ base[s].width = Width(s) /\ base[s].height = Height(s)
    <3> DEFINE lowest == s = 1
               layer == NormalLayer(Width(s), Height(s), lowest, temporal, trials)
    <3>1. base[s] = layer
      BY <2>2
    <3>2. Width(s) \in Nat /\ Height(s) \in Nat /\ lowest \in BOOLEAN
      BY <2>4
    <3> HIDE DEF lowest
    <3>3. layer \in Layer /\ Ordered(layer) /\ layer.width = Width(s) /\ layer.height = Height(s)
      BY <1>2, <3>2, NormalLayerIs
    <3>4. layer.target <= layer.max
      BY <3>3 DEF Ordered
    <3> QED BY <3>1, <3>3, <3>4
  <2>6. ASSUME NEW i \in 2 .. m PROVE NestAt(base, i, exact)
    <3>1. i \in 1 .. m /\ i - 1 \in 1 .. m
      BY <2>3
    <3> QED BY <2>4, <2>5, <3>1 DEF NestAt
  <2>7. Goal(m)
    BY <1>5, <2>1, <2>2, <2>5, <2>6 DEF exact
  <2> QED BY <2>1, <2>7
<1> QED BY <1>4, <1>5

\* The same with an experiment's minimum: the lowest layer may be excused.
LEMMA BaseLayersAre ==
    ASSUME NEW width \in Nat, NEW height \in Nat, NEW config \in Configs, NEW trials \in TrialSets
    PROVE  \E m \in 1 .. config.streams :
               AreBase(BaseLayers(width, height, config, trials), m, config, trials)
<1> DEFINE count == config.streams
           need == FindRequiredActiveLayers(config)
           legacy == config.screenshare /\ config.conference
           starving == Starving(legacy, config.codec \in {"VP8", "H264"}, count, trials)
           base == BaseLayers(width, height, config, trials)
           given == FirstLayers(width, height, config, trials)
           exact(m) == trials.exponent \notin 0 .. m - 2
<1>1. PICK m \in 1 .. count :
          /\ DOMAIN given = 1 .. m
          /\ \A i \in 1 .. m : /\ given[i] \in Layer /\ given[i].target <= given[i].max
                               /\ Ordered(given[i]) \/ Excused(given, i, starving, trials)
          /\ ~legacy => need <= m /\ \A i \in 2 .. m : NestAt(given, i, exact(m))
  BY FirstLayersAre, Zenon DEF AreBase
<1>2. base = IF trials.minimum >= 0 THEN [given EXCEPT ![1].min = trials.minimum] ELSE given
  BY DEF BaseLayers, WithMinimum
<1>3. trials.minimum \in Nat \cup {-1} /\ count \in 1 .. 3
  BY ConfigsAssumption
<1> HIDE DEF given, base, starving, exact, count, legacy, need
<1>4. CASE ~(trials.minimum >= 0)
  <2>1. base = given
    BY <1>2, <1>4
  <2>2. AreBase(base, m, config, trials)
    BY <1>1, <2>1 DEF AreBase, starving, exact, count, legacy, need
  <2> QED BY <2>2 DEF base, count
<1>5. CASE trials.minimum >= 0
  <2> DEFINE least == trials.minimum
             one == given[1]
  <2>1. 1 \in 1 .. m /\ least \in Nat /\ one \in Layer /\ one.target <= one.max
    BY <1>1, <1>3, <1>5
  <2>2. /\ DOMAIN base = 1 .. m /\ base[1] = [one EXCEPT !.min = least]
        /\ \A i \in 1 .. m : i # 1 => base[i] = given[i]
    BY <1>1, <1>2, <1>5, <2>1
  <2> HIDE DEF least
  <2>3. /\ base[1] \in Layer /\ base[1].min = least /\ base[1].target = one.target
        /\ base[1].max = one.max /\ base[1].width = one.width /\ base[1].height = one.height
    BY <2>1, <2>2 DEF Layer
  <2>4. Ordered(base[1]) \/ Excused(base, 1, starving, trials)
    <3>1. one.target \in Nat
      BY <2>1 DEF Layer
    <3> HIDE DEF one
    <3> QED BY <2>1, <2>3, <3>1 DEF Ordered, Excused, least
  <2>5. \A i \in 1 .. m : /\ base[i] \in Layer /\ base[i].target <= base[i].max
                          /\ base[i].width = given[i].width /\ base[i].height = given[i].height
                          /\ Ordered(base[i]) \/ Excused(base, i, starving, trials)
    <3>1. \A i \in 1 .. m : i # 1 => Ordered(base[i]) \/ Excused(base, i, starving, trials)
      BY <1>1, <2>2 DEF Excused
    <3> QED BY <1>1, <2>1, <2>2, <2>3, <2>4, <3>1
  <2>6. ASSUME ~legacy, NEW i \in 2 .. m PROVE NestAt(base, i, exact(m))
    <3>1. i \in 1 .. m /\ i - 1 \in 1 .. m
      BY <1>3
    <3>2. NestAt(given, i, exact(m))
      BY <1>1, <2>6
    <3> QED BY <2>5, <3>1, <3>2 DEF NestAt
  <2>7. AreBase(base, m, config, trials)
    BY <1>1, <2>2, <2>5, <2>6 DEF AreBase, starving, exact, count, legacy, need
  <2> QED BY <2>7 DEF base, count
<1> QED BY <1>4, <1>5

\* What an application may configure for a stream.
Wanted == [active : BOOLEAN, min : Nat, max : Nat, tl : Nat, fps : Nat, mode : Int,
           scale : Nat]

\* The application sets no rate.
IsBare(wanted) == wanted.min = 0 /\ wanted.max = 0

\* A minimum or maximum of the application puts the rates in order, and without
\* either the layer stays as it was.
LEMMA ConfiguredIs ==
    ASSUME NEW layer \in Layer, NEW wanted \in Wanted,
           wanted.max > 0 => wanted.min <= wanted.max
    PROVE  LET set == Configured(layer, wanted)
           IN  /\ set \in Layer /\ set.active = layer.active
               /\ set.width = layer.width /\ set.height = layer.height
               /\ layer.target <= layer.max =>
                      set.target <= set.max /\ (Ordered(set) \/ IsBare(wanted))
               /\ IsBare(wanted) => set = layer
<1> DEFINE min == IF wanted.min > 0 THEN wanted.min ELSE layer.min
           max == IF wanted.max > 0 THEN wanted.max ELSE layer.max
           most == (max * 3) \div 4
           low == MinOf(min, max)
           set == Configured(layer, wanted)
           Is(one) == /\ one \in Layer /\ one.active = layer.active
                      /\ one.width = layer.width /\ one.height = layer.height
                      /\ layer.target <= layer.max =>
                             one.target <= one.max /\ (Ordered(one) \/ IsBare(wanted))
                      /\ IsBare(wanted) => one = layer
<1> SUFFICES Is(set)
  OBVIOUS
<1>1. /\ layer.min \in Nat /\ layer.target \in Nat /\ layer.max \in Nat
      /\ wanted.min \in Nat /\ wanted.max \in Nat
  BY DEF Layer, Wanted
<1> DEFINE both == [layer EXCEPT !.min = min, !.max = max,
                                 !.target = IF most < min THEN max ELSE most]
           floor == [layer EXCEPT !.min = min, !.max = MaxOf(max, min), !.target = MaxOf(@, min)]
           cap == [layer EXCEPT !.min = low, !.max = max,
                                !.target = MaxOf(MinOf(MaxOf(@, most), max), low)]
<1>2. set = CASE wanted.min > 0 /\ wanted.max > 0 -> both
              [] wanted.min > 0 /\ wanted.max <= 0 -> floor
              [] wanted.min <= 0 /\ wanted.max > 0 -> cap
              [] OTHER -> layer
  BY DEF Configured
<1>3. /\ wanted.min > 0 /\ wanted.max > 0 => set = both
      /\ wanted.min > 0 /\ wanted.max <= 0 => set = floor
      /\ wanted.min <= 0 /\ wanted.max > 0 => set = cap
  <2> HIDE DEF set, both, floor, cap
  <2> QED BY <1>1, <1>2
<1>4. ASSUME NEW a \in Nat, NEW b \in Nat, NEW c \in Nat,
             set = [layer EXCEPT !.min = a, !.max = b, !.target = c],
             layer.target <= layer.max => a <= c /\ c <= b, ~IsBare(wanted)
      PROVE  Is(set)
  <2> HIDE DEF set
  <2>1. set \in Layer /\ set.min = a /\ set.max = b /\ set.target = c
    BY <1>4 DEF Layer
  <2>2. set.active = layer.active /\ set.width = layer.width /\ set.height = layer.height
    BY <1>4 DEF Layer
  <2> QED BY <1>4, <2>1, <2>2 DEF Ordered
<1>5. CASE wanted.min > 0 /\ wanted.max > 0
  <2> DEFINE c == IF most < min THEN max ELSE most
  <2>1. set = [layer EXCEPT !.min = min, !.max = max, !.target = c]
    BY <1>3, <1>5
  <2>4. ~IsBare(wanted)
    BY <1>5 DEF IsBare
  <2>2. min = wanted.min /\ max = wanted.max /\ min <= max /\ min \in Nat /\ max \in Nat
    BY <1>1, <1>5
  <2> HIDE DEF min, max, set
  <2>3. c \in Nat /\ min <= c /\ c <= max
    BY <2>2
  <2> HIDE DEF c
  <2> QED BY <1>4, <2>1, <2>2, <2>3, <2>4
<1>6. CASE wanted.min > 0 /\ wanted.max <= 0
  <2> DEFINE b == MaxOf(max, min)
             c == MaxOf(layer.target, min)
  <2>1. set = [layer EXCEPT !.min = min, !.max = b, !.target = c]
    BY <1>3, <1>6
  <2>4. ~IsBare(wanted)
    BY <1>6 DEF IsBare
  <2>2. min \in Nat /\ max \in Nat /\ max = layer.max
    BY <1>1, <1>6
  <2> HIDE DEF min, max, set
  <2>3. b \in Nat /\ c \in Nat /\ (layer.target <= layer.max => min <= c /\ c <= b)
    BY <1>1, <2>2 DEF MaxOf
  <2> HIDE DEF b, c
  <2> QED BY <1>4, <2>1, <2>2, <2>3, <2>4
<1>7. CASE wanted.min <= 0 /\ wanted.max > 0
  <2> DEFINE c == MaxOf(MinOf(MaxOf(layer.target, most), max), low)
  <2>1. set = [layer EXCEPT !.min = low, !.max = max, !.target = c]
    BY <1>3, <1>7
  <2>4. ~IsBare(wanted)
    BY <1>7 DEF IsBare
  <2>2. min \in Nat /\ max \in Nat
    BY <1>1
  <2> HIDE DEF min, max, set
  <2>3. low \in Nat /\ c \in Nat /\ low <= c /\ c <= max
    BY <1>1, <2>2 DEF MaxOf, MinOf
  <2> HIDE DEF c, low
  <2> QED BY <1>4, <2>1, <2>2, <2>3, <2>4
<1>8. CASE wanted.min <= 0 /\ wanted.max <= 0
  <2>1. set = layer
    BY <1>1, <1>8 DEF Configured
  <2>2. IsBare(wanted)
    BY <1>1, <1>8 DEF IsBare
  <2> HIDE DEF set
  <2> QED BY <2>1, <2>2
<1> HIDE DEF set, both, floor, cap, Is
<1> QED BY <1>1, <1>5, <1>6, <1>7, <1>8

\* The rates of layer i are in order unless it is excused, and the application
\* has set none for it.
InOrderAt(layers, i, config, trials) ==
    LET starving == Starving(config.screenshare /\ config.conference,
                             config.codec \in {"VP8", "H264"}, config.streams, trials)
    IN  \/ Ordered(layers[i])
        \/ IsBare(config.layers[i]) /\ Excused(layers, i, starving, trials)

\* Layers as the application has configured them: m of them, no fewer than are
\* required, and nested where no scale factor says otherwise.
AreAdjusted(layers, m, config, trials) ==
    LET legacy == config.screenshare /\ config.conference
    IN  /\ layers = [i \in 1 .. m |-> layers[i]]
        /\ \A i \in 1 .. m : /\ layers[i] \in Layer /\ layers[i].target <= layers[i].max
                             /\ layers[i].active = config.layers[i].active
                             /\ InOrderAt(layers, i, config, trials)
        /\ ~legacy => FindRequiredActiveLayers(config) <= m
        /\ ~legacy /\ (\A i \in DOMAIN config.layers : config.layers[i].scale = 0)
               => \A i \in 2 .. m : NestAt(layers, i, trials.exponent \notin 0 .. m - 2)

\* The layers as they are configured (AdjustedLayers).
LEMMA AdjustedAre ==
    ASSUME NEW width \in Nat, NEW height \in Nat, NEW config \in Configs, NEW trials \in TrialSets
    PROVE  \E m \in 1 .. config.streams :
               AreAdjusted(AdjustedLayers(width, height, config, trials), m, config, trials)
<1> DEFINE count == config.streams
           legacy == config.screenshare /\ config.conference
           temporal == config.codec \in {"VP8", "H264"}
           starving == Starving(legacy, temporal, count, trials)
           base == BaseLayers(width, height, config, trials)
           scaled == \E i \in DOMAIN config.layers : config.layers[i].scale # 0
           Norm(size) == IF ~scaled \/ IsScaleFactorsPowerOfTwo(config) \/ trials.exponent >= 0
                         THEN NormalizeSimulcastSize(size, count, trials) ELSE size
           Sized(layer, wanted) ==
               IF ~scaled THEN layer
               ELSE [layer EXCEPT !.width = Scaled(Norm(width), wanted),
                                  !.height = Scaled(Norm(height), wanted)]
           Given(layer, wanted) ==
               [layer EXCEPT !.active = wanted.active,
                             !.tl = IF wanted.tl > 0 /\ IsTemporalLayersSupported(config.codec)
                                    THEN wanted.tl ELSE @,
                             !.fps = IF wanted.fps > 0 THEN wanted.fps ELSE @]
           Wants(i) == config.layers[i]
           layers == AdjustedLayers(width, height, config, trials)
           exact(m) == trials.exponent \notin 0 .. m - 2
           need == FindRequiredActiveLayers(config)
           SameRates(one, other) == one.min = other.min /\ one.target = other.target
                                    /\ one.max = other.max
           SameSize(one, other) == one.width = other.width /\ one.height = other.height
<1>1. PICK m \in 1 .. count :
          /\ DOMAIN base = 1 .. m
          /\ \A i \in 1 .. m : /\ base[i] \in Layer /\ base[i].target <= base[i].max
                               /\ Ordered(base[i]) \/ Excused(base, i, starving, trials)
          /\ ~legacy => need <= m /\ \A i \in 2 .. m : NestAt(base, i, exact(m))
  BY BaseLayersAre, Zenon DEF AreBase
<1>2. layers = [i \in DOMAIN base |->
                    Configured(Sized(Given(base[i], Wants(i)), Wants(i)), Wants(i))]
  BY DEF AdjustedLayers, BaseLayers, FirstLayers
<1>3. /\ count \in 1 .. 3 /\ 1 .. count \subseteq DOMAIN config.layers
      /\ \A i \in 1 .. count :
             Wants(i) \in Wanted /\ (Wants(i).max > 0 => Wants(i).min <= Wants(i).max)
  <2>1. /\ config.layers \in Seq(Wanted) /\ count \in 1 .. 3
        /\ \A i \in DOMAIN config.layers :
               config.layers[i].max > 0 => config.layers[i].min <= config.layers[i].max
        /\ Len(config.layers) \in Nat /\ count <= Len(config.layers)
        /\ DOMAIN config.layers = 1 .. Len(config.layers)
    BY ConfigsAssumption, RequiredIs DEF Wanted
  <2>2. 1 .. count \subseteq DOMAIN config.layers
    BY <2>1
  <2>3. \A i \in DOMAIN config.layers : config.layers[i] \in Wanted
    BY <2>1
  <2> QED BY <2>1, <2>2, <2>3
<1>4. \A size \in Nat : Norm(size) \in Nat
  <2>1. \A size \in Nat : NormalizeSimulcastSize(size, count, trials) \in Nat
    BY <1>3, SizesNest
  <2> QED BY <2>1
<1> HIDE DEF base, layers, count, Norm, scaled, temporal, need, exact
<1>5. ASSUME NEW layer \in Layer, NEW wanted \in Wanted
      PROVE  /\ Given(layer, wanted) \in Layer
             /\ Given(layer, wanted).active = wanted.active
             /\ SameRates(Given(layer, wanted), layer)
             /\ SameSize(Given(layer, wanted), layer)
  BY DEF Layer, Wanted
<1>6. ASSUME NEW layer \in Layer, NEW wanted \in Wanted
      PROVE  /\ Sized(layer, wanted) \in Layer
             /\ Sized(layer, wanted).active = layer.active
             /\ ~scaled => Sized(layer, wanted) = layer
             /\ SameRates(Sized(layer, wanted), layer)
  <2>1. \A size \in Nat : Scaled(size, wanted) \in Nat
    BY DEF Scaled, Scale, MaxOf, kMinLayerSize, Wanted
  <2>2. Scaled(Norm(width), wanted) \in Nat /\ Scaled(Norm(height), wanted) \in Nat
    BY <1>4, <2>1
  <2> QED BY <2>2 DEF Layer
<1> HIDE DEF Given, Sized, Wants, starving
<1>7. ASSUME NEW i \in 1 .. m
      PROVE  /\ layers[i] \in Layer /\ layers[i].active = Wants(i).active
             /\ layers[i].target <= layers[i].max
             /\ Ordered(layers[i]) \/ (IsBare(Wants(i)) /\ Excused(layers, i, starving, trials))
             /\ ~scaled => SameSize(layers[i], base[i])
  <2> DEFINE sized == Sized(Given(base[i], Wants(i)), Wants(i))
             set == Configured(sized, Wants(i))
  <2>1. base[i] \in Layer /\ Wants(i) \in Wanted
    BY <1>1, <1>3
  <2>2. /\ sized \in Layer /\ sized.active = Wants(i).active
        /\ SameRates(sized, base[i])
        /\ ~scaled => SameSize(sized, base[i])
    BY <1>5, <1>6, <2>1
  <2>3. layers[i] = set
    BY <1>1, <1>2
  <2>4. Wants(i).max > 0 => Wants(i).min <= Wants(i).max
    BY <1>1, <1>3
  <2> HIDE DEF sized
  <2>5. /\ set \in Layer /\ set.active = sized.active /\ SameSize(set, sized)
        /\ sized.target <= sized.max =>
               set.target <= set.max /\ (Ordered(set) \/ IsBare(Wants(i)))
        /\ IsBare(Wants(i)) => set = sized
    BY <2>1, <2>2, <2>4, ConfiguredIs
  <2> HIDE DEF set
  <2>6. sized.target <= sized.max
    BY <1>1, <2>2
  <2>7. ASSUME IsBare(Wants(i)), ~Ordered(set) PROVE Excused(layers, i, starving, trials)
    <3>1. SameRates(layers[i], base[i])
      BY <2>2, <2>3, <2>5, <2>7
    <3>2. ~Ordered(base[i])
      BY <2>3, <2>7, <3>1 DEF Ordered
    <3>3. Excused(base, i, starving, trials)
      BY <1>1, <3>2
    <3> QED BY <3>1, <3>3 DEF Excused
  <2>8. Ordered(layers[i]) \/ (IsBare(Wants(i)) /\ Excused(layers, i, starving, trials))
    BY <2>3, <2>5, <2>6, <2>7
  <2> QED BY <2>2, <2>3, <2>5, <2>6, <2>8
<1>8. layers = [i \in 1 .. m |-> layers[i]]
  BY <1>1, <1>2
<1>9. (\A i \in DOMAIN config.layers : config.layers[i].scale = 0) => ~scaled
  BY DEF scaled
<1>10. ASSUME ~legacy, ~scaled, NEW i \in 2 .. m PROVE NestAt(layers, i, exact(m))
  <2>1. i \in 1 .. m /\ i - 1 \in 1 .. m
    BY <1>3
  <2>2. NestAt(base, i, exact(m))
    BY <1>1, <1>10
  <2>3. SameSize(layers[i], base[i]) /\ SameSize(layers[i - 1], base[i - 1])
    BY <1>7, <1>10, <2>1
  <2> QED BY <2>2, <2>3 DEF NestAt
<1>11. AreAdjusted(layers, m, config, trials)
  BY <1>1, <1>7, <1>8, <1>9, <1>10
  DEF AreAdjusted, InOrderAt, Wants, starving, temporal, count, exact, need
<1> QED BY <1>11 DEF layers, count

\* A list of layers.
AreLayers(layers, n) ==
    layers = [i \in 1 .. n |-> layers[i]] /\ \A i \in 1 .. n : layers[i] \in Layer

\* The order by maximum rate has every layer at one place.
LEMMA ByRateIs ==
    ASSUME NEW n \in Nat, n > 0, NEW layers, AreLayers(layers, n)
    PROVE  LET index == ByMaxBitrate(layers)
           IN  /\ DOMAIN index = 1 .. n /\ \A k \in 1 .. n : index[k] \in 1 .. n
               /\ \A i \in 1 .. n : layers[index[1]].max <= layers[i].max
<1> DEFINE S == 1 .. n
           Rate(i) == layers[i].max
           order == {pair \in S \X S : \/ Rate(pair[1]) < Rate(pair[2])
                                       \/ Rate(pair[1]) = Rate(pair[2]) /\ pair[1] < pair[2]}
           At(i) == InOrder(S, order, i)
           index == ByMaxBitrate(layers)
<1>1. DOMAIN layers = S /\ \A i \in S : Rate(i) \in Nat
  BY DEF AreLayers, Layer
<1>2. index = [i \in S |-> At(i)]
  BY <1>1 DEF ByMaxBitrate
<1> HIDE DEF Rate, index
<1>3. \A x, y \in S : <<x, y>> \in order <=> \/ Rate(x) < Rate(y)
                                             \/ Rate(x) = Rate(y) /\ x < y
  OBVIOUS
<1>4. IsFiniteSet(S) /\ Cardinality(S) = n
  BY FS_Interval
<1> HIDE DEF order
<1>5. /\ \A x \in S : <<x, x>> \notin order
      /\ \A x, y, z \in S : <<x, y>> \in order /\ <<y, z>> \in order => <<x, z>> \in order
      /\ \A x, y \in S : x = y \/ <<x, y>> \in order \/ <<y, x>> \in order
  BY <1>1, <1>3
<1> HIDE DEF S
<1>6. /\ \A k \in 1 .. n : At(k) \in S
      /\ \A j, k \in 1 .. n : j < k => <<At(j), At(k)>> \in order
      /\ \A x \in S : \E k \in 1 .. n : At(k) = x
  BY <1>4, <1>5, Ranked
<1> HIDE DEF At
<1>7. 1 \in 1 .. n /\ S = 1 .. n
  BY DEF S
<1>8. ASSUME NEW i \in 1 .. n PROVE Rate(index[1]) <= Rate(i)
  <2>1. PICK k \in 1 .. n : At(k) = i
    BY <1>6, <1>7
  <2>2. k = 1 \/ 1 < k
    OBVIOUS
  <2>3. At(1) = i \/ <<At(1), i>> \in order
    BY <1>6, <1>7, <2>1, <2>2
  <2>4. At(1) \in S /\ i \in S /\ Rate(At(1)) \in Nat /\ Rate(i) \in Nat
    BY <1>1, <1>6, <1>7
  <2>5. <<At(1), i>> \in order => Rate(At(1)) <= Rate(i)
    <3>1. <<At(1), i>> \in order => Rate(At(1)) < Rate(i) \/ Rate(At(1)) = Rate(i)
      BY <1>3, <2>4, Zenon
    <3> QED BY <2>4, <3>1
  <2>6. Rate(At(1)) <= Rate(i)
    BY <2>3, <2>4, <2>5
  <2> QED BY <1>2, <1>7, <2>6
<1> QED BY <1>2, <1>6, <1>7, <1>8 DEF Rate, index

\* The order depends on nothing but the maximum rates.
LEMMA SameOrder ==
    ASSUME NEW layers, NEW others, DOMAIN layers = DOMAIN others,
           \A i \in DOMAIN layers : layers[i].max = others[i].max
    PROVE  ByMaxBitrate(layers) = ByMaxBitrate(others)
<1> DEFINE S == DOMAIN layers
           Rise(list) == {pair \in S \X S : \/ list[pair[1]].max < list[pair[2]].max
                                            \/ /\ list[pair[1]].max = list[pair[2]].max
                                               /\ pair[1] < pair[2]}
<1>1. Rise(layers) = Rise(others)
  <2>1. \A pair \in S \X S : layers[pair[1]].max = others[pair[1]].max
                             /\ layers[pair[2]].max = others[pair[2]].max
    OBVIOUS
  <2> QED BY <2>1
<1>2. /\ ByMaxBitrate(layers) = [k \in S |-> InOrder(S, Rise(layers), k)]
      /\ ByMaxBitrate(others) = [k \in S |-> InOrder(S, Rise(others), k)]
  BY DEF ByMaxBitrate
<1> HIDE DEF Rise
<1> QED BY <1>1, <1>2

\* A layer has the minimum of another, which fits if it fits there.
IsFrom(layer, giver) ==
    layer.min = giver.min /\ (Ordered(giver) => layer.min <= layer.max)

\* The first active layer gets the minimum of the lowest, and nothing else
\* changes.
LEMMA HandedDown ==
    ASSUME NEW n \in Nat, n > 0, NEW layers, AreLayers(layers, n)
    PROVE  LET handed == HandDownMinimum(layers)
               index  == ByMaxBitrate(layers)
               active == {k \in 1 .. n : handed[index[k]].active}
           IN  /\ AreLayers(handed, n) /\ ByMaxBitrate(handed) = index
               /\ \A i \in 1 .. n : /\ handed[i].width = layers[i].width
                                    /\ handed[i].height = layers[i].height
                                    /\ handed[i].active = layers[i].active
                                    /\ handed[i].target = layers[i].target
                                    /\ handed[i].max = layers[i].max
               /\ layers[index[1]].active => handed = layers
               /\ \A i \in 1 .. n : \E k \in {i, index[1]} : IsFrom(handed[i], layers[k])
               /\ active # {} => handed[index[Min(active)]].min <= handed[index[1]].min
<1> DEFINE handed == HandDownMinimum(layers)
           index == ByMaxBitrate(layers)
           before == {k \in 1 .. n : layers[index[k]].active}
           active == {k \in 1 .. n : handed[index[k]].active}
           first == Min(before)
           where == index[first]
           least == layers[index[1]].min
<1>1. /\ DOMAIN index = 1 .. n /\ \A k \in 1 .. n : index[k] \in 1 .. n
      /\ \A i \in 1 .. n : layers[index[1]].max <= layers[i].max
  BY ByRateIs
<1>2. /\ DOMAIN layers = 1 .. n
      /\ \A i \in 1 .. n : /\ layers[i] \in Layer /\ layers[i].min \in Nat
                           /\ layers[i].target \in Nat /\ layers[i].max \in Nat
  BY DEF AreLayers, Layer
<1>3. handed = IF 1 \in before \/ before = {} THEN layers
               ELSE [layers EXCEPT ![where].min = least]
  BY <1>1 DEF HandDownMinimum, Min
<1>4. 1 \in 1 .. n /\ index[1] \in 1 .. n
  BY <1>1
<1> HIDE DEF index, handed
<1>5. before # {} => first \in before /\ where \in 1 .. n /\ \A k \in before : first <= k
  <2>1. before \in SUBSET Nat
    OBVIOUS
  <2>2. before # {} => \E x \in before : \A y \in before : x <= y
    BY <2>1, LeastNumber
  <2>3. before # {} => first \in before /\ \A k \in before : first <= k
    BY <2>2 DEF Min
  <2> QED BY <1>1, <2>3
<1> HIDE DEF first
<1>6. CASE 1 \in before \/ before = {}
  <2>1. handed = layers /\ active = before
    BY <1>3, <1>6
  <2>2. active # {} => first = 1
    <3> SUFFICES ASSUME active # {} PROVE first = 1
      OBVIOUS
    <3>1. 1 \in before /\ first \in before /\ first <= 1
      BY <1>5, <1>6, <2>1
    <3> QED BY <3>1
  <2>3. active # {} => handed[index[Min(active)]].min <= handed[index[1]].min
    BY <1>2, <1>4, <2>1, <2>2 DEF first
  <2>4. \A i \in 1 .. n : IsFrom(handed[i], layers[i])
    BY <1>2, <2>1 DEF Ordered, IsFrom
  <2> HIDE DEF active
  <2> QED BY <2>1, <2>3, <2>4 DEF handed, index, active
<1>7. CASE ~(1 \in before \/ before = {})
  <2>1. handed = [layers EXCEPT ![where].min = least] /\ where \in 1 .. n /\ least \in Nat
    BY <1>2, <1>3, <1>4, <1>5, <1>7
  <2>2. /\ DOMAIN handed = 1 .. n /\ handed = [i \in 1 .. n |-> handed[i]]
        /\ \A i \in 1 .. n : i # where => handed[i] = layers[i]
        /\ handed[where] = [layers[where] EXCEPT !.min = least]
    BY <1>2, <2>1
  <2>3. /\ handed[where] \in Layer /\ handed[where].min = least
        /\ handed[where].width = layers[where].width
        /\ handed[where].height = layers[where].height
        /\ handed[where].active = layers[where].active
        /\ handed[where].target = layers[where].target
        /\ handed[where].max = layers[where].max
    BY <1>2, <2>1, <2>2 DEF Layer
  <2>4. \A i \in 1 .. n : /\ handed[i] \in Layer
                          /\ handed[i].width = layers[i].width
                          /\ handed[i].height = layers[i].height
                          /\ handed[i].active = layers[i].active
                          /\ handed[i].target = layers[i].target
                          /\ handed[i].max = layers[i].max
    BY <1>2, <2>2, <2>3
  <2>5. AreLayers(handed, n)
    BY <2>2, <2>4 DEF AreLayers
  <2>6. ByMaxBitrate(handed) = index
    BY <1>2, <2>2, <2>4, SameOrder DEF index
  <2>7. ~layers[index[1]].active
    BY <1>4, <1>7
  <2>8. ASSUME NEW i \in 1 .. n PROVE \E k \in {i, index[1]} : IsFrom(handed[i], layers[k])
    <3>1. CASE i = where
      <4>1. layers[index[1]].max <= layers[i].max /\ layers[index[1]].min = least
        BY <1>1
      <4>2. handed[i].min = least /\ handed[i].max = layers[i].max
        BY <2>3, <3>1
      <4> HIDE DEF least
      <4>3. IsFrom(handed[i], layers[index[1]])
        BY <1>2, <1>4, <2>1, <4>1, <4>2 DEF Ordered, IsFrom
      <4> QED BY <4>3
    <3>2. CASE i # where
      <4>1. handed[i] = layers[i]
        BY <2>2, <3>2
      <4>2. IsFrom(handed[i], layers[i])
        BY <1>2, <4>1 DEF Ordered, IsFrom
      <4> QED BY <4>2
    <3> QED BY <3>1, <3>2
  <2>9. active = before
    BY <1>1, <2>4
  <2>10. handed[index[first]].min = least /\ handed[index[1]].min = least
    BY <1>4, <2>2, <2>3
  <2>11. handed[index[Min(active)]].min <= handed[index[1]].min
    <3>1. Min(active) = first
      BY <2>9 DEF first
    <3> HIDE DEF active, least
    <3> QED BY <2>1, <2>10, <3>1
  <2> HIDE DEF active, where
  <2> QED BY <2>4, <2>5, <2>6, <2>7, <2>8, <2>11 DEF handed, index, active
<1> QED BY <1>6, <1>7

\* The total of a list is a number, and only targets and the highest maximum
\* count.
LEMMA TotalIs ==
    ASSUME NEW n \in Nat, n > 0, NEW layers, AreLayers(layers, n)
    PROVE  /\ Len(layers) = n
           /\ GetTotalMaxBitrate(layers) =
                  SumOf([i \in 1 .. n - 1 |-> layers[i].target]) + layers[n].max
           /\ SumOf([i \in 1 .. n - 1 |-> layers[i].target]) \in Int /\ layers[n].max \in Nat
<1> DEFINE targets == [i \in 1 .. n - 1 |-> layers[i].target]
<1>1. Len(layers) = n
  BY DEF AreLayers
<1>2. GetTotalMaxBitrate(layers) = SumOf(targets) + layers[n].max
  BY <1>1 DEF GetTotalMaxBitrate
<1>3. /\ \A i \in 1 .. n : layers[i].target \in Nat /\ layers[i].max \in Nat
      /\ n \in 1 .. n /\ \A i \in 1 .. n - 1 : i \in 1 .. n
  BY DEF AreLayers, Layer
<1>4. Len(targets) = n - 1 /\ n - 1 \in Nat /\ \A i \in 1 .. n - 1 : targets[i] \in Int
  BY <1>3
<1> HIDE DEF targets
<1>5. SumOf(targets) \in Int
  BY <1>4, SumIsNumber
<1> QED BY <1>1, <1>2, <1>3, <1>5 DEF targets

\* Lists with the same targets and the same highest maximum have one total.
LEMMA SameTotal ==
    ASSUME NEW n \in Nat, n > 0, NEW layers, NEW others, AreLayers(layers, n), AreLayers(others, n),
           \A i \in 1 .. n : layers[i].target = others[i].target /\ layers[i].max = others[i].max
    PROVE  GetTotalMaxBitrate(layers) = GetTotalMaxBitrate(others)
<1>1. [i \in 1 .. n - 1 |-> layers[i].target] = [i \in 1 .. n - 1 |-> others[i].target]
  <2>1. \A i \in 1 .. n - 1 : i \in 1 .. n
    OBVIOUS
  <2> QED BY <2>1
<1>2. layers[n].max = others[n].max
  OBVIOUS
<1> QED BY <1>1, <1>2, TotalIs

\* The minimum that is handed down takes nothing from the total.
LEMMA HandedDownTotal ==
    ASSUME NEW n \in Nat, n > 0, NEW layers, AreLayers(layers, n)
    PROVE  GetTotalMaxBitrate(HandDownMinimum(layers)) = GetTotalMaxBitrate(layers)
<1> DEFINE handed == HandDownMinimum(layers)
<1>1. /\ AreLayers(handed, n)
      /\ \A i \in 1 .. n : handed[i].target = layers[i].target /\ handed[i].max = layers[i].max
  BY HandedDown
<1> HIDE DEF handed
<1>2. GetTotalMaxBitrate(handed) = GetTotalMaxBitrate(layers)
  BY <1>1, SameTotal
<1> QED BY <1>2 DEF handed

\* What is left over goes to the highest layer.
LEMMA BoostedAre ==
    ASSUME NEW n \in Nat, n > 0, NEW layers, AreLayers(layers, n), NEW cap \in Nat
    PROVE  LET boosted == BoostMaxSimulcastLayer(cap, layers)
           IN  /\ AreLayers(boosted, n)
               /\ \A i \in 1 .. n : /\ boosted[i].width = layers[i].width
                                    /\ boosted[i].height = layers[i].height
                                    /\ boosted[i].active = layers[i].active
                                    /\ boosted[i].min = layers[i].min
                                    /\ boosted[i].target = layers[i].target
                                    /\ layers[i].max <= boosted[i].max
               /\ GetTotalMaxBitrate(boosted) = MaxOf(cap, GetTotalMaxBitrate(layers))
<1> DEFINE boosted == BoostMaxSimulcastLayer(cap, layers)
           total == GetTotalMaxBitrate(layers)
           left == cap - total
           Targets(list) == [i \in 1 .. n - 1 |-> list[i].target]
<1>1. /\ Len(layers) = n /\ total = SumOf(Targets(layers)) + layers[n].max
      /\ SumOf(Targets(layers)) \in Int /\ layers[n].max \in Nat
  BY TotalIs
<1>2. total \in Int
  <2> HIDE DEF Targets, total
  <2> QED BY <1>1
<1>3. boosted = IF left <= 0 THEN layers ELSE [layers EXCEPT ![n].max = @ + left]
  BY <1>1 DEF BoostMaxSimulcastLayer
<1>4. /\ DOMAIN layers = 1 .. n /\ n \in 1 .. n
      /\ \A i \in 1 .. n : layers[i] \in Layer
  BY DEF AreLayers
<1> HIDE DEF boosted, total
<1>5. CASE left <= 0
  <2>1. boosted = layers /\ total = MaxOf(cap, total)
    BY <1>3, <1>5, <1>2 DEF MaxOf
  <2>2. \A i \in 1 .. n : layers[i].max <= layers[i].max
    <3>1. \A i \in 1 .. n : layers[i].max \in Nat
      BY <1>4 DEF Layer
    <3> QED BY <3>1
  <2>3. AreLayers(boosted, n) /\ GetTotalMaxBitrate(boosted) = MaxOf(cap, total)
    BY <2>1 DEF total
  <2>4. \A i \in 1 .. n : /\ boosted[i].width = layers[i].width
                          /\ boosted[i].height = layers[i].height
                          /\ boosted[i].active = layers[i].active
                          /\ boosted[i].min = layers[i].min
                          /\ boosted[i].target = layers[i].target
                          /\ layers[i].max <= boosted[i].max
    BY <2>1, <2>2
  <2> QED BY <2>3, <2>4 DEF boosted, total
<1>6. CASE ~(left <= 0)
  <2> DEFINE more == layers[n].max + left
  <2>1. more \in Nat /\ more > layers[n].max /\ left \in Nat
    <3>1. layers[n].max \in Nat /\ cap - total \in Int
      BY <1>1, <1>2
    <3> HIDE DEF total
    <3> QED BY <1>6, <3>1
  <2>2. boosted = [layers EXCEPT ![n] = [layers[n] EXCEPT !.max = more]]
    BY <1>3, <1>4, <1>6
  <2> HIDE DEF more
  <2>3. /\ DOMAIN boosted = 1 .. n /\ boosted = [i \in 1 .. n |-> boosted[i]]
        /\ \A i \in 1 .. n : i # n => boosted[i] = layers[i]
        /\ boosted[n] = [layers[n] EXCEPT !.max = more]
    BY <1>4, <2>2
  <2>4. /\ boosted[n] \in Layer /\ boosted[n].max = more
        /\ boosted[n].width = layers[n].width /\ boosted[n].height = layers[n].height
        /\ boosted[n].active = layers[n].active
        /\ boosted[n].min = layers[n].min /\ boosted[n].target = layers[n].target
    BY <1>4, <2>1, <2>3 DEF Layer
  <2>5. \A i \in 1 .. n : layers[i].max <= boosted[i].max
    <3>1. \A i \in 1 .. n : layers[i].max \in Nat
      BY <1>4 DEF Layer
    <3> QED BY <2>1, <2>3, <2>4, <3>1
  <2>6. AreLayers(boosted, n)
    BY <1>4, <2>3, <2>4 DEF AreLayers
  <2>7. Targets(boosted) = Targets(layers)
    <3>1. \A i \in 1 .. n - 1 : i \in 1 .. n /\ i # n
      OBVIOUS
    <3> QED BY <2>3, <3>1
  <2>8. GetTotalMaxBitrate(boosted) = SumOf(Targets(boosted)) + boosted[n].max
    BY <2>6, TotalIs
  <2> HIDE DEF Targets
  <2>9. GetTotalMaxBitrate(boosted) = SumOf(Targets(layers)) + more
    BY <2>4, <2>7, <2>8
  <2>10. GetTotalMaxBitrate(boosted) = MaxOf(cap, total)
    BY <1>1, <1>6, <1>2, <2>9 DEF MaxOf, more
  <2> QED BY <2>3, <2>4, <2>5, <2>6, <2>10 DEF boosted, total
<1> QED BY <1>5, <1>6

\* The one stream of an encoder without simulcast.
LEMMA DefaultStreamIs ==
    ASSUME NEW width \in Nat, NEW height \in Nat, NEW config \in Configs, NEW trials \in TrialSets
    PROVE  LET streams == CreateDefaultVideoStreams(width, height, config, trials)
           IN  /\ DOMAIN streams = {1}
               /\ streams[1].min <= streams[1].target /\ streams[1].target = streams[1].max
               /\ streams[1].max \in Nat /\ streams[1].min \in Int
<1> DEFINE streams == CreateDefaultVideoStreams(width, height, config, trials)
           layer == config.layers[1]
           default == GetMaxDefaultVideoBitrateKbps(width, height, config.screenshare)
           cap == IF config.max > 0 THEN config.max ELSE MaxOf(layer.min, default)
           least == IF trials.minimum >= 0 THEN trials.minimum ELSE 30
           min == MinOf(IF layer.min > 0 THEN layer.min ELSE least, cap)
<1>1. config.max \in Nat /\ layer.min \in Nat
  <2>1. config.layers \in Seq(Wanted) /\ config.max \in Nat
    BY ConfigsAssumption DEF Wanted
  <2>2. Len(config.layers) \in Nat /\ Len(config.layers) >= 1
    <3>1. config.streams \in 1 .. 3 /\ config.streams <= Len(config.layers)
          /\ Len(config.layers) \in Nat
      BY RequiredIs
    <3> QED BY <3>1
  <2>3. layer \in Wanted
    BY <2>1, <2>2
  <2> QED BY <2>1, <2>3 DEF Wanted
<1>2. default \in Nat
  <2> DEFINE pixels == width * height
             max == IF pixels <= 320 * 240 THEN 600
                    ELSE IF pixels <= 640 * 480 THEN 1700
                    ELSE IF pixels <= 960 * 540 THEN 2000 ELSE 2500
  <2>1. default = IF config.screenshare THEN MaxOf(max, 1200) ELSE max
    BY DEF GetMaxDefaultVideoBitrateKbps
  <2>2. max \in Nat
    <3> HIDE DEF pixels
    <3> QED OBVIOUS
  <2> HIDE DEF max, default
  <2>3. MaxOf(max, 1200) \in Nat
    BY <2>2 DEF MaxOf
  <2> QED BY <2>1, <2>2, <2>3, Zenon
<1> HIDE DEF layer, default
<1>3. cap \in Nat
  BY <1>1, <1>2 DEF MaxOf
<1> HIDE DEF cap
<1>4. min \in Int /\ min <= cap
  <2>1. least \in Int
    BY ConfigsAssumption
  <2> HIDE DEF least
  <2> QED BY <1>1, <1>3, <2>1 DEF MinOf
<1> HIDE DEF min, least
<1>5. DOMAIN streams = {1}
  BY DEF CreateDefaultVideoStreams
<1>6. streams[1].min = min /\ streams[1].target = cap /\ streams[1].max = cap
  BY DEF CreateDefaultVideoStreams, min, least, cap, layer, default
<1> HIDE DEF streams
<1> QED BY <1>3, <1>4, <1>5, <1>6 DEF streams

\* The rates of stream i are in order, or it has the minimum of a layer for which
\* the application has set none and whose minimum is too high.
AreInOrder(streams, i, lowest, config, trials) ==
    \/ /\ streams[i].min <= streams[i].max
       /\ streams[lowest].active => streams[i].min <= streams[i].target
    \/ /\ IsBare(config.layers[1]) /\ trials.minimum > streams[1].target
       /\ streams[i].min = trials.minimum
    \/ /\ IsBare(config.layers[2])
       /\ Starving(config.screenshare /\ config.conference, config.codec \in {"VP8", "H264"},
                   config.streams, trials)

\* The streams of simulcast, with what they owe to the layers they come from.
AreStreams(streams, layers, m, config, trials) ==
    LET index  == ByMaxBitrate(streams)
        legacy == config.screenshare /\ config.conference
        active == {k \in DOMAIN index : streams[index[k]].active}
    IN  /\ AreLayers(streams, m) /\ AreLayers(layers, m)
        /\ DOMAIN index = 1 .. m
        /\ \A i \in 1 .. m : /\ streams[i].active = config.layers[i].active
                             /\ streams[i].target <= streams[i].max
                             /\ AreInOrder(streams, i, index[1], config, trials)
        /\ ~legacy => FindRequiredActiveLayers(config) <= m
        /\ ~legacy /\ (\A i \in DOMAIN config.layers : config.layers[i].scale = 0)
               => \A i \in 2 .. m : NestAt(streams, i, trials.exponent \notin 0 .. m - 2)
        /\ GetTotalMaxBitrate(streams) =
               IF ~config.screenshare /\ config.max > 0 /\ config.layers[m].max = 0
               THEN MaxOf(config.max, GetTotalMaxBitrate(layers)) ELSE GetTotalMaxBitrate(layers)
        /\ active # {} => streams[index[Min(active)]].min <= streams[index[1]].min

\* CreateSimulcastStreams returns such streams.
LEMMA SimulcastIs ==
    ASSUME NEW width \in Nat, NEW height \in Nat, NEW config \in Configs, NEW trials \in TrialSets
    PROVE  \E m \in 1 .. config.streams :
               AreStreams(CreateSimulcastStreams(width, height, config, trials),
                          AdjustedLayers(width, height, config, trials), m, config, trials)
<1> DEFINE streams == CreateSimulcastStreams(width, height, config, trials)
           layers == AdjustedLayers(width, height, config, trials)
           index == ByMaxBitrate(streams)
           count == config.streams
           legacy == config.screenshare /\ config.conference
           temporal == config.codec \in {"VP8", "H264"}
           starving == Starving(legacy, temporal, count, trials)
           unscaled == \A i \in DOMAIN config.layers : config.layers[i].scale = 0
           boosts == /\ ~config.screenshare /\ config.max > 0
                     /\ config.layers[Len(layers)].max = 0
           boosted == BoostMaxSimulcastLayer(config.max, layers)
           top == IF boosts THEN boosted ELSE layers
           active == {k \in DOMAIN index : streams[index[k]].active}
           need == FindRequiredActiveLayers(config)
           exact(m) == trials.exponent \notin 0 .. m - 2
<1>0. PICK m \in 1 .. count : AreAdjusted(layers, m, config, trials)
  BY AdjustedAre, Zenon
<1>1. streams = HandDownMinimum(top)
  BY DEF CreateSimulcastStreams, UpToTheCap
<1>2. count \in 1 .. 3 /\ config.max \in Nat
  BY ConfigsAssumption
<1>3. /\ layers = [i \in 1 .. m |-> layers[i]]
      /\ \A i \in 1 .. m : /\ layers[i] \in Layer /\ layers[i].target <= layers[i].max
                           /\ layers[i].active = config.layers[i].active
                           /\ InOrderAt(layers, i, config, trials)
      /\ ~legacy => need <= m
      /\ ~legacy /\ unscaled => \A i \in 2 .. m : NestAt(layers, i, exact(m))
  <2> HIDE DEF layers
  <2> QED BY <1>0 DEF AreAdjusted
<1>4. m \in Nat /\ m > 0 /\ AreLayers(layers, m)
  <2> HIDE DEF layers
  <2>1. m \in Nat /\ m > 0
    BY <1>2
  <2>2. AreLayers(layers, m)
    BY <1>3, Zenon DEF AreLayers
  <2> QED BY <2>1, <2>2
<1>5. Len(layers) = m /\ GetTotalMaxBitrate(layers) \in Int
  <2>1. /\ Len(layers) = m
        /\ GetTotalMaxBitrate(layers) =
               SumOf([i \in 1 .. m - 1 |-> layers[i].target]) + layers[m].max
        /\ SumOf([i \in 1 .. m - 1 |-> layers[i].target]) \in Int /\ layers[m].max \in Nat
    BY <1>4, TotalIs
  <2> DEFINE sum == SumOf([i \in 1 .. m - 1 |-> layers[i].target])
             high == layers[m].max
  <2>2. Len(layers) = m /\ GetTotalMaxBitrate(layers) = sum + high /\ sum \in Int /\ high \in Nat
    BY <2>1
  <2> HIDE DEF sum, high, layers
  <2> QED BY <2>2
<1> DEFINE Raised(list) ==
               \A i \in 1 .. m : /\ list[i].width = layers[i].width
                                 /\ list[i].height = layers[i].height
                                 /\ list[i].active = layers[i].active
                                 /\ list[i].min = layers[i].min
                                 /\ list[i].target = layers[i].target
                                 /\ layers[i].max <= list[i].max
<1>6. /\ AreLayers(boosted, m) /\ Raised(boosted)
      /\ GetTotalMaxBitrate(boosted) = MaxOf(config.max, GetTotalMaxBitrate(layers))
  BY <1>2, <1>4, BoostedAre
<1> HIDE DEF streams, layers, boosted, count, starving, unscaled, need, exact, legacy, temporal
<1>7. Raised(layers)
  BY <1>3 DEF Layer
<1>8. /\ AreLayers(top, m) /\ Raised(top)
      /\ GetTotalMaxBitrate(top) = IF boosts THEN MaxOf(config.max, GetTotalMaxBitrate(layers))
                                   ELSE GetTotalMaxBitrate(layers)
  <2> HIDE DEF Raised, boosts
  <2> QED BY <1>4, <1>6, <1>7
<1> HIDE DEF top, boosts
<1>9. ASSUME NEW i \in 1 .. m
      PROVE  top[i].target <= top[i].max /\ (Ordered(layers[i]) => Ordered(top[i]))
  <2>1. top[i].max \in Nat /\ layers[i].max \in Nat /\ layers[i].target \in Nat
    BY <1>4, <1>8 DEF AreLayers, Layer
  <2>2. /\ layers[i].target <= layers[i].max /\ layers[i].max <= top[i].max
        /\ top[i].target = layers[i].target /\ top[i].min = layers[i].min
    BY <1>3, <1>8
  <2>3. top[i].target <= top[i].max
    BY <2>1, <2>2
  <2> HIDE DEF Raised
  <2> QED BY <2>2, <2>3 DEF Ordered
<1>10. /\ AreLayers(streams, m) /\ DOMAIN index = 1 .. m /\ index[1] \in 1 .. m
       /\ \A i \in 1 .. m : /\ streams[i].width = top[i].width
                            /\ streams[i].height = top[i].height
                            /\ streams[i].active = top[i].active
                            /\ streams[i].target = top[i].target
                            /\ streams[i].max = top[i].max
       /\ top[index[1]].active => streams = top
       /\ \A i \in 1 .. m : \E k \in {i, index[1]} : IsFrom(streams[i], top[k])
       /\ active # {} => streams[index[Min(active)]].min <= streams[index[1]].min
  <2> DEFINE handed == HandDownMinimum(top)
             order == ByMaxBitrate(top)
             found == {k \in 1 .. m : handed[order[k]].active}
  <2>1. /\ AreLayers(handed, m) /\ ByMaxBitrate(handed) = order
        /\ \A i \in 1 .. m : /\ handed[i].width = top[i].width
                             /\ handed[i].height = top[i].height
                             /\ handed[i].active = top[i].active
                             /\ handed[i].target = top[i].target
                             /\ handed[i].max = top[i].max
        /\ top[order[1]].active => handed = top
        /\ \A i \in 1 .. m : \E k \in {i, order[1]} : IsFrom(handed[i], top[k])
        /\ found # {} => handed[order[Min(found)]].min <= handed[order[1]].min
    BY <1>4, <1>8, HandedDown, Zenon
  <2>2. DOMAIN order = 1 .. m /\ \A k \in 1 .. m : order[k] \in 1 .. m
    BY <1>4, <1>8, ByRateIs
  <2> HIDE DEF handed, order
  <2>3. streams = handed
    BY <1>1 DEF handed
  <2>4. index = order
    BY <2>1, <2>3
  <2>5. active = found
    BY <2>2, <2>3, <2>4
  <2> HIDE DEF index, active, found
  <2> QED BY <1>4, <2>1, <2>2, <2>3, <2>4, <2>5
<1> HIDE DEF index, active
<1>11. ASSUME NEW i \in 1 .. m PROVE AreInOrder(streams, i, index[1], config, trials)
  <2> DEFINE lowest == index[1]
  <2> HIDE DEF lowest
  <2>1. /\ lowest \in 1 .. m /\ streams[lowest].active = top[lowest].active
        /\ \A k \in 1 .. m : /\ streams[k].target = layers[k].target
                             /\ top[k].min = layers[k].min
    BY <1>8, <1>10 DEF lowest
  <2>2. ASSUME NEW k \in 1 .. m, ~Ordered(layers[k]), streams[i].min = layers[k].min
        PROVE  AreInOrder(streams, i, lowest, config, trials)
    <3>1. IsBare(config.layers[k]) /\ Excused(layers, k, starving, trials)
      BY <1>3, <2>2 DEF InOrderAt, starving, legacy, temporal, count
    <3>2. CASE k = 1 /\ trials.minimum > layers[k].target /\ layers[k].min = trials.minimum
      BY <2>1, <2>2, <3>1, <3>2 DEF AreInOrder
    <3>3. CASE k = 2 /\ starving
      BY <3>1, <3>3 DEF AreInOrder, starving, legacy, temporal, count
    <3> QED BY <3>1, <3>2, <3>3 DEF Excused
  <2>3. CASE top[lowest].active
    <3>1. streams = top
      BY <1>10, <2>3 DEF lowest
    <3>2. CASE Ordered(layers[i])
      <4>1. Ordered(top[i]) /\ top[i].min \in Nat /\ top[i].target \in Nat /\ top[i].max \in Nat
        BY <1>8, <1>9, <3>2 DEF AreLayers, Layer
      <4> QED BY <3>1, <4>1 DEF AreInOrder, Ordered
    <3>3. CASE ~Ordered(layers[i])
      <4>1. streams[i].min = layers[i].min
        BY <2>1, <3>1
      <4> QED BY <2>2, <3>3, <4>1 DEF lowest
    <3> QED BY <3>2, <3>3 DEF lowest
  <2>4. CASE ~top[lowest].active
    <3>1. PICK k \in 1 .. m : IsFrom(streams[i], top[k])
      BY <1>10
    <3>2. CASE Ordered(layers[k])
      <4>1. streams[i].min <= streams[i].max
        BY <1>9, <3>1, <3>2 DEF IsFrom
      <4> QED BY <2>1, <2>4, <4>1 DEF AreInOrder, lowest
    <3>3. CASE ~Ordered(layers[k])
      <4>1. streams[i].min = layers[k].min
        BY <2>1, <3>1 DEF IsFrom
      <4> QED BY <2>2, <3>3, <4>1 DEF lowest
    <3> QED BY <3>2, <3>3
  <2> QED BY <2>3, <2>4
<1>12. \A i \in 1 .. m : /\ streams[i].active = config.layers[i].active
                         /\ streams[i].target <= streams[i].max
  BY <1>3, <1>8, <1>9, <1>10
<1>13. ASSUME ~legacy, unscaled, NEW i \in 2 .. m PROVE NestAt(streams, i, exact(m))
  <2>1. i \in 1 .. m /\ i - 1 \in 1 .. m
    BY <1>4
  <2>2. NestAt(layers, i, exact(m))
    BY <1>3, <1>13
  <2>3. \A j \in 1 .. m : streams[j].width = layers[j].width /\ streams[j].height = layers[j].height
    BY <1>8, <1>10
  <2> QED BY <2>1, <2>2, <2>3 DEF NestAt
<1>14. GetTotalMaxBitrate(streams) = GetTotalMaxBitrate(top)
  BY <1>4, <1>8, <1>10, SameTotal
<1>15. boosts <=> ~config.screenshare /\ config.max > 0 /\ config.layers[m].max = 0
  BY <1>5 DEF boosts
<1>16. GetTotalMaxBitrate(streams) =
           IF ~config.screenshare /\ config.max > 0 /\ config.layers[m].max = 0
           THEN MaxOf(config.max, GetTotalMaxBitrate(layers)) ELSE GetTotalMaxBitrate(layers)
  BY <1>8, <1>14, <1>15
<1>17. AreStreams(streams, layers, m, config, trials)
  <2>1. ~legacy => need <= m
    BY <1>3
  <2> HIDE DEF Raised
  <2> QED BY <2>1, <1>4, <1>10, <1>11, <1>12, <1>13, <1>16, Zenon
          DEF AreStreams, index, active, legacy, unscaled, need, exact
<1> QED BY <1>17 DEF count, streams, layers

\* The streams of the call at hand are those of its arguments.
StreamsAsked ==
    job.kind = "streams" =>
        /\ job.width \in Nat /\ job.height \in Nat
        /\ job.config \in Configs /\ job.trials \in TrialSets
        /\ result = CreateEncoderStreams(job.width, job.height, job.config, job.trials)

\* What CreateSimulcastOrConferenceModeScreenshareStreams returns is sound.
LEMMA SimulcastIsSound ==
    ASSUME StreamsAsked, job.kind = "streams",
           \/ job.config.streams > 1
           \/ job.config.codec \in {"VP8", "H264"} /\ Legacy
    PROVE  LayersAreSound
<1> DEFINE width == job.width
           height == job.height
           config == job.config
           trials == job.trials
           count == config.streams
           temporal == config.codec \in {"VP8", "H264"}
           layers == AdjustedLayers(width, height, config, trials)
           streams == CreateSimulcastStreams(width, height, config, trials)
           index == ByMaxBitrate(streams)
           active == {k \in DOMAIN index : streams[index[k]].active}
           boosts(m) == ~config.screenshare /\ config.max > 0 /\ config.layers[m].max = 0
           need == FindRequiredActiveLayers(config)
           exact(m) == trials.exponent \notin 0 .. m - 2
<1>1. width \in Nat /\ height \in Nat /\ config \in Configs /\ trials \in TrialSets
  BY DEF StreamsAsked
<1>2. result = streams
  BY DEF StreamsAsked, CreateEncoderStreams, Legacy
<1>0. PICK m \in 1 .. count : AreStreams(streams, layers, m, config, trials)
  BY <1>1, SimulcastIs, Zenon
<1>3. /\ AreLayers(streams, m) /\ AreLayers(layers, m)
      /\ \A i \in 1 .. m : /\ streams[i].active = config.layers[i].active
                           /\ streams[i].target <= streams[i].max
                           /\ AreInOrder(streams, i, index[1], config, trials)
      /\ DOMAIN index = 1 .. m
      /\ ~Legacy => need <= m
      /\ ~Legacy /\ (\A i \in DOMAIN config.layers : config.layers[i].scale = 0)
             => \A i \in 2 .. m : NestAt(streams, i, exact(m))
      /\ GetTotalMaxBitrate(streams) =
             IF boosts(m) THEN MaxOf(config.max, GetTotalMaxBitrate(layers))
             ELSE GetTotalMaxBitrate(layers)
      /\ active # {} => streams[index[Min(active)]].min <= streams[index[1]].min
  <2> HIDE DEF streams, layers
  <2> QED BY <1>0, Zenon DEF AreStreams, Legacy
<1>4. /\ count \in 1 .. 3 /\ need \in 0 .. count
      /\ (\E i \in 1 .. count : config.layers[i].active) => need # 0 /\ config.layers[need].active
  BY <1>1, RequiredIs
<1> HIDE DEF streams, need, active, index
<1>5. m \in Nat /\ m > 0 /\ DOMAIN result = 1 .. m /\ Len(result) = m
  <2>1. m \in Nat /\ m > 0
    BY <1>4
  <2>2. Len(streams) = m
    BY <1>3, <2>1, TotalIs
  <2>3. DOMAIN streams = 1 .. m
    BY <1>3 DEF AreLayers
  <2> QED BY <1>2, <2>1, <2>2, <2>3
<1>6. RatesAreOrdered
  <2> DEFINE lowest == ByMaxBitrate(streams)[1]
  <2>1. Encoded = streams
    BY <1>2 DEF Encoded
  <2>2. ASSUME NEW i \in DOMAIN streams
        PROVE  /\ streams[i].target <= streams[i].max
               /\ ~Starved /\ ~Overridden(i) =>
                      /\ streams[i].min <= streams[i].max
                      /\ streams[lowest].active => streams[i].min <= streams[i].target
    <3>1. i \in 1 .. m
      BY <1>2, <1>5
    <3>2. streams[i].target <= streams[i].max /\ AreInOrder(streams, i, lowest, config, trials)
      BY <1>3, <3>1 DEF index
    <3> HIDE DEF lowest
    <3>3. IsBare(config.layers[1]) /\ trials.minimum > streams[1].target
          /\ streams[i].min = trials.minimum => Overridden(i)
      BY <2>1 DEF Overridden, Unconfigured, IsBare
    <3>4. IsBare(config.layers[2]) /\ Starving(Legacy, temporal, count, trials) => Starved
      BY DEF Starved, Starving, Unconfigured, IsBare, Simulcast
    <3> QED BY <3>2, <3>3, <3>4 DEF AreInOrder, Legacy
  <2> HIDE DEF lowest
  <2>3. \A i \in DOMAIN streams :
            /\ streams[i].target <= streams[i].max
            /\ ~Starved /\ ~Overridden(i) =>
                   /\ streams[i].min <= streams[i].max
                   /\ streams[lowest].active => streams[i].min <= streams[i].target
    BY <2>2
  <2> QED BY <2>1, <2>3, Zenon DEF RatesAreOrdered, lowest
<1>7. StreamsNest
  <2> SUFFICES ASSUME ~Legacy, \A i \in DOMAIN config.layers : config.layers[i].scale = 0,
                      NEW i \in 2 .. m
               PROVE  NestAt(streams, i, exact(m))
    BY <1>2, <1>5 DEF StreamsNest, NestAt
  <2> QED BY <1>3
<1>8. FirstActiveIsPresent
  <2> SUFFICES ASSUME ~Legacy, \E i \in 1 .. count : config.layers[i].active
               PROVE  \E i \in DOMAIN result : result[i].active
    BY DEF FirstActiveIsPresent
  <2>1. need \in 1 .. m /\ config.layers[need].active
    BY <1>3, <1>4, <1>5
  <2> QED BY <1>2, <1>3, <1>5, <2>1
<1>9. CapIsUsedUp
  <2> SUFFICES ASSUME Simulcast, boosts(m)
               PROVE  GetTotalMaxBitrate(result) =
                          MaxOf(config.max,
                                GetTotalMaxBitrate(CreateEncoderStreams(width, height,
                                    [config EXCEPT !.max = 0], trials)))
    BY <1>5 DEF CapIsUsedUp
  <2> DEFINE free == [config EXCEPT !.max = 0]
             others == CreateSimulcastStreams(width, height, free, trials)
             handed == HandDownMinimum(layers)
  <2>1. /\ free.max = 0 /\ free.codec = config.codec /\ free.layers = config.layers
        /\ free.streams = config.streams
        /\ free.screenshare = config.screenshare /\ free.conference = config.conference
    BY <1>1, ConfigsAssumption
  <2> HIDE DEF free
  <2>2. CreateEncoderStreams(width, height, free, trials) = others
    BY <2>1 DEF CreateEncoderStreams, Simulcast
  <2>3. AdjustedLayers(width, height, free, trials) = layers
    BY <2>1
    DEF AdjustedLayers, FindRequiredActiveLayers, IsScaleFactorsPowerOfTwo
  <2>4. others = handed
    BY <2>1, <2>3 DEF CreateSimulcastStreams, UpToTheCap
  <2>5. GetTotalMaxBitrate(handed) = GetTotalMaxBitrate(layers)
    <3>1. AreLayers(layers, m)
      BY <1>3
    <3> HIDE DEF layers
    <3> QED BY <1>5, <3>1, HandedDownTotal
  <2> HIDE DEF others, handed
  <2> QED BY <1>2, <1>3, <2>2, <2>4, <2>5 DEF free
<1>10. LowestMinimumIsReached
  BY <1>2, <1>3 DEF LowestMinimumIsReached, index, active
<1> QED BY <1>6, <1>7, <1>8, <1>9, <1>10 DEF LayersAreSound

\* What CreateDefaultVideoStreams returns is sound.
LEMMA DefaultIsSound ==
    ASSUME StreamsAsked, job.kind = "streams",
           ~(\/ job.config.streams > 1
             \/ job.config.codec \in {"VP8", "H264"} /\ Legacy)
    PROVE  LayersAreSound
<1>1. /\ job.width \in Nat /\ job.height \in Nat /\ job.config \in Configs
      /\ job.trials \in TrialSets
  BY DEF StreamsAsked
<1>2. result = CreateDefaultVideoStreams(job.width, job.height, job.config, job.trials)
  BY DEF StreamsAsked, CreateEncoderStreams, Legacy
<1>3. /\ DOMAIN result = {1}
      /\ result[1].min <= result[1].target /\ result[1].target = result[1].max
      /\ result[1].max \in Nat /\ result[1].min \in Int
  BY <1>1, <1>2, DefaultStreamIs
<1>4. \A i \in DOMAIN result : /\ result[i].min <= result[i].max
                               /\ result[i].target <= result[i].max
                               /\ result[i].min <= result[i].target
  BY <1>3
<1>5. RatesAreOrdered
  BY <1>4 DEF RatesAreOrdered, Encoded
<1>6. ~Simulcast
  BY DEF Simulcast
<1> QED
  BY <1>5, <1>6
  DEF LayersAreSound, StreamsNest, FirstActiveIsPresent, CapIsUsedUp, LowestMinimumIsReached

\* For every size, cap, choice of layers and setting of the field trials, the
\* experiments' exponent, minimum and ratio included, the encoder is asked for
\* what it can send: sizes that nest (exactly, unless the exponent is too small
\* for the streams), the first stream that is active, no more than the cap, and
\* rates in order but for layers without a configured rate, when the upper of
\* two screens starves or the experiment's minimum is above the target of the
\* lowest layer (CreateEncoderStreams).
THEOREM LayersStaySound == Calls => []LayersAreSound
<1>1. NoCall => StreamsAsked
  BY DEF NoCall, Idle, StreamsAsked
<1>2. StreamsAsked /\ [Call]_calls => StreamsAsked'
  <2> SUFFICES ASSUME StreamsAsked, [Call]_calls PROVE StreamsAsked'
    OBVIOUS
  <2>1. ASSUME job'.kind # "streams" PROVE StreamsAsked'
    BY <2>1 DEF StreamsAsked
  <2>2. CASE AskStreams
    <3>1. PICK size \in Sizes, config \in Configs, trials \in TrialSets :
              /\ job' = [kind |-> "streams", width |-> size[1], height |-> size[2],
                         config |-> config, trials |-> trials]
              /\ result' = CreateEncoderStreams(size[1], size[2], config, trials)
      BY <2>2 DEF AskStreams
    <3>2. size[1] \in Nat /\ size[2] \in Nat
      BY ConfigsAssumption
    <3> QED BY <3>1, <3>2 DEF StreamsAsked
  <2>3. CASE UNCHANGED calls
    BY <2>3 DEF calls, StreamsAsked
  <2>4. CASE AskTypes \/ AskSettings
    BY <2>1, <2>4 DEF AskTypes, AskSettings
  <2>9. CASE AskSelection
    BY <2>1, <2>9 DEF AskSelection
  <2>10. CASE AskExtensions
    <3>1. PICK extensions \in ExtensionLists :
              job' = [kind |-> "extensions", extensions |-> extensions]
      BY <2>10 DEF AskExtensions
    <3> QED BY <2>1, <3>1
  <2>5. CASE AskStatistics \/ AskDescription
    BY <2>1, <2>5 DEF AskStatistics, AskDescription
  <2>6. CASE AskParameters \/ AskEncoderSettings \/ AskOwnExtensions
    BY <2>1, <2>6 DEF AskParameters, AskEncoderSettings, AskOwnExtensions
  <2>7. CASE StartBundles \/ Return
    BY <2>1, <2>7 DEF StartBundles, Return, Idle
  <2>8. CASE UpdateGroups \/ DeleteAMid \/ DeleteAGroup \/ Rollback \/ Commit
    BY <2>1, <2>8 DEF UpdateGroups, DeleteAMid, DeleteAGroup, Rollback, Commit, BundlesInUse
  <2> QED BY <2>2, <2>3, <2>4, <2>5, <2>6, <2>7, <2>8, <2>9, <2>10 DEF Call
<1>3. StreamsAsked => LayersAreSound
  <2>1. ASSUME StreamsAsked, job.kind # "streams" PROVE LayersAreSound
    <3>1. RatesAreOrdered
      BY <2>1 DEF RatesAreOrdered, Encoded
    <3>2. ~Simulcast
      BY <2>1 DEF Simulcast
    <3> QED
      BY <3>1, <3>2
      DEF LayersAreSound, StreamsNest, FirstActiveIsPresent, CapIsUsedUp, LowestMinimumIsReached
  <2> QED BY <2>1, SimulcastIsSound, DefaultIsSound
<1> QED BY <1>1, <1>2, <1>3, PTL DEF Calls
=============================================================================
