----------------------------- MODULE VideoChannel -----------------------------
(***************************************************************************)
(* WebRtcVideoChannel and its WebRtcVideoSendStreams                       *)
(* (engine/webrtc_video_engine.cpp): the parameters of a negotiated video  *)
(* section are compared with the ones in force, and what has changed is    *)
(* handed on to every send stream.                                         *)
(*                                                                         *)
(* In this code no call creates a VideoSendStream: stream_ is null, as is  *)
(* the channel's worker thread.  A step that goes through one of them, and *)
(* a failed RTC_CHECK, end the process: crashed tells the reason, the rest *)
(* is as if there had been no channel, and nothing happens any more.  For  *)
(* the same reason there are no receive streams, and a stream never gets   *)
(* as far as sending.                                                      *)
(***************************************************************************)
EXTENDS VideoCodecs

CONSTANTS
    None,            \* an optional value that is not set
    SendParameters,  \* VideoSendParameters a description may hold
    RecvParameters,  \* VideoRecvParameters a description may hold
    StreamParams,    \* send streams that may be added
    EncoderFormats,  \* what the encoder factory implements
    DecoderNames,    \* the formats of the decoder factory
    SwitchRequests,  \* codecs an encoder may ask to switch to
    SwitchFormats,   \* formats an encoder may ask to switch to
    EncodingCaps     \* maximum bit rates the application may set, 0 for none

\* A description has all the fields that its parameters are compared by, and
\* a stream a list of SSRCs.
ASSUME ParametersAssumption ==
    /\ \A p \in SendParameters : p.mid # None /\ p.conference # None /\ p.reduced # None
    /\ \A sp \in StreamParams : sp.ssrcs \in Seq(Nat)

\* Descriptions have codecs, and factories formats; the decoder factory's own
\* list has no RTX, RED or FEC.
ASSUME FormatsAssumption ==
    /\ \A p \in SendParameters \cup RecvParameters : AreCodecs(p.codecs)
    /\ EncoderFormats \in Seq(ToSet(EncoderFormats))
    /\ DecoderNames \in Seq(STRING)
    /\ \A i \in DOMAIN DecoderNames : Kind(DecoderNames[i]) = "video"

\* A description's bandwidth is a rate, 0 for no limit, or kAutoBandwidth.
ASSUME BandwidthAssumption ==
    /\ None \notin Int
    /\ \A p \in SendParameters : p.max \in Int /\ p.max >= -1

VARIABLES
    sendStreams,     \* send_streams_: from first SSRCs to streams
    sendSsrcs,       \* send_ssrcs_
    reportSsrc,      \* rtcp_receiver_report_ssrc_
    sending,         \* sending_
    sendParams,      \* send_params_
    sendCodec,       \* send_codec_
    negotiated,      \* negotiated_codecs_
    sendExtensions,  \* send_rtp_extensions_
    extmapMixed,     \* ExtmapAllowMixed()
    bitrate,         \* bitrate_config_
    allowSwitch,     \* allow_codec_switching_
    requested,       \* requested_encoder_switch_
    recvParams,      \* recv_params_
    recvCodecs,      \* recv_codecs_
    recvExtensions,  \* recv_rtp_extensions_
    recvFlexfec,     \* recv_flexfec_payload_type_
    crashed          \* why the process has ended, or "no"

codecVars == <<sendCodec, negotiated, sendExtensions, extmapMixed, bitrate>>

recvVars == <<recvParams, recvCodecs, recvExtensions, recvFlexfec>>

streamVars == <<sendStreams, sendSsrcs, reportSsrc>>

switchVars == <<allowSwitch, requested>>

vars == <<streamVars, sending, sendParams, codecVars, switchVars, recvVars, crashed>>

\* kDefaultRtcpReceiverReportSsrc
DefaultReportSsrc == 1

\* RtpExtension::IsSupportedForVideo
VideoExtensions == 1 .. 3

DefaultSendParams ==
    [codecs |-> <<>>, active |-> TRUE, extensions |-> <<>>, mixed |-> FALSE,
     mid |-> 0, max |-> -1, conference |-> FALSE, reduced |-> FALSE]

DefaultRecvParams == [codecs |-> <<>>, active |-> TRUE, extensions |-> <<>>]

DefaultRecvCodecs == MapCodecs(GetPayloadTypesAndDefaultCodecs(DecoderNames))

DefaultRecvFlexfec == IF DefaultRecvCodecs = <<>> THEN 0 ELSE DefaultRecvCodecs[1].flexfec

NoBitrates == [min |-> 0, start |-> 300, max |-> -1]

\* The constructor.
Init ==
    /\ sendStreams = <<>> /\ sendSsrcs = {} /\ reportSsrc = DefaultReportSsrc
    /\ sending = FALSE /\ sendParams = DefaultSendParams
    /\ sendCodec = None /\ negotiated = <<>> /\ sendExtensions = None
    /\ extmapMixed = FALSE /\ bitrate = NoBitrates
    /\ allowSwitch = FALSE /\ requested = None
    /\ recvParams = DefaultRecvParams /\ recvCodecs = DefaultRecvCodecs
    /\ recvExtensions = <<>> /\ recvFlexfec = DefaultRecvFlexfec
    /\ crashed = "no"

Crash(reason) ==
    /\ sendStreams' = <<>> /\ sendSsrcs' = {} /\ reportSsrc' = DefaultReportSsrc
    /\ sending' = FALSE /\ sendParams' = DefaultSendParams
    /\ sendCodec' = None /\ negotiated' = <<>> /\ sendExtensions' = None
    /\ extmapMixed' = FALSE /\ bitrate' = NoBitrates
    /\ allowSwitch' = FALSE /\ requested' = None
    /\ recvParams' = DefaultRecvParams /\ recvCodecs' = DefaultRecvCodecs
    /\ recvExtensions' = <<>> /\ recvFlexfec' = DefaultRecvFlexfec
    /\ crashed' = reason

-----------------------------------------------------------------------------
(* A send stream *)

\* Simulcast is disabled for every codec, so the encoder has one stream; the
\* application's cap counts if there is one encoding, the codec's if no
\* other is set.
CreateVideoEncoderConfig(stream, settings) ==
    LET cap == IF stream.encodingCap > 0 /\ Len(stream.primary) = 1
               THEN MinPositive(stream.encodingCap, stream.max) ELSE stream.max
        codec == settings.codec
    IN  [screen |-> stream.screencast, conference |-> stream.conference,
         max |-> IF HasParam(codec, "x-google-max-bitrate") /\ cap = -1
                 THEN codec.params["x-google-max-bitrate"] ELSE cap]

\* Mutant: the RTX streams stay when the codec has no RTX.
KeepRtx(stream, settings) ==
    [stream EXCEPT !.codec = settings,
                   !.config = CreateVideoEncoderConfig(stream, settings),
                   !.rtxType = IF settings.rtx # -1 THEN settings.rtx ELSE @]

\* WebRtcVideoSendStream::SetCodec but for RecreateWebRtcStream.  RTX streams
\* are dropped for good with a codec that has no RTX.
StreamSetCodec(stream, settings) ==
    [stream EXCEPT !.codec = settings,
                   !.config = CreateVideoEncoderConfig(stream, settings),
                   !.rtx = IF settings.rtx = -1 THEN <<>> ELSE @,
                   !.rtxType = IF stream.rtx # <<>> /\ settings.rtx # -1
                               THEN settings.rtx ELSE @]

\* What becomes of RecreateWebRtcStream.
RecreateCrash(stream) ==
    CASE stream.codec = None -> "noCodec"
      [] stream.codec # None /\ stream.source -> "noStream"
      [] OTHER -> "no"

\* The constructor, with what the channel has.
NewStream(sp) ==
    LET stream == [ssrcs |-> ToSet(sp.ssrcs), primary |-> sp.primary,
                   rtx |-> IF DOMAIN sp.rtx = {} THEN <<>>
                           ELSE [i \in DOMAIN sp.primary |-> sp.rtx[sp.primary[i]]],
                   rtxType |-> -1, codec |-> None, max |-> bitrate.max,
                   conference |-> sendParams.conference, screencast |-> FALSE,
                   encodingCap |-> 0, source |-> FALSE,
                   extensions |-> IF sendExtensions = None THEN <<>> ELSE sendExtensions,
                   mid |-> sendParams.mid, reduced |-> sendParams.reduced,
                   mixed |-> extmapMixed, config |-> None]
    IN  IF sendCodec = None THEN stream ELSE StreamSetCodec(stream, sendCodec)

Set(old, new) == IF new = None THEN old ELSE new

SetsCodec(stream, changed) ==
    \/ changed.codec # None
    \/ changed.conference # None /\ stream.codec # None

\* WebRtcVideoSendStream::SetSendParameters
StreamSetSendParameters(stream, changed) ==
    LET noted == [stream EXCEPT !.reduced = Set(@, changed.reduced),
                                !.mixed = Set(@, changed.mixed),
                                !.extensions = Set(@, changed.extensions),
                                !.mid = Set(@, changed.mid),
                                !.max = Set(@, changed.max),
                                !.conference = Set(@, changed.conference)]
    IN  IF ~SetsCodec(stream, changed) THEN noted
        ELSE StreamSetCodec(noted, Set(stream.codec, changed.codec))

\* Whether the stream survives it.
StreamCrash(stream, changed) ==
    IF \/ SetsCodec(stream, changed)
       \/ changed.reduced # None \/ changed.mixed # None
       \/ changed.extensions # None \/ changed.mid # None
    THEN RecreateCrash(StreamSetSendParameters(stream, changed)) ELSE "no"

-----------------------------------------------------------------------------
(* The parameters to send with *)

Unchanged ==
    [codec |-> None, negotiated |-> None, extensions |-> None, mid |-> None,
     mixed |-> None, max |-> None, conference |-> None, reduced |-> None]

\* The codecs and extensions of a description that this side has, too.
CommonCodecs ==
    [params \in SendParameters |->
        SelectSendVideoCodecs(MapCodecs(params.codecs), EncoderFormats)]

CommonExtensions ==
    [params \in SendParameters |->
        FilterRtpExtensions(params.extensions, VideoExtensions, TRUE)]

CodecSettings == UNION {ToSet(CommonCodecs[params]) : params \in SendParameters}

\* None is no codec and no list of codecs.
ASSUME CodecsAssumption == None \notin CodecSettings /\ None \notin Seq(CodecSettings)

IfNew(old, new) == IF old = new THEN None ELSE new

\* Mutant: the codec follows only when there was none.
FirstCodecStays(params) ==
    LET codecs == CommonCodecs[params]
    IN  [negotiated |-> IfNew(negotiated, codecs),
         codec |-> IF codecs = negotiated \/ codecs = <<>> \/ sendCodec # None THEN None
                   ELSE IfNew(sendCodec, codecs[1]),
         mixed |-> IfNew(extmapMixed, params.mixed),
         extensions |-> IfNew(sendExtensions, CommonExtensions[params]),
         mid |-> IfNew(sendParams.mid, params.mid),
         max |-> IF params.max = sendParams.max \/ params.max < -1 THEN None
                 ELSE IF params.max = 0 THEN -1 ELSE params.max,
         conference |-> IfNew(sendParams.conference, params.conference),
         reduced |-> IfNew(sendParams.reduced, params.reduced)]

\* GetChangedSendParameters, where it does not fail.  With no common codec
\* the codec in use stays.
ChangedSendParameters(params) ==
    LET codecs == CommonCodecs[params]
    IN  [negotiated |-> IfNew(negotiated, codecs),
         codec |-> IF codecs = negotiated \/ codecs = <<>> THEN None
                   ELSE IfNew(sendCodec, codecs[1]),
         mixed |-> IfNew(extmapMixed, params.mixed),
         extensions |-> IfNew(sendExtensions, CommonExtensions[params]),
         mid |-> IfNew(sendParams.mid, params.mid),
         max |-> IF params.max = sendParams.max \/ params.max < -1 THEN None
                 ELSE IF params.max = 0 THEN -1 ELSE params.max,
         conference |-> IfNew(sendParams.conference, params.conference),
         reduced |-> IfNew(sendParams.reduced, params.reduced)]

CanSendWith(params) ==
    /\ ValidateCodecFormats(params.codecs) /\ ValidateRtpExtensions(params.extensions)
    /\ params.active => CommonCodecs[params] # <<>>

\* Mutant: the codec's maximum takes priority over the description's.
CodecBitrateFirst(params, codec, changed) ==
    LET base == IF codec = None
                THEN [bitrate EXCEPT !.max = IF params.max = -1 THEN -1 ELSE @]
                ELSE [GetBitrateConfigForCodec(codec.codec) EXCEPT
                         !.start = IF changed.codec = None THEN -1 ELSE @]
    IN  IF changed.codec = None /\ changed.max = None THEN bitrate
        ELSE IF params.max < 0 \/ base.max > 0 THEN base
        ELSE [base EXCEPT !.max = IF params.max = 0 THEN -1 ELSE params.max]

\* The channel's bit rates after a change of codec or maximum.
NewBitrate(params, codec, changed) ==
    LET base == IF codec = None
                THEN [bitrate EXCEPT !.max = IF params.max = -1 THEN -1 ELSE @]
                ELSE [GetBitrateConfigForCodec(codec.codec) EXCEPT
                         !.start = IF changed.codec = None THEN -1 ELSE @]
    IN  IF changed.codec = None /\ changed.max = None THEN bitrate
        ELSE IF params.max < 0 THEN base
        ELSE [base EXCEPT !.max = IF params.max = 0 THEN -1 ELSE params.max]

\* The streams that do not survive a change; the first one ends the process.
Hurt(changed) == {s \in DOMAIN sendStreams : StreamCrash(sendStreams[s], changed) # "no"}

CrashWith(changed) ==
    /\ Hurt(changed) # {}
    /\ Crash(StreamCrash(sendStreams[Min(Hurt(changed))], changed))

\* ApplyChangedParams: the channel's own state, then every stream.
ApplyChangedParams(params, changed) ==
    /\ Hurt(changed) = {}
    /\ negotiated' = Set(negotiated, changed.negotiated)
    /\ sendCodec' = Set(sendCodec, changed.codec)
    /\ extmapMixed' = Set(extmapMixed, changed.mixed)
    /\ sendExtensions' = Set(sendExtensions, changed.extensions)
    /\ bitrate' = NewBitrate(params, Set(sendCodec, changed.codec), changed)
    /\ sendStreams' = [s \in DOMAIN sendStreams |->
                          StreamSetSendParameters(sendStreams[s], changed)]
    /\ UNCHANGED <<sendSsrcs, reportSsrc, sending, recvVars, crashed>>

SetSendParameters(params) ==
    LET changed == ChangedSendParameters(params)
    IN  /\ CanSendWith(params)
        /\ \/ CrashWith(changed)
           \/ /\ ApplyChangedParams(params, changed)
              /\ sendParams' = params
              /\ UNCHANGED switchVars

-----------------------------------------------------------------------------
(* Requests of the encoder *)

\* The first codec of the list is given up.
RequestEncoderFallback ==
    LET changed == [Unchanged EXCEPT !.negotiated = Tail(negotiated), !.codec = negotiated[2]]
    IN  /\ Len(negotiated) > 1
        /\ \/ CrashWith(changed)
           \/ ApplyChangedParams(sendParams, changed) /\ UNCHANGED <<sendParams, switchVars>>

\* The first negotiated codec with the name, and the parameter and its value
\* if they are asked for; None if there is none or it is in use already.
CodecToSwitchTo(wanted) ==
    LET Has(codec) == /\ codec.name = wanted.name
                      /\ wanted.param # None =>
                             /\ HasParam(codec, wanted.param)
                             /\ wanted.value # None => codec.params[wanted.param] = wanted.value
        at == {i \in DOMAIN negotiated : Has(negotiated[i].codec)}
    IN  IF at = {} \/ sendCodec = negotiated[Min(at)] THEN None ELSE negotiated[Min(at)]

\* A request that comes too early is kept.
RequestEncoderSwitch(wanted) ==
    LET changed == [Unchanged EXCEPT !.codec = CodecToSwitchTo(wanted)]
    IN  \/ /\ ~allowSwitch /\ requested' = wanted
           /\ UNCHANGED <<streamVars, sending, sendParams, codecVars, allowSwitch,
                          recvVars, crashed>>
        \/ /\ allowSwitch /\ changed # Unchanged
           /\ \/ CrashWith(changed)
              \/ ApplyChangedParams(sendParams, changed) /\ UNCHANGED <<sendParams, switchVars>>

\* The format's parameters replace those of the codec.
WithFormat(settings, format) ==
    [settings EXCEPT !.codec.params =
        [p \in DOMAIN @ \cup DOMAIN format.params |->
            IF p \in DOMAIN format.params THEN format.params[p] ELSE settings.codec.params[p]]]

RequestEncoderSwitchToFormat(format) ==
    LET at == {i \in DOMAIN negotiated : IsSameCodec(format, negotiated[i].codec)}
        changed == [Unchanged EXCEPT !.codec = WithFormat(negotiated[Min(at)], format)]
    IN  /\ at # {} /\ changed.codec # sendCodec
        /\ \/ CrashWith(changed)
           \/ ApplyChangedParams(sendParams, changed) /\ UNCHANGED <<sendParams, switchVars>>

\* A request that was kept is carried out now, and forgotten.
SetVideoCodecSwitchingEnabled(enabled) ==
    LET kept == IF enabled /\ requested # None THEN CodecToSwitchTo(requested) ELSE None
        changed == [Unchanged EXCEPT !.codec = kept]
    IN  \/ CrashWith(changed)
        \/ /\ ApplyChangedParams(sendParams, changed)
           /\ allowSwitch' = enabled
           /\ requested' = IF enabled THEN None ELSE requested
           /\ UNCHANGED sendParams

-----------------------------------------------------------------------------
(* Streams *)

\* Mutant: only the first SSRC has to be free.
FirstSsrcIsFree(sp) == Head(sp.ssrcs) \notin sendSsrcs

ValidateSendSsrcAvailability(sp) == ToSet(sp.ssrcs) \cap sendSsrcs = {}

\* While the channel sends, the new stream is started, which there is none.
AddSendStream(sp) ==
    LET ssrc == Head(sp.ssrcs)
    IN  /\ ValidateStreamParams(sp) /\ ValidateSendSsrcAvailability(sp)
        /\ IF sending THEN Crash("noStream")
           ELSE /\ sendSsrcs' = sendSsrcs \cup ToSet(sp.ssrcs)
                /\ sendStreams' = [s \in DOMAIN sendStreams \cup {ssrc} |->
                                      IF s = ssrc THEN NewStream(sp) ELSE sendStreams[s]]
                /\ reportSsrc' = IF reportSsrc = DefaultReportSsrc THEN ssrc ELSE reportSsrc
                /\ UNCHANGED <<sending, sendParams, codecVars, switchVars, recvVars, crashed>>

\* Mutant: reports go on under the SSRC of the stream that is gone.
RemoveAndReport(ssrc) ==
    /\ ssrc \in DOMAIN sendStreams
    /\ sendSsrcs' = sendSsrcs \ sendStreams[ssrc].ssrcs
    /\ sendStreams' = [s \in DOMAIN sendStreams \ {ssrc} |-> sendStreams[s]]
    /\ reportSsrc' = IF DOMAIN sendStreams = {ssrc} THEN DefaultReportSsrc ELSE reportSsrc
    /\ UNCHANGED <<sending, sendParams, codecVars, switchVars, recvVars, crashed>>

RemoveSendStream(ssrc) ==
    LET left == DOMAIN sendStreams \ {ssrc}
    IN  /\ ssrc \in DOMAIN sendStreams
        /\ sendSsrcs' = sendSsrcs \ sendStreams[ssrc].ssrcs
        /\ sendStreams' = [s \in left |-> sendStreams[s]]
        /\ reportSsrc' = CASE reportSsrc # ssrc -> reportSsrc
                           [] reportSsrc = ssrc /\ left = {} -> DefaultReportSsrc
                           [] OTHER -> Min(left)
        /\ UNCHANGED <<sending, sendParams, codecVars, switchVars, recvVars, crashed>>

SetSend(send) ==
    /\ send => sendCodec # None
    /\ IF send /\ sendStreams # <<>> THEN Crash("noStream")
       ELSE /\ sending' = send
            /\ UNCHANGED <<streamVars, sendParams, codecVars, switchVars, recvVars, crashed>>

\* A change to or from screen content sets the codec up again.
StreamSetOptions(stream, screencast) ==
    LET noted == [stream EXCEPT !.screencast = screencast]
    IN  IF stream.codec = None \/ screencast = stream.screencast THEN noted
        ELSE StreamSetCodec(noted, stream.codec)

\* screencast is None when the call has no options.
SetVideoSend(ssrc, screencast, source) ==
    /\ IF ssrc \notin DOMAIN sendStreams
       THEN source /\ Crash("unknownStream")
       ELSE LET stream == sendStreams[ssrc]
            IN  IF /\ screencast \notin {None, stream.screencast} /\ stream.codec # None
                   /\ stream.source
                THEN Crash("noStream")
                ELSE /\ sendStreams' =
                            [sendStreams EXCEPT ![ssrc] =
                                [StreamSetOptions(@, Set(@.screencast, screencast))
                                    EXCEPT !.source = source]]
                     /\ UNCHANGED <<sendSsrcs, reportSsrc, sending, sendParams, codecVars,
                                    switchVars, recvVars, crashed>>

\* The encoder is not told: there is no stream to reconfigure.
SetRtpSendParameters(ssrc, cap) ==
    /\ ssrc \in DOMAIN sendStreams
    /\ sendStreams' = [sendStreams EXCEPT ![ssrc].encodingCap = cap]
    /\ UNCHANGED <<sendSsrcs, reportSsrc, sending, sendParams, codecVars, switchVars,
                   recvVars, crashed>>

-----------------------------------------------------------------------------
(* The parameters to receive with *)

MappedCodecs == [params \in RecvParameters |-> MapCodecs(params.codecs)]

RecvSettings ==
    ToSet(DefaultRecvCodecs) \cup UNION {ToSet(MappedCodecs[params]) : params \in RecvParameters}

\* A list of settings, of codecs with different payload types.
IsCodecList(list) ==
    /\ list \in Seq(RecvSettings)
    /\ \A i, j \in DOMAIN list : list[i].codec.id = list[j].codec.id => i = j

CanReceiveWith(params) ==
    LET mapped == MappedCodecs[params]
        local == ToSet(GetPayloadTypesAndDefaultCodecs(DecoderNames))
    IN  /\ ValidateCodecFormats(params.codecs) /\ ValidateRtpExtensions(params.extensions)
        /\ mapped # <<>>
        /\ params.active => \A i \in DOMAIN mapped :
                                \E c \in local : c.name = mapped[i].codec.name

SetRecvParameters(params) ==
    LET mapped == MappedCodecs[params]
    IN  /\ CanReceiveWith(params)
        /\ recvFlexfec' = mapped[1].flexfec
        /\ recvExtensions' = FilterRtpExtensions(params.extensions, VideoExtensions, FALSE)
        /\ recvCodecs' = IF NonFlexfecReceiveCodecsHaveChanged(recvCodecs, mapped)
                         THEN mapped ELSE recvCodecs
        /\ recvParams' = params
        /\ UNCHANGED <<streamVars, sending, sendParams, codecVars, switchVars, crashed>>

\* A packet, a new route or a demuxer update: each posts to the worker thread.
OnNetworkEvent == Crash("noThread")

-----------------------------------------------------------------------------
Ssrcs == {Head(sp.ssrcs) : sp \in StreamParams}

Next ==
    /\ crashed = "no"
    /\ \/ \E params \in SendParameters : SetSendParameters(params)
       \/ RequestEncoderFallback
       \/ \E wanted \in SwitchRequests : RequestEncoderSwitch(wanted)
       \/ \E format \in SwitchFormats : RequestEncoderSwitchToFormat(format)
       \/ \E enabled \in BOOLEAN : SetVideoCodecSwitchingEnabled(enabled)
       \/ \E sp \in StreamParams : AddSendStream(sp)
       \/ \E ssrc \in Ssrcs : RemoveSendStream(ssrc)
       \/ \E send \in BOOLEAN : SetSend(send)
       \/ \E ssrc \in Ssrcs, screencast \in BOOLEAN \cup {None}, source \in BOOLEAN :
              SetVideoSend(ssrc, screencast, source)
       \/ \E ssrc \in Ssrcs, cap \in EncodingCaps : SetRtpSendParameters(ssrc, cap)
       \/ \E params \in RecvParameters : SetRecvParameters(params)
       \/ OnNetworkEvent

Spec == Init /\ [][Next]_vars

-----------------------------------------------------------------------------
Streams == {sendStreams[s] : s \in DOMAIN sendStreams}

\* send_ssrcs_ holds the SSRCs of the streams there are, RTX included, and
\* every SSRC belongs to one stream (AddSendStream, RemoveSendStream).
SsrcsAreOfStreams ==
    /\ sendSsrcs = UNION {stream.ssrcs : stream \in Streams}
    /\ \A s, t \in DOMAIN sendStreams :
           s # t => sendStreams[s].ssrcs \cap sendStreams[t].ssrcs = {}

\* Receiver reports go out under the SSRC of a stream that exists, or under
\* the default one while there is none (rtcp_receiver_report_ssrc_).
ReportSsrcIsLive ==
    IF sendStreams = <<>> THEN reportSsrc = DefaultReportSsrc
    ELSE reportSsrc \in DOMAIN sendStreams

\* However streams were added and parameters, codecs and switches came in
\* between, every stream has the channel's codec, extensions, mid, mode and
\* way to send RTCP: the differences GetChangedSendParameters computes and a
\* constructor that copies come to the same.
StreamsFollowChannel ==
    \A stream \in Streams :
        /\ stream.codec = sendCodec
        /\ stream.extensions = (IF sendExtensions = None THEN <<>> ELSE sendExtensions)
        /\ stream.mid = sendParams.mid /\ stream.mixed = extmapMixed
        /\ stream.conference = sendParams.conference
        /\ stream.reduced = sendParams.reduced

\* A stream that has a codec has an encoder configuration of its content and
\* mode, which RecreateWebRtcStream asserts for the content.
EncoderFollowsOptions ==
    \A stream \in Streams : stream.codec # None =>
        /\ stream.config.screen = stream.screencast
        /\ stream.config.conference = stream.conference

\* RTX is sent with the payload type the codec in use has for it, also after
\* the codec was changed: one that has none ends RTX (SetCodec).
RtxFollowsCodec ==
    \A stream \in Streams : stream.codec # None /\ stream.rtx # <<>> =>
        stream.codec.rtx # -1 /\ stream.rtxType = stream.codec.rtx

\* A stream and its encoder are always set up as the channel and the
\* application want them now, although changes are handed on as differences
\* and a codec, a description or an option may come before or after the stream.
StreamsAreCurrent ==
    /\ StreamsFollowChannel
    /\ EncoderFollowsOptions
    /\ RtxFollowsCodec

\* The codec in use is one of those that were negotiated last, also after
\* the encoder gave one up or asked for another, with its payload types and
\* FEC; only a description with no common codec leaves an earlier one in use.
CodecIsNegotiated ==
    negotiated # <<>> =>
        /\ sendCodec # None
        /\ \E i \in DOMAIN negotiated :
               [sendCodec EXCEPT !.codec.params = negotiated[i].codec.params] = negotiated[i]

\* The cap of the bandwidth estimation is the description's or, without one,
\* that of the codec in use, in whatever order the two change.
CapFollowsDescription ==
    bitrate.max = CASE sendParams.max > 0 -> sendParams.max
                    [] sendParams.max = 0 -> -1
                    [] sendParams.max < 0 /\ sendCodec = None -> -1
                    [] OTHER -> GetBitrateConfigForCodec(sendCodec.codec).max

\* A switch the encoder asked for is kept only while switching is off, so it
\* is carried out once (SetVideoCodecSwitchingEnabled).
KeptSwitchIsPending == requested # None => ~allowSwitch

\* Codecs to receive with are those of the last description that was
\* accepted, but for their order and FlexFEC, which is kept by itself.
RecvCodecsFollow ==
    recvParams.codecs # <<>> =>
        LET mapped == MappedCodecs[recvParams]
        IN  /\ {s.codec : s \in ToSet(recvCodecs)} = {s.codec : s \in ToSet(mapped)}
            /\ {s.rtx : s \in ToSet(recvCodecs)} = {s.rtx : s \in ToSet(mapped)}
            /\ recvFlexfec = mapped[1].flexfec

\* In both directions the channel works with the codecs of the last
\* description, through fallbacks, switches and descriptions that differ only
\* in part.
CodecsFollowDescriptions ==
    /\ CodecIsNegotiated
    /\ RecvCodecsFollow
=============================================================================
