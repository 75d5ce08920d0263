--------------------------- MODULE SequentialParts ---------------------------
(***************************************************************************)
(* The parts of the program that run by themselves, called one at a time:  *)
(* the video engine's algorithms, the session descriptions, the parameters *)
(* and statistics of senders, and the bundle manager.  Every action calls  *)
(* one of them for one of the inputs of an instance and keeps the input    *)
(* and the answer; a bundle manager is used until it is given back.  The   *)
(* properties compare the answer with what the rest of the program takes   *)
(* it to be.                                                               *)
(***************************************************************************)
EXTENDS EncoderStreams, SenderStatistics, SessionDescriptions, RtpParameters,
        BundleManager

CONSTANTS
    Sizes,         \* pairs of width and height
    Configs,       \* encoder configurations
    TrialSets,     \* settings of the field trials
    FormatLists,   \* what the encoder factories support
    CodecLists,    \* lists of codecs in descriptions
    RemoteLists,   \* lists of codecs the other side offers
    LocalLists,    \* formats of the local encoder factory
    ExtensionLists,\* lists of header extensions in descriptions
    Supported,     \* header extensions this side supports
    RtpConfigs,    \* SSRCs of streams
    OfferOptions,  \* what an offer is asked for
    ExtraLines,    \* lines that a description may end with
    MaxExtraLines, \* the most lines that are added to a description
    ParameterSets, \* parameters of a sender that may be in force
    NewParameters, \* parameters the application may set
    Bandwidths,    \* caps of descriptions and of codecs
    Policies,      \* bundle policies
    GroupLists     \* bundle groups a description may have

\* An encoder has one to three streams (RTC_CHECK_LT against
\* kMaxSimulcastStreams in DefaultNumberOfTemporalLayers) and a layer for each
\* (RTC_DCHECK_GE in CreateEncoderStreams), and a stream's minimum is not above
\* its maximum where both are set (CheckRtpParametersValues).  The exponent of
\* an experiment is at most 5; it and the minimum are -1 where there is none.
ASSUME ConfigsAssumption ==
    /\ Sizes \subseteq Nat \X Nat
    /\ TrialSets \subseteq [lowres : BOOLEAN, limit : BOOLEAN, roundUp : Int,
                            exponent : -1 .. 5, minimum : Nat \cup {-1}, temporal : Int,
                            screenTemporal : Int, baseHeavy : BOOLEAN]
    /\ \A config \in Configs :
           /\ config \in [codec : STRING, screenshare : BOOLEAN, conference : BOOLEAN,
                          max : Nat, streams : 1 .. 3,
                          layers : Seq([active : BOOLEAN, min : Nat, max : Nat, tl : Nat,
                                        fps : Nat, mode : Int, scale : Nat])]
           /\ config.streams <= Len(config.layers)
           /\ \A i \in DOMAIN config.layers :
                  config.layers[i].max > 0 => config.layers[i].min <= config.layers[i].max

\* A group has each mid once (ContentGroup::AddContentName).
ASSUME GroupsAssumption ==
    \A groups \in GroupLists :
        /\ groups \in Seq([semantics : STRING, names : Seq(STRING)])
        /\ \A k \in DOMAIN groups : \A i, j \in DOMAIN groups[k].names :
               groups[k].names[i] = groups[k].names[j] => i = j

\* Descriptions have codecs, and factories formats; a factory's own list has
\* no RTX, RED or FEC.
ASSUME CodecListsAssumption ==
    /\ \A codecs \in CodecLists \cup RemoteLists : AreCodecs(codecs)
    /\ \A formats \in LocalLists : formats \in Seq(ToSet(formats))
    /\ \A formats \in FormatLists :
           /\ formats \in Seq(STRING)
           /\ \A i \in DOMAIN formats : Kind(formats[i]) = "video"

\* What other programs add to a description neither repeats a section for
\* audio or video nor adds a bundle, and a fingerprint is one.
ASSUME DescriptionsAssumption ==
    /\ OfferOptions \subseteq [audio : Directions, video : Directions, mux : BOOLEAN]
    /\ MaxExtraLines \in Nat
    /\ \A line \in ExtraLines :
           /\ line.line # "group"
           /\ line.line = "m" => line.name \notin {"audio", "video"}
           /\ line.line = "fingerprint" => line.value # NoFingerprint

\* Names of extensions are numbers, in their order; the absolute send time is
\* one that this side has.
ASSUME ExtensionsAssumption ==
    /\ AbsSendTime \in Supported
    /\ \A extensions \in ExtensionLists :
           extensions \in Seq([uri : Nat, id : Int, encrypt : BOOLEAN])

\* The SSRCs of a stream are all different; either none of the media SSRCs has
\* an RTX stream or each has one, and FlexFEC protects something.
ASSUME RtpConfigsAssumption ==
    \A config \in RtpConfigs :
        /\ config.ssrcs \in Seq(Nat) /\ config.rtx \in Seq(Nat)
        /\ config.rtx # <<>> => Len(config.rtx) = Len(config.ssrcs)
        /\ \A i, j \in DOMAIN config.ssrcs : config.ssrcs[i] = config.ssrcs[j] => i = j
        /\ \A i, j \in DOMAIN config.rtx : config.rtx[i] = config.rtx[j] => i = j
        /\ ToSet(config.ssrcs) \cap ToSet(config.rtx) = {}
        /\ config.flexfec.type # -1 =>
               /\ config.flexfec.ssrc \in Nat \ (ToSet(config.ssrcs) \cup ToSet(config.rtx))
               /\ config.flexfec.protected # <<>>

\* The encodings of a sender (NewEncoding): a layer is active or not, and the
\* fields without a value are Unset.
ASSUME EncodingsAssumption ==
    /\ Bandwidths \subseteq Int
    /\ \A parameters \in ParameterSets \cup NewParameters :
        /\ parameters.degradation \in STRING
        /\ parameters.encodings \in
            Seq([ssrc : Int, rid : Int, active : BOOLEAN, min : Int, max : Int, fps : Int,
                 scale : Int, tl : Int, priority : Int, mode : Int])

VARIABLES job, result

calls == <<job, result>>

Idle == [kind |-> "idle"]

NoCall == job = Idle /\ result = <<>>

AskStreams ==
    /\ job = Idle
    /\ \E size \in Sizes, config \in Configs, trials \in TrialSets :
        /\ job' = [kind |-> "streams", width |-> size[1], height |-> size[2],
                   config |-> config, trials |-> trials]
        /\ result' = CreateEncoderStreams(size[1], size[2], config, trials)

AskTypes ==
    /\ job = Idle
    /\ \E formats \in FormatLists :
        /\ job' = [kind |-> "types", formats |-> formats]
        /\ result' = GetPayloadTypesAndDefaultCodecs(formats)

AskSettings ==
    /\ job = Idle
    /\ \E codecs \in CodecLists :
        /\ job' = [kind |-> "settings", codecs |-> codecs]
        /\ result' = MapCodecs(codecs)

AskSelection ==
    /\ job = Idle
    /\ \E remote \in RemoteLists, formats \in LocalLists :
        /\ job' = [kind |-> "selection", remote |-> remote, formats |-> formats]
        /\ result' = SelectSendVideoCodecs(MapCodecs(remote), formats)

AskExtensions ==
    /\ job = Idle
    /\ \E extensions \in ExtensionLists :
        /\ ValidateRtpExtensions(extensions)
        /\ job' = [kind |-> "extensions", extensions |-> extensions]
        /\ result' = FilterRtpExtensions(extensions, Supported, TRUE)

\* The statistics of a stream's SSRCs, as its configuration relates them;
\* every SSRC has sent as many bytes as its number says.
Substreams(config, present, wide, withQp) ==
    LET Stats(type, media, s) ==
            [type |-> type, media |-> media, bytes |-> s,
             width |-> IF s = wide THEN 1280 ELSE 320, qp |-> IF s \in withQp THEN s ELSE NoQp]
    IN  [s \in present |->
            CASE IsMediaSsrc(config, s) -> Stats("media", -1, s)
              [] ~IsMediaSsrc(config, s) /\ IsRtxSsrc(config, s) ->
                   Stats("rtx", GetMediaSsrcAssociatedWithRtxSsrc(config, s), s)
              [] OTHER -> Stats("flexfec", GetMediaSsrcAssociatedWithFlexfecSsrc(config), s)]

SsrcsOf(config) ==
    ToSet(config.ssrcs) \cup ToSet(config.rtx)
    \cup {s \in {config.flexfec.ssrc} : IsFlexfecSsrc(config, s)}

AskStatistics ==
    /\ job = Idle
    /\ \E config \in RtpConfigs, hasStream \in BOOLEAN : \E present \in SUBSET SsrcsOf(config) :
       \E wide \in ToSet(config.ssrcs), withQp \in SUBSET ToSet(config.ssrcs) :
        LET substreams == Substreams(config, present, wide, withQp)
        IN  /\ job' = [kind |-> "statistics", config |-> config, hasStream |-> hasStream,
                       substreams |-> substreams]
            /\ result' = FillSenderStats(config, hasStream, substreams)

\* A description one side writes and the other reads, with lines of other
\* programs behind it.
AskDescription ==
    /\ job = Idle
    /\ \E options \in OfferOptions, n \in 0 .. MaxExtraLines :
       \E extra \in [1 .. n -> ExtraLines] :
        LET lines == SdpLines(CreateOffer(options))
        IN  /\ job' = [kind |-> "description", options |-> options, lines |-> lines,
                       extra |-> extra]
            /\ result' = ReadSdp(lines \o extra)

AskParameters ==
    /\ job = Idle
    /\ \E old \in ParameterSets, new \in NewParameters :
        /\ CheckRtpParametersValues(old)
        /\ job' = [kind |-> "parameters", old |-> old, new |-> new]
        /\ result' = SetRtpParameters(old, new)

Codecs == {"H264", "VP8", "VP9", "AV1"}

AskEncoderSettings ==
    /\ job = Idle
    /\ \E codec \in Codecs, parameters \in ParameterSets,
          screencast \in BOOLEAN, noiseReduction \in {"unset", "on", "off"},
          detection \in BOOLEAN, hint \in {"none", "fluid", "detailed", "text"} :
        /\ job' = [kind |-> "encoder", codec |-> codec, parameters |-> parameters,
                   screencast |-> screencast, noiseReduction |-> noiseReduction,
                   detection |-> detection, hint |-> hint]
        /\ result' = [settings |-> ConfigureVideoEncoderSettings(codec, parameters,
                                       screencast, noiseReduction),
                      preference |-> GetDegradationPreference(detection, parameters, hint,
                                                              screencast)]

\* The header extensions this side offers; optional ones as the trials say.
AskOwnExtensions ==
    /\ job = Idle
    /\ \E advertised \in SUBSET OptionalExtensions :
        /\ job' = [kind |-> "own", advertised |-> advertised]
        /\ result' = GetDefaultEnabledRtpHeaderExtensions(advertised)

-----------------------------------------------------------------------------
(* The bundle manager *)

StartBundles ==
    /\ job = Idle
    /\ job' = [kind |-> "bundles"]
    /\ \E policy \in Policies : result' = NewBundleManager(policy)

\* An element past the end has been erased: what follows is undefined.
BundlesInUse == job.kind = "bundles" /\ result.defined

UpdateGroups ==
    /\ BundlesInUse /\ UNCHANGED job
    /\ \E groups \in GroupLists, type \in {"offer", "pranswer", "answer"} :
        result' = UpdateBundles(result, groups, type)

DeleteAMid ==
    /\ BundlesInUse /\ UNCHANGED job
    /\ \E mid \in DOMAIN result.byMid :
        result' = DeleteMid(result, LookupGroupByMid(result, mid), mid)

DeleteAGroup ==
    /\ BundlesInUse /\ UNCHANGED job
    /\ \E place \in DOMAIN result.groups : result' = DeleteGroup(result, place)

Rollback ==
    /\ BundlesInUse /\ UNCHANGED job
    /\ result' = RollbackBundles(result)

Commit ==
    /\ BundlesInUse /\ UNCHANGED job
    /\ result' = CommitBundles(result)

Return ==
    /\ job # Idle
    /\ job' = Idle /\ result' = <<>>

Call == \/ AskStreams \/ AskTypes \/ AskSettings \/ AskSelection \/ AskExtensions
        \/ AskStatistics \/ AskDescription \/ AskParameters \/ AskEncoderSettings
        \/ AskOwnExtensions
        \/ StartBundles \/ UpdateGroups \/ DeleteAMid \/ DeleteAGroup \/ Rollback \/ Commit
        \/ Return

Calls == NoCall /\ [][Call]_calls

-----------------------------------------------------------------------------
(* Encoder streams *)

Encoded == IF job.kind = "streams" THEN result ELSE <<>>

Simulcast == job.kind = "streams" /\ job.config.streams > 1

Legacy == job.config.screenshare /\ job.config.conference

\* The application sets no rate for the layer.
Unconfigured(i) == job.config.layers[i].min = 0 /\ job.config.layers[i].max = 0

\* A setting that asks for less than it allows: conference mode for two
\* screens with a codec that has no temporal layers here, while the field trial
\* counts on four.  The maximum of the upper stream is then a quarter of
\* 1250 kbit/s, and its minimum twice the target of the lower one, 400 kbit/s.
Starved ==
    /\ Simulcast /\ Legacy /\ Unconfigured(2)
    /\ job.config.codec \notin {"VP8", "H264"} /\ job.trials.screenTemporal = 4

\* And another: the minimum that an experiment gives to the lowest layer is
\* above that layer's target.  Stream i has this minimum.
Overridden(i) ==
    /\ Unconfigured(1)
    /\ job.trials.minimum > Encoded[1].target
    /\ Encoded[i].min = job.trials.minimum

\* The rates of every stream are in order, whatever minimum and maximum the
\* application has configured: the target does not exceed the maximum, and
\* neither does the minimum, but for those two settings; and while the lowest
\* stream is active, so that no minimum is handed on, the minimum does not
\* exceed the target either (CreateSimulcastOrConferenceModeScreenshareStreams,
\* CreateDefaultVideoStreams).
RatesAreOrdered ==
    LET lowest == ByMaxBitrate(Encoded)[1]
    IN  \A i \in DOMAIN Encoded :
            /\ Encoded[i].target <= Encoded[i].max
            /\ ~Starved /\ ~Overridden(i) =>
                   /\ Encoded[i].min <= Encoded[i].max
                   /\ Encoded[lowest].active => Encoded[i].min <= Encoded[i].target

\* Without scale factors a simulcast stream is half as wide and as high as the
\* one above it, rounded down.  It is exactly half, also for sizes that are not
\* divisible (NormalizeSimulcastSize), unless an experiment rounds to a power of
\* two that is too small for the number of streams; a receiver switches between
\* the streams.
StreamsNest ==
    Simulcast /\ ~Legacy /\ (\A i \in DOMAIN job.config.layers : job.config.layers[i].scale = 0)
        => \A i \in 2 .. Len(result) :
               /\ result[i].width \div 2 = result[i - 1].width
               /\ result[i].height \div 2 = result[i - 1].height
               /\ job.trials.exponent \notin 0 .. Len(result) - 2 =>
                      /\ result[i].width = 2 * result[i - 1].width
                      /\ result[i].height = 2 * result[i - 1].height

\* When the resolution limits the number of streams, the first stream that
\* is active is still among them (FindRequiredActiveLayers), so a stream the
\* application has enabled is sent.
FirstActiveIsPresent ==
    Simulcast /\ ~Legacy /\ (\E i \in 1 .. job.config.streams : job.config.layers[i].active)
        => \E i \in DOMAIN result : result[i].active

\* Bandwidth that is left over goes to the largest stream and no more than
\* that: the streams' total is the cap or, if the streams need more without
\* any cap, what they need (BoostMaxSimulcastLayer).
CapIsUsedUp ==
    (/\ Simulcast /\ job.config.max > 0 /\ ~job.config.screenshare
     /\ job.config.layers[Len(result)].max = 0)
        => GetTotalMaxBitrate(result) =
               MaxOf(job.config.max,
                     GetTotalMaxBitrate(CreateEncoderStreams(job.width, job.height,
                                            [job.config EXCEPT !.max = 0], job.trials)))

\* The lowest active stream may go as low as the lowest stream could, also
\* when the streams below it are not active: a single large stream is not
\* held at the minimum of its size.
LowestMinimumIsReached ==
    Simulcast =>
        LET byRate == ByMaxBitrate(result)
            active == {i \in DOMAIN byRate : result[byRate[i]].active}
        IN  active # {} => result[byRate[Min(active)]].min <= result[byRate[1]].min

\* What GetSimulcastConfig and the encoder's stream factory hand to the encoder
\* is a configuration it can send, for every size, cap and choice of layers and
\* with every setting of the field trials: rates in order, sizes that nest,
\* nothing the application has enabled left out, no bandwidth above the cap, and
\* none of it out of reach.
LayersAreSound ==
    /\ RatesAreOrdered
    /\ StreamsNest
    /\ FirstActiveIsPresent
    /\ CapIsUsedUp
    /\ LowestMinimumIsReached

-----------------------------------------------------------------------------
(* Codecs, header extensions and statistics *)

\* However many formats a factory has, the payload types that are given out
\* are dynamic ones, each given once, and MapCodecs accepts the list with
\* every codec that got a payload type (GetPayloadTypesAndDefaultCodecs).
OwnCodecsAreAccepted ==
    job.kind = "types" /\ job.formats # <<>> =>
        LET codecs == ToSet(result)
        IN  /\ {c.id : c \in codecs} \subseteq (FirstLower .. LastLower)
                                             \cup (FirstUpper .. LastUpper)
            /\ Len(MapCodecs(result)) = Cardinality({c \in codecs : c.kind = "video"})
            /\ ValidateCodecFormats(result)

\* Two codecs that were accepted from one description share no payload type,
\* neither for media nor for retransmission, and none with the codecs for
\* RED and FEC (MapCodecs): a packet's type tells what it is.
TypesAreNotShared ==
    job.kind = "settings" =>
        LET Types(s) == {s.codec.id, s.rtx} \ {-1}
            Fec(s) == {s.ulpfec.red, s.ulpfec.ulpfec, s.ulpfec.redRtx, s.flexfec} \ {-1}
        IN  \A i, j \in DOMAIN result :
                /\ i # j => Types(result[i]) \cap Types(result[j]) = {}
                /\ Types(result[i]) \cap Fec(result[i]) = {}

\* The codecs to send with keep the other side's order and payload types,
\* and a local format stands behind one of them only (SelectSendVideoCodecs).
SelectedAreCommon ==
    job.kind = "selection" =>
        LET remote == MapCodecs(job.remote)
            At(s) == CHOOSE i \in DOMAIN remote : remote[i].codec.id = s.codec.id
            Sent(name) == {i \in DOMAIN result : result[i].codec.name = name}
        IN  /\ \A i, j \in DOMAIN result : i < j => At(result[i]) <= At(result[j])
            /\ \A i \in DOMAIN result :
                   Cardinality(Sent(result[i].codec.name))
                       <= Cardinality({k \in DOMAIN job.formats :
                                          job.formats[k].name = result[i].codec.name})

\* A payload type means one thing on both sides, from the types an engine
\* gives out, through the list the other side accepts, to the codecs that are
\* selected to send with.
TypesAreUnambiguous ==
    /\ OwnCodecsAreAccepted
    /\ TypesAreNotShared
    /\ SelectedAreCommon

\* Both sides come to the same extensions whatever order they are listed in,
\* and where no extension is listed twice, absolute send time wins over the
\* timestamp offset (FilterRtpExtensions).
ExtensionsAreAgreed ==
    job.kind = "extensions" =>
        LET all == job.extensions
            Once(Key(_)) == \A i, j \in DOMAIN all : i # j => Key(all[i]) # Key(all[j])
            kept == {result[i].uri : i \in DOMAIN result}
        IN  /\ Once(LAMBDA e : <<e.uri, e.encrypt>>) =>
                   FilterRtpExtensions(Reverse(all), Supported, TRUE) = result
            /\ Once(LAMBDA e : e.uri) /\ (\E i \in DOMAIN all : all[i].uri = AbsSendTime) =>
                   AbsSendTime \in kept /\ TimestampOffset \notin kept

\* An engine's own extensions pass its own check of descriptions, and an
\* extension has the same id whichever of the optional ones are advertised,
\* so that a session does not depend on the trials (GetRtpHeaderExtensions).
OwnExtensionsAreAccepted ==
    job.kind = "own" =>
        /\ ValidateRtpExtensions(result)
        /\ ToSet(result) \subseteq ToSet(GetDefaultEnabledRtpHeaderExtensions(OptionalExtensions))

\* Header extensions come out the same on both sides: an engine accepts what
\* an engine offers, and the order of a list does not matter.
ExtensionsAreSettled ==
    /\ ExtensionsAreAgreed
    /\ OwnExtensionsAreAccepted

\* What a media SSRC is reported to have sent is its own bytes and those of
\* the RTX and FlexFEC streams that protect it, under its own RID
\* (RtpConfig's associations, GetPerLayerVideoSenderInfos).
StatisticsAreOfTheStream ==
    job.kind = "statistics" /\ job.hasStream =>
        LET config == job.config
            present == DOMAIN job.substreams
            Sent(s) == IF s \in present THEN job.substreams[s].bytes ELSE 0
            Protects(s, media) == /\ IsFlexfecSsrc(config, s)
                                  /\ config.flexfec.protected[1] = media
        IN  \A i \in DOMAIN config.ssrcs :
                config.ssrcs[i] \in present =>
                    \E k \in DOMAIN result.senders :
                        /\ result.senders[k].ssrcs = {config.ssrcs[i]}
                        /\ result.senders[k].rid =
                               IF i > Len(config.rids) THEN "none" ELSE config.rids[i]
                        /\ result.senders[k].bytes =
                               Sent(config.ssrcs[i])
                               + Sent(GetRtxSsrcAssociatedWithMediaSsrc(config, config.ssrcs[i]))
                               + IF Protects(config.flexfec.ssrc, config.ssrcs[i])
                                 THEN Sent(config.flexfec.ssrc) ELSE 0

\* A stream is reported only if it has statistics of its own: what protects
\* an SSRC that has none is left out (MergeInfoAboutOutboundRtpSubstreams).
ReportedHaveStatistics ==
    job.kind = "statistics" /\ job.hasStream /\ DOMAIN job.substreams # {} =>
        \A k \in DOMAIN result.senders : result.senders[k].ssrcs \subseteq DOMAIN job.substreams

\* The report of a stream as a whole counts what the reports of its layers
\* count once, has the largest size of theirs, and leaves the sum of the
\* quantisers out exactly if none of them has one (GetAggregatedVideoSenderInfo).
ReportsAddUp ==
    job.kind = "statistics" /\ result.aggregated # <<>> =>
        LET all == result.aggregated[1]
            layers == result.senders
            Qp(k) == IF layers[k].qp = NoQp THEN 0 ELSE layers[k].qp
        IN  /\ all.bytes = SumOf([k \in DOMAIN layers |-> layers[k].bytes])
            /\ all.width \in {layers[k].width : k \in DOMAIN layers}
            /\ \A k \in DOMAIN layers : layers[k].width <= all.width
            /\ all.qp = IF \A k \in DOMAIN layers : layers[k].qp = NoQp THEN NoQp
                        ELSE SumOf([k \in DOMAIN layers |-> Qp(k)])

\* Every byte that was sent is reported once, with the stream it belongs to
\* and in the total of the sender (GetPerLayerVideoSenderInfos,
\* GetAggregatedVideoSenderInfo).
ReportsAreExact ==
    /\ StatisticsAreOfTheStream
    /\ ReportedHaveStatistics
    /\ ReportsAddUp

-----------------------------------------------------------------------------
(* Session descriptions *)

\* What one side writes the other reads: the sections, their credentials and
\* fingerprints, their first payload types and the bundle (ToString,
\* set_remote_sdp).  A section without codecs is written as well, and the
\* reader takes the payload type from behind the end of its m= line.
OffersAreReadBack ==
    job.kind = "description" /\ job.extra = <<>> =>
        LET offer == CreateOffer(job.options)
            Kept(i, name) ==
                \A content \in ToSet(offer.contents) : content.name = name =>
                    /\ result.contents[i] = name
                    /\ result.transports[i] = GetTransportInfoByName(offer, name)
                    /\ content.codecs # <<>> => result.types[name] = content.codecs[1].type
        IN  /\ result.ok /\ Kept(1, "audio") /\ Kept(2, "video")
            /\ result.groups = offer.groups
            /\ result.defined <=> job.options.video # "recv"

\* Every section of an offer explains itself: each payload type of the m=
\* line is mapped, a retransmission belongs to one of them, and each SSRC of
\* a group is described in the section (BuildRtpMap, BuildSsrc).
OffersExplainThemselves ==
    job.kind = "description" =>
        LET lines == job.lines
            At(kind) == {i \in DOMAIN lines : lines[i].line = kind}
            Of(i) == Max({m \in At("m") : m <= i} \cup {0})
            With(kind, m) == {i \in At(kind) : Of(i) = m}
        IN  \A m \in At("m") :
                LET types == ToSet(lines[m].types)
                IN  /\ types = {lines[i].type : i \in With("rtpmap", m)}
                    /\ {lines[i].apt : i \in With("fmtp", m)} \ {0} \subseteq types
                    /\ UNION {ToSet(lines[i].ssrcs) : i \in With("ssrc-group", m)}
                           \subseteq {lines[i].ssrc : i \in With("ssrc", m)}

\* An offer that create_offer writes is complete in itself, and set_remote_sdp
\* of another peer gets out of it what went in.
OffersAreUnderstood ==
    /\ OffersAreReadBack
    /\ OffersExplainThemselves

\* Which descriptions the transport controller survives after set_remote_sdp
\* has read them: those with a bundle and an audio section that is left with
\* a fingerprint.  Video alone is not enough, because the first section is
\* always the one for audio; a fingerprint that cannot be decoded is read
\* without complaint and takes away the one before it.
UsableDescriptions ==
    job.kind = "description" /\ result.ok =>
        LET extra == job.extra
            Inside(i) == \A j \in 1 .. i : extra[j].line # "m"
            Counts(i) == /\ extra[i].line = "fingerprint" /\ extra[i].value # "malformed"
                         /\ Inside(i)
            last == {i \in DOMAIN extra : Counts(i) /\ \A j \in i + 1 .. Len(extra) : ~Counts(j)}
        IN  ControllerCanUse(result) <=>
                /\ job.options.mux /\ Offers(job.options.audio)
                /\ \/ Offers(job.options.video)
                   \/ \A i \in last : extra[i].value # "undecodable"

-----------------------------------------------------------------------------
(* Parameters of a sender *)

\* Streams that are the same; but for whether they are active, where the first
\* encoding has nothing to send.
SameStreams(before, after, sends) ==
    /\ DOMAIN before = DOMAIN after
    /\ \A i \in DOMAIN after :
           /\ before[i] = [after[i] EXCEPT !.active = before[i].active]
           /\ sends => before[i].active = after[i].active

\* Configurations that are the same but for the layers, and whose layers make
\* no difference to what is asked of the encoder.
AskTheSame(old, new, sends) ==
    /\ [old EXCEPT !.layers = <<>>] = [new EXCEPT !.layers = <<>>]
    /\ old # new =>
           \A size \in Sizes, trials \in TrialSets :
               SameStreams(CreateEncoderStreams(size[1], size[2], old, trials),
                           CreateEncoderStreams(size[1], size[2], new, trials), sends)

\* When parameters are taken and the encoder is not configured anew, it would
\* have been asked for the same as before: the same settings of the codec, the
\* same cap and priority, and the same streams (SetRtpParameters,
\* CreateVideoEncoderConfig, CreateEncoderStreams).
EncoderHearsOfChanges ==
    job.kind = "parameters" /\ result.taken /\ ~result.reconfigured =>
        \A codec \in Codecs, screencast \in BOOLEAN :
            /\ \A noise \in {"unset", "on", "off"} :
                   ConfigureVideoEncoderSettings(codec, job.old, screencast, noise)
                       = ConfigureVideoEncoderSettings(codec, job.new, screencast, noise)
            /\ \A conference \in BOOLEAN, bandwidth, codecMax \in Bandwidths :
                   AskTheSame(EncoderConfig(codec, job.old, screencast, conference, bandwidth,
                                            codecMax),
                              EncoderConfig(codec, job.new, screencast, conference, bandwidth,
                                            codecMax),
                              IsLayerActive(job.new.encodings[1]))

\* When the stream is not told whether it is active, it need not be: that is as
\* before, or no encoding has anything to send (UpdateSendState).
StreamHearsOfChanges ==
    job.kind = "parameters" /\ result.taken /\ ~result.updated =>
        \/ IsStreamActive(job.old) = IsStreamActive(job.new)
        \/ \A i \in DOMAIN job.new.encodings : ~IsLayerActive(job.new.encodings[i])

\* Nor is there a new preference where the source is not set again, and screen
\* content is neither denoised nor made smaller when the encoder is too slow,
\* unless the application says so (GetDegradationPreference).
PreferenceIsKept ==
    /\ job.kind = "parameters" /\ result.taken /\ ~result.sourced =>
           \A detection, screencast \in BOOLEAN, hint \in {"none", "fluid", "detailed", "text"} :
               GetDegradationPreference(detection, job.old, hint, screencast)
                   = GetDegradationPreference(detection, job.new, hint, screencast)
    /\ job.kind = "encoder" /\ job.screencast =>
           /\ ~result.settings.denoise
           /\ job.parameters.degradation = "unset" /\ job.hint # "fluid" =>
                  result.preference # "maintain-framerate"

\* The stream and its encoder run with the parameters that the sender has: what
\* they are not told of after a change would make no difference to them.
EncoderIsUpToDate ==
    /\ EncoderHearsOfChanges
    /\ StreamHearsOfChanges
    /\ PreferenceIsKept

-----------------------------------------------------------------------------
(* Bundles *)

\* As long as no two groups have had a mid in common, the lookup by mid
\* finds exactly the group that has the mid, every group is led by one of its
\* mids, and nothing past the end of the lookup is erased, whatever is
\* updated, deleted, rolled back and committed (BundleManager).
BundleMapIsExact ==
    job.kind = "bundles" /\ ~result.shared =>
        /\ result.defined
        /\ \A place \in DOMAIN result.groups :
               /\ {m \in DOMAIN result.byMid : result.byMid[m] = place}
                      = ToSet(result.groups[place])
               /\ result.groups[place] # <<>> =>
                      Cardinality({m \in ToSet(result.groups[place]) :
                                      IsFirstMidInGroup(result, m)}) = 1
        /\ \A m \in DOMAIN result.byMid : result.byMid[m] \in DOMAIN result.groups
=============================================================================
