----------------------------- MODULE VideoCodecs -----------------------------
(***************************************************************************)
(* The pure functions of the video engine on codecs, header extensions and *)
(* SSRCs (engine/webrtc_video_engine.cpp, engine/webrtc_media_engine.cpp,  *)
(* rtp_config.cc).                                                         *)
(*                                                                         *)
(* A codec is a record with name, id (its payload type), kind and params,  *)
(* a function from names of parameters to numbers; -1 stands for a payload *)
(* type or a number that is not there, as in the code.                     *)
(***************************************************************************)
EXTENDS Lists, Sequences, SequencesExt, FiniteSetsExt

MinPositive(a, b) == IF a <= 0 THEN b ELSE IF b <= 0 THEN a ELSE IF a < b THEN a ELSE b

NoParams == [p \in {} |-> 0]

Kind(name) == IF name \in {"red", "ulpfec", "flexfec", "rtx"} THEN name ELSE "video"

Codec(name, id, params) ==
    [name |-> name, id |-> id, kind |-> Kind(name), params |-> params]

\* A list of codecs.
AreCodecs(codecs) ==
    /\ codecs \in Seq(ToSet(codecs))
    /\ \A i \in DOMAIN codecs :
           DOMAIN codecs[i] = {"name", "id", "kind", "params"} /\ codecs[i].id \in Int

HasParam(codec, p) == p \in DOMAIN codec.params

-----------------------------------------------------------------------------
(* The codecs of an encoder or decoder factory *)

UsesLowerRange(name) == name \in {"flexfec", "AV1"}

FirstLower == 35

LastLower == 63

FirstUpper == 96

LastUpper == 127

\* The payload type a codec gets, and the two counters after it.
NextType(types, name) ==
    IF UsesLowerRange(name) \/ types.upper >= LastUpper
    THEN [id |-> types.lower, lower |-> types.lower + 1, upper |-> types.upper]
    ELSE [id |-> types.upper, lower |-> types.lower, upper |-> types.upper + 1]

\* One format of the factory: its codec and, but for FEC, the codec's RTX.
AddFormat(acc, name) ==
    LET first  == NextType(acc.types, name)
        codec  == Codec(name, first.id, NoParams)
        second == NextType(first, name)
        rtx    == Codec("rtx", second.id, [p \in {"apt"} |-> first.id])
    IN  IF acc.done \/ acc.types.lower > LastLower THEN [acc EXCEPT !.done = TRUE]
        ELSE CASE Kind(name) \in {"ulpfec", "flexfec"} ->
                    [acc EXCEPT !.types = first, !.out = Append(@, codec)]
               [] Kind(name) \notin {"ulpfec", "flexfec"} /\ first.lower > LastLower ->
                    [types |-> first, out |-> Append(acc.out, codec), done |-> TRUE]
               [] OTHER -> [acc EXCEPT !.types = second, !.out = @ \o <<codec, rtx>>]

Unassigned ==
    [types |-> [id |-> 0, lower |-> FirstLower, upper |-> FirstUpper],
     out |-> <<>>, done |-> FALSE]

\* The loop over the formats; after is what each of them leaves.
Assigned(all) ==
    LET after[n \in 0 .. Len(all)] ==
            IF n = 0 THEN Unassigned ELSE AddFormat(after[n - 1], all[n])
    IN  after[Len(all)]

GetPayloadTypesAndDefaultCodecs(formats) ==
    IF formats = <<>> THEN <<>> ELSE Assigned(formats \o <<"red", "ulpfec">>).out

\* AddDefaultFeedbackParams
DefaultFeedback(kind) ==
    CASE kind \in {"red", "ulpfec"} -> {}
      [] kind = "flexfec" -> {"remb", "transport-cc"}
      [] OTHER -> {"remb", "transport-cc", "ccm fir", "nack", "nack pli"}

-----------------------------------------------------------------------------
(* Negotiation *)

\* A payload type is one, and a video codec's bit rates are in order.
ValidateCodecFormat(codec) ==
    /\ codec.id \in 0 .. 127
    /\ codec.kind = "video" /\ HasParam(codec, "x-google-min-bitrate")
           /\ HasParam(codec, "x-google-max-bitrate")
       => codec.params["x-google-min-bitrate"] <= codec.params["x-google-max-bitrate"]

ValidateCodecFormats(codecs) ==
    /\ \A i \in DOMAIN codecs : ValidateCodecFormat(codecs[i])
    /\ \E i \in DOMAIN codecs : codecs[i].kind = "video"

\* The payload type of the first codec of a kind.
FirstOf(codecs, kind) ==
    LET at == {i \in DOMAIN codecs : codecs[i].kind = kind}
    IN  IF at = {} THEN -1 ELSE codecs[Min(at)].id

\* The position of the RTX codec for a payload type; a later one replaces an
\* earlier one.
RtxOf(codecs, id) ==
    LET at == {i \in DOMAIN codecs : codecs[i].kind = "rtx" /\ codecs[i].params["apt"] = id}
    IN  IF at = {} THEN -1 ELSE Max(at)

\* What MapCodecs asks of a list; it returns nothing for any other.
IsMappable(codecs) ==
    /\ \A i, j \in DOMAIN codecs : i # j => codecs[i].id # codecs[j].id
    /\ \A i \in DOMAIN codecs : codecs[i].kind = "rtx" =>
           /\ HasParam(codecs[i], "apt") /\ codecs[i].params["apt"] \in 0 .. 127
           /\ \E j \in DOMAIN codecs : /\ codecs[j].id = codecs[i].params["apt"]
                                       /\ codecs[j].kind \in {"video", "red"}

kNackHistoryMs == 1000

\* The RTX time of a payload type: that of the last RTX codec that has one.
RtxTimeOf(codecs, id) ==
    LET at == {i \in DOMAIN codecs :
                  /\ codecs[i].kind = "rtx" /\ codecs[i].params["apt"] = id
                  /\ HasParam(codecs[i], "rtx-time") /\ codecs[i].params["rtx-time"] > 0}
        time == codecs[Max(at)].params["rtx-time"]
    IN  IF at = {} THEN -1 ELSE IF time < kNackHistoryMs THEN time ELSE kNackHistoryMs

TypeAt(codecs, i) == IF i = -1 THEN -1 ELSE codecs[i].id

Settings(codecs, codec) ==
    LET red == FirstOf(codecs, "red")
    IN  [codec |-> codec,
         ulpfec |-> [red |-> red, ulpfec |-> FirstOf(codecs, "ulpfec"),
                     redRtx |-> IF red = -1 THEN -1 ELSE TypeAt(codecs, RtxOf(codecs, red))],
         flexfec |-> FirstOf(codecs, "flexfec"),
         rtx |-> TypeAt(codecs, RtxOf(codecs, codec.id)),
         rtxTime |-> RtxTimeOf(codecs, codec.id)]

MapCodecs(codecs) ==
    IF ~IsMappable(codecs) THEN <<>>
    ELSE LET videos == Picked(codecs, {i \in DOMAIN codecs : codecs[i].kind = "video"})
         IN  [i \in DOMAIN videos |-> Settings(codecs, videos[i])]

\* IsSameCodec: by name and, for H264, by profile; other parameters differ.
IsSameCodec(format, codec) ==
    /\ format.name = codec.name
    /\ codec.name = "H264" =>
           LET Profile(params) == IF "profile" \in DOMAIN params THEN params["profile"] ELSE 0
           IN  Profile(format.params) = Profile(codec.params)

\* insert() keeps the parameters the codec has.
Merged(settings, format) ==
    [settings EXCEPT !.codec.params =
        [p \in DOMAIN settings.codec.params \cup DOMAIN format.params |->
            IF p \in DOMAIN settings.codec.params THEN settings.codec.params[p]
            ELSE format.params[p]]]

\* Mutant: a local format serves every remote codec.
ReuseFormats(remote, formats) ==
    {pair \in (DOMAIN remote) \X (DOMAIN formats) :
        IsSameCodec(formats[pair[2]], remote[pair[1]].codec)}

\* The turns of the two loops that find a codec: a local format is erased by
\* the first remote codec that it fits.
Found(remote, formats) ==
    {pair \in (DOMAIN remote) \X (DOMAIN formats) :
        /\ IsSameCodec(formats[pair[2]], remote[pair[1]].codec)
        /\ \A r \in 1 .. pair[1] - 1 : ~IsSameCodec(formats[pair[2]], remote[r].codec)}

\* The remote codecs are the outer loop.
SelectSendVideoCodecs(remote, formats) ==
    LET found == Found(remote, formats)
        turns == {pq \in found \X found :
                     \/ pq[1][1] < pq[2][1]
                     \/ pq[1][1] = pq[2][1] /\ pq[1][2] < pq[2][2]}
        At(n) == InOrder(found, turns, n)
    IN  [n \in 1 .. Cardinality(found) |-> Merged(remote[At(n)[1]], formats[At(n)[2]])]

EqualsDisregardingFlexfec(a, b) == [a EXCEPT !.flexfec = b.flexfec] = b

\* What a list has at a place when it is sorted by payload type, the highest
\* first: no two codecs of a list have the same.
SortedAt(codecs, i) ==
    CHOOSE c \in ToSet(codecs) :
        Cardinality({d \in ToSet(codecs) : d.codec.id > c.codec.id}) = i - 1

\* Both lists sorted, and compared pairwise.
NonFlexfecReceiveCodecsHaveChanged(before, after) ==
    ~(/\ Len(before) = Len(after)
      /\ \A i \in DOMAIN before :
             EqualsDisregardingFlexfec(SortedAt(before, i), SortedAt(after, i)))

\* The bit rates a codec's parameters ask for, in kbit/s.
GetBitrateConfigForCodec(codec) ==
    LET Param(p, default) == IF HasParam(codec, p) /\ codec.params[p] > 0
                             THEN codec.params[p] ELSE default
    IN  [min |-> Param("x-google-min-bitrate", 0),
         start |-> Param("x-google-start-bitrate", -1),
         max |-> Param("x-google-max-bitrate", -1)]

-----------------------------------------------------------------------------
(* Header extensions: records of uri (a number, in the order of the names) *)
(* id and encrypt                                                          *)

AbsSendTime == 1

TimestampOffset == 2

\* The extensions an engine always has, in its order, and the ones that a
\* field trial has to turn on.  Those above 2 are numbered by their place.
BasicExtensions == <<TimestampOffset, AbsSendTime, 3, 4, 5, 6, 7, 8, 9, 10, 11>>

OptionalExtensions == 12 .. 15

\* Every extension has an id; one that is not advertised is stopped.
GetRtpHeaderExtensions(advertised) ==
    LET uris == BasicExtensions \o <<12, 13, 14, 15>>
    IN  [i \in DOMAIN uris |->
            [uri |-> uris[i], id |-> i, stopped |-> uris[i] \in OptionalExtensions \ advertised]]

GetDefaultEnabledRtpHeaderExtensions(advertised) ==
    LET all == GetRtpHeaderExtensions(advertised)
    IN  Picked(all, {i \in DOMAIN all : ~all[i].stopped})

ValidateRtpExtensions(extensions) ==
    /\ \A i \in DOMAIN extensions : extensions[i].id \in 1 .. 255
    /\ \A i, j \in DOMAIN extensions : i # j => extensions[i].id # extensions[j].id

\* Encrypted extensions first, then by name.
Precedes(a, b) ==
    IF a.encrypt = b.encrypt THEN a.uri < b.uri ELSE a.encrypt

\* The extensions of a list have different ids, so that they are a set; what
\* is the same but for the id stays in the order of the list.
SortExtensions(extensions) ==
    LET members == ToSet(extensions)
        At(e) == CHOOSE i \in DOMAIN extensions : extensions[i] = e
        order == {pair \in members \X members :
                     \/ Precedes(pair[1], pair[2])
                     \/ ~Precedes(pair[2], pair[1]) /\ At(pair[1]) < At(pair[2])}
    IN  [n \in 1 .. Cardinality(members) |-> InOrder(members, order, n)]

\* std::unique: of neighbours that are the same but for the id, the first.
Unique(extensions) ==
    Picked(extensions, {i \in DOMAIN extensions :
                           \/ i = 1
                           \/ extensions[i - 1].uri # extensions[i].uri
                           \/ extensions[i - 1].encrypt # extensions[i].encrypt})

\* Mutant: the extension with the higher priority is the one that goes.
DiscardTheFirst(extensions) ==
    LET At(uri) == {i \in DOMAIN extensions : extensions[i].uri = uri}
    IN  IF At(AbsSendTime) = {} \/ At(TimestampOffset) = {} THEN extensions
        ELSE Picked(extensions, DOMAIN extensions \ {Min(At(AbsSendTime))})

\* With an absolute send time, the first timestamp offset goes.
DiscardRedundantExtensions(extensions) ==
    LET At(uri) == {i \in DOMAIN extensions : extensions[i].uri = uri}
    IN  IF At(AbsSendTime) = {} \/ At(TimestampOffset) = {} THEN extensions
        ELSE Picked(extensions, DOMAIN extensions \ {Min(At(TimestampOffset))})

FilterRtpExtensions(extensions, supported, redundant) ==
    LET known  == Picked(extensions, {i \in DOMAIN extensions : extensions[i].uri \in supported})
        sorted == SortExtensions(known)
    IN  IF redundant THEN DiscardRedundantExtensions(Unique(sorted)) ELSE sorted

-----------------------------------------------------------------------------
(* The SSRCs of a stream (rtp_config.cc) *)

\* Mutant: the SSRC next to it.
Neighbour(ssrc, ssrcs, associated) ==
    LET i == CHOOSE i \in DOMAIN ssrcs : ssrcs[i] = ssrc
    IN  associated[IF i > 1 THEN i - 1 ELSE i]

\* The SSRC at the place where another list has this one.
FindAssociatedSsrc(ssrc, ssrcs, associated) ==
    associated[CHOOSE i \in DOMAIN ssrcs :
                   ssrcs[i] = ssrc /\ \A j \in 1 .. i - 1 : ssrcs[j] # ssrc]

IsMediaSsrc(config, ssrc) == Contains(config.ssrcs, ssrc)

IsRtxSsrc(config, ssrc) == Contains(config.rtx, ssrc)

IsFlexfecSsrc(config, ssrc) == config.flexfec.type # -1 /\ ssrc = config.flexfec.ssrc

GetRtxSsrcAssociatedWithMediaSsrc(config, ssrc) ==
    IF config.rtx = <<>> THEN -1 ELSE FindAssociatedSsrc(ssrc, config.ssrcs, config.rtx)

GetMediaSsrcAssociatedWithRtxSsrc(config, ssrc) ==
    FindAssociatedSsrc(ssrc, config.rtx, config.ssrcs)

\* FlexFEC protects one SSRC.
GetMediaSsrcAssociatedWithFlexfecSsrc(config) == Head(config.flexfec.protected)

\* A stream may have fewer RIDs than SSRCs.
GetRidForSsrc(config, ssrc) ==
    LET at == {i \in DOMAIN config.ssrcs : config.ssrcs[i] = ssrc}
    IN  IF at = {} \/ Min(at) > Len(config.rids) THEN "none" ELSE config.rids[Min(at)]

\* Stream parameters are a record of the sequences ssrcs and primary and of
\* rtx, the function from primary SSRCs to those of their RTX streams.
ValidateStreamParams(sp) ==
    /\ sp.ssrcs # <<>>
    /\ \A s \in DOMAIN sp.rtx : sp.rtx[s] \in ToSet(sp.ssrcs)
    /\ DOMAIN sp.rtx = {} \/ DOMAIN sp.rtx = ToSet(sp.primary)

-----------------------------------------------------------------------------
(* Statistics: substreams are a function from SSRCs to records of type,    *)
(* media (the SSRC they refer to) and bytes                                *)

\* MergeInfoAboutOutboundRtpSubstreams, the bytes of it: a stream for every
\* media SSRC, and for every SSRC with statistics that another one refers to.
MergeInfoAboutOutboundRtpSubstreams(substreams) ==
    LET media == {s \in DOMAIN substreams : substreams[s].type = "media"}
        extra == {s \in DOMAIN substreams \ media :
                     substreams[s].media \in DOMAIN substreams}
        known == media \cup {substreams[s].media : s \in extra}
        bytes == [s \in DOMAIN substreams |-> substreams[s].bytes]
    IN  [s \in known |->
            (IF s \in media THEN bytes[s] ELSE 0)
            + SumOf(Picked(bytes, {x \in extra : substreams[x].media = s}))]
=============================================================================
