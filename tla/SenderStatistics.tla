-------------------------- MODULE SenderStatistics --------------------------
(***************************************************************************)
(* What a channel reports of its send streams                              *)
(* (WebRtcVideoChannel::FillSenderStats).  The counters of a report are    *)
(* all treated alike and bytes stands for them; width stands for the two   *)
(* sizes and qp for the sum that may be missing.                           *)
(***************************************************************************)
EXTENDS VideoCodecs

NoQp == -1

\* The part that is the same for every layer; a report names its SSRCs.
CommonInfo ==
    [ssrcs |-> {}, rid |-> "", bytes |-> 0, width |-> 0, qp |-> NoQp]

\* One report for each media stream, or one for all of them while nothing
\* has been counted or there is no stream to ask.
GetPerLayerVideoSenderInfos(config, hasStream, substreams) ==
    LET merged == MergeInfoAboutOutboundRtpSubstreams(substreams)
        Known(s, field, default) ==
            IF s \in DOMAIN substreams THEN substreams[s][field] ELSE default
        Info(s) == [CommonInfo EXCEPT !.ssrcs = {s}, !.rid = GetRidForSsrc(config, s),
                                      !.bytes = merged[s],
                                      !.width = Known(s, "width", 0), !.qp = Known(s, "qp", NoQp)]
    IN  IF ~hasStream \/ DOMAIN substreams = {}
        THEN <<[CommonInfo EXCEPT !.ssrcs = ToSet(config.ssrcs)]>>
        ELSE [n \in 1 .. Cardinality(DOMAIN merged) |-> Info(Nth(DOMAIN merged, n))]

\* One more report; a sum of quantisers appears with the first that has one.
AddInfo(sum, info) ==
    [sum EXCEPT !.bytes = @ + info.bytes,
                !.width = IF info.width > @ THEN info.width ELSE @,
                !.qp = IF info.qp = NoQp THEN @ ELSE (IF @ = NoQp THEN 0 ELSE @) + info.qp]

\* The reports of one stream taken together; after is what each of them leaves.
GetAggregatedVideoSenderInfo(config, infos) ==
    LET first == [infos[1] EXCEPT !.ssrcs = ToSet(config.ssrcs)]
        after[n \in 1 .. Len(infos)] ==
            IF n = 1 THEN first ELSE AddInfo(after[n - 1], infos[n])
    IN  IF Len(infos) = 1 THEN infos[1] ELSE after[Len(infos)]

\* A stream without reports is passed over.
FillSenderStats(config, hasStream, substreams) ==
    LET infos == GetPerLayerVideoSenderInfos(config, hasStream, substreams)
    IN  [senders |-> infos,
         aggregated |-> IF infos = <<>> THEN <<>>
                        ELSE <<GetAggregatedVideoSenderInfo(config, infos)>>]
=============================================================================
