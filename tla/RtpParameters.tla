---------------------------- MODULE RtpParameters ----------------------------
(***************************************************************************)
(* The parameters of a sender as the application may set them              *)
(* (media_engine.cpp, WebRtcVideoSendStream::SetRtpParameters), and what   *)
(* WebRtcVideoSendStream makes of them for its encoder.  Unset stands for  *)
(* an optional field without a value; a scale factor is twice              *)
(* scale_resolution_down_by.                                               *)
(***************************************************************************)
EXTENDS Integers, Sequences, VideoCodecs

Unset == -1

\* kMaxTemporalStreams
MaxTemporalStreams == 4

NewEncoding(ssrc, rid) ==
    [ssrc |-> ssrc, rid |-> rid, active |-> TRUE, min |-> Unset, max |-> Unset,
     fps |-> Unset, scale |-> Unset, tl |-> Unset, priority |-> 1, mode |-> Unset]

\* An encoding for each primary SSRC, with the RIDs if there are any.
CreateRtpParametersWithEncodings(sp) ==
    [encodings |-> [i \in DOMAIN sp.primary |->
                       NewEncoding(sp.primary[i],
                                   IF sp.rids = <<>> THEN Unset ELSE sp.rids[i])],
     cname |-> sp.cname, extensions |-> <<>>, degradation |-> "unset"]

CheckRtpParametersValues(parameters) ==
    \A i \in DOMAIN parameters.encodings :
        LET e == parameters.encodings[i]
        IN  /\ e.priority > 0
            /\ e.scale # Unset => e.scale >= 2
            /\ e.fps # Unset => e.fps >= 0
            /\ e.min # Unset /\ e.max # Unset => e.min <= e.max
            /\ e.tl # Unset => e.tl \in 1 .. MaxTemporalStreams

CheckRtpParametersInvalidModificationAndValues(old, new) ==
    /\ Len(old.encodings) = Len(new.encodings)
    /\ old.cname = new.cname /\ old.extensions = new.extensions
    /\ \A i \in DOMAIN old.encodings :
           /\ old.encodings[i].rid = new.encodings[i].rid
           /\ old.encodings[i].ssrc = new.encodings[i].ssrc
    /\ CheckRtpParametersValues(new)

IsLayerActive(e) == e.active /\ e.max # 0 /\ e.fps # 0

\* Mutant: a change of the temporal layers is overlooked.
WithoutTemporalLayers(old, new) ==
    \E i \in DOMAIN old.encodings :
        LET Constraints(e) == <<e.min, e.max, e.fps, e.scale>>
        IN  Constraints(old.encodings[i]) # Constraints(new.encodings[i])

\* new_param: a constraint of an encoding differs.
HasNewParam(old, new) ==
    \E i \in DOMAIN old.encodings :
        LET Constraints(e) == <<e.min, e.max, e.fps, e.scale, e.tl>>
        IN  Constraints(old.encodings[i]) # Constraints(new.encodings[i])

HasNewSendState(old, new) ==
    \E i \in DOMAIN old.encodings :
        IsLayerActive(old.encodings[i]) # IsLayerActive(new.encodings[i])

\* SetRtpParameters: whether the parameters are taken, which are in force then,
\* whether the encoder is configured anew, whether the stream is told what may
\* be sent, and whether its source is set again.
SetRtpParameters(old, new) ==
    LET taken == CheckRtpParametersInvalidModificationAndValues(old, new)
        First(p) == <<p.encodings[1].priority, p.encodings[1].mode>>
    IN  [taken |-> taken,
         parameters |-> IF taken THEN new ELSE old,
         reconfigured |-> /\ taken
                          /\ \/ HasNewParam(old, new)
                             \/ First(old) # First(new)
                             \/ HasNewSendState(old, new),
         updated |-> taken /\ HasNewSendState(old, new),
         sourced |-> taken /\ old.degradation # new.degradation]

-----------------------------------------------------------------------------
(* What the encoder is told *)

\* No codec may do simulcast in this program, and none may resize.
IsCodecDisabledForSimulcast == TRUE

DisableAutomaticResize == TRUE

\* Of a single stream for several encodings any that is active makes the
\* stream active (UpdateSendState).
IsStreamActive(parameters) ==
    IF Len(parameters.encodings) = 1 THEN IsLayerActive(parameters.encodings[1])
    ELSE \E i \in DOMAIN parameters.encodings : parameters.encodings[i].active

NumActiveStreams(parameters) ==
    Len(SelectSeq(parameters.encodings, LAMBDA e : e.active))

\* is_quality_scaling_allowed of CreateVideoEncoderConfig.
IsQualityScalingAllowed(parameters, screencast) ==
    /\ ~DisableAutomaticResize /\ ~screencast
    /\ Len(parameters.encodings) = 1 \/ NumActiveStreams(parameters) = 1

\* The cap of all streams: that of the session description, that of the only
\* encoding if it is lower, or that of the codec if there is no other.
MaxBitrate(parameters, bandwidth, codecMax) ==
    LET first == parameters.encodings[1].max
        max == IF Len(parameters.encodings) = 1 /\ first # Unset
               THEN MinPositive(first, bandwidth) ELSE bandwidth
    IN  IF max = Unset /\ codecMax # Unset THEN codecMax ELSE max

\* CreateVideoEncoderConfig: the encoder's configuration, with 0 where nothing is
\* set; a stream has as many SSRCs as encodings.
EncoderConfig(codec, parameters, screencast, conference, bandwidth, codecMax) ==
    LET Given(n) == IF n = Unset THEN 0 ELSE n
    IN  [codec |-> codec, screenshare |-> screencast, conference |-> conference,
         max |-> MaxBitrate(parameters, bandwidth, codecMax),
         streams |-> IF IsCodecDisabledForSimulcast THEN 1 ELSE Len(parameters.encodings),
         priority |-> parameters.encodings[1].priority,
         scaling |-> IsQualityScalingAllowed(parameters, screencast),
         layers |-> [i \in DOMAIN parameters.encodings |->
                        LET e == parameters.encodings[i]
                        IN  [active |-> e.active, mode |-> e.mode, min |-> Given(e.min),
                             max |-> Given(e.max), fps |-> Given(e.fps),
                             scale |-> Given(e.scale), tl |-> Given(e.tl)]]]

\* The codecs' own settings.  H264 has neither resizing nor denoising, VP9
\* always drops frames, any other codec has no settings at all.  Noise is
\* reduced by default.
ConfigureVideoEncoderSettings(codec, parameters, screencast, noiseReduction) ==
    LET resize == /\ ~DisableAutomaticResize /\ ~screencast
                  /\ Len(parameters.encodings) = 1 \/ NumActiveStreams(parameters) = 1
        denoise == ~screencast /\ noiseReduction # "off"
    IN  CASE codec = "H264" -> [resize |-> FALSE, denoise |-> FALSE, drop |-> ~screencast]
          [] codec = "VP8" -> [resize |-> resize, denoise |-> denoise, drop |-> ~screencast]
          [] codec = "VP9" -> [resize |-> resize, denoise |-> denoise, drop |-> TRUE]
          [] OTHER -> [resize |-> FALSE, denoise |-> FALSE, drop |-> FALSE]

\* What is given up first when the encoder is too slow.
GetDegradationPreference(detection, parameters, hint, screencast) ==
    CASE ~detection -> "disabled"
      [] detection /\ parameters.degradation # "unset" -> parameters.degradation
      [] detection /\ parameters.degradation = "unset" /\ hint # "fluid"
             /\ (screencast \/ hint \in {"detailed", "text"}) -> "maintain-resolution"
      [] OTHER -> "maintain-framerate"
=============================================================================
