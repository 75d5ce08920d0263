---------------------------- MODULE EncoderStreams ----------------------------
(***************************************************************************)
(* What the encoder is asked to produce: EncoderStreamFactory              *)
(* (engine/webrtc_video_engine.cpp) and the simulcast layers it starts     *)
(* from (engine/simulcast.cpp).  Bit rates are in kbit/s, interpolated     *)
(* ones rounded down; 0 stands for a rate or number that is not set.       *)
(*                                                                         *)
(* An encoder configuration is a record with the fields codec,             *)
(* screenshare, conference, max (the cap for all streams), streams (how    *)
(* many there are to be) and layers, a sequence with one record for each   *)
(* encoding: active, min, max, tl (temporal layers), fps, mode (the        *)
(* scalability mode) and scale, which is twice scale_resolution_down_by.   *)
(* The field trials are a record too: lowres, limit, roundUp (per cent),   *)
(* exponent, minimum, temporal, screenTemporal and baseHeavy; exponent and *)
(* minimum are negative where the trial says nothing.                      *)
(***************************************************************************)
EXTENDS Integers, Sequences, Lists

MaxOf(a, b) == IF a >= b THEN a ELSE b

MinOf(a, b) == IF a <= b THEN a ELSE b

Format(width, height, layers, max, target, min) ==
    [width |-> width, height |-> height, layers |-> layers,
     max |-> max, target |-> target, min |-> min]

kSimulcastFormats ==
    <<Format(1920, 1080, 3, 5000, 4000, 800),
      Format(1280, 720, 3, 2500, 2500, 600),
      Format(960, 540, 3, 1200, 1200, 350),
      Format(640, 360, 2, 700, 500, 150),
      Format(480, 270, 2, 450, 350, 150),
      Format(320, 180, 1, 200, 150, 30),
      Format(0, 0, 1, 0, 0, 30)>>

\* Without the trial the lowest resolution has the rates of the one above.
GetSimulcastFormats(lowres) ==
    IF lowres THEN kSimulcastFormats
    ELSE [kSimulcastFormats EXCEPT ![7].max = kSimulcastFormats[6].max,
                                   ![7].target = kSimulcastFormats[6].target,
                                   ![7].min = kSimulcastFormats[6].min]

Pixels(format) == format.width * format.height

FindSimulcastFormatIndex(width, height) ==
    CHOOSE i \in 1 .. 7 :
        /\ width * height >= Pixels(kSimulcastFormats[i])
        /\ \A j \in 1 .. i - 1 : width * height < Pixels(kSimulcastFormats[j])

\* Per cent.
kDefaultMaxRoundupRate == 10

\* The rates go linearly from one resolution of the table to the next, the
\* number of layers is that of the upper one within roundUp of the way.
InterpolateSimulcastFormat(width, height, roundUp, lowres) ==
    LET formats == GetSimulcastFormats(lowres)
        index   == FindSimulcastFormatIndex(width, height)
        up      == formats[index - 1]
        down    == formats[index]
        way     == (Pixels(up) - Pixels(down)) \div 16
        gone    == (Pixels(up) - width * height) \div 16
        Between(a, b) == a + ((b - a) * gone) \div way
    IN  IF index = 1 THEN formats[1]
        ELSE Format(width, height,
                    IF 100 * (Pixels(up) - width * height)
                           < roundUp * (Pixels(up) - Pixels(down))
                    THEN up.layers ELSE down.layers,
                    Between(up.max, down.max),
                    Between(up.target, down.target),
                    Between(up.min, down.min))

RoundedDown(size, factor) == (size \div factor) * factor

\* The largest multiple of 2 ^ (layers - 1) that is not larger than size, or of
\* another power of two that an experiment asks for.
NormalizeSimulcastSize(size, layers, trials) ==
    RoundedDown(size, 2 ^ (IF trials.exponent >= 0 /\ size > 2 ^ trials.exponent
                           THEN trials.exponent ELSE layers - 1))

\* The trial's number, if it is one of 1 .. kMaxTemporalStreams.
DefaultNumberOfTemporalLayers(screenshare, trials) ==
    LET wanted == IF screenshare THEN trials.screenTemporal ELSE trials.temporal
    IN  IF wanted \in 1 .. 4 THEN wanted ELSE IF screenshare THEN 2 ELSE 3

\* Percentage of the rate that goes to the first of n temporal layers.
BaseLayerShare(n, baseHeavy) ==
    CASE n = 1 -> 100
      [] n = 2 -> 60
      [] n = 3 -> IF baseHeavy THEN 60 ELSE 40
      [] OTHER -> 25

LimitSimulcastLayerCount(width, height, need, count, trials) ==
    IF ~trials.limit THEN count
    ELSE MinOf(count,
               MaxOf(need, InterpolateSimulcastFormat(width, height, trials.roundUp,
                                                      trials.lowres).layers))

\* The rate of the lowest stream, with the base temporal layer it would have
\* had in a stream of three.
BaseRate(rate, trials) ==
    LET n == DefaultNumberOfTemporalLayers(FALSE, trials)
    IN  IF n = 3 THEN IF trials.baseHeavy THEN (rate * 2) \div 3 ELSE rate
        ELSE (rate * BaseLayerShare(3, FALSE)) \div BaseLayerShare(n, FALSE)

NormalLayer(width, height, lowest, temporal, trials) ==
    LET format == InterpolateSimulcastFormat(width, height, kDefaultMaxRoundupRate,
                                             trials.lowres)
        Rate(r) == MaxOf(format.min, IF lowest THEN BaseRate(r, trials) ELSE r)
    IN  [width |-> width, height |-> height, min |-> format.min,
         max |-> Rate(format.max), target |-> Rate(format.target),
         tl |-> IF temporal THEN DefaultNumberOfTemporalLayers(FALSE, trials) ELSE 1,
         fps |-> 60, active |-> TRUE]

\* From the lowest resolution, which is halved once per layer above it.
GetNormalSimulcastLayers(count, width, height, temporal, trials) ==
    [s \in 1 .. count |->
        NormalLayer(NormalizeSimulcastSize(width, count, trials) \div (2 ^ (count - s)),
                    NormalizeSimulcastSize(height, count, trials) \div (2 ^ (count - s)),
                    s = 1, temporal, trials)]

\* Legacy screen sharing: a slow layer of 200 to 1000 kbit/s, and one above it.
GetScreenshareLayers(max, width, height, temporal, trials) ==
    LET n      == DefaultNumberOfTemporalLayers(TRUE, trials)
        boost  == temporal /\ (n # 3 \/ trials.baseHeavy)
        high   == CASE ~temporal -> (1250 * BaseLayerShare(n, trials.baseHeavy)) \div 100
                    [] boost -> 1250
                    [] OTHER -> 2 * ((200 * 10) \div 4)
        lower  == [width |-> width, height |-> height, min |-> 30, target |-> 200,
                   max |-> 1000, tl |-> IF temporal THEN 2 ELSE 1,
                   fps |-> 5, active |-> TRUE]
        higher == [width |-> width, height |-> height,
                   min |-> IF boost THEN 600 ELSE 400, target |-> high,
                   max |-> high, tl |-> IF temporal THEN n ELSE 1,
                   fps |-> 60, active |-> TRUE]
    IN  IF max >= 2 THEN <<lower, higher>> ELSE <<lower>>

GetSimulcastConfig(need, max, width, height, legacy, temporal, trials) ==
    IF legacy THEN GetScreenshareLayers(max, width, height, temporal, trials)
    ELSE GetNormalSimulcastLayers(
             LimitSimulcastLayerCount(width, height, need, max, trials),
             width, height, temporal, trials)

\* All but the highest layer at their target, the highest at its maximum.
GetTotalMaxBitrate(layers) ==
    SumOf([i \in 1 .. Len(layers) - 1 |-> layers[i].target]) + layers[Len(layers)].max

BoostMaxSimulcastLayer(max, layers) ==
    LET left == max - GetTotalMaxBitrate(layers)
    IN  IF left <= 0 THEN layers
        ELSE [layers EXCEPT ![Len(layers)].max = @ + left]

-----------------------------------------------------------------------------
(* EncoderStreamFactory *)

kMinLayerSize == 16

PowerOfTwo(n) == \E e \in 0 .. 30 : n = 2 ^ e

Scale(layer) == MaxOf(layer.scale, 2)

IsScaleFactorsPowerOfTwo(config) ==
    \A i \in DOMAIN config.layers :
        Scale(config.layers[i]) % 2 = 0 /\ PowerOfTwo(Scale(config.layers[i]) \div 2)

\* The layers up to the first active one.
FindRequiredActiveLayers(config) ==
    IF \A i \in 1 .. config.streams : ~config.layers[i].active THEN 0
    ELSE CHOOSE i \in 1 .. config.streams :
             /\ config.layers[i].active
             /\ \A j \in 1 .. i - 1 : ~config.layers[j].active

GetMaxDefaultVideoBitrateKbps(width, height, screenshare) ==
    LET pixels == width * height
        max == IF pixels <= 320 * 240 THEN 600
               ELSE IF pixels <= 640 * 480 THEN 1700
               ELSE IF pixels <= 960 * 540 THEN 2000 ELSE 2500
    IN  IF screenshare THEN MaxOf(max, 1200) ELSE max

IsTemporalLayersSupported(codec) == codec \in {"VP8", "VP9"}

Scaled(size, layer) == MaxOf((2 * size) \div Scale(layer), kMinLayerSize)

CreateDefaultVideoStreams(width, height, config, trials) ==
    LET layer == config.layers[1]
        least == IF trials.minimum >= 0 THEN trials.minimum ELSE 30
        cap == IF config.max > 0 THEN config.max
               ELSE MaxOf(layer.min,
                          GetMaxDefaultVideoBitrateKbps(width, height, config.screenshare))
    IN  <<[width |-> IF layer.scale > 2 THEN Scaled(width, layer) ELSE width,
           height |-> IF layer.scale > 2 THEN Scaled(height, layer) ELSE height,
           min |-> MinOf(IF layer.min > 0 THEN layer.min ELSE least, cap),
           target |-> cap, max |-> cap,
           tl |-> IF IsTemporalLayersSupported(config.codec) /\ layer.tl > 0 THEN layer.tl
                  ELSE IF config.codec = "VP9" THEN 1 ELSE 0,
           fps |-> IF layer.fps > 0 THEN layer.fps ELSE 60,
           mode |-> layer.mode, active |-> TRUE]>>

\* A layer with the minimum and maximum the application has configured.
Configured(layer, wanted) ==
    LET min == IF wanted.min > 0 THEN wanted.min ELSE layer.min
        max == IF wanted.max > 0 THEN wanted.max ELSE layer.max
        most == (max * 3) \div 4
        low == MinOf(min, max)
    IN  CASE wanted.min > 0 /\ wanted.max > 0 ->
               [layer EXCEPT !.min = min, !.max = max,
                             !.target = IF most < min THEN max ELSE most]
          [] wanted.min > 0 /\ wanted.max <= 0 ->
               [layer EXCEPT !.min = min, !.max = MaxOf(max, min),
                             !.target = MaxOf(@, min)]
          [] wanted.min <= 0 /\ wanted.max > 0 ->
               [layer EXCEPT !.min = low, !.max = max,
                             !.target = MaxOf(MinOf(MaxOf(@, most), max), low)]
          [] OTHER -> layer

\* Positions of the layers from the smallest maximum up, equal ones in order.
ByMaxBitrate(layers) ==
    LET places == DOMAIN layers
        order  == {pair \in places \X places :
                      \/ layers[pair[1]].max < layers[pair[2]].max
                      \/ layers[pair[1]].max = layers[pair[2]].max /\ pair[1] < pair[2]}
    IN  [n \in places |-> InOrder(places, order, n)]

\* Mutant: the lowest layer's minimum goes to the layer next to it.
HandToTheNext(layers) ==
    LET index == ByMaxBitrate(layers)
    IN  IF layers[index[1]].active \/ Len(layers) = 1 THEN layers
        ELSE [layers EXCEPT ![index[2]].min = layers[index[1]].min]

\* The first active layer may go as low as the lowest, inactive one could.
HandDownMinimum(layers) ==
    LET index  == ByMaxBitrate(layers)
        active == {i \in DOMAIN index : layers[index[i]].active}
        first  == CHOOSE i \in active : \A j \in active : i <= j
    IN  IF 1 \in active \/ active = {} THEN layers
        ELSE [layers EXCEPT ![index[first]].min = layers[index[1]].min]

\* An experiment may set the minimum of the lowest layer.
WithMinimum(layers, trials) ==
    IF trials.minimum >= 0 THEN [layers EXCEPT ![1].min = trials.minimum] ELSE layers

\* The layers of GetSimulcastConfig, each as the application has configured it.
AdjustedLayers(width, height, config, trials) ==
    LET base == WithMinimum(
                    GetSimulcastConfig(FindRequiredActiveLayers(config), config.streams,
                                       width, height,
                                       config.screenshare /\ config.conference,
                                       config.codec \in {"VP8", "H264"}, trials), trials)
        scaled == \E i \in DOMAIN config.layers : config.layers[i].scale # 0
        Norm(size) == IF ~scaled \/ IsScaleFactorsPowerOfTwo(config) \/ trials.exponent >= 0
                      THEN NormalizeSimulcastSize(size, config.streams, trials) ELSE size
        Sized(layer, wanted) ==
            IF ~scaled THEN layer
            ELSE [layer EXCEPT !.width = Scaled(Norm(width), wanted),
                               !.height = Scaled(Norm(height), wanted)]
        Set(layer, wanted) ==
            [layer EXCEPT !.active = wanted.active,
                          !.tl = IF wanted.tl > 0 /\ IsTemporalLayersSupported(config.codec)
                                 THEN wanted.tl ELSE @,
                          !.fps = IF wanted.fps > 0 THEN wanted.fps ELSE @]
    IN  [i \in DOMAIN base |->
            Configured(Sized(Set(base[i], config.layers[i]), config.layers[i]),
                       config.layers[i])]

\* The cap, where the highest layer has no maximum of its own.
UpToTheCap(layers, config) ==
    IF ~config.screenshare /\ config.max > 0 /\ config.layers[Len(layers)].max = 0
    THEN BoostMaxSimulcastLayer(config.max, layers) ELSE layers

CreateSimulcastStreams(width, height, config, trials) ==
    HandDownMinimum(UpToTheCap(AdjustedLayers(width, height, config, trials), config))

CreateEncoderStreams(width, height, config, trials) ==
    IF \/ config.streams > 1
       \/ config.codec \in {"VP8", "H264"} /\ config.screenshare /\ config.conference
    THEN CreateSimulcastStreams(width, height, config, trials)
    ELSE CreateDefaultVideoStreams(width, height, config, trials)
=============================================================================
