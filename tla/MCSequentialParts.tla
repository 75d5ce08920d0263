-------------------------- MODULE MCSequentialParts --------------------------
(* An instance of SequentialParts for TLC. *)
EXTENDS SequentialParts

MCSizes == {<<1280, 720>>, <<1923, 1081>>, <<640, 360>>, <<37, 21>>}

Layer(active, min, max, scale) ==
    [active |-> active, min |-> min, max |-> max, tl |-> IF active THEN 0 ELSE 2,
     fps |-> IF active THEN 30 ELSE 0, mode |-> -1, scale |-> scale]

\* For every layer no rate set, a minimum or a maximum; or both for all layers.
Rates == [1 .. 3 -> {<<0, 0>>, <<900, 0>>, <<0, 300>>}] \cup {[i \in 1 .. 3 |-> <<100, 2000>>]}

\* Twice scale_resolution_down_by: not set, powers of two, and others.
ScaleFactors == {<<0, 0, 0>>, <<8, 4, 2>>, <<6, 3, 2>>}

Modes == {[codec |-> "VP8", screenshare |-> FALSE, conference |-> FALSE],
          [codec |-> "H264", screenshare |-> TRUE, conference |-> TRUE],
          [codec |-> "AV1", screenshare |-> TRUE, conference |-> TRUE],
          [codec |-> "VP9", screenshare |-> TRUE, conference |-> FALSE]}

\* As many streams as layers; and one stream for three layers.
MCConfigs ==
    {[codec |-> m.codec, screenshare |-> m.screenshare, conference |-> m.conference,
      max |-> cap, streams |-> n[1],
      layers |-> [i \in 1 .. n[2] |-> Layer(a[i], r[i][1], r[i][2], s[i])]] :
        m \in Modes, cap \in {0, 6000}, n \in {<<1, 1>>, <<2, 2>>, <<3, 3>>, <<1, 3>>},
        s \in ScaleFactors, a \in [1 .. 3 -> BOOLEAN], r \in Rates}

\* Among them exponents that are too small for three streams and large enough,
\* and minimums that the lowest layer can and cannot have.
MCTrials ==
    {[lowres |-> FALSE, limit |-> TRUE, roundUp |-> kDefaultMaxRoundupRate,
      exponent |-> -1, minimum |-> -1, temporal |-> 0, screenTemporal |-> 0,
      baseHeavy |-> FALSE],
     [lowres |-> TRUE, limit |-> FALSE, roundUp |-> kDefaultMaxRoundupRate,
      exponent |-> 1, minimum |-> 100, temporal |-> 4, screenTemporal |-> 4,
      baseHeavy |-> TRUE],
     [lowres |-> TRUE, limit |-> TRUE, roundUp |-> 50,
      exponent |-> 5, minimum |-> 5000, temporal |-> 2, screenTemporal |-> 3,
      baseHeavy |-> FALSE]}

\* Up to 30 formats, with the new kind in front and at the end.
MCFormatLists ==
    {[i \in 1 .. old + new |-> IF (i <= new) = front THEN "AV1" ELSE "VP8"] :
        old \in 0 .. 30, new \in 0 .. 16, front \in {TRUE}}
    \cup {[i \in 1 .. old + new |-> IF i <= old THEN "VP8" ELSE "AV1"] :
        old \in 0 .. 30, new \in 0 .. 16}

SomeCodecs ==
    {Codec("VP8", 96, NoParams), Codec("VP9", 98, NoParams), Codec("red", 100, NoParams),
     Codec("ulpfec", 101, NoParams), Codec("flexfec", 98, NoParams),
     Codec("rtx", 97, [p \in {"apt", "rtx-time"} |-> IF p = "apt" THEN 96 ELSE 500]),
     Codec("rtx", 98, [p \in {"apt"} |-> 96]),
     Codec("rtx", 99, [p \in {"apt"} |-> 98]),
     Codec("rtx", 102, [p \in {"apt"} |-> 100]),
     Codec("rtx", 103, NoParams)}

MCCodecLists == UNION {[1 .. n -> SomeCodecs] : n \in 0 .. 4}

MCRemoteLists ==
    UNION {[1 .. n -> {Codec("VP8", 96, NoParams), Codec("VP8", 97, NoParams),
                       Codec("H264", 98, NoParams),
                       Codec("H264", 99, [p \in {"profile"} |-> 1]),
                       Codec("rtx", 100, [p \in {"apt"} |-> 96])}] : n \in 0 .. 3}

MCLocalLists ==
    UNION {[1 .. n -> {[name |-> "VP8", params |-> NoParams],
                       [name |-> "H264", params |-> [p \in {"profile", "mode"} |-> 1]],
                       [name |-> "H264", params |-> NoParams]}] : n \in 0 .. 3}

MCExtensionLists ==
    UNION {[1 .. n -> [uri : 1 .. 4, id : 1 .. 4, encrypt : BOOLEAN]] : n \in 0 .. 3}

MCSupported == 1 .. 3

Rtp(ssrcs, rtx, rids, type) ==
    [ssrcs |-> ssrcs, rtx |-> rtx, rids |-> rids,
     flexfec |-> [type |-> type, ssrc |-> 64, protected |-> <<1>>]]

MCRtpConfigs ==
    {Rtp(<<1, 2, 4>>, <<8, 16, 32>>, <<"lo", "mid", "hi">>, -1),
     Rtp(<<1, 2>>, <<8, 16>>, <<>>, -1), Rtp(<<1>>, <<8>>, <<>>, 118),
     Rtp(<<1>>, <<>>, <<>>, 118), Rtp(<<1, 2, 4>>, <<>>, <<>>, -1)}

MCOfferOptions == [audio : Directions, video : Directions, mux : BOOLEAN]

\* Candidates with an IPv4 and an IPv6 address and one cut short, fingerprints,
\* credentials without a value, a section for data and a line cut short.
MCExtraLines ==
    {[line |-> "candidate", value |-> "v4", colons |-> 1, fields |-> 8],
     [line |-> "candidate", value |-> "v6", colons |-> 5, fields |-> 8],
     [line |-> "candidate", value |-> "short", colons |-> 1, fields |-> 7],
     [line |-> "fingerprint", value |-> "other"],
     [line |-> "fingerprint", value |-> "undecodable"],
     [line |-> "fingerprint", value |-> "malformed"],
     [line |-> "ufrag", value |-> ""],
     [line |-> "m", name |-> "application", types |-> <<0>>],
     [line |-> "m", name |-> "cut", types |-> <<>>]}

Created ==
    {CreateRtpParametersWithEncodings([primary |-> <<1, 2>>, rids |-> rids, cname |-> "c"]) :
        rids \in {<<>>, <<7, 8>>}}
    \cup {CreateRtpParametersWithEncodings([primary |-> <<1>>, rids |-> <<>>, cname |-> "c"])}

\* One field of one encoding with another value.
Varied(p) ==
    {p, [p EXCEPT !.degradation = "maintain-resolution"],
     [p EXCEPT !.degradation = "maintain-framerate"]} \cup UNION {
        {[p EXCEPT !.encodings[i].active = FALSE], [p EXCEPT !.encodings[i].mode = 1],
         [p EXCEPT !.encodings[i].ssrc = 9], [p EXCEPT !.encodings[i].rid = 9]}
        \cup {[p EXCEPT !.encodings[i].min = v] : v \in {0, 500}}
        \cup {[p EXCEPT !.encodings[i].max = v] : v \in {0, 300}}
        \cup {[p EXCEPT !.encodings[i].fps = v] : v \in {-2, 0, 30}}
        \cup {[p EXCEPT !.encodings[i].scale = v] : v \in {1, 4}}
        \cup {[p EXCEPT !.encodings[i].tl = v] : v \in {0, 1, 4, 5}}
        \cup {[p EXCEPT !.encodings[i].priority = v] : v \in {0, 2}} :
            i \in DOMAIN p.encodings}

MCParameterSets ==
    {q \in UNION {Varied(p) : p \in Created} :
        \E p \in Created : SetRtpParameters(p, q).taken}

MCNewParameters ==
    UNION {Varied(q) : q \in UNION {Varied(p) : p \in Created}}
    \cup {[p EXCEPT !.cname = "d"] : p \in Created}

MCBandwidths == {Unset, 500}

MCPolicies == {"balanced", "max-bundle"}

Group(semantics, names) == [semantics |-> semantics, names |-> names]

\* Up to two groups, perhaps with a mid in common, one of them perhaps no bundle.
MCGroupLists ==
    UNION {[1 .. n -> {Group("BUNDLE", names) :
                          names \in {<<"a">>, <<"b">>, <<"a", "b">>, <<"c", "a">>,
                                     <<"c", "b", "a">>}}
                      \cup {Group("LS", <<"b">>)}] : n \in 0 .. 2}
=============================================================================
