---------------------------- MODULE MCVideoChannel ----------------------------
(* An instance of VideoChannel for TLC. *)
EXTENDS VideoChannel

Vp8 == Codec("VP8", 96, NoParams)

Vp8Capped == Codec("VP8", 96, [p \in {"x-google-max-bitrate"} |-> 700])

Rtx == Codec("rtx", 97, [p \in {"apt"} |-> 96])

H264 == Codec("H264", 98, NoParams)

H264InMode == Codec("H264", 98, [p \in {"packetization-mode"} |-> 1])

Flexfec(id) == Codec("flexfec", id, NoParams)

Send(codecs, active, extensions, mid, max, conference, reduced) ==
    [codecs |-> codecs, active |-> active, extensions |-> extensions,
     mixed |-> mid = 2, mid |-> mid, max |-> max, conference |-> conference,
     reduced |-> reduced]

AbsTime == [uri |-> 1, id |-> 1, encrypt |-> FALSE]

\* An offer and its variations, and one with no common codec.
MCSendParameters ==
    {Send(<<Vp8Capped, Rtx, H264InMode>>, TRUE, <<AbsTime>>, 1, -1, FALSE, FALSE),
     Send(<<H264, Vp8>>, TRUE, <<>>, 2, 500, TRUE, TRUE),
     Send(<<Codec("VP9", 100, NoParams)>>, FALSE, <<AbsTime>>, 1, 0, FALSE, TRUE)}

MCRecvParameters ==
    {[codecs |-> <<Vp8, H264, Flexfec(99)>>, active |-> TRUE, extensions |-> <<AbsTime>>],
     [codecs |-> <<H264, Vp8, Flexfec(101)>>, active |-> TRUE, extensions |-> <<AbsTime>>]}

Pair(a, b) == [s \in {a} |-> b]

\* A stream with RTX, a simulcast stream and one that shares an SSRC with each.
MCStreamParams ==
    {[ssrcs |-> <<10, 11>>, primary |-> <<10>>, rtx |-> Pair(10, 11)],
     [ssrcs |-> <<20, 21>>, primary |-> <<20, 21>>, rtx |-> [s \in {} |-> 0]],
     [ssrcs |-> <<10, 21>>, primary |-> <<10>>, rtx |-> Pair(10, 21)]}

MCEncoderFormats == <<[name |-> "VP8", params |-> NoParams],
                      [name |-> "H264", params |-> NoParams]>>

MCDecoderNames == <<"VP8", "H264">>

\* One of the descriptions has the parameter.
MCSwitchRequests == {[name |-> "H264", param |-> "packetization-mode", value |-> 1]}

MCSwitchFormats == {[name |-> "VP8", params |-> [p \in {"mode"} |-> 1]]}
=============================================================================
