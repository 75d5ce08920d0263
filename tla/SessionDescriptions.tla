------------------------- MODULE SessionDescriptions -------------------------
(***************************************************************************)
(* Session descriptions as text: what create_offer puts into one and       *)
(* SessionDescription::ToString writes, and what set_remote_sdp reads      *)
(* (cp2p_peerconnection.cpp, csession_description.cpp).  A line of text is *)
(* a record whose field line tells its kind.                               *)
(***************************************************************************)
EXTENDS Integers, Sequences, SequencesExt, FiniteSetsExt

NoFingerprint == "none"

\* A TransportInfo as it is constructed; nobody has given it a name.
NoTransport == [name |-> "", ufrag |-> "", pwd |-> "", fingerprint |-> NoFingerprint]

\* What options.audio and options.video may be.
Directions == {"none", "send", "recv", "both"}

Offers(direction) == direction # "none"

Sends(direction) == direction \in {"send", "both"}

OwnTransport(name) ==
    [name |-> name, ufrag |-> "ufrag", pwd |-> "pwd", fingerprint |-> "own"]

\* The only codec for audio; H264 and its retransmission for video.
AudioCodecs == <<[type |-> 111, apt |-> 0]>>

VideoCodecsOffered == <<[type |-> 107, apt |-> 0], [type |-> 99, apt |-> 107]>>

AudioStreams == <<[ssrcs |-> <<11>>, group |-> <<>>]>>

\* The media and the retransmissions are two streams.
VideoStreams ==
    <<[ssrcs |-> <<21>>, group |-> <<21, 22>>], [ssrcs |-> <<22>>, group |-> <<>>]>>

\* create_offer: a section for each medium, and one bundle of all of them.
\* Streams are there if the medium is sent; video has no codecs without.
CreateOffer(options) ==
    LET audio == [name |-> "audio", codecs |-> AudioCodecs,
                  streams |-> IF Sends(options.audio) THEN AudioStreams ELSE <<>>]
        video == [name |-> "video",
                  codecs |-> IF Sends(options.video) THEN VideoCodecsOffered ELSE <<>>,
                  streams |-> IF Sends(options.video) THEN VideoStreams ELSE <<>>]
        contents == (IF Offers(options.audio) THEN <<audio>> ELSE <<>>)
                    \o (IF Offers(options.video) THEN <<video>> ELSE <<>>)
        names == [i \in DOMAIN contents |-> contents[i].name]
    IN  [contents |-> contents,
         transports |-> [i \in DOMAIN contents |-> OwnTransport(names[i])],
         groups |-> IF options.mux /\ names # <<>> THEN <<names>> ELSE <<>>]

\* The first transport of a name.
GetTransportInfoByName(desc, name) ==
    LET at == {i \in DOMAIN desc.transports : desc.transports[i].name = name}
    IN  IF at = {} THEN NoTransport ELSE desc.transports[Min(at)]

TransportLines(transport) ==
    <<[line |-> "ufrag", value |-> transport.ufrag],
      [line |-> "pwd", value |-> transport.pwd]>>
    \o IF transport.fingerprint = NoFingerprint THEN <<>>
       ELSE <<[line |-> "fingerprint", value |-> transport.fingerprint]>>

\* BuildRtpMap: every codec's mapping and parameters.
CodecLines(content) ==
    FlattenSeq([i \in DOMAIN content.codecs |->
        <<[line |-> "rtpmap", type |-> content.codecs[i].type],
          [line |-> "fmtp", type |-> content.codecs[i].type, apt |-> content.codecs[i].apt]>>])

\* BuildSsrc: the groups of a stream, then its SSRCs.
StreamLines(content) ==
    FlattenSeq([i \in DOMAIN content.streams |->
        LET stream == content.streams[i]
        IN  (IF stream.group = <<>> THEN <<>>
             ELSE <<[line |-> "ssrc-group", ssrcs |-> stream.group]>>)
            \o [k \in DOMAIN stream.ssrcs |-> [line |-> "ssrc", ssrc |-> stream.ssrcs[k]]]])

MediaLine(content) ==
    [line |-> "m", name |-> content.name,
     types |-> [i \in DOMAIN content.codecs |-> content.codecs[i].type]]

\* Mutant: the transport is written in front of the section's m= line.
TransportFirst(desc, content) ==
    TransportLines(GetTransportInfoByName(desc, content.name))
    \o <<MediaLine(content)>> \o CodecLines(content) \o StreamLines(content)

SectionLines(desc, content) ==
    <<MediaLine(content)>> \o TransportLines(GetTransportInfoByName(desc, content.name))
    \o CodecLines(content) \o StreamLines(content)

SdpLines(desc) ==
    (IF desc.groups = <<>> THEN <<>> ELSE <<[line |-> "group", names |-> desc.groups[1]]>>)
    \o FlattenSeq([i \in DOMAIN desc.contents |-> SectionLines(desc, desc.contents[i])])

-----------------------------------------------------------------------------
(* Reading *)

Unread ==
    [ok |-> TRUE,        \* set_remote_sdp has not returned -1
     defined |-> TRUE,   \* no element past the end of a line was read
     mid |-> "",         \* the section the lines belong to
     audio |-> NoTransport, video |-> NoTransport,
     types |-> [audio |-> 0, video |-> 0],   \* audio_pt_, video_pt_
     groups |-> <<>>, candidates |-> <<>>]

\* An m= line: items[3] is the first payload type.  The name "cut" stands for a
\* line of no more than two words, which ends the reading.
ReadMedia(acc, line) ==
    CASE line.name = "cut" -> [acc EXCEPT !.ok = FALSE]
      [] line.name \in {"audio", "video"} ->
           [acc EXCEPT !.mid = line.name,
                       ![line.name].name = line.name,
                       !.defined = @ /\ line.types # <<>>,
                       !.types[line.name] = IF line.types = <<>> THEN @ ELSE line.types[1]]
      [] OTHER -> [acc EXCEPT !.mid = line.name]

\* ParseCandidates: an address with colons in it, or too few fields.
ReadCandidate(acc, line) ==
    IF line.colons # 1 \/ line.fields < 8 THEN [acc EXCEPT !.ok = FALSE]
    ELSE [acc EXCEPT !.candidates = Append(@, line.value)]

\* Mutant: a fingerprint that cannot be decoded leaves the one before it.
KeepFingerprint(acc, line) ==
    CASE line.line \in {"ufrag", "pwd"} ->
           [acc EXCEPT ![acc.mid][line.line] = line.value, !.ok = line.value # ""]
      [] line.line = "fingerprint" /\ line.value \in {"malformed", "undecodable"} -> acc
      [] OTHER -> [acc EXCEPT ![acc.mid].fingerprint = line.value]

\* ParseTransportInfo.  Credentials without a value are refused.  A
\* fingerprint line that does not have two parts is passed over, one that
\* cannot be decoded leaves none; both go on, because the -1 the function
\* leaves with is taken for true.
ReadTransport(acc, line) ==
    CASE line.line \in {"ufrag", "pwd"} ->
           [acc EXCEPT ![acc.mid][line.line] = line.value, !.ok = line.value # ""]
      [] line.line = "fingerprint" /\ line.value = "malformed" -> acc
      [] line.line = "fingerprint" /\ line.value = "undecodable" ->
           [acc EXCEPT ![acc.mid].fingerprint = NoFingerprint]
      [] OTHER -> [acc EXCEPT ![acc.mid].fingerprint = line.value]

\* One line.  Those of a section count while it is for audio or video; what
\* is said of codecs and streams is passed over.
ReadLine(acc, line) ==
    LET inside == acc.ok /\ acc.mid \in {"audio", "video"}
    IN  CASE acc.ok /\ line.line = "group" /\ line.names # <<>> ->
               [acc EXCEPT !.groups = Append(@, line.names)]
          [] acc.ok /\ line.line = "m" -> ReadMedia(acc, line)
          [] inside /\ line.line = "candidate" -> ReadCandidate(acc, line)
          [] inside /\ line.line \in {"ufrag", "pwd", "fingerprint"} ->
               ReadTransport(acc, line)
          [] OTHER -> acc

\* The loop over the lines; after is what each of them leaves.
ReadLines(lines) ==
    LET after[n \in 0 .. Len(lines)] ==
            IF n = 0 THEN Unread ELSE ReadLine(after[n - 1], lines[n])
    IN  after[Len(lines)]

\* set_remote_sdp up to its use of the controller.  Both sections are always
\* there; one that has not been read has no name.
ReadSdp(lines) ==
    LET read == ReadLines(lines)
    IN  [ok |-> read.ok, defined |-> read.defined, types |-> read.types,
         contents |-> <<read.audio.name, read.video.name>>,
         transports |-> <<read.audio, read.video>>,
         groups |-> read.groups, candidates |-> read.candidates]

\* transport_controller::set_remote_sdp makes a transport for the first
\* section, reads the first group and the transport's fingerprint.
ControllerCanUse(desc) ==
    /\ desc.groups # <<>>
    /\ GetTransportInfoByName(desc, desc.contents[1]).fingerprint # NoFingerprint
=============================================================================
