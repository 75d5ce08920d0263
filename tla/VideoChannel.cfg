\* Two codecs, three streams of which two conflict, descriptions that differ
\* in every parameter.
CONSTANTS
    None = None
    SendParameters <- MCSendParameters
    RecvParameters <- MCRecvParameters
    StreamParams <- MCStreamParams
    EncoderFormats <- MCEncoderFormats
    DecoderNames <- MCDecoderNames
    SwitchRequests <- MCSwitchRequests
    SwitchFormats <- MCSwitchFormats
    EncodingCaps = {300}
SPECIFICATION Spec
INVARIANTS
    SsrcsAreOfStreams
    ReportSsrcIsLive
    StreamsAreCurrent
    CodecsFollowDescriptions
    CapFollowsDescription
\* A crash ends the process.
CHECK_DEADLOCK FALSE
