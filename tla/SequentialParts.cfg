\* The sequential parts over bounded inputs.
CONSTANTS
    Sizes <- MCSizes
    Configs <- MCConfigs
    TrialSets <- MCTrials
    FormatLists <- MCFormatLists
    CodecLists <- MCCodecLists
    RemoteLists <- MCRemoteLists
    LocalLists <- MCLocalLists
    ExtensionLists <- MCExtensionLists
    Supported <- MCSupported
    RtpConfigs <- MCRtpConfigs
    OfferOptions <- MCOfferOptions
    ExtraLines <- MCExtraLines
    MaxExtraLines = 3
    ParameterSets <- MCParameterSets
    NewParameters <- MCNewParameters
    Bandwidths <- MCBandwidths
    Policies <- MCPolicies
    GroupLists <- MCGroupLists
SPECIFICATION Calls
INVARIANTS
    LayersAreSound
    TypesAreUnambiguous
    ExtensionsAreSettled
    ReportsAreExact
    OffersAreUnderstood
    UsableDescriptions
    EncoderIsUpToDate
    BundleMapIsExact
