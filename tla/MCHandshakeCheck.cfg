CONSTANTS
    MaxAddress = 3
    IsUtf8 <- AsciiOnly
    Ids <- MCIds
    Protocols <- MCProtocols
    NextStates <- MCNextStates
    Addresses <- MCAddresses
    FrameLens <- MCFrameLens
    Trailers <- MCTrailers
    MaxPadding = 2
SPECIFICATION Spec
INVARIANTS DiffersOnPurpose AcceptsHandshakes PaddingIsNotPayload OnlyWholeFrames
\* A packet cut down to nothing and padded to the bound is the end of a behaviour.
CHECK_DEADLOCK FALSE
