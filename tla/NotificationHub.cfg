SPECIFICATION FairSpec
CONSTANTS
    ChannelCap = 3
    FallbackAfter = 2
    MaxBackoff = 3
    FallbackEnabled = TRUE
    Stops = TRUE
INVARIANT HubTypeOK FirstRetryPrompt MirrorCurrent UpToDateHonest
PROPERTY OutageCovered StopEnds
