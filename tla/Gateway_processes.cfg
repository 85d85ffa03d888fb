\* Seven configurations, two calls, two channels; nothing else is bounded.
SPECIFICATION Spec
CONSTANTS
    c1 = c1
    c2 = c2
    Calls = {c1, c2}
    Configurations <- Several
    MaxChannels = 2
    Traced = TRUE
INVARIANT TypeOK
INVARIANT NothingLeaks
INVARIANT ServedWithEverything
INVARIANT TelemetryOutlivesCalls
PROPERTY NothingHangs
