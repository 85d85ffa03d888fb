\* Two requests, bodies up to one chunk over the limit, a shutdown at any time.
CONSTANTS
    Requests = {r1, r2}
    None = None
    MaxBody = 2
    MaxClients = 3
SPECIFICATION Spec
CHECK_DEADLOCK FALSE
INVARIANT TypeOK
INVARIANT OneClient
INVARIANT NoOversizedBody
INVARIANT AnswerIsTheApplications
PROPERTY EveryRequestAnswered
PROPERTY EveryRequestRecorded
