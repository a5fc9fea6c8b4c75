CONSTANTS
    pubsub = pubsub
    deliver = deliver
    MaxSessions = 2
    MaxSends = 1
    MaxFaults = 1
    MaxPublish = 2
    Kinds = {"sub", "unsub", "req", "badsub", "unknown"}
    Topics = {pubsub, deliver}
    Published = pubsub
    Workers = 2
    CanStop = FALSE
SPECIFICATION Spec
INVARIANTS
    OneWrite
    SubscribedStays
    PublishReaches
CHECK_DEADLOCK FALSE
