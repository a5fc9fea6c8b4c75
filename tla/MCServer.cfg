CONSTANTS
    pubsub = pubsub
    deliver = deliver
    MaxSessions = 2
    MaxSends = 2
    MaxFaults = 0
    MaxPublish = 0
    Kinds = {"order", "sub"}
    Topics = {pubsub}
    Published = pubsub
    Workers = 2
    CanStop = TRUE
SPECIFICATION FairSpec
INVARIANTS
    NothingLost
    AnswersInOrder
PROPERTIES
    RequestIsAnswered
CHECK_DEADLOCK FALSE
