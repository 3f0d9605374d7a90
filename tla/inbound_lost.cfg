SPECIFICATION InboxSpec
CONSTANTS
    Message = {m1}
    Worker = {w1, w2}
    Event = {e1}
    MaxAttempts = 2
    Reported = {"DELIVERED", "FAILED"}
    Stamp = {0, 1}
    MaxClaims = 2
    Customer = {c1}
    Inbound = {1, 2, 3}
    SenderOf <- OneSender
    Referred = {1}
    OnFile = {}
    Outbound = {4}
    Handler = {w1, w2}
    Agent = {w1, w2}
    Owner = {u1}
    None = None
    Window = 1
    MaxTries = 2
    ThreadPage = 1
    Moment <- Instants
    MaxInboundClaims = 2
    MaxHour = 1
    MaxHandovers = 2
SYMMETRY WorkerSymmetry
CONSTRAINT ConversationsBound
INVARIANT InboundKept
CHECK_DEADLOCK FALSE
