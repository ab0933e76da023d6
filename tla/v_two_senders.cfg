\* One host thread starts the engine, stops it and starts it again.
SPECIFICATION FlowSpec
CONSTANTS
    Host = {"h1"}
    Sender = {"s1", "s2"}
    MaxMessages = 1
    Patient = FALSE
INVARIANTS OneSender
