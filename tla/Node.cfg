SPECIFICATION Spec
CONSTANTS
    Entries <- FourMessages
    MaxConnections = 3
    MaxAnswers = 2
INVARIANTS TypeOK ReadsWhatWasWritten InOrderPerConnection DrainsOnlyConnected
PROPERTIES ImplementsChannel QueueIsDelivered AnswersAreRead
\* An incoming connection that has ended leaves nothing to do.
CHECK_DEADLOCK FALSE
