SPECIFICATION FairSpec
CONSTANTS
    None = None
    t1 = t1
    t2 = t2
    read = read
    send = send
    Callers <- MCCallers
    Tools <- MCTools
    Offers <- MCOffers
    Chatters <- MCChatters
    Allowed <- MCAllowed
    Taken <- MCTaken
    MaxOps = 2
    MaxCalls = 2
    MaxFaults = 1
INVARIANTS OwnAnswer RoutedAsDiscovered
 
CHECK_DEADLOCK FALSE
