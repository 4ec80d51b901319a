SPECIFICATION FairSpec
CONSTANTS
    t1 = t1
    t2 = t2
    t3 = t3
    w1 = w1
    w2 = w2
    c1 = c1
    c2 = c2
    Tasks <- MCTasks
    Workers <- MCWorkers
    Clients <- MCClients
    NoTask = NoTask
INVARIANTS TypeOK WorkConserving
PROPERTIES RefinesTaskPool EveryAcceptedTaskRuns DestructorReturns
CHECK_DEADLOCK FALSE
