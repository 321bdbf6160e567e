SPECIFICATION FairSpec
CONSTANTS
    api = api
    cli = cli
    t1 = t1
    t2 = t2
    c1 = c1
    Process <- TwoProcesses
    Worker <- ThreeWorkers
    Home <- TwoThreadsAndACommand
INVARIANTS
    TypeOK
    CorpusIsExact
PROPERTIES
    SeededOnceForAll
    EveryTouchEnds
