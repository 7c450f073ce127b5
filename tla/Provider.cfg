SPECIFICATION FairSpec
CONSTANTS
    Replica = {r1, r2}
    None = None
    LeaseDuration = 3
    RenewDeadline = 2
    MaxFaults = 2
    Steps = 2
    MaxUint32 = 100
    KnownClouds = {"china", "public"}
    Inputs <- MCInputs
INVARIANTS TypeOK OneLeader RefusedNeverRuns ServesTheInput DependenciesPresent EnvironmentWins
INVARIANTS NodesOwned TemplateNormalised TagsArrive AcceleratorHasGPU ListsAgree
PROPERTIES ImplementsElection RunsAtLast
