SPECIFICATION Spec
CONSTANTS
    Files <- McFiles
    Contents <- McContents
    Absent = Absent
    Outside = {"../x"}
    Hidden = {}
    Binary = {3}
    Branches = {"main", "side"}
    Main = "main"
    Committers = {"agent", "api"}
    None = None
    Indexable = {"code.py", "AGENTS.md"}
    TooLarge = {}
    Indexers = {"agent", "api", "revert"}
    Unknown = Unknown
    Sources = {"code.py"}
    NoFocus = NoFocus
    Rooms = {2, 4}
    TailMessages = 3
    RefreshAfter = 2
    Batches = {1, 2}
    ToolCosts = {1, 3}
    PrunedCost = 2
    MaxMessages = 5
    NoCheckpoint = NoCheckpoint
    Agent = "agent"
    Api = "api"
    Revert = "revert"
    RuleFiles <- McRules
    NoRule = NoRule
    Reverts <- McReverts
    TopK = 1
    Commands <- McCommands
    Starts <- McStarts
INVARIANTS
    CommitsWhatWasShown
    ChunksMatchDocument
    CallsKeptTogether
    OverrunIsOneBatch
    RevertForgets
PROPERTIES
    RetrievedAnew
CHECK_DEADLOCK FALSE
