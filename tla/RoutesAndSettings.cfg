SPECIFICATION MCSpec
CONSTANTS
    Options <- MCOptions
    Partials <- MCPartials
    Asks <- MCAsks
    DefaultModel <- MCDefaultModel
    Free <- MCFree
    Toolless = {"q"}
    AutoLanes <- MCAutoLanes
    Cloud = "cloud"
    MaxReconfigures = 2
    Built <- MCBuilt
    Reachable <- MCReachable
    OpenCodeModels <- MCOpenCodeModels
    ChatPlan = "plan"
    CloudAgents = "cloud"
    Documents <- MCDocuments
    Forms <- MCForms
    Inputs <- MCInputs
    Edits <- MCEdits
    Pages = {"page", "tab"}
    Casts = {{"page", "tab"}, {"page", "account"}, {"page", "terminal"}, {"page", "command"}, {"terminal", "command"}}
    Command = "command"
    Account = "account"
    KeyIds = {"d", "c"}
    Secrets = {"s1", "s2"}
    Unset = "unset"
    Env <- MCEnv
    ServiceIds = {"k"}
    Accounts = {"u1"}
    NoAccount = "no account"
    AccountModels <- MCAccountModels
    Pins = {"e"}
    Blocks <- MCBlocks
    Installs <- MCInstalls
    Rows <- MCRows
    NameOrder <- MCNameOrder
    Slots <- MCSlots
    SnapshotModels <- MCSnapshotModels
    MaxModelsPerProvider = 2
    MaxMessageRows = 3
    MaxUses = 2
    MaxWrites = 2
    MaxSwitches = 1
    MaxStarts = 2
INVARIANTS
  ConfigurationIsWhole
  RequestsGoAsPlanned
  SettingsOutlive
  BlocksKeepTheirPlans
PROPERTIES
  EveryRequestEnds
CHECK_DEADLOCK FALSE
