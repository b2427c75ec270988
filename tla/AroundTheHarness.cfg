\* Two processes in two workspaces, two calls of one, one of the other; two
\* rankings over one file of vectors, by embedders of two widths.
SPECIFICATION MCSpec
CONSTANTS
  v = v
  w = w
  none = none
  Procs = {1, 2}
  Workspaces = {v, w}
  Calls <- MCCalls
  NoTarget = none
  Nowhere = nowhere
  Modes <- MCModes
  Classified <- MCClassified
  Budgeted = TRUE
  MaxLaunches = 2
  MaxCalls <- MCMaxCalls
  Walks <- MCWalks
  Root = "root"
  SkipDirs = {"skip"}
  Unreadable = {"f4"}
  Words <- MCWords
  Stop = {"the"}
  Begins <- MCBegins
  Speaks <- MCSpeaks
  Tests = {"f3"}
  Checkouts <- MCCheckouts
  Searches <- MCSearches
  HeadSize <- MCHeadSize
  Order <- MCOrder
  Library <- MCLibrary
  Hits <- MCHits
  Tasks <- MCTasks
  Queries <- MCQueries
  Near <- MCNear
  Models = {"wide", "other", "slim"}
  Width <- MCWidth
  Rankers = {1, 2}
  MaxDepth = 3
  MaxFiles = 4
  MaxEmbed = 2
  Limit = 3
  HeadBytes = 3
  HeadMax = 2
  HeadTotal = 2
  Versions <- MCVersions
  Places <- MCPlaces
  Present = {"home"}
  Dirs <- MCDirs
  Shelves <- MCShelves
  Excluded = {"orchestrator"}
  Unsafe = {"../x"}
  Drafters = {1, 2}
  Answers <- MCAnswers
  MAX_DRAFTS = 2
  Sessions = {1}
  ReviewerFiles <- MCReviewerFiles
  Context = 1
  DIFF_MAX_CELLS = 12
  MaxMiddle = 3
  Texts <- MCTexts
  Fronts <- MCFronts
SYMMETRY Symmetry
INVARIANTS
  RulesAreSound
  DecisionsAreSound
  RankingsAreSound
  DelegatesAreSound
PROPERTIES
  AnswersLast
CHECK_DEADLOCK FALSE
