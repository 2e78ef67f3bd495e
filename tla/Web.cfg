SPECIFICATION Spec
CONSTANTS
  Convs = {c1}  MaxTasks = 2  MaxMoves = 2  MaxClock = 1
  MaxRefs = 2  MaxActions = 3
  Images = 3
  MaxVisits = 4
  MaxEdits = 2  MaxSettings = 4
  MaxSteps = 3
  MaxAccounts = 5
  MaxGallery = 4
  MaxLogs = 5
INVARIANTS DeleteSticks LoadingIsWatched QuietMeansStored SentTurnIsWhole ZoomBelongsToImage NoGhostLogin CleanFormIsServed RunUsesForm ListsAreTrue
CHECK_DEADLOCK FALSE
