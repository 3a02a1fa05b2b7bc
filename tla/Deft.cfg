SPECIFICATION DeftSpec
SYMMETRY Symmetry
CONSTRAINT Modest
ACTION_CONSTRAINT Timely
CHECK_DEADLOCK FALSE
CONSTANTS
  Sessions = {"scopes", "triage", "release", "relocate", "cache"}
  Workers = {w1, w2}
  Epic = Epic
  Stories = {s1, s2}
  WipCap = 2
  Verbs = {"promote", "cancel", "block", "demote"}
  Begun = {"proposed", "pending", "active"}
  MaxMoves = 2
  Triagers = {t1, t2}
  Issues = {i1, i2}
  NoIssue = NoIssue
  Tried = {"accept", "reject", "reset"}
  MaxDecisions = 2
  MaxSeconds = 1
  BotThreshold = 0
  Generous = 1
  Unlimited = 9
  MaxDownloads = 1
  MaxCommits = 4
  MaxCommands = 3
  MaxPublishes = 1
  Files = {relocate, prd}
  Script = relocate
  Deposits = {relocate}
  Travels = {relocate, prd}
  BegunFiles = {"stock"}
  Marks = {"known"}
  MaxStamp = 1
  MaxRuns = 2
  MaxEdits = 1
  Keys = {i1, i2}
  Procs = {t1, t2}
  MaxBytes = 2
  MaxEntries = 1
  Sizes = {1, 3}
  MaxChanges = 1
  MaxVerbs = 2
INVARIANTS
  DeftTypeOK
  NoScopeLost LinksFollow UndoOnce
  AcceptedHasBrief RejectedIsClosed LossNeedsTwoHolders
  PublishedTagStands RollbackUndoes NoStrandedCommit
  WipedIsKept RollbackRestores SuccessIsCanonical
  FilesAgree RefreshReconciles
PROPERTIES
  EpicLast LossWithinLimit WipesOnlyStock CapsHold
