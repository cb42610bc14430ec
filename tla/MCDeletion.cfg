\* One edit, failure, fault or act of others; the history is kept, and
\* a reference is not allowed.
SPECIFICATION FairSpec
CONSTANTS
  Targets <- TwoTargets
  Templates = {"chart"}
  Refs = {"far"}
  Denied = {"far"}
  KeepHistory = TRUE
  Clients = {"secret"}
  DirectSourceFetch = TRUE
  First <- FirstSpec
  MaxEdits = 1
  MaxTroubles = 1
PROPERTIES
  DeletionCompletes
  
CHECK_DEADLOCK FALSE
