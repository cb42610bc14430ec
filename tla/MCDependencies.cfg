\* Three releases and two workers; the source gets two revisions.
SPECIFICATION FairSpec
CONSTANTS
  Releases = {"a", "b", "c"}
  Setups <- MCSetups
  AdditiveCELDependencyCheck = FALSE
  Workers = 2
  Backlog <- MCBacklog
  MaxRevisions = 2
  MaxTroubles = 1
INVARIANTS
  
  DependenciesCurrent
  

  
CHECK_DEADLOCK FALSE
