\* Any configuration, any service down at any attempt, a signal at any moment.
CONSTANTS
  MaxAttempts = 4
SPECIFICATION FairSpec
INVARIANTS
  NoSilentFallback
  RetriesAreBounded
PROPERTIES
  StartEnds
