SPECIFICATION FairSpec
CONSTANTS
  Calls <- OneCall
  MaxTries = 2
  Hooks <- OneHook
  MaxAttempts = 3
  MaxAdmin = 2
INVARIANTS TypeOK HeardIsTrue ToldIsTrue
PROPERTIES ShutdownEnds FollowedThrough
