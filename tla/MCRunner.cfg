SPECIFICATION Spec
CONSTANTS
  Runners = {r1, r2}
  PetNames = {brave_fox, calm_owl}
  Codes <- MCCodes
INVARIANTS
  TypeOK
  JobHasRights
  ExitIsOfOwnJob
PROPERTY FollowerEnds
CHECK_DEADLOCK FALSE
