CONSTANT MaxAttempts = 3
SPECIFICATION FairSpec
INVARIANTS
  TypeOK
  CleanWhenReleased
  WipedWhenIdle
  PackedIsFresh
  SigningInv
PROPERTY Terminates
