\* The viewer page with up to three calls of connect() or their scenes at once.
SPECIFICATION FairSpec
CONSTANT
  MaxCalls = 3
INVARIANTS
  TypeOK
  OneRetry
  OneScene
  KeepsTrying
PROPERTY
  AutoConnects
