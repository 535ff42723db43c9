\* Every program of three classes whose methods have at most one instruction.
SPECIFICATION FairSpec
CONSTANTS
  A = A  B = B  C = C
  Classes <- ThreeClasses
  Statics = {C}
  NoClass = NoClass
  Hierarchies <- ChainOrInterface
  MaxCode = 1
  MaxFrames = 6
INVARIANTS TypeOK ClinitOnce SuperclassFirst
PROPERTIES UsesInitialised Terminates
CHECK_DEADLOCK FALSE
