SPECIFICATION HandleSpec
CONSTANTS
  NSubd = 2
  Shapes <- MCShapes
  DevObjects = {"d"}
  SubdObjects = {"s1", "s2"}
  CalObjects = {"k"}
  NSubds = {1, 2}
  MaxStructs = 2
  Described <- MCDescribed
  Kernels <- MCKernels
  NDescribed = 2
  Subds = {0, 1, 2}
  Async = {0, 1}
  Page = 2
  Limits <- MCLimits
  CommandLines <- MCCommandLines
  NPlain = 2
  Wrap = 32
INVARIANTS
  HandleTypeOK
  HeapIsDue
  ObjectsValid
  SurveyTells
  ConfiguredAsAsked
PROPERTIES
  LossesAreKnown
  OpenReturns
  ThrowsAlone
CHECK_DEADLOCK FALSE
