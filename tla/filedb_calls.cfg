SPECIFICATION Spec
CONSTANTS
  Setups <- Programs
  Size <- Sizes
  Keys = {1,2,3,4,5,6,7,8,9,10,12,14,15,16,18,20,22,24,26,28,30,32}
  BlockSpace = 3
  MaxCrashes = 1
INVARIANTS CleanReopens RefsExact BlocksAccounted NodesFit
PROPERTY ImplementsKeyStore
