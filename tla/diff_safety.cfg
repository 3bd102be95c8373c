CONSTANTS
  Keys <- FourKeys
  Norm <- ComposedFour
  Invalid <- ThirdKey
  Excluded <- FirstKey
  ClassExcluded <- SecondKey
  Variants <- FourVariants
  Options <- SomeOptions
  DiffCap = 2
SPECIFICATION FairSpec
INVARIANTS
  RemovalsAreExtraneous
  MirrorIsTold
PROPERTY ComparisonEnds
