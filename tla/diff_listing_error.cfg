CONSTANTS
  Keys <- TwoKeys
  Norm <- ComposedTwo
  Invalid <- NoKeys
  Excluded <- NoKeys
  ClassExcluded <- NoKeys
  Variants <- TwoVariants
  Options <- RemoveOption
  DiffCap = 2
SPECIFICATION Spec
INVARIANT ListingErrorReachesMirror
