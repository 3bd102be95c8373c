CONSTANTS
  Names <- ThreeNames
  Plain <- PlainOf
  Slash <- SlashOf
  Kind <- AllDirs
  Excluded <- NoNames
  Sources <- OnlyFs
  Options <- RemoveOption
  MaxRuns = 2
  NoName = NoName
SPECIFICATION Spec
INVARIANT
  SharedBucketsKept
