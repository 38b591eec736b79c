CONSTANTS
  n1 = n1
  n2 = n2
  n3 = n3
  n4 = n4
  x = x
  Il2cppData = Il2cppData
  None = None
  Name <- mcName
  Image <- mcImage
  Embedded <- mcEmbedded
  Count = 3
  MaxHits = 5
  Keyword <- mcKeyword
  ShortName <- mcShortName
  Dotted <- mcDotted
  Type <- mcType
  type_get_name <- mc_type_get_name
  Assemblies <- mcAssemblies
  MaxPolls = 2
SPECIFICATION Spec
INVARIANTS TypeOK ShiftNeedsTwoErrors NamesDistinct TypesWithinAll TypesReadAsCSharp
CHECK_DEADLOCK FALSE
