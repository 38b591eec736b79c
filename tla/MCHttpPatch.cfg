CONSTANTS
  Token <- mcToken
  Url <- mcUrl
  Config <- mcConfig
  Has <- mcHas
SPECIFICATION Spec
INVARIANTS TypeOK RequestsReachTheirServer OriginalUrlKept
