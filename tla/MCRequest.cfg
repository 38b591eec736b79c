CONSTANTS
  Call = {c1, c2}
  MaxChunks = 1
  Thread = {t1, t2}
  Assemblies <- mcAssemblies
  Lower <- mcLower
  Schema <- mcSchema
  Config <- mcConfig
SPECIFICATION FairSpec
INVARIANTS TypeOK EventsReportAnswers ReturnedMeansReported TokenConfined PidMatchesPath PacketIsTheAnswers
PROPERTIES AddRequestReturns
CHECK_DEADLOCK FALSE
