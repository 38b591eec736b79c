CONSTANTS
  DomainGet = domain_get
  GetAssemblies = domain_get_assemblies
  ThreadAttach = thread_attach
  image = assembly_get_image
  typeClass = type_get_class_or_element_class
  stringNew = string_new
  runtimeInvoke = runtime_invoke
  core = core
  json = json
  None = None
  InitThread = init_thread
  Thread = {t1, t2}
  Assembly = {core, json}
  Fn <- mcFn
  PreResolved <- mcPreResolved
  Scanned <- mcFn
  Embedded <- mcAnyNames
  Patches <- mcPatches
  Home <- mcHome
  Installs <- mcInstalls
  Calls <- mcCalls
  MaxPolls = 3
SPECIFICATION FairSpec
INVARIANTS TypeOK NullsAreGenuine CrashesHaveCause
PROPERTIES InitEnds ReadyGameIsPatched
CHECK_DEADLOCK FALSE
