------------------------------ MODULE Startup ------------------------------
(***************************************************************************)
(* How the library starts inside the game (src/init.cpp, the name map of   *)
(* src/il2cpp/il2cpp_names.cpp and the function cache of                   *)
(* src/il2cpp/il2cpp.cpp).                                                 *)
(*                                                                         *)
(* The init thread polls until GameAssembly.dll is loaded, fills the name  *)
(* map, resolves the il2cpp functions, polls until the il2cpp domain has   *)
(* an assembly, attaches itself and installs the three patches.  The game  *)
(* loads its parts meanwhile, and its threads run the stubs of the patches *)
(* installed so far.  fn() caches every answer, null included, in an       *)
(* unordered_map that nothing guards.                                      *)
(***************************************************************************)
EXTENDS Integers, FiniteSets, Sequences

CONSTANTS
  Fn,           \* il2cpp functions, by canonical name
  PreResolved,  \* those that init() resolves up front
  Scanned,      \* the functions that the scanned names lead to
  Embedded,     \* what the embedded names may lead to in this game's version
  Assembly,     \* the assemblies of the game
  Patches,      \* the patches, in the order init_all installs them
  Home,         \* the assembly that holds the classes a patch hooks
  Installs,     \* the functions a patch calls while it is being installed
  Calls,        \* the functions its stubs call
  Thread,       \* the game's threads
  DomainGet, GetAssemblies, ThreadAttach,  \* functions that init_all needs
  MaxPolls,     \* polls before a wait gives up (600 in the code)
  InitThread, None

Patch == {Patches[i] : i \in 1 .. Len(Patches)}
Actor == Thread \cup {InitThread}

ASSUME NamesAssumption ==
  /\ PreResolved \subseteq Fn /\ Scanned \subseteq Fn
  /\ Embedded \subseteq SUBSET Fn /\ Embedded # {}
  /\ {DomainGet, GetAssemblies, ThreadAttach} \subseteq PreResolved
  /\ Home \in [Patch -> Assembly]
  /\ Installs \in [Patch -> SUBSET Fn] /\ Calls \in [Patch -> SUBSET Fn]
  /\ MaxPolls \in Nat \ {0}
  /\ InitThread \notin Thread /\ None \notin Fn

\* The stages of init_all before and after the patches are not patches.
ASSUME PatchesAssumption ==
  /\ Patches \in Seq(Patch)
  /\ Patch \cap {"names", "bridge", "domain", "attach", "done", "failed"} = {}

VARIABLES
  gameAssembly,  \* whether GameAssembly.dll is loaded
  asms,          \* the assemblies registered with the il2cpp domain
  names,         \* the functions that the names in g_map lead to
  handle,        \* whether g_game_assembly is set
  fns,           \* g_fns: "unset", "null" or "ok" for each function
  pc,            \* where init_all is
  polls,         \* polls of the current wait
  hooked,        \* the patches whose methods were found and hooked
  inserting,     \* the entry of g_fns that each actor is adding
  crashed        \* "no", "null" (a call through null) or "race"

vars == <<gameAssembly, asms, names, handle, fns, pc, polls, hooked, inserting, crashed>>

Init ==
  /\ gameAssembly = FALSE /\ asms = {}
  /\ names = {} /\ handle = FALSE /\ fns = [f \in Fn |-> "unset"]
  /\ pc = "names" /\ polls = 0 /\ hooked = {}
  /\ inserting = [a \in Actor |-> None]
  /\ crashed = "no"

Alive == crashed = "no"
-----------------------------------------------------------------------------
(***************************************************************************)
(* The game.                                                               *)
(***************************************************************************)
LoadGameAssembly ==
  /\ Alive /\ ~gameAssembly
  /\ gameAssembly' = TRUE
  /\ UNCHANGED <<asms, names, handle, fns, pc, polls, hooked, inserting, crashed>>

\* il2cpp registers its assemblies one after the other.
RegisterAssembly ==
  /\ Alive /\ gameAssembly
  /\ \E a \in Assembly \ asms : asms' = asms \cup {a}
  /\ UNCHANGED <<gameAssembly, names, handle, fns, pc, polls, hooked, inserting, crashed>>
-----------------------------------------------------------------------------
(***************************************************************************)
(* fn(): an entry is looked up and, if it is missing, added.               *)
(***************************************************************************)
Resolve(f, module) == IF module /\ f \in names THEN "ok" ELSE "null"

\* The functions whose entries an actor may be looking up where it stands.
CallsOf(a) ==
  CASE a # InitThread -> UNION {Calls[p] : p \in hooked}
    [] a = InitThread /\ pc = "attach" -> {ThreadAttach}
    [] a = InitThread /\ pc \in Patch -> Installs[pc]
    [] OTHER -> {}

\* Another actor that is adding an entry may be moving the buckets.
Raced(a) == \E b \in Actor \ {a} : inserting[b] # None

Miss(a, f) ==
  /\ fns[f] = "unset" /\ inserting[a] = None
  /\ inserting' = [inserting EXCEPT ![a] = f]

Insert(a) ==
  /\ Alive /\ inserting[a] # None
  /\ fns' = [fns EXCEPT ![inserting[a]] = Resolve(inserting[a], handle)]
  /\ inserting' = [inserting EXCEPT ![a] = None]
  /\ UNCHANGED <<gameAssembly, asms, names, handle, pc, polls, hooked, crashed>>

\* An actor that adds an entry or looks one up while another adds one reads
\* nodes and buckets in motion.  When it gets through, the worst is an entry
\* not found or lost, which is resolved again, and to the same answer, for the
\* names and the module no longer change.
CorruptCache(a) ==
  /\ Alive /\ Raced(a)
  /\ inserting[a] # None \/ CallsOf(a) # {}
  /\ crashed' = "race"
  /\ UNCHANGED <<gameAssembly, asms, names, handle, fns, pc, polls, hooked, inserting>>
-----------------------------------------------------------------------------
(***************************************************************************)
(* The init thread.                                                        *)
(***************************************************************************)
AtInit(p) == Alive /\ pc = p /\ inserting[InitThread] = None

Timeout ==
  /\ \E w \in {"names", "domain"} : AtInit(w)
  /\ polls = MaxPolls
  /\ pc' = "failed"
  /\ UNCHANGED <<gameAssembly, asms, names, handle, fns, polls, hooked, inserting, crashed>>

\* The same step with the check of the counter left out.
WaitPastTheLimit ==
  /\ AtInit("names") /\ ~gameAssembly
  /\ polls' = polls + 1
  /\ UNCHANGED <<gameAssembly, asms, names, handle, fns, pc, hooked, inserting, crashed>>

\* A continue that skips the increment.
WaitUncounted ==
  /\ AtInit("names") /\ polls < MaxPolls /\ ~gameAssembly
  /\ UNCHANGED vars

WaitForGameAssembly ==
  /\ AtInit("names") /\ polls < MaxPolls /\ ~gameAssembly
  /\ polls' = polls + 1
  /\ UNCHANGED <<gameAssembly, asms, names, handle, fns, pc, hooked, inserting, crashed>>

\* resolve() cannot fail: when the scan of UnityPlayer.dll does not yield the
\* expected number of names it loads the embedded map.
ResolveNames ==
  /\ AtInit("names") /\ polls < MaxPolls /\ gameAssembly
  /\ names' = Scanned \/ names' \in Embedded
  /\ pc' = "bridge" /\ polls' = 0
  /\ UNCHANGED <<gameAssembly, asms, handle, fns, hooked, inserting, crashed>>

\* The order that the comment at init.cpp:75-77 warns of, with a bridge that
\* resolves before it has the module.
InitBridgeWithoutHandle ==
  /\ AtInit("bridge") /\ gameAssembly
  /\ fns' = [f \in Fn |-> IF f \in PreResolved THEN Resolve(f, handle) ELSE fns[f]]
  /\ handle' = TRUE
  /\ pc' = "domain"
  /\ UNCHANGED <<gameAssembly, asms, names, polls, hooked, inserting, crashed>>

\* il2cpp::init, while no other thread runs code of the library.
InitBridge ==
  /\ AtInit("bridge") /\ gameAssembly
  /\ handle' = TRUE
  /\ fns' = [f \in Fn |-> IF f \in PreResolved THEN Resolve(f, TRUE) ELSE fns[f]]
  /\ pc' = "domain"
  /\ UNCHANGED <<gameAssembly, asms, names, polls, hooked, inserting, crashed>>

\* domain_get_assemblies returns nothing without its functions or a domain.
DomainReady == fns[GetAssemblies] = "ok" /\ fns[DomainGet] = "ok" /\ asms # {}

PollDomainOnce ==
  /\ AtInit("domain") /\ polls < MaxPolls
  /\ pc' = "attach" /\ polls' = 0
  /\ UNCHANGED <<gameAssembly, asms, names, handle, fns, hooked, inserting, crashed>>

PollDomain ==
  /\ AtInit("domain") /\ polls < MaxPolls
  /\ IF DomainReady THEN pc' = "attach" /\ polls' = 0
                    ELSE polls' = polls + 1 /\ UNCHANGED pc
  /\ UNCHANGED <<gameAssembly, asms, names, handle, fns, hooked, inserting, crashed>>

\* find_class over the assemblies there are now; a patch that finds nothing
\* returns all the same.
Found(p) == Home[p] \in asms

PatchPc(i) == IF i > Len(Patches) THEN "done" ELSE Patches[i]

Attach ==
  /\ AtInit("attach")
  /\ IF fns[ThreadAttach] = "null" THEN crashed' = "null" /\ UNCHANGED pc
                                   ELSE pc' = PatchPc(1) /\ UNCHANGED crashed
  /\ UNCHANGED <<gameAssembly, asms, names, handle, fns, polls, hooked, inserting>>

\* The result of a patch is ignored.  All wrappers of il2cpp functions but two
\* call what fn() returns unchecked.
InstallPatch(i) ==
  LET p == Patches[i] IN
  /\ AtInit(p)
  /\ \A f \in Installs[p] : fns[f] # "unset"
  /\ IF \E f \in Installs[p] : fns[f] = "null"
     THEN crashed' = "null" /\ UNCHANGED <<pc, hooked>>
     ELSE /\ hooked' = hooked \cup (IF Found(p) THEN {p} ELSE {})
          /\ pc' = PatchPc(i + 1)
          /\ UNCHANGED crashed
  /\ UNCHANGED <<gameAssembly, asms, names, handle, fns, polls, inserting>>

InstallMisses(i) ==
  /\ AtInit(Patches[i])
  /\ \E f \in Installs[Patches[i]] : Miss(InitThread, f)
  /\ UNCHANGED <<gameAssembly, asms, names, handle, fns, pc, polls, hooked, crashed>>

InitStep ==
  \/ Timeout \/ WaitForGameAssembly \/ ResolveNames \/ InitBridge
  \/ PollDomain \/ Attach
  \/ \E i \in 1 .. Len(Patches) : InstallPatch(i) \/ InstallMisses(i)
  \/ Insert(InitThread) \/ CorruptCache(InitThread)
-----------------------------------------------------------------------------
(***************************************************************************)
(* A game thread runs a stub, which calls an il2cpp function.              *)
(***************************************************************************)
StubMisses(t) ==
  /\ Alive /\ \E p \in hooked : \E f \in Calls[p] : Miss(t, f)
  /\ UNCHANGED <<gameAssembly, asms, names, handle, fns, pc, polls, hooked, crashed>>

StubCallsNull(t) ==
  /\ Alive /\ inserting[t] = None
  /\ \E p \in hooked : \E f \in Calls[p] : fns[f] = "null"
  /\ crashed' = "null"
  /\ UNCHANGED <<gameAssembly, asms, names, handle, fns, pc, polls, hooked, inserting>>

StubStep(t) == StubMisses(t) \/ StubCallsNull(t) \/ Insert(t) \/ CorruptCache(t)

Next ==
  \/ LoadGameAssembly \/ RegisterAssembly
  \/ InitStep
  \/ \E t \in Thread : StubStep(t)

\* The init thread keeps running; the game owes it nothing.
Spec == Init /\ [][Next]_vars
FairSpec == Spec /\ WF_vars(InitStep)
-----------------------------------------------------------------------------
(***************************************************************************)
(* Properties.                                                             *)
(***************************************************************************)
\* The type of every variable.
TypeOK ==
  /\ gameAssembly \in BOOLEAN /\ asms \subseteq Assembly
  /\ names \subseteq Fn /\ handle \in BOOLEAN
  /\ fns \in [Fn -> {"unset", "null", "ok"}]
  /\ pc \in {"names", "bridge", "domain", "attach", "done", "failed"} \cup Patch
  /\ polls \in 0 .. MaxPolls /\ hooked \subseteq Patch
  /\ inserting \in [Actor -> Fn \cup {None}]
  /\ crashed \in {"no", "null", "race"}

\* A cached null is final, so it must be the truth: fn() never caches one for
\* a function that the names in use do lead to (il2cpp.cpp:20-32).
NullsAreGenuine == \A f \in Fn : fns[f] = "null" => f \notin names

\* The game only crashes through a function whose name is missing, or while an
\* entry is being added to the cache, by a second thread that uses the cache.
\* What init() resolves up front is never added again (il2cpp.cpp:48), so only
\* the other functions open this window; and neither happens before the init
\* thread is past the wait for the domain.
CrashesHaveCause ==
  /\ crashed = "null" => Fn \ names # {}
  /\ crashed = "race" => \E a \in Actor : inserting[a] \in Fn \ PreResolved
  /\ crashed # "no" => DomainReady /\ pc \notin {"names", "bridge", "domain"}

\* init_all gives up or finishes, whatever the game does (init.cpp:21, 45).
InitEnds == <>(pc \in {"done", "failed"} \/ ~Alive)

\* When the whole game is there before the domain is first polled and every
\* name is known, every patch gets hooked (init.cpp:75-99).
ReadyGameIsPatched ==
  (pc = "domain" /\ polls = 0 /\ asms = Assembly /\ names = Fn) ~>
    ((pc = "done" /\ hooked = Patch) \/ crashed = "race")
=============================================================================
