---------------------------- MODULE StartupProofs ----------------------------
(***************************************************************************)
(* Proofs about Startup, for every set of functions, assemblies, patches   *)
(* and threads, every name map and every limit of the waits.               *)
(***************************************************************************)
EXTENDS Startup, TLAPS

Cached == {"unset", "null", "ok"}
Stages == {"names", "bridge", "domain", "attach", "done", "failed"} \cup Patch

LEMMA PatchPcType ==
  ASSUME NEW i \in Nat \ {0}
  PROVE  PatchPc(i) \in Patch \cup {"done"}
<1>1. CASE i > Len(Patches)
  BY <1>1 DEF PatchPc
<1>2. CASE ~(i > Len(Patches))
  <2>1. Len(Patches) \in Nat
    BY PatchesAssumption
  <2>2. i \in 1 .. Len(Patches)
    BY <1>2, <2>1
  <2>3. QED
    BY <1>2, <2>2 DEF PatchPc, Patch
<1>3. QED
  BY <1>1, <1>2

LEMMA ResolveType == \A f \in Fn, module \in BOOLEAN : Resolve(f, module) \in {"null", "ok"}
  BY DEF Resolve
-----------------------------------------------------------------------------
(***************************************************************************)
(* Types.                                                                  *)
(***************************************************************************)
LEMMA InitTypeOK == Init => TypeOK
<1> SUFFICES ASSUME Init PROVE TypeOK
  OBVIOUS
<1>1. fns \in [Fn -> Cached] /\ inserting \in [Actor -> Fn \cup {None}]
  BY DEF Init, Cached
<1>2. polls \in 0 .. MaxPolls
  BY NamesAssumption DEF Init
<1>3. QED
  BY <1>1, <1>2 DEF Init, TypeOK, Cached

LEMMA MissType ==
  ASSUME TypeOK, NEW a \in Actor, NEW f \in Fn, Miss(a, f)
  PROVE  inserting' \in [Actor -> Fn \cup {None}]
  BY DEF TypeOK, Miss

LEMMA InsertType ==
  ASSUME TypeOK, NEW a \in Actor, Insert(a)
  PROVE  TypeOK'
<1>1. inserting[a] \in Fn
  BY DEF TypeOK, Insert
<1>2. Resolve(inserting[a], handle) \in Cached
  BY <1>1, ResolveType DEF TypeOK, Cached
<1>3. fns' \in [Fn -> Cached] /\ inserting' \in [Actor -> Fn \cup {None}]
  BY <1>1, <1>2 DEF TypeOK, Insert, Cached
<1>4. QED
  BY <1>3 DEF TypeOK, Insert, Cached

LEMMA InitStepType ==
  ASSUME TypeOK, InitStep
  PROVE  TypeOK'
<1> USE NamesAssumption DEF TypeOK
<1>0. InitThread \in Actor
  BY DEF Actor
<1>1. CASE Timeout
  BY <1>1 DEF Timeout
<1>2. CASE WaitForGameAssembly
  BY <1>2 DEF WaitForGameAssembly
<1>3. CASE ResolveNames
  BY <1>3 DEF ResolveNames
<1>4. CASE InitBridge
  <2>1. fns' \in [Fn -> {"unset", "null", "ok"}]
    BY <1>4, ResolveType DEF InitBridge
  <2>2. QED
    BY <1>4, <2>1 DEF InitBridge
<1>5. CASE PollDomain
  BY <1>5 DEF PollDomain
<1>6. CASE Attach
  BY <1>6, PatchPcType DEF Attach
<1>7. ASSUME NEW i \in 1 .. Len(Patches), InstallPatch(i) PROVE TypeOK'
  <2>1. PatchPc(i + 1) \in Patch \cup {"done"} /\ Patches[i] \in Patch
    <3>1. i + 1 \in Nat \ {0}
      BY PatchesAssumption
    <3>2. QED
      BY <3>1, PatchPcType DEF Patch
  <2>2. hooked' \subseteq Patch /\ pc' \in Stages /\ crashed' \in {"no", "null", "race"}
    BY <1>7, <2>1 DEF InstallPatch, Stages
  <2>3. QED
    BY <1>7, <2>2 DEF InstallPatch, Stages
<1>8. ASSUME NEW i \in 1 .. Len(Patches), InstallMisses(i) PROVE TypeOK'
  <2>1. inserting' \in [Actor -> Fn \cup {None}]
    BY <1>8, <1>0, MissType DEF InstallMisses, Patch
  <2>2. QED
    BY <1>8, <2>1 DEF InstallMisses
<1>9. CASE Insert(InitThread)
  BY <1>9, <1>0, InsertType
<1>10. CASE CorruptCache(InitThread)
  BY <1>10 DEF CorruptCache
<1>11. QED
  BY <1>1, <1>2, <1>3, <1>4, <1>5, <1>6, <1>7, <1>8, <1>9, <1>10 DEF InitStep

LEMMA NextTypeOK == TypeOK /\ [Next]_vars => TypeOK'
<1> SUFFICES ASSUME TypeOK, [Next]_vars PROVE TypeOK'
  OBVIOUS
<1>1. CASE LoadGameAssembly \/ RegisterAssembly
  BY <1>1 DEF LoadGameAssembly, RegisterAssembly, TypeOK
<1>2. CASE InitStep
  BY <1>2, InitStepType
<1>3. ASSUME NEW t \in Thread, StubStep(t) PROVE TypeOK'
  <2>0. t \in Actor
    BY DEF Actor
  <2>1. CASE StubMisses(t)
    <3>1. inserting' \in [Actor -> Fn \cup {None}]
      BY <2>0, <2>1, MissType, NamesAssumption DEF StubMisses, TypeOK
    <3>2. QED
      BY <2>1, <3>1 DEF StubMisses, TypeOK
  <2>2. CASE StubCallsNull(t)
    BY <2>2 DEF StubCallsNull, TypeOK
  <2>3. CASE Insert(t)
    BY <2>0, <2>3, InsertType
  <2>4. CASE CorruptCache(t)
    BY <2>4 DEF CorruptCache, TypeOK
  <2>5. QED
    BY <1>3, <2>1, <2>2, <2>3, <2>4 DEF StubStep
<1>4. CASE UNCHANGED vars
  BY <1>4 DEF vars, TypeOK
<1>5. QED
  BY <1>1, <1>2, <1>3, <1>4 DEF Next

\* Neither wait passes its limit and the cache holds one of three answers for
\* each function (init.cpp:21, 45; il2cpp.cpp:20-32).
THEOREM StartupTypeCorrect == Spec => []TypeOK
  BY InitTypeOK, NextTypeOK, PTL DEF Spec
-----------------------------------------------------------------------------
(***************************************************************************)
(* What the cache holds, and by when.                                      *)
(***************************************************************************)
\* Nothing is resolved before the bridge has its module, and from then on the
\* name map stays as it is; so every answer in the cache is the one that the
\* names give.  What init() resolves up front is then never missing.
Truthful(f) ==
  /\ fns[f] = "null" => f \notin names
  /\ fns[f] = "ok" => f \in names

\* The library's code runs in the game only while patches are installed.
Installing == pc \in Patch \cup {"done"}

CacheInv ==
  /\ pc \in {"names", "bridge"} => ~handle
  /\ pc \in {"domain", "attach"} \/ Installing => handle
  /\ ~handle => \A f \in Fn : fns[f] = "unset"
  /\ handle => \A f \in PreResolved : fns[f] # "unset"
  /\ \A a \in Actor : inserting[a] \notin PreResolved
  /\ \A f \in Fn : Truthful(f)
  /\ hooked # {} \/ (\E a \in Actor : inserting[a] # None) => Installing
  /\ pc = "attach" \/ Installing => DomainReady

LEMMA InsertKeepsCache ==
  ASSUME TypeOK, CacheInv, NEW a \in Actor, Insert(a)
  PROVE  CacheInv'
<1> DEFINE g == inserting[a]
<1>1. g \in Fn /\ handle /\ Installing
  BY DEF TypeOK, Insert, CacheInv
<1>2. UNCHANGED <<names, handle, pc, hooked, asms>> /\ Installing'
  BY <1>1 DEF Insert, Installing
<1>3. fns'[g] = Resolve(g, handle) /\ \A f \in Fn \ {g} : fns'[f] = fns[f]
  BY <1>1 DEF Insert, TypeOK
<1>4. Resolve(g, handle) = IF g \in names THEN "ok" ELSE "null"
  BY <1>1 DEF Resolve
<1>5. \A f \in Fn : Truthful(f)'
  BY <1>2, <1>3, <1>4 DEF CacheInv, Truthful
<1>6. \A f \in Fn : fns[f] = "ok" => fns'[f] = "ok"
  BY <1>3, <1>4 DEF CacheInv, Truthful
<1>7. DomainReady'
  BY <1>1, <1>2, <1>6, NamesAssumption DEF CacheInv, DomainReady
<1>8. \A f \in PreResolved : fns'[f] # "unset"
  BY <1>1, <1>3, <1>4, NamesAssumption DEF CacheInv
<1>9. \A b \in Actor : inserting'[b] \notin PreResolved
  BY NamesAssumption DEF Insert, TypeOK, CacheInv
<1>10. QED
  BY <1>1, <1>2, <1>5, <1>7, <1>8, <1>9 DEF CacheInv

\* What is added is missing, so init() has not resolved it.
LEMMA MissIsNew ==
  ASSUME TypeOK, CacheInv, handle, NEW a \in Actor, NEW f \in Fn, Miss(a, f)
  PROVE  \A b \in Actor : inserting'[b] \notin PreResolved
<1>1. f \notin PreResolved
  BY DEF Miss, CacheInv
<1>2. QED
  BY <1>1 DEF Miss, TypeOK, CacheInv

\* A step that leaves the cache and the names alone, and goes no further than
\* the domain allows.
LEMMA QuietStep ==
  ASSUME TypeOK, CacheInv, UNCHANGED <<names, handle, fns>>, asms \subseteq asms',
         \/ pc' = pc
         \/ pc' = "failed" /\ ~Installing
         \/ pc = "domain" /\ pc' = "attach" /\ DomainReady
         \/ (pc = "attach" \/ Installing) /\ Installing',
         hooked' = hooked \/ Installing',
         \/ inserting' = inserting
         \/ Installing' /\ \A a \in Actor : inserting'[a] \notin PreResolved
  PROVE  CacheInv'
<1>1. DomainReady => DomainReady'
  BY DEF DomainReady
<1>2. \A f \in Fn : Truthful(f)'
  BY DEF CacheInv, Truthful
<1>3. {"names", "bridge", "domain", "attach", "done", "failed"} \cap Patch = {}
  BY PatchesAssumption
<1>4. /\ hooked' # {} \/ (\E a \in Actor : inserting'[a] # None) => Installing \/ Installing'
      /\ \A a \in Actor : inserting'[a] \notin PreResolved
      /\ handle' => \A f \in PreResolved : fns'[f] # "unset"
  BY DEF CacheInv
<1>5. CASE pc' = pc
  <2>1. Installing' <=> Installing
    BY <1>5 DEF Installing
  <2>2. QED
    BY <1>1, <1>2, <1>4, <1>5, <2>1 DEF CacheInv
<1>6. CASE pc' = "failed" /\ ~Installing
  <2>1. ~Installing'
    BY <1>3, <1>6 DEF Installing
  <2>2. QED
    BY <1>1, <1>2, <1>4, <1>6, <2>1 DEF CacheInv
<1>7. CASE pc = "domain" /\ pc' = "attach" /\ DomainReady
  <2>1. ~Installing /\ ~Installing'
    BY <1>3, <1>7 DEF Installing
  <2>2. QED
    BY <1>1, <1>2, <1>4, <1>7, <2>1 DEF CacheInv
<1>8. CASE (pc = "attach" \/ Installing) /\ Installing'
  <2>1. handle /\ DomainReady /\ pc' \notin {"names", "bridge"}
    BY <1>3, <1>8 DEF CacheInv, Installing
  <2>2. QED
    BY <1>1, <1>2, <1>4, <1>8, <2>1 DEF CacheInv
<1>9. QED
  BY <1>5, <1>6, <1>7, <1>8

LEMMA InitStepCache ==
  ASSUME TypeOK, CacheInv, InitStep
  PROVE  CacheInv'
<1>0. InitThread \in Actor
  BY DEF Actor
<1>00. {"names", "bridge", "domain", "attach", "done", "failed"} \cap Patch = {}
  BY PatchesAssumption
<1>1. CASE Timeout
  BY <1>1, <1>00, QuietStep DEF Timeout, AtInit, Installing
<1>2. CASE WaitForGameAssembly
  BY <1>2, QuietStep DEF WaitForGameAssembly
<1>3. CASE ResolveNames
  <2>1. ~handle /\ ~Installing /\ \A f \in Fn : fns[f] = "unset"
    BY <1>3, <1>00 DEF ResolveNames, AtInit, CacheInv, Installing
  <2>2. pc' = "bridge" /\ UNCHANGED <<handle, fns, hooked, inserting>> /\ ~Installing'
    BY <1>3, <1>00 DEF ResolveNames, Installing
  <2>3. QED
    BY <2>1, <2>2 DEF CacheInv, Truthful
<1>4. CASE InitBridge
  <2>1. ~Installing /\ \A f \in Fn : fns[f] = "unset"
    BY <1>4, <1>00 DEF InitBridge, AtInit, CacheInv, Installing
  <2>2. pc' = "domain" /\ handle' /\ ~Installing' /\ UNCHANGED <<names, hooked, inserting>>
    BY <1>4, <1>00 DEF InitBridge, Installing
  <2>3. \A f \in Fn : fns'[f] = IF f \in PreResolved THEN Resolve(f, TRUE) ELSE "unset"
    BY <1>4, <2>1 DEF InitBridge
  <2>4. \A f \in Fn : Truthful(f)'
    BY <2>2, <2>3 DEF Truthful, Resolve
  <2>5. \A f \in PreResolved : fns'[f] # "unset"
    BY <2>3, NamesAssumption, ResolveType
  <2>6. QED
    BY <2>1, <2>2, <2>4, <2>5 DEF CacheInv
<1>5. CASE PollDomain
  <2>1. pc = "domain" /\ (pc' = pc \/ (pc' = "attach" /\ DomainReady))
    BY <1>5 DEF PollDomain, AtInit
  <2>2. UNCHANGED <<names, handle, fns, asms, hooked, inserting>>
    BY <1>5 DEF PollDomain
  <2>3. QED
    BY <2>1, <2>2, QuietStep
<1>6. CASE Attach
  <2>1. pc = "attach" /\ (pc' = pc \/ Installing')
    BY <1>6, PatchPcType DEF Attach, AtInit, Installing
  <2>2. UNCHANGED <<names, handle, fns, asms, hooked, inserting>>
    BY <1>6 DEF Attach
  <2>3. QED
    BY <2>1, <2>2, QuietStep
<1>7. ASSUME NEW i \in 1 .. Len(Patches), InstallPatch(i) PROVE CacheInv'
  <2>1. Installing
    BY <1>7 DEF InstallPatch, AtInit, Installing, Patch
  <2>2. PatchPc(i + 1) \in Patch \cup {"done"}
    BY PatchPcType, PatchesAssumption
  <2>3. Installing'
    BY <1>7, <2>1, <2>2 DEF InstallPatch, Installing
  <2>4. UNCHANGED <<names, handle, fns, asms, inserting>>
    BY <1>7 DEF InstallPatch
  <2>5. QED
    BY <2>1, <2>3, <2>4, QuietStep
<1>8. ASSUME NEW i \in 1 .. Len(Patches), InstallMisses(i) PROVE CacheInv'
  <2>1. Installing /\ Installing'
    BY <1>8 DEF InstallMisses, AtInit, Installing, Patch
  <2>2. UNCHANGED <<names, handle, fns, asms, hooked>>
    BY <1>8 DEF InstallMisses
  <2>3. PICK f \in Installs[Patches[i]] : Miss(InitThread, f)
    BY <1>8 DEF InstallMisses
  <2>4. f \in Fn /\ handle
    BY <2>1, <2>3, NamesAssumption DEF Patch, CacheInv
  <2>5. \A b \in Actor : inserting'[b] \notin PreResolved
    BY <1>0, <2>3, <2>4, MissIsNew
  <2>6. QED
    BY <2>1, <2>2, <2>5, QuietStep
<1>9. CASE Insert(InitThread)
  BY <1>9, <1>0, InsertKeepsCache
<1>10. CASE CorruptCache(InitThread)
  BY <1>10, QuietStep DEF CorruptCache
<1>11. QED
  BY <1>1, <1>2, <1>3, <1>4, <1>5, <1>6, <1>7, <1>8, <1>9, <1>10 DEF InitStep

LEMMA NextCacheInv == TypeOK /\ CacheInv /\ [Next]_vars => CacheInv'
<1> SUFFICES ASSUME TypeOK, CacheInv, [Next]_vars PROVE CacheInv'
  OBVIOUS
<1>1. CASE LoadGameAssembly \/ RegisterAssembly
  BY <1>1, QuietStep DEF LoadGameAssembly, RegisterAssembly
<1>2. CASE InitStep
  BY <1>2, InitStepCache
<1>3. ASSUME NEW t \in Thread, StubStep(t) PROVE CacheInv'
  <2>0. t \in Actor
    BY DEF Actor
  <2>1. CASE StubMisses(t)
    <3>1. Installing /\ Installing'
      BY <2>1 DEF StubMisses, CacheInv, Installing
    <3>2. UNCHANGED <<names, handle, fns, asms, hooked, pc>>
      BY <2>1 DEF StubMisses
    <3>3. PICK p \in hooked : \E f \in Calls[p] : Miss(t, f)
      BY <2>1 DEF StubMisses
    <3>4. PICK f \in Calls[p] : Miss(t, f)
      BY <3>3
    <3>5. f \in Fn /\ handle
      BY <3>1, <3>3, <3>4, NamesAssumption DEF TypeOK, CacheInv
    <3>6. \A b \in Actor : inserting'[b] \notin PreResolved
      BY <2>0, <3>4, <3>5, MissIsNew
    <3>7. QED
      BY <3>1, <3>2, <3>6, QuietStep
  <2>2. CASE StubCallsNull(t)
    BY <2>2, QuietStep DEF StubCallsNull
  <2>3. CASE Insert(t)
    BY <2>0, <2>3, InsertKeepsCache
  <2>4. CASE CorruptCache(t)
    BY <2>4, QuietStep DEF CorruptCache
  <2>5. QED
    BY <1>3, <2>1, <2>2, <2>3, <2>4 DEF StubStep
<1>4. CASE UNCHANGED vars
  BY <1>4, QuietStep DEF vars
<1>5. QED
  BY <1>1, <1>2, <1>3, <1>4 DEF Next

LEMMA CacheInvariant == Spec => []CacheInv
<1>1. Init => CacheInv
  BY PatchesAssumption, NamesAssumption DEF Init, CacheInv, Truthful, Installing
<1>2. QED
  BY <1>1, NextCacheInv, StartupTypeCorrect, PTL DEF Spec

\* A null is cached for good, and it is cached only for a function that the
\* names do not lead to (il2cpp.cpp:20-32).
THEOREM CachedNullsAreGenuine == Spec => []NullsAreGenuine
<1>1. CacheInv => NullsAreGenuine
  BY DEF CacheInv, Truthful, NullsAreGenuine
<1>2. QED
  BY <1>1, CacheInvariant, PTL
-----------------------------------------------------------------------------
(***************************************************************************)
(* Crashes.                                                                *)
(***************************************************************************)
CrashInv ==
  /\ crashed = "null" => Fn \ names # {}
  /\ crashed = "race" => \E a \in Actor : inserting[a] \in Fn \ PreResolved
  /\ crashed # "no" => pc = "attach" \/ Installing

LEMMA NextCrashInv == TypeOK /\ CacheInv /\ CrashInv /\ [Next]_vars => CrashInv'
<1> SUFFICES ASSUME TypeOK, CacheInv, CrashInv, [Next]_vars PROVE CrashInv'
  OBVIOUS
<1>0. InitThread \in Actor /\ Thread \subseteq Actor
  BY DEF Actor
<1>1. CASE crashed # "no"
  <2>1. UNCHANGED vars
    BY <1>1 DEF Next, LoadGameAssembly, RegisterAssembly, InitStep, StubStep, Timeout, WaitForGameAssembly, ResolveNames, InitBridge, PollDomain, Attach, InstallPatch, InstallMisses, Insert, CorruptCache, StubMisses, StubCallsNull, AtInit, Alive
  <2>2. QED
    BY <2>1 DEF vars, CrashInv, Installing
<1>2. CASE crashed' = "no"
  BY <1>2 DEF CrashInv
<1>3. CASE crashed = "no" /\ crashed' # "no"
  <2>1. CASE Attach
    <3>1. /\ fns[ThreadAttach] = "null" /\ ThreadAttach \in Fn
          /\ pc' = "attach" /\ names' = names /\ crashed' = "null"
      BY <1>3, <2>1, NamesAssumption DEF Attach, AtInit
    <3>2. QED
      BY <3>1 DEF CacheInv, Truthful, CrashInv
  <2>2. ASSUME NEW i \in 1 .. Len(Patches), InstallPatch(i) PROVE CrashInv'
    <3>1. PICK f \in Installs[Patches[i]] : fns[f] = "null"
      BY <1>3, <2>2 DEF InstallPatch
    <3>2. f \in Fn
      BY <3>1, NamesAssumption DEF Patch
    <3>3. Installing' /\ names' = names /\ crashed' = "null"
      BY <2>2, <3>1 DEF InstallPatch, AtInit, Installing, Patch
    <3>4. QED
      BY <3>1, <3>2, <3>3 DEF CacheInv, Truthful, CrashInv
  <2>3. ASSUME NEW t \in Thread, StubCallsNull(t) PROVE CrashInv'
    <3>0. PICK p \in hooked : \E f \in Calls[p] : fns[f] = "null"
      BY <2>3 DEF StubCallsNull
    <3>1. PICK f \in Calls[p] : fns[f] = "null"
      BY <3>0
    <3>2. f \in Fn
      BY <3>0, <3>1, NamesAssumption DEF TypeOK
    <3>3. Installing' /\ names' = names /\ crashed' = "null"
      BY <2>3, <3>0 DEF StubCallsNull, CacheInv, Installing
    <3>4. QED
      BY <3>1, <3>2, <3>3 DEF CacheInv, Truthful, CrashInv
  <2>4. ASSUME NEW a \in Actor, CorruptCache(a) PROVE CrashInv'
    <3>1. PICK b \in Actor \ {a} : inserting[b] # None
      BY <2>4 DEF CorruptCache, Raced
    <3>2. inserting'[b] \in Fn \ PreResolved
      BY <2>4, <3>1 DEF CorruptCache, TypeOK, CacheInv
    <3>3. Installing' /\ crashed' = "race"
      BY <2>4, <3>1 DEF CorruptCache, CacheInv, Installing
    <3>4. QED
      BY <3>1, <3>2, <3>3 DEF CrashInv
  <2>5. QED
    BY <1>0, <1>3, <2>1, <2>2, <2>3, <2>4 DEF Next, vars, LoadGameAssembly, RegisterAssembly, InitStep, StubStep, Timeout, WaitForGameAssembly, ResolveNames, InitBridge, PollDomain, InstallMisses, Insert, StubMisses
<1>4. QED
  BY <1>1, <1>2, <1>3

\* The library brings the game down only through a missing name, or while a
\* function that init() did not resolve is being added to the cache beside
\* another user of it, and never before the domain was found ready (il2cpp.cpp:20-32,
\* 105-263; init.cpp:83-99).
THEOREM EveryCrashHasCause == Spec => []CrashesHaveCause
<1>1. Init => CrashInv
  BY DEF Init, CrashInv
<1>2. Spec => []CrashInv
  BY <1>1, NextCrashInv, CacheInvariant, StartupTypeCorrect, PTL DEF Spec
<1>3. CacheInv /\ CrashInv => CrashesHaveCause
  BY PatchesAssumption DEF CacheInv, CrashInv, CrashesHaveCause, Installing
<1>4. QED
  BY <1>2, <1>3, CacheInvariant, PTL
=============================================================================
