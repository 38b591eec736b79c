---------------------------- MODULE LoaderProofs ----------------------------
(***************************************************************************)
(* Proofs about Loader, for every number of runs of myoink and of polls.   *)
(***************************************************************************)
EXTENDS Loader, TLAPS

LEMMA InitTypeOK == Init => TypeOK
<1> SUFFICES ASSUME Init PROVE TypeOK
  OBVIOUS
<1>1. 0 \in 0 .. MaxPolls
  BY LoaderAssumption
<1>2. polls \in [Loader -> 0 .. MaxPolls]
  BY <1>1 DEF Init
<1>3. code \in [Loader -> {STILL_ACTIVE, 0, 1, 2, 20, 22, 23}]
  BY DEF Init
<1>4. QED
  BY <1>2, <1>3 DEF Init, TypeOK

LEMMA NextTypeOK == TypeOK /\ [Next]_vars => TypeOK'
<1> SUFFICES ASSUME TypeOK, [Next]_vars PROVE TypeOK'
  OBVIOUS
<1> USE LoaderAssumption DEF TypeOK, At, Goto, Exit, gameVars, threadVars
<1>1. CASE ShowWindow
  BY <1>1 DEF ShowWindow
<1>2. CASE ExitGame
  <2>1. remote' \in [Loader -> {"none", "born", "loading", "ended", "killed"}]
    BY <1>2 DEF ExitGame
  <2>2. ec' \in [Loader -> {0, 1}]
    BY <1>2 DEF ExitGame
  <2>3. QED
    BY <1>2, <2>1, <2>2 DEF ExitGame
<1>3. ASSUME NEW l \in Loader, Myoink(l) PROVE TypeOK'
  <2>1. CASE Refuse(l) \/ FindDll(l) \/ PollWindow(l) \/ GiveUpPolling(l)
    BY <2>1 DEF Refuse, FindDll, PollWindow, GiveUpPolling
  <2>2. CASE OpenGame(l) \/ Allocate(l) \/ Write(l)
    BY <2>2 DEF OpenGame, Allocate, Write
  <2>3. CASE CreateThread(l) \/ Wait(l) \/ Free(l)
    BY <2>3 DEF CreateThread, Wait, Free, loaded
  <2>4. QED
    BY <1>3, <2>1, <2>2, <2>3 DEF Myoink
<1>4. ASSUME NEW l \in Loader, ReadPath(l) \/ ReadFreedPath(l) \/ FinishLoading(l)
      PROVE  TypeOK'
  BY ZenonT(30), <1>4 DEF ReadPath, ReadFreedPath, FinishLoading
<1>5. CASE UNCHANGED vars
  BY <1>5 DEF vars
<1>6. QED
  BY <1>1, <1>2, <1>3, <1>4, <1>5 DEF Next

\* The polls never pass their limit, and the exit code of myoink is one that
\* wmain returns (loader.cpp:118-166).
THEOREM LoaderTypeCorrect == Spec => []TypeOK
  BY InitTypeOK, NextTypeOK, PTL DEF Spec
-----------------------------------------------------------------------------
(***************************************************************************)
(* The remote copy of the path.                                            *)
(***************************************************************************)
\* What the copy and its reader are by each stage of inject_dll.
CopyBy(l) ==
  /\ pc[l] \in {"find", "poll", "open", "alloc"} => copy[l] = "none"
  /\ pc[l] = "write" => copy[l] = "blank"
  /\ pc[l] \in {"thread", "wait"} => copy[l] = "path"
  /\ pc[l] = "exited" => copy[l] \in {"none", "freed"}

ReaderBy(l) ==
  /\ pc[l] \in {"find", "poll", "open", "alloc", "write", "thread"} => remote[l] = "none"
  /\ remote[l] = "born" => pc[l] = "wait" \/ timedOut[l]

CopyInv == \A l \in Loader : CopyBy(l) /\ ReaderBy(l)

LEMMA NextCopyInv == TypeOK /\ CopyInv /\ [Next]_vars => CopyInv'
<1> SUFFICES ASSUME TypeOK, CopyInv, [Next]_vars, NEW m \in Loader
             PROVE  CopyBy(m)' /\ ReaderBy(m)'
  BY DEF CopyInv
<1> USE DEF TypeOK, CopyInv, CopyBy, ReaderBy, At, Goto, Exit, gameVars, threadVars
<1>1. CASE ShowWindow
  BY <1>1 DEF ShowWindow
<1>2. CASE ExitGame
  <2>1. remote'[m] \in {remote[m], "killed"} /\ (remote[m] = "none" => remote'[m] = "none")
    BY <1>2 DEF ExitGame
  <2>2. UNCHANGED <<pc, copy, timedOut>>
    BY <1>2 DEF ExitGame
  <2>3. QED
    BY <2>1, <2>2
<1>3. ASSUME NEW l \in Loader, Myoink(l) PROVE CopyBy(m)' /\ ReaderBy(m)'
  <2>1. CASE Refuse(l) \/ FindDll(l) \/ PollWindow(l) \/ GiveUpPolling(l)
    BY <2>1 DEF Refuse, FindDll, PollWindow, GiveUpPolling
  <2>2. CASE OpenGame(l) \/ Allocate(l) \/ Write(l)
    BY <2>2 DEF OpenGame, Allocate, Write
  <2>3. CASE CreateThread(l)
    BY <2>3 DEF CreateThread
  <2>4. CASE Wait(l)
    BY <2>4 DEF Wait
  <2>5. CASE Free(l)
    BY <2>5 DEF Free
  <2>6. QED
    BY <1>3, <2>1, <2>2, <2>3, <2>4, <2>5 DEF Myoink
<1>4. ASSUME NEW l \in Loader, ReadPath(l) \/ ReadFreedPath(l) \/ FinishLoading(l)
      PROVE  CopyBy(m)' /\ ReaderBy(m)'
  BY <1>4 DEF ReadPath, ReadFreedPath, FinishLoading
<1>5. CASE UNCHANGED vars
  BY <1>5 DEF vars
<1>6. QED
  BY <1>1, <1>2, <1>3, <1>4, <1>5 DEF Next

LEMMA CopyInvariant == Spec => []CopyInv
<1>1. Init => CopyInv
  BY DEF Init, CopyInv, CopyBy, ReaderBy
<1>2. QED
  BY <1>1, NextCopyInv, LoaderTypeCorrect, PTL DEF Spec

\* Every way out of inject_dll frees the copy (loader.cpp:83-115).
THEOREM NoCopyIsLeft == Spec => []NoCopyLeft
<1>1. CopyInv => NoCopyLeft
  BY DEF CopyInv, CopyBy, NoCopyLeft, At
<1>2. QED
  BY <1>1, CopyInvariant, PTL

\* Only a timeout of the wait takes the path from a thread that has yet to
\* read it (loader.cpp:104-113).
THEOREM PathOutlivesItsReader == Spec => []PathOutlivesReader
<1>1. CopyInv => PathOutlivesReader
  BY DEF CopyInv, CopyBy, ReaderBy, PathOutlivesReader
<1>2. QED
  BY <1>1, CopyInvariant, PTL
-----------------------------------------------------------------------------
(***************************************************************************)
(* The exit code.                                                          *)
(***************************************************************************)
\* An exit code other than 0 is a module's address or the game's own.
CodeBy(l) ==
  /\ remote[l] = "killed" => game = "exited"
  /\ ec[l] # 0 => remote[l] \in {"ended", "killed"} /\ (dllIn \/ game = "exited")
  /\ code[l] = 0 => dllIn \/ game = "exited"

CodeInv == \A l \in Loader : CodeBy(l)

LEMMA NextCodeInv == TypeOK /\ CopyInv /\ CodeInv /\ [Next]_vars => CodeInv'
<1> SUFFICES ASSUME TypeOK, CopyInv, CodeInv, [Next]_vars, NEW m \in Loader PROVE CodeBy(m)'
  BY DEF CodeInv
<1> USE DEF TypeOK, CodeInv, CodeBy, At, Goto, Exit, gameVars, threadVars
<1>1. CASE ShowWindow
  BY <1>1 DEF ShowWindow
<1>2. CASE ExitGame
  <2>1. game' = "exited" /\ remote'[m] \in {remote[m], "killed"}
    BY <1>2 DEF ExitGame
  <2>2. ec'[m] # 0 => remote'[m] \in {"ended", "killed"}
    <3>1. CASE remote[m] \in {"born", "loading"}
      BY <1>2, <3>1 DEF ExitGame
    <3>2. CASE remote[m] \notin {"born", "loading"}
      BY <1>2, <3>2 DEF ExitGame
    <3>3. QED
      BY <3>1, <3>2
  <2>3. QED
    BY <2>1, <2>2
<1>3. ASSUME NEW l \in Loader, Myoink(l) PROVE CodeBy(m)'
  <2>1. CASE Refuse(l) \/ FindDll(l) \/ PollWindow(l) \/ GiveUpPolling(l)
    BY <2>1 DEF Refuse, FindDll, PollWindow, GiveUpPolling
  <2>2. CASE OpenGame(l) \/ Allocate(l) \/ Write(l)
    BY <2>2 DEF OpenGame, Allocate, Write
  <2>3. CASE CreateThread(l)
    BY <2>3 DEF CreateThread, CopyInv, ReaderBy
  <2>4. CASE Wait(l)
    BY <2>4 DEF Wait
  <2>5. CASE Free(l)
    BY <2>5 DEF Free, loaded
  <2>6. QED
    BY <1>3, <2>1, <2>2, <2>3, <2>4, <2>5 DEF Myoink
<1>4. ASSUME NEW l \in Loader, ReadPath(l) \/ ReadFreedPath(l) \/ FinishLoading(l)
      PROVE  CodeBy(m)'
  <2>1. CASE ReadPath(l)
    BY <2>1 DEF ReadPath
  <2>2. CASE ReadFreedPath(l)
    BY <2>2 DEF ReadFreedPath
  <2>3. CASE FinishLoading(l)
    BY <2>3 DEF FinishLoading
  <2>4. QED
    BY <1>4, <2>1, <2>2, <2>3
<1>5. CASE UNCHANGED vars
  BY <1>5 DEF vars
<1>6. QED
  BY <1>1, <1>2, <1>3, <1>4, <1>5 DEF Next

\* myoink reports success only if the DLL is in the game or the game is gone,
\* whichever of its runs loaded it (loader.cpp:105-114).
THEOREM ZeroAlwaysMeansLoaded == Spec => []ZeroMeansLoaded
<1>1. ASSUME Init, NEW l \in Loader PROVE CodeBy(l)
  <2>1. remote[l] = "none" /\ ec[l] = 0 /\ code[l] = 259
    BY <1>1 DEF Init, STILL_ACTIVE
  <2>2. QED
    BY <2>1 DEF CodeBy
<1>2. CodeInv => ZeroMeansLoaded
  BY DEF CodeInv, CodeBy, ZeroMeansLoaded
<1>3. Init => CodeInv
  BY <1>1 DEF CodeInv
<1>4. QED
  BY <1>2, <1>3, NextCodeInv, CopyInvariant, LoaderTypeCorrect, PTL DEF Spec
=============================================================================
