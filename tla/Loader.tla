------------------------------ MODULE Loader ------------------------------
(***************************************************************************)
(* myoink (tools/loader.cpp): waits for the game's window, copies the path *)
(* of the DLL into the game and starts a thread there that calls           *)
(* LoadLibraryW on the copy.  It waits 30 seconds for that thread and then *)
(* frees the copy, whatever came of it.  The game may exit at any time, and *)
(* myoink may be run more than once.                                       *)
(***************************************************************************)
EXTENDS Integers

CONSTANTS
  Loader,     \* the runs of myoink
  MaxPolls    \* kWaitMaxPolls (600 in the code)

ASSUME LoaderAssumption == MaxPolls \in Nat \ {0}

VARIABLES
  game,     \* "starting", "window" or "exited"
  dllIn,    \* whether the DLL is loaded in the game
  pc,       \* where each run of myoink is
  polls,    \* the polls for the window so far
  copy,     \* the remote copy of the path: "none", "blank", "path" or "freed"
  remote,   \* the remote thread: "none", "born", "loading", "ended" or "killed"
  ec,       \* its exit code: 0 or 1 for any other
  timedOut, \* whether myoink stopped waiting for it
  code      \* the exit code of myoink, STILL_ACTIVE while it runs

\* What Windows says is the exit code of a running process.
STILL_ACTIVE == 259

gameVars == <<game, dllIn>>
threadVars == <<remote, ec>>
vars == <<gameVars, pc, polls, copy, threadVars, timedOut, code>>

Init ==
  /\ game = "starting" /\ dllIn = FALSE
  /\ pc = [l \in Loader |-> "find"]
  /\ polls = [l \in Loader |-> 0]
  /\ copy = [l \in Loader |-> "none"]
  /\ remote = [l \in Loader |-> "none"]
  /\ ec = [l \in Loader |-> 0]
  /\ timedOut = [l \in Loader |-> FALSE]
  /\ code = [l \in Loader |-> STILL_ACTIVE]

At(l, p) == pc[l] = p
Goto(l, p) == pc' = [pc EXCEPT ![l] = p]
Exit(l, n) == Goto(l, "exited") /\ code' = [code EXCEPT ![l] = n]
-----------------------------------------------------------------------------
(***************************************************************************)
(* The game and the thread in it; external.                                *)
(***************************************************************************)
ShowWindow ==
  /\ game = "starting" /\ game' = "window"
  /\ UNCHANGED <<dllIn, pc, polls, copy, threadVars, timedOut, code>>

\* Its threads end with the exit code of the process.
ExitGame ==
  /\ game' = "exited" /\ game # "exited"
  /\ dllIn' = FALSE
  /\ remote' = [l \in Loader |-> IF remote[l] \in {"born", "loading"} THEN "killed"
                                 ELSE remote[l]]
  /\ \E n \in {0, 1} :
       ec' = [l \in Loader |-> IF remote[l] \in {"born", "loading"} THEN n ELSE ec[l]]
  /\ UNCHANGED <<pc, polls, copy, timedOut, code>>

ReadPath(l) ==
  /\ remote[l] = "born" /\ copy[l] = "path"
  /\ remote' = [remote EXCEPT ![l] = "loading"]
  /\ UNCHANGED <<gameVars, pc, polls, copy, ec, timedOut, code>>

\* The copy is gone: the thread fails (or takes the game with it, ExitGame).
ReadFreedPath(l) ==
  /\ remote[l] = "born" /\ copy[l] = "freed"
  /\ remote' = [remote EXCEPT ![l] = "ended"]
  /\ UNCHANGED <<gameVars, pc, polls, copy, ec, timedOut, code>>

\* The thread exits with the lower half of the module's address, which may be 0
\* though the module is there.
FinishLoading(l) ==
  /\ remote[l] = "loading"
  /\ remote' = [remote EXCEPT ![l] = "ended"]
  /\ \/ dllIn' = TRUE /\ \E n \in {0, 1} : ec' = [ec EXCEPT ![l] = n]
     \/ ~dllIn /\ UNCHANGED <<dllIn, ec>>
  /\ UNCHANGED <<game, pc, polls, copy, timedOut, code>>
-----------------------------------------------------------------------------
(***************************************************************************)
(* wmain.                                                                  *)
(***************************************************************************)
\* An unknown argument, or no DLL beside myoink or in its directory.
Refuse(l) ==
  /\ At(l, "find")
  /\ \E n \in {1, 2} : Exit(l, n)
  /\ UNCHANGED <<gameVars, polls, copy, threadVars, timedOut>>

FindDll(l) ==
  /\ At(l, "find") /\ Goto(l, "poll")
  /\ UNCHANGED <<gameVars, polls, copy, threadVars, timedOut, code>>

\* A loop without its limit.
PollOn(l) ==
  /\ At(l, "poll")
  /\ IF game = "window" THEN Goto(l, "open") /\ UNCHANGED polls
     ELSE polls' = [polls EXCEPT ![l] = @ + 1] /\ UNCHANGED pc
  /\ UNCHANGED <<gameVars, copy, threadVars, timedOut, code>>

PollWindow(l) ==
  /\ At(l, "poll") /\ polls[l] < MaxPolls
  /\ IF game = "window" THEN Goto(l, "open") /\ UNCHANGED polls
     ELSE polls' = [polls EXCEPT ![l] = @ + 1] /\ UNCHANGED pc
  /\ UNCHANGED <<gameVars, copy, threadVars, timedOut, code>>

GiveUpPolling(l) ==
  /\ At(l, "poll") /\ polls[l] = MaxPolls /\ Exit(l, 20)
  /\ UNCHANGED <<gameVars, polls, copy, threadVars, timedOut>>

OpenGame(l) ==
  /\ At(l, "open")
  /\ \/ game = "window" /\ Goto(l, "alloc") /\ UNCHANGED code
     \/ Exit(l, 22)
  /\ UNCHANGED <<gameVars, polls, copy, threadVars, timedOut>>
-----------------------------------------------------------------------------
(***************************************************************************)
(* inject_dll.                                                             *)
(***************************************************************************)
Allocate(l) ==
  /\ At(l, "alloc")
  /\ \/ /\ game = "window" /\ copy' = [copy EXCEPT ![l] = "blank"]
        /\ Goto(l, "write") /\ UNCHANGED code
     \/ Exit(l, 23) /\ UNCHANGED copy
  /\ UNCHANGED <<gameVars, polls, threadVars, timedOut>>

Write(l) ==
  /\ At(l, "write")
  /\ \/ /\ game = "window" /\ copy' = [copy EXCEPT ![l] = "path"]
        /\ Goto(l, "thread")
     \/ Goto(l, "free") /\ UNCHANGED copy
  /\ UNCHANGED <<gameVars, polls, threadVars, timedOut, code>>

\* An early return that leaves the copy where it is.
LeaveCopy(l) ==
  /\ At(l, "thread")
  /\ \/ /\ game = "window" /\ remote' = [remote EXCEPT ![l] = "born"]
        /\ Goto(l, "wait") /\ UNCHANGED code
     \/ Exit(l, 23) /\ UNCHANGED remote
  /\ UNCHANGED <<gameVars, polls, copy, ec, timedOut>>

\* No address of LoadLibraryW, or no thread: the copy is freed.
CreateThread(l) ==
  /\ At(l, "thread")
  /\ \/ /\ game = "window" /\ remote' = [remote EXCEPT ![l] = "born"]
        /\ Goto(l, "wait")
     \/ Goto(l, "free") /\ UNCHANGED remote
  /\ UNCHANGED <<gameVars, polls, copy, ec, timedOut, code>>

\* INFINITE in the place of 30000.
WaitForever(l) ==
  /\ At(l, "wait") /\ remote[l] \in {"ended", "killed"} /\ Goto(l, "free")
  /\ UNCHANGED <<gameVars, polls, copy, threadVars, timedOut, code>>

\* The copy is freed as soon as the thread runs.
WaitForNothing(l) ==
  /\ At(l, "wait") /\ Goto(l, "free")
  /\ UNCHANGED <<gameVars, polls, copy, threadVars, timedOut, code>>

Wait(l) ==
  /\ At(l, "wait")
  /\ Goto(l, "free")
  /\ timedOut' = [timedOut EXCEPT ![l] = remote[l] \notin {"ended", "killed"}]
  /\ UNCHANGED <<gameVars, polls, copy, threadVars, code>>

\* The exit code of the thread is logged and forgotten.
loaded_if_ended(l) == remote[l] \in {"ended", "killed"} /\ ~timedOut[l]

loaded(l) == remote[l] \in {"ended", "killed"} /\ ~timedOut[l] /\ ec[l] # 0

Free(l) ==
  /\ At(l, "free")
  /\ copy' = [copy EXCEPT ![l] = "freed"]
  /\ Exit(l, IF loaded(l) THEN 0 ELSE 23)
  /\ UNCHANGED <<gameVars, polls, threadVars, timedOut>>

Myoink(l) ==
  \/ Refuse(l) \/ FindDll(l) \/ PollWindow(l) \/ GiveUpPolling(l) \/ OpenGame(l)
  \/ Allocate(l) \/ Write(l) \/ CreateThread(l) \/ Wait(l) \/ Free(l)

Next ==
  \/ ShowWindow \/ ExitGame
  \/ \E l \in Loader : Myoink(l) \/ ReadPath(l) \/ ReadFreedPath(l) \/ FinishLoading(l)

Spec == Init /\ [][Next]_vars
FairSpec == Spec /\ \A l \in Loader : WF_vars(Myoink(l))
-----------------------------------------------------------------------------
(***************************************************************************)
(* Properties.                                                             *)
(***************************************************************************)
\* The type of every variable.
TypeOK ==
  /\ game \in {"starting", "window", "exited"} /\ dllIn \in BOOLEAN
  /\ pc \in [Loader -> {"find", "poll", "open", "alloc", "write", "thread", "wait",
                        "free", "exited"}]
  /\ polls \in [Loader -> 0 .. MaxPolls]
  /\ copy \in [Loader -> {"none", "blank", "path", "freed"}]
  /\ remote \in [Loader -> {"none", "born", "loading", "ended", "killed"}]
  /\ ec \in [Loader -> {0, 1}]
  /\ timedOut \in [Loader -> BOOLEAN]
  /\ code \in [Loader -> {STILL_ACTIVE, 0, 1, 2, 20, 22, 23}]

\* However it ends, a run of myoink leaves no memory in the game
\* (loader.cpp:83-115).
NoCopyLeft ==
  \A l \in Loader : At(l, "exited") => copy[l] \in {"none", "freed"}

\* A thread that has yet to read the path has it, unless myoink gave up waiting
\* for that very thread (loader.cpp:104-113).
PathOutlivesReader ==
  \A l \in Loader : remote[l] = "born" /\ ~timedOut[l] => copy[l] = "path"

\* Exit code 0 is never a false report of success: the DLL is in the game, or
\* the game is gone, whose exit ends the thread that loads with a code that
\* looks like an address (loader.cpp:105-114).
ZeroMeansLoaded == \A l \in Loader : code[l] = 0 => dllIn \/ game = "exited"

\* myoink ends, with or without the game (loader.cpp:104, 143).
MyoinkEnds == \A l \in Loader : <>At(l, "exited")
=============================================================================
