-------------------------------- MODULE Log --------------------------------
(***************************************************************************)
(* The log file (src/log.cpp), from the moment DllMain hooks ExitProcess.  *)
(* The loader thread logs one line from DllMain and then starts the init   *)
(* thread, which calls log_init and logs on; a game thread logs whenever   *)
(* it runs into the ExitProcess stub.  Path, lock and flag are set up by   *)
(* the first write, and log_init sets the path up again.                   *)
(*                                                                         *)
(* The path is a std::wstring that nothing guards.  A thread at "assign" is*)
(* on its way into a move assignment of it or in the middle of one, and    *)
(* the others may find its old value, its new one, or neither.             *)
(***************************************************************************)
EXTENDS Integers, Sequences, FiniteSets

CONSTANTS
  Game,       \* the game threads that call ExitProcess
  Loader, InitThread,
  Lines,      \* how many lines each thread writes
  None

Actor == Game \cup {Loader, InitThread}

ASSUME ActorsAssumption ==
  /\ Loader \notin Game /\ InitThread \notin Game /\ Loader # InitThread
  /\ None \notin Actor
  /\ Lines \in [Actor -> Nat \ {0}] /\ Lines[Loader] = 1

\* A line is known by the thread that wrote it and its place among the lines
\* of that thread; the loader writes one.
Line == UNION {{a} \X (1 .. Lines[a]) : a \in Actor}

VARIABLES
  path,     \* whether g_log_path is not empty
  inits,    \* the threads that have initialised g_log_lock
  owner,    \* the thread that holds g_log_lock
  broken,   \* the lock was left by a thread that did not own it
  file,     \* the lines in the file
  pc,       \* where each thread is in write_file or log_init
  written,  \* the lines that each thread has written, the current one included
  started,  \* log_init has returned
  early,    \* the lines whose write began before the path was Settled
  raced     \* g_log_path was changed under another thread that changes it or
            \* that opens the file: what follows is not modelled

vars == <<path, inits, owner, broken, file, pc, written, started, early, raced>>

Init ==
  /\ path = FALSE /\ inits = {} /\ owner = None /\ broken = FALSE
  /\ file = <<>>
  /\ pc = [a \in Actor |-> IF a = InitThread THEN "unborn" ELSE "idle"]
  /\ written = [a \in Actor |-> 0]
  /\ started = FALSE /\ early = {} /\ raced = FALSE

At(a, p) == ~raced /\ pc[a] = p
Goto(a, p) == pc' = [pc EXCEPT ![a] = p]
\* The number taken after it was counted up.
NextLineOf(a) == <<a, written[a] + 1>>
LineOf(a) == <<a, written[a]>>

g_log_lock_inited == inits # {}

\* Another thread may be in the middle of assigning the path.
PathMoves(a) == \E b \in Actor \ {a} : pc[b] = "assign"

\* log_init has returned, and no thread that found the path empty before is on
\* its way to assign it.
Settled == started /\ \A a \in Actor : pc[a] \notin {"lock", "init", "assign"}

\* log_init runs until the init thread has written its first line.
InLogInit(a) == a = InitThread /\ written[a] = 0
-----------------------------------------------------------------------------
(***************************************************************************)
(* ensure_log_path.                                                        *)
(***************************************************************************)
TestPath(a) ==
  /\ At(a, "path")
  /\ \/ (path \/ PathMoves(a)) /\ Goto(a, "enter")
     \/ (~path \/ PathMoves(a)) /\ Goto(a, "lock")
  /\ UNCHANGED <<path, inits, owner, broken, file, written, started, early, raced>>

\* The flag is not tested.
InitLockAgain(a) ==
  /\ At(a, "lock") /\ Goto(a, "init")
  /\ UNCHANGED <<path, inits, owner, broken, file, written, started, early, raced>>

TestLock(a) ==
  /\ At(a, "lock")
  /\ Goto(a, IF g_log_lock_inited THEN "assign" ELSE "init")
  /\ UNCHANGED <<path, inits, owner, broken, file, written, started, early, raced>>

\* InitializeCriticalSection forgets an owner there may be.
InitLock(a) ==
  /\ At(a, "init")
  /\ inits' = inits \cup {a} /\ owner' = None /\ broken' = FALSE
  /\ Goto(a, "assign")
  /\ UNCHANGED <<path, file, written, started, early, raced>>

AssignPath(a) ==
  /\ At(a, "assign")
  /\ path' = TRUE
  /\ Goto(a, "enter")
  /\ UNCHANGED <<inits, owner, broken, file, written, started, early, raced>>

\* The assignment frees the string's old buffer, which another thread may be
\* clearing, assigning or opening the file by.
PathRaces(a) ==
  /\ At(a, "assign")
  /\ \E b \in Actor \ {a} : pc[b] \in {"clear", "assign", "append", "truncate"}
  /\ raced' = TRUE
  /\ UNCHANGED <<path, inits, owner, broken, file, pc, written, started, early>>
-----------------------------------------------------------------------------
(***************************************************************************)
(* write_file, and what log_init does in its place.                        *)
(***************************************************************************)
\* A lock that was left by a thread that did not own it may do anything.
EnterLock(a) ==
  /\ At(a, "enter")
  /\ owner = None \/ broken
  /\ owner' = a
  /\ Goto(a, IF InLogInit(a) THEN "truncate" ELSE "append")
  /\ UNCHANGED <<path, inits, broken, file, written, started, early, raced>>

\* CreateFileW opens the file when it finds the path, and may fail when the path
\* is not there, or is in motion, or when another thread has the file open:
\* log_init opens it for itself alone.
Opens(a) == path \/ PathMoves(a)
MayFail(a) ==
  \/ ~path \/ PathMoves(a)
  \/ \E b \in Actor \ {a} : {pc[a], pc[b]} = {"append", "truncate"}

\* CREATE_ALWAYS
Truncate(a) ==
  /\ At(a, "truncate")
  /\ \/ Opens(a) /\ file' = <<>>
     \/ MayFail(a) /\ file' = file
  /\ Goto(a, "leave")
  /\ UNCHANGED <<path, inits, owner, broken, written, started, early, raced>>

\* FILE_GENERIC_WRITE in the place of FILE_APPEND_DATA: the write starts at 0.
WriteAtStart(a) ==
  /\ At(a, "append") /\ Opens(a)
  /\ file' = IF file = <<>> THEN <<LineOf(a)>> ELSE [file EXCEPT ![1] = LineOf(a)]
  /\ Goto(a, "leave")
  /\ UNCHANGED <<path, inits, owner, broken, written, started, early, raced>>

AppendLine(a) ==
  /\ At(a, "append") /\ Opens(a)
  /\ file' = Append(file, LineOf(a))
  /\ Goto(a, "leave")
  /\ UNCHANGED <<path, inits, owner, broken, written, started, early, raced>>

\* A return in the place of the test of the handle.
LoseLineHolding(a) ==
  /\ At(a, "append") /\ MayFail(a)
  /\ Goto(a, "idle")
  /\ UNCHANGED <<path, inits, owner, broken, file, written, started, early, raced>>

\* CreateFileW fails, and the line is lost in silence.
LoseLine(a) ==
  /\ At(a, "append") /\ MayFail(a)
  /\ Goto(a, "leave")
  /\ UNCHANGED <<path, inits, owner, broken, file, written, started, early, raced>>

\* After a lock was initialised over its owner, its count goes wrong.
LeaveLock(a) ==
  /\ At(a, "leave")
  /\ broken' = (broken \/ owner # a)
  /\ owner' = IF owner = a THEN None ELSE owner
  /\ IF InLogInit(a)
     THEN \* log_init goes on to write_file("[Myosotis] log started")
          /\ written' = [written EXCEPT ![a] = 1]
          /\ early' = early \cup {<<a, 1>>}
          /\ Goto(a, "path") /\ UNCHANGED started
     ELSE /\ Goto(a, "idle") /\ started' = (started \/ a = InitThread)
          /\ UNCHANGED <<written, early>>
  /\ UNCHANGED <<path, inits, file, raced>>
-----------------------------------------------------------------------------
\* DllMain has logged its line and starts the init thread (dllmain.cpp:108-119).
DllMainReturned == written[Loader] = 1 /\ pc[Loader] = "idle"

StartInitThread ==
  /\ At(InitThread, "unborn") /\ DllMainReturned
  /\ Goto(InitThread, "clear")
  /\ UNCHANGED <<path, inits, owner, broken, file, written, started, early, raced>>

\* log_init clears the path it may find, without the lock.
ClearPath ==
  /\ At(InitThread, "clear")
  /\ path' = FALSE
  /\ Goto(InitThread, "path")
  /\ UNCHANGED <<inits, owner, broken, file, written, started, early, raced>>

\* log_raw: by the loader once, by the init thread after log_init, and by the
\* game from the moment the stub is in place, DllMain or not.
LogRaw(a) ==
  /\ At(a, "idle")
  /\ written[a] < Lines[a]
  /\ written' = [written EXCEPT ![a] = @ + 1]
  /\ early' = IF Settled THEN early ELSE early \cup {<<a, written[a] + 1>>}
  /\ Goto(a, "path")
  /\ UNCHANGED <<path, inits, owner, broken, file, started, raced>>

InLog(a) ==
  \/ TestPath(a) \/ TestLock(a) \/ InitLock(a) \/ AssignPath(a) \/ PathRaces(a)
  \/ EnterLock(a) \/ Truncate(a) \/ AppendLine(a) \/ LoseLine(a) \/ LeaveLock(a)

Next ==
  \/ StartInitThread \/ ClearPath
  \/ \E a \in Actor : LogRaw(a) \/ InLog(a)

Spec == Init /\ [][Next]_vars

\* Threads run on.  No fairness of the lock is assumed: the lines are finitely
\* many, so that it is free for good in the end.
FairSpec ==
  /\ Spec /\ WF_vars(StartInitThread) /\ WF_vars(ClearPath)
  /\ \A a \in Actor : WF_vars(InLog(a))
-----------------------------------------------------------------------------
(***************************************************************************)
(* Properties.                                                             *)
(***************************************************************************)
\* The type of every variable.
TypeOK ==
  /\ path \in BOOLEAN /\ inits \subseteq Actor /\ broken \in BOOLEAN
  /\ owner \in Actor \cup {None}
  /\ file \in Seq(Line)
  /\ pc \in [Actor -> {"unborn", "idle", "clear", "path", "lock", "init", "assign",
                       "enter", "truncate", "append", "leave"}]
  /\ written \in [Actor -> Nat] /\ \A a \in Actor : written[a] <= Lines[a]
  /\ started \in BOOLEAN /\ early \subseteq Line /\ raced \in BOOLEAN

\* The line of a that a has finished writing.
Finished(l) == \/ l[2] < written[l[1]]
               \/ l[2] = written[l[1]] /\ pc[l[1]] = "idle"
InFile(l) == \E i \in 1 .. Len(file) : file[i] = l

\* Only one thread at a time has the file open, though the path is set up again
\* under threads that write to it (log.cpp:48-59, 92-97): the init thread finds
\* the lock initialised, and the lock excludes unless two threads that logged
\* before have both initialised it, for nothing guards its flag (log.cpp:26-28).
OneInit == \A a, b \in inits : a = b
FileExclusive ==
  /\ InitThread \notin inits
  /\ OneInit => /\ ~broken
                /\ \A a, b \in Actor :
                     {pc[a], pc[b]} \subseteq {"append", "truncate"} => a = b

\* Whatever is logged once the path is settled is in the file, once, even if two
\* threads initialised the lock, and the lines of a thread are there in the order
\* it wrote them (log.cpp:3-5).  The end of log_init does not settle the path: a
\* thread that found it cleared may assign it yet (log.cpp:25, 42, 93).
LaterLinesKept ==
  /\ \A l \in Line \ early : Finished(l) => InFile(l)
  /\ \A i, j \in 1 .. Len(file) :
       i < j /\ file[i][1] = file[j][1] => file[i][2] < file[j][2]

\* Logging does not hang the game: every thread gets out of the log again, unless
\* an assignment of the path met another user of it, or two threads initialised
\* the lock, which then may never be free (log.cpp:24-59).
LoggersReturn ==
  \A a \in Actor : pc[a] \notin {"idle", "unborn"} ~> pc[a] = "idle" \/ raced \/ ~OneInit

=============================================================================
