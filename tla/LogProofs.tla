----------------------------- MODULE LogProofs -----------------------------
(***************************************************************************)
(* Proofs about Log, for any number of game threads and of lines.          *)
(***************************************************************************)
EXTENDS Log, TLAPS

\* A thread is in the log for a line that it counted, except in log_init.
Counted ==
  \A a \in Actor :
    /\ pc[a] \in {"unborn", "clear", "truncate"} => a = InitThread
    /\ a # InitThread /\ pc[a] # "idle" => written[a] >= 1
    /\ pc[a] = "append" => written[a] >= 1
    /\ pc[a] = "truncate" => written[a] = 0

TypeInv == TypeOK /\ Counted

LEMMA LineFields ==
  ASSUME NEW l \in Line
  PROVE  l[1] \in Actor /\ l[2] \in 1 .. Lines[l[1]] /\ l[2] \in Nat \ {0} /\ l = <<l[1], l[2]>>
  BY ActorsAssumption DEF Line

LEMMA IsLine ==
  ASSUME NEW a \in Actor, NEW n \in 1 .. Lines[a]
  PROVE  <<a, n>> \in Line
  BY DEF Line

LEMMA InitTypeInv == Init => TypeInv
<1> SUFFICES ASSUME Init PROVE TypeInv
  OBVIOUS
<1> USE ActorsAssumption DEF Init
<1>1. /\ pc \in [Actor -> {"unborn", "idle"}]
      /\ written \in [Actor -> Nat] /\ \A a \in Actor : written[a] = 0
      /\ \A a \in Actor : pc[a] = "unborn" => a = InitThread
  BY DEF Actor
<1>2. \A a \in Actor : written[a] <= Lines[a]
  BY <1>1
<1>3. TypeOK
  <2>1. pc \in [Actor -> {"unborn", "idle", "clear", "path", "lock", "init", "assign",
                        "enter", "truncate", "append", "leave"}]
    BY <1>1
  <2>2. file \in Seq(Line)
    OBVIOUS
  <2>3. QED
    BY <1>1, <1>2, <2>1, <2>2 DEF TypeOK
<1>4. Counted
  BY <1>1 DEF Counted
<1>5. QED
  BY <1>3, <1>4 DEF TypeInv

LEMMA NextTypeInv ==
  ASSUME TypeInv, [Next]_vars
  PROVE  TypeInv'
<1> USE ActorsAssumption DEF TypeInv, TypeOK, Counted, At, Goto
<1>1. CASE StartInitThread
  BY <1>1 DEF StartInitThread, Actor
<1>2. CASE ClearPath
  BY <1>2 DEF ClearPath, Actor
<1>3. ASSUME NEW a \in Actor, LogRaw(a) PROVE TypeInv'
  <2>1. written[a] \in Nat /\ Lines[a] \in Nat /\ written[a] < Lines[a]
    BY <1>3 DEF LogRaw
  <2>2. /\ written' \in [Actor -> Nat] /\ written'[a] = written[a] + 1
        /\ \A b \in Actor : written'[b] <= Lines[b]
    BY <1>3, <2>1 DEF LogRaw
  <2>3. <<a, written[a] + 1>> \in Line
    BY <2>1, IsLine
  <2>4. TypeOK'
    BY <1>3, <2>2, <2>3 DEF LogRaw
  <2>5. Counted'
    BY <1>3, <2>1, <2>2 DEF LogRaw
  <2>6. QED
    BY <2>4, <2>5
<1>4. ASSUME NEW a \in Actor, TestPath(a) PROVE TypeInv'
  BY ZenonT(30), <1>4 DEF TestPath
<1>5. ASSUME NEW a \in Actor, TestLock(a) PROVE TypeInv'
  BY <1>5 DEF TestLock
<1>6. ASSUME NEW a \in Actor, InitLock(a) PROVE TypeInv'
  BY <1>6 DEF InitLock
<1>7. ASSUME NEW a \in Actor, AssignPath(a) PROVE TypeInv'
  BY <1>7 DEF AssignPath
<1>8. ASSUME NEW a \in Actor, PathRaces(a) PROVE TypeInv'
  BY <1>8 DEF PathRaces
<1>9. ASSUME NEW a \in Actor, EnterLock(a) PROVE TypeInv'
  BY <1>9 DEF EnterLock, InLogInit
<1>10. ASSUME NEW a \in Actor, Truncate(a) PROVE TypeInv'
  <2>1. file' = <<>> \/ file' = file
    BY <1>10 DEF Truncate
  <2>2. file' \in Seq(Line)
    <3>1. file \in Seq(Line) /\ <<>> \in Seq(Line)
      OBVIOUS
    <3>2. QED
      BY <2>1, <3>1, Zenon
  <2>3. pc' \in [Actor -> {"unborn", "idle", "clear", "path", "lock", "init", "assign",
                         "enter", "truncate", "append", "leave"}]
    BY <1>10 DEF Truncate
  <2>4. QED
    BY <1>10, <2>2, <2>3 DEF Truncate
<1>11. ASSUME NEW a \in Actor, AppendLine(a) PROVE TypeInv'
  <2>1. written[a] \in 1 .. Lines[a]
    BY <1>11 DEF AppendLine
  <2>3. LineOf(a) \in Line
    BY <2>1, IsLine DEF LineOf
  <2>2. file' \in Seq(Line)
    BY <1>11, <2>3 DEF AppendLine
  <2>4. QED
    BY <1>11, <2>2 DEF AppendLine
<1>15. ASSUME NEW a \in Actor, LoseLine(a) PROVE TypeInv'
  BY <1>15 DEF LoseLine
<1>12. ASSUME NEW a \in Actor, LeaveLock(a) PROVE TypeInv'
  <2>1. CASE InLogInit(a)
    <3>0. 1 \in 1 .. Lines[a] /\ written' = [written EXCEPT ![a] = 1]
      BY <1>12, <2>1 DEF LeaveLock
    <3>1. /\ written' \in [Actor -> Nat] /\ \A b \in Actor : written'[b] <= Lines[b]
          /\ <<a, 1>> \in Line
      BY <3>0, IsLine
    <3>2. early' \subseteq Line
      BY ZenonT(30), <1>12, <2>1, <3>1 DEF LeaveLock
    <3>3. TypeOK'
      BY <1>12, <2>1, <3>1, <3>2 DEF LeaveLock
    <3>4. Counted'
      BY <1>12, <2>1, <3>1 DEF LeaveLock, InLogInit
    <3>5. QED
      BY <3>3, <3>4
  <2>2. CASE ~InLogInit(a)
    BY <1>12, <2>2 DEF LeaveLock
  <2>3. QED
    BY <2>1, <2>2
<1>13. CASE UNCHANGED vars
  BY <1>13 DEF vars
<1>14. QED
  BY <1>1, <1>2, <1>3, <1>4, <1>5, <1>6, <1>7, <1>8, <1>9, <1>10, <1>11, <1>15, <1>12, <1>13
  DEF Next, InLog

LEMMA TypeInvHolds == Spec => []TypeInv
  BY InitTypeInv, NextTypeInv, PTL DEF Spec

\* Every variable of Log keeps its type.
THEOREM LogTypeCorrect == Spec => []TypeOK
<1>1. TypeInv => TypeOK
  BY DEF TypeInv
<1>2. QED
  BY <1>1, TypeInvHolds, PTL
-----------------------------------------------------------------------------
(***************************************************************************)
(* The lock.  A thread initialises it once at most, and never after the    *)
(* line of DllMain is written, except if it tested the flag before: the    *)
(* init thread finds it initialised (dllmain.cpp:101-119).                 *)
(***************************************************************************)
InLock == {"append", "truncate", "leave"}

LockInv ==
  /\ InitThread \notin inits /\ pc[InitThread] # "init"
  /\ pc[InitThread] # "unborn" => DllMainReturned
  /\ pc[InitThread] = "unborn" => written[InitThread] = 0
  /\ DllMainReturned \/ path => g_log_lock_inited
  /\ \A a \in Actor :
       /\ pc[a] = "init" => a \notin inits
       /\ pc[a] \in {"assign", "enter"} \cup InLock => g_log_lock_inited
  /\ OneInit => ~broken /\ \A a \in Actor : pc[a] \in InLock => owner = a

LEMMA InitLockInv == Init => LockInv
  BY ActorsAssumption DEF Init, LockInv, InLock, Actor, DllMainReturned, g_log_lock_inited

LEMMA NextLockInv ==
  ASSUME TypeInv, LockInv, [Next]_vars
  PROVE  LockInv'
<1> USE ActorsAssumption DEF TypeInv, TypeOK, Counted, LockInv, InLock, DllMainReturned, At, Goto,
        g_log_lock_inited, OneInit
<1>0. Loader \in Actor /\ InitThread \in Actor
  BY DEF Actor
<1>1. CASE StartInitThread
  BY <1>0, <1>1 DEF StartInitThread
<1>2. CASE ClearPath
  BY <1>0, <1>2 DEF ClearPath
<1>3. ASSUME NEW a \in Actor, LogRaw(a) PROVE LockInv'
  <2>1. a = Loader => written[Loader] = 0
    BY <1>3 DEF LogRaw
  <2>2. /\ pc[a] = "idle" /\ pc'[a] = "path" /\ \A b \in Actor \ {a} : pc'[b] = pc[b]
        /\ \A b \in Actor \ {a} : written'[b] = written[b]
        /\ UNCHANGED <<path, inits, owner, broken>>
    BY <1>3 DEF LogRaw
  <2>3. DllMainReturned => DllMainReturned'
    BY <1>0, <2>1, <2>2
  <2>4. DllMainReturned' => DllMainReturned
    BY <1>0, <2>2
  <2>5. QED
    BY <1>0, <2>2, <2>3, <2>4
<1>4. ASSUME NEW a \in Actor, TestPath(a) PROVE LockInv'
  <2>1. PathMoves(a) => inits # {}
    BY DEF PathMoves
  <2>2. /\ pc[a] = "path" /\ \A b \in Actor \ {a} : pc'[b] = pc[b]
        /\ pc'[a] = "lock" \/ (pc'[a] = "enter" /\ inits # {})
        /\ UNCHANGED <<path, inits, owner, broken, written>>
    BY <1>4, <2>1 DEF TestPath
  <2>3. QED
    BY <1>0, <2>2
<1>5. ASSUME NEW a \in Actor, TestLock(a) PROVE LockInv'
  BY <1>0, <1>5 DEF TestLock
<1>6. ASSUME NEW a \in Actor, InitLock(a) PROVE LockInv'
  <2>1. /\ pc[a] = "init" /\ a \notin inits /\ a # InitThread /\ inits' = inits \cup {a}
        /\ pc'[a] = "assign" /\ \A b \in Actor \ {a} : pc'[b] = pc[b]
        /\ broken' = FALSE /\ UNCHANGED <<path, written>>
    BY <1>6 DEF InitLock
  <2>2. OneInit' => \A b \in Actor : pc'[b] \notin InLock
    BY SMTT(30), <2>1
  <2>3. QED
    BY <1>0, <2>1, <2>2
<1>7. ASSUME NEW a \in Actor, AssignPath(a) PROVE LockInv'
  BY <1>0, <1>7 DEF AssignPath
<1>8. ASSUME NEW a \in Actor, PathRaces(a) PROVE LockInv'
  BY <1>0, <1>8 DEF PathRaces
<1>9. ASSUME NEW a \in Actor, EnterLock(a) PROVE LockInv'
  <2>1. OneInit => \A b \in Actor : pc[b] \notin InLock
    BY <1>9 DEF EnterLock
  <2>2. QED
    BY <1>0, <1>9, <2>1 DEF EnterLock
<1>10. ASSUME NEW a \in Actor, Truncate(a) PROVE LockInv'
  BY <1>0, <1>10 DEF Truncate
<1>11. ASSUME NEW a \in Actor, AppendLine(a) PROVE LockInv'
  BY <1>0, <1>11 DEF AppendLine
<1>15. ASSUME NEW a \in Actor, LoseLine(a) PROVE LockInv'
  BY <1>0, <1>15 DEF LoseLine
<1>12. ASSUME NEW a \in Actor, LeaveLock(a) PROVE LockInv'
  <2>1. OneInit => owner = a /\ \A b \in Actor \ {a} : pc[b] \notin InLock
    BY <1>12 DEF LeaveLock
  <2>2. CASE InLogInit(a)
    BY <1>0, <1>12, <2>1, <2>2 DEF LeaveLock, InLogInit
  <2>3. CASE ~InLogInit(a)
    BY ZenonT(30), <1>0, <1>12, <2>1, <2>3 DEF LeaveLock
  <2>4. QED
    BY <2>2, <2>3
<1>13. CASE UNCHANGED vars
  BY <1>13 DEF vars
<1>14. QED
  BY <1>1, <1>2, <1>3, <1>4, <1>5, <1>6, <1>7, <1>8, <1>9, <1>10, <1>11, <1>15, <1>12, <1>13
  DEF Next, InLog

\* The init thread never initialises the lock, and the file is open in one thread
\* at a time, unless two of the others have (log.cpp:26-28, 48-59, 92-97).
THEOREM FileStaysExclusive == Spec => []FileExclusive
<1>1. LockInv => FileExclusive
  BY DEF LockInv, FileExclusive, InLock
<1>2. TypeInv /\ LockInv /\ [Next]_vars => LockInv'
  BY NextLockInv
<1>3. QED
  BY <1>1, <1>2, InitLockInv, TypeInvHolds, PTL DEF Spec
-----------------------------------------------------------------------------
(***************************************************************************)
(* The lines.  Once the path is settled nothing truncates the file or      *)
(* assigns the path, so that a line begun from then on is appended.        *)
(***************************************************************************)
\* A line that its thread has put into the file, or tried to.
Attempted(l) == Finished(l) \/ (l[2] = written[l[1]] /\ pc[l[1]] = "leave")

PathInv ==
  /\ pc[InitThread] \in {"enter"} \cup InLock \cup {"idle"} \/ written[InitThread] >= 1 =>
       path \/ \E b \in Actor : pc[b] = "assign"
  /\ written[InitThread] >= 1 => pc[InitThread] \notin {"unborn", "clear"}
  /\ started => written[InitThread] >= 1

LineInv ==
  /\ \A l \in Line \ early : l[2] <= written[l[1]] => Settled
  /\ \A l \in Line \ early : Attempted(l) => InFile(l)
  /\ \A i \in 1 .. Len(file) :
       /\ file[i][2] <= written[file[i][1]]
       /\ pc[file[i][1]] \notin {"idle", "leave"} => file[i][2] < written[file[i][1]]
  /\ \A i, j \in 1 .. Len(file) :
       i < j /\ file[i][1] = file[j][1] => file[i][2] < file[j][2]

FileInv == PathInv /\ LineInv

LEMMA Appended ==
  ASSUME NEW s \in Seq(Line), NEW e \in Line
  PROVE  /\ Append(s, e) \in Seq(Line) /\ Len(Append(s, e)) = Len(s) + 1
         /\ \A i \in 1 .. Len(s) : Append(s, e)[i] = s[i]
         /\ Append(s, e)[Len(s) + 1] = e
  OBVIOUS

LEMMA InitFileInv == Init => FileInv
<1> SUFFICES ASSUME Init PROVE FileInv
  OBVIOUS
<1> USE ActorsAssumption DEF Init
<1>1. \A a \in Actor : written[a] = 0
  OBVIOUS
<1>2. InitThread \in Actor /\ pc[InitThread] = "unborn"
  BY DEF Actor
<1>3. \A l \in Line : l[1] \in Actor /\ l[2] >= 1
  BY LineFields
<1>4. PathInv
  BY <1>1, <1>2 DEF PathInv, InLock
<1>5. \A l \in Line : ~(l[2] <= written[l[1]])
  BY <1>1, <1>3, LineFields
<1>6. \A l \in Line : ~Attempted(l)
  BY <1>1, <1>3, LineFields DEF Attempted, Finished
<1>7. Len(file) = 0
  OBVIOUS
<1>8. QED
  BY <1>4, <1>5, <1>6, <1>7 DEF FileInv, LineInv

\* A step that writes and counts no line, and ends none, leaves the lines alone.
LEMMA QuietStep ==
  ASSUME TypeInv, LineInv, UNCHANGED <<file, written, early>>, Settled => Settled',
         NEW a \in Actor, \A b \in Actor \ {a} : pc'[b] = pc[b],
         pc[a] \notin {"idle", "leave"}, pc'[a] \notin {"idle", "leave"}
  PROVE  LineInv'
<1>1. \A l \in Line : Attempted(l)' => Attempted(l)
  BY LineFields DEF Attempted, Finished
<1>2. \A l \in Line : InFile(l) => InFile(l)'
  BY DEF InFile
<1>3. \A i \in 1 .. Len(file) : file[i] \in Line /\ file[i][1] \in Actor
  BY LineFields DEF TypeInv, TypeOK
<1>4. \A i \in 1 .. Len(file) :
        pc'[file[i][1]] \notin {"idle", "leave"} => file[i][2] < written[file[i][1]]
  BY <1>3 DEF LineInv
<1>5. QED
  BY <1>1, <1>2, <1>4 DEF LineInv

LEMMA NextPathInv ==
  ASSUME TypeInv, PathInv, [Next]_vars
  PROVE  PathInv'
<1> USE ActorsAssumption DEF TypeInv, TypeOK, Counted, PathInv, InLock, At, Goto
<1>0. InitThread \in Actor
  BY DEF Actor
<1>1. CASE StartInitThread
  BY <1>0, <1>1 DEF StartInitThread
<1>2. CASE ClearPath
  BY <1>0, <1>2 DEF ClearPath
<1>3. ASSUME NEW a \in Actor, LogRaw(a) PROVE PathInv'
  BY <1>0, <1>3 DEF LogRaw
<1>4. ASSUME NEW a \in Actor, TestPath(a) PROVE PathInv'
  <2>1. /\ pc[a] = "path" /\ pc'[a] \in {"lock", "enter"} /\ \A b \in Actor \ {a} : pc'[b] = pc[b]
        /\ pc'[a] = "enter" => path \/ \E b \in Actor \ {a} : pc[b] = "assign"
        /\ UNCHANGED <<path, written, started>>
    BY <1>4 DEF TestPath, PathMoves
  <2>2. (\E b \in Actor : pc[b] = "assign") => \E b \in Actor : pc'[b] = "assign"
    BY <2>1
  <2>3. QED
    BY <1>0, <2>1, <2>2
<1>5. ASSUME NEW a \in Actor, TestLock(a) PROVE PathInv'
  BY <1>0, <1>5 DEF TestLock
<1>6. ASSUME NEW a \in Actor, InitLock(a) PROVE PathInv'
  BY <1>0, <1>6 DEF InitLock
<1>7. ASSUME NEW a \in Actor, AssignPath(a) PROVE PathInv'
  BY <1>0, <1>7 DEF AssignPath
<1>8. ASSUME NEW a \in Actor, PathRaces(a) PROVE PathInv'
  BY <1>0, <1>8 DEF PathRaces
<1>9. ASSUME NEW a \in Actor, EnterLock(a) PROVE PathInv'
  BY <1>0, <1>9 DEF EnterLock
<1>10. ASSUME NEW a \in Actor, Truncate(a) PROVE PathInv'
  BY <1>0, <1>10 DEF Truncate
<1>11. ASSUME NEW a \in Actor, AppendLine(a) PROVE PathInv'
  BY <1>0, <1>11 DEF AppendLine
<1>15. ASSUME NEW a \in Actor, LoseLine(a) PROVE PathInv'
  BY <1>0, <1>15 DEF LoseLine
<1>12. ASSUME NEW a \in Actor, LeaveLock(a) PROVE PathInv'
  BY <1>0, <1>12 DEF LeaveLock, InLogInit
<1>13. CASE UNCHANGED vars
  BY <1>13 DEF vars
<1>14. QED
  BY <1>1, <1>2, <1>3, <1>4, <1>5, <1>6, <1>7, <1>8, <1>9, <1>10, <1>11, <1>15, <1>12, <1>13
  DEF Next, InLog

\* The path stays settled.
LEMMA SettledStays ==
  ASSUME TypeInv, PathInv, [Next]_vars, Settled
  PROVE  Settled'
<1> USE DEF TypeInv, TypeOK, Counted, At, Goto
<1>0. InitThread \in Actor
  BY DEF Actor
<1>1. path /\ started /\ pc[InitThread] \notin {"unborn", "clear"}
  BY DEF PathInv, Settled
<1>2. \A a \in Actor : pc[a] \notin {"lock", "init", "assign"} /\ ~PathMoves(a)
  BY DEF Settled, PathMoves
<1>3. ASSUME NEW a \in Actor, TestPath(a) PROVE Settled'
  BY <1>1, <1>2, <1>3 DEF TestPath, Settled
<1>4. ASSUME NEW a \in Actor, EnterLock(a) PROVE Settled'
  BY <1>1, <1>2, <1>4 DEF EnterLock, Settled
<1>5. ASSUME NEW a \in Actor, Truncate(a) \/ AppendLine(a) \/ LoseLine(a) PROVE Settled'
  BY <1>1, <1>2, <1>5 DEF Truncate, AppendLine, LoseLine, Settled
<1>6. ASSUME NEW a \in Actor, LeaveLock(a) PROVE Settled'
  BY <1>1, <1>2, <1>6 DEF LeaveLock, Settled
<1>7. ASSUME NEW a \in Actor, LogRaw(a) PROVE Settled'
  BY <1>1, <1>2, <1>7 DEF LogRaw, Settled
<1>8. CASE UNCHANGED vars
  BY <1>8 DEF vars, Settled
<1>9. QED
  BY <1>0, <1>1, <1>2, <1>3, <1>4, <1>5, <1>6, <1>7, <1>8
  DEF Next, InLog, StartInitThread, ClearPath, TestLock, InitLock, AssignPath, PathRaces

\* The steps before and after the file is written.
LEMMA QuietSteps ==
  ASSUME TypeInv, LineInv, Settled => Settled', NEW a \in Actor,
         \/ TestPath(a) \/ TestLock(a) \/ InitLock(a) \/ AssignPath(a) \/ EnterLock(a)
         \/ a = InitThread /\ (StartInitThread \/ ClearPath)
  PROVE  LineInv'
<1>1. /\ UNCHANGED <<file, written, early>>
      /\ \A b \in Actor \ {a} : pc'[b] = pc[b]
      /\ pc[a] \notin {"idle", "leave"} /\ pc'[a] \notin {"idle", "leave"}
  BY DEF TypeInv, TypeOK, At, Goto, TestPath, TestLock, InitLock, AssignPath, EnterLock,
         StartInitThread, ClearPath
<1>2. QED
  BY <1>1, QuietStep

\* A line is counted when its write begins; it is early unless the path is settled.
LEMMA LogRawLines ==
  ASSUME TypeInv, FileInv, Settled => Settled', NEW a \in Actor, LogRaw(a)
  PROVE  LineInv'
<1> USE DEF FileInv
<1>1. /\ pc[a] = "idle" /\ pc'[a] = "path" /\ written'[a] = written[a] + 1
      /\ written[a] \in Nat
      /\ \A b \in Actor \ {a} : pc'[b] = pc[b] /\ written'[b] = written[b]
      /\ UNCHANGED <<file, started>>
  BY DEF LogRaw, TypeInv, TypeOK, At, Goto
<1>2. early' = IF Settled THEN early ELSE early \cup {<<a, written[a] + 1>>}
  BY DEF LogRaw
<1>3. ASSUME NEW l \in Line, l \notin early', l[2] <= written'[l[1]]
      PROVE  Settled' /\ (Attempted(l)' => InFile(l)')
  <2>1. l \notin early /\ l[1] \in Actor /\ l[2] \in Nat
    BY <1>2, <1>3, LineFields
  <2>2. CASE l[1] = a /\ l[2] = written[a] + 1
    <3>1. l = <<a, written[a] + 1>>
      BY <2>2, LineFields
    <3>2. Settled
      BY <1>2, <1>3, <3>1
    <3>3. ~Attempted(l)'
      BY <1>1, <2>2 DEF Attempted, Finished
    <3>4. QED
      BY <1>1, <3>2, <3>3
  <2>3. CASE ~(l[1] = a /\ l[2] = written[a] + 1)
    <3>1. l[2] <= written[l[1]]
      BY <1>1, <1>3, <2>1, <2>3 DEF TypeInv, TypeOK
    <3>2. Attempted(l)' => Attempted(l)
      BY <1>1, <2>1, <3>1 DEF Attempted, Finished, TypeInv, TypeOK
    <3>3. QED
      BY <1>1, <2>1, <3>1, <3>2 DEF LineInv, InFile
  <2>4. QED
    BY <2>2, <2>3
<1>4. ASSUME NEW i \in 1 .. Len(file)
      PROVE  /\ file[i][2] <= written'[file[i][1]]
             /\ pc'[file[i][1]] \notin {"idle", "leave"} => file[i][2] < written'[file[i][1]]
  <2>1. file[i] \in Line
    BY DEF TypeInv, TypeOK
  <2>2. file[i][1] \in Actor /\ file[i][2] \in Nat /\ written[file[i][1]] \in Nat
    BY <2>1, LineFields DEF TypeInv, TypeOK
  <2>3. file[i][2] <= written[file[i][1]]
    BY DEF LineInv
  <2>4. CASE file[i][1] = a
    BY <1>1, <2>2, <2>3, <2>4
  <2>5. CASE file[i][1] # a
    BY <1>1, <2>2, <2>3, <2>5 DEF LineInv
  <2>6. QED
    BY <2>4, <2>5
<1>5. \A l \in Line : Attempted(l)' => l[2] <= written'[l[1]]
  <2>1. \A b \in Actor : written'[b] \in Nat
    BY <1>1 DEF TypeInv, TypeOK
  <2>2. QED
    BY <2>1, LineFields DEF Attempted, Finished
<1>6. QED
  BY <1>1, <1>3, <1>4, <1>5 DEF LineInv

LEMMA AttemptedIsCounted ==
  ASSUME TypeInv, NEW l \in Line, Attempted(l)
  PROVE  l[2] <= written[l[1]]
<1>1. written[l[1]] \in Nat /\ l[2] \in Nat
  BY LineFields DEF TypeInv, TypeOK
<1>2. QED
  BY <1>1 DEF Attempted, Finished

\* log_init truncates while every line there may be is an early one.
LEMMA TruncateLines ==
  ASSUME TypeInv, FileInv, Settled => Settled', NEW a \in Actor, Truncate(a)
  PROVE  LineInv'
<1>1. /\ file' \in {<<>>, file} /\ UNCHANGED <<written, early>>
      /\ pc[a] = "truncate" /\ \A b \in Actor \ {a} : pc'[b] = pc[b]
      /\ a = InitThread /\ written[a] = 0
  BY DEF Truncate, TypeInv, TypeOK, Counted, At, Goto
<1>2. ~Settled
  BY <1>1 DEF FileInv, PathInv, Settled
<1>3. ASSUME NEW l \in Line \ early PROVE ~(l[2] <= written[l[1]])
  BY <1>2 DEF FileInv, LineInv
<1>4. ASSUME NEW l \in Line \ early, Attempted(l)' PROVE FALSE
  <2>1. written[l[1]] \in Nat /\ l[2] \in Nat
    BY LineFields DEF TypeInv, TypeOK
  <2>2. l[2] <= written[l[1]]
    BY <1>1, <1>4, <2>1 DEF Attempted, Finished
  <2>3. QED
    BY <1>3, <2>2
<1>5. CASE file' = <<>>
  <2>1. Len(file') = 0
    BY <1>5
  <2>2. QED
    BY <1>1, <1>3, <1>4, <2>1 DEF LineInv
<1>6. CASE file' = file
  <2>1. \A i \in 1 .. Len(file) : file[i][1] \in Actor
    BY LineFields DEF TypeInv, TypeOK
  <2>2. \A i \in 1 .. Len(file) :
          pc'[file[i][1]] \notin {"idle", "leave"} => file[i][2] < written[file[i][1]]
    BY <1>1, <2>1 DEF FileInv, LineInv
  <2>3. QED
    BY <1>1, <1>3, <1>4, <1>6, <2>2 DEF FileInv, LineInv
<1>7. QED
  BY <1>1, <1>5, <1>6

\* No line begun on a settled path is lost.
LEMMA LoseLines ==
  ASSUME TypeInv, FileInv, Settled => Settled', NEW a \in Actor, LoseLine(a)
  PROVE  LineInv'
<1> DEFINE e == <<a, written[a]>>
<1>1. /\ pc[a] = "append" /\ pc'[a] = "leave" /\ UNCHANGED <<file, written, early>>
      /\ \A b \in Actor \ {a} : pc'[b] = pc[b]
      /\ written[a] \in 1 .. Lines[a]
  BY ActorsAssumption DEF LoseLine, TypeInv, TypeOK, Counted, At, Goto
<1>2. e \in Line
  BY <1>1, IsLine
<1>3. ~Settled
  <2>1. ASSUME Settled PROVE FALSE
    <3>1. path /\ ~PathMoves(a) /\ written[InitThread] >= 1
      BY <2>1 DEF FileInv, PathInv, Settled, PathMoves
    <3>2. \A b \in Actor : pc[b] # "truncate"
      BY <3>1 DEF TypeInv, TypeOK, Counted
    <3>3. QED
      BY <1>1, <3>1, <3>2 DEF LoseLine, MayFail
  <2>2. QED
    BY <2>1
<1>4. e \in early
  BY <1>1, <1>2, <1>3 DEF FileInv, LineInv
<1>5. ASSUME NEW l \in Line \ early, Attempted(l)' PROVE InFile(l)'
  <2>1. Attempted(l)
    BY <1>1, <1>4, <1>5, LineFields DEF Attempted, Finished
  <2>2. QED
    BY <1>1, <2>1 DEF FileInv, LineInv, InFile
<1>6. \A i \in 1 .. Len(file) : file[i][1] \in Actor
  BY LineFields DEF TypeInv, TypeOK
<1>7. \A i \in 1 .. Len(file) :
        pc'[file[i][1]] \notin {"idle", "leave"} => file[i][2] < written[file[i][1]]
  BY <1>1, <1>6 DEF FileInv, LineInv
<1>8. QED
  BY <1>1, <1>5, <1>7 DEF FileInv, LineInv

LEMMA AppendLines ==
  ASSUME TypeInv, FileInv, Settled => Settled', NEW a \in Actor, AppendLine(a)
  PROVE  LineInv'
<1> DEFINE e == <<a, written[a]>>
<1>1. /\ pc[a] = "append" /\ pc'[a] = "leave" /\ UNCHANGED <<written, early>>
      /\ \A b \in Actor \ {a} : pc'[b] = pc[b]
      /\ written[a] \in 1 .. Lines[a]
  BY ActorsAssumption DEF AppendLine, TypeInv, TypeOK, Counted, At, Goto
<1>2. e \in Line /\ e[1] = a /\ e[2] = written[a]
  BY <1>1, IsLine
<1>3. file' = Append(file, e)
  BY DEF AppendLine, LineOf
<1>4. file \in Seq(Line)
  BY DEF TypeInv, TypeOK
<1>5. \A i \in 1 .. Len(file) :
        /\ file[i][1] \in Actor /\ file[i][2] \in Nat
        /\ file[i][2] <= written[file[i][1]]
        /\ file[i][1] = a => file[i][2] < written[a]
  <2>1. \A i \in 1 .. Len(file) : file[i] \in Line
    BY <1>4
  <2>2. \A i \in 1 .. Len(file) : file[i][1] \in Actor /\ file[i][2] \in Nat
    BY <2>1, LineFields
  <2>3. QED
    BY <1>1, <2>2 DEF FileInv, LineInv
<1>6. \A i \in 1 .. Len(file) :
        pc'[file[i][1]] \notin {"idle", "leave"} => file[i][2] < written[file[i][1]]
  BY <1>1, <1>5 DEF FileInv, LineInv
<1>7. ASSUME NEW l \in Line, InFile(l) PROVE InFile(l)'
  <2>1. PICK i \in 1 .. Len(file) : file[i] = l
    BY <1>7 DEF InFile
  <2>2. i \in 1 .. Len(file') /\ file'[i] = l
    BY <1>2, <1>3, <1>4, <2>1, Appended
  <2>3. QED
    BY <2>2 DEF InFile
<1>8. ASSUME NEW l \in Line \ early, Attempted(l)' PROVE InFile(l)'
  <2>1. CASE Attempted(l)
    BY <1>7, <2>1 DEF FileInv, LineInv
  <2>2. CASE ~Attempted(l)
    <3>1. l = e
      BY <1>1, <1>8, <2>2, LineFields DEF Attempted, Finished
    <3>2. Len(file') = Len(file) + 1 /\ file'[Len(file) + 1] = l /\ Len(file) \in Nat
      BY <1>2, <1>3, <1>4, <3>1, Appended
    <3>3. QED
      BY <3>2 DEF InFile
  <2>3. QED
    BY <2>1, <2>2
<1>9. \A l \in Line \ early' : l[2] <= written'[l[1]] => Settled'
  BY <1>1 DEF FileInv, LineInv
<1>10. ASSUME NEW i \in 1 .. Len(file')
       PROVE  /\ file'[i][2] <= written'[file'[i][1]]
              /\ pc'[file'[i][1]] \notin {"idle", "leave"} => file'[i][2] < written'[file'[i][1]]
  <2>1. CASE i \in 1 .. Len(file)
    <3>1. file'[i] = file[i]
      BY <1>2, <1>3, <1>4, <2>1, Appended
    <3>2. QED
      BY <1>1, <1>5, <1>6, <2>1, <3>1
  <2>2. CASE i \notin 1 .. Len(file)
    <3>1. file'[i] = e
      BY <1>2, <1>3, <1>4, <2>2, Appended
    <3>2. QED
      BY <1>1, <1>2, <3>1
  <2>3. QED
    BY <2>1, <2>2
<1>11. ASSUME NEW i \in 1 .. Len(file'), NEW j \in 1 .. Len(file'), i < j,
              file'[i][1] = file'[j][1]
       PROVE  file'[i][2] < file'[j][2]
  <2>1. i \in 1 .. Len(file) /\ file'[i] = file[i]
    BY <1>2, <1>3, <1>4, <1>11, Appended
  <2>2. CASE j \in 1 .. Len(file)
    <3>1. file'[j] = file[j]
      BY <1>2, <1>3, <1>4, <2>2, Appended
    <3>2. QED
      BY <1>11, <2>1, <2>2, <3>1 DEF FileInv, LineInv
  <2>3. CASE j \notin 1 .. Len(file)
    <3>1. file'[j] = e
      BY <1>2, <1>3, <1>4, <2>3, Appended
    <3>2. QED
      BY <1>2, <1>5, <1>11, <2>1, <3>1
  <2>4. QED
    BY <2>2, <2>3
<1>12. \A i \in 1 .. Len(file'), j \in 1 .. Len(file') :
         i < j /\ file'[i][1] = file'[j][1] => file'[i][2] < file'[j][2]
  BY <1>11
<1>13. \A l \in Line \ early' : Attempted(l)' => InFile(l)'
  BY <1>1, <1>8
<1>14. QED
  BY <1>9, <1>10, <1>12, <1>13 DEF LineInv

LEMMA LeaveLines ==
  ASSUME TypeInv, FileInv, Settled => Settled', NEW a \in Actor, LeaveLock(a)
  PROVE  LineInv'
<1>1. pc[a] = "leave" /\ file' = file /\ \A b \in Actor \ {a} : pc'[b] = pc[b]
  BY DEF LeaveLock, TypeInv, TypeOK, At, Goto
<1>2. \A i \in 1 .. Len(file) :
        /\ file[i][1] \in Actor /\ file[i][2] \in Nat \ {0}
        /\ file[i][2] <= written[file[i][1]]
  <2>1. \A i \in 1 .. Len(file) : file[i] \in Line
    BY DEF TypeInv, TypeOK
  <2>2. QED
    BY <2>1, LineFields DEF FileInv, LineInv
<1>3. CASE InLogInit(a)
  <2>1. /\ written[a] = 0 /\ written'[a] = 1 /\ pc'[a] = "path"
        /\ early' = early \cup {<<a, 1>>}
        /\ \A b \in Actor \ {a} : written'[b] = written[b]
    BY <1>3 DEF LeaveLock, InLogInit, TypeInv, TypeOK, Goto
  <2>2. ASSUME NEW l \in Line \ early', l[2] <= written'[l[1]]
        PROVE  l \notin early /\ l[1] \in Actor \ {a} /\ l[2] <= written[l[1]]
    <3>1. l[1] # a
      BY <2>1, <2>2, LineFields
    <3>2. QED
      BY <2>1, <2>2, <3>1, LineFields
  <2>3. ASSUME NEW l \in Line \ early', Attempted(l)' PROVE InFile(l)'
    <3>1. l[2] <= written'[l[1]]
      <4>1. \A b \in Actor : written'[b] \in Nat
        BY <2>1 DEF TypeInv, TypeOK
      <4>2. QED
        BY <2>3, <4>1, LineFields DEF Attempted, Finished
    <3>2. l \notin early /\ Attempted(l)
      BY <1>1, <2>1, <2>2, <2>3, <3>1 DEF Attempted, Finished
    <3>3. QED
      BY <1>1, <3>2 DEF FileInv, LineInv, InFile
  <2>4. \A i \in 1 .. Len(file) : file[i][1] # a
    BY <1>2, <2>1
  <2>5. QED
    BY <1>1, <1>2, <2>1, <2>2, <2>3, <2>4 DEF FileInv, LineInv
<1>4. CASE ~InLogInit(a)
  <2>1. pc'[a] = "idle" /\ UNCHANGED <<written, early>>
    BY <1>4 DEF LeaveLock, TypeInv, TypeOK, Goto
  <2>2. \A l \in Line : Attempted(l)' => Attempted(l)
    BY <1>1, <2>1, LineFields DEF Attempted, Finished
  <2>3. \A l \in Line : InFile(l) => InFile(l)'
    BY <1>1 DEF InFile
  <2>4. \A i \in 1 .. Len(file) :
          pc'[file[i][1]] \notin {"idle", "leave"} => file[i][2] < written[file[i][1]]
    BY <1>1, <1>2, <2>1 DEF FileInv, LineInv
  <2>5. QED
    BY <1>1, <2>1, <2>2, <2>3, <2>4 DEF FileInv, LineInv
<1>5. QED
  BY <1>3, <1>4

LEMMA NextFileInv ==
  ASSUME TypeInv, FileInv, [Next]_vars
  PROVE  FileInv'
<1>1. PathInv'
  BY NextPathInv DEF FileInv
<1>2. LineInv'
  <2>1. InitThread \in Actor
    BY DEF Actor
  <2>2. ASSUME NEW a \in Actor, PathRaces(a) PROVE LineInv'
    BY <2>2 DEF PathRaces, FileInv, LineInv, Settled, Attempted, Finished, InFile
  <2>3. CASE UNCHANGED vars
    BY <2>3 DEF vars, FileInv, LineInv, Settled, Attempted, Finished, InFile
  <2>4. Settled => Settled'
    BY SettledStays DEF FileInv
  <2>5. QED
    BY <2>1, <2>2, <2>3, <2>4, QuietSteps, LogRawLines, TruncateLines, AppendLines,
       LoseLines, LeaveLines
    DEF Next, InLog, FileInv
<1>3. QED
  BY <1>1, <1>2 DEF FileInv

\* What is logged once the path is settled is in the file, and each thread's
\* lines are in the order it wrote them (log.cpp:3-5).
THEOREM LaterLinesStay == Spec => []LaterLinesKept
<1>1. FileInv => LaterLinesKept
  BY DEF FileInv, LineInv, LaterLinesKept, Attempted
<1>2. QED
  BY <1>1, InitFileInv, NextFileInv, TypeInvHolds, PTL DEF Spec
=============================================================================
