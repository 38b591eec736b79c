------------------------------- MODULE Hook -------------------------------
(***************************************************************************)
(* The hook engine (src/hook.cpp: install_inline and its helpers) driven   *)
(* the way the patches drive it (patches/guard.cpp, patches/http.cpp and   *)
(* patches/request.cpp), while the game's own threads keep calling the     *)
(* methods that are being hooked.                                          *)
(*                                                                         *)
(* One installer works through Plan, a list of (method, stub) pairs.  For  *)
(* each pair it overwrites the method's methodPointer slot, copies the     *)
(* first instructions of the native body into a trampoline, and overwrites *)
(* the body with a jump to the stub.  A stub of WrapStub (the two HTTP     *)
(* stubs) calls the original through a global pointer that the installer   *)
(* sets before and after the patch; every other stub replaces the method.  *)
(*                                                                         *)
(* Machine code is abstracted to what redirection depends on: which bytes  *)
(* of a body are original or patched, where its instructions end, and      *)
(* where a call that executes it goes next.                                *)
(***************************************************************************)
EXTENDS Integers, Sequences, FiniteSets

CONSTANTS
  Method,     \* il2cpp methods (MethodInfo records)
  Body,       \* native code bodies; methods with equal code may share one
  Stub,       \* the stubs of this library
  WrapStub,   \* the stubs that call the original
  Thread,     \* threads of the game
  BodyOf,     \* the body a method is compiled to, Null for an abstract one
  Ends,       \* where the instructions of a body end
  PosDep,     \* ... of these, the ends of position dependent instructions
  Bounds,     \* where insn_len thinks they end, up to the first that it does
              \* not know
  Near,       \* the bodies within 2 GB of the library
  Plan,       \* the hooks to install, in order
  PageSize,   \* bytes in the trampoline page (4096 in the code)
  Depth,      \* calls a thread's stack holds
  Null, NoPatch, Torn

Hook == [method : Method, stub : Stub]

ASSUME SetsAssumption ==
  /\ WrapStub \subseteq Stub
  /\ Near \subseteq Body
  /\ Null \notin Method \cup Body /\ Body \cap Stub = {}
  /\ {NoPatch, Torn} \cap Stub = {} /\ NoPatch # Torn
  /\ PageSize \in Nat /\ Depth \in Nat \ {0}

ASSUME BodiesAssumption ==
  /\ BodyOf \in [Method -> Body \cup {Null}]
  /\ Ends \in [Body -> SUBSET (Nat \ {0})]
  /\ Bounds \in [Body -> SUBSET (Nat \ {0})]
  /\ PosDep \in [Body -> SUBSET Nat]

\* A method is hooked once: each is looked up by its own class, name and
\* arity.  A stub that calls the original serves one method, which is not
\* abstract (SendWebRequest and Post).
ASSUME PlanAssumption ==
  /\ Plan \in Seq(Hook)
  /\ \A i, j \in 1 .. Len(Plan) :
       /\ Plan[i].method = Plan[j].method => i = j
       /\ Plan[i].stub \in WrapStub =>
            /\ BodyOf[Plan[i].method] # Null
            /\ Plan[i].stub = Plan[j].stub => i = j

VARIABLES
  slot,     \* methodPointer of each method
  code,     \* the first bytes of each body: NoPatch, Torn or the stub they
            \* jump to
  tramp,    \* the trampolines written, in order of allocation
  page,     \* whether the trampoline page exists
  used,     \* bytes taken from it
  orig,     \* the pointer each wrapping stub calls (g_send_original, ...)
  k,        \* the hook being installed, as an index of Plan
  ipc,      \* where the installer is within it
  ret,      \* what install_inline is going to return
  st,       \* what each thread is doing
  at,       \* the address a thread is executing
  called,   \* the method it called
  ran,      \* the stubs and bodies that have run for this call
  settled   \* whether the method's body was settled when the call began

installer == <<slot, code, tramp, page, used, orig, k, ipc, ret>>
threads == <<st, at, called, ran, settled>>
vars == <<slot, code, tramp, page, used, orig, k, ipc, ret,
          st, at, called, ran, settled>>
-----------------------------------------------------------------------------
(***************************************************************************)
(* Addresses.  An address is the start of a body, a stub or a trampoline.  *)
(***************************************************************************)
BodyAt(b) == <<"body", b>>
StubAt(s) == <<"stub", s>>
TrampAt(i) == <<"tramp", i>>

Addr == ({"body"} \X Body) \cup ({"stub"} \X Stub) \cup ({"tramp"} \X (Nat \ {0}))

\* What a stub may be given to call: a body or a trampoline.
OrigPtr == ({"body"} \X Body) \cup ({"tramp"} \X (Nat \ {0}))

ASSUME NullAssumption == Null \notin Addr

InitialPtr(m) == IF BodyOf[m] = Null THEN Null ELSE BodyAt(BodyOf[m])

Wraps(h) == h.stub \in WrapStub

\* A jump over rel32 takes 5 bytes, one through rax 12.
PatchSize(b) == IF b \in Near THEN 5 ELSE 12
JumpBack == 12

\* What insn_len makes of the start of a body as it is now: a patched body
\* decodes as jmp rel32, or as mov rax and jmp rax.
Decoded(b) == IF code[b] = NoPatch THEN Bounds[b]
              ELSE IF b \in Near THEN {5} ELSE {10, 12}

\* The walk that stops at the first instruction end past the patch.
WholeInstructions5(b, n) ==
  /\ n \in Decoded(b) /\ n >= 5
  /\ \A o \in Decoded(b) : o >= 5 => n <= o
WholeInstructions(b, n) ==
  /\ n \in Decoded(b) /\ n >= PatchSize(b)
  /\ \A o \in Decoded(b) : o >= PatchSize(b) => n <= o

FitsWithoutJump(n) == used + n <= PageSize
Fits(n) == used + n + JumpBack <= PageSize

\* No hook still to be installed, or being installed, concerns the body of m.
Settled(m) == \A i \in k .. Len(Plan) : BodyOf[Plan[i].method] # BodyOf[m]
-----------------------------------------------------------------------------
Init ==
  /\ slot = [m \in Method |-> InitialPtr(m)]
  /\ code = [b \in Body |-> NoPatch]
  /\ tramp = <<>> /\ page = FALSE /\ used = 0
  /\ orig = [s \in WrapStub |-> Null]
  /\ k = 1 /\ ipc = "read" /\ ret = Null
  /\ st = [t \in Thread |-> "idle"]
  /\ at = [t \in Thread |-> Null]
  /\ called = [t \in Thread |-> Null]
  /\ ran = [t \in Thread |-> <<>>]
  /\ settled = [t \in Thread |-> FALSE]
-----------------------------------------------------------------------------
(***************************************************************************)
(* The installer.                                                          *)
(***************************************************************************)
At(pc) == ipc = pc /\ k <= Len(Plan)
Current == Plan[k]

\* patches/http.cpp keeps methodPointer before it is overwritten, so that the
\* stub has something to call from the first moment it can run.
ReadNothing ==
  /\ At("read")
  /\ UNCHANGED orig
  /\ ipc' = "slot"
  /\ UNCHANGED <<slot, code, tramp, page, used, k, ret, threads>>
ReadOriginal ==
  /\ At("read")
  /\ orig' = IF Wraps(Current)
             THEN [orig EXCEPT ![Current.stub] = slot[Current.method]]
             ELSE orig
  /\ ipc' = "slot"
  /\ UNCHANGED <<slot, code, tramp, page, used, k, ret, threads>>

\* write_method_ptr: the old pointer is kept and the stub written.  A method
\* without code is not patched any further.
WriteMethodPtr ==
  /\ At("slot")
  /\ ret' = slot[Current.method]
  /\ slot' = [slot EXCEPT ![Current.method] = StubAt(Current.stub)]
  /\ ipc' = IF ret' = Null THEN "publish" ELSE "build"
  /\ UNCHANGED <<code, tramp, page, used, orig, k, threads>>

\* VirtualProtect on the slot failed: nothing is written.
WriteMethodPtrFails ==
  /\ At("slot")
  /\ ret' = Null
  /\ ipc' = "publish"
  /\ UNCHANGED <<slot, code, tramp, page, used, orig, k, threads>>

\* The body being patched: where the old methodPointer points.
Target == ret[2]

BuildTrampoline ==
  /\ At("build")
  /\ \E n \in Decoded(Target) :
       /\ WholeInstructions(Target, n)
       /\ Fits(n)
       /\ tramp' = Append(tramp, [off |-> used, size |-> n + JumpBack,
                                  body |-> Target, copied |-> n,
                                  holds |-> code[Target]])
       /\ used' = used + n + JumpBack
  /\ page' = TRUE
  /\ ipc' = "patch"
  /\ UNCHANGED <<slot, code, orig, k, ret, threads>>

\* The decoder meets an instruction it does not know before the patch is
\* covered: only methodPointer stays hooked.
CannotCover ==
  /\ At("build")
  /\ \A n \in Decoded(Target) : ~WholeInstructions(Target, n)
  /\ ipc' = "publish"
  /\ UNCHANGED <<slot, code, tramp, page, used, orig, k, ret, threads>>

\* VirtualAlloc failed.  The next hook tries again.
NoPage ==
  /\ At("build") /\ ~page
  /\ \E n \in Decoded(Target) : WholeInstructions(Target, n)
  /\ ipc' = "publish"
  /\ UNCHANGED <<slot, code, tramp, page, used, orig, k, ret, threads>>

\* The single page is full.
PageFull ==
  /\ At("build")
  /\ \E n \in Decoded(Target) : WholeInstructions(Target, n) /\ ~Fits(n)
  /\ page' = TRUE
  /\ ipc' = "publish"
  /\ UNCHANGED <<slot, code, tramp, used, orig, k, ret, threads>>

\* The jump is copied over the body byte by byte, with no thread suspended.
BeginPatch ==
  /\ At("patch")
  /\ code' = [code EXCEPT ![Target] = Torn]
  /\ ipc' = "tear"
  /\ UNCHANGED <<slot, tramp, page, used, orig, k, ret, threads>>

\* VirtualProtect on the body failed.  The trampoline's bytes stay taken.
BeginPatchFails ==
  /\ At("patch")
  /\ ipc' = "publish"
  /\ UNCHANGED <<slot, code, tramp, page, used, orig, k, ret, threads>>

PreviousTramp == TrampAt(Len(tramp) - 1)
LatestTramp == TrampAt(Len(tramp))

EndPatch ==
  /\ At("tear")
  /\ code' = [code EXCEPT ![Target] = Current.stub]
  /\ ret' = LatestTramp
  /\ ipc' = "publish"
  /\ UNCHANGED <<slot, tramp, page, used, orig, k, threads>>

\* install_one stores what install_inline returned, unless it is null; the
\* other patches only count it.
PublishNothing ==
  /\ At("publish")
  /\ UNCHANGED orig
  /\ k' = k + 1
  /\ ipc' = "read"
  /\ UNCHANGED <<slot, code, tramp, page, used, ret, threads>>
Publish ==
  /\ At("publish")
  /\ orig' = IF Wraps(Current) /\ ret # Null
             THEN [orig EXCEPT ![Current.stub] = ret] ELSE orig
  /\ k' = k + 1
  /\ ipc' = "read"
  /\ UNCHANGED <<slot, code, tramp, page, used, ret, threads>>

Install ==
  \/ ReadOriginal \/ WriteMethodPtr \/ WriteMethodPtrFails
  \/ BuildTrampoline \/ CannotCover \/ NoPage \/ PageFull
  \/ BeginPatch \/ BeginPatchFails \/ EndPatch \/ Publish
-----------------------------------------------------------------------------
(***************************************************************************)
(* The game's threads.                                                     *)
(***************************************************************************)
Executes(t, a) == st[t] = "running" /\ at[t] = a

Goto(t, a) ==
  /\ at' = [at EXCEPT ![t] = a]
  /\ UNCHANGED <<st, called, ran, settled, installer>>

Finish(t, how, trace) ==
  /\ st' = [st EXCEPT ![t] = how]
  /\ ran' = [ran EXCEPT ![t] = trace]
  /\ UNCHANGED <<at, called, settled, installer>>

\* A call compiled into the game goes straight to the body, one through
\* runtime_invoke or a delegate goes to the address in the slot.
CallMethod(t) ==
  /\ st[t] = "idle"
  /\ \E m \in Method :
       /\ BodyOf[m] # Null
       /\ called' = [called EXCEPT ![t] = m]
       /\ settled' = [settled EXCEPT ![t] = Settled(m)]
       /\ \E a \in {BodyAt(BodyOf[m]), slot[m]} : at' = [at EXCEPT ![t] = a]
  /\ st' = [st EXCEPT ![t] = "running"]
  /\ ran' = [ran EXCEPT ![t] = <<>>]
  /\ UNCHANGED installer

\* Original bytes: the body runs.
RunBody(t, b) ==
  /\ Executes(t, BodyAt(b))
  /\ code[b] \in {NoPatch, Torn}
  /\ Finish(t, "done", Append(ran[t], b))

\* The thread is preempted at an instruction that the patch will cover.
PauseInPrologue(t, b) ==
  /\ Executes(t, BodyAt(b))
  /\ code[b] \in {NoPatch, Torn}
  /\ \E o \in Ends[b] : o < PatchSize(b)
  /\ Finish(t, "inside", ran[t])

LeavePrologue(t, b) ==
  /\ st[t] = "inside" /\ at[t] = BodyAt(b)
  /\ code[b] \in {NoPatch, Torn}
  /\ Finish(t, "done", Append(ran[t], b))

\* The bytes under the instruction pointer have changed.
LosePrologue(t, b) ==
  /\ st[t] = "inside" /\ at[t] = BodyAt(b)
  /\ code[b] # NoPatch
  /\ Finish(t, "wild", ran[t])

\* The jump is there, or already there as far as this thread can see.
JumpToStub(t, b) ==
  /\ Executes(t, BodyAt(b))
  /\ \E s \in Stub :
       /\ s = IF code[b] = Torn THEN Current.stub ELSE code[b]
       /\ Goto(t, StubAt(s))

\* Half a jump.
ExecuteTornPatch(t, b) ==
  /\ Executes(t, BodyAt(b))
  /\ code[b] = Torn
  /\ Finish(t, "wild", ran[t])

\* A replacing stub returns its constant.
RunReplacement(t, s) ==
  /\ Executes(t, StubAt(s)) /\ s \notin WrapStub
  /\ Finish(t, "done", Append(ran[t], s))

\* A wrapping stub calls the original; without one it returns a null result.
RunWrapper(t, s) ==
  /\ Executes(t, StubAt(s)) /\ s \in WrapStub /\ Len(ran[t]) < Depth
  /\ ran' = [ran EXCEPT ![t] = Append(ran[t], s)]
  /\ IF orig[s] = Null
     THEN st' = [st EXCEPT ![t] = "done"] /\ UNCHANGED at
     ELSE at' = [at EXCEPT ![t] = orig[s]] /\ UNCHANGED st
  /\ UNCHANGED <<called, settled, installer>>

OverflowStack(t, s) ==
  /\ Executes(t, StubAt(s)) /\ s \in WrapStub
  /\ Len(ran[t]) >= Depth
  /\ Finish(t, "overflow", ran[t])

\* What a copy of original bytes does where the body did it: it splits no
\* instruction, none of them depends on its address, and it resumes the body
\* past the patch.
Faithful(tr) == /\ tr.copied \in Ends[tr.body]
                /\ \A o \in PosDep[tr.body] : o > tr.copied
                /\ tr.copied >= PatchSize(tr.body)

RunTrampoline(t, i) ==
  /\ Executes(t, TrampAt(i)) /\ i <= Len(tramp)
  /\ tramp[i].holds = NoPatch /\ Faithful(tramp[i])
  /\ Finish(t, "done", Append(ran[t], tramp[i].body))

\* The copy is itself a patch: an absolute jump still leads to its stub.
RunCopiedJump(t, i) ==
  /\ Executes(t, TrampAt(i)) /\ i <= Len(tramp)
  /\ tramp[i].body \notin Near
  /\ \E s \in Stub : tramp[i].holds = s /\ Goto(t, StubAt(s))

RunMisplaced(t, i) ==
  /\ Executes(t, TrampAt(i)) /\ i <= Len(tramp)
  /\ IF tramp[i].holds = NoPatch THEN ~Faithful(tramp[i])
                                 ELSE tramp[i].body \in Near
  /\ Finish(t, "wild", ran[t])

Return(t) ==
  /\ st[t] = "done"
  /\ st' = [st EXCEPT ![t] = "idle"]
  /\ at' = [at EXCEPT ![t] = Null]
  /\ called' = [called EXCEPT ![t] = Null]
  /\ ran' = [ran EXCEPT ![t] = <<>>]
  /\ settled' = [settled EXCEPT ![t] = FALSE]
  /\ UNCHANGED installer

InBody(t) ==
  \E b \in Body : \/ RunBody(t, b) \/ PauseInPrologue(t, b)
                  \/ LeavePrologue(t, b) \/ LosePrologue(t, b)
                  \/ JumpToStub(t, b) \/ ExecuteTornPatch(t, b)
InStub(t) ==
  \E s \in Stub : RunReplacement(t, s) \/ RunWrapper(t, s) \/ OverflowStack(t, s)
InTrampoline(t) ==
  \E i \in 1 .. Len(tramp) : \/ RunTrampoline(t, i) \/ RunCopiedJump(t, i)
                             \/ RunMisplaced(t, i)
Execute(t) == InBody(t) \/ InStub(t) \/ InTrampoline(t)

Next == Install \/ \E t \in Thread : CallMethod(t) \/ Execute(t) \/ Return(t)

\* The installer runs to its end, and a thread that is inside a call goes on;
\* no thread has to make a call.
Fairness == WF_vars(Install) /\ \A t \in Thread : WF_vars(Execute(t))

Spec == Init /\ [][Next]_vars
FairSpec == Spec /\ Fairness
-----------------------------------------------------------------------------
(***************************************************************************)
(* Properties.                                                             *)
(***************************************************************************)
Trampoline == [off : Nat, size : Nat, body : Body, copied : Nat,
               holds : Stub \cup {NoPatch, Torn}]

InstallerTypeOK ==
  /\ slot \in [Method -> Addr \cup {Null}]
  /\ code \in [Body -> Stub \cup {NoPatch, Torn}]
  /\ tramp \in Seq(Trampoline) /\ page \in BOOLEAN /\ used \in Nat
  /\ orig \in [WrapStub -> OrigPtr \cup {Null}]
  /\ k \in 1 .. Len(Plan) + 1 /\ ret \in OrigPtr \cup {Null}
  /\ ipc \in {"read", "slot", "build", "patch", "tear", "publish"}

ThreadTypeOK ==
  /\ st \in [Thread -> {"idle", "running", "inside", "done", "wild", "overflow"}]
  /\ at \in [Thread -> Addr \cup {Null}]
  /\ called \in [Thread -> Method \cup {Null}]
  /\ ran \in [Thread -> Seq(Body \cup Stub)]
  /\ settled \in [Thread -> BOOLEAN]

\* The type of every variable.
TypeOK == InstallerTypeOK /\ ThreadTypeOK

\* alloc_trampoline hands out disjoint pieces of its one page, however many
\* hooks fail after taking theirs.
TrampolinesPacked ==
  /\ used <= PageSize
  /\ \A i \in 1 .. Len(tramp) :
       /\ tramp[i].off + tramp[i].size <= used
       /\ \A j \in 1 .. i - 1 : tramp[j].off + tramp[j].size <= tramp[i].off

\* A wrapping stub that runs finds an original to call, whichever of slot or
\* patch led to it and however early: the caller of SendWebRequest needs the
\* IEnumerator it returns (patches/http.cpp:138-144).
OriginalReachable ==
  \A t \in Thread, s \in WrapStub : Executes(t, StubAt(s)) => orig[s] # Null

\* The pointer a stub calls leads back into the stub only between the patch
\* and the assignment of install_inline's result (patches/http.cpp:178-183).
ReentryOnlyInWindow ==
  \A s \in WrapStub, b \in Body :
    orig[s] = BodyAt(b) /\ code[b] = s => At("publish") /\ Current.stub = s

\* A trampoline that a stub calls was made for the stub's own method and ends in
\* a jump past the patch, to where insn_len finds the start of an instruction
\* (hook.cpp:241-249), and to a true one in a body that insn_len reads right.
OriginalResumesBody ==
  \A s \in WrapStub, i \in 1 .. Len(tramp) :
    orig[s] = TrampAt(i) =>
      LET b == tramp[i].body IN
      /\ tramp[i].copied >= PatchSize(b)
      /\ tramp[i].holds = NoPatch =>
           /\ tramp[i].copied \in Bounds[b]
           /\ Bounds[b] \subseteq Ends[b] => tramp[i].copied \in Ends[b]
      /\ \E h \in 1 .. Len(Plan) : Plan[h].stub = s /\ BodyOf[Plan[h].method] = b

\* No other method shares the body of m, and its code can be moved and is
\* read right by the decoder.
Alone(m) ==
  /\ PosDep[BodyOf[m]] = {} /\ Bounds[BodyOf[m]] \subseteq Ends[BodyOf[m]]
  /\ \A i \in 1 .. Len(Plan) : BodyOf[Plan[i].method] = BodyOf[m] => Plan[i].method = m

\* The traces of a call that its own stub intercepts.
Intercepted(m) ==
  { IF Plan[i].stub \in WrapStub THEN <<Plan[i].stub, BodyOf[m]>> ELSE <<Plan[i].stub>> :
      i \in {j \in 1 .. Len(Plan) : Plan[j].method = m} }

\* The state of Intercept, for the methods that it is about and the calls that
\* were made once their method was settled.
Lone == {m \in Method : BodyOf[m] # Null /\ Alone(m)}
PlannedMethods == {Plan[i].method : i \in 1 .. Len(Plan)}

EndedAs(m) == IF code[BodyOf[m]] # NoPatch THEN "patched"
              ELSE IF slot[m] # InitialPtr(m) THEN "slot" ELSE "absent"
HookState(m) ==
  CASE \E i \in 1 .. Len(Plan) : Plan[i].method = m /\ (i > k \/ (i = k /\ ipc = "read"))
         -> "waiting"
    [] k <= Len(Plan) /\ Current.method = m /\ ipc # "read" -> "changing"
    [] OTHER -> EndedAs(m)

Watched(t) == settled[t] /\ called[t] \in Lone
Outcome(t) ==
  CASE ~Watched(t) \/ st[t] \in {"running", "inside"} -> "none"
    [] Watched(t) /\ st[t] = "done" /\ ran[t] \in Intercepted(called[t]) -> "intercepted"
    [] Watched(t) /\ st[t] = "done" /\ ran[t] = <<BodyOf[called[t]]>> -> "original"
    [] OTHER -> "broken"

Promise == INSTANCE Intercept WITH
  Method <- Lone, Planned <- Lone \cap PlannedMethods,
  hook <- [m \in Lone |-> HookState(m)],
  call <- [t \in Thread |-> IF Watched(t) THEN called[t] ELSE Null],
  outcome <- [t \in Thread |-> Outcome(t)]

\* install_inline keeps the promise of Intercept: while other methods are still
\* being hooked, a call of a settled method runs no half written code and does
\* not exhaust the stack, but runs its stub once and, if the stub wraps, the
\* original once; it misses the stub only where the hook left the body alone.
ImplementsIntercept == Promise!InterceptSpec

\* Such a call returns.
SettledCallsReturn ==
  \A t \in Thread :
    (st[t] \in {"running", "inside"} /\ settled[t] /\ Alone(called[t])) ~> (st[t] = "done")

\* The decoder is "just enough to find instruction boundaries so the
\* inline-patch trampoline doesn't split an instruction" (hook.cpp:42-43), and
\* the trampoline "runs the displaced prologue then jumps to original+N" (225).
TrampolineRunsPrologue ==
  \A s \in WrapStub, i \in 1 .. Len(tramp) :
    orig[s] = TrampAt(i) /\ tramp[i].holds = NoPatch => Faithful(tramp[i])

\* "Call the original SendWebRequest via the trampoline and return its result"
\* (patches/http.cpp:138): one call runs a stub once.
StubOncePerCall ==
  \A t \in Thread : \A i, j \in 1 .. Len(ran[t]) :
    ran[t][i] = ran[t][j] /\ ran[t][i] \in Stub => i = j
=============================================================================
