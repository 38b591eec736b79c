---------------------------- MODULE HookProofs ----------------------------
(***************************************************************************)
(* Proofs about Hook, for every set of methods, bodies, stubs and threads, *)
(* every plan and every page size, and about Decoder, for every code.      *)
(***************************************************************************)
EXTENDS Hook, Decoder, SequenceTheorems, WellFoundedInduction, TLAPS

(***************************************************************************)
(* The installer's own invariant: the slots of the methods still to be     *)
(* hooked hold what they held initially, so what install_inline reads from *)
(* one and patches is the method's body.                                   *)
(***************************************************************************)
Untouched(i) == i > k \/ (i = k /\ ipc \in {"read", "slot"})

Frontier ==
  /\ \A i \in 1 .. Len(Plan) :
       Untouched(i) => slot[Plan[i].method] = InitialPtr(Plan[i].method)
  /\ ipc \in {"build", "patch", "tear"} =>
       /\ k <= Len(Plan)
       /\ BodyOf[Current.method] \in Body
       /\ ret = BodyAt(BodyOf[Current.method])
  /\ ipc \in {"patch", "tear"} => Len(tramp) > 0

TypeInv == TypeOK /\ Frontier

LEMMA PlanElement ==
  ASSUME NEW i \in 1 .. Len(Plan)
  PROVE  /\ Plan[i] \in Hook
         /\ Plan[i].method \in Method /\ Plan[i].stub \in Stub
<1>1. Plan[i] \in Hook
  BY PlanAssumption
<1>2. QED
  BY <1>1 DEF Hook

LEMMA InitialPtrType ==
  ASSUME NEW m \in Method
  PROVE  /\ InitialPtr(m) \in OrigPtr \cup {Null}
         /\ InitialPtr(m) \in Addr \cup {Null}
         /\ InitialPtr(m) # Null =>
              BodyOf[m] \in Body /\ InitialPtr(m) = BodyAt(BodyOf[m])
         /\ BodyOf[m] # Null => InitialPtr(m) # Null
  BY BodiesAssumption, NullAssumption DEF InitialPtr, OrigPtr, Addr, BodyAt

\* What insn_len can return for a body, patched or not, is a length.
LEMMA DecodedLengths ==
  ASSUME TypeOK, NEW b \in Body, NEW n \in Decoded(b)
  PROVE  n \in Nat
  BY BodiesAssumption DEF Decoded

LEMMA InitTypeInv == Init => TypeInv
<1> SUFFICES ASSUME Init PROVE TypeInv
  OBVIOUS
<1>1. InstallerTypeOK
  <2>1. slot \in [Method -> Addr \cup {Null}]
    BY InitialPtrType DEF Init
  <2>2. k \in 1 .. Len(Plan) + 1
    BY PlanAssumption DEF Init
  <2>3. code \in [Body -> Stub \cup {NoPatch, Torn}] /\ orig \in [WrapStub -> OrigPtr \cup {Null}]
    BY DEF Init
  <2>4. tramp \in Seq(Trampoline)
    BY DEF Init
  <2>5. page \in BOOLEAN
    BY DEF Init
  <2>6. QED
    BY <2>1, <2>2, <2>3, <2>4, <2>5 DEF Init, InstallerTypeOK
<1>2. ThreadTypeOK
  BY DEF Init, ThreadTypeOK
<1>3. Frontier
  BY PlanElement DEF Init, Frontier
<1>4. QED
  BY <1>1, <1>2, <1>3 DEF TypeInv, TypeOK

LEMMA InstallTypeInv ==
  ASSUME TypeInv, Install
  PROVE  InstallerTypeOK' /\ Frontier'
<1> USE DEF TypeInv, TypeOK
<1>0. k \in Nat /\ Len(Plan) \in Nat /\ Plan \in Seq(Hook)
  BY PlanAssumption DEF InstallerTypeOK
<1>h. k <= Len(Plan) => Current \in Hook /\ Current.method \in Method /\ Current.stub \in Stub
  BY PlanElement, <1>0 DEF Current, InstallerTypeOK
<1>1. CASE ReadOriginal
  <2>1. slot[Current.method] \in OrigPtr \cup {Null}
    BY <1>1, <1>h, <1>0, InitialPtrType DEF ReadOriginal, At, Frontier, Untouched, Current, InstallerTypeOK
  <2>2. InstallerTypeOK'
    BY <1>1, <1>h, <2>1 DEF ReadOriginal, At, InstallerTypeOK, Wraps
  <2>3. Frontier'
    BY <1>1, <1>0 DEF ReadOriginal, At, Frontier, Untouched
  <2>4. QED
    BY <2>2, <2>3
<1>2. CASE WriteMethodPtr
  <2>1. slot[Current.method] = InitialPtr(Current.method)
    BY <1>2, <1>0 DEF WriteMethodPtr, At, Frontier, Untouched, Current, InstallerTypeOK
  <2>2. InstallerTypeOK'
    BY <1>2, <1>h, <2>1, InitialPtrType DEF WriteMethodPtr, At, InstallerTypeOK, StubAt, Addr
  <2>3. \A i \in 1 .. Len(Plan) : Untouched(i)' => slot'[Plan[i].method] = InitialPtr(Plan[i].method)
    BY <1>2, <1>0, PlanElement, PlanAssumption
    DEF WriteMethodPtr, At, Frontier, Untouched, Current, InstallerTypeOK
  <2>4. ipc' \in {"build", "patch", "tear"} =>
          /\ k' <= Len(Plan)
          /\ BodyOf[Current.method] \in Body
          /\ ret' = BodyAt(BodyOf[Current.method])
    BY <1>2, <1>h, <2>1, InitialPtrType DEF WriteMethodPtr, At
  <2>5. QED
    BY <2>2, <2>3, <2>4, <1>2 DEF Frontier, WriteMethodPtr, Current
<1>3. CASE WriteMethodPtrFails
  BY <1>3, <1>0 DEF WriteMethodPtrFails, At, InstallerTypeOK, Frontier, Untouched
<1>4. CASE BuildTrampoline
  <2>1. Target \in Body
    BY <1>4 DEF BuildTrampoline, At, Frontier, Target, BodyAt
  <2>2. PICK n \in Decoded(Target) :
          /\ tramp' = Append(tramp, [off |-> used, size |-> n + JumpBack, body |-> Target,
                                     copied |-> n, holds |-> code[Target]])
          /\ used' = used + n + JumpBack
    BY <1>4 DEF BuildTrampoline
  <2>3. n \in Nat
    BY <2>1, <2>2, DecodedLengths
  <2>4. tramp' \in Seq(Trampoline) /\ used' \in Nat
    BY <2>1, <2>2, <2>3 DEF InstallerTypeOK, Trampoline, JumpBack
  <2>5. InstallerTypeOK'
    BY <1>4, <2>4 DEF BuildTrampoline, InstallerTypeOK
  <2>6. Len(tramp') > 0
    BY <2>2 DEF InstallerTypeOK
  <2>6a. Frontier'
    BY <1>4, <2>6 DEF BuildTrampoline, At, Frontier, Untouched, Current
  <2>7. QED
    BY <2>5, <2>6a
<1>5. CASE CannotCover \/ NoPage \/ PageFull \/ BeginPatchFails
  BY <1>5, <1>0 DEF CannotCover, NoPage, PageFull, BeginPatchFails, At, InstallerTypeOK, Frontier, Untouched
<1>6. CASE BeginPatch
  BY <1>6 DEF BeginPatch, At, InstallerTypeOK, Frontier, Untouched, Current
<1>7. CASE EndPatch
  <2>1. LatestTramp \in OrigPtr
    BY <1>7 DEF EndPatch, At, Frontier, LatestTramp, TrampAt, OrigPtr, InstallerTypeOK
  <2> QED
    BY <1>7, <1>h, <2>1 DEF EndPatch, At, InstallerTypeOK, Frontier, Untouched
<1>8. CASE Publish
  BY <1>8, <1>h, <1>0 DEF Publish, At, InstallerTypeOK, Frontier, Untouched, Wraps
<1>9. QED
  BY <1>1, <1>2, <1>3, <1>4, <1>5, <1>6, <1>7, <1>8 DEF Install
LEMMA ThreadTypeInv ==
  ASSUME TypeInv, NEW t \in Thread, CallMethod(t) \/ Execute(t) \/ Return(t)
  PROVE  ThreadTypeOK' /\ UNCHANGED installer
<1> USE DEF TypeInv, TypeOK, InstallerTypeOK, ThreadTypeOK
<1>1. CASE CallMethod(t)
  <2>1. PICK m \in Method :
          /\ BodyOf[m] # Null
          /\ called' = [called EXCEPT ![t] = m]
          /\ settled' = [settled EXCEPT ![t] = Settled(m)]
          /\ \E a \in {BodyAt(BodyOf[m]), slot[m]} : at' = [at EXCEPT ![t] = a]
    BY <1>1 DEF CallMethod
  <2>2. BodyAt(BodyOf[m]) \in Addr /\ slot[m] \in Addr \cup {Null}
    BY <2>1, BodiesAssumption DEF BodyAt, Addr
  <2>3. Settled(m) \in BOOLEAN
    BY DEF Settled
  <2>4. QED
    BY <1>1, <2>1, <2>2, <2>3 DEF CallMethod
<1>2. CASE InBody(t)
  <2> SUFFICES ASSUME NEW b \in Body,
                      \/ RunBody(t, b) \/ PauseInPrologue(t, b) \/ LeavePrologue(t, b)
                      \/ LosePrologue(t, b) \/ JumpToStub(t, b) \/ ExecuteTornPatch(t, b)
               PROVE  ThreadTypeOK' /\ UNCHANGED installer
    BY <1>2 DEF InBody
  <2>1. CASE RunBody(t, b) \/ LeavePrologue(t, b)
    <3>1. Append(ran[t], b) \in Seq(Body \cup Stub)
      OBVIOUS
    <3>2. QED
      BY ZenonT(30), <2>1, <3>1 DEF RunBody, LeavePrologue, Finish
  <2>2. CASE PauseInPrologue(t, b) \/ LosePrologue(t, b) \/ ExecuteTornPatch(t, b)
    BY <2>2 DEF PauseInPrologue, LosePrologue, ExecuteTornPatch, Finish
  <2>3. CASE JumpToStub(t, b)
    BY <2>3 DEF JumpToStub, Goto, StubAt, Addr
  <2>4. QED
    BY <2>1, <2>2, <2>3
<1>3. CASE InStub(t)
  <2> SUFFICES ASSUME NEW s \in Stub,
                      RunReplacement(t, s) \/ RunWrapper(t, s) \/ OverflowStack(t, s)
               PROVE  ThreadTypeOK' /\ UNCHANGED installer
    BY <1>3 DEF InStub
  <2>0. Append(ran[t], s) \in Seq(Body \cup Stub)
    OBVIOUS
  <2>1. CASE RunReplacement(t, s) \/ OverflowStack(t, s)
    BY ZenonT(30), <2>0, <2>1 DEF RunReplacement, OverflowStack, Finish
  <2>2. CASE RunWrapper(t, s)
    <3>1. orig[s] \in Addr \cup {Null}
      BY <2>2 DEF RunWrapper, OrigPtr, Addr
    <3>2. QED
      BY <2>0, <2>2, <3>1 DEF RunWrapper
  <2>3. QED
    BY <2>1, <2>2
<1>4. CASE InTrampoline(t)
  <2> SUFFICES ASSUME NEW i \in 1 .. Len(tramp),
                      RunTrampoline(t, i) \/ RunCopiedJump(t, i) \/ RunMisplaced(t, i)
               PROVE  ThreadTypeOK' /\ UNCHANGED installer
    BY <1>4 DEF InTrampoline
  <2>1. CASE RunTrampoline(t, i)
    <3>1. tramp[i] \in Trampoline
      OBVIOUS
    <3>2. tramp[i].body \in Body
      BY <3>1 DEF Trampoline
    <3>3. Append(ran[t], tramp[i].body) \in Seq(Body \cup Stub)
      BY <3>2
    <3>4. QED
      BY <2>1, <3>3 DEF RunTrampoline, Finish
  <2>2. CASE RunCopiedJump(t, i)
    BY <2>2 DEF RunCopiedJump, Goto, StubAt, Addr
  <2>3. CASE RunMisplaced(t, i)
    BY <2>3 DEF RunMisplaced, Finish
  <2>4. QED
    BY <2>1, <2>2, <2>3
<1>5. CASE Return(t)
  BY <1>5 DEF Return
<1>6. QED
  BY <1>1, <1>2, <1>3, <1>4, <1>5 DEF Execute

LEMMA InstallKeepsThreads == Install => UNCHANGED threads
  BY DEF Install, ReadOriginal, WriteMethodPtr, WriteMethodPtrFails, BuildTrampoline,
         CannotCover, NoPage, PageFull, BeginPatch, BeginPatchFails, EndPatch, Publish

LEMMA NextTypeInv == TypeInv /\ [Next]_vars => TypeInv'
<1> SUFFICES ASSUME TypeInv, [Next]_vars PROVE TypeInv'
  OBVIOUS
<1>1. CASE Install
  <2>1. UNCHANGED threads
    BY <1>1, InstallKeepsThreads
  <2>2. ThreadTypeOK'
    BY <2>1 DEF TypeInv, TypeOK, ThreadTypeOK, threads
  <2>3. QED
    BY <1>1, <2>2, InstallTypeInv DEF TypeInv, TypeOK
<1>2. CASE \E t \in Thread : CallMethod(t) \/ Execute(t) \/ Return(t)
  <2>1. ThreadTypeOK' /\ UNCHANGED installer
    BY <1>2, ThreadTypeInv
  <2>2. InstallerTypeOK' /\ Frontier'
    BY <2>1 DEF TypeInv, TypeOK, InstallerTypeOK, Frontier, Untouched, Current, installer
  <2>3. QED
    BY <2>1, <2>2 DEF TypeInv, TypeOK
<1>3. CASE UNCHANGED vars
  BY <1>3 DEF vars, TypeInv, TypeOK, InstallerTypeOK, ThreadTypeOK, Frontier, Untouched, Current
<1>4. QED
  BY <1>1, <1>2, <1>3 DEF Next

LEMMA TypeInvariant == Spec => []TypeInv
  BY InitTypeInv, NextTypeInv, PTL DEF Spec

\* Every pointer the installer passes on, and every pointer a thread follows,
\* is the address of a body, a stub or a trampoline or null.
THEOREM TypeCorrect == Spec => []TypeOK
<1>1. TypeInv => TypeOK
  BY DEF TypeInv
<1>2. QED
  BY <1>1, TypeInvariant, PTL
-----------------------------------------------------------------------------
(***************************************************************************)
(* The trampoline page.                                                    *)
(***************************************************************************)
\* Only BuildTrampoline writes a trampoline, at the end of those there are.
LEMMA TrampolineAppended ==
  ASSUME TypeInv, Next
  PROVE  \/ UNCHANGED <<tramp, used>>
         \/ \E n \in Nat :
              /\ ipc = "build"
              /\ n \in Decoded(Target) /\ WholeInstructions(Target, n) /\ Fits(n)
              /\ used' = used + n + JumpBack
              /\ Len(tramp') = Len(tramp) + 1
              /\ \A i \in 1 .. Len(tramp) : tramp'[i] = tramp[i]
              /\ tramp'[Len(tramp) + 1] =
                   [off |-> used, size |-> n + JumpBack, body |-> Target,
                    copied |-> n, holds |-> code[Target]]
<1>1. CASE BuildTrampoline
  <2>1. Target \in Body
    BY <1>1 DEF BuildTrampoline, At, TypeInv, Frontier, Target, BodyAt
  <2>2. PICK n \in Decoded(Target) :
          /\ WholeInstructions(Target, n) /\ Fits(n)
          /\ tramp' = Append(tramp, [off |-> used, size |-> n + JumpBack, body |-> Target,
                                     copied |-> n, holds |-> code[Target]])
          /\ used' = used + n + JumpBack
    BY <1>1 DEF BuildTrampoline
  <2>3. n \in Nat
    BY <2>1, <2>2, DecodedLengths DEF TypeInv
  <2>4. QED
    BY <1>1, <2>2, <2>3 DEF BuildTrampoline, At, TypeInv, TypeOK, InstallerTypeOK
<1>2. CASE Install /\ ~BuildTrampoline
  BY <1>2 DEF Install, ReadOriginal, WriteMethodPtr, WriteMethodPtrFails, CannotCover, NoPage,
              PageFull, BeginPatch, BeginPatchFails, EndPatch, Publish
<1>3. CASE ~Install
  BY <1>3, ThreadTypeInv DEF Next, installer
<1>4. QED
  BY <1>1, <1>2, <1>3

\* alloc_trampoline never hands out bytes twice nor past the end of its page,
\* whatever the lengths of the prologues and whichever hooks fail.
THEOREM TrampolinesStayPacked == Spec => []TrampolinesPacked
<1>1. Init => TrampolinesPacked
  BY SetsAssumption DEF Init, TrampolinesPacked
<1>2. TypeInv /\ TrampolinesPacked /\ [Next]_vars => TrampolinesPacked'
  <2> SUFFICES ASSUME TypeInv, TrampolinesPacked, [Next]_vars
               PROVE  TrampolinesPacked'
    OBVIOUS
  <2>1. CASE UNCHANGED <<tramp, used>>
    BY <2>1 DEF TrampolinesPacked
  <2>2. CASE Next /\ ~UNCHANGED <<tramp, used>>
    <3>1. PICK n \in Nat :
            /\ ipc = "build"
            /\ n \in Decoded(Target) /\ WholeInstructions(Target, n) /\ Fits(n)
            /\ used' = used + n + JumpBack
            /\ Len(tramp') = Len(tramp) + 1
            /\ \A i \in 1 .. Len(tramp) : tramp'[i] = tramp[i]
            /\ tramp'[Len(tramp) + 1] =
                 [off |-> used, size |-> n + JumpBack, body |-> Target,
                  copied |-> n, holds |-> code[Target]]
      BY <2>2, TrampolineAppended
    <3>2. used \in Nat /\ PageSize \in Nat /\ Len(tramp) \in Nat
      BY SetsAssumption DEF TypeInv, TypeOK, InstallerTypeOK
    <3>2a. \A i \in 1 .. Len(tramp) : tramp[i].off \in Nat /\ tramp[i].size \in Nat
      <4> TAKE i \in 1 .. Len(tramp)
      <4>1. tramp[i] \in Trampoline
        BY DEF TypeInv, TypeOK, InstallerTypeOK
      <4>2. QED
        BY <4>1 DEF Trampoline
    <3>3. used' <= PageSize
      BY <3>1, <3>2 DEF Fits, JumpBack
    <3>4. ASSUME NEW i \in 1 .. Len(tramp')
          PROVE  /\ tramp'[i].off + tramp'[i].size <= used'
                 /\ \A j \in 1 .. i - 1 : tramp'[j].off + tramp'[j].size <= tramp'[i].off
      <4>1. CASE i \in 1 .. Len(tramp)
        <5>1. \A j \in 1 .. i : tramp'[j] = tramp[j]
          BY <4>1, <3>1, <3>2
        <5>2. tramp[i].off \in Nat /\ tramp[i].size \in Nat
          BY <4>1, <3>2a
        <5>3. /\ tramp[i].off + tramp[i].size <= used
              /\ \A j \in 1 .. i - 1 : tramp[j].off + tramp[j].size <= tramp[i].off
          BY <4>1 DEF TrampolinesPacked
        <5>4. tramp'[i].off + tramp'[i].size <= used'
          BY <3>1, <3>2, <4>1, <5>1, <5>2, <5>3 DEF JumpBack
        <5>5. QED
          BY <3>2, <4>1, <5>1, <5>3, <5>4
      <4>2. CASE i = Len(tramp) + 1
        BY <4>2, <3>1, <3>2 DEF TrampolinesPacked, JumpBack
      <4>3. QED
        BY <4>1, <4>2, <3>1, <3>2
    <3>5. QED
      BY <3>3, <3>4 DEF TrampolinesPacked
  <2>3. QED
    BY <2>1, <2>2 DEF vars
<1>3. QED
  BY <1>1, <1>2, TypeInvariant, PTL DEF Spec
-----------------------------------------------------------------------------
(***************************************************************************)
(* What a wrapping stub calls.                                             *)
(***************************************************************************)
\* A pointer to call, once kept for a stub, is only ever replaced by another,
\* and the one of the hook being installed is there from its first step on.
LEMMA OriginalKept ==
  ASSUME TypeInv, Install, NEW s \in WrapStub
  PROVE  /\ orig[s] # Null => orig'[s] # Null
         /\ ReadOriginal /\ Current.stub = s => orig'[s] # Null
<1> USE DEF TypeInv, TypeOK, InstallerTypeOK
<1>1. CASE ReadOriginal
  <2>1. k \in 1 .. Len(Plan)
    BY <1>1, PlanAssumption DEF ReadOriginal, At
  <2>2. Wraps(Current) => slot[Current.method] # Null
    BY <1>1, <2>1, PlanElement, PlanAssumption, InitialPtrType
    DEF ReadOriginal, At, Frontier, Untouched, Wraps, Current
  <2>3. QED
    BY <1>1, <2>2 DEF ReadOriginal, Wraps
<1>2. CASE Publish
  BY <1>2 DEF Publish, Wraps, ReadOriginal, At
<1>3. CASE ~ReadOriginal /\ ~Publish
  BY <1>3 DEF Install, WriteMethodPtr, WriteMethodPtrFails, BuildTrampoline, CannotCover,
              NoPage, PageFull, BeginPatch, BeginPatchFails, EndPatch
<1>4. QED
  BY <1>1, <1>2, <1>3

\* Every way a stub can come to run: it is in a slot, a patch, a copied patch
\* or a thread's instruction pointer, or is about to be put there.
Installing(s) == k <= Len(Plan) /\ ipc # "read" /\ Current.stub = s
Armed(s) ==
  \/ \E m \in Method : slot[m] = StubAt(s)
  \/ \E b \in Body : code[b] = s
  \/ \E i \in 1 .. Len(tramp) : tramp[i].holds = s
  \/ \E t \in Thread : at[t] = StubAt(s)
  \/ Installing(s)

TornByInstaller ==
  \A b \in Body : code[b] = Torn => k <= Len(Plan) /\ ipc = "tear" /\ b = Target

ArmedInv ==
  /\ TornByInstaller
  /\ \A s \in WrapStub : Armed(s) => orig[s] # Null

LEMMA InitArmedInv == Init => ArmedInv
<1> SUFFICES ASSUME Init PROVE ArmedInv
  OBVIOUS
<1>1. TornByInstaller
  BY SetsAssumption DEF Init, TornByInstaller
<1>2. ASSUME NEW s \in WrapStub PROVE ~Armed(s)
  <2>1. \A m \in Method : slot[m] # StubAt(s)
    BY NullAssumption, SetsAssumption DEF Init, InitialPtr, StubAt, BodyAt, Addr
  <2>2. \A b \in Body : code[b] # s
    BY SetsAssumption DEF Init
  <2>3. \A t \in Thread : at[t] # StubAt(s)
    BY NullAssumption, SetsAssumption DEF Init, StubAt, Addr
  <2>4. Len(tramp) = 0 /\ ipc = "read"
    BY DEF Init
  <2>5. QED
    BY <2>1, <2>2, <2>3, <2>4 DEF Armed, Installing
<1>3. QED
  BY <1>1, <1>2 DEF ArmedInv

LEMMA AddressesDiffer ==
  ASSUME NEW s \in Stub
  PROVE  /\ StubAt(s) # Null /\ StubAt(s) \notin OrigPtr
         /\ \A b : BodyAt(b) # StubAt(s)
         /\ \A r : StubAt(r) = StubAt(s) => r = s
  BY NullAssumption DEF StubAt, BodyAt, Addr, OrigPtr

LEMMA HoldsAppended ==
  ASSUME TypeInv, BuildTrampoline, NEW i \in 1 .. Len(tramp')
  PROVE  \/ tramp'[i].holds = code[Target]
         \/ i \in 1 .. Len(tramp) /\ tramp'[i] = tramp[i]
<1>1. PICK n \in Decoded(Target) :
        tramp' = Append(tramp, [off |-> used, size |-> n + JumpBack, body |-> Target,
                                copied |-> n, holds |-> code[Target]])
  BY DEF BuildTrampoline
<1>2. tramp \in Seq(Trampoline)
  BY DEF TypeInv, TypeOK, InstallerTypeOK
<1>3. QED
  BY <1>1, <1>2

\* No step of the installer arms a stub other than the one being installed.
LEMMA InstallArms ==
  ASSUME TypeInv, ArmedInv, Install, NEW s \in WrapStub, Armed(s)'
  PROVE  Armed(s) \/ (ReadOriginal /\ Current.stub = s)
<1> USE DEF TypeInv, TypeOK, InstallerTypeOK
<1>0. UNCHANGED at
  BY InstallKeepsThreads DEF threads
<1>1. CASE ReadOriginal
  BY <1>0, <1>1 DEF ReadOriginal, At, Armed, Installing, Current
<1>2. CASE WriteMethodPtr
  <2>1. \A m \in Method : slot'[m] = StubAt(s) => slot[m] = StubAt(s) \/ Current.stub = s
    BY <1>2 DEF WriteMethodPtr, StubAt
  <2>2. QED
    BY <1>0, <1>2, <2>1 DEF WriteMethodPtr, At, Armed, Installing, Current
<1>3. CASE WriteMethodPtrFails \/ CannotCover \/ NoPage \/ PageFull \/ BeginPatchFails
  BY <1>0, <1>3 DEF WriteMethodPtrFails, CannotCover, NoPage, PageFull, BeginPatchFails,
                    At, Armed, Installing, Current
<1>4. CASE BuildTrampoline
  <2>1. Target \in Body
    BY <1>4 DEF BuildTrampoline, At, Frontier, Target, BodyAt
  <2>2. ASSUME NEW i \in 1 .. Len(tramp'), tramp'[i].holds = s
        PROVE  Armed(s)
    <3>1. CASE i \in 1 .. Len(tramp) /\ tramp'[i] = tramp[i]
      BY <2>2, <3>1 DEF Armed
    <3>2. CASE tramp'[i].holds = code[Target]
      BY <2>1, <2>2, <3>2 DEF Armed
    <3>3. QED
      BY <1>4, <3>1, <3>2, HoldsAppended
  <2>3. QED
    BY <1>0, <1>4, <2>2 DEF BuildTrampoline, At, Armed, Installing, Current
<1>5. CASE BeginPatch
  <2>1. \A b \in Body : code'[b] = s => code[b] = s
    BY <1>5, SetsAssumption DEF BeginPatch
  <2>2. QED
    BY <1>0, <1>5, <2>1 DEF BeginPatch, At, Armed, Installing, Current
<1>6. CASE EndPatch
  <2>1. \A b \in Body : code'[b] = s => code[b] = s \/ Current.stub = s
    BY <1>6 DEF EndPatch
  <2>2. QED
    BY <1>0, <1>6, <2>1 DEF EndPatch, At, Armed, Installing, Current
<1>7. CASE Publish
  BY <1>0, <1>7 DEF Publish, At, Armed, Installing
<1>8. QED
  BY <1>1, <1>2, <1>3, <1>4, <1>5, <1>6, <1>7 DEF Install

LEMMA InstallTears ==
  ASSUME TypeInv, TornByInstaller, Install
  PROVE  TornByInstaller'
<1> USE DEF TypeInv, TypeOK, InstallerTypeOK, TornByInstaller
<1>1. CASE BeginPatch
  BY <1>1 DEF BeginPatch, At, Target
<1>2. CASE EndPatch
  <2>1. Current.stub # Torn
    BY <1>2, PlanElement, SetsAssumption, PlanAssumption DEF EndPatch, At, Current
  <2>2. \A b \in Body : code'[b] # Torn
    BY <1>2, <2>1 DEF EndPatch
  <2>3. QED
    BY <2>2
<1>3. CASE ~BeginPatch /\ ~EndPatch
  <2>1. UNCHANGED code /\ ipc # "tear"
    BY <1>3 DEF Install, ReadOriginal, WriteMethodPtr, WriteMethodPtrFails, BuildTrampoline,
                CannotCover, NoPage, PageFull, BeginPatchFails, Publish, At
  <2>2. QED
    BY <2>1
<1>4. QED
  BY <1>1, <1>2, <1>3

\* A thread reaches a stub only through what is armed already.
LEMMA ThreadArms ==
  ASSUME TypeInv, ArmedInv, NEW t \in Thread, CallMethod(t) \/ Execute(t) \/ Return(t),
         NEW s \in WrapStub, Armed(s)'
  PROVE  Armed(s)
<1> USE DEF TypeInv, TypeOK, InstallerTypeOK, ThreadTypeOK
<1>0. UNCHANGED installer
  BY ThreadTypeInv
<1>0a. /\ StubAt(s) # Null /\ StubAt(s) \notin OrigPtr
       /\ \A b : BodyAt(b) # StubAt(s)
       /\ \A r : StubAt(r) = StubAt(s) => r = s
  BY AddressesDiffer, SetsAssumption
<1>1. CASE \A u \in Thread : at'[u] = StubAt(s) => at[u] = StubAt(s)
  BY <1>0, <1>1 DEF installer, Armed, Installing, Current
<1>2. CASE at'[t] = StubAt(s) /\ at[t] # StubAt(s)
  <2>1. CASE CallMethod(t)
    <3>1. PICK m \in Method :
            \E a \in {BodyAt(BodyOf[m]), slot[m]} : at' = [at EXCEPT ![t] = a]
      BY <2>1 DEF CallMethod
    <3>2. at'[t] = BodyAt(BodyOf[m]) \/ at'[t] = slot[m]
      BY <3>1
    <3>3. QED
      BY <1>0a, <1>2, <3>2 DEF Armed
  <2>2. CASE InBody(t)
    <3>1. PICK b \in Body : JumpToStub(t, b)
      BY <1>2, <2>2 DEF InBody, RunBody, PauseInPrologue, LeavePrologue, LosePrologue,
                        ExecuteTornPatch, Finish
    <3>2. s = IF code[b] = Torn THEN Current.stub ELSE code[b]
      BY <1>2, <3>1 DEF JumpToStub, Goto, StubAt
    <3>3. QED
      BY <3>2 DEF ArmedInv, TornByInstaller, Armed, Installing
  <2>3. CASE InStub(t)
    <3>1. PICK r \in Stub : RunWrapper(t, r)
      BY <1>2, <2>3 DEF InStub, RunReplacement, OverflowStack, Finish
    <3>2. r \in WrapStub /\ at'[t] = orig[r]
      BY <1>2, <3>1 DEF RunWrapper
    <3>3. QED
      BY <1>0a, <1>2, <3>2
  <2>4. CASE InTrampoline(t)
    <3>1. PICK i \in 1 .. Len(tramp) : RunCopiedJump(t, i)
      BY <1>2, <2>4 DEF InTrampoline, RunTrampoline, RunMisplaced, Finish
    <3>2. tramp[i].holds = s
      BY <1>2, <3>1 DEF RunCopiedJump, Goto, StubAt
    <3>3. QED
      BY <3>2 DEF Armed
  <2>5. CASE Return(t)
    BY <1>0a, <1>2, <2>5 DEF Return
  <2>6. QED
    BY <2>1, <2>2, <2>3, <2>4, <2>5 DEF Execute
<1>3. ASSUME NEW u \in Thread, u # t PROVE at'[u] = at[u]
  BY <1>3 DEF CallMethod, Execute, Return, InBody, RunBody, PauseInPrologue, LeavePrologue,
              LosePrologue, JumpToStub, ExecuteTornPatch, InStub, RunReplacement, RunWrapper,
              OverflowStack, InTrampoline, RunTrampoline, RunCopiedJump, RunMisplaced, Finish, Goto
<1>4. QED
  BY <1>1, <1>2, <1>3

LEMMA NextArmedInv == TypeInv /\ ArmedInv /\ [Next]_vars => ArmedInv'
<1> SUFFICES ASSUME TypeInv, ArmedInv, [Next]_vars PROVE ArmedInv'
  OBVIOUS
<1>1. CASE Install
  <2>1. TornByInstaller'
    BY <1>1, InstallTears DEF ArmedInv
  <2>2. ASSUME NEW s \in WrapStub, Armed(s)' PROVE orig'[s] # Null
    BY <1>1, <2>2, InstallArms, OriginalKept DEF ArmedInv
  <2>3. QED
    BY <2>1, <2>2 DEF ArmedInv
<1>2. CASE \E t \in Thread : CallMethod(t) \/ Execute(t) \/ Return(t)
  <2>1. UNCHANGED installer
    BY <1>2, ThreadTypeInv
  <2>2. TornByInstaller'
    BY <2>1 DEF ArmedInv, TornByInstaller, installer, Target
  <2>3. ASSUME NEW s \in WrapStub, Armed(s)' PROVE orig'[s] # Null
    <3>1. Armed(s)
      BY <1>2, <2>3, ThreadArms
    <3>2. QED
      BY <2>1, <3>1 DEF ArmedInv, installer
  <2>4. QED
    BY <2>2, <2>3 DEF ArmedInv
<1>3. CASE UNCHANGED vars
  BY <1>3 DEF vars, ArmedInv, TornByInstaller, Target, Armed, Installing, Current
<1>4. QED
  BY <1>1, <1>2, <1>3 DEF Next

LEMMA ArmedInvariant == Spec => []ArmedInv
  BY InitArmedInv, NextArmedInv, TypeInvariant, PTL DEF Spec

\* A stub that calls the original always has one to call.
THEOREM OriginalAlwaysReachable == Spec => []OriginalReachable
<1>1. ArmedInv => OriginalReachable
  BY DEF ArmedInv, Armed, OriginalReachable, Executes
<1>2. QED
  BY <1>1, ArmedInvariant, PTL
-----------------------------------------------------------------------------
(***************************************************************************)
(* The window between the patch and the publication of the trampoline.     *)
(***************************************************************************)
TrampPtr == {"tramp"} \X (Nat \ {0})

\* A body patched with a wrapping stub belongs to a hook that is complete, its
\* trampoline published, or about to publish it.
PatchedInv ==
  \A s \in WrapStub, b \in Body : code[b] = s =>
    \E i \in 1 .. Len(Plan) :
      /\ Plan[i].stub = s
      /\ \/ i < k /\ orig[s] \in TrampPtr
         \/ i = k /\ ipc = "publish" /\ ret \in TrampPtr

LEMMA InitPatchedInv == Init => PatchedInv
  BY SetsAssumption DEF Init, PatchedInv

LEMMA InstallPatchedInv ==
  ASSUME TypeInv, PatchedInv, Install
  PROVE  PatchedInv'
<1> USE DEF TypeInv, TypeOK, InstallerTypeOK
<1>0. k \in Nat /\ Len(Plan) \in Nat
  BY PlanAssumption
<1> SUFFICES ASSUME NEW s \in WrapStub, NEW b \in Body, code'[b] = s
             PROVE  \E i \in 1 .. Len(Plan) :
                      /\ Plan[i].stub = s
                      /\ \/ i < k' /\ orig'[s] \in TrampPtr
                         \/ i = k' /\ ipc' = "publish" /\ ret' \in TrampPtr
  BY DEF PatchedInv
<1>1. CASE EndPatch /\ b = Target
  <2>1. k \in 1 .. Len(Plan) /\ k' = k /\ ipc' = "publish"
    BY <1>1, <1>0 DEF EndPatch, At
  <2>2. Plan[k].stub = s
    BY <1>1 DEF EndPatch, Current
  <2>3. ret' \in TrampPtr
    BY <1>1 DEF EndPatch, At, Frontier, LatestTramp, TrampAt, TrampPtr
  <2>4. QED
    BY <2>1, <2>2, <2>3
<1>2. CASE ~(EndPatch /\ b = Target)
  <2>1. code[b] = s
    BY <1>2, SetsAssumption
    DEF Install, ReadOriginal, WriteMethodPtr, WriteMethodPtrFails, BuildTrampoline, CannotCover,
        NoPage, PageFull, BeginPatch, BeginPatchFails, EndPatch, Publish
  <2>2. PICK i \in 1 .. Len(Plan) :
          /\ Plan[i].stub = s
          /\ \/ i < k /\ orig[s] \in TrampPtr
             \/ i = k /\ ipc = "publish" /\ ret \in TrampPtr
    BY <2>1 DEF PatchedInv
  <2>3. CASE Publish
    <3>1. k \in 1 .. Len(Plan) /\ k' = k + 1
      BY <2>3, <1>0 DEF Publish, At
    <3>2. CASE i = k
      <4>1. ret # Null
        BY <2>2, <3>2, NullAssumption DEF TrampPtr, Addr
      <4>2. orig'[s] = ret
        BY <2>2, <2>3, <3>2, <4>1 DEF Publish, Wraps, Current
      <4>3. QED
        BY <1>0, <2>2, <3>1, <3>2, <4>2
    <3>3. CASE i < k
      <4>1. Current.stub # s
        BY <2>2, <3>1, <3>3, PlanAssumption DEF Current
      <4>2. orig'[s] = orig[s]
        BY <2>3, <4>1 DEF Publish
      <4>3. QED
        BY <1>0, <2>2, <3>1, <3>3, <4>2
    <3>4. QED
      BY <2>2, <3>2, <3>3
  <2>4. CASE ReadOriginal
    <3>1. k \in 1 .. Len(Plan) /\ i < k
      BY <2>2, <2>4, <1>0 DEF ReadOriginal, At
    <3>2. Current.stub # s
      BY <2>2, <3>1, PlanAssumption DEF Current
    <3>3. QED
      BY <2>2, <2>4, <3>1, <3>2 DEF ReadOriginal
  <2>5. CASE ~Publish /\ ~ReadOriginal
    <3>1. ipc # "publish" /\ UNCHANGED <<k, orig>>
      BY <2>5 DEF Install, WriteMethodPtr, WriteMethodPtrFails, BuildTrampoline, CannotCover,
                  NoPage, PageFull, BeginPatch, BeginPatchFails, EndPatch, At
    <3>2. QED
      BY <2>2, <3>1
  <2>6. QED
    BY <2>3, <2>4, <2>5
<1>3. QED
  BY <1>1, <1>2

LEMMA NextPatchedInv == TypeInv /\ PatchedInv /\ [Next]_vars => PatchedInv'
<1> SUFFICES ASSUME TypeInv, PatchedInv, [Next]_vars PROVE PatchedInv'
  OBVIOUS
<1>1. CASE UNCHANGED installer
  BY <1>1 DEF installer, PatchedInv
<1>2. CASE Install
  BY <1>2, InstallPatchedInv
<1>3. QED
  BY <1>1, <1>2, ThreadTypeInv DEF Next, vars, installer

LEMMA PatchedInvariant == Spec => []PatchedInv
  BY InitPatchedInv, NextPatchedInv, TypeInvariant, PTL DEF Spec

\* A stub's pointer leads back into the stub only while the installer is
\* between writing the patch and storing the trampoline.
THEOREM ReentryConfinedToWindow == Spec => []ReentryOnlyInWindow
<1>1. TypeInv /\ PatchedInv => ReentryOnlyInWindow
  <2> SUFFICES ASSUME TypeInv, PatchedInv, NEW s \in WrapStub, NEW b \in Body,
                      orig[s] = BodyAt(b), code[b] = s
               PROVE  At("publish") /\ Current.stub = s
    BY DEF ReentryOnlyInWindow
  <2>1. PICK i \in 1 .. Len(Plan) :
          /\ Plan[i].stub = s
          /\ \/ i < k /\ orig[s] \in TrampPtr
             \/ i = k /\ ipc = "publish" /\ ret \in TrampPtr
    BY DEF PatchedInv
  <2>2. orig[s] \notin TrampPtr
    BY DEF BodyAt, TrampPtr
  <2>3. QED
    BY <2>1, <2>2, PlanAssumption DEF At, Current
<1>2. QED
  BY <1>1, PatchedInvariant, TypeInvariant, PTL
-----------------------------------------------------------------------------
(***************************************************************************)
(* Where a trampoline leads.                                               *)
(***************************************************************************)
\* The walk of install_inline covers the patch and ends between instructions.
TrampolinesSound ==
  \A i \in 1 .. Len(tramp) :
    /\ tramp[i].copied >= PatchSize(tramp[i].body)
    /\ tramp[i].holds = NoPatch => tramp[i].copied \in Bounds[tramp[i].body]

MadeFor(s, i) ==
  \E h \in 1 .. Len(Plan) : Plan[h].stub = s /\ BodyOf[Plan[h].method] = tramp[i].body

\* The last trampoline is made for the hook being installed, and each pointer
\* kept for a stub that is a trampoline is one made for its hook.
OwnTrampolines ==
  /\ ipc \in {"patch", "tear"} => tramp[Len(tramp)].body = BodyOf[Current.method]
  /\ ipc = "publish" => \A i \in Nat \ {0} : ret = TrampAt(i) =>
       i \in 1 .. Len(tramp) /\ tramp[i].body = BodyOf[Current.method]
  /\ \A s \in WrapStub, i \in Nat \ {0} :
       orig[s] = TrampAt(i) => i \in 1 .. Len(tramp) /\ MadeFor(s, i)

OriginInv == TrampolinesSound /\ OwnTrampolines

LEMMA TrampAtDiffers ==
  ASSUME NEW i \in Nat \ {0}
  PROVE  /\ TrampAt(i) # Null
         /\ \A b : BodyAt(b) # TrampAt(i)
         /\ \A j : TrampAt(j) = TrampAt(i) => j = i
  BY NullAssumption DEF TrampAt, BodyAt, Addr

LEMMA TrampolinesSoundStep ==
  ASSUME TypeInv, TrampolinesSound, Next
  PROVE  TrampolinesSound'
<1>1. CASE UNCHANGED <<tramp, used>>
  BY <1>1 DEF TrampolinesSound, PatchSize
<1>2. CASE ~UNCHANGED <<tramp, used>>
  <2>1. PICK n \in Nat :
          /\ ipc = "build"
          /\ n \in Decoded(Target) /\ WholeInstructions(Target, n) /\ Fits(n)
          /\ used' = used + n + JumpBack
          /\ Len(tramp') = Len(tramp) + 1
          /\ \A i \in 1 .. Len(tramp) : tramp'[i] = tramp[i]
          /\ tramp'[Len(tramp) + 1] =
               [off |-> used, size |-> n + JumpBack, body |-> Target,
                copied |-> n, holds |-> code[Target]]
    BY <1>2, TrampolineAppended
  <2>2. Len(tramp) \in Nat
    BY DEF TypeInv, TypeOK, InstallerTypeOK
  <2>3. ASSUME NEW i \in 1 .. Len(tramp')
        PROVE  /\ tramp'[i].copied >= PatchSize(tramp'[i].body)
               /\ tramp'[i].holds = NoPatch => tramp'[i].copied \in Bounds[tramp'[i].body]
    <3>1. CASE i \in 1 .. Len(tramp)
      BY <2>1, <3>1 DEF TrampolinesSound
    <3>2. CASE i = Len(tramp) + 1
      BY <2>1, <3>2 DEF WholeInstructions, Decoded
    <3>3. QED
      BY <2>1, <2>2, <3>1, <3>2
  <2>4. QED
    BY <2>3 DEF TrampolinesSound, PatchSize
<1>3. QED
  BY <1>1, <1>2

LEMMA OwnTrampolinesStep ==
  ASSUME TypeInv, OwnTrampolines, Install
  PROVE  OwnTrampolines'
<1> USE DEF TypeInv, TypeOK, InstallerTypeOK
<1>0. k \in Nat /\ Len(Plan) \in Nat /\ Len(tramp) \in Nat
  BY PlanAssumption
<1>1. CASE BuildTrampoline
  <2>1. PICK n \in Decoded(Target) :
          tramp' = Append(tramp, [off |-> used, size |-> n + JumpBack, body |-> Target,
                                  copied |-> n, holds |-> code[Target]])
    BY <1>1 DEF BuildTrampoline
  <2>2. /\ Len(tramp') = Len(tramp) + 1 /\ tramp'[Len(tramp')].body = Target
        /\ \A i \in 1 .. Len(tramp) : tramp'[i] = tramp[i]
    BY <1>0, <2>1
  <2>3. Target = BodyOf[Current.method]
    BY <1>1 DEF BuildTrampoline, At, Frontier, Target, BodyAt
  <2>4. \A s \in WrapStub, i \in 1 .. Len(tramp) : MadeFor(s, i) => MadeFor(s, i)'
    BY <2>2 DEF MadeFor
  <2>5. QED
    BY <1>0, <1>1, <2>2, <2>3, <2>4 DEF BuildTrampoline, OwnTrampolines, Current
<1>2. CASE ReadOriginal
  <2>1. \A s \in WrapStub, i \in Nat \ {0} : orig'[s] = TrampAt(i) => orig[s] = TrampAt(i)
    <3> TAKE s \in WrapStub, i \in Nat \ {0}
    <3>1. k \in 1 .. Len(Plan)
      BY <1>0, <1>2 DEF ReadOriginal, At
    <3>2. slot[Current.method] = InitialPtr(Current.method)
      BY <1>2, <3>1 DEF ReadOriginal, At, Frontier, Untouched, Current
    <3>3. slot[Current.method] # TrampAt(i)
      BY <3>2, TrampAtDiffers DEF InitialPtr
    <3>4. QED
      BY <1>2, <3>3 DEF ReadOriginal
  <2>2. QED
    BY SMTT(30), <1>2, <2>1 DEF ReadOriginal, OwnTrampolines, MadeFor
<1>3. CASE EndPatch
  <2>1. /\ ret' = TrampAt(Len(tramp)) /\ Len(tramp) \in Nat \ {0}
        /\ tramp[Len(tramp)].body = BodyOf[Current.method]
    BY <1>3 DEF EndPatch, At, Frontier, LatestTramp, OwnTrampolines
  <2>2. \A i \in Nat \ {0} : ret' = TrampAt(i) => i = Len(tramp)
    BY <2>1 DEF TrampAt
  <2>3. QED
    BY <1>3, <2>1, <2>2 DEF EndPatch, OwnTrampolines, MadeFor, Current
<1>4. CASE Publish
  <2>1. k \in 1 .. Len(Plan) /\ ipc = "publish"
    BY <1>0, <1>4 DEF Publish, At
  <2>2. ASSUME NEW s \in WrapStub, NEW i \in Nat \ {0}, orig'[s] = TrampAt(i)
        PROVE  i \in 1 .. Len(tramp) /\ MadeFor(s, i)
    <3>1. CASE orig'[s] = orig[s]
      BY <2>2, <3>1 DEF OwnTrampolines
    <3>2. CASE orig'[s] = ret /\ Current.stub = s
      BY <2>1, <2>2, <3>2 DEF OwnTrampolines, MadeFor, Current
    <3>3. QED
      BY <1>4, <3>1, <3>2 DEF Publish
  <2>3. QED
    BY <1>4, <2>2 DEF Publish, OwnTrampolines, MadeFor
<1>5. CASE WriteMethodPtr \/ WriteMethodPtrFails
  <2>1. ipc' = "publish" => ret' = Null
    BY <1>5 DEF WriteMethodPtr, WriteMethodPtrFails
  <2>2. \A i \in Nat \ {0} : TrampAt(i) # Null
    BY TrampAtDiffers
  <2>3. ipc' \in {"publish", "build"} /\ tramp' = tramp /\ orig' = orig
    BY <1>5 DEF WriteMethodPtr, WriteMethodPtrFails
  <2>4. \A s \in WrapStub, i \in Nat \ {0} : orig'[s] = TrampAt(i) =>
          i \in 1 .. Len(tramp') /\ MadeFor(s, i)'
    BY <2>3 DEF OwnTrampolines, MadeFor
  <2>5. QED
    BY <2>1, <2>2, <2>3, <2>4 DEF OwnTrampolines
<1>6. CASE CannotCover \/ NoPage \/ PageFull \/ BeginPatchFails
  <2>1. ret = BodyAt(BodyOf[Current.method])
    BY <1>6 DEF CannotCover, NoPage, PageFull, BeginPatchFails, At, Frontier
  <2>2. \A i \in Nat \ {0} : ret # TrampAt(i)
    BY <2>1, TrampAtDiffers
  <2>3. QED
    BY <1>6, <2>2 DEF CannotCover, NoPage, PageFull, BeginPatchFails, OwnTrampolines, MadeFor
<1>7. CASE BeginPatch
  BY <1>7 DEF BeginPatch, At, OwnTrampolines, MadeFor, Current
<1>8. QED
  BY <1>1, <1>2, <1>3, <1>4, <1>5, <1>6, <1>7 DEF Install

\* A trampoline reaches the stub of the method it was cut from, and ends past
\* the patch, where insn_len finds the start of an instruction; where it reads the
\* body right (WalkStaysOnBoundaries says when), at the start of one.
THEOREM OriginalAlwaysResumesBody == Spec => []OriginalResumesBody
<1>1. Init => OriginInv
  <2> SUFFICES ASSUME Init PROVE OriginInv
    OBVIOUS
  <2>1. TrampolinesSound
    BY DEF Init, TrampolinesSound
  <2>2. \A i \in Nat \ {0} : TrampAt(i) # Null
    BY TrampAtDiffers
  <2>3. QED
    BY <2>1, <2>2 DEF Init, OriginInv, OwnTrampolines
<1>2. TypeInv /\ OriginInv /\ [Next]_vars => OriginInv'
  <2> SUFFICES ASSUME TypeInv, OriginInv, [Next]_vars PROVE OriginInv'
    OBVIOUS
  <2>1. CASE UNCHANGED installer
    BY <2>1 DEF installer, OriginInv, TrampolinesSound, OwnTrampolines, MadeFor, Current, PatchSize
  <2>2. CASE Install
    BY <2>2, TrampolinesSoundStep, OwnTrampolinesStep DEF OriginInv, Next
  <2>3. QED
    BY <2>1, <2>2, ThreadTypeInv DEF Next, vars, installer
<1>3. TypeInv /\ OriginInv => OriginalResumesBody
  <2> SUFFICES ASSUME TypeInv, OriginInv, NEW s \in WrapStub, NEW i \in 1 .. Len(tramp),
                      orig[s] = TrampAt(i)
               PROVE  /\ tramp[i].copied >= PatchSize(tramp[i].body)
                      /\ tramp[i].holds = NoPatch =>
                           /\ tramp[i].copied \in Bounds[tramp[i].body]
                           /\ Bounds[tramp[i].body] \subseteq Ends[tramp[i].body]
                                => tramp[i].copied \in Ends[tramp[i].body]
                      /\ \E h \in 1 .. Len(Plan) :
                           Plan[h].stub = s /\ BodyOf[Plan[h].method] = tramp[i].body
    BY DEF OriginalResumesBody
  <2>1. MadeFor(s, i)
    BY DEF OriginInv, OwnTrampolines
  <2>2. QED
    BY <2>1 DEF OriginInv, TrampolinesSound, MadeFor
<1>4. QED
  BY <1>1, <1>2, <1>3, TypeInvariant, PTL DEF Spec
-----------------------------------------------------------------------------
(***************************************************************************)
(* How far the hook of each method is, and what that says of its slot, its *)
(* body and its stub's original.                                           *)
(***************************************************************************)
\* A trampoline that runs the body b past the patch.
Good(i, b) ==
  /\ i \in 1 .. Len(tramp)
  /\ tramp[i].body = b /\ tramp[i].holds = NoPatch
  /\ tramp[i].copied \in Bounds[b] /\ tramp[i].copied >= PatchSize(b)

\* How far the hook of a method with a body of its own has come.
Unpatched(j) ==
  LET s == Plan[j].stub  b == BodyOf[Plan[j].method] IN
  code[b] = NoPatch /\ (s \in WrapStub => orig[s] = BodyAt(b))
Patched(j) ==
  LET s == Plan[j].stub  b == BodyOf[Plan[j].method] IN
  code[b] = s /\ (s \in WrapStub => \E i \in 1 .. Len(tramp) : orig[s] = TrampAt(i) /\ Good(i, b))

Progress(j) ==
  LET m == Plan[j].method  s == Plan[j].stub  b == BodyOf[m] IN
  /\ slot[m] \in {BodyAt(b), StubAt(s)}
  /\ j > k \/ (j = k /\ ipc \in {"read", "slot", "build", "patch"}) => code[b] = NoPatch
  /\ j = k /\ ipc # "read" /\ s \in WrapStub => orig[s] = BodyAt(b)
  /\ j = k /\ ipc \in {"patch", "tear"} => Good(Len(tramp), b)
  /\ j = k /\ ipc = "publish" =>
       \/ code[b] = NoPatch /\ ret \in {Null, BodyAt(b)}
       \/ code[b] = s /\ \E i \in 1 .. Len(tramp) : ret = TrampAt(i) /\ Good(i, b)
  /\ j < k => Unpatched(j) \/ Patched(j)

\* Nothing happens to a method whose body no hook concerns.
Unplanned(m) == \A i \in 1 .. Len(Plan) : BodyOf[Plan[i].method] # BodyOf[m]

OwnHook(j) ==
  /\ BodyOf[Plan[j].method] # Null
  /\ \A i \in 1 .. Len(Plan) :
       BodyOf[Plan[i].method] = BodyOf[Plan[j].method] => Plan[i].method = Plan[j].method

ProgressInv ==
  /\ \A j \in 1 .. Len(Plan) : OwnHook(j) => Progress(j)
  /\ \A m \in Method : BodyOf[m] # Null /\ Unplanned(m) =>
       slot[m] = BodyAt(BodyOf[m]) /\ code[BodyOf[m]] = NoPatch

LEMMA OwnHookIsOnly ==
  ASSUME NEW j \in 1 .. Len(Plan), OwnHook(j), NEW i \in 1 .. Len(Plan)
  PROVE  /\ BodyOf[Plan[i].method] = BodyOf[Plan[j].method] => i = j
         /\ Plan[i].method = Plan[j].method => i = j
         /\ Plan[i].stub = Plan[j].stub /\ Plan[j].stub \in WrapStub => i = j
         /\ BodyOf[Plan[j].method] \in Body
  BY PlanElement, PlanAssumption, BodiesAssumption DEF OwnHook

LEMMA GoodStays ==
  ASSUME TypeInv, Next, NEW i, NEW b \in Body, Good(i, b)
  PROVE  Good(i, b)'
<1>1. CASE UNCHANGED <<tramp, used>>
  BY <1>1 DEF Good, PatchSize
<1>2. CASE ~UNCHANGED <<tramp, used>>
  <2>1. /\ Len(tramp') = Len(tramp) + 1
        /\ \A h \in 1 .. Len(tramp) : tramp'[h] = tramp[h]
    BY <1>2, TrampolineAppended
  <2>2. Len(tramp) \in Nat
    BY DEF TypeInv, TypeOK, InstallerTypeOK
  <2>3. i \in 1 .. Len(tramp') /\ tramp'[i] = tramp[i]
    BY <2>1, <2>2 DEF Good
  <2>4. QED
    BY <2>3 DEF Good, PatchSize
<1>3. QED
  BY <1>1, <1>2

LEMMA InitProgressInv == Init => ProgressInv
<1> SUFFICES ASSUME Init PROVE ProgressInv
  OBVIOUS
<1>1. k = 1 /\ ipc = "read" /\ Len(Plan) \in Nat
  BY PlanAssumption DEF Init
<1>2. ASSUME NEW m \in Method, BodyOf[m] # Null
      PROVE  slot[m] = BodyAt(BodyOf[m]) /\ code[BodyOf[m]] = NoPatch
  BY <1>2, BodiesAssumption DEF Init, InitialPtr
<1>3. ASSUME NEW j \in 1 .. Len(Plan), OwnHook(j) PROVE Progress(j)
  <2>1. Plan[j].method \in Method /\ BodyOf[Plan[j].method] # Null
    BY <1>3, PlanElement DEF OwnHook
  <2>2. QED
    BY <1>1, <1>2, <2>1 DEF Progress
<1>4. QED
  BY <1>2, <1>3 DEF ProgressInv
-----------------------------------------------------------------------------
\* A step of the hook k leaves the others' bodies, slots and originals alone.
LEMMA OtherHooksKept ==
  ASSUME TypeInv, Install, NEW j \in 1 .. Len(Plan), OwnHook(j), j # k
  PROVE  LET m == Plan[j].method  s == Plan[j].stub  b == BodyOf[m] IN
         slot'[m] = slot[m] /\ code'[b] = code[b] /\ (s \in WrapStub => orig'[s] = orig[s])
<1> USE DEF TypeInv, TypeOK, InstallerTypeOK
<1>0. Plan[j].method \in Method /\ Plan[j].stub \in Stub /\ BodyOf[Plan[j].method] \in Body
  BY PlanElement, OwnHookIsOnly
<1>h. k <= Len(Plan) =>
        /\ k \in 1 .. Len(Plan) /\ Current = Plan[k]
        /\ Current.method # Plan[j].method /\ BodyOf[Current.method] # BodyOf[Plan[j].method]
        /\ Plan[j].stub \in WrapStub => Current.stub # Plan[j].stub
  BY OwnHookIsOnly, PlanAssumption DEF Current
<1>1. CASE ReadOriginal
  BY <1>0, <1>h, <1>1 DEF ReadOriginal, At
<1>2. CASE WriteMethodPtr
  BY <1>0, <1>h, <1>2 DEF WriteMethodPtr, At
<1>3. CASE BeginPatch \/ EndPatch
  <2>1. Target = BodyOf[Current.method] /\ k <= Len(Plan)
    BY <1>3 DEF BeginPatch, EndPatch, At, Frontier, Target, BodyAt
  <2>2. QED
    BY <1>0, <1>h, <1>3, <2>1 DEF BeginPatch, EndPatch
<1>4. CASE Publish
  BY <1>0, <1>h, <1>4 DEF Publish, At
<1>5. CASE WriteMethodPtrFails \/ BuildTrampoline \/ CannotCover \/ NoPage \/ PageFull \/ BeginPatchFails
  BY <1>5 DEF WriteMethodPtrFails, BuildTrampoline, CannotCover, NoPage, PageFull, BeginPatchFails
<1>6. QED
  BY <1>1, <1>2, <1>3, <1>4, <1>5 DEF Install

LEMMA UnplannedKept ==
  ASSUME TypeInv, Install, NEW m \in Method, BodyOf[m] # Null, Unplanned(m)
  PROVE  slot'[m] = slot[m] /\ code'[BodyOf[m]] = code[BodyOf[m]]
<1> USE DEF TypeInv, TypeOK, InstallerTypeOK
<1>0. BodyOf[m] \in Body
  BY BodiesAssumption
<1>h. k <= Len(Plan) => /\ BodyOf[Current.method] # BodyOf[m]
                        /\ Current.method # m
  BY PlanAssumption DEF Current, Unplanned
<1>2. CASE WriteMethodPtr
  BY <1>0, <1>h, <1>2 DEF WriteMethodPtr, At
<1>3. CASE BeginPatch \/ EndPatch
  <2>1. Target = BodyOf[Current.method] /\ k <= Len(Plan)
    BY <1>3 DEF BeginPatch, EndPatch, At, Frontier, Target, BodyAt
  <2>2. QED
    BY <1>0, <1>h, <1>3, <2>1 DEF BeginPatch, EndPatch
<1>4. CASE \/ ReadOriginal \/ Publish
           \/ WriteMethodPtrFails \/ BuildTrampoline \/ CannotCover \/ NoPage \/ PageFull
           \/ BeginPatchFails
  BY <1>4 DEF ReadOriginal, Publish, WriteMethodPtrFails, BuildTrampoline, CannotCover, NoPage,
              PageFull, BeginPatchFails
<1>5. QED
  BY <1>2, <1>3, <1>4 DEF Install

\* A step of the hook k itself.
LEMMA OwnHookStep ==
  ASSUME TypeInv, Install, NEW j \in 1 .. Len(Plan), j = k, OwnHook(j), Progress(j)
  PROVE  Progress(j)'
<1> USE DEF TypeInv, TypeOK, InstallerTypeOK
<1> DEFINE m == Plan[j].method
           s == Plan[j].stub
           b == BodyOf[m]
<1>0. /\ Current = Plan[j] /\ m \in Method /\ s \in Stub /\ b \in Body
      /\ b # Null /\ s # NoPatch /\ s # Torn /\ NoPatch # Torn
  BY PlanElement, OwnHookIsOnly, SetsAssumption DEF Current, OwnHook
<1>n. k \in Nat /\ Len(Plan) \in Nat
  BY PlanAssumption
<1>g. ASSUME NEW i, Good(i, b) PROVE Good(i, b)'
  <2>1. Next
    BY DEF Next
  <2>2. b \in Body
    BY <1>0
  <2> HIDE DEF b
  <2>3. QED
    BY <1>g, <2>1, <2>2, GoodStays
<1>t. ipc \in {"build", "patch", "tear"} => ret = BodyAt(b) /\ Target = b
  BY <1>0 DEF Frontier, Target, BodyAt
<1>a. BodyAt(b) # Null
  BY <1>0, NullAssumption DEF BodyAt, Addr
<1>1. CASE ReadOriginal
  <2>1. slot[m] = BodyAt(b)
    BY <1>0, <1>1 DEF ReadOriginal, At, Frontier, Untouched, InitialPtr
  <2>2. s \in WrapStub => orig'[s] = BodyAt(b)
    BY <1>0, <1>1, <2>1 DEF ReadOriginal, Wraps
  <2>3. /\ ipc' = "slot" /\ k' = k /\ ipc = "read"
        /\ slot' = slot /\ code' = code
    BY <1>1 DEF ReadOriginal, At
  <2>4. QED
    BY <1>n, <2>1, <2>2, <2>3 DEF Progress
<1>2. CASE WriteMethodPtr
  <2>1. slot[m] = BodyAt(b)
    BY <1>0, <1>2 DEF WriteMethodPtr, At, Frontier, Untouched, InitialPtr
  <2>2. slot'[m] = StubAt(s) /\ ret' = BodyAt(b) /\ ipc' = "build"
    BY <1>0, <1>a, <1>2, <2>1 DEF WriteMethodPtr
  <2>3. k' = k /\ code' = code /\ orig' = orig /\ ipc = "slot"
    BY <1>2 DEF WriteMethodPtr, At
  <2>4. QED
    BY <1>n, <2>2, <2>3 DEF Progress
<1>3. CASE WriteMethodPtrFails
  <2>1. /\ k' = k /\ code' = code /\ orig' = orig /\ slot' = slot
        /\ ipc = "slot" /\ ipc' = "publish" /\ ret' = Null
    BY <1>3 DEF WriteMethodPtrFails, At
  <2>2. QED
    BY <1>n, <2>1 DEF Progress
<1>4. CASE BuildTrampoline
  <2>1. /\ k' = k /\ code' = code /\ orig' = orig /\ slot' = slot
        /\ ipc = "build" /\ ipc' = "patch"
    BY <1>4 DEF BuildTrampoline, At
  <2>2. PICK n \in Decoded(b) :
          /\ WholeInstructions(b, n)
          /\ tramp' = Append(tramp, [off |-> used, size |-> n + JumpBack, body |-> b,
                                     copied |-> n, holds |-> code[b]])
    BY <1>4, <1>t, <2>1 DEF BuildTrampoline
  <2>3. code[b] = NoPatch
    BY <2>1 DEF Progress
  <2>4. n \in Bounds[b] /\ n >= PatchSize(b)
    BY <2>2, <2>3 DEF WholeInstructions, Decoded
  <2>5. /\ Len(tramp') = Len(tramp) + 1 /\ Len(tramp) \in Nat
        /\ tramp'[Len(tramp) + 1] = [off |-> used, size |-> n + JumpBack, body |-> b,
                                     copied |-> n, holds |-> code[b]]
    BY <2>2
  <2>6. Good(Len(tramp), b)'
    <3>1. Len(tramp') \in 1 .. Len(tramp')
      BY <2>5
    <3>2. /\ tramp'[Len(tramp')].body = b /\ tramp'[Len(tramp')].holds = NoPatch
          /\ tramp'[Len(tramp')].copied = n
      BY <2>3, <2>5
    <3>3. QED
      BY <2>4, <3>1, <3>2 DEF Good, PatchSize
  <2>7. QED
    BY <1>n, <2>1, <2>3, <2>6 DEF Progress
<1>5. CASE CannotCover \/ NoPage \/ PageFull
  <2>1. /\ k' = k /\ code' = code /\ orig' = orig /\ slot' = slot /\ ret' = ret
        /\ ipc = "build" /\ ipc' = "publish"
    BY <1>5 DEF CannotCover, NoPage, PageFull, At
  <2>2. QED
    BY <1>n, <1>t, <2>1 DEF Progress
<1>6. CASE BeginPatch
  <2>1. /\ k' = k /\ orig' = orig /\ slot' = slot /\ tramp' = tramp
        /\ ipc = "patch" /\ ipc' = "tear"
    BY <1>6 DEF BeginPatch, At
  <2>2. Good(Len(tramp), b)'
    BY <1>g, <2>1 DEF Progress, Good, PatchSize
  <2>3. QED
    BY <1>n, <2>1, <2>2 DEF Progress
<1>7. CASE BeginPatchFails
  <2>1. /\ k' = k /\ code' = code /\ orig' = orig /\ slot' = slot /\ ret' = ret
        /\ ipc = "patch" /\ ipc' = "publish"
    BY <1>7 DEF BeginPatchFails, At
  <2>2. QED
    BY <1>n, <1>t, <2>1 DEF Progress
<1>8. CASE EndPatch
  <2>1. /\ k' = k /\ orig' = orig /\ slot' = slot /\ tramp' = tramp
        /\ ipc = "tear" /\ ipc' = "publish"
        /\ code'[b] = s /\ ret' = TrampAt(Len(tramp))
    BY <1>0, <1>t, <1>8 DEF EndPatch, At, LatestTramp
  <2>2. Good(Len(tramp), b)
    BY <2>1 DEF Progress
  <2>3. Good(Len(tramp), b)' /\ Len(tramp) \in 1 .. Len(tramp')
    BY <1>g, <2>1, <2>2 DEF Good
  <2>4. QED
    BY <1>n, <2>1, <2>3 DEF Progress
<1>9. CASE Publish
  <2>1. /\ k' = k + 1 /\ code' = code /\ slot' = slot /\ tramp' = tramp
        /\ ipc = "publish"
        /\ s \in WrapStub => orig'[s] = IF ret # Null THEN ret ELSE orig[s]
    BY <1>0, <1>9 DEF Publish, At, Wraps
  <2>2. s \in WrapStub => orig[s] = BodyAt(b)
    BY <2>1 DEF Progress
  <2>3. CASE code[b] = NoPatch /\ ret \in {Null, BodyAt(b)}
    <3>1. Unpatched(j)'
      BY <2>1, <2>2, <2>3 DEF Unpatched
    <3>2. QED
      BY <1>n, <2>1, <3>1 DEF Progress
  <2>4. CASE code[b] = s /\ \E i \in 1 .. Len(tramp) : ret = TrampAt(i) /\ Good(i, b)
    <3>1. PICK i \in 1 .. Len(tramp) : ret = TrampAt(i) /\ Good(i, b)
      BY <2>4
    <3>2. ret # Null
      BY <3>1, TrampAtDiffers
    <3>3. i \in 1 .. Len(tramp') /\ Good(i, b)'
      BY <1>g, <2>1, <3>1
    <3>4. code'[b] = s /\ (s \in WrapStub => orig'[s] = TrampAt(i))
      BY <2>1, <2>4, <3>1, <3>2
    <3>5. Patched(j)'
      BY <3>3, <3>4 DEF Patched
    <3>6. QED
      BY <1>n, <2>1, <3>5 DEF Progress
  <2>5. QED
    BY <2>1, <2>3, <2>4 DEF Progress
<1>10. QED
  BY <1>1, <1>2, <1>3, <1>4, <1>5, <1>6, <1>7, <1>8, <1>9 DEF Install

\* Steps of the threads, and stuttering.
LEMMA IdleKeepsProgress ==
  ASSUME UNCHANGED installer, ProgressInv
  PROVE  ProgressInv'
<1>1. ASSUME NEW j \in 1 .. Len(Plan), Progress(j) PROVE Progress(j)'
  <2>1. (Unpatched(j) => Unpatched(j)') /\ (Patched(j) => Patched(j)')
    BY DEF installer, Unpatched, Patched, Good, PatchSize
  <2>2. QED
    BY <1>1, <2>1 DEF installer, Progress, Good, PatchSize
<1>2. \A j \in 1 .. Len(Plan) : OwnHook(j) => Progress(j)'
  BY <1>1 DEF ProgressInv
<1>3. QED
  BY <1>2 DEF ProgressInv, installer

LEMMA HookByHook ==
  ASSUME TypeInv, Install
  PROVE  k' = k \/ (k' = k + 1 /\ ipc' = "read")
  BY DEF Install, ReadOriginal, WriteMethodPtr, WriteMethodPtrFails, BuildTrampoline,
         CannotCover, NoPage, PageFull, BeginPatch, BeginPatchFails, EndPatch, Publish

LEMMA NextProgressInv == TypeInv /\ ProgressInv /\ [Next]_vars => ProgressInv'
<1> SUFFICES ASSUME TypeInv, ProgressInv, [Next]_vars PROVE ProgressInv'
  OBVIOUS
<1>1. CASE Install
  <2>0. k \in Nat /\ Len(Plan) \in Nat
    BY PlanAssumption DEF TypeInv, TypeOK, InstallerTypeOK
  <2>1. ASSUME NEW j \in 1 .. Len(Plan), OwnHook(j) PROVE Progress(j)'
    <3> DEFINE m == Plan[j].method
               s == Plan[j].stub
               b == BodyOf[m]
    <3>0. Progress(j)
      BY <2>1 DEF ProgressInv
    <3>1. CASE j = k
      BY <1>1, <2>1, <3>0, <3>1, OwnHookStep
    <3>2. CASE j # k
      <4>1. slot'[m] = slot[m] /\ code'[b] = code[b] /\ (s \in WrapStub => orig'[s] = orig[s])
        BY <1>1, <2>1, <3>2, OtherHooksKept
      <4>2. k' = k \/ (k' = k + 1 /\ ipc' = "read")
        BY <1>1, HookByHook
      <4>3. CASE j < k
        <5>1. Unpatched(j) \/ Patched(j)
          BY <3>0, <4>3 DEF Progress
        <5>2. Unpatched(j) => Unpatched(j)'
          BY <4>1 DEF Unpatched
        <5>3. ASSUME Patched(j) PROVE Patched(j)'
          <6>1. CASE s \in WrapStub
            <7>1. PICK i \in 1 .. Len(tramp) : orig[s] = TrampAt(i) /\ Good(i, b)
              BY <5>3, <6>1 DEF Patched
            <7>2. b \in Body /\ Next
              BY <1>1, <2>1, OwnHookIsOnly DEF Next
            <7>3. Good(i, b)'
              <8> HIDE DEF b
              <8>1. QED
                BY <7>1, <7>2, GoodStays
            <7>4. i \in 1 .. Len(tramp')
              BY <7>3 DEF Good
            <7>5. QED
              BY <4>1, <5>3, <6>1, <7>1, <7>3, <7>4 DEF Patched
          <6>2. CASE s \notin WrapStub
            BY <4>1, <5>3, <6>2 DEF Patched
          <6>3. QED
            BY <6>1, <6>2
        <5>4. j < k' /\ j # k'
          BY <2>0, <4>2, <4>3
        <5>5. slot'[m] \in {BodyAt(b), StubAt(s)}
          BY <3>0, <4>1 DEF Progress
        <5>6. ~ (j > k')
          BY <2>0, <4>2, <4>3
        <5>7. QED
          BY <5>1, <5>2, <5>3, <5>4, <5>5, <5>6 DEF Progress
      <4>4. CASE j > k
        <5>1. code'[b] = NoPatch /\ slot'[m] \in {BodyAt(b), StubAt(s)}
          BY <3>0, <4>1, <4>4 DEF Progress
        <5>2. ~ (j < k') /\ (j = k' => ipc' = "read")
          BY <2>0, <4>2, <4>4
        <5>3. QED
          BY <5>1, <5>2 DEF Progress
      <4>5. QED
        BY <2>0, <3>2, <4>3, <4>4
    <3>3. QED
      BY <3>1, <3>2
  <2>2. ASSUME NEW m \in Method, BodyOf[m] # Null, Unplanned(m)
        PROVE  slot'[m] = BodyAt(BodyOf[m]) /\ code'[BodyOf[m]] = NoPatch
    BY <1>1, <2>2, UnplannedKept DEF ProgressInv
  <2>3. QED
    BY <2>1, <2>2 DEF ProgressInv
<1>2. CASE \E t \in Thread : CallMethod(t) \/ Execute(t) \/ Return(t)
  BY <1>2, ThreadTypeInv, IdleKeepsProgress
<1>3. CASE UNCHANGED vars
  <2>1. UNCHANGED installer
    BY <1>3 DEF vars, installer
  <2>2. QED
    BY <2>1, IdleKeepsProgress
<1>4. QED
  BY <1>1, <1>2, <1>3 DEF Next
-----------------------------------------------------------------------------
(***************************************************************************)
(* A call that began when its method was settled.                          *)
(***************************************************************************)
Own(m, s) == \E j \in 1 .. Len(Plan) : Plan[j].method = m /\ Plan[j].stub = s

Leads(m, s) ==
  LET b == BodyOf[m] IN
  \/ code[b] = NoPatch /\ orig[s] = BodyAt(b)
  \/ \E i \in Nat \ {0} : orig[s] = TrampAt(i) /\ Good(i, b)

\* Where a method that is settled and alone in its body leads.
LEMMA SettledOutcome ==
  ASSUME TypeInv, ProgressInv, NEW m \in Method, BodyOf[m] # Null, Alone(m), Settled(m)
  PROVE  LET b == BodyOf[m] IN
         /\ b \in Body
         /\ slot[m] = BodyAt(b) \/ \E s \in Stub : Own(m, s) /\ slot[m] = StubAt(s)
         /\ code[b] = NoPatch \/ (code[b] \in Stub /\ Own(m, code[b]))
         /\ \A s \in WrapStub : Own(m, s) => Leads(m, s)
<1>0. BodyOf[m] \in Body
  BY BodiesAssumption
<1>1. CASE Unplanned(m)
  <2>1. \A s : ~Own(m, s)
    BY <1>1 DEF Own, Unplanned
  <2>2. slot[m] = BodyAt(BodyOf[m]) /\ code[BodyOf[m]] = NoPatch
    BY <1>1 DEF ProgressInv
  <2>3. QED
    BY <1>0, <2>1, <2>2
<1>2. CASE ~Unplanned(m)
  <2>1. PICK j \in 1 .. Len(Plan) : BodyOf[Plan[j].method] = BodyOf[m]
    BY <1>2 DEF Unplanned
  <2>2. Plan[j].method = m
    BY <2>1 DEF Alone
  <2>3. OwnHook(j)
    BY <2>2 DEF OwnHook, Alone
  <2>4. j < k
    <3>1. k \in Nat /\ Len(Plan) \in Nat /\ j \in Nat /\ j <= Len(Plan)
      BY PlanAssumption DEF TypeInv, TypeOK, InstallerTypeOK
    <3>2. j \notin k .. Len(Plan)
      BY <2>1 DEF Settled
    <3>3. QED
      BY <3>1, <3>2
  <2>5. Progress(j) /\ (Unpatched(j) \/ Patched(j))
    BY <2>3, <2>4 DEF ProgressInv, Progress
  <2>6. Plan[j].stub \in Stub /\ Own(m, Plan[j].stub)
    BY <2>2, PlanElement DEF Own
  <2>7. \A s : Own(m, s) => s = Plan[j].stub
    BY <2>2, PlanAssumption DEF Own
  <2>8. slot[m] \in {BodyAt(BodyOf[m]), StubAt(Plan[j].stub)}
    BY <2>2, <2>5 DEF Progress
  <2>9. code[BodyOf[m]] = NoPatch \/ code[BodyOf[m]] = Plan[j].stub
    BY <2>2, <2>5 DEF Unpatched, Patched
  <2>10. ASSUME NEW s \in WrapStub, Own(m, s) PROVE Leads(m, s)
    <3>1. s = Plan[j].stub
      BY <2>7, <2>10
    <3>2. CASE Unpatched(j)
      BY <2>2, <3>1, <3>2 DEF Unpatched, Leads
    <3>3. CASE Patched(j)
      <4>1. PICK i \in 1 .. Len(tramp) : orig[s] = TrampAt(i) /\ Good(i, BodyOf[m])
        BY <2>2, <3>1, <3>3 DEF Patched
      <4>2. i \in Nat \ {0}
        BY DEF TypeInv, TypeOK, InstallerTypeOK
      <4>3. QED
        BY <4>1, <4>2 DEF Leads
    <3>4. QED
      BY <2>5, <3>2, <3>3
  <2>11. QED
    BY <1>0, <2>6, <2>8, <2>9, <2>10
<1>3. QED
  BY <1>1, <1>2

\* A stub of m that calls the original has run, or nothing yet.
Wrapped(m, trace) == \E s \in WrapStub : Own(m, s) /\ trace = <<s>>

Stage(t, m) ==
  LET b == BodyOf[m] IN
  \/ st[t] = "running" /\ ran[t] = <<>> /\ at[t] = BodyAt(b)
  \/ st[t] = "running" /\ ran[t] = <<>> /\ \E s \in Stub : Own(m, s) /\ at[t] = StubAt(s)
  \/ st[t] = "running" /\ Wrapped(m, ran[t]) /\ at[t] = BodyAt(b) /\ code[b] = NoPatch
  \/ /\ st[t] = "running" /\ Wrapped(m, ran[t])
     /\ \E i \in Nat \ {0} : at[t] = TrampAt(i) /\ Good(i, b)
  \/ /\ st[t] = "inside" /\ at[t] = BodyAt(b) /\ code[b] = NoPatch
     /\ ran[t] = <<>> \/ Wrapped(m, ran[t])
  \/ st[t] = "done" /\ (ran[t] \in Intercepted(m) \/ (ran[t] = <<b>> /\ code[b] = NoPatch))

\* Where the hook has changed nothing, the call is in the original or over.
Plain(t, m) ==
  EndedAs(m) = "absent" =>
    \/ st[t] \in {"running", "inside"} /\ ran[t] = <<>> /\ at[t] = BodyAt(BodyOf[m])
    \/ st[t] = "done" /\ ran[t] = <<BodyOf[m]>>

CallOK(t) ==
  settled[t] /\ Alone(called[t]) =>
    /\ called[t] \in Method /\ BodyOf[called[t]] # Null /\ Settled(called[t])
    /\ Stage(t, called[t]) /\ Plain(t, called[t])

CallInv == \A t \in Thread : st[t] # "idle" => CallOK(t)

\* The traces a call leaves when its own stub has run.
LEMMA OwnTraces ==
  ASSUME NEW m \in Method, NEW s \in Stub, Own(m, s)
  PROVE  /\ s \in WrapStub => <<s, BodyOf[m]>> \in Intercepted(m)
         /\ s \notin WrapStub => <<s>> \in Intercepted(m)
<1>1. PICK j \in 1 .. Len(Plan) : Plan[j].method = m /\ Plan[j].stub = s
  BY DEF Own
<1>2. QED
  BY <1>1 DEF Intercepted

\* Installing hooks of other methods disturbs no settled call.
LEMMA InstallKeepsCalls ==
  ASSUME TypeInv, Install, NEW m \in Method, BodyOf[m] # Null, Settled(m)
  PROVE  /\ Settled(m)' /\ code'[BodyOf[m]] = code[BodyOf[m]] /\ slot'[m] = slot[m]
         /\ \A i : Good(i, BodyOf[m]) => Good(i, BodyOf[m])'
<1> USE DEF TypeInv, TypeOK, InstallerTypeOK
<1>0. BodyOf[m] \in Body /\ k \in Nat /\ Len(Plan) \in Nat
  BY BodiesAssumption, PlanAssumption
<1>1. Settled(m)'
  BY <1>0, HookByHook DEF Settled
<1>2. code'[BodyOf[m]] = code[BodyOf[m]]
  <2>1. CASE BeginPatch \/ EndPatch
    <3>1. Target = BodyOf[Current.method] /\ k <= Len(Plan)
      BY <2>1 DEF BeginPatch, EndPatch, At, Frontier, Target, BodyAt
    <3>2. Target # BodyOf[m]
      BY <1>0, <3>1 DEF Settled, Current
    <3>3. QED
      BY <1>0, <2>1, <3>2 DEF BeginPatch, EndPatch
  <2>2. CASE ~BeginPatch /\ ~EndPatch
    BY <2>2 DEF Install, ReadOriginal, WriteMethodPtr, WriteMethodPtrFails, BuildTrampoline,
                CannotCover, NoPage, PageFull, BeginPatchFails, Publish
  <2>3. QED
    BY <2>1, <2>2
<1>3. \A i : Good(i, BodyOf[m]) => Good(i, BodyOf[m])'
  BY <1>0, GoodStays DEF Next
<1>4. slot'[m] = slot[m]
  <2>1. CASE WriteMethodPtr
    <3>1. k <= Len(Plan) /\ Current.method # m
      BY <1>0, <2>1 DEF WriteMethodPtr, At, Settled, Current
    <3>2. QED
      BY <2>1, <3>1 DEF WriteMethodPtr
  <2>2. CASE ~WriteMethodPtr
    BY <2>2 DEF Install, ReadOriginal, WriteMethodPtrFails, BuildTrampoline, CannotCover, NoPage,
                PageFull, BeginPatch, BeginPatchFails, EndPatch, Publish
  <2>3. QED
    BY <2>1, <2>2
<1>5. QED
  BY <1>1, <1>2, <1>3, <1>4

LEMMA InstallCallInv ==
  ASSUME TypeInv, CallInv, Install
  PROVE  CallInv'
<1>1. UNCHANGED threads
  BY InstallKeepsThreads
<1>2. ASSUME NEW t \in Thread, st[t] # "idle", settled[t], Alone(called[t]) PROVE CallOK(t)'
  <2>1. PICK m \in Method :
          m = called[t] /\ BodyOf[m] # Null /\ Settled(m) /\ Stage(t, m) /\ Plain(t, m)
    BY <1>2 DEF CallInv, CallOK
  <2>2. /\ Settled(m)' /\ code'[BodyOf[m]] = code[BodyOf[m]] /\ slot'[m] = slot[m]
        /\ \A i : Good(i, BodyOf[m]) => Good(i, BodyOf[m])'
    BY <2>1, InstallKeepsCalls
  <2>3. /\ st'[t] = st[t] /\ ran'[t] = ran[t] /\ at'[t] = at[t] /\ called'[t] = called[t]
        /\ settled'[t] = settled[t]
    BY <1>1 DEF threads
  <2>4. Stage(t, m)'
    BY <2>1, <2>2, <2>3 DEF Stage
  <2>5. Plain(t, m)'
    BY <2>1, <2>2, <2>3 DEF Plain, EndedAs
  <2>6. QED
    BY <2>1, <2>2, <2>3, <2>4, <2>5 DEF CallOK
<1>3. \A t \in Thread : st'[t] # "idle" => CallOK(t)'
  BY <1>1, <1>2 DEF CallOK, threads
<1>4. QED
  BY <1>3 DEF CallInv

LEMMA ThreadsApart ==
  ASSUME TypeInv, NEW t \in Thread, CallMethod(t) \/ Execute(t) \/ Return(t),
         NEW u \in Thread, u # t
  PROVE  /\ st'[u] = st[u] /\ at'[u] = at[u] /\ called'[u] = called[u]
         /\ ran'[u] = ran[u] /\ settled'[u] = settled[u]
  BY DEF TypeInv, TypeOK, ThreadTypeOK, CallMethod, Return, Execute, InBody, InStub, InTrampoline,
         RunBody, PauseInPrologue, LeavePrologue, LosePrologue, JumpToStub, ExecuteTornPatch,
         RunReplacement, RunWrapper, OverflowStack, RunTrampoline, RunCopiedJump, RunMisplaced,
         Goto, Finish

LEMMA ExecuteKeepsCall ==
  ASSUME TypeInv, NEW t \in Thread, Execute(t)
  PROVE  settled' = settled /\ called' = called /\ st[t] # "idle"
  BY DEF Execute, InBody, InStub, InTrampoline,
         RunBody, PauseInPrologue, LeavePrologue, LosePrologue, JumpToStub, ExecuteTornPatch,
         RunReplacement, RunWrapper, OverflowStack, RunTrampoline, RunCopiedJump, RunMisplaced,
         Goto, Finish, Executes

\* A call that begins on a settled method goes to its body or its stub.
LEMMA CallStage ==
  ASSUME TypeInv, ProgressInv, NEW t \in Thread, CallMethod(t)
  PROVE  CallOK(t)'
<1> USE DEF TypeInv, TypeOK, InstallerTypeOK, ThreadTypeOK
<1>1. PICK m \in Method :
        /\ BodyOf[m] # Null
        /\ called' = [called EXCEPT ![t] = m]
        /\ settled' = [settled EXCEPT ![t] = Settled(m)]
        /\ \E a \in {BodyAt(BodyOf[m]), slot[m]} : at' = [at EXCEPT ![t] = a]
  BY DEF CallMethod
<1>2. /\ called'[t] = m /\ settled'[t] = Settled(m)
      /\ at'[t] \in {BodyAt(BodyOf[m]), slot[m]}
      /\ st'[t] = "running" /\ ran'[t] = <<>> /\ UNCHANGED installer
  BY <1>1 DEF CallMethod
<1>3. SUFFICES ASSUME Settled(m), Alone(m) PROVE CallOK(t)'
  BY <1>2 DEF CallOK
<1>4. slot[m] = BodyAt(BodyOf[m]) \/ \E s \in Stub : Own(m, s) /\ slot[m] = StubAt(s)
  BY <1>1, <1>3, SettledOutcome
<1>5. at'[t] = BodyAt(BodyOf[m]) \/ \E s \in Stub : Own(m, s) /\ at'[t] = StubAt(s)
  BY <1>2, <1>4
<1>6. Stage(t, m)'
  BY <1>2, <1>5 DEF Stage
<1>7. Settled(m)'
  BY <1>2, <1>3 DEF Settled, installer
<1>8. Plain(t, m)'
  <2>1. ASSUME EndedAs(m)' = "absent" PROVE slot[m] = InitialPtr(m)
    BY <1>2, <2>1 DEF EndedAs, installer
  <2>2. QED
    BY <1>1, <1>2, <2>1, InitialPtrType DEF Plain
<1>9. QED
  BY <1>1, <1>2, <1>6, <1>7, <1>8 DEF CallOK

LEMMA AppendToOne ==
  ASSUME NEW s, NEW c
  PROVE  Append(<<s>>, c) = <<s, c>>
<1> DEFINE S == {s, c}
<1>1. <<s>> \in Seq(S) /\ <<s, c>> \in Seq(S)
  OBVIOUS
<1>2. Len(<<s>>) = 1 /\ <<s>>[1] = s
  OBVIOUS
<1>3. Append(<<s>>, c) \in Seq(S) /\ Len(Append(<<s>>, c)) = 2
  BY <1>1, <1>2
<1>4. Append(<<s>>, c)[1] = s /\ Append(<<s>>, c)[2] = c
  BY <1>1, <1>2
<1>5. Len(<<s, c>>) = 2 /\ <<s, c>>[1] = s /\ <<s, c>>[2] = c
  OBVIOUS
<1> DEFINE p == Append(<<s>>, c)
           q == <<s, c>>
<1>6. p \in Seq(S) /\ q \in Seq(S) /\ Len(p) = Len(q) /\ \A i \in 1 .. Len(p) : p[i] = q[i]
  BY <1>1, <1>3, <1>4, <1>5
<1> HIDE DEF p, q
<1>7. p = q
  BY <1>6, SeqEqual
<1>8. QED
  BY <1>7 DEF p, q

\* A settled call that goes on takes none of the steps that go wrong.
LEMMA ExecuteStage ==
  ASSUME TypeInv, ProgressInv, NEW t \in Thread, Execute(t),
         NEW m \in Method, BodyOf[m] # Null, Alone(m), Settled(m), Stage(t, m)
  PROVE  Stage(t, m)'
<1> USE DEF TypeInv, TypeOK, InstallerTypeOK, ThreadTypeOK
<1> DEFINE b == BodyOf[m]
<1>0. UNCHANGED installer
  BY ThreadTypeInv
<1>1. /\ b \in Body
      /\ code[b] = NoPatch \/ (code[b] \in Stub /\ Own(m, code[b]))
      /\ \A s \in WrapStub : Own(m, s) => Leads(m, s)
  BY SettledOutcome
<1>2. code[b] # Torn /\ NoPatch \notin Stub /\ WrapStub \subseteq Stub /\ Depth \in Nat \ {0}
  BY <1>1, SetsAssumption
<1>g. /\ code' = code
      /\ \A i : Good(i, b) => Good(i, b)'
  BY <1>0 DEF installer, Good, PatchSize
<1>a. /\ \A s, c : BodyAt(c) # StubAt(s)
      /\ \A s, i : StubAt(s) # TrampAt(i)
      /\ \A i, c : BodyAt(c) # TrampAt(i)
      /\ \A c, d : BodyAt(c) = BodyAt(d) => c = d
      /\ \A r, s : StubAt(r) = StubAt(s) => r = s
      /\ \A i, j : TrampAt(i) = TrampAt(j) => i = j
  BY DEF BodyAt, StubAt, TrampAt
<1>w. ASSUME Wrapped(m, ran[t]) PROVE Append(ran[t], b) \in Intercepted(m)
  <2>1. PICK s \in WrapStub : Own(m, s) /\ ran[t] = <<s>>
    BY <1>w DEF Wrapped
  <2>2. Append(ran[t], b) = <<s, b>>
    <3>1. Append(<<s>>, b) = <<s, b>>
      BY AppendToOne
    <3>2. QED
      BY <2>1, <3>1
  <2>3. s \in Stub
    BY <1>2
  <2>4. <<s, b>> \in Intercepted(m)
    BY <2>1, <2>3, OwnTraces
  <2>5. QED
    BY <2>2, <2>4
<1>3. CASE InBody(t)
  <2>1. PICK c \in Body :
          \/ RunBody(t, c) \/ PauseInPrologue(t, c) \/ LeavePrologue(t, c)
          \/ LosePrologue(t, c) \/ JumpToStub(t, c) \/ ExecuteTornPatch(t, c)
    BY <1>3 DEF InBody
  <2>2. at[t] = BodyAt(c) /\ st[t] \in {"running", "inside"}
    BY <2>1 DEF RunBody, PauseInPrologue, LeavePrologue, LosePrologue, JumpToStub,
                ExecuteTornPatch, Executes
  <2>3. /\ c = b
        /\ ran[t] = <<>> \/ (Wrapped(m, ran[t]) /\ code[b] = NoPatch)
        /\ st[t] = "inside" => code[b] = NoPatch
    BY <1>a, <2>2 DEF Stage
  <2>4. CASE RunBody(t, c) \/ LeavePrologue(t, c)
    <3>1. code[b] = NoPatch /\ st'[t] = "done" /\ ran'[t] = Append(ran[t], b)
      BY <1>2, <2>3, <2>4 DEF RunBody, LeavePrologue, Finish
    <3>2. ran[t] = <<>> => ran'[t] = <<b>>
      BY <3>1
    <3>3. QED
      BY <1>g, <1>w, <2>3, <3>1, <3>2 DEF Stage, Intercepted
  <2>5. CASE PauseInPrologue(t, c)
    <3>1. /\ code[b] = NoPatch /\ st'[t] = "inside" /\ ran'[t] = ran[t] /\ at'[t] = BodyAt(b)
      BY <1>2, <2>2, <2>3, <2>5 DEF PauseInPrologue, Finish
    <3>2. QED
      BY <1>g, <2>3, <3>1 DEF Stage, Wrapped
  <2>6. CASE JumpToStub(t, c)
    <3>1. PICK s \in Stub : s = code[b] /\ Goto(t, StubAt(s))
      BY <1>2, <2>3, <2>6 DEF JumpToStub
    <3>2. Own(m, s) /\ ran[t] = <<>>
      BY <1>1, <1>2, <2>3, <3>1
    <3>3. st'[t] = "running" /\ ran'[t] = <<>> /\ at'[t] = StubAt(s)
      BY <2>6, <3>1, <3>2 DEF Goto, JumpToStub, Executes
    <3>4. QED
      BY <3>2, <3>3 DEF Stage
  <2>7. ~LosePrologue(t, c) /\ ~ExecuteTornPatch(t, c)
    BY <1>2, <2>3 DEF LosePrologue, ExecuteTornPatch
  <2>8. QED
    BY <2>1, <2>4, <2>5, <2>6, <2>7
<1>4. CASE InStub(t)
  <2>1. PICK s \in Stub : RunReplacement(t, s) \/ RunWrapper(t, s) \/ OverflowStack(t, s)
    BY <1>4 DEF InStub
  <2>2. st[t] = "running" /\ at[t] = StubAt(s)
    BY <2>1 DEF RunReplacement, RunWrapper, OverflowStack, Executes
  <2>3. Own(m, s) /\ ran[t] = <<>> /\ Len(ran[t]) = 0
    BY <1>a, <2>2 DEF Stage
  <2>4. CASE RunReplacement(t, s)
    <3>1. st'[t] = "done" /\ ran'[t] = <<s>> /\ s \notin WrapStub
      BY <2>3, <2>4 DEF RunReplacement, Finish
    <3>2. ran'[t] \in Intercepted(m)
      BY <2>3, <3>1, OwnTraces
    <3>3. QED
      BY <3>1, <3>2 DEF Stage, Intercepted
  <2>5. CASE RunWrapper(t, s)
    <3>1. s \in WrapStub /\ Leads(m, s)
      BY <1>1, <2>3, <2>5 DEF RunWrapper
    <3>2. orig[s] # Null
      <4>1. \A i \in Nat \ {0} : TrampAt(i) # Null
        BY TrampAtDiffers
      <4>2. BodyAt(b) # Null
        BY <1>1, NullAssumption DEF BodyAt, Addr
      <4>3. QED
        BY <3>1, <4>1, <4>2 DEF Leads
    <3>3. st'[t] = "running" /\ at'[t] = orig[s] /\ ran'[t] = <<s>>
      BY <2>2, <2>3, <2>5, <3>2 DEF RunWrapper
    <3>4. Wrapped(m, ran[t])'
      BY <2>3, <3>1, <3>3 DEF Wrapped
    <3>5. CASE code[b] = NoPatch /\ orig[s] = BodyAt(b)
      BY <1>g, <3>3, <3>4, <3>5 DEF Stage
    <3>6. CASE \E i \in Nat \ {0} : orig[s] = TrampAt(i) /\ Good(i, b)
      BY <1>g, <3>3, <3>4, <3>6 DEF Stage
    <3>7. QED
      BY <3>1, <3>5, <3>6 DEF Leads
  <2>6. ~OverflowStack(t, s)
    BY <1>2, <2>3 DEF OverflowStack
  <2>7. QED
    BY <2>1, <2>4, <2>5, <2>6
<1>5. CASE InTrampoline(t)
  <2>1. PICK i \in 1 .. Len(tramp) :
          RunTrampoline(t, i) \/ RunCopiedJump(t, i) \/ RunMisplaced(t, i)
    BY <1>5 DEF InTrampoline
  <2>2. st[t] = "running" /\ at[t] = TrampAt(i)
    BY <2>1 DEF RunTrampoline, RunCopiedJump, RunMisplaced, Executes
  <2>3. Wrapped(m, ran[t]) /\ Good(i, b)
    BY <1>a, <2>2 DEF Stage
  <2>4. Faithful(tramp[i]) /\ tramp[i].holds = NoPatch /\ tramp[i].body = b
    BY <2>3 DEF Faithful, Good, Alone
  <2>5. RunTrampoline(t, i)
    BY <1>2, <2>1, <2>4 DEF RunCopiedJump, RunMisplaced
  <2>6. st'[t] = "done" /\ ran'[t] = Append(ran[t], b)
    BY <2>4, <2>5 DEF RunTrampoline, Finish
  <2>7. QED
    BY <1>w, <2>3, <2>6 DEF Stage, Intercepted
<1>6. QED
  BY <1>3, <1>4, <1>5 DEF Execute

LEMMA ExecutePlain ==
  ASSUME TypeInv, NEW t \in Thread, Execute(t),
         NEW m \in Method, BodyOf[m] # Null, Plain(t, m)
  PROVE  Plain(t, m)'
<1> USE DEF TypeInv, TypeOK, InstallerTypeOK, ThreadTypeOK
<1> DEFINE b == BodyOf[m]
<1>0. UNCHANGED installer
  BY ThreadTypeInv
<1>1. SUFFICES ASSUME EndedAs(m) = "absent" PROVE Plain(t, m)'
  BY <1>0 DEF Plain, EndedAs, installer
<1>2. code[b] = NoPatch /\ b \in Body /\ NoPatch \notin Stub /\ NoPatch # Torn
  BY <1>1, BodiesAssumption, SetsAssumption DEF EndedAs
<1>3. /\ \A c : BodyAt(c) = BodyAt(b) => c = b
      /\ \A s : StubAt(s) # BodyAt(b)
      /\ \A i : TrampAt(i) # BodyAt(b)
  BY DEF BodyAt, StubAt, TrampAt
<1>4. st[t] \in {"running", "inside"} /\ ran[t] = <<>> /\ at[t] = BodyAt(b)
  BY <1>1 DEF Plain, Execute, InBody, InStub, InTrampoline, RunBody, PauseInPrologue,
         LeavePrologue, LosePrologue, JumpToStub, ExecuteTornPatch, RunReplacement, RunWrapper,
         OverflowStack, RunTrampoline, RunCopiedJump, RunMisplaced, Executes
<1>5. ~InStub(t) /\ ~InTrampoline(t)
  BY <1>3, <1>4 DEF InStub, InTrampoline, RunReplacement, RunWrapper, OverflowStack,
                    RunTrampoline, RunCopiedJump, RunMisplaced, Executes
<1>6. RunBody(t, b) \/ PauseInPrologue(t, b) \/ LeavePrologue(t, b)
  BY <1>2, <1>3, <1>4, <1>5 DEF Execute, InBody, RunBody, PauseInPrologue, LeavePrologue,
                    LosePrologue, JumpToStub, ExecuteTornPatch, Executes
<1>7. CASE PauseInPrologue(t, b)
  BY <1>4, <1>7 DEF PauseInPrologue, Finish, Plain
<1>8. CASE RunBody(t, b) \/ LeavePrologue(t, b)
  <2>1. st'[t] = "done" /\ ran'[t] = <<b>>
    BY <1>4, <1>8 DEF RunBody, LeavePrologue, Finish
  <2>2. QED
    BY <2>1 DEF Plain
<1>9. QED
  BY <1>6, <1>7, <1>8

LEMMA ThreadCallInv ==
  ASSUME TypeInv, ProgressInv, CallInv, NEW t \in Thread, CallMethod(t) \/ Execute(t) \/ Return(t)
  PROVE  CallInv'
<1>0. UNCHANGED installer
  BY ThreadTypeInv
<1>1. ASSUME NEW u \in Thread, u # t, st'[u] # "idle" PROVE CallOK(u)'
  <2>1. /\ st'[u] = st[u] /\ at'[u] = at[u] /\ called'[u] = called[u]
        /\ ran'[u] = ran[u] /\ settled'[u] = settled[u]
    BY <1>1, ThreadsApart
  <2>2. CallOK(u)
    BY <1>1, <2>1 DEF CallInv
  <2>3. QED
    BY <1>0, <2>1, <2>2 DEF CallOK, Stage, Plain, EndedAs, Settled, Good, PatchSize, installer
<1>2. ASSUME st'[t] # "idle" PROVE CallOK(t)'
  <2>1. CASE CallMethod(t)
    BY <2>1, CallStage
  <2>2. CASE Execute(t)
    <3>1. settled' = settled /\ called' = called /\ st[t] # "idle"
      BY <2>2, ExecuteKeepsCall
    <3>2. SUFFICES ASSUME settled[t], Alone(called[t]) PROVE CallOK(t)'
      BY <3>1 DEF CallOK
    <3>3. PICK m \in Method :
            m = called[t] /\ BodyOf[m] # Null /\ Settled(m) /\ Stage(t, m) /\ Plain(t, m)
      BY <3>1, <3>2 DEF CallInv, CallOK
    <3>4. Stage(t, m)' /\ Plain(t, m)'
      BY <2>2, <3>2, <3>3, ExecuteStage, ExecutePlain
    <3>5. Settled(m)'
      BY <1>0, <3>3 DEF Settled, installer
    <3>6. QED
      BY <3>1, <3>3, <3>4, <3>5 DEF CallOK
  <2>3. CASE Return(t)
    BY <1>2, <2>3 DEF Return, TypeInv, TypeOK, ThreadTypeOK
  <2>4. QED
    BY <2>1, <2>2, <2>3
<1>3. QED
  BY <1>1, <1>2 DEF CallInv

\* The calls of idle threads are over.
IdleInv == \A t \in Thread : st[t] = "idle" => ~settled[t]

LEMMA NextIdleInv == TypeInv /\ IdleInv /\ [Next]_vars => IdleInv'
<1> SUFFICES ASSUME TypeInv, IdleInv, [Next]_vars PROVE IdleInv'
  OBVIOUS
<1>1. CASE Install
  BY <1>1, InstallKeepsThreads DEF IdleInv, threads
<1>2. ASSUME NEW t \in Thread, CallMethod(t) \/ Execute(t) \/ Return(t) PROVE IdleInv'
  <2>1. \A u \in Thread : u # t => st'[u] = st[u] /\ settled'[u] = settled[u]
    BY <1>2, ThreadsApart
  <2>2. st'[t] = "idle" => ~settled'[t]
    <3>1. CASE CallMethod(t)
      BY <3>1 DEF CallMethod, TypeInv, TypeOK, ThreadTypeOK
    <3>2. CASE Return(t)
      BY <3>2 DEF Return, TypeInv, TypeOK, ThreadTypeOK
    <3>3. CASE Execute(t)
      BY <3>3 DEF TypeInv, TypeOK, ThreadTypeOK, Execute, InBody, InStub, InTrampoline,
         RunBody, PauseInPrologue, LeavePrologue, LosePrologue, JumpToStub, ExecuteTornPatch,
         RunReplacement, RunWrapper, OverflowStack, RunTrampoline, RunCopiedJump, RunMisplaced,
         Goto, Finish, Executes
    <3>4. QED
      BY <1>2, <3>1, <3>2, <3>3
  <2>3. QED
    BY <2>1, <2>2 DEF IdleInv
<1>3. CASE UNCHANGED vars
  BY <1>3 DEF IdleInv, vars
<1>4. QED
  BY <1>1, <1>2, <1>3 DEF Next

LEMMA NextCallInv == TypeInv /\ ProgressInv /\ CallInv /\ [Next]_vars => CallInv'
<1> SUFFICES ASSUME TypeInv, ProgressInv, CallInv, [Next]_vars PROVE CallInv'
  OBVIOUS
<1>1. CASE Install
  BY <1>1, InstallCallInv
<1>2. CASE \E t \in Thread : CallMethod(t) \/ Execute(t) \/ Return(t)
  BY <1>2, ThreadCallInv
<1>3. CASE UNCHANGED vars
  BY <1>3 DEF CallInv, CallOK, Stage, Plain, EndedAs, Settled, Good, PatchSize, vars
<1>4. QED
  BY <1>1, <1>2, <1>3 DEF Next

(***************************************************************************)
(* Intercept.  The invariants above are those of the refinement: how far   *)
(* the hook of a method is, where its settled calls are, and that a thread *)
(* without a call has no trace of one.                                     *)
(***************************************************************************)
PromiseInv == TypeInv /\ ProgressInv /\ CallInv /\ IdleInv

LEMMA PromiseInvariant == Spec => []PromiseInv
<1>1. Init => CallInv /\ IdleInv
  BY DEF Init, CallInv, IdleInv
<1>2. QED
  BY <1>1, InitTypeInv, NextTypeInv, InitProgressInv, NextProgressInv, NextIdleInv, NextCallInv,
     PTL DEF Spec, PromiseInv

LEMMA LoneMethods ==
  ASSUME NEW m \in Lone
  PROVE  /\ m \in Method /\ BodyOf[m] # Null /\ BodyOf[m] \in Body /\ Alone(m)
         /\ \A i \in 1 .. Len(Plan) : BodyOf[Plan[i].method] = BodyOf[m] => Plan[i].method = m
         /\ InitialPtr(m) = BodyAt(BodyOf[m])
  BY BodiesAssumption DEF Lone, Alone, InitialPtr

\* A method has no hook in Plan, or one, at j.
LEMMA HookStates ==
  ASSUME TypeInv, NEW m \in Lone
  PROVE  /\ Unplanned(m) => HookState(m) = EndedAs(m)
         /\ \A j \in 1 .. Len(Plan) : Plan[j].method = m =>
              /\ OwnHook(j)
              /\ j > k \/ (j = k /\ ipc = "read") => HookState(m) = "waiting"
              /\ j = k /\ ipc # "read" => HookState(m) = "changing"
              /\ j < k => HookState(m) = EndedAs(m)
<1>0. k \in Nat /\ Len(Plan) \in Nat /\ k >= 1
  BY PlanAssumption DEF TypeInv, TypeOK, InstallerTypeOK
<1>1. ASSUME Unplanned(m) PROVE HookState(m) = EndedAs(m)
  <2>1. \A i \in 1 .. Len(Plan) : Plan[i].method # m
    BY <1>1 DEF Unplanned
  <2>2. k <= Len(Plan) => Current.method # m
    BY <1>0, <2>1 DEF Current
  <2>3. QED
    BY <2>1, <2>2 DEF HookState
<1>2. ASSUME NEW j \in 1 .. Len(Plan), Plan[j].method = m
      PROVE  /\ OwnHook(j)
             /\ j > k \/ (j = k /\ ipc = "read") => HookState(m) = "waiting"
             /\ j = k /\ ipc # "read" => HookState(m) = "changing"
             /\ j < k => HookState(m) = EndedAs(m)
  <2>1. \A i \in 1 .. Len(Plan) : Plan[i].method = m => i = j
    BY <1>2, PlanAssumption
  <2>2. k <= Len(Plan) => (Current.method = m <=> k = j)
    BY <1>0, <1>2, <2>1 DEF Current
  <2>3. OwnHook(j)
    BY <1>2, LoneMethods DEF OwnHook
  <2>4. QED
    BY <1>0, <1>2, <2>1, <2>2, <2>3 DEF HookState
<1>3. QED
  BY <1>1, <1>2

StatesKnown ==
  \A n \in Lone :
    /\ Unplanned(n) => HookState(n) = EndedAs(n)
    /\ \A j \in 1 .. Len(Plan) : Plan[j].method = n =>
         /\ j > k \/ (j = k /\ ipc = "read") => HookState(n) = "waiting"
         /\ j = k /\ ipc # "read" => HookState(n) = "changing"
         /\ j < k => HookState(n) = EndedAs(n)
LEMMA StatesAreKnown == TypeInv => StatesKnown
  BY HookStates DEF StatesKnown

LEMMA PlannedOrNot ==
  ASSUME NEW m \in Lone, ~Unplanned(m)
  PROVE  \E j \in 1 .. Len(Plan) : Plan[j].method = m
  BY LoneMethods DEF Unplanned

LEMMA PromiseInit == Init => Promise!InterceptInit
<1> SUFFICES ASSUME Init PROVE Promise!InterceptInit
  OBVIOUS
<1>1. TypeInv /\ k = 1 /\ ipc = "read" /\ Len(Plan) \in Nat
  BY InitTypeInv, PlanAssumption DEF Init
<1>2. ASSUME NEW m \in Lone
      PROVE  HookState(m) = IF m \in Lone \cap PlannedMethods THEN "waiting" ELSE "absent"
  <2>1. CASE \E j \in 1 .. Len(Plan) : Plan[j].method = m
    <3>1. PICK j \in 1 .. Len(Plan) : Plan[j].method = m
      BY <2>1
    <3>2. j > k \/ (j = k /\ ipc = "read")
      BY <1>1
    <3>3. QED
      BY <1>1, <3>1, <3>2, HookStates DEF PlannedMethods
  <2>2. CASE ~ \E j \in 1 .. Len(Plan) : Plan[j].method = m
    <3>1. HookState(m) = EndedAs(m)
      BY <1>1, <2>2, PlannedOrNot, HookStates
    <3>2. EndedAs(m) = "absent"
      BY LoneMethods DEF EndedAs, Init
    <3>3. QED
      BY <2>2, <3>1, <3>2 DEF PlannedMethods
  <2>3. QED
    BY <2>1, <2>2
<1>3. \A t \in Thread : ~Watched(t) /\ Outcome(t) = "none"
  BY DEF Init, Watched, Outcome
<1>4. QED
  BY <1>2, <1>3 DEF Promise!InterceptInit

LEMMA SettledHasEnded ==
  ASSUME TypeInv, NEW m \in Lone, Settled(m)
  PROVE  HookState(m) = EndedAs(m)
<1>1. CASE Unplanned(m)
  BY <1>1, HookStates
<1>2. CASE ~Unplanned(m)
  <2>1. PICK j \in 1 .. Len(Plan) : Plan[j].method = m
    BY <1>2, PlannedOrNot
  <2>2. j < k
    BY <2>1, PlanAssumption DEF Settled, TypeInv, TypeOK, InstallerTypeOK
  <2>3. QED
    BY <2>1, <2>2, HookStates
<1>3. QED
  BY <1>1, <1>2
-----------------------------------------------------------------------------
\* A step of the installer is one of the hook k, and no other's state changes.
LEMMA InstallChangesOne ==
  ASSUME TypeInv, Install, NEW m \in Lone,
         \A j \in 1 .. Len(Plan) : Plan[j].method = m => j # k
  PROVE  HookState(m)' = HookState(m)
<1>0. /\ k \in Nat /\ Len(Plan) \in Nat /\ TypeInv'
      /\ k' = k \/ (k' = k + 1 /\ ipc' = "read")
  BY PlanAssumption, NextTypeInv, HookByHook DEF TypeInv, TypeOK, InstallerTypeOK, Next
<1>s. StatesKnown'
  BY <1>0, StatesAreKnown, PTL
<1>1. CASE Unplanned(m)
  <2>1. EndedAs(m)' = EndedAs(m)
    BY <1>1, LoneMethods, UnplannedKept DEF EndedAs
  <2>2. HookState(m) = EndedAs(m) /\ HookState(m)' = EndedAs(m)'
    BY <1>0, <1>1, <1>s, HookStates DEF StatesKnown
  <2>3. QED
    BY <2>1, <2>2
<1>2. CASE ~Unplanned(m)
  <2>1. PICK j \in 1 .. Len(Plan) : Plan[j].method = m
    BY <1>2, PlannedOrNot
  <2>2. OwnHook(j) /\ j # k
    BY <2>1, HookStates
  <2>3. EndedAs(m)' = EndedAs(m)
    BY <2>1, <2>2, OtherHooksKept DEF EndedAs
  <2>4. CASE j > k
    BY <1>0, <1>s, <2>1, <2>4, HookStates DEF StatesKnown
  <2>5. CASE j < k
    BY <1>0, <1>s, <2>1, <2>3, <2>5, HookStates DEF StatesKnown
  <2>6. QED
    BY <1>0, <2>2, <2>4, <2>5
<1>3. QED
  BY <1>1, <1>2
LEMMA OthersDoNotChange ==
  ASSUME TypeInv, NEW n \in Lone, \A i \in 1 .. Len(Plan) : Plan[i].method = n => i # k
  PROVE  HookState(n) # "changing"
<1>1. StatesKnown /\ k \in Nat /\ Len(Plan) \in Nat
  BY StatesAreKnown, PlanAssumption DEF TypeInv, TypeOK, InstallerTypeOK
<1>2. EndedAs(n) # "changing"
  BY DEF EndedAs
<1>3. CASE Unplanned(n)
  BY <1>1, <1>2, <1>3 DEF StatesKnown
<1>4. CASE ~Unplanned(n)
  <2>1. PICK j \in 1 .. Len(Plan) : Plan[j].method = n
    BY <1>4, PlannedOrNot
  <2>2. j < k \/ j > k
    BY <1>1, <2>1
  <2>3. QED
    BY <1>1, <1>2, <2>1, <2>2 DEF StatesKnown
<1>5. QED
  BY <1>3, <1>4

\* The game's code is none of the library's.
LEMMA LoneTraceIsNot ==
  ASSUME NEW m \in Lone
  PROVE  <<BodyOf[m]>> \notin Intercepted(m)
<1>1. SUFFICES ASSUME NEW i \in 1 .. Len(Plan),
                      <<BodyOf[m]>> = IF Plan[i].stub \in WrapStub THEN <<Plan[i].stub, BodyOf[m]>>
                                                                   ELSE <<Plan[i].stub>>
               PROVE  FALSE
  BY DEF Intercepted
<1>2. BodyOf[m] \in Body /\ Plan[i].stub \in Stub
  BY LoneMethods, PlanElement
<1>3. CASE Plan[i].stub \in WrapStub
  <2>1. Len(<<BodyOf[m]>>) = 1 /\ Len(<<Plan[i].stub, BodyOf[m]>>) = 2
    OBVIOUS
  <2>2. QED
    BY <1>1, <1>3, <2>1
<1>4. CASE Plan[i].stub \notin WrapStub
  BY <1>1, <1>2, <1>4, SetsAssumption
<1>5. QED
  BY <1>3, <1>4

LEMMA EndedKinds ==
  ASSUME NEW m
  PROVE  /\ EndedAs(m) \in {"absent", "slot", "patched"}
         /\ DOMAIN Promise!Allowed = {"absent", "slot", "patched"}
         /\ Promise!Allowed["absent"] = {"original"}
         /\ Promise!Allowed["slot"] = {"original", "intercepted"}
         /\ Promise!Allowed["patched"] = {"intercepted"}
  BY DEF EndedAs, Promise!Allowed

\* A step of the hook of a method: it begins, ends, or goes on.
LEMMA InstallChangesIts ==
  ASSUME TypeInv, Install, NEW m \in Lone, NEW j \in 1 .. Len(Plan), Plan[j].method = m, j = k
  PROVE  \/ HookState(m)' = HookState(m)
         \/ HookState(m) = "waiting" /\ HookState(m)' = "changing"
         \/ HookState(m) = "changing" /\ HookState(m)' \in DOMAIN Promise!Allowed
<1>0. k \in Nat /\ TypeInv'
  BY NextTypeInv DEF TypeInv, TypeOK, InstallerTypeOK, Next
<1>s. StatesKnown /\ StatesKnown'
  BY <1>0, StatesAreKnown, PTL
<1>1. CASE Publish
  <2>1. k' = k + 1 /\ ipc # "read"
    BY <1>1 DEF Publish, At
  <2>2. HookState(m) = "changing" /\ HookState(m)' = EndedAs(m)'
    BY <1>0, <1>s, <2>1 DEF StatesKnown
  <2>3. EndedAs(m)' \in {"absent", "slot", "patched"}
    BY DEF EndedAs
  <2>4. QED
    BY <2>2, <2>3, EndedKinds
<1>2. CASE ~Publish
  <2>1. k' = k /\ ipc' # "read"
    BY <1>2 DEF Install, ReadOriginal, WriteMethodPtr, WriteMethodPtrFails, BuildTrampoline,
                CannotCover, NoPage, PageFull, BeginPatch, BeginPatchFails, EndPatch
  <2>2. HookState(m)' = "changing"
    BY <1>s, <2>1 DEF StatesKnown
  <2>3. HookState(m) \in {"waiting", "changing"}
    BY <1>s DEF StatesKnown
  <2>4. QED
    BY <2>2, <2>3
<1>3. QED
  BY <1>1, <1>2

LEMMA InstallRefines ==
  ASSUME TypeInv, Install
  PROVE  [Promise!InterceptNext]_(Promise!interceptVars)
<1> DEFINE hook == [m \in Lone |-> HookState(m)]
           call == [t \in Thread |-> IF Watched(t) THEN called[t] ELSE Null]
           outcome == [t \in Thread |-> Outcome(t)]
<1>1. UNCHANGED <<call, outcome>>
  <2>1. UNCHANGED threads
    BY InstallKeepsThreads
  <2>2. \A t \in Thread : /\ Watched(t)' = Watched(t) /\ called'[t] = called[t]
                          /\ Outcome(t)' = Outcome(t)
    BY <2>1 DEF threads, Watched, Outcome
  <2>3. QED
    BY <2>2
<1>2. CASE \E j \in 1 .. Len(Plan) : j = k /\ Plan[j].method \in Lone
  <2>1. PICK m \in Lone, j \in 1 .. Len(Plan) : Plan[j].method = m /\ j = k
    BY <1>2
  <2>2. \A n \in Lone : n # m => \A i \in 1 .. Len(Plan) : Plan[i].method = n => i # k
    BY <2>1
  <2>3. \A n \in Lone : n # m => HookState(n)' = HookState(n)
    BY <2>2, InstallChangesOne
  <2>4. hook' = [hook EXCEPT ![m] = HookState(m)']
    BY <2>3
  <2>5. CASE HookState(m)' = HookState(m)
    <3>1. UNCHANGED hook
      BY <2>3, <2>5
    <3>2. QED
      BY <1>1, <3>1 DEF Promise!interceptVars
  <2>6. CASE HookState(m) = "waiting" /\ HookState(m)' = "changing"
    <3>1. \A n \in Lone : hook[n] # "changing"
      <4>1. SUFFICES ASSUME NEW n \in Lone PROVE HookState(n) # "changing"
        OBVIOUS
      <4>2. CASE n = m
        BY <2>6, <4>2
      <4>3. CASE n # m
        BY <2>2, <4>3, OthersDoNotChange
      <4>4. QED
        BY <4>2, <4>3
    <3>2. Promise!BeginHook(m)
      BY <1>1, <2>4, <2>6, <3>1 DEF Promise!BeginHook
    <3>3. QED
      BY <3>2 DEF Promise!InterceptNext
  <2>7. CASE HookState(m) = "changing" /\ HookState(m)' \in DOMAIN Promise!Allowed
    <3>1. Promise!EndHook(m)
      BY <1>1, <2>4, <2>7 DEF Promise!EndHook
    <3>2. QED
      BY <3>1 DEF Promise!InterceptNext
  <2>8. QED
    BY <2>1, <2>5, <2>6, <2>7, InstallChangesIts
<1>3. CASE ~ \E j \in 1 .. Len(Plan) : j = k /\ Plan[j].method \in Lone
  <2>1. \A m \in Lone : HookState(m)' = HookState(m)
    BY <1>3, InstallChangesOne
  <2>2. UNCHANGED hook
    BY <2>1
  <2>3. QED
    BY <1>1, <2>2 DEF Promise!interceptVars
<1>4. QED
  BY <1>2, <1>3
-----------------------------------------------------------------------------
\* The threads.  Nothing of the installer's state changes.
LEMMA ThreadsChangeNoHook ==
  ASSUME UNCHANGED installer, NEW m
  PROVE  HookState(m)' = HookState(m) /\ EndedAs(m)' = EndedAs(m) /\ Settled(m)' = Settled(m)
  BY DEF installer, HookState, EndedAs, Settled, Current

LEMMA OthersUnseen ==
  ASSUME TypeInv, NEW t \in Thread, CallMethod(t) \/ Execute(t) \/ Return(t),
         NEW u \in Thread, u # t
  PROVE  Watched(u)' = Watched(u) /\ called'[u] = called[u] /\ Outcome(u)' = Outcome(u)
  BY ThreadsApart DEF Watched, Outcome

\* A call that ends has come to what its hook allows.
LEMMA EndsAsAllowed ==
  ASSUME TypeInv, NEW t \in Thread, Watched(t), st[t] = "done", CallOK(t)
  PROVE  Outcome(t) \in Promise!Allowed[HookState(called[t])]
<1> DEFINE m == called[t]
           b == BodyOf[m]
<1>1. m \in Lone /\ Alone(m) /\ Settled(m) /\ Stage(t, m) /\ Plain(t, m) /\ b \in Body
  BY LoneMethods DEF Watched, CallOK
<1>2. HookState(m) = EndedAs(m)
  BY <1>1, SettledHasEnded
<1>3. \/ ran[t] \in Intercepted(m)
      \/ ran[t] = <<b>> /\ code[b] = NoPatch
  BY <1>1 DEF Stage
<1>4. <<b>> \notin Intercepted(m)
  BY <1>1, LoneTraceIsNot
<1>5. CASE ran[t] \in Intercepted(m)
  <2>1. Outcome(t) = "intercepted"
    BY <1>4, <1>5 DEF Outcome
  <2>2. EndedAs(m) # "absent"
    BY <1>1, <1>4, <1>5 DEF Plain
  <2>3. QED
    BY <1>2, <2>1, <2>2, EndedKinds
<1>6. CASE ran[t] = <<b>> /\ code[b] = NoPatch
  <2>1. Outcome(t) = "original"
    BY <1>4, <1>6 DEF Outcome
  <2>2. EndedAs(m) # "patched"
    BY <1>6 DEF EndedAs
  <2>3. QED
    BY <1>2, <2>1, <2>2, EndedKinds
<1>7. QED
  BY <1>3, <1>5, <1>6

OutcomesAllowed ==
  \A t \in Thread : Watched(t) /\ st[t] = "done" =>
    Outcome(t) \in Promise!Allowed[HookState(called[t])]
LEMMA OutcomesAreAllowed == PromiseInv => OutcomesAllowed
  BY EndsAsAllowed DEF PromiseInv, CallInv, OutcomesAllowed

LEMMA ThreadRefines ==
  ASSUME PromiseInv, PromiseInv', NEW t \in Thread, CallMethod(t) \/ Execute(t) \/ Return(t)
  PROVE  [Promise!InterceptNext]_(Promise!interceptVars)
<1> USE DEF TypeInv, TypeOK, ThreadTypeOK
<1> DEFINE hook == [m \in Lone |-> HookState(m)]
           call == [u \in Thread |-> IF Watched(u) THEN called[u] ELSE Null]
           outcome == [u \in Thread |-> Outcome(u)]
<1>0. TypeInv /\ CallInv /\ IdleInv /\ CallInv' /\ TypeInv'
  BY DEF PromiseInv
<1>1. UNCHANGED hook /\ UNCHANGED installer
  BY <1>0, ThreadTypeInv, ThreadsChangeNoHook
<1>2. \A u \in Thread : u # t =>
        Watched(u)' = Watched(u) /\ called'[u] = called[u] /\ Outcome(u)' = Outcome(u)
  BY <1>0, OthersUnseen
<1>3. /\ call' = [call EXCEPT ![t] = IF Watched(t)' THEN called'[t] ELSE Null]
      /\ outcome' = [outcome EXCEPT ![t] = Outcome(t)']
  BY <1>2
<1>n. \A m \in Lone : m # Null
  BY LoneMethods, SetsAssumption
<1>4. CASE CallMethod(t)
  <2>1. st[t] = "idle" /\ st'[t] = "running"
    BY <1>0, <1>4 DEF CallMethod
  <2>2. ~Watched(t) /\ Outcome(t) = "none" /\ Outcome(t)' = "none"
    BY <1>0, <2>1 DEF IdleInv, Watched, Outcome
  <2>3. CASE ~Watched(t)'
    <3>1. UNCHANGED <<hook, call, outcome>>
      BY <1>1, <1>3, <2>2, <2>3
    <3>2. QED
      BY <3>1 DEF Promise!interceptVars
  <2>4. CASE Watched(t)'
    <3>1. PICK m \in Lone : m = called'[t]
      BY <2>4 DEF Watched
    <3>2. Settled(m)
      <4>1. CallOK(t)' /\ settled'[t] /\ Alone(m)
        BY <1>0, <2>1, <2>4, <3>1, LoneMethods DEF Watched, CallInv
      <4>2. Settled(m)'
        BY <3>1, <4>1 DEF CallOK, Settled
      <4>3. QED
        BY <1>1, <4>2, ThreadsChangeNoHook
    <3>3. HookState(m) \in DOMAIN Promise!Allowed
      BY <1>0, <3>2, SettledHasEnded, EndedKinds
    <3>4. call' = [call EXCEPT ![t] = m] /\ call[t] = Null /\ UNCHANGED outcome
      BY <1>3, <2>2, <2>4, <3>1
    <3>5. Promise!Call(t, m)
      BY <1>1, <3>1, <3>3, <3>4 DEF Promise!Call
    <3>6. QED
      BY <3>5 DEF Promise!InterceptNext
  <2>5. QED
    BY <2>3, <2>4
<1>5. CASE Execute(t)
  <2>1. settled' = settled /\ called' = called /\ st[t] \in {"running", "inside"}
    BY <1>0, <1>5, ExecuteKeepsCall DEF Execute, InBody, InStub, InTrampoline, RunBody,
       PauseInPrologue, LeavePrologue, LosePrologue, JumpToStub, ExecuteTornPatch, RunReplacement,
       RunWrapper, OverflowStack, RunTrampoline, RunCopiedJump, RunMisplaced, Executes
  <2>2. Watched(t)' = Watched(t) /\ Outcome(t) = "none" /\ UNCHANGED call
    BY <1>3, <2>1 DEF Watched, Outcome
  <2>3. CASE Outcome(t)' = "none"
    <3>1. UNCHANGED <<hook, call, outcome>>
      BY <1>1, <1>3, <2>2, <2>3
    <3>2. QED
      BY <3>1 DEF Promise!interceptVars
  <2>4. CASE Outcome(t)' # "none"
    <3>1. Watched(t)' /\ st'[t] \notin {"running", "inside"}
      BY <2>4 DEF Outcome
    <3>2. st'[t] = "done"
      <4>1. settled'[t] /\ called'[t] \in Lone
        BY <3>1 DEF Watched
      <4>2. Alone(called'[t])
        BY <4>1, LoneMethods
      <4>3. IdleInv'
        BY DEF PromiseInv
      <4>4. CallOK(t)'
        BY <1>0, <4>1, <4>3 DEF IdleInv, CallInv
      <4>5. Stage(t, called[t])'
        BY <4>1, <4>2, <4>4 DEF CallOK
      <4>6. QED
        BY <3>1, <4>5 DEF Stage
    <3>3. Outcome(t)' \in Promise!Allowed[HookState(called[t])]
      <4>1. OutcomesAllowed'
        BY OutcomesAreAllowed, PTL
      <4>2. HookState(called[t])' = HookState(called[t])
        BY <1>1, <2>1, ThreadsChangeNoHook
      <4>3. QED
        BY <2>1, <3>1, <3>2, <4>1, <4>2 DEF OutcomesAllowed
    <3>4. called[t] \in Lone /\ call[t] = called[t] /\ call[t] # Null
      BY <1>n, <2>2, <3>1 DEF Watched
    <3>5. Promise!Complete(t)
      BY <1>1, <1>3, <2>2, <3>3, <3>4 DEF Promise!Complete
    <3>6. QED
      BY <3>5 DEF Promise!InterceptNext
  <2>5. QED
    BY <2>3, <2>4
<1>6. CASE Return(t)
  <2>1. st[t] = "done" /\ st'[t] = "idle" /\ ~Watched(t)' /\ Outcome(t)' = "none"
    BY <1>0, <1>6 DEF Return, Watched, Outcome
  <2>2. CASE Outcome(t) = "none"
    <3>1. ~Watched(t)
      BY <2>1, <2>2 DEF Outcome
    <3>2. UNCHANGED <<hook, call, outcome>>
      BY <1>1, <1>3, <2>1, <2>2, <3>1
    <3>3. QED
      BY <3>2 DEF Promise!interceptVars
  <2>3. CASE Outcome(t) # "none"
    <3>1. Promise!Return(t)
      BY <1>1, <1>3, <2>1, <2>3 DEF Promise!Return
    <3>2. QED
      BY <3>1 DEF Promise!InterceptNext
  <2>4. QED
    BY <2>2, <2>3
<1>7. QED
  BY <1>4, <1>5, <1>6

\* While other methods are still being hooked, a call made once a method's own
\* hook is done runs no half written code, does not recurse into its stub, and
\* comes to what the way in which the hook ended allows, for every plan, every
\* length of prologue and every failure of VirtualProtect and of the
\* trampoline page (include/hook.hpp).
THEOREM HookImplementsIntercept == Spec => ImplementsIntercept
<1>1. PromiseInv /\ PromiseInv' /\ [Next]_vars => [Promise!InterceptNext]_(Promise!interceptVars)
  <2> SUFFICES ASSUME PromiseInv, PromiseInv', [Next]_vars
               PROVE  [Promise!InterceptNext]_(Promise!interceptVars)
    OBVIOUS
  <2>1. CASE Install
    BY <2>1, InstallRefines DEF PromiseInv
  <2>2. CASE \E t \in Thread : CallMethod(t) \/ Execute(t) \/ Return(t)
    BY <2>2, ThreadRefines
  <2>3. CASE UNCHANGED vars
    BY <2>3 DEF vars, Promise!interceptVars, HookState, EndedAs, Current, Watched, Outcome
  <2>4. QED
    BY <2>1, <2>2, <2>3 DEF Next
<1>2. QED
  BY <1>1, PromiseInit, PromiseInvariant, PTL DEF Spec, ImplementsIntercept, Promise!InterceptSpec
-----------------------------------------------------------------------------
(***************************************************************************)
(* The instruction decoder, for any code.  AfterPrefixes is a least place, *)
(* which exists when not all of the code is prefixes.  The lengths agree   *)
(* by the kinds of operands that operand_len tells apart, for which Kinds  *)
(* has what the architecture's tables say; the walk of install_inline then *)
(* stays at the ends of instructions.                                      *)
(***************************************************************************)
\* The least element of a set of numbers is the one that Min chooses.
LEMMA NatLess == IsWellFoundedOn({p \in Nat \X Nat : p[1] < p[2]}, Nat)
<1>1. OpToRel(<, Nat) = {p \in Nat \X Nat : p[1] < p[2]}
  BY Zenon DEF OpToRel
<1>2. QED
  BY <1>1, NatLessThanWellFounded, Zenon

LEMMA LeastNat ==
  ASSUME NEW T, T \subseteq Nat, T # {}
  PROVE  Min(T) \in T /\ \A y \in T : Min(T) <= y
<1> DEFINE R == {p \in Nat \X Nat : p[1] < p[2]}
<1>1. PICK x \in T : \A y \in T : <<y, x>> \notin R
  <2>1. IsWellFoundedOn(R, Nat)
    BY NatLess
  <2> HIDE DEF R
  <2>2. QED
    BY <2>1, WFMin, Zenon
<1>2. ASSUME NEW y \in T PROVE x <= y
  <2>1. ~(y < x)
    BY <1>1
  <2>2. x \in Nat /\ y \in Nat
    OBVIOUS
  <2>3. QED
    BY <2>1, <2>2
<1>3. QED
  BY <1>2 DEF Min

\* The prefixes end by the first byte that is none.
LEMMA PrefixesEnd ==
  ASSUME NEW p \in Seq(Byte), NEW i \in Nat \ {0}, NEW j \in i .. Len(p), p[j] \notin LegacyPrefix
  PROVE  /\ AfterPrefixes(p, i) \in i .. j
         /\ p[AfterPrefixes(p, i)] \notin LegacyPrefix
<1> DEFINE T == {n \in i .. Len(p) : p[n] \notin LegacyPrefix}
<1>1. T \subseteq Nat /\ j \in T
  OBVIOUS
<1> HIDE DEF T
<1>2. Min(T) \in T /\ Min(T) <= j
  BY <1>1, LeastNat
<1>3. AfterPrefixes(p, i) = Min(T)
  BY DEF AfterPrefixes, T
<1>4. QED
  BY <1>2, <1>3 DEF T

\* The fields of a ModRM byte.
LEMMA Fields ==
  ASSUME NEW b \in Byte
  PROVE  mod(b) \in 0 .. 3 /\ rm(b) \in 0 .. 7 /\ reg(b) \in 0 .. 7
  BY DEF Byte, mod, rm, reg

\* modrm_len reads an address as the architecture does.
LEMMA ModRMLength ==
  ASSUME NEW p \in Seq(Byte), NEW i \in 1 .. Len(p)
  PROVE  modrm_len(p, i) = Addressing(p, i) /\ Addressing(p, i) \in 1 .. 6
<1>1. mod(p[i]) \in 0 .. 3 /\ rm(p[i]) \in 0 .. 7
  BY Fields
<1>2. CASE mod(p[i]) = 0
  <2>1. CASE rm(p[i]) = 4
    BY <1>1, <1>2, <2>1 DEF modrm_len, Addressing
  <2>2. CASE rm(p[i]) # 4
    BY <1>1, <1>2, <2>2 DEF modrm_len, Addressing
  <2>3. QED
    BY <2>1, <2>2
<1>3. CASE mod(p[i]) = 1
  BY <1>1, <1>3 DEF modrm_len, Addressing
<1>4. CASE mod(p[i]) = 2
  BY <1>1, <1>4 DEF modrm_len, Addressing
<1>5. CASE mod(p[i]) = 3
  BY <1>1, <1>5 DEF modrm_len, Addressing
<1>6. QED
  BY <1>1, <1>2, <1>3, <1>4, <1>5


\* What the kinds that operand_len tells apart have behind the opcode, by the
\* architecture's tables.
Kinds(op, imm, z, w, addr32, test) ==
  /\ op \in NoOperand => imm = 0 /\ ~HasModRM(op)
  /\ op \in OneByte => imm = 1 /\ ~HasModRM(op)
  /\ op \in {\hC2, \hCA} => imm = 2 /\ ~HasModRM(op)
  /\ op = \hC8 => imm = 3 /\ ~HasModRM(op)
  /\ op \in FourBytes => imm = (IF op \in {\hE8, \hE9} THEN 4 ELSE z) /\ ~HasModRM(op)
  /\ op \in \hB8 .. \hBF => imm = (IF w THEN 8 ELSE z) /\ ~HasModRM(op)
  /\ op \in \hA0 .. \hA3 => imm = (IF addr32 THEN 4 ELSE 8) /\ ~HasModRM(op)
  /\ op \in PlainModRM => imm = 0 /\ HasModRM(op)
  /\ op \in ModRMByte => imm = 1 /\ HasModRM(op)
  /\ op \in ModRMFour => imm = z /\ HasModRM(op)
  /\ op = \hF6 => imm = (IF test THEN 1 ELSE 0) /\ HasModRM(op)
  /\ op = \hF7 => imm = (IF test THEN z ELSE 0) /\ HasModRM(op)

LEMMA KindsOfOpcodes ==
  ASSUME NEW op \in Defined, NEW z, NEW w \in BOOLEAN, NEW addr32 \in BOOLEAN,
         NEW test \in BOOLEAN
  PROVE  Kinds(op, Immediate(op, z, w, addr32, test), z, w, addr32, test)
<1> DEFINE imm == Immediate(op, z, w, addr32, test)
<1>0. op \in 0 .. 255
  BY DEF Defined
<1>1. op \in NoOperand => imm = 0 /\ ~HasModRM(op)
  BY <1>0 DEF Defined, NoOperand, Immediate, HasModRM
<1>2. op \in OneByte => imm = 1 /\ ~HasModRM(op)
  BY <1>0 DEF Defined, OneByte, Arithmetic, Immediate, HasModRM
<1>3. op \in {\hC2, \hCA} => imm = 2 /\ ~HasModRM(op)
  BY <1>0 DEF Defined, Immediate, HasModRM
<1>4. op = \hC8 => imm = 3 /\ ~HasModRM(op)
  BY <1>0 DEF Defined, Immediate, HasModRM
<1>5. op \in FourBytes => imm = (IF op \in {\hE8, \hE9} THEN 4 ELSE z) /\ ~HasModRM(op)
  BY <1>0 DEF Defined, FourBytes, Arithmetic, LegacyPrefix, Immediate, HasModRM
<1>6. op \in \hB8 .. \hBF => imm = (IF w THEN 8 ELSE z) /\ ~HasModRM(op)
  BY <1>0 DEF Defined, Immediate, HasModRM
<1>7. op \in \hA0 .. \hA3 => imm = (IF addr32 THEN 4 ELSE 8) /\ ~HasModRM(op)
  BY <1>0 DEF Defined, Immediate, HasModRM
<1>8. op \in PlainModRM => imm = 0 /\ HasModRM(op)
  BY <1>0 DEF Defined, PlainModRM, Arithmetic, Immediate, HasModRM
<1>9. op \in ModRMByte => imm = 1 /\ HasModRM(op)
  BY <1>0 DEF Defined, ModRMByte, Immediate, HasModRM
<1>10. op \in ModRMFour => imm = z /\ HasModRM(op)
  BY <1>0 DEF Defined, ModRMFour, Immediate, HasModRM
<1>11. op = \hF6 => imm = (IF test THEN 1 ELSE 0) /\ HasModRM(op)
  BY <1>0 DEF Defined, Immediate, HasModRM
<1>12. op = \hF7 => imm = (IF test THEN z ELSE 0) /\ HasModRM(op)
  BY <1>0 DEF Defined, Immediate, HasModRM
<1>13. QED
  BY <1>1, <1>2, <1>3, <1>4, <1>5, <1>6, <1>7, <1>8, <1>9, <1>10, <1>11, <1>12 DEF Kinds

\* Behind a one byte opcode.
LEMMA OneByteOpcodes ==
  ASSUME NEW p \in Seq(Byte), NEW o \in 1 .. Len(p) - 1, p[o] \in Defined,
         NEW w \in BOOLEAN, NEW short \in BOOLEAN, NEW addr32 \in BOOLEAN,
         ~(short /\ ~w /\ Sized(p, o)), ~(addr32 /\ p[o] \in \hA0 .. \hA3)
  PROVE  operand_len(p, o, w) \in
           {-1, Immediate(p[o], IF short /\ ~w THEN 2 ELSE 4, w, addr32, reg(p[o + 1]) < 2)
                  + (IF HasModRM(p[o]) THEN Addressing(p, o + 1) ELSE 0)}
<1> DEFINE op == p[o]
           z == IF short /\ ~w THEN 2 ELSE 4
           test == reg(p[o + 1]) < 2
           m == modrm_len(p, o + 1)
           imm == Immediate(op, z, w, addr32, test)
           right == imm + (IF HasModRM(op) THEN m ELSE 0)
           read == operand_len(p, o, w)
<1>1. m = Addressing(p, o + 1) /\ m \in 1 .. 6 /\ p[o + 1] \in Byte
  BY ModRMLength
<1>2. test \in BOOLEAN /\ (IsTest(p, o) <=> test)
  BY <1>1, Fields DEF IsTest
<1>3. z \in {2, 4} /\ (Sized(p, o) => z = 4)
  OBVIOUS
<1>4. /\ Sized(p, o) <=>
           \/ op \in {c \in 0 .. \h3D : c % 8 = 5} \cup {\h68, \h69, \h81, \hA9, \hC7}
                    \cup (\hB8 .. \hBF)
           \/ op = \hF7 /\ test
      /\ op \in Defined /\ ~(addr32 /\ op \in \hA0 .. \hA3)
  BY <1>2 DEF Sized
<1>5. read = CASE op \in NoOperand  -> 0
               [] op \in OneByte    -> 1
               [] op \in {\hC2, \hCA} -> 2
               [] op = \hC8         -> 3
               [] op \in FourBytes  -> 4
               [] op \in \hB8 .. \hBF -> IF w THEN 8 ELSE 4
               [] op \in \hA0 .. \hA3 -> 8
               [] op \in PlainModRM -> m
               [] op \in ModRMByte  -> m + 1
               [] op \in ModRMFour  -> m + 4
               [] op = \hF6         -> m + (IF IsTest(p, o) THEN 1 ELSE 0)
               [] op = \hF7         -> m + (IF IsTest(p, o) THEN 4 ELSE 0)
               [] OTHER             -> -1
  BY DEF operand_len
<1> SUFFICES read \in {-1, right}
  BY <1>1
<1> HIDE DEF op, z, test, m, read
<1>k. Kinds(op, imm, z, w, addr32, test)
  BY <1>2, <1>4, KindsOfOpcodes
<1>6. /\ op \in FourBytes /\ op \notin {\hE8, \hE9} => z = 4
      /\ op \in ModRMFour \cup (\hB8 .. \hBF) => z = 4
      /\ op = \hF7 /\ test => z = 4
  BY <1>3, <1>4 DEF FourBytes, ModRMFour, Arithmetic, Defined, LegacyPrefix
<1> HIDE DEF imm
<1>7. z \in {2, 4} /\ ~(addr32 /\ op \in \hA0 .. \hA3)
  BY <1>3, <1>4
<1>8. CASE op \in NoOperand
  BY <1>5, <1>7, <1>8, <1>k DEF Kinds
<1>9. CASE op \in OneByte
  BY <1>5, <1>7, <1>9, <1>k DEF Kinds
<1>10. CASE op \in {\hC2, \hCA}
  BY SMTT(30), <1>5, <1>6, <1>7, <1>10, <1>k DEF Kinds
<1>11. CASE op = \hC8
  BY <1>5, <1>7, <1>11, <1>k DEF Kinds
<1>12. CASE op \in FourBytes
  BY <1>5, <1>6, <1>7, <1>12, <1>k DEF Kinds
<1>13. CASE op \in \hB8 .. \hBF
  BY <1>5, <1>6, <1>7, <1>13, <1>k DEF Kinds
<1>14. CASE op \in \hA0 .. \hA3
  BY <1>5, <1>7, <1>14, <1>k DEF Kinds
<1>15. CASE op \in PlainModRM
  <2>1. HasModRM(op) /\ imm = 0 /\ op \notin {\hF6, \hF7}
    BY SMTT(30), <1>6, <1>15, <1>k DEF Kinds, PlainModRM, Arithmetic
  <2>2. read = m
    BY SMTT(30), <1>5, <1>7, <1>15, <1>k, <2>1 DEF Kinds
  <2>3. QED
    BY <1>1, <2>1, <2>2
<1>16. CASE op \in ModRMByte
  <2>1. HasModRM(op) /\ imm = 1 /\ op \notin {\hF6, \hF7}
    BY <1>6, <1>16, <1>k DEF Kinds, ModRMByte, Arithmetic
  <2>2. read = m + 1
    BY SMTT(30), <1>5, <1>7, <1>16, <1>k, <2>1 DEF Kinds
  <2>3. QED
    BY <1>1, <2>1, <2>2
<1>17. CASE op \in ModRMFour
  <2>1. HasModRM(op) /\ imm = 4 /\ op \notin {\hF6, \hF7}
    BY <1>6, <1>17, <1>k DEF Kinds, ModRMFour, Arithmetic
  <2>2. read = m + 4
    BY <1>5, <1>7, <1>17, <1>k, <2>1 DEF Kinds
  <2>3. QED
    BY <1>1, <2>1, <2>2
<1>18. CASE op = \hF6
  BY <1>1, <1>2, <1>5, <1>7, <1>18, <1>k DEF Kinds
<1>19. CASE op = \hF7
  BY SMTT(30), <1>1, <1>2, <1>5, <1>6, <1>7, <1>19, <1>k DEF Kinds
<1>20. QED
  BY <1>5, <1>8, <1>9, <1>10, <1>11, <1>12, <1>13, <1>14, <1>15, <1>16, <1>17, <1>18, <1>19

\* The opcodes after 0F: branches, those without operands and the rest.
LEMMA TwoByteKinds ==
  ASSUME NEW op \in 0 .. 255
  PROVE  /\ op \in \h80 .. \h8F => op \notin TwoByteNoOperand /\ op \notin Bare
         /\ op \in (\h80 .. \h8F) \cup Bare => op \notin {\h38, \h3A}
         /\ op \in TwoByteNoOperand => op \in Bare
  BY DEF TwoByteNoOperand, Bare

LEMMA TwoByteOpcodes ==
  ASSUME NEW p \in Seq(Byte), NEW o \in 1 .. Len(p) - 1, p[o] \in DefinedAfter0F,
         p[o] \notin {\h38, \h3A} \cup (Bare \ TwoByteNoOperand)
  PROVE  two_byte_len(p, o) = TwoByteTail(p, o)
<1>1. modrm_len(p, o + 1) = Addressing(p, o + 1)
  BY ModRMLength
<1>2. p[o] \in 0 .. 255
  BY DEF DefinedAfter0F
<1>3. CASE p[o] \in \h80 .. \h8F
  <2>1. p[o] \notin TwoByteNoOperand /\ p[o] \notin Bare /\ p[o] \notin {\h38, \h3A}
    BY <1>2, <1>3, TwoByteKinds
  <2>2. two_byte_len(p, o) = 4
    BY <1>3, <2>1 DEF two_byte_len
  <2>3. TwoByteTail(p, o) = 4
    BY <1>3, <2>1 DEF TwoByteTail
  <2>4. QED
    BY <2>2, <2>3
<1>4. CASE p[o] \in Bare
  <2>1. p[o] \in TwoByteNoOperand /\ p[o] \notin \h80 .. \h8F /\ p[o] \notin {\h38, \h3A}
    BY <1>2, <1>4, TwoByteKinds
  <2>2. two_byte_len(p, o) = 0
    BY <1>4, <2>1 DEF two_byte_len
  <2>3. TwoByteTail(p, o) = 0
    BY <1>4, <2>1 DEF TwoByteTail
  <2>4. QED
    BY <2>2, <2>3
<1>5. CASE p[o] \notin (\h80 .. \h8F) \cup Bare
  <2>1. p[o] \notin TwoByteNoOperand
    <3>1. p[o] \notin Bare
      BY <1>5
    <3>2. QED
      BY <1>2, <3>1, TwoByteKinds
  <2>2. TwoByteImm8 = WithByte
    BY DEF TwoByteImm8, WithByte
  <2>3. p[o] \notin \h80 .. \h8F /\ p[o] \notin Bare /\ p[o] \notin {\h38, \h3A}
    BY <1>5
  <2>4. two_byte_len(p, o) = Addressing(p, o + 1) + (IF p[o] \in WithByte THEN 1 ELSE 0)
    BY <1>1, <2>1, <2>2, <2>3 DEF two_byte_len
  <2>5. TwoByteTail(p, o) = Addressing(p, o + 1) + (IF p[o] \in WithByte THEN 1 ELSE 0)
    BY <2>3 DEF TwoByteTail
  <2>6. QED
    BY <2>4, <2>5
<1>6. QED
  BY <1>3, <1>4, <1>5

\* The opcode of a readable instruction, and the byte after it, are in the code.
LEMMA OpcodePlace ==
  ASSUME NEW p \in Seq(Byte), NEW i \in Nat \ {0}, Readable(p, i)
  PROVE  OpcodeAt(p, i) \in i .. Len(p) - 2
<1>1. PICK j \in i .. Len(p) - 3 : p[j] \notin LegacyPrefix
  BY DEF Readable
<1>2. AfterPrefixes(p, i) \in i .. j
  BY <1>1, PrefixesEnd
<1>3. QED
  BY <1>2 DEF OpcodeAt

\* A true length is a number.
LEMMA ImmediateNat ==
  ASSUME NEW op, NEW z \in {2, 4}, NEW w \in BOOLEAN, NEW addr32 \in BOOLEAN,
         NEW test \in BOOLEAN
  PROVE  Immediate(op, z, w, addr32, test) \in Nat
  BY DEF Immediate

LEMMA TailNat ==
  ASSUME NEW p \in Seq(Byte), NEW o \in 1 .. Len(p) - 1, p[o] \notin {\h38, \h3A}
  PROVE  TwoByteTail(p, o) \in Nat
<1>1. Addressing(p, o + 1) \in 1 .. 6
  BY ModRMLength
<1>2. p[o] \in 0 .. 255
  <2>1. p[o] \in Byte
    OBVIOUS
  <2>2. QED
    BY <2>1 DEF Byte
<1>3. CASE p[o] \in \h80 .. \h8F
  <2>1. p[o] \notin Bare
    BY <1>2, <1>3, TwoByteKinds
  <2>2. QED
    BY <1>3, <2>1 DEF TwoByteTail
<1>4. CASE p[o] \in Bare
  <2>1. p[o] \notin \h80 .. \h8F
    BY <1>2, <1>4, TwoByteKinds
  <2>2. QED
    BY <1>4, <2>1 DEF TwoByteTail
<1>5. CASE p[o] \notin \h80 .. \h8F /\ p[o] \notin Bare
  <2>1. TwoByteTail(p, o) = Addressing(p, o + 1) + (IF p[o] \in WithByte THEN 1 ELSE 0)
    BY <1>5 DEF TwoByteTail
  <2>2. QED
    BY <1>1, <2>1
<1>6. QED
  BY <1>3, <1>4, <1>5

LEMMA TrueLengthNat ==
  ASSUME NEW p \in Seq(Byte), NEW i \in Nat \ {0}, Readable(p, i)
  PROVE  TrueLen(p, i) \in Nat
<1> DEFINE o == OpcodeAt(p, i)
           z == IF ShortOperand(p, i) THEN 2 ELSE 4
<1>1. o \in i .. Len(p) - 2
  BY OpcodePlace
<1>2. CASE p[o] = \h0F
  <2>1. p[o + 1] \notin {\h38, \h3A}
    BY <1>2 DEF Readable, Misread
  <2>2. TwoByteTail(p, o + 1) \in Nat
    BY <1>1, <2>1, TailNat
  <2>3. QED
    BY <1>1, <1>2, <2>2 DEF TrueLen
<1>3. CASE p[o] # \h0F
  <2>1. Addressing(p, o + 1) \in 1 .. 6
    BY <1>1, ModRMLength
  <2>2. \A test \in BOOLEAN : Immediate(p[o], z, RexW(p, i), Prefixed(p, i, \h67), test) \in Nat
    BY ZenonT(30), ImmediateNat DEF RexW, Prefixed
  <2> DEFINE imm == Immediate(p[o], z, RexW(p, i), Prefixed(p, i, \h67), reg(p[o + 1]) < 2)
             m == IF HasModRM(p[o]) THEN Addressing(p, o + 1) ELSE 0
  <2>3. p[o + 1] \in Byte
    BY <1>1
  <2>4. imm \in Nat /\ m \in Nat
    <3>1. (reg(p[o + 1]) < 2) \in BOOLEAN
      BY <2>3, Fields
    <3>2. imm \in Nat
      BY <2>2, <3>1, Zenon
    <3>3. m \in Nat
      BY <2>1
    <3>4. QED
      BY <3>2, <3>3
  <2>5. TrueLen(p, i) = o + 1 - i + (imm + m)
    BY <1>3 DEF TrueLen
  <2> HIDE DEF imm, m
  <2>6. QED
    BY <1>1, <2>4, <2>5
<1>4. QED
  BY <1>2, <1>3

\* Whatever the code and wherever an instruction starts in it, insn_len says how
\* long it is or that it does not know, unless the instruction is one of those
\* that Misread describes (hook.cpp:42-200).
THEOREM InstructionsReadRight ==
  ASSUME NEW p \in Seq(Byte), NEW i \in Nat \ {0}, Readable(p, i)
  PROVE  insn_len(p, i) \in {0, TrueLen(p, i)}
<1> DEFINE o == OpcodeAt(p, i)
<1>0. IsInstruction(p, i) /\ ~Misread(p, i)
  BY DEF Readable
<1>1. o \in 1 .. Len(p) - 2
  BY OpcodePlace
<1>2. RexW(p, i) \in BOOLEAN /\ Prefixed(p, i, \h66) \in BOOLEAN /\ Prefixed(p, i, \h67) \in BOOLEAN
  BY DEF RexW, Prefixed
<1>3. CASE p[o] = \h0F
  <2>1. p[o + 1] \in DefinedAfter0F
    BY <1>0, <1>3 DEF IsInstruction, Defined
  <2>2. p[o + 1] \notin {\h38, \h3A} \cup (Bare \ TwoByteNoOperand)
    BY <1>0, <1>3 DEF Misread
  <2>3. two_byte_len(p, o + 1) = TwoByteTail(p, o + 1)
    BY <1>1, <2>1, <2>2, TwoByteOpcodes
  <2>4. QED
    BY <1>3, <2>3 DEF insn_len, TrueLen
<1>4. CASE p[o] # \h0F
  <2>1. p[o] \in Defined
    BY <1>0, <1>4 DEF IsInstruction
  <2>2. /\ ~(Prefixed(p, i, \h66) /\ ~RexW(p, i) /\ Sized(p, o))
        /\ ~(Prefixed(p, i, \h67) /\ p[o] \in \hA0 .. \hA3)
    BY <1>0 DEF Misread, ShortOperand
  <2>3. operand_len(p, o, RexW(p, i)) \in
          {-1, Immediate(p[o], IF Prefixed(p, i, \h66) /\ ~RexW(p, i) THEN 2 ELSE 4, RexW(p, i),
                         Prefixed(p, i, \h67), reg(p[o + 1]) < 2)
                 + (IF HasModRM(p[o]) THEN Addressing(p, o + 1) ELSE 0)}
    <3> DEFINE w == RexW(p, i)
               short == Prefixed(p, i, \h66)
               addr32 == Prefixed(p, i, \h67)
    <3>1. w \in BOOLEAN /\ short \in BOOLEAN /\ addr32 \in BOOLEAN
      BY <1>2
    <3>2. ~(short /\ ~w /\ Sized(p, o)) /\ ~(addr32 /\ p[o] \in \hA0 .. \hA3)
      BY <2>2
    <3>3. o \in 1 .. Len(p) - 1
      BY <1>1
    <3> HIDE DEF o, w, short, addr32
    <3>4. operand_len(p, o, w) \in
            {-1, Immediate(p[o], IF short /\ ~w THEN 2 ELSE 4, w, addr32, reg(p[o + 1]) < 2)
                   + (IF HasModRM(p[o]) THEN Addressing(p, o + 1) ELSE 0)}
      BY <2>1, <3>1, <3>2, <3>3, OneByteOpcodes
    <3>5. QED
      BY <3>4 DEF w, short, addr32
  <2>4. QED
    BY <1>4, <2>3 DEF insn_len, TrueLen, ShortOperand
<1>5. QED
  BY <1>3, <1>4
-----------------------------------------------------------------------------
\* A walk by lengths that are right where it gets, or 0, finds true ends only.
LEMMA EndsWithin ==
  ASSUME NEW upto \in Nat, NEW true, NEW read,
         \A n \in Starts(true, upto) : true[n + 1] \in Nat /\ read[n + 1] \in {0, true[n + 1]}
  PROVE  EndsBy(read, upto) \subseteq EndsBy(true, upto)
<1> DEFINE place == 0 .. upto - 1
           follows(length, T) ==
             \A n \in place : n \in T /\ n + length[n + 1] < upto => n + length[n + 1] \in T
           S == Starts(true, upto)
<1>1. \A length : Starts(length, upto) =
        {n \in place : \A T \in SUBSET place : 0 \in T /\ follows(length, T) => n \in T}
  <2> TAKE length
  <2> DEFINE steps == {<<n, n + length[n + 1]>> : n \in place}
             walks == {T \in SUBSET place :
                         /\ 0 \in T
                         /\ \A s \in steps : s[1] \in T /\ s[2] < upto => s[2] \in T}
  <2>1. \A T : (\A s \in steps : s[1] \in T /\ s[2] < upto => s[2] \in T) <=> follows(length, T)
    <3> TAKE T
    <3>1. ASSUME \A s \in steps : s[1] \in T /\ s[2] < upto => s[2] \in T
          PROVE  follows(length, T)
      <4> TAKE n \in place
      <4>1. <<n, n + length[n + 1]>> \in steps
        OBVIOUS
      <4>2. QED
        BY <3>1, <4>1
    <3>2. ASSUME follows(length, T), NEW s \in steps, s[1] \in T, s[2] < upto
          PROVE  s[2] \in T
      <4>1. PICK n \in place : s = <<n, n + length[n + 1]>>
        OBVIOUS
      <4>2. QED
        BY <3>2, <4>1
    <3>3. QED
      BY <3>1, <3>2
  <2>2. walks = {T \in SUBSET place : 0 \in T /\ follows(length, T)}
    BY <2>1
  <2>3. Starts(length, upto) = {n \in place : \A T \in walks : n \in T}
    BY DEF Starts
  <2> HIDE DEF walks
  <2>4. QED
    BY <2>2, <2>3
<1>2. S \subseteq place /\ (0 \in place => 0 \in S)
  BY <1>1
<1>3. follows(true, S)
  <2> SUFFICES ASSUME NEW n \in S, n + true[n + 1] < upto
               PROVE  n + true[n + 1] \in S
    BY <1>2
  <2>1. n + true[n + 1] \in place
    BY <1>2
  <2>2. ASSUME NEW T \in SUBSET place, 0 \in T, follows(true, T)
        PROVE  n + true[n + 1] \in T
    <3>1. n \in T
      BY <1>1, <2>2
    <3>2. QED
      BY <2>1, <2>2, <3>1
  <2>3. QED
    BY <1>1, <2>1, <2>2
<1>4. follows(read, S)
  <2> SUFFICES ASSUME NEW n \in S, n + read[n + 1] < upto
               PROVE  n + read[n + 1] \in S
    OBVIOUS
  <2>1. CASE read[n + 1] = 0
    BY <1>2, <2>1
  <2>2. CASE read[n + 1] = true[n + 1]
    BY <1>2, <1>3, <2>2
  <2>3. QED
    BY <2>1, <2>2
<1>5. Starts(read, upto) \subseteq S
  BY <1>1, <1>2, <1>4
<1>6. ASSUME NEW n \in S, n # 0
      PROVE  \E s \in S : n = s + true[s + 1]
  <2> SUFFICES ASSUME \A s \in S : n # s + true[s + 1]
               PROVE  FALSE
    OBVIOUS
  <2> DEFINE T == S \ {n}
  <2>1. T \in SUBSET place /\ 0 \in T
    BY <1>2, <1>6
  <2>2. follows(true, T)
    BY <1>3
  <2>3. \A U \in SUBSET place : 0 \in U /\ follows(true, U) => n \in U
    BY <1>1
  <2>4. n \in T
    BY <2>1, <2>2, <2>3
  <2>5. QED
    BY <2>4
<1>7. ASSUME NEW e \in EndsBy(read, upto)
      PROVE  e \in EndsBy(true, upto)
  <2>1. PICK n \in S : e = n + read[n + 1] /\ e # 0
    BY <1>5 DEF EndsBy
  <2>2. CASE read[n + 1] = 0
    BY <1>2, <1>6, <2>1, <2>2 DEF EndsBy
  <2>3. CASE read[n + 1] = true[n + 1]
    BY <2>1, <2>3 DEF EndsBy
  <2>4. QED
    BY <2>2, <2>3
<1>8. QED
  BY <1>7

\* Where each instruction of a body is one that the decoder does not misread,
\* the walk of install_inline stops at the end of one (hook.cpp:243-249): Hook's
\* Bounds are within its Ends.
THEOREM WalkStaysOnBoundaries ==
  ASSUME NEW p \in Seq(Byte), NEW upto \in Nat,
         \A n \in Starts(TrueLengths(p, upto), upto) : Readable(p, n + 1)
  PROVE  ReadEnds(p, upto) \subseteq TrueEnds(p, upto)
<1> DEFINE true == TrueLengths(p, upto)
           read == ReadLengths(p, upto)
<1>1. ASSUME NEW n \in Starts(true, upto)
      PROVE  true[n + 1] \in Nat /\ read[n + 1] \in {0, true[n + 1]}
  <2>1. n \in 0 .. upto - 1 /\ Readable(p, n + 1)
    BY DEF Starts
  <2>2. n + 1 \in 1 .. upto /\ n + 1 \in Nat \ {0}
    BY <2>1
  <2>3. true[n + 1] = TrueLen(p, n + 1) /\ read[n + 1] = insn_len(p, n + 1)
    BY <2>2 DEF TrueLengths, ReadLengths
  <2>4. QED
    BY <2>1, <2>2, <2>3, TrueLengthNat, InstructionsReadRight
<1> HIDE DEF true, read
<1>2. EndsBy(read, upto) \subseteq EndsBy(true, upto)
  BY <1>1, EndsWithin
<1>3. QED
  BY <1>2 DEF true, read, ReadEnds, TrueEnds
=============================================================================
