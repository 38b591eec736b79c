------------------------------- MODULE Names -------------------------------
(***************************************************************************)
(* How the il2cpp names are found (src/il2cpp/il2cpp_names.cpp), with the  *)
(* code scanner (src/il2cpp/scan.cpp) and the image it reads               *)
(* (src/il2cpp/pe.cpp).                                                    *)
(*                                                                         *)
(* GameAssembly.dll exports its functions under names that change with     *)
(* every build.  resolve() reads UnityPlayer.dll from disk, follows the    *)
(* calls from UnityMain to LoadIl2CPP, collects the names that it and its  *)
(* callees load, in order, and gives the i-th name to the i-th il2cpp      *)
(* function if their number is right.  Otherwise it takes the map that the *)
(* library was built with.                                                 *)
(*                                                                         *)
(* The scanner does not decode instructions: it tests every byte of a body *)
(* for a call or a load, and takes the body to end at three bytes CC.      *)
(***************************************************************************)
EXTENDS Integers, Sequences, FiniteSets, SequencesExt

CONSTANTS
  Name,       \* the strings of 11 characters that pass is_obf_name
  Il2cppData, \* one of them: "il2cpp_data"
  Image,      \* the versions of UnityPlayer.dll, as below
  Count,      \* IL2CPP_NAMES_COUNT (234 in the code)
  Embedded,   \* IL2CPP_MAP: the names of the build the library was made for
  MaxHits,    \* the part of a body that the scan sees (max_bytes)
  None        \* no name, no map

\* What a place in the code looks like to the scanner: a call, a load (lea),
\* three bytes CC (int3), or a load that it does not know (mov).  real is FALSE
\* where the bytes belong to some other instruction.  A call out of the image
\* has to = 0, a load of anything but a name has to = None.
Place == [kind : {"call"}, to : Nat, real : BOOLEAN]
         \cup [kind : {"lea", "mov"}, to : Name \cup {None}, real : BOOLEAN]
         \cup [kind : {"int3"}, real : BOOLEAN]

\* An image is its code, an address being a position in it, and the address
\* that UnityMain is exported at (0: none).  For reference it also has the
\* addresses where functions start, that of LoadIl2CPP, and the names that
\* LoadIl2CPP and its callees load, in order.
IsCode(img) == /\ img.code \in Seq(Place)
               /\ img.main \in 0 .. Len(img.code)
               /\ img.entries \subseteq 1 .. Len(img.code) /\ img.load \in img.entries
               /\ img.names \in Seq(Name)

\* A disassembler's view: the places of the function at a with its padding, of
\* its calls and of its loads of names.
Own(img, a) ==
  a .. Min({e - 1 : e \in {f \in img.entries : f > a}} \cup {Len(img.code)})
RealCalls(img, a) ==
  {i \in Own(img, a) : img.code[i].kind = "call" /\ img.code[i].real /\ img.code[i].to # 0}
RealLoads(img, a) ==
  {i \in Own(img, a) : img.code[i].kind \in {"lea", "mov"} /\ img.code[i].real /\ img.code[i].to # None}

\* LoadIl2CPP's own loads come first, then those of its callees, by its calls:
\* <<0, i>> is the load at i in LoadIl2CPP, and <<c, i>> that in what it calls at c.
Callee(img, load, c) == IF c = 0 THEN load ELSE img.code[c].to
RealVisits(img) ==
  {v \in ({0} \cup RealCalls(img, img.load)) \X (1 .. Len(img.code)) :
     v[2] \in RealLoads(img, Callee(img, img.load, v[1]))}
Before(v, w) == v[1] < w[1] \/ (v[1] = w[1] /\ v[2] < w[2])

\* names has the names of the visits, each once, in the order of its first one.
FirstVisits(img, names, visits) ==
  LET Of(n) == {v \in visits : img.code[v[2]].to = n}
  IN /\ Range(names) = {img.code[v[2]].to : v \in visits}
     /\ \A i, j \in DOMAIN names :
          i < j => \E v \in Of(names[i]) : \A w \in Of(names[j]) : Before(v, w)

IsImage(img) == IsCode(img) /\ FirstVisits(img, img.names, RealVisits(img))

ASSUME ImageAssumption == \A img \in Image : IsImage(img)
ASSUME NamesAssumption ==
  /\ Il2cppData \in Name /\ None \notin Name \cup Seq(Name)
  /\ Count \in Nat /\ MaxHits \in Nat
  /\ Embedded \in Seq(Name) /\ Len(Embedded) = Count

VARIABLES
  image,   \* UnityPlayer.dll of the game that is running
  stage,   \* where resolve is: "read", "find", "collect", "embedded", "resolved"
  caller,  \* the call of LoadIl2CPP whose callee is being scanned, 0 for itself
  strings, \* the loads of that function that are still to be looked at
  callees, \* the calls of LoadIl2CPP that are still to be looked at
  found,   \* the names found so far
  map      \* g_map: the i-th name is that of the i-th il2cpp function

nameVars == <<image, stage, caller, strings, callees, found, map>>
-----------------------------------------------------------------------------
(***************************************************************************)
(* The scanner.                                                            *)
(***************************************************************************)
\* The last address that the scan of the function at a sees.
body_end(img, a) ==
  Min({Len(img.code), a + MaxHits - 1} \cup {i - 1 : i \in
        {j \in a .. Len(img.code) : img.code[j].kind = "int3"}})

\* The vectors that the code makes are sets of places here, which have an order.
lea_strings_in_body(img, a) ==
  {i \in a .. body_end(img, a) : img.code[i].kind = "lea" /\ img.code[i].to # None}
call_targets_in_body(img, a) ==
  {i \in a .. body_end(img, a) : img.code[i].kind = "call" /\ img.code[i].to # 0}

Loads(img, a, s) == \E i \in lea_strings_in_body(img, a) : img.code[i].to = s

\* UnityMain -> its first callee -> that one's first callee that loads
\* "il2cpp_data" -> that one's second callee; 0 where the chain breaks.
FirstOf(img, calls) == IF calls = {} THEN 0 ELSE img.code[Min(calls)].to
FirstCallee(img, a) == IF a = 0 THEN 0 ELSE FirstOf(img, call_targets_in_body(img, a))
FirstThatLoads(img, a, s) ==
  IF a = 0 THEN 0
  ELSE FirstOf(img, {c \in call_targets_in_body(img, a) : Loads(img, img.code[c].to, s)})
SecondCallee(img, a) ==
  IF a = 0 THEN 0
  ELSE LET calls == call_targets_in_body(img, a)
       IN FirstOf(img, {c \in calls : \E d \in calls : d < c})
find_load_il2cpp(img) ==
  SecondCallee(img, FirstThatLoads(img, FirstCallee(img, img.main), Il2cppData))
-----------------------------------------------------------------------------
NamesInit ==
  /\ image \in Image
  /\ stage = "read" /\ caller = 0 /\ strings = {} /\ callees = {} /\ found = <<>> /\ map = None

\* UnityPlayer.dll is not loaded, its path does not fit, it cannot be read or
\* is not an image of this kind.
ReadFails ==
  /\ stage = "read"
  /\ stage' = "embedded"
  /\ UNCHANGED <<image, caller, strings, callees, found, map>>

ReadImage ==
  /\ stage = "read"
  /\ stage' = "find"
  /\ UNCHANGED <<image, caller, strings, callees, found, map>>

FindLoadIl2CPP ==
  /\ stage = "find"
  /\ LET a == find_load_il2cpp(image) IN
     IF a = 0
     THEN stage' = "embedded" /\ UNCHANGED <<strings, callees>>
     ELSE /\ strings' = lea_strings_in_body(image, a)
          /\ callees' = call_targets_in_body(image, a)
          /\ stage' = "collect"
  /\ UNCHANGED <<image, caller, found, map>>

\* A name that was found before is added again.
AddAgain ==
  /\ stage = "collect" /\ strings # {}
  /\ found' = Append(found, image.code[Min(strings)].to)
  /\ strings' = strings \ {Min(strings)}
  /\ UNCHANGED <<image, stage, caller, callees, map>>

\* Names are kept in the order in which they are first found.
AddName ==
  /\ stage = "collect" /\ strings # {}
  /\ LET name == image.code[Min(strings)].to
     IN found' = IF name \in Range(found) THEN found ELSE Append(found, name)
  /\ strings' = strings \ {Min(strings)}
  /\ UNCHANGED <<image, stage, caller, callees, map>>

NextCallee ==
  /\ stage = "collect" /\ strings = {} /\ callees # {}
  /\ caller' = Min(callees) /\ callees' = callees \ {caller'}
  /\ strings' = lea_strings_in_body(image, image.code[caller'].to)
  /\ UNCHANGED <<image, stage, found, map>>

AllSeen == stage = "collect" /\ strings = {} /\ callees = {}

\* The test of the number is missing.
TakeWhatIsFound ==
  /\ AllSeen
  /\ map' = found /\ stage' = "resolved"
  /\ UNCHANGED <<image, caller, strings, callees, found>>

TakeFound ==
  /\ AllSeen
  /\ IF Len(found) = Count
     THEN map' = found /\ stage' = "resolved"
     ELSE stage' = "embedded" /\ UNCHANGED map
  /\ UNCHANGED <<image, caller, strings, callees, found>>

resolve_embedded ==
  /\ stage = "embedded"
  /\ map' = Embedded /\ stage' = "resolved"
  /\ UNCHANGED <<image, caller, strings, callees, found>>

resolve == \/ ReadFails \/ ReadImage \/ FindLoadIl2CPP \/ AddName \/ NextCallee
           \/ TakeFound \/ resolve_embedded

NamesSpec == NamesInit /\ [][resolve]_nameVars
-----------------------------------------------------------------------------
(***************************************************************************)
(* Properties.                                                             *)
(***************************************************************************)
OnThePath == {image.load} \cup {image.code[c].to : c \in RealCalls(image, image.load)}

Missed == Range(image.names) \ Range(found)
Strangers == Range(found) \ Range(image.names)
\* A load that the scan did not see, of a name that it found at another one.
FoundElsewhere ==
  \E a \in OnThePath : \E i \in RealLoads(image, a) \ lea_strings_in_body(image, a) :
    image.code[i].to \in Range(found)

\* The scan stays on the path: it took LoadIl2CPP for what it is, followed the
\* calls that it makes, read no function past its end into the next one, and no
\* other instruction's bytes for a load of one of the names.
OnPath ==
  /\ find_load_il2cpp(image) = image.load
  /\ call_targets_in_body(image, image.load) = RealCalls(image, image.load)
  /\ \A a \in OnThePath :
       /\ \E i \in Own(image, a) : image.code[i].kind = "int3"
       /\ \A i \in Own(image, a) :
            image.code[i].kind = "lea" /\ ~image.code[i].real =>
              image.code[i].to \notin Range(image.names)

NamesTypeOK ==
  /\ IsCode(image)
  /\ stage \in {"read", "find", "collect", "embedded", "resolved"}
  /\ caller \in {0} \cup DOMAIN image.code
  /\ strings \subseteq DOMAIN image.code /\ callees \subseteq DOMAIN image.code
  /\ found \in Seq(Name) /\ map \in Seq(Name) \cup {None}
  /\ stage = "resolved" <=> map # None
  /\ map # None => Len(map) = Count

\* The count is all that guards the positions (il2cpp_names.cpp:73-82).  In a
\* game that has all the functions, a scan that stays on its path gives one a
\* wrong name only by missing a name and taking a stranger for one at a time,
\* or by finding a name at a later load than its first: missing names alone, or
\* taking strangers alone, however often, ends in the embedded map.
ShiftNeedsTwoErrors ==
  /\ stage = "resolved" /\ found = map /\ map # image.names
  /\ OnPath /\ Len(image.names) = Count
  => (Missed # {} /\ Strangers # {}) \/ FoundElsewhere

\* No two functions get one name from the scan, so that no two calls of the
\* bridge end in the same function of the game.
NamesDistinct == (stage = "resolved" /\ found = map) => IsInjective(map)
=============================================================================
