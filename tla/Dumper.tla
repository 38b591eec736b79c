------------------------------- MODULE Dumper -------------------------------
(***************************************************************************)
(* myodump (src/dump.cpp): a second DLL that waits for the game to load    *)
(* GameAssembly.dll, finds the il2cpp names (Names), waits for the il2cpp  *)
(* domain and writes what the assemblies hold: Types.cs, the classes of    *)
(* the Server namespace for a JSON library, and Il2Cpp.cs, all classes.    *)
(* The game goes on registering assemblies meanwhile.                      *)
(***************************************************************************)
EXTENDS Names, CsTypes

CONSTANTS
  Assemblies,  \* the game's assemblies, in the order of their registration
  MaxPolls     \* polls before a wait gives up (600 in the code)

\* An assembly has an image or not, whose name contains Assembly-CSharp or
\* not, with classes.  http is "skipped" or "kept" for names that start with
\* Http, by the exception for the two envelopes.  An enum has the values of its
\* members, any other class the types of its fields.
IsClass(c) == /\ c.ns \in {"Server", "other"} /\ c.http \in {"no", "skipped", "kept"}
              /\ c.enum \in BOOLEAN /\ c.values \in Seq(Int) /\ c.fields \in Seq(Type)
ASSUME AssembliesAssumption ==
  /\ Len(Assemblies) \in Nat
  /\ \A i \in 1 .. Len(Assemblies) :
       LET a == Assemblies[i] IN
       /\ a.image \in BOOLEAN /\ a.csharp \in BOOLEAN
       /\ \A c \in Range(a.classes) : IsClass(c)
ASSUME PollsAssumption == MaxPolls \in Nat \ {0}

VARIABLES
  gameAssembly, \* whether GameAssembly.dll is loaded
  registered,   \* the number of assemblies registered with the domain
  level,        \* config::g.dump_level
  at,           \* where run() is
  polls,        \* polls of the current wait
  count,        \* what domain_get_assemblies said
  index,        \* the assembly that is dumped next
  types, all    \* the set of class blocks written to Types.cs and Il2Cpp.cs

fileVars == <<count, index, types, all>>
vars == <<nameVars, gameAssembly, registered, level, at, polls, fileVars>>

Init ==
  /\ NamesInit
  /\ gameAssembly = FALSE /\ registered = 0
  /\ level \in 0 .. 2 /\ at = "start" /\ polls = 0
  /\ count = 0 /\ index = 1 /\ types = None /\ all = None
-----------------------------------------------------------------------------
(***************************************************************************)
(* The game.                                                               *)
(***************************************************************************)
LoadGameAssembly ==
  /\ ~gameAssembly /\ at # "crashed"
  /\ gameAssembly' = TRUE
  /\ UNCHANGED <<nameVars, registered, level, at, polls, fileVars>>

RegisterAssembly ==
  /\ gameAssembly /\ registered < Len(Assemblies) /\ at # "crashed"
  /\ registered' = registered + 1
  /\ UNCHANGED <<nameVars, gameAssembly, level, at, polls, fileVars>>
-----------------------------------------------------------------------------
(***************************************************************************)
(* Getting ready.                                                          *)
(***************************************************************************)
Goto(p) == at' = p

Start ==
  /\ at = "start"
  /\ Goto(IF level = 0 THEN "done" ELSE "names")
  /\ UNCHANGED <<nameVars, gameAssembly, registered, level, polls, fileVars>>

TimeOut ==
  /\ at \in {"names", "domain"} /\ polls = MaxPolls
  /\ Goto("failed")
  /\ UNCHANGED <<nameVars, gameAssembly, registered, level, polls, fileVars>>

WaitForGameAssembly ==
  /\ at = "names" /\ polls < MaxPolls /\ ~gameAssembly
  /\ polls' = polls + 1
  /\ UNCHANGED <<nameVars, gameAssembly, registered, level, at, fileVars>>

ResolveNames ==
  /\ at = "names" /\ polls < MaxPolls /\ gameAssembly
  /\ resolve
  /\ UNCHANGED <<gameAssembly, registered, level, at, polls, fileVars>>

\* il2cpp::init finds GameAssembly.dll, which is loaded by now.
InitBridge ==
  /\ at = "names" /\ stage = "resolved"
  /\ Goto("domain") /\ polls' = 0
  /\ UNCHANGED <<nameVars, gameAssembly, registered, level, fileVars>>

\* Whether the names lead to the functions they are meant for.
MapRight == map = image.names

PollDomain ==
  /\ at = "domain" /\ polls < MaxPolls
  /\ \/ registered > 0 /\ Goto("types") /\ UNCHANGED polls
     \/ (registered = 0 \/ ~MapRight) /\ polls' = polls + 1 /\ UNCHANGED at
  /\ UNCHANGED <<nameVars, gameAssembly, registered, level, fileVars>>

\* The bridge calls null, or another function than it thinks.
Crash ==
  /\ at \notin {"start", "names", "done", "failed", "crashed"} /\ ~MapRight
  /\ Goto("crashed")
  /\ UNCHANGED <<nameVars, gameAssembly, registered, level, polls, fileVars>>
-----------------------------------------------------------------------------
(***************************************************************************)
(* The two files.                                                          *)
(***************************************************************************)
\* What render_json_field writes as the type of a field.
FieldText(t) == json_type[type_get_name[t]]

\* render_json_class: enum members are numbered, fields get their C# type.
render_json_class(c) ==
  [name |-> c.name,
   members |-> IF c.enum THEN [j \in 1 .. Len(c.values) |-> j - 1] ELSE <<>>,
   fields |-> IF c.enum THEN <<>>
              ELSE [j \in 1 .. Len(c.fields) |-> FieldText(c.fields[j])]]
render_class(c) == [name |-> c.name]

Kept(c) == c.ns = "Server" /\ c.http # "skipped"

ClassesOf(i) == IF Assemblies[i].image THEN Range(Assemblies[i].classes) ELSE {}

ToWrite(i) == IF Assemblies[i].csharp THEN {c \in ClassesOf(i) : Kept(c)} ELSE {}

TypesBlocks == [i \in 1 .. Len(Assemblies) |-> {render_json_class(c) : c \in ToWrite(i)}]
AllBlocks == [i \in 1 .. Len(Assemblies) |-> {render_class(c) : c \in ClassesOf(i)}]

AfterTypes == IF level = 2 THEN "all" ELSE "done"

\* A file that cannot be opened is skipped.
OpenFails ==
  /\ at \in {"types", "all"}
  /\ Goto(IF at = "types" THEN AfterTypes ELSE "done")
  /\ UNCHANGED <<nameVars, gameAssembly, registered, level, polls, fileVars>>

OpenTypes ==
  /\ at = "types"
  /\ types' = {} /\ count' = registered /\ index' = 1
  /\ Goto("write_types")
  /\ UNCHANGED <<nameVars, gameAssembly, registered, level, polls, all>>

DumpTypes ==
  /\ at = "write_types" /\ index <= count
  /\ types' = types \cup TypesBlocks[index]
  /\ index' = index + 1
  /\ UNCHANGED <<nameVars, gameAssembly, registered, level, at, polls, count, all>>

CloseTypes ==
  /\ at = "write_types" /\ index > count
  /\ Goto(AfterTypes)
  /\ UNCHANGED <<nameVars, gameAssembly, registered, level, polls, fileVars>>

OpenAllAsOne ==
  /\ at = "all"
  /\ all' = {} /\ count' = 1 /\ index' = 1
  /\ Goto("write_all")
  /\ UNCHANGED <<nameVars, gameAssembly, registered, level, polls, types>>

OpenAll ==
  /\ at = "all"
  /\ all' = {} /\ count' = registered /\ index' = 1
  /\ Goto("write_all")
  /\ UNCHANGED <<nameVars, gameAssembly, registered, level, polls, types>>

DumpAll ==
  /\ at = "write_all" /\ index <= count
  /\ all' = all \cup AllBlocks[index]
  /\ index' = index + 1
  /\ UNCHANGED <<nameVars, gameAssembly, registered, level, at, polls, count, types>>

CloseAll ==
  /\ at = "write_all" /\ index > count
  /\ Goto("done")
  /\ UNCHANGED <<nameVars, gameAssembly, registered, level, polls, fileVars>>

Run ==
  \/ Start \/ TimeOut \/ WaitForGameAssembly \/ ResolveNames \/ InitBridge \/ PollDomain
  \/ Crash \/ OpenFails \/ OpenTypes \/ DumpTypes \/ CloseTypes \/ OpenAll \/ DumpAll \/ CloseAll

Next == LoadGameAssembly \/ RegisterAssembly \/ Run

Spec == Init /\ [][Next]_vars
-----------------------------------------------------------------------------
(***************************************************************************)
(* Properties.                                                             *)
(***************************************************************************)
ClassNames == {c.name : c \in UNION {Range(Assemblies[i].classes) : i \in 1 .. Len(Assemblies)}}
Written(file) == {block.name : block \in file}

\* The type of every variable.
TypeOK ==
  /\ NamesTypeOK
  /\ gameAssembly \in BOOLEAN /\ registered \in 0 .. Len(Assemblies) /\ level \in 0 .. 2
  /\ at \in {"start", "names", "domain", "types", "write_types", "all", "write_all",
             "done", "failed", "crashed"}
  /\ polls \in 0 .. MaxPolls
  /\ count \in 0 .. registered /\ index \in 1 .. count + 1
  /\ \A file \in {types, all} \ {None} : Written(file) \subseteq ClassNames

\* The two files are read from a domain that grows between and under them, and
\* still agree: Il2Cpp.cs has every class of Types.cs (dump.cpp:529-530).
TypesWithinAll ==
  (at = "done" /\ None \notin {types, all}) => Written(types) \subseteq Written(all)

\* Types.cs is ready for a JSON library (dump.cpp:190-191): as far as it is
\* written, each block is that of a class it should have and each such class has
\* its block, with the C# type of each field and the values of an enum.  Left out
\* are arrays of generic types, which lose their "[]" (dump.cpp:276-311 come
\* before 335), and enums not numbered from 0 on (402).
Reads(block, c) ==
  /\ block.name = c.name
  /\ c.enum /\ c.values = [j \in 1 .. Len(c.values) |-> j - 1] => block.members = c.values
  /\ ~c.enum => \A j \in 1 .. Len(c.fields) :
       ~HasGenericArray(c.fields[j]) => block.fields[j] = CSharp[c.fields[j]]
TypesReadAsCSharp ==
  at = "write_types" =>
    /\ \A block \in types : \E i \in 1 .. index - 1 : \E c \in ToWrite(i) : Reads(block, c)
    /\ \A i \in 1 .. index - 1 : \A c \in ToWrite(i) : \E block \in types : Reads(block, c)
=============================================================================
