------------------------------ MODULE PacketMap ------------------------------
(***************************************************************************)
(* The packet id map of the request patch (src/patches/request.cpp:        *)
(* build_api_path and build_packet_id_map).  install_request goes through  *)
(* the classes that the game has by then.  For each request class, XCommand*)
(* with a base Schema<TReq, TResp>, it makes an instance to ask for the    *)
(* path that the requests go to, and one of TResp to ask for the packet id *)
(* that the server expects there.                                          *)
(*                                                                         *)
(* Nothing is known by name but get_PacketId: a path is made of what the   *)
(* first getter of an enum and the first getter of a string return.        *)
(***************************************************************************)
EXTENDS Integers, Sequences, FiniteSets, SequencesExt

CONSTANTS
  Assemblies, \* the game's assemblies, in the order of their registration
  Lower       \* a word in lower case

\* The parameterless instance methods of a class, in the order that
\* class_get_methods lists them from the class upwards, each with what it
\* returns on a new instance, which is empty if it throws: a text, the word of
\* an enum's member, or a packet id.
IsGetters(s) ==
  \A i \in 1 .. Len(s) :
    /\ DOMAIN s[i] = {"name", "returns", "gives"} /\ s[i].returns \in {"string", "enum", "other"}
    /\ s[i].returns = "enum" => s[i].gives \in DOMAIN Lower \cup {""}
    /\ s[i].name = "get_PacketId" => s[i].gives \in Int

Called(name, getters) == SelectSeq(getters, LAMBDA g : g.name = name)

\* A class: whether its name ends with Command and its base's with `2, the
\* getters of its base's type arguments, and its own.  For reference it also
\* has the path that the game sends its requests to, and the packet id there,
\* which is what get_PacketId of the answer's class returns if it does not throw.
IsClass(c) ==
  /\ DOMAIN c = {"name", "command", "pair", "args", "getters", "path", "packet"}
  /\ c.command \in BOOLEAN /\ c.pair \in BOOLEAN
  /\ \A i \in 1 .. Len(c.args) : IsGetters(c.args[i])
  /\ IsGetters(c.getters) /\ c.path # <<>> /\ c.packet \in Nat
  /\ c.command /\ c.pair /\ Len(c.args) >= 2 =>
       LET named == Called("get_PacketId", c.args[2]) IN
       named # <<>> => named[1].gives = c.packet \/ named[1].gives < 0

\* csharp: the assembly has an image, whose name contains Assembly-CSharp.
ASSUME AssembliesAssumption ==
  /\ Assemblies \in Seq(Range(Assemblies))
  /\ \A i \in 1 .. Len(Assemblies) :
       /\ Assemblies[i].csharp \in BOOLEAN
       /\ Assemblies[i].classes \in Seq(Range(Assemblies[i].classes))
       /\ \A j \in 1 .. Len(Assemblies[i].classes) : IsClass(Assemblies[i].classes[j])

Absent == -1
None == <<>>

Returning(kind, getters) == SelectSeq(getters, LAMBDA g : g.returns = kind)

Rooted(p) == IF p = <<>> \/ Head(p) = "/" THEN p ELSE <<"/">> \o p

\* "/" with the member's name in lower case, and the text under a "/".
build_api_path(c) ==
  LET strings == Returning("string", c.getters)
      enums == Returning("enum", c.getters)
      word == enums[1].gives
  IN IF strings = <<>> \/ enums = <<>> THEN None
     ELSE <<"/">> \o (IF word = "" THEN <<>> ELSE <<Lower[word]>>) \o Rooted(strings[1].gives)

\* The packet id of the first type argument, the request's.
PacketOfRequest(c) ==
  LET named == Called("get_PacketId", c.args[1]) IN
  IF named = <<>> THEN Absent ELSE named[1].gives

PacketOfResponse(c) ==
  LET named == IF Len(c.args) < 2 THEN <<>> ELSE Called("get_PacketId", c.args[2]) IN
  IF named = <<>> THEN Absent ELSE named[1].gives

Maps(c) == c.command /\ c.pair /\ build_api_path(c) # None /\ ~(PacketOfResponse(c) < 0)

\* The assemblies that the game's own classes are in, of the first n, and those
\* classes.
Loaded(n) == {i \in 1 .. n : Assemblies[i].csharp}
ClassesOf(n) == UNION {Range(Assemblies[i].classes) : i \in Loaded(n)}

\* The classes of assembly i that give p its packet id, each after the last.
Entries(i, p) ==
  LET classes == Assemblies[i].classes
  IN {j \in DOMAIN classes : Maps(classes[j]) /\ build_api_path(classes[j]) = p}

\* emplace, which keeps the first packet id of a path.
first_packet_id_map(n) ==
  LET paths == {build_api_path(c) : c \in {d \in ClassesOf(n) : Maps(d)}}
      With(p) == {i \in Loaded(n) : Entries(i, p) # {}}
      First(p) == LET i == Min(With(p)) IN Assemblies[i].classes[Min(Entries(i, p))]
  IN [p \in paths |-> PacketOfResponse(First(p))]

build_packet_id_map(n) ==
  LET paths == {build_api_path(c) : c \in {d \in ClassesOf(n) : Maps(d)}}
      With(p) == {i \in Loaded(n) : Entries(i, p) # {}}
      Latest(p) == LET i == Max(With(p)) IN Assemblies[i].classes[Max(Entries(i, p))]
  IN [p \in paths |-> PacketOfResponse(Latest(p))]
=============================================================================
