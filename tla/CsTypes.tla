------------------------------ MODULE CsTypes ------------------------------
(***************************************************************************)
(* How the dumper writes an il2cpp type as a C# type (src/dump.cpp:        *)
(* json_type), and what the result should be.                              *)
(*                                                                         *)
(* A text is a sequence of tokens: names, and the brackets and commas      *)
(* between them.                                                           *)
(***************************************************************************)
EXTENDS Integers, Sequences, SequencesExt

CONSTANTS
  Dotted,       \* the dotted names of types
  Keyword,      \* kPrim: System types to C# keywords
  ShortName,    \* what a dotted name is without its namespace
  Type,         \* the types of the game
  type_get_name \* il2cpp_type_get_name: a type to its name

List == "System.Collections.Generic.List"
Nullable == "System.Nullable"
Separator == ","

Token == Dotted \cup {Keyword[n] : n \in DOMAIN Keyword} \cup {ShortName[n] : n \in Dotted}
         \cup {"<", ">", Separator, "[]", "?"}
Text == Seq(Token)

ASSUME DottedAssumption ==
  /\ List \in Dotted /\ DOMAIN Keyword \subseteq Dotted
  /\ Dotted \cap {"<", ">", Separator, "[]"} = {}

\* How many brackets are open after the i-th token.
Depth(s, i) ==
  Cardinality({j \in 1 .. i : s[j] = "<"}) - Cardinality({j \in 1 .. i : s[j] = ">"})

\* The first of some places in a text; 0 if there is none.
First(places) == IF places = {} THEN 0 ELSE Min(places)

\* The first bracket, and the one that closes it.
Opening(s) == First({i \in 1 .. Len(s) : s[i] = "<" /\ Depth(s, i) = 1})
ClosingFirst(s) == First({i \in 1 .. Len(s) : s[i] = ">"})
Closing(s) == First({i \in Opening(s) + 1 .. Len(s) : s[i] = ">" /\ Depth(s, i) = 0})

\* The parts of s between its top-level commas.
Comma(s) == First({i \in 1 .. Len(s) : s[i] = Separator /\ Depth(s, i) = 0})
Parts[s \in Text] ==
  IF Comma(s) = 0 THEN <<s>>
  ELSE <<SubSeq(s, 1, Comma(s) - 1)>> \o Parts[SubSeq(s, Comma(s) + 1, Len(s))]

WithCommas[parts \in Seq(Text)] ==
  CASE parts = <<>>    -> <<>>
    [] Len(parts) = 1 -> parts[1]
    [] OTHER          -> parts[1] \o <<Separator>> \o WithCommas[Tail(parts)]
Generic(name, args) == <<name, "<">> \o WithCommas[args] \o <<">">>

\* Any other token is left as it is.
Short(n) == IF n \in Dotted THEN ShortName[n] ELSE n

Instance(def, args) ==
  IF def = Nullable THEN WithCommas[args] \o <<"?">> ELSE Generic(Short(def), args)

json_type[s \in Text] ==
  IF Len(s) = 1 /\ s[1] \in DOMAIN Keyword THEN <<Keyword[s[1]]>>
  ELSE IF Closing(s) # 0
  THEN LET parts == Parts[SubSeq(s, Opening(s) + 1, Closing(s) - 1)] IN
       Instance(s[1], [j \in 1 .. Len(parts) |-> json_type[parts[j]]])
  ELSE IF s # <<>> /\ Last(s) = "[]" THEN Generic(Short(List), <<json_type[Front(s)]>>)
  ELSE [j \in 1 .. Len(s) |-> Short(s[j])]
-----------------------------------------------------------------------------
(***************************************************************************)
(* The reference.  A type is a dotted name, an instance of a generic type  *)
(* or an array, and its name is built from those of its parts, without the *)
(* arity of a generic type.                                                *)
(***************************************************************************)
IsNamed(t) == t.kind = "name" /\ t.name \in Dotted
IsInstance(t) ==
  t.kind = "generic" /\ t.name \in Dotted /\ t.args \in Seq(Type) /\ t.args # <<>>
IsArray(t) == t.kind = "array" /\ t.of \in Type

ASSUME TypesAssumption ==
  /\ type_get_name \in [Type -> Text]
  /\ \A t \in Type :
       \/ IsNamed(t) /\ type_get_name[t] = <<t.name>>
       \/ IsInstance(t) /\ type_get_name[t] =
            Generic(t.name, [j \in 1 .. Len(t.args) |-> type_get_name[t.args[j]]])
       \/ IsArray(t) /\ type_get_name[t] = Append(type_get_name[t.of], "[]")

CSharp[t \in Type] ==
  CASE t.kind = "name"    -> <<IF t.name \in DOMAIN Keyword THEN Keyword[t.name]
                               ELSE ShortName[t.name]>>
    [] t.kind = "generic" -> Instance(t.name, [j \in 1 .. Len(t.args) |-> CSharp[t.args[j]]])
    [] OTHER              -> Generic(ShortName[List], <<CSharp[t.of]>>)

\* An array of instances of a generic type, at any depth.
HasGenericArray(t) ==
  LET s == type_get_name[t] IN \E i \in 1 .. Len(s) - 1 : s[i] = ">" /\ s[i + 1] = "[]"
=============================================================================
