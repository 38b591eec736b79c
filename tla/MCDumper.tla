------------------------------ MODULE MCDumper ------------------------------
(***************************************************************************)
(* An instance of Dumper for TLC: three il2cpp functions, the build that   *)
(* the embedded map was made from with up to two changes, three            *)
(* assemblies, and fields of types nested up to three levels deep.         *)
(***************************************************************************)
EXTENDS Dumper, TLC

CONSTANTS n1, n2, n3, n4, x

Call(f) == [kind |-> "call", to |-> f, real |-> TRUE]
Lea(s) == [kind |-> "lea", to |-> s, real |-> TRUE]
Mov(s) == [kind |-> "mov", to |-> s, real |-> TRUE]
Int3 == [kind |-> "int3", real |-> TRUE]
Spurious(p) == [p EXCEPT !.real = FALSE]

\* The build that the embedded map was made from, by its functions: UnityMain,
\* its body, the implementation, a helper, LoadIl2CPP and its callees.
Build == [main |-> 1, fns |->
  << <<Call(2), Int3>>, <<Call(4), Call(3), Int3>>,
     <<Lea(Il2cppData), Call(4), Call(5), Int3>>, <<Lea(x), Int3>>,
     <<Lea(n1), Call(7), Call(6), Int3>>, <<Lea(n3), Int3>>, <<Lea(n2), Lea(n1), Int3>> >>]
Functions == DOMAIN Build.fns

\* Its address of each function, and the image with addresses for functions.
Address(fns, f) == FoldLeft(LAMBDA n, g : n + Len(g), 1, SubSeq(fns, 1, f - 1))
Linked(fns) ==
  FoldLeft(LAMBDA code, fn : code \o [i \in 1 .. Len(fn) |->
             IF fn[i].kind = "call" /\ fn[i].to # 0
             THEN [fn[i] EXCEPT !.to = Address(fns, @)] ELSE fn[i]], <<>>, fns)
LoadsOf(fn) == SelectSeq(fn, LAMBDA p : p.kind \in {"lea", "mov"} /\ p.real /\ p.to # None)
RealNames(fns) ==
  LET calls == SelectSeq(fns[5], LAMBDA p : p.kind = "call" /\ p.real)
      loads == FoldLeft(LAMBDA acc, c : acc \o LoadsOf(fns[c.to]), LoadsOf(fns[5]), calls)
  IN FoldLeft(LAMBDA acc, p : IF p.to \in Range(acc) THEN acc ELSE Append(acc, p.to), <<>>, loads)
AsImage(b) == [code |-> Linked(b.fns), main |-> b.main, load |-> Address(b.fns, 5),
               entries |-> {Address(b.fns, f) : f \in Functions}, names |-> RealNames(b.fns)]

\* A change of the code at the start or the end of a function, of a load, of
\* the padding, or of the export.
AtEnds(b) ==
  { [b EXCEPT !.fns[f] = IF first THEN <<p>> \o @ ELSE Front(@) \o <<p, Last(@)>>] :
      f \in {3, 5, 7}, first \in BOOLEAN,
      p \in {Spurious(Call(4)), Spurious(Lea(x)), Spurious(Int3), Lea(n4)} }
AtLoads(b) ==
  UNION { { [b EXCEPT !.fns[f][i] = Mov(@.to)] :
              i \in {j \in DOMAIN b.fns[f] : b.fns[f][j].kind = "lea"} } : f \in {3, 5, 6, 7} }
Changed(b) ==
  AtEnds(b) \cup AtLoads(b)
  \cup { [b EXCEPT !.fns[f] = Front(@)] : f \in {g \in Functions : Len(b.fns[g]) > 1} }
  \cup { [b EXCEPT !.main = 0], [b EXCEPT !.fns[2] = <<Int3>>],
         [b EXCEPT !.fns[3] = Tail(@)], [b EXCEPT !.fns[6] = <<Call(0), Lea(None), Int3>>] }

mcName == {n1, n2, n3, n4, x, Il2cppData}
mcImage == {AsImage(b) : b \in {Build} \cup UNION {Changed(b) : b \in {Build} \cup Changed(Build)}}
mcEmbedded == <<n1, n2, n3>>
-----------------------------------------------------------------------------
Dictionary == "System.Collections.Generic.Dictionary"
mcKeyword == "System.String" :> "string" @@ "System.Int32" :> "int"
mcShortName == List :> "List" @@ Dictionary :> "Dictionary" @@ "Server.Item" :> "Item"
               @@ "Server.Page" :> "Page" @@ "T" :> "T"
               @@ [n \in {"System.String", "System.Int32", Nullable} |-> n]
mcDotted == DOMAIN mcShortName

Named(n) == [kind |-> "name", name |-> n]
Inst(def, args) == [kind |-> "generic", name |-> def, args |-> args]
Array(t) == [kind |-> "array", of |-> t]

Integer == Named("System.Int32")
String == Named("System.String")
Item == Named("Server.Item")
Items == Inst(List, <<Item>>)
Fields == << Integer, Item, Named("T"), Array(Item), Array(Array(Integer)), Items,
             Inst(List, <<Array(Item)>>), Inst(Nullable, <<Integer>>),
             Inst(Dictionary, <<String, Items>>),
             Inst("Server.Page", <<Inst(Dictionary, <<Items, Inst(Nullable, <<Integer>>)>>)>>),
             Inst(Dictionary, <<Inst(Dictionary, <<String, Item>>), Array(Array(Item))>>),
             Array(Items) >>

\* The types of the fields with those that they are built from.
RECURSIVE TypesIn(_)
TypesIn(t) ==
  {t} \cup CASE t.kind = "name"    -> {}
              [] t.kind = "generic" -> UNION {TypesIn(t.args[j]) : j \in 1 .. Len(t.args)}
              [] t.kind = "array"   -> TypesIn(t.of)
mcType == UNION {TypesIn(t) : t \in Range(Fields)}

RECURSIVE TypeName(_)
TypeName(t) ==
  CASE t.kind = "name"    -> <<t.name>>
    [] t.kind = "generic" ->
         <<t.name, "<">>
         \o FoldLeft(LAMBDA s, a : IF s = <<>> THEN TypeName(a) ELSE s \o <<Separator>> \o TypeName(a),
                     <<>>, t.args)
         \o <<">">>
    [] t.kind = "array"   -> Append(TypeName(t.of), "[]")
mc_type_get_name == [t \in mcType |-> TypeName(t)]

Cls(n, ns, http, fields) ==
  [name |-> n, ns |-> ns, http |-> http, enum |-> FALSE, values |-> <<>>, fields |-> fields]
Enum(n, values) ==
  [name |-> n, ns |-> "Server", http |-> "no", enum |-> TRUE, values |-> values, fields |-> <<>>]

mcAssemblies ==
  << [image |-> TRUE, csharp |-> TRUE,
      classes |-> <<Cls("Item", "Server", "no", Fields), Cls("Http", "Server", "skipped", <<>>),
                    Enum("E", <<0, 1, 2>>)>>],
     [image |-> FALSE, csharp |-> FALSE, classes |-> <<>>],
     [image |-> TRUE, csharp |-> FALSE, classes |-> <<Cls("Object", "other", "no", <<>>)>>],
     [image |-> TRUE, csharp |-> TRUE,
      classes |-> <<Cls("View", "other", "no", <<>>), Enum("Flags", <<1, 2, 4>>),
                    Cls("Envelope", "Server", "kept", <<Named("T")>>)>>] >>
=============================================================================
