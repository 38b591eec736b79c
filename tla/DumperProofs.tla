---------------------------- MODULE DumperProofs ----------------------------
(***************************************************************************)
(* Proofs about Names and Dumper, for every image, whatever it looks like  *)
(* to the scanner, every embedded map, every number of il2cpp functions    *)
(* and every list of assemblies.                                           *)
(*                                                                         *)
(* The scanner visits places in an order, and FirstVisits determines the   *)
(* names that a set of visits gives.  The names found so far are those of  *)
(* the visits made so far, so that the names found in the end are those of *)
(* the image if the visits are those that a disassembler would make.       *)
(*                                                                         *)
(* What json_type writes for a type is proved by induction on the length   *)
(* of the type's name.                                                     *)
(***************************************************************************)
EXTENDS Dumper, FunctionTheorems, FiniteSetTheorems, WellFoundedInduction, TLAPS

\* The least element of a set of numbers is the one that Min chooses.
LEMMA NatLess == IsWellFoundedOn({p \in Nat \X Nat : p[1] < p[2]}, Nat)
<1>1. OpToRel(<, Nat) = {p \in Nat \X Nat : p[1] < p[2]}
  BY Zenon DEF OpToRel
<1>2. QED
  BY <1>1, NatLessThanWellFounded, Zenon

LEMMA LeastNat ==
  ASSUME NEW T, T \subseteq Nat, T # {}
  PROVE  Min(T) \in T /\ \A y \in T : Min(T) <= y
<1> DEFINE R == {p \in Nat \X Nat : p[1] < p[2]}
<1>1. PICK x \in T : \A y \in T : <<y, x>> \notin R
  <2>1. IsWellFoundedOn(R, Nat)
    BY NatLess
  <2> HIDE DEF R
  <2>2. QED
    BY <2>1, WFMin, Zenon
<1>2. ASSUME NEW y \in T PROVE x <= y
  <2>1. ~(y < x)
    BY <1>1
  <2>2. x \in Nat /\ y \in Nat
    OBVIOUS
  <2>3. QED
    BY <2>1, <2>2
<1>3. QED
  BY <1>2 DEF Min
-----------------------------------------------------------------------------
(***************************************************************************)
(* The scanner.                                                            *)
(***************************************************************************)
\* A scan ends in the code and before the first three bytes CC.
LEMMA BodyEnd ==
  ASSUME NEW img, IsCode(img), NEW a \in Nat \ {0}
  PROVE  /\ body_end(img, a) \in Nat /\ body_end(img, a) <= Len(img.code)
         /\ \A j \in a .. Len(img.code) : img.code[j].kind = "int3" => body_end(img, a) < j
<1> DEFINE n == Len(img.code)
           J == {j \in a .. n : img.code[j].kind = "int3"}
           T == {n, a + MaxHits - 1} \cup {i - 1 : i \in J}
<1>1. n \in Nat
  BY DEF IsCode
<1>2. a + MaxHits - 1 \in Nat
  BY NamesAssumption
<1>3. T \subseteq Nat /\ n \in T
  BY <1>1, <1>2
<1>4. Min(T) \in T /\ \A y \in T : Min(T) <= y
  BY <1>3, LeastNat
<1>5. body_end(img, a) = Min(T)
  BY DEF body_end
<1>6. ASSUME NEW j \in J PROVE Min(T) < j
  <2>1. j - 1 \in T /\ j \in Int
    OBVIOUS
  <2>2. Min(T) <= j - 1 /\ Min(T) \in Int
    BY <2>1, <1>3, <1>4
  <2>3. QED
    BY <2>1, <2>2
<1>7. QED
  BY <1>3, <1>4, <1>5, <1>6

LEMMA Loaded ==
  ASSUME NEW img, IsCode(img), NEW i \in DOMAIN img.code, img.code[i].kind = "lea",
         img.code[i].to # None
  PROVE  img.code[i].to \in Name
<1>1. img.code[i] \in Place
  BY DEF IsCode
<1>2. QED
  BY <1>1 DEF Place

LEMMA Called ==
  ASSUME NEW img, IsCode(img), NEW i \in DOMAIN img.code, img.code[i].kind = "call"
  PROVE  img.code[i].to \in Nat
<1>1. img.code[i] \in Place
  BY DEF IsCode
<1>2. QED
  BY <1>1 DEF Place

LEMMA Domain ==
  ASSUME NEW img, IsCode(img)
  PROVE  DOMAIN img.code = 1 .. Len(img.code) /\ Len(img.code) \in Nat
BY DEF IsCode

\* The scan of a function gives places in the code.
LEMMA Targets ==
  ASSUME NEW img, IsCode(img), NEW a \in Nat \ {0}
  PROVE  /\ call_targets_in_body(img, a) \subseteq DOMAIN img.code
         /\ lea_strings_in_body(img, a) \subseteq DOMAIN img.code
         /\ \A c \in call_targets_in_body(img, a) : img.code[c].to \in Nat \ {0}
         /\ \A i \in lea_strings_in_body(img, a) : img.code[i].to \in Name
<1>1. a .. body_end(img, a) \subseteq DOMAIN img.code
  BY BodyEnd, Domain
<1>2. call_targets_in_body(img, a) \subseteq DOMAIN img.code
  BY <1>1 DEF call_targets_in_body
<1>3. lea_strings_in_body(img, a) \subseteq DOMAIN img.code
  BY <1>1 DEF lea_strings_in_body
<1>4. \A c \in call_targets_in_body(img, a) : img.code[c].to \in Nat \ {0}
  BY <1>2, Called DEF call_targets_in_body
<1>5. \A i \in lea_strings_in_body(img, a) : img.code[i].to \in Name
  BY <1>3, Loaded DEF lea_strings_in_body
<1>6. QED
  BY <1>2, <1>3, <1>4, <1>5

LEMMA FirstOfSome ==
  ASSUME NEW img, IsCode(img), NEW a \in Nat \ {0},
         NEW calls \in SUBSET call_targets_in_body(img, a)
  PROVE  FirstOf(img, calls) \in Nat
<1>1. CASE calls = {}
  BY <1>1 DEF FirstOf
<1>2. CASE calls # {}
  <2>1. calls \subseteq Nat
    BY Targets, Domain
  <2>2. Min(calls) \in calls
    BY <1>2, <2>1, LeastNat
  <2>3. QED
    BY <1>2, <2>2, Targets DEF FirstOf
<1>3. QED
  BY <1>1, <1>2

LEMMA LoadFound ==
  ASSUME NEW img, IsCode(img)
  PROVE  find_load_il2cpp(img) \in Nat
<1>1. img.main \in Nat
  BY Domain DEF IsCode
<1>2. \A a \in Nat : FirstCallee(img, a) \in Nat
  BY FirstOfSome DEF FirstCallee
<1>3. \A a \in Nat : FirstThatLoads(img, a, Il2cppData) \in Nat
  BY FirstOfSome DEF FirstThatLoads
<1>4. \A a \in Nat : SecondCallee(img, a) \in Nat
  BY FirstOfSome DEF SecondCallee
<1>5. QED
  BY <1>1, <1>2, <1>3, <1>4 DEF find_load_il2cpp
-----------------------------------------------------------------------------
(***************************************************************************)
(* The names of a set of visits.                                           *)
(***************************************************************************)
Visit == Nat \X Nat
Of(img, visits, n) == {v \in visits : img.code[v[2]].to = n}

LEMMA NamesOfVisits ==
  ASSUME NEW img, NEW names, NEW visits
  PROVE  FirstVisits(img, names, visits) <=>
           /\ Range(names) = {img.code[v[2]].to : v \in visits}
           /\ \A i, j \in DOMAIN names :
                i < j => \E v \in Of(img, visits, names[i]) :
                           \A w \in Of(img, visits, names[j]) : Before(v, w)
BY DEF FirstVisits, Of

LEMMA Asymmetric ==
  ASSUME NEW v \in Visit, NEW w \in Visit, Before(v, w)
  PROVE  ~Before(w, v) /\ v # w
<1>1. v[1] \in Nat /\ v[2] \in Nat /\ w[1] \in Nat /\ w[2] \in Nat
  BY DEF Visit
<1>2. QED
  BY <1>1 DEF Before

LEMMA VisitedNames ==
  ASSUME NEW img, NEW names \in Seq(Name), NEW visits \in SUBSET Visit,
         FirstVisits(img, names, visits)
  PROVE  IsInjective(names)
<1>1. SUFFICES ASSUME NEW i \in 1 .. Len(names), NEW j \in 1 .. Len(names),
                      i < j, names[i] = names[j]
               PROVE  FALSE
  <2>1. DOMAIN names = 1 .. Len(names) /\ Len(names) \in Nat
    OBVIOUS
  <2>2. ASSUME NEW i \in 1 .. Len(names), NEW j \in 1 .. Len(names), names[i] = names[j]
        PROVE  i = j
    <3>1. ~(i < j) /\ ~(j < i)
      BY <1>1, <2>2
    <3>2. QED
      BY <3>1
  <2>3. QED
    BY <2>1, <2>2 DEF IsInjective
<1>2. i \in DOMAIN names /\ j \in DOMAIN names
  OBVIOUS
<1>3. PICK v \in Of(img, visits, names[i]) : \A w \in Of(img, visits, names[j]) : Before(v, w)
  BY <1>1, <1>2, NamesOfVisits
<1>4. Before(v, v) /\ v \in Visit
  BY <1>1, <1>3 DEF Of
<1>5. QED
  BY <1>4, Asymmetric

\* A set of visits gives one list of names.
LEMMA FirstVisitsUnique ==
  ASSUME NEW img, NEW r \in Seq(Name), NEW s \in Seq(Name), Len(r) = Len(s),
         NEW visits \in SUBSET Visit,
         FirstVisits(img, r, visits), FirstVisits(img, s, visits)
  PROVE  r = s
<1> DEFINE n == Len(r)
<1> DEFINE T == {i \in 1 .. n : r[i] # s[i]}
<1>1. n \in Nat /\ DOMAIN r = 1 .. n /\ DOMAIN s = 1 .. n
  OBVIOUS
<1>2. IsInjective(r) /\ IsInjective(s)
  BY VisitedNames
<1>3. Range(r) = Range(s)
  BY NamesOfVisits
<1>4. SUFFICES ASSUME T # {} PROVE FALSE
  <2>1. T = {} => \A i \in 1 .. n : r[i] = s[i]
    OBVIOUS
  <2>2. QED
    BY <1>4, <2>1
<1>5. T \subseteq Nat
  BY <1>1
<1>6. PICK k \in T : \A y \in T : k <= y
  <2> HIDE DEF T
  <2>1. Min(T) \in T /\ \A y \in T : Min(T) <= y
    BY <1>4, <1>5, LeastNat
  <2>2. QED
    BY <2>1
<1>7. k \in 1 .. n /\ k \in Nat /\ r[k] # s[k]
  OBVIOUS
<1>8. \A i \in 1 .. n : i < k => r[i] = s[i]
  <2>1. ASSUME NEW i \in 1 .. n, i < k, r[i] # s[i] PROVE FALSE
    <3>1. i \in T /\ i \in Nat
      BY <1>1, <2>1
    <3>2. k <= i
      BY <1>6, <3>1
    <3>3. QED
      BY <1>7, <2>1, <3>1, <3>2
  <2>2. QED
    BY <2>1
<1> HIDE DEF T
<1>9. PICK j \in 1 .. n : s[j] = r[k]
  <2>1. r[k] \in Range(s)
    BY <1>1, <1>3, <1>7 DEF Range
  <2>2. QED
    BY <1>1, <2>1 DEF Range
<1>10. PICK l \in 1 .. n : r[l] = s[k]
  <2>1. s[k] \in Range(r)
    BY <1>1, <1>3, <1>7 DEF Range
  <2>2. QED
    BY <1>1, <2>1 DEF Range
<1>11. k < j
  <2>1. CASE j < k
    <3>1. r[j] = r[k] /\ j # k
      BY <1>1, <1>7, <1>8, <1>9, <2>1
    <3>2. QED
      BY <1>1, <1>2, <1>7, <3>1 DEF IsInjective
  <2>2. CASE j = k
    BY <1>7, <1>9, <2>2
  <2>3. QED
    BY <1>1, <1>7, <2>1, <2>2
<1>12. k < l
  <2>1. CASE l < k
    <3>1. s[l] = s[k] /\ l # k
      BY <1>1, <1>7, <1>8, <1>10, <2>1
    <3>2. QED
      BY <1>1, <1>2, <1>7, <3>1 DEF IsInjective
  <2>2. CASE l = k
    BY <1>7, <1>10, <2>2
  <2>3. QED
    BY <1>1, <1>7, <2>1, <2>2
<1>13. PICK v \in Of(img, visits, s[k]) : \A w \in Of(img, visits, r[k]) : Before(v, w)
  BY <1>1, <1>7, <1>9, <1>11, NamesOfVisits
<1>14. PICK w \in Of(img, visits, r[k]) : \A u \in Of(img, visits, s[k]) : Before(w, u)
  BY <1>1, <1>7, <1>10, <1>12, NamesOfVisits
<1>15. v \in Visit /\ w \in Visit /\ Before(v, w) /\ Before(w, v)
  BY <1>13, <1>14 DEF Of
<1>16. QED
  BY <1>15, Asymmetric

\* Lists of distinct names of one length have the same names if one has those
\* of the other.
LEMMA SameNames ==
  ASSUME NEW r \in Seq(Name), NEW s \in Seq(Name), Len(r) = Len(s),
         IsInjective(r), IsInjective(s), Range(r) \subseteq Range(s)
  PROVE  Range(r) = Range(s)
<1> DEFINE D == 1 .. Len(r)
<1>1. IsFiniteSet(D)
  <2>1. Len(r) \in Int /\ 1 \in Int
    OBVIOUS
  <2>2. QED
    BY <2>1, FS_Interval
<1>2. ASSUME NEW q \in Seq(Name), Len(q) = Len(r), IsInjective(q)
      PROVE  ExistsBijection(D, Range(q))
  <2>1. q \in [D -> Name] /\ DOMAIN q = D
    BY <1>2
  <2> HIDE DEF D
  <2>2. q \in Injection(D, Name)
    BY <1>2, <2>1 DEF Injection, IsInjective
  <2>3. q \in Bijection(D, Range(q))
    BY <2>2, Fun_InjMeansBijImage
  <2>4. QED
    BY <2>3 DEF ExistsBijection
<1>3. ExistsBijection(D, Range(r)) /\ ExistsBijection(D, Range(s))
  BY <1>2
<1> HIDE DEF D
<1>4. /\ IsFiniteSet(Range(s))
      /\ Cardinality(Range(r)) = Cardinality(D) /\ Cardinality(Range(s)) = Cardinality(D)
  BY <1>1, <1>3, FS_Bijection
<1>5. QED
  BY <1>4, FS_Subset

\* The next visit adds its name if it is new.
LEMMA VisitAdded ==
  ASSUME NEW img, NEW names \in Seq(Name), NEW visits \in SUBSET Visit, NEW u \in Visit,
         img.code[u[2]].to \in Name, FirstVisits(img, names, visits),
         \A v \in visits : Before(v, u)
  PROVE  LET name == img.code[u[2]].to IN
         FirstVisits(img, IF name \in Range(names) THEN names ELSE Append(names, name),
                     visits \cup {u})
<1> DEFINE name == img.code[u[2]].to
           more == visits \cup {u}
           n == Len(names)
<1>0. n \in Nat /\ DOMAIN names = 1 .. n
  OBVIOUS
<1>1. {img.code[v[2]].to : v \in more} = Range(names) \cup {name}
  BY NamesOfVisits
<1>2. CASE name \in Range(names)
  <2>1. ASSUME NEW i \in DOMAIN names, NEW j \in DOMAIN names, i < j
        PROVE  \E v \in Of(img, more, names[i]) : \A w \in Of(img, more, names[j]) : Before(v, w)
    <3>1. PICK v \in Of(img, visits, names[i]) : \A w \in Of(img, visits, names[j]) : Before(v, w)
      BY <2>1, NamesOfVisits
    <3>2. v \in visits /\ v \in Of(img, more, names[i])
      BY DEF Of
    <3>3. \A w \in Of(img, more, names[j]) : w \in Of(img, visits, names[j]) \/ w = u
      BY DEF Of
    <3>4. \A w \in Of(img, more, names[j]) : Before(v, w)
      BY <3>1, <3>2, <3>3
    <3>5. QED
      BY <3>2, <3>4
  <2>2. Range(names) = {img.code[v[2]].to : v \in more}
    BY <1>1, <1>2
  <2> HIDE DEF name, more
  <2>3. FirstVisits(img, names, more)
    BY <2>1, <2>2, NamesOfVisits
  <2>4. QED
    BY <1>2, <2>3 DEF name, more
<1>3. CASE name \notin Range(names)
  <2> DEFINE longer == Append(names, name)
  <2>1. /\ longer \in Seq(Name) /\ Len(longer) = n + 1
        /\ \A i \in 1 .. n : longer[i] = names[i]
        /\ longer[n + 1] = name
    OBVIOUS
  <2>2. DOMAIN longer = 1 .. n + 1
    BY <2>1
  <2> HIDE DEF longer
  <2>3. Range(longer) = Range(names) \cup {name}
    BY <1>0, <2>1, <2>2 DEF Range
  <2>4. \A i \in 1 .. n : names[i] # name /\ names[i] \in Range(names)
    BY <1>0, <1>3 DEF Range
  <2>5. \A i \in 1 .. n : Of(img, more, names[i]) = Of(img, visits, names[i])
    BY <2>4 DEF Of
  <2>6. Of(img, more, name) = {u}
    <3>1. \A v \in visits : img.code[v[2]].to \in Range(names)
      BY NamesOfVisits
    <3>2. QED
      BY <1>3, <3>1 DEF Of
  <2>7. ASSUME NEW i \in DOMAIN longer, NEW j \in DOMAIN longer, i < j
        PROVE  \E v \in Of(img, more, longer[i]) : \A w \in Of(img, more, longer[j]) : Before(v, w)
    <3>1. i \in 1 .. n /\ (j \in 1 .. n \/ j = n + 1)
      BY <1>0, <2>2, <2>7
    <3>2. CASE j \in 1 .. n
      <4>1. \E v \in Of(img, visits, names[i]) : \A w \in Of(img, visits, names[j]) : Before(v, w)
        BY <1>0, <2>7, <3>1, <3>2, NamesOfVisits
      <4>2. QED
        BY <2>1, <2>5, <3>1, <3>2, <4>1
    <3>3. CASE j = n + 1
      <4>1. names[i] \in {img.code[v[2]].to : v \in visits}
        BY <2>4, <3>1, NamesOfVisits
      <4>2. PICK v \in visits : img.code[v[2]].to = names[i]
        BY <4>1
      <4>3. v \in Of(img, more, names[i]) /\ Before(v, u)
        BY <4>2 DEF Of
      <4>4. longer[i] = names[i] /\ longer[j] = name
        BY <2>1, <3>1, <3>3
      <4>5. \A w \in Of(img, more, longer[j]) : Before(v, w)
        BY <2>6, <4>3, <4>4
      <4>6. QED
        BY <4>3, <4>4, <4>5
    <3>4. QED
      BY <3>1, <3>2, <3>3
  <2>8. Range(longer) = {img.code[v[2]].to : v \in more}
    BY <1>1, <2>3
  <2> HIDE DEF name, more
  <2>9. FirstVisits(img, longer, more)
    BY <2>7, <2>8, NamesOfVisits
  <2>10. QED
    BY <1>3, <2>9 DEF name, more, longer
<1>4. QED
  BY <1>2, <1>3
-----------------------------------------------------------------------------
(***************************************************************************)
(* Names.                                                                  *)
(***************************************************************************)
load == find_load_il2cpp(image)
Calls == call_targets_in_body(image, load)
LoadsAt(c) == lea_strings_in_body(image, Callee(image, load, c))

\* All visits of the scan, and those that are left.
ScanVisits ==
  {v \in ({0} \cup Calls) \X DOMAIN image.code : v[2] \in LoadsAt(v[1])}
Left == {v \in ScanVisits : v[1] \in callees \/ (v[1] = caller /\ v[2] \in strings)}

\* The calls are followed in their order.
InOrder ==
  /\ caller \in {0} \cup Calls /\ callees \subseteq Calls
  /\ \A c \in callees : caller < c
  /\ strings \subseteq LoadsAt(caller)

\* The visits that were made come before those that are left, and gave the
\* names that were found.
Collecting ==
  /\ load # 0
  /\ InOrder
  /\ \A v \in ScanVisits \ Left, w \in Left : Before(v, w)
  /\ FirstVisits(image, found, ScanVisits \ Left)
Collected == found = <<>> \/ (load # 0 /\ FirstVisits(image, found, ScanVisits))

FoundInv ==
  /\ stage \in {"read", "find"} => found = <<>> /\ caller = 0
  /\ stage = "collect" => Collecting
  /\ stage \in {"embedded", "resolved"} => Collected

NamesInv == NamesTypeOK /\ FoundInv

LEMMA SameImage ==
  ASSUME image' = image
  PROVE  /\ load' = load /\ Calls' = Calls /\ ScanVisits' = ScanVisits
         /\ \A c : LoadsAt(c)' = LoadsAt(c)
<1>1. load' = load
  BY DEF load
<1>2. Calls' = Calls
  BY <1>1 DEF Calls
<1>3. \A c : LoadsAt(c)' = LoadsAt(c)
  BY <1>1 DEF LoadsAt
<1>4. ScanVisits' = ScanVisits
  BY <1>2, <1>3 DEF ScanVisits
<1>5. QED
  BY <1>1, <1>2, <1>3, <1>4

LEMMA Scans ==
  ASSUME IsCode(image), load # 0
  PROVE  /\ Calls \subseteq DOMAIN image.code /\ 0 \notin Calls
         /\ \A c \in {0} \cup Calls : /\ Callee(image, load, c) \in Nat \ {0}
                                      /\ LoadsAt(c) \subseteq DOMAIN image.code
                                      /\ \A i \in LoadsAt(c) : image.code[i].to \in Name
<1>1. load \in Nat \ {0}
  BY LoadFound DEF load
<1>2. Calls \subseteq DOMAIN image.code /\ \A c \in Calls : image.code[c].to \in Nat \ {0}
  BY <1>1, Targets DEF Calls
<1>3. 0 \notin Calls
  BY <1>2, Domain
<1>4. ASSUME NEW c \in {0} \cup Calls
      PROVE  Callee(image, load, c) \in Nat \ {0}
  BY <1>1, <1>2 DEF Callee
<1>5. ASSUME NEW c \in {0} \cup Calls
      PROVE  /\ LoadsAt(c) \subseteq DOMAIN image.code
             /\ \A i \in LoadsAt(c) : image.code[i].to \in Name
  BY <1>4, Targets DEF LoadsAt
<1>6. QED
  BY <1>2, <1>3, <1>4, <1>5

LEMMA VisitsArePlaces ==
  ASSUME IsCode(image), load # 0
  PROVE  /\ ScanVisits \in SUBSET Visit
         /\ \A v \in ScanVisits : image.code[v[2]].to \in Name
<1>1. {0} \cup Calls \subseteq Nat /\ DOMAIN image.code \subseteq Nat
  BY Scans, Domain
<1>2. ScanVisits \in SUBSET Visit
  BY <1>1 DEF ScanVisits, Visit
<1>3. ASSUME NEW v \in ScanVisits PROVE image.code[v[2]].to \in Name
  <2>1. v[1] \in {0} \cup Calls /\ v[2] \in LoadsAt(v[1])
    BY DEF ScanVisits
  <2>2. QED
    BY <2>1, Scans
<1>4. QED
  BY <1>2, <1>3

LEMMA NamesStart == NamesInit => NamesInv
<1> SUFFICES ASSUME NamesInit PROVE NamesInv
  OBVIOUS
<1>1. image \in Image /\ IsCode(image)
  BY ImageAssumption DEF NamesInit, IsImage
<1>2. NamesTypeOK
  BY <1>1 DEF NamesInit, NamesTypeOK
<1>3. FoundInv
  BY DEF NamesInit, FoundInv
<1>4. QED
  BY <1>2, <1>3 DEF NamesInv

LEMMA FindStep == NamesInv /\ FindLoadIl2CPP => NamesInv'
<1> SUFFICES ASSUME NamesInv, FindLoadIl2CPP PROVE NamesInv'
  OBVIOUS
<1>1. /\ stage = "find" /\ found = <<>> /\ found' = found /\ caller = 0 /\ caller' = caller
      /\ image' = image /\ map' = map /\ map = None
      /\ load' = load /\ Calls' = Calls /\ ScanVisits' = ScanVisits
  BY SameImage DEF NamesInv, FoundInv, FindLoadIl2CPP, NamesTypeOK
<1>2. IsCode(image)
  BY DEF NamesInv, NamesTypeOK
<1>3. CASE load = 0
  <2>1. stage' = "embedded" /\ UNCHANGED <<strings, callees>>
    BY <1>3 DEF FindLoadIl2CPP, load
  <2>2. NamesTypeOK'
    BY <1>1, <2>1 DEF NamesInv, NamesTypeOK
  <2>3. FoundInv'
    BY <1>1, <2>1 DEF FoundInv, Collected
  <2>4. QED
    BY <2>2, <2>3 DEF NamesInv
<1>4. CASE load # 0
  <2>1. strings' = LoadsAt(0) /\ callees' = Calls /\ stage' = "collect"
    BY <1>4 DEF FindLoadIl2CPP, load, LoadsAt, Callee, Calls
  <2>2. strings' \subseteq DOMAIN image.code /\ callees' \subseteq DOMAIN image.code
    BY <1>2, <1>4, <2>1, Scans
  <2>3. NamesTypeOK'
    BY <1>1, <2>1, <2>2 DEF NamesInv, NamesTypeOK
  <2>4. \A c \in Calls : 0 < c
    BY <1>2, <1>4, Scans, Domain
  <2>5. InOrder'
    BY <1>1, <2>1, <2>4, SameImage DEF InOrder
  <2>6. Left' = ScanVisits
    <3>1. \A v \in ScanVisits : v[1] \in Calls \/ (v[1] = 0 /\ v[2] \in LoadsAt(0))
      BY DEF ScanVisits
    <3>2. QED
      BY <1>1, <2>1, <3>1 DEF Left
  <2>7. ScanVisits' \ Left' = {}
    BY <1>1, <2>6
  <2>8. FirstVisits(image, <<>>, {})
    BY DEF FirstVisits, Range
  <2>9. Collecting'
    BY <1>1, <1>4, <2>5, <2>7, <2>8 DEF Collecting
  <2>10. FoundInv'
    BY <2>1, <2>9 DEF FoundInv
  <2>11. QED
    BY <2>3, <2>10 DEF NamesInv
<1>5. QED
  BY <1>3, <1>4

LEMMA AddStep == NamesInv /\ AddName => NamesInv'
<1> SUFFICES ASSUME NamesInv, AddName PROVE NamesInv'
  OBVIOUS
<1> DEFINE m == Min(strings)
           u == <<caller, m>>
           name == image.code[m].to
<1>1. /\ stage = "collect" /\ strings # {} /\ strings' = strings \ {m}
      /\ found' = IF name \in Range(found) THEN found ELSE Append(found, name)
      /\ UNCHANGED <<image, stage, caller, callees, map>>
  BY DEF AddName
<1>2. /\ IsCode(image) /\ found \in Seq(Name) /\ Collecting /\ load # 0 /\ InOrder
      /\ caller \in DOMAIN image.code \cup {0}
      /\ strings \subseteq DOMAIN image.code /\ callees \subseteq DOMAIN image.code
  BY <1>1 DEF NamesInv, NamesTypeOK, FoundInv, Collecting
<1>3. /\ DOMAIN image.code \subseteq Nat /\ caller \in Nat
      /\ strings \subseteq Nat /\ callees \subseteq Nat
  BY <1>2, Domain
<1>4. m \in strings /\ \A i \in strings \ {m} : m < i
  <2>1. m \in strings /\ \A i \in strings : m <= i
    BY <1>1, <1>3, LeastNat
  <2> HIDE DEF m
  <2>2. QED
    BY <1>3, <2>1
<1> HIDE DEF m
<1>5. u \in ScanVisits /\ u \in Left
  <2>1. m \in LoadsAt(caller) /\ caller \in {0} \cup Calls
    BY <1>2, <1>4 DEF InOrder
  <2>2. m \in DOMAIN image.code
    BY <1>2, <1>4
  <2>3. u \in ScanVisits
    BY <2>1, <2>2 DEF ScanVisits
  <2>4. QED
    BY <1>4, <2>3 DEF Left
<1>6. name \in Name /\ ScanVisits \in SUBSET Visit /\ u \in Visit
  BY <1>2, <1>5, VisitsArePlaces
<1>7. caller \notin callees
  BY <1>2, <1>3 DEF InOrder
<1>8. load' = load /\ Calls' = Calls /\ ScanVisits' = ScanVisits
  BY <1>1, SameImage
<1>9. Left' = Left \ {u}
  <2>1. Left' = {v \in ScanVisits : v[1] \in callees \/ (v[1] = caller /\ v[2] \in strings \ {m})}
    BY <1>1, <1>8 DEF Left
  <2>2. ASSUME NEW v \in ScanVisits
        PROVE  v \in Left' <=> v \in Left /\ v # u
    <3>1. v = <<v[1], v[2]>>
      BY DEF ScanVisits
    <3>2. v # u <=> v[1] # caller \/ v[2] # m
      BY <3>1
    <3>3. v \in Left <=> v[1] \in callees \/ (v[1] = caller /\ v[2] \in strings)
      BY DEF Left
    <3>4. v \in Left' <=> v[1] \in callees \/ (v[1] = caller /\ v[2] \in strings \ {m})
      BY <2>1
    <3>5. QED
      BY <1>7, <3>2, <3>3, <3>4
  <2>3. Left' \subseteq ScanVisits /\ Left \subseteq ScanVisits
    BY <2>1 DEF Left
  <2>4. QED
    BY <2>2, <2>3
<1>10. (ScanVisits \ Left)' = (ScanVisits \ Left) \cup {u}
  BY <1>5, <1>8, <1>9
<1>11. \A w \in Left' : Before(u, w)
  <2>1. ASSUME NEW w \in Left' PROVE Before(u, w)
    <3>1. w[1] \in callees \/ (w[1] = caller /\ w[2] \in strings \ {m})
      BY <1>1 DEF Left
    <3>2. w[1] \in callees => caller < w[1]
      BY <1>2 DEF InOrder
    <3>3. QED
      BY <1>4, <3>1, <3>2 DEF Before
  <2>2. QED
    BY <2>1
<1>12. \A v \in ScanVisits \ Left, w \in Left : Before(v, w)
  BY <1>2 DEF Collecting
<1>13. \A v \in (ScanVisits \ Left)', w \in Left' : Before(v, w)
  BY <1>9, <1>10, <1>11, <1>12
<1>14. FirstVisits(image, found', (ScanVisits \ Left)')
  <2>1. FirstVisits(image, found, ScanVisits \ Left) /\ \A v \in ScanVisits \ Left : Before(v, u)
    BY <1>2, <1>5, <1>12 DEF Collecting
  <2>2. ScanVisits \ Left \in SUBSET Visit /\ u[2] = m
    BY <1>6
  <2> DEFINE seen == ScanVisits \ Left
  <2> HIDE DEF seen, u
  <2>3. FirstVisits(image, IF name \in Range(found) THEN found ELSE Append(found, name), seen \cup {u})
    BY <1>2, <1>6, <2>1, <2>2, VisitAdded DEF seen
  <2>4. QED
    BY <1>1, <1>10, <2>3 DEF seen
<1>15. InOrder'
  BY <1>1, <1>2, <1>8, SameImage DEF InOrder
<1>16. Collecting'
  BY <1>1, <1>2, <1>8, <1>13, <1>14, <1>15 DEF Collecting
<1>17. FoundInv'
  BY <1>1, <1>16 DEF FoundInv
<1>18. found' \in Seq(Name)
  BY <1>1, <1>2, <1>6
<1>19. NamesTypeOK'
  BY <1>1, <1>18 DEF NamesInv, NamesTypeOK
<1>20. QED
  BY <1>17, <1>19 DEF NamesInv

LEMMA CalleeStep == NamesInv /\ NextCallee => NamesInv'
<1> SUFFICES ASSUME NamesInv, NextCallee PROVE NamesInv'
  OBVIOUS
<1> DEFINE c == Min(callees)
<1>1. /\ stage = "collect" /\ strings = {} /\ callees # {}
      /\ caller' = c /\ callees' = callees \ {c}
      /\ strings' = lea_strings_in_body(image, image.code[c].to)
      /\ UNCHANGED <<image, stage, found, map>>
  BY DEF NextCallee
<1>2. /\ IsCode(image) /\ Collecting /\ load # 0 /\ InOrder
      /\ callees \subseteq DOMAIN image.code
  BY <1>1 DEF NamesInv, NamesTypeOK, FoundInv, Collecting
<1>3. callees \subseteq Nat
  BY <1>2, Domain
<1>4. c \in callees /\ \A d \in callees \ {c} : c < d
  <2>1. c \in callees /\ \A d \in callees : c <= d
    BY <1>1, <1>3, LeastNat
  <2> HIDE DEF c
  <2>2. QED
    BY <1>3, <2>1
<1> HIDE DEF c
<1>5. c \in Calls /\ c # 0 /\ c \in DOMAIN image.code
  BY <1>2, <1>4, Scans DEF InOrder
<1>6. strings' = LoadsAt(c)
  BY <1>1, <1>5 DEF LoadsAt, Callee
<1>7. load' = load /\ Calls' = Calls /\ ScanVisits' = ScanVisits
  BY <1>1, SameImage
<1>8. Left' = Left
  <2>1. Left' = {v \in ScanVisits : v[1] \in callees \ {c} \/ (v[1] = c /\ v[2] \in LoadsAt(c))}
    BY <1>1, <1>6, <1>7 DEF Left
  <2>2. Left = {v \in ScanVisits : v[1] \in callees}
    BY <1>1 DEF Left
  <2>3. \A v \in ScanVisits : v[2] \in LoadsAt(v[1])
    BY DEF ScanVisits
  <2>4. QED
    BY <1>4, <2>1, <2>2, <2>3
<1>9. InOrder'
  <2>1. strings' \subseteq LoadsAt(caller)'
    BY <1>1, <1>6, <1>7 DEF LoadsAt
  <2>2. QED
    BY <1>1, <1>2, <1>4, <1>5, <1>7, <2>1 DEF InOrder
<1>10. Collecting'
  BY <1>1, <1>2, <1>7, <1>8, <1>9 DEF Collecting
<1>11. FoundInv'
  BY <1>1, <1>10 DEF FoundInv
<1>12. strings' \subseteq DOMAIN image.code
  BY <1>2, <1>5, <1>6, Scans
<1>13. NamesTypeOK'
  BY <1>1, <1>2, <1>5, <1>12 DEF NamesInv, NamesTypeOK
<1>14. QED
  BY <1>11, <1>13 DEF NamesInv

LEMMA TakeStep == NamesInv /\ TakeFound => NamesInv'
<1> SUFFICES ASSUME NamesInv, TakeFound PROVE NamesInv'
  OBVIOUS
<1>1. /\ stage = "collect" /\ strings = {} /\ callees = {}
      /\ UNCHANGED <<image, caller, strings, callees, found>>
  BY DEF TakeFound, AllSeen
<1>2. Collecting /\ found \in Seq(Name)
  BY <1>1 DEF NamesInv, NamesTypeOK, FoundInv
<1>3. Left = {}
  BY <1>1 DEF Left
<1>4. ScanVisits \ Left = ScanVisits
  BY <1>3
<1>5. load # 0 /\ FirstVisits(image, found, ScanVisits)
  BY <1>2, <1>4 DEF Collecting
<1>6. Collected'
  BY <1>1, <1>5, SameImage DEF Collected
<1>7. FoundInv' /\ NamesTypeOK'
  <2>1. CASE Len(found) = Count
    <3>1. map' = found /\ stage' = "resolved" /\ found # None
      BY <1>2, <2>1, NamesAssumption DEF TakeFound
    <3>2. QED
      BY <1>1, <1>2, <1>6, <2>1, <3>1 DEF NamesInv, FoundInv, NamesTypeOK
  <2>2. CASE Len(found) # Count
    <3>1. map' = map /\ stage' = "embedded"
      BY <2>2 DEF TakeFound
    <3>2. QED
      BY <1>1, <1>2, <1>6, <3>1 DEF NamesInv, FoundInv, NamesTypeOK
  <2>3. QED
    BY <2>1, <2>2
<1>8. QED
  BY <1>7 DEF NamesInv

LEMMA EmbeddedStep == NamesInv /\ resolve_embedded => NamesInv'
<1> SUFFICES ASSUME NamesInv, resolve_embedded PROVE NamesInv'
  OBVIOUS
<1>1. /\ stage = "embedded" /\ map' = Embedded /\ stage' = "resolved"
      /\ UNCHANGED <<image, caller, strings, callees, found>>
  BY DEF resolve_embedded
<1>2. Collected'
  BY <1>1, SameImage DEF NamesInv, FoundInv, Collected
<1>3. Embedded \in Seq(Name) /\ Len(Embedded) = Count /\ Embedded # None
  BY NamesAssumption
<1>4. NamesTypeOK'
  BY <1>1, <1>3 DEF NamesInv, NamesTypeOK
<1>5. FoundInv'
  BY <1>1, <1>2 DEF FoundInv
<1>6. QED
  BY <1>4, <1>5 DEF NamesInv

LEMMA NamesStep == NamesInv /\ [resolve]_nameVars => NamesInv'
<1>1. NamesInv /\ ReadFails => NamesInv'
  BY DEF NamesInv, NamesTypeOK, FoundInv, Collected, ReadFails
<1>2. NamesInv /\ ReadImage => NamesInv'
  BY DEF NamesInv, NamesTypeOK, FoundInv, ReadImage
<1>3. NamesInv /\ UNCHANGED nameVars => NamesInv'
  <2> SUFFICES ASSUME NamesInv, UNCHANGED nameVars PROVE NamesInv'
    OBVIOUS
  <2>1. UNCHANGED <<image, stage, caller, strings, callees, found, map>>
    BY DEF nameVars
  <2>2. load' = load /\ Calls' = Calls /\ ScanVisits' = ScanVisits /\ LoadsAt(caller)' = LoadsAt(caller)
    BY <2>1, SameImage
  <2>3. Left' = Left
    BY <2>1, <2>2 DEF Left
  <2>4. InOrder => InOrder'
    BY <2>1, <2>2 DEF InOrder
  <2>5. Collecting => Collecting'
    BY <2>1, <2>2, <2>3, <2>4 DEF Collecting
  <2>6. FoundInv'
    BY <2>1, <2>2, <2>5 DEF NamesInv, FoundInv, Collected
  <2>7. NamesTypeOK'
    BY <2>1 DEF NamesInv, NamesTypeOK
  <2>8. QED
    BY <2>6, <2>7 DEF NamesInv
<1>4. QED
  BY <1>1, <1>2, <1>3, FindStep, AddStep, CalleeStep, TakeStep, EmbeddedStep DEF resolve

\* A function is an interval of the code.
LEMMA OwnEnd ==
  ASSUME NEW img, IsCode(img), NEW a \in 1 .. Len(img.code)
  PROVE  \E n \in Nat : Own(img, a) = a .. n /\ n <= Len(img.code)
<1> DEFINE T == {e - 1 : e \in {f \in img.entries : f > a}} \cup {Len(img.code)}
<1>1. Len(img.code) \in Nat /\ img.entries \subseteq 1 .. Len(img.code)
  BY DEF IsCode
<1>2. T \subseteq Nat /\ Len(img.code) \in T
  BY <1>1
<1>3. Own(img, a) = a .. Min(T)
  BY DEF Own
<1> HIDE DEF T
<1>4. Min(T) \in Nat /\ Min(T) <= Len(img.code)
  BY <1>2, LeastNat
<1>5. QED
  BY <1>3, <1>4

\* A scan that ends in the function sees nothing behind it.
LEMMA WithinOwn ==
  ASSUME NEW img, IsCode(img), NEW a \in Nat \ {0}, NEW e \in Own(img, a),
         img.code[e].kind = "int3", NEW i \in a .. body_end(img, a)
  PROVE  i \in Own(img, a)
<1>1. body_end(img, a) \in Nat /\ body_end(img, a) <= Len(img.code) /\ Len(img.code) \in Nat
  BY BodyEnd, Domain
<1>2. a \in 1 .. Len(img.code)
  BY <1>1
<1>3. PICK n \in Nat : Own(img, a) = a .. n /\ n <= Len(img.code)
  BY <1>2, OwnEnd
<1>4. e \in a .. Len(img.code)
  BY <1>1, <1>3
<1>5. body_end(img, a) < e
  BY <1>4, BodyEnd
<1>6. QED
  BY <1>1, <1>3, <1>5

\* The visits that a disassembler makes are visits of places, too.
LEMMA RealVisitsArePlaces ==
  ASSUME IsCode(image)
  PROVE  RealVisits(image) \in SUBSET Visit
<1>1. DOMAIN image.code \subseteq Nat /\ 1 .. Len(image.code) \subseteq Nat
  BY Domain
<1>2. image.load \in 1 .. Len(image.code)
  BY DEF IsCode
<1>3. RealCalls(image, image.load) \subseteq Nat
  <2>1. \A i \in RealCalls(image, image.load) : i \in Own(image, image.load)
    BY DEF RealCalls
  <2>2. Own(image, image.load) \subseteq Nat
    BY <1>2, Domain, OwnEnd
  <2>3. QED
    BY <2>1, <2>2
<1>4. QED
  BY <1>1, <1>3 DEF RealVisits, Visit

\* A scan that stays on its path and finds the names of the image, none of them
\* at another load than a disassembler, makes the visits of a disassembler.
LEMMA SameVisits ==
  ASSUME IsCode(image), OnPath, ~FoundElsewhere, load # 0,
         FirstVisits(image, found, ScanVisits), FirstVisits(image, image.names, RealVisits(image)),
         Range(found) = Range(image.names)
  PROVE  ScanVisits = RealVisits(image)
<1>1. load = image.load /\ Calls = RealCalls(image, image.load)
  BY DEF OnPath, load, Calls
<1>2. \A c \in {0} \cup Calls : Callee(image, load, c) \in OnThePath /\ Callee(image, load, c) \in Nat \ {0}
  BY <1>1, Scans DEF OnThePath, Callee
<1>3. \A v \in ScanVisits : image.code[v[2]].to \in Range(found)
  BY NamesOfVisits
<1>4. \A v \in RealVisits(image) : image.code[v[2]].to \in Range(found)
  BY NamesOfVisits
<1>5. ASSUME NEW v \in RealVisits(image)
      PROVE  v \in ScanVisits
  <2>1. /\ v \in ({0} \cup Calls) \X (1 .. Len(image.code))
        /\ v[2] \in RealLoads(image, Callee(image, load, v[1]))
    BY <1>1 DEF RealVisits
  <2>2. v[2] \in LoadsAt(v[1])
    BY <1>2, <1>4, <2>1 DEF FoundElsewhere, LoadsAt
  <2>3. QED
    BY <2>1, <2>2, Domain DEF ScanVisits
<1>6. ASSUME NEW v \in ScanVisits
      PROVE  v \in RealVisits(image)
  <2> DEFINE a == Callee(image, load, v[1])
  <2>1. /\ v \in ({0} \cup Calls) \X DOMAIN image.code
        /\ v[2] \in lea_strings_in_body(image, a)
    BY DEF ScanVisits, LoadsAt
  <2>2. a \in OnThePath /\ a \in Nat \ {0}
    BY <1>2, <2>1
  <2> HIDE DEF a
  <2>3. /\ v[2] \in a .. body_end(image, a) /\ image.code[v[2]].kind = "lea"
        /\ image.code[v[2]].to # None
    BY <2>1 DEF lea_strings_in_body
  <2>4. PICK e \in Own(image, a) : image.code[e].kind = "int3"
    BY <2>2 DEF OnPath
  <2>5. v[2] \in Own(image, a)
    BY <2>2, <2>3, <2>4, WithinOwn
  <2>6. image.code[v[2]].real
    BY <1>3, <2>2, <2>3, <2>5 DEF OnPath
  <2>7. v[2] \in RealLoads(image, a)
    BY <2>3, <2>5, <2>6 DEF RealLoads
  <2>8. QED
    BY <1>1, <2>1, <2>7, Domain DEF RealVisits, a
<1>7. QED
  BY <1>5, <1>6

\* Without both kinds of errors the names found are those of the image; then the
\* visits are, too, and with them the order of the names.
LEMMA ShiftsExcluded == NamesInv /\ image \in Image => ShiftNeedsTwoErrors
<1> SUFFICES ASSUME NamesInv, image \in Image, stage = "resolved", found = map,
                    map # image.names, OnPath, Len(image.names) = Count, ~FoundElsewhere,
                    Missed = {} \/ Strangers = {}
             PROVE  FALSE
  BY DEF ShiftNeedsTwoErrors
<1>1. /\ IsCode(image) /\ image.names \in Seq(Name)
      /\ FirstVisits(image, image.names, RealVisits(image))
  BY ImageAssumption DEF IsImage, IsCode
<1>2. found \in Seq(Name) /\ map # None /\ Len(found) = Len(image.names) /\ Collected
  BY DEF NamesInv, NamesTypeOK, FoundInv
<1>3. CASE found = <<>>
  <2>1. Len(image.names) = 0
    BY <1>2, <1>3
  <2>2. image.names = <<>>
    BY <1>1, <2>1
  <2>3. QED
    BY <1>3, <2>2
<1>4. CASE load # 0 /\ FirstVisits(image, found, ScanVisits)
  <2>1. ScanVisits \in SUBSET Visit /\ RealVisits(image) \in SUBSET Visit
    BY <1>1, <1>4, VisitsArePlaces, RealVisitsArePlaces
  <2>2. IsInjective(found) /\ IsInjective(image.names)
    BY <1>1, <1>2, <1>4, <2>1, VisitedNames
  <2>3. Range(found) = Range(image.names)
    <3>1. CASE Missed = {}
      <4>1. Range(image.names) \subseteq Range(found)
        BY <3>1 DEF Missed
      <4>2. QED
        BY <1>1, <1>2, <2>2, <4>1, SameNames
    <3>2. CASE Strangers = {}
      <4>1. Range(found) \subseteq Range(image.names)
        BY <3>2 DEF Strangers
      <4>2. QED
        BY <1>1, <1>2, <2>2, <4>1, SameNames
    <3>3. QED
      BY <3>1, <3>2
  <2>4. ScanVisits = RealVisits(image)
    BY <1>1, <1>4, <2>3, SameVisits
  <2>5. found = image.names
    BY <1>1, <1>2, <1>4, <2>1, <2>4, FirstVisitsUnique
  <2>6. QED
    BY <2>5
<1>5. QED
  BY <1>2, <1>3, <1>4 DEF Collected

\* The invariant of resolve.
LEMMA NamesInvariant == NamesSpec => [](NamesInv /\ image \in Image)
<1>1. NamesInit => image \in Image
  BY DEF NamesInit
<1>2. image \in Image /\ [resolve]_nameVars => (image \in Image)'
  BY DEF resolve, nameVars, ReadFails, ReadImage, FindLoadIl2CPP, AddName, NextCallee,
         TakeFound, resolve_embedded
<1>3. QED
  BY <1>1, <1>2, NamesStart, NamesStep, PTL DEF NamesSpec

LEMMA Distinct == NamesInv => NamesDistinct
<1> SUFFICES ASSUME NamesInv, stage = "resolved", found = map PROVE IsInjective(map)
  BY DEF NamesDistinct
<1>1. found \in Seq(Name) /\ Collected /\ IsCode(image)
  BY DEF NamesInv, NamesTypeOK, FoundInv
<1>2. CASE found = <<>>
  BY <1>2 DEF IsInjective
<1>3. CASE load # 0 /\ FirstVisits(image, found, ScanVisits)
  BY <1>1, <1>3, VisitsArePlaces, VisitedNames
<1>4. QED
  BY <1>1, <1>2, <1>3 DEF Collected

\* Whatever a scan takes for a call or a load, no two il2cpp functions get one
\* name from it (il2cpp_names.cpp:40-71).
THEOREM ScannedNamesStayDistinct == NamesSpec => []NamesDistinct
BY NamesInvariant, Distinct, PTL

\* Whatever the images look like to the scanner, the test of the number of the
\* names (il2cpp_names.cpp:73-82) lets a list with a wrong position through
\* only if the scan left its path or made two errors at a time.
THEOREM ShiftsAlwaysNeedTwoErrors == NamesSpec => []ShiftNeedsTwoErrors
BY NamesInvariant, ShiftsExcluded, PTL
-----------------------------------------------------------------------------
(***************************************************************************)
(* Recursive functions.                                                    *)
(***************************************************************************)
\* Course-of-values induction: a set that has every number whose predecessors
\* it has.
LEMMA StrongInduction ==
  ASSUME NEW T, \A n \in Nat : (\A m \in Nat : m < n => m \in T) => n \in T
  PROVE  \A n \in Nat : n \in T
<1> DEFINE Bad == {n \in Nat : n \notin T}
<1>1. SUFFICES ASSUME Bad # {} PROVE FALSE
  OBVIOUS
<1>2. Min(Bad) \in Bad /\ \A y \in Bad : Min(Bad) <= y
  BY <1>1, LeastNat
<1>3. \A m \in Nat : m < Min(Bad) => m \in T
  BY <1>2
<1>4. QED
  BY <1>2, <1>3

\* A function on S is defined by what it is at x in terms of what it is at
\* elements of a lower rank.
Agree(S, rank, f, g, n) == \A x \in S : rank[x] < n => f[x] = g[x]
Solves(S, rank, G, f, n) == \A x \in S : rank[x] < n => f[x] = G[<<x, f>>]
Causal(S, V, rank, G) ==
  \A x \in S, f, g \in [S -> V] : Agree(S, rank, f, g, rank[x]) => G[<<x, f>>] = G[<<x, g>>]
Into(S, V, G) == \A x \in S, f \in [S -> V] : G[<<x, f>>] \in V
Fixed(S, G, f) == \A x \in S : f[x] = G[<<x, f>>]

\* Two solutions are the same as far as both are solutions.
LEMMA SolutionsAgree ==
  ASSUME NEW S, NEW V, NEW rank \in [S -> Nat], NEW G,
         Causal(S, V, rank, G),
         NEW n \in Nat, NEW f \in [S -> V], NEW g \in [S -> V],
         Solves(S, rank, G, f, n), Solves(S, rank, G, g, n)
  PROVE  Agree(S, rank, f, g, n)
<1> DEFINE T == {m \in Nat : \A x \in S : rank[x] = m /\ m < n => f[x] = g[x]}
<1>1. ASSUME NEW m \in Nat, \A k \in Nat : k < m => k \in T PROVE m \in T
  <2> SUFFICES ASSUME NEW x \in S, rank[x] = m, m < n PROVE f[x] = g[x]
    OBVIOUS
  <2>1. Agree(S, rank, f, g, rank[x])
    BY <1>1 DEF Agree
  <2>2. G[<<x, f>>] = G[<<x, g>>]
    BY <2>1 DEF Causal
  <2>3. QED
    BY <2>2 DEF Solves
<1>2. \A m \in Nat : m \in T
  <2> HIDE DEF T
  <2>1. QED
    BY <1>1, StrongInduction
<1>3. QED
  BY <1>2 DEF Agree

\* There is a solution up to each rank.
LEMMA SolutionsUpTo ==
  ASSUME NEW S, NEW V, NEW rank \in [S -> Nat], NEW G, NEW v \in V,
         Into(S, V, G),
         Causal(S, V, rank, G)
  PROVE  \A n \in Nat : \E f \in [S -> V] : Solves(S, rank, G, f, n)
<1> DEFINE T == {n \in Nat : \E f \in [S -> V] : Solves(S, rank, G, f, n)}
<1>1. ASSUME NEW n \in Nat, \A m \in Nat : m < n => m \in T PROVE n \in T
  <2>1. CASE n = 0
    <3>1. [x \in S |-> v] \in [S -> V] /\ Solves(S, rank, G, [x \in S |-> v], n)
      BY <2>1 DEF Solves
    <3>2. QED
      BY <3>1
  <2>2. CASE n # 0
    <3>1. n - 1 \in T
      BY <1>1, <2>2
    <3>2. PICK f \in [S -> V] : Solves(S, rank, G, f, n - 1)
      BY <3>1
    <3> DEFINE g == [x \in S |-> IF rank[x] < n - 1 THEN f[x] ELSE G[<<x, f>>]]
    <3>3. g \in [S -> V]
      BY DEF Into
    <3>4. Agree(S, rank, f, g, n - 1)
      BY DEF Agree
    <3>5. ASSUME NEW x \in S, rank[x] < n PROVE g[x] = G[<<x, g>>]
      <4>1. Agree(S, rank, f, g, rank[x])
        BY <3>4, <3>5 DEF Agree
      <4>2. G[<<x, f>>] = G[<<x, g>>]
        BY <4>1, <3>3 DEF Causal
      <4>3. g[x] = G[<<x, f>>]
        BY <3>2 DEF Solves
      <4>4. QED
        BY <4>2, <4>3
    <3>6. Solves(S, rank, G, g, n)
      BY <3>5 DEF Solves
    <3>7. QED
      BY <3>3, <3>6
  <2>3. QED
    BY <2>1, <2>2
<1>2. \A n \in Nat : n \in T
  <2> HIDE DEF T
  <2>1. QED
    BY <1>1, StrongInduction
<1>3. QED
  BY <1>2

\* A recursive function exists.
LEMMA Recursion ==
  ASSUME NEW S, NEW V, NEW rank \in [S -> Nat], NEW G, NEW v \in V,
         Into(S, V, G),
         Causal(S, V, rank, G)
  PROVE  \E f \in [S -> V] : Fixed(S, G, f)
<1> DEFINE At(n) == CHOOSE f \in [S -> V] : Solves(S, rank, G, f, n)
           F == [x \in S |-> At(rank[x] + 1)[x]]
<1>1. \A n \in Nat : At(n) \in [S -> V] /\ Solves(S, rank, G, At(n), n)
  BY SolutionsUpTo
<1> HIDE DEF At
<1>2. F \in [S -> V]
  BY <1>1
<1>3. ASSUME NEW x \in S PROVE F[x] = G[<<x, F>>]
  <2> DEFINE f == At(rank[x] + 1)
  <2>1. f \in [S -> V] /\ Solves(S, rank, G, f, rank[x] + 1)
    BY <1>1
  <2>2. ASSUME NEW y \in S, rank[y] < rank[x] PROVE f[y] = F[y]
    <3>1. Solves(S, rank, G, f, rank[y] + 1)
      BY <2>1, <2>2 DEF Solves
    <3>2. At(rank[y] + 1) \in [S -> V] /\ Solves(S, rank, G, At(rank[y] + 1), rank[y] + 1)
      BY <1>1
    <3>3. Agree(S, rank, f, At(rank[y] + 1), rank[y] + 1)
      <4> HIDE DEF f, F
      <4>1. rank[y] + 1 \in Nat
        OBVIOUS
      <4>2. QED
        BY <2>1, <3>1, <3>2, <4>1, SolutionsAgree
    <3>4. QED
      BY <3>3 DEF Agree
  <2>3. Agree(S, rank, f, F, rank[x])
    BY <2>2 DEF Agree
  <2>4. G[<<x, f>>] = G[<<x, F>>]
    BY <2>1, <2>3, <1>2 DEF Causal
  <2>5. f[x] = G[<<x, f>>]
    BY <2>1 DEF Solves
  <2>6. QED
    BY <2>4, <2>5
<1>4. QED
  BY <1>2, <1>3 DEF Fixed

LEMMA CausalWithin ==
  ASSUME NEW S, NEW W, NEW V, V \subseteq W, NEW rank, NEW G, Causal(S, W, rank, G)
  PROVE  Causal(S, V, rank, G)
<1>1. [S -> V] \subseteq [S -> W]
  OBVIOUS
<1>2. QED
  BY <1>1 DEF Causal

\* Whatever satisfies the equation has values in V.
LEMMA RecursionTyped ==
  ASSUME NEW S, NEW V, NEW W, V \subseteq W, NEW rank \in [S -> Nat], NEW G, NEW v \in V,
         Into(S, V, G),
         Causal(S, W, rank, G),
         NEW h \in [S -> W], Fixed(S, G, h)
  PROVE  h \in [S -> V]
<1>1. [S -> V] \subseteq [S -> W]
  OBVIOUS
<1>2. Causal(S, V, rank, G)
  BY CausalWithin
<1>3. PICK f \in [S -> V] : Fixed(S, G, f)
  BY <1>2, Recursion
<1>4. ASSUME NEW x \in S PROVE f[x] = h[x]
  <2>1. rank[x] + 1 \in Nat /\ f \in [S -> W]
    BY <1>1
  <2>2. Solves(S, rank, G, f, rank[x] + 1) /\ Solves(S, rank, G, h, rank[x] + 1)
    BY <1>3 DEF Solves, Fixed
  <2>3. Agree(S, rank, f, h, rank[x] + 1)
    BY <2>1, <2>2, SolutionsAgree
  <2>4. QED
    BY <2>3 DEF Agree
<1>5. \A x \in S : h[x] \in V
  BY <1>4
<1>6. QED
  BY <1>5

-----------------------------------------------------------------------------
(***************************************************************************)
(* Texts and their brackets.                                               *)
(***************************************************************************)
\* First is the least of some places.
LEMMA FirstPlace ==
  ASSUME NEW P, P \subseteq Nat \ {0}
  PROVE  /\ First(P) \in Nat
         /\ First(P) = 0 <=> P = {}
         /\ P # {} => First(P) \in P
         /\ \A i \in P : (\A j \in P : i <= j) => First(P) = i
<1>1. CASE P = {}
  BY <1>1 DEF First
<1>2. CASE P # {}
  <2>1. Min(P) \in P /\ \A y \in P : Min(P) <= y
    BY <1>2, LeastNat
  <2>2. First(P) = Min(P)
    BY <1>2 DEF First
  <2>3. ASSUME NEW i \in P, \A j \in P : i <= j PROVE First(P) = i
    <3>1. First(P) <= i /\ i <= First(P) /\ First(P) \in Nat /\ i \in Nat
      BY <2>1, <2>2, <2>3
    <3>2. QED
      BY <3>1
  <2>4. First(P) \in Nat \ {0}
    BY <2>1, <2>2
  <2>5. QED
    BY <1>2, <2>1, <2>2, <2>3, <2>4
<1>3. QED
  BY <1>1, <1>2

Opened(s, i) == {j \in 1 .. i : s[j] = "<"}
Closed(s, i) == {j \in 1 .. i : s[j] = ">"}

\* The depth is a number, and follows the brackets.
LEMMA DepthType ==
  ASSUME NEW s, NEW i \in Nat
  PROVE  /\ IsFiniteSet(Opened(s, i)) /\ Cardinality(Opened(s, i)) \in Nat
         /\ IsFiniteSet(Closed(s, i)) /\ Cardinality(Closed(s, i)) \in Nat
         /\ Depth(s, i) = Cardinality(Opened(s, i)) - Cardinality(Closed(s, i))
         /\ Depth(s, i) \in Int
<1>1. IsFiniteSet(1 .. i)
  BY FS_Interval
<1>2. Opened(s, i) \subseteq 1 .. i /\ Closed(s, i) \subseteq 1 .. i
  BY DEF Opened, Closed
<1>3. IsFiniteSet(Opened(s, i)) /\ IsFiniteSet(Closed(s, i))
  BY <1>1, <1>2, FS_Subset
<1>4. Cardinality(Opened(s, i)) \in Nat /\ Cardinality(Closed(s, i)) \in Nat
  BY <1>3, FS_CardinalityType
<1>5. Depth(s, i) = Cardinality(Opened(s, i)) - Cardinality(Closed(s, i))
  BY DEF Depth, Opened, Closed
<1>6. QED
  BY <1>3, <1>4, <1>5

LEMMA DepthStart == \A s : Depth(s, 0) = 0
<1>1. ASSUME NEW s PROVE Opened(s, 0) = {} /\ Closed(s, 0) = {}
  BY DEF Opened, Closed
<1>2. QED
  BY <1>1, DepthType, FS_EmptySet

LEMMA DepthStep ==
  ASSUME NEW s, NEW i \in Nat
  PROVE  Depth(s, i + 1) =
           Depth(s, i) + (IF s[i + 1] = "<" THEN 1 ELSE IF s[i + 1] = ">" THEN -1 ELSE 0)
<1>1. /\ Opened(s, i + 1) =
           IF s[i + 1] = "<" THEN Opened(s, i) \cup {i + 1} ELSE Opened(s, i)
      /\ i + 1 \notin Opened(s, i)
  BY DEF Opened
<1>2. /\ Closed(s, i + 1) =
           IF s[i + 1] = ">" THEN Closed(s, i) \cup {i + 1} ELSE Closed(s, i)
      /\ i + 1 \notin Closed(s, i)
  BY DEF Closed
<1>3. /\ Cardinality(Opened(s, i + 1)) =
           IF s[i + 1] = "<" THEN Cardinality(Opened(s, i)) + 1 ELSE Cardinality(Opened(s, i))
      /\ Cardinality(Closed(s, i + 1)) =
           IF s[i + 1] = ">" THEN Cardinality(Closed(s, i)) + 1 ELSE Cardinality(Closed(s, i))
  BY <1>1, <1>2, DepthType, FS_AddElement
<1>4. "<" # ">"
  OBVIOUS
<1>5. i + 1 \in Nat
  OBVIOUS
<1> DEFINE o == Cardinality(Opened(s, i))
           c == Cardinality(Closed(s, i))
           o2 == Cardinality(Opened(s, i + 1))
           c2 == Cardinality(Closed(s, i + 1))
<1>6. o \in Nat /\ c \in Nat /\ Depth(s, i) = o - c /\ Depth(s, i + 1) = o2 - c2
  BY <1>5, DepthType
<1>7. /\ o2 = IF s[i + 1] = "<" THEN o + 1 ELSE o
      /\ c2 = IF s[i + 1] = ">" THEN c + 1 ELSE c
  BY <1>3
<1> HIDE DEF o, c, o2, c2
<1>8. QED
  BY <1>4, <1>6, <1>7

\* The first n tokens of u are those of s after the k-th.
Piece(s, k, u, n) == \A j \in 1 .. n : s[k + j] = u[j]

\* The depth in a piece of a text is counted from where the piece begins.
LEMMA DepthWithin ==
  ASSUME NEW s, NEW u, NEW k \in Nat, NEW n \in Nat, Piece(s, k, u, n)
  PROVE  Depth(s, k + n) = Depth(s, k) + Depth(u, n)
<1>0. \A j \in 1 .. n : s[k + j] = u[j]
  BY DEF Piece
<1> DEFINE T == {m \in Nat : m <= n => Depth(s, k + m) = Depth(s, k) + Depth(u, m)}
<1>1. ASSUME NEW m \in Nat, \A l \in Nat : l < m => l \in T PROVE m \in T
  <2>1. CASE m = 0
    BY <2>1, DepthStart, DepthType
  <2>2. CASE m # 0 /\ m <= n
    <3>1. m - 1 \in T /\ m - 1 \in Nat /\ k + (m - 1) \in Nat
      BY <1>1, <2>2
    <3>2. Depth(s, k + (m - 1)) = Depth(s, k) + Depth(u, m - 1)
      BY <2>2, <3>1
    <3>3. s[k + m] = u[m] /\ (m - 1) + 1 = m /\ (k + (m - 1)) + 1 = k + m
      BY <1>0, <2>2
    <3>4. Depth(u, m) = Depth(u, m - 1) + (IF u[m] = "<" THEN 1 ELSE IF u[m] = ">" THEN -1 ELSE 0)
      BY <3>1, <3>3, DepthStep
    <3>5. Depth(s, k + m) =
            Depth(s, k + (m - 1)) + (IF u[m] = "<" THEN 1 ELSE IF u[m] = ">" THEN -1 ELSE 0)
      BY <3>1, <3>3, DepthStep
    <3>6. Depth(s, k) \in Int /\ Depth(u, m - 1) \in Int
      BY <3>1, DepthType
    <3>7. Depth(s, k + m) = Depth(s, k) + Depth(u, m)
      BY <3>2, <3>4, <3>5, <3>6
    <3>8. QED
      BY <3>7
  <2>3. QED
    BY <2>1, <2>2
<1>2. \A m \in Nat : m \in T
  <2> HIDE DEF T
  <2>1. QED
    BY <1>1, StrongInduction
<1>3. QED
  BY <1>2

LEMMA PieceOf ==
  ASSUME NEW s, NEW u, NEW k, NEW n \in Nat, Piece(s, k, u, n), NEW m \in 0 .. n
  PROVE  Piece(s, k, u, m)
BY DEF Piece

LEMMA DepthAtStart ==
  ASSUME NEW s, NEW u, NEW n \in Nat, Piece(s, 0, u, n)
  PROVE  Depth(s, n) = Depth(u, n)
<1>1. Depth(s, 0 + n) = Depth(s, 0) + Depth(u, n)
  BY DepthWithin
<1>2. QED
  BY <1>1, DepthStart, DepthType

\* A text in which each bracket is closed, and one that is a single part.
Balanced(s) ==
  s \in Text /\ s # <<>> /\ Depth(s, Len(s)) = 0 /\ \A i \in 1 .. Len(s) : Depth(s, i) \in Nat
Whole(s) == Balanced(s) /\ Comma(s) = 0

LEMMA Tokens == {"<", ">", Separator, "[]", "?"} \cup Dotted \subseteq Token
BY DEF Token

LEMMA SeparatorDiffers == Separator \notin {"<", ">", "[]", "?"}
BY Zenon DEF Separator

\* A text is one part if it has no top-level comma.
LEMMA NoComma ==
  ASSUME NEW s \in Text
  PROVE  Comma(s) = 0 <=> \A i \in 1 .. Len(s) : ~(s[i] = Separator /\ Depth(s, i) = 0)
<1> DEFINE P == {i \in 1 .. Len(s) : s[i] = Separator /\ Depth(s, i) = 0}
<1>1. P \subseteq Nat \ {0}
  BY DEF Text
<1>2. Comma(s) = First(P)
  BY DEF Comma
<1>3. First(P) = 0 <=> P = {}
  <2> HIDE DEF P
  <2>1. QED
    BY <1>1, FirstPlace
<1>4. QED
  BY <1>2, <1>3

\* Two texts with a comma between them.
LEMMA JoinedTokens ==
  ASSUME NEW a \in Text, NEW b \in Text, NEW c, c = a \o <<Separator>> \o b
  PROVE  /\ c \in Text /\ Len(c) = Len(a) + 1 + Len(b) /\ Len(a) \in Nat /\ Len(b) \in Nat
         /\ \A j \in 1 .. Len(a) : c[j] = a[j]
         /\ c[Len(a) + 1] = Separator
         /\ \A j \in 1 .. Len(b) : c[Len(a) + 1 + j] = b[j]
BY Tokens DEF Text

LEMMA Joined ==
  ASSUME NEW a \in Text, NEW b \in Text, NEW c \in Text, NEW k \in Nat, Len(a) = k,
         Whole(a), Balanced(b), Len(c) = k + 1 + Len(b), Len(b) \in Nat,
         Piece(c, 0, a, k), c[k + 1] = Separator, Piece(c, k + 1, b, Len(b))
  PROVE  /\ Balanced(c) /\ Comma(c) = k + 1
         /\ SubSeq(c, 1, Comma(c) - 1) = a
         /\ SubSeq(c, Comma(c) + 1, Len(c)) = b
<1>1. \A j \in 1 .. k : c[j] = a[j]
  BY DEF Piece
<1>2. \A j \in 1 .. Len(b) : c[k + 1 + j] = b[j]
  BY DEF Piece
<1>3. ASSUME NEW i \in 0 .. k PROVE Depth(c, i) = Depth(a, i)
  BY PieceOf, DepthAtStart
<1>4. Depth(c, k) = 0
  BY <1>3 DEF Whole, Balanced
<1>5. Depth(c, k + 1) = 0
  BY SMTT(30), <1>4, DepthStep, SeparatorDiffers
<1>6. ASSUME NEW i \in 0 .. Len(b) PROVE Depth(c, k + 1 + i) = Depth(b, i)
  <2>1. Depth(c, k + 1 + i) = Depth(c, k + 1) + Depth(b, i)
    BY DepthWithin, PieceOf
  <2>2. Depth(b, i) \in Int
    BY DepthType
  <2>3. QED
    BY <1>5, <2>1, <2>2
<1>7. Depth(c, Len(c)) = 0
  BY <1>6 DEF Balanced
<1>8. ASSUME NEW i \in 1 .. Len(c) PROVE Depth(c, i) \in Nat
  <2>1. CASE i <= k
    BY <1>3, <2>1 DEF Whole, Balanced
  <2>2. CASE i = k + 1
    BY <1>5, <2>2
  <2>3. CASE i > k + 1
    <3>1. i - (k + 1) \in 1 .. Len(b) /\ i = k + 1 + (i - (k + 1))
      BY <2>3
    <3>2. Depth(c, i) = Depth(b, i - (k + 1))
      BY <1>6, <3>1
    <3>3. QED
      BY <3>1, <3>2 DEF Balanced
  <2>4. QED
    BY <2>1, <2>2, <2>3
<1>9. c # <<>>
  OBVIOUS
<1>10. Comma(c) = k + 1
  <2> DEFINE P == {i \in 1 .. Len(c) : c[i] = Separator /\ Depth(c, i) = 0}
  <2>1. P \subseteq Nat \ {0} /\ k + 1 \in P
    BY <1>5
  <2>2. ASSUME NEW i \in P PROVE k + 1 <= i
    <3>1. SUFFICES ASSUME i <= k PROVE FALSE
      OBVIOUS
    <3>2. i \in 1 .. k /\ a[i] = Separator /\ Depth(a, i) = 0
      BY <1>1, <1>3, <3>1
    <3>3. QED
      BY <3>2, NoComma DEF Whole
  <2>3. Comma(c) = First(P)
    BY DEF Comma
  <2> HIDE DEF P
  <2>4. QED
    BY <2>1, <2>2, <2>3, FirstPlace
<1>11. SubSeq(c, 1, k) = a
  BY <1>1 DEF Text
<1>12. SubSeq(c, k + 2, Len(c)) = b
  <2>1. \A j \in 1 .. Len(b) : c[k + 2 + j - 1] = b[j]
    BY <1>2
  <2>2. Len(c) - (k + 2) + 1 = Len(b)
    OBVIOUS
  <2>3. QED
    BY <2>1, <2>2 DEF Text
<1>13. QED
  BY <1>7, <1>8, <1>9, <1>10, <1>11, <1>12 DEF Balanced

\* A text in brackets.
LEMMA BracketTokens ==
  ASSUME NEW n \in Token, NEW b \in Text, NEW s, s = <<n, "<">> \o b \o <<">">>
  PROVE  /\ s \in Text /\ Len(s) = Len(b) + 3 /\ Len(b) \in Nat
         /\ s[1] = n /\ s[2] = "<" /\ s[Len(b) + 3] = ">"
         /\ \A j \in 1 .. Len(b) : s[2 + j] = b[j]
BY Tokens DEF Text

LEMMA InBrackets ==
  ASSUME NEW n \in Dotted, NEW b \in Text, NEW s \in Text, NEW k \in Nat, Len(b) = k,
         Balanced(b), Len(s) = k + 3, s[1] = n, s[2] = "<", s[k + 3] = ">", Piece(s, 2, b, k)
  PROVE  /\ Whole(s) /\ Opening(s) = 2 /\ Closing(s) = Len(s)
         /\ SubSeq(s, Opening(s) + 1, Closing(s) - 1) = b
<1>1. n \notin {"<", ">", Separator, "[]"}
  BY DottedAssumption
<1>2. \A j \in 1 .. k : s[2 + j] = b[j]
  BY DEF Piece
<1>3. Depth(s, 1) = 0
  <2>1. Depth(s, 0 + 1) = Depth(s, 0)
    BY <1>1, DepthStep, DepthStart
  <2>2. QED
    BY <2>1, DepthStart
<1>4. Depth(s, 2) = 1
  <2>1. Depth(s, 1 + 1) = Depth(s, 1) + 1
    BY DepthStep
  <2>2. QED
    BY <1>3, <2>1
<1>5. ASSUME NEW i \in 0 .. k PROVE Depth(s, 2 + i) = 1 + Depth(b, i)
  BY <1>4, PieceOf, DepthWithin
<1>6. Depth(s, k + 2) = 1
  BY <1>5 DEF Balanced
<1>7. Depth(s, k + 3) = 0
  <2>1. Depth(s, (k + 2) + 1) = Depth(s, k + 2) - 1
    BY <1>6, DepthStep
  <2>2. QED
    BY <1>6, <2>1
<1>8. ASSUME NEW i \in 2 .. k + 2 PROVE Depth(s, i) \in Nat \ {0}
  <2>1. CASE i = 2
    BY <1>4, <2>1
  <2>2. CASE i # 2
    <3>1. i - 2 \in 1 .. k /\ i = 2 + (i - 2)
      BY <2>2
    <3>2. Depth(s, i) = 1 + Depth(b, i - 2) /\ Depth(b, i - 2) \in Nat
      BY <1>5, <3>1 DEF Balanced
    <3>3. QED
      BY <3>2
  <2>3. QED
    BY <2>1, <2>2
<1>9. \A i \in 1 .. Len(s) : i = 1 \/ i \in 2 .. k + 2 \/ i = k + 3
  OBVIOUS
<1>10. Balanced(s)
  <2>1. \A i \in 1 .. Len(s) : Depth(s, i) \in Nat
    BY <1>3, <1>7, <1>8, <1>9
  <2>2. s # <<>>
    OBVIOUS
  <2>3. QED
    BY <1>7, <2>1, <2>2 DEF Balanced
<1>11. Comma(s) = 0
  <2>1. ASSUME NEW i \in 1 .. Len(s), s[i] = Separator, Depth(s, i) = 0 PROVE FALSE
    BY <1>1, SeparatorDiffers, <1>8, <1>9, <2>1
  <2>2. QED
    BY <2>1, NoComma
<1>12. Opening(s) = 2
  <2> DEFINE P == {i \in 1 .. Len(s) : s[i] = "<" /\ Depth(s, i) = 1}
  <2>1. P \subseteq Nat \ {0} /\ 2 \in P /\ 1 \notin P
    BY <1>1, <1>4
  <2>2. \A i \in P : 2 <= i
    BY <2>1
  <2>3. Opening(s) = First(P)
    BY DEF Opening
  <2> HIDE DEF P
  <2>4. QED
    BY <2>1, <2>2, <2>3, FirstPlace
<1>13. Closing(s) = Len(s)
  <2> DEFINE P == {i \in Opening(s) + 1 .. Len(s) : s[i] = ">" /\ Depth(s, i) = 0}
  <2>1. P \subseteq Nat \ {0} /\ k + 3 \in P
    BY <1>7, <1>12
  <2>2. \A i \in P : k + 3 <= i
    BY <1>8, <1>9, <1>12
  <2>3. Closing(s) = First(P)
    BY DEF Closing
  <2> HIDE DEF P
  <2>4. QED
    BY <2>1, <2>2, <2>3, FirstPlace
<1>14. SubSeq(s, 3, k + 2) = b
  <2>1. \A j \in 1 .. k : s[3 + j - 1] = b[j]
    BY <1>2
  <2>2. QED
    BY <2>1 DEF Text
<1>15. QED
  BY <1>10, <1>11, <1>12, <1>13, <1>14 DEF Whole

\* A name, and an array.
LEMMA OneName ==
  ASSUME NEW n \in Dotted
  PROVE  Whole(<<n>>) /\ Closing(<<n>>) = 0
<1> DEFINE s == <<n>>
<1>1. s \in Text /\ Len(s) = 1 /\ s[1] \notin {"<", ">", Separator, "[]"} /\ s # <<>>
  BY Tokens, DottedAssumption, SeparatorDiffers DEF Text
<1> HIDE DEF s
<1>2. Depth(s, 0 + 1) = Depth(s, 0)
  BY <1>1, DepthStep, DepthStart
<1>3. Depth(s, 1) = 0
  BY <1>2, DepthStart
<1>4. Balanced(s)
  BY <1>1, <1>3 DEF Balanced
<1>5. Comma(s) = 0
  BY <1>1, NoComma
<1>6. Closing(s) = 0
  <2>1. {i \in Opening(s) + 1 .. Len(s) : s[i] = ">" /\ Depth(s, i) = 0} = {}
    <3>1. Opening(s) \in Nat
      <4>1. {i \in 1 .. Len(s) : s[i] = "<" /\ Depth(s, i) = 1} \subseteq Nat \ {0}
        OBVIOUS
      <4>2. QED
        BY <4>1, FirstPlace DEF Opening
    <3>2. QED
      BY <1>1, <3>1
  <2>2. QED
    BY <2>1 DEF Closing, First
<1>7. QED
  BY <1>4, <1>5, <1>6 DEF Whole, s

LEMMA ArrayTokens ==
  ASSUME NEW b \in Text, NEW s, s = Append(b, "[]")
  PROVE  /\ s \in Text /\ Len(s) = Len(b) + 1 /\ Len(b) \in Nat /\ s # <<>>
         /\ s[Len(b) + 1] = "[]" /\ Last(s) = "[]" /\ Front(s) = b
         /\ \A j \in 1 .. Len(b) : s[j] = b[j]
BY Tokens DEF Text, Last, Front

LEMMA OfArray ==
  ASSUME NEW b \in Text, NEW s \in Text, NEW k \in Nat, Len(b) = k, Whole(b),
         Len(s) = k + 1, s[k + 1] = "[]", Piece(s, 0, b, k)
  PROVE  Whole(s)
<1>2. \A j \in 1 .. k : s[j] = b[j]
  BY DEF Piece
<1>3. ASSUME NEW i \in 0 .. k PROVE Depth(s, i) = Depth(b, i)
  BY PieceOf, DepthAtStart
<1>4. Depth(s, k + 1) = 0
  <2>1. Depth(s, k) = 0
    BY <1>3 DEF Whole, Balanced
  <2>2. QED
    BY SMTT(30), <2>1, DepthStep
<1>5. Balanced(s)
  <2>1. ASSUME NEW i \in 1 .. Len(s) PROVE Depth(s, i) \in Nat
    <3>1. CASE i = k + 1
      BY <1>4, <3>1
    <3>2. CASE i # k + 1
      BY <1>3, <3>2 DEF Whole, Balanced
    <3>3. QED
      BY <3>1, <3>2
  <2>2. QED
    BY <1>4, <2>1 DEF Balanced
<1>6. ASSUME NEW i \in 1 .. Len(s), s[i] = Separator, Depth(s, i) = 0 PROVE FALSE
  <2>1. i \in 1 .. k
    BY SeparatorDiffers, <1>6
  <2>2. b[i] = Separator /\ Depth(b, i) = 0
    BY <1>2, <1>3, <1>6, <2>1
  <2>3. QED
    BY <2>1, <2>2, NoComma DEF Whole
<1>7. QED
  BY <1>5, <1>6, NoComma DEF Whole

-----------------------------------------------------------------------------
(***************************************************************************)
(* What the recursive functions of CsTypes are.                            *)
(***************************************************************************)
LEMMA TailOfTexts ==
  ASSUME NEW parts \in Seq(Text), parts # <<>>
  PROVE  /\ Tail(parts) \in Seq(Text) /\ Len(parts) \in Nat \ {0}
         /\ Len(Tail(parts)) = Len(parts) - 1 /\ parts[1] \in Text
         /\ \A i \in 1 .. Len(Tail(parts)) : Tail(parts)[i] = parts[i + 1]
OBVIOUS

\* WithCommas and Parts satisfy their equations.
LEMMA WithCommasIs ==
  /\ WithCommas \in [Seq(Text) -> Text]
  /\ \A parts \in Seq(Text) : WithCommas[parts] =
       CASE parts = <<>>   -> <<>>
         [] Len(parts) = 1 -> parts[1]
         [] OTHER          -> parts[1] \o <<Separator>> \o WithCommas[Tail(parts)]
<1> DEFINE S == Seq(Text)
           body(parts, f) == CASE parts = <<>>   -> <<>>
                               [] Len(parts) = 1 -> parts[1]
                               [] OTHER -> parts[1] \o <<Separator>> \o f[Tail(parts)]
           W == Text \cup {WithCommas[parts] : parts \in S}
           G == [q \in S \X [S -> W] |-> body(q[1], q[2])]
           rank == [parts \in S |-> Len(parts)]
<1>1. rank \in [S -> Nat] /\ \A x \in S : rank[x] = Len(x)
  OBVIOUS
<1>2. <<>> \in Text
  BY DEF Text
<1>3. ASSUME NEW x \in S, NEW f \in [S -> W] PROVE G[<<x, f>>] = body(x, f)
  OBVIOUS
<1>4. ASSUME NEW x \in S, NEW f \in [S -> Text] PROVE body(x, f) \in Text
  <2>1. CASE x = <<>>
    BY <1>2, <2>1
  <2>2. CASE x # <<>> /\ Len(x) = 1
    BY <2>2, TailOfTexts
  <2>3. CASE x # <<>> /\ Len(x) # 1
    <3>1. x[1] \in Text /\ f[Tail(x)] \in Text
      BY <2>3, TailOfTexts
    <3>2. x[1] \o <<Separator>> \o f[Tail(x)] \in Text
      BY <3>1, JoinedTokens
    <3>3. QED
      BY <2>3, <3>2
  <2>4. QED
    BY <2>1, <2>2, <2>3
<1>5. ASSUME NEW x \in S, NEW f \in [S -> W], NEW g \in [S -> W],
             Agree(S, rank, f, g, rank[x])
      PROVE  body(x, f) = body(x, g)
  <2>1. CASE x = <<>>
    BY <2>1
  <2>2. CASE x # <<>>
    <3>1. Tail(x) \in S /\ rank[Tail(x)] < rank[x]
      BY <1>1, <2>2, TailOfTexts
    <3>2. f[Tail(x)] = g[Tail(x)]
      BY <1>5, <3>1 DEF Agree
    <3>3. QED
      BY <3>2
  <2>3. QED
    BY <2>1, <2>2
<1>6. Text \subseteq W /\ [S -> Text] \subseteq [S -> W]
  OBVIOUS
<1>7. WithCommas = CHOOSE g : g = [x \in S |-> body(x, g)]
  BY DEF WithCommas
<1>8. (\A x \in S : WithCommas[x] \in W)
  OBVIOUS
<1> HIDE DEF S, G, W, rank, body
<1>9. Into(S, Text, G)
  BY <1>3, <1>4, <1>6 DEF Into
<1>10. Causal(S, W, rank, G)
  BY <1>3, <1>5 DEF Causal
<1>11. PICK f \in [S -> Text] : Fixed(S, G, f)
  BY <1>1, <1>2, <1>6, <1>9, <1>10, CausalWithin, Recursion
<1>12. f = [x \in S |-> body(x, f)]
  <2>1. \A x \in S : f[x] = body(x, f)
    BY <1>3, <1>6, <1>11 DEF Fixed
  <2>2. QED
    BY <2>1
<1>13. WithCommas = [x \in S |-> body(x, WithCommas)]
  BY <1>7, <1>12
<1>14. WithCommas \in [S -> W] /\ \A x \in S : WithCommas[x] = body(x, WithCommas)
  BY <1>8, <1>13
<1>15. Fixed(S, G, WithCommas)
  BY <1>3, <1>14 DEF Fixed
<1>16. WithCommas \in [S -> Text]
  BY <1>1, <1>2, <1>6, <1>9, <1>10, <1>14, <1>15, RecursionTyped
<1>17. QED
  BY <1>14, <1>16 DEF S, body

\* The pieces that json_type cuts a text into are shorter texts.
LEMMA Cut ==
  ASSUME NEW s \in Text, NEW m \in Nat \ {0}, NEW n \in Nat, n <= Len(s)
  PROVE  /\ SubSeq(s, m, n) \in Text
         /\ Len(SubSeq(s, m, n)) = IF m <= n THEN n - m + 1 ELSE 0
BY DEF Text

LEMMA CommaPlace ==
  ASSUME NEW s \in Text
  PROVE  Comma(s) \in 0 .. Len(s) /\ Len(s) \in Nat
<1> DEFINE P == {i \in 1 .. Len(s) : s[i] = Separator /\ Depth(s, i) = 0}
<1>1. P \subseteq Nat \ {0} /\ P \subseteq 1 .. Len(s) /\ Len(s) \in Nat
  BY DEF Text
<1>2. Comma(s) = First(P)
  BY DEF Comma
<1> HIDE DEF P
<1>3. First(P) = 0 \/ First(P) \in P
  BY <1>1, FirstPlace
<1>4. First(P) = 0 \/ First(P) \in 1 .. Len(s)
  BY <1>1, <1>3
<1>5. QED
  BY <1>1, <1>2, <1>4

LEMMA BracketPlaces ==
  ASSUME NEW s \in Text
  PROVE  /\ Opening(s) \in Nat /\ Len(s) \in Nat
         /\ Closing(s) # 0 => Closing(s) \in Opening(s) + 1 .. Len(s)
<1> DEFINE P == {i \in 1 .. Len(s) : s[i] = "<" /\ Depth(s, i) = 1}
           Q == {i \in Opening(s) + 1 .. Len(s) : s[i] = ">" /\ Depth(s, i) = 0}
<1>1. P \subseteq Nat \ {0} /\ Len(s) \in Nat
  BY DEF Text
<1>2. Opening(s) = First(P)
  BY DEF Opening
<1>3. Opening(s) \in Nat
  <2> HIDE DEF P
  <2>1. QED
    BY <1>1, <1>2, FirstPlace
<1>4. Q \subseteq Nat \ {0} /\ Q \subseteq Opening(s) + 1 .. Len(s)
  BY <1>1, <1>3
<1>5. Closing(s) = First(Q)
  BY DEF Closing
<1> HIDE DEF P, Q
<1>6. QED
  BY <1>1, <1>3, <1>4, <1>5, FirstPlace

LEMMA FirstPart ==
  ASSUME NEW s \in Text, Comma(s) # 0
  PROVE  /\ SubSeq(s, 1, Comma(s) - 1) \in Text
         /\ Len(SubSeq(s, 1, Comma(s) - 1)) <= Len(s)
         /\ SubSeq(s, Comma(s) + 1, Len(s)) \in Text
         /\ Len(SubSeq(s, Comma(s) + 1, Len(s))) < Len(s)
<1>1. Comma(s) \in 1 .. Len(s) /\ Len(s) \in Nat
  BY CommaPlace
<1>2. /\ SubSeq(s, 1, Comma(s) - 1) \in Text
      /\ Len(SubSeq(s, 1, Comma(s) - 1)) = IF 1 <= Comma(s) - 1 THEN (Comma(s) - 1) - 1 + 1 ELSE 0
  BY <1>1, Cut
<1>3. /\ SubSeq(s, Comma(s) + 1, Len(s)) \in Text
      /\ Len(SubSeq(s, Comma(s) + 1, Len(s))) =
           IF Comma(s) + 1 <= Len(s) THEN Len(s) - (Comma(s) + 1) + 1 ELSE 0
  BY <1>1, Cut
<1>4. QED
  BY <1>1, <1>2, <1>3

\* Parts finds at least one part.
SomeTexts == Seq(Text) \ {<<>>}

LEMMA OneMorePart ==
  ASSUME NEW a \in Text, NEW rest \in SomeTexts
  PROVE  <<a>> \o rest \in SomeTexts /\ <<a>> \in SomeTexts
BY DEF SomeTexts

LEMMA PartsIs ==
  /\ Parts \in [Text -> SomeTexts]
  /\ \A s \in Text : Parts[s] =
       IF Comma(s) = 0 THEN <<s>>
       ELSE <<SubSeq(s, 1, Comma(s) - 1)>> \o Parts[SubSeq(s, Comma(s) + 1, Len(s))]
<1> DEFINE body(s, f) ==
             IF Comma(s) = 0 THEN <<s>>
             ELSE <<SubSeq(s, 1, Comma(s) - 1)>> \o f[SubSeq(s, Comma(s) + 1, Len(s))]
           W == SomeTexts \cup {Parts[s] : s \in Text}
           G == [q \in Text \X [Text -> W] |-> body(q[1], q[2])]
           rank == [s \in Text |-> Len(s)]
<1>1. rank \in [Text -> Nat] /\ \A x \in Text : rank[x] = Len(x)
  BY CommaPlace
<1>2. <<<<>>>> \in SomeTexts
  BY DEF SomeTexts, Text
<1>3. ASSUME NEW x \in Text, NEW f \in [Text -> W] PROVE G[<<x, f>>] = body(x, f)
  OBVIOUS
<1>4. ASSUME NEW x \in Text, NEW f \in [Text -> SomeTexts] PROVE body(x, f) \in SomeTexts
  <2>1. CASE Comma(x) = 0
    BY <2>1, OneMorePart, <1>2
  <2>2. CASE Comma(x) # 0
    <3>1. f[SubSeq(x, Comma(x) + 1, Len(x))] \in SomeTexts
      BY <2>2, FirstPart
    <3>2. QED
      BY <2>2, <3>1, FirstPart, OneMorePart
  <2>3. QED
    BY <2>1, <2>2
<1>5. ASSUME NEW x \in Text, NEW f \in [Text -> W], NEW g \in [Text -> W],
             Agree(Text, rank, f, g, rank[x])
      PROVE  body(x, f) = body(x, g)
  <2>1. CASE Comma(x) # 0
    <3>1. f[SubSeq(x, Comma(x) + 1, Len(x))] = g[SubSeq(x, Comma(x) + 1, Len(x))]
      BY <1>1, <1>5, <2>1, FirstPart DEF Agree
    <3>2. QED
      BY <3>1
  <2>2. QED
    BY <2>1
<1>6. SomeTexts \subseteq W /\ [Text -> SomeTexts] \subseteq [Text -> W]
  OBVIOUS
<1>7. Parts = CHOOSE g : g = [x \in Text |-> body(x, g)]
  BY DEF Parts
<1>8. \A x \in Text : Parts[x] \in W
  OBVIOUS
<1> HIDE DEF G, W, rank, body
<1>9. Into(Text, SomeTexts, G)
  BY <1>3, <1>4, <1>6 DEF Into
<1>10. Causal(Text, W, rank, G)
  BY <1>3, <1>5 DEF Causal
<1>11. PICK f \in [Text -> SomeTexts] : Fixed(Text, G, f)
  BY <1>1, <1>2, <1>6, <1>9, <1>10, CausalWithin, Recursion
<1>12. f = [x \in Text |-> body(x, f)]
  <2>1. \A x \in Text : f[x] = body(x, f)
    BY <1>3, <1>6, <1>11 DEF Fixed
  <2>2. QED
    BY <2>1
<1>13. Parts = [x \in Text |-> body(x, Parts)]
  BY <1>7, <1>12
<1>14. Parts \in [Text -> W] /\ \A x \in Text : Parts[x] = body(x, Parts)
  BY <1>8, <1>13
<1>15. Fixed(Text, G, Parts)
  BY <1>3, <1>14 DEF Fixed
<1>16. Parts \in [Text -> SomeTexts]
  BY <1>1, <1>2, <1>6, <1>9, <1>10, <1>14, <1>15, RecursionTyped
<1>17. QED
  BY <1>14, <1>16 DEF body

\* The parts of a text are no longer than the text.
LEMMA PartsWithin ==
  ASSUME NEW s \in Text
  PROVE  /\ Parts[s] \in Seq(Text) /\ Parts[s] # <<>>
         /\ \A j \in 1 .. Len(Parts[s]) : Parts[s][j] \in Text /\ Len(Parts[s][j]) <= Len(s)
<1> DEFINE NoLonger(u) == \A j \in 1 .. Len(Parts[u]) : Len(Parts[u][j]) <= Len(u)
           T == {n \in Nat : \A u \in Text : Len(u) = n => NoLonger(u)}
<1>1. ASSUME NEW n \in Nat, \A m \in Nat : m < n => m \in T PROVE n \in T
  <2> SUFFICES ASSUME NEW u \in Text, Len(u) = n PROVE NoLonger(u)
    OBVIOUS
  <2>1. CASE Comma(u) = 0
    <3>1. Parts[u] = <<u>>
      BY <2>1, PartsIs
    <3>2. QED
      BY <3>1
  <2>2. CASE Comma(u) # 0
    <3> DEFINE a == SubSeq(u, 1, Comma(u) - 1)
               b == SubSeq(u, Comma(u) + 1, Len(u))
    <3>1. a \in Text /\ Len(a) <= n /\ b \in Text /\ Len(b) < n /\ Len(b) \in Nat
      BY <2>2, FirstPart, CommaPlace
    <3>2. NoLonger(b)
      BY <1>1, <3>1
    <3>3. Parts[b] \in Seq(Text) /\ Parts[u] = <<a>> \o Parts[b]
      BY <2>2, <3>1, PartsIs DEF SomeTexts
    <3> HIDE DEF a, b
    <3>4. Len(Parts[u]) = 1 + Len(Parts[b]) /\ Len(Parts[b]) \in Nat
      BY <3>1, <3>3
    <3>5. ASSUME NEW j \in 1 .. Len(Parts[u]) PROVE Len(Parts[u][j]) <= n
      <4>1. CASE j = 1
        BY <3>1, <3>3, <4>1
      <4>2. CASE j # 1
        <5>1. j - 1 \in 1 .. Len(Parts[b]) /\ Parts[u][j] = Parts[b][j - 1]
          BY <3>1, <3>3, <3>4, <4>2
        <5>2. Parts[b][j - 1] \in Text /\ Len(Parts[b][j - 1]) <= Len(b)
          BY <3>2, <3>3, <5>1
        <5>3. Len(Parts[b][j - 1]) \in Nat
          BY <5>2, CommaPlace
        <5>4. QED
          BY <3>1, <5>1, <5>2, <5>3
      <4>3. QED
        BY <4>1, <4>2
    <3>6. QED
      BY <3>5
  <2>3. QED
    BY <2>1, <2>2
<1>2. \A n \in Nat : n \in T
  <2> HIDE DEF T
  <2>1. QED
    BY <1>1, StrongInduction
<1>3. Len(s) \in Nat
  BY CommaPlace
<1>4. NoLonger(s)
  BY <1>2, <1>3
<1>5. Parts[s] \in Seq(Text) /\ Parts[s] # <<>>
  BY PartsIs DEF SomeTexts
<1>6. QED
  BY <1>4, <1>5

\* json_type writes texts.
LEMMA ShortIsToken ==
  ASSUME NEW n \in Token
  PROVE  Short(n) \in Token
BY DEF Short, Token

LEMMA GenericIsText ==
  ASSUME NEW n \in Token, NEW args \in Seq(Text)
  PROVE  Generic(n, args) \in Text
<1>1. WithCommas[args] \in Text
  BY WithCommasIs
<1>2. QED
  BY <1>1, BracketTokens DEF Generic

LEMMA InstanceIsText ==
  ASSUME NEW n \in Token, NEW args \in Seq(Text)
  PROVE  Instance(n, args) \in Text
<1>1. WithCommas[args] \in Text
  BY WithCommasIs
<1>2. WithCommas[args] \o <<"?">> \in Text
  BY <1>1, Tokens DEF Text
<1>3. Generic(Short(n), args) \in Text
  BY ShortIsToken, GenericIsText
<1>4. QED
  BY <1>2, <1>3 DEF Instance

\* What json_type is applied to in turn.
Inner(s) == SubSeq(s, Opening(s) + 1, Closing(s) - 1)

LEMMA InnerShorter ==
  ASSUME NEW s \in Text, Closing(s) # 0
  PROVE  Inner(s) \in Text /\ Len(Inner(s)) < Len(s) /\ s[1] \in Token
<1>1. /\ Opening(s) \in Nat /\ Len(s) \in Nat
      /\ Closing(s) \in Opening(s) + 1 .. Len(s)
  BY BracketPlaces
<1>2. /\ Inner(s) \in Text
      /\ Len(Inner(s)) = IF Opening(s) + 1 <= Closing(s) - 1
                         THEN (Closing(s) - 1) - (Opening(s) + 1) + 1 ELSE 0
  BY <1>1, Cut DEF Inner
<1>3. s[1] \in Token
  BY <1>1 DEF Text
<1>4. QED
  BY <1>1, <1>2, <1>3

LEMMA FrontShorter ==
  ASSUME NEW s \in Text, s # <<>>
  PROVE  Front(s) \in Text /\ Len(Front(s)) < Len(s)
BY DEF Text, Front

\* The equation of json_type.
JsonType(s, f) ==
  IF Len(s) = 1 /\ s[1] \in DOMAIN Keyword THEN <<Keyword[s[1]]>>
  ELSE IF Closing(s) # 0
  THEN Instance(s[1], [j \in 1 .. Len(Parts[Inner(s)]) |-> f[Parts[Inner(s)][j]]])
  ELSE IF s # <<>> /\ Last(s) = "[]" THEN Generic(Short(List), <<f[Front(s)]>>)
  ELSE [j \in 1 .. Len(s) |-> Short(s[j])]

LEMMA JsonTypeInto ==
  ASSUME NEW s \in Text, NEW f \in [Text -> Text]
  PROVE  JsonType(s, f) \in Text
<1>1. CASE Len(s) = 1 /\ s[1] \in DOMAIN Keyword
  <2>1. Keyword[s[1]] \in Token
    BY <1>1 DEF Token
  <2>2. QED
    BY <1>1, <2>1 DEF JsonType, Text
<1>2. CASE ~(Len(s) = 1 /\ s[1] \in DOMAIN Keyword) /\ Closing(s) # 0
  <2> DEFINE parts == Parts[Inner(s)]
  <2>1. parts \in Seq(Text) /\ s[1] \in Token
    BY <1>2, InnerShorter, PartsWithin
  <2> HIDE DEF parts
  <2>2. [j \in 1 .. Len(parts) |-> f[parts[j]]] \in Seq(Text)
    BY <2>1
  <2>3. QED
    BY <1>2, <2>1, <2>2, InstanceIsText DEF JsonType, parts
<1>3. CASE ~(Len(s) = 1 /\ s[1] \in DOMAIN Keyword) /\ Closing(s) = 0 /\ s # <<>> /\ Last(s) = "[]"
  <2>1. f[Front(s)] \in Text
    BY <1>3, FrontShorter
  <2>2. Short(List) \in Token
    BY ShortIsToken, DottedAssumption, Tokens
  <2>3. <<f[Front(s)]>> \in Seq(Text)
    BY <2>1
  <2>4. QED
    BY <1>3, <2>2, <2>3, GenericIsText DEF JsonType
<1>4. CASE ~(Len(s) = 1 /\ s[1] \in DOMAIN Keyword) /\ Closing(s) = 0 /\ ~(s # <<>> /\ Last(s) = "[]")
  <2>1. \A j \in 1 .. Len(s) : Short(s[j]) \in Token
    BY ShortIsToken DEF Text
  <2>2. Len(s) \in Nat
    BY CommaPlace
  <2>3. QED
    BY <1>4, <2>1, <2>2 DEF JsonType, Text
<1>5. QED
  BY <1>1, <1>2, <1>3, <1>4

LEMMA JsonTypeCausal ==
  ASSUME NEW s \in Text, NEW f, NEW g,
         \A u \in Text : Len(u) < Len(s) => f[u] = g[u]
  PROVE  JsonType(s, f) = JsonType(s, g)
<1>1. ASSUME Closing(s) # 0
      PROVE  [j \in 1 .. Len(Parts[Inner(s)]) |-> f[Parts[Inner(s)][j]]]
               = [j \in 1 .. Len(Parts[Inner(s)]) |-> g[Parts[Inner(s)][j]]]
  <2>1. Inner(s) \in Text /\ Len(Inner(s)) < Len(s) /\ Len(Inner(s)) \in Nat /\ Len(s) \in Nat
    BY <1>1, InnerShorter, CommaPlace
  <2>2. ASSUME NEW j \in 1 .. Len(Parts[Inner(s)])
        PROVE  f[Parts[Inner(s)][j]] = g[Parts[Inner(s)][j]]
    <3>1. Parts[Inner(s)][j] \in Text /\ Len(Parts[Inner(s)][j]) <= Len(Inner(s))
      BY <2>1, PartsWithin
    <3>2. Len(Parts[Inner(s)][j]) \in Nat
      BY <3>1, CommaPlace
    <3>3. QED
      BY <2>1, <3>1, <3>2
  <2>3. QED
    BY <2>2
<1>2. ASSUME s # <<>> PROVE f[Front(s)] = g[Front(s)]
  BY <1>2, FrontShorter
<1>3. QED
  BY <1>1, <1>2 DEF JsonType

LEMMA json_typeIs ==
  /\ json_type \in [Text -> Text]
  /\ \A s \in Text : json_type[s] = JsonType(s, json_type)
<1> DEFINE W == Text \cup {json_type[s] : s \in Text}
           G == [q \in Text \X [Text -> W] |-> JsonType(q[1], q[2])]
           rank == [s \in Text |-> Len(s)]
<1>1. rank \in [Text -> Nat] /\ \A x \in Text : rank[x] = Len(x)
  BY CommaPlace
<1>2. <<>> \in Text
  BY DEF Text
<1>3. ASSUME NEW x \in Text, NEW f \in [Text -> W] PROVE G[<<x, f>>] = JsonType(x, f)
  OBVIOUS
<1>4. ASSUME NEW x \in Text, NEW f \in [Text -> W], NEW g \in [Text -> W],
             Agree(Text, rank, f, g, rank[x])
      PROVE  JsonType(x, f) = JsonType(x, g)
  BY <1>1, <1>4, JsonTypeCausal DEF Agree
<1>5. Text \subseteq W /\ [Text -> Text] \subseteq [Text -> W]
  OBVIOUS
<1>6. json_type = CHOOSE g : g = [x \in Text |-> JsonType(x, g)]
  BY DEF json_type, JsonType, Inner
<1>7. \A x \in Text : json_type[x] \in W
  OBVIOUS
<1> HIDE DEF G, W, rank
<1>8. Into(Text, Text, G)
  BY <1>3, <1>5, JsonTypeInto DEF Into
<1>9. Causal(Text, W, rank, G)
  BY <1>3, <1>4 DEF Causal
<1>10. PICK f \in [Text -> Text] : Fixed(Text, G, f)
  BY <1>1, <1>2, <1>5, <1>8, <1>9, CausalWithin, Recursion
<1>11. f = [x \in Text |-> JsonType(x, f)]
  <2>1. \A x \in Text : f[x] = JsonType(x, f)
    BY <1>3, <1>5, <1>10 DEF Fixed
  <2>2. QED
    BY <2>1
<1>12. json_type = [x \in Text |-> JsonType(x, json_type)]
  BY <1>6, <1>11
<1>13. json_type \in [Text -> W] /\ \A x \in Text : json_type[x] = JsonType(x, json_type)
  BY <1>7, <1>12
<1>14. Fixed(Text, G, json_type)
  BY <1>3, <1>13 DEF Fixed
<1>15. json_type \in [Text -> Text]
  BY <1>1, <1>2, <1>5, <1>8, <1>9, <1>13, <1>14, RecursionTyped
<1>16. QED
  BY <1>13, <1>15

-----------------------------------------------------------------------------
\* A text with commas has its parts in it, and Parts finds them.
LEMMA JoinedPieces ==
  ASSUME NEW a \in Text, NEW b \in Text, NEW c, c = a \o <<Separator>> \o b
  PROVE  /\ c \in Text /\ Len(c) = Len(a) + 1 + Len(b) /\ Len(a) \in Nat /\ Len(b) \in Nat
         /\ Piece(c, 0, a, Len(a)) /\ c[Len(a) + 1] = Separator
         /\ Piece(c, Len(a) + 1, b, Len(b))
<1>1. /\ c \in Text /\ Len(c) = Len(a) + 1 + Len(b) /\ Len(a) \in Nat /\ Len(b) \in Nat
      /\ \A j \in 1 .. Len(a) : c[j] = a[j]
      /\ c[Len(a) + 1] = Separator
      /\ \A j \in 1 .. Len(b) : c[Len(a) + 1 + j] = b[j]
  BY Tokens DEF Text
<1>2. \A j \in 1 .. Len(a) : c[0 + j] = a[j]
  BY <1>1
<1>3. QED
  BY <1>1, <1>2 DEF Piece

LEMMA WithCommasOne ==
  ASSUME NEW parts \in Seq(Text), Len(parts) = 1
  PROVE  WithCommas[parts] = parts[1]
<1>1. parts # <<>>
  OBVIOUS
<1>2. QED
  BY <1>1, WithCommasIs

LEMMA WithCommasMore ==
  ASSUME NEW parts \in Seq(Text), Len(parts) # 0, Len(parts) # 1
  PROVE  WithCommas[parts] = parts[1] \o <<Separator>> \o WithCommas[Tail(parts)]
<1>1. parts # <<>>
  OBVIOUS
<1>2. QED
  BY <1>1, WithCommasIs

LEMMA PartsMore ==
  ASSUME NEW s \in Text, Comma(s) # 0
  PROVE  Parts[s] = <<SubSeq(s, 1, Comma(s) - 1)>> \o Parts[SubSeq(s, Comma(s) + 1, Len(s))]
BY PartsIs

LEMMA JoinedParts ==
  ASSUME NEW parts \in SomeTexts, \A j \in 1 .. Len(parts) : Whole(parts[j])
  PROVE  Balanced(WithCommas[parts]) /\ Parts[WithCommas[parts]] = parts
<1> DEFINE Good(p) == Balanced(WithCommas[p]) /\ Parts[WithCommas[p]] = p
           T == {n \in Nat : \A p \in SomeTexts :
                   Len(p) = n /\ (\A j \in 1 .. n : Whole(p[j])) => Good(p)}
<1>1. ASSUME NEW n \in Nat, \A m \in Nat : m < n => m \in T PROVE n \in T
  <2> SUFFICES ASSUME NEW p \in SomeTexts, Len(p) = n, \A j \in 1 .. n : Whole(p[j])
               PROVE  Good(p)
    OBVIOUS
  <2>1. /\ p \in Seq(Text) /\ p # <<>> /\ n # 0 /\ p[1] \in Text
        /\ Tail(p) \in Seq(Text) /\ Len(Tail(p)) = n - 1
        /\ \A i \in 1 .. n - 1 : Tail(p)[i] = p[i + 1]
    BY TailOfTexts DEF SomeTexts
  <2>2. CASE n = 1
    <3>1. WithCommas[p] = p[1] /\ Whole(p[1])
      BY <2>1, <2>2, WithCommasOne
    <3>2. Parts[p[1]] = <<p[1]>>
      BY <2>1, <3>1, PartsIs DEF Whole
    <3>3. p = <<p[1]>>
      BY <2>1, <2>2
    <3>4. QED
      BY <3>1, <3>2, <3>3 DEF Whole
  <2>3. CASE n # 1
    <3> DEFINE a == p[1]
               b == WithCommas[Tail(p)]
               c == a \o <<Separator>> \o b
    <3>0. ASSUME NEW j \in 1 .. n - 1 PROVE Whole(Tail(p)[j])
      <4>1. j + 1 \in 1 .. n /\ Tail(p)[j] = p[j + 1]
        BY <2>1
      <4>2. QED
        BY <4>1
    <3>1. Tail(p) \in SomeTexts /\ \A j \in 1 .. n - 1 : Whole(Tail(p)[j])
      <4>1. Tail(p) # <<>>
        <5>1. Len(Tail(p)) # 0
          BY <2>1, <2>3
        <5>2. Len(<<>>) = 0
          OBVIOUS
        <5>3. QED
          BY <5>1, <5>2, Zenon
      <4>2. QED
        BY <2>1, <3>0, <4>1 DEF SomeTexts
    <3>2. n - 1 \in Nat /\ n - 1 \in T
      BY <1>1, <2>1
    <3>3. Balanced(b) /\ Parts[b] = Tail(p)
      BY <2>1, <3>1, <3>2
    <3>4. a \in Text /\ b \in Text /\ Whole(a)
      BY <2>1, <3>3 DEF Balanced
    <3>5. WithCommas[p] = c
      BY <2>1, <2>3, WithCommasIs, WithCommasMore
    <3>6. p = <<a>> \o Tail(p)
      BY <2>1
    <3> HIDE DEF a, b, c
    <3>7. /\ c \in Text /\ Len(c) = Len(a) + 1 + Len(b) /\ Len(a) \in Nat /\ Len(b) \in Nat
          /\ Piece(c, 0, a, Len(a)) /\ c[Len(a) + 1] = Separator
          /\ Piece(c, Len(a) + 1, b, Len(b))
      BY <3>4, JoinedPieces DEF c
    <3>8. /\ Balanced(c) /\ Comma(c) = Len(a) + 1
          /\ SubSeq(c, 1, Comma(c) - 1) = a
          /\ SubSeq(c, Comma(c) + 1, Len(c)) = b
      BY <3>3, <3>4, <3>7, Joined
    <3>9. Parts[c] = <<a>> \o Parts[b]
      <4>1. Comma(c) # 0
        BY <3>7, <3>8
      <4>2. QED
        BY <3>7, <3>8, <4>1, PartsMore
    <3>10. QED
      BY <3>3, <3>5, <3>6, <3>8, <3>9
  <2>4. QED
    BY <2>2, <2>3
<1>2. \A n \in Nat : n \in T
  <2> HIDE DEF T
  <2>1. QED
    BY <1>1, StrongInduction
<1>3. Len(parts) \in Nat
  BY DEF SomeTexts
<1>4. QED
  BY <1>2, <1>3

\* u is in s, after some token.
Within(s, u) == \E k \in Nat : k + Len(u) <= Len(s) /\ Piece(s, k, u, Len(u))

LEMMA WithinTransitive ==
  ASSUME NEW s \in Text, NEW u \in Text, NEW v \in Text, Within(s, u), Within(u, v)
  PROVE  Within(s, v)
<1>1. Len(s) \in Nat /\ Len(u) \in Nat /\ Len(v) \in Nat
  BY CommaPlace
<1>2. PICK k \in Nat : k + Len(u) <= Len(s) /\ Piece(s, k, u, Len(u))
  BY DEF Within
<1>3. PICK l \in Nat : l + Len(v) <= Len(u) /\ Piece(u, l, v, Len(v))
  BY DEF Within
<1>4. ASSUME NEW j \in 1 .. Len(v) PROVE s[(k + l) + j] = v[j]
  <2>1. l + j \in 1 .. Len(u)
    BY <1>1, <1>3
  <2>2. s[k + (l + j)] = u[l + j] /\ u[l + j] = v[j]
    BY <1>2, <1>3, <2>1 DEF Piece
  <2>3. k + (l + j) = (k + l) + j
    BY <1>1
  <2>4. QED
    BY <2>2, <2>3
<1>5. k + l \in Nat /\ (k + l) + Len(v) <= Len(s)
  BY <1>1, <1>2, <1>3
<1>6. QED
  BY <1>4, <1>5 DEF Within, Piece

LEMMA PartsAreWithin ==
  ASSUME NEW parts \in Seq(Text), NEW j \in 1 .. Len(parts)
  PROVE  Within(WithCommas[parts], parts[j])
<1> DEFINE T == {n \in Nat : \A p \in Seq(Text) :
                   Len(p) = n => \A i \in 1 .. n : Within(WithCommas[p], p[i])}
<1>1. ASSUME NEW n \in Nat, \A m \in Nat : m < n => m \in T PROVE n \in T
  <2> SUFFICES ASSUME NEW p \in Seq(Text), Len(p) = n, NEW i \in 1 .. n
               PROVE  Within(WithCommas[p], p[i])
    OBVIOUS
  <2>1. /\ p # <<>> /\ n # 0 /\ p[1] \in Text /\ p[i] \in Text
        /\ Tail(p) \in Seq(Text) /\ Len(Tail(p)) = n - 1
        /\ \A l \in 1 .. n - 1 : Tail(p)[l] = p[l + 1]
    BY TailOfTexts
  <2>2. CASE n = 1
    <3>1. WithCommas[p] = p[1] /\ i = 1
      BY <2>1, <2>2, WithCommasOne
    <3>2. Within(p[1], p[1])
      <4>1. Len(p[1]) \in Nat
        BY <2>1, CommaPlace
      <4>2. 0 + Len(p[1]) <= Len(p[1]) /\ Piece(p[1], 0, p[1], Len(p[1]))
        BY <4>1 DEF Piece
      <4>3. QED
        BY <4>2 DEF Within
    <3>3. QED
      BY <3>1, <3>2
  <2>3. CASE n # 1
    <3> DEFINE a == p[1]
               b == WithCommas[Tail(p)]
               c == a \o <<Separator>> \o b
    <3>1. a \in Text /\ b \in Text /\ WithCommas[p] = c
      BY <2>1, <2>3, WithCommasIs, WithCommasMore
    <3> HIDE DEF b, c
    <3>2. /\ c \in Text /\ Len(c) = Len(a) + 1 + Len(b) /\ Len(a) \in Nat /\ Len(b) \in Nat
          /\ Piece(c, 0, a, Len(a)) /\ Piece(c, Len(a) + 1, b, Len(b))
      BY <3>1, JoinedPieces DEF c
    <3>3. Within(c, a)
      <4>1. 0 + Len(a) <= Len(c)
        BY <3>2
      <4>2. QED
        BY <3>2, <4>1 DEF Within
    <3>4. Within(c, b)
      <4>1. Len(a) + 1 \in Nat /\ (Len(a) + 1) + Len(b) <= Len(c)
        BY <3>2
      <4>2. QED
        BY <3>2, <4>1 DEF Within
    <3>5. CASE i = 1
      BY <3>1, <3>3, <3>5
    <3>6. CASE i # 1
      <4>1. n - 1 \in Nat /\ n - 1 \in T /\ i - 1 \in 1 .. n - 1 /\ Tail(p)[i - 1] = p[i]
        BY <1>1, <2>1, <3>6
      <4>2. Within(b, p[i])
        BY <2>1, <4>1 DEF b
      <4>3. QED
        BY <2>1, <3>1, <3>2, <3>4, <4>2, WithinTransitive
    <3>7. QED
      BY <3>5, <3>6
  <2>4. QED
    BY <2>2, <2>3
<1>2. \A n \in Nat : n \in T
  <2> HIDE DEF T
  <2>1. QED
    BY <1>1, StrongInduction
<1>3. QED
  BY <1>2

-----------------------------------------------------------------------------
(***************************************************************************)
(* The names of types, and what json_type writes for them.                 *)
(***************************************************************************)
\* The names of the arguments of a generic type.
ArgumentNames(args) == [j \in 1 .. Len(args) |-> type_get_name[args[j]]]

\* A type is of one of three kinds, with its name.
LEMMA TypeName ==
  ASSUME NEW t \in Type
  PROVE  /\ type_get_name[t] \in Text /\ Len(type_get_name[t]) \in Nat
         /\ \/ IsNamed(t) /\ type_get_name[t] = <<t.name>>
            \/ IsInstance(t) /\ type_get_name[t] = Generic(t.name, ArgumentNames(t.args))
            \/ IsArray(t) /\ type_get_name[t] = Append(type_get_name[t.of], "[]")
<1>1. type_get_name[t] \in Text
  BY TypesAssumption
<1>2. Len(type_get_name[t]) \in Nat
  BY <1>1, CommaPlace
<1>3. QED
  BY <1>1, <1>2, TypesAssumption DEF ArgumentNames

LEMMA InstanceName ==
  ASSUME NEW t \in Type, IsInstance(t), type_get_name[t] = Generic(t.name, ArgumentNames(t.args))
  PROVE  LET names == ArgumentNames(t.args)
             s == type_get_name[t]
             w == WithCommas[names]
         IN  /\ names \in SomeTexts /\ Len(names) = Len(t.args) /\ Len(t.args) \in Nat
             /\ t.name \in Dotted
             /\ \A j \in 1 .. Len(t.args) :
                  t.args[j] \in Type /\ names[j] = type_get_name[t.args[j]]
             /\ w \in Text /\ Len(w) \in Nat /\ s \in Text /\ Len(s) = Len(w) + 3
             /\ s[1] = t.name /\ s[2] = "<" /\ s[Len(w) + 3] = ">" /\ Piece(s, 2, w, Len(w))
<1> DEFINE names == ArgumentNames(t.args)
<1>1. /\ t.name \in Dotted /\ t.args \in Seq(Type) /\ t.args # <<>> /\ Len(t.args) \in Nat
      /\ \A j \in 1 .. Len(t.args) : t.args[j] \in Type
  BY DEF IsInstance
<1>2. \A j \in 1 .. Len(t.args) : type_get_name[t.args[j]] \in Text
  BY <1>1, TypeName
<1>3. names \in Seq(Text) /\ Len(names) = Len(t.args)
  BY <1>1, <1>2 DEF ArgumentNames
<1>4. names # <<>>
  BY <1>1, <1>3
<1>5. \A j \in 1 .. Len(t.args) : names[j] = type_get_name[t.args[j]]
  BY DEF ArgumentNames
<1> HIDE DEF names
<1>6. WithCommas[names] \in Text
  BY <1>3, WithCommasIs
<1>7. type_get_name[t] = <<t.name, "<">> \o WithCommas[names] \o <<">">>
  BY DEF Generic, names
<1>8. t.name \in Token
  BY <1>1, Tokens
<1> DEFINE x == type_get_name[t]
           y == WithCommas[names]
<1>9. /\ x \in Text /\ Len(x) = Len(y) + 3 /\ Len(y) \in Nat
      /\ x[1] = t.name /\ x[2] = "<" /\ x[Len(y) + 3] = ">"
      /\ \A j \in 1 .. Len(y) : x[2 + j] = y[j]
  <2>1. y \in Text /\ x = <<t.name, "<">> \o y \o <<">">>
    BY <1>6, <1>7
  <2> HIDE DEF x, y
  <2>2. QED
    BY <1>8, <2>1, Tokens DEF Text
<1>10. QED
  BY <1>1, <1>3, <1>4, <1>5, <1>6, <1>9 DEF Piece, SomeTexts, names

\* The types that t is built from have shorter names, which are within its own.
LEMMA ArgumentWithin ==
  ASSUME NEW t \in Type, IsInstance(t), type_get_name[t] = Generic(t.name, ArgumentNames(t.args)),
         NEW j \in 1 .. Len(t.args)
  PROVE  /\ t.args[j] \in Type
         /\ Within(type_get_name[t], type_get_name[t.args[j]])
         /\ Len(type_get_name[t.args[j]]) < Len(type_get_name[t])
<1> DEFINE s == type_get_name[t]
           w == WithCommas[ArgumentNames(t.args)]
           u == type_get_name[t.args[j]]
<1>1. /\ ArgumentNames(t.args) \in Seq(Text) /\ Len(ArgumentNames(t.args)) = Len(t.args) /\ Len(t.args) \in Nat
      /\ t.args[j] \in Type /\ ArgumentNames(t.args)[j] = u
      /\ w \in Text /\ Len(w) \in Nat /\ s \in Text /\ Len(s) = Len(w) + 3 /\ Piece(s, 2, w, Len(w))
  BY InstanceName DEF SomeTexts
<1>2. u \in Text /\ Len(u) \in Nat
  BY <1>1, TypeName
<1>3. Within(w, u)
  BY <1>1, PartsAreWithin
<1> HIDE DEF s, w, u
<1>4. Within(s, w)
  <2>1. 2 + Len(w) <= Len(s)
    BY <1>1
  <2>2. QED
    BY <1>1, <2>1 DEF Within
<1>5. Within(s, u)
  BY <1>1, <1>2, <1>3, <1>4, WithinTransitive
<1>6. Len(u) <= Len(w)
  BY <1>1, <1>2, <1>3 DEF Within
<1>7. Len(u) < Len(s)
  BY <1>1, <1>2, <1>6
<1>8. QED
  BY <1>1, <1>5, <1>7 DEF s, u

LEMMA ElementWithin ==
  ASSUME NEW t \in Type, IsArray(t), type_get_name[t] = Append(type_get_name[t.of], "[]")
  PROVE  LET s == type_get_name[t]
             u == type_get_name[t.of]
         IN  /\ t.of \in Type /\ u \in Text /\ Len(u) \in Nat
             /\ s \in Text /\ Len(s) = Len(u) + 1 /\ s # <<>>
             /\ s[Len(u) + 1] = "[]" /\ Last(s) = "[]" /\ Front(s) = u
             /\ Piece(s, 0, u, Len(u)) /\ Within(s, u)
<1> DEFINE s == type_get_name[t]
           u == type_get_name[t.of]
<1>1. t.of \in Type /\ u \in Text /\ Len(u) \in Nat /\ s \in Text /\ s = Append(u, "[]")
  BY TypeName DEF IsArray
<1> HIDE DEF s, u
<1>2. /\ Len(s) = Len(u) + 1 /\ s # <<>> /\ s[Len(u) + 1] = "[]" /\ Last(s) = "[]" /\ Front(s) = u
      /\ \A j \in 1 .. Len(u) : s[j] = u[j]
  BY <1>1, ArrayTokens
<1>3. Piece(s, 0, u, Len(u)) /\ 0 + Len(u) <= Len(s)
  BY <1>1, <1>2 DEF Piece
<1>4. Within(s, u)
  BY <1>3 DEF Within
<1>5. QED
  BY <1>1, <1>2, <1>3, <1>4 DEF s, u

\* In the name of a type, each bracket is closed and each comma is in brackets.
LEMMA TypeNamesWhole == \A t \in Type : Whole(type_get_name[t])
<1> DEFINE T == {n \in Nat : \A t \in Type : Len(type_get_name[t]) = n => Whole(type_get_name[t])}
<1>1. ASSUME NEW n \in Nat, \A m \in Nat : m < n => m \in T PROVE n \in T
  <2> SUFFICES ASSUME NEW t \in Type, Len(type_get_name[t]) = n PROVE Whole(type_get_name[t])
    OBVIOUS
  <2>1. CASE IsNamed(t) /\ type_get_name[t] = <<t.name>>
    BY <2>1, OneName DEF IsNamed
  <2>2. CASE IsInstance(t) /\ type_get_name[t] = Generic(t.name, ArgumentNames(t.args))
    <3> DEFINE names == ArgumentNames(t.args)
               s == type_get_name[t]
               w == WithCommas[names]
    <3>1. /\ names \in SomeTexts /\ Len(names) = Len(t.args) /\ Len(t.args) \in Nat /\ t.name \in Dotted
          /\ \A j \in 1 .. Len(t.args) : t.args[j] \in Type /\ names[j] = type_get_name[t.args[j]]
          /\ w \in Text /\ Len(w) \in Nat /\ s \in Text /\ Len(s) = Len(w) + 3
          /\ s[1] = t.name /\ s[2] = "<" /\ s[Len(w) + 3] = ">" /\ Piece(s, 2, w, Len(w))
      BY <2>2, InstanceName
    <3>2. ASSUME NEW j \in 1 .. Len(names) PROVE Whole(names[j])
      <4>1. j \in 1 .. Len(t.args)
        BY <3>1
      <4>2. /\ t.args[j] \in Type /\ Len(type_get_name[t.args[j]]) < n
            /\ Len(type_get_name[t.args[j]]) \in Nat
        BY <2>2, <4>1, ArgumentWithin, TypeName
      <4>3. Whole(type_get_name[t.args[j]])
        BY <1>1, <4>2
      <4>4. QED
        BY <3>1, <4>1, <4>3
    <3> HIDE DEF names, s
    <3>3. Balanced(w)
      BY <3>1, <3>2, JoinedParts
    <3> HIDE DEF w
    <3>4. Whole(s)
      BY <3>1, <3>3, InBrackets
    <3>5. QED
      BY <3>4 DEF s
  <2>3. CASE IsArray(t) /\ type_get_name[t] = Append(type_get_name[t.of], "[]")
    <3> DEFINE s == type_get_name[t]
               u == type_get_name[t.of]
    <3>1. /\ t.of \in Type /\ u \in Text /\ Len(u) \in Nat
          /\ s \in Text /\ Len(s) = Len(u) + 1 /\ s[Len(u) + 1] = "[]" /\ Piece(s, 0, u, Len(u))
      BY <2>3, ElementWithin
    <3>2. Len(u) < n
      BY <3>1
    <3>3. Whole(u)
      BY <1>1, <3>1, <3>2
    <3> HIDE DEF s, u
    <3>4. Whole(s)
      BY <3>1, <3>3, OfArray
    <3>5. QED
      BY <3>4 DEF s
  <2>4. QED
    BY <2>1, <2>2, <2>3, TypeName
<1>2. \A n \in Nat : n \in T
  <2> HIDE DEF T
  <2>1. QED
    BY <1>1, StrongInduction
<1>3. QED
  BY <1>2, TypeName

\* A name with a closing bracket is that of an instance of a generic type, or has
\* an array of such instances in it.
LEMMA Brackets ==
  ASSUME NEW t \in Type, NEW i \in 1 .. Len(type_get_name[t]), type_get_name[t][i] = ">"
  PROVE  HasGenericArray(t) \/ type_get_name[t][Len(type_get_name[t])] = ">"
<1> DEFINE Bracket(r) == \E j \in 1 .. Len(type_get_name[r]) : type_get_name[r][j] = ">"
           Ends(r) == HasGenericArray(r) \/ type_get_name[r][Len(type_get_name[r])] = ">"
           T == {n \in Nat : \A r \in Type : Len(type_get_name[r]) = n /\ Bracket(r) => Ends(r)}
<1>1. ASSUME NEW n \in Nat, \A m \in Nat : m < n => m \in T PROVE n \in T
  <2> SUFFICES ASSUME NEW r \in Type, Len(type_get_name[r]) = n, Bracket(r) PROVE Ends(r)
    OBVIOUS
  <2>1. CASE IsNamed(r) /\ type_get_name[r] = <<r.name>>
    <3>1. r.name \in Dotted /\ r.name # ">"
      BY <2>1, DottedAssumption DEF IsNamed
    <3>2. QED
      BY <2>1, <3>1
  <2>2. CASE IsInstance(r) /\ type_get_name[r] = Generic(r.name, ArgumentNames(r.args))
    BY <2>2, InstanceName
  <2>3. CASE IsArray(r) /\ type_get_name[r] = Append(type_get_name[r.of], "[]")
    <3> DEFINE s == type_get_name[r]
               u == type_get_name[r.of]
    <3>1. /\ r.of \in Type /\ u \in Text /\ Len(u) \in Nat
          /\ s \in Text /\ Len(s) = Len(u) + 1 /\ s[Len(u) + 1] = "[]" /\ Piece(s, 0, u, Len(u))
      BY <2>3, ElementWithin
    <3>2. \A j \in 1 .. Len(u) : s[j] = u[j]
      BY <3>1 DEF Piece
    <3>3. PICK j \in 1 .. Len(s) : s[j] = ">"
      OBVIOUS
    <3>4. j \in 1 .. Len(u) /\ u[j] = ">"
      BY <3>1, <3>2, <3>3
    <3>5. Ends(r.of)
      <4>1. Bracket(r.of)
        BY <3>4
      <4>2. Len(u) < n
        BY <3>1
      <4>3. QED
        BY <1>1, <3>1, <4>1, <4>2
    <3>6. CASE u[Len(u)] = ">"
      <4>1. Len(u) \in 1 .. Len(u) /\ Len(u) \in 1 .. Len(s) - 1
        BY <3>1, <3>4
      <4>2. s[Len(u)] = ">" /\ s[Len(u) + 1] = "[]"
        BY <3>1, <3>2, <3>6, <4>1
      <4>3. HasGenericArray(r)
        BY <4>1, <4>2 DEF HasGenericArray
      <4>4. QED
        BY <4>3
    <3>7. CASE HasGenericArray(r.of)
      <4>1. PICK l \in 1 .. Len(u) - 1 : u[l] = ">" /\ u[l + 1] = "[]"
        BY <3>7 DEF HasGenericArray
      <4>2. l \in 1 .. Len(u) /\ l + 1 \in 1 .. Len(u) /\ l \in 1 .. Len(s) - 1
        BY SMTT(30), <3>1
      <4>3. s[l] = ">" /\ s[l + 1] = "[]"
        BY <3>2, <4>1, <4>2
      <4>4. HasGenericArray(r)
        BY <4>2, <4>3 DEF HasGenericArray
      <4>5. QED
        BY <4>4
    <3>8. QED
      BY <3>5, <3>6, <3>7
  <2>4. QED
    BY <2>1, <2>2, <2>3, TypeName
<1>2. \A n \in Nat : n \in T
  <2> HIDE DEF T
  <2>1. QED
    BY <1>1, StrongInduction
<1>3. Len(type_get_name[t]) \in T /\ Bracket(t)
  BY <1>2, TypeName
<1>4. QED
  BY <1>3

\* The equation of CSharp.
CSharpOf(t, f) ==
  CASE t.kind = "name"    -> <<IF t.name \in DOMAIN Keyword THEN Keyword[t.name]
                               ELSE ShortName[t.name]>>
    [] t.kind = "generic" -> Instance(t.name, [j \in 1 .. Len(t.args) |-> f[t.args[j]]])
    [] OTHER              -> Generic(ShortName[List], <<f[t.of]>>)

\* Its cases, which exclude each other.
LEMMA CSharpCases ==
  ASSUME NEW t, NEW f
  PROVE  /\ IsNamed(t) => CSharpOf(t, f) = <<IF t.name \in DOMAIN Keyword THEN Keyword[t.name]
                                             ELSE ShortName[t.name]>>
         /\ IsInstance(t) =>
              CSharpOf(t, f) = Instance(t.name, [j \in 1 .. Len(t.args) |-> f[t.args[j]]])
         /\ IsArray(t) => CSharpOf(t, f) = Generic(ShortName[List], <<f[t.of]>>)
BY DEF CSharpOf, IsNamed, IsInstance, IsArray

LEMMA CSharpInto ==
  ASSUME NEW t \in Type, NEW f \in [Type -> Text]
  PROVE  CSharpOf(t, f) \in Text
<1>1. CASE IsNamed(t)
  <2>1. (IF t.name \in DOMAIN Keyword THEN Keyword[t.name] ELSE ShortName[t.name]) \in Token
    BY <1>1 DEF IsNamed, Token
  <2>2. \A x \in Token : <<x>> \in Text
    BY DEF Text
  <2>3. QED
    BY <1>1, <2>1, <2>2, CSharpCases
<1>2. CASE IsInstance(t)
  <2>1. t.args \in Seq(Type) /\ t.name \in Token
    BY <1>2, Tokens DEF IsInstance
  <2>2. [j \in 1 .. Len(t.args) |-> f[t.args[j]]] \in Seq(Text)
    BY <2>1
  <2>3. QED
    BY <1>2, <2>1, <2>2, CSharpCases, InstanceIsText
<1>3. CASE IsArray(t)
  <2>1. <<f[t.of]>> \in Seq(Text)
    BY <1>3 DEF IsArray
  <2>2. ShortName[List] \in Token
    BY DottedAssumption DEF Token
  <2>3. QED
    BY <1>3, <2>1, <2>2, CSharpCases, GenericIsText
<1>4. QED
  BY <1>1, <1>2, <1>3, TypeName

LEMMA CSharpCausal ==
  ASSUME NEW t \in Type, NEW f, NEW g,
         \A u \in Type : Len(type_get_name[u]) < Len(type_get_name[t]) => f[u] = g[u]
  PROVE  CSharpOf(t, f) = CSharpOf(t, g)
<1>1. CASE IsNamed(t)
  BY <1>1, CSharpCases
<1>2. CASE IsInstance(t) /\ type_get_name[t] = Generic(t.name, ArgumentNames(t.args))
  <2>1. \A j \in 1 .. Len(t.args) : f[t.args[j]] = g[t.args[j]]
    BY <1>2, ArgumentWithin
  <2>2. [j \in 1 .. Len(t.args) |-> f[t.args[j]]] = [j \in 1 .. Len(t.args) |-> g[t.args[j]]]
    BY <2>1
  <2>3. /\ CSharpOf(t, f) = Instance(t.name, [j \in 1 .. Len(t.args) |-> f[t.args[j]]])
        /\ CSharpOf(t, g) = Instance(t.name, [j \in 1 .. Len(t.args) |-> g[t.args[j]]])
    BY <1>2, CSharpCases
  <2>4. QED
    BY <2>2, <2>3
<1>3. CASE IsArray(t) /\ type_get_name[t] = Append(type_get_name[t.of], "[]")
  <2>1. t.of \in Type /\ Len(type_get_name[t.of]) < Len(type_get_name[t])
    BY <1>3, ElementWithin
  <2>2. f[t.of] = g[t.of]
    BY <2>1
  <2>3. QED
    BY <1>3, <2>2, CSharpCases
<1>4. QED
  BY <1>1, <1>2, <1>3, TypeName

LEMMA CSharpIs == \A t \in Type : CSharp[t] = CSharpOf(t, CSharp)
<1> DEFINE W == Text \cup {CSharp[t] : t \in Type}
           G == [q \in Type \X [Type -> Text] |-> CSharpOf(q[1], q[2])]
           rank == [t \in Type |-> Len(type_get_name[t])]
<1>1. rank \in [Type -> Nat] /\ \A t \in Type : rank[t] = Len(type_get_name[t])
  BY TypeName
<1>2. <<>> \in Text
  BY DEF Text
<1>3. ASSUME NEW t \in Type, NEW f \in [Type -> Text] PROVE G[<<t, f>>] = CSharpOf(t, f)
  OBVIOUS
<1>4. ASSUME NEW t \in Type, NEW f \in [Type -> Text], NEW g \in [Type -> Text],
             Agree(Type, rank, f, g, rank[t])
      PROVE  CSharpOf(t, f) = CSharpOf(t, g)
  BY <1>1, <1>4, CSharpCausal DEF Agree
<1>5. CSharp = CHOOSE g : g = [t \in Type |-> CSharpOf(t, g)]
  BY DEF CSharp, CSharpOf
<1> HIDE DEF G, rank
<1>6. Into(Type, Text, G)
  BY <1>3, CSharpInto DEF Into
<1>7. Causal(Type, Text, rank, G)
  BY <1>3, <1>4 DEF Causal
<1>8. PICK f \in [Type -> Text] : Fixed(Type, G, f)
  BY <1>1, <1>2, <1>6, <1>7, Recursion
<1>9. f = [t \in Type |-> CSharpOf(t, f)]
  <2>1. \A t \in Type : f[t] = CSharpOf(t, f)
    BY <1>3, <1>8 DEF Fixed
  <2>2. QED
    BY <2>1
<1>10. CSharp = [t \in Type |-> CSharpOf(t, CSharp)]
  BY <1>5, <1>9
<1>11. QED
  BY <1>10

\* What is without arrays of generic types is so in its parts.
LEMMA NoArrayWithin ==
  ASSUME NEW t \in Type, NEW u \in Type, Within(type_get_name[t], type_get_name[u]),
         ~HasGenericArray(t)
  PROVE  ~HasGenericArray(u)
<1> SUFFICES ASSUME HasGenericArray(u) PROVE FALSE
  OBVIOUS
<1> DEFINE s == type_get_name[t]
           v == type_get_name[u]
<1>1. Len(s) \in Nat /\ Len(v) \in Nat
  BY TypeName
<1>2. PICK i \in 1 .. Len(v) - 1 : v[i] = ">" /\ v[i + 1] = "[]"
  BY DEF HasGenericArray
<1>3. PICK k \in Nat : k + Len(v) <= Len(s) /\ Piece(s, k, v, Len(v))
  BY DEF Within
<1>4. i \in 1 .. Len(v) /\ i + 1 \in 1 .. Len(v) /\ k + i \in 1 .. Len(s) - 1
  BY <1>1, <1>3
<1>5. s[k + i] = ">" /\ s[k + (i + 1)] = "[]"
  BY <1>2, <1>3, <1>4 DEF Piece
<1>6. k + (i + 1) = (k + i) + 1
  BY <1>4
<1>7. QED
  BY <1>4, <1>5, <1>6 DEF HasGenericArray

\* Without a closing bracket, json_type finds no instance of a generic type.
LEMMA NoBracketNoClosing ==
  ASSUME NEW s \in Text, \A i \in 1 .. Len(s) : s[i] # ">"
  PROVE  Closing(s) = 0
<1>1. Opening(s) \in Nat /\ Len(s) \in Nat
  BY BracketPlaces
<1>2. {i \in Opening(s) + 1 .. Len(s) : s[i] = ">" /\ Depth(s, i) = 0} = {}
  BY <1>1
<1>3. QED
  BY <1>2 DEF Closing, First

\* What json_type writes for each kind of type, from what it writes for its parts.
LEMMA JsonTypeReadsName ==
  ASSUME NEW t \in Type, IsNamed(t), type_get_name[t] = <<t.name>>
  PROVE  json_type[type_get_name[t]] = CSharp[t]
<1> DEFINE s == <<t.name>>
<1>1. t.name \in Dotted /\ t.name # "[]" /\ Closing(s) = 0 /\ s \in Text
  BY OneName, TypeName, DottedAssumption DEF IsNamed
<1>2. CSharp[t] = <<IF t.name \in DOMAIN Keyword THEN Keyword[t.name] ELSE ShortName[t.name]>>
  BY CSharpIs, CSharpCases
<1>3. json_type[s] = JsonType(s, json_type)
  BY <1>1, json_typeIs
<1>4. Len(s) = 1 /\ s[1] = t.name /\ Last(s) = t.name
  BY DEF Last
<1> HIDE DEF s
<1>5. CASE t.name \in DOMAIN Keyword
  BY <1>2, <1>3, <1>4, <1>5 DEF JsonType, s
<1>6. CASE t.name \notin DOMAIN Keyword
  <2>1. JsonType(s, json_type) = [j \in 1 .. 1 |-> Short(s[j])]
    BY <1>1, <1>4, <1>6 DEF JsonType
  <2>2. \A j \in 1 .. 1 : Short(s[j]) = ShortName[t.name]
    BY <1>1, <1>4 DEF Short
  <2>3. [j \in 1 .. 1 |-> Short(s[j])] = <<ShortName[t.name]>>
    BY <2>2
  <2>4. QED
    BY <1>2, <1>3, <1>6, <2>1, <2>3 DEF s
<1>7. QED
  BY <1>5, <1>6

LEMMA JsonTypeReadsInstance ==
  ASSUME NEW t \in Type, IsInstance(t), type_get_name[t] = Generic(t.name, ArgumentNames(t.args)),
         \A j \in 1 .. Len(t.args) : json_type[type_get_name[t.args[j]]] = CSharp[t.args[j]]
  PROVE  json_type[type_get_name[t]] = CSharp[t]
<1> DEFINE names == ArgumentNames(t.args)
           s == type_get_name[t]
           w == WithCommas[names]
<1>1. /\ names \in SomeTexts /\ Len(names) = Len(t.args) /\ Len(t.args) \in Nat /\ t.name \in Dotted
      /\ \A j \in 1 .. Len(t.args) : t.args[j] \in Type /\ names[j] = type_get_name[t.args[j]]
      /\ w \in Text /\ Len(w) \in Nat /\ s \in Text /\ Len(s) = Len(w) + 3
      /\ s[1] = t.name /\ s[2] = "<" /\ s[Len(w) + 3] = ">" /\ Piece(s, 2, w, Len(w))
  BY InstanceName
<1>2. \A j \in 1 .. Len(names) : Whole(names[j])
  BY <1>1, TypeNamesWhole
<1>3. CSharp[t] = Instance(t.name, [j \in 1 .. Len(t.args) |-> CSharp[t.args[j]]])
  BY CSharpIs, CSharpCases
<1>4. json_type[s] = JsonType(s, json_type)
  BY <1>1, json_typeIs
<1> HIDE DEF names, s
<1>5. Balanced(w) /\ Parts[w] = names
  BY <1>1, <1>2, JoinedParts
<1> HIDE DEF w
<1>6. Closing(s) = Len(s) /\ SubSeq(s, Opening(s) + 1, Closing(s) - 1) = w
  BY <1>1, <1>5, InBrackets
<1>7. Closing(s) # 0 /\ Len(s) # 1 /\ Inner(s) = w
  BY <1>1, <1>6 DEF Inner
<1>8. JsonType(s, json_type) = Instance(t.name, [j \in 1 .. Len(names) |-> json_type[names[j]]])
  BY <1>1, <1>5, <1>7 DEF JsonType
<1>9. [j \in 1 .. Len(names) |-> json_type[names[j]]] = [j \in 1 .. Len(t.args) |-> CSharp[t.args[j]]]
  BY <1>1
<1>10. QED
  BY <1>3, <1>4, <1>8, <1>9 DEF s

LEMMA JsonTypeReadsArray ==
  ASSUME NEW t \in Type, IsArray(t), type_get_name[t] = Append(type_get_name[t.of], "[]"),
         ~HasGenericArray(t), json_type[type_get_name[t.of]] = CSharp[t.of]
  PROVE  json_type[type_get_name[t]] = CSharp[t]
<1> DEFINE s == type_get_name[t]
           u == type_get_name[t.of]
<1>1. /\ u \in Text /\ Len(u) \in Nat /\ s \in Text /\ Len(s) = Len(u) + 1 /\ s # <<>>
      /\ s[Len(u) + 1] = "[]" /\ Last(s) = "[]" /\ Front(s) = u
  BY ElementWithin
<1>2. Whole(u)
  BY ElementWithin, TypeNamesWhole
<1>3. Len(s) # 1
  <2>1. Len(u) # 0
    BY <1>1, <1>2 DEF Whole, Balanced
  <2>2. QED
    BY <1>1, <2>1
<1>4. Closing(s) = 0
  <2>1. \A i \in 1 .. Len(s) : s[i] # ">"
    BY <1>1, Brackets
  <2>2. QED
    BY <1>1, <2>1, NoBracketNoClosing
<1>5. CSharp[t] = Generic(ShortName[List], <<CSharp[t.of]>>)
  BY CSharpIs, CSharpCases
<1>6. json_type[s] = JsonType(s, json_type)
  BY <1>1, json_typeIs
<1> HIDE DEF s
<1>7. JsonType(s, json_type) = Generic(Short(List), <<json_type[u]>>)
  BY <1>1, <1>3, <1>4 DEF JsonType
<1>8. Short(List) = ShortName[List]
  BY DottedAssumption DEF Short
<1>9. QED
  BY <1>5, <1>6, <1>7, <1>8 DEF s

\* json_type writes the C# type of every type without arrays of generic types.
LEMMA JsonTypeReads ==
  ASSUME NEW t \in Type, ~HasGenericArray(t)
  PROVE  json_type[type_get_name[t]] = CSharp[t]
<1> DEFINE Right(r) == json_type[type_get_name[r]] = CSharp[r]
           T == {n \in Nat : \A r \in Type :
                   Len(type_get_name[r]) = n /\ ~HasGenericArray(r) => Right(r)}
<1>1. ASSUME NEW n \in Nat, \A m \in Nat : m < n => m \in T PROVE n \in T
  <2> SUFFICES ASSUME NEW r \in Type, Len(type_get_name[r]) = n, ~HasGenericArray(r)
               PROVE  Right(r)
    OBVIOUS
  <2>1. CASE IsNamed(r) /\ type_get_name[r] = <<r.name>>
    BY <2>1, JsonTypeReadsName
  <2>2. CASE IsInstance(r) /\ type_get_name[r] = Generic(r.name, ArgumentNames(r.args))
    <3>1. ASSUME NEW j \in 1 .. Len(r.args) PROVE Right(r.args[j])
      <4>1. /\ r.args[j] \in Type /\ Len(type_get_name[r.args[j]]) < n
            /\ Len(type_get_name[r.args[j]]) \in Nat /\ ~HasGenericArray(r.args[j])
        BY <2>2, ArgumentWithin, NoArrayWithin, TypeName
      <4>2. QED
        BY <1>1, <4>1
    <3>2. QED
      BY <2>2, <3>1, JsonTypeReadsInstance
  <2>3. CASE IsArray(r) /\ type_get_name[r] = Append(type_get_name[r.of], "[]")
    <3>1. /\ r.of \in Type /\ Len(type_get_name[r.of]) < n
          /\ Len(type_get_name[r.of]) \in Nat /\ ~HasGenericArray(r.of)
      BY <2>3, ElementWithin, NoArrayWithin
    <3>2. Right(r.of)
      BY <1>1, <3>1
    <3>3. QED
      BY <2>3, <3>2, JsonTypeReadsArray
  <2>4. QED
    BY <2>1, <2>2, <2>3, TypeName
<1>2. \A n \in Nat : n \in T
  <2> HIDE DEF T
  <2>1. QED
    BY <1>1, StrongInduction
<1>3. QED
  BY <1>2, TypeName
-----------------------------------------------------------------------------
(***************************************************************************)
(* Dumper.                                                                 *)
(***************************************************************************)
\* The names of the classes of the first n assemblies.
NamesUpTo(n) == UNION {{c.name : c \in ClassesOf(i)} : i \in 1 .. n}

Numbers ==
  /\ registered \in 0 .. Len(Assemblies) /\ level \in 0 .. 2
  /\ at \in {"start", "names", "domain", "types", "write_types", "all", "write_all",
             "done", "failed", "crashed"}
  /\ polls \in 0 .. MaxPolls
  /\ count \in 0 .. registered /\ index \in 1 .. count + 1
Counting == gameAssembly \in BOOLEAN /\ Numbers

\* What is in the two files, while they are written and afterwards.
Files ==
  /\ at # "write_types" /\ types # None => Written(types) \subseteq NamesUpTo(registered)
  /\ at = "write_types" => Written(types) \subseteq NamesUpTo(index - 1)
  /\ at \in {"start", "names", "domain", "types", "write_types", "all"} => all = None
  /\ at # "write_all" /\ all # None => Written(all) \subseteq NamesUpTo(registered)
  /\ at = "write_all" =>
       /\ types # None => Written(types) \subseteq NamesUpTo(count)
       /\ Written(all) = NamesUpTo(index - 1)
  /\ TypesWithinAll

FilesInv == Counting /\ Files

\* A step of the dumper is one of resolve, or leaves the names alone.
LEMMA DumperResolves == Spec => NamesSpec
<1>1. Init => NamesInit
  BY DEF Init
<1>2. [Next]_vars => [resolve]_nameVars
  BY DEF Next, vars, Run, LoadGameAssembly, RegisterAssembly, Start, TimeOut,
         WaitForGameAssembly, ResolveNames, InitBridge, PollDomain, Crash, OpenFails,
         OpenTypes, DumpTypes, CloseTypes, OpenAll, DumpAll, CloseAll
<1>3. QED
  BY <1>1, <1>2, PTL DEF Spec, NamesSpec

LEMMA AssemblyCount == Len(Assemblies) \in Nat
BY AssembliesAssumption

LEMMA CountingStart == Init => Counting
<1>1. Init => gameAssembly \in BOOLEAN
  BY DEF Init
<1>2. Init => Numbers
  BY PollsAssumption, AssemblyCount DEF Init, Numbers
<1>3. QED
  BY <1>1, <1>2 DEF Counting

LEMMA NumbersStep == Numbers /\ [Next]_vars => Numbers'
<1> SUFFICES ASSUME Numbers, [Next]_vars PROVE Numbers'
  OBVIOUS
<1> USE DEF Goto, fileVars
<1>0. /\ MaxPolls \in Nat /\ Len(Assemblies) \in Nat /\ registered \in Nat /\ count \in Nat
      /\ polls \in Nat /\ index \in Nat
  BY PollsAssumption, AssemblyCount DEF Numbers
<1>1. CASE UNCHANGED <<registered, level, polls, count, index>>
  <2>1. at' = at \/ at' \in {"names", "domain", "types", "write_types", "all", "write_all",
                            "done", "failed", "crashed"}
    BY DEF Next, vars, Run, LoadGameAssembly, RegisterAssembly, Start, TimeOut,
           WaitForGameAssembly, ResolveNames, InitBridge, PollDomain, Crash, OpenFails, AfterTypes,
           OpenTypes, DumpTypes, CloseTypes, OpenAll, DumpAll, CloseAll
  <2>2. QED
    BY <1>0, <1>1, <2>1 DEF Numbers
<1>2. CASE RegisterAssembly
  <2>1. registered < Len(Assemblies) /\ registered' = registered + 1
        /\ UNCHANGED <<level, at, polls, count, index>>
    BY <1>2 DEF RegisterAssembly
  <2>2. QED
    BY <1>0, <2>1 DEF Numbers
<1>3. CASE WaitForGameAssembly \/ PollDomain
  <2>1. /\ polls < MaxPolls /\ (polls' = polls \/ polls' = polls + 1)
        /\ at' = at \/ at' = "types"
        /\ UNCHANGED <<registered, level, count, index>>
    BY <1>3 DEF WaitForGameAssembly, PollDomain
  <2>2. QED
    BY <1>0, <2>1 DEF Numbers
<1>4. CASE InitBridge
  BY <1>0, <1>4 DEF InitBridge, Numbers
<1>5. CASE OpenTypes \/ OpenAll
  <2>1. /\ count' = registered /\ index' = 1 /\ at' \in {"write_types", "write_all"}
        /\ UNCHANGED <<registered, level, polls>>
    BY <1>5 DEF OpenTypes, OpenAll
  <2>2. QED
    BY <1>0, <2>1 DEF Numbers
<1>6. CASE DumpTypes \/ DumpAll
  <2>1. /\ index <= count /\ index' = index + 1
        /\ UNCHANGED <<registered, level, at, polls, count>>
    BY <1>6 DEF DumpTypes, DumpAll
  <2>2. QED
    BY <1>0, <2>1 DEF Numbers
<1>7. QED
  BY <1>1, <1>2, <1>3, <1>4, <1>5, <1>6
     DEF Next, vars, Run, LoadGameAssembly, Start, TimeOut, ResolveNames, Crash, OpenFails,
         CloseTypes, CloseAll

LEMMA CountingStep == Counting /\ [Next]_vars => Counting'
<1>1. gameAssembly \in BOOLEAN /\ [Next]_vars => (gameAssembly \in BOOLEAN)'
  BY DEF Next, vars, Run, LoadGameAssembly, RegisterAssembly, Start, TimeOut,
         WaitForGameAssembly, ResolveNames, InitBridge, PollDomain, Crash, OpenFails,
         OpenTypes, DumpTypes, CloseTypes, OpenAll, DumpAll, CloseAll
<1>2. QED
  BY <1>1, NumbersStep DEF Counting

\* What a block is named.
LEMMA BlockNames ==
  ASSUME NEW i \in 1 .. Len(Assemblies)
  PROVE  /\ Written(TypesBlocks[i]) \subseteq {c.name : c \in ClassesOf(i)}
         /\ Written(AllBlocks[i]) = {c.name : c \in ClassesOf(i)}
<1>1. \A c : render_json_class(c).name = c.name /\ render_class(c).name = c.name
  BY DEF render_json_class, render_class
<1>2. \A block \in TypesBlocks[i] : \E c \in ClassesOf(i) : block = render_json_class(c)
  BY DEF TypesBlocks, ToWrite
<1>3. AllBlocks[i] = {render_class(c) : c \in ClassesOf(i)}
  BY DEF AllBlocks
<1> HIDE DEF render_json_class, render_class
<1>4. Written(TypesBlocks[i]) \subseteq {c.name : c \in ClassesOf(i)}
  BY <1>1, <1>2 DEF Written
<1>5. Written(AllBlocks[i]) = {c.name : c \in ClassesOf(i)}
  BY <1>1, <1>3 DEF Written
<1>6. QED
  BY <1>4, <1>5

LEMMA WrittenUnion ==
  ASSUME NEW a, NEW b
  PROVE  Written(a \cup b) = Written(a) \cup Written(b)
BY DEF Written

LEMMA MoreNames ==
  ASSUME NEW m \in Nat, NEW n \in Nat, m <= n
  PROVE  NamesUpTo(m) \subseteq NamesUpTo(n)
<1>1. 1 .. m \subseteq 1 .. n
  OBVIOUS
<1>2. QED
  BY <1>1 DEF NamesUpTo

LEMMA OneMore ==
  ASSUME NEW n \in Nat \ {0}
  PROVE  NamesUpTo(n) = NamesUpTo(n - 1) \cup {c.name : c \in ClassesOf(n)}
<1>1. 1 .. n = 1 .. n - 1 \cup {n}
  OBVIOUS
<1>2. QED
  BY <1>1 DEF NamesUpTo

LEMMA FilesStart == Init => Files
BY DEF Init, Files, TypesWithinAll

\* The step of an action that leaves the files alone and goes from p to q.
LEMMA FilesKept ==
  ASSUME Counting, Files, UNCHANGED <<count, index, types, all>>,
         registered' \in Nat, registered <= registered',
         \/ at' = at
         \/ at' \in {"names", "domain", "types"} /\ at \in {"start", "names", "domain"}
         \/ at' \in {"failed", "crashed"} /\ at \notin {"done", "failed", "crashed"}
         \/ at = "start" /\ at' = "done"
         \/ at \in {"types", "all"} /\ at' \in {"all", "done"}
         \/ at \in {"write_types"} /\ at' \in {"all", "done"}
         \/ at = "write_all" /\ index > count /\ at' = "done"
  PROVE  Files'
<1>1. /\ registered \in Nat /\ count \in Nat /\ index \in Nat /\ index - 1 \in Nat
      /\ index - 1 <= count /\ count <= registered
  BY AssemblyCount DEF Counting, Numbers
<1>2. /\ NamesUpTo(registered) \subseteq NamesUpTo(registered')
      /\ NamesUpTo(count) \subseteq NamesUpTo(registered)
      /\ NamesUpTo(index - 1) \subseteq NamesUpTo(registered)
      /\ NamesUpTo(index - 1) \subseteq NamesUpTo(count)
  BY <1>1, MoreNames
<1>3. index > count => index - 1 = count
  BY <1>1
<1>4. Written(types)' = Written(types) /\ Written(all)' = Written(all)
  BY DEF Written
<1>5. (at # "write_types" /\ types # None => Written(types) \subseteq NamesUpTo(registered))'
  BY <1>2, <1>4 DEF Files
<1>6. (at = "write_types" => Written(types) \subseteq NamesUpTo(index - 1))'
  BY <1>4 DEF Files
<1>7. (at \in {"start", "names", "domain", "types", "write_types", "all"} => all = None)'
  BY DEF Files
<1>8. (at # "write_all" /\ all # None => Written(all) \subseteq NamesUpTo(registered))'
  BY <1>2, <1>4 DEF Files
<1>9. (at = "write_all" =>
         /\ types # None => Written(types) \subseteq NamesUpTo(count)
         /\ Written(all) = NamesUpTo(index - 1))'
  BY <1>4 DEF Files
<1>10. TypesWithinAll'
  BY <1>3, <1>4 DEF Files, TypesWithinAll
<1>11. QED
  BY <1>5, <1>6, <1>7, <1>8, <1>9, <1>10 DEF Files

LEMMA FilesStep == Counting /\ Files /\ [Next]_vars => Files'
<1> SUFFICES ASSUME Counting, Files, [Next]_vars PROVE Files'
  OBVIOUS
<1>1. /\ registered \in Nat /\ count \in Nat /\ index \in Nat \ {0} /\ count <= registered
      /\ registered <= Len(Assemblies) /\ Len(Assemblies) \in Nat
  BY AssemblyCount DEF Counting, Numbers
<1>2. Written({}) = {} /\ NamesUpTo(0) = {}
  BY DEF Written, NamesUpTo
<1>3. CASE OpenTypes
  <2>1. /\ at = "types" /\ at' = "write_types" /\ types' = {} /\ index' = 1
        /\ all' = all /\ registered' = registered
    BY <1>3 DEF OpenTypes, Goto
  <2>2. all = None
    BY <2>1 DEF Files
  <2>3. Written(types)' = {}
    BY <1>2, <2>1 DEF Written
  <2>4. QED
    BY <2>1, <2>2, <2>3 DEF Files, TypesWithinAll
<1>4. CASE OpenAll
  <2>1. /\ at = "all" /\ at' = "write_all" /\ all' = {} /\ index' = 1 /\ count' = registered
        /\ types' = types /\ registered' = registered
    BY <1>4 DEF OpenAll, Goto
  <2>2. types # None => Written(types) \subseteq NamesUpTo(registered)
    BY <2>1 DEF Files
  <2>3. Written(types)' = Written(types) /\ Written(all)' = {} /\ NamesUpTo(index - 1)' = {}
    <3>1. index' - 1 = 0
      BY <2>1
    <3>2. QED
      BY <1>2, <2>1, <3>1 DEF Written, NamesUpTo
  <2>4. (types # None => Written(types) \subseteq NamesUpTo(count))'
    BY <2>1, <2>2, <2>3 DEF NamesUpTo
  <2>5. (at # "write_types" /\ types # None => Written(types) \subseteq NamesUpTo(registered))'
    BY <2>1, <2>2, <2>3 DEF NamesUpTo
  <2>6. QED
    BY <2>1, <2>3, <2>4, <2>5 DEF Files, TypesWithinAll
<1>5. CASE UNCHANGED <<count, index, types, all>>
  <2>1. registered' = registered \/ registered' = registered + 1
    BY DEF Next, vars, Run, LoadGameAssembly, RegisterAssembly, Start, TimeOut,
           WaitForGameAssembly, ResolveNames, InitBridge, PollDomain, Crash, OpenFails,
           OpenTypes, DumpTypes, CloseTypes, OpenAll, DumpAll, CloseAll
  <2>2. \/ at' = at
        \/ at' \in {"names", "domain", "types"} /\ at \in {"start", "names", "domain"}
        \/ at' \in {"failed", "crashed"} /\ at \notin {"done", "failed", "crashed"}
        \/ at = "start" /\ at' = "done"
        \/ at \in {"types", "all"} /\ at' \in {"all", "done"}
        \/ at \in {"write_types"} /\ at' \in {"all", "done"}
        \/ at = "write_all" /\ index > count /\ at' = "done"
        \/ OpenTypes \/ OpenAll
    BY DEF Next, vars, Run, LoadGameAssembly, RegisterAssembly, Start, TimeOut,
           WaitForGameAssembly, ResolveNames, InitBridge, PollDomain, Crash, OpenFails,
           DumpTypes, CloseTypes, DumpAll, CloseAll, Goto, AfterTypes
  <2>3. registered' \in Nat /\ registered <= registered'
    BY <1>1, <2>1
  <2>4. CASE ~(OpenTypes \/ OpenAll)
    BY <1>5, <2>2, <2>3, <2>4, FilesKept
  <2>5. QED
    BY <1>3, <1>4, <2>4
<1>6. CASE DumpTypes \/ DumpAll
  <2>1. /\ at' = at /\ index <= count /\ index' = index + 1
        /\ UNCHANGED <<registered, count>>
    BY <1>6 DEF DumpTypes, DumpAll
  <2>2. index \in 1 .. Len(Assemblies) /\ index' - 1 = index
    BY <1>1, <2>1
  <2>3. NamesUpTo(index) = NamesUpTo(index - 1) \cup {c.name : c \in ClassesOf(index)}
    BY <1>1, OneMore
  <2>4. /\ Written(TypesBlocks[index]) \subseteq {c.name : c \in ClassesOf(index)}
        /\ Written(AllBlocks[index]) = {c.name : c \in ClassesOf(index)}
    BY <2>2, BlockNames
  <2>5. NamesUpTo(index - 1)' = NamesUpTo(index)
    BY <2>2 DEF NamesUpTo
  <2>6. CASE DumpTypes
    <3>1. at = "write_types" /\ types' = types \cup TypesBlocks[index] /\ all' = all
      BY <2>6 DEF DumpTypes
    <3>2. Written(types) \subseteq NamesUpTo(index - 1) /\ all = None
      BY <3>1 DEF Files
    <3>3. Written(types') = Written(types) \cup Written(TypesBlocks[index])
      BY <3>1, WrittenUnion
    <3>4. (Written(types) \subseteq NamesUpTo(index - 1))'
      BY <2>3, <2>4, <2>5, <3>2, <3>3 DEF Written
    <3>5. QED
      BY <2>1, <3>1, <3>2, <3>4 DEF Files, TypesWithinAll
  <2>7. CASE DumpAll
    <3>1. at = "write_all" /\ all' = all \cup AllBlocks[index] /\ types' = types
      BY <2>7 DEF DumpAll
    <3>2. /\ Written(all) = NamesUpTo(index - 1)
          /\ types # None => Written(types) \subseteq NamesUpTo(count)
          /\ types # None => Written(types) \subseteq NamesUpTo(registered)
      BY <3>1 DEF Files
    <3>3. Written(all') = Written(all) \cup Written(AllBlocks[index])
      BY <3>1, WrittenUnion
    <3>4. (Written(all) = NamesUpTo(index - 1))'
      BY <2>3, <2>4, <2>5, <3>2, <3>3 DEF Written
    <3>5. (types # None => Written(types) \subseteq NamesUpTo(count))'
      BY <2>1, <3>1, <3>2 DEF Written, NamesUpTo
    <3>6. (types # None => Written(types) \subseteq NamesUpTo(registered))'
      BY <2>1, <3>1, <3>2 DEF Written, NamesUpTo
    <3>7. QED
      BY <2>1, <3>1, <3>4, <3>5, <3>6 DEF Files, TypesWithinAll
  <2>8. QED
    BY <1>6, <2>6, <2>7
<1>7. QED
  BY <1>3, <1>4, <1>5, <1>6
     DEF Next, vars, Run, fileVars, LoadGameAssembly, RegisterAssembly, Start, TimeOut,
         WaitForGameAssembly, ResolveNames, InitBridge, PollDomain, Crash, OpenFails,
         CloseTypes, CloseAll

LEMMA NamesAreClassNames ==
  ASSUME NEW n \in Nat, n <= Len(Assemblies)
  PROVE  NamesUpTo(n) \subseteq ClassNames
<1>1. ASSUME NEW i \in 1 .. n PROVE {c.name : c \in ClassesOf(i)} \subseteq ClassNames
  <2>1. i \in 1 .. Len(Assemblies)
    BY AssemblyCount
  <2>2. \A c \in ClassesOf(i) : c \in UNION {Range(Assemblies[j].classes) : j \in 1 .. Len(Assemblies)}
    BY <2>1 DEF ClassesOf
  <2>3. QED
    BY <2>2 DEF ClassNames
<1>2. QED
  BY <1>1 DEF NamesUpTo

LEMMA Typed == NamesInv /\ FilesInv => TypeOK
<1> SUFFICES ASSUME NamesInv, FilesInv PROVE TypeOK
  OBVIOUS
<1>1. /\ registered \in Nat /\ count \in Nat /\ index \in Nat /\ index - 1 \in Nat
      /\ index - 1 <= count /\ count <= registered /\ registered <= Len(Assemblies)
      /\ Len(Assemblies) \in Nat
  BY AssemblyCount DEF FilesInv, Counting, Numbers
<1>2. /\ NamesUpTo(registered) \subseteq ClassNames
      /\ NamesUpTo(index - 1) \subseteq ClassNames
  BY <1>1, NamesAreClassNames
<1>3. types # None => Written(types) \subseteq ClassNames
  BY <1>2 DEF FilesInv, Files
<1>4. all # None => Written(all) \subseteq ClassNames
  BY <1>2 DEF FilesInv, Files
<1>5. \A file \in {types, all} \ {None} : Written(file) \subseteq ClassNames
  BY <1>3, <1>4
<1>6. QED
  BY <1>5 DEF TypeOK, NamesInv, FilesInv, Counting, Numbers

LEMMA DumperInvariant == Spec => [](NamesInv /\ FilesInv)
<1>1. Spec => []FilesInv
  BY CountingStart, CountingStep, FilesStart, FilesStep, PTL DEF Spec, FilesInv
<1>2. QED
  BY <1>1, DumperResolves, NamesInvariant, PTL

\* A block reads as the class that it is written for.
LEMMA BlocksRead ==
  ASSUME NEW i \in 1 .. Len(Assemblies), NEW c \in ToWrite(i)
  PROVE  Reads(render_json_class(c), c)
<1>1. IsClass(c)
  BY AssembliesAssumption DEF ToWrite, ClassesOf
<1>2. ASSUME ~c.enum, NEW j \in 1 .. Len(c.fields), ~HasGenericArray(c.fields[j])
      PROVE  render_json_class(c).fields[j] = CSharp[c.fields[j]]
  <2>1. c.fields[j] \in Type
    BY <1>1 DEF IsClass
  <2>2. FieldText(c.fields[j]) = CSharp[c.fields[j]]
    BY <1>2, <2>1, JsonTypeReads DEF FieldText
  <2>3. render_json_class(c).fields = [l \in 1 .. Len(c.fields) |-> FieldText(c.fields[l])]
    BY <1>2 DEF render_json_class
  <2>4. QED
    BY <2>2, <2>3
<1>3. ASSUME c.enum, c.values = [j \in 1 .. Len(c.values) |-> j - 1]
      PROVE  render_json_class(c).members = c.values
  BY <1>3 DEF render_json_class
<1>4. render_json_class(c).name = c.name
  BY DEF render_json_class
<1>5. QED
  BY <1>2, <1>3, <1>4 DEF Reads

LEMMA ReadsStart == Init => TypesReadAsCSharp
BY DEF Init, TypesReadAsCSharp

LEMMA ReadsStep == Counting /\ TypesReadAsCSharp /\ [Next]_vars => TypesReadAsCSharp'
<1> SUFFICES ASSUME Counting, TypesReadAsCSharp, [Next]_vars PROVE TypesReadAsCSharp'
  OBVIOUS
<1> USE DEF Goto, fileVars
<1>1. CASE OpenTypes
  <2>1. types' = {} /\ index' = 1
    BY <1>1 DEF OpenTypes
  <2>2. 1 .. index' - 1 = {}
    BY <2>1
  <2>3. QED
    BY <2>1, <2>2 DEF TypesReadAsCSharp
<1>2. CASE DumpTypes
  <2>1. /\ at = "write_types" /\ index <= count
        /\ types' = types \cup TypesBlocks[index] /\ index' = index + 1
    BY <1>2 DEF DumpTypes
  <2>2. index \in 1 .. Len(Assemblies) /\ index \in Nat
    BY <2>1, AssemblyCount DEF Counting, Numbers
  <2>3. 1 .. index' - 1 = 1 .. index - 1 \cup {index}
    BY <2>1, <2>2
  <2>4. TypesBlocks[index] = {render_json_class(c) : c \in ToWrite(index)}
    BY <2>2 DEF TypesBlocks
  <2>5. \A block \in types' : \E i \in 1 .. index' - 1 : \E c \in ToWrite(i) : Reads(block, c)
    BY <2>1, <2>2, <2>3, <2>4, BlocksRead DEF TypesReadAsCSharp
  <2>6. \A i \in 1 .. index' - 1 : \A c \in ToWrite(i) : \E block \in types' : Reads(block, c)
    BY <2>1, <2>2, <2>3, <2>4, BlocksRead DEF TypesReadAsCSharp
  <2>7. QED
    BY <2>5, <2>6 DEF TypesReadAsCSharp
<1>3. CASE at' # "write_types" \/ UNCHANGED <<at, index, types>>
  BY <1>3 DEF TypesReadAsCSharp
<1>4. QED
  BY <1>1, <1>2, <1>3
     DEF Next, vars, Run, LoadGameAssembly, RegisterAssembly, Start, TimeOut, WaitForGameAssembly,
         ResolveNames, InitBridge, PollDomain, Crash, OpenFails, AfterTypes, CloseTypes, OpenAll,
         DumpAll, CloseAll

\* Every variable of the dumper, and of resolve within it, has its type: what is
\* in the files are classes of the game, and the map is none or has Count names.
THEOREM DumperTypeCorrect == Spec => []TypeOK
BY DumperInvariant, Typed, PTL

\* Il2Cpp.cs has every class of Types.cs, wherever assemblies are registered
\* between and under the two files (dump.cpp:461-552).
THEOREM TypesAlwaysWithinAll == Spec => []TypesWithinAll
BY DumperInvariant, PTL DEF FilesInv, Files

\* What is proved of resolve holds of it within the dumper.
THEOREM DumperResolvesRight == Spec => [](NamesDistinct /\ ShiftNeedsTwoErrors)
BY DumperResolves, ScannedNamesStayDistinct, ShiftsAlwaysNeedTwoErrors, PTL

\* Types.cs has a block for every class that it should have, as far as the
\* assemblies are written, and no other, with the C# type of each field however
\* the types nest, and the values of an enum (dump.cpp:235-347, 395-415), but for
\* arrays of generic types and enums not numbered from 0 on.
THEOREM TypesAlwaysReadAsCSharp == Spec => []TypesReadAsCSharp
BY CountingStart, CountingStep, ReadsStart, ReadsStep, PTL DEF Spec
=============================================================================
