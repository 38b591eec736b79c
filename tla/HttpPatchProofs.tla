-------------------------- MODULE HttpPatchProofs --------------------------
(***************************************************************************)
(* Proofs about HttpPatch, for every set of tokens, urls and               *)
(* configurations, and every game.                                         *)
(*                                                                         *)
(* The code searches texts, the properties speak of urls in parts.  What   *)
(* connects them is where the parts of a url lie in its text (Layout):     *)
(* from it follow what each search finds, that the code reads a url as its *)
(* parts (AbsoluteRead) and that it writes the url that is meant           *)
(* (Rehosting).  From then on the proofs are about urls in parts.          *)
(***************************************************************************)
EXTENDS HttpPatch, SequenceTheorems, WellFoundedInduction, TLAPS

\* The least element of a set of numbers is the one that Min chooses.
LEMMA NatLess == IsWellFoundedOn({p \in Nat \X Nat : p[1] < p[2]}, Nat)
<1>1. OpToRel(<, Nat) = {p \in Nat \X Nat : p[1] < p[2]}
  BY Zenon DEF OpToRel
<1>2. QED
  BY <1>1, NatLessThanWellFounded, Zenon

LEMMA LeastNat ==
  ASSUME NEW T, T \subseteq Nat, T # {}
  PROVE  Min(T) \in T /\ \A y \in T : Min(T) <= y
<1> DEFINE R == {p \in Nat \X Nat : p[1] < p[2]}
<1>1. PICK x \in T : \A y \in T : <<y, x>> \notin R
  <2>1. IsWellFoundedOn(R, Nat)
    BY NatLess
  <2> HIDE DEF R
  <2>2. QED
    BY <2>1, WFMin, Zenon
<1>2. ASSUME NEW y \in T PROVE x <= y
  <2>1. ~(y < x)
    BY <1>1
  <2>2. x \in Nat /\ y \in Nat
    OBVIOUS
  <2>3. QED
    BY <2>1, <2>2
<1>3. QED
  BY <1>2 DEF Min

\* t stands in s at j.
At(s, t, j) == SubSeq(s, j, j + Len(t) - 1) = t

\* find finds the first place, and 0 if there is none.
LEMMA FindFirst ==
  ASSUME NEW s \in Seq(Token), NEW t \in Seq(Token), NEW i \in Nat,
         NEW j \in i .. Len(s) + 1 - Len(t), At(s, t, j),
         \A k \in i .. j - 1 : ~At(s, t, k)
  PROVE  find(s, t, i) = j
<1> DEFINE places == {k \in i .. Len(s) + 1 - Len(t) : SubSeq(s, k, k + Len(t) - 1) = t}
<1>1. places \subseteq Nat /\ j \in places
  BY DEF At
<1>2. Min(places) \in places /\ Min(places) <= j
  BY <1>1, LeastNat
<1>3. Min(places) \notin i .. j - 1
  BY <1>2 DEF At
<1>4. Min(places) = j
  <2> HIDE DEF places
  <2>1. Min(places) \in Nat /\ Min(places) >= i
    <3> USE DEF places
    <3>1. QED
      BY <1>2
  <2>2. QED
    BY <2>1, <1>2, <1>3
<1>5. QED
  BY <1>1, <1>4 DEF find

LEMMA FindNone ==
  ASSUME NEW s \in Seq(Token), NEW t \in Seq(Token), NEW i \in Nat,
         \A k \in i .. Len(s) + 1 - Len(t) : ~At(s, t, k)
  PROVE  find(s, t, i) = 0
  BY DEF At, find

LEMMA AtChar ==
  ASSUME NEW s \in Seq(Token), NEW c \in Token, NEW j \in 1 .. Len(s)
  PROVE  At(s, <<c>>, j) <=> s[j] = c
<1> DEFINE r == SubSeq(s, j, j)
<1>1. r \in Seq(Token) /\ Len(r) = 1 /\ r[1] = s[j]
  BY SubSeqProperties
<1>2. <<c>> \in Seq(Token) /\ Len(<<c>>) = 1 /\ <<c>>[1] = c
  OBVIOUS
<1> HIDE DEF r
<1>3. r = <<c>> <=> r[1] = c
  BY <1>1, <1>2, SeqEqual
<1>4. j + Len(<<c>>) - 1 = j
  BY <1>2
<1>5. At(s, <<c>>, j) <=> r = <<c>>
  BY <1>4 DEF At, r
<1>6. QED
  BY <1>1, <1>3, <1>5

LEMMA AtColon ==
  ASSUME NEW s \in Seq(Token), NEW j \in 1 .. Len(s) - 2
  PROVE  At(s, Colon, j) <=> s[j] = ":" /\ s[j + 1] = "/" /\ s[j + 2] = "/"
<1> DEFINE r == SubSeq(s, j, j + 2)
<1>1. r \in Seq(Token) /\ Len(r) = 3 /\ r[1] = s[j] /\ r[2] = s[j + 1] /\ r[3] = s[j + 2]
  <2>1. \A i \in j .. j + 2 : s[i] \in Token
    OBVIOUS
  <2>2. /\ r \in Seq(Token) /\ Len(r) = 3
        /\ \A i \in 1 .. j + 2 - j + 1 : r[i] = s[j + i - 1]
    BY <2>1, SubSeqProperties
  <2>3. QED
    BY <2>2
<1>2. /\ Colon \in Seq(Token) /\ Len(Colon) = 3
      /\ Colon[1] = ":" /\ Colon[2] = "/" /\ Colon[3] = "/"
  BY TokenAssumption DEF Colon
<1> HIDE DEF r
<1>3. r = Colon <=> r[1] = ":" /\ r[2] = "/" /\ r[3] = "/"
  <2>1. ASSUME r[1] = ":" /\ r[2] = "/" /\ r[3] = "/" PROVE \A i \in 1 .. 3 : r[i] = Colon[i]
    BY <2>1, <1>2
  <2>2. QED
    BY <1>1, <1>2, <2>1, SeqEqual
<1>4. At(s, Colon, j) <=> r = Colon
  BY <1>2 DEF At, r
<1>5. QED
  BY <1>1, <1>3, <1>4

\* s consists of the parts a to e, one behind the other.
Joined(S, s, a, b, c, d, e) ==
  /\ s \in Seq(S)
  /\ Len(s) = Len(a) + Len(b) + Len(c) + Len(d) + Len(e)
  /\ \A i \in 1 .. Len(a) : s[i] = a[i]
  /\ \A i \in 1 .. Len(b) : s[Len(a) + i] = b[i]
  /\ \A i \in 1 .. Len(c) : s[Len(a) + Len(b) + i] = c[i]
  /\ \A i \in 1 .. Len(d) : s[Len(a) + Len(b) + Len(c) + i] = d[i]
  /\ \A i \in 1 .. Len(e) : s[Len(a) + Len(b) + Len(c) + Len(d) + i] = e[i]

LEMMA FiveParts ==
  ASSUME NEW S, NEW a \in Seq(S), NEW b \in Seq(S), NEW c \in Seq(S), NEW d \in Seq(S),
         NEW e \in Seq(S)
  PROVE  Joined(S, a \o b \o c \o d \o e, a, b, c, d, e)
<1> DEFINE ab == a \o b  abc == ab \o c  abcd == abc \o d  s == abcd \o e
<1>0. Len(a) \in Nat /\ Len(b) \in Nat /\ Len(c) \in Nat /\ Len(d) \in Nat /\ Len(e) \in Nat
  OBVIOUS
<1>1. /\ ab \in Seq(S) /\ Len(ab) = Len(a) + Len(b)
      /\ \A i \in 1 .. Len(a) + Len(b) : ab[i] = IF i <= Len(a) THEN a[i] ELSE b[i - Len(a)]
  <2>1. a \in Seq(S)
    OBVIOUS
  <2>2. QED
    BY <2>1, ConcatProperties
<1> HIDE DEF ab
<1>2. /\ abc \in Seq(S) /\ Len(abc) = Len(ab) + Len(c)
      /\ \A i \in 1 .. Len(ab) + Len(c) : abc[i] = IF i <= Len(ab) THEN ab[i] ELSE c[i - Len(ab)]
  <2>1. ab \in Seq(S)
    BY <1>1
  <2>2. QED
    BY <2>1, ConcatProperties
<1> HIDE DEF abc
<1>3. /\ abcd \in Seq(S) /\ Len(abcd) = Len(abc) + Len(d)
      /\ \A i \in 1 .. Len(abc) + Len(d) : abcd[i] = IF i <= Len(abc) THEN abc[i] ELSE d[i - Len(abc)]
  <2>1. abc \in Seq(S)
    BY <1>2
  <2>2. QED
    BY <2>1, ConcatProperties
<1> HIDE DEF abcd
<1>4. /\ s \in Seq(S) /\ Len(s) = Len(abcd) + Len(e)
      /\ \A i \in 1 .. Len(abcd) + Len(e) : s[i] = IF i <= Len(abcd) THEN abcd[i] ELSE e[i - Len(abcd)]
  <2>1. abcd \in Seq(S)
    BY <1>3
  <2>2. QED
    BY <2>1, ConcatProperties
<1> HIDE DEF s
<1>5. \A i \in 1 .. Len(a) : s[i] = a[i]
  BY <1>0, <1>1, <1>2, <1>3, <1>4
<1>6. \A i \in 1 .. Len(b) : s[Len(a) + i] = b[i]
  BY SMTT(30), <1>0, <1>1, <1>2, <1>3, <1>4
<1>7. \A i \in 1 .. Len(c) : s[Len(a) + Len(b) + i] = c[i]
  BY SMTT(30), <1>0, <1>1, <1>2, <1>3, <1>4
<1>8. \A i \in 1 .. Len(d) : s[Len(a) + Len(b) + Len(c) + i] = d[i]
  BY SMTT(30), <1>0, <1>1, <1>2, <1>3, <1>4
<1>9. \A i \in 1 .. Len(e) : s[Len(a) + Len(b) + Len(c) + Len(d) + i] = e[i]
  <2>1. Len(abcd) = Len(a) + Len(b) + Len(c) + Len(d) /\ Len(abcd) \in Nat
    BY <1>0, <1>1, <1>2, <1>3
  <2>2. ASSUME NEW i \in 1 .. Len(e) PROVE s[Len(abcd) + i] = e[i]
    <3>1. /\ Len(abcd) + i \in 1 .. Len(abcd) + Len(e)
          /\ ~(Len(abcd) + i <= Len(abcd)) /\ Len(abcd) + i - Len(abcd) = i
      BY <1>0, <2>1
    <3>2. QED
      BY <1>4, <3>1
  <2>3. QED
    BY <2>1, <2>2
<1>10. Len(s) = Len(a) + Len(b) + Len(c) + Len(d) + Len(e)
  BY <1>0, <1>1, <1>2, <1>3, <1>4
<1>11. QED
  <2>1. Joined(S, s, a, b, c, d, e)
    BY <1>4, <1>5, <1>6, <1>7, <1>8, <1>9, <1>10 DEF Joined
  <2>2. QED
    BY <2>1 DEF s, abcd, abc, ab

\* A part of a text, from where it stands.
LEMMA PartOf ==
  ASSUME NEW S, NEW s \in Seq(S), NEW r \in Seq(S), NEW off \in Nat, off + Len(r) <= Len(s),
         \A i \in 1 .. Len(r) : s[off + i] = r[i]
  PROVE  SubSeq(s, off + 1, off + Len(r)) = r
<1> DEFINE m == off + 1  n == off + Len(r)  q == SubSeq(s, m, n)
<1>1. Len(r) \in Nat /\ Len(s) \in Nat /\ m \in Int /\ n \in Int /\ n - m + 1 = Len(r)
  OBVIOUS
<1>2. \A i \in m .. n : s[i] \in S
  OBVIOUS
<1>3. /\ q \in Seq(S) /\ Len(q) = IF m <= n THEN n - m + 1 ELSE 0
      /\ \A i \in 1 .. n - m + 1 : q[i] = s[m + i - 1]
  <2> HIDE DEF m, n
  <2>1. QED
    BY <1>1, <1>2, SubSeqProperties
<1>4. Len(q) = Len(r)
  BY <1>1, <1>3
<1>5. ASSUME NEW i \in 1 .. Len(q) PROVE q[i] = r[i]
  <2>1. i \in 1 .. n - m + 1 /\ m + i - 1 = off + i /\ i \in 1 .. Len(r)
    BY <1>1, <1>4
  <2>2. QED
    BY <1>3, <2>1
<1> HIDE DEF q
<1>6. q = r
  BY <1>3, <1>4, <1>5, SeqEqual
<1>7. QED
  BY <1>6 DEF q

(***************************************************************************)
(* An absolute url as a text: the scheme ends at n, the host at h and the  *)
(* path at p.                                                              *)
(***************************************************************************)
Layout(s, n, h, p) ==
  /\ s \in Seq(Token) /\ Len(s) \in Nat /\ n \in Nat /\ h \in Nat /\ p \in Nat
  /\ n + 3 <= h /\ h <= p /\ p <= Len(s)
  /\ s[n + 1] = ":" /\ s[n + 2] = "/" /\ s[n + 3] = "/"
  /\ \A i \in 1 .. n : s[i] # ":"
  /\ \A i \in n + 4 .. h : s[i] # "/"
  /\ h < p => s[h + 1] = "/"
  /\ \A i \in h + 1 .. p : s[i] # "?"
  /\ p < Len(s) => s[p + 1] = "?"

\* ... and these are its parts.
Laid(s, n, h, p, scheme, host, path, query) ==
  /\ Layout(s, n, h, p)
  /\ SubSeq(s, 1, n) = scheme /\ SubSeq(s, n + 4, h) = host
  /\ SubSeq(s, h + 1, p) = path /\ SubSeq(s, h + 1, Len(s)) = path \o query
  /\ n = Len(scheme) /\ h = n + 3 + Len(host) /\ p = h + Len(path)
  /\ Len(s) = p + Len(query)

LEMMA Places ==
  ASSUME NEW S, NEW r \in Seq(S), NEW c, c \notin Range(r)
  PROVE  \A i \in 1 .. Len(r) : r[i] # c
  BY DEF Range

LEMMA JoinedLayout ==
  ASSUME NEW a \in Seq(Token), NEW c \in Seq(Token), NEW d \in Seq(Token), NEW e \in Seq(Token),
         NEW s, Joined(Token, s, a, Colon, c, d, e),
         NEW n \in Nat, NEW h \in Nat, NEW p \in Nat,
         n = Len(a), h = n + 3 + Len(c), p = h + Len(d),
         ":" \notin Range(a), "/" \notin Range(c), "?" \notin Range(d),
         d # <<>> => Head(d) = "/", e # <<>> => Head(e) = "?"
  PROVE  Laid(s, n, h, p, a, c, d, e)
<1> DEFINE m == n + 3
<1>1. m \in Nat /\ m = n + 3 /\ h = m + Len(c) /\ m + 1 = n + 4
  OBVIOUS
<1> HIDE DEF m
<1>2. Len(a) \in Nat /\ Len(c) \in Nat /\ Len(d) \in Nat /\ Len(e) \in Nat
  OBVIOUS
<1>3. /\ Colon \in Seq(Token) /\ Len(Colon) = 3
      /\ Colon[1] = ":" /\ Colon[2] = "/" /\ Colon[3] = "/"
  BY TokenAssumption DEF Colon
<1>5. /\ s \in Seq(Token) /\ Len(s) = p + Len(e)
      /\ \A i \in 1 .. n : s[i] = a[i]
      /\ \A i \in 1 .. 3 : s[n + i] = Colon[i]
      /\ \A i \in 1 .. Len(c) : s[m + i] = c[i]
      /\ \A i \in 1 .. Len(d) : s[h + i] = d[i]
      /\ \A i \in 1 .. Len(e) : s[p + i] = e[i]
  BY <1>1, <1>2, <1>3 DEF Joined
<1>6. /\ SubSeq(s, 1, n) = a /\ SubSeq(s, n + 4, h) = c
      /\ SubSeq(s, h + 1, p) = d /\ SubSeq(s, h + 1, Len(s)) = d \o e
  <2>1. SubSeq(s, 1, n) = a
    <3>1. \A i \in 1 .. Len(a) : s[0 + i] = a[i]
      BY SMTT(30), <1>2, <1>5
    <3>2. 0 + Len(a) <= Len(s)
      BY <1>2, <1>5
    <3>3. SubSeq(s, 0 + 1, 0 + Len(a)) = a
      BY <1>5, <3>1, <3>2, PartOf
    <3>4. QED
      BY <1>2, <3>3
  <2>2. SubSeq(s, n + 4, h) = c
    <3>1. m + Len(c) <= Len(s)
      BY <1>1, <1>2, <1>5
    <3>2. SubSeq(s, m + 1, m + Len(c)) = c
      BY <1>1, <1>5, <3>1, PartOf
    <3>3. QED
      BY <1>1, <3>2
  <2>3. SubSeq(s, h + 1, p) = d
    <3>1. h + Len(d) <= Len(s)
      BY <1>2, <1>5
    <3>2. QED
      BY <1>5, <3>1, PartOf
  <2>4. SubSeq(s, p + 1, Len(s)) = e
    <3>1. p + Len(e) <= Len(s)
      BY <1>2, <1>5
    <3>2. QED
      BY <1>5, <3>1, PartOf
  <2>5. SubSeq(s, h + 1, p) \o SubSeq(s, p + 1, Len(s)) = SubSeq(s, h + 1, Len(s))
    <3> DEFINE b == h + 1  k == Len(s)
    <3>1. b \in 1 .. Len(s) + 1 /\ p \in b - 1 .. Len(s) /\ k \in p .. Len(s)
      BY SMTT(30), <1>2, <1>5
    <3> HIDE DEF b, k
    <3>2. SubSeq(s, b, p) \o SubSeq(s, p + 1, k) = SubSeq(s, b, k)
      BY <1>5, <3>1, ConcatAdjacentSubSeq
    <3>3. QED
      BY <3>2 DEF b, k
  <2>6. QED
    BY <2>1, <2>2, <2>3, <2>4, <2>5
<1>7. Layout(s, n, h, p)
  <2>1. s[n + 1] = ":" /\ s[n + 2] = "/" /\ s[n + 3] = "/"
    BY <1>3, <1>5
  <2>2. \A i \in 1 .. n : s[i] # ":"
    BY <1>5, Places
  <2>3. \A i \in n + 4 .. h : s[i] # "/"
    <3>1. \A i \in 1 .. Len(c) : c[i] # "/"
      BY Places
    <3>2. ASSUME NEW i \in n + 4 .. h PROVE s[i] # "/"
      <4> DEFINE j == i - m
      <4>1. j \in 1 .. Len(c) /\ m + j = i
        BY <1>1, <1>2
      <4> HIDE DEF j
      <4>2. s[m + j] = c[j] /\ c[j] # "/"
        BY <1>5, <3>1, <4>1
      <4>3. QED
        BY <4>1, <4>2
    <3>3. QED
      BY <3>2
  <2>4. \A i \in h + 1 .. p : s[i] # "?"
    <3>1. \A i \in 1 .. Len(d) : d[i] # "?"
      BY Places
    <3>2. ASSUME NEW i \in h + 1 .. p PROVE s[i] # "?"
      <4> DEFINE j == i - h
      <4>1. j \in 1 .. Len(d) /\ h + j = i
        BY <1>1, <1>2
      <4> HIDE DEF j
      <4>2. s[h + j] = d[j] /\ d[j] # "?"
        BY <1>5, <3>1, <4>1
      <4>3. QED
        BY <4>1, <4>2
    <3>3. QED
      BY <3>2
  <2>5. h < p => s[h + 1] = "/"
    <3>1. h < p => 1 \in 1 .. Len(d) /\ d # <<>>
      BY <1>2
    <3>2. d # <<>> => d[1] = "/"
      OBVIOUS
    <3>3. QED
      BY <1>5, <3>1, <3>2
  <2>6. p < Len(s) => s[p + 1] = "?"
    <3>1. p < Len(s) => 1 \in 1 .. Len(e) /\ e # <<>>
      BY <1>2, <1>5
    <3>2. e # <<>> => e[1] = "?"
      OBVIOUS
    <3>3. QED
      BY <1>5, <3>1, <3>2
  <2>7. Len(s) \in Nat /\ n + 3 <= h /\ h <= p /\ p <= Len(s)
    BY SMTT(30), <1>2, <1>5
  <2>8. QED
    BY <1>5, <2>1, <2>2, <2>3, <2>4, <2>5, <2>6, <2>7 DEF Layout
<1>8. QED
  BY <1>5, <1>6, <1>7 DEF Laid

LEMMA TextLayout ==
  ASSUME NEW u, IsUrl(u), u.scheme # <<>>
  PROVE  \E n, h, p \in Nat : Laid(Text(u), n, h, p, u.scheme, u.host, u.path, u.query)
<1> DEFINE s == Text(u)
<1>1. /\ u.scheme \in Seq(Token) /\ u.host \in Seq(Token)
      /\ u.path \in Seq(Token) /\ u.query \in Seq(Token)
  BY DEF IsUrl
<1>2. PICK n \in Nat : n = Len(u.scheme)
  BY <1>1
<1>3. PICK h \in Nat : h = n + 3 + Len(u.host)
  <2>1. PICK k \in Nat : k = Len(u.host)
    BY <1>1
  <2>2. n + 3 + k \in Nat
    OBVIOUS
  <2>3. QED
    BY <2>1, <2>2, Zenon
<1>4. PICK p \in Nat : p = h + Len(u.path)
  BY <1>1
<1>5. Joined(Token, s, u.scheme, Colon, u.host, u.path, u.query)
  <2>1. Colon \in Seq(Token)
    BY TokenAssumption DEF Colon
  <2>2. QED
    BY <1>1, <2>1, FiveParts DEF Text
<1> HIDE DEF s
<1>6. Laid(s, n, h, p, u.scheme, u.host, u.path, u.query)
  <2>1. /\ ":" \notin Range(u.scheme) /\ "/" \notin Range(u.host) /\ "?" \notin Range(u.path)
        /\ u.path # <<>> => Head(u.path) = "/"
        /\ u.query # <<>> => Head(u.query) = "?"
    BY DEF IsUrl
  <2>2. QED
    BY <1>1, <1>2, <1>3, <1>4, <1>5, <2>1, JoinedLayout
<1>7. n \in Nat /\ h \in Nat /\ p \in Nat
  OBVIOUS
<1>8. \E k, l, m \in Nat : Laid(s, k, l, m, u.scheme, u.host, u.path, u.query)
  BY <1>6, <1>7, Zenon
<1>9. QED
  BY <1>8, Zenon DEF s

(***************************************************************************)
(* What the code's searches find in it.                                    *)
(***************************************************************************)
LEMMA FirstColon ==
  ASSUME NEW s, NEW n, NEW h, NEW p, Layout(s, n, h, p)
  PROVE  find(s, Colon, 1) = n + 1
<1>1. /\ n \in Nat /\ s \in Seq(Token) /\ Len(s) \in Nat /\ n + 3 <= Len(s)
      /\ s[n + 1] = ":" /\ s[n + 2] = "/" /\ s[n + 3] = "/" /\ \A i \in 1 .. n : s[i] # ":"
  BY DEF Layout
<1>2. Colon \in Seq(Token) /\ Len(Colon) = 3
  BY TokenAssumption DEF Colon
<1> DEFINE j == n + 1
<1>3. j \in 1 .. Len(s) - 2 /\ s[j] = ":" /\ s[j + 1] = "/" /\ s[j + 2] = "/"
  BY <1>1
<1>4. j \in 1 .. Len(s) + 1 - Len(Colon) /\ \A k \in 1 .. j - 1 : k \in 1 .. n /\ k \in 1 .. Len(s) - 2
  BY <1>1, <1>2
<1> HIDE DEF j
<1>5. At(s, Colon, j)
  BY <1>1, <1>3, AtColon
<1>6. \A k \in 1 .. j - 1 : ~At(s, Colon, k)
  BY <1>1, <1>4, AtColon
<1>7. find(s, Colon, 1) = j
  BY <1>1, <1>2, <1>4, <1>5, <1>6, FindFirst
<1>8. QED
  BY <1>7 DEF j

LEMMA FirstSlash ==
  ASSUME NEW s, NEW n, NEW h, NEW p, Layout(s, n, h, p), h < p \/ p = Len(s)
  PROVE  find(s, <<"/">>, n + 4) = IF h = p THEN 0 ELSE h + 1
<1>1. /\ n \in Nat /\ h \in Nat /\ p \in Nat /\ n + 3 <= h /\ h <= p /\ p <= Len(s)
      /\ s \in Seq(Token) /\ Len(s) \in Nat
      /\ \A i \in n + 4 .. h : s[i] # "/"
      /\ h < p => s[h + 1] = "/"
  BY DEF Layout
<1>2. "/" \in Token /\ <<"/">> \in Seq(Token) /\ Len(<<"/">>) = 1
  BY TokenAssumption
<1> DEFINE a == n + 4  j == h + 1
<1>3. a \in Nat /\ a \in 1 .. j /\ j \in Nat
  BY <1>1
<1>4. ASSUME NEW k \in a .. j - 1 PROVE ~At(s, <<"/">>, k)
  <2>1. k \in 1 .. Len(s) /\ k \in n + 4 .. h
    BY <1>1
  <2>2. QED
    BY <1>1, <1>2, <2>1, AtChar
<1>5. CASE h = p
  <2>1. \A k \in a .. Len(s) + 1 - Len(<<"/">>) : k \in a .. j - 1
    BY <1>1, <1>2, <1>5
  <2> HIDE DEF a, j
  <2>2. find(s, <<"/">>, a) = 0
    BY <1>1, <1>2, <1>3, <1>4, <2>1, FindNone
  <2>3. QED
    BY <1>5, <2>2 DEF a
<1>6. CASE h < p
  <2>1. j \in 1 .. Len(s) /\ s[j] = "/" /\ j \in a .. Len(s) + 1 - Len(<<"/">>)
    BY <1>1, <1>2, <1>6
  <2> HIDE DEF a, j
  <2>2. At(s, <<"/">>, j)
    BY <1>1, <1>2, <2>1, AtChar
  <2>3. find(s, <<"/">>, a) = j
    BY <1>1, <1>2, <1>3, <1>4, <2>1, <2>2, FindFirst
  <2>4. QED
    BY <1>1, <1>6, <2>3 DEF a, j
<1>7. QED
  BY <1>1, <1>5, <1>6

LEMMA FirstQuestion ==
  ASSUME NEW s, NEW n, NEW h, NEW p, Layout(s, n, h, p)
  PROVE  find(s, <<"?">>, h + 1) = IF p = Len(s) THEN 0 ELSE p + 1
<1>1. /\ h \in Nat /\ p \in Nat /\ h <= p /\ p <= Len(s)
      /\ s \in Seq(Token) /\ Len(s) \in Nat
      /\ \A i \in h + 1 .. p : s[i] # "?"
      /\ p < Len(s) => s[p + 1] = "?"
  BY DEF Layout
<1>2. "?" \in Token /\ <<"?">> \in Seq(Token) /\ Len(<<"?">>) = 1
  BY TokenAssumption
<1> DEFINE a == h + 1  j == p + 1
<1>3. a \in Nat /\ a \in 1 .. j /\ j \in Nat
  BY <1>1
<1>4. ASSUME NEW k \in a .. j - 1 PROVE ~At(s, <<"?">>, k)
  <2>1. k \in 1 .. Len(s) /\ k \in h + 1 .. p
    BY <1>1
  <2>2. QED
    BY <1>1, <1>2, <2>1, AtChar
<1>5. CASE p = Len(s)
  <2>1. \A k \in a .. Len(s) + 1 - Len(<<"?">>) : k \in a .. j - 1
    BY <1>1, <1>2, <1>5
  <2> HIDE DEF a, j
  <2>2. find(s, <<"?">>, a) = 0
    BY <1>1, <1>2, <1>3, <1>4, <2>1, FindNone
  <2>3. QED
    BY <1>5, <2>2 DEF a
<1>6. CASE p < Len(s)
  <2>1. j \in 1 .. Len(s) /\ s[j] = "?" /\ j \in a .. Len(s) + 1 - Len(<<"?">>)
    BY <1>1, <1>2, <1>6
  <2> HIDE DEF a, j
  <2>2. At(s, <<"?">>, j)
    BY <1>1, <1>2, <2>1, AtChar
  <2>3. find(s, <<"?">>, a) = j
    BY <1>1, <1>2, <1>3, <1>4, <2>1, <2>2, FindFirst
  <2>4. QED
    BY <1>1, <1>6, <2>3 DEF a, j
<1>7. QED
  BY <1>1, <1>5, <1>6

(***************************************************************************)
(* So the code reads a url as its parts.                                   *)
(***************************************************************************)
ReadAs(s, u) ==
  /\ s \in Seq(Token) /\ Absolute(s)
  /\ scheme_of(s) = u.scheme /\ host_of(s) = u.host
  /\ url_path(s) = IF u.path = <<>> THEN <<"/">> ELSE u.path
  /\ u.path = <<>> => Slash(s) = 0
  /\ u.path # <<>> => Slash(s) # 0 /\ SubSeq(s, Slash(s), Len(s)) = u.path \o u.query

\* A url that Parsed admits is read as its parts.
LEMMA AbsoluteRead ==
  ASSUME NEW u, IsUrl(u), u.scheme # <<>>, Parsed(u)
  PROVE  ReadAs(Text(u), u)
<1> DEFINE s == Text(u)
<1>1. PICK n, h, p \in Nat : Laid(s, n, h, p, u.scheme, u.host, u.path, u.query)
  BY TextLayout
<1> HIDE DEF s
<1>2. /\ Layout(s, n, h, p) /\ s \in Seq(Token) /\ Len(s) \in Nat
      /\ n + 3 <= h /\ h <= p /\ p <= Len(s)
  BY <1>1 DEF Laid, Layout
<1>3. /\ u.path \in Seq(Token) /\ u.query \in Seq(Token)
      /\ u.path = <<>> <=> h = p
      /\ h < p \/ p = Len(s)
  <2>1. u.path \in Seq(Token) /\ u.query \in Seq(Token)
    BY DEF IsUrl
  <2>2. Len(u.path) \in Nat /\ p = h + Len(u.path) /\ Len(s) = p + Len(u.query)
    BY <1>1, <2>1 DEF Laid
  <2>3. u.path = <<>> <=> Len(u.path) = 0
    BY <2>1
  <2>4. u.path # <<>> \/ Len(u.query) = 0
    <3>1. u.path # <<>> \/ u.query = <<>>
      BY Zenon DEF Parsed
    <3>2. Len(<<>>) = 0
      OBVIOUS
    <3>3. QED
      BY <3>1, <3>2
  <2>5. h < p \/ p = Len(s)
    <3>1. CASE u.path # <<>>
      <4>1. Len(u.path) # 0 /\ Len(u.path) \in Nat /\ p = h + Len(u.path)
        BY <2>2, <2>3, <3>1
      <4>2. QED
        BY <4>1
    <3>2. CASE Len(u.query) = 0
      BY <2>2, <3>2
    <3>3. QED
      BY <2>4, <3>1, <3>2
  <2>6. Len(u.path) = 0 <=> h = p
    BY <2>2
  <2>7. QED
    BY <2>1, <2>3, <2>5, <2>6, Zenon
<1>4. Absolute(s) /\ Authority(s) = n + 4 /\ scheme_of(s) = u.scheme
  <2>1. find(s, Colon, 1) = n + 1
    BY <1>2, FirstColon
  <2>2. n + 1 # 0 /\ (n + 1) + 3 = n + 4 /\ (n + 1) - 1 = n
    OBVIOUS
  <2>3. UpTo(s, 1, Colon) = SubSeq(s, 1, n)
    BY <2>1, <2>2 DEF UpTo
  <2>4. QED
    BY <2>1, <2>2, <2>3, <1>1 DEF Absolute, Authority, scheme_of, Laid
<1>5. Slash(s) = IF h = p THEN 0 ELSE h + 1
  BY <1>2, <1>3, <1>4, FirstSlash DEF Slash
<1>6. host_of(s) = u.host
  <2>1. UpTo(s, n + 4, <<"/">>) = SubSeq(s, n + 4, h)
    <3>1. find(s, <<"/">>, n + 4) = IF h = p THEN 0 ELSE h + 1
      BY <1>2, <1>3, FirstSlash
    <3>2. h + 1 # 0 /\ (h + 1) - 1 = h /\ (h = p => Len(s) = h)
      BY <1>2, <1>3
    <3>3. QED
      BY <3>1, <3>2 DEF UpTo
  <2>2. QED
    BY <1>1, <1>4, <2>1 DEF host_of, Laid
<1>7. url_path(s) = IF u.path = <<>> THEN <<"/">> ELSE u.path
  <2>1. CASE h = p
    BY <1>3, <1>4, <1>5, <2>1 DEF url_path
  <2>2. CASE h # p
    <3>1. Slash(s) = h + 1 /\ h + 1 # 0
      BY <1>5, <2>2
    <3>2. find(s, <<"?">>, h + 1) = IF p = Len(s) THEN 0 ELSE p + 1
      BY <1>2, FirstQuestion
    <3>3. p + 1 # 0 /\ (p + 1) - 1 = p
      OBVIOUS
    <3>4. UpTo(s, h + 1, <<"?">>) = SubSeq(s, h + 1, p)
      BY <3>2, <3>3 DEF UpTo
    <3>5. QED
      BY <1>1, <1>3, <1>4, <2>2, <3>1, <3>4 DEF url_path, Laid
  <2>3. QED
    BY <2>1, <2>2
<1>8. /\ u.path = <<>> => Slash(s) = 0
      /\ u.path # <<>> => Slash(s) # 0 /\ SubSeq(s, Slash(s), Len(s)) = u.path \o u.query
  <2>1. SubSeq(s, h + 1, Len(s)) = u.path \o u.query
    BY <1>1, Zenon DEF Laid
  <2>2. u.path = <<>> <=> h = p
    BY <1>3
  <2>3. h + 1 # 0
    OBVIOUS
  <2>4. QED
    BY <1>5, <2>1, <2>2, <2>3, Zenon
<1>9. QED
  <2>1. ReadAs(s, u)
    BY <1>2, <1>4, <1>6, <1>7, <1>8 DEF ReadAs
  <2>2. QED
    BY <2>1 DEF s

(***************************************************************************)
(* The types of texts and of their parts.                                  *)
(***************************************************************************)
LEMMA FindPlace ==
  ASSUME NEW s \in Seq(Token), NEW t \in Seq(Token), NEW i \in Nat
  PROVE  find(s, t, i) = 0 \/ find(s, t, i) \in i .. Len(s) + 1 - Len(t)
<1> DEFINE places == {j \in i .. Len(s) + 1 - Len(t) : SubSeq(s, j, j + Len(t) - 1) = t}
<1>1. places \subseteq Nat /\ places \subseteq i .. Len(s) + 1 - Len(t)
  OBVIOUS
<1>2. find(s, t, i) = IF places = {} THEN 0 ELSE Min(places)
  BY DEF find
<1> HIDE DEF places
<1>3. places # {} => Min(places) \in places
  BY <1>1, LeastNat
<1>4. QED
  BY <1>1, <1>2, <1>3

LEMMA PartType ==
  ASSUME NEW s \in Seq(Token), NEW t \in Seq(Token), NEW i \in Nat \ {0}
  PROVE  SubSeq(s, i, Len(s)) \in Seq(Token) /\ UpTo(s, i, t) \in Seq(Token)
<1>1. Len(s) \in Nat /\ Len(t) \in Nat
  OBVIOUS
<1>2. ASSUME NEW k \in Int, k <= Len(s) PROVE SubSeq(s, i, k) \in Seq(Token)
  <2>1. \A j \in i .. k : s[j] \in Token
    BY <1>1, <1>2
  <2>2. QED
    BY <2>1, SubSeqProperties
<1> DEFINE f == find(s, t, i)  k == IF f = 0 THEN Len(s) ELSE f - 1
<1>3. k \in Int /\ k <= Len(s)
  <2>1. f = 0 \/ f \in i .. Len(s) + 1 - Len(t)
    BY FindPlace
  <2> HIDE DEF f
  <2>2. QED
    BY <1>1, <2>1
<1>4. UpTo(s, i, t) = SubSeq(s, i, k)
  BY DEF UpTo
<1> HIDE DEF k
<1>5. QED
  BY <1>1, <1>2, <1>3, <1>4

LEMMA TextType ==
  ASSUME NEW u, IsUrl(u)
  PROVE  Text(u) \in Seq(Token)
<1> DEFINE b == IF u.scheme = <<>> THEN <<>> ELSE Colon
<1>1. /\ u.scheme \in Seq(Token) /\ u.host \in Seq(Token)
      /\ u.path \in Seq(Token) /\ u.query \in Seq(Token)
  BY DEF IsUrl
<1>2. b \in Seq(Token)
  BY TokenAssumption DEF Colon
<1> HIDE DEF b
<1>3. Joined(Token, u.scheme \o b \o u.host \o u.path \o u.query, u.scheme, b, u.host, u.path, u.query)
  BY <1>1, <1>2, FiveParts
<1>4. QED
  BY <1>3 DEF Joined, Text, b

LEMMA FourType ==
  ASSUME NEW S, NEW a \in Seq(S), NEW b \in Seq(S), NEW c \in Seq(S), NEW d \in Seq(S)
  PROVE  a \o b \in Seq(S) /\ a \o b \o c \in Seq(S) /\ a \o b \o c \o d \in Seq(S)
BY ConcatProperties

LEMMA ReplaceType ==
  ASSUME NEW s \in Seq(Token), NEW t \in Seq(Token)
  PROVE  url_replace_host_scheme(s, t) \in Seq(Token)
<1>1. /\ Colon \in Seq(Token) /\ <<"/">> \in Seq(Token)
  BY TokenAssumption DEF Colon
<1>2. ASSUME NEW x \in Seq(Token), Absolute(x) PROVE Authority(x) \in Nat \ {0}
  <2>1. find(x, Colon, 1) \in Nat
    BY <1>1, FindPlace
  <2>2. QED
    BY <2>1 DEF Authority
<1>3. CASE Absolute(s) /\ Absolute(t)
  <2>1. scheme_of(t) \in Seq(Token)
    BY <1>1, PartType DEF scheme_of
  <2>2. host_of(t) \in Seq(Token)
    BY <1>1, <1>2, <1>3, PartType DEF host_of
  <2> DEFINE rest == IF Slash(s) = 0 THEN <<"/">> ELSE SubSeq(s, Slash(s), Len(s))
  <2>3. rest \in Seq(Token)
    <3>1. Authority(s) \in Nat \ {0}
      BY <1>2, <1>3
    <3>2. Slash(s) = 0 \/ Slash(s) \in Nat \ {0}
      <4> DEFINE a == Authority(s)  k == find(s, <<"/">>, a)
      <4>1. a \in Nat \ {0} /\ <<"/">> \in Seq(Token)
        BY <1>1, <3>1
      <4>2. Slash(s) = k
        BY DEF Slash
      <4> HIDE DEF a
      <4>3. k = 0 \/ k \in a .. Len(s) + 1 - Len(<<"/">>)
        BY <4>1, FindPlace
      <4> HIDE DEF k
      <4>4. QED
        BY <4>1, <4>2, <4>3
    <3>3. QED
      BY <1>1, <3>2, PartType
  <2>4. url_replace_host_scheme(s, t) = scheme_of(t) \o Colon \o host_of(t) \o rest
    BY <1>3 DEF url_replace_host_scheme
  <2> HIDE DEF rest
  <2>5. QED
    BY <1>1, <2>1, <2>2, <2>3, <2>4, FourType
<1>4. CASE ~(Absolute(s) /\ Absolute(t))
  BY <1>4 DEF url_replace_host_scheme
<1>5. QED
  BY <1>3, <1>4

(***************************************************************************)
(* A url's text with another host is the text of the url with that host.   *)
(***************************************************************************)
LEMMA AbsoluteUrl ==
  ASSUME NEW u, IsUrl(u), Parsed(u)
  PROVE  Absolute(Text(u)) <=> u.scheme # <<>>
BY AbsoluteRead DEF Parsed, ReadAs

LEMMA RehostedParts ==
  ASSUME NEW u, NEW t, IsUrl(u), IsUrl(t), u.scheme # <<>>, t.scheme # <<>>
  PROVE  LET r == Rehosted(u, t) IN
         /\ r \in [{"scheme", "host", "path", "query"} -> Seq(Token)]
         /\ r.scheme = t.scheme /\ r.host = t.host /\ r.query = u.query
         /\ r.path = IF u.path = <<>> THEN <<"/">> ELSE u.path
<1> DEFINE p == IF u.path = <<>> THEN <<"/">> ELSE u.path
           r == [t EXCEPT !.path = p, !.query = u.query]
<1>1. Rehosted(u, t) = r
  BY DEF Rehosted
<1>2. p \in Seq(Token) /\ u.query \in Seq(Token)
  BY TokenAssumption DEF IsUrl
<1>3. t \in [{"scheme", "host", "path", "query"} -> Seq(Token)]
  BY DEF IsUrl
<1> HIDE DEF p
<1>4. r \in [{"scheme", "host", "path", "query"} -> Seq(Token)]
  BY <1>2, <1>3
<1>5. r.scheme = t.scheme /\ r.host = t.host /\ r.query = u.query /\ r.path = p
  BY <1>3
<1> HIDE DEF r
<1>6. QED
  BY <1>1, <1>4, <1>5 DEF p

\* The host is replaced once: a second time changes nothing, and whether the
\* path is that of a list of servers does not change at all.
LEMMA RehostedUrl ==
  ASSUME NEW u, NEW t, IsUrl(u), IsUrl(t), Parsed(u)
  PROVE  LET r == Rehosted(u, t) IN
         /\ IsUrl(r) /\ Parsed(r)
         /\ WantsServerInfos(r) = WantsServerInfos(u)
         /\ Rehosted(r, t) = r
<1>1. CASE u.scheme = <<>> \/ t.scheme = <<>>
  BY <1>1 DEF Rehosted
<1>2. CASE u.scheme # <<>> /\ t.scheme # <<>>
  <2> DEFINE r == Rehosted(u, t)  p == IF u.path = <<>> THEN <<"/">> ELSE u.path
  <2>1. /\ r \in [{"scheme", "host", "path", "query"} -> Seq(Token)]
        /\ r.scheme = t.scheme /\ r.host = t.host /\ r.query = u.query /\ r.path = p
    BY <1>2, RehostedParts
  <2>2. p # <<>> /\ Head(p) = "/" /\ "?" \notin Range(p)
    <3>1. u.path # <<>> => Head(u.path) = "/" /\ "?" \notin Range(u.path)
      BY DEF IsUrl
    <3>2. Range(<<"/">>) = {"/"}
      BY DEF Range
    <3>3. <<"/">> # <<>> /\ Head(<<"/">>) = "/" /\ "?" \notin {"/"}
      OBVIOUS
    <3>4. QED
      BY <3>1, <3>2, <3>3
  <2>3. r = [t EXCEPT !.path = p, !.query = u.query]
    BY <1>2 DEF Rehosted
  <2> HIDE DEF r
  <2>4. IsUrl(r)
    BY <2>1, <2>2 DEF IsUrl
  <2>5. Parsed(r)
    BY <1>2, <2>1, <2>2 DEF Parsed
  <2>6. WantsServerInfos(r) = WantsServerInfos(u)
    <3>1. IsServerInfos(p) <=> IsServerInfos(u.path)
      <4>1. ~IsServerInfos(<<"/">>) /\ ~IsServerInfos(<<>>)
        BY DEF IsServerInfos, IsPrefix
      <4>2. QED
        BY <4>1
    <3>2. QED
      BY <1>2, <2>1, <3>1 DEF WantsServerInfos
  <2>7. Rehosted(r, t) = r
    <3>1. Rehosted(r, t) = [t EXCEPT !.path = p, !.query = u.query]
      BY <1>2, <2>1, <2>2 DEF Rehosted
    <3>2. QED
      BY <2>3, <3>1
  <2>8. QED
    BY <2>4, <2>5, <2>6, <2>7 DEF r
<1>3. QED
  BY <1>1, <1>2

\* url_replace_host_scheme, on texts, is Rehosted, on urls.
LEMMA Rehosting ==
  ASSUME NEW u, NEW t, IsUrl(u), IsUrl(t), Parsed(u), Parsed(t)
  PROVE  url_replace_host_scheme(Text(u), Text(t)) = Text(Rehosted(u, t))
<1>1. CASE u.scheme = <<>> \/ t.scheme = <<>>
  <2>1. ~Absolute(Text(u)) \/ ~Absolute(Text(t))
    BY <1>1, AbsoluteUrl
  <2>2. QED
    BY <1>1, <2>1 DEF url_replace_host_scheme, Rehosted
<1>2. CASE u.scheme # <<>> /\ t.scheme # <<>>
  <2> DEFINE s == Text(u)  r == Rehosted(u, t)  f == t.scheme \o Colon \o t.host
             p == IF u.path = <<>> THEN <<"/">> ELSE u.path
  <2>1. ReadAs(Text(u), u) /\ ReadAs(Text(t), t)
    BY <1>2, AbsoluteRead
  <2>2. r.scheme = t.scheme /\ r.host = t.host /\ r.query = u.query /\ r.path = p
    BY <1>2, RehostedParts
  <2>3. /\ t.scheme \in Seq(Token) /\ t.host \in Seq(Token) /\ u.query \in Seq(Token)
        /\ u.path \in Seq(Token) /\ Colon \in Seq(Token) /\ <<"/">> \in Seq(Token)
    BY TokenAssumption DEF IsUrl, Colon
  <2>4. f \in Seq(Token) /\ p \in Seq(Token)
    BY <2>3, FourType
  <2>5. Text(r) = f \o p \o u.query
    BY <1>2, <2>2 DEF Text
  <2>6. url_replace_host_scheme(s, Text(t))
          = f \o (IF Slash(s) = 0 THEN <<"/">> ELSE SubSeq(s, Slash(s), Len(s)))
    BY <2>1 DEF url_replace_host_scheme, ReadAs
  <2>7. (IF Slash(s) = 0 THEN <<"/">> ELSE SubSeq(s, Slash(s), Len(s))) = p \o u.query
    <3>1. CASE u.path = <<>>
      <4>1. u.query = <<>> /\ Slash(s) = 0
        BY <2>1, <3>1 DEF Parsed, ReadAs
      <4>2. <<"/">> \o <<>> = <<"/">>
        BY <2>3, ConcatEmptySeq
      <4>3. QED
        BY <3>1, <4>1, <4>2
    <3>2. CASE u.path # <<>>
      BY <2>1, <3>2 DEF ReadAs
    <3>3. QED
      BY <3>1, <3>2
  <2> HIDE DEF f, p, r, s
  <2>8. f \o (p \o u.query) = f \o p \o u.query
    <3> DEFINE q == u.query
    <3>1. q \in Seq(Token)
      BY <2>3
    <3> HIDE DEF q
    <3>2. f \o p \o q = f \o (p \o q)
      BY <2>4, <3>1, ConcatAssociative
    <3>3. QED
      BY <3>2 DEF q
  <2>9. QED
    BY <2>5, <2>6, <2>7, <2>8 DEF r, s
<1>3. QED
  BY <1>1, <1>2

(***************************************************************************)
(* The types.  A stub only runs where an original was stored, because      *)
(* install_one stores one before it patches the body.                      *)
(***************************************************************************)
OriginalInv ==
  /\ step # "find" => todo # <<>> /\ original[Head(todo)] # "null"
  /\ \A m \in Method : hooked[m] => original[m] # "null"
  /\ at = "stub" => hooked[method]
  /\ at = "original" => original[method] # "null"

TypeInv == TypeOK /\ OriginalInv

LEMMA UrlTypes ==
  ASSUME config \in Config
  PROVE  /\ \A u \in Url : Text(u) \in Seq(Token)
         /\ Text(config.server) \in Seq(Token) /\ Text(config.serverinfos_url) \in Seq(Token)
BY UrlAssumption, ConfigAssumption, TextType

\* The types hold at the start.
LEMMA TypeInit == Init => TypeInv
<1>1. <<>> \in Seq(Token) /\ <<"SendWebRequest", "Post">> \in Seq(Method)
  BY DEF Method
<1>2. QED
  BY <1>1 DEF Init, TypeInv, TypeOK, OriginalInv, Method

LEMMA TypeInstall == TypeInv /\ Install => TypeInv'
<1> SUFFICES ASSUME TypeInv, Install PROVE TypeInv'
  OBVIOUS
<1> USE DEF TypeInv
<1>1. /\ todo \in Seq(Method) /\ todo # <<>>
      /\ Head(todo) \in Method /\ Tail(todo) \in Seq(Method)
  BY DEF TypeOK, Install, NotFound, ReadOriginal, NoJump, PatchBody, StoreOriginal, Installing
<1>2. UNCHANGED <<config, has, requestVars>>
  BY DEF Install, NotFound, ReadOriginal, NoJump, PatchBody, StoreOriginal
<1>3. CASE NotFound
  BY <1>1, <1>2, <1>3 DEF TypeOK, OriginalInv, NotFound, Leave, requestVars
<1>4. CASE ReadOriginal
  BY <1>1, <1>2, <1>4 DEF TypeOK, OriginalInv, ReadOriginal, Installing, requestVars
<1>5. CASE NoJump
  BY <1>1, <1>2, <1>5 DEF TypeOK, OriginalInv, NoJump, Leave, requestVars
<1>6. CASE PatchBody
  BY <1>1, <1>2, <1>6 DEF TypeOK, OriginalInv, PatchBody, Installing, requestVars
<1>7. CASE StoreOriginal
  BY <1>1, <1>2, <1>7 DEF TypeOK, OriginalInv, StoreOriginal, Installing, Leave, requestVars
<1>8. QED
  BY <1>3, <1>4, <1>5, <1>6, <1>7 DEF Install

\* What a step of a request does to the url and the header keeps them texts.
LEMMA RequestTypes ==
  ASSUME TypeOK, post_prefix \/ pre_send
  PROVE  url' \in Seq(Token) /\ header' \in Seq(Token)
<1>1. /\ url \in Seq(Token) /\ header \in Seq(Token)
      /\ Text(config.server) \in Seq(Token) /\ Text(config.serverinfos_url) \in Seq(Token)
  BY UrlTypes DEF TypeOK
<1>2. url_replace_host_scheme(url, Text(config.server)) \in Seq(Token)
  BY <1>1, ReplaceType
<1>3. CASE post_prefix
  BY <1>1, <1>2, <1>3 DEF post_prefix
<1>4. CASE pre_send
  BY <1>1, <1>2, <1>4 DEF pre_send, NewUrl
<1>5. QED
  BY <1>3, <1>4

LEMMA TypeRequest == TypeInv /\ (Ask \/ Call \/ post_prefix \/ pre_send \/ CallOriginal) => TypeInv'
<1> SUFFICES ASSUME TypeInv, Ask \/ Call \/ post_prefix \/ pre_send \/ CallOriginal
             PROVE  TypeInv'
  OBVIOUS
<1> USE DEF TypeInv
<1>1. CASE Ask
  <2>1. Text(asked') \in Seq(Token) /\ <<>> \in Seq(Token)
    BY <1>1, UrlTypes DEF TypeOK, Ask
  <2>2. QED
    BY <1>1, <2>1 DEF TypeOK, OriginalInv, Ask, installVars
<1>2. CASE Call
  BY <1>2 DEF TypeOK, OriginalInv, Call, Body, installVars, Method
<1>3. CASE post_prefix
  <2>1. url' \in Seq(Token) /\ header' \in Seq(Token)
    BY <1>3, RequestTypes
  <2>2. QED
    BY <1>3, <2>1 DEF TypeOK, OriginalInv, post_prefix, installVars, Method
<1>4. CASE pre_send
  <2>1. url' \in Seq(Token) /\ header' \in Seq(Token)
    BY <1>4, RequestTypes
  <2>2. /\ at = "stub" /\ stubs' = stubs \cup {method} /\ at' = "original"
        /\ UNCHANGED <<config, has, installVars, method, asked>>
    BY <1>4 DEF pre_send
  <2>3. QED
    BY <2>1, <2>2 DEF TypeOK, OriginalInv, installVars, Method
<1>5. CASE CallOriginal
  BY <1>5 DEF TypeOK, OriginalInv, CallOriginal, Body, installVars, Method
<1>6. QED
  BY <1>1, <1>2, <1>3, <1>4, <1>5

LEMMA TypeStep == TypeInv /\ [Next]_vars => TypeInv'
<1>1. TypeInv /\ UNCHANGED vars => TypeInv'
  BY DEF TypeInv, TypeOK, OriginalInv, vars, installVars, requestVars
<1>2. QED
  BY <1>1, TypeInstall, TypeRequest DEF Next

\* Every variable keeps its type: a stub always finds an original to call, also
\* in the window in which its method jumps to it and the trampoline is not stored.
THEOREM HttpTypes == Spec => []TypeInv
<1>1. QED
  BY TypeInit, TypeStep, PTL DEF Spec

\* Every variable has its type: texts are texts whatever the stubs make of them,
\* and no request is lost by a stub that has no original to call.
THEOREM HttpTypeCorrect == Spec => []TypeOK
<1>1. TypeInv => TypeOK
  BY DEF TypeInv
<1>2. QED
  BY <1>1, HttpTypes, PTL

(***************************************************************************)
(* A request on its way.  Its url and header are those that it would have  *)
(* after one run of each stub that it has run at all: SendWebRequest's     *)
(* stub finds its own work and does it again, or finds nothing to do.      *)
(***************************************************************************)
Named ==
  /\ header # <<>> => header = Text(Original)
  /\ header # <<>> <=> /\ "SendWebRequest" \in stubs /\ {"get_url", "SetRequestHeader"} \subseteq has
                       /\ WantsServerInfos(Original)
                       /\ <<>> \notin {Text(config.server), Text(config.serverinfos_url)}

RequestInv ==
  (at # "none" /\ Parsed(asked) /\ Settled) =>
    /\ url = Text(Destination) /\ Named
    /\ method = "Post" => "SendWebRequest" \notin stubs

LEMMA ConfigUrls ==
  ASSUME TypeOK
  PROVE  IsUrl(asked) /\ IsUrl(config.server) /\ IsUrl(config.serverinfos_url)
BY UrlAssumption, ConfigAssumption DEF TypeOK

\* An absolute url is not empty.
LEMMA TextEmpty ==
  ASSUME NEW u, IsUrl(u), u.scheme # <<>>
  PROVE  Text(u) # <<>>
<1>1. PICK n, h, p \in Nat : Laid(Text(u), n, h, p, u.scheme, u.host, u.path, u.query)
  BY TextLayout
<1>2. n + 3 <= h /\ h <= p /\ p <= Len(Text(u)) /\ Len(Text(u)) \in Nat
  BY <1>1 DEF Laid, Layout
<1>3. Len(Text(u)) # 0
  BY <1>2
<1>4. QED
  BY <1>3

LEMMA OriginalUrl ==
  ASSUME TypeOK, Parsed(asked)
  PROVE  IsUrl(Original) /\ Parsed(Original)
<1>1. IsUrl(asked) /\ IsUrl(config.server)
  BY ConfigUrls
<1>2. IsUrl(Rehosted(asked, config.server)) /\ Parsed(Rehosted(asked, config.server))
  BY <1>1, RehostedUrl
<1>3. QED
  BY <1>1, <1>2 DEF Original

LEMMA DestinationUrl ==
  ASSUME TypeOK, Parsed(asked), Settled
  PROVE  IsUrl(Destination) /\ Parsed(Destination)
<1>1. IsUrl(Original) /\ Parsed(Original)
  BY OriginalUrl
<1>2. IsUrl(config.server) /\ IsUrl(config.serverinfos_url) /\ Parsed(config.serverinfos_url)
  BY ConfigUrls DEF Settled
<1>3. IsUrl(Rehosted(Original, config.server)) /\ Parsed(Rehosted(Original, config.server))
  BY <1>1, <1>2, RehostedUrl
<1>4. QED
  BY <1>1, <1>2, <1>3 DEF Destination

\* What SendWebRequest's stub reads of a url that is the text of u.
LEMMA StubReads ==
  ASSUME NEW u, IsUrl(u), Parsed(u), url = Text(u)
  PROVE  /\ ToServer <=> "get_url" \in has /\ WantsServer(u) /\ Text(config.server) # <<>>
         /\ ToServerInfos <=> /\ "get_url" \in has /\ WantsServerInfos(u)
                              /\ Text(config.server) # <<>> /\ Text(config.serverinfos_url) # <<>>
<1>1. Absolute(url) <=> u.scheme # <<>>
  BY AbsoluteUrl
<1>2. ASSUME u.scheme # <<>> PROVE host_of(url) = u.host
  BY <1>2, AbsoluteRead DEF ReadAs
<1>3. ASSUME u.scheme # <<>> PROVE IsServerInfos(url_path(url)) <=> IsServerInfos(u.path)
  <2>1. url_path(url) = IF u.path = <<>> THEN <<"/">> ELSE u.path
    BY <1>3, AbsoluteRead DEF ReadAs
  <2>2. ~IsServerInfos(<<"/">>) /\ ~IsServerInfos(<<>>)
    BY DEF IsServerInfos, IsPrefix
  <2>3. QED
    BY <2>1, <2>2
<1>4. QED
  BY <1>1, <1>2, <1>3 DEF ToServer, ToServerInfos, Redirecting, WantsServer, WantsServerInfos

LEMMA AskSends == Ask => RequestInv'
<1> SUFFICES ASSUME Ask PROVE RequestInv'
  OBVIOUS
<1>1. url' = Text(asked') /\ stubs' = {} /\ header' = <<>>
  BY DEF Ask
<1>2. Original' = asked' /\ Destination' = asked'
  BY <1>1 DEF Original, Destination
<1>3. QED
  BY <1>1, <1>2 DEF RequestInv, Named

LEMMA PassSends ==
  RequestInv /\ (Install \/ Call \/ CallOriginal \/ UNCHANGED vars) => RequestInv'
<1> SUFFICES ASSUME RequestInv, Install \/ Call \/ CallOriginal \/ UNCHANGED vars PROVE RequestInv'
  OBVIOUS
<1>1. UNCHANGED <<config, has, asked, stubs, url, header>>
  BY DEF Install, NotFound, ReadOriginal, NoJump, PatchBody, StoreOriginal, Call, CallOriginal,
         vars, requestVars
<1>2. (at' # "none" => at # "none") /\ (method' = "Post" => method = "Post")
  BY DEF Install, NotFound, ReadOriginal, NoJump, PatchBody, StoreOriginal, Call, CallOriginal,
         Body, vars, requestVars
<1>3. /\ Parsed(asked') = Parsed(asked) /\ Settled' = Settled /\ Named' = Named
      /\ Text(Destination)' = Text(Destination)
  BY <1>1 DEF Settled, Named, Original, Destination
<1>4. QED
  BY <1>1, <1>2, <1>3 DEF RequestInv

\* A stub of Post that runs again finds the host it has put there.
LEMMA PostSends == TypeOK /\ RequestInv /\ post_prefix => RequestInv'
<1> SUFFICES ASSUME TypeOK, RequestInv, post_prefix, Parsed(asked), Settled PROVE RequestInv'
  BY DEF RequestInv, Settled, post_prefix
<1> DEFINE server == config.server
<1>1. /\ url' = IF Text(server) = <<>> THEN url ELSE url_replace_host_scheme(url, Text(server))
      /\ at = "stub" /\ method = "Post" /\ stubs' = stubs \cup {"Post"}
      /\ UNCHANGED <<config, has, asked, method, header>>
  BY DEF post_prefix
<1>2. /\ url = Text(Destination) /\ Named /\ "SendWebRequest" \notin stubs
      /\ "SendWebRequest" \notin stubs'
  BY <1>1 DEF RequestInv
<1>3. Destination = Original /\ Destination' = Original'
  BY <1>2 DEF Destination
<1>4. IsUrl(asked) /\ IsUrl(server) /\ Parsed(server)
  BY ConfigUrls DEF Settled
<1>5. Original' = Rehosted(asked, server)
  BY <1>1 DEF Original
<1>6. Rehosted(Original, server) = Original'
  BY <1>4, <1>5, RehostedUrl DEF Original
<1>7. url' = Text(Original')
  <2>1. CASE Text(server) = <<>>
    <3>1. server.scheme = <<>>
      BY <1>4, <2>1, TextEmpty
    <3>2. Original' = Original
      BY <1>5, <3>1 DEF Rehosted, Original
    <3>3. QED
      BY <1>1, <1>2, <1>3, <2>1, <3>2
  <2>2. CASE Text(server) # <<>>
    <3>1. IsUrl(Original) /\ Parsed(Original)
      BY OriginalUrl
    <3>2. url_replace_host_scheme(Text(Original), Text(server)) = Text(Rehosted(Original, server))
      BY <1>4, <3>1, Rehosting
    <3>3. QED
      BY <1>1, <1>2, <1>3, <1>6, <2>2, <3>2
  <2>3. QED
    BY <2>1, <2>2
<1>8. Named'
  BY <1>1, <1>2 DEF Named
<1>9. QED
  BY <1>1, <1>2, <1>3, <1>7, <1>8 DEF RequestInv

\* Where a request is that SendWebRequest's stub finds.
Redirects ==
  {"get_url", "set_url"} \subseteq has /\ Text(config.server) # <<>>
SentElsewhere == Redirects /\ WantsServerInfos(Original) /\ Text(config.serverinfos_url) # <<>>
SentToServer == Redirects /\ ~SentElsewhere /\ WantsServer(Original)

LEMMA DestinationCases ==
  /\ SentElsewhere => Destination = IF "SendWebRequest" \in stubs THEN config.serverinfos_url ELSE Original
  /\ SentToServer =>
       Destination = IF "SendWebRequest" \in stubs THEN Rehosted(Original, config.server) ELSE Original
  /\ ~SentElsewhere /\ ~SentToServer => Destination = Original
BY DEF Destination, SentElsewhere, SentToServer, Redirects

LEMMA SendUrl ==
  ASSUME TypeOK, RequestInv, pre_send, Parsed(asked), Settled
  PROVE  url' = Text(Destination')
<1> DEFINE server == config.server  si == config.serverinfos_url
<1>1. /\ url' = NewUrl /\ at = "stub" /\ stubs' = stubs \cup {"SendWebRequest"}
      /\ UNCHANGED <<config, has, asked, method>>
  BY DEF pre_send
<1>2. url = Text(Destination)
  BY <1>1 DEF RequestInv
<1>3. Original' = Original
  BY <1>1 DEF Original
<1>4. /\ SentElsewhere' = SentElsewhere /\ SentToServer' = SentToServer
      /\ "SendWebRequest" \in stubs'
  BY <1>1, <1>3 DEF SentElsewhere, SentToServer, Redirects
<1>5. /\ IsUrl(Destination) /\ Parsed(Destination) /\ IsUrl(Original) /\ Parsed(Original)
      /\ IsUrl(server) /\ Parsed(server)
  BY DestinationUrl, OriginalUrl, ConfigUrls DEF Settled
<1>6. /\ ToServer <=> "get_url" \in has /\ WantsServer(Destination) /\ Text(server) # <<>>
      /\ ToServerInfos <=> /\ "get_url" \in has /\ WantsServerInfos(Destination)
                           /\ Text(server) # <<>> /\ Text(si) # <<>>
  BY <1>2, <1>5, StubReads
<1>7. CASE SentElsewhere
  <2>1. Destination' = si
    BY <1>1, <1>4, <1>7, DestinationCases DEF Destination, SentElsewhere, Redirects
  <2>2. CASE Destination = Original
    BY <1>1, <1>6, <1>7, <2>1, <2>2 DEF NewUrl, SentElsewhere, Redirects
  <2>3. CASE Destination = si
    BY <1>1, <1>2, <1>6, <2>1, <2>3 DEF NewUrl, Settled
  <2>4. QED
    BY <1>7, <2>2, <2>3, DestinationCases
<1>8. CASE SentToServer
  <2> DEFINE r == Rehosted(Original, server)
  <2>1. Destination' = r
    BY <1>1, <1>3, <1>4, <1>8 DEF Destination, SentElsewhere, SentToServer, Redirects
  <2>2. /\ IsUrl(r) /\ Parsed(r) /\ Rehosted(r, server) = r
        /\ WantsServerInfos(r) = WantsServerInfos(Original)
    BY <1>5, RehostedUrl
  <2>3. ~ToServerInfos
    BY <1>6, <1>8, <2>2, DestinationCases DEF SentElsewhere, SentToServer, Redirects
  <2>4. CASE Destination = Original
    <3>1. NewUrl = url_replace_host_scheme(Text(Original), Text(server))
      BY <1>2, <1>6, <1>8, <2>3, <2>4 DEF NewUrl, SentToServer, Redirects
    <3>2. QED
      BY <1>1, <1>5, <2>1, <3>1, Rehosting
  <2>5. CASE Destination = r
    <3>1. url_replace_host_scheme(url, Text(server)) = Text(r)
      BY <1>2, <1>5, <2>2, <2>5, Rehosting
    <3>2. QED
      BY <1>1, <1>2, <2>1, <2>3, <2>5, <3>1 DEF NewUrl
  <2>6. QED
    BY <1>8, <2>4, <2>5, DestinationCases
<1>9. CASE ~SentElsewhere /\ ~SentToServer
  <2>1. Destination = Original
    BY <1>9, DestinationCases
  <2>2. Destination' = Original
    BY <1>1, <1>3, <1>4, <1>9 DEF Destination, SentElsewhere, SentToServer, Redirects
  <2>3. NewUrl = url
    BY <1>6, <1>9, <2>1 DEF NewUrl, SentElsewhere, SentToServer, Redirects
  <2>4. QED
    BY <1>1, <1>2, <2>1, <2>2, <2>3
<1>10. QED
  BY <1>7, <1>8, <1>9

LEMMA SendHeader ==
  ASSUME TypeOK, RequestInv, pre_send, Parsed(asked), Settled
  PROVE  Named'
<1> DEFINE server == config.server  si == config.serverinfos_url
           names == /\ {"get_url", "SetRequestHeader"} \subseteq has /\ WantsServerInfos(Original)
                    /\ Text(server) # <<>> /\ Text(si) # <<>>
<1>1. /\ header' = IF ToServerInfos /\ "SetRequestHeader" \in has THEN url ELSE header
      /\ at = "stub" /\ stubs' = stubs \cup {"SendWebRequest"}
      /\ UNCHANGED <<config, has, asked, method>>
  BY DEF pre_send
<1>2. url = Text(Destination) /\ Named
  BY <1>1 DEF RequestInv
<1>3. Original' = Original /\ names' = names
  BY <1>1 DEF Original
<1>4. /\ IsUrl(Destination) /\ Parsed(Destination) /\ IsUrl(Original) /\ Parsed(Original)
      /\ IsUrl(server)
  BY DestinationUrl, OriginalUrl, ConfigUrls
<1>5. ToServerInfos <=> /\ "get_url" \in has /\ WantsServerInfos(Destination)
                        /\ Text(server) # <<>> /\ Text(si) # <<>>
  BY <1>2, <1>4, StubReads
<1>6. WantsServerInfos(Destination) => WantsServerInfos(Original)
  <2>1. WantsServerInfos(Rehosted(Original, server)) = WantsServerInfos(Original)
    BY <1>4, RehostedUrl
  <2>2. ~WantsServerInfos(si)
    BY DEF Settled
  <2>3. Destination = si \/ Destination = Rehosted(Original, server) \/ Destination = Original
    BY DestinationCases
  <2>4. QED
    BY <2>1, <2>2, <2>3
<1>7. header # <<>> <=> "SendWebRequest" \in stubs /\ names
  BY <1>2 DEF Named
<1>8. CASE names
  <2>1. Text(Original) # <<>>
    BY <1>4, <1>8, TextEmpty DEF WantsServerInfos
  <2>2. header' = Text(Original)
    <3>1. CASE ToServerInfos
      <4>1. Destination = Original
        <5>1. WantsServerInfos(Destination) /\ ~WantsServerInfos(si) /\ "get_url" \in has
          BY <1>5, <3>1 DEF Settled
        <5>2. Destination = IF SentElsewhere /\ "SendWebRequest" \in stubs THEN si ELSE Original
          BY <1>8 DEF Destination, SentElsewhere, Redirects
        <5>3. QED
          BY <5>1, <5>2
      <4>2. QED
        BY <1>1, <1>2, <1>8, <3>1, <4>1
    <3>2. CASE ~ToServerInfos
      <4>1. ~WantsServerInfos(Destination)
        BY <1>5, <1>8, <3>2
      <4>2. "SendWebRequest" \in stubs
        BY <1>8, <4>1 DEF Destination
      <4>3. header # <<>> /\ header = Text(Original)
        BY <1>2, <1>7, <1>8, <4>2 DEF Named
      <4>4. QED
        BY <1>1, <3>2, <4>3
    <3>3. QED
      BY <3>1, <3>2
  <2>3. QED
    BY <1>1, <1>3, <1>8, <2>1, <2>2 DEF Named
<1>9. CASE ~names
  <2>1. header = <<>> /\ header' = <<>>
    BY <1>1, <1>5, <1>6, <1>7, <1>9
  <2>2. QED
    BY <1>1, <1>3, <1>9, <2>1 DEF Named
<1>10. QED
  BY <1>8, <1>9

LEMMA SendSends == TypeOK /\ RequestInv /\ pre_send => RequestInv'
<1> SUFFICES ASSUME TypeOK, RequestInv, pre_send, Parsed(asked), Settled PROVE RequestInv'
  BY DEF RequestInv, Settled, pre_send
<1>1. method' = "SendWebRequest"
  BY DEF pre_send
<1>2. QED
  BY <1>1, SendUrl, SendHeader DEF RequestInv

LEMMA RequestStep == TypeOK /\ RequestInv /\ [Next]_vars => RequestInv'
BY AskSends, PassSends, PostSends, SendSends DEF Next

\* Every request's url and header are right wherever it is on its way.
THEOREM HttpRequests == Spec => []RequestInv
<1>1. Init => RequestInv
  BY DEF Init, RequestInv
<1>2. QED
  BY <1>1, RequestStep, HttpTypeCorrect, PTL DEF Spec

\* A request goes where http.hpp:4-10 says, path and query kept, whichever of the
\* methods the game still has and however often the stubs ran.
THEOREM RequestsAlwaysReachTheirServer == Spec => []RequestsReachTheirServer
<1>1. RequestInv => RequestsReachTheirServer
  BY DEF RequestInv, RequestsReachTheirServer
<1>2. QED
  BY <1>1, HttpRequests, PTL

\* X-Original-Url names the url that SendWebRequest was called with, and stands in
\* exactly the requests for a list of servers that reach its stub, where the game
\* has get_url and SetRequestHeader and both urls are configured.
THEOREM OriginalUrlAlwaysKept == Spec => []OriginalUrlKept
<1>1. RequestInv => OriginalUrlKept
  BY DEF RequestInv, Named, OriginalUrlKept
<1>2. QED
  BY <1>1, HttpRequests, PTL
=============================================================================
