--------------------------- MODULE RequestProofs ---------------------------
(***************************************************************************)
(* Proofs about Request, for any threads, calls, schemas, configurations,  *)
(* assemblies and lengths of answers.                                      *)
(***************************************************************************)
EXTENDS Request, WellFoundedInduction, TLAPS

Before == {"new", "lookup", "scan", "resolve", "post"}

\* What a call has heard by each stage: nothing until post returns, and the
\* event was fired with the reply where the game's handler runs.
Heard(c) ==
  /\ stage[c] \in Before => reply[c] = Pending
  /\ stage[c] \in Before \cup {"answered"} => fired[c] = 0
  /\ stage[c] = "handler" =>
       fired[c] = 1 /\ reply[c].status /\ schema[c].event /\ "Invoke" \in has
  /\ stage[c] = "returned" =>
       (fired[c] = 1) = (reply[c].status /\ schema[c].event /\ "Invoke" \in has)
  /\ fired[c] = 1 => text[c] = reply[c]
  /\ reply[c].status => executed[c] = 1

RequestInv == TypeOK /\ \A c \in Call : Heard(c)

\* A step of one call leaves the others as they are.
Others(c) ==
  /\ has' = has
  /\ \A d \in Call \ {c} :
       /\ stage'[d] = stage[d] /\ schema'[d] = schema[d] /\ fired'[d] = fired[d]
       /\ text'[d] = text[d] /\ reply'[d] = reply[d] /\ executed'[d] = executed[d]
-----------------------------------------------------------------------------
LEMMA ResponseTypes ==
  /\ Pending \in Response /\ Failure \in Response
  /\ ~Pending.status /\ ~Failure.status
  BY ExchangeAssumption DEF Response, Pending, Failure

\* Nothing of what a call posts depends on more than its schema and on what
\* never changes.
LEMMA PostedStays ==
  ASSUME NEW c \in Call, schema' = schema, UNCHANGED <<config, seen, urlFirst>>
  PROVE  Posted(schema[c])' = Posted(schema[c])
  BY DEF Posted, Swapped, Host, Header, Known, Path, ClassOf, g_packet_ids, WirePid,
         should_inject_token, inject_token

LEMMA WireStays ==
  ASSUME TypeOK, schema' = schema, UNCHANGED <<config, seen, urlFirst>>, wire' = wire
  PROVE  DOMAIN wire' = Call /\ \A c \in Call : wire'[c] \in {Unsent, Posted(schema[c])'}
  BY PostedStays DEF TypeOK

LEMMA RunningCall ==
  ASSUME TypeOK, NEW t \in Thread, NEW c \in Call, NEW p, Running(t, c, p)
  PROVE  stage[c] = p /\ stack[t] \in Seq(Call) /\ stack[t] # <<>>
  BY DEF Running, TypeOK

LEMMA FrontOfStack ==
  ASSUME NEW s \in Seq(Call), s # <<>>
  PROVE  Front(s) \in Seq(Call)
<1>1. Len(s) \in Nat \ {0}
  OBVIOUS
<1>2. Front(s) = [i \in 1 .. Len(s) - 1 |-> s[i]]
  BY <1>1 DEF Front
<1>3. QED
  BY <1>1, <1>2
-----------------------------------------------------------------------------
LEMMA InitRequestInv == Init => RequestInv
<1> SUFFICES ASSUME Init PROVE RequestInv
  OBVIOUS
<1> USE ResponseTypes, ExchangeAssumption, SchemaAssumption DEF Init, ExchangeInit
<1>1. TypeOK
  <2>1. stack \in [Thread -> Seq(Call)]
    OBVIOUS
  <2>2. text \in [Call -> Response] /\ reply \in [Call -> Response]
    OBVIOUS
  <2>3. DOMAIN wire = Call /\ \A c \in Call : wire[c] \in {Unsent, Posted(schema[c])}
    OBVIOUS
  <2>4. QED
    <3>1. stage \in [Call -> {"new"}] /\ schema \in [Call -> Schema]
      OBVIOUS
    <3>2. /\ fired \in [Call -> {0}] /\ executed \in [Call -> {0}] /\ length \in [Call -> {0}]
          /\ state \in [Call -> {"new"}]
      OBVIOUS
    <3>3. /\ config \in Config /\ has \subseteq Looked /\ seen \in 1 .. Len(Assemblies) /\ urlFirst \in BOOLEAN
          /\ scanned \in BOOLEAN /\ crashed \in BOOLEAN
      OBVIOUS
    <3>4. fired \in [Call -> 0 .. 1] /\ executed \in [Call -> 0 .. 1]
      BY <3>2
    <3>5. length \in [Call -> 0 .. MaxChunks]
      BY <3>2
    <3>6. QED
      BY <2>1, <2>2, <2>3, <3>1, <3>2, <3>3, <3>4, <3>5 DEF TypeOK
<1>2. ASSUME NEW c \in Call PROVE Heard(c)
  BY <1>2 DEF Heard, Before
<1>3. QED
  BY <1>1, <1>2 DEF RequestInv

LEMMA AddRequestKeeps ==
  ASSUME RequestInv, NEW t \in Thread, NEW c \in Call, AddRequest(t, c)
  PROVE  TypeOK' /\ Heard(c)' /\ Others(c)
<1> USE DEF AddRequest, Goto, patchVars, exchangeVars
<1>1. TypeOK'
  <2>1. stack' \in [Thread -> Seq(Call)]
    BY DEF RequestInv, TypeOK
  <2>2. QED
    BY <2>1, WireStays DEF RequestInv, TypeOK
<1>2. Heard(c)' /\ Others(c)
  BY DEF RequestInv, TypeOK, Heard, Others, Before
<1>3. QED
  BY <1>1, <1>2

\* The steps that change nothing but the stage and the cache of getters.
LEMMA SetupKeeps ==
  ASSUME RequestInv, NEW t \in Thread, NEW c \in Call,
         Lookup(t, c) \/ Scan(t, c) \/ ScanRaces(t, c)
  PROVE  TypeOK' /\ Heard(c)' /\ Others(c)
<1> USE DEF Goto, patchVars, exchangeVars, Running
<1>1. TypeOK' /\ Heard(c)' /\ Others(c)
  <2>1. CASE Lookup(t, c)
    BY <2>1, WireStays DEF Lookup, RequestInv, TypeOK, Heard, Others, Before
  <2>2. CASE Scan(t, c)
    <3>1. wire' = wire /\ schema' = schema /\ UNCHANGED <<config, seen, urlFirst>>
      BY <2>2 DEF Scan, RequestInv, TypeOK
    <3>2. QED
      BY <2>2, <3>1, WireStays DEF Scan, RequestInv, TypeOK, Heard, Others, Before
  <2>3. CASE ScanRaces(t, c)
    BY <2>3, WireStays DEF ScanRaces, RequestInv, TypeOK, Heard, Others, Before
  <2>4. QED
    BY <2>1, <2>2, <2>3
<1>2. QED
  BY <1>1

\* The six ways back to the game.
LEMMA ReturnKeeps ==
  ASSUME RequestInv, NEW t \in Thread, NEW c \in Call,
         \/ NoSchemaClass(t, c) \/ Unresolved(t, c) \/ Drop(t, c)
         \/ NoEvent(t, c) \/ NoInvoke(t, c) \/ HandlerReturns(t, c)
  PROVE  TypeOK' /\ Heard(c)' /\ Others(c)
<1> USE DEF patchVars, exchangeVars, Running
<1>1. /\ Return(t, c) /\ stack[t] # <<>>
      /\ UNCHANGED <<schema, wire, fired, text, config, has, seen, urlFirst, scanned, crashed>>
      /\ UNCHANGED <<state, executed, length, reply>>
  BY DEF NoSchemaClass, Unresolved, Drop, NoEvent, NoInvoke, HandlerReturns
<1>2. stack' \in [Thread -> Seq(Call)]
  <2>1. Front(stack[t]) \in Seq(Call)
    BY <1>1, FrontOfStack DEF RequestInv, TypeOK
  <2>2. QED
    BY <1>1, <2>1 DEF RequestInv, TypeOK, Return
<1>3. TypeOK'
  BY <1>1, <1>2, WireStays DEF RequestInv, TypeOK, Return, Goto
<1>4. Others(c)
  BY <1>1 DEF Others, RequestInv, TypeOK, Return, Goto
<1>5. stage'[c] = "returned"
  BY <1>1 DEF RequestInv, TypeOK, Return, Goto
<1>6. (fired[c] = 1) = (reply[c].status /\ schema[c].event /\ "Invoke" \in has)
  <2>1. CASE Unresolved(t, c)
    BY <2>1, ResponseTypes DEF Unresolved, RequestInv, Heard, Before
  <2>2. CASE Drop(t, c)
    BY <2>2 DEF Drop, RequestInv, Heard, Before
  <2>3. CASE NoEvent(t, c)
    BY <2>3 DEF NoEvent, RequestInv, Heard, Before
  <2>4. CASE HandlerReturns(t, c)
    BY <2>4 DEF HandlerReturns, RequestInv, Heard, Before
  <2>5. CASE NoSchemaClass(t, c)
    BY <2>5, ResponseTypes DEF NoSchemaClass, RequestInv, Heard, Before
  <2>6. CASE NoInvoke(t, c)
    BY <2>6 DEF NoInvoke, RequestInv, Heard, Before
  <2>7. QED
    BY <2>1, <2>2, <2>3, <2>4, <2>5, <2>6
<1>7. Heard(c)'
  BY <1>1, <1>5, <1>6 DEF RequestInv, Heard, Before
<1>8. QED
  BY <1>3, <1>4, <1>7

LEMMA PostKeeps ==
  ASSUME RequestInv, NEW t \in Thread, NEW c \in Call, Post(t, c)
  PROVE  TypeOK' /\ Heard(c)' /\ Others(c)
<1> USE DEF Post, Submit, Goto, patchVars, exchangeVars, Running
<1>1. \A d \in Call : Posted(schema[d])' = Posted(schema[d])
  BY PostedStays
<1>2. DOMAIN wire' = Call /\ \A d \in Call : wire'[d] \in {Unsent, Posted(schema[d])}
  BY DEF RequestInv, TypeOK
<1>3. TypeOK'
  BY <1>1, <1>2 DEF RequestInv, TypeOK
<1>4. Heard(c)' /\ Others(c)
  BY DEF RequestInv, TypeOK, Heard, Others, Before
<1>5. QED
  BY <1>3, <1>4

LEMMA PostReturnsKeeps ==
  ASSUME RequestInv, NEW t \in Thread, NEW c \in Call, PostReturns(t, c)
  PROVE  TypeOK' /\ Heard(c)' /\ Others(c)
<1> USE DEF PostReturns, Goto, patchVars, Running
<1>1. PICK r \in Response : /\ reply' = [reply EXCEPT ![c] = r]
                            /\ r.status => executed[c] = 1
  <2>1. CASE Answer(c)
    <3>1. PICK s \in BOOLEAN, n \in 0 .. length[c] :
            reply' = [reply EXCEPT ![c] = [status |-> s, body |-> n, error |-> FALSE]]
      BY <2>1 DEF Answer
    <3>2. n \in 0 .. MaxChunks
      BY ExchangeAssumption DEF RequestInv, TypeOK
    <3>3. [status |-> s, body |-> n, error |-> FALSE] \in Response
      BY <3>2 DEF Response
    <3>4. QED
      BY <2>1, <3>1, <3>3 DEF Answer
  <2>2. CASE Fail(c)
    BY <2>2, ResponseTypes DEF Fail
  <2>3. QED
    BY <2>1, <2>2
<1>2. state' = [state EXCEPT ![c] = "over"] /\ UNCHANGED <<executed, length>>
  BY DEF Answer, Fail
<1>3. TypeOK'
  BY <1>1, <1>2, WireStays DEF RequestInv, TypeOK
<1>4. Heard(c)'
  BY <1>1, <1>2 DEF RequestInv, TypeOK, Heard, Before
<1>5. Others(c)
  BY <1>1, <1>2 DEF RequestInv, TypeOK, Others
<1>6. QED
  BY <1>3, <1>4, <1>5

LEMMA InvokeKeeps ==
  ASSUME RequestInv, NEW t \in Thread, NEW c \in Call, Invoke(t, c)
  PROVE  TypeOK' /\ Heard(c)' /\ Others(c)
<1> USE DEF Invoke, Goto, patchVars, exchangeVars, Running
<1>1. fired[c] = 0
  BY DEF RequestInv, Heard
<1>2. fired' \in [Call -> 0 .. 1] /\ fired'[c] = 1
  BY <1>1 DEF RequestInv, TypeOK
<1>3. TypeOK'
  BY <1>2, WireStays DEF RequestInv, TypeOK
<1>4. Heard(c)'
  BY <1>2 DEF RequestInv, TypeOK, Heard, Before
<1>5. Others(c)
  BY DEF RequestInv, TypeOK, Others
<1>6. QED
  BY <1>3, <1>4, <1>5

LEMMA ServerKeeps ==
  ASSUME RequestInv, NEW c \in Call, ServerStep(c)
  PROVE  TypeOK' /\ Heard(c)' /\ Others(c)
<1> USE DEF ServerStep, Serve, patchVars
<1>1. executed' \in [Call -> 0 .. 1] /\ length' \in [Call -> 0 .. MaxChunks]
  BY DEF RequestInv, TypeOK
<1>2. TypeOK'
  BY <1>1, WireStays DEF RequestInv, TypeOK
<1>3. Heard(c)' /\ Others(c)
  BY DEF RequestInv, TypeOK, Heard, Others
<1>4. QED
  BY <1>2, <1>3

\* What a step of c leaves alone, it leaves heard.
LEMMA OthersStayHeard ==
  ASSUME RequestInv, NEW c \in Call, Heard(c)', Others(c)
  PROVE  \A d \in Call : Heard(d)'
<1>1. ASSUME NEW d \in Call \ {c} PROVE Heard(d)'
  BY <1>1 DEF RequestInv, Heard, Others
<1>2. QED
  BY <1>1

LEMMA NextRequestInv ==
  ASSUME RequestInv, [Next]_vars
  PROVE  RequestInv'
<1>1. ASSUME NEW t \in Thread, NEW c \in Call, AddRequest(t, c) \/ StubStep(t, c)
      PROVE  RequestInv'
  <2>1. TypeOK' /\ Heard(c)' /\ Others(c)
    BY <1>1, AddRequestKeeps, SetupKeeps, ReturnKeeps, PostKeeps, PostReturnsKeeps,
       InvokeKeeps DEF StubStep
  <2>2. QED
    BY <2>1, OthersStayHeard DEF RequestInv
<1>2. ASSUME NEW c \in Call, ServerStep(c) PROVE RequestInv'
  BY <1>2, ServerKeeps, OthersStayHeard DEF RequestInv
<1>3. CASE UNCHANGED vars
  <2> USE <1>3 DEF vars, patchVars, exchangeVars
  <2>1. TypeOK'
    BY WireStays DEF RequestInv, TypeOK
  <2>2. \A c \in Call : Heard(c)'
    BY DEF RequestInv, Heard
  <2>3. QED
    BY <2>1, <2>2 DEF RequestInv
<1>4. QED
  BY <1>1, <1>2, <1>3 DEF Next

LEMMA RequestInvHolds == Spec => []RequestInv
  BY InitRequestInv, NextRequestInv, PTL DEF Spec
-----------------------------------------------------------------------------
(***************************************************************************)
(* The theorems.                                                           *)
(***************************************************************************)
\* Every variable keeps its type, and a request goes out as Posted composes it.
THEOREM RequestTypeCorrect == Spec => []TypeOK
<1>1. RequestInv => TypeOK
  BY DEF RequestInv
<1>2. QED
  BY <1>1, RequestInvHolds, PTL

\* An event is fired at most once, with an answer that the server gave to this
\* very request (request.cpp:491-531).
THEOREM EventsAlwaysReportAnswers == Spec => []EventsReportAnswers
<1>1. RequestInv => EventsReportAnswers
  <2>1. ASSUME RequestInv, NEW c \in Call
        PROVE  /\ fired[c] <= 1
               /\ fired[c] = 1 => executed[c] = 1 /\ text[c].status /\ text[c] = reply[c]
    <3>1. fired[c] \in 0 .. 1 /\ (fired[c] = 1 => stage[c] \in {"handler", "returned"})
      BY <2>1 DEF RequestInv, TypeOK, Heard, Before
    <3>2. fired[c] = 1 => reply[c].status
      BY <2>1, <3>1 DEF RequestInv, Heard
    <3>3. QED
      BY <2>1, <3>1, <3>2 DEF RequestInv, Heard
  <2>2. QED
    BY <2>1 DEF EventsReportAnswers
<1>2. QED
  BY <1>1, RequestInvHolds, PTL

\* When AddRequest has returned, the event was fired exactly if the answer has a
\* status, the schema an event and the event an Invoke (request.cpp:493-529).
THEOREM ReturnedAlwaysMeansReported == Spec => []ReturnedMeansReported
<1>1. RequestInv => ReturnedMeansReported
  BY DEF RequestInv, Heard, ReturnedMeansReported
<1>2. QED
  BY <1>1, RequestInvHolds, PTL

\* The configured token reaches sign-ins only (request.cpp:24-32).
THEOREM TokenStaysConfined == Spec => []TokenConfined
<1>1. RequestInv => TokenConfined
  <2>1. ASSUME RequestInv, NEW c \in Call, wire[c] # Unsent, wire[c].url = "url"
        PROVE  /\ wire[c].token = "ours" => schema[c].path = "signin"
               /\ schema[c].path = "signin" /\ config.token => wire[c].token # "game"
    <3>1. wire[c] = Posted(schema[c]) /\ urlFirst
      BY <2>1 DEF RequestInv, TypeOK, Posted, Swapped
    <3>2. schema[c].token \in {"absent", "empty", "game"}
      BY <2>1, SchemaAssumption DEF RequestInv, TypeOK, SchemaType
    <3>3. wire[c].token = IF should_inject_token(schema[c]) THEN inject_token(schema[c])
                          ELSE schema[c].token
      BY <3>1 DEF Posted
    <3>4. QED
      BY <3>2, <3>3 DEF should_inject_token, inject_token
  <2>2. QED
    BY <2>1 DEF TokenConfined
<1>2. QED
  BY <1>1, RequestInvHolds, PTL

\* On a path of the map, header and body carry the map's packet id
\* (request.cpp:462-482).
THEOREM PidAlwaysMatchesPath == Spec => []PidMatchesPath
<1>1. RequestInv => PidMatchesPath
  <2>1. ASSUME RequestInv, NEW c \in Call, wire[c] # Unsent, wire[c].url = "url",
               Known(schema[c])
        PROVE  /\ wire[c].header = g_packet_ids[Path(schema[c])]
               /\ wire[c].pid \in {wire[c].header, Absent}
    <3>1. wire[c] = Posted(schema[c]) /\ urlFirst
      BY <2>1 DEF RequestInv, TypeOK, Posted, Swapped
    <3>2. wire[c].header = Header(schema[c]) /\ wire[c].pid = WirePid(schema[c])
      BY <3>1 DEF Posted
    <3>3. QED
      BY <2>1, <3>2 DEF Header, WirePid
  <2>2. QED
    BY <2>1 DEF PidMatchesPath
<1>2. QED
  BY <1>1, RequestInvHolds, PTL
-----------------------------------------------------------------------------
(***************************************************************************)
(* The packet id map.  Every entry is that of some class, the last one     *)
(* with its path: the last elements exist, being those of finite sets.     *)
(***************************************************************************)
LEMMA NatLess == IsWellFoundedOn({p \in Nat \X Nat : p[1] < p[2]}, Nat)
<1>1. OpToRel(<, Nat) = {p \in Nat \X Nat : p[1] < p[2]}
  BY Zenon DEF OpToRel
<1>2. QED
  BY <1>1, NatLessThanWellFounded, Zenon

LEMMA LastOne ==
  ASSUME NEW n \in Nat, NEW T, T \subseteq 1 .. n, T # {}
  PROVE  Max(T) \in T /\ \A y \in T : Max(T) >= y
<1> DEFINE R == {p \in Nat \X Nat : p[1] < p[2]}  D == {n - x : x \in T}
<1>1. D \subseteq Nat /\ D # {}
  <2>1. \A x \in T : n - x \in Nat
    OBVIOUS
  <2>2. QED
    BY <2>1
<1>2. PICK d \in D : \A e \in D : <<e, d>> \notin R
  <2>1. IsWellFoundedOn(R, Nat)
    BY NatLess
  <2> HIDE DEF R, D
  <2>2. QED
    BY <1>1, <2>1, WFMin, Zenon
<1>3. PICK x \in T : d = n - x
  OBVIOUS
<1>4. ASSUME NEW y \in T PROVE x >= y
  <2>1. ~(n - y < n - x)
    BY <1>1, <1>2, <1>3
  <2>2. QED
    BY <2>1
<1>5. QED
  BY <1>4 DEF Max

\* The map says of a path what the last class says that goes by it.
LEMMA MapEntry ==
  ASSUME seen \in 1 .. Len(Assemblies), NEW path \in DOMAIN build_packet_id_map(seen)
  PROVE  \E c \in ClassesOf(seen) :
           /\ GoesBy(c, path) /\ build_packet_id_map(seen)[path] = PacketOfResponse(c)
           /\ \E p \in Places(c) : \A e : GoesBy(e, path) =>
                \A q \in Places(e) : q = p \/ After(p, q)
<1> DEFINE paths == {build_api_path(c) : c \in {d \in ClassesOf(seen) : Maps(d)}}
           With(q) == {i \in Loaded(seen) : Entries(i, q) # {}}
           Latest(q) == LET i == Max(With(q)) IN Assemblies[i].classes[Max(Entries(i, q))]
<1>0. seen \in Nat
  BY AssembliesAssumption
<1>1. build_packet_id_map(seen) = [q \in paths |-> PacketOfResponse(Latest(q))]
  BY DEF build_packet_id_map
<1>2. path \in paths
  BY <1>1
<1>3. PICK d \in ClassesOf(seen) : Maps(d) /\ build_api_path(d) = path
  BY <1>2
<1>4. PICK i \in Loaded(seen) : d \in Range(Assemblies[i].classes)
  BY DEF ClassesOf
<1>5. PICK j \in DOMAIN Assemblies[i].classes : Assemblies[i].classes[j] = d
  BY <1>4 DEF Range
<1>6. With(path) # {}
  BY <1>3, <1>5 DEF Entries
<1>7. With(path) \subseteq 1 .. seen
  BY DEF Loaded
<1> DEFINE m == Max(With(path))
<1>8. /\ m \in Loaded(seen) /\ Entries(m, path) # {} /\ m \in 1 .. seen
      /\ \A x \in With(path) : m >= x
  <2> HIDE DEF With
  <2>1. m \in With(path) /\ \A x \in With(path) : m >= x
    BY <1>0, <1>6, <1>7, LastOne
  <2> USE DEF With
  <2>2. QED
    BY <2>1, <1>7
<1> HIDE DEF m
<1> DEFINE k == Max(Entries(m, path))  c == Assemblies[m].classes[k]
<1>9. k \in Entries(m, path) /\ \A x \in Entries(m, path) : k >= x
  <2> DEFINE classes == Assemblies[m].classes
  <2>1. classes \in Seq(Range(classes))
    BY <1>8, AssembliesAssumption
  <2>2. Entries(m, path) \subseteq 1 .. Len(classes) /\ Len(classes) \in Nat
    BY <2>1 DEF Entries
  <2>3. QED
    BY <1>8, <2>2, LastOne
<1>10. k \in DOMAIN Assemblies[m].classes /\ GoesBy(c, path)
  BY <1>9 DEF Entries, GoesBy
<1>11. c \in ClassesOf(seen)
  BY <1>8, <1>10 DEF ClassesOf, Range
<1>12. build_packet_id_map(seen)[path] = PacketOfResponse(c)
  BY <1>1, <1>2 DEF m
<1>13. <<m, k>> \in Places(c)
  BY <1>8, <1>10 DEF Places
<1>14. ASSUME NEW e, GoesBy(e, path), NEW q \in Places(e)
       PROVE  q = <<m, k>> \/ After(<<m, k>>, q)
  <2> HIDE DEF k, c
  <2>1. PICK x \in Loaded(seen) : \E y \in DOMAIN Assemblies[x].classes :
          q = <<x, y>> /\ Assemblies[x].classes[y] = e
    BY <1>14 DEF Places
  <2>2. PICK y \in DOMAIN Assemblies[x].classes :
          q = <<x, y>> /\ Assemblies[x].classes[y] = e
    BY <2>1
  <2>3. y \in Entries(x, path)
    BY <1>14, <2>2 DEF Entries, GoesBy
  <2>4. x \in With(path) /\ x \in 1 .. seen
    BY <2>3 DEF Loaded
  <2>5. m >= x /\ m \in Int /\ x \in Int
    BY <1>0, <1>8, <2>4
  <2>6. CASE m = x
    <3>1. k >= y
      BY <1>9, <2>3, <2>6
    <3>2. y \in Int /\ k \in Int
      <4> DEFINE classes == Assemblies[m].classes
      <4>1. classes \in Seq(Range(classes))
        BY <1>8, AssembliesAssumption
      <4>2. DOMAIN classes = 1 .. Len(classes) /\ Len(classes) \in Nat
        BY <4>1
      <4>3. y \in DOMAIN classes /\ k \in DOMAIN classes
        BY <1>10, <2>2, <2>6
      <4>4. QED
        BY <4>2, <4>3
    <3>3. y = k \/ k > y
      BY <3>1, <3>2
    <3>4. QED
      BY <2>2, <2>6, <3>3 DEF After
  <2>7. CASE m # x
    <3>1. m > x
      BY <2>5, <2>7
    <3>2. QED
      BY <2>2, <3>1 DEF After
  <2>8. QED
    BY <2>6, <2>7
<1>15. \E p \in Places(c) : \A e : GoesBy(e, path) => \A q \in Places(e) : q = p \/ After(p, q)
  BY <1>13, <1>14
<1>16. QED
  BY <1>10, <1>11, <1>12, <1>15

\* No two classes have a place in common.
LEMMA PlaceOfOne ==
  ASSUME NEW c, NEW d, NEW p \in Places(c), p \in Places(d)
  PROVE  c = d
  BY DEF Places

LEMMA LoadedClasses ==
  ASSUME NEW n \in 1 .. Len(Assemblies), NEW d \in ClassesOf(n)
  PROVE  d \in Classes
<1>1. PICK i \in 1 .. n : d \in Range(Assemblies[i].classes)
  BY DEF ClassesOf, Loaded
<1>2. i \in 1 .. Len(Assemblies)
  <2>1. Len(Assemblies) \in Nat
    BY AssembliesAssumption
  <2>2. QED
    BY <2>1
<1>3. QED
  BY <1>1, <1>2 DEF Classes

LEMMA ClassFacts ==
  ASSUME NEW d \in Classes
  PROVE  /\ d.packet \in Nat /\ d.path # None
         /\ d.command /\ d.pair => PacketOfResponse(d) = d.packet \/ PacketOfResponse(d) < 0
<1>1. PICK i \in 1 .. Len(Assemblies) : d \in Range(Assemblies[i].classes)
  BY DEF Classes
<1>2. IsClass(d)
  <2> DEFINE classes == Assemblies[i].classes
  <2>1. classes \in Seq(Range(classes)) /\ \A j \in 1 .. Len(classes) : IsClass(classes[j])
    BY AssembliesAssumption
  <2>2. PICK j \in DOMAIN classes : classes[j] = d
    BY <1>1 DEF Range
  <2>3. j \in 1 .. Len(classes)
    <3> HIDE DEF classes
    <3>1. QED
      BY <2>1, <2>2
  <2>4. QED
    BY <2>1, <2>2, <2>3
<1>3. d.packet \in Nat /\ d.path # None
  BY <1>2 DEF IsClass, None
<1>4. ASSUME d.command, d.pair PROVE PacketOfResponse(d) = d.packet \/ PacketOfResponse(d) < 0
  <2>1. CASE PacketOfResponse(d) = Absent
    BY <2>1 DEF Absent
  <2>2. CASE PacketOfResponse(d) # Absent
    <3> DEFINE named == Called("get_PacketId", d.args[2])
    <3>1. ~(Len(d.args) < 2) /\ named # <<>> /\ PacketOfResponse(d) = named[1].gives
      BY <2>2 DEF PacketOfResponse
    <3>2. Len(d.args) >= 2
      BY <1>2, <3>1 DEF IsClass
    <3>3. QED
      BY <1>2, <1>4, <3>1, <3>2 DEF IsClass
  <2>3. QED
    BY <2>1, <2>2
<1>5. QED
  BY <1>3, <1>4

\* What Header says of a schema's request, by the classes that are there.
LEMMA HeaderIsThePacket ==
  ASSUME NEW s \in Schema, seen \in 1 .. Len(Assemblies)
  PROVE  LET k == ClassOf(s) IN
         /\ Header(s) \in {k.packet, Absent} \/ \E d \in ClassesOf(seen) : Overrides(d, k)
         /\ Header(s) = Absent => ~InMap(k)
<1> DEFINE k == ClassOf(s)  map == build_packet_id_map(seen)
<1>1. k \in Classes /\ Path(s) = k.path
  BY SchemaAssumption DEF ClassOf, Path
<1>2. g_packet_ids = map
  <2>1. seen \in 0 .. Len(Assemblies)
    BY AssembliesAssumption
  <2>2. QED
    BY <2>1 DEF g_packet_ids, MapAfter
<1> HIDE DEF k
<1>3. CASE k.path \in DOMAIN map
  <2>1. PICK d \in ClassesOf(seen) :
          /\ GoesBy(d, k.path) /\ map[k.path] = PacketOfResponse(d)
          /\ \E p \in Places(d) : \A e : GoesBy(e, k.path) =>
               \A q \in Places(e) : q = p \/ After(p, q)
    BY <1>3, MapEntry
  <2>2. Header(s) = PacketOfResponse(d) /\ d \in Classes
    BY <1>1, <1>2, <1>3, <2>1, LoadedClasses DEF Header, Known
  <2>3. d.command /\ d.pair /\ ~(PacketOfResponse(d) < 0)
    BY <2>1 DEF Maps, GoesBy
  <2>4. PacketOfResponse(d) = d.packet /\ d.packet \in Nat
    <3>1. d.packet \in Nat /\ (PacketOfResponse(d) = d.packet \/ PacketOfResponse(d) < 0)
      BY <2>2, <2>3, ClassFacts
    <3>2. QED
      BY <2>3, <3>1
  <2>5. Header(s) # Absent
    BY <2>2, <2>4 DEF Absent
  <2>6. CASE d.packet = k.packet
    BY <2>2, <2>4, <2>5, <2>6 DEF k
  <2>7. CASE d.packet # k.packet
    <3>1. PICK p \in Places(d) : \A e : GoesBy(e, k.path) =>
            \A q \in Places(e) : q = p \/ After(p, q)
      BY <2>1
    <3>2. ASSUME InMap(k), NEW q \in Places(k) PROVE After(p, q)
      <4>1. q = p \/ After(p, q)
        BY <3>1, <3>2 DEF InMap
      <4>2. q # p
        BY <2>7, PlaceOfOne
      <4>3. QED
        BY <4>1, <4>2
    <3>3. Overrides(d, k)
      BY <2>1, <2>7, <3>2 DEF Overrides
    <3>4. QED
      BY <2>1, <2>5, <3>3 DEF k
  <2>8. QED
    BY <2>6, <2>7
<1>4. CASE k.path \notin DOMAIN map
  <2>1. Header(s) = Absent
    BY <1>1, <1>2, <1>4 DEF Header, Known
  <2>2. ASSUME InMap(k) PROVE FALSE
    <3>1. k.path \in {build_api_path(c) : c \in {d \in ClassesOf(seen) : Maps(d)}}
      BY <2>2 DEF InMap, GoesBy
    <3>2. QED
      BY <1>4, <3>1 DEF build_packet_id_map
  <2>3. QED
    BY <2>1, <2>2 DEF k
<1>5. QED
  BY <1>3, <1>4

\* The packet id of a request is that of the answer the game waits for, unless a
\* class with another one goes by the same path and comes later, and it is there
\* when the class says its path and packet id (request.cpp:157-172, 298-360).
THEOREM PacketIsAlwaysTheAnswers == Spec => []PacketIsTheAnswers
<1>1. RequestInv => PacketIsTheAnswers
  <2>1. ASSUME RequestInv, NEW c \in Call, wire[c] # Unsent, wire[c].url = "url"
        PROVE  /\ wire[c].header = Header(schema[c])
               /\ schema[c] \in Schema /\ seen \in 1 .. Len(Assemblies)
    <3>1. wire[c] = Posted(schema[c]) /\ urlFirst
      BY <2>1 DEF RequestInv, TypeOK, Posted, Swapped
    <3>2. schema[c] \in Schema /\ seen \in 1 .. Len(Assemblies)
      BY <2>1 DEF RequestInv, TypeOK
    <3>3. QED
      BY <3>1, <3>2 DEF Posted
  <2>2. QED
    BY <2>1, HeaderIsThePacket DEF PacketIsTheAnswers
<1>2. QED
  BY <1>1, RequestInvHolds, PTL
=============================================================================
