------------------------------ MODULE Request ------------------------------
(***************************************************************************)
(* The request patch (src/patches/request.cpp).  myosotis_add_request      *)
(* replaces HttpApiRequester.AddRequest: on the game thread that calls it, *)
(* it asks the schema for its url and body, sends them to the configured   *)
(* server with the right packet id and, on a sign-in, the configured       *)
(* token, waits for the answer and fires the schema's event with it.  The  *)
(* game's handler of that event may call AddRequest again before it        *)
(* returns.  The transport is the one Exchange specifies.                  *)
(***************************************************************************)
EXTENDS Exchange, PacketMap

CONSTANTS
  Thread,      \* the game's threads
  Schema,      \* the requests the game makes, records with the fields below
  Config       \* the configurations: server, which is "empty", "url" or "other"
               \* (not a url), and token, whether one is set

\* class: the name of its class.
\* path: "signin", "guest" (SignInAsNewGuest) or "other", as its path goes.
\* pid: the number that follows "packetId": in the body, Absent if there is none.
\* token: what a token field of the body holds, if there is one.
\* url, event: whether the url is not empty, the event not null.
SchemaType == [class : STRING, path : {"signin", "guest", "other"}, pid : Nat \cup {Absent},
               token : {"absent", "empty", "game"}, url : BOOLEAN, event : BOOLEAN]
Classes == UNION {Range(Assemblies[i].classes) : i \in 1 .. Len(Assemblies)}
ClassOf(s) == CHOOSE c \in Classes : c.name = s.class

ASSUME SchemaAssumption ==
  /\ Schema \subseteq SchemaType
  /\ \A s \in Schema : \E c \in Classes : c.name = s.class
  /\ \A c, d \in Classes : c.name = d.name => c = d
  /\ Config \subseteq [server : {"empty", "url", "other"}, token : BOOLEAN]

Unsent == [url |-> "none"]

\* What each call looks for by name: the schemas' class, and an Invoke with one
\* parameter on the class of the event, which is the same for all schemas.
Looked == {"HttpApiSchema", "Invoke"}

VARIABLES
  stack,   \* the AddRequest calls that each thread is in, the innermost last
  stage,   \* where each call is: "new", "lookup", "scan", "resolve", "post",
           \* "answered", "handler" or "returned"
  schema,  \* the schema it was given
  wire,    \* what it posted: url, host, header, pid and token
  fired,   \* how often it invoked the schema's event
  text,    \* the Response whose body the event was invoked with
  config,  \* config::g, read once at startup
  has,      \* which of Looked the game has
  seen,     \* the number of assemblies that were there for build_packet_id_map
  urlFirst, \* whether the class declares the url getter before the body's
  scanned, \* whether g_schema_methods holds the getters
  crashed  \* two threads changed g_schema_methods at a time

patchVars == <<config, has, seen, urlFirst, scanned, crashed>>
vars == <<stack, stage, schema, wire, fired, text, patchVars, exchangeVars>>

Init ==
  /\ ExchangeInit
  /\ stack = [t \in Thread |-> <<>>]
  /\ stage = [c \in Call |-> "new"]
  /\ schema \in [Call -> Schema]
  /\ wire = [c \in Call |-> Unsent]
  /\ fired = [c \in Call |-> 0]
  /\ text = [c \in Call |-> Pending]
  /\ config \in Config /\ has \in SUBSET Looked
  /\ seen \in 1 .. Len(Assemblies) /\ urlFirst \in BOOLEAN
  /\ scanned = FALSE /\ crashed = FALSE

Goto(c, p) == stage' = [stage EXCEPT ![c] = p]

\* The innermost call of thread t is at stage p.
Running(t, c, p) == ~crashed /\ stack[t] # <<>> /\ c = Last(stack[t]) /\ stage[c] = p

Return(t, c) == Goto(c, "returned") /\ stack' = [stack EXCEPT ![t] = Front(@)]
-----------------------------------------------------------------------------
(***************************************************************************)
(* What is posted.                                                         *)
(***************************************************************************)
\* url_replace_host_scheme leaves the url as it is for a server without "://".
Host == IF config.server = "url" THEN "server" ELSE "game"

MapAfter == [n \in 0 .. Len(Assemblies) |-> build_packet_id_map(n)]
g_packet_ids == MapAfter[seen]

\* The path is searched in the map; without an entry map_pid is empty.
Path(s) == ClassOf(s).path
Known(s) == Path(s) \in DOMAIN g_packet_ids
Header(s) == IF Known(s) THEN g_packet_ids[Path(s)] ELSE Absent

\* The header goes out and the body keeps its number.
HeaderOnlyPid(s) == s.pid

WirePid(s) == IF s.pid # Absent /\ Known(s) THEN Header(s) ELSE s.pid

\* The exception for guests is missing.
inject_for_guests_too(s) == s.path \in {"signin", "guest"}

should_inject_token(s) == s.path = "signin"

inject_token(s) == IF config.token /\ s.token = "game" THEN "ours" ELSE s.token

\* resolve_schema_methods takes the first getter of a string for the url's.  When
\* it is the body's, the body is used as the url, and the url as the body.
Swapped == [url |-> "body", host |-> "none", header |-> Absent, pid |-> Absent,
            token |-> "absent"]

Posted(s) ==
  IF ~urlFirst THEN Swapped
  ELSE [url |-> "url", host |-> Host, header |-> Header(s), pid |-> WirePid(s),
        token |-> IF should_inject_token(s) THEN inject_token(s) ELSE s.token]
-----------------------------------------------------------------------------
(***************************************************************************)
(* AddRequest.                                                             *)
(***************************************************************************)
\* The game calls it, from the handler of an event or from elsewhere.
AddRequest(t, c) ==
  /\ stage[c] = "new" /\ ~crashed
  /\ stack[t] # <<>> => stage[Last(stack[t])] = "handler"
  /\ stack' = [stack EXCEPT ![t] = Append(@, c)]
  /\ Goto(c, "lookup")
  /\ UNCHANGED <<schema, wire, fired, text, patchVars, exchangeVars>>

\* find_class finds the schemas' class under neither of its names.
NoSchemaClass(t, c) ==
  /\ Running(t, c, "lookup") /\ "HttpApiSchema" \notin has
  /\ Return(t, c)
  /\ UNCHANGED <<schema, wire, fired, text, patchVars, exchangeVars>>

\* g_schema_methods[klass] adds the entry, which the getters are scanned for.
Lookup(t, c) ==
  /\ Running(t, c, "lookup") /\ "HttpApiSchema" \in has
  /\ Goto(c, IF scanned THEN "resolve" ELSE "scan")
  /\ UNCHANGED <<stack, schema, wire, fired, text, patchVars, exchangeVars>>

Scan(t, c) ==
  /\ Running(t, c, "scan")
  /\ scanned' = TRUE
  /\ Goto(c, "resolve")
  /\ UNCHANGED <<stack, schema, wire, fired, text, config, has, seen, urlFirst, crashed, exchangeVars>>

\* Nothing guards the map.
ScanRaces(t, c) ==
  /\ Running(t, c, "scan")
  /\ \E d \in Call \ {c} : stage[d] = "scan"
  /\ crashed' = TRUE
  /\ UNCHANGED <<stack, stage, schema, wire, fired, text, config, has, seen, urlFirst, scanned, exchangeVars>>

\* The url or the body is empty: nothing is sent, no event is fired.
Unresolved(t, c) ==
  /\ Running(t, c, "resolve") /\ ~schema[c].url
  /\ Return(t, c)
  /\ UNCHANGED <<schema, wire, fired, text, patchVars, exchangeVars>>

Post(t, c) ==
  /\ Running(t, c, "resolve") /\ schema[c].url
  /\ wire' = [wire EXCEPT ![c] = Posted(schema[c])]
  /\ Submit(c)
  /\ Goto(c, "post")
  /\ UNCHANGED <<stack, schema, fired, text, patchVars>>

\* http::post returns; a url without "://" is refused before it is sent.
PostReturns(t, c) ==
  /\ Running(t, c, "post")
  /\ Answer(c) \/ Fail(c)
  /\ Goto(c, "answered")
  /\ UNCHANGED <<stack, schema, wire, fired, text, patchVars>>

\* The request is put back to be posted again.
TryAgain(t, c) ==
  /\ Running(t, c, "answered") /\ ~reply[c].status
  /\ Goto(c, "resolve")
  /\ UNCHANGED <<stack, schema, wire, fired, text, patchVars, exchangeVars>>

\* Status 0: the error is logged and the schema's event is never fired.
Drop(t, c) ==
  /\ Running(t, c, "answered") /\ ~reply[c].status
  /\ Return(t, c)
  /\ UNCHANGED <<schema, wire, fired, text, patchVars, exchangeVars>>

NoEvent(t, c) ==
  /\ Running(t, c, "answered") /\ reply[c].status /\ ~schema[c].event
  /\ Return(t, c)
  /\ UNCHANGED <<schema, wire, fired, text, patchVars, exchangeVars>>

\* The event's class has no Invoke to call: the answer is dropped.
NoInvoke(t, c) ==
  /\ Running(t, c, "answered") /\ reply[c].status /\ schema[c].event
  /\ "Invoke" \notin has
  /\ Return(t, c)
  /\ UNCHANGED <<schema, wire, fired, text, patchVars, exchangeVars>>

\* The test of the status is missing.
InvokeAlways(t, c) ==
  /\ Running(t, c, "answered") /\ schema[c].event /\ "Invoke" \in has
  /\ fired' = [fired EXCEPT ![c] = @ + 1]
  /\ text' = [text EXCEPT ![c] = reply[c]]
  /\ Goto(c, "handler")
  /\ UNCHANGED <<stack, schema, wire, patchVars, exchangeVars>>

\* The call loops over the schema's handlers itself.
InvokeAndStay(t, c) ==
  /\ Running(t, c, "answered") /\ reply[c].status /\ schema[c].event
  /\ "Invoke" \in has
  /\ fired' = [fired EXCEPT ![c] = @ + 1]
  /\ text' = [text EXCEPT ![c] = reply[c]]
  /\ UNCHANGED <<stack, stage, schema, wire, patchVars, exchangeVars>>

\* _responseEvent.Invoke(text): the game's handler runs inside the call.
Invoke(t, c) ==
  /\ Running(t, c, "answered") /\ reply[c].status /\ schema[c].event
  /\ "Invoke" \in has
  /\ fired' = [fired EXCEPT ![c] = @ + 1]
  /\ text' = [text EXCEPT ![c] = reply[c]]
  /\ Goto(c, "handler")
  /\ UNCHANGED <<stack, schema, wire, patchVars, exchangeVars>>

\* An exception of the handler is logged and nothing else.
HandlerReturns(t, c) ==
  /\ Running(t, c, "handler")
  /\ Return(t, c)
  /\ UNCHANGED <<schema, wire, fired, text, patchVars, exchangeVars>>

\* The server executes a request that was sent; external.
ServerStep(c) ==
  /\ wire[c].url = "url" /\ Serve(c)
  /\ UNCHANGED <<stack, stage, schema, wire, fired, text, patchVars>>

StubStep(t, c) ==
  \/ NoSchemaClass(t, c) \/ Lookup(t, c) \/ Scan(t, c) \/ ScanRaces(t, c)
  \/ Unresolved(t, c) \/ Post(t, c) \/ PostReturns(t, c) \/ Drop(t, c)
  \/ NoEvent(t, c) \/ NoInvoke(t, c) \/ Invoke(t, c) \/ HandlerReturns(t, c)

Next ==
  \/ \E t \in Thread, c \in Call : AddRequest(t, c) \/ StubStep(t, c)
  \/ \E c \in Call : ServerStep(c)

Spec == Init /\ [][Next]_vars

\* post returns (CallsReturn of Transport), and so do the game's handlers.
FairSpec == Spec /\ \A t \in Thread : WF_vars(\E c \in Call : StubStep(t, c))
-----------------------------------------------------------------------------
(***************************************************************************)
(* Properties.                                                             *)
(***************************************************************************)
\* The type of every variable.
TypeOK ==
  /\ stack \in [Thread -> Seq(Call)]
  /\ stage \in [Call -> {"new", "lookup", "scan", "resolve", "post", "answered",
                      "handler", "returned"}]
  /\ schema \in [Call -> Schema]
  /\ DOMAIN wire = Call /\ \A c \in Call : wire[c] \in {Unsent, Posted(schema[c])}
  /\ fired \in [Call -> 0 .. 1]
  /\ text \in [Call -> Response]
  /\ config \in Config /\ has \subseteq Looked /\ seen \in 1 .. Len(Assemblies)
  /\ urlFirst \in BOOLEAN /\ scanned \in BOOLEAN /\ crashed \in BOOLEAN
  /\ state \in [Call -> {"new", "waiting", "over"}]
  /\ executed \in [Call -> 0 .. 1] /\ length \in [Call -> 0 .. MaxChunks]
  /\ reply \in [Call -> Response]

\* The game hears of an answer once, and only of one that its server gave to
\* this very request, however the calls of its threads and handlers nest
\* (request.cpp:491-531).
EventsReportAnswers ==
  \A c \in Call :
    /\ fired[c] <= 1
    /\ fired[c] = 1 => executed[c] = 1 /\ text[c].status /\ text[c] = reply[c]

\* A call the server never executed, or whose answer has no status, leaves no
\* trace in the game; every other one is reported before AddRequest returns, if
\* its schema has an event and the event's class the Invoke that is looked for.
\* Without it every answer is dropped (request.cpp:492-531).
ReturnedMeansReported ==
  \A c \in Call :
    stage[c] = "returned" =>
      (fired[c] = 1) = (reply[c].status /\ schema[c].event /\ "Invoke" \in has)

\* The configured token goes out on sign-ins other than a guest's and nowhere
\* else, and there the token of the game does not (request.cpp:24-32).
TokenConfined ==
  \A c \in Call : wire[c] # Unsent /\ wire[c].url = "url" =>
    /\ wire[c].token = "ours" => schema[c].path = "signin"
    /\ schema[c].path = "signin" /\ config.token => wire[c].token # "game"

\* "so the server receives the correct one" (request.cpp:466-467): on a path of
\* the map, the header and the body's packet id are both the map's. The body is
\* that of the request, though request.hpp:12 says the "packetId in the response"
\* is rewritten: the response is passed on as it comes (request.cpp:528).
PidMatchesPath ==
  \A c \in Call : wire[c] # Unsent /\ wire[c].url = "url" /\ Known(schema[c]) =>
    /\ wire[c].header = g_packet_ids[Path(schema[c])]
    /\ wire[c].pid \in {wire[c].header, Absent}

\* A class goes by a path when the map's entry for it may be the class's.
GoesBy(c, path) == Maps(c) /\ build_api_path(c) = path
Places(c) ==
  LET In(i) == {j \in DOMAIN Assemblies[i].classes : Assemblies[i].classes[j] = c}
  IN UNION {{i} \X In(i) : i \in Loaded(seen)}
After(p, q) == p[1] > q[1] \/ (p[1] = q[1] /\ p[2] > q[2])
InMap(k) == k \in ClassesOf(seen) /\ GoesBy(k, k.path)
Overrides(d, k) ==
  /\ d.packet # k.packet /\ GoesBy(d, k.path)
  /\ \E p \in Places(d) : InMap(k) => \A q \in Places(k) : After(p, q)

\* ... and the map's is that of the answer that the game waits for: it is there
\* if the class was there for install_request and says its path and packet id,
\* and nothing but a class with another packet id that goes by the same path can
\* replace it, one that the game lists after it (request.cpp:157-172, 360).
PacketIsTheAnswers ==
  \A c \in Call : wire[c] # Unsent /\ wire[c].url = "url" =>
    LET k == ClassOf(schema[c]) IN
    /\ wire[c].header \in {k.packet, Absent} \/ \E d \in ClassesOf(seen) : Overrides(d, k)
    /\ wire[c].header = Absent => ~InMap(k)

\* AddRequest returns to the game, with every call its handler nests, unless two
\* threads made their first calls at once (request.hpp:15).
AddRequestReturns ==
  \A c \in Call : stage[c] # "new" ~> stage[c] = "returned" \/ crashed
=============================================================================
