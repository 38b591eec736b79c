----------------------------- MODULE Transport -----------------------------
(***************************************************************************)
(* do_request (src/http.cpp:73-132): one synchronous WinHTTP exchange, its *)
(* three handles, and every way in which it ends early.  A call is made    *)
(* once, by whichever game thread; calls share nothing.                    *)
(***************************************************************************)
EXTENDS Integers

CONSTANTS
  Call,       \* the calls of post and get
  MaxChunks   \* the longest answer, in reads of the body loop

ASSUME ChunksAssumption == MaxChunks \in Nat

Handle == {"session", "conn", "req"}

\* A handle is opened from the one before it.
Below == [session |-> {}, conn |-> {"session"}, req |-> {"session", "conn"}]

VARIABLES
  pc,        \* where each call is in do_request
  handles,   \* the handles that it holds open
  sent,      \* how often its request was handed to the network
  executed,  \* how often the server executed it
  length,    \* the length of the body the server answered with
  status,    \* r.status is not 0
  body,      \* the part of r.body read so far
  error      \* r.error is not empty

vars == <<pc, handles, sent, executed, length, status, body, error>>

Init ==
  /\ pc = [c \in Call |-> "start"]
  /\ handles = [c \in Call |-> {}]
  /\ sent = [c \in Call |-> 0] /\ executed = [c \in Call |-> 0]
  /\ length = [c \in Call |-> 0]
  /\ status = [c \in Call |-> FALSE] /\ body = [c \in Call |-> 0]
  /\ error = [c \in Call |-> FALSE]

At(c, p) == pc[c] = p
Goto(c, p) == pc' = [pc EXCEPT ![c] = p]

\* r.error is set and the function returns, through ~WinHttpScope.
GiveUp(c) == Goto(c, "close") /\ error' = [error EXCEPT ![c] = TRUE]

\* The function returns without setting r.error.
Leave(c) == Goto(c, "close") /\ UNCHANGED error
-----------------------------------------------------------------------------
ParseUrl(c) ==
  /\ At(c, "start")
  /\ \/ Goto(c, "session") /\ UNCHANGED error
     \/ GiveUp(c)
  /\ UNCHANGED <<handles, sent, executed, length, status, body>>

After == [session |-> "conn", conn |-> "req", req |-> "send"]

\* WinHttpOpen, WinHttpConnect, WinHttpOpenRequest.
OpenHandle(c) ==
  /\ pc[c] \in Handle
  /\ \/ /\ handles' = [handles EXCEPT ![c] = @ \cup {pc[c]}]
        /\ Goto(c, After[pc[c]]) /\ UNCHANGED error
     \/ GiveUp(c) /\ UNCHANGED handles
  /\ UNCHANGED <<sent, executed, length, status, body>>

\* A loop that sends again what WinHTTP says it could not send.
SendAgain(c) ==
  /\ At(c, "send")
  /\ sent' = [sent EXCEPT ![c] = @ + 1]
  /\ Goto(c, "receive") \/ Goto(c, "send")
  /\ UNCHANGED <<handles, executed, length, status, body, error>>

\* WinHttpSendRequest may fail after the request has left.
Send(c) ==
  /\ At(c, "send")
  /\ \/ Goto(c, "receive") /\ UNCHANGED error /\ sent' = [sent EXCEPT ![c] = @ + 1]
     \/ GiveUp(c) /\ sent' \in {sent, [sent EXCEPT ![c] = @ + 1]}
  /\ UNCHANGED <<handles, executed, length, status, body>>

\* WinHttpReceiveResponse with a receive timeout of its own choosing: none.
ReceiveUntimed(c) ==
  /\ At(c, "receive") /\ executed[c] > 0 /\ Goto(c, "status")
  /\ UNCHANGED <<handles, sent, executed, length, status, body, error>>

\* It fails when the connection breaks or WinHTTP's time limit passes, and the
\* server may have executed the request all the same, or may do so later.
Receive(c) ==
  /\ At(c, "receive")
  /\ \/ executed[c] > 0 /\ Goto(c, "status") /\ UNCHANGED error
     \/ GiveUp(c)
  /\ UNCHANGED <<handles, sent, executed, length, status, body>>

\* The result of WinHttpQueryHeaders is not checked: the status stays 0.
QueryStatus(c) ==
  /\ At(c, "status")
  /\ status' \in {status, [status EXCEPT ![c] = TRUE]}
  /\ Goto(c, "body")
  /\ UNCHANGED <<handles, sent, executed, length, body, error>>

ReadUnchecked(c) ==
  /\ At(c, "body")
  /\ body' = [body EXCEPT ![c] = @ + 1]
  /\ UNCHANGED <<pc, handles, sent, executed, length, status, error>>

ReadChunk(c) ==
  /\ At(c, "body") /\ body[c] < length[c]
  /\ body' = [body EXCEPT ![c] = @ + 1]
  /\ UNCHANGED <<pc, handles, sent, executed, length, status, error>>

\* avail is 0, or WinHttpQueryDataAvailable or WinHttpReadData failed: the
\* loop ends the same way, with what it has.
EndBody(c) ==
  /\ At(c, "body") /\ Leave(c)
  /\ UNCHANGED <<handles, sent, executed, length, status, body>>

\* ~WinHttpScope with its lines in the order of the members.
CloseOldest(c) ==
  /\ At(c, "close") /\ handles[c] # {}
  /\ \E h \in handles[c] :
       /\ Below[h] \cap handles[c] = {}
       /\ handles' = [handles EXCEPT ![c] = @ \ {h}]
  /\ UNCHANGED <<pc, sent, executed, length, status, body, error>>

\* ~WinHttpScope closes the handles, the latest first.
CloseLatest(c) ==
  /\ At(c, "close") /\ handles[c] # {}
  /\ \E h \in handles[c] :
       /\ \A g \in handles[c] : h \notin Below[g]
       /\ handles' = [handles EXCEPT ![c] = @ \ {h}]
  /\ UNCHANGED <<pc, sent, executed, length, status, body, error>>

Return(c) ==
  /\ At(c, "close") /\ handles[c] = {} /\ Goto(c, "returned")
  /\ UNCHANGED <<handles, sent, executed, length, status, body, error>>
-----------------------------------------------------------------------------
\* The server executes a request that reached it; external.
Serve(c) ==
  /\ executed[c] < sent[c]
  /\ executed' = [executed EXCEPT ![c] = @ + 1]
  /\ \E n \in 0 .. MaxChunks : length' = [length EXCEPT ![c] = n]
  /\ UNCHANGED <<pc, handles, sent, status, body, error>>

DoRequest(c) ==
  \/ ParseUrl(c) \/ OpenHandle(c) \/ Send(c) \/ Receive(c) \/ QueryStatus(c)
  \/ ReadChunk(c) \/ EndBody(c) \/ CloseLatest(c) \/ Return(c)

Next == \E c \in Call : DoRequest(c) \/ Serve(c)

Spec == Init /\ [][Next]_vars

\* Every WinHTTP function returns: each has a time limit (no
\* WinHttpSetTimeouts, so WinHTTP's own).  The server owes nothing.
FairSpec == Spec /\ \A c \in Call : WF_vars(DoRequest(c))
-----------------------------------------------------------------------------
(***************************************************************************)
(* Properties.                                                             *)
(***************************************************************************)
\* The type of every variable.
TypeOK ==
  /\ pc \in [Call -> Handle \cup {"start", "send", "receive", "status", "body",
                                  "close", "returned"}]
  /\ handles \in [Call -> SUBSET Handle]
  /\ sent \in [Call -> 0 .. 1] /\ executed \in [Call -> 0 .. 1]
  /\ length \in [Call -> 0 .. MaxChunks] /\ body \in [Call -> 0 .. MaxChunks]
  /\ status \in [Call -> BOOLEAN] /\ error \in [Call -> BOOLEAN]

\* "Releases in reverse order on scope exit" (http.cpp:60-61): a handle is
\* open only while those it was opened from are, and a call that returned,
\* wherever it returned, holds none.
HandlesNested ==
  \A c \in Call :
    /\ \A h \in handles[c] : Below[h] \subseteq handles[c]
    /\ At(c, "returned") => handles[c] = {}

\* do_request keeps the promise of Exchange: the server executes a request at
\* most once, an error means that there is no answer, and an answer means that
\* the server gave it.
Progress(c) == IF At(c, "start") THEN "new"
               ELSE IF At(c, "returned") THEN "over" ELSE "waiting"
Reply(c) == IF At(c, "returned")
            THEN [status |-> status[c], body |-> body[c], error |-> error[c]]
            ELSE [status |-> FALSE, body |-> 0, error |-> FALSE]

Promise == INSTANCE Exchange WITH
  state <- [c \in Call |-> Progress(c)],
  reply <- [c \in Call |-> Reply(c)]

ImplementsExchange == Promise!ExchangeSpec

\* A call returns to the game thread it blocks, whatever the server does
\* (http.hpp:2, "blocks the calling (game) thread").
CallsReturn == \A c \in Call : <>At(c, "returned")

\* "HTTP status code; 0 on transport failure" (http.hpp:12): a status other
\* than 0 comes with the whole body.
StatusMeansWholeBody ==
  \A c \in Call : At(c, "returned") /\ status[c] => body[c] = length[c]
=============================================================================
