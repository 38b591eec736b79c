------------------------------ MODULE Exchange ------------------------------
(***************************************************************************)
(* What http::post and http::get promise the patch that calls them         *)
(* (include/http.hpp): a call submits one request, the server executes it  *)
(* at most once, perhaps after the caller gave up, and the caller is told  *)
(* of an answer only when the server gave one.                             *)
(***************************************************************************)
EXTENDS Integers

CONSTANTS
  Call,       \* the calls of post and get
  MaxChunks   \* the longest answer, in reads

ASSUME ExchangeAssumption == MaxChunks \in Nat

\* http::Response: a status other than 0, the part of the body, an error.
Response == [status : BOOLEAN, body : 0 .. MaxChunks, error : BOOLEAN]
Pending == [status |-> FALSE, body |-> 0, error |-> FALSE]
Failure == [status |-> FALSE, body |-> 0, error |-> TRUE]

VARIABLES
  state,     \* "new", "waiting" or "over", for each call
  executed,  \* how often the server executed the request of the call
  length,    \* the length of the body it answered with
  reply      \* the Response of the call

exchangeVars == <<state, executed, length, reply>>

ExchangeInit ==
  /\ state = [c \in Call |-> "new"]
  /\ executed = [c \in Call |-> 0]
  /\ length = [c \in Call |-> 0]
  /\ reply = [c \in Call |-> Pending]

Submit(c) ==
  /\ state[c] = "new"
  /\ state' = [state EXCEPT ![c] = "waiting"]
  /\ UNCHANGED <<executed, length, reply>>

Serve(c) ==
  /\ state[c] # "new" /\ executed[c] = 0
  /\ executed' = [executed EXCEPT ![c] = 1]
  /\ \E n \in 0 .. MaxChunks : length' = [length EXCEPT ![c] = n]
  /\ UNCHANGED <<state, reply>>

\* The status may be missing and the body may be cut short; error is empty.
Answer(c) ==
  /\ state[c] = "waiting" /\ executed[c] = 1
  /\ state' = [state EXCEPT ![c] = "over"]
  /\ \E s \in BOOLEAN, n \in 0 .. length[c] :
       reply' = [reply EXCEPT ![c] = [status |-> s, body |-> n, error |-> FALSE]]
  /\ UNCHANGED <<executed, length>>

Fail(c) ==
  /\ state[c] = "waiting"
  /\ state' = [state EXCEPT ![c] = "over"]
  /\ reply' = [reply EXCEPT ![c] = Failure]
  /\ UNCHANGED <<executed, length>>

ExchangeNext == \E c \in Call : Submit(c) \/ Serve(c) \/ Answer(c) \/ Fail(c)

ExchangeSpec == ExchangeInit /\ [][ExchangeNext]_exchangeVars
=============================================================================
