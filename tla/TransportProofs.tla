-------------------------- MODULE TransportProofs --------------------------
(***************************************************************************)
(* Proofs about Transport, for every set of calls and every length of the  *)
(* answers.                                                                *)
(***************************************************************************)
EXTENDS Transport, TLAPS

Stage == Handle \cup {"start", "send", "receive", "status", "body", "close", "returned"}

\* What a call has done by each stage: the request is sent once because "send"
\* is passed once, and the answer is read only after the server gave it.
Served(c) ==
  /\ executed[c] <= sent[c]
  /\ pc[c] \in Handle \cup {"start", "send"} => sent[c] = 0
  /\ pc[c] \in {"status", "body"} => executed[c] = 1

\* A Response is either an error alone, or what an answer of the server gave.
Told(c) ==
  /\ body[c] <= length[c]
  /\ pc[c] \notin {"body", "close", "returned"} => ~status[c] /\ body[c] = 0
  /\ error[c] => pc[c] \in {"close", "returned"} /\ ~status[c] /\ body[c] = 0
  /\ pc[c] \in {"close", "returned"} /\ ~error[c] => executed[c] = 1

TypeInv == TypeOK /\ \A c \in Call : Served(c) /\ Told(c)

\* A step of one call leaves the others as they are.
Others(c) ==
  \A d \in Call \ {c} :
    /\ pc'[d] = pc[d] /\ handles'[d] = handles[d] /\ sent'[d] = sent[d]
    /\ executed'[d] = executed[d] /\ length'[d] = length[d]
    /\ status'[d] = status[d] /\ body'[d] = body[d] /\ error'[d] = error[d]

LEMMA StepsAreLocal ==
  ASSUME TypeOK, NEW c \in Call, DoRequest(c) \/ Serve(c)
  PROVE  Others(c)
<1> USE DEF TypeOK, Others, Goto, GiveUp, Leave
<1>1. CASE ParseUrl(c)
  BY <1>1 DEF ParseUrl
<1>2. CASE OpenHandle(c)
  BY <1>2 DEF OpenHandle
<1>3. CASE Send(c)
  BY <1>3 DEF Send
<1>4. CASE Receive(c)
  BY <1>4 DEF Receive
<1>5. CASE QueryStatus(c)
  BY <1>5 DEF QueryStatus
<1>6. CASE ReadChunk(c)
  BY <1>6 DEF ReadChunk
<1>7. CASE EndBody(c)
  BY <1>7 DEF EndBody
<1>8. CASE CloseLatest(c)
  BY <1>8 DEF CloseLatest
<1>9. CASE Return(c)
  BY <1>9 DEF Return
<1>10. CASE Serve(c)
  BY <1>10 DEF Serve
<1>11. QED
  BY <1>1, <1>2, <1>3, <1>4, <1>5, <1>6, <1>7, <1>8, <1>9, <1>10 DEF DoRequest
-----------------------------------------------------------------------------
(***************************************************************************)
(* Types, and what the type of sent and executed rests on.                 *)
(***************************************************************************)
LEMMA InitTypeInv == Init => TypeInv
  BY ChunksAssumption DEF Init, TypeInv, TypeOK, Served, Told, Handle

LEMMA StepTypeInv ==
  ASSUME TypeInv, NEW c \in Call, DoRequest(c) \/ Serve(c)
  PROVE  TypeOK' /\ Served(c)' /\ Told(c)'
<1> USE ChunksAssumption DEF TypeInv, TypeOK, Served, Told, Goto, GiveUp, Leave, At, Handle
<1>1. CASE ParseUrl(c)
  BY <1>1 DEF ParseUrl
<1>2. CASE OpenHandle(c)
  <2>1. CASE GiveUp(c) /\ UNCHANGED handles
    BY <1>2, <2>1 DEF OpenHandle
  <2>2. CASE /\ handles' = [handles EXCEPT ![c] = @ \cup {pc[c]}]
             /\ Goto(c, After[pc[c]]) /\ UNCHANGED error
    <3>1. After[pc[c]] \in {"conn", "req", "send"}
      BY <1>2 DEF OpenHandle, After
    <3>2. QED
      BY <1>2, <2>2, <3>1 DEF OpenHandle
  <2>3. QED
    BY <1>2, <2>1, <2>2 DEF OpenHandle
<1>3. CASE Send(c)
  <2>1. sent' \in [Call -> 0 .. 1]
    BY <1>3 DEF Send
  <2>2. TypeOK'
    BY <1>3, <2>1 DEF Send
  <2>3. Served(c)'
    <3>1. pc'[c] \in {"receive", "close"} /\ sent[c] = 0 /\ sent'[c] \in 0 .. 1
      BY <1>3, <2>1 DEF Send
    <3>2. executed[c] = 0 /\ executed' = executed
      BY <1>3, <3>1 DEF Send
    <3>3. QED
      BY <3>1, <3>2
  <2>4. Told(c)'
    BY <1>3 DEF Send
  <2>5. QED
    BY <2>2, <2>3, <2>4
<1>4. CASE Receive(c)
  <2>1. TypeOK'
    BY <1>4 DEF Receive
  <2>2. Served(c)'
    BY <1>4 DEF Receive
  <2>3. Told(c)'
    BY <1>4 DEF Receive
  <2>4. QED
    BY <2>1, <2>2, <2>3
<1>5. CASE QueryStatus(c)
  BY <1>5 DEF QueryStatus
<1>6. CASE ReadChunk(c)
  BY <1>6 DEF ReadChunk
<1>7. CASE EndBody(c)
  BY <1>7 DEF EndBody
<1>8. CASE CloseLatest(c)
  BY <1>8 DEF CloseLatest
<1>9. CASE Return(c)
  BY <1>9 DEF Return
<1>10. CASE Serve(c)
  BY <1>10 DEF Serve
<1>11. QED
  BY <1>1, <1>2, <1>3, <1>4, <1>5, <1>6, <1>7, <1>8, <1>9, <1>10 DEF DoRequest

LEMMA NextTypeInv == TypeInv /\ [Next]_vars => TypeInv'
<1> SUFFICES ASSUME TypeInv, [Next]_vars PROVE TypeInv'
  OBVIOUS
<1>1. ASSUME NEW c \in Call, DoRequest(c) \/ Serve(c) PROVE TypeInv'
  <2>1. TypeOK' /\ Served(c)' /\ Told(c)'
    BY <1>1, StepTypeInv
  <2>2. ASSUME NEW d \in Call \ {c} PROVE Served(d)' /\ Told(d)'
    BY <1>1, StepsAreLocal DEF Others, TypeInv, Served, Told
  <2>3. QED
    BY <2>1, <2>2 DEF TypeInv
<1>2. CASE UNCHANGED vars
  BY <1>2 DEF vars, TypeInv, TypeOK, Served, Told
<1>3. QED
  BY <1>1, <1>2 DEF Next

LEMMA TypeInvariant == Spec => []TypeInv
  BY InitTypeInv, NextTypeInv, PTL DEF Spec

\* The counts of sendings and executions never pass 1, nor does the body read
\* pass the longest answer: do_request has no retry (http.cpp:104-131).
THEOREM TransportTypeCorrect == Spec => []TypeOK
  BY TypeInvariant, PTL DEF TypeInv
-----------------------------------------------------------------------------
(***************************************************************************)
(* Handles.                                                                *)
(***************************************************************************)
Nested(H) == H \in SUBSET Handle /\ \A h \in H : Below[h] \subseteq H

\* What a call holds by each stage.
Held(c) ==
  /\ pc[c] \in {"start", "session", "returned"} => handles[c] = {}
  /\ pc[c] \in Handle => handles[c] = Below[pc[c]]
  /\ pc[c] \in {"send", "receive", "status", "body"} => handles[c] = Handle
  /\ Nested(handles[c])

HandlesInv == \A c \in Call : Held(c)

LEMMA StepHeld ==
  ASSUME TypeInv, HandlesInv, NEW c \in Call, DoRequest(c) \/ Serve(c)
  PROVE  Held(c)'
<1> USE DEF TypeInv, TypeOK, HandlesInv, Held, Goto, GiveUp, Leave, At
<1>1. CASE ParseUrl(c)
  BY SMTT(30), <1>1 DEF ParseUrl, Handle, Nested, Below
<1>2. CASE OpenHandle(c)
  <2>1. CASE GiveUp(c) /\ UNCHANGED handles
    BY <1>2, <2>1 DEF OpenHandle, Handle
  <2>2. CASE handles' = [handles EXCEPT ![c] = @ \cup {pc[c]}] /\ pc' = [pc EXCEPT ![c] = After[pc[c]]]
    <3>1. CASE pc[c] = "session"
      BY <1>2, <2>2, <3>1 DEF OpenHandle, Handle, After, Below, Nested
    <3>2. CASE pc[c] = "conn"
      BY <1>2, <2>2, <3>2 DEF OpenHandle, Handle, After, Below, Nested
    <3>3. CASE pc[c] = "req"
      BY <1>2, <2>2, <3>3 DEF OpenHandle, Handle, After, Below, Nested
    <3>4. QED
      BY <1>2, <3>1, <3>2, <3>3 DEF OpenHandle, Handle
  <2>3. QED
    BY <1>2, <2>1, <2>2 DEF OpenHandle
<1>3. CASE Send(c)
  BY <1>3 DEF Send, Handle
<1>4. CASE Receive(c)
  BY <1>4 DEF Receive, Handle
<1>5. CASE QueryStatus(c)
  BY <1>5 DEF QueryStatus, Handle
<1>6. CASE ReadChunk(c)
  BY <1>6 DEF ReadChunk
<1>7. CASE EndBody(c)
  BY <1>7 DEF EndBody, Handle
<1>8. CASE CloseLatest(c)
  <2>1. PICK h \in handles[c] :
          /\ \A g \in handles[c] : h \notin Below[g]
          /\ handles' = [handles EXCEPT ![c] = @ \ {h}]
    BY <1>8 DEF CloseLatest
  <2>2. Nested(handles[c] \ {h})
    BY <2>1 DEF Nested
  <2>3. pc'[c] = "close"
    BY <1>8 DEF CloseLatest
  <2>4. QED
    BY <2>1, <2>2, <2>3 DEF Handle
<1>9. CASE Return(c)
  BY <1>9 DEF Return, Handle
<1>10. CASE Serve(c)
  BY <1>10 DEF Serve
<1>11. QED
  BY <1>1, <1>2, <1>3, <1>4, <1>5, <1>6, <1>7, <1>8, <1>9, <1>10 DEF DoRequest

LEMMA HandlesInvariant == Spec => []HandlesInv
<1>1. Init => HandlesInv
  BY DEF Init, HandlesInv, Held, Nested, Handle
<1>2. TypeInv /\ HandlesInv /\ [Next]_vars => HandlesInv'
  <2> SUFFICES ASSUME TypeInv, HandlesInv, [Next]_vars PROVE HandlesInv'
    OBVIOUS
  <2>1. ASSUME NEW c \in Call, DoRequest(c) \/ Serve(c) PROVE HandlesInv'
    <3>1. Held(c)'
      BY <2>1, StepHeld
    <3>2. ASSUME NEW d \in Call \ {c} PROVE Held(d)'
      BY <2>1, StepsAreLocal DEF Others, TypeInv, HandlesInv, Held
    <3>3. QED
      BY <3>1, <3>2 DEF HandlesInv
  <2>2. CASE UNCHANGED vars
    BY <2>2 DEF vars, HandlesInv, Held
  <2>3. QED
    BY <2>1, <2>2 DEF Next
<1>3. QED
  BY <1>1, <1>2, TypeInvariant, PTL DEF Spec

\* A handle is open only while those it was opened from are, and a call that
\* returned holds none (http.cpp:60-71).
THEOREM HandlesStayNested == Spec => []HandlesNested
<1>1. HandlesInv => HandlesNested
  BY DEF HandlesInv, Held, Nested, HandlesNested, At
<1>2. QED
  BY <1>1, HandlesInvariant, PTL
-----------------------------------------------------------------------------
(***************************************************************************)
(* do_request implements Exchange.                                         *)
(***************************************************************************)
LEMMA RefinementInit == Init => Promise!ExchangeInit
  BY DEF Init, Promise!ExchangeInit, Promise!Pending, Progress, Reply, At

\* A step that moves no call to or from an end of do_request is not seen.
Unseen(c) == (pc[c] = "start") = (pc'[c] = "start") /\ pc[c] # "returned" /\ pc'[c] # "returned"

LEMMA UnseenSteps ==
  ASSUME TypeOK, NEW c \in Call, DoRequest(c), Unseen(c), UNCHANGED <<executed, length>>
  PROVE  UNCHANGED Promise!exchangeVars
<1>1. ASSUME NEW d \in Call PROVE Progress(d)' = Progress(d) /\ Reply(d)' = Reply(d)
  <2>1. CASE d = c
    BY <2>1 DEF Unseen, Progress, Reply, At
  <2>2. CASE d # c
    BY <2>2, StepsAreLocal DEF Others, Progress, Reply, At
  <2>3. QED
    BY <2>1, <2>2
<1>2. QED
  BY <1>1 DEF Promise!exchangeVars

LEMMA ParseUrlSubmits ==
  ASSUME TypeOK, NEW c \in Call, ParseUrl(c)
  PROVE  Promise!Submit(c)
<1>1. Progress(c) = "new" /\ Progress(c)' = "waiting" /\ Reply(c)' = Reply(c)
  BY DEF ParseUrl, GiveUp, Goto, TypeOK, Progress, Reply, At
<1>2. \A d \in Call \ {c} : Progress(d)' = Progress(d) /\ Reply(d)' = Reply(d)
  BY StepsAreLocal DEF DoRequest, Others, Progress, Reply, At
<1>3. UNCHANGED <<executed, length>>
  BY DEF ParseUrl
<1>4. QED
  BY <1>1, <1>2, <1>3 DEF Promise!Submit

LEMMA ReturnAnswers ==
  ASSUME TypeInv, NEW c \in Call, Return(c)
  PROVE  Promise!Answer(c) \/ Promise!Fail(c)
<1>1. Progress(c) = "waiting" /\ Progress(c)' = "over"
  BY DEF Return, Goto, TypeInv, TypeOK, Progress, At
<1>2. \A d \in Call \ {c} : Progress(d)' = Progress(d) /\ Reply(d)' = Reply(d)
  BY StepsAreLocal DEF DoRequest, Others, Progress, Reply, At, TypeInv
<1>3. UNCHANGED <<executed, length>>
  BY DEF Return
<1>4. Reply(c)' = [status |-> status[c], body |-> body[c], error |-> error[c]]
  BY DEF Return, Goto, TypeInv, TypeOK, Reply, At
<1>5. CASE error[c]
  <2>1. Reply(c)' = Promise!Failure
    BY <1>4, <1>5 DEF TypeInv, TypeOK, Told, Promise!Failure
  <2>2. Promise!Fail(c)
    BY <1>1, <1>2, <1>3, <2>1 DEF Promise!Fail
  <2>3. QED
    BY <2>2
<1>6. CASE ~error[c]
  <2>1. executed[c] = 1 /\ body[c] \in 0 .. length[c] /\ status[c] \in BOOLEAN /\ error[c] = FALSE
    BY <1>6, ChunksAssumption DEF TypeInv, TypeOK, Told, Return, At
  <2>2. Promise!Answer(c)
    BY <1>1, <1>2, <1>3, <1>4, <2>1 DEF Promise!Answer
  <2>3. QED
    BY <2>2
<1>7. QED
  BY <1>5, <1>6

LEMMA ServeServes ==
  ASSUME TypeInv, NEW c \in Call, Serve(c)
  PROVE  Promise!Serve(c)
<1>1. executed[c] = 0 /\ executed' = [executed EXCEPT ![c] = 1]
  <2>1. executed[c] < sent[c] /\ executed' = [executed EXCEPT ![c] = executed[c] + 1]
    BY DEF Serve
  <2>2. executed[c] \in 0 .. 1 /\ sent[c] \in 0 .. 1
    BY DEF TypeInv, TypeOK
  <2>3. executed[c] = 0 /\ executed[c] + 1 = 1
    BY <2>1, <2>2
  <2>4. QED
    BY <2>1, <2>3
<1>2. Progress(c) # "new"
  BY DEF Serve, TypeInv, TypeOK, Served, Progress, At
<1>3. \A d \in Call : Progress(d)' = Progress(d) /\ Reply(d)' = Reply(d)
  BY DEF Serve, Progress, Reply, At
<1>4. QED
  BY <1>1, <1>2, <1>3 DEF Serve, Promise!Serve

LEMMA RefinementStep ==
  ASSUME TypeInv, [Next]_vars
  PROVE  [Promise!ExchangeNext]_(Promise!exchangeVars)
<1> USE DEF Promise!ExchangeNext
<1>1. ASSUME NEW c \in Call, DoRequest(c)
      PROVE  [Promise!ExchangeNext]_(Promise!exchangeVars)
  <2> USE DEF TypeInv, TypeOK, Unseen, Goto, GiveUp, Leave, At, Handle
  <2>1. CASE ParseUrl(c)
    BY <1>1, <2>1, ParseUrlSubmits
  <2>2. CASE Return(c)
    BY <1>1, <2>2, ReturnAnswers
  <2>3. CASE OpenHandle(c)
    <3>1. Unseen(c) /\ UNCHANGED <<executed, length>>
      BY <2>3 DEF OpenHandle, After
    <3>2. QED
      BY <1>1, <3>1, UnseenSteps
  <2>4. CASE Send(c) \/ Receive(c) \/ QueryStatus(c) \/ ReadChunk(c)
    <3>1. Unseen(c) /\ UNCHANGED <<executed, length>>
      BY <2>4 DEF Send, Receive, QueryStatus, ReadChunk
    <3>2. QED
      BY <1>1, <3>1, UnseenSteps
  <2>5. CASE EndBody(c) \/ CloseLatest(c)
    <3>1. Unseen(c) /\ UNCHANGED <<executed, length>>
      BY <2>5 DEF EndBody, CloseLatest
    <3>2. QED
      BY <1>1, <3>1, UnseenSteps
  <2>6. QED
    BY <1>1, <2>1, <2>2, <2>3, <2>4, <2>5 DEF DoRequest
<1>2. ASSUME NEW c \in Call, Serve(c)
      PROVE  [Promise!ExchangeNext]_(Promise!exchangeVars)
  BY <1>2, ServeServes
<1>3. CASE UNCHANGED vars
  BY <1>3 DEF vars, Promise!exchangeVars, Progress, Reply, At
<1>4. QED
  BY <1>1, <1>2, <1>3 DEF Next

\* Every behaviour of do_request is one that Exchange allows: the server
\* executes a request at most once, an error stands alone, and an answer is one
\* the server gave (http.hpp:11-15).
THEOREM TransportImplementsExchange == Spec => ImplementsExchange
<1>1. Init => Promise!ExchangeInit
  BY RefinementInit
<1>2. TypeInv /\ [Next]_vars => [Promise!ExchangeNext]_(Promise!exchangeVars)
  BY RefinementStep
<1>3. QED
  BY <1>1, <1>2, TypeInvariant, PTL DEF Spec, ImplementsExchange, Promise!ExchangeSpec
=============================================================================
