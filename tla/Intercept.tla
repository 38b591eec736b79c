----------------------------- MODULE Intercept -----------------------------
(***************************************************************************)
(* What install_inline promises whoever calls a method (include/hook.hpp), *)
(* once its hook is done: the hook is absent, or in the methodPointer      *)
(* slot, or in the code as well; and a call runs the original alone or is  *)
(* intercepted once, by which of the three it is.                          *)
(***************************************************************************)
CONSTANTS Method, Planned, Thread, Null

\* What a call may come to, for each way that a hook can end.  A call compiled
\* into the game misses a hook that is in the slot only.
Allowed == [absent  |-> {"original"},
            slot    |-> {"original", "intercepted"},
            patched |-> {"intercepted"}]

VARIABLES
  hook,     \* of each method: "waiting", "changing" or how it ended
  call,     \* of each thread: the method that it called, or Null
  outcome   \* ... and what the call came to, "none" until it has

interceptVars == <<hook, call, outcome>>

InterceptInit ==
  /\ hook = [m \in Method |-> IF m \in Planned THEN "waiting" ELSE "absent"]
  /\ call = [t \in Thread |-> Null]
  /\ outcome = [t \in Thread |-> "none"]

\* One hook is installed after another.
BeginHook(m) ==
  /\ hook[m] = "waiting" /\ \A n \in Method : hook[n] # "changing"
  /\ hook' = [hook EXCEPT ![m] = "changing"]
  /\ UNCHANGED <<call, outcome>>

EndHook(m) ==
  /\ hook[m] = "changing"
  /\ \E how \in DOMAIN Allowed : hook' = [hook EXCEPT ![m] = how]
  /\ UNCHANGED <<call, outcome>>

\* Nothing is promised of a call that begins earlier.
Call(t, m) ==
  /\ call[t] = Null /\ hook[m] \in DOMAIN Allowed
  /\ call' = [call EXCEPT ![t] = m]
  /\ UNCHANGED <<hook, outcome>>

Complete(t) ==
  /\ call[t] # Null /\ outcome[t] = "none"
  /\ \E how \in Allowed[hook[call[t]]] : outcome' = [outcome EXCEPT ![t] = how]
  /\ UNCHANGED <<hook, call>>

Return(t) ==
  /\ outcome[t] # "none"
  /\ call' = [call EXCEPT ![t] = Null]
  /\ outcome' = [outcome EXCEPT ![t] = "none"]
  /\ UNCHANGED hook

InterceptNext ==
  \/ \E m \in Method : BeginHook(m) \/ EndHook(m)
  \/ \E t \in Thread : Complete(t) \/ Return(t) \/ \E m \in Method : Call(t, m)

InterceptSpec == InterceptInit /\ [][InterceptNext]_interceptVars
=============================================================================
