-------------------------------- MODULE MCLog -------------------------------
(***************************************************************************)
(* The instances of Log that TLC checks: two game threads with three lines *)
(* between them in MCLog.cfg, one with one line in MCLogEarly.cfg.         *)
(***************************************************************************)
EXTENDS Log, TLC

CONSTANTS t1, t2

\* t1 can write before log_init clears the path and after it has returned, while
\* t2 assigns the path that it found cleared.
mcLines == InitThread :> 1 @@ Loader :> 1 @@ t1 :> 2 @@ t2 :> 1
mcOneLine == [a \in Actor |-> 1]
=============================================================================
