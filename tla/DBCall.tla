-------------------------------- MODULE DBCall --------------------------------
(***************************************************************************)
(* What a call of ExecuteProc is to the handler that makes it: it ends in  *)
(* one of the outcomes of Sessions, "ok", "failed", "lost" or "twice".     *)
(* The statement may take effect any number of times before the answer, of *)
(* which 2 stands for all beyond the first.  An answer is that of one more *)
(* execution, the last.                                                    *)
(***************************************************************************)
EXTENDS Naturals

VARIABLES
    calling,        \* a call is under way
    executed,       \* how often the statement took effect: 0, 1 or 2 and more
    outcome         \* of the last call, "none" before the first and during a call

vars == <<calling, executed, outcome>>

OnceMore(n) == IF n = 2 THEN 2 ELSE n + 1

Init == calling = FALSE /\ executed = 0 /\ outcome = "none"

Call ==
    /\ ~calling
    /\ calling' = TRUE /\ executed' = 0 /\ outcome' = "none"

\* Without a connection there is nothing to try.
Refuse ==
    /\ ~calling
    /\ executed' = 0 /\ outcome' = "failed"
    /\ UNCHANGED calling

\* An execution whose answer does not arrive.
ExecuteUnheard ==
    /\ calling
    /\ executed' = OnceMore(executed)
    /\ UNCHANGED <<calling, outcome>>

Answer ==
    /\ calling /\ calling' = FALSE
    /\ executed' = OnceMore(executed)
    /\ outcome' = IF executed = 0 THEN "ok" ELSE "twice"

\* The call ends without an answer, or with one whose row cannot be read.
NoAnswer ==
    /\ calling /\ calling' = FALSE
    /\ executed' \in {executed, OnceMore(executed)}
    /\ outcome' = IF executed' = 0 THEN "failed" ELSE "lost"

Next == Call \/ Refuse \/ ExecuteUnheard \/ Answer \/ NoAnswer

Spec == Init /\ [][Next]_vars
=============================================================================
