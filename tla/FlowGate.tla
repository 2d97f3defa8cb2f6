------------------------------ MODULE FlowGate ------------------------------
(***************************************************************************)
(* What the filter promises: segments are judged one after the other, each *)
(* in a single step, from the set of remembered flows alone.               *)
(*                                                                         *)
(*   - a payload that is no handshake passes only on a remembered flow;    *)
(*   - a flow becomes remembered only by a handshake on it;                *)
(*   - a SYN counts before the verdict, a FIN or RST after it, and neither *)
(*     leaves the flow remembered;                                         *)
(*   - the filter may forget (LRU eviction, failed insert, restart) at any *)
(*     moment: forgetting is never a promise.                              *)
(*                                                                         *)
(* FlowFilter, where CPUs interleave at the map accesses, is shown to      *)
(* implement it.                                                           *)
(***************************************************************************)
EXTENDS Verdict

CONSTANT None    \* the value of last before the first verdict

VARIABLES
    remembered,  \* the flows ALLOWED_FLOWS holds
    last         \* the verdict returned last

vars == <<remembered, last>>

TypeOK ==
    /\ remembered \subseteq Flows
    /\ last \in Verdicts \cup {None}

Init ==
    /\ remembered = {}
    /\ last = None

\* One call of verdict.  An insert may evict, so any part of the best outcome
\* may be what remains.
Judge(s) ==
    LET found == AfterSyn(remembered, s)
        best  == IF s.data = "handshake" THEN found \cup {s.flow} ELSE found
    IN  /\ last' = [seg |-> s, action |-> Action(found, s)]
        /\ remembered' \in SUBSET AfterEnd(best, s)

Forget ==
    /\ remembered' \in SUBSET remembered
    /\ UNCHANGED last

Next == Forget \/ \E s \in Segments : Judge(s)

Spec == Init /\ [][Next]_vars
=============================================================================
