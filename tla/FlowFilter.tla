----------------------------- MODULE FlowFilter -----------------------------
(***************************************************************************)
(* The eBPF program running on several CPUs at once, and its loader.       *)
(*                                                                         *)
(* verdict holds no lock: between two accesses to ALLOWED_FLOWS other CPUs *)
(* judge other segments, and their inserts may evict the entry this CPU    *)
(* has just read.  One action below is the code from one access of the map *)
(* up to the next.  pc names the access a CPU is about to make:            *)
(*                                                                         *)
(*   "forget_old"     ALLOWED_FLOWS.remove, for a SYN                      *)
(*   "lookup"         ALLOWED_FLOWS.get_ptr                                *)
(*   "remember"       ALLOWED_FLOWS.insert                                 *)
(*   "forget_closed"  ALLOWED_FLOWS.remove, for a FIN or RST               *)
(*                                                                         *)
(* Steered says whether the network card keeps the segments of one 4-tuple *)
(* on one receive queue, so that no two CPUs hold one flow at the same     *)
(* time.  The code neither asks for it nor checks it.  Model-checked is    *)
(* Steered = TRUE; FlowFilterProofs proves what holds without steering.    *)
(***************************************************************************)
EXTENDS Verdict

CONSTANTS
    CPUs,     \* the CPUs that run the program
    Steered,  \* no two CPUs hold segments of one flow
    None      \* no segment, no verdict

ASSUME SteeredAssumption == Steered \in BOOLEAN

VARIABLES
    attached,  \* the loader has attached the program to the interface
    allowed,   \* ALLOWED_FLOWS
    pc,        \* the access each CPU makes next, "idle" between segments
    seg,       \* the segment in each CPU's hands
    last,      \* the verdict decided last
    standing,  \* history: what each flow has shown since the program was loaded
    lost       \* history: flows whose entry a full map evicted or did not take

vars == <<attached, allowed, pc, seg, last, standing, lost>>

\* "current": a handshake since the last SYN, FIN or RST; "stale": one, but
\* before it; "never": none since the program was loaded.
Standings == {"never", "stale", "current"}

TypeOK ==
    /\ attached \in BOOLEAN
    /\ allowed \subseteq Flows /\ IsFiniteSet(allowed) /\ Cardinality(allowed) <= MaxEntries
    /\ pc \in [CPUs -> {"idle", "forget_old", "lookup", "remember", "forget_closed"}]
    /\ seg \in [CPUs -> Segments \cup {None}]
    /\ \A c \in CPUs : pc[c] # "idle" => seg[c] \in Segments
    /\ last \in Verdicts \cup {None}
    /\ standing \in [Flows -> Standings]
    /\ lost \subseteq Flows

Init ==
    /\ attached = FALSE
    /\ allowed = {}
    /\ pc = [c \in CPUs |-> "idle"]
    /\ seg = [c \in CPUs |-> None]
    /\ last = None
    /\ standing = [f \in Flows |-> "never"]
    /\ lost = {}

-----------------------------------------------------------------------------
Busy(f) == \E c \in CPUs : pc[c] # "idle" /\ seg[c].flow = f

Outdated(st, f) == IF st[f] = "current" THEN [st EXCEPT ![f] = "stale"] ELSE st

\* The order in which segments arrive settles which connection a handshake
\* belongs to: standing follows SYNs and handshakes when they are received, and
\* a FIN or RST when its verdict is decided.
Arrived(s) ==
    LET st == IF s.syn THEN Outdated(standing, s.flow) ELSE standing
    IN  IF s.data = "handshake" THEN [st EXCEPT ![s.flow] = "current"] ELSE st

\* Mutant: the remove for a SYN comes after the verdict, with that for a FIN.
DecideSynLate(c, s, action) ==
    LET forget == s.end \/ s.syn
    IN  /\ last' = [seg |-> s, action |-> action]
        /\ pc' = [pc EXCEPT ![c] = IF forget THEN "forget_closed" ELSE "idle"]
        /\ seg' = [seg EXCEPT ![c] = IF forget THEN s ELSE None]
        /\ standing' = IF s.end THEN Outdated(standing, s.flow) ELSE standing

\* The CPU has chosen its action; what is left is the remove for a FIN or RST.
Decide(c, s, action) ==
    /\ last' = [seg |-> s, action |-> action]
    /\ pc' = [pc EXCEPT ![c] = IF s.end THEN "forget_closed" ELSE "idle"]
    /\ seg' = [seg EXCEPT ![c] = IF s.end THEN s ELSE None]
    /\ standing' = IF s.end THEN Outdated(standing, s.flow) ELSE standing

\* The CPU goes on to its next access with s in hand.
Continue(c, s, access) ==
    /\ pc' = [pc EXCEPT ![c] = access]
    /\ seg' = [seg EXCEPT ![c] = s]
    /\ UNCHANGED last

-----------------------------------------------------------------------------
Idle(c, s) ==
    /\ attached
    /\ pc[c] = "idle"
    /\ Steered => ~Busy(s.flow)

\* A segment that opens a connection: the old entry is removed first.
ReceiveSyn(c, s) ==
    /\ Idle(c, s)
    /\ s.syn
    /\ Continue(c, s, "forget_old")
    /\ standing' = Arrived(s)
    /\ UNCHANGED <<attached, allowed, lost>>

\* An ACK, FIN or RST without payload passes without a lookup.
ReceiveBare(c, s) ==
    /\ Idle(c, s)
    /\ ~s.syn /\ s.data = "none"
    /\ Decide(c, s, "PASS")
    /\ UNCHANGED <<attached, allowed, lost>>

ReceiveData(c, s) ==
    /\ Idle(c, s)
    /\ ~s.syn /\ s.data # "none"
    /\ Continue(c, s, "lookup")
    /\ standing' = Arrived(s)
    /\ UNCHANGED <<attached, allowed, lost>>

\* Mutant: the old entry is not removed for a SYN.
ForgetOldSkipped(c) ==
    /\ pc[c] = "forget_old"
    /\ \/ seg[c].data = "none" /\ Decide(c, seg[c], "PASS")
       \/ seg[c].data # "none" /\ Continue(c, seg[c], "lookup") /\ UNCHANGED standing
    /\ UNCHANGED <<attached, allowed, lost>>

\* The remove for a SYN, and the branch on payload_len.
ForgetOld(c) ==
    /\ pc[c] = "forget_old"
    /\ allowed' = allowed \ {seg[c].flow}
    /\ \/ seg[c].data = "none" /\ Decide(c, seg[c], "PASS")
       \/ seg[c].data # "none" /\ Continue(c, seg[c], "lookup") /\ UNCHANGED standing
    /\ UNCHANGED <<attached, lost>>

\* Mutant: a FIN or RST counts before the verdict on the data it carries.
LookupClosed(c) ==
    LET found == AfterEnd(allowed, seg[c])
    IN  /\ pc[c] = "lookup"
        /\ \/ /\ Remembers(found, seg[c])
              /\ Continue(c, seg[c], "remember")
              /\ UNCHANGED standing
           \/ /\ ~Remembers(found, seg[c])
              /\ Decide(c, seg[c], Action(found, seg[c]))
        /\ UNCHANGED <<attached, allowed, lost>>

\* get_ptr, and check_handshake when the flow is not found.
Lookup(c) ==
    /\ pc[c] = "lookup"
    /\ \/ /\ Remembers(allowed, seg[c])
          /\ Continue(c, seg[c], "remember")
          /\ UNCHANGED standing
       \/ /\ ~Remembers(allowed, seg[c])
          /\ Decide(c, seg[c], Action(allowed, seg[c]))
    /\ UNCHANGED <<attached, allowed, lost>>

\* What an insert of f may cost: nothing, unless the map may evict or fail.
GivenUp(f) == IF Cardinality(allowed) >= EvictFrom THEN allowed \cup {f} ELSE {}

\* The insert.  Its failure is only logged: the segment passes all the same.
Remember(c) ==
    /\ pc[c] = "remember"
    /\ allowed' \in Inserted(allowed, seg[c].flow)
    /\ lost' = (lost \cup GivenUp(seg[c].flow)) \ allowed'
    /\ Decide(c, seg[c], "PASS")
    /\ UNCHANGED attached

\* Mutant: the entry is not removed for a FIN or RST.
ForgetClosedSkipped(c) ==
    /\ pc[c] = "forget_closed"
    /\ pc' = [pc EXCEPT ![c] = "idle"]
    /\ seg' = [seg EXCEPT ![c] = None]
    /\ UNCHANGED <<attached, allowed, last, standing, lost>>

\* The remove for a FIN or RST, after the verdict.
ForgetClosed(c) ==
    /\ pc[c] = "forget_closed"
    /\ allowed' = allowed \ {seg[c].flow}
    /\ pc' = [pc EXCEPT ![c] = "idle"]
    /\ seg' = [seg EXCEPT ![c] = None]
    /\ UNCHANGED <<attached, last, standing, lost>>

-----------------------------------------------------------------------------
\* Mutant: the map outlives the program, as a pinned one would.
AttachPinned ==
    /\ ~attached
    /\ \A c \in CPUs : pc[c] = "idle"
    /\ attached' = TRUE
    /\ standing' = [f \in Flows |-> "never"]
    /\ UNCHANGED <<allowed, pc, seg, last, lost>>

\* The loader creates the program with an empty map and attaches it.  Calls of
\* an earlier program have returned by then: the kernel frees it only after.
Attach ==
    /\ ~attached
    /\ \A c \in CPUs : pc[c] = "idle"
    /\ attached' = TRUE
    /\ allowed' = {}
    /\ standing' = [f \in Flows |-> "never"]
    /\ lost' = {}
    /\ UNCHANGED <<pc, seg, last>>

\* SIGTERM or Ctrl-C: the program is detached; calls under way still return.
Detach ==
    /\ attached
    /\ attached' = FALSE
    /\ UNCHANGED <<allowed, pc, seg, last, standing, lost>>

Receive(c) ==
    \E s \in Segments : ReceiveSyn(c, s) \/ ReceiveBare(c, s) \/ ReceiveData(c, s)

Next ==
    \/ Attach
    \/ Detach
    \/ \E c \in CPUs :
          Receive(c) \/ ForgetOld(c) \/ Lookup(c) \/ Remember(c) \/ ForgetClosed(c)

Spec == Init /\ [][Next]_vars

-----------------------------------------------------------------------------
(* Properties.                                                              *)

\* Flows whose entry a CPU is on its way to remove.
Forgetting ==
    {seg[c].flow : c \in {d \in CPUs : pc[d] \in {"forget_old", "forget_closed"}}}

\* No entry outlives its connection: a flow is in ALLOWED_FLOWS only if a
\* handshake arrived on it after its last SYN, FIN or RST, except while a
\* CPU is about to remove it ("the old connection's handshake must not carry
\* over").  Whatever is evicted and whichever CPUs interleave.
EntriesAreCurrent == \A f \in allowed \ Forgetting : standing[f] = "current"

\* A payload that is no handshake is passed only on a flow that has shown one
\* on this very connection, at the moment the verdict is decided.
PassedOther == last'.action = "PASS" /\ last'.seg.data = "other"

PassedDataIsCurrent ==
    [][last' # last /\ PassedOther => standing[last'.seg.flow] = "current"]_vars

\* And nothing else costs a connection: once it has shown its handshake, none of
\* its segments is dropped unless a full map gave its entry up.
Dropped == last'.action = "DROP"

CurrentIsPassed ==
    [][last' # last /\ Dropped =>
          \/ standing[last'.seg.flow] # "current"
          \/ last'.seg.flow \in lost]_vars

\* The strengthening that is inductive: while flows are steered, one flow is in
\* the hands of one CPU, ...
Exclusive ==
    \A c, d \in CPUs :
        (c # d /\ pc[c] # "idle" /\ pc[d] # "idle") => seg[c].flow # seg[d].flow

\* ... and what a CPU has found out about its flow stays true until it acts.
Stage(c) ==
    LET f == seg[c].flow
    IN  /\ pc[c] = "forget_old" => seg[c].syn
        /\ pc[c] \in {"forget_old", "lookup"} =>
               (seg[c].data = "handshake" => standing[f] = "current")
        /\ pc[c] = "forget_old" =>
               (seg[c].data # "handshake" => standing[f] # "current")
        /\ pc[c] = "lookup" => seg[c].data # "none" /\ (seg[c].syn => f \notin allowed)
        /\ pc[c] = "remember" =>
               /\ seg[c].data = "handshake"
               /\ standing[f] = "current"
               /\ f \notin allowed
        /\ pc[c] = "forget_closed" => seg[c].end /\ standing[f] # "current"

Staged == \A c \in CPUs : Stage(c)

IInv == TypeOK /\ Exclusive /\ Staged /\ EntriesAreCurrent

\* For CurrentIsPassed: a flow that has shown its handshake is remembered, or was
\* given up, or the handshake is in the hands of a CPU that will remember it.
Showing ==
    {seg[c].flow : c \in {d \in CPUs :
        pc[d] \in {"forget_old", "lookup", "remember"} /\ seg[d].data = "handshake"}}

CurrentIsRemembered ==
    \A f \in Flows : standing[f] = "current" => f \in allowed \cup lost \cup Showing

\* Without steering the two properties above fail.  What remains: no entry
\* comes from nowhere or survives a restart of the loader.
EntriesHadHandshake == \A f \in allowed : standing[f] # "never"

\* Its strengthening: the segment a CPU may still insert for is a handshake, and
\* has been counted.
Shown(c) ==
    /\ pc[c] = "remember" => seg[c].data = "handshake"
    /\ (pc[c] \in {"forget_old", "lookup", "remember"} /\ seg[c].data = "handshake")
           => standing[seg[c].flow] # "never"

HInv == TypeOK /\ EntriesHadHandshake /\ \A c \in CPUs : Shown(c)

\* The flows the abstract gate remembers: an entry about to be removed for a
\* FIN or RST no longer counts, its segment has been judged.
Settled ==
    allowed \ {seg[c].flow : c \in {d \in CPUs : pc[d] = "forget_closed"}}

Gate == INSTANCE FlowGate WITH remembered <- Settled

\* The interleaved program judges as if segments came one at a time.
GateSpec == Gate!Spec
=============================================================================
