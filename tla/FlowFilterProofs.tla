-------------------------- MODULE FlowFilterProofs --------------------------
(***************************************************************************)
(* Proofs about FlowFilter, for every set of flows and of CPUs, and every  *)
(* capacity of the map.                                                    *)
(***************************************************************************)
EXTENDS FlowFilter, FiniteSetTheorems, TLAPS

(* What the helpers of FlowFilter do to one flow.                           *)

\* An insert adds no flow but its own.
LEMMA InsertedAdds ==
    ASSUME NEW known, NEW f, NEW m \in Inserted(known, f)
    PROVE  m \subseteq known \cup {f}
BY DEF Inserted

\* Below EvictFrom an insert stores its flow and evicts nothing.
LEMMA InsertedKeeps ==
    ASSUME NEW known, NEW f, NEW m \in Inserted(known, f), ~(Cardinality(known) >= EvictFrom)
    PROVE  m = known \cup {f}
BY DEF Inserted

\* Outdating a flow touches its own standing only, and leaves it not current.
LEMMA OutdatedEffect ==
    ASSUME NEW st \in [Flows -> Standings], NEW f \in Flows
    PROVE  /\ Outdated(st, f) \in [Flows -> Standings]
           /\ Outdated(st, f)[f] # "current"
           /\ \A g \in Flows \ {f} : Outdated(st, f)[g] = st[g]
           /\ \A g \in Flows : Outdated(st, f)[g] = "never" => st[g] = "never"
BY DEF Outdated, Standings

\* An arriving segment touches the standing of its own flow only; it makes it
\* current if it is a handshake, and not current if it is a SYN that is none.
LEMMA ArrivedEffect ==
    ASSUME standing \in [Flows -> Standings], NEW s \in Segments
    PROVE  /\ Arrived(s) \in [Flows -> Standings]
           /\ s.data = "handshake" => Arrived(s)[s.flow] = "current"
           /\ \A g \in Flows \ {s.flow} : Arrived(s)[g] = standing[g]
           /\ s.syn /\ s.data # "handshake" => Arrived(s)[s.flow] # "current"
           /\ ~s.syn => \A g \in Flows : standing[g] = "current" => Arrived(s)[g] = "current"
           /\ ~s.syn /\ s.data # "handshake" => Arrived(s) = standing
           /\ \A g \in Flows : Arrived(s)[g] = "never" => standing[g] = "never"
<1>1. s.flow \in Flows
  BY DEF Segments
<1> DEFINE st == IF s.syn THEN Outdated(standing, s.flow) ELSE standing
<1>2. /\ st \in [Flows -> Standings]
      /\ \A g \in Flows \ {s.flow} : st[g] = standing[g]
      /\ s.syn => st[s.flow] # "current"
      /\ ~s.syn => st = standing
      /\ \A g \in Flows : st[g] = "never" => standing[g] = "never"
  BY <1>1, OutdatedEffect
<1>3. Arrived(s) = IF s.data = "handshake" THEN [st EXCEPT ![s.flow] = "current"] ELSE st
  BY DEF Arrived
<1> HIDE DEF st
<1>4. QED
  BY <1>1, <1>2, <1>3 DEF Standings

\* A verdict never makes a flow current, and outdates none but its own.
LEMMA DecideEffect ==
    ASSUME TypeOK, NEW c \in CPUs, NEW s \in Segments, NEW action \in Actions,
           Decide(c, s, action)
    PROVE  /\ last' \in Verdicts
           /\ standing' \in [Flows -> Standings]
           /\ \A g \in Flows \ {s.flow} : standing'[g] = standing[g]
           /\ ~s.end => standing' = standing
           /\ s.end => standing'[s.flow] # "current"
           /\ \A g \in Flows : standing'[g] = "never" => standing[g] = "never"
<1>1. s.flow \in Flows /\ standing \in [Flows -> Standings]
  BY DEF Segments, TypeOK
<1>2. last' \in Verdicts
  BY DEF Decide, Verdicts
<1>3. CASE s.end
  BY <1>1, <1>2, <1>3, OutdatedEffect DEF Decide
<1>4. CASE ~s.end
  BY <1>1, <1>2, <1>4 DEF Decide
<1>5. QED
  BY <1>3, <1>4

\* Four accesses decide; the other steps leave the last verdict alone.
LEMMA WhoDecides ==
    ASSUME Next, last' # last
    PROVE  \E c \in CPUs :
              \/ \E s \in Segments : ReceiveBare(c, s)
              \/ ForgetOld(c) \/ Lookup(c) \/ Remember(c)
BY DEF Next, Attach, Detach, Receive, ReceiveSyn, ReceiveData, Continue, ForgetClosed

-----------------------------------------------------------------------------
(* The capacity of the map.                                                 *)

Fits(m) == IsFiniteSet(m) /\ Cardinality(m) <= MaxEntries

\* What has been removed from a map that fits leaves one that fits.
LEMMA RemovedFits ==
    ASSUME NEW known, Fits(known), NEW m, m \subseteq known
    PROVE  Fits(m)
<1>1. /\ IsFiniteSet(m) /\ Cardinality(m) <= Cardinality(known)
      /\ Cardinality(m) \in Nat /\ Cardinality(known) \in Nat
  BY FS_Subset, FS_CardinalityType DEF Fits
<1>2. QED
  BY <1>1, CapacityAssumption DEF Fits

\* An insert evicts or fails before the map outgrows its capacity.
LEMMA InsertedFits ==
    ASSUME NEW known, Fits(known), NEW f, NEW m \in Inserted(known, f)
    PROVE  Fits(m)
<1>1. IsFiniteSet(known \cup {f})
  BY FS_AddElement DEF Fits
<1>2. IsFiniteSet(m)
  BY <1>1, InsertedAdds, FS_Subset
<1>3. Cardinality(m) <= MaxEntries
  BY DEF Inserted
<1>4. QED
  BY <1>2, <1>3 DEF Fits

\* No step but an insert adds to the map, and an insert leaves one that fits.
LEMMA CapacityKept == TypeOK /\ [Next]_vars => Fits(allowed')
<1> SUFFICES ASSUME TypeOK, [Next]_vars PROVE Fits(allowed')
  OBVIOUS
<1>1. Fits(allowed)
  BY DEF TypeOK, Fits
<1>2. ASSUME NEW c \in CPUs, Remember(c) PROVE Fits(allowed')
  BY <1>1, <1>2, InsertedFits DEF Remember
<1>3. ASSUME NEW c \in CPUs, Receive(c) \/ ForgetOld(c) \/ Lookup(c) \/ ForgetClosed(c)
      PROVE  allowed' \subseteq allowed
  BY <1>3 DEF Receive, ReceiveSyn, ReceiveBare, ReceiveData, ForgetOld, Lookup, ForgetClosed
<1>4. CASE Attach \/ Detach \/ UNCHANGED vars
  <2>1. allowed' \subseteq allowed
    BY <1>4 DEF Attach, Detach, vars
  <2>2. QED
    BY <1>1, <2>1, RemovedFits
<1>5. QED
  BY <1>1, <1>2, <1>3, <1>4, RemovedFits DEF Next

-----------------------------------------------------------------------------
(* Type correctness needs no steering.                                      *)

\* A filter that is not attached yet is well typed.
LEMMA TypeInit == Init => TypeOK
<1>1. Cardinality({}) <= MaxEntries
  BY FS_EmptySet, CapacityAssumption
<1>2. QED
  BY <1>1, FS_EmptySet DEF Init, TypeOK, Standings

\* Every step of a CPU or of the loader keeps the state well typed.
LEMMA TypeStep == TypeOK /\ [Next]_vars => TypeOK'
<1> SUFFICES ASSUME TypeOK, [Next]_vars PROVE TypeOK'
  OBVIOUS
<1>0. IsFiniteSet(allowed') /\ Cardinality(allowed') <= MaxEntries
  BY CapacityKept DEF Fits
<1>1. CASE Attach
  BY <1>0, <1>1 DEF Attach, TypeOK, Standings
<1>2. CASE Detach
  BY <1>0, <1>2 DEF Detach, TypeOK
<1>3. ASSUME NEW c \in CPUs, NEW s \in Segments, ReceiveSyn(c, s) PROVE TypeOK'
  BY <1>0, <1>3, ArrivedEffect DEF ReceiveSyn, Idle, Continue, TypeOK
<1>4. ASSUME NEW c \in CPUs, NEW s \in Segments, ReceiveBare(c, s) PROVE TypeOK'
  <2>1. Decide(c, s, "PASS")
    BY <1>4 DEF ReceiveBare
  <2>2. last' \in Verdicts /\ standing' \in [Flows -> Standings]
    BY <2>1, DecideEffect DEF Actions
  <2>3. QED
    BY <1>0, <1>4, <2>1, <2>2 DEF ReceiveBare, Decide, TypeOK
<1>5. ASSUME NEW c \in CPUs, NEW s \in Segments, ReceiveData(c, s) PROVE TypeOK'
  BY <1>0, <1>5, ArrivedEffect DEF ReceiveData, Idle, Continue, TypeOK
<1>6. ASSUME NEW c \in CPUs, ForgetOld(c) PROVE TypeOK'
  <2>1. seg[c] \in Segments
    BY <1>0, <1>6 DEF ForgetOld, TypeOK
  <2>2. CASE Decide(c, seg[c], "PASS")
    <3>1. last' \in Verdicts /\ standing' \in [Flows -> Standings]
      BY <2>1, <2>2, DecideEffect DEF Actions
    <3>2. QED
      BY <1>0, <1>6, <2>1, <2>2, <3>1 DEF ForgetOld, Decide, TypeOK
  <2>3. CASE Continue(c, seg[c], "lookup") /\ UNCHANGED standing
    BY <1>0, <1>6, <2>1, <2>3 DEF ForgetOld, Continue, TypeOK
  <2>4. QED
    BY <1>6, <2>2, <2>3 DEF ForgetOld
<1>7. ASSUME NEW c \in CPUs, Lookup(c) PROVE TypeOK'
  <2>1. seg[c] \in Segments
    BY <1>0, <1>7 DEF Lookup, TypeOK
  <2>2. CASE Continue(c, seg[c], "remember") /\ UNCHANGED standing
    BY <1>0, <1>7, <2>1, <2>2 DEF Lookup, Continue, TypeOK
  <2>3. CASE Decide(c, seg[c], Action(allowed, seg[c]))
    <3>1. last' \in Verdicts /\ standing' \in [Flows -> Standings]
      BY <2>1, <2>3, DecideEffect DEF Actions, Action
    <3>2. QED
      BY <1>0, <1>7, <2>1, <2>3, <3>1 DEF Lookup, Decide, TypeOK
  <2>4. QED
    BY <1>7, <2>2, <2>3 DEF Lookup
<1>8. ASSUME NEW c \in CPUs, Remember(c) PROVE TypeOK'
  <2>1. seg[c] \in Segments /\ seg[c].flow \in Flows
    BY <1>0, <1>8 DEF Remember, TypeOK, Segments
  <2>2. Decide(c, seg[c], "PASS")
    BY <1>8 DEF Remember
  <2>3. last' \in Verdicts /\ standing' \in [Flows -> Standings]
    BY <2>1, <2>2, DecideEffect DEF Actions
  <2>4. allowed' \subseteq Flows
    BY <1>0, <1>8, <2>1, InsertedAdds DEF Remember, TypeOK
  <2>5. lost' \subseteq Flows
    BY <1>0, <1>8, <2>1 DEF Remember, GivenUp, TypeOK
  <2>6. QED
    BY <1>0, <1>8, <2>1, <2>2, <2>3, <2>4, <2>5 DEF Remember, Decide, TypeOK
<1>9. ASSUME NEW c \in CPUs, ForgetClosed(c) PROVE TypeOK'
  BY <1>0, <1>9 DEF ForgetClosed, TypeOK
<1>10. CASE UNCHANGED vars
  BY <1>0, <1>10 DEF vars, TypeOK
<1>11. QED
  BY <1>1, <1>2, <1>3, <1>4, <1>5, <1>6, <1>7, <1>8, <1>9, <1>10 DEF Next, Receive

\* Every state of the concurrent filter is well typed: whichever inserts and removes
\* interleave, the map stays within its capacity.
THEOREM TypeCorrect == Spec => []TypeOK
<1>1. QED
  BY TypeInit, TypeStep, PTL DEF Spec

-----------------------------------------------------------------------------
(* What holds without steering: standing only ever leaves "never", except   *)
(* when a new program starts with an empty map and idle CPUs, so it does    *)
(* not matter which other CPUs run between a lookup and its insert.         *)

\* A step of one CPU keeps HInv if it outdates nothing to "never", adds entries
\* for flows with a handshake only, and keeps Shown for the CPU itself.
LEMMA ShownFrame ==
    ASSUME HInv, TypeOK',
           NEW c \in CPUs, NEW access, NEW held,
           pc' = [pc EXCEPT ![c] = access],
           seg' = [seg EXCEPT ![c] = held],
           \A g \in Flows : standing'[g] = "never" => standing[g] = "never",
           \A g \in allowed' \ allowed : standing'[g] # "never",
           Shown(c)'
    PROVE  HInv'
<1>1. EntriesHadHandshake'
  BY DEF HInv, EntriesHadHandshake, TypeOK
<1>2. ASSUME NEW d \in CPUs, d # c PROVE Shown(d)'
  <2>1. pc'[d] = pc[d] /\ seg'[d] = seg[d]
    BY <1>2 DEF HInv, TypeOK
  <2>2. pc[d] # "idle" => seg[d].flow \in Flows
    BY DEF HInv, TypeOK, Segments
  <2>3. QED
    BY <2>1, <2>2 DEF HInv, Shown
<1>3. QED
  BY <1>1, <1>2 DEF HInv

\* A CPU that has decided is not about to insert.
LEMMA ShownDecided ==
    ASSUME HInv, TypeOK',
           NEW c \in CPUs, NEW s \in Segments, NEW action \in Actions,
           Decide(c, s, action),
           \A g \in allowed' \ allowed : g = s.flow /\ standing[g] # "never"
    PROVE  HInv'
<1>1. \A g \in Flows : standing'[g] = "never" => standing[g] = "never"
  BY DecideEffect DEF HInv
<1>2. \A g \in allowed' \ allowed : standing'[g] # "never"
  BY <1>1 DEF Segments
<1>3. /\ pc' = [pc EXCEPT ![c] = IF s.end THEN "forget_closed" ELSE "idle"]
      /\ seg' = [seg EXCEPT ![c] = IF s.end THEN s ELSE None]
  BY DEF Decide
<1>4. Shown(c)'
  BY <1>3 DEF Shown, HInv, TypeOK
<1>5. QED
  BY <1>1, <1>2, <1>3, <1>4, ShownFrame

\* Every access of the map keeps HInv, on any interleaving.
LEMMA HInvStep == HInv /\ [Next]_vars => HInv'
<1> SUFFICES ASSUME HInv, [Next]_vars PROVE HInv'
  OBVIOUS
<1>0. TypeOK /\ TypeOK'
  BY TypeStep DEF HInv
<1>1. CASE Attach
  BY <1>0, <1>1 DEF Attach, HInv, EntriesHadHandshake, Shown
<1>2. CASE Detach
  BY <1>0, <1>2 DEF Detach, HInv, EntriesHadHandshake, Shown
<1>3. ASSUME NEW c \in CPUs, NEW s \in Segments, ReceiveSyn(c, s) \/ ReceiveData(c, s)
      PROVE  HInv'
  <2>1. PICK access \in {"forget_old", "lookup"} : Continue(c, s, access)
    BY <1>3 DEF ReceiveSyn, ReceiveData
  <2>2. standing' = Arrived(s) /\ allowed' = allowed
    BY <1>3 DEF ReceiveSyn, ReceiveData
  <2>3. /\ \A g \in Flows : standing'[g] = "never" => standing[g] = "never"
        /\ s.data = "handshake" => standing'[s.flow] # "never"
    BY <1>0, <2>2, ArrivedEffect DEF TypeOK
  <2>4. Shown(c)'
    BY <1>0, <2>1, <2>3 DEF Shown, Continue, TypeOK
  <2>5. QED
    BY <1>0, <2>1, <2>2, <2>3, <2>4, ShownFrame DEF Continue
<1>4. ASSUME NEW c \in CPUs, NEW s \in Segments, ReceiveBare(c, s) PROVE HInv'
  BY <1>0, <1>4, ShownDecided DEF ReceiveBare, Actions
<1>5. ASSUME NEW c \in CPUs, ForgetOld(c) PROVE HInv'
  <2>1. seg[c] \in Segments /\ pc[c] = "forget_old" /\ allowed' \subseteq allowed
    BY <1>0, <1>5 DEF ForgetOld, TypeOK
  <2>2. CASE Decide(c, seg[c], "PASS")
    BY <1>0, <2>1, <2>2, ShownDecided DEF Actions
  <2>3. CASE Continue(c, seg[c], "lookup") /\ UNCHANGED standing
    <3>1. Shown(c)'
      BY <1>0, <2>1, <2>3 DEF HInv, Shown, Continue, TypeOK
    <3>2. QED
      BY <1>0, <2>1, <2>3, <3>1, ShownFrame DEF Continue
  <2>4. QED
    BY <1>5, <2>2, <2>3 DEF ForgetOld
<1>6. ASSUME NEW c \in CPUs, Lookup(c) PROVE HInv'
  <2>1. seg[c] \in Segments /\ pc[c] = "lookup" /\ allowed' = allowed
    BY <1>0, <1>6 DEF Lookup, TypeOK
  <2>2. CASE Decide(c, seg[c], Action(allowed, seg[c]))
    BY <1>0, <2>1, <2>2, ShownDecided DEF Actions, Action
  <2>3. CASE /\ Remembers(allowed, seg[c]) /\ Continue(c, seg[c], "remember")
             /\ UNCHANGED standing
    <3>1. Shown(c)'
      BY <1>0, <2>1, <2>3 DEF HInv, Shown, Continue, TypeOK, Remembers
    <3>2. QED
      BY <1>0, <2>1, <2>3, <3>1, ShownFrame DEF Continue
  <2>4. QED
    BY <1>6, <2>2, <2>3 DEF Lookup
<1>7. ASSUME NEW c \in CPUs, Remember(c) PROVE HInv'
  <2>1. /\ seg[c] \in Segments /\ Decide(c, seg[c], "PASS")
        /\ standing[seg[c].flow] # "never"
    BY <1>0, <1>7 DEF Remember, TypeOK, HInv, Shown
  <2>2. \A g \in allowed' \ allowed : g = seg[c].flow
    BY <1>7, InsertedAdds DEF Remember
  <2>3. QED
    BY <1>0, <2>1, <2>2, ShownDecided DEF Actions
<1>8. ASSUME NEW c \in CPUs, ForgetClosed(c) PROVE HInv'
  <2>1. /\ pc' = [pc EXCEPT ![c] = "idle"] /\ seg' = [seg EXCEPT ![c] = None]
        /\ standing' = standing /\ allowed' \subseteq allowed
    BY <1>8 DEF ForgetClosed
  <2>2. Shown(c)'
    BY <1>0, <2>1 DEF Shown, TypeOK
  <2>3. QED
    BY <1>0, <2>1, <2>2, ShownFrame
<1>9. CASE UNCHANGED vars
  BY <1>0, <1>9 DEF vars, HInv, EntriesHadHandshake, Shown
<1>10. QED
  BY <1>1, <1>2, <1>3, <1>4, <1>5, <1>6, <1>7, <1>8, <1>9 DEF Next, Receive

\* Whether or not the card steers flows: every entry of ALLOWED_FLOWS stems from
\* a handshake that arrived on its flow since the program was loaded.
THEOREM EntriesAreEarned == Spec => []EntriesHadHandshake
<1>1. Init => HInv
  BY TypeInit DEF Init, HInv, EntriesHadHandshake, Shown
<1>2. HInv => EntriesHadHandshake
  BY DEF HInv
<1>3. QED
  BY <1>1, <1>2, HInvStep, PTL DEF Spec

\* Nor does any payload that is no handshake pass on a flow that has shown none
\* since the program was loaded, whichever CPUs judge its segments.
THEOREM NoDataUnannounced ==
    Spec => [][last' # last /\ PassedOther => standing[last'.seg.flow] # "never"]_vars
<1> DEFINE Announced == last' # last /\ PassedOther => standing[last'.seg.flow] # "never"
<1>1. Init => HInv
  BY TypeInit DEF Init, HInv, EntriesHadHandshake, Shown
<1>2. HInv /\ [Next]_vars => [Announced]_vars
  <2> SUFFICES ASSUME HInv, Next, last' # last, PassedOther
               PROVE  standing[last'.seg.flow] # "never"
    BY DEF vars
  <2>1. ASSUME NEW c \in CPUs, NEW s \in Segments, ReceiveBare(c, s) PROVE FALSE
    BY <2>1 DEF ReceiveBare, Decide, PassedOther
  <2>2. ASSUME NEW c \in CPUs, ForgetOld(c) PROVE FALSE
    BY <2>2 DEF ForgetOld, Decide, Continue, PassedOther
  <2>3. ASSUME NEW c \in CPUs, Remember(c) PROVE FALSE
    BY <2>3 DEF Remember, Decide, PassedOther, HInv, Shown
  <2>4. ASSUME NEW c \in CPUs, Lookup(c) PROVE standing[last'.seg.flow] # "never"
    <3>1. /\ last'.seg = seg[c]
          /\ last'.action = Action(allowed, seg[c])
      BY <2>4 DEF Lookup, Decide, Continue
    <3>2. seg[c].flow \in allowed
      BY <3>1 DEF PassedOther, Action, Accepts
    <3>3. QED
      BY <3>1, <3>2 DEF HInv, EntriesHadHandshake
  <2>5. QED
    BY <2>1, <2>2, <2>3, <2>4, WhoDecides
<1>3. QED
  BY <1>1, <1>2, HInvStep, PTL DEF Spec

-----------------------------------------------------------------------------
(* The inductive invariant, when flows are steered.  A step of CPU c touches *)
(* one flow, the flow f of the segment it holds; Exclusive makes f its own,  *)
(* so that whatever the other CPUs know of their flows stays true.           *)

\* A step that touches one flow only, and keeps Stage for the CPU that takes it,
\* keeps the invariant.
LEMMA StepFrame ==
    ASSUME IInv,
           NEW c \in CPUs, NEW s \in Segments, NEW access, NEW held,
           pc[c] # "idle" => seg[c] = s,
           \A d \in CPUs : (d # c /\ pc[d] # "idle") => seg[d].flow # s.flow,
           pc' = [pc EXCEPT ![c] = access],
           seg' = [seg EXCEPT ![c] = held],
           access # "idle" => held = s,
           allowed' \subseteq allowed \cup {s.flow},
           \A g \in Flows \ {s.flow} : standing'[g] = standing[g],
           Stage(c)',
           s.flow \in allowed' =>
              \/ standing'[s.flow] = "current"
              \/ access \in {"forget_old", "forget_closed"}
    PROVE  Exclusive' /\ Staged' /\ EntriesAreCurrent'
<1> DEFINE f == s.flow
<1>1. pc \in [CPUs -> {"idle", "forget_old", "lookup", "remember", "forget_closed"}]
      /\ seg \in [CPUs -> Segments \cup {None}] /\ allowed \subseteq Flows
  BY DEF IInv, TypeOK
<1>2. pc'[c] = access /\ seg'[c] = held
  BY <1>1
<1>3. \A d \in CPUs \ {c} : pc'[d] = pc[d] /\ seg'[d] = seg[d]
  BY <1>1
<1>4. Exclusive'
  BY <1>2, <1>3 DEF IInv, Exclusive
<1>5. Staged'
  <2> SUFFICES ASSUME NEW d \in CPUs, d # c PROVE Stage(d)'
    BY DEF Staged
  <2>1. Stage(d)
    BY DEF IInv, Staged
  <2>2. CASE pc[d] = "idle"
    BY <1>3, <2>2 DEF Stage
  <2>3. CASE pc[d] # "idle"
    <3>1. seg[d] \in Segments /\ seg[d].flow \in Flows \ {f}
      BY <2>3 DEF IInv, TypeOK, Segments
    <3>2. standing'[seg[d].flow] = standing[seg[d].flow]
      BY <3>1
    <3>3. seg[d].flow \in allowed' => seg[d].flow \in allowed
      BY <3>1
    <3>4. QED
      BY <1>3, <2>1, <3>2, <3>3 DEF Stage
  <2>4. QED
    BY <2>2, <2>3
<1>6. EntriesAreCurrent'
  <2> SUFFICES ASSUME NEW g \in allowed', g \notin Forgetting' PROVE standing'[g] = "current"
    BY DEF EntriesAreCurrent
  <2>1. CASE g = f
    <3>1. access \notin {"forget_old", "forget_closed"}
      BY <1>2, <2>1 DEF Forgetting
    <3>2. QED
      BY <2>1, <3>1
  <2>2. CASE g # f
    <3>1. g \in allowed /\ g \in Flows
      BY <1>1, <2>2
    <3>2. g \notin Forgetting
      BY <1>3, <2>2 DEF Forgetting
    <3>3. QED
      BY <2>2, <3>1, <3>2 DEF IInv, EntriesAreCurrent
  <2>3. QED
    BY <2>1, <2>2
<1>7. QED
  BY <1>4, <1>5, <1>6

\* A verdict decided by c, whatever it did to the entry of its own flow before.
LEMMA DecideFrame ==
    ASSUME IInv,
           NEW c \in CPUs, NEW s \in Segments, NEW action \in Actions,
           pc[c] # "idle" => seg[c] = s,
           \A d \in CPUs : (d # c /\ pc[d] # "idle") => seg[d].flow # s.flow,
           Decide(c, s, action),
           allowed' \subseteq allowed \cup {s.flow},
           s.flow \in allowed' => standing[s.flow] = "current" \/ s.end
    PROVE  Exclusive' /\ Staged' /\ EntriesAreCurrent'
<1> DEFINE access == IF s.end THEN "forget_closed" ELSE "idle"
           held   == IF s.end THEN s ELSE None
<1>1. /\ \A g \in Flows \ {s.flow} : standing'[g] = standing[g]
      /\ ~s.end => standing' = standing
      /\ s.end => standing'[s.flow] # "current"
  BY DecideEffect DEF IInv
<1>2. pc' = [pc EXCEPT ![c] = access] /\ seg' = [seg EXCEPT ![c] = held]
  BY DEF Decide
<1>3. access # "idle" => held = s
  OBVIOUS
<1>4. Stage(c)'
  <2>1. pc'[c] = access /\ seg'[c] = held
    BY <1>2 DEF IInv, TypeOK
  <2>2. QED
    BY <1>1, <2>1 DEF Stage
<1>5. s.flow \in allowed' =>
         \/ standing'[s.flow] = "current"
         \/ access \in {"forget_old", "forget_closed"}
  BY <1>1
<1> HIDE DEF access, held
<1>6. QED
  BY <1>1, <1>2, <1>3, <1>4, <1>5, StepFrame

\* The CPU that takes a segment in, and the CPU that holds one, own its flow.
LEMMA HolderOwns ==
    ASSUME IInv, NEW c \in CPUs, pc[c] # "idle"
    PROVE  /\ seg[c] \in Segments
           /\ \A d \in CPUs : (d # c /\ pc[d] # "idle") => seg[d].flow # seg[c].flow
BY DEF IInv, TypeOK, Exclusive

\* A CPU about to take in s is idle, and no other one holds s's flow.
LEMMA ReceiverOwns ==
    ASSUME Steered, NEW c \in CPUs, NEW s \in Segments, Idle(c, s)
    PROVE  /\ pc[c] = "idle"
           /\ \A d \in CPUs : (d # c /\ pc[d] # "idle") => seg[d].flow # s.flow
BY DEF Idle, Busy

\* The invariant holds before the first segment.
LEMMA InvInit == Init => IInv
<1>1. SUFFICES ASSUME Init PROVE Exclusive /\ Staged /\ EntriesAreCurrent
  BY TypeInit DEF IInv
<1>2. QED
  BY <1>1 DEF Init, Exclusive, Staged, Stage, EntriesAreCurrent

\* Every access of the map keeps the invariant, one case for each access.
LEMMA InvStep == Steered /\ IInv /\ [Next]_vars => IInv'
<1> SUFFICES ASSUME Steered, IInv, [Next]_vars
             PROVE  Exclusive' /\ Staged' /\ EntriesAreCurrent'
  BY TypeStep DEF IInv
<1> DEFINE Goal == Exclusive' /\ Staged' /\ EntriesAreCurrent'
<1>0. TypeOK
  BY DEF IInv
<1>1. CASE Attach
  BY <1>1 DEF Attach, IInv, Exclusive, Staged, Stage, EntriesAreCurrent
<1>2. CASE Detach
  BY <1>2 DEF Detach, IInv, Exclusive, Staged, Stage, EntriesAreCurrent, Forgetting
<1>3. ASSUME NEW c \in CPUs, NEW s \in Segments, ReceiveSyn(c, s) PROVE Goal
  <2>1. /\ pc[c] = "idle"
        /\ \A d \in CPUs : (d # c /\ pc[d] # "idle") => seg[d].flow # s.flow
    BY <1>3, ReceiverOwns DEF ReceiveSyn
  <2>2. /\ pc' = [pc EXCEPT ![c] = "forget_old"] /\ seg' = [seg EXCEPT ![c] = s]
        /\ allowed' = allowed /\ s.syn
    BY <1>3 DEF ReceiveSyn, Continue
  <2>3. /\ \A g \in Flows \ {s.flow} : standing'[g] = standing[g]
        /\ s.data = "handshake" => standing'[s.flow] = "current"
        /\ s.data # "handshake" => standing'[s.flow] # "current"
    BY <1>0, <1>3, ArrivedEffect DEF ReceiveSyn, TypeOK
  <2>4. Stage(c)'
    BY <1>0, <2>2, <2>3 DEF Stage, TypeOK
  <2>5. QED
    BY <2>1, <2>2, <2>3, <2>4, StepFrame
<1>4. ASSUME NEW c \in CPUs, NEW s \in Segments, ReceiveBare(c, s) PROVE Goal
  <2>1. /\ pc[c] = "idle"
        /\ \A d \in CPUs : (d # c /\ pc[d] # "idle") => seg[d].flow # s.flow
    BY <1>4, ReceiverOwns DEF ReceiveBare
  <2>2. Decide(c, s, "PASS") /\ allowed' = allowed
    BY <1>4 DEF ReceiveBare
  <2>3. s.flow \in allowed => standing[s.flow] = "current"
    <3>1. s.flow \notin Forgetting
      BY <2>1 DEF Forgetting
    <3>2. QED
      BY <3>1 DEF IInv, EntriesAreCurrent
  <2>4. QED
    BY <2>1, <2>2, <2>3, DecideFrame DEF Actions
<1>5. ASSUME NEW c \in CPUs, NEW s \in Segments, ReceiveData(c, s) PROVE Goal
  <2>1. /\ pc[c] = "idle"
        /\ \A d \in CPUs : (d # c /\ pc[d] # "idle") => seg[d].flow # s.flow
    BY <1>5, ReceiverOwns DEF ReceiveData
  <2>2. /\ pc' = [pc EXCEPT ![c] = "lookup"] /\ seg' = [seg EXCEPT ![c] = s]
        /\ allowed' = allowed /\ ~s.syn /\ s.data # "none"
    BY <1>5 DEF ReceiveData, Continue
  <2>3. /\ \A g \in Flows \ {s.flow} : standing'[g] = standing[g]
        /\ s.data = "handshake" => standing'[s.flow] = "current"
        /\ standing[s.flow] = "current" => standing'[s.flow] = "current"
    BY <1>0, <1>5, ArrivedEffect DEF ReceiveData, TypeOK, Segments
  <2>4. Stage(c)'
    BY <1>0, <2>2, <2>3 DEF Stage, TypeOK
  <2>5. s.flow \in allowed => standing[s.flow] = "current"
    <3>1. s.flow \notin Forgetting
      BY <2>1 DEF Forgetting
    <3>2. QED
      BY <3>1 DEF IInv, EntriesAreCurrent
  <2>6. QED
    BY <2>1, <2>2, <2>3, <2>4, <2>5, StepFrame
<1>6. ASSUME NEW c \in CPUs, ForgetOld(c) PROVE Goal
  <2>1. /\ seg[c] \in Segments /\ pc[c] = "forget_old" /\ Stage(c)
        /\ \A d \in CPUs : (d # c /\ pc[d] # "idle") => seg[d].flow # seg[c].flow
    BY <1>6, HolderOwns DEF ForgetOld, IInv, Staged
  <2>2. allowed' = allowed \ {seg[c].flow}
    BY <1>6 DEF ForgetOld
  <2>3. CASE Decide(c, seg[c], "PASS")
    BY <2>1, <2>2, <2>3, DecideFrame DEF Actions
  <2>4. CASE seg[c].data # "none" /\ Continue(c, seg[c], "lookup") /\ UNCHANGED standing
    <3>1. /\ pc' = [pc EXCEPT ![c] = "lookup"] /\ seg' = [seg EXCEPT ![c] = seg[c]]
      BY <2>4 DEF Continue
    <3>2. Stage(c)'
      BY <1>0, <2>1, <2>2, <2>4, <3>1 DEF Stage, TypeOK
    <3>3. QED
      BY <2>1, <2>2, <2>4, <3>1, <3>2, StepFrame
  <2>5. QED
    BY <1>6, <2>3, <2>4 DEF ForgetOld
<1>7. ASSUME NEW c \in CPUs, Lookup(c) PROVE Goal
  <2>1. /\ seg[c] \in Segments /\ pc[c] = "lookup" /\ Stage(c)
        /\ \A d \in CPUs : (d # c /\ pc[d] # "idle") => seg[d].flow # seg[c].flow
    BY <1>7, HolderOwns DEF Lookup, IInv, Staged
  <2>2. allowed' = allowed
    BY <1>7 DEF Lookup
  <2>3. seg[c].flow \in allowed => standing[seg[c].flow] = "current"
    <3>1. seg[c].flow \notin Forgetting
      BY <2>1 DEF Forgetting
    <3>2. QED
      BY <3>1 DEF IInv, EntriesAreCurrent
  <2>4. CASE /\ Remembers(allowed, seg[c])
             /\ Continue(c, seg[c], "remember")
             /\ UNCHANGED standing
    <3>1. /\ pc' = [pc EXCEPT ![c] = "remember"] /\ seg' = [seg EXCEPT ![c] = seg[c]]
      BY <2>4 DEF Continue
    <3>2. Stage(c)'
      BY <1>0, <2>1, <2>2, <2>4, <3>1 DEF Stage, TypeOK, Remembers
    <3>3. QED
      BY <2>1, <2>2, <2>3, <2>4, <3>1, <3>2, StepFrame
  <2>5. CASE Decide(c, seg[c], Action(allowed, seg[c]))
    <3>1. Action(allowed, seg[c]) \in Actions
      BY DEF Action, Actions
    <3>2. QED
      BY <2>1, <2>2, <2>3, <2>5, <3>1, DecideFrame
  <2>6. QED
    BY <1>7, <2>4, <2>5 DEF Lookup
<1>8. ASSUME NEW c \in CPUs, Remember(c) PROVE Goal
  <2>1. /\ seg[c] \in Segments /\ pc[c] = "remember" /\ Stage(c)
        /\ \A d \in CPUs : (d # c /\ pc[d] # "idle") => seg[d].flow # seg[c].flow
    BY <1>8, HolderOwns DEF Remember, IInv, Staged
  <2>2. Decide(c, seg[c], "PASS") /\ allowed' \subseteq allowed \cup {seg[c].flow}
    BY <1>8, InsertedAdds DEF Remember
  <2>3. standing[seg[c].flow] = "current"
    BY <2>1 DEF Stage
  <2>4. QED
    BY <2>1, <2>2, <2>3, DecideFrame DEF Actions
<1>9. ASSUME NEW c \in CPUs, ForgetClosed(c) PROVE Goal
  <2>1. /\ seg[c] \in Segments
        /\ \A d \in CPUs : (d # c /\ pc[d] # "idle") => seg[d].flow # seg[c].flow
    BY <1>9, HolderOwns DEF ForgetClosed
  <2>2. /\ pc' = [pc EXCEPT ![c] = "idle"] /\ seg' = [seg EXCEPT ![c] = None]
        /\ allowed' = allowed \ {seg[c].flow} /\ standing' = standing
    BY <1>9 DEF ForgetClosed
  <2>3. Stage(c)'
    BY <1>0, <2>2 DEF Stage, TypeOK
  <2>4. QED
    BY <2>1, <2>2, <2>3, StepFrame
<1>10. CASE UNCHANGED vars
  BY <1>10 DEF vars, IInv, Exclusive, Staged, Stage, EntriesAreCurrent, Forgetting
<1>11. QED
  BY <1>1, <1>2, <1>3, <1>4, <1>5, <1>6, <1>7, <1>8, <1>9, <1>10 DEF Next, Receive

\* On steered flows the invariant holds throughout.
LEMMA InvAlways == ASSUME Steered PROVE Spec => []IInv
<1>1. Init => IInv
  BY InvInit
<1>2. IInv /\ [Next]_vars => IInv'
  BY InvStep
<1>3. QED
  BY <1>1, <1>2, PTL DEF Spec

\* On a network card that steers flows, no entry of ALLOWED_FLOWS outlives the
\* connection whose handshake made it.
THEOREM NoEntryCarriesOver == ASSUME Steered PROVE Spec => []EntriesAreCurrent
<1>1. IInv => EntriesAreCurrent
  BY DEF IInv
<1>2. QED
  BY <1>1, InvAlways, PTL

\* On a network card that steers flows, a payload that is no handshake passes
\* only on a connection that has shown one.
THEOREM NoDataUnearned == ASSUME Steered PROVE Spec => PassedDataIsCurrent
<1> DEFINE Earned == last' # last /\ PassedOther => standing[last'.seg.flow] = "current"
<1>1. IInv /\ [Next]_vars => [Earned]_vars
  <2> SUFFICES ASSUME IInv, Next, last' # last, PassedOther
               PROVE  standing[last'.seg.flow] = "current"
    BY DEF vars
  <2>1. ASSUME NEW c \in CPUs, NEW s \in Segments, ReceiveBare(c, s) PROVE FALSE
    BY <2>1 DEF ReceiveBare, Decide, PassedOther
  <2>2. ASSUME NEW c \in CPUs, ForgetOld(c) PROVE FALSE
    BY <2>2 DEF ForgetOld, Decide, Continue, PassedOther
  <2>3. ASSUME NEW c \in CPUs, Remember(c) PROVE FALSE
    BY <2>3 DEF Remember, Decide, PassedOther, IInv, Staged, Stage
  <2>4. ASSUME NEW c \in CPUs, Lookup(c) PROVE standing[last'.seg.flow] = "current"
    <3>1. /\ last'.seg = seg[c]
          /\ last'.action = Action(allowed, seg[c])
      BY <2>4 DEF Lookup, Decide, Continue
    <3>2. seg[c].flow \in allowed
      BY <3>1 DEF PassedOther, Action, Accepts
    <3>3. pc[c] = "lookup"
      BY <2>4 DEF Lookup
    <3>4. seg[c].flow \notin Forgetting
      BY <3>3 DEF Forgetting, IInv, Exclusive
    <3>5. QED
      BY <3>1, <3>2, <3>4 DEF IInv, EntriesAreCurrent
  <2>5. QED
    BY <2>1, <2>2, <2>3, <2>4, WhoDecides
<1>2. QED
  BY <1>1, InvAlways, PTL DEF Spec, PassedDataIsCurrent

-----------------------------------------------------------------------------
(* The other direction, again on steered flows: what has shown its handshake *)
(* is dropped only if the map gave it up.                                    *)

\* A step that touches one flow only keeps the others remembered; its own flow
\* must be remembered, or given up, or about to be remembered.
LEMMA RememberedFrame ==
    ASSUME IInv, CurrentIsRemembered,
           NEW c \in CPUs, NEW s \in Segments, NEW access, NEW held,
           pc[c] # "idle" => seg[c] = s,
           pc' = [pc EXCEPT ![c] = access],
           seg' = [seg EXCEPT ![c] = held],
           \A g \in Flows \ {s.flow} : standing'[g] = standing[g],
           \A g \in (allowed \cup lost) \ {s.flow} : g \in allowed' \cup lost',
           standing'[s.flow] = "current" =>
              \/ s.flow \in allowed' \cup lost'
              \/ /\ access \in {"forget_old", "lookup", "remember"}
                 /\ held = s
                 /\ s.data = "handshake"
    PROVE  CurrentIsRemembered'
<1>1. /\ pc'[c] = access /\ seg'[c] = held
      /\ \A d \in CPUs \ {c} : pc'[d] = pc[d] /\ seg'[d] = seg[d]
  BY DEF IInv, TypeOK
<1> SUFFICES ASSUME NEW g \in Flows, standing'[g] = "current"
             PROVE  g \in allowed' \cup lost' \cup Showing'
  BY DEF CurrentIsRemembered
<1>2. CASE g = s.flow
  BY <1>1, <1>2 DEF Showing
<1>3. CASE g # s.flow
  <2>1. g \in allowed \cup lost \cup Showing
    BY <1>3 DEF CurrentIsRemembered
  <2>2. g \in Showing => g \in Showing'
    BY <1>1, <1>3 DEF Showing
  <2>3. QED
    BY <1>3, <2>1, <2>2
<1>4. QED
  BY <1>2, <1>3

\* A current flow in the hands of one CPU only, which does not hold a handshake.
LEMMA RememberedHere ==
    ASSUME CurrentIsRemembered,
           NEW c \in CPUs, NEW s \in Segments,
           pc[c] # "idle" => seg[c] = s,
           \A d \in CPUs : (d # c /\ pc[d] # "idle") => seg[d].flow # s.flow,
           pc[c] = "idle" \/ s.data # "handshake",
           standing[s.flow] = "current"
    PROVE  s.flow \in allowed \cup lost
<1>1. s.flow \in allowed \cup lost \cup Showing
  BY DEF CurrentIsRemembered, Segments
<1>2. s.flow \notin Showing
  BY DEF Showing
<1>3. QED
  BY <1>1, <1>2

\* A verdict that keeps the entries of the other flows, and of its own if current.
LEMMA DecideRemembers ==
    ASSUME IInv, CurrentIsRemembered,
           NEW c \in CPUs, NEW s \in Segments, NEW action \in Actions,
           pc[c] # "idle" => seg[c] = s,
           Decide(c, s, action),
           \A g \in (allowed \cup lost) \ {s.flow} : g \in allowed' \cup lost',
           standing[s.flow] = "current" => s.flow \in allowed' \cup lost'
    PROVE  CurrentIsRemembered'
<1> DEFINE access == IF s.end THEN "forget_closed" ELSE "idle"
           held   == IF s.end THEN s ELSE None
<1>1. /\ \A g \in Flows \ {s.flow} : standing'[g] = standing[g]
      /\ ~s.end => standing' = standing
      /\ s.end => standing'[s.flow] # "current"
  BY DecideEffect DEF IInv
<1>2. pc' = [pc EXCEPT ![c] = access] /\ seg' = [seg EXCEPT ![c] = held]
  BY DEF Decide
<1>3. standing'[s.flow] = "current" => s.flow \in allowed' \cup lost'
  BY <1>1
<1> HIDE DEF access, held
<1>4. QED
  BY <1>1, <1>2, <1>3, RememberedFrame

\* Every access of the map keeps the current flows remembered.
LEMMA RememberedStep ==
    Steered /\ IInv /\ CurrentIsRemembered /\ [Next]_vars => CurrentIsRemembered'
<1> SUFFICES ASSUME Steered, IInv, CurrentIsRemembered, [Next]_vars
             PROVE  CurrentIsRemembered'
  OBVIOUS
<1>0. TypeOK
  BY DEF IInv
<1>1. CASE Attach
  BY <1>1 DEF Attach, CurrentIsRemembered
<1>2. CASE Detach
  BY <1>2 DEF Detach, CurrentIsRemembered, Showing
<1>3. ASSUME NEW c \in CPUs, NEW s \in Segments, ReceiveSyn(c, s)
      PROVE  CurrentIsRemembered'
  <2>1. /\ pc[c] = "idle"
        /\ pc' = [pc EXCEPT ![c] = "forget_old"] /\ seg' = [seg EXCEPT ![c] = s]
        /\ allowed' = allowed /\ lost' = lost /\ s.syn
    BY <1>3 DEF ReceiveSyn, Idle, Continue
  <2>2. /\ \A g \in Flows \ {s.flow} : standing'[g] = standing[g]
        /\ s.data # "handshake" => standing'[s.flow] # "current"
    BY <1>0, <1>3, <2>1, ArrivedEffect DEF ReceiveSyn, TypeOK
  <2>3. QED
    BY <2>1, <2>2, RememberedFrame
<1>4. ASSUME NEW c \in CPUs, NEW s \in Segments, ReceiveBare(c, s)
      PROVE  CurrentIsRemembered'
  <2>1. /\ pc[c] = "idle"
        /\ \A d \in CPUs : (d # c /\ pc[d] # "idle") => seg[d].flow # s.flow
    BY <1>4, ReceiverOwns DEF ReceiveBare
  <2>2. Decide(c, s, "PASS") /\ allowed' = allowed /\ lost' = lost
    BY <1>4 DEF ReceiveBare
  <2>3. standing[s.flow] = "current" => s.flow \in allowed \cup lost
    BY <2>1, RememberedHere
  <2>4. QED
    BY <2>1, <2>2, <2>3, DecideRemembers DEF Actions
<1>5. ASSUME NEW c \in CPUs, NEW s \in Segments, ReceiveData(c, s)
      PROVE  CurrentIsRemembered'
  <2>1. /\ pc[c] = "idle"
        /\ \A d \in CPUs : (d # c /\ pc[d] # "idle") => seg[d].flow # s.flow
    BY <1>5, ReceiverOwns DEF ReceiveData
  <2>2. /\ pc' = [pc EXCEPT ![c] = "lookup"] /\ seg' = [seg EXCEPT ![c] = s]
        /\ allowed' = allowed /\ lost' = lost /\ ~s.syn
    BY <1>5 DEF ReceiveData, Continue
  <2>3. /\ \A g \in Flows \ {s.flow} : standing'[g] = standing[g]
        /\ s.data # "handshake" => standing' = standing
    BY <1>0, <1>5, <2>2, ArrivedEffect DEF ReceiveData, TypeOK
  <2>4. standing[s.flow] = "current" => s.flow \in allowed \cup lost
    BY <2>1, RememberedHere
  <2>5. QED
    BY <2>1, <2>2, <2>3, <2>4, RememberedFrame
<1>6. ASSUME NEW c \in CPUs, ForgetOld(c) PROVE CurrentIsRemembered'
  <2>1. /\ seg[c] \in Segments /\ pc[c] = "forget_old" /\ Stage(c)
        /\ allowed' = allowed \ {seg[c].flow} /\ lost' = lost
    BY <1>6, HolderOwns DEF ForgetOld, IInv, Staged
  <2>2. CASE seg[c].data = "none" /\ Decide(c, seg[c], "PASS")
    <3>1. standing[seg[c].flow] # "current"
      BY <2>1, <2>2 DEF Stage
    <3>2. QED
      BY <2>1, <2>2, <3>1, DecideRemembers DEF Actions
  <2>3. CASE Continue(c, seg[c], "lookup") /\ UNCHANGED standing
    <3>1. seg[c].data # "handshake" => standing[seg[c].flow] # "current"
      BY <2>1 DEF Stage
    <3>2. QED
      BY <2>1, <2>3, <3>1, RememberedFrame DEF Continue
  <2>4. QED
    BY <1>6, <2>2, <2>3 DEF ForgetOld
<1>7. ASSUME NEW c \in CPUs, Lookup(c) PROVE CurrentIsRemembered'
  <2>1. /\ seg[c] \in Segments /\ pc[c] = "lookup"
        /\ \A d \in CPUs : (d # c /\ pc[d] # "idle") => seg[d].flow # seg[c].flow
        /\ allowed' = allowed /\ lost' = lost
    BY <1>7, HolderOwns DEF Lookup
  <2>2. CASE /\ Remembers(allowed, seg[c])
             /\ Continue(c, seg[c], "remember")
             /\ UNCHANGED standing
    <3>1. seg[c].data = "handshake"
      BY <2>2 DEF Remembers
    <3>2. QED
      BY <2>1, <2>2, <3>1, RememberedFrame DEF Continue
  <2>3. CASE /\ ~Remembers(allowed, seg[c])
             /\ Decide(c, seg[c], Action(allowed, seg[c]))
    <3>1. Action(allowed, seg[c]) \in Actions
      BY DEF Action, Actions
    <3>2. standing[seg[c].flow] = "current" => seg[c].flow \in allowed \cup lost
      BY <2>1, <2>3, RememberedHere DEF Remembers
    <3>3. QED
      BY <2>1, <2>3, <3>1, <3>2, DecideRemembers
  <2>4. QED
    BY <1>7, <2>2, <2>3 DEF Lookup
<1>8. ASSUME NEW c \in CPUs, Remember(c) PROVE CurrentIsRemembered'
  <2>1. /\ seg[c] \in Segments /\ pc[c] = "remember"
        /\ allowed' \in Inserted(allowed, seg[c].flow)
        /\ lost' = (lost \cup GivenUp(seg[c].flow)) \ allowed'
        /\ Decide(c, seg[c], "PASS")
    BY <1>8, HolderOwns DEF Remember
  <2>2. \A g \in allowed \cup lost \cup {seg[c].flow} : g \in allowed' \cup lost'
    <3>1. CASE Cardinality(allowed) >= EvictFrom
      BY <2>1, <3>1 DEF GivenUp
    <3>2. CASE ~(Cardinality(allowed) >= EvictFrom)
      <4>1. allowed' = allowed \cup {seg[c].flow}
        BY <2>1, <3>2, InsertedKeeps
      <4>2. QED
        BY <2>1, <4>1
    <3>3. QED
      BY <3>1, <3>2
  <2>3. QED
    BY <2>1, <2>2, DecideRemembers DEF Actions
<1>9. ASSUME NEW c \in CPUs, ForgetClosed(c) PROVE CurrentIsRemembered'
  <2>1. /\ seg[c] \in Segments /\ standing[seg[c].flow] # "current"
        /\ pc' = [pc EXCEPT ![c] = "idle"] /\ seg' = [seg EXCEPT ![c] = None]
        /\ allowed' = allowed \ {seg[c].flow} /\ lost' = lost /\ standing' = standing
    BY <1>9, HolderOwns DEF ForgetClosed, IInv, Staged, Stage
  <2>2. QED
    BY <2>1, RememberedFrame
<1>10. CASE UNCHANGED vars
  BY <1>10 DEF vars, CurrentIsRemembered, Showing
<1>11. QED
  BY <1>1, <1>2, <1>3, <1>4, <1>5, <1>6, <1>7, <1>8, <1>9, <1>10 DEF Next, Receive

\* On a network card that steers flows, a connection that has shown its handshake
\* loses a segment to the filter only if a full map gave its entry up.
THEOREM NoDropUndeserved == ASSUME Steered PROVE Spec => CurrentIsPassed
<1> DEFINE Deserved == last' # last /\ Dropped =>
                          \/ standing[last'.seg.flow] # "current"
                          \/ last'.seg.flow \in lost
<1>1. Init => CurrentIsRemembered
  BY DEF Init, CurrentIsRemembered
<1>2. Steered /\ IInv /\ CurrentIsRemembered /\ [Next]_vars => CurrentIsRemembered'
  BY RememberedStep
<1>3. IInv /\ CurrentIsRemembered /\ [Next]_vars => [Deserved]_vars
  <2> SUFFICES ASSUME IInv, CurrentIsRemembered, Next, last' # last, Dropped,
                      standing[last'.seg.flow] = "current"
               PROVE  last'.seg.flow \in lost
    BY DEF vars
  <2>1. ASSUME NEW c \in CPUs, NEW s \in Segments, ReceiveBare(c, s) PROVE FALSE
    BY <2>1 DEF ReceiveBare, Decide, Dropped
  <2>2. ASSUME NEW c \in CPUs, ForgetOld(c) PROVE FALSE
    BY <2>2 DEF ForgetOld, Decide, Continue, Dropped
  <2>3. ASSUME NEW c \in CPUs, Remember(c) PROVE FALSE
    BY <2>3 DEF Remember, Decide, Dropped
  <2>4. ASSUME NEW c \in CPUs, Lookup(c) PROVE last'.seg.flow \in lost
    <3>1. /\ last'.seg = seg[c]
          /\ last'.action = Action(allowed, seg[c])
          /\ pc[c] = "lookup"
      BY <2>4 DEF Lookup, Decide, Continue
    <3>2. seg[c].flow \notin allowed /\ seg[c].data # "handshake"
      BY <3>1 DEF Dropped, Action, Accepts
    <3>3. /\ seg[c] \in Segments
          /\ \A d \in CPUs : (d # c /\ pc[d] # "idle") => seg[d].flow # seg[c].flow
      BY <3>1, HolderOwns
    <3>4. seg[c].flow \in allowed \cup lost
      BY <3>1, <3>2, <3>3, RememberedHere
    <3>5. QED
      BY <3>1, <3>2, <3>4
  <2>5. QED
    BY <2>1, <2>2, <2>3, <2>4, WhoDecides
<1>4. QED
  BY <1>1, <1>2, <1>3, InvAlways, PTL DEF Spec, CurrentIsPassed

-----------------------------------------------------------------------------
(* Refinement: the interleaved program implements the one-segment-at-a-time  *)
(* gate.  The verdict of the gate is taken at the step that decides; the     *)
(* removal for a SYN before it is a Forget of the gate, the removal for a    *)
(* FIN or RST after it a stutter, since Settled no longer counts the entry.  *)

\* What c knows of its own flow, the gate knows too.
LEMMA SettledEffect ==
    ASSUME IInv,
           NEW c \in CPUs, NEW s \in Segments,
           pc[c] # "forget_closed",
           \A d \in CPUs : (d # c /\ pc[d] # "idle") => seg[d].flow # s.flow
    PROVE  s.flow \in Settled <=> s.flow \in allowed
BY DEF Settled

\* A decision of c hides its own entry if the segment is a FIN or RST.
LEMMA DecideSettles ==
    ASSUME IInv,
           NEW c \in CPUs, NEW s \in Segments, NEW action,
           pc[c] # "forget_closed",
           Decide(c, s, action)
    PROVE  Settled' = AfterEnd(allowed' \ {seg[d].flow :
                                  d \in {e \in CPUs : pc[e] = "forget_closed"}}, s)
<1> DEFINE closing == {e \in CPUs : pc[e] = "forget_closed"}
<1>1. pc \in [CPUs -> {"idle", "forget_old", "lookup", "remember", "forget_closed"}]
      /\ seg \in [CPUs -> Segments \cup {None}]
  BY DEF IInv, TypeOK
<1>2. \A d \in CPUs \ {c} : pc'[d] = pc[d] /\ seg'[d] = seg[d]
  BY <1>1 DEF Decide
<1>3. CASE s.end
  <2>1. pc'[c] = "forget_closed" /\ seg'[c] = s
    BY <1>1, <1>3 DEF Decide
  <2>2. {e \in CPUs : pc'[e] = "forget_closed"} = closing \cup {c}
    BY <1>2, <2>1
  <2>3. {seg'[d].flow : d \in closing \cup {c}} = {seg[d].flow : d \in closing} \cup {s.flow}
    BY <1>2, <2>1
  <2>4. QED
    BY <1>3, <2>2, <2>3 DEF Settled, AfterEnd
<1>4. CASE ~s.end
  <2>1. pc'[c] = "idle"
    BY <1>1, <1>4 DEF Decide
  <2>2. {e \in CPUs : pc'[e] = "forget_closed"} = closing
    BY <1>2, <2>1
  <2>3. {seg'[d].flow : d \in closing} = {seg[d].flow : d \in closing}
    BY <1>2
  <2>4. QED
    BY <1>4, <2>2, <2>3 DEF Settled, AfterEnd
<1>5. QED
  BY <1>3, <1>4

\* A decision of c, taken on what its last access of the map found, is the
\* gate's verdict on the whole segment.
LEMMA DecideJudges ==
    ASSUME IInv,
           NEW c \in CPUs, NEW s \in Segments, NEW action,
           pc[c] # "forget_closed",
           \A d \in CPUs : (d # c /\ pc[d] # "idle") => seg[d].flow # s.flow,
           Decide(c, s, action),
           action = Action(AfterSyn(Settled, s), s),
           allowed' \subseteq IF s.data = "handshake"
                                THEN AfterSyn(allowed, s) \cup {s.flow}
                                ELSE AfterSyn(allowed, s)
    PROVE  Gate!Judge(s)
<1> DEFINE closing == {seg[d].flow : d \in {e \in CPUs : pc[e] = "forget_closed"}}
           found   == AfterSyn(Settled, s)
           best    == IF s.data = "handshake" THEN found \cup {s.flow} ELSE found
<1>1. s.flow \notin closing
  BY DEF IInv, TypeOK
<1>2. Settled' = AfterEnd(allowed' \ closing, s)
  BY DecideSettles
<1>3. allowed' \ closing \subseteq best
  BY DEF Settled, AfterSyn
<1>4. Settled' \subseteq AfterEnd(best, s)
  BY <1>2, <1>3 DEF AfterEnd
<1>5. last' = [seg |-> s, action |-> action]
  BY DEF Decide
<1>6. QED
  BY <1>4, <1>5 DEF Gate!Judge, Gate!AfterSyn, Gate!AfterEnd, Gate!Action, Gate!Accepts,
                   AfterSyn, AfterEnd, Action, Accepts

\* A step of c that decides nothing maps to a Forget or to a stutter.
LEMMA ContinueForgets ==
    ASSUME IInv,
           NEW c \in CPUs, NEW access, NEW s,
           pc[c] # "forget_closed", access # "forget_closed",
           Continue(c, s, access),
           allowed' \subseteq allowed
    PROVE  Gate!Forget
<1>1. /\ \A d \in CPUs \ {c} : pc'[d] = pc[d] /\ seg'[d] = seg[d]
      /\ pc'[c] = access
  BY DEF IInv, TypeOK, Continue
<1>2. {seg'[d].flow : d \in {e \in CPUs : pc'[e] = "forget_closed"}} =
      {seg[d].flow : d \in {e \in CPUs : pc[e] = "forget_closed"}}
  BY <1>1
<1>3. QED
  BY <1>2 DEF Settled, Gate!Forget, Continue

\* Every step is a verdict of the gate, a Forget, or a stutter.
LEMMA StepImplementsGate ==
    Steered /\ IInv /\ [Next]_vars => [Gate!Next]_(Gate!vars)
<1> SUFFICES ASSUME Steered, IInv, [Next]_vars
             PROVE  Gate!Forget \/ (\E s \in Segments : Gate!Judge(s))
                    \/ UNCHANGED <<Settled, last>>
  BY DEF Gate!Next, Gate!vars, Gate!Segments, Gate!Payloads, Segments, Payloads
<1> DEFINE Goal == \/ Gate!Forget \/ (\E s \in Segments : Gate!Judge(s))
                   \/ UNCHANGED <<Settled, last>>
<1>1. CASE Attach
  BY <1>1 DEF Attach, Settled, Gate!Forget
<1>2. CASE Detach
  BY <1>2 DEF Detach, Settled
<1>3. ASSUME NEW c \in CPUs, NEW s \in Segments, ReceiveSyn(c, s) PROVE Goal
  BY <1>3, ContinueForgets DEF ReceiveSyn, Idle
<1>4. ASSUME NEW c \in CPUs, NEW s \in Segments, ReceiveBare(c, s) PROVE Goal
  <2>1. /\ pc[c] = "idle"
        /\ \A d \in CPUs : (d # c /\ pc[d] # "idle") => seg[d].flow # s.flow
    BY <1>4, ReceiverOwns DEF ReceiveBare
  <2>2. /\ Decide(c, s, "PASS") /\ allowed' = allowed
        /\ ~s.syn /\ s.data = "none"
    BY <1>4 DEF ReceiveBare
  <2>3. Gate!Judge(s)
    BY <2>1, <2>2, DecideJudges DEF Action, Accepts, AfterSyn
  <2>4. QED
    BY <2>3
<1>5. ASSUME NEW c \in CPUs, NEW s \in Segments, ReceiveData(c, s) PROVE Goal
  BY <1>5, ContinueForgets DEF ReceiveData, Idle
<1>6. ASSUME NEW c \in CPUs, ForgetOld(c) PROVE Goal
  <2>1. /\ seg[c] \in Segments /\ pc[c] = "forget_old" /\ Stage(c)
        /\ \A d \in CPUs : (d # c /\ pc[d] # "idle") => seg[d].flow # seg[c].flow
    BY <1>6, HolderOwns DEF ForgetOld, IInv, Staged
  <2>2. allowed' = allowed \ {seg[c].flow}
    BY <1>6 DEF ForgetOld
  <2>3. CASE seg[c].data = "none" /\ Decide(c, seg[c], "PASS")
    <3>1. Gate!Judge(seg[c])
      BY <2>1, <2>2, <2>3, DecideJudges DEF Action, Accepts, AfterSyn
    <3>2. QED
      BY <2>1, <3>1
  <2>4. CASE Continue(c, seg[c], "lookup")
    BY <2>1, <2>2, <2>4, ContinueForgets
  <2>5. QED
    BY <1>6, <2>3, <2>4 DEF ForgetOld
<1>7. ASSUME NEW c \in CPUs, Lookup(c) PROVE Goal
  <2>1. /\ seg[c] \in Segments /\ pc[c] = "lookup" /\ Stage(c)
        /\ \A d \in CPUs : (d # c /\ pc[d] # "idle") => seg[d].flow # seg[c].flow
    BY <1>7, HolderOwns DEF Lookup, IInv, Staged
  <2>2. allowed' = allowed
    BY <1>7 DEF Lookup
  <2>3. CASE Continue(c, seg[c], "remember")
    BY <2>1, <2>2, <2>3, ContinueForgets
  <2>4. CASE Decide(c, seg[c], Action(allowed, seg[c]))
    <3>1. seg[c].syn => seg[c].flow \notin allowed
      BY <2>1 DEF Stage
    <3>2. seg[c].flow \in Settled <=> seg[c].flow \in allowed
      BY <2>1, SettledEffect
    <3>3. Action(allowed, seg[c]) = Action(AfterSyn(Settled, seg[c]), seg[c])
      BY <3>1, <3>2 DEF Action, Accepts, AfterSyn
    <3>4. allowed' \subseteq AfterSyn(allowed, seg[c])
      BY <2>2, <3>1 DEF AfterSyn
    <3>5. Gate!Judge(seg[c])
      BY <2>1, <2>4, <3>3, <3>4, DecideJudges
    <3>6. QED
      BY <2>1, <3>5
  <2>5. QED
    BY <1>7, <2>3, <2>4 DEF Lookup
<1>8. ASSUME NEW c \in CPUs, Remember(c) PROVE Goal
  <2>1. /\ seg[c] \in Segments /\ pc[c] = "remember" /\ Stage(c)
        /\ \A d \in CPUs : (d # c /\ pc[d] # "idle") => seg[d].flow # seg[c].flow
    BY <1>8, HolderOwns DEF Remember, IInv, Staged
  <2>2. Decide(c, seg[c], "PASS") /\ allowed' \subseteq allowed \cup {seg[c].flow}
    BY <1>8, InsertedAdds DEF Remember
  <2>3. seg[c].data = "handshake"
    BY <2>1 DEF Stage
  <2>4. "PASS" = Action(AfterSyn(Settled, seg[c]), seg[c])
    BY <2>3 DEF Action, Accepts
  <2>5. allowed' \subseteq AfterSyn(allowed, seg[c]) \cup {seg[c].flow}
    BY <2>2 DEF AfterSyn
  <2>6. Gate!Judge(seg[c])
    BY <2>1, <2>2, <2>3, <2>4, <2>5, DecideJudges
  <2>7. QED
    BY <2>1, <2>6
<1>9. ASSUME NEW c \in CPUs, ForgetClosed(c) PROVE Goal
  <2>1. /\ \A d \in CPUs \ {c} : pc'[d] = pc[d] /\ seg'[d] = seg[d]
        /\ pc[c] = "forget_closed" /\ pc'[c] = "idle"
        /\ allowed' = allowed \ {seg[c].flow} /\ last' = last
    BY <1>9 DEF ForgetClosed, IInv, TypeOK
  <2>2. {seg[d].flow : d \in {e \in CPUs : pc[e] = "forget_closed"}} =
        {seg'[d].flow : d \in {e \in CPUs : pc'[e] = "forget_closed"}} \cup {seg[c].flow}
    BY <2>1
  <2>3. QED
    BY <2>1, <2>2 DEF Settled
<1>10. CASE UNCHANGED vars
  BY <1>10 DEF vars, Settled
<1>11. QED
  BY <1>1, <1>2, <1>3, <1>4, <1>5, <1>6, <1>7, <1>8, <1>9, <1>10 DEF Next, Receive

\* On a network card that steers flows, the CPUs together judge as if the
\* segments came one at a time: FlowFilter implements FlowGate.
THEOREM ImplementsGate == ASSUME Steered PROVE Spec => GateSpec
<1>1. Init => Gate!Init
  BY DEF Init, Gate!Init, Settled
<1>2. Steered /\ IInv /\ [Next]_vars => [Gate!Next]_(Gate!vars)
  BY StepImplementsGate
<1>3. QED
  BY <1>1, <1>2, InvAlways, PTL DEF Spec, GateSpec, Gate!Spec
=============================================================================
