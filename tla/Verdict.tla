------------------------------ MODULE Verdict ------------------------------
(***************************************************************************)
(* What the eBPF program decides about one TCP segment, as operators.      *)
(*                                                                         *)
(* The function verdict (sniffer/mc-sniffer-ebpf/src/main.rs) judges every *)
(* IPv4/TCP segment to port 25565 from three facts: its flags, whether its *)
(* 4-tuple is in the map ALLOWED_FLOWS, and whether its payload starts     *)
(* with a valid handshake.  A segment is abstracted to those facts:        *)
(*                                                                         *)
(*   flow    the 4-tuple (FlowKey)                                         *)
(*   syn     tcp.flags.is_syn()                                            *)
(*   end     tcp.flags.is_fin() || tcp.flags.is_rst()                      *)
(*   data    "none"       payload_len = 0                                  *)
(*           "handshake"  check_handshake(..).is_ok()                      *)
(*           "other"      any other payload                                *)
(*                                                                         *)
(* The operators below are the four accesses verdict makes to the map, in  *)
(* the order of the code.  FlowGate takes them in one step, FlowFilter one *)
(* at a time on several CPUs.                                              *)
(***************************************************************************)
EXTENDS Naturals, FiniteSets

CONSTANTS
    Flows,       \* the FlowKeys seen arriving
    MaxEntries,  \* capacity of ALLOWED_FLOWS (1024 in the code)
    EvictFrom    \* number of entries from which an insert may evict or fail

ASSUME CapacityAssumption ==
    /\ MaxEntries \in Nat \ {0}
    /\ EvictFrom \in 0 .. MaxEntries

Payloads == {"none", "handshake", "other"}

Segments == [flow : Flows, syn : BOOLEAN, end : BOOLEAN, data : Payloads]

\* XDP_ABORTED is returned by the header parsers only, before a segment exists.
Actions == {"PASS", "DROP"}

Verdicts == [seg : Segments, action : Actions]

-----------------------------------------------------------------------------
(* The LRU hash map.  It is the kernel's: what is known here is what the    *)
(* comment above ALLOWED_FLOWS says of it and what the program checks.      *)

\* Mutant: eviction starts one entry too early.
InsertedEarly(known, f) ==
    LET losses == IF Cardinality(known) + 1 >= EvictFrom THEN SUBSET known ELSE {{}}
    IN  {(known \ lost) \cup {f} : lost \in losses} \cup {known}

\* Mutant: the map grows beyond its capacity.
InsertedBeyond(known, f) == {known \cup {f}}

\* The contents an insert of f may leave: once EvictFrom entries are there it
\* may evict any of them, or fail; it never leaves more than MaxEntries.
Inserted(known, f) ==
    LET full   == Cardinality(known) >= EvictFrom
        losses == IF full THEN SUBSET known ELSE {{}}
        stored == {(known \ lost) \cup {f} : lost \in losses}
        failed == IF full THEN {known} ELSE {}
    IN  {m \in stored \cup failed : Cardinality(m) <= MaxEntries}

-----------------------------------------------------------------------------
(* verdict, access by access.                                               *)

\* Mutant: a SYN leaves the old entry in place.
AfterSynKept(known, s) == known

\* "if tcp.flags.is_syn() { ALLOWED_FLOWS.remove(flow) }"
AfterSyn(known, s) == IF s.syn THEN known \ {s.flow} ELSE known

\* The three branches that return XDP_PASS: no payload, a remembered flow, a
\* handshake.  known is what the lookup sees, that is, after AfterSyn.
Accepts(known, s) ==
    \/ s.data = "none"
    \/ s.flow \in known
    \/ s.data = "handshake"

Action(known, s) == IF Accepts(known, s) THEN "PASS" ELSE "DROP"

\* The branch that calls insert: a handshake on a flow not remembered yet.
Remembers(known, s) == s.data = "handshake" /\ s.flow \notin known

\* Mutant: PSH is taken for FIN, so every payload closes the connection.
AfterEndOnPush(known, s) ==
    IF s.end \/ s.data # "none" THEN known \ {s.flow} ELSE known

\* "if tcp.flags.is_fin() || tcp.flags.is_rst() { ALLOWED_FLOWS.remove(flow) }"
AfterEnd(known, s) == IF s.end THEN known \ {s.flow} ELSE known

\* The contents a whole call of verdict may leave behind when nothing else
\* touches the map meanwhile.
MapsAfter(known, s) ==
    LET found  == AfterSyn(known, s)
        stored == IF Remembers(found, s) THEN Inserted(found, s.flow) ELSE {found}
    IN  {AfterEnd(m, s) : m \in stored}
=============================================================================
