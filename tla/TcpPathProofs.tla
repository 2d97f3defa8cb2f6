--------------------------- MODULE TcpPathProofs ---------------------------
(***************************************************************************)
(* Proofs about TcpPath, for all flows, streams, windows and bounds: it is *)
(* well typed, its verdicts are those of the gate, and on a network that   *)
(* keeps the order of a flow's packets no stranger is heard.               *)
(***************************************************************************)
EXTENDS TcpPath, FiniteSetTheorems, WellFoundedInduction, TLAPS

-----------------------------------------------------------------------------
(* Sequences and numbers.                                                   *)

LEMMA RemoveAtKeeps ==
    ASSUME NEW S, NEW s \in Seq(S), NEW i \in 1 .. Len(s)
    PROVE  /\ RemoveAt(s, i) \in Seq(S)
           /\ Len(RemoveAt(s, i)) = Len(s) - 1
           /\ \A j \in 1 .. Len(s) - 1 : RemoveAt(s, i)[j] = IF j < i THEN s[j] ELSE s[j + 1]
<1> DEFINE front == SubSeq(s, 1, i - 1)
           back  == SubSeq(s, i + 1, Len(s))
<1>1. /\ front \in Seq(S) /\ Len(front) = i - 1
      /\ \A j \in 1 .. i - 1 : front[j] = s[j]
  OBVIOUS
<1>2. /\ back \in Seq(S) /\ Len(back) = Len(s) - i
      /\ \A j \in 1 .. Len(s) - i : back[j] = s[i + j]
  OBVIOUS
<1> HIDE DEF front, back
<1>3. RemoveAt(s, i) = front \o back
  BY DEF RemoveAt, front, back
<1>4. front \o back \in Seq(S) /\ Len(front \o back) = Len(s) - 1
  BY <1>1, <1>2
<1>5. ASSUME NEW j \in 1 .. Len(s) - 1
      PROVE  (front \o back)[j] = IF j < i THEN s[j] ELSE s[j + 1]
  <2>1. CASE j < i
    BY <1>1, <1>2, <2>1
  <2>2. CASE ~(j < i)
    <3>1. (front \o back)[j] = back[j - (i - 1)]
      BY <1>1, <1>2, <2>2
    <3>2. j - (i - 1) \in 1 .. Len(s) - i /\ i + (j - (i - 1)) = j + 1
      BY <2>2
    <3>3. back[j - (i - 1)] = s[i + (j - (i - 1))]
      BY <1>2, <3>2
    <3>4. QED
      BY <2>2, <3>1, <3>2, <3>3
  <2>3. QED
    BY <2>1, <2>2
<1>6. QED
  BY <1>3, <1>4, <1>5

LEMMA ElementIn == ASSUME NEW S, NEW s \in Seq(S), NEW i \in 1 .. Len(s) PROVE s[i] \in S
OBVIOUS

\* A set of numbers has a least one.
LEMMA Least ==
    ASSUME NEW T \in SUBSET Nat, T # {}
    PROVE  \E n \in T : \A m \in T : n <= m
<1>1. PICK n \in T : \A m \in T : ~(<<m, n>> \in OpToRel(<, Nat))
  BY WFMin, NatLessThanWellFounded, Zenon
<1>2. \A m \in T : ~(m < n)
  BY <1>1, Zenon DEF OpToRel
<1>3. QED
  BY <1>2

-----------------------------------------------------------------------------
(* Packets and the map.                                                     *)

LEMMA StreamsAre ==
    ASSUME NEW f \in Flows
    PROVE  /\ Streams[f] \in Seq(Seq({"handshake", "other"}))
           /\ \A k \in 1 .. Len(Streams[f]) :
                /\ Streams[f][k] \in Seq({"handshake", "other"})
                /\ FinPos(f, k) \in Nat /\ FinPos(f, k) = Len(Streams[f][k]) + 1
                /\ DOMAIN Streams[f][k] = 1 .. Len(Streams[f][k])
BY PathAssumption DEF FinPos

LEMMA PacketsAre ==
    ASSUME NEW f \in Flows, NEW p
    PROVE  p \in Packets(f) <=>
             \E k \in 1 .. Len(Streams[f]) : \E i \in 0 .. FinPos(f, k) :
                p = [conn |-> k, pos |-> i]
BY DEF Packets, Connections

\* What the filter sees of a packet is a segment of its flow.
LEMMA SegmentOf ==
    ASSUME NEW f \in Flows, NEW p \in Packets(f)
    PROVE  LET s == AsSegment(f, p)
           IN  /\ s \in Segments /\ s.flow = f
               /\ s.syn <=> p.pos = 0
               /\ p.pos = 0 => s.data = "none"
               /\ p.pos \in DOMAIN Streams[f][p.conn] => s.data = Streams[f][p.conn][p.pos]
               /\ s.data = "handshake" => p.pos > 0 /\ HasHandshake(f, p.conn)
<1>0. PICK k \in 1 .. Len(Streams[f]) : \E i \in 0 .. FinPos(f, k) : p = [conn |-> k, pos |-> i]
  BY PacketsAre
<1>1. PICK i \in 0 .. FinPos(f, k) : p = [conn |-> k, pos |-> i]
  BY <1>0
<1>2. /\ p.conn = k /\ p.pos = i /\ i \in Nat
      /\ Streams[f][k] \in Seq({"handshake", "other"})
      /\ DOMAIN Streams[f][k] = 1 .. Len(Streams[f][k])
  BY <1>1, StreamsAre
<1> DEFINE data == IF i \in 1 .. Len(Streams[f][k]) THEN Streams[f][k][i] ELSE "none"
<1>3. data \in Payloads
  BY <1>2 DEF Payloads
<1>4. AsSegment(f, p) = [flow |-> f, syn |-> i = 0, end |-> i = FinPos(f, k), data |-> data]
  BY <1>2 DEF AsSegment
<1>5. AsSegment(f, p) \in Segments
  BY <1>3, <1>4 DEF Segments
<1>6. data = "handshake" => i > 0 /\ HasHandshake(f, k)
  BY <1>2 DEF HasHandshake, ToSet
<1>7. /\ i = 0 => data = "none"
      /\ i \in DOMAIN Streams[f][k] => data = Streams[f][k][i]
  BY <1>2
<1>8. /\ AsSegment(f, p).flow = f /\ AsSegment(f, p).data = data
      /\ AsSegment(f, p).syn = (i = 0)
  BY <1>4
<1> HIDE DEF data
<1>9. QED
  BY <1>2, <1>5, <1>6, <1>7, <1>8

\* What a call of verdict leaves in the map.
LEMMA MapsAfterAre ==
    ASSUME NEW known, known \subseteq Flows, IsFiniteSet(known),
           Cardinality(known) <= MaxEntries,
           NEW s \in Segments, NEW m \in MapsAfter(known, s)
    PROVE  /\ m \subseteq Flows /\ IsFiniteSet(m) /\ Cardinality(m) <= MaxEntries
           /\ m \subseteq known \cup {s.flow}
           /\ s.data # "handshake" => m \subseteq AfterEnd(AfterSyn(known, s), s)
           /\ m \subseteq AfterEnd(AfterSyn(known, s) \cup {s.flow}, s)
<1> DEFINE found  == AfterSyn(known, s)
           stored == IF Remembers(found, s) THEN Inserted(found, s.flow) ELSE {found}
<1>1. PICK n \in stored : m = AfterEnd(n, s)
  BY DEF MapsAfter
<1>2. found \subseteq known
  BY DEF AfterSyn
<1>3. s.flow \in Flows /\ MaxEntries \in Nat
  BY CapacityAssumption DEF Segments
<1>4. /\ n \subseteq found \cup {s.flow}
      /\ s.data # "handshake" => n = found
  BY <1>1 DEF Remembers, Inserted
<1>5. IsFiniteSet(known \cup {s.flow})
  BY FS_AddElement
<1>6. IsFiniteSet(n) /\ Cardinality(n) <= MaxEntries /\ Cardinality(n) \in Nat
  <2>1. IsFiniteSet(n) /\ Cardinality(n) \in Nat
    BY <1>2, <1>4, <1>5, FS_Subset, FS_CardinalityType
  <2>2. CASE Remembers(found, s)
    BY <1>1, <2>1, <2>2 DEF Inserted
  <2>3. CASE ~Remembers(found, s)
    <3>1. n \subseteq known
      BY <1>1, <1>2, <2>3
    <3>2. Cardinality(n) <= Cardinality(known) /\ Cardinality(known) \in Nat
      BY <3>1, FS_Subset, FS_CardinalityType
    <3>3. QED
      BY <1>3, <2>1, <3>2
  <2>4. QED
    BY <2>2, <2>3
<1>7. m \subseteq n
  BY <1>1 DEF AfterEnd
<1>8. IsFiniteSet(m) /\ Cardinality(m) <= MaxEntries
  <2>1. IsFiniteSet(m) /\ Cardinality(m) <= Cardinality(n) /\ Cardinality(m) \in Nat
    BY <1>6, <1>7, FS_Subset, FS_CardinalityType
  <2>2. QED
    BY <1>3, <1>6, <2>1
<1>9. m \subseteq AfterEnd(found \cup {s.flow}, s)
  BY <1>1, <1>4 DEF AfterEnd
<1>10. s.data # "handshake" => m \subseteq AfterEnd(found, s)
  BY <1>1, <1>4
<1>11. QED
  BY <1>2, <1>3, <1>4, <1>7, <1>8, <1>9, <1>10

\* The server's acknowledgement is the first position it lacks.
LEMMA ExpectedIs ==
    ASSUME PathTypes, NEW f \in Flows, FlowTyped(f), serving[f] # 0
    PROVE  /\ Expected(f) \in 0 .. FinPos(f, serving[f]) + 1
           /\ Expected(f) \notin got[f]
           /\ \A m \in 0 .. Expected(f) - 1 : m \in got[f]
<1> DEFINE fin == FinPos(f, serving[f])
           lacking == {n \in Nat : n \notin got[f]}
<1>1. serving[f] \in 1 .. Len(Streams[f])
  <2>1. serving[f] \in Nat /\ Len(Streams[f]) \in Nat
    BY StreamsAre DEF PathTypes
  <2>2. conn[f] \in 0 .. Len(Streams[f]) /\ serving[f] <= conn[f]
    BY DEF FlowTyped
  <2>3. QED
    BY <2>1, <2>2
<1>2. fin \in Nat
  BY <1>1, StreamsAre
<1>3. got[f] \subseteq 0 .. fin
  BY DEF FlowTyped
<1> HIDE DEF fin
<1>4. fin + 1 \in lacking
  BY <1>2, <1>3
<1>5. PICK n \in lacking : \A m \in lacking : n <= m
  BY <1>4, Least
<1>6. /\ n \in 0 .. fin + 1 /\ n \notin got[f]
      /\ \A m \in 0 .. n - 1 : m \in got[f]
  BY <1>2, <1>4, <1>5
<1>7. \E x \in 0 .. fin + 1 : x \notin got[f] /\ \A m \in 0 .. x - 1 : m \in got[f]
  BY <1>6
<1>8. Expected(f) = CHOOSE x \in 0 .. fin + 1 :
                        x \notin got[f] /\ \A m \in 0 .. x - 1 : m \in got[f]
  BY DEF Expected, fin
<1>9. QED
  BY <1>7, <1>8 DEF fin

-----------------------------------------------------------------------------
(* What the parts of a step do.                                             *)

\* A flow that is not touched keeps what holds of it.
LEMMA Untouched ==
    ASSUME NEW g \in Flows, FlowInv(g),
           conn'[g] = conn[g], open'[g] = open[g], sent'[g] = sent[g], acked'[g] = acked[g],
           net'[g] = net[g], serving'[g] = serving[g], got'[g] = got[g]
    PROVE  FlowInv(g)'
BY DEF FlowInv, FlowTyped, PacketTyped, FinPos, Packets

LEMMA TransmitEffect ==
    ASSUME PathTypes, NEW f \in Flows, NEW k \in Nat, NEW n \in Nat, Transmit(f, k, n)
    PROVE  /\ net' \in [Flows -> Seq([conn : Nat, pos : Nat])]
           /\ \A g \in Flows \ {f} : net'[g] = net[g]
           /\ Len(net'[f]) = Len(net[f]) + 1 /\ Len(net'[f]) <= MaxInFlight
           /\ \A i \in 1 .. Len(net[f]) : net'[f][i] = net[f][i]
           /\ net'[f][Len(net[f]) + 1] = [conn |-> k, pos |-> n]
<1> DEFINE p == [conn |-> k, pos |-> n]
<1>1. p \in [conn : Nat, pos : Nat] /\ net[f] \in Seq([conn : Nat, pos : Nat])
  BY DEF PathTypes
<1>2. net' = [net EXCEPT ![f] = Append(net[f], p)] /\ Len(net[f]) < MaxInFlight
  BY DEF Transmit
<1>3. net'[f] = Append(net[f], p)
  BY <1>2 DEF PathTypes
<1> HIDE DEF p
<1>4. Append(net[f], p) \in Seq([conn : Nat, pos : Nat])
  BY <1>1
<1>5. net' \in [Flows -> Seq([conn : Nat, pos : Nat])] /\ \A g \in Flows \ {f} : net'[g] = net[g]
  BY <1>2, <1>4 DEF PathTypes
<1>6. /\ Len(net'[f]) = Len(net[f]) + 1
      /\ \A i \in 1 .. Len(net[f]) : net'[f][i] = net[f][i]
      /\ net'[f][Len(net[f]) + 1] = p
  BY <1>1, <1>3
<1>7. Len(net[f]) + 1 <= MaxInFlight
  BY <1>1, <1>2, PathAssumption
<1>8. QED
  BY <1>5, <1>6, <1>7 DEF p

LEMMA TakeEffect ==
    ASSUME PathTypes, NEW f \in Flows, NEW i \in 1 .. Len(net[f]), Take(f, i)
    PROVE  /\ net' \in [Flows -> Seq([conn : Nat, pos : Nat])]
           /\ \A g \in Flows \ {f} : net'[g] = net[g]
           /\ Len(net'[f]) = Len(net[f]) - 1
           /\ \A j \in 1 .. Len(net'[f]) :
                net'[f][j] = IF j < i THEN net[f][j] ELSE net[f][j + 1]
<1>1. net[f] \in Seq([conn : Nat, pos : Nat])
  BY DEF PathTypes
<1>2. net' = [net EXCEPT ![f] = RemoveAt(net[f], i)]
  BY DEF Take
<1>3. net'[f] = RemoveAt(net[f], i)
  BY <1>2 DEF PathTypes
<1>4. /\ RemoveAt(net[f], i) \in Seq([conn : Nat, pos : Nat])
      /\ Len(RemoveAt(net[f], i)) = Len(net[f]) - 1
      /\ \A j \in 1 .. Len(net[f]) - 1 :
            RemoveAt(net[f], i)[j] = IF j < i THEN net[f][j] ELSE net[f][j + 1]
  BY <1>1, RemoveAtKeeps
<1>5. net' \in [Flows -> Seq([conn : Nat, pos : Nat])] /\ \A g \in Flows \ {f} : net'[g] = net[g]
  BY <1>2, <1>4 DEF PathTypes
<1>6. QED
  BY <1>3, <1>4, <1>5

\* Every packet that is left was there.
LEMMA TakeLeaves ==
    ASSUME PathTypes, NEW f \in Flows, NEW i \in 1 .. Len(net[f]), Take(f, i)
    PROVE  \A j \in 1 .. Len(net'[f]) : \E k \in 1 .. Len(net[f]) : net'[f][j] = net[f][k]
<1>1. Len(net[f]) \in Nat
  BY DEF PathTypes
<1>2. SUFFICES ASSUME NEW j \in 1 .. Len(net'[f])
               PROVE  \E k \in 1 .. Len(net[f]) : net'[f][j] = net[f][k]
  OBVIOUS
<1>3. /\ Len(net'[f]) = Len(net[f]) - 1
      /\ \A m \in 1 .. Len(net'[f]) :
            net'[f][m] = IF m < i THEN net[f][m] ELSE net[f][m + 1]
  BY TakeEffect, Zenon
<1>4. j \in 1 .. Len(net[f]) /\ j + 1 \in 1 .. Len(net[f])
  BY <1>1, <1>3
<1>5. net'[f][j] = IF j < i THEN net[f][j] ELSE net[f][j + 1]
  BY <1>3
<1>6. QED
  BY <1>4, <1>5, Zenon

\* The server's answer changes one flow, and only as far as the packet says.
LEMMA ReceiveEffect ==
    ASSUME PathTypes, NEW f \in Flows, NEW p \in [conn : Nat, pos : Nat], Receive(f, p)
    PROVE  /\ serving' \in [Flows -> Nat] /\ up' \in [Flows -> BOOLEAN]
           /\ got' \in [Flows -> SUBSET Nat]
           /\ \A g \in Flows \ {f} : serving'[g] = serving[g] /\ got'[g] = got[g]
           /\ \/ p.pos = 0 /\ p.conn > serving[f] /\ serving'[f] = p.conn /\ got'[f] = {0}
              \/ /\ p.conn = serving[f] /\ serving'[f] = serving[f]
                 /\ got'[f] = got[f] \cup {p.pos}
              \/ serving'[f] = serving[f] /\ got'[f] = got[f]
<1>1. p.conn \in Nat /\ p.pos \in Nat
  OBVIOUS
<1>2. CASE /\ p.pos = 0 /\ p.conn > serving[f]
           /\ serving' = [serving EXCEPT ![f] = p.conn]
           /\ up' = [up EXCEPT ![f] = TRUE]
           /\ got' = [got EXCEPT ![f] = {0}]
  BY <1>1, <1>2 DEF PathTypes
<1>3. CASE /\ p.conn = serving[f]
           /\ got' = [got EXCEPT ![f] = @ \cup {p.pos}]
           /\ UNCHANGED <<serving, up>>
  BY <1>1, <1>3 DEF PathTypes
<1>4. CASE UNCHANGED server
  BY <1>4 DEF PathTypes, server
<1>5. QED
  BY <1>2, <1>3, <1>4 DEF Receive

-----------------------------------------------------------------------------
(* The strengthening holds at first, and every step keeps it.               *)

LEMMA PathInvInit == Init => PathInv
<1> SUFFICES ASSUME Init PROVE PathInv
  OBVIOUS
<1>1. PathTypes
  BY FS_EmptySet, PathAssumption, CapacityAssumption DEF Init, PathTypes
<1>2. ASSUME NEW f \in Flows PROVE FlowInv(f)
  <2>1. /\ conn[f] = 0 /\ ~open[f] /\ sent[f] = 0 /\ acked[f] = 0 /\ net[f] = <<>>
        /\ serving[f] = 0 /\ got[f] = {}
    BY DEF Init
  <2>2. FlowTyped(f)
    BY <2>1, StreamsAre, PathAssumption DEF FlowTyped
  <2>3. QED
    BY <2>1, <2>2 DEF FlowInv
<1>3. QED
  BY <1>1, <1>2 DEF PathInv

\* What a client may send is a packet of its flow.
LEMMA PacketIn ==
    ASSUME NEW f \in Flows, NEW k \in 1 .. Len(Streams[f]), NEW i \in 0 .. FinPos(f, k)
    PROVE  [conn |-> k, pos |-> i] \in Packets(f)
BY PacketsAre

LEMMA PacketFields ==
    ASSUME NEW f \in Flows, NEW p \in Packets(f)
    PROVE  /\ p \in [conn : Nat, pos : Nat] /\ p.conn \in 1 .. Len(Streams[f])
           /\ p.pos \in 0 .. FinPos(f, p.conn)
<1>1. PICK k \in 1 .. Len(Streams[f]) : \E i \in 0 .. FinPos(f, k) : p = [conn |-> k, pos |-> i]
  BY PacketsAre
<1>2. PICK i \in 0 .. FinPos(f, k) : p = [conn |-> k, pos |-> i]
  BY <1>1
<1>3. Len(Streams[f]) \in Nat /\ FinPos(f, k) \in Nat
  BY StreamsAre
<1>4. k \in Nat /\ i \in Nat
  BY <1>3
<1>5. QED
  BY <1>2, <1>4

\* A packet under way stays as it should be while its client goes on.
LEMMA PacketStays ==
    ASSUME NEW f \in Flows, NEW p, PacketTyped(f, p), PathTypes, PathTypes',
           \/ conn'[f] > conn[f]
           \/ conn'[f] = conn[f] /\ sent'[f] >= sent[f],
           serving'[f] >= serving[f]
    PROVE  PacketTyped(f, p)'
<1>1. p \in Packets(f)
  BY DEF PacketTyped
<1>2. p.conn \in Nat /\ p.pos \in Nat
  BY <1>1, PacketFields
<1>3. /\ conn[f] \in Nat /\ conn'[f] \in Nat /\ sent[f] \in Nat /\ sent'[f] \in Nat
      /\ serving[f] \in Nat /\ serving'[f] \in Nat
  BY DEF PathTypes
<1>4. /\ p.conn <= conn[f] /\ (p.conn = conn[f] => p.pos < sent[f])
      /\ (p.pos > 0 => p.conn <= serving[f])
  BY DEF PacketTyped
<1>5. /\ p.conn <= conn'[f] /\ (p.conn = conn'[f] => p.pos < sent'[f])
      /\ (p.pos > 0 => p.conn <= serving'[f])
  BY <1>2, <1>3, <1>4
<1>6. QED
  BY <1>1, <1>5 DEF PacketTyped, Packets, FinPos, Connections

\* Only the step's own flow needs looking at.
LEMMA OneFlow ==
    ASSUME PathInv, NEW f \in Flows, PathTypes', FlowInv(f)',
           \A g \in Flows \ {f} :
              /\ conn'[g] = conn[g] /\ open'[g] = open[g] /\ sent'[g] = sent[g]
              /\ acked'[g] = acked[g] /\ net'[g] = net[g]
              /\ serving'[g] = serving[g] /\ got'[g] = got[g]
    PROVE  PathInv'
<1>1. ASSUME NEW g \in Flows PROVE FlowInv(g)'
  <2>1. CASE g = f
    BY <2>1
  <2>2. CASE g # f
    BY <2>2, Untouched DEF PathInv
  <2>3. QED
    BY <2>1, <2>2
<1>2. QED
  BY <1>1 DEF PathInv

\* A packet is sent: it is as it should be, and so are those before it.
LEMMA TransmitKeeps ==
    ASSUME PathTypes, PathTypes', NEW f \in Flows, FlowInv(f),
           NEW k \in Nat, NEW n \in Nat, Transmit(f, k, n),
           \/ conn'[f] > conn[f]
           \/ conn'[f] = conn[f] /\ sent'[f] >= sent[f],
           serving'[f] >= serving[f],
           PacketTyped(f, [conn |-> k, pos |-> n])'
    PROVE  /\ Len(net'[f]) <= MaxInFlight
           /\ \A i \in 1 .. Len(net'[f]) : PacketTyped(f, net[f][i])'
<1>0. Len(net[f]) \in Nat
  BY DEF PathTypes
<1>1. /\ Len(net'[f]) = Len(net[f]) + 1 /\ Len(net'[f]) <= MaxInFlight
      /\ \A i \in 1 .. Len(net[f]) : net'[f][i] = net[f][i]
      /\ net'[f][Len(net[f]) + 1] = [conn |-> k, pos |-> n]
  BY TransmitEffect, Zenon
<1>2. ASSUME NEW i \in 1 .. Len(net'[f]) PROVE PacketTyped(f, net[f][i])'
  <2>1. CASE i \in 1 .. Len(net[f])
    <3>1. PICK p : p = net[f][i]
      OBVIOUS
    <3>2. PacketTyped(f, p) /\ net'[f][i] = p
      BY <1>1, <2>1, <3>1 DEF FlowInv
    <3>3. PacketTyped(f, p)'
      BY <3>2, PacketStays
    <3>4. QED
      BY <3>2, <3>3 DEF PacketTyped
  <2>2. CASE i = Len(net[f]) + 1
    <3>1. net'[f][i] = [conn |-> k, pos |-> n]
      BY <1>1, <2>2
    <3>2. QED
      BY <3>1 DEF PacketTyped
  <2>3. QED
    BY <1>0, <1>1, <2>1, <2>2
<1>3. QED
  BY <1>1, <1>2

\* A fresh connection's SYN: nothing of it is acknowledged or at the server.
LEMMA OpenKeeps ==
    ASSUME PathInv, NEW f \in Flows, Open(f) PROVE PathInv'
<1>0. PICK k : k = conn[f] + 1
  OBVIOUS
<1>1. PathTypes /\ FlowInv(f) /\ FlowTyped(f)
  BY DEF PathInv, FlowInv
<1>2. /\ conn[f] \in Nat /\ k \in 1 .. Len(Streams[f]) /\ serving[f] \in Nat
      /\ FinPos(f, k) \in Nat /\ Len(Streams[f]) \in Nat
  BY <1>0, <1>1, StreamsAre DEF PathTypes, Open, Connections
<1>3. /\ Transmit(f, k, 0)
      /\ conn' = [conn EXCEPT ![f] = k] /\ open' = [open EXCEPT ![f] = TRUE]
      /\ sent' = [sent EXCEPT ![f] = 1] /\ acked' = [acked EXCEPT ![f] = 0]
      /\ serving' = serving /\ up' = up /\ got' = got /\ attached' = attached
      /\ allowed' = allowed /\ last' = last /\ restarts' = restarts
  BY <1>0, <1>1 DEF Open, server, filter, PathTypes
<1>4. k \in Nat /\ k = conn[f] + 1
  BY <1>0, <1>2
<1>5. /\ net' \in [Flows -> Seq([conn : Nat, pos : Nat])]
      /\ \A g \in Flows \ {f} : net'[g] = net[g]
  BY <1>1, <1>3, <1>4, TransmitEffect
<1>6. PathTypes'
  BY <1>1, <1>3, <1>4, <1>5 DEF PathTypes
<1>7. /\ conn'[f] = k /\ sent'[f] = 1 /\ acked'[f] = 0
      /\ serving'[f] = serving[f] /\ got'[f] = got[f] /\ open'[f] = TRUE
  BY <1>1, <1>3 DEF PathTypes
<1>8. [conn |-> k, pos |-> 0] \in Packets(f)
  BY <1>2, PacketIn
<1>9. PacketTyped(f, [conn |-> k, pos |-> 0])'
  BY <1>4, <1>7, <1>8 DEF PacketTyped, Packets, FinPos, Connections
<1>10. conn'[f] > conn[f] /\ serving'[f] >= serving[f]
  BY <1>2, <1>4, <1>7
<1>11. (/\ Len(net[f]) <= MaxInFlight
        /\ \A i \in 1 .. Len(net[f]) : PacketTyped(f, net[f][i]))'
  BY <1>1, <1>3, <1>4, <1>6, <1>9, <1>10, TransmitKeeps
<1>12. serving[f] <= conn[f] /\ serving'[f] # conn'[f]
  BY <1>1, <1>2, <1>4, <1>7 DEF FlowTyped
<1>13. FlowTyped(f)'
  <2>1. conn'[f] \in 0 .. Len(Streams[f]) /\ serving'[f] <= conn'[f] /\ conn'[f] # 0
    BY <1>2, <1>4, <1>7, <1>12
  <2>2. sent'[f] \in 1 .. FinPos(f, conn'[f]) + 1
    BY <1>2, <1>7
  <2>3. IF serving'[f] = 0 THEN got'[f] = {} ELSE got'[f] \subseteq 0 .. FinPos(f, serving'[f])
    BY <1>1, <1>7 DEF FlowTyped
  <2>4. QED
    BY <1>7, <1>11, <1>12, <2>1, <2>2, <2>3 DEF FlowTyped, FinPos
<1>14. FlowInv(f)'
  BY <1>7, <1>11, <1>13 DEF FlowInv
<1>15. QED
  BY <1>1, <1>3, <1>5, <1>6, <1>14, OneFlow DEF PathTypes

\* What is sent next follows what was acknowledged: its SYN was answered.
LEMMA SendNextKeeps ==
    ASSUME PathInv, NEW f \in Flows, SendNext(f) PROVE PathInv'
<1>0. PICK k, n : k = conn[f] /\ n = sent[f]
  OBVIOUS
<1>1. PathTypes /\ FlowInv(f) /\ FlowTyped(f)
  BY DEF PathInv, FlowInv
<1>2. /\ Transmit(f, k, n)
      /\ sent' = [sent EXCEPT ![f] = n + 1]
      /\ conn' = conn /\ open' = open /\ acked' = acked
      /\ serving' = serving /\ up' = up /\ got' = got /\ attached' = attached
      /\ allowed' = allowed /\ last' = last /\ restarts' = restarts
      /\ open[f] /\ acked[f] >= 1 /\ n <= FinPos(f, k)
  BY <1>0, <1>1 DEF PathTypes, SendNext, server, filter
<1>3. /\ k \in 1 .. Len(Streams[f]) /\ k \in Nat /\ n \in Nat /\ n >= 1 /\ FinPos(f, k) \in Nat
      /\ acked[f] \in Nat /\ serving[f] = k /\ acked[f] <= n
  <2>1. k \in 1 .. Len(Streams[f]) /\ k \in Nat
    BY <1>0, <1>1, <1>2, StreamsAre DEF FlowTyped, PathTypes
  <2>2. n \in Nat /\ acked[f] \in Nat /\ acked[f] <= n
    BY <1>0, <1>1 DEF FlowTyped, PathTypes
  <2>3. serving[f] = k
    BY <1>0, <1>1, <1>2, <2>2 DEF FlowInv
  <2>4. FinPos(f, k) \in Nat
    BY <2>1, StreamsAre
  <2>5. QED
    BY <1>2, <2>1, <2>2, <2>3, <2>4
<1>4. /\ net' \in [Flows -> Seq([conn : Nat, pos : Nat])]
      /\ \A g \in Flows \ {f} : net'[g] = net[g]
  BY <1>0, <1>1, <1>2, <1>3, TransmitEffect
<1>5. PathTypes'
  <2>1. sent' \in [Flows -> Nat]
    BY <1>1, <1>2, <1>3 DEF PathTypes
  <2>2. QED
    BY <1>1, <1>2, <1>4, <2>1 DEF PathTypes
<1>6. /\ conn'[f] = k /\ sent'[f] = n + 1 /\ acked'[f] = acked[f]
      /\ serving'[f] = serving[f] /\ got'[f] = got[f] /\ open'[f] = open[f]
  BY <1>0, <1>1, <1>2 DEF PathTypes
<1>7. [conn |-> k, pos |-> n] \in Packets(f)
  BY <1>2, <1>3, PacketIn
<1>8. conn'[f] = conn[f] /\ sent'[f] >= sent[f] /\ serving'[f] >= serving[f]
  BY <1>0, <1>3, <1>6
<1>9. PacketTyped(f, [conn |-> k, pos |-> n])'
  <2>1. n < sent'[f] /\ k <= conn'[f] /\ k <= serving'[f]
    BY <1>0, <1>3, <1>6
  <2>2. QED
    BY <1>7, <2>1 DEF PacketTyped, Packets, FinPos, Connections
<1>10. (/\ Len(net[f]) <= MaxInFlight
        /\ \A i \in 1 .. Len(net[f]) : PacketTyped(f, net[f][i]))'
  BY <1>0, <1>1, <1>2, <1>3, <1>5, <1>8, <1>9, TransmitKeeps
<1>11. FlowTyped(f)'
  <2>1. sent'[f] \in 1 .. FinPos(f, conn'[f]) + 1 /\ acked'[f] <= sent'[f]
    BY <1>0, <1>2, <1>3, <1>6
  <2>2. \A i \in got'[f] : i < sent'[f]
    <3>1. \A i \in got[f] : i \in Nat /\ i < n
      BY <1>0, <1>1, <1>3 DEF FlowTyped, PathTypes
    <3>2. QED
      BY <1>0, <1>3, <1>6, <3>1
  <2>3. /\ conn'[f] # 0 /\ conn'[f] \in 0 .. Len(Streams[f])
        /\ serving'[f] <= conn'[f]
    BY <1>0, <1>1, <1>3, <1>6, <1>8 DEF FlowTyped
  <2>4. IF serving'[f] = 0 THEN got'[f] = {} ELSE got'[f] \subseteq 0 .. FinPos(f, serving'[f])
    BY <1>0, <1>1, <1>6 DEF FlowTyped
  <2>5. QED
    BY <1>10, <2>1, <2>2, <2>3, <2>4 DEF FlowTyped, FinPos
<1>12. FlowInv(f)'
  BY <1>0, <1>3, <1>6, <1>10, <1>11 DEF FlowInv
<1>13. QED
  BY <1>0, <1>1, <1>2, <1>4, <1>5, <1>12, OneFlow DEF PathTypes

LEMMA RetransmitKeeps ==
    ASSUME PathInv, NEW f \in Flows, Retransmit(f) PROVE PathInv'
<1>0. PICK k, n : k = conn[f] /\ n = acked[f]
  OBVIOUS
<1>1. PathTypes /\ FlowInv(f) /\ FlowTyped(f)
  BY DEF PathInv, FlowInv
<1>2. /\ Transmit(f, k, n) /\ open[f] /\ n < sent[f]
      /\ conn' = conn /\ open' = open /\ acked' = acked /\ sent' = sent
      /\ serving' = serving /\ up' = up /\ got' = got /\ attached' = attached
      /\ allowed' = allowed /\ last' = last /\ restarts' = restarts
  BY <1>0, <1>1 DEF Retransmit, client, server, filter
<1>3. /\ k \in 1 .. Len(Streams[f]) /\ k \in Nat /\ n \in Nat /\ sent[f] \in Nat
      /\ n \in 0 .. FinPos(f, k) /\ (n > 0 => serving[f] = k) /\ serving[f] \in Nat
  <2>1. k \in 1 .. Len(Streams[f]) /\ k \in Nat
    BY <1>0, <1>1, <1>2, StreamsAre DEF FlowTyped, PathTypes
  <2>2. FinPos(f, k) \in Nat
    BY <2>1, StreamsAre
  <2>3. n \in Nat /\ sent[f] \in Nat /\ serving[f] \in Nat
    BY <1>0, <1>1 DEF PathTypes
  <2>4. sent[f] \in 1 .. FinPos(f, k) + 1
    BY <1>0, <1>1, <2>1 DEF FlowTyped
  <2>5. QED
    BY <1>0, <1>1, <1>2, <2>1, <2>2, <2>3, <2>4 DEF FlowInv
<1>4. /\ net' \in [Flows -> Seq([conn : Nat, pos : Nat])]
      /\ \A g \in Flows \ {f} : net'[g] = net[g]
  BY <1>0, <1>1, <1>2, <1>3, TransmitEffect
<1>5. PathTypes'
  BY <1>0, <1>1, <1>2, <1>4 DEF PathTypes
<1>6. [conn |-> k, pos |-> n] \in Packets(f)
  BY <1>3, PacketIn
<1>7. conn'[f] = conn[f] /\ sent'[f] >= sent[f] /\ serving'[f] >= serving[f]
  BY <1>0, <1>2, <1>3
<1>8. PacketTyped(f, [conn |-> k, pos |-> n])'
  <2>1. n < sent'[f] /\ k <= conn'[f] /\ (n > 0 => k <= serving'[f])
    BY <1>0, <1>2, <1>3
  <2>2. QED
    BY <1>6, <2>1 DEF PacketTyped, Packets, FinPos, Connections
<1>9. (/\ Len(net[f]) <= MaxInFlight
       /\ \A i \in 1 .. Len(net[f]) : PacketTyped(f, net[f][i]))'
  BY <1>0, <1>1, <1>2, <1>3, <1>5, <1>7, <1>8, TransmitKeeps
<1>10. FlowTyped(f)'
  BY <1>0, <1>1, <1>2, <1>9 DEF FlowTyped, FinPos
<1>11. FlowInv(f)'
  BY <1>0, <1>1, <1>2, <1>9, <1>10 DEF FlowInv
<1>12. QED
  BY <1>0, <1>1, <1>2, <1>4, <1>5, <1>11, OneFlow DEF PathTypes
\* What the server acknowledges was sent.
LEMMA LearnAckKeeps ==
    ASSUME PathInv, NEW f \in Flows, LearnAck(f) PROVE PathInv'
<1>0. PICK n : n = Expected(f)
  OBVIOUS
<1>1. PathTypes /\ FlowInv(f) /\ FlowTyped(f)
  BY DEF PathInv, FlowInv
<1>2. /\ acked' = [acked EXCEPT ![f] = n]
      /\ open' = [open EXCEPT ![f] = n <= FinPos(f, conn[f])]
      /\ conn' = conn /\ sent' = sent /\ net' = net
      /\ serving' = serving /\ up' = up /\ got' = got /\ attached' = attached
      /\ allowed' = allowed /\ last' = last /\ restarts' = restarts
      /\ open[f] /\ serving[f] = conn[f] /\ n > acked[f]
  BY <1>0 DEF LearnAck, server, filter
<1>3. serving[f] # 0 /\ conn[f] \in 1 .. Len(Streams[f])
  BY <1>1, <1>2, StreamsAre DEF FlowTyped, PathTypes
<1>4. n \in Nat /\ \A m \in 0 .. n - 1 : m \in got[f]
  <2>1. FinPos(f, serving[f]) \in Nat
    BY <1>2, <1>3, StreamsAre
  <2>2. QED
    BY <1>0, <1>1, <1>3, <2>1, ExpectedIs
<1>5. n <= sent[f] /\ n > 0
  <2>1. acked[f] \in Nat /\ sent[f] \in Nat
    BY <1>1 DEF PathTypes
  <2>2. n - 1 \in got[f] /\ n > 0
    BY <1>2, <1>4, <2>1
  <2>3. n - 1 < sent[f]
    BY <1>1, <1>2, <2>2 DEF FlowTyped
  <2>4. QED
    BY <1>4, <2>1, <2>2, <2>3
<1>6. (n <= FinPos(f, conn[f])) \in BOOLEAN
  OBVIOUS
<1>7. PathTypes'
  <2>1. acked' \in [Flows -> Nat]
    BY <1>1, <1>2, <1>4 DEF PathTypes
  <2>2. open' \in [Flows -> BOOLEAN]
    BY <1>1, <1>2, <1>6 DEF PathTypes
  <2>3. QED
    BY <1>1, <1>2, <2>1, <2>2 DEF PathTypes
<1>8. acked'[f] = n
  BY <1>1, <1>2 DEF PathTypes
<1>9. FlowTyped(f)'
  BY <1>1, <1>2, <1>3, <1>5, <1>8 DEF FlowTyped, FinPos
<1>10. FlowInv(f)'
  <2>1. \A i \in 1 .. Len(net'[f]) : PacketTyped(f, net[f][i])'
    BY <1>1, <1>2 DEF FlowInv, PacketTyped, Packets, FinPos, Connections
  <2>2. QED
    BY <1>2, <1>9, <2>1 DEF FlowInv
<1>11. QED
  BY <1>1, <1>2, <1>7, <1>10, OneFlow DEF PathTypes

\* A client that closes, and a server or loader that stops, leave the rest as it is.
LEMMA ClosingKeeps ==
    ASSUME PathInv, PathTypes',
           \A f \in Flows : open'[f] => open[f],
           UNCHANGED <<conn, sent, acked, net, serving, got>>
    PROVE  PathInv'
<1>1. ASSUME NEW f \in Flows PROVE FlowInv(f)'
  <2>1. FlowInv(f) /\ FlowTyped(f)
    BY DEF PathInv, FlowInv
  <2>2. FlowTyped(f)'
    BY <2>1 DEF FlowTyped, FinPos
  <2>3. \A i \in 1 .. Len(net'[f]) : PacketTyped(f, net[f][i])'
    BY <2>1 DEF FlowInv, PacketTyped, Packets, FinPos, Connections
  <2>4. QED
    BY <2>1, <2>2, <2>3 DEF FlowInv
<1>2. QED
  BY <1>1 DEF PathInv

LEMMA LearnResetKeeps ==
    ASSUME PathInv, NEW f \in Flows, LearnReset(f) PROVE PathInv'
<1>1. PathTypes
  BY DEF PathInv
<1>2. PathTypes'
  BY <1>1 DEF LearnReset, PathTypes, server, filter
<1>3. /\ \A g \in Flows : open'[g] => open[g]
      /\ UNCHANGED <<conn, sent, acked, net, serving, got>>
  BY <1>1 DEF LearnReset, PathTypes, server
<1>4. QED
  BY <1>2, <1>3, ClosingKeeps

LEMMA VanishKeeps ==
    ASSUME PathInv, NEW f \in Flows, Vanish(f) PROVE PathInv'
<1>1. PathTypes
  BY DEF PathInv
<1>2. PathTypes'
  BY <1>1 DEF Vanish, PathTypes, server, filter
<1>3. /\ \A g \in Flows : open'[g] => open[g]
      /\ UNCHANGED <<conn, sent, acked, net, serving, got>>
  BY <1>1 DEF Vanish, PathTypes, server
<1>4. QED
  BY <1>2, <1>3, ClosingKeeps

LEMMA ServerResetKeeps ==
    ASSUME PathInv, NEW f \in Flows, ServerReset(f) PROVE PathInv'
<1>1. PathTypes
  BY DEF PathInv
<1>2. PathTypes'
  BY <1>1 DEF ServerReset, PathTypes, client, filter
<1>3. /\ \A g \in Flows : open'[g] => open[g]
      /\ UNCHANGED <<conn, sent, acked, net, serving, got>>
  BY DEF ServerReset, client
<1>4. QED
  BY <1>2, <1>3, ClosingKeeps

LEMMA LoaderKeeps ==
    ASSUME PathInv, Detach \/ Attach PROVE PathInv'
<1>1. PathTypes
  BY DEF PathInv
<1>2. PathTypes'
  <2>1. CASE Detach
    <3>1. restarts' \in 0 .. MaxRestarts
      BY <1>1, <2>1, PathAssumption DEF Detach, PathTypes
    <3>2. QED
      BY <1>1, <2>1, <3>1 DEF Detach, PathTypes, client, server
  <2>2. CASE Attach
    <3>1. allowed' \subseteq Flows /\ IsFiniteSet(allowed') /\ Cardinality(allowed') <= MaxEntries
      BY <2>2, FS_EmptySet, CapacityAssumption DEF Attach
    <3>2. QED
      BY <1>1, <2>2, <3>1 DEF Attach, PathTypes, client, server
  <2>3. QED
    BY <2>1, <2>2
<1>3. /\ \A g \in Flows : open'[g] => open[g]
      /\ UNCHANGED <<conn, sent, acked, net, serving, got>>
  BY DEF Detach, Attach, client, server
<1>4. QED
  BY <1>2, <1>3, ClosingKeeps

LEMMA DeliverableIn ==
    ASSUME PathTypes, NEW f \in Flows, NEW i \in Deliverable(f)
    PROVE  i \in 1 .. Len(net[f])
BY DEF Deliverable, PathTypes

\* A packet leaves the network; the server answers it, or never sees it.
LEMMA DeliveryKeeps ==
    ASSUME PathInv, NEW f \in Flows, NEW i \in 1 .. Len(net[f]), Take(f, i),
           Receive(f, net[f][i]) \/ UNCHANGED server,
           UNCHANGED client,
           /\ attached' \in BOOLEAN
           /\ allowed' \subseteq Flows /\ IsFiniteSet(allowed')
           /\ Cardinality(allowed') <= MaxEntries
           /\ last' \in Verdicts \cup {None}
           /\ restarts' \in 0 .. MaxRestarts
    PROVE  PathInv'
<1>0. PICK p : p = net[f][i]
  OBVIOUS
<1>1. PathTypes /\ FlowInv(f) /\ FlowTyped(f)
  BY DEF PathInv, FlowInv
<1>2. PacketTyped(f, p) /\ p \in Packets(f)
  BY <1>0, <1>1 DEF FlowInv, PacketTyped
<1>3. /\ p \in [conn : Nat, pos : Nat] /\ p.conn \in 1 .. Len(Streams[f])
      /\ p.pos \in 0 .. FinPos(f, p.conn) /\ p.conn \in Nat /\ p.pos \in Nat
      /\ FinPos(f, p.conn) \in Nat /\ p.conn # 0
  BY <1>2, PacketFields, StreamsAre
<1>4. /\ net' \in [Flows -> Seq([conn : Nat, pos : Nat])]
      /\ \A g \in Flows \ {f} : net'[g] = net[g]
      /\ Len(net'[f]) = Len(net[f]) - 1
  BY <1>1, TakeEffect
<1>5. /\ conn' = conn /\ open' = open /\ sent' = sent /\ acked' = acked
  BY DEF client
<1>6. /\ serving' \in [Flows -> Nat] /\ up' \in [Flows -> BOOLEAN]
      /\ got' \in [Flows -> SUBSET Nat]
      /\ \A g \in Flows \ {f} : serving'[g] = serving[g] /\ got'[g] = got[g]
      /\ \/ p.pos = 0 /\ p.conn > serving[f] /\ serving'[f] = p.conn /\ got'[f] = {0}
         \/ /\ p.conn = serving[f] /\ serving'[f] = serving[f]
            /\ got'[f] = got[f] \cup {p.pos}
         \/ serving'[f] = serving[f] /\ got'[f] = got[f]
  <2>1. CASE Receive(f, p)
    BY <1>1, <1>3, <2>1, ReceiveEffect
  <2>2. CASE UNCHANGED server
    BY <1>1, <2>2 DEF PathTypes, server
  <2>3. QED
    BY <1>0, <2>1, <2>2
<1>7. PathTypes'
  BY <1>1, <1>4, <1>5, <1>6 DEF PathTypes
<1>8. /\ conn[f] \in Nat /\ sent[f] \in Nat /\ acked[f] \in Nat /\ serving[f] \in Nat
      /\ got[f] \subseteq Nat /\ Len(net[f]) \in Nat
      /\ serving[f] <= conn[f] /\ p.conn <= conn[f] /\ (p.conn = conn[f] => p.pos < sent[f])
  <2>1. /\ conn[f] \in Nat /\ sent[f] \in Nat /\ acked[f] \in Nat /\ serving[f] \in Nat
        /\ got[f] \subseteq Nat /\ Len(net[f]) \in Nat
    BY <1>1 DEF PathTypes
  <2>2. serving[f] <= conn[f]
    BY <1>1 DEF FlowTyped
  <2>3. p.conn <= conn[f] /\ (p.conn = conn[f] => p.pos < sent[f])
    BY <1>2 DEF PacketTyped
  <2>4. QED
    BY <2>1, <2>2, <2>3
<1>9. serving'[f] >= serving[f] /\ serving'[f] <= conn[f]
      /\ (serving[f] = conn[f] => serving'[f] = conn[f])
  BY <1>3, <1>6, <1>8
<1>10. serving'[f] = conn[f] => \A m \in got'[f] : m < sent[f]
  <2>1. serving[f] = conn[f] => \A m \in got[f] : m < sent[f]
    BY <1>1 DEF FlowTyped
  <2>2. QED
    BY <1>3, <1>6, <1>8, <2>1
<1>11. IF serving'[f] = 0 THEN got'[f] = {} ELSE got'[f] \subseteq 0 .. FinPos(f, serving'[f])
  <2>1. IF serving[f] = 0 THEN got[f] = {} ELSE got[f] \subseteq 0 .. FinPos(f, serving[f])
    BY <1>1 DEF FlowTyped
  <2>2. CASE p.pos = 0 /\ serving'[f] = p.conn /\ got'[f] = {0}
    BY <1>3, <2>2
  <2>3. CASE p.conn = serving[f] /\ serving'[f] = serving[f] /\ got'[f] = got[f] \cup {p.pos}
    BY <1>3, <2>1, <2>3
  <2>4. CASE serving'[f] = serving[f] /\ got'[f] = got[f]
    BY <2>1, <2>4
  <2>5. QED
    BY <1>6, <2>2, <2>3, <2>4
<1>12. Len(net'[f]) <= MaxInFlight
  BY <1>1, <1>4, <1>8, PathAssumption DEF FlowTyped
<1>13. FlowTyped(f)'
  <2>1. /\ conn[f] \in 0 .. Len(Streams[f])
        /\ conn[f] = 0 => ~open[f] /\ sent[f] = 0
        /\ conn[f] # 0 => sent[f] \in 1 .. FinPos(f, conn[f]) + 1
        /\ acked[f] <= sent[f]
    BY <1>1 DEF FlowTyped
  <2>2. QED
    BY <1>5, <1>9, <1>10, <1>11, <1>12, <2>1 DEF FlowTyped, FinPos
<1>14. \A j \in 1 .. Len(net'[f]) : PacketTyped(f, net[f][j])'
  <2>1. SUFFICES ASSUME NEW j \in 1 .. Len(net'[f])
                 PROVE  PacketTyped(f, net[f][j])'
    OBVIOUS
  <2>2. PICK q : q = net'[f][j]
    OBVIOUS
  <2>3. PICK k \in 1 .. Len(net[f]) : q = net[f][k]
    BY <1>1, <2>2, TakeLeaves
  <2>4. PacketTyped(f, q)
    BY <1>1, <2>3 DEF FlowInv
  <2>5. conn'[f] = conn[f] /\ sent'[f] >= sent[f]
    BY <1>5, <1>8
  <2>6. PacketTyped(f, q)'
    BY <1>1, <1>7, <1>9, <2>4, <2>5, PacketStays
  <2>7. QED
    BY <2>2, <2>6 DEF PacketTyped
<1>15. FlowInv(f)'
  <2>1. acked'[f] > 0 => serving'[f] = conn'[f]
    BY <1>1, <1>5, <1>9 DEF FlowInv
  <2>2. QED
    BY <1>13, <1>14, <2>1 DEF FlowInv
<1>16. QED
  BY <1>4, <1>5, <1>6, <1>7, <1>15, OneFlow
LEMMA LoseKeeps ==
    ASSUME PathInv, NEW f \in Flows, Lose(f) PROVE PathInv'
<1>1. PathTypes
  BY DEF PathInv
<1>2. PICK i \in Deliverable(f) : Take(f, i)
  BY DEF Lose
<1>3. i \in 1 .. Len(net[f])
  BY <1>1, DeliverableIn
<1>4. UNCHANGED client /\ UNCHANGED server /\ UNCHANGED filter
  BY DEF Lose
<1>5. QED
  BY <1>1, <1>2, <1>3, <1>4, DeliveryKeeps DEF filter, PathTypes

\* A verdict, as the gate gives it.
LEMMA JudgedIs ==
    ASSUME PathInv, NEW f \in Flows, NEW i \in 1 .. Len(net[f]), Judged(f, i)
    PROVE  /\ net[f][i] \in Packets(f)
           /\ AsSegment(f, net[f][i]) \in Segments /\ AsSegment(f, net[f][i]).flow = f
           /\ allowed' \in MapsAfter(allowed, AsSegment(f, net[f][i]))
           /\ last' = [seg |-> AsSegment(f, net[f][i]),
                       action |-> Action(AfterSyn(allowed, AsSegment(f, net[f][i])),
                                         AsSegment(f, net[f][i]))]
           /\ last' \in Verdicts
           /\ allowed' \subseteq Flows /\ IsFiniteSet(allowed')
           /\ Cardinality(allowed') <= MaxEntries
<1>0. PICK s : s = AsSegment(f, net[f][i])
  OBVIOUS
<1>1. net[f][i] \in Packets(f)
  BY DEF PathInv, FlowInv, PacketTyped
<1>2. s \in Segments /\ s.flow = f
  BY <1>0, <1>1, SegmentOf
<1>3. /\ allowed' \in MapsAfter(allowed, s)
      /\ last' = [seg |-> s, action |-> Action(AfterSyn(allowed, s), s)]
  BY <1>0 DEF Judged
<1>4. Action(AfterSyn(allowed, s), s) \in Actions
  BY DEF Action, Actions
<1>5. last' \in Verdicts
  BY <1>2, <1>3, <1>4 DEF Verdicts
<1>6. allowed \subseteq Flows /\ IsFiniteSet(allowed) /\ Cardinality(allowed) <= MaxEntries
  BY DEF PathInv, PathTypes
<1>7. allowed' \subseteq Flows /\ IsFiniteSet(allowed') /\ Cardinality(allowed') <= MaxEntries
  BY <1>2, <1>3, <1>6, MapsAfterAre
<1>8. QED
  BY <1>0, <1>1, <1>2, <1>3, <1>5, <1>7

LEMMA ArriveKeeps ==
    ASSUME PathInv, NEW f \in Flows, NEW p \in Packets(f), Arrive(f, p) PROVE PathInv'
<1>1. PathTypes
  BY DEF PathInv
<1>2. PICK i \in Deliverable(f) : Judged(f, i) \/ Unfiltered(f, i)
  BY DEF Arrive
<1>3. i \in 1 .. Len(net[f])
  BY <1>1, DeliverableIn
<1>4. CASE Judged(f, i)
  <2>1. /\ Take(f, i) /\ (Receive(f, net[f][i]) \/ UNCHANGED server)
        /\ UNCHANGED client /\ attached' = attached /\ restarts' = restarts
    BY <1>4 DEF Judged
  <2>2. /\ allowed' \subseteq Flows /\ IsFiniteSet(allowed') /\ Cardinality(allowed') <= MaxEntries
        /\ last' \in Verdicts
    BY <1>3, <1>4, JudgedIs
  <2>3. QED
    BY <1>1, <1>3, <2>1, <2>2, DeliveryKeeps DEF PathTypes
<1>5. CASE Unfiltered(f, i)
  <2>1. /\ Take(f, i) /\ Receive(f, net[f][i]) /\ UNCHANGED client
        /\ attached' = attached /\ restarts' = restarts /\ allowed' = allowed /\ last' = last
    BY <1>5 DEF Unfiltered, filter
  <2>2. QED
    BY <1>1, <1>3, <2>1, DeliveryKeeps DEF PathTypes
<1>6. QED
  BY <1>2, <1>4, <1>5

LEMMA PathInvStep == PathInv /\ [Next]_vars => PathInv'
<1> SUFFICES ASSUME PathInv, [Next]_vars PROVE PathInv'
  OBVIOUS
<1>1. CASE UNCHANGED vars
  <2>1. /\ \A f \in Flows : open'[f] => open[f]
        /\ UNCHANGED <<conn, sent, acked, net, serving, got>>
    BY <1>1 DEF vars, client, server
  <2>2. PathTypes'
    BY <1>1 DEF vars, client, server, filter, PathInv, PathTypes
  <2>3. QED
    BY <2>1, <2>2, ClosingKeeps
<1>2. ASSUME NEW f \in Flows,
             \/ Open(f) \/ SendNext(f) \/ Retransmit(f)
             \/ LearnAck(f) \/ LearnReset(f) \/ Vanish(f)
             \/ ServerReset(f) \/ Lose(f)
             \/ \E p \in Packets(f) : Arrive(f, p)
      PROVE  PathInv'
  BY <1>2, OpenKeeps, SendNextKeeps, RetransmitKeeps, LearnAckKeeps, LearnResetKeeps,
     VanishKeeps, ServerResetKeeps, LoseKeeps, ArriveKeeps
<1>3. CASE Detach \/ Attach
  BY <1>3, LoaderKeeps
<1>4. QED
  BY <1>1, <1>2, <1>3 DEF Next

LEMMA PathInvAlways == Spec => []PathInv
BY PathInvInit, PathInvStep, PTL DEF Spec

\* The connections opened before the filter was last attached were opened.
LEMMA SinceInit == Init => SinceInv
BY DEF Init, SinceInv

LEMMA SinceStep == PathInv /\ SinceInv /\ [Next]_vars => SinceInv'
<1> SUFFICES ASSUME PathInv, SinceInv, [Next]_vars PROVE SinceInv'
  OBVIOUS
<1>1. conn \in [Flows -> Nat]
  BY DEF PathInv, PathTypes
<1>2. CASE Attach
  <2>1. since' = conn /\ conn' = conn
    BY <1>2 DEF Attach, client
  <2>2. QED
    BY <1>1, <2>1 DEF SinceInv
<1>3. ASSUME NEW f \in Flows, Open(f) PROVE SinceInv'
  <2>1. since' = since /\ conn' = [conn EXCEPT ![f] = @ + 1]
    BY <1>3 DEF Open, filter
  <2>2. QED
    BY <1>1, <2>1 DEF SinceInv
<1>4. ASSUME UNCHANGED <<conn, since>> PROVE SinceInv'
  BY <1>4 DEF SinceInv
<1>5. ASSUME NEW f \in Flows,
             \/ SendNext(f) \/ Retransmit(f) \/ LearnAck(f) \/ LearnReset(f)
             \/ Vanish(f) \/ ServerReset(f) \/ Lose(f)
      PROVE  UNCHANGED <<conn, since>>
  BY <1>5 DEF SendNext, Retransmit, LearnAck, LearnReset, Vanish, ServerReset, Lose, client,
              filter
<1>6. ASSUME NEW f \in Flows, NEW p \in Packets(f), Arrive(f, p) PROVE UNCHANGED <<conn, since>>
  BY <1>6 DEF Arrive, Judged, Unfiltered, client, filter
<1>7. CASE Detach \/ UNCHANGED vars
  BY <1>4, <1>7 DEF Detach, vars, client, filter
<1>8. QED
  BY <1>2, <1>3, <1>4, <1>5, <1>6, <1>7 DEF Next

LEMMA PathInvTypes == PathInv /\ SinceInv => TypeOK
<1> SUFFICES ASSUME PathInv, SinceInv PROVE TypeOK
  OBVIOUS
<1>1. ASSUME NEW f \in Flows
      PROVE  /\ conn[f] \in 0 .. Len(Streams[f])
             /\ 0 <= acked[f] /\ acked[f] <= sent[f]
             /\ Len(net[f]) <= MaxInFlight /\ ToSet(net[f]) \subseteq Packets(f)
             /\ serving[f] \in 0 .. conn[f]
             /\ serving[f] = conn[f] => \A i \in got[f] : i < sent[f]
             /\ since[f] \in 0 .. conn[f]
  <2>1. FlowInv(f) /\ FlowTyped(f) /\ PathTypes
    BY DEF PathInv, FlowInv
  <2>2. \A i \in 1 .. Len(net[f]) : net[f][i] \in Packets(f)
    BY <2>1 DEF FlowInv, PacketTyped
  <2>3. net[f] \in Seq([conn : Nat, pos : Nat])
    BY <2>1 DEF PathTypes
  <2>4. ToSet(net[f]) \subseteq Packets(f)
    <3>1. DOMAIN net[f] = 1 .. Len(net[f])
      BY <2>3
    <3>2. QED
      BY <2>2, <3>1, Zenon DEF ToSet
  <2>5. serving[f] \in Nat /\ conn[f] \in Nat /\ acked[f] \in Nat
    BY <2>1 DEF PathTypes
  <2>6. QED
    BY <2>1, <2>4, <2>5 DEF FlowTyped, SinceInv
<1>2. QED
  BY <1>1 DEF TypeOK, PathInv, PathTypes

\* Whatever the network and the loader do, the model is well typed: the map never
\* holds more than its capacity, only packets of a flow are under way on it, and what
\* the server has of the newest connection was sent.
THEOREM PathTypeCorrect == Spec => []TypeOK
BY PathInvAlways, SinceInit, SinceStep, PathInvTypes, PTL DEF Spec

-----------------------------------------------------------------------------
(* A network that keeps the order of a flow's packets.                      *)

LEMMA FirstOnly ==
    ASSUME "reorder" \notin Faults, PathTypes, NEW f \in Flows, NEW i \in Deliverable(f)
    PROVE  i = 1 /\ 1 \in 1 .. Len(net[f])
<1>1. i = 1
  BY DEF Deliverable
<1>2. QED
  BY <1>1, DeliverableIn

\* What is sent is not older than what is under way.
LEMMA TransmitInSequence ==
    ASSUME PathInv, NEW f \in Flows, InSequence(f),
           NEW k \in Nat, NEW n \in Nat, Transmit(f, k, n), k >= conn[f],
           serving'[f] = serving[f]
    PROVE  InSequence(f)'
<1>1. PathTypes /\ FlowInv(f) /\ FlowTyped(f)
  BY DEF PathInv, FlowInv
<1>2. /\ Len(net'[f]) = Len(net[f]) + 1
      /\ \A i \in 1 .. Len(net[f]) : net'[f][i] = net[f][i]
      /\ net'[f][Len(net[f]) + 1] = [conn |-> k, pos |-> n]
      /\ Len(net[f]) \in Nat /\ serving[f] \in Nat /\ conn[f] \in Nat
  <2>1. Len(net[f]) \in Nat /\ serving[f] \in Nat /\ conn[f] \in Nat
    BY <1>1, TransmitEffect DEF PathTypes
  <2>2. QED
    BY <1>1, <2>1, TransmitEffect
<1>3. \A i \in 1 .. Len(net[f]) : /\ net[f][i].conn \in Nat /\ net[f][i].conn <= k
                                  /\ net[f][i].conn >= serving[f]
  <2>1. ASSUME NEW i \in 1 .. Len(net[f])
        PROVE  net[f][i].conn \in Nat /\ net[f][i].conn <= conn[f]
    <3>1. PacketTyped(f, net[f][i])
      BY <1>1 DEF FlowInv
    <3>2. QED
      BY <3>1, PacketFields DEF PacketTyped
  <2>2. QED
    BY <1>2, <2>1 DEF InSequence
<1>4. k >= serving[f]
  BY <1>1, <1>2 DEF FlowTyped
<1> DEFINE c(i) == net'[f][i].conn
<1>5. /\ c(Len(net[f]) + 1) = k
      /\ \A i \in 1 .. Len(net[f]) : c(i) = net[f][i].conn
  BY <1>2
<1>6. \A i \in 1 .. Len(net'[f]) : i \in 1 .. Len(net[f]) \/ i = Len(net[f]) + 1
  BY <1>2
<1>7. \A i \in 1 .. Len(net'[f]) : c(i) >= serving'[f]
  BY <1>3, <1>4, <1>5, <1>6
<1>8. \A i, j \in 1 .. Len(net'[f]) : i < j => c(i) <= c(j)
  <2>1. SUFFICES ASSUME NEW i \in 1 .. Len(net'[f]), NEW j \in 1 .. Len(net'[f]), i < j
                 PROVE  c(i) <= c(j)
    OBVIOUS
  <2>2. i \in 1 .. Len(net[f])
    BY <1>2, <2>1
  <2>3. CASE j \in 1 .. Len(net[f])
    BY <1>5, <2>1, <2>2, <2>3 DEF InSequence
  <2>4. CASE j = Len(net[f]) + 1
    BY <1>3, <1>5, <2>2, <2>4
  <2>5. QED
    BY <1>6, <2>3, <2>4
<1>9. QED
  BY <1>7, <1>8 DEF InSequence

\* The first packet goes: what follows it is not older than it.
LEMMA TakeInSequence ==
    ASSUME PathTypes, NEW f \in Flows, InSequence(f),
           1 \in 1 .. Len(net[f]), Take(f, 1),
           serving'[f] = serving[f] \/ serving'[f] = net[f][1].conn
    PROVE  InSequence(f)'
<1>1. /\ Len(net'[f]) = Len(net[f]) - 1 /\ Len(net[f]) \in Nat
      /\ \A j \in 1 .. Len(net'[f]) : net'[f][j] = net[f][j + 1]
  <2>1. net[f] \in Seq([conn : Nat, pos : Nat])
    BY DEF PathTypes
  <2>2. /\ Len(net'[f]) = Len(net[f]) - 1
        /\ \A j \in 1 .. Len(net'[f]) :
              net'[f][j] = IF j < 1 THEN net[f][j] ELSE net[f][j + 1]
    BY TakeEffect
  <2>3. Len(net[f]) \in Nat
    BY <2>1
  <2>4. ASSUME NEW j \in 1 .. Len(net'[f]) PROVE net'[f][j] = net[f][j + 1]
    <3>1. ~(j < 1)
      BY <2>2, <2>3
    <3>2. QED
      BY <2>2, <3>1
  <2>5. QED
    BY <2>2, <2>3, <2>4
<1>2. \A j \in 1 .. Len(net'[f]) : j + 1 \in 1 .. Len(net[f]) /\ 1 < j + 1
  BY <1>1
<1>3. \A j \in 1 .. Len(net'[f]) :
        net'[f][j].conn >= serving[f] /\ net'[f][j].conn >= net[f][1].conn
  <2>1. ASSUME NEW j \in 1 .. Len(net'[f])
        PROVE  net'[f][j].conn >= serving[f] /\ net'[f][j].conn >= net[f][1].conn
    <3>1. net[f][j + 1].conn >= serving[f] /\ net[f][1].conn <= net[f][j + 1].conn
      BY <1>2 DEF InSequence
    <3>2. net[f][1].conn \in Nat /\ net[f][j + 1].conn \in Nat
      <4>1. net[f] \in Seq([conn : Nat, pos : Nat])
        BY DEF PathTypes
      <4>2. j + 1 \in 1 .. Len(net[f]) /\ 1 \in 1 .. Len(net[f])
        BY <1>2
      <4>3. net[f][1] \in [conn : Nat, pos : Nat] /\ net[f][j + 1] \in [conn : Nat, pos : Nat]
        BY <4>1, <4>2, ElementIn
      <4>4. QED
        BY <4>3
    <3>3. QED
      BY <1>1, <3>1, <3>2
  <2>2. QED
    BY <2>1
<1>4. \A j \in 1 .. Len(net'[f]) : net'[f][j].conn >= serving'[f]
  BY <1>3
<1>5. \A i, j \in 1 .. Len(net'[f]) : i < j => net'[f][i].conn <= net'[f][j].conn
  <2>1. SUFFICES ASSUME NEW i \in 1 .. Len(net'[f]), NEW j \in 1 .. Len(net'[f]), i < j
                 PROVE  net'[f][i].conn <= net'[f][j].conn
    OBVIOUS
  <2>2. i + 1 < j + 1
    BY <1>1, <2>1
  <2>3. net[f][i + 1].conn <= net[f][j + 1].conn
    BY <1>2, <2>2 DEF InSequence
  <2>4. QED
    BY <1>1, <2>3
<1>6. QED
  BY <1>4, <1>5 DEF InSequence

\* What a delivery does to its flow when the packet is the first under way.
LEMMA DeliveredFirst ==
    ASSUME "reorder" \notin Faults, PathInv, NEW f \in Flows, NEW p \in Packets(f), Arrive(f, p)
    PROVE  /\ 1 \in 1 .. Len(net[f]) /\ net[f][1] = p /\ Take(f, 1) /\ UNCHANGED client
           /\ p \in [conn : Nat, pos : Nat] /\ PacketTyped(f, p)
           /\ Judged(f, 1) \/ Unfiltered(f, 1)
           /\ Receive(f, p) \/ UNCHANGED server
<1>1. PICK i \in Deliverable(f) : net[f][i] = p /\ (Judged(f, i) \/ Unfiltered(f, i))
  BY DEF Arrive
<1>2. i = 1 /\ 1 \in 1 .. Len(net[f])
  BY FirstOnly DEF PathInv
<1>3. Judged(f, 1) \/ Unfiltered(f, 1)
  BY <1>1, <1>2
<1>4. /\ Take(f, 1) /\ UNCHANGED client
      /\ Receive(f, p) \/ UNCHANGED server
  BY <1>1, <1>2, <1>3 DEF Judged, Unfiltered
<1>5. PacketTyped(f, p)
  BY <1>1, <1>2 DEF PathInv, FlowInv
<1>6. QED
  BY <1>1, <1>2, <1>3, <1>4, <1>5, PacketFields

LEMMA SequenceStep ==
    ASSUME "reorder" \notin Faults, PathInv, \A f \in Flows : InSequence(f), [Next]_vars
    PROVE  \A f \in Flows : InSequence(f)'
<1>1. PathTypes
  BY DEF PathInv
<1>2. ASSUME NEW g \in Flows, net'[g] = net[g], serving'[g] = serving[g]
      PROVE  InSequence(g)'
  <2>1. InSequence(g)
    OBVIOUS
  <2>2. QED
    BY <1>2, <2>1 DEF InSequence
<1>3. ASSUME NEW f \in Flows, NEW k \in Nat, NEW n \in Nat,
             Transmit(f, k, n), k >= conn[f], serving' = serving
      PROVE  \A g \in Flows : InSequence(g)'
  <2>1. InSequence(f)'
    BY <1>3, TransmitInSequence
  <2>2. ASSUME NEW g \in Flows, g # f PROVE InSequence(g)'
    <3>1. net'[g] = net[g] /\ serving'[g] = serving[g]
      <4>1. \A h \in Flows \ {f} : net'[h] = net[h]
        BY <1>1, <1>3, TransmitEffect, Zenon
      <4>2. QED
        BY <1>3, <2>2, <4>1, Zenon
    <3>2. QED
      BY <1>2, <3>1
  <2>3. QED
    BY <2>1, <2>2
<1>4. ASSUME NEW f \in Flows, Open(f) PROVE \A g \in Flows : InSequence(g)'
  <2>1. conn[f] + 1 \in Nat /\ conn[f] + 1 >= conn[f] /\ 0 \in Nat
    BY <1>1 DEF PathTypes
  <2>2. Transmit(f, conn[f] + 1, 0) /\ serving' = serving
    BY <1>4 DEF Open, server
  <2>3. QED
    BY <1>3, <2>1, <2>2
<1>5. ASSUME NEW f \in Flows, SendNext(f) \/ Retransmit(f)
      PROVE  \A g \in Flows : InSequence(g)'
  <2>1. conn[f] \in Nat /\ conn[f] >= conn[f] /\ sent[f] \in Nat /\ acked[f] \in Nat
    BY <1>1 DEF PathTypes
  <2>2. /\ Transmit(f, conn[f], sent[f]) \/ Transmit(f, conn[f], acked[f])
        /\ serving' = serving
    BY <1>5 DEF SendNext, Retransmit, server
  <2>3. QED
    BY <1>3, <2>1, <2>2
<1>6. ASSUME NEW f \in Flows, 1 \in 1 .. Len(net[f]), Take(f, 1),
             serving'[f] = serving[f] \/ serving'[f] = net[f][1].conn,
             \A g \in Flows \ {f} : serving'[g] = serving[g]
      PROVE  \A g \in Flows : InSequence(g)'
  <2>1. InSequence(f)'
    BY <1>1, <1>6, TakeInSequence
  <2>2. ASSUME NEW g \in Flows, g # f PROVE InSequence(g)'
    <3>1. net'[g] = net[g] /\ serving'[g] = serving[g]
      BY <1>1, <1>6, <2>2, TakeEffect
    <3>2. QED
      BY <1>2, <3>1
  <2>3. QED
    BY <2>1, <2>2
<1>7. ASSUME NEW f \in Flows, Lose(f) PROVE \A g \in Flows : InSequence(g)'
  <2>1. PICK i \in Deliverable(f) : Take(f, i)
    BY <1>7 DEF Lose
  <2>2. i = 1 /\ 1 \in 1 .. Len(net[f])
    BY <1>1, FirstOnly
  <2>3. serving' = serving
    BY <1>7 DEF Lose, server
  <2>4. QED
    BY <1>6, <2>1, <2>2, <2>3
<1>8. ASSUME NEW f \in Flows, NEW p \in Packets(f), Arrive(f, p)
      PROVE  \A g \in Flows : InSequence(g)'
  <2>1. /\ 1 \in 1 .. Len(net[f]) /\ net[f][1] = p /\ Take(f, 1)
        /\ p \in [conn : Nat, pos : Nat]
        /\ Receive(f, p) \/ UNCHANGED server
    BY <1>8, DeliveredFirst
  <2>2. /\ serving'[f] = serving[f] \/ serving'[f] = p.conn
        /\ \A g \in Flows \ {f} : serving'[g] = serving[g]
    BY <1>1, <2>1, ReceiveEffect DEF server
  <2>3. QED
    BY <1>6, <2>1, <2>2
<1>9. ASSUME UNCHANGED <<net, serving>> PROVE \A g \in Flows : InSequence(g)'
  BY <1>2, <1>9
<1>10. ASSUME NEW f \in Flows, LearnAck(f) \/ LearnReset(f) \/ Vanish(f) \/ ServerReset(f)
       PROVE  UNCHANGED <<net, serving>>
  BY <1>10 DEF LearnAck, LearnReset, Vanish, ServerReset, server
<1>11. CASE Detach \/ Attach \/ UNCHANGED vars
  BY <1>9, <1>11 DEF Detach, Attach, vars, server
<1>12. QED
  BY <1>4, <1>5, <1>7, <1>8, <1>9, <1>10, <1>11 DEF Next
-----------------------------------------------------------------------------
(* Who is let in.                                                           *)

\* A flow that keeps its entry or loses it, and its server, is vouched for as before.
LEMMA StaysVouched ==
    ASSUME NEW C, NEW g \in Flows, Vouched(g, C), g \in allowed' => g \in allowed,
           serving'[g] = serving[g], got'[g] = got[g]
    PROVE  Vouched(g, C)'
BY DEF Vouched

\* The first packet under way passes the filter only if its connection is in C.
LEMMA JudgedVouches ==
    ASSUME PathInv, NEW f \in Flows, InSequence(f), NEW C, Guarded(f) => Vouched(f, C),
           1 \in 1 .. Len(net[f]), Judged(f, 1), Guarded(f)',
           net[f][1].conn > since[f] /\ AsSegment(f, net[f][1]).data = "handshake"
              => <<f, net[f][1].conn>> \in C
    PROVE  Vouched(f, C)'
<1>0. PICK p, s : p = net[f][1] /\ s = AsSegment(f, p)
  OBVIOUS
<1>1. PathTypes /\ FlowInv(f) /\ FlowTyped(f) /\ PacketTyped(f, p)
  BY <1>0 DEF PathInv, FlowInv
<1>2. p \in Packets(f)
  BY <1>1 DEF PacketTyped
<1>3. /\ p \in [conn : Nat, pos : Nat] /\ p.conn \in 1 .. Len(Streams[f])
      /\ p.conn \in Nat /\ p.pos \in Nat /\ p.conn # 0 /\ serving[f] \in Nat
  BY <1>1, <1>2, PacketFields DEF PathTypes
<1>4. p.conn >= serving[f] /\ (p.pos > 0 => p.conn <= serving[f])
  BY <1>0, <1>1 DEF InSequence, PacketTyped
<1>5. /\ s \in Segments /\ s.flow = f /\ (s.syn <=> p.pos = 0)
      /\ p.pos = 0 => s.data = "none"
      /\ p.pos \in DOMAIN Streams[f][p.conn] => s.data = Streams[f][p.conn][p.pos]
  BY <1>0, <1>2, SegmentOf
<1>6. /\ allowed' \in MapsAfter(allowed, s)
      /\ \/ Action(AfterSyn(allowed, s), s) = "PASS" /\ Receive(f, p)
         \/ UNCHANGED server
  BY <1>0 DEF Judged
<1>7. /\ allowed' \subseteq allowed \cup {f}
      /\ s.data # "handshake" => allowed' \subseteq AfterEnd(AfterSyn(allowed, s), s)
  BY <1>1, <1>5, <1>6, MapsAfterAre DEF PathTypes
<1>8. /\ DOMAIN Streams[f][p.conn] = 1 .. Len(Streams[f][p.conn])
      /\ Streams[f][p.conn] \in Seq({"handshake", "other"})
  BY <1>3, StreamsAre
<1>9. \/ p.pos = 0 /\ p.conn > serving[f] /\ serving'[f] = p.conn /\ got'[f] = {0}
      \/ /\ Receive(f, p) /\ p.conn = serving[f] /\ serving'[f] = serving[f]
         /\ got'[f] = got[f] \cup {p.pos}
      \/ serving'[f] = serving[f] /\ got'[f] = got[f]
  <2>1. CASE Receive(f, p)
    BY <1>1, <1>3, <2>1, ReceiveEffect
  <2>2. CASE UNCHANGED server
    BY <2>2 DEF server
  <2>3. QED
    BY <1>6, <2>1, <2>2
<1>13. serving'[f] = serving[f] => serving[f] > since[f] /\ Vouched(f, C)
  BY DEF Judged, Guarded
<1>10. CASE p.pos = 0
  <2>1. f \notin allowed'
    BY <1>5, <1>7, <1>10 DEF AfterEnd, AfterSyn
  <2>2. CASE serving'[f] = p.conn /\ got'[f] = {0}
    <3>1. got'[f] \cap DOMAIN Streams[f][serving'[f]] = {}
      BY <1>8, <2>2
    <3>2. QED
      BY <2>1, <3>1 DEF Vouched
  <2>3. CASE p.conn = serving[f] /\ serving'[f] = serving[f] /\ got'[f] = got[f] \cup {p.pos}
    <3>1. got'[f] \cap DOMAIN Streams[f][serving'[f]] = got[f] \cap DOMAIN Streams[f][serving[f]]
      BY <1>8, <1>10, <2>3
    <3>2. QED
      BY <1>13, <2>1, <2>3, <3>1 DEF Vouched
  <2>4. CASE serving'[f] = serving[f] /\ got'[f] = got[f]
    BY <1>13, <2>1, <2>4 DEF Vouched
  <2>5. QED
    BY <1>9, <2>2, <2>3, <2>4
<1>11. CASE p.pos # 0
  <2>1. p.conn = serving[f] /\ serving[f] # 0 /\ serving'[f] = serving[f]
    BY <1>3, <1>4, <1>9, <1>11
  <2>0. serving[f] > since[f] /\ Vouched(f, C)
    BY <1>13, <2>1
  <2>2. f \in allowed' => <<f, serving[f]>> \in C
    <3>1. CASE s.data = "handshake"
      BY <1>0, <2>0, <2>1, <3>1
    <3>2. CASE s.data # "handshake"
      <4>1. allowed' \subseteq allowed
        BY <1>7, <3>2 DEF AfterEnd, AfterSyn
      <4>2. QED
        BY <2>0, <4>1 DEF Vouched
    <3>3. QED
      BY <3>1, <3>2
  <2>3. got'[f] \cap DOMAIN Streams[f][serving[f]] # {} => <<f, serving[f]>> \in C
    <3>1. CASE got'[f] \cap DOMAIN Streams[f][serving[f]] = got[f] \cap DOMAIN Streams[f][serving[f]]
      BY <2>0, <2>1, <3>1 DEF Vouched
    <3>2. CASE /\ got'[f] = got[f] \cup {p.pos}
               /\ p.pos \in DOMAIN Streams[f][p.conn]
               /\ UNCHANGED server
      BY <2>0, <2>1, <3>2 DEF Vouched, server
    <3>3. CASE /\ got'[f] = got[f] \cup {p.pos}
               /\ p.pos \in DOMAIN Streams[f][p.conn]
               /\ Action(AfterSyn(allowed, s), s) = "PASS"
      <4>1. s.data # "none"
        BY <1>5, <1>8, <3>3
      <4>2. f \in allowed \/ s.data = "handshake"
        BY <1>5, <3>3, <4>1 DEF Action, Accepts, AfterSyn
      <4>3. QED
        BY <1>0, <2>0, <2>1, <4>2 DEF Vouched
    <3>4. QED
      BY <1>6, <1>9, <1>11, <2>1, <3>1, <3>2, <3>3
  <2>4. QED
    BY <2>1, <2>2, <2>3 DEF Vouched
<1>12. QED
  BY <1>10, <1>11

\* Where the filter is attached and has not just been, it was, and what is guarded stays so.
LEMMA StillAttached ==
    ASSUME [Next]_vars, attached', ~Attach PROVE attached /\ since' = since
<1>1. ASSUME NEW f \in Flows,
             \/ Open(f) \/ SendNext(f) \/ Retransmit(f)
             \/ LearnAck(f) \/ LearnReset(f) \/ Vanish(f)
             \/ ServerReset(f) \/ Lose(f)
      PROVE  attached' = attached /\ since' = since
  BY <1>1 DEF Open, SendNext, Retransmit, LearnAck, LearnReset, Vanish, ServerReset, Lose, filter
<1>2. ASSUME NEW f \in Flows, NEW p \in Packets(f), Arrive(f, p)
      PROVE  attached' = attached /\ since' = since
  BY <1>2 DEF Arrive, Judged, Unfiltered, filter
<1>3. CASE UNCHANGED vars
  BY <1>3 DEF vars, filter
<1>4. QED
  BY <1>1, <1>2, <1>3 DEF Next, Detach

\* What the filter has just been attached in front of is not guarded.
LEMMA NoneGuarded ==
    ASSUME PathInv, Attach, NEW f \in Flows PROVE ~Guarded(f)'
<1>1. since' = conn /\ serving' = serving
  BY DEF Attach, server
<1>2. serving[f] <= conn[f] /\ serving[f] \in Nat /\ conn[f] \in Nat
  BY DEF PathInv, PathTypes, FlowInv, FlowTyped
<1>3. QED
  BY <1>1, <1>2 DEF Guarded

LEMMA VouchStep ==
    ASSUME "reorder" \notin Faults, PathInv, \A f \in Flows : InSequence(f), [Next]_vars,
           NEW C, VouchInv(C),
           attached => \A f \in Flows : \A i \in 1 .. Len(net[f]) :
              net[f][i].conn > since[f] /\ AsSegment(f, net[f][i]).data = "handshake"
                 => <<f, net[f][i].conn>> \in C
    PROVE  VouchInv(C)'
<1> SUFFICES ASSUME NEW g \in Flows, Guarded(g)' PROVE Vouched(g, C)'
  BY DEF VouchInv
<1>1. PathTypes
  BY DEF PathInv
<1>2. ~Attach
  BY NoneGuarded
<1>3. attached /\ since' = since
  BY <1>2, StillAttached DEF Guarded
<1>4. ASSUME UNCHANGED <<allowed, serving, got>> PROVE Vouched(g, C)'
  <2>1. Guarded(g)
    BY <1>3, <1>4 DEF Guarded
  <2>2. QED
    BY <1>4, <2>1, StaysVouched DEF VouchInv
<1>5. ASSUME NEW f \in Flows, NEW p \in Packets(f), Arrive(f, p) PROVE Vouched(g, C)'
  <2>1. /\ 1 \in 1 .. Len(net[f]) /\ net[f][1] = p /\ Judged(f, 1)
        /\ p \in [conn : Nat, pos : Nat] /\ (Receive(f, p) \/ UNCHANGED server)
    BY <1>3, <1>5, DeliveredFirst DEF Unfiltered
  <2>2. CASE g = f
    <3>1. InSequence(f) /\ (Guarded(f) => Vouched(f, C))
      BY DEF VouchInv
    <3>2. net[f][1].conn > since[f] /\ AsSegment(f, net[f][1]).data = "handshake"
             => <<f, net[f][1].conn>> \in C
      BY <1>3, <2>1
    <3>3. QED
      BY <2>1, <2>2, <3>1, <3>2, JudgedVouches
  <2>3. CASE g # f
    <3>1. allowed' \subseteq allowed \cup {f}
      <4>1. PICK s : s = AsSegment(f, net[f][1])
        OBVIOUS
      <4>2. s \in Segments /\ s.flow = f /\ allowed' \in MapsAfter(allowed, s)
        BY <2>1, <4>1, JudgedIs
      <4>3. QED
        BY <1>1, <4>2, MapsAfterAre DEF PathTypes
    <3>2. serving'[g] = serving[g] /\ got'[g] = got[g]
      BY <1>1, <2>1, <2>3, ReceiveEffect DEF server
    <3>3. Guarded(g)
      BY <1>3, <3>2 DEF Guarded
    <3>4. QED
      BY <2>3, <3>1, <3>2, <3>3, StaysVouched DEF VouchInv
  <2>4. QED
    BY <2>2, <2>3
<1>6. ASSUME NEW f \in Flows,
             \/ Open(f) \/ SendNext(f) \/ Retransmit(f)
             \/ LearnAck(f) \/ LearnReset(f) \/ Vanish(f)
             \/ ServerReset(f) \/ Lose(f)
      PROVE  UNCHANGED <<allowed, serving, got>>
  BY <1>6 DEF Open, SendNext, Retransmit, LearnAck, LearnReset, Vanish, ServerReset, Lose,
              server, filter
<1>7. ~Detach
  BY DEF Detach, Guarded
<1>8. CASE UNCHANGED vars
  BY <1>4, <1>8 DEF vars, server, filter
<1>9. QED
  BY <1>2, <1>4, <1>5, <1>6, <1>7, <1>8 DEF Next

LEMMA VouchInit ==
    ASSUME NEW C, Init PROVE VouchInv(C) /\ \A f \in Flows : InSequence(f)
<1>1. ASSUME NEW f \in Flows PROVE InSequence(f) /\ ~Guarded(f)
  <2>1. net[f] = <<>> /\ serving[f] = 0 /\ since[f] = 0
    BY DEF Init
  <2>2. 1 .. Len(net[f]) = {}
    BY <2>1
  <2>3. QED
    BY <2>1, <2>2 DEF InSequence, Guarded
<1>2. QED
  BY <1>1 DEF VouchInv

\* "WithHandshake" holds the connections that send one.
LEMMA WithHandshakeIs ==
    ASSUME NEW f \in Flows, NEW k \in 1 .. Len(Streams[f])
    PROVE  /\ <<f, k>> \in WithHandshake <=> HasHandshake(f, k)
           /\ <<f, k>> \in StartWithHandshake <=>
                 HasHandshake(f, k) /\ Streams[f][k][1] = "handshake"
<1>1. <<f, k>> \in AllConnections
  BY DEF AllConnections, Connections
<1>2. <<f, k>>[1] = f /\ <<f, k>>[2] = k
  OBVIOUS
<1>3. QED
  BY <1>1, <1>2 DEF WithHandshake, StartWithHandshake

\* While the filter is attached, and on a network that does not reorder the
\* packets of a flow, nothing of a connection that sends no handshake is kept by the
\* server, whichever connection its 4-tuple was remembered for and however often the
\* filter was restarted before.
THEOREM StrangersAreNeverHeard ==
    ASSUME "reorder" \notin Faults PROVE Spec => []StrangersAreNotHeard
<1> DEFINE Inv == PathInv /\ (\A f \in Flows : InSequence(f)) /\ VouchInv(WithHandshake)
<1>1. Init => Inv
  BY PathInvInit, VouchInit
<1>2. Inv /\ [Next]_vars => Inv'
  <2> SUFFICES ASSUME Inv, [Next]_vars PROVE Inv'
    OBVIOUS
  <2>1. PathInv' /\ \A f \in Flows : InSequence(f)'
    BY PathInvStep, SequenceStep
  <2>2. ASSUME NEW f \in Flows, NEW i \in 1 .. Len(net[f]),
               AsSegment(f, net[f][i]).data = "handshake"
        PROVE  <<f, net[f][i].conn>> \in WithHandshake
    <3>1. net[f][i] \in Packets(f)
      BY DEF PathInv, FlowInv, PacketTyped
    <3>2. net[f][i].conn \in 1 .. Len(Streams[f]) /\ HasHandshake(f, net[f][i].conn)
      BY <2>2, <3>1, PacketFields, SegmentOf
    <3>3. QED
      BY <3>2, WithHandshakeIs
  <2>3. VouchInv(WithHandshake)'
    <3>1. PICK C : C = WithHandshake
      OBVIOUS
    <3>2. VouchInv(C)
      BY <3>1
    <3>3. VouchInv(C)'
      BY <2>2, <3>1, <3>2, VouchStep
    <3>4. WithHandshake' = C
      BY <3>1 DEF WithHandshake, AllConnections, HasHandshake, Connections
    <3>5. QED
      BY <3>3, <3>4 DEF VouchInv, Vouched
  <2>4. QED
    BY <2>1, <2>3
<1>3. Inv => StrangersAreNotHeard
  <2> SUFFICES ASSUME Inv, NEW f \in Flows, Guarded(f),
                      got[f] \cap DOMAIN Streams[f][serving[f]] # {}
               PROVE  HasHandshake(f, serving[f])
    BY DEF StrangersAreNotHeard
  <2>1. <<f, serving[f]>> \in WithHandshake
    BY DEF VouchInv, Vouched
  <2>2. serving[f] \in 1 .. Len(Streams[f])
    BY <2>1 DEF WithHandshake, AllConnections, Connections
  <2>3. QED
    BY <2>1, <2>2, WithHandshakeIs
<1>4. QED
  BY <1>1, <1>2, <1>3, PTL DEF Spec
-----------------------------------------------------------------------------
(* A client that waits for its first payload to be acknowledged.            *)

LEMMA AckedInStep ==
    ASSUME PathInv, \A f \in Flows : AckedIn(f), [Next]_vars
    PROVE  \A f \in Flows : AckedIn(f)'
<1>1. PathTypes
  BY DEF PathInv
<1>2. ASSUME NEW f \in Flows, acked'[f] = acked[f], got[f] \subseteq got'[f]
      PROVE  AckedIn(f)'
  BY <1>2 DEF AckedIn
<1>3. ASSUME NEW f \in Flows, Open(f), NEW g \in Flows PROVE AckedIn(g)'
  <2>1. /\ acked'[g] = IF g = f THEN 0 ELSE acked[g]
        /\ got' = got
    BY <1>1, <1>3 DEF Open, server, PathTypes
  <2>2. CASE g = f
    <3>1. 0 .. acked'[g] - 1 = {}
      BY <2>1, <2>2
    <3>2. QED
      BY <3>1 DEF AckedIn
  <2>3. CASE g # f
    BY <1>2, <2>1, <2>3
  <2>4. QED
    BY <2>2, <2>3
<1>4. ASSUME NEW f \in Flows, LearnAck(f), NEW g \in Flows PROVE AckedIn(g)'
  <2>1. /\ acked'[g] = IF g = f THEN Expected(f) ELSE acked[g]
        /\ got' = got /\ open[f] /\ serving[f] = conn[f]
    BY <1>1, <1>4 DEF LearnAck, server, PathTypes
  <2>2. FlowTyped(f)
    BY DEF PathInv, FlowInv
  <2>3. serving[f] # 0
    BY <2>1, <2>2 DEF FlowTyped
  <2>4. \A m \in 0 .. Expected(f) - 1 : m \in got[f]
    BY <1>1, <2>2, <2>3, ExpectedIs
  <2>5. CASE g = f
    BY <2>1, <2>4, <2>5 DEF AckedIn
  <2>6. CASE g # f
    BY <1>2, <2>1, <2>6
  <2>7. QED
    BY <2>5, <2>6
<1>5. ASSUME NEW f \in Flows, NEW p \in Packets(f), Arrive(f, p), NEW g \in Flows
      PROVE  AckedIn(g)'
  <2>1. PICK i \in Deliverable(f) : net[f][i] = p /\ (Judged(f, i) \/ Unfiltered(f, i))
    BY <1>5 DEF Arrive
  <2>2. i \in 1 .. Len(net[f])
    BY <1>1, DeliverableIn
  <2>3. PacketTyped(f, p) /\ p \in [conn : Nat, pos : Nat] /\ p.conn <= conn[f]
    BY <2>1, <2>2, PacketFields DEF PathInv, FlowInv, PacketTyped
  <2>4. acked' = acked /\ (Receive(f, p) \/ UNCHANGED server)
    BY <2>1 DEF Judged, Unfiltered, client
  <2>5. CASE g = f /\ acked[f] > 0
    <3>1. serving[f] = conn[f]
      BY <2>5 DEF PathInv, FlowInv
    <3>2. ~(p.conn > serving[f])
      BY <1>1, <2>3, <3>1 DEF PathTypes
    <3>3. got[f] \subseteq got'[f]
      BY <1>1, <2>3, <2>4, <3>2, ReceiveEffect DEF server
    <3>4. QED
      BY <1>2, <2>4, <2>5, <3>3
  <2>6. CASE g = f /\ ~(acked[f] > 0)
    <3>1. acked'[g] = 0
      BY <1>1, <2>4, <2>6 DEF PathTypes
    <3>2. 0 .. acked'[g] - 1 = {}
      BY <3>1
    <3>3. QED
      BY <3>2 DEF AckedIn
  <2>7. CASE g # f
    <3>1. got'[g] = got[g]
      BY <1>1, <2>3, <2>4, <2>7, ReceiveEffect DEF server
    <3>2. QED
      BY <1>2, <2>4, <3>1
  <2>8. QED
    BY <2>5, <2>6, <2>7
<1>6. ASSUME UNCHANGED <<acked, got>> PROVE \A f \in Flows : AckedIn(f)'
  BY <1>2, <1>6
<1>7. ASSUME NEW f \in Flows,
             \/ SendNext(f) \/ Retransmit(f) \/ LearnReset(f) \/ Vanish(f)
             \/ ServerReset(f) \/ Lose(f)
      PROVE  UNCHANGED <<acked, got>>
  BY <1>7 DEF SendNext, Retransmit, LearnReset, Vanish, ServerReset, Lose, client, server
<1>8. CASE Detach \/ Attach \/ UNCHANGED vars
  BY <1>6, <1>8 DEF Detach, Attach, vars, client, server
<1>9. QED
  BY <1>3, <1>4, <1>5, <1>6, <1>7, <1>8 DEF Next

\* The handshakes under way are of connections that start with one.
LEMMA HandshakesAreFirst ==
    ASSUME PathInv, LateHandshakesWait, NEW f \in Flows, Window[f] = 1 => Paced(f),
           NEW i \in 1 .. Len(net[f]), net[f][i].conn > since[f], AsSegment(f, net[f][i]).data = "handshake"
    PROVE  <<f, net[f][i].conn>> \in StartWithHandshake
<1>0. PICK p : p = net[f][i]
  OBVIOUS
<1>1. p \in Packets(f)
  BY <1>0 DEF PathInv, FlowInv, PacketTyped
<1>2. /\ p.conn \in 1 .. Len(Streams[f]) /\ p.pos \in Nat /\ p.pos > 0
      /\ p.pos \in 0 .. FinPos(f, p.conn)
      /\ HasHandshake(f, p.conn)
      /\ p.pos \in DOMAIN Streams[f][p.conn] => Streams[f][p.conn][p.pos] = "handshake"
  BY <1>0, <1>1, PacketFields, SegmentOf
<1>3. CASE Window[f] = 1
  <2>1. SUFFICES ASSUME <<f, p.conn>> \notin StartWithHandshake PROVE FALSE
    BY <1>0
  <2>2. p.pos = 1
    BY <1>0, <1>2, <1>3, <2>1 DEF Paced
  <2>3. 1 \in DOMAIN Streams[f][p.conn]
    <3>1. /\ DOMAIN Streams[f][p.conn] = 1 .. Len(Streams[f][p.conn])
          /\ Streams[f][p.conn] \in Seq({"handshake", "other"})
      BY <1>2, StreamsAre
    <3>2. \E j \in 1 .. Len(Streams[f][p.conn]) : TRUE
      BY <1>2, <3>1 DEF HasHandshake, ToSet
    <3>3. QED
      BY <3>1, <3>2
  <2>4. QED
    BY <1>2, <2>1, <2>2, <2>3, WithHandshakeIs
<1>4. CASE \A k \in Connections(f) : <<f, k>> \in WithHandshake => <<f, k>> \in StartWithHandshake
  BY <1>0, <1>2, <1>4, WithHandshakeIs DEF Connections
<1>5. QED
  BY <1>3, <1>4 DEF LateHandshakesWait

\* Unacknowledged packets are few, and those of a connection that starts with something
\* else are its SYN and its first payload.
LEMMA TransmitPaced ==
    ASSUME PathTypes, NEW f \in Flows, Paced(f),
           NEW k \in Nat, NEW n \in Nat, Transmit(f, k, n),
           k > since[f] /\ <<f, k>> \notin StartWithHandshake => n <= 1
    PROVE  \A i \in 1 .. Len(net'[f]) :
              net'[f][i].conn > since[f] /\ <<f, net'[f][i].conn>> \notin StartWithHandshake
                 => net'[f][i].pos <= 1
<1>0. Len(net[f]) \in Nat
  BY DEF PathTypes
<1>1. /\ Len(net'[f]) = Len(net[f]) + 1
      /\ \A i \in 1 .. Len(net[f]) : net'[f][i] = net[f][i]
      /\ net'[f][Len(net[f]) + 1] = [conn |-> k, pos |-> n]
  BY TransmitEffect, Zenon
<1>2. SUFFICES ASSUME NEW i \in 1 .. Len(net'[f]), net'[f][i].conn > since[f],
                      <<f, net'[f][i].conn>> \notin StartWithHandshake
               PROVE  net'[f][i].pos <= 1
  OBVIOUS
<1>3. CASE i \in 1 .. Len(net[f])
  BY <1>1, <1>2, <1>3 DEF Paced
<1>4. CASE i = Len(net[f]) + 1
  <2>1. net'[f][i] = [conn |-> k, pos |-> n]
    BY <1>1, <1>4
  <2>2. QED
    BY <1>2, <2>1
<1>5. QED
  BY <1>0, <1>1, <1>3, <1>4

\* One position at a time.
LEMMA WindowStep ==
    ASSUME PathInv, PathInv', NEW f \in Flows, Window[f] = 1, sent[f] <= acked[f] + 1, [Next]_vars
    PROVE  sent'[f] <= acked'[f] + 1
<1>1. PathTypes /\ PathTypes'
  BY DEF PathInv
<1>2. sent[f] \in Nat /\ acked[f] \in Nat /\ acked'[f] \in Nat
  BY <1>1 DEF PathTypes
<1>3. CASE Open(f)
  <2>1. sent'[f] = 1 /\ acked'[f] = 0
    BY <1>1, <1>3 DEF Open, PathTypes
  <2>2. QED
    BY <2>1
<1>4. CASE SendNext(f)
  <2>1. sent'[f] = sent[f] + 1 /\ acked'[f] = acked[f] /\ sent[f] < acked[f] + 1
    BY <1>1, <1>4 DEF SendNext, PathTypes
  <2>2. QED
    BY <1>2, <2>1
<1>5. CASE LearnAck(f)
  <2>1. sent'[f] = sent[f] /\ acked'[f] = Expected(f) /\ Expected(f) > acked[f]
    BY <1>1, <1>5 DEF LearnAck, PathTypes
  <2>2. QED
    BY <1>2, <2>1
<1>6. ASSUME sent'[f] = sent[f], acked'[f] = acked[f] PROVE sent'[f] <= acked'[f] + 1
  BY <1>6
<1>7. ASSUME NEW g \in Flows, g # f, Open(g) \/ SendNext(g) \/ LearnAck(g)
      PROVE  sent'[f] = sent[f] /\ acked'[f] = acked[f]
  BY <1>1, <1>7 DEF Open, SendNext, LearnAck, PathTypes
<1>8. ASSUME NEW g \in Flows,
             \/ Retransmit(g) \/ LearnReset(g) \/ Vanish(g) \/ ServerReset(g) \/ Lose(g)
             \/ \E p \in Packets(g) : Arrive(g, p)
      PROVE  UNCHANGED <<sent, acked>>
  BY <1>8 DEF Retransmit, LearnReset, Vanish, ServerReset, Lose, Arrive, Judged, Unfiltered, client
<1>9. CASE Detach \/ Attach \/ UNCHANGED vars
  BY <1>6, <1>9 DEF Detach, Attach, vars, client
<1>10. QED
  BY <1>3, <1>4, <1>5, <1>6, <1>7, <1>8, <1>9 DEF Next

LEMMA PacedStep ==
    ASSUME PathInv, SinceInv, NEW f \in Flows, Window[f] = 1, sent[f] <= acked[f] + 1, Paced(f),
           AckedIn(f), Guarded(f) => Vouched(f, StartWithHandshake),
           [Next]_vars, attached, attached', since' = since
    PROVE  Paced(f)'
<1>1. PathTypes /\ FlowInv(f) /\ FlowTyped(f)
  BY DEF PathInv, FlowInv
<1>2. /\ conn[f] \in Nat /\ sent[f] \in Nat /\ acked[f] \in Nat
      /\ since[f] \in Nat /\ sent[f] <= acked[f] + 1
      /\ conn[f] > since[f] /\ <<f, conn[f]>> \notin StartWithHandshake => sent[f] <= 2
  BY <1>1 DEF PathTypes, SinceInv, Paced
<1> DEFINE Slow == \A i \in 1 .. Len(net'[f]) :
                      net'[f][i].conn > since[f] /\ <<f, net'[f][i].conn>> \notin StartWithHandshake
                         => net'[f][i].pos <= 1
<1>3. StartWithHandshake' = StartWithHandshake
  BY DEF StartWithHandshake, WithHandshake, AllConnections, HasHandshake, Connections
<1>4. ASSUME conn'[f] = conn[f], sent'[f] = sent[f], Slow PROVE Paced(f)'
  BY <1>2, <1>3, <1>4 DEF Paced
<1>5. ASSUME net'[f] = net[f] PROVE Slow
  BY <1>5 DEF Paced
<1>6. ASSUME NEW g \in Flows, NEW i \in 1 .. Len(net[g]), Take(g, i), UNCHANGED client
      PROVE  Paced(f)'
  <2>1. CASE g = f
    <3>1. Slow
      BY <1>1, <1>6, <2>1, TakeLeaves DEF Paced
    <3>2. QED
      BY <1>2, <1>4, <1>6, <3>1 DEF client
  <2>2. CASE g # f
    <3>1. net'[f] = net[f]
      BY <1>1, <1>6, <2>2, TakeEffect
    <3>2. QED
      BY <1>2, <1>4, <1>5, <1>6, <3>1 DEF client
  <2>3. QED
    BY <2>1, <2>2
<1>7. ASSUME NEW g \in Flows, g # f, Open(g) \/ SendNext(g) \/ Retransmit(g) PROVE Paced(f)'
  <2>1. net'[f] = net[f]
    BY <1>1, <1>7 DEF Open, SendNext, Retransmit, Transmit, PathTypes
  <2>2. conn'[f] = conn[f] /\ sent'[f] = sent[f]
    BY <1>1, <1>7 DEF Open, SendNext, Retransmit, client, PathTypes
  <2>3. QED
    BY <1>2, <1>4, <1>5, <2>1, <2>2
<1>8. CASE Open(f)
  <2>1. /\ conn'[f] = conn[f] + 1 /\ sent'[f] = 1
        /\ Transmit(f, conn[f] + 1, 0)
    BY <1>1, <1>8 DEF Open, PathTypes
  <2>2. conn[f] + 1 \in Nat /\ 0 \in Nat /\ 0 <= 1
    BY <1>2
  <2>3. Slow
    BY <1>1, <2>1, <2>2, TransmitPaced
  <2>4. QED
    BY <1>3, <2>1, <2>3 DEF Paced
<1>9. CASE SendNext(f)
  <2>1. /\ conn'[f] = conn[f] /\ sent'[f] = sent[f] + 1
        /\ Transmit(f, conn[f], sent[f]) /\ open[f] /\ acked[f] >= 1
        /\ sent[f] < acked[f] + 1 /\ sent[f] <= FinPos(f, conn[f])
    BY <1>1, <1>9 DEF SendNext, PathTypes
  <2>2. /\ serving[f] = conn[f] /\ conn[f] # 0 /\ conn[f] \in 1 .. Len(Streams[f])
    BY <1>1, <1>2, <2>1, StreamsAre DEF FlowInv, FlowTyped
  <2>3. ASSUME conn[f] > since[f], <<f, conn[f]>> \notin StartWithHandshake PROVE sent[f] <= 1
    <3>0. Vouched(f, StartWithHandshake)
      BY <2>2, <2>3 DEF Guarded
    <3>1. /\ DOMAIN Streams[f][conn[f]] = 1 .. Len(Streams[f][conn[f]])
          /\ FinPos(f, conn[f]) = Len(Streams[f][conn[f]]) + 1
          /\ FinPos(f, conn[f]) \in Nat
      BY <2>2, StreamsAre
    <3>2. 1 \notin got[f] \/ 1 \notin DOMAIN Streams[f][conn[f]]
      BY <2>2, <2>3, <3>0 DEF Vouched
    <3>3. CASE 1 \notin got[f]
      <4>1. ~(1 \in 0 .. acked[f] - 1)
        BY <3>3 DEF AckedIn
      <4>2. acked[f] <= 1
        BY <1>2, <4>1
      <4>3. QED
        BY <1>2, <2>1, <4>2
    <3>4. CASE 1 \notin DOMAIN Streams[f][conn[f]]
      <4>1. FinPos(f, conn[f]) <= 1
        BY <3>1, <3>4
      <4>2. QED
        BY <1>2, <2>1, <3>1, <4>1
    <3>5. QED
      BY <3>2, <3>3, <3>4
  <2>4. Slow
    BY <1>1, <1>2, <2>1, <2>3, TransmitPaced
  <2>5. conn'[f] > since[f] /\ <<f, conn'[f]>> \notin StartWithHandshake => sent'[f] <= 2
    BY <1>2, <2>1, <2>3
  <2>6. QED
    BY <1>3, <2>4, <2>5 DEF Paced
<1>10. CASE Retransmit(f)
  <2>1. /\ conn' = conn /\ sent' = sent
        /\ Transmit(f, conn[f], acked[f]) /\ acked[f] < sent[f]
    BY <1>10 DEF Retransmit, client
  <2>2. conn[f] > since[f] /\ <<f, conn[f]>> \notin StartWithHandshake => acked[f] <= 1
    BY <1>2, <2>1
  <2>3. Slow
    BY <1>1, <1>2, <2>1, <2>2, TransmitPaced
  <2>4. QED
    BY <1>2, <1>4, <2>1, <2>3
<1>11. ASSUME NEW g \in Flows, LearnAck(g) PROVE UNCHANGED <<conn, sent, net>>
  BY <1>11 DEF LearnAck
<1>12. ASSUME NEW g \in Flows, Lose(g) PROVE Paced(f)'
  BY <1>1, <1>6, <1>12, DeliverableIn DEF Lose
<1>13. ASSUME NEW g \in Flows, NEW p \in Packets(g), Arrive(g, p) PROVE Paced(f)'
  BY <1>1, <1>6, <1>13, DeliverableIn DEF Arrive, Judged, Unfiltered
<1>14. ASSUME UNCHANGED <<conn, sent, net>> PROVE Paced(f)'
  BY <1>2, <1>4, <1>5, <1>14
<1>15. ASSUME NEW g \in Flows, LearnReset(g) \/ Vanish(g) \/ ServerReset(g)
       PROVE  UNCHANGED <<conn, sent, net>>
  BY <1>15 DEF LearnReset, Vanish, ServerReset, client
<1>16. CASE Detach \/ Attach \/ UNCHANGED vars
  BY <1>14, <1>16 DEF Detach, Attach, vars, client
<1>17. QED
  BY <1>7, <1>8, <1>9, <1>10, <1>11, <1>12, <1>13, <1>14, <1>15, <1>16 DEF Next

\* Of connections older than the filter nothing is asked.
LEMMA NonePaced ==
    ASSUME PathInv, Attach, NEW f \in Flows PROVE Paced(f)'
<1>1. since' = conn /\ conn' = conn /\ net' = net
  BY DEF Attach, client
<1>2. conn[f] \in Nat
  BY DEF PathInv, PathTypes
<1>3. ASSUME NEW i \in 1 .. Len(net[f])
      PROVE  net[f][i].conn \in Nat /\ net[f][i].conn <= conn[f]
  <2>1. PacketTyped(f, net[f][i])
    BY DEF PathInv, FlowInv
  <2>2. net[f][i] \in Packets(f) /\ net[f][i].conn <= conn[f]
    BY <2>1 DEF PacketTyped
  <2>3. QED
    BY <2>2, PacketFields
<1>4. ~(conn[f] > conn[f]) /\ \A i \in 1 .. Len(net[f]) : ~(net[f][i].conn > conn[f])
  BY <1>2, <1>3
<1>5. QED
  BY <1>1, <1>4 DEF Paced

\* A client that waits for an answer to what it sends first, or whose handshakes come
\* first, is not rescued by a handshake that comes later: while the filter is attached,
\* on a network that does not reorder the packets of a flow, the server reads
\* only what starts with a handshake.
THEOREM LateHandshakesStayBlocked ==
    ASSUME "reorder" \notin Faults, LateHandshakesWait PROVE Spec => []StaysBlocked
<1> DEFINE Inv == PathInv /\ SinceInv /\ BlockInv
<1>1. Init => Inv
  <2> SUFFICES ASSUME Init PROVE Inv
    OBVIOUS
  <2>1. PathInv /\ VouchInv(StartWithHandshake) /\ \A f \in Flows : InSequence(f)
    BY PathInvInit, VouchInit
  <2>2. ASSUME NEW f \in Flows PROVE AckedIn(f) /\ sent[f] <= acked[f] + 1 /\ Paced(f)
    <3>1. conn[f] = 0 /\ sent[f] = 0 /\ acked[f] = 0 /\ net[f] = <<>>
      BY DEF Init
    <3>2. 0 .. acked[f] - 1 = {} /\ 1 .. Len(net[f]) = {}
      BY <3>1
    <3>3. QED
      BY <3>1, <3>2 DEF AckedIn, Paced
  <2>3. QED
    BY <2>1, <2>2, SinceInit DEF BlockInv
<1>2. Inv /\ [Next]_vars => Inv'
  <2> SUFFICES ASSUME Inv, [Next]_vars PROVE Inv'
    OBVIOUS
  <2>1. /\ \A f \in Flows : InSequence(f)
        /\ \A f \in Flows : AckedIn(f)
        /\ VouchInv(StartWithHandshake)
        /\ \A f \in Flows : Window[f] = 1 => sent[f] <= acked[f] + 1
        /\ attached => \A f \in Flows : Window[f] = 1 => Paced(f)
    BY DEF BlockInv
  <2>2. /\ PathInv' /\ SinceInv'
        /\ \A f \in Flows : InSequence(f)'
        /\ \A f \in Flows : AckedIn(f)'
    BY <2>1, PathInvStep, SinceStep, SequenceStep, AckedInStep
  <2>3. VouchInv(StartWithHandshake)'
    <3>1. PICK C : C = StartWithHandshake
      OBVIOUS
    <3>2. attached => \A f \in Flows : \A i \in 1 .. Len(net[f]) :
             net[f][i].conn > since[f] /\ AsSegment(f, net[f][i]).data = "handshake"
                => <<f, net[f][i].conn>> \in C
      BY <2>1, <3>1, HandshakesAreFirst
    <3>3. VouchInv(C)
      BY <2>1, <3>1
    <3>4. VouchInv(C)'
      BY <2>1, <3>2, <3>3, VouchStep
    <3>5. StartWithHandshake' = C
      BY <3>1 DEF StartWithHandshake, WithHandshake, AllConnections, HasHandshake, Connections
    <3>6. QED
      BY <3>4, <3>5 DEF VouchInv, Vouched
  <2>4. \A f \in Flows : Window[f] = 1 => sent'[f] <= acked'[f] + 1
    BY <2>1, <2>2, WindowStep
  <2>5. ASSUME attached', NEW f \in Flows, Window[f] = 1 PROVE Paced(f)'
    <3>1. CASE Attach
      BY <2>2, <2>5, <3>1, NonePaced
    <3>2. CASE ~Attach
      <4>1. attached /\ since' = since
        BY <2>5, <3>2, StillAttached
      <4>2. /\ Paced(f) /\ AckedIn(f) /\ (Guarded(f) => Vouched(f, StartWithHandshake))
            /\ sent[f] <= acked[f] + 1
        BY <2>1, <2>5, <4>1 DEF VouchInv
      <4>3. QED
        BY <2>5, <4>1, <4>2, PacedStep
    <3>3. QED
      BY <3>1, <3>2
  <2>6. QED
    BY <2>2, <2>3, <2>4, <2>5 DEF BlockInv
<1>3. Inv => StaysBlocked
  <2> SUFFICES ASSUME Inv, NEW f \in Flows, Guarded(f), Read(f) # {}
               PROVE  Streams[f][serving[f]][1] = "handshake"
    BY DEF StaysBlocked
  <2>1. serving[f] # 0
    BY DEF Read
  <2>2. PathTypes /\ FlowTyped(f) /\ Vouched(f, StartWithHandshake)
    BY DEF PathInv, FlowInv, BlockInv, VouchInv
  <2>3. serving[f] \in 1 .. Len(Streams[f])
    BY <2>1, <2>2, StreamsAre DEF PathTypes, FlowTyped
  <2>4. /\ DOMAIN Streams[f][serving[f]] = 1 .. Len(Streams[f][serving[f]])
        /\ FinPos(f, serving[f]) \in Nat
        /\ FinPos(f, serving[f]) = Len(Streams[f][serving[f]]) + 1
    BY <2>3, StreamsAre
  <2>5. /\ Expected(f) \in 0 .. FinPos(f, serving[f]) + 1
        /\ \A m \in 0 .. Expected(f) - 1 : m \in got[f]
    BY <2>1, <2>2, ExpectedIs
  <2>6. PICK i \in DOMAIN Streams[f][serving[f]] : i \in 0 .. Expected(f) - 1
    BY <2>1 DEF Read
  <2>7. 1 \in DOMAIN Streams[f][serving[f]] /\ 1 \in 0 .. Expected(f) - 1
    <3>1. Expected(f) \in Nat
      BY <2>4, <2>5
    <3>2. i \in 1 .. Len(Streams[f][serving[f]])
      BY <2>4, <2>6
    <3>3. 1 \in 1 .. Len(Streams[f][serving[f]])
      BY <2>4, <3>2
    <3>4. QED
      BY <2>4, <2>6, <3>1, <3>2, <3>3
  <2>8. 1 \in got[f]
    BY <2>5, <2>7
  <2>9. <<f, serving[f]>> \in StartWithHandshake
    BY <2>1, <2>2, <2>7, <2>8 DEF Vouched
  <2>10. QED
    BY <2>3, <2>9, WithHandshakeIs
<1>4. QED
  BY <1>1, <1>2, <1>3, PTL DEF Spec
=============================================================================
