--------------------------- MODULE TcpPassProofs ---------------------------
(***************************************************************************)
(* Proofs about TcpPath, continued: while the filter stays attached, the   *)
(* whole of a connection that starts with a handshake is let through, for  *)
(* all streams, windows and bounds, as long as the map has room, clients   *)
(* send FIN last, and the network and clients keep the connections of a    *)
(* 4-tuple apart.                                                          *)
(***************************************************************************)
EXTENDS TcpPathProofs

-----------------------------------------------------------------------------
(* One flow and its packets, in numbers.                                    *)

LEMMA FinPosIs ==
    ASSUME NEW f \in Flows, NEW k \in 1 .. Len(Streams[f]) PROVE FinPos(f, k) \in Nat \ {0}
<1>1. Streams[f][k] \in Seq({"handshake", "other"}) /\ FinPos(f, k) = Len(Streams[f][k]) + 1
  BY StreamsAre
<1>2. Len(Streams[f][k]) \in Nat
  BY <1>1
<1>3. QED
  BY <1>1, <1>2

LEMMA FlowFacts ==
    ASSUME PathInv, NEW f \in Flows
    PROVE  /\ conn[f] \in Nat /\ sent[f] \in Nat /\ acked[f] \in Nat /\ serving[f] \in Nat
           /\ Len(net[f]) \in Nat /\ got[f] \subseteq Nat
           /\ serving[f] <= conn[f] /\ acked[f] <= sent[f]
           /\ conn[f] = 0 => ~open[f] /\ sent[f] = 0
           /\ conn[f] # 0 => /\ conn[f] \in 1 .. Len(Streams[f])
                             /\ FinPos(f, conn[f]) \in Nat \ {0}
                             /\ sent[f] >= 1 /\ sent[f] <= FinPos(f, conn[f]) + 1
           /\ serving[f] # 0 => /\ serving[f] \in 1 .. Len(Streams[f])
                                /\ FinPos(f, serving[f]) \in Nat \ {0}
           /\ serving[f] = 0 => got[f] = {}
           /\ serving[f] = conn[f] => \A m \in got[f] : m < sent[f]
           /\ acked[f] > 0 => serving[f] = conn[f]
<1>1. PathTypes /\ FlowTyped(f) /\ (acked[f] > 0 => serving[f] = conn[f])
  BY DEF PathInv, FlowInv
<1>2. /\ conn[f] \in Nat /\ sent[f] \in Nat /\ acked[f] \in Nat /\ serving[f] \in Nat
      /\ Len(net[f]) \in Nat /\ got[f] \subseteq Nat
  BY <1>1 DEF PathTypes
<1>3. /\ serving[f] <= conn[f] /\ acked[f] <= sent[f]
      /\ conn[f] = 0 => ~open[f] /\ sent[f] = 0
      /\ serving[f] = 0 => got[f] = {}
      /\ serving[f] = conn[f] => \A m \in got[f] : m < sent[f]
      /\ conn[f] \in 0 .. Len(Streams[f])
      /\ conn[f] # 0 => sent[f] \in 1 .. FinPos(f, conn[f]) + 1
  BY <1>1 DEF FlowTyped
<1>4. Len(Streams[f]) \in Nat
  BY StreamsAre
<1>5. \A k \in 1 .. Len(Streams[f]) : FinPos(f, k) \in Nat \ {0}
  BY FinPosIs
<1>6. conn[f] # 0 => conn[f] \in 1 .. Len(Streams[f])
  BY <1>2, <1>3, <1>4
<1>7. serving[f] # 0 => serving[f] \in 1 .. Len(Streams[f])
  BY <1>2, <1>3, <1>4
<1>8. conn[f] # 0 => sent[f] >= 1 /\ sent[f] <= FinPos(f, conn[f]) + 1
  <2>1. SUFFICES ASSUME conn[f] # 0 PROVE sent[f] >= 1 /\ sent[f] <= FinPos(f, conn[f]) + 1
    OBVIOUS
  <2>2. FinPos(f, conn[f]) \in Nat /\ sent[f] \in 1 .. FinPos(f, conn[f]) + 1
    BY <1>3, <1>5, <1>6, <2>1
  <2>3. QED
    BY <2>2
<1>9. QED
  BY <1>1, <1>2, <1>3, <1>5, <1>6, <1>7, <1>8

LEMMA PacketFacts ==
    ASSUME PathInv, NEW f \in Flows, NEW i \in 1 .. Len(net[f])
    PROVE  /\ net[f][i].conn \in Nat \ {0} /\ net[f][i].pos \in Nat
           /\ net[f][i].conn \in 1 .. Len(Streams[f])
           /\ net[f][i] \in [conn : Nat, pos : Nat]
           /\ net[f][i].conn <= conn[f]
           /\ FinPos(f, net[f][i].conn) \in Nat \ {0}
           /\ net[f][i].pos <= FinPos(f, net[f][i].conn)
           /\ net[f][i].conn = conn[f] => net[f][i].pos < sent[f]
           /\ net[f][i].pos > 0 => net[f][i].conn <= serving[f]
<1>0. PICK p : p = net[f][i]
  OBVIOUS
<1>1. PacketTyped(f, p)
  BY <1>0 DEF PathInv, FlowInv
<1>2. /\ p \in Packets(f) /\ p.conn <= conn[f]
      /\ p.conn = conn[f] => p.pos < sent[f]
      /\ p.pos > 0 => p.conn <= serving[f]
  BY <1>1 DEF PacketTyped
<1>3. /\ p \in [conn : Nat, pos : Nat] /\ p.conn \in 1 .. Len(Streams[f])
      /\ p.pos \in 0 .. FinPos(f, p.conn)
  BY <1>2, PacketFields
<1>4. FinPos(f, p.conn) = Len(Streams[f][p.conn]) + 1 /\ Len(Streams[f][p.conn]) \in Nat
  <2>1. Streams[f][p.conn] \in Seq({"handshake", "other"})
    BY <1>3, StreamsAre
  <2>2. QED
    BY <1>3, <2>1, StreamsAre
<1>5. p.conn \in Nat \ {0} /\ p.pos \in Nat
  BY <1>3
<1>6. FinPos(f, p.conn) \in Nat \ {0}
  BY <1>4
<1>7. p.pos <= FinPos(f, p.conn)
  BY <1>3, <1>6
<1>8. QED
  BY <1>0, <1>2, <1>3, <1>5, <1>6, <1>7

\* A packet that is taken leaves the others in their order.
LEMMA TakePairs ==
    ASSUME PathTypes, NEW f \in Flows, NEW i \in 1 .. Len(net[f]), Take(f, i)
    PROVE  \E old \in [1 .. Len(net'[f]) -> 1 .. Len(net[f])] :
              /\ \A j \in 1 .. Len(net'[f]) : old[j] # i /\ net'[f][j] = net[f][old[j]]
              /\ \A j, k \in 1 .. Len(net'[f]) : j < k => old[j] < old[k]
<1>1. Len(net[f]) \in Nat
  BY DEF PathTypes
<1>2. /\ Len(net'[f]) = Len(net[f]) - 1
      /\ \A j \in 1 .. Len(net'[f]) :
            net'[f][j] = IF j < i THEN net[f][j] ELSE net[f][j + 1]
  BY TakeEffect, Zenon
<1> DEFINE old == [j \in 1 .. Len(net'[f]) |-> IF j < i THEN j ELSE j + 1]
<1>3. old \in [1 .. Len(net'[f]) -> 1 .. Len(net[f])]
  BY <1>1, <1>2
<1>4. \A j \in 1 .. Len(net'[f]) : old[j] # i
  BY <1>1
<1>5. \A j \in 1 .. Len(net'[f]) : net'[f][j] = net[f][old[j]]
  BY <1>2
<1>6. \A j, k \in 1 .. Len(net'[f]) : j < k => old[j] < old[k]
  BY <1>1
<1> HIDE DEF old
<1>7. QED
  BY <1>3, <1>4, <1>5, <1>6

-----------------------------------------------------------------------------
(* A step, seen from one flow.                                              *)

Sends(f, k, n) ==
    /\ Len(net'[f]) = Len(net[f]) + 1
    /\ \A i \in 1 .. Len(net[f]) : net'[f][i] = net[f][i]
    /\ net'[f][Len(net[f]) + 1] = [conn |-> k, pos |-> n]
    /\ serving'[f] = serving[f] /\ got'[f] = got[f] /\ up'[f] = up[f]

ClientStays(f) ==
    conn'[f] = conn[f] /\ open'[f] = open[f] /\ sent'[f] = sent[f] /\ acked'[f] = acked[f]

RestStays(f) ==
    net'[f] = net[f] /\ serving'[f] = serving[f] /\ got'[f] = got[f]

Opens(f) ==
    /\ ~open[f] /\ ~TimeWait(f)
    /\ Sends(f, conn[f] + 1, 0)
    /\ conn'[f] = conn[f] + 1 /\ open'[f] /\ sent'[f] = 1 /\ acked'[f] = 0

SendsNext(f) ==
    /\ open[f] /\ acked[f] >= 1 /\ sent[f] <= FinPos(f, conn[f])
    /\ Patient /\ sent[f] = FinPos(f, conn[f]) => acked[f] = sent[f]
    /\ Sends(f, conn[f], sent[f])
    /\ conn'[f] = conn[f] /\ open'[f] = open[f]
    /\ sent'[f] = sent[f] + 1 /\ acked'[f] = acked[f]

Resends(f) ==
    /\ open[f] /\ acked[f] < sent[f]
    /\ "spurious" \notin Faults => Missing(f, acked[f])
    /\ Sends(f, conn[f], acked[f])
    /\ ClientStays(f)

Learns(f) ==
    /\ serving[f] = conn[f]
    /\ acked'[f] \in Nat /\ acked'[f] > acked[f]
    /\ open'[f] = (acked'[f] <= FinPos(f, conn[f]))
    /\ conn'[f] = conn[f] /\ sent'[f] = sent[f]
    /\ RestStays(f) /\ up'[f] = up[f]

Closes(f) ==
    /\ \/ open[f] /\ ~up[f] /\ serving[f] = conn[f]
       \/ "vanish" \in Faults
       \/ "reset" \in Faults
    /\ conn'[f] = conn[f] /\ sent'[f] = sent[f] /\ acked'[f] = acked[f]
    /\ up'[f] => up[f]
    /\ RestStays(f)

\* What the server makes of the packet at i.
Takes(f, i) ==
    /\ i \in 1 .. Len(net[f]) /\ i \in Deliverable(f) /\ Take(f, i) /\ ClientStays(f)
    /\ \/ /\ net[f][i].pos = 0 /\ net[f][i].conn > serving[f]
          /\ serving'[f] = net[f][i].conn /\ got'[f] = {0} /\ up'[f]
       \/ /\ net[f][i].conn = serving[f]
          /\ serving'[f] = serving[f] /\ up'[f] = up[f]
          /\ got'[f] = got[f] \cup {net[f][i].pos}
       \/ serving'[f] = serving[f] /\ got'[f] = got[f] /\ up'[f] = up[f]

FlowStep(f) ==
    \/ ClientStays(f) /\ RestStays(f) /\ up'[f] = up[f]
    \/ Opens(f) \/ SendsNext(f) \/ Resends(f) \/ Learns(f) \/ Closes(f)
    \/ \E i \in 1 .. Len(net[f]) : Takes(f, i)

LEMMA TransmitSends ==
    ASSUME PathTypes, NEW f \in Flows, NEW k \in Nat, NEW n \in Nat, Transmit(f, k, n),
           UNCHANGED server
    PROVE  Sends(f, k, n) /\ \A g \in Flows \ {f} : net'[g] = net[g]
<1>1. /\ Len(net'[f]) = Len(net[f]) + 1
      /\ \A i \in 1 .. Len(net[f]) : net'[f][i] = net[f][i]
      /\ net'[f][Len(net[f]) + 1] = [conn |-> k, pos |-> n]
      /\ \A g \in Flows \ {f} : net'[g] = net[g]
  BY TransmitEffect, Zenon
<1>2. serving' = serving /\ got' = got /\ up' = up
  BY DEF server
<1>3. QED
  BY <1>1, <1>2, Zenon DEF Sends

LEMMA SendingSteps ==
    ASSUME PathInv, NEW f \in Flows, NEW g \in Flows, Open(g) \/ SendNext(g) \/ Retransmit(g)
    PROVE  FlowStep(f)
<1>1. PathTypes
  BY DEF PathInv
<1>2. /\ conn[g] \in Nat /\ conn[g] + 1 \in Nat /\ 0 \in Nat
      /\ sent[g] \in Nat /\ acked[g] \in Nat
  BY FlowFacts
<1>3. CASE g # f
  <2>1. UNCHANGED server
    BY DEF Open, SendNext, Retransmit
  <2>2. net'[f] = net[f]
    BY <1>1, <1>2, <1>3, <2>1, TransmitSends DEF Open, SendNext, Retransmit
  <2>3. ClientStays(f)
    BY <1>1, <1>3 DEF Open, SendNext, Retransmit, client, ClientStays, PathTypes
  <2>4. QED
    BY <2>1, <2>2, <2>3 DEF FlowStep, RestStays, server
<1>4. CASE g = f /\ Open(g)
  <2>1. /\ ~open[f] /\ ~TimeWait(f) /\ Transmit(f, conn[f] + 1, 0) /\ UNCHANGED server
        /\ conn'[f] = conn[f] + 1 /\ open'[f] /\ sent'[f] = 1 /\ acked'[f] = 0
    BY <1>1, <1>4 DEF Open, PathTypes
  <2>2. Sends(f, conn[f] + 1, 0)
    BY <1>1, <1>2, <1>4, <2>1, TransmitSends
  <2>3. QED
    BY <2>1, <2>2 DEF FlowStep, Opens
<1>5. CASE g = f /\ SendNext(g)
  <2>1. /\ open[f] /\ acked[f] >= 1 /\ sent[f] <= FinPos(f, conn[f])
        /\ (Patient /\ sent[f] = FinPos(f, conn[f])) => acked[f] = sent[f]
        /\ Transmit(f, conn[f], sent[f]) /\ UNCHANGED server
        /\ conn'[f] = conn[f] /\ open'[f] = open[f]
        /\ sent'[f] = sent[f] + 1 /\ acked'[f] = acked[f]
    BY <1>1, <1>5 DEF SendNext, PathTypes
  <2>2. Sends(f, conn[f], sent[f])
    BY <1>1, <1>2, <1>5, <2>1, TransmitSends
  <2>3. QED
    BY <2>1, <2>2 DEF FlowStep, SendsNext
<1>6. CASE g = f /\ Retransmit(g)
  <2>1. /\ open[f] /\ acked[f] < sent[f]
        /\ "spurious" \notin Faults => Missing(f, acked[f])
        /\ Transmit(f, conn[f], acked[f]) /\ UNCHANGED server /\ UNCHANGED client
    BY <1>6 DEF Retransmit
  <2>2. Sends(f, conn[f], acked[f])
    BY <1>1, <1>2, <1>6, <2>1, TransmitSends
  <2>3. ClientStays(f)
    BY <2>1 DEF client, ClientStays
  <2>4. QED
    BY <2>1, <2>2, <2>3 DEF FlowStep, Resends
<1>7. QED
  BY <1>3, <1>4, <1>5, <1>6

LEMMA LearningSteps ==
    ASSUME PathInv, NEW f \in Flows, NEW g \in Flows,
           LearnAck(g) \/ LearnReset(g) \/ Vanish(g) \/ ServerReset(g)
    PROVE  FlowStep(f)
<1>1. PathTypes
  BY DEF PathInv
<1>2. UNCHANGED <<conn, sent, net, serving, got>>
  BY DEF LearnAck, LearnReset, Vanish, ServerReset, client, server
<1>3. RestStays(f) /\ conn'[f] = conn[f] /\ sent'[f] = sent[f]
  BY <1>2 DEF RestStays
<1>4. CASE g # f
  <2>1. acked'[f] = acked[f] /\ open'[f] = open[f] /\ up'[f] = up[f]
    BY <1>1, <1>4 DEF LearnAck, LearnReset, Vanish, ServerReset, client, server, PathTypes
  <2>2. QED
    BY <1>3, <2>1 DEF FlowStep, ClientStays
<1>5. CASE g = f /\ LearnAck(g)
  <2>1. /\ open[f] /\ serving[f] = conn[f] /\ Expected(f) > acked[f]
        /\ acked' = [acked EXCEPT ![f] = Expected(f)]
        /\ open' = [open EXCEPT ![f] = Expected(f) <= FinPos(f, conn[f])]
        /\ up' = up
    BY <1>5 DEF LearnAck, server
  <2>2. acked'[f] = Expected(f) /\ open'[f] = (Expected(f) <= FinPos(f, conn[f]))
    <3>1. acked'[f] = Expected(f)
      BY <1>1, <2>1 DEF PathTypes
    <3>2. open'[f] = (Expected(f) <= FinPos(f, conn[f]))
      BY <1>1, <2>1, Zenon DEF PathTypes
    <3>3. QED
      BY <3>1, <3>2
  <2>3. Expected(f) \in Nat
    <3>1. FlowTyped(f)
      BY DEF PathInv, FlowInv
    <3>2. serving[f] # 0 /\ FinPos(f, serving[f]) \in Nat
      BY <2>1, FlowFacts
    <3>3. Expected(f) \in 0 .. FinPos(f, serving[f]) + 1
      BY <1>1, <3>1, <3>2, ExpectedIs
    <3>4. QED
      BY <3>2, <3>3
  <2>4. Learns(f)
    <3>1. acked'[f] \in Nat /\ acked'[f] > acked[f]
      BY <2>1, <2>2, <2>3
    <3>2. open'[f] = (acked'[f] <= FinPos(f, conn[f]))
      BY <2>2, Zenon
    <3>3. QED
      BY <1>3, <2>1, <3>1, <3>2, Zenon DEF Learns
  <2>5. QED
    BY <2>4, Zenon DEF FlowStep
<1>6. CASE g = f /\ (LearnReset(g) \/ Vanish(g) \/ ServerReset(g))
  <2>1. \/ open[f] /\ ~up[f] /\ serving[f] = conn[f]
        \/ "vanish" \in Faults
        \/ "reset" \in Faults
    BY <1>6 DEF LearnReset, Vanish, ServerReset
  <2>2. acked' = acked
    BY <1>6 DEF LearnReset, Vanish, ServerReset, client
  <2>3. up'[f] => up[f]
    BY <1>1, <1>6 DEF LearnReset, Vanish, ServerReset, server, PathTypes
  <2>4. QED
    BY <1>3, <2>1, <2>2, <2>3 DEF FlowStep, Closes
<1>7. QED
  BY <1>4, <1>5, <1>6

LEMMA ReceiveUp ==
    ASSUME PathTypes, NEW f \in Flows, NEW p, Receive(f, p)
    PROVE  /\ \A g \in Flows \ {f} : up'[g] = up[g]
           /\ \/ /\ p.pos = 0 /\ p.conn > serving[f]
                 /\ serving'[f] = p.conn /\ got'[f] = {0} /\ up'[f]
              \/ /\ p.conn = serving[f]
                 /\ serving'[f] = serving[f] /\ up'[f] = up[f]
                 /\ got'[f] = got[f] \cup {p.pos}
              \/ serving'[f] = serving[f] /\ got'[f] = got[f] /\ up'[f] = up[f]
BY DEF Receive, PathTypes, server

LEMMA TakingSteps ==
    ASSUME PathInv, NEW f \in Flows, NEW g \in Flows,
           Lose(g) \/ \E p \in Packets(g) : Arrive(g, p)
    PROVE  FlowStep(f)
<1>1. PathTypes
  BY DEF PathInv
<1>2. PICK i \in Deliverable(g) :
         /\ Take(g, i) /\ UNCHANGED client
         /\ Receive(g, net[g][i]) \/ UNCHANGED server
  BY DEF Lose, Arrive, Judged, Unfiltered
<1>3. i \in 1 .. Len(net[g])
  BY <1>1, DeliverableIn
<1>4. net[g][i] \in [conn : Nat, pos : Nat]
  BY <1>3, PacketFacts
<1>5. ClientStays(f)
  BY <1>2 DEF client, ClientStays
<1>6. CASE g # f
  <2>1. net'[f] = net[f]
    <3>1. \A h \in Flows \ {g} : net'[h] = net[h]
      BY <1>1, <1>2, <1>3, TakeEffect, Zenon
    <3>2. QED
      BY <1>6, <3>1
  <2>2. serving'[f] = serving[f] /\ got'[f] = got[f] /\ up'[f] = up[f]
    <3>1. CASE Receive(g, net[g][i])
      <4>1. \A h \in Flows \ {g} : serving'[h] = serving[h] /\ got'[h] = got[h]
        BY <1>1, <1>4, <3>1, ReceiveEffect, Zenon
      <4>2. \A h \in Flows \ {g} : up'[h] = up[h]
        BY <1>1, <3>1, ReceiveUp, Zenon
      <4>3. QED
        BY <1>6, <4>1, <4>2
    <3>2. CASE UNCHANGED server
      BY <3>2 DEF server
    <3>3. QED
      BY <1>2, <3>1, <3>2
  <2>3. QED
    BY <1>5, <2>1, <2>2 DEF FlowStep, RestStays
<1>7. CASE g = f
  <2>1. Takes(f, i)
    <3>1. CASE Receive(f, net[f][i])
      BY <1>1, <1>2, <1>3, <1>5, <1>7, <3>1, ReceiveUp DEF Takes
    <3>2. CASE UNCHANGED server
      BY <1>2, <1>3, <1>5, <1>7, <3>2 DEF Takes, server
    <3>3. QED
      BY <1>2, <1>7, <3>1, <3>2
  <2>2. QED
    BY <1>3, <1>7, <2>1 DEF FlowStep
<1>8. QED
  BY <1>6, <1>7

LEMMA StepsAre ==
    ASSUME PathInv, [Next]_vars, NEW f \in Flows PROVE FlowStep(f)
<1>1. CASE Detach \/ Attach \/ UNCHANGED vars
  BY <1>1 DEF Detach, Attach, vars, client, server, FlowStep, ClientStays, RestStays
<1>2. QED
  BY <1>1, SendingSteps, LearningSteps, TakingSteps DEF Next

-----------------------------------------------------------------------------
(* What clients send, and in what order.                                    *)

LEMMA CautiousStep ==
    ASSUME Patient, PathInv, PathInv', NEW f \in Flows, FlowStep(f), Cautious(f)
    PROVE  Cautious(f)'
<1> DEFINE fin == FinPos(f, conn[f])
<1>1. /\ conn[f] \in Nat /\ sent[f] \in Nat /\ acked[f] \in Nat
      /\ conn[f] = 0 => ~open[f] /\ sent[f] = 0
      /\ conn[f] # 0 => fin \in Nat \ {0}
  BY FlowFacts
<1>2. ASSUME conn'[f] = conn[f], conn[f] # 0 => sent'[f] = sent[f],
             conn[f] # 0 => acked'[f] \in Nat /\ acked'[f] >= acked[f]
      PROVE  Cautious(f)'
  <2>1. ASSUME conn[f] # 0
        PROVE  /\ acked'[f] = 0 => sent'[f] = 1
               /\ sent'[f] > fin => acked'[f] >= fin
    <3>1. /\ acked[f] = 0 => sent[f] = 1
          /\ sent[f] > fin => acked[f] >= fin
      BY <2>1 DEF Cautious
    <3> HIDE DEF fin
    <3>2. QED
      BY <1>1, <1>2, <2>1, <3>1
  <2>2. QED
    BY <1>2, <2>1 DEF Cautious, FinPos
<1>3. CASE ClientStays(f)
  BY <1>1, <1>2, <1>3 DEF ClientStays
<1>4. CASE Opens(f)
  <2>1. FinPos(f, conn'[f]) \in Nat \ {0}
    <3>1. conn'[f] \in 0 .. Len(Streams[f]) /\ Len(Streams[f]) \in Nat
      BY StreamsAre DEF PathInv, FlowInv, FlowTyped
    <3>2. conn'[f] \in 1 .. Len(Streams[f])
      BY <1>1, <1>4, <3>1 DEF Opens
    <3>3. QED
      BY <3>2, FinPosIs
  <2>2. QED
    BY <1>4, <2>1 DEF Opens, Cautious, FinPos
<1>5. CASE SendsNext(f)
  <2>1. /\ conn'[f] = conn[f] /\ conn[f] # 0 /\ acked'[f] = acked[f] /\ sent'[f] = sent[f] + 1
        /\ acked[f] >= 1 /\ sent[f] <= fin /\ (sent[f] = fin => acked[f] = sent[f])
    BY <1>1, <1>5 DEF SendsNext
  <2>2. /\ acked'[f] # 0
        /\ sent'[f] > fin => acked'[f] >= fin
    <3> HIDE DEF fin
    <3>1. QED
      BY <1>1, <2>1
  <2>3. QED
    BY <2>1, <2>2 DEF Cautious, FinPos
<1>6. CASE Learns(f) \/ Closes(f)
  BY <1>1, <1>2, <1>6 DEF Learns, Closes
<1>7. QED
  BY <1>3, <1>4, <1>5, <1>6 DEF FlowStep, Resends, Takes

\* What is sent comes after all that was sent before.
LEMMA SentAfter ==
    ASSUME PathInv, NEW f \in Flows, Cautious(f), NEW n \in Nat,
           \/ SendsNext(f) /\ n = sent[f]
           \/ Resends(f) /\ n = acked[f],
           NEW m \in Nat, m < sent[f]
    PROVE  Precedes(f, conn[f], m, n)
<1> DEFINE fin == FinPos(f, conn[f])
<1>1. /\ sent[f] \in Nat /\ acked[f] \in Nat /\ fin \in Nat \ {0} /\ sent[f] <= fin + 1
      /\ acked[f] = 0 => sent[f] = 1
      /\ sent[f] > fin => acked[f] >= fin
  BY FlowFacts DEF SendsNext, Resends, Cautious
<1>2. \/ n = sent[f] /\ n <= fin /\ n >= 1 /\ acked[f] >= 1
      \/ n = acked[f] /\ n < sent[f]
  <2>1. CASE SendsNext(f) /\ n = sent[f]
    <3>1. open[f] /\ n <= fin /\ acked[f] >= 1 /\ acked[f] <= sent[f]
      BY <2>1, FlowFacts DEF SendsNext
    <3> HIDE DEF fin
    <3>2. QED
      BY <1>1, <2>1, <3>1
  <2>2. CASE Resends(f) /\ n = acked[f]
    BY <2>2 DEF Resends
  <2>3. QED
    BY <2>1, <2>2
<1> HIDE DEF fin
<1>3. (n = 0 => m = 0) /\ (m = fin => n = fin)
  BY <1>1, <1>2
<1>4. QED
  BY <1>3 DEF Precedes, fin

\* What is sent comes after what the server has.
LEMMA BehindStep ==
    ASSUME PathInv, NEW f \in Flows, FlowStep(f), Cautious(f), Ordered(f), Behind(f)
    PROVE  Behind(f)'
<1>0. /\ conn[f] \in Nat /\ serving[f] \in Nat /\ sent[f] \in Nat /\ acked[f] \in Nat
      /\ Len(net[f]) \in Nat /\ got[f] \subseteq Nat /\ serving[f] <= conn[f]
      /\ serving[f] = conn[f] => \A m \in got[f] : m < sent[f]
  BY FlowFacts
<1> DEFINE After(q, k, has) ==
              q.conn >= k /\ (q.conn = k => \A m \in has : Precedes(f, q.conn, m, q.pos))
<1>1. \A i \in 1 .. Len(net[f]) : After(net[f][i], serving[f], got[f])
  BY DEF Behind
<1>2. SUFFICES \A i \in 1 .. Len(net'[f]) : After(net'[f][i], serving'[f], got'[f])
  BY DEF Behind, Precedes, FinPos
<1> HIDE DEF After
<1>3. CASE RestStays(f)
  BY <1>1, <1>3 DEF RestStays
<1>4. ASSUME NEW k \in Nat, NEW n \in Nat, Sends(f, k, n),
             After([conn |-> k, pos |-> n], serving[f], got[f])
      PROVE  \A i \in 1 .. Len(net'[f]) : After(net'[f][i], serving'[f], got'[f])
  <2>1. SUFFICES ASSUME NEW i \in 1 .. Len(net'[f])
                 PROVE  After(net'[f][i], serving[f], got[f])
    BY <1>4 DEF Sends
  <2>2. i \in 1 .. Len(net[f]) \/ i = Len(net[f]) + 1
    BY <1>0, <1>4 DEF Sends
  <2>3. QED
    BY <1>1, <1>4, <2>2 DEF Sends
<1>5. CASE Opens(f)
  <2>1. After([conn |-> conn[f] + 1, pos |-> 0], serving[f], got[f])
    BY <1>0 DEF After
  <2>2. conn[f] + 1 \in Nat /\ 0 \in Nat
    BY <1>0
  <2>3. QED
    BY <1>4, <1>5, <2>1, <2>2 DEF Opens
<1>6. CASE SendsNext(f) \/ Resends(f)
  <2>1. PICK n \in Nat : /\ Sends(f, conn[f], n)
                         /\ \/ SendsNext(f) /\ n = sent[f]
                            \/ Resends(f) /\ n = acked[f]
    BY <1>0, <1>6 DEF SendsNext, Resends
  <2>2. ASSUME serving[f] = conn[f], NEW m \in got[f] PROVE Precedes(f, conn[f], m, n)
    <3>1. m \in Nat /\ m < sent[f]
      BY <1>0, <2>2
    <3>2. QED
      BY <2>1, <3>1, SentAfter
  <2>3. After([conn |-> conn[f], pos |-> n], serving[f], got[f])
    BY <1>0, <2>2 DEF After
  <2>4. QED
    BY <1>0, <1>4, <2>1, <2>3
<1>7. ASSUME NEW i \in 1 .. Len(net[f]), Takes(f, i)
      PROVE  \A j \in 1 .. Len(net'[f]) : After(net'[f][j], serving'[f], got'[f])
  <2>1. SUFFICES ASSUME NEW j \in 1 .. Len(net'[f])
                 PROVE  After(net'[f][j], serving'[f], got'[f])
    OBVIOUS
  <2>2. PICK a \in 1 .. Len(net[f]) : a # i /\ net'[f][j] = net[f][a]
    <3>1. PathTypes /\ Take(f, i)
      BY <1>7 DEF PathInv, Takes
    <3>2. PICK old \in [1 .. Len(net'[f]) -> 1 .. Len(net[f])] :
             /\ \A x \in 1 .. Len(net'[f]) : old[x] # i /\ net'[f][x] = net[f][old[x]]
             /\ \A x, y \in 1 .. Len(net'[f]) : x < y => old[x] < old[y]
      BY <3>1, TakePairs, Zenon
    <3>3. QED
      BY <3>2
  <2>3. PICK p, q : p = net[f][i] /\ q = net[f][a]
    OBVIOUS
  <2>4. /\ p.conn \in Nat /\ q.conn \in Nat /\ p.pos \in Nat /\ q.pos \in Nat
        /\ FinPos(f, p.conn) \in Nat \ {0}
    BY <2>3, PacketFacts
  <2>5. After(q, serving[f], got[f])
    BY <1>1, <2>3
  <2>6. p.conn <= q.conn /\ (p.conn = q.conn => Precedes(f, p.conn, p.pos, q.pos))
    <3>1. i < a \/ "reorder" \in Faults
      BY <1>7, <2>2 DEF Takes, Deliverable
    <3>2. QED
      BY <2>2, <2>3, <3>1 DEF Ordered
  <2>7. CASE p.pos = 0 /\ p.conn > serving[f] /\ serving'[f] = p.conn /\ got'[f] = {0}
    <3>1. Precedes(f, p.conn, 0, q.pos)
      BY <2>4 DEF Precedes
    <3>2. QED
      BY <2>2, <2>3, <2>4, <2>6, <2>7, <3>1 DEF After
  <2>8. CASE p.conn = serving[f] /\ serving'[f] = serving[f] /\ got'[f] = got[f] \cup {p.pos}
    BY <2>2, <2>3, <2>5, <2>6, <2>8 DEF After
  <2>9. CASE serving'[f] = serving[f] /\ got'[f] = got[f]
    BY <2>2, <2>3, <2>5, <2>9
  <2>10. QED
    BY <1>7, <2>3, <2>7, <2>8, <2>9 DEF Takes
<1>8. QED
  BY <1>3, <1>5, <1>6, <1>7 DEF FlowStep, Learns, Closes

\* On a network that keeps their order, packets come first that should.
LEMMA OrderedStep ==
    ASSUME "reorder" \notin Faults, PathInv, NEW f \in Flows, FlowStep(f), Cautious(f), Ordered(f)
    PROVE  Ordered(f)'
<1>0. /\ conn[f] \in Nat /\ sent[f] \in Nat /\ acked[f] \in Nat /\ Len(net[f]) \in Nat
      /\ conn[f] = 0 => ~open[f]
  BY FlowFacts
<1> DEFINE Before(p, q) ==
              p.conn <= q.conn /\ (p.conn = q.conn => Precedes(f, p.conn, p.pos, q.pos))
<1>1. \A i, j \in 1 .. Len(net[f]) : i < j => Before(net[f][i], net[f][j])
  BY DEF Ordered
<1>2. SUFFICES \A i, j \in 1 .. Len(net'[f]) : i < j => Before(net'[f][i], net'[f][j])
  BY DEF Ordered, Precedes, FinPos
<1> HIDE DEF Before
<1>3. CASE RestStays(f)
  BY <1>1, <1>3 DEF RestStays
<1>4. ASSUME NEW k \in Nat, NEW n \in Nat, Sends(f, k, n),
             \A i \in 1 .. Len(net[f]) : Before(net[f][i], [conn |-> k, pos |-> n])
      PROVE  \A i, j \in 1 .. Len(net'[f]) : i < j => Before(net'[f][i], net'[f][j])
  <2>1. SUFFICES ASSUME NEW i \in 1 .. Len(net'[f]), NEW j \in 1 .. Len(net'[f]), i < j
                 PROVE  Before(net'[f][i], net'[f][j])
    OBVIOUS
  <2>2. i \in 1 .. Len(net[f]) /\ (j \in 1 .. Len(net[f]) \/ j = Len(net[f]) + 1)
    BY <1>0, <1>4, <2>1 DEF Sends
  <2>3. QED
    BY <1>1, <1>4, <2>1, <2>2 DEF Sends
<1>5. CASE Opens(f)
  <2>1. ASSUME NEW i \in 1 .. Len(net[f])
        PROVE  Before(net[f][i], [conn |-> conn[f] + 1, pos |-> 0])
    <3>1. net[f][i].conn \in Nat /\ net[f][i].conn <= conn[f]
      BY PacketFacts
    <3>2. QED
      BY <1>0, <3>1 DEF Before
  <2>2. conn[f] + 1 \in Nat /\ 0 \in Nat
    BY <1>0
  <2>3. QED
    BY <1>4, <1>5, <2>1, <2>2 DEF Opens
<1>6. CASE SendsNext(f) \/ Resends(f)
  <2>1. PICK n \in Nat : /\ Sends(f, conn[f], n)
                         /\ \/ SendsNext(f) /\ n = sent[f]
                            \/ Resends(f) /\ n = acked[f]
    BY <1>0, <1>6 DEF SendsNext, Resends
  <2>2. ASSUME NEW i \in 1 .. Len(net[f])
        PROVE  Before(net[f][i], [conn |-> conn[f], pos |-> n])
    <3>1. PICK p : p = net[f][i]
      OBVIOUS
    <3>2. /\ p.conn <= conn[f] /\ p.pos \in Nat
          /\ p.conn = conn[f] => p.pos < sent[f]
      BY <3>1, PacketFacts
    <3>3. p.conn = conn[f] => Precedes(f, conn[f], p.pos, n)
      BY <2>1, <3>2, SentAfter
    <3>4. QED
      BY <3>1, <3>2, <3>3 DEF Before
  <2>3. QED
    BY <1>0, <1>4, <2>1, <2>2
<1>7. ASSUME NEW i \in 1 .. Len(net[f]), Takes(f, i)
      PROVE  \A j, k \in 1 .. Len(net'[f]) : j < k => Before(net'[f][j], net'[f][k])
  <2>1. PathTypes /\ Take(f, i)
    BY <1>7 DEF PathInv, Takes
  <2>2. PICK old \in [1 .. Len(net'[f]) -> 1 .. Len(net[f])] :
           /\ \A x \in 1 .. Len(net'[f]) : old[x] # i /\ net'[f][x] = net[f][old[x]]
           /\ \A x, y \in 1 .. Len(net'[f]) : x < y => old[x] < old[y]
    BY <2>1, TakePairs, Zenon
  <2>3. QED
    BY <1>1, <2>2
<1>8. QED
  BY <1>3, <1>5, <1>6, <1>7 DEF FlowStep, Learns, Closes

-----------------------------------------------------------------------------
(* Where nothing late is sent again.                                        *)

LEMMA UnrepeatedStep ==
    ASSUME "reorder" \in Faults, Orderly, PathInv, NEW f \in Flows, FlowStep(f), Unrepeated(f)
    PROVE  Unrepeated(f)'
<1>0. /\ conn[f] \in Nat /\ sent[f] \in Nat /\ acked[f] \in Nat /\ serving[f] \in Nat
      /\ Len(net[f]) \in Nat /\ got[f] \subseteq Nat /\ serving[f] <= conn[f]
      /\ conn[f] = 0 => ~open[f]
      /\ conn[f] # 0 => FinPos(f, conn[f]) \in Nat \ {0}
      /\ serving[f] = conn[f] => \A m \in got[f] : m < sent[f]
  BY FlowFacts
<1>1. /\ \A i \in 1 .. Len(net[f]) :
            /\ net[f][i].conn = conn[f]
            /\ serving[f] = conn[f] => net[f][i].pos \notin got[f]
      /\ \A i, j \in 1 .. Len(net[f]) : net[f][i] = net[f][j] => i = j
      /\ conn[f] # 0 /\ ~open[f] => acked[f] > FinPos(f, conn[f])
      /\ serving[f] # 0 => up[f]
  BY DEF Unrepeated
<1>2. "spurious" \notin Faults /\ "vanish" \notin Faults /\ "reset" \notin Faults
  BY DEF Orderly
<1>3. ASSUME NEW k \in Nat \ {0}, NEW n \in Nat, Sends(f, k, n), conn'[f] = k, open'[f],
             \A i \in 1 .. Len(net[f]) : net[f][i].conn = k /\ net[f][i].pos # n
                                         /\ (serving[f] = k => net[f][i].pos \notin got[f]),
             serving[f] = k => n \notin got[f]
      PROVE  Unrepeated(f)'
  <2>1. \A i \in 1 .. Len(net'[f]) : i \in 1 .. Len(net[f]) \/ i = Len(net[f]) + 1
    BY <1>0, <1>3 DEF Sends
  <2>2. /\ \A i \in 1 .. Len(net[f]) : net'[f][i] = net[f][i]
        /\ net'[f][Len(net[f]) + 1] = [conn |-> k, pos |-> n]
        /\ serving'[f] = serving[f] /\ got'[f] = got[f] /\ up'[f] = up[f]
    BY <1>3 DEF Sends
  <2>3. ASSUME NEW i \in 1 .. Len(net'[f])
        PROVE  /\ net'[f][i].conn = k
               /\ serving[f] = k => net'[f][i].pos \notin got[f]
    BY <1>3, <2>1, <2>2
  <2>4. ASSUME NEW i \in 1 .. Len(net'[f]), NEW j \in 1 .. Len(net'[f]),
               net'[f][i] = net'[f][j]
        PROVE  i = j
    <3>1. CASE i \in 1 .. Len(net[f]) /\ j \in 1 .. Len(net[f])
      BY <1>1, <2>2, <2>4, <3>1
    <3>2. CASE i \in 1 .. Len(net[f]) /\ j = Len(net[f]) + 1
      <4>1. net[f][i].pos = n
        BY <2>2, <2>4, <3>2
      <4>2. QED
        BY <1>3, <3>2, <4>1
    <3>3. CASE i = Len(net[f]) + 1 /\ j \in 1 .. Len(net[f])
      <4>1. net[f][j].pos = n
        BY <2>2, <2>4, <3>3
      <4>2. QED
        BY <1>3, <3>3, <4>1
    <3>4. QED
      BY <2>1, <3>1, <3>2, <3>3
  <2>5. QED
    BY <1>1, <1>3, <2>2, <2>3, <2>4 DEF Unrepeated
<1>4. CASE Opens(f)
  <2>1. Len(net[f]) = 0
    <3>1. CASE conn[f] = 0
      <4>1. \A i \in 1 .. Len(net[f]) : net[f][i].conn # 0 /\ net[f][i].conn <= 0
                                        /\ net[f][i].conn \in Nat
        BY <3>1, PacketFacts
      <4>2. ~(1 \in 1 .. Len(net[f]))
        BY <4>1
      <4>3. QED
        BY <1>0, <4>2
    <3>2. CASE conn[f] # 0
      <4>1. acked[f] > FinPos(f, conn[f]) /\ conn[f] > 0
        BY <1>0, <1>1, <1>4, <3>2 DEF Opens
      <4>2. net[f] = <<>>
        BY <1>4, <4>1 DEF Opens, TimeWait
      <4>3. QED
        BY <4>2
    <3>3. QED
      BY <3>1, <3>2
  <2>2. conn[f] + 1 \in Nat \ {0} /\ 0 \in Nat /\ serving[f] # conn[f] + 1
    BY <1>0
  <2>3. 1 .. Len(net[f]) = {}
    BY <2>1
  <2>4. QED
    BY <1>3, <1>4, <2>2, <2>3 DEF Opens
<1>5. CASE SendsNext(f)
  <2>1. conn[f] \in Nat \ {0} /\ open'[f] /\ conn'[f] = conn[f] /\ Sends(f, conn[f], sent[f])
    BY <1>0, <1>5 DEF SendsNext
  <2>2. \A i \in 1 .. Len(net[f]) : net[f][i].pos # sent[f]
    <3>1. \A i \in 1 .. Len(net[f]) : net[f][i].pos \in Nat /\ net[f][i].pos < sent[f]
      BY <1>1, PacketFacts
    <3>2. QED
      BY <1>0, <3>1
  <2>3. serving[f] = conn[f] => sent[f] \notin got[f]
    <3>1. SUFFICES ASSUME serving[f] = conn[f], sent[f] \in got[f] PROVE FALSE
      OBVIOUS
    <3>2. sent[f] < sent[f]
      BY <1>0, <3>1
    <3>3. QED
      BY <1>0, <3>2
  <2>4. QED
    BY <1>0, <1>1, <1>3, <2>1, <2>2, <2>3
<1>6. CASE Resends(f)
  <2>1. /\ conn[f] \in Nat \ {0} /\ open'[f] /\ conn'[f] = conn[f] /\ Sends(f, conn[f], acked[f])
        /\ [conn |-> conn[f], pos |-> acked[f]] \notin ToSet(net[f])
        /\ serving[f] = conn[f] => acked[f] \notin got[f]
    BY <1>0, <1>2, <1>6 DEF Resends, ClientStays, Missing
  <2>2. ASSUME NEW i \in 1 .. Len(net[f]) PROVE net[f][i].pos # acked[f]
    <3>1. net[f][i] \in [conn : Nat, pos : Nat]
      BY PacketFacts
    <3>2. net[f][i] \in ToSet(net[f])
      <4>1. net[f] \in Seq([conn : Nat, pos : Nat])
        BY DEF PathInv, PathTypes
      <4>2. DOMAIN net[f] = 1 .. Len(net[f])
        BY <4>1
      <4>3. QED
        BY <4>2 DEF ToSet
    <3>3. net[f][i] # [conn |-> conn[f], pos |-> acked[f]]
      BY <2>1, <3>2
    <3>4. net[f][i] = [conn |-> net[f][i].conn, pos |-> net[f][i].pos]
      BY <3>1
    <3>5. QED
      BY <1>1, <3>3, <3>4
  <2>3. QED
    BY <1>0, <1>1, <1>3, <2>1, <2>2
<1>7. CASE ClientStays(f) /\ RestStays(f) /\ up'[f] = up[f]
  BY <1>1, <1>7 DEF ClientStays, RestStays, Unrepeated, FinPos
<1>8. CASE Learns(f)
  <2>1. conn[f] # 0 /\ ~open'[f] => acked'[f] > FinPos(f, conn[f])
    <3>1. SUFFICES ASSUME conn[f] # 0, ~open'[f] PROVE acked'[f] > FinPos(f, conn[f])
      OBVIOUS
    <3>2. ~(acked'[f] <= FinPos(f, conn[f]))
      BY <1>8, <3>1 DEF Learns
    <3>3. acked'[f] \in Nat
      BY <1>8 DEF Learns
    <3>4. QED
      BY <1>0, <3>1, <3>2, <3>3
  <2>2. conn'[f] = conn[f] /\ RestStays(f) /\ up'[f] = up[f]
    BY <1>8 DEF Learns
  <2>3. QED
    BY <1>1, <2>1, <2>2 DEF RestStays, Unrepeated, FinPos
<1>9. ~Closes(f)
  BY <1>0, <1>1, <1>2 DEF Closes
<1>10. ASSUME NEW i \in 1 .. Len(net[f]), Takes(f, i) PROVE Unrepeated(f)'
  <2>1. PathTypes /\ Take(f, i) /\ ClientStays(f)
    BY <1>10 DEF PathInv, Takes
  <2>2. PICK old \in [1 .. Len(net'[f]) -> 1 .. Len(net[f])] :
           /\ \A x \in 1 .. Len(net'[f]) : old[x] # i /\ net'[f][x] = net[f][old[x]]
           /\ \A x, y \in 1 .. Len(net'[f]) : x < y => old[x] < old[y]
    BY <2>1, TakePairs, Zenon
  <2>3. ASSUME NEW x \in 1 .. Len(net'[f]), NEW y \in 1 .. Len(net'[f]), net'[f][x] = net'[f][y]
        PROVE  x = y
    <3>1. old[x] = old[y]
      BY <1>1, <2>2, <2>3
    <3>2. ~(old[x] < old[y]) /\ ~(old[y] < old[x])
      <4>1. old[x] \in Nat /\ old[y] \in Nat
        BY <2>2
      <4>2. QED
        BY <3>1, <4>1
    <3>3. ~(x < y) /\ ~(y < x)
      BY <2>2, <3>2
    <3>4. QED
      BY <3>3
  <2>4. ASSUME NEW x \in 1 .. Len(net'[f])
        PROVE  /\ net'[f][x].conn = conn[f]
               /\ serving'[f] = conn[f] => net'[f][x].pos \notin got'[f]
    <3>1. PICK a \in 1 .. Len(net[f]) : a # i /\ net'[f][x] = net[f][a]
      BY <2>2
    <3>2. PICK p, q : p = net[f][i] /\ q = net[f][a]
      OBVIOUS
    <3>3. p.conn = conn[f] /\ q.conn = conn[f] /\ p # q
      BY <1>1, <3>1, <3>2
    <3>4. p.pos # q.pos
      <4>1. p \in [conn : Nat, pos : Nat] /\ q \in [conn : Nat, pos : Nat]
        BY <3>2, PacketFacts
      <4>2. p = [conn |-> p.conn, pos |-> p.pos] /\ q = [conn |-> q.conn, pos |-> q.pos]
        BY <4>1
      <4>3. QED
        BY <3>3, <4>2
    <3>5. serving[f] = conn[f] => q.pos \notin got[f]
      BY <1>1, <3>2
    <3>6. \/ p.pos = 0 /\ got'[f] = {0}
          \/ p.conn = serving[f] /\ got'[f] = got[f] \cup {p.pos}
          \/ serving'[f] = serving[f] /\ got'[f] = got[f]
      BY <1>10, <3>2 DEF Takes
    <3>7. QED
      BY <3>1, <3>2, <3>3, <3>4, <3>5, <3>6
  <2>5. serving'[f] # 0 => up'[f]
    BY <1>1, <1>10 DEF Takes
  <2>6. QED
    BY <1>1, <2>1, <2>3, <2>4, <2>5 DEF ClientStays, Unrepeated, FinPos
<1>11. QED
  BY <1>4, <1>5, <1>6, <1>7, <1>8, <1>9, <1>10 DEF FlowStep

\* All that is under way is then of one kind: the SYN, data, or FIN.
LEMMA OneKind ==
    PathInv /\ (\A f \in Flows : Unrepeated(f) /\ Cautious(f) /\ AckedIn(f))
        => \A f \in Flows : Ordered(f)
<1> SUFFICES ASSUME PathInv, NEW f \in Flows, Unrepeated(f), Cautious(f), AckedIn(f)
             PROVE  Ordered(f)
  OBVIOUS
<1> DEFINE fin == FinPos(f, conn[f])
<1>1. SUFFICES ASSUME NEW i \in 1 .. Len(net[f]), NEW j \in 1 .. Len(net[f])
               PROVE  /\ net[f][i].conn = conn[f] /\ net[f][j].conn = conn[f]
                      /\ Precedes(f, conn[f], net[f][i].pos, net[f][j].pos)
  <2>1. conn[f] \in Nat
    BY FlowFacts
  <2>2. QED
    BY <1>1, <2>1 DEF Ordered
<1>2. PICK m, n : m = net[f][i].pos /\ n = net[f][j].pos
  OBVIOUS
<1>3. net[f][i].conn = conn[f] /\ net[f][j].conn = conn[f]
  BY DEF Unrepeated
<1>4. /\ m \in Nat /\ n \in Nat /\ m < sent[f] /\ n < sent[f]
      /\ m <= fin /\ n <= fin /\ conn[f] # 0 /\ fin \in Nat \ {0}
  BY <1>2, <1>3, PacketFacts
<1>5. /\ acked[f] \in Nat /\ sent[f] \in Nat
      /\ acked[f] = 0 => sent[f] = 1
      /\ sent[f] > fin => acked[f] >= fin
      /\ acked[f] > 0 => serving[f] = conn[f]
  BY <1>4, FlowFacts DEF Cautious
<1>6. m >= acked[f] /\ n >= acked[f]
  <2>1. CASE acked[f] = 0
    BY <1>4, <2>1
  <2>2. CASE acked[f] # 0
    <3>1. m \notin got[f] /\ n \notin got[f]
      BY <1>2, <1>5, <2>2 DEF Unrepeated
    <3>2. m \notin 0 .. acked[f] - 1 /\ n \notin 0 .. acked[f] - 1
      BY <3>1 DEF AckedIn
    <3>3. QED
      BY <1>4, <1>5, <3>2
  <2>3. QED
    BY <2>1, <2>2
<1> HIDE DEF fin
<1>7. (n = 0 => m = 0) /\ (m = fin => n = fin)
  BY <1>4, <1>5, <1>6
<1>8. QED
  BY <1>2, <1>3, <1>7 DEF Precedes, fin

-----------------------------------------------------------------------------
(* Who stays remembered.                                                    *)

\* In a map with room, a verdict adds what it should and takes nothing else.
LEMMA RoomyMaps ==
    ASSUME Roomy, NEW known, known \subseteq Flows, NEW s \in Segments,
           NEW m \in MapsAfter(known, s)
    PROVE  /\ \A h \in known : h # s.flow => h \in m
           /\ ~s.syn /\ ~s.end /\ (s.flow \in known \/ s.data = "handshake") => s.flow \in m
<1> DEFINE found  == AfterSyn(known, s)
           stored == IF Remembers(found, s) THEN Inserted(found, s.flow) ELSE {found}
<1>1. PICK n \in stored : m = AfterEnd(n, s)
  BY DEF MapsAfter
<1>2. /\ found \subseteq Flows /\ s.flow \in Flows
      /\ \A h \in known : h # s.flow => h \in found
      /\ ~s.syn => found = known
  BY DEF AfterSyn, Segments
<1> HIDE DEF found
<1>3. CASE Remembers(found, s)
  <2>1. s.flow \notin found
    BY <1>3 DEF Remembers
  <2>2. found \subseteq Flows \ {s.flow}
    BY <1>2, <2>1
  <2>3. /\ IsFiniteSet(Flows \ {s.flow})
        /\ Cardinality(Flows \ {s.flow}) = Cardinality(Flows) - 1
        /\ Cardinality(Flows) \in Nat
    BY <1>2, FS_RemoveElement, FS_CardinalityType DEF Roomy
  <2>4. Cardinality(found) <= Cardinality(Flows \ {s.flow}) /\ Cardinality(found) \in Nat
    BY <2>2, <2>3, FS_Subset, FS_CardinalityType
  <2>5. ~(Cardinality(found) >= EvictFrom)
    <3>1. EvictFrom \in Nat /\ Cardinality(Flows) <= EvictFrom
      BY CapacityAssumption DEF Roomy
    <3>2. QED
      BY <2>3, <2>4, <3>1
  <2>6. n = found \cup {s.flow}
    <3>1. n \in Inserted(found, s.flow)
      BY <1>1, <1>3
    <3>2. QED
      BY <2>5, <3>1 DEF Inserted
  <2>7. QED
    BY <1>1, <1>2, <2>6 DEF AfterEnd
<1>4. CASE ~Remembers(found, s)
  <2>1. n = found
    BY <1>1, <1>4
  <2>2. s.data = "handshake" => s.flow \in found
    BY <1>4 DEF Remembers
  <2>3. QED
    BY <1>1, <1>2, <2>1, <2>2 DEF AfterEnd
<1>5. QED
  BY <1>3, <1>4

LEMMA EndOf ==
    ASSUME PathInv, NEW f \in Flows, NEW i \in 1 .. Len(net[f])
    PROVE  LET p == net[f][i]  s == AsSegment(f, p)
           IN  /\ s \in Segments /\ s.flow = f
               /\ s.syn <=> p.pos = 0
               /\ s.end <=> p.pos = FinPos(f, p.conn)
               /\ p.pos = 0 \/ p.pos = FinPos(f, p.conn) => s.data = "none"
               /\ p.pos \in DOMAIN Streams[f][p.conn] => s.data = Streams[f][p.conn][p.pos]
<1>0. PICK p : p = net[f][i]
  OBVIOUS
<1>1. p \in Packets(f) /\ p.conn \in 1 .. Len(Streams[f]) /\ p.pos \in Nat
  <2>1. p \in Packets(f)
    BY <1>0 DEF PathInv, FlowInv, PacketTyped
  <2>2. QED
    BY <1>0, <2>1, PacketFacts
<1>2. /\ Len(Streams[f][p.conn]) \in Nat
      /\ FinPos(f, p.conn) = Len(Streams[f][p.conn]) + 1
  <2>1. Streams[f][p.conn] \in Seq({"handshake", "other"})
    BY <1>1, StreamsAre
  <2>2. QED
    BY <1>1, <2>1, StreamsAre
<1>3. p.pos = FinPos(f, p.conn) => p.pos \notin 1 .. Len(Streams[f][p.conn])
  BY <1>2
<1>4. /\ AsSegment(f, p).end <=> p.pos = FinPos(f, p.conn)
      /\ p.pos = FinPos(f, p.conn) => AsSegment(f, p).data = "none"
  BY <1>3 DEF AsSegment
<1>5. QED
  BY <1>0, <1>1, <1>4, SegmentOf

\* A connection that starts with a handshake has it before its FIN.
LEMMA StartIs ==
    ASSUME NEW f \in Flows, NEW k \in 1 .. Len(Streams[f]), <<f, k>> \in StartWithHandshake
    PROVE  1 \in DOMAIN Streams[f][k] /\ Streams[f][k][1] = "handshake" /\ FinPos(f, k) # 1
<1>1. HasHandshake(f, k) /\ Streams[f][k][1] = "handshake"
  BY WithHandshakeIs
<1>2. /\ Streams[f][k] \in Seq({"handshake", "other"})
      /\ DOMAIN Streams[f][k] = 1 .. Len(Streams[f][k])
      /\ FinPos(f, k) = Len(Streams[f][k]) + 1
  BY StreamsAre
<1>3. Len(Streams[f][k]) \in Nat
  BY <1>2
<1>4. \E j \in 1 .. Len(Streams[f][k]) : TRUE
  BY <1>1, <1>2 DEF HasHandshake, ToSet
<1>5. QED
  BY <1>1, <1>2, <1>3, <1>4

\* The packet at i is judged: the entry of its flow stays from the handshake to FIN.
LEMMA JudgedKept ==
    ASSUME Roomy, PathInv, NEW f \in Flows, Kept(f), Behind(f),
           NEW i \in 1 .. Len(net[f]), Judged(f, i)
    PROVE  Kept(f)'
<1>0. PICK p, s : p = net[f][i] /\ s = AsSegment(f, p)
  OBVIOUS
<1>1. /\ p.conn \in Nat \ {0} /\ p.pos \in Nat /\ FinPos(f, p.conn) \in Nat \ {0}
      /\ p.conn \in 1 .. Len(Streams[f])
      /\ p.pos > 0 => p.conn <= serving[f]
      /\ serving[f] \in Nat
  BY <1>0, PacketFacts, FlowFacts
<1>2. /\ s \in Segments /\ s.flow = f
      /\ s.syn <=> p.pos = 0
      /\ s.end <=> p.pos = FinPos(f, p.conn)
      /\ p.pos = 0 \/ p.pos = FinPos(f, p.conn) => s.data = "none"
      /\ p.pos \in DOMAIN Streams[f][p.conn] => s.data = Streams[f][p.conn][p.pos]
  BY <1>0, EndOf
<1>3. /\ allowed' \in MapsAfter(allowed, s) /\ allowed \subseteq Flows
      /\ \/ Receive(f, p)
         \/ Action(AfterSyn(allowed, s), s) = "DROP" /\ UNCHANGED server
      /\ Action(AfterSyn(allowed, s), s) = "PASS" => Receive(f, p)
  BY <1>0 DEF Judged, PathInv, PathTypes
<1>4. ~s.syn /\ ~s.end /\ (f \in allowed \/ s.data = "handshake") => f \in allowed'
  BY <1>2, <1>3, RoomyMaps
<1>5. p.conn >= serving[f] /\ (p.conn = serving[f] => \A m \in got[f] : Precedes(f, p.conn, m, p.pos))
  BY <1>0 DEF Behind
<1>6. StartWithHandshake' = StartWithHandshake
  BY DEF StartWithHandshake, WithHandshake, AllConnections, HasHandshake, Connections
<1>7. SUFFICES ASSUME Guarded(f)', <<f, serving'[f]>> \in StartWithHandshake, up'[f], 1 \in got'[f],
                      FinPos(f, serving'[f]) \notin got'[f]
               PROVE  f \in allowed'
  BY <1>6 DEF Kept, FinPos
<1>8. s.data = "none" => Action(AfterSyn(allowed, s), s) = "PASS"
  BY DEF Action, Accepts
<1>9. PathTypes
  BY DEF PathInv
<1>10. CASE p.conn > serving[f]
  <2>1. p.pos = 0 /\ Receive(f, p)
    BY <1>1, <1>2, <1>3, <1>8, <1>10
  <2>2. got' = [got EXCEPT ![f] = {0}]
    BY <1>1, <1>10, <2>1 DEF Receive
  <2>3. got'[f] = {0}
    BY <1>9, <2>2 DEF PathTypes
  <2>4. QED
    BY <1>7, <2>3
<1>11. CASE p.conn = serving[f]
  <2>1. /\ serving'[f] = serving[f] /\ up[f]
        /\ got'[f] = got[f] \cup {p.pos} \/ (got'[f] = got[f] /\ ~Receive(f, p))
    <3>1. CASE Receive(f, p)
      <4>1. \/ up[f] /\ got' = [got EXCEPT ![f] = @ \cup {p.pos}] /\ UNCHANGED <<serving, up>>
            \/ ~up[f] /\ UNCHANGED server
        BY <1>1, <1>11, <3>1 DEF Receive
      <4>2. QED
        BY <1>7, <1>9, <4>1 DEF PathTypes, server
    <3>2. CASE ~Receive(f, p)
      BY <1>3, <1>7, <3>2 DEF server
    <3>3. QED
      BY <3>1, <3>2
  <2>2. /\ <<f, p.conn>> \in StartWithHandshake
        /\ 1 \in DOMAIN Streams[f][p.conn] /\ Streams[f][p.conn][1] = "handshake"
        /\ FinPos(f, p.conn) # 1
    BY <1>1, <1>7, <1>11, <2>1, StartIs
  <2>3. p.pos # FinPos(f, p.conn) /\ FinPos(f, serving[f]) \notin got[f]
    <3>1. p.pos = FinPos(f, p.conn) => Receive(f, p)
      BY <1>2, <1>3, <1>8
    <3>2. QED
      BY <1>7, <1>11, <2>1, <3>1
  <2>4. CASE 1 \in got[f]
    <3>1. f \in allowed
      <4>1. Guarded(f)
        BY <1>7, <2>1 DEF Judged, Guarded
      <4>2. QED
        BY <1>11, <2>1, <2>2, <2>3, <2>4, <4>1 DEF Kept
    <3>2. p.pos # 0
      BY <1>5, <1>11, <2>4 DEF Precedes
    <3>3. QED
      BY <1>2, <1>4, <2>3, <3>1, <3>2
  <2>5. CASE 1 \notin got[f]
    <3>1. p.pos = 1
      BY <1>7, <2>1, <2>5
    <3>2. s.data = "handshake" /\ ~s.syn /\ ~s.end
      BY <1>2, <2>2, <3>1
    <3>3. QED
      BY <1>4, <3>2
  <2>6. QED
    BY <2>4, <2>5
<1>12. QED
  BY <1>1, <1>5, <1>10, <1>11

LEMMA KeptStep ==
    ASSUME Roomy, PathInv, [Next]_vars, NEW f \in Flows, Kept(f), Behind(f)
    PROVE  Kept(f)'
<1>0. SUFFICES ASSUME Guarded(f)' PROVE Kept(f)'
  BY DEF Kept
<1>1. PathTypes /\ ~Detach /\ ~Attach
  BY <1>0, NoneGuarded DEF PathInv, Guarded, Detach
<1>8. attached /\ since' = since
  BY <1>0, <1>1, StillAttached DEF Guarded
<1>2. ASSUME f \in allowed => f \in allowed', serving'[f] = serving[f], got'[f] = got[f],
             up'[f] => up[f]
      PROVE  Kept(f)'
  <2>1. StartWithHandshake' = StartWithHandshake
    BY DEF StartWithHandshake, WithHandshake, AllConnections, HasHandshake, Connections
  <2>2. Guarded(f)
    BY <1>0, <1>2, <1>8 DEF Guarded
  <2>3. QED
    BY <1>2, <2>1, <2>2 DEF Kept, FinPos
<1>3. ASSUME NEW g \in Flows, NEW p \in Packets(g), Arrive(g, p)
      PROVE  Kept(f)'
  <2>1. PICK i \in Deliverable(g) : Judged(g, i)
    BY <1>3, <1>8 DEF Arrive, Unfiltered
  <2>2. i \in 1 .. Len(net[g])
    BY <1>1, DeliverableIn
  <2>3. CASE g = f
    BY <2>1, <2>2, <2>3, JudgedKept
  <2>4. CASE g # f
    <3>1. PICK s : s = AsSegment(g, net[g][i])
      OBVIOUS
    <3>2. s \in Segments /\ s.flow = g /\ allowed' \in MapsAfter(allowed, s)
      BY <2>1, <2>2, <3>1, JudgedIs
    <3>3. f \in allowed => f \in allowed'
      BY <1>1, <2>4, <3>2, RoomyMaps DEF PathTypes
    <3>4. serving'[f] = serving[f] /\ got'[f] = got[f] /\ up'[f] = up[f]
      <4>1. Receive(g, net[g][i]) \/ UNCHANGED server
        BY <2>1 DEF Judged
      <4>2. net[g][i] \in [conn : Nat, pos : Nat]
        BY <2>2, PacketFacts
      <4>3. CASE Receive(g, net[g][i])
        <5>1. \A h \in Flows \ {g} : serving'[h] = serving[h] /\ got'[h] = got[h]
          BY <1>1, <4>2, <4>3, ReceiveEffect, Zenon
        <5>2. \A h \in Flows \ {g} : up'[h] = up[h]
          BY <1>1, <4>3, ReceiveUp, Zenon
        <5>3. QED
          BY <2>4, <5>1, <5>2
      <4>4. CASE UNCHANGED server
        BY <4>4 DEF server
      <4>5. QED
        BY <4>1, <4>3, <4>4
    <3>5. QED
      BY <1>2, <3>3, <3>4
  <2>5. QED
    BY <2>3, <2>4
<1>4. ASSUME UNCHANGED <<allowed, serving, got>>, up'[f] => up[f]
      PROVE  Kept(f)'
  BY <1>2, <1>4
<1>5. ASSUME NEW g \in Flows,
             \/ Open(g) \/ SendNext(g) \/ Retransmit(g)
             \/ LearnAck(g) \/ LearnReset(g) \/ Vanish(g)
             \/ ServerReset(g) \/ Lose(g)
      PROVE  Kept(f)'
  <2>1. UNCHANGED <<allowed, serving, got>>
    BY <1>5 DEF Open, SendNext, Retransmit, LearnAck, LearnReset, Vanish, ServerReset, Lose,
                server, filter
  <2>2. up'[f] => up[f]
    BY <1>1, <1>5 DEF Open, SendNext, Retransmit, LearnAck, LearnReset, Vanish, ServerReset,
                      Lose, server, PathTypes
  <2>3. QED
    BY <1>4, <2>1, <2>2
<1>6. CASE UNCHANGED vars
  BY <1>4, <1>6 DEF vars, server, filter
<1>7. QED
  BY <1>1, <1>3, <1>5, <1>6 DEF Next

LEMMA PassInvInit == Init => PathInv /\ PassInv
<1> SUFFICES ASSUME Init PROVE PathInv /\ PassInv
  OBVIOUS
<1>1. PathInv
  BY PathInvInit
<1>2. ASSUME NEW f \in Flows
      PROVE  /\ AckedIn(f) /\ Cautious(f) /\ Ordered(f) /\ Behind(f)
             /\ Unrepeated(f) /\ Kept(f)
  <2>1. /\ conn[f] = 0 /\ acked[f] = 0 /\ net[f] = <<>> /\ serving[f] = 0 /\ ~up[f]
    BY DEF Init
  <2>2. 0 .. acked[f] - 1 = {} /\ 1 .. Len(net[f]) = {}
    BY <2>1
  <2>3. AckedIn(f) /\ Cautious(f) /\ Ordered(f) /\ Behind(f)
    BY <2>1, <2>2 DEF AckedIn, Cautious, Ordered, Behind
  <2>4. Unrepeated(f) /\ Kept(f)
    BY <2>1, <2>2 DEF Unrepeated, Kept
  <2>5. QED
    BY <2>3, <2>4
<1>3. QED
  BY <1>1, <1>2 DEF Init, PassInv

LEMMA PassInvStep ==
    ASSUME Orderly, Patient, Roomy, PathInv, PassInv, [Next]_vars PROVE PathInv' /\ PassInv'
<1>1. PathInv'
  BY PathInvStep
<1>2. /\ \A f \in Flows : AckedIn(f) /\ Cautious(f) /\ Ordered(f) /\ Behind(f)
      /\ "reorder" \in Faults => \A f \in Flows : Unrepeated(f)
      /\ \A f \in Flows : Kept(f)
  BY DEF PassInv
<1>3. \A f \in Flows : FlowStep(f)
  BY StepsAre
<1>4. \A f \in Flows : AckedIn(f)'
  BY <1>2, AckedInStep
<1>5. \A f \in Flows : Cautious(f)'
  BY <1>1, <1>2, <1>3, CautiousStep
<1>6. \A f \in Flows : Behind(f)'
  BY <1>2, <1>3, BehindStep
<1>7. "reorder" \in Faults => \A f \in Flows : Unrepeated(f)'
  BY <1>2, <1>3, UnrepeatedStep
<1>8. \A f \in Flows : Ordered(f)'
  <2>1. CASE "reorder" \notin Faults
    BY <1>2, <1>3, <2>1, OrderedStep
  <2>2. CASE "reorder" \in Faults
    <3>1. (PathInv /\ (\A f \in Flows : Unrepeated(f) /\ Cautious(f) /\ AckedIn(f))
            => \A f \in Flows : Ordered(f))'
      BY OneKind, PTL
    <3>2. QED
      BY <1>1, <1>4, <1>5, <1>7, <2>2, <3>1
  <2>3. QED
    BY <2>1, <2>2
<1>9. \A f \in Flows : Kept(f)'
  BY <1>2, KeptStep
<1>10. QED
  BY <1>1, <1>4, <1>5, <1>6, <1>7, <1>8, <1>9 DEF PassInv

\* The whole of a connection that starts with a handshake passes once the server has
\* the handshake, as long as the filter stays attached and however often it was
\* restarted before: whatever is lost, repeated, late
\* or reset on a network that keeps the order of a flow's packets, and also on one that
\* reorders them, if clients repeat only what is lost and nothing is left of an earlier
\* connection of the 4-tuple.  Clients send FIN last, and the map has room for the flows.
THEOREM PlayersAlwaysPass ==
    ASSUME Orderly, Patient, Roomy PROVE Spec => []PlayersPass
<1>1. PathInv /\ PassInv => PlayersPass
  <2> SUFFICES ASSUME PathInv, PassInv, NEW f \in Flows, Guarded(f),
                      <<f, serving[f]>> \in StartWithHandshake, up[f], 1 \in got[f],
                      NEW p \in ToSet(net[f]), p.conn = serving[f]
               PROVE  LET s == AsSegment(f, p) IN Accepts(AfterSyn(allowed, s), s)
    BY DEF PlayersPass
  <2>1. PICK i \in 1 .. Len(net[f]) : p = net[f][i]
    <3>1. net[f] \in Seq([conn : Nat, pos : Nat])
      BY DEF PathInv, PathTypes
    <3>2. DOMAIN net[f] = 1 .. Len(net[f])
      BY <3>1
    <3>3. QED
      BY <3>2 DEF ToSet
  <2>2. PICK s : s = AsSegment(f, p)
    OBVIOUS
  <2>3. /\ s.flow = f /\ (s.syn <=> p.pos = 0)
        /\ p.pos = 0 \/ p.pos = FinPos(f, p.conn) => s.data = "none"
    BY <2>1, <2>2, EndOf
  <2>4. Kept(f) /\ Behind(f)
    BY DEF PassInv
  <2>5. \A m \in got[f] : m = FinPos(f, p.conn) => p.pos = FinPos(f, p.conn)
    BY <2>1, <2>4 DEF Behind, Precedes
  <2>6. CASE p.pos = 0 \/ p.pos = FinPos(f, p.conn)
    BY <2>2, <2>3, <2>6 DEF Accepts
  <2>7. CASE ~(p.pos = 0 \/ p.pos = FinPos(f, p.conn))
    <3>1. f \in allowed
      BY <2>4, <2>5, <2>7 DEF Kept
    <3>2. QED
      BY <2>2, <2>3, <2>7, <3>1 DEF Accepts, AfterSyn
  <2>8. QED
    BY <2>6, <2>7
<1>2. Init => PathInv /\ PassInv
  BY PassInvInit
<1>3. (PathInv /\ PassInv) /\ [Next]_vars => (PathInv /\ PassInv)'
  BY PassInvStep
<1>4. QED
  BY <1>1, <1>2, <1>3, PTL DEF Spec
=============================================================================
