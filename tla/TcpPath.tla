------------------------------ MODULE TcpPath ------------------------------
(***************************************************************************)
(* TCP connections to the server, through the filter.                      *)
(*                                                                         *)
(* Clients open connections one after the other on their 4-tuples and send *)
(* a stream of segments on each; the network between them and the pod may  *)
(* lose, repeat and reorder what they send; the filter judges what arrives *)
(* and the server's TCP reassembles what passes.  XDP sees arriving        *)
(* traffic only: what the server sends (acknowledgements, its own FIN or   *)
(* RST) goes past the filter unseen, so it is not a packet here.           *)
(*                                                                         *)
(* verdict is one step (FlowFilter shows when that is right).  Client,     *)
(* network and server are not this repository's code: they are TCP as the  *)
(* filter relies on it.                                                    *)
(***************************************************************************)
EXTENDS Verdict, SequencesExt

CONSTANTS
    None,         \* no verdict yet
    Streams,      \* Streams[f][k]: the payloads sent on connection k of flow f
    Faults,       \* what may go wrong, see AllFaults
    Patient,      \* clients send FIN only once all their data is acknowledged
    Window,       \* Window[f]: how many positions may be sent and not acknowledged
    MaxInFlight,  \* bound: packets of one flow in the network
    MaxRestarts   \* bound: restarts of the loader

AllFaults ==
    { "lose",      \* the network loses packets
      "reorder",   \* the network delivers packets of one flow out of order
      "spurious",  \* clients retransmit what is not lost but late
      "vanish",    \* clients stop without FIN or RST
      "reset",     \* the server resets connections
      "restart" }  \* the loader is restarted

ASSUME PathAssumption ==
    /\ Faults \subseteq AllFaults
    /\ Patient \in BOOLEAN
    /\ Window \in [Flows -> Nat \ {0}] /\ MaxInFlight \in Nat \ {0} /\ MaxRestarts \in Nat
    /\ Streams \in [Flows -> Seq(Seq({"handshake", "other"}))]

VARIABLES
    conn,      \* client: the number of its current connection, 0 before the first
    open,      \* client: the connection is open
    sent,      \* client: how many positions of the stream have been sent
    acked,     \* client: how many of them it knows to have arrived
    net,       \* per flow, the packets under way
    serving,   \* server: the connection it holds on the flow, 0 for none
    up,        \* server: that connection has not been reset
    got,       \* server: the positions of it that arrived
    attached,  \* the filter is attached
    allowed,   \* ALLOWED_FLOWS
    last,      \* the last verdict
    restarts,
    since      \* history: per flow, the last connection opened before the last Attach

client == <<conn, open, sent, acked>>
server == <<serving, up, got>>
filter == <<attached, allowed, last, restarts, since>>
vars   == <<client, net, server, filter>>

-----------------------------------------------------------------------------
(* Position 0 of a connection is its SYN, then come its payloads, then FIN.  *)

Connections(f) == 1 .. Len(Streams[f])
FinPos(f, k)   == Len(Streams[f][k]) + 1

Packets(f) ==
    UNION {{[conn |-> k, pos |-> i] : i \in 0 .. FinPos(f, k)} : k \in Connections(f)}

\* What the filter sees of a packet.
AsSegment(f, p) ==
    [ flow |-> f,
      syn  |-> p.pos = 0,
      end  |-> p.pos = FinPos(f, p.conn),
      data |-> IF p.pos \in 1 .. Len(Streams[f][p.conn])
                 THEN Streams[f][p.conn][p.pos] ELSE "none" ]

\* The server's cumulative acknowledgement: the first position it lacks.
Expected(f) ==
    CHOOSE n \in 0 .. FinPos(f, serving[f]) + 1 :
        n \notin got[f] /\ \A m \in 0 .. n - 1 : m \in got[f]

TypeOK ==
    /\ conn \in [Flows -> Nat] /\ \A f \in Flows : conn[f] \in 0 .. Len(Streams[f])
    /\ open \in [Flows -> BOOLEAN]
    /\ \A f \in Flows : 0 <= acked[f] /\ acked[f] <= sent[f]
    /\ \A f \in Flows : Len(net[f]) <= MaxInFlight /\ ToSet(net[f]) \subseteq Packets(f)
    /\ \A f \in Flows : serving[f] \in 0 .. conn[f]
    /\ up \in [Flows -> BOOLEAN]
    /\ \A f \in Flows : serving[f] = conn[f] => \A i \in got[f] : i < sent[f]
    /\ attached \in BOOLEAN
    /\ allowed \subseteq Flows /\ Cardinality(allowed) <= MaxEntries
    /\ last \in Verdicts \cup {None}
    /\ restarts \in 0 .. MaxRestarts
    /\ \A f \in Flows : since[f] \in 0 .. conn[f]

Init ==
    /\ conn = [f \in Flows |-> 0]
    /\ open = [f \in Flows |-> FALSE]
    /\ sent = [f \in Flows |-> 0]
    /\ acked = [f \in Flows |-> 0]
    /\ net = [f \in Flows |-> <<>>]
    /\ serving = [f \in Flows |-> 0]
    /\ up = [f \in Flows |-> FALSE]
    /\ got = [f \in Flows |-> {}]
    /\ attached = TRUE
    /\ allowed = {}
    /\ last = None
    /\ restarts = 0
    /\ since = [f \in Flows |-> 0]

-----------------------------------------------------------------------------
(* Clients.                                                                  *)

Transmit(f, k, i) ==
    /\ Len(net[f]) < MaxInFlight
    /\ net' = [net EXCEPT ![f] = Append(@, [conn |-> k, pos |-> i])]

\* TIME_WAIT: after an orderly close the 4-tuple is not used again while old
\* packets may be under way.
TimeWait(f) ==
    conn[f] > 0 /\ acked[f] > FinPos(f, conn[f]) /\ net[f] # <<>>

Open(f) ==
    /\ ~open[f] /\ ~TimeWait(f)
    /\ conn[f] + 1 \in Connections(f)
    /\ Transmit(f, conn[f] + 1, 0)
    /\ conn' = [conn EXCEPT ![f] = @ + 1]
    /\ open' = [open EXCEPT ![f] = TRUE]
    /\ sent' = [sent EXCEPT ![f] = 1]
    /\ acked' = [acked EXCEPT ![f] = 0]
    /\ UNCHANGED <<server, filter>>

\* Data and FIN follow once the SYN is answered.
SendNext(f) ==
    /\ open[f]
    /\ acked[f] >= 1
    /\ sent[f] < acked[f] + Window[f]
    /\ sent[f] <= FinPos(f, conn[f])
    /\ (Patient /\ sent[f] = FinPos(f, conn[f])) => acked[f] = sent[f]
    /\ Transmit(f, conn[f], sent[f])
    /\ sent' = [sent EXCEPT ![f] = @ + 1]
    /\ UNCHANGED <<conn, open, acked, server, filter>>

\* Neither under way nor at the server: the network lost it or the filter
\* dropped it.
Missing(f, i) ==
    /\ [conn |-> conn[f], pos |-> i] \notin ToSet(net[f])
    /\ ~(serving[f] = conn[f] /\ i \in got[f])

\* The retransmission timer: the oldest position not acknowledged.
Retransmit(f) ==
    /\ open[f]
    /\ acked[f] < sent[f]
    /\ "spurious" \notin Faults => Missing(f, acked[f])
    /\ Transmit(f, conn[f], acked[f])
    /\ UNCHANGED <<client, server, filter>>

\* An acknowledgement arrives.  The server repeats them and they are cumulative,
\* so one that is lost or late changes nothing.
LearnAck(f) ==
    /\ open[f] /\ up[f] /\ serving[f] = conn[f]
    /\ Expected(f) > acked[f]
    /\ acked' = [acked EXCEPT ![f] = Expected(f)]
    /\ open' = [open EXCEPT ![f] = Expected(f) <= FinPos(f, conn[f])]
    /\ UNCHANGED <<conn, sent, net, server, filter>>

LearnReset(f) ==
    /\ open[f] /\ ~up[f] /\ serving[f] = conn[f]
    /\ open' = [open EXCEPT ![f] = FALSE]
    /\ UNCHANGED <<conn, sent, acked, net, server, filter>>

\* Only a client that will come back vanishes: the last connection of a flow is
\* the one whose fate is observed.
Vanish(f) ==
    /\ "vanish" \in Faults
    /\ open[f] /\ conn[f] < Len(Streams[f])
    /\ open' = [open EXCEPT ![f] = FALSE]
    /\ UNCHANGED <<conn, sent, acked, net, server, filter>>

-----------------------------------------------------------------------------
(* The server.                                                               *)

\* TCP's answer to a packet: a new SYN opens a connection, replacing what is
\* left of the one before; the rest counts for the connection it belongs to.
Receive(f, p) ==
    \/ /\ p.pos = 0 /\ p.conn > serving[f]
       /\ serving' = [serving EXCEPT ![f] = p.conn]
       /\ up' = [up EXCEPT ![f] = TRUE]
       /\ got' = [got EXCEPT ![f] = {0}]
    \/ /\ p.conn = serving[f] /\ up[f]
       /\ got' = [got EXCEPT ![f] = @ \cup {p.pos}]
       /\ UNCHANGED <<serving, up>>
    \/ /\ ~(p.pos = 0 /\ p.conn > serving[f])
       /\ ~(p.conn = serving[f] /\ up[f])
       /\ UNCHANGED server

ServerReset(f) ==
    /\ "reset" \in Faults
    /\ up[f] /\ Expected(f) <= FinPos(f, serving[f])
    /\ up' = [up EXCEPT ![f] = FALSE]
    /\ UNCHANGED <<client, net, serving, got, filter>>

-----------------------------------------------------------------------------
(* The network and the filter.                                               *)

\* The positions of net[f] the network may deliver next.
Deliverable(f) ==
    IF "reorder" \in Faults THEN 1 .. Len(net[f])
    ELSE {i \in {1} : net[f] # <<>>}

Take(f, i) == net' = [net EXCEPT ![f] = RemoveAt(@, i)]

\* A packet reaches the interface: verdict, and the server if it passes.
Judged(f, i) ==
    LET s == AsSegment(f, net[f][i])
        action == Action(AfterSyn(allowed, s), s)
    IN  /\ attached
        /\ Take(f, i)
        /\ allowed' \in MapsAfter(allowed, s)
        /\ last' = [seg |-> s, action |-> action]
        /\ \/ action = "PASS" /\ Receive(f, net[f][i])
           \/ action = "DROP" /\ UNCHANGED server
        /\ UNCHANGED <<client, attached, restarts, since>>

\* "Fails open: if the sidecar isn't running, nothing is filtered."
Unfiltered(f, i) ==
    /\ ~attached
    /\ Take(f, i)
    /\ Receive(f, net[f][i])
    /\ UNCHANGED <<client, filter>>

Arrive(f, p) ==
    \E i \in Deliverable(f) : net[f][i] = p /\ (Judged(f, i) \/ Unfiltered(f, i))

Lose(f) ==
    /\ "lose" \in Faults
    /\ \E i \in Deliverable(f) : Take(f, i)
    /\ UNCHANGED <<client, server, filter>>

Detach ==
    /\ "restart" \in Faults /\ restarts < MaxRestarts
    /\ attached
    /\ attached' = FALSE
    /\ restarts' = restarts + 1
    /\ UNCHANGED <<client, net, server, allowed, last, since>>

\* The container starts again, with a new and empty map.
Attach ==
    /\ ~attached
    /\ attached' = TRUE
    /\ allowed' = {}
    /\ since' = conn
    /\ UNCHANGED <<client, net, server, last, restarts>>

Next ==
    \/ \E f \in Flows :
          \/ Open(f) \/ SendNext(f) \/ Retransmit(f)
          \/ LearnAck(f) \/ LearnReset(f) \/ Vanish(f)
          \/ ServerReset(f)
          \/ Lose(f)
          \/ \E p \in Packets(f) : Arrive(f, p)
    \/ Detach
    \/ Attach

\* TCP keeps trying, a network that keeps losing does not lose everything, and
\* Kubernetes restarts the sidecar.
Fairness ==
    /\ \A f \in Flows :
          /\ WF_vars(Open(f)) /\ WF_vars(SendNext(f)) /\ SF_vars(Retransmit(f))
          /\ WF_vars(LearnAck(f)) /\ WF_vars(LearnReset(f))
          /\ \A p \in Packets(f) : SF_vars(Arrive(f, p))
    /\ WF_vars(Attach)

Spec == Init /\ [][Next]_vars

FairSpec == Spec /\ Fairness

-----------------------------------------------------------------------------
(* Properties.                                                               *)

\* The positions of the payloads the server has read, in order and without a
\* gap, on the connection it holds.
Read(f) ==
    IF serving[f] = 0 THEN {}
    ELSE DOMAIN Streams[f][serving[f]] \cap 0 .. Expected(f) - 1

HasHandshake(f, k) == "handshake" \in ToSet(Streams[f][k])

\* The filter has been attached ever since the connection the server holds was
\* opened, whatever restarts there were before.
Guarded(f) == attached /\ serving[f] > since[f]

\* "drops any connection to 25565 whose first data isn't a valid Minecraft
\* handshake": while the filter is attached, nothing that arrives on a connection
\* that never sends a handshake is kept by the server, even on a 4-tuple an earlier
\* connection was accepted on.
StrangersAreNotHeard ==
    \A f \in Flows :
        Guarded(f) /\ got[f] \cap DOMAIN Streams[f][serving[f]] # {}
            => HasHandshake(f, serving[f])

\* "A connection whose first data wasn't a handshake must not be rescued by
\* sending a valid one afterwards": the server never reads data that does not
\* start with a handshake.
StaysBlocked ==
    \A f \in Flows :
        Guarded(f) /\ Read(f) # {} => Streams[f][serving[f]][1] = "handshake"

\* "A connection whose first data segment is a valid handshake is remembered
\* and everything after it passes": the last connection of every flow, if it
\* starts so, is in the end read to its FIN.
Finished(f) == serving[f] = Len(Streams[f]) /\ Expected(f) > FinPos(f, serving[f])

EverythingArrives ==
    \A f \in Flows :
        Streams[f][Len(Streams[f])][1] = "handshake" => <>Finished(f)

AllConnections == UNION {{<<f, k>> : k \in Connections(f)} : f \in Flows}

\* Connections that send a handshake, and that start with one: a flow and a number.
WithHandshake == {c \in AllConnections : HasHandshake(c[1], c[2])}

StartWithHandshake ==
    {c \in WithHandshake : Streams[c[1]][c[2]][1] = "handshake"}

\* "Everything after it passes": once the server has the handshake that starts a
\* connection, whatever of that connection is under way would pass if it arrived
\* now, as long as the filter stays attached and the server does not reset it.
PlayersPass ==
    \A f \in Flows :
        /\ Guarded(f) /\ up[f]
        /\ <<f, serving[f]>> \in StartWithHandshake /\ 1 \in got[f]
        => \A p \in ToSet(net[f]) :
               p.conn = serving[f] =>
                   LET s == AsSegment(f, p) IN Accepts(AfterSyn(allowed, s), s)

\* "Forget the connection once either side tears it down": the entry of a
\* connection the server has reset does not stay.
ResetIsForgotten ==
    \A f \in Flows : (serving[f] # 0 /\ ~up[f]) ~> (f \notin allowed)

\* A restart of the sidecar costs the connections of its time, not those opened
\* later: one whose SYN is still under way when the last restart is over is
\* served to its end, whatever was left from before.
ServedAfterRestart ==
    \A f \in Flows :
        (attached /\ restarts = MaxRestarts /\ conn[f] = Len(Streams[f]) /\ serving[f] < conn[f])
            ~> Finished(f)

-----------------------------------------------------------------------------
(* The strengthenings the proofs need.                                       *)

\* One flow: its client, its packets under way, and what the server has of it.
FlowTyped(f) ==
    /\ conn[f] \in 0 .. Len(Streams[f])
    /\ conn[f] = 0 => ~open[f] /\ sent[f] = 0
    /\ conn[f] # 0 => sent[f] \in 1 .. FinPos(f, conn[f]) + 1
    /\ acked[f] <= sent[f]
    /\ serving[f] <= conn[f]
    /\ IF serving[f] = 0 THEN got[f] = {} ELSE got[f] \subseteq 0 .. FinPos(f, serving[f])
    /\ serving[f] = conn[f] => \A i \in got[f] : i < sent[f]
    /\ Len(net[f]) <= MaxInFlight

\* A packet under way was sent, and nothing follows a SYN before it is answered.
PacketTyped(f, p) ==
    /\ p \in Packets(f)
    /\ p.conn <= conn[f]
    /\ p.conn = conn[f] => p.pos < sent[f]
    /\ p.pos > 0 => p.conn <= serving[f]

\* What the client knows to have arrived did arrive.
FlowInv(f) ==
    /\ FlowTyped(f)
    /\ acked[f] > 0 => serving[f] = conn[f]
    /\ \A i \in 1 .. Len(net[f]) : PacketTyped(f, net[f][i])

PathTypes ==
    /\ conn \in [Flows -> Nat] /\ open \in [Flows -> BOOLEAN]
    /\ sent \in [Flows -> Nat] /\ acked \in [Flows -> Nat]
    /\ net \in [Flows -> Seq([conn : Nat, pos : Nat])]
    /\ serving \in [Flows -> Nat] /\ up \in [Flows -> BOOLEAN]
    /\ got \in [Flows -> SUBSET Nat]
    /\ attached \in BOOLEAN
    /\ allowed \subseteq Flows /\ IsFiniteSet(allowed) /\ Cardinality(allowed) <= MaxEntries
    /\ last \in Verdicts \cup {None}
    /\ restarts \in 0 .. MaxRestarts

PathInv == PathTypes /\ \A f \in Flows : FlowInv(f)

SinceInv == since \in [Flows -> Nat] /\ \A f \in Flows : since[f] <= conn[f]

\* What is under way is no older than what the server holds, and in the order of its
\* connections.
InSequence(f) ==
    /\ \A i \in 1 .. Len(net[f]) : net[f][i].conn >= serving[f]
    /\ \A i, j \in 1 .. Len(net[f]) : i < j => net[f][i].conn <= net[f][j].conn

\* A remembered flow, or data on it, is that of a connection in C, a set of pairs of
\* a flow and the number of a connection of it.
Vouched(f, C) ==
    f \in allowed \/ got[f] \cap DOMAIN Streams[f][serving[f]] # {} => <<f, serving[f]>> \in C

VouchInv(C) == \A f \in Flows : Guarded(f) => Vouched(f, C)

\* A handshake that is not the first of its connection is not sent before what comes
\* first is acknowledged.
LateHandshakesWait ==
    \A f \in Flows :
        \/ Window[f] = 1
        \/ \A k \in Connections(f) : <<f, k>> \in WithHandshake => <<f, k>> \in StartWithHandshake

\* What is acknowledged was received.
AckedIn(f) == \A i \in 0 .. acked[f] - 1 : i \in got[f]

\* What such a client sends while its first payload is not let in.
Paced(f) ==
    /\ conn[f] > since[f] /\ <<f, conn[f]>> \notin StartWithHandshake => sent[f] <= 2
    /\ \A i \in 1 .. Len(net[f]) :
          net[f][i].conn > since[f] /\ <<f, net[f][i].conn>> \notin StartWithHandshake
              => net[f][i].pos <= 1

BlockInv ==
    /\ \A f \in Flows : InSequence(f) /\ AckedIn(f)
    /\ VouchInv(StartWithHandshake)
    /\ \A f \in Flows : Window[f] = 1 => sent[f] <= acked[f] + 1
    /\ attached => \A f \in Flows : Window[f] = 1 => Paced(f)

\* On what network clients' packets arrive in the order of their connections: one that
\* keeps the order, or one whose late packets are neither sent again nor left behind.
Orderly == "reorder" \notin Faults \/ Faults \cap {"spurious", "vanish", "reset"} = {}

\* No insert finds the map so full that it may evict.
Roomy == IsFiniteSet(Flows) /\ Cardinality(Flows) <= EvictFrom

\* Position m of connection k may come before position n: the SYN is first, FIN last.
Precedes(f, k, m, n) ==
    /\ n = 0 => m = 0
    /\ m = FinPos(f, k) => n = FinPos(f, k)

\* Nothing is sent before the SYN is answered, nor FIN before all data is.
Cautious(f) ==
    conn[f] # 0 =>
        /\ acked[f] = 0 => sent[f] = 1
        /\ sent[f] > FinPos(f, conn[f]) => acked[f] >= FinPos(f, conn[f])

\* What is delivered first comes first.
Ordered(f) ==
    \A i, j \in 1 .. Len(net[f]) : i < j \/ ("reorder" \in Faults /\ i # j) =>
        LET p == net[f][i]  q == net[f][j]
        IN  p.conn <= q.conn /\ (p.conn = q.conn => Precedes(f, p.conn, p.pos, q.pos))

\* What is under way comes after what the server has.
Behind(f) ==
    \A i \in 1 .. Len(net[f]) :
        LET q == net[f][i]
        IN  /\ q.conn >= serving[f]
            /\ q.conn = serving[f] => \A m \in got[f] : Precedes(f, q.conn, m, q.pos)

\* Where nothing late is sent again, what is under way is of the newest connection, is
\* there once, and is not at the server.
Unrepeated(f) ==
    /\ \A i \in 1 .. Len(net[f]) :
          /\ net[f][i].conn = conn[f]
          /\ serving[f] = conn[f] => net[f][i].pos \notin got[f]
    /\ \A i, j \in 1 .. Len(net[f]) : net[f][i] = net[f][j] => i = j
    /\ conn[f] # 0 /\ ~open[f] => acked[f] > FinPos(f, conn[f])
    /\ serving[f] # 0 => up[f]

\* The entry stays from the handshake to FIN.
Kept(f) ==
    Guarded(f) /\ <<f, serving[f]>> \in StartWithHandshake /\ up[f] /\ 1 \in got[f] =>
        f \in allowed \/ FinPos(f, serving[f]) \in got[f]

PassInv ==
    /\ \A f \in Flows : AckedIn(f) /\ Cautious(f) /\ Ordered(f) /\ Behind(f)
    /\ "reorder" \in Faults => \A f \in Flows : Unrepeated(f)
    /\ \A f \in Flows : Kept(f)
=============================================================================
