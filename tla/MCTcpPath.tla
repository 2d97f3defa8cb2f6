----------------------------- MODULE MCTcpPath -----------------------------
(* TcpPath for TLC: what the clients of each run send, and how far ahead. *)
EXTENDS TcpPath

CONSTANTS f1, f2

Player        == <<"handshake", "other">>
LongPlayer    == <<"handshake", "other", "other">>
Stranger      == <<"other", "other">>
LateHandshake == <<"other", "handshake">>

\* One player, once or twice on the same 4-tuple.
PlayerOnce      == (f1 :> <<Player>>)
LongPlayerTwice == (f1 :> <<LongPlayer, LongPlayer>>)

\* Two players at once.
Players == (f1 :> <<LongPlayer>>) @@ (f2 :> <<Player>>)

\* After a player, on the same 4-tuple, a client that never sends a handshake, and
\* on another one a client that sends it too late: what it is heard of while the
\* filter is away makes it send its handshake, whose entry may evict the player's.
Strangers == (f1 :> <<Player, Stranger>>) @@ (f2 :> <<LateHandshake>>)

\* A client whose handshake is not first.
HandshakeSecond == (f1 :> <<LateHandshake>>)

\* How many segments a client sends without waiting.
OneAtATime == [f \in Flows |-> 1]
TwoAhead   == [f \in Flows |-> 2]
Ahead      == [f \in Flows |-> 3]

\* The stranger sends ahead, the client with the late handshake does not.
StrangersAhead == (f1 :> 3) @@ (f2 :> 1)
=============================================================================
