--------------------------- MODULE HandshakeCheck ---------------------------
(***************************************************************************)
(* check_handshake and parse_handshake, run against each other.            *)
(*                                                                         *)
(* A state is one packet: the bytes a client put together out of well and  *)
(* badly formed fields (Init), which may then be split by TCP, padded by   *)
(* Ethernet, or declared shorter than they are by the IP header.           *)
(***************************************************************************)
EXTENDS Handshake, SequencesExt

CONSTANTS
    Ids, Protocols, NextStates,   \* encodings of the VarInt fields
    Addresses,                    \* pairs: encoded length, bytes of the address
    FrameLens(_),                 \* encodings of a frame length
    Trailers,                     \* what follows the frame in the segment
    MaxPadding                    \* bound: bytes of padding

VARIABLES
    mem,   \* the payload memory, to the end of the packet
    len    \* how many bytes of it the IP and TCP headers declare

vars == <<mem, len>>

TypeOK == mem \in Seq(Bytes) /\ len \in 0 .. Len(mem)

Port == <<99, 221>>

\* What a frame declares the length of.
Bodies ==
    {id \o protocol \o address[1] \o address[2] \o Port \o next :
        id \in Ids, protocol \in Protocols, address \in Addresses, next \in NextStates}

\* A client sends bytes.
ASSUME BytesAssumption ==
    /\ Bodies \subseteq Seq(Bytes) /\ Trailers \subseteq Seq(Bytes)
    /\ \A body \in Bodies : FrameLens(Len(body)) \subseteq Seq(Bytes)
    /\ MaxPadding \in Nat

Init ==
    \E body \in Bodies, trailer \in Trailers :
        /\ mem \in {frame \o body \o trailer : frame \in FrameLens(Len(body))}
        /\ len = Len(mem)

\* TCP puts the last byte into the next segment.
Split ==
    /\ len = Len(mem) /\ len > 0
    /\ mem' = Front(mem)
    /\ len' = len - 1

\* The IP header declares less than the packet holds.
Declare ==
    /\ len > 0 /\ Len(mem) - len < MaxPadding
    /\ len' = len - 1
    /\ UNCHANGED mem

\* Ethernet fills the frame up.
Pad ==
    /\ Len(mem) - len < MaxPadding
    /\ mem' = Append(mem, 0)
    /\ UNCHANGED len

Next == Split \/ Declare \/ Pad

Spec == Init /\ [][Next]_vars

-----------------------------------------------------------------------------
Prefix(b) == read_varint(b, 0)

\* Where the first frame of b ends, by its own length prefix.
FrameEnd(b) == Prefix(b).n + Prefix(b).low

Body(b) == SubSeq(b, Prefix(b).n + 1, FrameEnd(b))

\* b holds one whole frame.
HasFrame(b) == Prefix(b).ok /\ Prefix(b).top = 0 /\ FrameEnd(b) <= Len(b)

Declared == SubSeq(mem, 1, len)

\* The address length and the next state of a body, as read by both readers.
AddressLen(body) ==
    LET id == read_varint(body, 0)
    IN  read_varint(body, id.n + read_varint(body, id.n).n)

NextState(body) ==
    LET id       == read_varint(body, 0)
        protocol == read_varint(body, id.n)
    IN  read_varint(body, id.n + protocol.n + AddressLen(body).n + AddressLen(body).low + 2)

\* What the kernel accepts the parser accepts, except for what minecraft.rs says
\* "differs on purpose": the address may be no UTF-8, the next state may be 3.
DiffersOnPurpose ==
    check_handshake(mem, len) =>
        \/ parse_handshake(Body(mem)) \in {"Ok", "InvalidUtf8"}
        \/ parse_handshake(Body(mem)) = "InvalidNextState" /\ Is(NextState(Body(mem)), 3)

\* The other way round: a whole frame whose body the parser accepts is accepted
\* by the kernel, unless the address is longer than it allows, or the frame is:
\* MAX_HANDSHAKE_LEN leaves no room for VarInts longer than they need to be around
\* an address of nearly 765 bytes.
AcceptsHandshakes ==
    LET body == Body(Declared)
    IN  (HasFrame(Declared) /\ parse_handshake(body) = "Ok")
            => \/ check_handshake(mem, len)
               \/ ~AtMost(AddressLen(body), MaxAddress)
               \/ Len(body) > MaxHandshakeLen

\* Reads go up to the end of the packet, but what lies beyond the declared
\* length never changes the answer.
PaddingIsNotPayload == check_handshake(mem, len) = check_handshake(Declared, len)

\* "starts with one complete, well-formed Minecraft handshake frame": every part
\* of the payload that holds the whole frame is accepted, no shorter one is.
OnlyWholeFrames ==
    check_handshake(mem, len) =>
        \A m \in 0 .. len :
            check_handshake(SubSeq(mem, 1, m), m) <=> m >= FrameEnd(mem)
=============================================================================
