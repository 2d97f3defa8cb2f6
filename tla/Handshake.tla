----------------------------- MODULE Handshake -----------------------------
(***************************************************************************)
(* The two readers of a Minecraft handshake, as operators on sequences of  *)
(* bytes (numbers 0..255):                                                 *)
(*                                                                         *)
(*   check_handshake  ebpf/minecraft.rs, run in the kernel on packet       *)
(*                    memory: bytes up to the end of the packet can be     *)
(*                    read, len of them are declared to be the payload     *)
(*   parse_handshake  networking/parser.rs, on the body of one frame       *)
(*                                                                         *)
(* Offsets count from 0 as in the code; byte i of b is b[i + 1].           *)
(***************************************************************************)
EXTENDS Naturals, Sequences

CONSTANTS
    MaxAddress,   \* MAX_SERVER_ADDRESS_BYTES, 765
    IsUtf8(_)     \* str::from_utf8 accepts the bytes

\* ADDRESS_LEN_MASK + 1: masking a length is taking it modulo this.
AddressLenModulus == 1024

\* "assert!(MAX_SERVER_ADDRESS_BYTES as usize <= ADDRESS_LEN_MASK)"
ASSUME AddressAssumption == MaxAddress \in 0 .. AddressLenModulus - 1

Bytes == 0 .. 255

MaxVarintBytes == 5

\* "packet ID (1) + protocol version (up to 5) + address length (2) + address +
\* port (2) + next state (1)"
MaxHandshakeLen == 1 + 5 + 2 + MaxAddress + 2 + 1

-----------------------------------------------------------------------------
(* VarInts.  Both readers keep 32 bits, u32 here and i32 there: the low 28  *)
(* from four bytes and the top 4 from the fifth, whose other bits the shift *)
(* loses.                                                                   *)

Continues(byte) == byte >= 128
Segment(byte)   == byte % 128

\* The number of bytes a VarInt at offset takes, 0 if it does not end within
\* five bytes or within the end.
VarintLen(b, offset) ==
    LET ends == {n \in 1 .. MaxVarintBytes :
                    offset + n <= Len(b) /\ ~Continues(b[offset + n])}
    IN  IF ends = {} THEN 0
        ELSE CHOOSE n \in ends : \A m \in ends : n <= m

\* Byte i (from 1) of the VarInt at offset, 0 beyond its length.
Part(b, offset, i) ==
    IF i <= VarintLen(b, offset) THEN Segment(b[offset + i]) ELSE 0

Low(b, offset) ==
    Part(b, offset, 1) + 2^7 * Part(b, offset, 2)
        + 2^14 * Part(b, offset, 3) + 2^21 * Part(b, offset, 4)

Top(b, offset) == Part(b, offset, 5) % 16

\* read_varint of minecraft.rs: the value as u32 is Top * 2^28 + Low.
read_varint(b, offset) ==
    [ok |-> VarintLen(b, offset) > 0, n |-> VarintLen(b, offset),
     low |-> Low(b, offset), top |-> Top(b, offset)]

\* The value is at most m, for an m below 2^28.
AtMost(v, m) == v.top = 0 /\ v.low <= m

Is(v, m) == v.top = 0 /\ v.low = m

\* As an i32 the value has its sign in the highest bit.
Negative(v) == v.top >= 8

-----------------------------------------------------------------------------
(* minecraft.rs.                                                            *)

\* Mutant: the frame has to be shorter than the payload.
FrameFitsStrict(frame, len) ==
    AtMost(frame, MaxHandshakeLen) /\ ~Is(frame, 0) /\ frame.n + frame.low < len

\* Mutant: the frame is not compared with the payload.
FrameFitsAlways(frame, len) == AtMost(frame, MaxHandshakeLen) /\ ~Is(frame, 0)

\* The declared frame may be a handshake's, and is wholly in the payload.
FrameFits(frame, len) ==
    AtMost(frame, MaxHandshakeLen) /\ ~Is(frame, 0) /\ frame.n + frame.low <= len

\* Mutant: fields may end before their frame does.
AddsUpLoose(pos, frame) == pos <= frame.low

\* Mutant: fields may end after their frame.
AddsUpBeyond(pos, frame) == pos >= frame.low

\* The fields end where their frame does.
AddsUp(pos, frame) == pos = frame.low

\* check_handshake(ctx, offset, len).is_ok() for the packet whose payload
\* memory is b: b goes to the end of the packet, len bytes of it are declared.
check_handshake(b, len) ==
    LET frame    == read_varint(b, 0)
        body     == frame.n
        id       == read_varint(b, body)
        protocol == read_varint(b, body + id.n)
        address  == read_varint(b, body + id.n + protocol.n)
        port     == id.n + protocol.n + address.n + (address.low % AddressLenModulus)
        next     == read_varint(b, body + port + 2)
    IN  /\ frame.ok /\ FrameFits(frame, len)
        /\ id.ok /\ Is(id, 0)
        /\ protocol.ok
        /\ address.ok /\ AtMost(address, MaxAddress)
        /\ body + port + 1 < Len(b)
        /\ next.ok /\ AtMost(next, 3) /\ ~Is(next, 0)
        /\ AddsUp(port + 2 + next.n, frame)

-----------------------------------------------------------------------------
(* parser.rs.                                                               *)

\* parse_handshake(body): the error it returns, or "Ok".  read_varint tells a
\* VarInt that is too long from one cut off.
VarintError(b, offset) ==
    IF Len(b) >= offset + MaxVarintBytes THEN "VarIntTooLong" ELSE "UnexpectedEof"

parse_handshake(b) ==
    LET id       == read_varint(b, 0)
        protocol == read_varint(b, id.n)
        address  == read_varint(b, id.n + protocol.n)
        text     == id.n + protocol.n + address.n
        port     == text + address.low
        next     == read_varint(b, port + 2)
    IN  IF ~id.ok THEN VarintError(b, 0)
        ELSE IF ~Is(id, 0) THEN "WrongPacketId"
        ELSE IF ~protocol.ok THEN VarintError(b, id.n)
        ELSE IF ~address.ok THEN VarintError(b, id.n + protocol.n)
        ELSE IF Negative(address) THEN "NegativeLength"
        ELSE IF address.top > 0 \/ port > Len(b) THEN "UnexpectedEof"
        ELSE IF ~IsUtf8(SubSeq(b, text + 1, port)) THEN "InvalidUtf8"
        ELSE IF port + 2 > Len(b) THEN "UnexpectedEof"
        ELSE IF ~next.ok THEN VarintError(b, port + 2)
        ELSE IF Len(b) > port + 2 + next.n THEN "TrailingBytes"
        ELSE IF ~(Is(next, 1) \/ Is(next, 2)) THEN "InvalidNextState"
        ELSE "Ok"
=============================================================================
