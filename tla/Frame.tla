------------------------------- MODULE Frame -------------------------------
(***************************************************************************)
(* The headers in front of a handshake, as the two parsers of the          *)
(* repository read them:                                                   *)
(*                                                                         *)
(*   the kernel's      ebpf/networking/{ethernet,ipv4,tcp}.rs, and the     *)
(*                     part of verdict that calls them                     *)
(*   the user-space's  networking/net.rs, on byte slices                   *)
(*                                                                         *)
(* A frame is the record of the header fields they look at.  Lengths are   *)
(* in bytes; ihl and doff are already multiplied by four.  The TCP fields  *)
(* are the ones found at 14 + ihl, where both parsers expect them, whether *)
(* or not the frame is long enough to hold them.                           *)
(***************************************************************************)
EXTENDS Integers

CONSTANTS
    EthLen, Ipv4Len, TcpLen,  \* fixed parts of the headers: 14, 20, 20
    MaxTotal,                 \* the longest IPv4 packet the kernel side takes, 1500
    MinecraftPort             \* MINECRAFT_PORT, 25565

ASSUME LengthAssumption ==
    /\ EthLen \in Nat /\ Ipv4Len \in Nat /\ TcpLen \in Nat \ {0}
    /\ MaxTotal \in Nat

\* The flags byte as the set of its bits; ECE, CWR and URG are the others.
FIN_BIT == 0
SYN_BIT == 1
RST_BIT == 2
PSH_BIT == 3
ACK_BIT == 4

TcpFlags == SUBSET (0 .. 7)

TcpHeaders == [doff : Nat, port : Nat, flags : TcpFlags]

Frames ==
    [ size : Nat,                                    \* bytes received, padding included
      ethertype : {"ipv4", "other"},
      version : Nat, ihl : Nat, total : Nat,
      proto : {"tcp", "other", "unassigned"},
      offset : Nat, more : BOOLEAN,                  \* fragment offset, More Fragments
      tcp : TcpHeaders ]

-----------------------------------------------------------------------------
(* The kernel's side.  Each parser gives an action or goes on to the next.   *)

\* EbpfAction for XDP.
ok             == "PASS"
drop           == "DROP"
aborted        == "ABORTED"
default_action == aborted

\* Mutant: the last byte of the frame cannot be read.
FitsStrictly(frame, offset, n) == offset + n < frame.size

\* ptr_at: n bytes at offset lie inside the frame, start() is 0 and end() its
\* size.  Where they do not the action is the default.
Fits(frame, offset, n) == offset + n <= frame.size

\* ethernet::check_header
check_header(frame) ==
    IF ~Fits(frame, 0, EthLen) THEN default_action
    ELSE IF frame.ethertype # "ipv4" THEN ok
    ELSE "parsed"

\* "A fragment either has no TCP header at all or only part of the payload"
Fragment(frame) == frame.offset # 0 \/ frame.more

\* The length fields contradict each other, or the frame.
BadTotal(frame) ==
    \/ frame.ihl < Ipv4Len
    \/ frame.total < frame.ihl
    \/ frame.total > MaxTotal
    \/ ~Fits(frame, EthLen, frame.total)

\* Mutant: fragments are taken for whole packets.
Ipv4TakingFragments(frame) ==
    IF ~Fits(frame, EthLen, Ipv4Len) THEN default_action
    ELSE IF frame.version # 4 \/ frame.proto = "unassigned" THEN drop
    ELSE IF frame.proto # "tcp" THEN ok
    ELSE IF BadTotal(frame) THEN drop
    ELSE IF ~Fits(frame, EthLen + frame.ihl, TcpLen) THEN default_action
    ELSE "parsed"

\* Ipv4Packet::try_parse
Ipv4Packet(frame) ==
    IF ~Fits(frame, EthLen, Ipv4Len) THEN default_action
    ELSE IF frame.version # 4 \/ frame.proto = "unassigned" THEN drop
    ELSE IF frame.proto # "tcp" THEN ok
    ELSE IF BadTotal(frame) \/ Fragment(frame) THEN drop
    ELSE IF ~Fits(frame, EthLen + frame.ihl, TcpLen) THEN default_action
    ELSE "parsed"

\* Mutant: the payload ends where the frame does.
payload_len_padded(frame) == frame.size - EthLen - frame.ihl - frame.tcp.doff

\* Where the payload starts in the frame, and how long it is: "as declared by
\* IPv4's Total Length, not derived from ctx.end()".
payload_offset(frame) == EthLen + frame.ihl + frame.tcp.doff
payload_len(frame)    == frame.total - frame.ihl - frame.tcp.doff

\* TcpFlags::from_header: the bits the header's getters are asked for.
from_header(flags) == flags \cap {FIN_BIT, SYN_BIT, RST_BIT, PSH_BIT, ACK_BIT}

\* TcpPacket::try_parse
TcpPacket(frame) ==
    IF ~Fits(frame, EthLen, Ipv4Len) THEN default_action
    ELSE IF BadTotal(frame) THEN drop
    ELSE IF ~Fits(frame, EthLen + frame.ihl, TcpLen) THEN default_action
    ELSE IF frame.tcp.doff < TcpLen \/ frame.ihl + frame.tcp.doff > frame.total THEN drop
    ELSE "parsed"

\* verdict up to the flow key: the action of the first parser that does not
\* parse, PASS for another port, "judged" for what goes on to ALLOWED_FLOWS.
Headers(frame) ==
    IF check_header(frame) # "parsed" THEN check_header(frame)
    ELSE IF Ipv4Packet(frame) # "parsed" THEN Ipv4Packet(frame)
    ELSE IF frame.tcp.port # MinecraftPort THEN ok
    ELSE IF TcpPacket(frame) # "parsed" THEN TcpPacket(frame)
    ELSE "judged"

\* The flags verdict acts on.
is_fin(flags) == FIN_BIT \in flags
is_syn(flags) == SYN_BIT \in flags
is_rst(flags) == RST_BIT \in flags

\* What goes on to ALLOWED_FLOWS of a judged frame: whether its flow starts,
\* whether it ends, and whether there is a payload to judge.
Judged(frame) ==
    LET flags == from_header(frame.tcp.flags)
    IN  [syn |-> is_syn(flags), end |-> is_fin(flags) \/ is_rst(flags),
         empty |-> payload_len(frame) = 0]

-----------------------------------------------------------------------------
(* The user-space side.                                                      *)

\* checked_slice!: the bytes first .. last - 1 of n, if they are there.
checked_slice(n, first, last) == first <= last /\ last <= n

\* The ethertype is the header's last two bytes.
parse_ethernet(frame) ==
    IF ~checked_slice(frame.size, EthLen - 2, EthLen) THEN "TooShort" ELSE "Ok"

\* On the bytes after the Ethernet header.
parse_ipv4(frame) ==
    IF frame.size - EthLen < Ipv4Len THEN "TooShort"
    ELSE IF frame.version # 4 THEN "UnsupportedIpVersion"
    ELSE IF frame.proto # "tcp" THEN "UnsupportedIpProtocol"
    ELSE IF ~checked_slice(frame.size - EthLen, frame.ihl, frame.total) THEN "TooShort"
    ELSE "Ok"

\* On the bytes from ihl to Total Length; byte 12 holds the data offset.
parse_tcp(frame) ==
    LET length == frame.total - frame.ihl
    IN  IF \/ ~checked_slice(length, 12, 13)
           \/ length < frame.tcp.doff \/ frame.tcp.doff < TcpLen
          THEN "TooShort" ELSE "Ok"

\* The three in a row, on a frame whose ethertype the caller has found to be IPv4.
Parsed(frame) ==
    /\ parse_ethernet(frame) = "Ok"
    /\ frame.ethertype = "ipv4"
    /\ parse_ipv4(frame) = "Ok"
    /\ parse_tcp(frame) = "Ok"

\* The slice parse_tcp hands back: parse_ipv4 has cut what it was given to
\* ihl .. Total Length, parse_tcp takes off the header.
SlicedPayload(frame) ==
    [from |-> EthLen + frame.ihl + frame.tcp.doff, upto |-> EthLen + frame.total]

\* The same facts as Judged from what parse_tcp returns, whose flags are byte 13
\* as it is.
ParsedFacts(frame) ==
    [syn |-> is_syn(frame.tcp.flags),
     end |-> is_fin(frame.tcp.flags) \/ is_rst(frame.tcp.flags),
     empty |-> SlicedPayload(frame).from = SlicedPayload(frame).upto]
=============================================================================
