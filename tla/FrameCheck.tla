----------------------------- MODULE FrameCheck -----------------------------
(***************************************************************************)
(* The two header parsers of Frame, run against each other.                *)
(*                                                                         *)
(* A state is one frame: sent with well or badly formed headers (Init),    *)
(* then fragmented by a router, padded by Ethernet or cut short, in any    *)
(* order.                                                                  *)
(***************************************************************************)
EXTENDS Frame

CONSTANTS
    Ethertypes, Versions, Protos, Ihls, Totals,                \* header fields
    Doffs, Ports, Flags,                                       \* TCP header fields
    Slack,                                                     \* bytes after the packet
    MinFrame                                                   \* Ethernet's shortest frame

ASSUME FieldAssumption ==
    /\ Ethertypes \subseteq {"ipv4", "other"}
    /\ Protos \subseteq {"tcp", "other", "unassigned"}
    /\ Versions \subseteq Nat /\ Ihls \subseteq Nat /\ Totals \subseteq Nat
    /\ Doffs \subseteq Nat /\ Ports \subseteq Nat /\ Slack \subseteq Nat
    /\ Flags \subseteq TcpFlags
    /\ MinFrame \in Nat

VARIABLE frame

TypeOK == frame \in Frames

Readings == [doff : Doffs, port : Ports, flags : Flags]

Init ==
    \E ethertype \in Ethertypes, version \in Versions, proto \in Protos,
       ihl \in Ihls, total \in Totals, tcp \in Readings, slack \in Slack :
          frame = [ size |-> EthLen + total + slack,
                    ethertype |-> ethertype, version |-> version, proto |-> proto,
                    ihl |-> ihl, total |-> total, offset |-> 0, more |-> FALSE,
                    tcp |-> tcp ]

\* Ethernet fills a short frame up.
Pad ==
    /\ frame.size < MinFrame
    /\ frame' = [frame EXCEPT !.size = MinFrame]

\* Fewer bytes arrive than were sent.
Cut ==
    /\ frame.size > 0
    /\ \E n \in Totals \cup {EthLen} :
          n < frame.size /\ frame' = [frame EXCEPT !.size = n]

\* A router splits the packet.  In the later fragments payload stands where the
\* TCP header is expected.
FirstFragment(total) ==
    /\ ~Fragment(frame) /\ frame.ihl < total /\ total < frame.total
    /\ frame' = [frame EXCEPT !.total = total, !.size = EthLen + total, !.more = TRUE]

LaterFragment(total, tcp) ==
    /\ ~Fragment(frame) /\ frame.ihl < total /\ total < frame.total
    /\ frame' = [frame EXCEPT !.offset = frame.total - total, !.tcp = tcp,
                              !.total = total, !.size = EthLen + total]

Next ==
    \/ Pad
    \/ Cut
    \/ \E total \in Totals : FirstFragment(total)
    \/ \E total \in Totals, tcp \in Readings : LaterFragment(total, tcp)

Spec == Init /\ [][Next]_frame

-----------------------------------------------------------------------------
(* Properties.                                                              *)

IsFragment == frame.ethertype = "ipv4" /\ parse_ipv4(frame) = "Ok" /\ Fragment(frame)

\* "passing it would let the kernel reassemble unvalidated bytes behind our
\* back": no frame passes on its headers alone that the user-space parsers read
\* as a segment to the Minecraft port, or that is a fragment of a TCP packet.
NothingUnjudged ==
    Headers(frame) = "PASS" =>
        /\ ~(Parsed(frame) /\ ~Fragment(frame) /\ frame.tcp.port = MinecraftPort)
        /\ ~(parse_ethernet(frame) = "Ok" /\ IsFragment)

\* A frame that is judged is one the user-space parsers accept, and both take the
\* same bytes for its payload, all of them inside the frame: padding is no data
\* and check_handshake is never told of bytes that are not there.  Both find the
\* same start or end of a connection in it, for any of the 256 flags bytes.
ReadAlike ==
    Headers(frame) = "judged" =>
        /\ Parsed(frame)
        /\ payload_offset(frame) = SlicedPayload(frame).from
        /\ payload_offset(frame) + payload_len(frame) = SlicedPayload(frame).upto
        /\ payload_len(frame) >= 0
        /\ payload_offset(frame) + payload_len(frame) <= frame.size
        /\ Judged(frame) = ParsedFacts(frame)

\* What the user-space parsers read as a segment to the Minecraft port is judged,
\* except for the three things only the kernel's parsers refuse.
JudgesWhatParses ==
    Parsed(frame) /\ frame.tcp.port = MinecraftPort =>
        \/ Headers(frame) = "judged"
        \/ Fragment(frame)
        \/ frame.ihl < Ipv4Len
        \/ frame.total > MaxTotal
=============================================================================
