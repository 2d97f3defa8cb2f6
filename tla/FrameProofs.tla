---------------------------- MODULE FrameProofs ----------------------------
(***************************************************************************)
(* The two header parsers agree on every frame, not only on the sizes TLC  *)
(* is given.  Nothing here is about one frame's history: the three         *)
(* properties follow from the frame being a record of naturals.            *)
(***************************************************************************)
EXTENDS FrameCheck, TLAPS

USE DEF Frames, TcpHeaders, ok, drop, aborted, default_action

\* What the last parser lets through has passed every check before it.
LEMMA JudgedMeans ==
    ASSUME frame \in Frames, Headers(frame) = "judged"
    PROVE  /\ frame.ethertype = "ipv4" /\ frame.version = 4 /\ frame.proto = "tcp"
           /\ ~BadTotal(frame) /\ ~Fragment(frame)
           /\ Fits(frame, EthLen, Ipv4Len) /\ Fits(frame, EthLen + frame.ihl, TcpLen)
           /\ frame.tcp.doff >= TcpLen /\ frame.ihl + frame.tcp.doff <= frame.total
<1>1. check_header(frame) = "parsed" /\ Ipv4Packet(frame) = "parsed"
      /\ TcpPacket(frame) = "parsed"
  <2>1. check_header(frame) # "judged"
    BY DEF check_header
  <2>2. Ipv4Packet(frame) # "judged"
    BY DEF Ipv4Packet
  <2>3. TcpPacket(frame) # "judged"
    BY DEF TcpPacket
  <2>4. QED
    BY <2>1, <2>2, <2>3 DEF Headers
<1>2. frame.ethertype = "ipv4"
  BY <1>1 DEF check_header
<1>3. /\ frame.version = 4 /\ frame.proto = "tcp"
      /\ ~BadTotal(frame) /\ ~Fragment(frame)
      /\ Fits(frame, EthLen, Ipv4Len) /\ Fits(frame, EthLen + frame.ihl, TcpLen)
  BY <1>1 DEF Ipv4Packet
<1>4. frame.tcp.doff >= TcpLen /\ frame.ihl + frame.tcp.doff <= frame.total
  <2>1. ~(frame.tcp.doff < TcpLen) /\ ~(frame.ihl + frame.tcp.doff > frame.total)
    BY <1>1 DEF TcpPacket
  <2>2. QED
    BY <2>1, LengthAssumption
<1>5. QED
  BY <1>2, <1>3, <1>4

\* The five getters lose nothing the program looks at.
LEMMA FlagsReadAlike ==
    ASSUME NEW flags
    PROVE  /\ is_syn(from_header(flags)) <=> is_syn(flags)
           /\ is_fin(from_header(flags)) <=> is_fin(flags)
           /\ is_rst(from_header(flags)) <=> is_rst(flags)
BY DEF from_header, is_syn, is_fin, is_rst, FIN_BIT, SYN_BIT, RST_BIT

\* A judged frame is read alike by both sides, and its payload lies inside it.
\* The user-space parser wants 13 bytes of TCP header, the kernel's TcpLen.
LEMMA JudgedReadsAlike ==
    ASSUME TcpLen > 12, frame \in Frames
    PROVE  ReadAlike
<1>1. SUFFICES ASSUME Headers(frame) = "judged"
               PROVE  /\ Parsed(frame)
                      /\ payload_offset(frame) = SlicedPayload(frame).from
                      /\ payload_offset(frame) + payload_len(frame)
                            = SlicedPayload(frame).upto
                      /\ payload_len(frame) >= 0
                      /\ payload_offset(frame) + payload_len(frame) <= frame.size
                      /\ Judged(frame) = ParsedFacts(frame)
  BY DEF ReadAlike
<1>2. Parsed(frame)
  <2>1. parse_ethernet(frame) = "Ok"
    BY JudgedMeans, <1>1, LengthAssumption DEF Fits, parse_ethernet, checked_slice
  <2>2. parse_ipv4(frame) = "Ok"
    BY JudgedMeans, <1>1, LengthAssumption DEF Fits, BadTotal, parse_ipv4, checked_slice
  <2>3. parse_tcp(frame) = "Ok"
    BY JudgedMeans, <1>1, LengthAssumption DEF parse_tcp, checked_slice
  <2>4. QED
    BY <2>1, <2>2, <2>3, JudgedMeans, <1>1 DEF Parsed
<1>3. payload_offset(frame) = SlicedPayload(frame).from
  BY DEF payload_offset, SlicedPayload
<1>4. /\ payload_offset(frame) + payload_len(frame) = SlicedPayload(frame).upto
      /\ payload_len(frame) >= 0
      /\ payload_offset(frame) + payload_len(frame) <= frame.size
  BY JudgedMeans, <1>1, LengthAssumption
     DEF payload_offset, payload_len, SlicedPayload, Fits, BadTotal
<1>5. Judged(frame) = ParsedFacts(frame)
  <2>1. (payload_len(frame) = 0) <=> (SlicedPayload(frame).from = SlicedPayload(frame).upto)
    BY LengthAssumption DEF payload_len, SlicedPayload
  <2>2. /\ is_syn(from_header(frame.tcp.flags)) = is_syn(frame.tcp.flags)
        /\ (is_fin(from_header(frame.tcp.flags)) \/ is_rst(from_header(frame.tcp.flags)))
              = (is_fin(frame.tcp.flags) \/ is_rst(frame.tcp.flags))
    BY FlagsReadAlike DEF is_syn, is_fin, is_rst
  <2>3. (payload_len(frame) = 0) = (SlicedPayload(frame).from = SlicedPayload(frame).upto)
    BY <2>1
  <2>4. QED
    BY <2>2, <2>3, Zenon DEF Judged, ParsedFacts
<1>6. QED
  BY <1>2, <1>3, <1>4, <1>5

\* The other way round, with its three exceptions.
LEMMA ParsedIsJudged ==
    ASSUME frame \in Frames
    PROVE  JudgesWhatParses
<1>1. SUFFICES ASSUME Parsed(frame), frame.tcp.port = MinecraftPort,
                      ~Fragment(frame), frame.ihl >= Ipv4Len, frame.total <= MaxTotal
               PROVE  Headers(frame) = "judged"
  BY LengthAssumption DEF JudgesWhatParses
<1>2. /\ frame.ethertype = "ipv4" /\ frame.version = 4 /\ frame.proto = "tcp"
      /\ EthLen <= frame.size /\ Ipv4Len <= frame.size - EthLen
      /\ frame.ihl <= frame.total /\ frame.total <= frame.size - EthLen
      /\ frame.tcp.doff >= TcpLen /\ frame.tcp.doff <= frame.total - frame.ihl
  BY <1>1, LengthAssumption
     DEF Parsed, parse_ethernet, parse_ipv4, parse_tcp, checked_slice
<1>3. /\ Fits(frame, 0, EthLen) /\ Fits(frame, EthLen, Ipv4Len)
      /\ Fits(frame, EthLen + frame.ihl, TcpLen)
  BY <1>2, LengthAssumption DEF Fits
<1>4. ~BadTotal(frame)
  BY <1>1, <1>2, LengthAssumption DEF BadTotal, Fits
<1>5. check_header(frame) = "parsed"
  BY <1>2, <1>3 DEF check_header
<1>6. Ipv4Packet(frame) = "parsed"
  BY <1>1, <1>2, <1>3, <1>4 DEF Ipv4Packet
<1>7. TcpPacket(frame) = "parsed"
  BY <1>2, <1>3, <1>4, LengthAssumption DEF TcpPacket
<1>8. QED
  BY <1>1, <1>5, <1>6, <1>7 DEF Headers

\* What passes on its headers alone is another protocol, or for another port.
LEMMA PassMeans ==
    ASSUME frame \in Frames, Headers(frame) = "PASS"
    PROVE  \/ frame.ethertype # "ipv4"
           \/ frame.proto # "tcp"
           \/ ~Fragment(frame) /\ frame.tcp.port # MinecraftPort
<1>1. CASE check_header(frame) # "parsed"
  BY <1>1 DEF Headers, check_header
<1>2. CASE check_header(frame) = "parsed" /\ Ipv4Packet(frame) # "parsed"
  BY <1>2 DEF Headers, Ipv4Packet
<1>3. CASE Ipv4Packet(frame) = "parsed" /\ frame.tcp.port # MinecraftPort
  BY <1>3 DEF Ipv4Packet
<1>4. CASE /\ check_header(frame) = "parsed" /\ Ipv4Packet(frame) = "parsed"
           /\ frame.tcp.port = MinecraftPort
  BY <1>4 DEF Headers, TcpPacket
<1>5. QED
  BY <1>1, <1>2, <1>3, <1>4

\* So a segment to the Minecraft port, or a fragment, is not among what passes.
LEMMA PassIsNotForServer ==
    ASSUME frame \in Frames
    PROVE  NothingUnjudged
<1>1. SUFFICES ASSUME Headers(frame) = "PASS"
               PROVE  /\ ~(Parsed(frame) /\ ~Fragment(frame) /\ frame.tcp.port = MinecraftPort)
                      /\ ~(parse_ethernet(frame) = "Ok" /\ IsFragment)
  BY DEF NothingUnjudged
<1>2. QED
  BY <1>1, PassMeans DEF Parsed, IsFragment, parse_ipv4

-----------------------------------------------------------------------------
\* What a sender, a router and a link may write into a TCP header.
LEMMA ReadingsAreHeaders == Readings \subseteq TcpHeaders
BY FieldAssumption DEF Readings

HIDE DEF Frames, TcpHeaders

\* A router, a padded link and a cut leave a frame a frame.
LEMMA FramesStayFrames == TypeOK /\ [Next]_frame => TypeOK'
<1>1. SUFFICES ASSUME frame \in Frames, Next PROVE frame' \in Frames
  BY DEF TypeOK
<1>2. CASE Pad
  BY <1>1, <1>2, FieldAssumption DEF Pad, Frames
<1>3. CASE Cut
  BY <1>1, <1>3, FieldAssumption, LengthAssumption DEF Cut, Frames
<1>4. ASSUME NEW total \in Totals, FirstFragment(total) PROVE frame' \in Frames
  <2>1. total \in Nat /\ EthLen + total \in Nat
    BY FieldAssumption, LengthAssumption
  <2>2. QED
    BY <1>1, <1>4, <2>1 DEF FirstFragment, Frames
<1>5. ASSUME NEW total \in Totals, NEW tcp \in Readings, LaterFragment(total, tcp)
      PROVE  frame' \in Frames
  <2>1. total \in Nat /\ EthLen + total \in Nat /\ tcp \in TcpHeaders
    BY FieldAssumption, LengthAssumption, ReadingsAreHeaders
  <2>2. frame.total - total \in Nat
    BY <1>1, <1>5, <2>1 DEF LaterFragment, Frames
  <2>3. QED
    BY <1>1, <1>5, <2>1, <2>2 DEF LaterFragment, Frames
<1>6. QED
  BY <1>1, <1>2, <1>3, <1>4, <1>5 DEF Next

\* Every state is a frame, whatever fields the sender writes.
THEOREM FramesAlways == Spec => []TypeOK
<1>1. Init => TypeOK
  <2>1. SUFFICES ASSUME NEW ethertype \in Ethertypes, NEW version \in Versions,
                        NEW proto \in Protos, NEW ihl \in Ihls, NEW total \in Totals,
                        NEW tcp \in Readings, NEW slack \in Slack,
                        frame = [ size |-> EthLen + total + slack,
                                  ethertype |-> ethertype, version |-> version,
                                  proto |-> proto, ihl |-> ihl, total |-> total,
                                  offset |-> 0, more |-> FALSE, tcp |-> tcp ]
                 PROVE  frame \in Frames
    BY DEF Init, TypeOK
  <2>2. EthLen + total + slack \in Nat /\ tcp \in TcpHeaders
    BY FieldAssumption, LengthAssumption, ReadingsAreHeaders
  <2>3. QED
    BY <2>1, <2>2, FieldAssumption DEF Frames
<1>2. QED
  BY <1>1, FramesStayFrames, PTL DEF Spec

\* For headers of any length: a frame that is judged is read alike by the kernel's
\* and the user-space parsers, and its payload lies inside it.
THEOREM ReadAlikeAlways == ASSUME TcpLen > 12 PROVE Spec => []ReadAlike
<1>1. TypeOK => ReadAlike
  BY JudgedReadsAlike DEF TypeOK
<1>2. QED
  BY <1>1, FramesAlways, PTL

\* No segment to the Minecraft port, and no fragment, passes without being judged.
THEOREM NothingUnjudgedAlways == Spec => []NothingUnjudged
<1>1. TypeOK => NothingUnjudged
  BY PassIsNotForServer DEF TypeOK
<1>2. QED
  BY <1>1, FramesAlways, PTL

\* What the user-space parsers read is judged, with the three exceptions.
THEOREM JudgesWhatParsesAlways == Spec => []JudgesWhatParses
<1>1. TypeOK => JudgesWhatParses
  BY ParsedIsJudged DEF TypeOK
<1>2. QED
  BY <1>1, FramesAlways, PTL
=============================================================================
