-------------------------- MODULE HandshakeProofs --------------------------
(***************************************************************************)
(* What HandshakeCheck says of its packets holds of every packet, however  *)
(* long its payload and whatever its bytes: the properties follow from how *)
(* the two readers move through the bytes.                                 *)
(*                                                                         *)
(* The argument is one lemma, used throughout: a VarInt is read from a     *)
(* part of the bytes as it is from the whole, if it ends within the part.  *)
(***************************************************************************)
EXTENDS HandshakeCheck, SequenceTheorems, TLAPS

-----------------------------------------------------------------------------
(* VarInts.                                                                 *)

Ends(b, offset) ==
    {n \in 1 .. MaxVarintBytes : offset + n <= Len(b) /\ ~Continues(b[offset + n])}

\* The length is the first place where the VarInt may end.
LEMMA VarintEnds ==
    ASSUME NEW b \in Seq(Bytes), NEW offset \in Nat
    PROVE  /\ VarintLen(b, offset) \in 0 .. MaxVarintBytes
           /\ VarintLen(b, offset) = 0 <=> Ends(b, offset) = {}
           /\ VarintLen(b, offset) # 0 =>
                /\ VarintLen(b, offset) \in Ends(b, offset)
                /\ \A m \in Ends(b, offset) : VarintLen(b, offset) <= m
<1>1. Ends(b, offset) \subseteq 1 .. 5
  BY DEF Ends, MaxVarintBytes
<1>2. ASSUME Ends(b, offset) # {}
      PROVE  \E n \in Ends(b, offset) : \A m \in Ends(b, offset) : n <= m
  <2>1. CASE 1 \in Ends(b, offset)
    BY <1>1, <2>1
  <2>2. CASE 1 \notin Ends(b, offset) /\ 2 \in Ends(b, offset)
    BY <1>1, <2>2
  <2>3. CASE 1 \notin Ends(b, offset) /\ 2 \notin Ends(b, offset) /\ 3 \in Ends(b, offset)
    BY <1>1, <2>3
  <2>4. CASE Ends(b, offset) \subseteq {4, 5}
    <3>1. CASE 4 \in Ends(b, offset)
      BY <2>4, <3>1
    <3>2. CASE 4 \notin Ends(b, offset)
      BY <1>2, <2>4, <3>2
    <3>3. QED
      BY <3>1, <3>2
  <2>5. QED
    BY <1>1, <2>1, <2>2, <2>3, <2>4
<1>3. VarintLen(b, offset) =
        IF Ends(b, offset) = {} THEN 0
        ELSE CHOOSE n \in Ends(b, offset) : \A m \in Ends(b, offset) : n <= m
  BY DEF VarintLen, Ends
<1>4. QED
  BY <1>1, <1>2, <1>3 DEF MaxVarintBytes

\* Its value: the low 28 bits and the top 4.
LEMMA VarintType ==
    ASSUME NEW b \in Seq(Bytes), NEW offset \in Nat
    PROVE  LET v == read_varint(b, offset)
           IN  /\ v.ok <=> v.n # 0
               /\ v.n \in 0 .. MaxVarintBytes /\ v.n = VarintLen(b, offset)
               /\ v.low \in Nat /\ v.top \in 0 .. 15
               /\ v.ok => offset + v.n <= Len(b)
<1>1. \A i \in 1 .. 5 : Part(b, offset, i) \in Nat
  <2>1. SUFFICES ASSUME NEW i \in 1 .. 5, i <= VarintLen(b, offset)
                 PROVE  Segment(b[offset + i]) \in Nat
    BY DEF Part
  <2>2. offset + i \in 1 .. Len(b)
    BY <2>1, VarintEnds DEF Ends, MaxVarintBytes
  <2>3. b[offset + i] \in Nat
    <3>1. b[offset + i] \in Bytes
      BY <2>2
    <3>2. Bytes \subseteq Nat
      BY DEF Bytes
    <3>3. QED
      BY <3>1, <3>2
  <2>4. \A n \in Nat : n % 128 \in Nat
    OBVIOUS
  <2>5. QED
    BY <2>3, <2>4 DEF Segment
<1>2. Low(b, offset) \in Nat
  <2>1. /\ Part(b, offset, 1) \in Nat /\ Part(b, offset, 2) \in Nat
        /\ Part(b, offset, 3) \in Nat /\ Part(b, offset, 4) \in Nat
    BY <1>1
  <2>2. 2^7 \in Nat /\ 2^14 \in Nat /\ 2^21 \in Nat
    OBVIOUS
  <2>3. \A x, y \in Nat : x * y \in Nat
    OBVIOUS
  <2>4. /\ 2^7 * Part(b, offset, 2) \in Nat /\ 2^14 * Part(b, offset, 3) \in Nat
        /\ 2^21 * Part(b, offset, 4) \in Nat
    BY <2>1, <2>2, <2>3, Zenon
  <2> DEFINE p == Part(b, offset, 1)
             q == 2^7 * Part(b, offset, 2)
             r == 2^14 * Part(b, offset, 3)
             t == 2^21 * Part(b, offset, 4)
  <2>5. Low(b, offset) = p + q + r + t
    BY DEF Low
  <2>6. p \in Nat /\ q \in Nat /\ r \in Nat /\ t \in Nat
    BY <2>1, <2>4, Zenon
  <2> HIDE DEF p, q, r, t
  <2>7. p + q + r + t \in Nat
    BY <2>6
  <2>8. QED
    BY <2>5, <2>7, Zenon
<1>3. Top(b, offset) \in 0 .. 15
  <2>1. Part(b, offset, 5) \in Nat
    BY <1>1
  <2>2. \A n \in Nat : n % 16 \in 0 .. 15
    OBVIOUS
  <2>3. QED
    BY <2>1, <2>2, Zenon DEF Top
<1>4. VarintLen(b, offset) \in 0 .. MaxVarintBytes
  BY VarintEnds
<1>5. VarintLen(b, offset) # 0 => offset + VarintLen(b, offset) <= Len(b)
  BY VarintEnds DEF Ends
<1>6. VarintLen(b, offset) > 0 <=> VarintLen(b, offset) # 0
  BY <1>4 DEF MaxVarintBytes
<1>7. /\ read_varint(b, offset).ok <=> VarintLen(b, offset) > 0
      /\ read_varint(b, offset).n = VarintLen(b, offset)
      /\ read_varint(b, offset).low = Low(b, offset)
      /\ read_varint(b, offset).top = Top(b, offset)
  BY DEF read_varint
<1>8. QED
  BY <1>2, <1>3, <1>4, <1>5, <1>6, <1>7, Zenon

\* w is the bytes of b from one offset up to another.
IsPart(w, b, from, upto) ==
    /\ from \in Nat /\ upto \in Nat /\ from <= upto /\ upto <= Len(b)
    /\ w = SubSeq(b, from + 1, upto)

LEMMA PartOf ==
    ASSUME NEW b \in Seq(Bytes), NEW from \in Nat, NEW upto \in Nat, NEW w,
           IsPart(w, b, from, upto)
    PROVE  /\ w \in Seq(Bytes)
           /\ Len(w) = upto - from
           /\ \A i \in 1 .. Len(w) : w[i] = b[from + i]
<1>1. from \in Nat /\ upto \in Nat /\ from <= upto /\ upto <= Len(b) /\ Len(b) \in Nat
  BY DEF IsPart
<1>2. w = SubSeq(b, from + 1, upto)
  BY DEF IsPart
<1>3. \A i \in from + 1 .. upto : b[i] \in Bytes
  BY <1>1
<1>4. /\ w \in Seq(Bytes)
      /\ Len(w) = IF from + 1 <= upto THEN upto - (from + 1) + 1 ELSE 0
      /\ \A i \in 1 .. upto - (from + 1) + 1 : w[i] = b[from + 1 + i - 1]
  BY <1>1, <1>2, <1>3, SubSeqProperties
<1>5. Len(w) = upto - from
  BY <1>1, <1>4
<1>6. \A i \in 1 .. Len(w) : w[i] = b[from + i]
  <2>1. SUFFICES ASSUME NEW i \in 1 .. Len(w) PROVE w[i] = b[from + i]
    OBVIOUS
  <2>2. i \in 1 .. upto - (from + 1) + 1 /\ from + 1 + i - 1 = from + i
    BY <1>1, <1>5, <2>1
  <2>3. QED
    BY <1>4, <2>2
<1>7. QED
  BY <1>4, <1>5, <1>6

\* A VarInt that ends within a part of the bytes is read from it as from the whole.
LEMMA ReadFromPart ==
    ASSUME NEW b \in Seq(Bytes), NEW from \in Nat, NEW upto \in Nat, NEW offset \in Nat,
           NEW w, IsPart(w, b, from, upto),
           \/ VarintLen(w, offset) # 0
           \/ /\ VarintLen(b, from + offset) # 0
              /\ from + offset + VarintLen(b, from + offset) <= upto
    PROVE  read_varint(b, from + offset) = read_varint(w, offset)
<1>1. /\ w \in Seq(Bytes)
      /\ Len(w) = upto - from /\ from <= upto /\ upto <= Len(b)
      /\ \A i \in 1 .. Len(w) : w[i] = b[from + i]
  <2>1. from <= upto /\ upto <= Len(b)
    BY DEF IsPart
  <2>2. /\ w \in Seq(Bytes) /\ Len(w) = upto - from
        /\ \A i \in 1 .. Len(w) : w[i] = b[from + i]
    BY PartOf
  <2>3. QED
    BY <2>1, <2>2, Zenon
<1>2. \A n \in 1 .. MaxVarintBytes :
        n \in Ends(w, offset) <=> n \in Ends(b, from + offset) /\ from + offset + n <= upto
  <2>1. TAKE n \in 1 .. MaxVarintBytes
  <2>2. n \in Nat /\ n > 0
    BY DEF MaxVarintBytes
  <2>3. offset + n <= Len(w) <=> from + offset + n <= upto
    BY <1>1, <2>2
  <2>4. offset + n <= Len(w) => w[offset + n] = b[(from + offset) + n]
    <3>1. HAVE offset + n <= Len(w)
    <3>2. offset + n \in 1 .. Len(w)
      BY <3>1, <2>2, <1>1
    <3>3. from + (offset + n) = (from + offset) + n
      BY <2>2
    <3>4. QED
      BY <3>2, <3>3, <1>1
  <2>5. n \in Ends(w, offset) <=> offset + n <= Len(w) /\ ~Continues(w[offset + n])
    BY DEF Ends
  <2>6. n \in Ends(b, from + offset)
          <=> (from + offset) + n <= Len(b) /\ ~Continues(b[(from + offset) + n])
    BY DEF Ends
  <2>7. from + offset + n <= upto => (from + offset) + n <= Len(b)
    BY <1>1, <2>2
  <2>8. QED
    BY <2>3, <2>4, <2>5, <2>6, <2>7
<1>3. VarintLen(w, offset) = VarintLen(b, from + offset) /\ VarintLen(w, offset) # 0
  <2> DEFINE v == VarintLen(w, offset)
             u == VarintLen(b, from + offset)
  <2>1. /\ v \in 0 .. 5 /\ (v = 0 <=> Ends(w, offset) = {})
        /\ v # 0 => v \in Ends(w, offset) /\ \A m \in Ends(w, offset) : v <= m
    BY <1>1, VarintEnds DEF MaxVarintBytes
  <2>2. /\ u \in 0 .. 5 /\ (u = 0 <=> Ends(b, from + offset) = {})
        /\ u # 0 => u \in Ends(b, from + offset) /\ \A m \in Ends(b, from + offset) : u <= m
    BY VarintEnds DEF MaxVarintBytes
  <2>3. u # 0 /\ from + offset + u <= upto
    <3>1. CASE v # 0
      <4>1. v \in Ends(b, from + offset) /\ from + offset + v <= upto
        BY <3>1, <2>1, <1>2 DEF MaxVarintBytes
      <4>2. u # 0 /\ u <= v
        BY <4>1, <2>2
      <4>3. QED
        BY <4>1, <4>2, <2>1, <2>2
    <3>2. QED
      BY <3>1
  <2>4. u \in Ends(w, offset)
    BY <2>2, <2>3, <1>2 DEF MaxVarintBytes
  <2>5. v # 0 /\ v <= u
    BY <2>4, <2>1
  <2>6. v \in Ends(b, from + offset)
    BY <2>5, <2>1, <1>2 DEF MaxVarintBytes
  <2>7. u <= v
    BY <2>6, <2>2, <2>3
  <2>8. QED
    BY <2>1, <2>2, <2>5, <2>7
<1>4. \A i \in 1 .. MaxVarintBytes : Part(w, offset, i) = Part(b, from + offset, i)
  <2>1. SUFFICES ASSUME NEW i \in 1 .. MaxVarintBytes, i <= VarintLen(w, offset)
                 PROVE  w[offset + i] = b[(from + offset) + i]
    BY <1>3 DEF Part
  <2>2. offset + VarintLen(w, offset) <= Len(w) /\ VarintLen(w, offset) \in Nat
    <3>1. VarintLen(w, offset) \in Ends(w, offset)
      BY <1>1, <1>3, VarintEnds
    <3>2. QED
      BY <3>1 DEF Ends, MaxVarintBytes
  <2>3. offset + i \in 1 .. Len(w) /\ i \in Nat
    BY <1>1, <2>1, <2>2 DEF MaxVarintBytes
  <2>4. from + (offset + i) = (from + offset) + i
    BY <2>3
  <2>5. QED
    BY <1>1, <2>3, <2>4
<1>5. Low(w, offset) = Low(b, from + offset) /\ Top(w, offset) = Top(b, from + offset)
  BY <1>4 DEF Low, Top, MaxVarintBytes
<1>6. QED
  BY <1>3, <1>5 DEF read_varint

-----------------------------------------------------------------------------
(* The fields of a frame whose body starts at from.                         *)

LEMMA VarintBounds ==
    ASSUME NEW b \in Seq(Bytes), NEW offset \in Nat
    PROVE  /\ read_varint(b, offset).n \in Nat /\ read_varint(b, offset).low \in Nat
           /\ read_varint(b, offset).top \in 0 .. 15
<1>1. /\ read_varint(b, offset).n \in 0 .. MaxVarintBytes
      /\ read_varint(b, offset).low \in Nat /\ read_varint(b, offset).top \in 0 .. 15
  BY VarintType, Zenon
<1>2. \A n \in 0 .. MaxVarintBytes : n \in Nat
  BY DEF MaxVarintBytes
<1>3. QED
  BY <1>1, <1>2, Zenon

Id(b, from)       == read_varint(b, from)
Protocol(b, from) == read_varint(b, from + Id(b, from).n)
Address(b, from)  == read_varint(b, from + Id(b, from).n + Protocol(b, from).n)
PortAt(b, from)   ==
    Id(b, from).n + Protocol(b, from).n + Address(b, from).n + Address(b, from).low
State(b, from)    == read_varint(b, from + PortAt(b, from) + 2)

AllRead(b, from) ==
    Id(b, from).ok /\ Protocol(b, from).ok /\ Address(b, from).ok /\ State(b, from).ok

\* Where the last field ends.
End(b, from) == PortAt(b, from) + 2 + State(b, from).n

LEMMA FieldTypes ==
    ASSUME NEW b \in Seq(Bytes), NEW from \in Nat
    PROVE  /\ Id(b, from).n \in Nat /\ Protocol(b, from).n \in Nat
           /\ Address(b, from).n \in Nat /\ Address(b, from).low \in Nat
           /\ PortAt(b, from) \in Nat /\ State(b, from).n \in Nat
           /\ End(b, from) \in Nat
           /\ Id(b, from).top \in 0 .. 15 /\ Protocol(b, from).top \in 0 .. 15
           /\ Address(b, from).top \in 0 .. 15 /\ State(b, from).top \in 0 .. 15
           /\ Id(b, from).low \in Nat /\ State(b, from).low \in Nat
<1>1. /\ Id(b, from).n \in Nat /\ Id(b, from).top \in 0 .. 15 /\ Id(b, from).low \in Nat
  BY VarintBounds, Zenon DEF Id
<1>2. /\ Protocol(b, from).n \in Nat /\ Protocol(b, from).top \in 0 .. 15
  <2>1. from + Id(b, from).n \in Nat
    BY <1>1
  <2>2. QED
    BY <2>1, VarintBounds, Zenon DEF Protocol
<1>3. /\ Address(b, from).n \in Nat /\ Address(b, from).top \in 0 .. 15
      /\ Address(b, from).low \in Nat
  <2>1. from + Id(b, from).n + Protocol(b, from).n \in Nat
    BY <1>1, <1>2
  <2>2. QED
    BY <2>1, VarintBounds, Zenon DEF Address
<1>4. PortAt(b, from) \in Nat
  <2>1. \A p, q, r, t \in Nat : p + q + r + t \in Nat
    OBVIOUS
  <2>2. QED
    BY <1>1, <1>2, <1>3, <2>1, Zenon DEF PortAt
<1>5. /\ State(b, from).n \in Nat /\ State(b, from).top \in 0 .. 15
      /\ State(b, from).low \in Nat
  <2>0. \A p, q \in Nat : p + q + 2 \in Nat
    OBVIOUS
  <2>1. from + PortAt(b, from) + 2 \in Nat
    BY <1>4, <2>0, Zenon
  <2>2. QED
    BY <2>1, VarintBounds, Zenon DEF State
<1>6. End(b, from) \in Nat
  BY <1>4, <1>5 DEF End
<1>7. QED
  BY <1>1, <1>2, <1>3, <1>4, <1>5, <1>6

\* A body is read from a part of the bytes as from the whole, if it ends within it.
LEMMA BodyFromPart ==
    ASSUME NEW b \in Seq(Bytes), NEW from \in Nat, NEW upto \in Nat, NEW at \in Nat,
           NEW w, IsPart(w, b, from, upto),
           \/ AllRead(w, at)
           \/ AllRead(b, from + at) /\ from + at + End(b, from + at) <= upto
    PROVE  /\ Id(b, from + at) = Id(w, at)
           /\ Protocol(b, from + at) = Protocol(w, at)
           /\ Address(b, from + at) = Address(w, at)
           /\ PortAt(b, from + at) = PortAt(w, at)
           /\ State(b, from + at) = State(w, at)
<1> DEFINE start == from + at
<1>0. w \in Seq(Bytes) /\ start \in Nat
  BY PartOf
<1> HIDE DEF start
<1>1. SUFFICES ASSUME \/ AllRead(w, at)
                      \/ AllRead(b, start) /\ start + End(b, start) <= upto
               PROVE  /\ Id(b, start) = Id(w, at)
                      /\ Protocol(b, start) = Protocol(w, at)
                      /\ Address(b, start) = Address(w, at)
                      /\ PortAt(b, start) = PortAt(w, at)
                      /\ State(b, start) = State(w, at)
  BY DEF start
<1>2. \A offset \in Nat :
        \/ read_varint(w, offset).ok
        \/ /\ read_varint(b, from + offset).ok
           /\ from + offset + read_varint(b, from + offset).n <= upto
        => read_varint(b, from + offset) = read_varint(w, offset)
  <2>1. TAKE offset \in Nat
  <2>2. /\ read_varint(w, offset).ok => VarintLen(w, offset) # 0
        /\ read_varint(b, from + offset).ok => VarintLen(b, from + offset) # 0
        /\ read_varint(b, from + offset).n = VarintLen(b, from + offset)
    <3>1. from + offset \in Nat
      OBVIOUS
    <3>2. QED
      BY <1>0, <3>1, VarintType
  <2>3. CASE read_varint(w, offset).ok
    <3>1. VarintLen(w, offset) # 0
      BY <2>2, <2>3
    <3>2. read_varint(b, from + offset) = read_varint(w, offset)
      BY <3>1, ReadFromPart
    <3>3. QED
      BY <3>2
  <2>4. CASE /\ read_varint(b, from + offset).ok
             /\ from + offset + read_varint(b, from + offset).n <= upto
    <3>1. from + offset + VarintLen(b, from + offset) <= upto
      BY <2>2, <2>4
    <3>2. VarintLen(b, from + offset) # 0
      BY <2>2, <2>4
    <3>3. read_varint(b, from + offset) = read_varint(w, offset)
      BY <3>1, <3>2, ReadFromPart
    <3>4. QED
      BY <3>3
  <2>5. QED
    BY <2>3, <2>4
<1>3. /\ Id(b, start).n \in Nat /\ Protocol(b, start).n \in Nat
      /\ Address(b, start).n \in Nat /\ Address(b, start).low \in Nat
      /\ PortAt(b, start) \in Nat /\ State(b, start).n \in Nat
  BY <1>0, FieldTypes
<1>4. /\ Id(w, at).n \in Nat /\ Protocol(w, at).n \in Nat
      /\ Address(w, at).n \in Nat /\ Address(w, at).low \in Nat
      /\ PortAt(w, at) \in Nat /\ State(w, at).n \in Nat
  BY <1>0, FieldTypes
<1>5. \/ AllRead(w, at)
      \/ /\ AllRead(b, start)
         /\ start + PortAt(b, start) + 2 + State(b, start).n <= upto
  <2>1. start + End(b, start) = start + PortAt(b, start) + 2 + State(b, start).n
    <3> DEFINE port == PortAt(b, start)
               last == State(b, start).n
    <3>1. End(b, start) = port + 2 + last
      BY DEF End
    <3>2. port \in Nat /\ last \in Nat
      BY <1>3
    <3> HIDE DEF port, last
    <3>3. start + (port + 2 + last) = start + port + 2 + last
      BY <1>0, <3>2
    <3>4. QED
      BY <3>1, <3>3 DEF port, last
  <2>2. QED
    BY <1>1, <2>1
<1>6. Id(b, start) = Id(w, at)
  <2>1. Id(b, start).n <= PortAt(b, start)
    BY <1>3 DEF PortAt
  <2>2. Id(w, at).ok \/ (Id(b, start).ok /\ start + Id(b, start).n <= upto)
    <3>1. start + PortAt(b, start) + 2 + State(b, start).n <= upto
            => start + Id(b, start).n <= upto
      <4> DEFINE i == Id(b, start).n
                 port == PortAt(b, start)
                 last == State(b, start).n
      <4>1. i \in Nat /\ port \in Nat /\ last \in Nat /\ i <= port
        BY <1>3, <2>1
      <4> HIDE DEF i, port, last
      <4>2. start + port + 2 + last <= upto => start + i <= upto
        BY <1>0, <4>1
      <4>3. QED
        BY <4>2 DEF i, port, last
    <3>2. QED
      BY <1>5, <3>1 DEF AllRead
  <2>3. QED
    BY <1>2, <2>2 DEF Id, start
<1>7. Protocol(b, start) = Protocol(w, at)
  <2>1. Id(b, start).n + Protocol(b, start).n <= PortAt(b, start)
    BY <1>3 DEF PortAt
  <2>2. \/ Protocol(w, at).ok
        \/ Protocol(b, start).ok /\ start + Id(b, start).n + Protocol(b, start).n <= upto
    <3>1. start + PortAt(b, start) + 2 + State(b, start).n <= upto
            => start + Id(b, start).n + Protocol(b, start).n <= upto
      <4> DEFINE i == Id(b, start).n
                 p == Protocol(b, start).n
                 port == PortAt(b, start)
                 last == State(b, start).n
      <4>1. /\ i \in Nat /\ p \in Nat /\ port \in Nat /\ last \in Nat
            /\ i + p <= port
        BY <1>3, <2>1
      <4> HIDE DEF i, p, port, last
      <4>2. start + port + 2 + last <= upto => start + i + p <= upto
        BY <1>0, <4>1
      <4>3. QED
        BY <4>2 DEF i, p, port, last
    <3>2. QED
      BY <1>5, <3>1 DEF AllRead
  <2>3. at + Id(w, at).n \in Nat /\ from + (at + Id(w, at).n) = start + Id(b, start).n
    <3> DEFINE i == Id(w, at).n
    <3>1. i \in Nat /\ i = Id(b, start).n
      BY <1>4, <1>6
    <3> HIDE DEF i
    <3>2. at + i \in Nat /\ from + (at + i) = start + i
      BY <1>0, <3>1 DEF start
    <3>3. QED
      BY <3>1, <3>2 DEF i
  <2>4. QED
    BY <1>2, <2>2, <2>3 DEF Protocol
<1>8. Address(b, start) = Address(w, at)
  <2>1. Id(b, start).n + Protocol(b, start).n + Address(b, start).n <= PortAt(b, start)
    BY <1>3 DEF PortAt
  <2>2. \/ Address(w, at).ok
        \/ /\ Address(b, start).ok
           /\ start + Id(b, start).n + Protocol(b, start).n + Address(b, start).n <= upto
    <3>1. start + PortAt(b, start) + 2 + State(b, start).n <= upto
            => start + Id(b, start).n + Protocol(b, start).n + Address(b, start).n <= upto
      <4> DEFINE i == Id(b, start).n
                 p == Protocol(b, start).n
                 a == Address(b, start).n
                 port == PortAt(b, start)
                 last == State(b, start).n
      <4>1. /\ i \in Nat /\ p \in Nat /\ a \in Nat /\ port \in Nat /\ last \in Nat
            /\ i + p + a <= port
        BY <1>3, <2>1
      <4> HIDE DEF i, p, a, port, last
      <4>2. start + port + 2 + last <= upto => start + i + p + a <= upto
        BY <1>0, <4>1
      <4>3. QED
        BY <4>2 DEF i, p, a, port, last
    <3>2. QED
      BY <1>5, <3>1 DEF AllRead
  <2>3. /\ at + Id(w, at).n + Protocol(w, at).n \in Nat
        /\ from + (at + Id(w, at).n + Protocol(w, at).n)
              = start + Id(b, start).n + Protocol(b, start).n
    <3> DEFINE i == Id(w, at).n
               p == Protocol(w, at).n
    <3>1. i \in Nat /\ p \in Nat
      BY <1>4
    <3>2. i = Id(b, start).n /\ p = Protocol(b, start).n
      BY <1>6, <1>7
    <3> HIDE DEF i, p
    <3>3. at + i + p \in Nat /\ from + (at + i + p) = start + i + p
      BY <1>0, <3>1 DEF start
    <3>4. QED
      BY <3>2, <3>3 DEF i, p
  <2>4. QED
    BY <1>2, <2>2, <2>3 DEF Address
<1>9. PortAt(b, start) = PortAt(w, at)
  BY <1>6, <1>7, <1>8 DEF PortAt
<1>10. State(b, start) = State(w, at)
  <2>1. \/ State(w, at).ok
        \/ State(b, start).ok /\ start + PortAt(b, start) + 2 + State(b, start).n <= upto
    BY <1>5 DEF AllRead
  <2>2. /\ at + PortAt(w, at) + 2 \in Nat
        /\ from + (at + PortAt(w, at) + 2) = start + PortAt(b, start) + 2
    <3>1. \A port \in Nat : /\ at + port + 2 \in Nat
                            /\ from + (at + port + 2) = from + at + port + 2
      OBVIOUS
    <3>2. QED
      BY <1>4, <1>9, <3>1, Zenon DEF start
  <2>3. QED
    BY <1>2, <2>1, <2>2 DEF State
<1>11. QED
  BY <1>6, <1>7, <1>8, <1>9, <1>10

-----------------------------------------------------------------------------
(* What check_handshake accepts, in terms of those fields.                  *)

WellFormed(b, from, size) ==
    /\ AllRead(b, from)
    /\ Is(Id(b, from), 0)
    /\ AtMost(Address(b, from), MaxAddress)
    /\ AtMost(State(b, from), 3) /\ ~Is(State(b, from), 0)
    /\ End(b, from) = size

\* Below 2^10 masking a length changes nothing, and fields that end where the frame
\* does are all within the packet when the frame is.
LEMMA CheckMeans ==
    ASSUME NEW b \in Seq(Bytes), NEW n \in Nat, n <= Len(b)
    PROVE  check_handshake(b, n) <=>
               /\ Prefix(b).ok
               /\ FrameFits(Prefix(b), n)
               /\ WellFormed(b, Prefix(b).n, Prefix(b).low)
<1> DEFINE frame == Prefix(b)
           body  == frame.n
           masked == Id(b, body).n + Protocol(b, body).n + Address(b, body).n
                        + (Address(b, body).low % AddressLenModulus)
           next  == read_varint(b, body + masked + 2)
<1>1. check_handshake(b, n) <=>
        /\ frame.ok /\ FrameFits(frame, n)
        /\ Id(b, body).ok /\ Is(Id(b, body), 0)
        /\ Protocol(b, body).ok
        /\ Address(b, body).ok /\ AtMost(Address(b, body), MaxAddress)
        /\ body + masked + 1 < Len(b)
        /\ next.ok /\ AtMost(next, 3) /\ ~Is(next, 0)
        /\ AddsUp(masked + 2 + next.n, frame)
  BY DEF check_handshake, Prefix, Id, Protocol, Address
<1>2. frame.n \in Nat /\ frame.low \in Nat
  <2>1. 0 \in Nat
    OBVIOUS
  <2>2. QED
    BY <2>1, VarintType DEF Prefix, MaxVarintBytes
<1>3. /\ Id(b, body).n \in Nat /\ Protocol(b, body).n \in Nat /\ Address(b, body).n \in Nat
      /\ Address(b, body).low \in Nat /\ PortAt(b, body) \in Nat /\ State(b, body).n \in Nat
  BY <1>2, FieldTypes
<1>4. CASE ~AtMost(Address(b, body), MaxAddress)
  BY <1>1, <1>4 DEF WellFormed
<1>5. CASE AtMost(Address(b, body), MaxAddress)
  <2>1. Address(b, body).low % AddressLenModulus = Address(b, body).low
    <3> DEFINE low == Address(b, body).low
    <3>1. low \in Nat /\ low <= MaxAddress
      BY <1>3, <1>5 DEF AtMost
    <3> HIDE DEF low
    <3>2. low <= 1023
      BY <3>1, AddressAssumption DEF AddressLenModulus
    <3>3. low % 1024 = low
      BY <3>1, <3>2
    <3>4. QED
      BY <3>3 DEF low, AddressLenModulus
  <2>2. masked = PortAt(b, body) /\ next = State(b, body)
    BY <2>1 DEF PortAt, State
  <2>3. masked + 2 + next.n = End(b, body)
    BY <2>2 DEF End
  <2>4. FrameFits(frame, n) /\ State(b, body).ok /\ AddsUp(masked + 2 + next.n, frame)
          => body + masked + 1 < Len(b)
    <3>1. SUFFICES ASSUME FrameFits(frame, n), AddsUp(masked + 2 + next.n, frame)
                   PROVE  body + masked + 1 < Len(b)
      OBVIOUS
    <3>2. frame.n + frame.low <= n
      BY <3>1 DEF FrameFits
    <3>3. PortAt(b, body) + 2 + State(b, body).n = frame.low
      BY <3>1, <2>2 DEF AddsUp
    <3>4. body + PortAt(b, body) + 1 < Len(b)
      <4> DEFINE port == PortAt(b, body)
                 last == State(b, body).n
                 low == frame.low
                 n0 == frame.n
      <4>1. /\ port \in Nat /\ last \in Nat /\ low \in Nat /\ n0 \in Nat
            /\ n0 + low <= n /\ port + 2 + last = low
        BY <1>2, <1>3, <3>2, <3>3
      <4> HIDE DEF port, last, low, n0
      <4>2. n0 + port + 1 < Len(b)
        BY <4>1
      <4>3. QED
        BY <4>2 DEF port, n0
    <3>5. QED
      BY <3>4, <2>2
  <2>5. QED
    BY <1>1, <2>2, <2>3, <2>4 DEF WellFormed, AllRead, AddsUp
<1>6. QED
  BY <1>4, <1>5

LEMMA PrefixType ==
    ASSUME NEW b \in Seq(Bytes)
    PROVE  /\ Prefix(b).ok <=> VarintLen(b, 0) # 0
           /\ Prefix(b).n = VarintLen(b, 0) /\ Prefix(b).n \in Nat
           /\ Prefix(b).low \in Nat /\ Prefix(b).top \in 0 .. 15
           /\ FrameEnd(b) \in Nat /\ Prefix(b).n <= FrameEnd(b)
<1>1. 0 \in Nat
  OBVIOUS
<1>2. /\ Prefix(b).ok <=> VarintLen(b, 0) # 0
      /\ Prefix(b).n = VarintLen(b, 0) /\ Prefix(b).n \in Nat
      /\ Prefix(b).low \in Nat /\ Prefix(b).top \in 0 .. 15
  BY <1>1, VarintType DEF Prefix, MaxVarintBytes
<1>3. QED
  BY <1>2 DEF FrameEnd

\* The heart of it: what lies behind the declared length is not looked at.
LEMMA DeclaredOnly ==
    ASSUME NEW b \in Seq(Bytes), NEW n \in 0 .. Len(b), NEW w, w = SubSeq(b, 1, n)
    PROVE  check_handshake(b, n) <=> check_handshake(w, n)
<1>1. IsPart(w, b, 0, n)
  BY DEF IsPart
<1>2. w \in Seq(Bytes) /\ Len(w) = n /\ n \in Nat /\ n <= Len(b) /\ n <= Len(w)
  <2>1. n \in Nat /\ n <= Len(b) /\ n - 0 = n
    OBVIOUS
  <2>2. w \in Seq(Bytes) /\ Len(w) = n
    BY <1>1, <2>1, PartOf
  <2>3. QED
    BY <2>1, <2>2
<1>3. 0 \in Nat
  OBVIOUS
<1>4. /\ Prefix(b).n \in Nat /\ Prefix(b).low \in Nat
      /\ Prefix(w).n \in Nat /\ Prefix(w).low \in Nat
      /\ Prefix(b).ok <=> VarintLen(b, 0) # 0
      /\ Prefix(w).ok <=> VarintLen(w, 0) # 0
      /\ Prefix(b).n = VarintLen(b, 0)
  BY <1>2, PrefixType
<1>5. \/ Prefix(w).ok
      \/ Prefix(b).ok /\ Prefix(b).n <= n
      => Prefix(b) = Prefix(w)
  <2>1. SUFFICES ASSUME \/ VarintLen(w, 0) # 0
                        \/ VarintLen(b, 0 + 0) # 0 /\ 0 + 0 + VarintLen(b, 0 + 0) <= n
                 PROVE  read_varint(b, 0 + 0) = read_varint(w, 0)
    BY <1>4 DEF Prefix
  <2>2. QED
    BY <1>1, <1>2, <1>3, <2>1, ReadFromPart
<1>6. ASSUME NEW at \in Nat, NEW size \in Nat, at + size <= n
      PROVE  WellFormed(b, at, size) <=> WellFormed(w, at, size)
  <2>1. 0 + at = at
    OBVIOUS
  <2>2. AllRead(w, at) \/ (AllRead(b, at) /\ at + End(b, at) <= n)
          => /\ Id(b, at) = Id(w, at)
             /\ Protocol(b, at) = Protocol(w, at)
             /\ Address(b, at) = Address(w, at)
             /\ PortAt(b, at) = PortAt(w, at)
             /\ State(b, at) = State(w, at)
    BY <1>1, <1>2, <1>3, <2>1, BodyFromPart
  <2>3. WellFormed(b, at, size) => AllRead(b, at) /\ at + End(b, at) <= n
    BY <1>6 DEF WellFormed
  <2>4. WellFormed(w, at, size) => AllRead(w, at)
    BY DEF WellFormed
  <2>5. QED
    BY <2>2, <2>3, <2>4 DEF WellFormed, AllRead, End
<1>7. check_handshake(b, n) => check_handshake(w, n)
  <2>1. SUFFICES ASSUME check_handshake(b, n)
                 PROVE  check_handshake(w, n)
    OBVIOUS
  <2>2. /\ Prefix(b).ok /\ FrameFits(Prefix(b), n)
        /\ WellFormed(b, Prefix(b).n, Prefix(b).low)
    BY <1>2, <2>1, CheckMeans
  <2>3. Prefix(b).n + Prefix(b).low <= n
    BY <2>2 DEF FrameFits
  <2>4. Prefix(b) = Prefix(w)
    BY <1>2, <1>4, <1>5, <2>2, <2>3
  <2>5. WellFormed(w, Prefix(b).n, Prefix(b).low)
    BY <1>4, <1>6, <2>2, <2>3
  <2>6. QED
    BY <1>2, <2>2, <2>4, <2>5, CheckMeans
<1>8. check_handshake(w, n) => check_handshake(b, n)
  <2>1. SUFFICES ASSUME check_handshake(w, n)
                 PROVE  check_handshake(b, n)
    OBVIOUS
  <2>2. /\ Prefix(w).ok /\ FrameFits(Prefix(w), n)
        /\ WellFormed(w, Prefix(w).n, Prefix(w).low)
    BY <1>2, <2>1, CheckMeans
  <2>3. Prefix(w).n + Prefix(w).low <= n
    BY <2>2 DEF FrameFits
  <2>4. Prefix(b) = Prefix(w)
    BY <1>5, <2>2
  <2>5. WellFormed(b, Prefix(w).n, Prefix(w).low)
    BY <1>4, <1>6, <2>2, <2>3
  <2>6. QED
    BY <1>2, <2>2, <2>4, <2>5, CheckMeans
<1>9. QED
  BY <1>7, <1>8

-----------------------------------------------------------------------------
(* What parse_handshake says, in terms of the same fields.                  *)

LEMMA FieldsOfBody ==
    ASSUME NEW b \in Seq(Bytes)
    PROVE  /\ Id(b, 0) = read_varint(b, 0)
           /\ Protocol(b, 0) = read_varint(b, Id(b, 0).n)
           /\ Address(b, 0) = read_varint(b, Id(b, 0).n + Protocol(b, 0).n)
           /\ State(b, 0) = read_varint(b, PortAt(b, 0) + 2)
           /\ AddressLen(b) = Address(b, 0)
           /\ NextState(b) = State(b, 0)
<1>1. 0 \in Nat
  OBVIOUS
<1>2. /\ Id(b, 0).n \in Nat /\ Protocol(b, 0).n \in Nat /\ PortAt(b, 0) \in Nat
  BY <1>1, FieldTypes
<1>3. /\ 0 + Id(b, 0).n = Id(b, 0).n
      /\ 0 + PortAt(b, 0) + 2 = PortAt(b, 0) + 2
  BY <1>2
<1>4. Id(b, 0) = read_varint(b, 0)
  BY DEF Id
<1>5. Protocol(b, 0) = read_varint(b, Id(b, 0).n)
  BY <1>3 DEF Protocol
<1>6. Address(b, 0) = read_varint(b, Id(b, 0).n + Protocol(b, 0).n)
  BY <1>3 DEF Address
<1>7. State(b, 0) = read_varint(b, PortAt(b, 0) + 2)
  BY <1>3 DEF State
<1>8. AddressLen(b) = Address(b, 0)
  BY <1>4, <1>5, <1>6 DEF AddressLen
<1>9. NextState(b) = State(b, 0)
  BY <1>4, <1>5, <1>7, <1>8 DEF NextState, PortAt
<1>10. QED
  BY <1>4, <1>5, <1>6, <1>7, <1>8, <1>9

LEMMA ParseMeans ==
    ASSUME NEW b \in Seq(Bytes)
    PROVE  LET port == PortAt(b, 0)
               text == Id(b, 0).n + Protocol(b, 0).n + Address(b, 0).n
           IN  parse_handshake(b) =
                 IF ~Id(b, 0).ok THEN VarintError(b, 0)
                 ELSE IF ~Is(Id(b, 0), 0) THEN "WrongPacketId"
                 ELSE IF ~Protocol(b, 0).ok THEN VarintError(b, Id(b, 0).n)
                 ELSE IF ~Address(b, 0).ok THEN VarintError(b, Id(b, 0).n + Protocol(b, 0).n)
                 ELSE IF Negative(Address(b, 0)) THEN "NegativeLength"
                 ELSE IF Address(b, 0).top > 0 \/ port > Len(b) THEN "UnexpectedEof"
                 ELSE IF ~IsUtf8(SubSeq(b, text + 1, port)) THEN "InvalidUtf8"
                 ELSE IF port + 2 > Len(b) THEN "UnexpectedEof"
                 ELSE IF ~State(b, 0).ok THEN VarintError(b, port + 2)
                 ELSE IF Len(b) > port + 2 + State(b, 0).n THEN "TrailingBytes"
                 ELSE IF ~(Is(State(b, 0), 1) \/ Is(State(b, 0), 2)) THEN "InvalidNextState"
                 ELSE "Ok"
BY FieldsOfBody, Zenon DEF parse_handshake, PortAt

\* What the parser accepts is a body that ends with its last field.
LEMMA ParsedBody ==
    ASSUME NEW b \in Seq(Bytes), parse_handshake(b) = "Ok"
    PROVE  /\ AllRead(b, 0) /\ Is(Id(b, 0), 0)
           /\ Address(b, 0).top = 0
           /\ End(b, 0) = Len(b) /\ Len(b) > 0
           /\ Is(State(b, 0), 1) \/ Is(State(b, 0), 2)
<1>1. 0 \in Nat
  OBVIOUS
<1>2. /\ PortAt(b, 0) \in Nat /\ State(b, 0).n \in Nat /\ Address(b, 0).top \in 0 .. 15
  BY <1>1, FieldTypes
<1>3. \A at : VarintError(b, at) # "Ok"
  BY DEF VarintError
<1>4. /\ Id(b, 0).ok /\ Is(Id(b, 0), 0) /\ Protocol(b, 0).ok /\ Address(b, 0).ok
      /\ ~(Address(b, 0).top > 0)
      /\ State(b, 0).ok
      /\ ~(Len(b) > PortAt(b, 0) + 2 + State(b, 0).n)
      /\ Is(State(b, 0), 1) \/ Is(State(b, 0), 2)
  BY <1>3, ParseMeans
<1>5. PortAt(b, 0) + 2 + State(b, 0).n <= Len(b)
  <2> DEFINE at == PortAt(b, 0) + 2
  <2>1. at \in Nat
    BY <1>2
  <2>2. State(b, 0) = read_varint(b, at)
    BY FieldsOfBody
  <2> HIDE DEF at
  <2>3. read_varint(b, at).ok => at + read_varint(b, at).n <= Len(b)
    BY <2>1, VarintType, Zenon
  <2>4. at + State(b, 0).n <= Len(b)
    BY <1>4, <2>2, <2>3, Zenon
  <2>5. QED
    BY <2>4 DEF at
<1>6. Address(b, 0).top = 0
  BY <1>2, <1>4
<1>7. End(b, 0) = Len(b) /\ Len(b) > 0
  <2> DEFINE port == PortAt(b, 0)
             last == State(b, 0).n
             size == Len(b)
  <2>1. /\ port \in Nat /\ last \in Nat /\ size \in Nat
        /\ ~(size > port + 2 + last) /\ port + 2 + last <= size
    BY <1>2, <1>4, <1>5
  <2> HIDE DEF port, last, size
  <2>2. port + 2 + last = size /\ size > 0
    BY <2>1
  <2>3. QED
    BY <2>2 DEF End, port, last, size
<1>8. QED
  BY <1>4, <1>6, <1>7 DEF AllRead

\* What keeps a body of such fields from being accepted.
LEMMA WholeBody ==
    ASSUME NEW b \in Seq(Bytes), AllRead(b, 0), Is(Id(b, 0), 0), Address(b, 0).top = 0,
           End(b, 0) = Len(b)
    PROVE  parse_handshake(b) \in
               {"InvalidUtf8",
                IF Is(State(b, 0), 1) \/ Is(State(b, 0), 2) THEN "Ok" ELSE "InvalidNextState"}
<1>1. 0 \in Nat
  OBVIOUS
<1>2. PortAt(b, 0) \in Nat /\ State(b, 0).n \in Nat
  BY <1>1, FieldTypes
<1>3. /\ ~Negative(Address(b, 0)) /\ ~(Address(b, 0).top > 0)
  BY DEF Negative
<1>4. /\ ~(PortAt(b, 0) > Len(b)) /\ ~(PortAt(b, 0) + 2 > Len(b))
      /\ ~(Len(b) > PortAt(b, 0) + 2 + State(b, 0).n)
  BY <1>2 DEF End
<1>5. QED
  BY <1>3, <1>4, ParseMeans DEF AllRead

-----------------------------------------------------------------------------
(* The properties, for every packet.                                        *)

LEMMA DeclaredIs ==
    ASSUME TypeOK
    PROVE  /\ mem \in Seq(Bytes) /\ len \in Nat /\ len <= Len(mem)
           /\ Declared \in Seq(Bytes) /\ Len(Declared) = len
<1>1. mem \in Seq(Bytes) /\ len \in Nat /\ len <= Len(mem)
  BY DEF TypeOK
<1>2. IsPart(Declared, mem, 0, len) /\ len - 0 = len
  BY <1>1 DEF IsPart, Declared
<1>3. QED
  BY <1>1, <1>2, PartOf

LEMMA NoPayloadInPadding ==
    ASSUME TypeOK
    PROVE  PaddingIsNotPayload
<1>1. mem \in Seq(Bytes) /\ len \in 0 .. Len(mem)
  BY DEF TypeOK
<1>2. check_handshake(mem, len) <=> check_handshake(Declared, len)
  BY <1>1, DeclaredOnly DEF Declared
<1>3. check_handshake(mem, len) \in BOOLEAN /\ check_handshake(Declared, len) \in BOOLEAN
  BY DEF check_handshake
<1>4. QED
  BY <1>2, <1>3 DEF PaddingIsNotPayload

LEMMA WholeFramesOnly ==
    ASSUME TypeOK
    PROVE  OnlyWholeFrames
<1>1. SUFFICES ASSUME check_handshake(mem, len), NEW m \in 0 .. len
               PROVE  check_handshake(SubSeq(mem, 1, m), m) <=> m >= FrameEnd(mem)
  BY DEF OnlyWholeFrames
<1>2. mem \in Seq(Bytes) /\ len \in Nat /\ len <= Len(mem)
  BY DeclaredIs
<1>3. m \in 0 .. Len(mem) /\ m \in Nat /\ m <= Len(mem)
  BY <1>2
<1>4. check_handshake(SubSeq(mem, 1, m), m) <=> check_handshake(mem, m)
  BY <1>2, <1>3, DeclaredOnly
<1>5. /\ Prefix(mem).ok /\ FrameFits(Prefix(mem), len)
      /\ WellFormed(mem, Prefix(mem).n, Prefix(mem).low)
  BY <1>1, <1>2, CheckMeans
<1>6. check_handshake(mem, m) <=> FrameFits(Prefix(mem), m)
  BY <1>2, <1>3, <1>5, CheckMeans
<1>7. FrameFits(Prefix(mem), m) <=> FrameEnd(mem) <= m
  BY <1>5 DEF FrameFits, FrameEnd
<1>8. FrameEnd(mem) <= m <=> m >= FrameEnd(mem)
  BY <1>2, <1>3, PrefixType
<1>9. QED
  BY <1>4, <1>6, <1>7, <1>8

LEMMA KernelAcceptsLess ==
    ASSUME TypeOK
    PROVE  DiffersOnPurpose
<1> DEFINE at   == Prefix(mem).n
           body == Body(mem)
<1>1. SUFFICES ASSUME check_handshake(mem, len)
               PROVE  \/ parse_handshake(body) \in {"Ok", "InvalidUtf8"}
                      \/ /\ parse_handshake(body) = "InvalidNextState"
                         /\ Is(NextState(body), 3)
  BY DEF DiffersOnPurpose
<1>2. mem \in Seq(Bytes) /\ len \in Nat /\ len <= Len(mem)
  BY DeclaredIs
<1>3. /\ FrameFits(Prefix(mem), len)
      /\ WellFormed(mem, at, Prefix(mem).low)
  BY <1>1, <1>2, CheckMeans
<1>4. /\ at \in Nat /\ Prefix(mem).low \in Nat /\ FrameEnd(mem) = at + Prefix(mem).low
  BY <1>2, PrefixType DEF FrameEnd
<1>5. IsPart(body, mem, at, FrameEnd(mem))
  <2>1. FrameEnd(mem) <= Len(mem) /\ at <= FrameEnd(mem) /\ FrameEnd(mem) \in Nat
    BY <1>2, <1>3, <1>4 DEF FrameFits
  <2>2. QED
    BY <1>4, <2>1 DEF IsPart, Body
<1>6. body \in Seq(Bytes) /\ Len(body) = Prefix(mem).low
  <2>1. body \in Seq(Bytes) /\ Len(body) = FrameEnd(mem) - at
    <3>1. FrameEnd(mem) \in Nat /\ at \in Nat /\ mem \in Seq(Bytes)
      BY <1>2, <1>4, PrefixType
    <3>2. QED
      BY <1>5, <3>1, PartOf
  <2>2. QED
    BY <1>4, <2>1
<1>7. /\ Id(mem, at) = Id(body, 0)
      /\ Protocol(mem, at) = Protocol(body, 0)
      /\ Address(mem, at) = Address(body, 0)
      /\ PortAt(mem, at) = PortAt(body, 0)
      /\ State(mem, at) = State(body, 0)
  <2>1. at + 0 = at /\ 0 \in Nat
    BY <1>4
  <2>2. AllRead(mem, at + 0) /\ at + 0 + End(mem, at + 0) <= FrameEnd(mem)
    BY <1>3, <1>4, <2>1 DEF WellFormed
  <2>3. FrameEnd(mem) \in Nat
    BY <1>4
  <2> HIDE DEF at, body
  <2>4. QED
    BY <1>2, <1>4, <1>5, <2>1, <2>2, <2>3, BodyFromPart
<1>8. /\ AllRead(body, 0) /\ Is(Id(body, 0), 0) /\ Address(body, 0).top = 0
      /\ End(body, 0) = Len(body)
      /\ AtMost(State(body, 0), 3) /\ ~Is(State(body, 0), 0)
  BY <1>3, <1>6, <1>7 DEF WellFormed, AllRead, End, AtMost
<1>9. \/ Is(State(body, 0), 1) \/ Is(State(body, 0), 2)
      \/ Is(State(body, 0), 3)
  <2>1. 0 \in Nat /\ State(body, 0).low \in Nat
    BY <1>6, FieldTypes
  <2>2. QED
    BY <1>8, <2>1 DEF AtMost, Is
<1>10. NextState(body) = State(body, 0)
  BY <1>6, FieldsOfBody
<1>11. parse_handshake(body) \in
          {"InvalidUtf8",
           IF Is(State(body, 0), 1) \/ Is(State(body, 0), 2) THEN "Ok" ELSE "InvalidNextState"}
  BY <1>6, <1>8, WholeBody
<1>12. QED
  BY <1>9, <1>10, <1>11

LEMMA ParserAcceptsMore ==
    ASSUME TypeOK
    PROVE  AcceptsHandshakes
<1> DEFINE d    == Declared
           at   == Prefix(d).n
           body == Body(d)
<1>1. SUFFICES ASSUME HasFrame(d), parse_handshake(body) = "Ok",
                      AtMost(AddressLen(body), MaxAddress), ~(Len(body) > MaxHandshakeLen)
               PROVE  check_handshake(mem, len)
  BY DEF AcceptsHandshakes
<1>2. d \in Seq(Bytes) /\ Len(d) = len /\ len \in Nat
  BY DeclaredIs
<1>3. /\ at \in Nat /\ Prefix(d).low \in Nat /\ FrameEnd(d) = at + Prefix(d).low
  BY <1>2, PrefixType DEF FrameEnd
<1>4. /\ Prefix(d).ok /\ Prefix(d).top = 0 /\ FrameEnd(d) <= len
  BY <1>1, <1>2 DEF HasFrame
<1>5. IsPart(body, d, at, FrameEnd(d))
  <2>1. FrameEnd(d) <= Len(d) /\ at <= FrameEnd(d) /\ FrameEnd(d) \in Nat
    BY <1>2, <1>3, <1>4
  <2>2. QED
    BY <1>3, <2>1 DEF IsPart, Body
<1>6. body \in Seq(Bytes) /\ Len(body) = Prefix(d).low
  <2>1. body \in Seq(Bytes) /\ Len(body) = FrameEnd(d) - at
    <3>1. FrameEnd(d) \in Nat /\ at \in Nat
      BY <1>2, <1>3, PrefixType
    <3>2. QED
      BY <1>2, <1>5, <3>1, PartOf
  <2>2. QED
    BY <1>3, <2>1
<1>7. /\ AllRead(body, 0) /\ Is(Id(body, 0), 0)
      /\ End(body, 0) = Len(body) /\ Len(body) > 0
      /\ Is(State(body, 0), 1) \/ Is(State(body, 0), 2)
  BY <1>1, <1>6, ParsedBody
<1>8. /\ Id(d, at) = Id(body, 0)
      /\ Protocol(d, at) = Protocol(body, 0)
      /\ Address(d, at) = Address(body, 0)
      /\ PortAt(d, at) = PortAt(body, 0)
      /\ State(d, at) = State(body, 0)
  <2>1. at + 0 = at /\ 0 \in Nat /\ FrameEnd(d) \in Nat
    BY <1>3
  <2> HIDE DEF d, at, body
  <2>2. QED
    BY <1>2, <1>3, <1>5, <1>7, <2>1, BodyFromPart
<1>9. WellFormed(d, at, Prefix(d).low)
  <2>1. AtMost(Address(body, 0), MaxAddress)
    BY <1>1, <1>6, FieldsOfBody
  <2>2. AtMost(State(body, 0), 3) /\ ~Is(State(body, 0), 0)
    BY <1>7 DEF AtMost, Is
  <2>3. QED
    BY <1>6, <1>7, <1>8, <2>1, <2>2 DEF WellFormed, AllRead, End, AtMost
<1>10. FrameFits(Prefix(d), len)
  <2>1. MaxHandshakeLen \in Nat
    BY AddressAssumption DEF MaxHandshakeLen, AddressLenModulus
  <2>2. Prefix(d).low <= MaxHandshakeLen /\ Prefix(d).low > 0
    BY <1>1, <1>3, <1>6, <1>7, <2>1
  <2>3. QED
    BY <1>3, <1>4, <2>2 DEF FrameFits, AtMost, Is
<1>11. check_handshake(d, len)
  <2>1. len <= Len(d)
    BY <1>2
  <2>2. QED
    BY <1>2, <1>4, <1>9, <1>10, <2>1, CheckMeans
<1>12. check_handshake(mem, len) <=> check_handshake(d, len)
  <2>1. mem \in Seq(Bytes) /\ len \in 0 .. Len(mem) /\ d = SubSeq(mem, 1, len)
    BY DEF TypeOK, Declared
  <2> HIDE DEF d
  <2>2. QED
    BY <2>1, DeclaredOnly
<1>13. QED
  BY <1>11, <1>12

-----------------------------------------------------------------------------
(* Every state is such a packet.                                            *)

\* What is put together from bytes, cut and padded is bytes, and no more of them
\* are declared than there are.
LEMMA PacketsAlways == Spec => []TypeOK
<1>1. Init => TypeOK
  <2>1. SUFFICES ASSUME Init PROVE TypeOK
    OBVIOUS
  <2>2. PICK body \in Bodies, trailer \in Trailers :
           /\ mem \in {frame \o body \o trailer : frame \in FrameLens(Len(body))}
           /\ len = Len(mem)
    BY <2>1 DEF Init
  <2>3. PICK frame \in FrameLens(Len(body)) : mem = frame \o body \o trailer
    BY <2>2
  <2>4. frame \in Seq(Bytes) /\ body \in Seq(Bytes) /\ trailer \in Seq(Bytes)
    BY <2>2, <2>3, BytesAssumption
  <2>5. mem \in Seq(Bytes)
    BY <2>3, <2>4
  <2>6. QED
    BY <2>2, <2>5 DEF TypeOK
<1>2. TypeOK /\ [Next]_vars => TypeOK'
  <2>1. SUFFICES ASSUME TypeOK, [Next]_vars PROVE TypeOK'
    OBVIOUS
  <2>2. mem \in Seq(Bytes) /\ len \in Nat /\ len <= Len(mem)
    BY <2>1, DeclaredIs
  <2>3. CASE Split
    <3>1. Len(mem) > 0 /\ len = Len(mem)
      BY <2>2, <2>3 DEF Split
    <3>2. mem' = [i \in 1 .. Len(mem) - 1 |-> mem[i]]
      BY <2>2, <2>3, <3>1 DEF Split, Front
    <3>3. mem' \in Seq(Bytes) /\ Len(mem') = Len(mem) - 1
      BY <2>2, <3>1, <3>2
    <3>4. len' = len - 1
      BY <2>3 DEF Split
    <3>5. QED
      BY <2>2, <3>1, <3>3, <3>4 DEF TypeOK
  <2>4. CASE Declare
    BY <2>2, <2>4 DEF Declare, TypeOK
  <2>5. CASE Pad
    <3>1. mem' \in Seq(Bytes) /\ Len(mem') = Len(mem) + 1 /\ len' = len
      <4>1. 0 \in Bytes
        BY DEF Bytes
      <4>2. QED
        BY <2>2, <2>5, <4>1 DEF Pad
    <3>2. QED
      BY <2>2, <3>1 DEF TypeOK
  <2>6. CASE UNCHANGED vars
    BY <2>1, <2>6 DEF vars, TypeOK
  <2>7. QED
    BY <2>1, <2>3, <2>4, <2>5, <2>6 DEF Next
<1>3. QED
  BY <1>1, <1>2, PTL DEF Spec

\* What the kernel accepts the parser accepts, but for the differences minecraft.rs
\* names.
THEOREM DiffersOnPurposeAlways == Spec => []DiffersOnPurpose
<1>1. TypeOK => DiffersOnPurpose
  BY KernelAcceptsLess
<1>2. QED
  BY <1>1, PacketsAlways, PTL

\* What the parser accepts the kernel accepts, but for addresses and frames longer
\* than it allows.
THEOREM AcceptsHandshakesAlways == Spec => []AcceptsHandshakes
<1>1. TypeOK => AcceptsHandshakes
  BY ParserAcceptsMore
<1>2. QED
  BY <1>1, PacketsAlways, PTL

\* Bytes behind the declared payload never change the kernel's answer.
THEOREM PaddingIsNotPayloadAlways == Spec => []PaddingIsNotPayload
<1>1. TypeOK => PaddingIsNotPayload
  BY NoPayloadInPadding
<1>2. QED
  BY <1>1, PacketsAlways, PTL

\* The kernel accepts a payload as soon as its first frame is whole, and not before.
THEOREM OnlyWholeFramesAlways == Spec => []OnlyWholeFrames
<1>1. TypeOK => OnlyWholeFrames
  BY WholeFramesOnly
<1>2. QED
  BY <1>1, PacketsAlways, PTL
=============================================================================
