-------------------------- MODULE MCHandshakeCheck --------------------------
(* Instances of HandshakeCheck for TLC: the fields the packets are made of. *)
EXTENDS HandshakeCheck, Integers

\* Encodings of n < 2^14: the shortest, one byte too long, and in five bytes with
\* a bit set that does not fit 32 bits.
Short(n)  == IF n < 128 THEN <<n>> ELSE <<128 + (n % 128), n \div 128>>
Padded(n) == <<128 + (n % 128), 128 + (n \div 128), 0>>
Wrapped(n) == <<128 + (n % 128), 128 + (n \div 128), 128, 128, 16>>

MinusOne     == <<255, 255, 255, 255, 15>>
Unterminated == <<128, 128, 128, 128, 128>>

Text(n) == [i \in 1 .. n |-> 97]

\* Every byte is ASCII in the addresses below, or 255, which UTF-8 never uses.
AsciiOnly(s) == \A i \in DOMAIN s : s[i] < 128

MCIds       == {Short(0), Wrapped(0), Short(1)}
MCProtocols == {Short(769), MinusOne, Unterminated}
MCNextStates == {Short(n) : n \in 0 .. 4} \cup {Padded(3), Wrapped(2), MinusOne}
MCAddresses ==
    { <<Short(0), Text(0)>>, <<Wrapped(1), Text(1)>>, <<Short(2), <<97, 255>>>>,
      <<Short(3), Text(3)>>, <<Padded(4), Text(4)>>,  \* MaxAddress is 3
      <<Short(2), Text(1)>>, <<Short(1), Text(2)>>,   \* says more, says less
      <<MinusOne, Text(1)>> }
MCFrameLens(n) == {Short(n - 1), Short(n), Wrapped(n), Short(n + 1), Short(0)}
MCTrailers == {<<>>, <<7, 128>>}
=============================================================================
