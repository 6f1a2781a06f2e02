------------------------------ MODULE XorName ------------------------------
(***************************************************************************)
(* Fixed-width XOR addresses.  The crate's xor_name module is not part of  *)
(* this repository's sources, so these operators follow the spec (section  *)
(* 3, "XorName").  A name is a tuple of XOR_NAME_BITS bits, bit 0 first    *)
(* (the most significant bit of the real 256-bit name).                    *)
(***************************************************************************)
EXTENDS Naturals, FiniteSets, FiniteSetsExt

CONSTANT XOR_NAME_BITS   \* width of a name; 256 in the crate, 3 or so here

ASSUME XOR_NAME_BITS \in Nat \ {0}

Bits == 0 .. XOR_NAME_BITS - 1

XorNames == [1 .. XOR_NAME_BITS -> {0, 1}]

\* The i-th bit of a name (0-based, most significant first).
Bit(name, i) == name[i + 1]

\* The name with bit i set to b; an index past the width leaves it unchanged.
WithBit(name, i, b) ==
    IF i \in Bits THEN [name EXCEPT ![i + 1] = b] ELSE name

WithFlippedBit(name, i) ==
    IF i \in Bits THEN WithBit(name, i, 1 - Bit(name, i)) ELSE name

\* Every bit from position k on replaced by b.
SetRemaining(name, k, b) ==
    [j \in 1 .. XOR_NAME_BITS |-> IF j > k THEN b ELSE name[j]]

\* Number of leading bits two names share.
CommonPrefix(a, b) ==
    IF a = b THEN XOR_NAME_BITS
    ELSE Min({i \in Bits : Bit(a, i) # Bit(b, i)})

\* XorName's Ord: lexicographic on the bits.
NameLess(a, b) == a # b /\ Bit(a, CommonPrefix(a, b)) = 0

\* XorName::cmp_distance(target, lhs, rhs): "LT" when lhs is closer to
\* target in the XOR metric.  The first bit where lhs and rhs differ decides:
\* the one agreeing with target there is closer.
CmpDistance(target, lhs, rhs) ==
    IF lhs = rhs THEN "EQ"
    ELSE LET i == CommonPrefix(lhs, rhs)
         IN  IF Bit(lhs, i) = Bit(target, i) THEN "LT" ELSE "GT"
=============================================================================
