------------------------------- MODULE Prefix -------------------------------
(***************************************************************************)
(* Section prefixes (src/src/routing_table/prefix.rs).  A prefix is the    *)
(* record [bit_count, name]; name keeps the leading bit_count bits and is  *)
(* zero beyond them (the canonical form VersionedPrefix::new produces).    *)
(* The versioned wrapper only adds a u64 carried along unchanged, so the  *)
(* operations are stated on the plain record.                              *)
(***************************************************************************)
EXTENDS XorName

Prefixes == [bit_count : 0 .. XOR_NAME_BITS, name : XorNames]

\* VersionedPrefix::new: keep the first bit_count bits, saturating the count.
NewPrefix(bit_count, name) ==
    [bit_count |-> Min({bit_count, XOR_NAME_BITS}),
     name      |-> SetRemaining(name, bit_count, 0)]

RootPrefix == NewPrefix(0, [i \in 1 .. XOR_NAME_BITS |-> 0])

\* One more bit; the count saturates at XOR_NAME_BITS.
Pushed(p, bit) ==
    [bit_count |-> Min({p.bit_count + 1, XOR_NAME_BITS}),
     name      |-> WithBit(p.name, p.bit_count, bit)]

\* One bit fewer, with the dropped bit cleared; the empty prefix is kept.
Popped(p) ==
    IF p.bit_count > 0
    THEN [bit_count |-> p.bit_count - 1,
          name      |-> WithBit(p.name, p.bit_count - 1, 0)]
    ELSE p

PrefixWithFlippedBit(p, i) ==
    IF i >= p.bit_count THEN p
    ELSE NewPrefix(p.bit_count, WithFlippedBit(p.name, i))

Sibling(p) ==
    IF p.bit_count > 0 THEN PrefixWithFlippedBit(p, p.bit_count - 1) ELSE p

\* One of the two is a prefix of the other.
IsCompatible(p, q) ==
    LET i == CommonPrefix(p.name, q.name)
    IN  i >= p.bit_count \/ i >= q.bit_count

\* q is a strict prefix of p.
IsExtensionOf(p, q) ==
    LET i == CommonPrefix(p.name, q.name)
    IN  i >= q.bit_count /\ p.bit_count > q.bit_count

\* Mutant: the early "compatible prefixes are not neighbours" return dropped.
IsNeighbour_no_compat_check(p, q) ==
    LET i == CommonPrefix(p.name, q.name)
        j == CommonPrefix(WithFlippedBit(p.name, i), q.name)
    IN  j >= p.bit_count \/ j >= q.bit_count

\* p and q differ in exactly one bit within both counts.
IsNeighbour(p, q) ==
    LET i == CommonPrefix(p.name, q.name)
    IN  IF i >= p.bit_count \/ i >= q.bit_count THEN FALSE
        ELSE LET j == CommonPrefix(WithFlippedBit(p.name, i), q.name)
             IN  j >= p.bit_count \/ j >= q.bit_count

Matches(p, name) == CommonPrefix(p.name, name) >= p.bit_count

\* Prefix::cmp_distance: "LT" when p is closer to target than q.
PrefixCmpDistance(p, q, target) ==
    IF IsCompatible(p, q)
    THEN IF p.bit_count < q.bit_count THEN "LT"
         ELSE IF p.bit_count = q.bit_count THEN "EQ" ELSE "GT"
    ELSE LET a == CommonPrefix(q.name, target)
             b == CommonPrefix(p.name, target)
         IN  IF a < b THEN "LT" ELSE IF a = b THEN "EQ" ELSE "GT"

\* Mutant: prefixes ordered by name alone.
PrefixLess_by_name(p, q) == NameLess(p.name, q.name)

\* Ord for Prefix: compatible prefixes by length, others by name.
PrefixLess(p, q) ==
    IF IsCompatible(p, q) THEN p.bit_count < q.bit_count ELSE NameLess(p.name, q.name)

LowerBound(p) == SetRemaining(p.name, p.bit_count, 0)
\* Mutant: the bit count off by one.
UpperBound_off_by_one(p) == SetRemaining(p.name, p.bit_count + 1, 1)

UpperBound(p) == SetRemaining(p.name, p.bit_count, 1)

(***************************************************************************)
(* is_covered_by: either some prefix of the set is compatible with p and  *)
(* not longer, or both children are covered, searching no deeper than the *)
(* longest prefix of the set.  Pushed saturates at XOR_NAME_BITS, so a     *)
(* set holding a full-width prefix would recurse on p itself for ever; the *)
(* models keep every section prefix shorter than XOR_NAME_BITS, as the     *)
(* 256-bit network does, and the recursion then stops at max + 1.          *)
(***************************************************************************)
RECURSIVE IsCoveredByImpl(_, _, _)
IsCoveredByImpl(p, prefixes, max_prefix_len) ==
    \/ \E x \in prefixes : IsCompatible(x, p) /\ x.bit_count <= p.bit_count
    \/ /\ p.bit_count <= max_prefix_len
       /\ IsCoveredByImpl(Pushed(p, 0), prefixes, max_prefix_len)
       /\ IsCoveredByImpl(Pushed(p, 1), prefixes, max_prefix_len)

\* Mutant: the search depth left at the unwrap_or default.
IsCoveredBy_no_max(p, prefixes) == IsCoveredByImpl(p, prefixes, 0)

IsCoveredBy(p, prefixes) ==
    IsCoveredByImpl(p, prefixes,
                    IF prefixes = {} THEN 0
                    ELSE Max({x.bit_count : x \in prefixes}))

\* Reference: every name p matches is matched by some prefix of the set.
CoveredByRef(p, prefixes) ==
    \A n \in XorNames : Matches(p, n) => \E x \in prefixes : Matches(x, n)
=============================================================================
