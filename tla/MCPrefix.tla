------------------------------ MODULE MCPrefix -------------------------------
(***************************************************************************)
(* The prefix algebra of prefix.rs checked against reference definitions  *)
(* over every section prefix of a short name width and every set of them. *)
(* The state is an input (pfx, set); it never changes, so each reachable  *)
(* state is one test case and the invariants quantify over the rest.      *)
(***************************************************************************)
EXTENDS Prefix

VARIABLES pfx, set

\* The prefixes a section can have: shorter than a full name.
SectionPrefixes == {NewPrefix(k, n) : k \in 0 .. XOR_NAME_BITS - 1, n \in XorNames}

Init == pfx \in SectionPrefixes /\ set \in SUBSET SectionPrefixes

Next == UNCHANGED <<pfx, set>>

Spec == Init /\ [][Next]_<<pfx, set>>

\* is_covered_by, with its search cut at the longest prefix of the set,
\* decides exactly whether every name pfx matches is matched by the set
\* (the question targets() asks before routing to a PrefixSection).
IsCoveredByCorrect == IsCoveredBy(pfx, set) = CoveredByRef(pfx, set)

\* lower_bound and upper_bound bracket the names a prefix matches: a name
\* is matched exactly when it lies between them in XorName order (spec 8.5).
BoundsBracket ==
    \A n \in XorNames :
        Matches(pfx, n) <=> ~NameLess(n, LowerBound(pfx)) /\ ~NameLess(UpperBound(pfx), n)

\* Ord for Prefix, which mixes length (compatible prefixes) and name order
\* (the others), is a strict total order: neighbour_infos is a BTreeMap
\* keyed by it and compatible_neighbour_info returns its first match.
PrefixOrderTotal ==
    \A q, r \in SectionPrefixes :
        /\ ~PrefixLess(pfx, pfx)
        /\ pfx # q => (PrefixLess(pfx, q) \/ PrefixLess(q, pfx))
        /\ PrefixLess(pfx, q) /\ PrefixLess(q, r) => PrefixLess(pfx, r)

\* is_neighbour holds exactly when the two prefixes differ in one bit
\* within the shorter length, which check_and_clean_neighbour_infos uses to
\* keep only adjacent sections.
IsNeighbourCorrect ==
    \A q \in SectionPrefixes :
        LET len  == IF pfx.bit_count < q.bit_count THEN pfx.bit_count ELSE q.bit_count
            diff == {i \in 0 .. len - 1 : Bit(pfx.name, i) # Bit(q.name, i)}
        IN  IsNeighbour(pfx, q) <=> Cardinality(diff) = 1
=============================================================================
