----------------------------- MODULE ChainRouting -----------------------------
(***************************************************************************)
(* The routing queries of src/src/chain/chain.rs, read off the Chain      *)
(* state: all_sections, closest_section, closest_sections, targets (with  *)
(* its candidates closure), in_authority, and the smaller lookups.  They  *)
(* change nothing; they are operators on the `chain` record, evaluated in *)
(* every state the Chain model reaches, so the routing answers are       *)
(* checked against routing tables that splits, merges of neighbour       *)
(* updates and pruning really produce.                                    *)
(*                                                                         *)
(* A Vec of names sorted by distance is kept as a set: no property here   *)
(* depends on the order of the returned targets, only on which they are   *)
(* and on the delivery group size.                                        *)
(***************************************************************************)
EXTENDS Chain

CONSTANT Connected   \* the connected_peers passed to targets()

(***************************************************************************)
(* Authority: a uniform record; `prefix` is used by PrefixSection only.    *)
(***************************************************************************)
GroupKinds  == {"ClientManager", "NaeManager", "NodeManager", "Section"}
SingleKinds == {"ManagedNode", "Client"}

Authority(kind, name) == [kind |-> kind, name |-> name, prefix |-> RootPrefix]
PrefixSection(p)      == [kind |-> "PrefixSection", name |-> NoId, prefix |-> p]

delivery_group_size(n) == (n + 2) \div 3

\* all_sections: neighbour_infos and our own entry, as prefix -> SectionInfo.
all_sections(s) ==
    [p \in KnownPrefixes(s) |-> IF p = OurPrefix(s) THEN OurInfo(s) ELSE s.neighbour_infos[p]]

\* The neighbour_infos keys in BTreeMap (Ord) order.
NeighbourKeys(s) ==
    LET K == DOMAIN s.neighbour_infos
    IN  [i \in 1 .. Cardinality(K) |->
            CHOOSE p \in K : Cardinality({q \in K : PrefixLess(q, p)}) = i - 1]

\* get_section_legacy / has: the section whose prefix matches the name.
has(s, name) ==
    \/ Matches(OurPrefix(s), name) /\ name \in OurInfo(s).members
    \/ ~Matches(OurPrefix(s), name)
       /\ \E p \in DOMAIN s.neighbour_infos :
             Matches(p, name) /\ name \in s.neighbour_infos[p].members

\* Mutant: the operands of cmp_distance swapped, keeping the farther section.
RECURSIVE BestSectionSwapped(_, _, _, _)
BestSectionSwapped(s, name, best, i) ==
    IF i > Len(NeighbourKeys(s)) THEN best
    ELSE LET pfx == NeighbourKeys(s)[i]
         IN  BestSectionSwapped(s, name,
                 IF s.neighbour_infos[pfx].members # {} /\ PrefixCmpDistance(pfx, best, name) = "GT"
                 THEN pfx ELSE best, i + 1)

RECURSIVE BestSection(_, _, _, _)
BestSection(s, name, best, i) ==
    IF i > Len(NeighbourKeys(s)) THEN best
    ELSE LET pfx == NeighbourKeys(s)[i]
         IN  BestSection(s, name,
                 IF s.neighbour_infos[pfx].members # {} /\ PrefixCmpDistance(best, pfx, name) = "GT"
                 THEN pfx ELSE best, i + 1)

\* closest_section: start from ours and walk the neighbours in key order.
closest_section(s, name) == BestSection(s, name, OurPrefix(s), 1)

\* Ours first, then the neighbours in key order: the Vec closest_sections sorts.
SectionOrder(s) == <<OurPrefix(s)>> \o NeighbourKeys(s)

\* A stable sort of L: entry j goes before entry i.
StablyBefore(L, j, i, name) ==
    \/ PrefixCmpDistance(L[j], L[i], name) = "LT"
    \/ PrefixCmpDistance(L[j], L[i], name) = "EQ" /\ j < i

closest_sections(s, name) ==
    LET L == SectionOrder(s)
    IN  [k \in DOMAIN L |->
            L[CHOOSE i \in DOMAIN L :
                Cardinality({j \in DOMAIN L : StablyBefore(L, j, i, name)}) = k - 1]]

Routed(nodes, dg) == [ok |-> TRUE, nodes |-> nodes, dg |-> dg]
CannotRoute       == [ok |-> FALSE, nodes |-> {}, dg |-> 0]

\* The loop of candidates stops at the k-th section: ours, or the closest
\* one when its connected members alone make a delivery group.
CandidatesStop(s, secs, k) ==
    \/ secs[k] = OurPrefix(s)
    \/ /\ k = 1
       /\ Cardinality(all_sections(s)[secs[1]].members \cap Connected)
            >= delivery_group_size(Cardinality(all_sections(s)[secs[1]].members))

\* The candidates closure of targets: collect the connected members of the
\* closest sections until the loop stops; at our own section all of them,
\* less us, form the delivery group.
candidates(s, target) ==
    LET secs  == closest_sections(s, target)
        last  == CHOOSE k \in DOMAIN secs :
                     CandidatesStop(s, secs, k) /\ \A j \in 1 .. k - 1 : ~CandidatesStop(s, secs, j)
        found == UNION {all_sections(s)[secs[j]].members \cap Connected : j \in 1 .. last}
        nodes == IF secs[last] = OurPrefix(s) THEN found \ {OurId} ELSE found
        dg    == IF secs[last] = OurPrefix(s) THEN Cardinality(nodes)
                 ELSE delivery_group_size(Cardinality(all_sections(s)[secs[last]].members))
    IN  IF dg > 0 /\ Cardinality(nodes) >= dg THEN Routed(nodes, dg) ELSE CannotRoute

targets(s, dst) ==
    CASE dst.kind \in SingleKinds ->
            IF dst.name = OurId THEN Routed({}, 0)
            ELSE IF has(s, dst.name) /\ dst.name \in Connected THEN Routed({dst.name}, 1)
            ELSE candidates(s, dst.name)
      [] dst.kind \in GroupKinds ->
            LET pfx == closest_section(s, dst.name)
                section == (all_sections(s)[pfx].members \ {OurId}) \cap Connected
            IN  IF pfx = OurPrefix(s) THEN Routed(section, Cardinality(section))
                ELSE candidates(s, dst.name)
      [] dst.kind = "PrefixSection" ->
            IF IsCompatible(dst.prefix, OurPrefix(s))
            THEN IF ~IsCoveredBy(dst.prefix, KnownPrefixes(s)) THEN CannotRoute
                 ELSE LET t == UNION {all_sections(s)[p].members :
                                        p \in {q \in KnownPrefixes(s) : IsCompatible(dst.prefix, q)}}
                                 \cap (Connected \ {OurId})
                      IN  Routed(t, Cardinality(t))
            ELSE candidates(s, LowerBound(dst.prefix))

in_authority(s, auth) ==
    CASE auth.kind = "Client"        -> FALSE
      [] auth.kind = "ManagedNode"   -> auth.name = OurId
      [] auth.kind \in GroupKinds    -> Matches(OurPrefix(s), auth.name)
      [] auth.kind = "PrefixSection" -> IsCompatible(OurPrefix(s), auth.prefix)

-----------------------------------------------------------------------------
\* The section of the network that holds a name, as this node knows it.
KnownSectionOf(s, name) == {p \in KnownPrefixes(s) : Matches(p, name)}

RouteName(dst) == IF dst.kind = "PrefixSection" THEN LowerBound(dst.prefix) ELSE dst.name

=============================================================================
