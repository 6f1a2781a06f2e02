----------------------------- MODULE ChainQueries -----------------------------
(***************************************************************************)
(* The remaining read-only queries of src/src/chain/chain.rs, as operators *)
(* on the `chain` record: which SectionInfos the node trusts or counts as  *)
(* new (is_trusted, is_new, is_new_neighbour and the signed_events they    *)
(* read), which peers are valid, the close and closest names of a name,   *)
(* the routing table size and the network size estimate.  Like the routing *)
(* queries they change nothing and are evaluated in every state the Chain *)
(* model reaches.                                                          *)
(***************************************************************************)
EXTENDS ChainRouting

LOCAL SeqExt == INSTANCE SequencesExt

OurInfosSet(s)    == {s.our_infos[j] : j \in DOMAIN s.our_infos}
NeighbourInfos(s) == {s.neighbour_infos[k] : k \in DOMAIN s.neighbour_infos}
other_prefixes(s) == DOMAIN s.neighbour_infos
our_section(s)    == OurInfo(s).members

\* signed_events: the accumulator entries that carry our own proof.
signed_events(s) == {e \in DOMAIN s.chain_accumulator : OurId \in s.chain_accumulator[e]}

SignedInfos(s) == {e.info : e \in {x \in signed_events(s) : x.kind = "SectionInfo"}}

\* The SectionInfos a query looks an info up in: ours when the info's
\* prefix matches our name, else the neighbours'.
LookedUpInfos(s, info) ==
    IF Matches(info.prefix, OurId) THEN OurInfosSet(s) ELSE NeighbourInfos(s)

\* is_trusted's is_proof: the info itself or its successor.
IsProof(si, info) == si = info \/ IsSuccessorOf(si, info)

is_trusted(s, info, check_signed) ==
    \/ check_signed /\ \E si \in SignedInfos(s) : IsProof(si, info)
    \/ \E si \in LookedUpInfos(s, info) : IsProof(si, info)

\* Mutant: is_newer looks at the same prefix only, not the compatible ones.
IsNewer_same_prefix(si, info) == si.version >= info.version /\ si.prefix = info.prefix

\* is_new's is_newer: a compatible info of at least the same version.
IsNewer(si, info) == si.version >= info.version /\ IsCompatible(si.prefix, info.prefix)

is_new(s, info) ==
    /\ ~\E si \in SignedInfos(s) : IsNewer(si, info)
    /\ ~\E si \in LookedUpInfos(s, info) : IsNewer(si, info)

is_new_neighbour(s, info) == IsNeighbour(OurPrefix(s), info.prefix) /\ is_new(s, info)

\* valid_peers / is_peer_valid: members of a neighbour, of our_info or of
\* new_info.
valid_peers(s) == UNION {si.members : si \in NeighbourInfos(s) \cup {OurInfo(s), s.new_info}}

is_peer_valid(s, id) == id \in valid_peers(s)

\* Option<names>: close_names, other_close_names and closest_names answer
\* only when our section is the closest one.
SomeNames(x) == [some |-> TRUE, names |-> x]
NoNames      == [some |-> FALSE, names |-> <<>>]

close_names(s, name) ==
    IF Matches(OurPrefix(s), name) THEN SomeNames(OurInfo(s).members) ELSE NoNames

other_close_names(s, name) ==
    IF Matches(OurPrefix(s), name) THEN SomeNames(OurInfo(s).members \ {OurId}) ELSE NoNames

\* all_sections in iteration order: the neighbours in key order, ours last.
AllSectionsOrder(s) == NeighbourKeys(s) \o <<OurPrefix(s)>>

\* sorted_by (a stable sort) of a sequence of prefixes by cmp_distance.
SortedByDistance(L, name) ==
    [k \in DOMAIN L |->
        L[CHOOSE i \in DOMAIN L :
            Cardinality({j \in DOMAIN L : StablyBefore(L, j, i, name)}) = k - 1]]

\* closest_known_names: the members of every known section, sections by
\* prefix distance and members by name distance, kept when connected, the
\* first `count` of them.
closest_known_names(s, name, count) ==
    LET secs  == SortedByDistance(AllSectionsOrder(s), name)
        names == SeqExt!FlattenSeq(
                    [k \in DOMAIN secs |->
                        SeqExt!SetToSortSeq(all_sections(s)[secs[k]].members,
                                            LAMBDA a, b : CmpDistance(name, a, b) = "LT")])
        kept  == SelectSeq(names, LAMBDA n : n \in Connected)
    IN  SubSeq(kept, 1, IF count < Len(kept) THEN count ELSE Len(kept))

closest_names(s, name, count) ==
    LET result == closest_known_names(s, name, count)
    IN  IF \E i \in DOMAIN result : result[i] = OurId THEN SomeNames(result) ELSE NoNames

\* len: the members of every neighbour and of our_info, less ourselves.
len(s) ==
    SeqExt!SumFunction([k \in DOMAIN s.neighbour_infos |-> Cardinality(s.neighbour_infos[k].members)])
        + Cardinality(OurInfo(s).members) - 1

\* network_size_estimate: (ceil(|valid_peers| / fraction), is_exact), where
\* fraction sums 1 / 2^bit_count over the known prefixes.  Scaled by
\* 2^XOR_NAME_BITS every term is an integer, and so is the division's ceiling.
network_size_estimate(s) ==
    LET known    == KnownPrefixes(s)
        scaled   == SeqExt!SumFunction([p \in known |-> 2 ^ (XOR_NAME_BITS - p.bit_count)])
        numer    == Cardinality(valid_peers(s)) * 2 ^ XOR_NAME_BITS
    IN  [estimate |-> (numer + scaled - 1) \div scaled,
         exact    |-> IsCoveredBy(RootPrefix, known)]

\* min_len_prefix: ours first, then the neighbours in key order; min_by_key
\* keeps the first of the shortest.
min_len_prefix(s) ==
    LET L == <<OurPrefix(s)>> \o NeighbourKeys(s)
    IN  L[CHOOSE i \in DOMAIN L :
              /\ \A j \in DOMAIN L : L[i].bit_count <= L[j].bit_count
              /\ \A j \in 1 .. i - 1 : L[j].bit_count > L[i].bit_count]
-----------------------------------------------------------------------------
\* Every SectionInfo that exists so far: the other sections' and ours.
InfoUniverse == net_infos \cup {e.info : e \in {x \in voted : x.kind = "SectionInfo"}}

\* is_new_neighbour (chain.rs:533), which tells the node whether a neighbour's
\* SectionInfo is news: once the node counts an info as known (it signed
\* it, holds it, or holds a compatible newer one), it never reports it as a
\* new neighbour info again, across the clean-up of the accumulator at the
\* end of our split, the fabrication of a split neighbour's sibling and the
\* pruning of a neighbour replaced by its children.  Otherwise the node would
\* vote again for an info that is no longer current.
KnownNeighbourStaysKnown ==
    [][\A i \in InfoUniverse :
          ~is_new(chain, i) /\ IsNeighbour(OurPrefix(chain'), i.prefix)
              => ~is_new_neighbour(chain', i)]_chain
=============================================================================
