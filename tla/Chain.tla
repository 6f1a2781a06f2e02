------------------------------- MODULE Chain --------------------------------
(***************************************************************************)
(* The section-chain state machine of one node (src/src/chain/chain.rs),   *)
(* driven the way spec section 5 describes: every consensus block hands    *)
(* one (event, proof) to handle_opaque_event, and the driver then calls    *)
(* poll() until it returns None, reacting to each polled event.            *)
(*                                                                         *)
(* The Chain's fields are one record, `chain`, so that the calls a handler *)
(* makes one after another (add_section_info installing two infos, the     *)
(* driver finalising the split) compose as operators on that record.      *)
(*                                                                         *)
(* The rest of the section is modelled through this node: every member    *)
(* runs the same code over the same consensus order, so the events they    *)
(* vote for are the events this node votes for, and a peer caches its own *)
(* late vote exactly when this node would.                                 *)
(***************************************************************************)
EXTENDS Prefix, Sequences, FiniteSets, TLC

CONSTANTS
    Ids,             \* names of the nodes that can ever be in our section
    OurId,           \* this node's name
    GenesisMembers,  \* members of the genesis SectionInfo (prefix "")
    Joiners,         \* candidates that may come online
    Leavers,         \* members that may go offline
    Purgeable,       \* candidates whose resource proof may time out
    MinSecSize,      \* min_sec_size
    MaxVersion,      \* bound on SectionInfo versions of the other sections
    ChurnEvents,     \* AddElder/RemoveElder events parsec may accumulate
    NoId, NoInfo     \* fillers of the unused field of an event record

ASSUME Ids \subseteq XorNames /\ OurId \in GenesisMembers
ASSUME GenesisMembers \subseteq Ids /\ MinSecSize \in Nat \ {0}
ASSUME Joiners \subseteq Ids \ GenesisMembers /\ Purgeable \subseteq Joiners
ASSUME Leavers \subseteq Ids \ {OurId}
ASSUME ChurnEvents \subseteq {[kind |-> k, info |-> NoInfo, id |-> id] : k \in {"AddElder", "RemoveElder"}, id \in Ids}

SPLIT_BUFFER == 1

VARIABLES
    chain,       \* the Chain struct, see ChainState
    voted,       \* events our section has voted for (Online, Offline, our SectionInfos)
    net_infos,   \* every SectionInfo the other sections have produced so far
    delivered,   \* <<event, voter>> proofs consensus has already handed over
    peer_cache,  \* <<event, voter>> late votes a peer keeps in its own event_cache
    polling,     \* the driver is inside its `while poll()` loop
    outcome      \* the last PrefixChangeOutcome (cached and completed events)

vars == <<chain, voted, net_infos, delivered, peer_cache, polling, outcome>>

(***************************************************************************)
(* SectionInfo and ProofSet (not under src/; spec section 3).  A proof is  *)
(* its signer's name; a ProofSet is a set of names.                        *)
(***************************************************************************)
SectionInfos == [prefix : Prefixes, version : Nat, members : SUBSET Ids]

NewSectionInfo(members, prefix, prev) ==
    [prefix |-> prefix, version |-> prev.version + 1, members |-> members]

IsSuccessorOf(info, prev) ==
    info.version = prev.version + 1 /\ IsCompatible(info.prefix, prev.prefix)

\* At least QUORUM_NUMERATOR / QUORUM_DENOMINATOR = 2/3 of the members signed.
IsQuorum(info, proofs) ==
    3 * Cardinality(proofs \cap info.members) >= 2 * Cardinality(info.members)

(***************************************************************************)
(* NetworkEvent: a uniform record; the field a variant lacks holds a       *)
(* filler.  Only the variants whose handling this module models appear.   *)
(***************************************************************************)
SIEvent(info)    == [kind |-> "SectionInfo", info |-> info, id |-> NoId]
OnlineEvent(id)  == [kind |-> "Online", info |-> NoInfo, id |-> id]
OfflineEvent(id) == [kind |-> "Offline", info |-> NoInfo, id |-> id]
ElderEvent(k, id) == [kind |-> k, info |-> NoInfo, id |-> id]

ElderKinds == {"AddElder", "RemoveElder"}

IsEvent(e) ==
    \/ e = SIEvent(e.info) /\ e.info \in SectionInfos
    \/ e \in {OnlineEvent(id) : id \in Ids} \cup {OfflineEvent(id) : id \in Ids}
    \/ e \in {ElderEvent(k, id) : k \in ElderKinds, id \in Ids}

PrefixChanges == {"None", "Splitting", "Merging"}

(***************************************************************************)
(* Read-only queries.                                                      *)
(***************************************************************************)
OurInfo(s)   == s.our_infos[Len(s.our_infos)]
OurPrefix(s) == OurInfo(s).prefix

\* prefixes(): the neighbours' prefixes and ours.
KnownPrefixes(s) == DOMAIN s.neighbour_infos \cup {OurPrefix(s)}

\* compatible_neighbour_info: the first compatible entry in key order.
CompatibleNeighbourInfo(s, info) ==
    LET keys == {k \in DOMAIN s.neighbour_infos : IsCompatible(k, info.prefix)}
    IN  {s.neighbour_infos[k] : k \in {k \in keys : \A k2 \in keys \ {k} : PrefixLess(k, k2)}}

\* should_vote_for_merge (SharedState, not under src/): our section or our
\* sibling has fallen below min_sec_size.
ShouldVoteForMerge(s) ==
    /\ OurPrefix(s).bit_count > 0
    /\ s.change # "Merging"
    /\ \/ Cardinality(OurInfo(s).members) < MinSecSize
       \/ \E k \in DOMAIN s.neighbour_infos :
             /\ Popped(k) = Popped(OurPrefix(s))
             /\ Cardinality(s.neighbour_infos[k].members) < MinSecSize

(***************************************************************************)
(* Accumulation (handle_opaque_event and its helpers).                     *)
(***************************************************************************)
should_skip_accumulator(s, e) ==
    /\ e.kind = "SectionInfo"
    /\ \/ Matches(e.info.prefix, OurId) /\ OurInfo(s).version >= e.info.version
       \/ \E k \in DOMAIN s.neighbour_infos :
             k = e.info.prefix /\ s.neighbour_infos[k].version >= e.info.version

can_handle_vote(s, e) ==
    \/ s.change = "None"
    \/ /\ e.kind = "SectionInfo"
       /\ ~(IsCompatible(e.info.prefix, OurPrefix(s))
            /\ e.info.version > s.new_info.version)

\* add_proof into the entry for e, creating it if absent.
AddProof(acc, e, voter) ==
    IF e \in DOMAIN acc
    THEN [acc EXCEPT ![e] = @ \cup {voter}]
    ELSE [x \in DOMAIN acc \cup {e} |-> IF x = e THEN {voter} ELSE acc[x]]

RemoveKey(f, k) == [x \in DOMAIN f \ {k} |-> f[x]]

PutKey(f, k, v) == [x \in DOMAIN f \cup {k} |-> IF x = k THEN v ELSE f[x]]

(***************************************************************************)
(* Transition selection (is_valid_transition).                             *)
(***************************************************************************)
\* Mutant: the "unbroken sequence" check on our own infos is dropped.
is_valid_transition_no_successor(s, e, proofs) ==
    IF e.kind = "SectionInfo"
    THEN LET info == e.info
             IsNewer(i) == IsCompatible(info.prefix, i.prefix) /\ i.version >= info.version
         IN  IF \E i \in CompatibleNeighbourInfo(s, info) \cup {OurInfo(s)} : IsNewer(i)
             THEN FALSE
             ELSE IsQuorum(OurInfo(s), proofs)
    ELSE s.change = "None" /\ IsQuorum(OurInfo(s), proofs)

is_valid_transition(s, e, proofs) ==
    IF e.kind = "SectionInfo"
    THEN LET info == e.info
             IsNewer(i) == IsCompatible(info.prefix, i.prefix) /\ i.version >= info.version
         IN  IF \E i \in CompatibleNeighbourInfo(s, info) \cup {OurInfo(s)} : IsNewer(i)
             THEN FALSE
             ELSE IF Matches(info.prefix, OurId)
                  THEN IsSuccessorOf(info, OurInfo(s)) /\ IsQuorum(OurInfo(s), proofs)
                  ELSE IsQuorum(OurInfo(s), proofs)
    ELSE s.change = "None" /\ IsQuorum(OurInfo(s), proofs)

(***************************************************************************)
(* Neighbour housekeeping and SectionInfo integration.                     *)
(***************************************************************************)
check_and_clean_neighbour_infos(s) ==
    LET nb == s.neighbour_infos
        IsNewer(pfx, other) ==
            /\ IsCompatible(other, pfx)
            /\ nb[other].version > nb[pfx].version
            /\ ~IsExtensionOf(pfx, other)
        to_remove == {pfx \in DOMAIN nb :
                         \/ ~IsNeighbour(OurPrefix(s), pfx)
                         \/ \E other \in DOMAIN nb : IsNewer(pfx, other)}
    IN  [s EXCEPT !.neighbour_infos = [k \in DOMAIN nb \ to_remove |-> nb[k]]]

\* SharedState::push_our_new_info (not under src/): append to our_infos.
\* new_info is never behind an installed info of ours (every one of them was
\* new_info once), so "new_info becomes this" leaves it as it is.
PushOurNewInfo(s, info) ==
    [s EXCEPT !.our_infos = Append(@, info),
              !.new_info  = IF info.version > @.version THEN info ELSE @]

do_add_section_info(s, info, proofs) ==
    IF Matches(info.prefix, OurId)
    THEN LET s1 == PushOurNewInfo(s, info)
         IN  check_and_clean_neighbour_infos(
                 [s1 EXCEPT !.is_member = @ \/ OurId \in info.members])
    ELSE LET pfx  == info.prefix
             ppfx == Popped(pfx)
             spfx == Sibling(pfx)
             nb1  == PutKey(s.neighbour_infos, pfx, info)
             nb2  == IF /\ ppfx \in DOMAIN nb1
                        /\ nb1[ppfx].version < info.version
                        /\ IsNeighbour(OurPrefix(s), spfx)
                        /\ spfx \notin DOMAIN nb1
                     THEN PutKey(nb1, spfx, nb1[ppfx])
                     ELSE nb1
         IN  IF \E i \in {s.our_infos[j] : j \in DOMAIN s.our_infos} : IsQuorum(i, proofs)
             THEN check_and_clean_neighbour_infos([s EXCEPT !.neighbour_infos = nb2])
             ELSE s   \* Err(InvalidMessage)

\* Mutant: the two halves are installed in arrival order, not ours first.
add_section_info_arrival_order(s, info, proofs) ==
    IF IsExtensionOf(info.prefix, OurPrefix(s))
    THEN IF s.split_cache = <<>>
         THEN [s EXCEPT !.split_cache = <<[info |-> info, proofs |-> proofs]>>]
         ELSE LET c == s.split_cache[1]
              IN  do_add_section_info(do_add_section_info([s EXCEPT !.split_cache = <<>>],
                                                          c.info, c.proofs), info, proofs)
    ELSE do_add_section_info(s, info, proofs)

\* Mutant: the cached half is read but not taken, and each half is cached.
add_section_info_no_take(s, info, proofs) ==
    IF IsExtensionOf(info.prefix, OurPrefix(s))
    THEN [s EXCEPT !.split_cache = Append(@, [info |-> info, proofs |-> proofs])]
    ELSE do_add_section_info(s, info, proofs)

add_section_info(s, info, proofs) ==
    IF IsExtensionOf(info.prefix, OurPrefix(s))
    THEN IF s.split_cache = <<>>
         THEN [s EXCEPT !.split_cache = <<[info |-> info, proofs |-> proofs]>>]
         ELSE LET c  == s.split_cache[1]
                  s0 == [s EXCEPT !.split_cache = <<>>]
              IN  IF Matches(c.info.prefix, OurId)
                  THEN do_add_section_info(do_add_section_info(s0, c.info, c.proofs), info, proofs)
                  ELSE do_add_section_info(do_add_section_info(s0, info, proofs), c.info, c.proofs)
    ELSE do_add_section_info(s, info, proofs)

(***************************************************************************)
(* Membership (add_member, should_split, split_self, remove_member).      *)
(***************************************************************************)
should_split(s, members) ==
    IF s.change # "None" \/ ShouldVoteForMerge(s) THEN FALSE
    ELSE LET new_size == Cardinality({id \in members :
                                         CommonPrefix(OurId, id) > OurPrefix(s).bit_count})
             min_split_size == MinSecSize + SPLIT_BUFFER
         IN  new_size >= min_split_size /\ Cardinality(members) >= min_split_size + new_size

\* Mutant: our half is given the members that fall outside its prefix.
SplitInfos_inverted_filter(s, members) ==
    LET next_bit     == Bit(OurId, OurPrefix(s).bit_count)
        our_prefix   == Pushed(OurPrefix(s), next_bit)
        other_prefix == Pushed(OurPrefix(s), 1 - next_bit)
        ours         == {id \in members : ~Matches(our_prefix, id)}
    IN  <<NewSectionInfo(ours, our_prefix, s.new_info),
          NewSectionInfo(members \ ours, other_prefix, s.new_info)>>

\* split_self: the two child infos, ours first, both successors of new_info.
SplitInfos(s, members) ==
    LET next_bit     == Bit(OurId, OurPrefix(s).bit_count)
        our_prefix   == Pushed(OurPrefix(s), next_bit)
        other_prefix == Pushed(OurPrefix(s), 1 - next_bit)
        ours         == {id \in members : Matches(our_prefix, id)}
    IN  <<NewSectionInfo(ours, our_prefix, s.new_info),
          NewSectionInfo(members \ ours, other_prefix, s.new_info)>>

\* add_member: the new chain state and the infos it returns for voting.
add_member(s, id) ==
    LET members == s.new_info.members \cup {id}
    IN  IF should_split(s, members)
        THEN LET infos == SplitInfos(s, members)
             IN  [state |-> [s EXCEPT !.new_info = infos[1], !.change = "Splitting"],
                  infos |-> {infos[1], infos[2]}]
        ELSE LET info == NewSectionInfo(members, s.new_info.prefix, s.new_info)
             IN  [state |-> [s EXCEPT !.new_info = info], infos |-> {info}]

\* remove_member; below min_sec_size it sets Merging and then panics
\* ("Merge not supported"), which the model keeps as a halted node.
remove_member(s, id) ==
    LET info == NewSectionInfo(s.new_info.members \ {id}, s.new_info.prefix, s.new_info)
    IN  [state |-> [s EXCEPT !.new_info = info,
                             !.change = IF Cardinality(info.members) < MinSecSize
                                        THEN "Merging" ELSE @],
         infos |-> {info}]

(***************************************************************************)
(* finalise_prefix_change: the new state and the PrefixChangeOutcome.      *)
(***************************************************************************)
\* Mutant: change is left at Splitting.
finalise_prefix_change_keep_change(s) ==
    LET s1  == check_and_clean_neighbour_infos(s)
        acc == s1.chain_accumulator
    IN  [state   |-> [s1 EXCEPT !.completed_events = {},
                                !.chain_accumulator = <<>>,
                                !.event_cache = {}],
         cached  |-> {e \in DOMAIN acc : e \notin s1.completed_events /\ OurId \in acc[e]}
                     \cup s1.event_cache,
         completed |-> s1.completed_events]

\* Mutant: the cached events are not handed back.
finalise_prefix_change_drop_cache(s) ==
    LET s1  == check_and_clean_neighbour_infos(s)
        acc == s1.chain_accumulator
    IN  [state   |-> [s1 EXCEPT !.change = "None",
                                !.completed_events = {},
                                !.chain_accumulator = <<>>,
                                !.event_cache = {}],
         cached  |-> {e \in DOMAIN acc : e \notin s1.completed_events /\ OurId \in acc[e]},
         completed |-> s1.completed_events]

finalise_prefix_change(s) ==
    LET s1  == check_and_clean_neighbour_infos(s)
        acc == s1.chain_accumulator
    IN  [state   |-> [s1 EXCEPT !.change = "None",
                                !.completed_events = {},
                                !.chain_accumulator = <<>>,
                                !.event_cache = {}],
         cached  |-> {e \in DOMAIN acc : e \notin s1.completed_events /\ OurId \in acc[e]}
                     \cup s1.event_cache,
         completed |-> s1.completed_events]

(***************************************************************************)
(* The resource-proof candidate slot (spec 4.10): one candidate at a time, *)
(* accepted by the section, approved when its Online is polled, dropped   *)
(* once a SectionInfo lists it.                                            *)
(***************************************************************************)
NoCandidate == [id |-> NoId, approved |-> FALSE]

accept_as_candidate(s, id) == [s EXCEPT !.candidate = [id |-> id, approved |-> FALSE]]

\* Mutant: any polled Online is taken for the candidate's.
try_accept_any(s, id) == TRUE

\* try_accept_candidate_as_member: the Online is the accepted, not yet
\* approved candidate's; it then becomes Approved.
try_accept_candidate_as_member(s, id) == s.candidate.id = id /\ ~s.candidate.approved

\* reset_candidate: forget the current candidate, whatever its state.
reset_candidate(s) == [s EXCEPT !.candidate = NoCandidate]

reset_candidate_if_member_of(s, members) ==
    IF s.candidate.id \in members THEN [s EXCEPT !.candidate = NoCandidate] ELSE s

(***************************************************************************)
(* Initial state: Chain::new on the genesis SectionInfo (version 0, prefix *)
(* "", GenesisMembers); no other section exists yet.                       *)
(***************************************************************************)
GenesisInfo == [prefix |-> RootPrefix, version |-> 0, members |-> GenesisMembers]

Init ==
    /\ chain = [our_infos         |-> <<GenesisInfo>>,
                new_info          |-> GenesisInfo,
                neighbour_infos   |-> <<>>,
                change            |-> "None",
                is_member         |-> OurId \in GenesisMembers,
                split_cache       |-> <<>>,
                chain_accumulator |-> <<>>,
                completed_events  |-> {},
                event_cache       |-> {},
                candidate         |-> NoCandidate]
    /\ voted = {}
    /\ net_infos = {}
    /\ delivered = {}
    /\ peer_cache = {}
    /\ polling = FALSE
    /\ outcome = [cached |-> {}, completed |-> {}]

\* A node whose remove_member panicked does nothing more.
Running == chain.change # "Merging"

\* Events our section members vote for: ours, and the other sections' infos.
Votable == voted \cup {SIEvent(i) : i \in net_infos}

\* The members of our consensus group as this node knows them.
Voters == OurInfo(chain).members \cup chain.new_info.members

(***************************************************************************)
(* handle_opaque_event(e, proof of voter): one consensus block.  Its four  *)
(* outcomes, in the order the code tests them, are four actions.           *)
(***************************************************************************)
Deliver(e, v) ==
    /\ Running /\ ~polling
    /\ e \in Votable /\ v \in Voters /\ <<e, v>> \notin delivered
    /\ delivered' = delivered \cup {<<e, v>>}
    /\ polling' = TRUE
    /\ UNCHANGED <<voted, net_infos, outcome>>

HandleSkip(e, v) ==
    /\ Deliver(e, v)
    /\ should_skip_accumulator(chain, e)
    /\ UNCHANGED <<chain, peer_cache>>

\* cache_event: only our own vote is kept; a peer keeps its own the same way.
HandleCache(e, v) ==
    /\ Deliver(e, v)
    /\ ~should_skip_accumulator(chain, e)
    /\ ~can_handle_vote(chain, e)
    /\ IF v = OurId
       THEN /\ chain' = [chain EXCEPT !.event_cache = @ \cup {e}]
            /\ UNCHANGED peer_cache
       ELSE /\ peer_cache' = peer_cache \cup {<<e, v>>}
            /\ UNCHANGED chain

HandleCompleted(e, v) ==
    /\ Deliver(e, v)
    /\ ~should_skip_accumulator(chain, e)
    /\ can_handle_vote(chain, e)
    /\ e \in chain.completed_events
    /\ UNCHANGED <<chain, peer_cache>>

HandleAccumulate(e, v) ==
    /\ Deliver(e, v)
    /\ ~should_skip_accumulator(chain, e)
    /\ can_handle_vote(chain, e)
    /\ e \notin chain.completed_events
    /\ chain' = [chain EXCEPT !.chain_accumulator = AddProof(@, e, v)]
    /\ UNCHANGED peer_cache

(***************************************************************************)
(* handle_churn_event(e, proof_set): parsec hands over an accumulated      *)
(* AddElder/RemoveElder with the proof set that accumulated it, once.      *)
(* Every member gets it in the same block.  Cached or accumulated, in the  *)
(* order the code tests them; the "Duplicate membership change event"    *)
(* branch guards against an observation parsec hands over twice, which    *)
(* it does not, so it has no action.                                       *)
(***************************************************************************)
Churn(e) ==
    /\ Running /\ ~polling
    /\ e \in ChurnEvents /\ e \notin voted
    /\ <<e, OurId>> \notin delivered
    /\ delivered' = delivered \cup {<<e, v>> : v \in OurInfo(chain).members}
    /\ polling' = TRUE
    /\ UNCHANGED <<net_infos, outcome>>

\* Force-cached under our id (every member caches it under its own), so
\* after the split it is voted again through consensus.
HandleChurnCache(e) ==
    /\ Churn(e)
    /\ ~can_handle_vote(chain, e)
    /\ chain' = [chain EXCEPT !.event_cache = @ \cup {e}]
    /\ voted' = voted \cup {e}
    /\ peer_cache' = peer_cache \cup {<<e, v>> : v \in OurInfo(chain).members \ {OurId}}

\* The proof set is inserted, replacing any entry already there.
HandleChurnAccumulate(e) ==
    /\ Churn(e)
    /\ can_handle_vote(chain, e)
    /\ e \notin chain.completed_events
    /\ chain' = [chain EXCEPT !.chain_accumulator = PutKey(@, e, OurInfo(chain).members)]
    /\ UNCHANGED <<voted, peer_cache>>

(***************************************************************************)
(* poll(), and the driver's reaction to the event it returns.              *)
(***************************************************************************)
\* Nothing valid: poll returns None and the driver's loop ends.
PollNone ==
    /\ Running /\ polling
    /\ ~\E e \in DOMAIN chain.chain_accumulator :
            is_valid_transition(chain, e, chain.chain_accumulator[e])
    /\ polling' = FALSE
    /\ UNCHANGED <<chain, voted, net_infos, delivered, peer_cache, outcome>>

\* The chosen entry moves to completed_events.  The accumulator is a BTreeMap
\* searched in NetworkEvent order, which is not part of these sources: any
\* valid entry may come first.
Taken(e) ==
    [chain EXCEPT !.completed_events = @ \cup {e},
                  !.chain_accumulator = RemoveKey(@, e)]

PollStep(e) ==
    /\ Running /\ polling
    /\ e \in DOMAIN chain.chain_accumulator
    /\ is_valid_transition(chain, e, chain.chain_accumulator[e])

\* finalise_prefix_change starts a new consensus graph: the votes of the
\* old one that were never handed over are gone, and only what each member
\* re-votes (our own: the outcome's cached events; every other member's:
\* the pending entries it signed, or its own cached late vote) is handed
\* over again.  `delivered` then holds every vote of the ended graph that
\* is not re-voted.
EndedGraphVotes == delivered \cup {<<e, v>> : e \in Votable, v \in Ids}

Revotes(s, cached) ==
    {<<e, v>> \in delivered :
        \/ v = OurId /\ e \in cached
        \/ v # OurId /\ e \in DOMAIN s.chain_accumulator /\ e \notin s.completed_events
           /\ v \in s.chain_accumulator[e]
        \/ <<e, v>> \in peer_cache}

PollSectionInfo(e) ==
    /\ PollStep(e)
    /\ e.kind = "SectionInfo"
    /\ LET s1 == add_section_info(Taken(e), e.info, chain.chain_accumulator[e])
           cached == s1.split_cache # <<>> /\ s1.split_cache[1].info = e.info
           \* the driver finalises once our half of the split is installed
           done == ~cached /\ s1.change = "Splitting" /\ OurPrefix(s1) = s1.new_info.prefix
           fin == finalise_prefix_change(s1)
       IN  /\ chain' = reset_candidate_if_member_of(IF done THEN fin.state ELSE s1,
                                                    e.info.members)
           /\ polling' = ~cached
           /\ outcome' = IF done THEN [cached |-> fin.cached, completed |-> fin.completed]
                         ELSE outcome
           /\ delivered' = IF done THEN EndedGraphVotes \ Revotes(s1, fin.cached)
                           ELSE delivered
           /\ voted' = IF done THEN voted \cup fin.cached ELSE voted
           /\ peer_cache' = IF done THEN {} ELSE peer_cache
    /\ UNCHANGED net_infos

\* Online of the candidate: the driver approves it, adds the member and votes
\* for the infos add_member returns; the sibling half of a split is a new
\* section of the network.
PollOnline(e) ==
    /\ PollStep(e)
    /\ e.kind = "Online"
    /\ try_accept_candidate_as_member(chain, e.id)
    /\ LET r == add_member([Taken(e) EXCEPT !.candidate.approved = TRUE], e.id)
       IN  /\ chain' = r.state
           /\ voted' = voted \cup {SIEvent(i) : i \in r.infos}
           /\ net_infos' = net_infos \cup {i \in r.infos : ~Matches(i.prefix, OurId)}
    /\ UNCHANGED <<delivered, peer_cache, polling, outcome>>

\* An Online try_accept_candidate_as_member rejects (purged, unexpected or
\* already approved): the event is completed and nothing else happens.
PollOnlineUnexpected(e) ==
    /\ PollStep(e)
    /\ e.kind = "Online"
    /\ ~try_accept_candidate_as_member(chain, e.id)
    /\ chain' = Taken(e)
    /\ UNCHANGED <<voted, net_infos, delivered, peer_cache, polling, outcome>>

PollOffline(e) ==
    /\ PollStep(e)
    /\ e.kind = "Offline"
    /\ LET r == remove_member(Taken(e), e.id)
       IN  /\ chain' = r.state
           /\ voted' = voted \cup {SIEvent(i) : i \in r.infos}
    /\ UNCHANGED <<net_infos, delivered, peer_cache, polling, outcome>>

(***************************************************************************)
(* The environment: candidates coming online, members going offline, and  *)
(* the other sections churning and splitting.  A name joins and leaves at  *)
(* most once (a rejoin would carry a fresh PublicId).                      *)
(***************************************************************************)
ProposeOnline(id) ==
    /\ Running /\ ~polling
    /\ id \in Joiners
    /\ OnlineEvent(id) \notin voted
    /\ Matches(chain.new_info.prefix, id)
    /\ chain.candidate = NoCandidate
    /\ chain' = accept_as_candidate(chain, id)
    /\ voted' = voted \cup {OnlineEvent(id)}
    /\ UNCHANGED <<net_infos, delivered, peer_cache, polling, outcome>>

ProposeOffline(id) ==
    /\ Running /\ ~polling
    /\ id \in chain.new_info.members \cap Leavers
    /\ OfflineEvent(id) \notin voted
    /\ voted' = voted \cup {OfflineEvent(id)}
    /\ UNCHANGED <<chain, net_infos, delivered, peer_cache, polling, outcome>>

\* The caller purges a candidate whose resource proof did not finish in time
\* (reset_candidate); its Online may still be in consensus.
ResetCandidate ==
    /\ Running /\ ~polling
    /\ chain.candidate.id \in Purgeable /\ ~chain.candidate.approved
    /\ chain' = reset_candidate(chain)
    /\ UNCHANGED <<voted, net_infos, delivered, peer_cache, polling, outcome>>

\* A current section of the network (no newer compatible info exists).
NetLeaf(i) ==
    /\ i \in net_infos
    /\ ~\E j \in net_infos : IsCompatible(j.prefix, i.prefix) /\ j.version > i.version

NetChurn(i) ==
    /\ Running /\ ~polling
    /\ NetLeaf(i) /\ i.version < MaxVersion
    /\ net_infos' = net_infos \cup {[i EXCEPT !.version = @ + 1]}
    /\ UNCHANGED <<chain, voted, delivered, peer_cache, polling, outcome>>

\* Children stay shorter than a name, as sections of the 256-bit network do.
NetSplit(i) ==
    /\ Running /\ ~polling
    /\ NetLeaf(i) /\ i.version < MaxVersion
    /\ i.prefix.bit_count + 1 < XOR_NAME_BITS
    /\ net_infos' = net_infos \cup
          {NewSectionInfo({m \in i.members : Matches(Pushed(i.prefix, b), m)},
                          Pushed(i.prefix, b), i) : b \in {0, 1}}
    /\ UNCHANGED <<chain, voted, delivered, peer_cache, polling, outcome>>

\* AddElder/RemoveElder: poll hands it back; the node's reaction (parsec
\* membership) is outside these sources.
PollChurn(e) ==
    /\ PollStep(e)
    /\ e.kind \in ElderKinds
    /\ chain' = Taken(e)
    /\ UNCHANGED <<voted, net_infos, delivered, peer_cache, polling, outcome>>

Next ==
    \/ \E e \in Votable, v \in Voters : HandleSkip(e, v)
    \/ \E e \in Votable, v \in Voters : HandleCache(e, v)
    \/ \E e \in Votable, v \in Voters : HandleCompleted(e, v)
    \/ \E e \in Votable, v \in Voters : HandleAccumulate(e, v)
    \/ PollNone
    \/ \E e \in DOMAIN chain.chain_accumulator : PollSectionInfo(e)
    \/ \E e \in DOMAIN chain.chain_accumulator : PollOnline(e)
    \/ \E e \in DOMAIN chain.chain_accumulator : PollOnlineUnexpected(e)
    \/ \E e \in DOMAIN chain.chain_accumulator : PollOffline(e)
    \/ \E e \in DOMAIN chain.chain_accumulator : PollChurn(e)
    \/ \E e \in ChurnEvents : HandleChurnCache(e)
    \/ \E e \in ChurnEvents : HandleChurnAccumulate(e)
    \/ \E id \in Ids : ProposeOnline(id)
    \/ \E id \in Ids : ProposeOffline(id)
    \/ ResetCandidate
    \/ \E i \in net_infos : NetChurn(i)
    \/ \E i \in net_infos : NetSplit(i)

Spec == Init /\ [][Next]_vars

\* Consensus hands over every vote it has (one block per step), and the
\* driver, once in its loop, keeps calling poll() until it returns None.
Consensus ==
    \E e \in Votable, v \in Voters :
        HandleSkip(e, v) \/ HandleCache(e, v) \/ HandleCompleted(e, v) \/ HandleAccumulate(e, v)

Driver ==
    \/ PollNone
    \/ \E e \in DOMAIN chain.chain_accumulator :
          PollSectionInfo(e) \/ PollOnline(e) \/ PollOnlineUnexpected(e)
          \/ PollOffline(e) \/ PollChurn(e)

\* WF_vars(Driver) in the form []<>~E \/ []<><<Driver>>_vars, with E the
\* condition under which some poll step is enabled: inside the loop, poll()
\* either finds a valid entry (whose kind has a poll action) or returns None.
DriverEnabled == polling /\ Running

DriverFair == []<>~DriverEnabled \/ []<><<Driver>>_vars

FairSpec == Spec /\ WF_vars(Consensus) /\ DriverFair

(***************************************************************************)
(* Properties.                                                             *)
(***************************************************************************)
TypeOK ==
    /\ chain.our_infos \in Seq(SectionInfos) /\ chain.our_infos # <<>>
    /\ chain.new_info \in SectionInfos
    /\ DOMAIN chain.neighbour_infos \subseteq Prefixes
    /\ \A k \in DOMAIN chain.neighbour_infos : chain.neighbour_infos[k] \in SectionInfos
    /\ chain.change \in PrefixChanges
    /\ chain.is_member \in BOOLEAN
    /\ chain.split_cache \in Seq([info : SectionInfos, proofs : SUBSET Ids])
    /\ Len(chain.split_cache) <= 1
    /\ \A e \in DOMAIN chain.chain_accumulator : IsEvent(e)
    /\ \A e \in DOMAIN chain.chain_accumulator : chain.chain_accumulator[e] \subseteq Ids
    /\ \A e \in chain.completed_events \cup chain.event_cache : IsEvent(e)
    /\ chain.candidate \in [id : Joiners \cup {NoId}, approved : BOOLEAN]
    /\ polling \in BOOLEAN

\* The sections this node knows (prefixes(): ours and the neighbours') never
\* overlap and leave no gap in the name space, so routing by prefix always
\* finds exactly one section.  Needs the split installed ours-first and the
\* sibling of a split neighbour filled in from its parent.
KnownPrefixesPartition ==
    LET known == KnownPrefixes(chain)
    IN  /\ \A p, q \in known : p # q => ~IsCompatible(p, q)
        /\ IsCoveredBy(RootPrefix, known)

\* Once add_member has started a split, the node eventually finalises it:
\* both halves are installed and change returns to None.
SplitCompletes == chain.change = "Splitting" ~> chain.change = "None"

\* Spec 4.2 step 1: an event already in completed_events is dropped before
\* anything else, so a late vote for it is never put in event_cache (and
\* never comes back from finalise_prefix_change as an event to re-vote).
CompletedNeverCached == chain.event_cache \cap chain.completed_events = {}

\* Spec 4.4: add_member requires our prefix to match the new member, yet it
\* only logs a mismatch (chain.rs:284).  The single candidate slot, checked
\* by try_accept_candidate_as_member, must keep out an Online voted before a
\* split or left in consensus by a purged candidate: the members of our
\* latest SectionInfo all fall within its prefix.
MembersMatchPrefix ==
    \A m \in chain.new_info.members : Matches(chain.new_info.prefix, m)

\* A SectionInfo entry is dead once a compatible info of at least its
\* version is known: is_valid_transition can never accept it again.
Superseded(s, e) ==
    /\ e.kind = "SectionInfo"
    /\ \E i \in CompatibleNeighbourInfo(s, e.info) \cup {OurInfo(s)} :
          IsCompatible(e.info.prefix, i.prefix) /\ i.version >= e.info.version

ChurnCompletes ==
    \A e \in ChurnEvents :
        e \in DOMAIN chain.chain_accumulator \cup chain.event_cache ~> e \in chain.completed_events


(***************************************************************************)
(* Refinement: the node's our_infos implement the abstract section history.*)
(***************************************************************************)
History == INSTANCE SectionHistory
               WITH Ids <- Ids, OurName <- OurId, Genesis <- GenesisInfo,
                    history <- chain.our_infos

\* Every SectionInfo this node installs for its own section is the
\* successor of the last one and differs from it by exactly one churn step
\* (add_member, remove_member, or split_self keeping our half), whatever
\* order the votes for pending infos, splits and neighbour updates accumulate
\* in: the infos voted one after another from new_info are installed as
\* the single history they were built as.
HistoryRefined == History!Spec

=============================================================================
