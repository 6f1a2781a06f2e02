----------------------------- MODULE SectionTrust -----------------------------
(***************************************************************************)
(* Trust between two sections (src/src/chain/chain.rs, spec section 4.8). *)
(* Our section keeps our_history, the chain of its section keys, and      *)
(* their_knowledge: per neighbour prefix, the version of our section the   *)
(* neighbour acknowledged (poll of AckMessage -> update_their_knowledge).  *)
(* The neighbour keeps their_keys: per prefix, the latest key of ours it   *)
(* learned (poll of TheirKeyInfo -> update_their_keys).  A message of ours *)
(* carries prove(target): our_history sliced from proving_index(target),   *)
(* and the neighbour accepts it when check_trust finds one of the proof's  *)
(* keys among its their_keys of a compatible prefix.                       *)
(*                                                                         *)
(* Both sections are modelled through the events their chains poll: a key *)
(* info or an ack reaches the other side's accumulator any number of       *)
(* times, late and in any order, or never.  A section key is identified by *)
(* its SectionKeyInfo (prefix, version); the signatures linking the chain  *)
(* are left out.  SectionProofChain and SharedState are not under src/:    *)
(* their slice_from, push and update operations follow the spec.          *)
(***************************************************************************)
EXTENDS Prefix, Sequences, FiniteSets

CONSTANTS
    OurName,          \* a member of our section, fixing the half we keep on a split
    OurPrefix0,       \* our section's prefix at genesis
    TheirPrefix0,     \* the neighbour section's prefix at genesis
    GenesisVersion,   \* version of the first_info our node's chain starts from
    MaxVersion,       \* bound on our section's versions
    MaxInFlight       \* bound on our messages in flight to the neighbour

ASSUME /\ Matches(OurPrefix0, OurName)
       /\ ~IsCompatible(OurPrefix0, TheirPrefix0)
       /\ GenesisVersion \in 0 .. MaxVersion

VARIABLES
    our_history,      \* our SectionProofChain: a sequence of [prefix, version]
    their_knowledge,  \* ours: neighbour prefix -> version it acknowledged
    their_keys,       \* the neighbour's: prefix -> the latest SectionKeyInfo it holds
    their_prefix,     \* the neighbour section's current prefix
    acks,             \* AckMessage payloads [src_prefix, ack_version] sent to us
    msgs,             \* our messages in flight to the neighbour: [proof, known]
    verdict           \* the last message received: [ok (check_trust), known, rekeyed]

vars == <<our_history, their_knowledge, their_keys, their_prefix, acks, msgs, verdict>>

KeyInfo(p, v) == [prefix |-> p, version |-> v]

\* History: the neighbour held a key of our current section.
KnowsUs(keys, chain) == \E p \in DOMAIN keys : IsCompatible(p, chain[Len(chain)].prefix)

LastKey(chain) == chain[Len(chain)]

(***************************************************************************)
(* SharedState and SectionProofChain, as the spec describes them.         *)
(***************************************************************************)

\* SectionProofChain::slice_from: the chain from the given index on.
slice_from(chain, index) == SubSeq(chain, index + 1, Len(chain))

\* SharedState::update_their_knowledge: keep the highest version per prefix.
UpdateTheirKnowledge(tk, pfx, version) ==
    IF pfx \in DOMAIN tk /\ tk[pfx] >= version THEN tk
    ELSE [p \in DOMAIN tk \cup {pfx} |-> IF p = pfx THEN version ELSE tk[p]]

\* SharedState::update_their_keys: keep the latest key by prefix
\* compatibility and version, dropping the compatible older ones.
UpdateTheirKeys(keys, k) ==
    IF \E p \in DOMAIN keys : IsCompatible(p, k.prefix) /\ keys[p].version >= k.version
    THEN keys
    ELSE [p \in {q \in DOMAIN keys : ~IsCompatible(q, k.prefix)} \cup {k.prefix} |->
              IF p = k.prefix THEN k ELSE keys[p]]

(***************************************************************************)
(* The Chain methods.                                                      *)
(***************************************************************************)

\* proving_index: the their_knowledge entry, in BTreeMap order, of the first
\* prefix matching the target's name; 0 when there is none.
proving_index(tk, name) ==
    LET M == {p \in DOMAIN tk : Matches(p, name)}
    IN  IF M = {} THEN 0
        ELSE tk[CHOOSE p \in M : \A q \in M \ {p} : PrefixLess(p, q)]

\* Mutant: the slice starts one past the acknowledged entry.
prove_past_index(name) ==
    slice_from(our_history, proving_index(their_knowledge, name) + 1)

\* prove: our_history sliced from the proving index of the target.
prove(name) == slice_from(our_history, proving_index(their_knowledge, name))

\* Mutant: only the proof's last key is looked up.
check_trust_last_only(keys, proof) ==
    /\ proof # <<>>
    /\ LET filtered == {keys[p] : p \in {q \in DOMAIN keys :
                                           IsCompatible(LastKey(proof).prefix, q)}}
       IN  LastKey(proof) \in filtered

\* check_trust: some key of the proof is one of their_keys under a prefix
\* compatible with the prefix of the proof's last key.
check_trust(keys, proof) ==
    /\ proof # <<>>
    /\ LET filtered == {keys[p] : p \in {q \in DOMAIN keys :
                                           IsCompatible(LastKey(proof).prefix, q)}}
       IN  \E i \in 1 .. Len(proof) : proof[i] \in filtered

-----------------------------------------------------------------------------
Init ==
    /\ our_history = <<KeyInfo(OurPrefix0, GenesisVersion)>>
    /\ their_knowledge = [p \in {} |-> 0]
    /\ their_keys = [p \in {} |-> KeyInfo(OurPrefix0, 0)]
    /\ their_prefix = TheirPrefix0
    /\ acks = {} /\ msgs = {}
    /\ verdict = [ok |-> TRUE, known |-> FALSE, rekeyed |-> FALSE]

\* Our section installs its next SectionInfo (churn, or the split into the
\* half holding us) and pushes its key onto our_history.
OurInfoInstalled ==
    /\ LastKey(our_history).version < MaxVersion
    /\ \E split \in BOOLEAN :
         LET old == LastKey(our_history).prefix
             pfx == IF split THEN Pushed(old, Bit(OurName, old.bit_count)) ELSE old
         IN  /\ pfx.bit_count < XOR_NAME_BITS
             /\ our_history' = Append(our_history,
                                      KeyInfo(pfx, LastKey(our_history).version + 1))
    /\ UNCHANGED <<their_knowledge, their_keys, their_prefix, acks, msgs, verdict>>

\* The neighbour splits; each half keeps the shared state of the parent.
TheirSplit ==
    /\ their_prefix.bit_count + 1 < XOR_NAME_BITS
    /\ \E b \in {0, 1} : their_prefix' = Pushed(their_prefix, b)
    /\ UNCHANGED <<our_history, their_knowledge, their_keys, acks, msgs, verdict>>

\* The neighbour's poll yields TheirKeyInfo for one of our published keys.
HandleTheirKeyInfo ==
    /\ \E i \in 1 .. Len(our_history) :
         their_keys' = UpdateTheirKeys(their_keys, our_history[i])
    /\ UNCHANGED <<our_history, their_knowledge, their_prefix, acks, msgs, verdict>>

\* The neighbour acknowledges the version of the key of ours it holds.
SendAckMessage ==
    /\ \E p \in DOMAIN their_keys :
         acks' = acks \cup {[src_prefix |-> their_prefix, ack_version |-> their_keys[p].version]}
    /\ UNCHANGED <<our_history, their_knowledge, their_keys, their_prefix, msgs, verdict>>

\* Mutant: records the version after the acknowledged one.
HandleAckMessage_next_version ==
    /\ \E a \in acks :
         their_knowledge' = UpdateTheirKnowledge(their_knowledge, a.src_prefix, a.ack_version + 1)
    /\ UNCHANGED <<our_history, their_keys, their_prefix, acks, msgs, verdict>>

\* Our poll yields an AckMessage: update_their_knowledge.  The payload stays
\* in acks, so it may be delivered again, late or never.
HandleAckMessage ==
    /\ \E a \in acks :
         their_knowledge' = UpdateTheirKnowledge(their_knowledge, a.src_prefix, a.ack_version)
    /\ UNCHANGED <<our_history, their_keys, their_prefix, acks, msgs, verdict>>

\* We send a message to a name of the neighbour section, proved by prove();
\* `known` records whether the neighbour then held a key of ours.
SendMessage ==
    /\ Cardinality(msgs) < MaxInFlight
    /\ \E n \in XorNames :
         /\ Matches(their_prefix, n)
         /\ msgs' = msgs \cup {[proof |-> prove(n), known |-> KnowsUs(their_keys, our_history)]}
    /\ UNCHANGED <<our_history, their_knowledge, their_keys, their_prefix, acks, verdict>>

\* History: the neighbour holds a key of ours newer than every key of the
\* proof, so one our section installed after the message was sent.
Rekeyed(keys, proof) ==
    proof # <<>> /\ \E p \in DOMAIN keys : keys[p].version > LastKey(proof).version

\* The neighbour receives one of our messages and runs check_trust on it.
ReceiveMessage ==
    /\ \E m \in msgs :
         /\ msgs' = msgs \ {m}
         /\ verdict' = [ok      |-> check_trust(their_keys, m.proof),
                        known   |-> m.known,
                        rekeyed |-> Rekeyed(their_keys, m.proof)]
    /\ UNCHANGED <<our_history, their_knowledge, their_keys, their_prefix, acks>>

Next ==
    \/ OurInfoInstalled \/ TheirSplit
    \/ HandleTheirKeyInfo \/ SendAckMessage \/ HandleAckMessage
    \/ SendMessage \/ ReceiveMessage

Spec == Init /\ [][Next]_vars

-----------------------------------------------------------------------------
KeyInfos == [prefix : Prefixes, version : 0 .. MaxVersion]

TypeOK ==
    /\ our_history \in Seq(KeyInfos) /\ our_history # <<>>
    /\ DOMAIN their_knowledge \subseteq Prefixes
    /\ \A p \in DOMAIN their_knowledge : their_knowledge[p] \in 0 .. LastKey(our_history).version
    /\ DOMAIN their_keys \subseteq Prefixes
    /\ \A p \in DOMAIN their_keys : their_keys[p] \in KeyInfos
    /\ their_prefix \in Prefixes
    /\ acks \subseteq [src_prefix : Prefixes, ack_version : 0 .. MaxVersion]
    /\ msgs \subseteq [proof : Seq(KeyInfos), known : BOOLEAN]
    /\ verdict \in [ok : BOOLEAN, known : BOOLEAN, rekeyed : BOOLEAN]

\* Once the neighbour holds a key of ours, the proof prove() builds for any
\* name in its section passes its check_trust, however the acks that set
\* their_knowledge were duplicated, reordered or lost, and across our splits
\* and theirs: prove slices our_history by the acknowledged *version*, which
\* must be the index of that version's key in our_history.
ProofTrusted ==
    KnowsUs(their_keys, our_history) =>
        \A n \in XorNames : Matches(their_prefix, n) => check_trust(their_keys, prove(n))

\* A message of ours sent when the neighbour held a key of ours is rejected
\* by check_trust on arrival only if the neighbour has since learned a key
\* our section installed after the message was sent: their_keys keeps the
\* latest key per prefix, so the key the proof was built for may be gone,
\* but every key up to our latest at sending time is in the proof.
RejectedOnlyIfRekeyed == verdict.known /\ ~verdict.ok => verdict.rekeyed

=============================================================================
