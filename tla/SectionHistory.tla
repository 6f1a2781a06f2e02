---------------------------- MODULE SectionHistory ----------------------------
(***************************************************************************)
(* What a node's chain promises about its own section (spec sections 3-4):*)
(* the SectionInfos it installs form one history from the genesis info,   *)
(* each entry the successor of the one before (version + 1) and differing *)
(* from it by one churn step: a member added, a member removed, or the    *)
(* split of the section into the half that holds this node, whose members *)
(* are the section's members, with a joining one, that match the half.    *)
(***************************************************************************)
EXTENDS Prefix, Sequences

CONSTANTS
    Ids,       \* names of the nodes that can be members
    OurName,   \* the node whose history this is
    Genesis    \* the first SectionInfo: [prefix, version, members]

VARIABLE history

Last == history[Len(history)]

\* Install the successor of the last info.
Grow(members, prefix) ==
    history' = Append(history, [prefix  |-> prefix,
                                version |-> Last.version + 1,
                                members |-> members])

AddMember    == \E id \in Ids \ Last.members : Grow(Last.members \cup {id}, Last.prefix)

RemoveMember == \E id \in Last.members : Grow(Last.members \ {id}, Last.prefix)

\* Our half of the split that a joining node brought about.
SplitSelf ==
    LET half == Pushed(Last.prefix, Bit(OurName, Last.prefix.bit_count))
    IN  \E id \in Ids \ Last.members :
           Grow({m \in Last.members \cup {id} : Matches(half, m)}, half)

Init == history = <<Genesis>>

Next == AddMember \/ RemoveMember \/ SplitSelf

Spec == Init /\ [][Next]_history

=============================================================================
