------------------------------ MODULE MCChain -------------------------------
(* Model of one node starting in the genesis section "" of three members,  *)
(* with one candidate whose joining makes the section split.              *)
EXTENDS ChainQueries

N000 == <<0, 0, 0>>
N010 == <<0, 1, 0>>
N100 == <<1, 0, 0>>
N110 == <<1, 1, 0>>
N101 == <<1, 0, 1>>

MCIds            == {N000, N010, N100, N110}
MCGenesisMembers == {N000, N010, N100}
MCJoiners        == {N110}
MCLeavers        == {}

(* Parsec accumulates N100's promotion to elder at any time.              *)
MCChurn          == {ElderEvent("AddElder", N100)}
MCNoChurn        == {}

(* connected_peers for targets(): every other node but one of our section. *)
MCConnected      == {N100, N110, N101}

(* Departures: a four-member genesis section from which two members may   *)
(* leave; with min_sec_size 2 the second departure reaches the minimum.   *)
MCGenesisAll     == MCIds
MCNoJoiners      == {}
MCTwoLeavers     == {N010, N100}
MCOneLeaver      == {N010}

(* Two candidates: N101 makes the section split, and N110, voted online   *)
(* before the split, lands in the sibling half.                            *)
MCIds5           == MCIds \cup {N101}
MCJoinersBoth    == {N101, N110}

(* State constraint: the other sections keep their prefix (they churn but  *)
(* do not split), so a run can reach more SectionInfo versions.           *)
MCNetUnsplit     == \A i \in net_infos : i.prefix.bit_count <= 1
=============================================================================
