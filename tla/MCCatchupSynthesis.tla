------------------------- MODULE MCCatchupSynthesis -------------------------
(***************************************************************************)
(* Finite instance of CatchupSynthesis: a relay source "a" whose http_root *)
(* is hls/<type>/a/<output> and a proxy source "b", both hosted; u1 has    *)
(* both in its streams, u2 only "a"; one title, two windows, three ids.    *)
(***************************************************************************)
EXTENDS CatchupSynthesis, TLC

CONSTANTS u1, u2, a, b, RELAY

MCUserSources == (u1 :> {a, b}) @@ (u2 :> {a})

MCSourceType == (a :> RELAY) @@ (b :> PROXY)

MCSourceRoot == (a :> <<"hls", RELAY, "a", "0">>) @@ (b :> <<"hls", PROXY, "b", "0">>)

MCCatchupsRoot == <<"catchups">>

\* The parts field of both sources is among the fields MakeChannelInfo reads.
MCPartsVisible == [s \in Sources |-> TRUE]

\* The parts field of both sources is appended after their other fields.
MCPartsHidden == [s \in Sources |-> FALSE]

\* Fresh ids are interchangeable.
MCSymmetry == Permutations(CatchupIds)
=============================================================================
