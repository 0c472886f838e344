-------------------------- MODULE MCProofPipeline ---------------------------
EXTENDS ProofPipeline, TLC

CONSTANTS a1, a2, a3, c1, c2, c3, x1, x2, t1, t2, h1, h2

(* a1 is in two consecutive calendar blocks (the look-back), both under    *)
(* the first anchor; a3 is in a block of the second one.                   *)
MCCalLeaves == (c1 :> {a1}) @@ (c2 :> {a1, a2}) @@ (c3 :> {a3})
MCAnchorLeaves == (x1 :> {c1, c2}) @@ (x2 :> {c3})
MCTxAnchor == (t1 :> x1) @@ (t2 :> x2)
MCArrival ==
    <<[type |-> "cal_batch", id |-> c1], [type |-> "cal_batch", id |-> c2],
      [type |-> "anchor_btc_agg_batch", id |-> x1], [type |-> "btctx", id |-> t1],
      [type |-> "btcmon", id |-> t1], [type |-> "cal_batch", id |-> c3],
      [type |-> "anchor_btc_agg_batch", id |-> x2], [type |-> "btctx", id |-> t2],
      [type |-> "btcmon", id |-> t2]>>

(* Model bound: the second anchor's messages are handled one at a time and *)
(* only while nothing has failed; two handlers and a failure are for the   *)
(* first one.                                                              *)
SecondAnchor == {MCArrival[n] : n \in 6..9}
Working == {h \in Handler : Busy(h)}
Bound ==
    \/ faults = 0 /\ Cardinality(Working) <= 1
    \/ SecondAnchor \subseteq queue /\ \A m \in SecondAnchor : ~InHand(m)

Symmetry == Permutations({h1, h2})
=============================================================================
