---------------------------- MODULE MCPaperService ----------------------------
(* Instances of PaperService for TLC.                                        *)
EXTENDS PaperService, TLC

CONSTANTS r1, r2, o1, o2, o3, i1, i2, v1, v2, st1

Intent(r, i, side, quantity, reduce_only) ==
    [run |-> r, pool |-> "portfolio", instrument |-> i, strategy |-> st1, side |-> side,
     quantity |-> quantity, reduce_only |-> reduce_only]

OneVenue == i1 :> v1
TwoVenues == i1 :> v1 @@ i2 :> v2

NoScopes == {}
MCLatchScopes == {GlobalScope, <<"VENUE", v1>>}
MCStopScopes == {<<"STRATEGY", st1>>}
Symmetry == Permutations(Workers)

\* A buy and a sell of the same size compete for one pool; a reduce-only sell
\* may join them.
MCOrderSpec == o1 :> Intent(r1, i1, 1, 2, FALSE)
            @@ o2 :> Intent(r1, i1, -1, 2, FALSE)
            @@ o3 :> Intent(r1, i1, -1, 1, TRUE)
===============================================================================
