---------------------------- MODULE MCFeatureStore ----------------------------
(* Instances of FeatureStore for TLC. *)
EXTENDS FeatureStore, TLC

CONSTANTS t1, t2, u, f, g

RowOf(e, ts, x) == [entity |-> e, ts |-> ts, vals |-> x]

Both == [online |-> TRUE, offline |-> TRUE]

\* The group with two features, with one, and without an offline store.
MCSpecs == {[row |-> Both, feats |-> {f, g}],
            [row |-> Both, feats |-> {g}],
            [row |-> [online |-> TRUE, offline |-> FALSE], feats |-> {f, g}]}

\* Two timestamps to a date.  An early row; a batch that falls into two dates,
\* with another value for the first timestamp and a null in its later row; a
\* batch that no group asks for.
MCBatches ==
  { {RowOf(u, 1, (f :> 1) @@ (g :> 1))},
    {RowOf(u, 1, (f :> 4) @@ (g :> 4)), RowOf(u, 3, (f :> 2) @@ (g :> Null))},
    {RowOf(u, 3, (f :> 3))} }

ThreadsAlike == Permutations({t1, t2})
=============================================================================
