---------------------------- MODULE MCMonitorCore ----------------------------
(* Instances of MonitorCore for TLC. *)
EXTENDS MonitorCore, TLC

CONSTANTS l1, l2, p1, p2

\* A row far from the first reference, mispredicted; one near it, whose label
\* is a text; one far from both, with a text in its age.
Far == [x |-> "far", pred |-> "1", label |-> "0"]
Near == [x |-> "near", pred |-> "1", label |-> "text"]
Odd == [x |-> "odd", pred |-> "1", label |-> "none"]
OneKind == {Far}
AllKinds == {Far, Near, Odd}
OneColumn == <<"amount">>
TwoColumns == <<"amount", "age">>

\* The amount: the share of rows unlike the reference, in tenths of a third.
\* The age never drifts.
MCDataTest(column, ref, rows) ==
  IF column = "age" /\ \E i \in DOMAIN rows : rows[i].x = "odd" THEN None
  ELSE [score |-> IF column = "age" THEN 0
                  ELSE (3 * Cardinality({i \in DOMAIN rows : rows[i].x # ref})) \div Len(rows),
        p |-> None]
MCPredictionTest(rows) == [score |-> 0, shifted |-> FALSE]
MCConceptTest(errors) == Len(errors) >= 2 /\ \A i \in DOMAIN errors : errors[i] = 1

Alike == Permutations({l1, l2}) \union Permutations({p1, p2})
=============================================================================
