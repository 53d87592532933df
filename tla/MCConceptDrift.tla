---------------------------- MODULE MCConceptDrift ----------------------------
(* Instances of ConceptDrift for TLC. *)
EXTENDS ConceptDrift, TLC

\* All right; all wrong; one wrong in four.
MCPatterns == {[period |-> 1, wrong |-> 0], [period |-> 1, wrong |-> 1],
               [period |-> 4, wrong |-> 1]}
=============================================================================
