---------------------------- MODULE MCRateLimiter ----------------------------
(* Instances of RateLimiter for TLC. *)
EXTENDS RateLimiter, TLC

CONSTANTS w1, w2

\* One key with a limit of one; no limit; no keys, on purpose and by mistake.
MCSettings == {[keys |-> {"ann"}, allow |-> FALSE, limit |-> 1],
               [keys |-> {"ann"}, allow |-> FALSE, limit |-> 0],
               [keys |-> {}, allow |-> TRUE, limit |-> 1],
               [keys |-> {}, allow |-> FALSE, limit |-> 1]}

WorkersAlike == Permutations({w1, w2})
=============================================================================
