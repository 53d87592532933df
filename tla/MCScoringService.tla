-------------------------- MODULE MCScoringService --------------------------
(* Small instances of ScoringService for TLC.  The Log, the bodies of the  *)
(* requests and the owners of the transactions are chosen so that the      *)
(* threads meet on one user, or never do.                                  *)
EXTENDS ScoringService

TwoUsers == {"ann", "bob"}
TwoDevices == {"phone", "laptop"}

\* Two transactions of bob around and between three of ann.
FiveTx == {"b1", "b2", "a1", "a2", "a3"}
Owner == [x \in FiveTx |-> IF x \in {"b1", "b2"} THEN "bob" ELSE "ann"]
Origin == [x \in FiveTx |-> IF x \in {"b2", "a2"} THEN "laptop" ELSE "phone"]

OneRequest == {"h1"}
BobPosts == [h \in OneRequest |-> "b1"]
AnnPosts == [h \in OneRequest |-> "a1"]

AnnStreams == <<"a2", "a3">>
AnnStreamsOne == <<"a2">>
BothStream == <<"b2", "a1", "a2", "a3">>

ProcessFaults == {"reply", "db", "commit", "broker", "crash", "stop", "slow"}
HistoryFaults == {"redis", "evict", "stop"}
LiveFaults == {"redis", "db", "hang", "crash", "stop"}
=============================================================================
