--------------------------- MODULE FeatureHistory ---------------------------
(***************************************************************************)
(* The rolling history of one user, the way the two sides keep it: the     *)
(* scorer as a Redis list, newest first, trimmed after every push          *)
(* (scorer/redis_store.py), and the trainer as a Python list, oldest       *)
(* first, of which it keeps the last HISTORY_LEN (training/train.py).  An  *)
(* amount is represented by the transaction it belongs to.                 *)
(***************************************************************************)
EXTENDS Naturals, SequencesExt

CONSTANT HistoryLen   \* HISTORY_LEN, and the 30 of build_feature_matrix

ASSUME HistoryAssumption == HistoryLen \in Nat \ {0}

\* Mutant: the list is not trimmed.
LpushUntrimmed(list, a) == <<a>> \o list

\* LPUSH, then LTRIM 0 HISTORY_LEN-1.
LpushLtrim(list, a) ==
  IF Len(list) < HistoryLen THEN <<a>> \o list
                            ELSE <<a>> \o SubSeq(list, 1, HistoryLen - 1)

\* Mutant: the list is read as Redis keeps it.
NewestFirst(list) == list

\* What get_history hands to the features: LRANGE 0 HISTORY_LEN-1, reversed.
OldestFirst(list) == Reverse(list)

\* history.append(amount); history = history[-30:]
AppendKeepLast(history, a) ==
  IF Len(history) < HistoryLen THEN Append(history, a)
                               ELSE Append(Tail(history), a)
=============================================================================
