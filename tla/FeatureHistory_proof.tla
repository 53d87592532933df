------------------------ MODULE FeatureHistory_proof ------------------------
(* What the two histories have to do with each other.                      *)
EXTENDS FeatureHistory, SequenceTheorems, TLAPS

(* Reading a list backwards: what it returns.                              *)
LEMMA OldestFirstIs ==
  ASSUME NEW S, NEW list \in Seq(S)
  PROVE  /\ OldestFirst(list) \in Seq(S)
         /\ Len(OldestFirst(list)) = Len(list)
         /\ \A i \in 1 .. Len(list) : OldestFirst(list)[i] = list[Len(list) - i + 1]
BY DEF OldestFirst, Reverse

(* "Same shape the offline trainer replays in-memory, so online features   *)
(* match training features exactly" (redis_store.py:3-4): one more         *)
(* transaction does the same to the list Redis keeps, read back oldest     *)
(* first, as to the list the trainer keeps, at and below the limit.        *)
THEOREM OnlineIsOffline ==
  ASSUME NEW S, NEW list \in Seq(S), Len(list) <= HistoryLen, NEW a \in S
  PROVE  /\ OldestFirst(LpushLtrim(list, a)) = AppendKeepLast(OldestFirst(list), a)
         /\ LpushLtrim(list, a) \in Seq(S)
         /\ Len(LpushLtrim(list, a)) <= HistoryLen
<1> DEFINE n == Len(list)
           old == OldestFirst(list)
           new == LpushLtrim(list, a)
<1>1. n \in Nat /\ HistoryLen \in Nat /\ HistoryLen > 0
  BY HistoryAssumption
<1>2. old \in Seq(S) /\ Len(old) = n /\ \A i \in 1 .. n : old[i] = list[n - i + 1]
  BY OldestFirstIs
<1>3. CASE n < HistoryLen
  <2>1. /\ new \in Seq(S) /\ Len(new) = n + 1 /\ new[1] = a
        /\ \A i \in 2 .. n + 1 : new[i] = list[i - 1]
    BY <1>1, <1>3 DEF LpushLtrim
  <2>2. /\ OldestFirst(new) \in Seq(S) /\ Len(OldestFirst(new)) = n + 1
        /\ \A i \in 1 .. n + 1 : OldestFirst(new)[i] = new[n + 1 - i + 1]
    BY <2>1, OldestFirstIs
  <2>3. AppendKeepLast(old, a) = Append(old, a)
    BY <1>2, <1>3 DEF AppendKeepLast
  <2>4. /\ Append(old, a) \in Seq(S) /\ Len(Append(old, a)) = n + 1
        /\ \A i \in 1 .. n : Append(old, a)[i] = list[n - i + 1]
        /\ Append(old, a)[n + 1] = a
    BY <1>1, <1>2
  <2>5. \A i \in 1 .. n + 1 : OldestFirst(new)[i] = Append(old, a)[i]
    <3> HIDE DEF new, old, n
    <3> TAKE i \in 1 .. n + 1
    <3>0. i = n + 1 \/ i \in 1 .. n
      BY <1>1
    <3>1. CASE i = n + 1
      BY <1>1, <2>1, <2>2, <2>4, <3>1
    <3>2. CASE i \in 1 .. n
      <4>1. OldestFirst(new)[i] = new[n - i + 2] /\ n - i + 2 \in 2 .. n + 1
        BY <1>1, <2>2, <3>2
      <4>2. \A j \in 2 .. n + 1 : new[j] = list[j - 1]
        BY <2>1
      <4>3. new[n - i + 2] = list[n - i + 2 - 1]
        BY <1>1, <4>1, <4>2
      <4> QED BY <1>1, <2>4, <3>2, <4>1, <4>3
    <3> QED BY <3>0, <3>1, <3>2
  <2>6. OldestFirst(new) = Append(old, a)
    BY <2>2, <2>4, <2>5, SeqEqual
  <2> QED BY <1>1, <1>3, <2>1, <2>3, <2>6
<1>4. CASE n = HistoryLen
  <2>1. /\ new \in Seq(S) /\ Len(new) = n /\ new[1] = a
        /\ \A i \in 2 .. n : new[i] = list[i - 1]
    <3>1. /\ SubSeq(list, 1, n - 1) \in Seq(S) /\ Len(SubSeq(list, 1, n - 1)) = n - 1
          /\ \A i \in 1 .. n - 1 : SubSeq(list, 1, n - 1)[i] = list[i]
      BY <1>1, <1>4
    <3>2. new = <<a>> \o SubSeq(list, 1, n - 1)
      BY <1>4 DEF LpushLtrim
    <3> HIDE DEF new
    <3> QED BY <1>1, <1>4, <3>1, <3>2
  <2>2. /\ OldestFirst(new) \in Seq(S) /\ Len(OldestFirst(new)) = n
        /\ \A i \in 1 .. n : OldestFirst(new)[i] = new[n - i + 1]
    BY <2>1, OldestFirstIs
  <2>3. AppendKeepLast(old, a) = Append(Tail(old), a)
    BY <1>2, <1>4 DEF AppendKeepLast
  <2>4. /\ Tail(old) \in Seq(S) /\ Len(Tail(old)) = n - 1
        /\ \A i \in 1 .. n - 1 : Tail(old)[i] = old[i + 1]
    BY <1>1, <1>2, <1>4
  <2>5. /\ Append(Tail(old), a) \in Seq(S) /\ Len(Append(Tail(old), a)) = n
        /\ \A i \in 1 .. n - 1 : Append(Tail(old), a)[i] = Tail(old)[i]
        /\ Append(Tail(old), a)[n] = a
    BY <1>1, <1>4, <2>4
  <2>6. \A i \in 1 .. n : OldestFirst(new)[i] = Append(Tail(old), a)[i]
    <3> HIDE DEF new, old, n
    <3> TAKE i \in 1 .. n
    <3>0. i = n \/ i \in 1 .. n - 1
      BY <1>1
    <3>1. CASE i = n
      BY <1>1, <2>1, <2>2, <2>5, <3>1
    <3>2. CASE i \in 1 .. n - 1
      <4>1. OldestFirst(new)[i] = new[n - i + 1] /\ n - i + 1 \in 2 .. n
        BY <1>1, <2>2, <3>2
      <4>2. new[n - i + 1] = list[n - i + 1 - 1]
        BY <2>1, <4>1
      <4>3. Append(Tail(old), a)[i] = old[i + 1] /\ i + 1 \in 1 .. n
        BY <1>1, <2>4, <2>5, <3>2
      <4>4. old[i + 1] = list[n - (i + 1) + 1]
        BY <1>2, <4>3
      <4>5. n - (i + 1) + 1 = n - i + 1 - 1
        BY <1>1, <3>2
      <4> QED BY <4>1, <4>2, <4>3, <4>4, <4>5
    <3> QED BY <3>0, <3>1, <3>2
  <2>7. OldestFirst(new) = Append(Tail(old), a)
    BY <2>2, <2>5, <2>6, SeqEqual
  <2> QED BY <1>1, <1>4, <2>1, <2>3, <2>7
<1> QED BY <1>1, <1>3, <1>4
=============================================================================
