--------------------------- MODULE PointInTimeJoin ---------------------------
(***************************************************************************)
(* The training frame of the feature store: for every label, the features  *)
(* known at the label's time.  features/core/pit_join.py does it with      *)
(* pandas' merge_asof, stores/offline/duckdb_store.py in SQL.              *)
(*                                                                         *)
(* A feature row is [entity, ts, vals]: vals maps the columns its batch    *)
(* had to values.  A label is [entity, ts].  Of several rows of an entity  *)
(* with one timestamp either backend takes any (both sorts are unstable),  *)
(* so the operators return the set of rows that may be taken.              *)
(***************************************************************************)
EXTENDS Naturals

CONSTANT Null          \* NaN: no value

ASSUME NullAssumption == Null \notin Nat

\* The columns of the concatenated partitions, and a row's value in one: NaN
\* when the batch of the row did not have that column.
Columns(rows) == UNION {DOMAIN r.vals : r \in rows}
CellValue(row, f) == IF f \in DOMAIN row.vals THEN row.vals[f] ELSE Null

\* The last row of every entity in a set of rows (_latest_per_entity).
LatestOf(rows, e) ==
  {r \in rows : r.entity = e /\ \A q \in rows : q.entity = e => q.ts <= r.ts}

\* merge_asof(direction="backward", by=entity): one pass over the sorted rows
\* that remembers the last one of each entity, null or not.
LastKnown(rows, e) ==
  LET at(t) == {r \in rows : r.entity = e /\ r.ts = t}
      known[t \in Nat] == IF at(t) # {} THEN at(t)
                          ELSE IF t = 0 THEN {} ELSE known[t - 1]
  IN known

\* Mutant: the first row after the label counts, too.
AsofMatchNearest(rows, label) == LastKnown(rows, label.entity)[label.ts + 1]
AsofMatch(rows, label) == LastKnown(rows, label.entity)[label.ts]

\* SELECT DISTINCT ON (entity, ts) ... LEFT JOIN ... f.ts <= e.ts
\* ORDER BY ..., f.ts DESC: the first row of every group.
SqlMatch(rows, label) ==
  LET joined == {r \in rows : r.entity = label.entity /\ r.ts <= label.ts}
  IN {r \in joined : \A q \in joined : q.ts <= r.ts}

\* fill_strategy: "zero" replaces NaN, "none" and "last_known" leave it.
Filled(v, fill) == IF v = Null /\ fill = "zero" THEN 0 ELSE v

\* The feature columns one label may get, given the rows that may match.
Joined(rows, matches, fill) ==
  IF matches = {} THEN {[f \in Columns(rows) |-> Filled(Null, fill)]}
  ELSE {[f \in Columns(rows) |-> Filled(CellValue(r, f), fill)] : r \in matches}

\* The entities the join may report: those with SOME label all of whose
\* feature columns are null, whether or not a row matched.
Uncovered(rows, labels) ==
  {l.entity : l \in {k \in labels : \E v \in Joined(rows, AsofMatch(rows, k), "none") :
                                      \A f \in DOMAIN v : v[f] = Null}}
=============================================================================
