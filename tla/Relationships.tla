--------------------------- MODULE Relationships ---------------------------
(***************************************************************************)
(* Foreign keys proposed from data, data/relationships.py.  A table is one *)
(* candidate column: how often each value occurs in it, how many NULLs,    *)
(* and its name.  Columns of different type families are never compared;   *)
(* here all are of one.                                                    *)
(***************************************************************************)
EXTENDS Integers, FiniteSets, FiniteSetsExt

CONSTANTS
    Values,
    MinRows,             \* MIN_ROWS
    MinTargetDistinct,   \* MIN_TARGET_DISTINCT
    SmallTargetDistinct, \* SMALL_TARGET_DISTINCT
    MinContainment       \* MIN_CONTAINMENT, in percent

ASSUME RelationshipsAssumption ==
    /\ IsFiniteSet(Values)
    /\ {MinRows, MinTargetDistinct, SmallTargetDistinct, MinContainment} \subseteq Nat

Present(t) == {v \in Values : t.count[v] > 0}
NotNull(t) == SumFunctionOnSet(t.count, Values)
RowCount(t) == NotNull(t) + t.nulls

NamesAgree(s, t) == s.name = t.name

(* The share, in percent, of the source's distinct values in the target.    *)
Containment(s, t) ==
    IF Present(s) = {} THEN 0
    ELSE (100 * Cardinality(Present(s) \cap Present(t))) \div Cardinality(Present(s))

(* Mutant: a few repetitions are let pass.                                  *)
IsKeyAlmost(t) == Cardinality(Present(t)) >= MinTargetDistinct
IsKey(t) == Cardinality(Present(t)) >= MinTargetDistinct /\ Cardinality(Present(t)) = NotNull(t)

Supported(s, t) ==
    /\ Containment(s, t) >= MinContainment
    /\ Cardinality(Present(t)) >= SmallTargetDistinct \/ NamesAgree(s, t)

Found(tables) ==
    {e \in (DOMAIN tables) \X (DOMAIN tables) :
        LET s == tables[e[1]] t == tables[e[2]] IN
        e[1] # e[2] /\ RowCount(s) >= MinRows /\ RowCount(t) >= MinRows /\ IsKey(t) /\ Supported(s, t)}

Confidence(tables, e) ==
    LET s == tables[e[1]] t == tables[e[2]]
        score == Containment(s, t) + (IF NamesAgree(s, t) THEN 5 ELSE 0)
    IN  IF score > 100 THEN 100 ELSE score

(* Strongest first, then by name; what is left is the order of the tables.  *)
Beats(tables, e, f) ==
    \/ Confidence(tables, e) > Confidence(tables, f)
    \/ /\ Confidence(tables, e) = Confidence(tables, f)
       /\ \/ NamesAgree(tables[e[1]], tables[e[2]]) /\ ~NamesAgree(tables[f[1]], tables[f[2]])
          \/ /\ NamesAgree(tables[e[1]], tables[e[2]]) = NamesAgree(tables[f[1]], tables[f[2]])
             /\ e[2] < f[2]

(* Only the best target for a source column.                                *)
Detect(tables) ==
    {e \in Found(tables) : \A f \in Found(tables) : f[1] = e[1] /\ f # e => Beats(tables, e, f)}

-----------------------------------------------------------------------------
(* The rows of a LEFT JOIN of a table with all its proposed targets.        *)
Matches(t, v) == IF t.count[v] = 0 THEN 1 ELSE t.count[v]
Copies(tables, i, v) ==
    FoldFunction(LAMBDA m, n : m * n, 1, [e \in {f \in Detect(tables) : f[1] = i} |-> Matches(tables[e[2]], v)])
JoinedRows(tables, i) ==
    LET s == tables[i]
    IN  s.nulls + SumFunctionOnSet([v \in Values |-> s.count[v] * Copies(tables, i, v)], Values)

(* Joining what is proposed neither multiplies nor drops a row, a column    *)
(* has one target, and a column that has a candidate keeps one at least as  *)
(* well contained, bar the five points a name is worth.                     *)
ProposesSafely(tables) ==
    /\ \A i \in DOMAIN tables : JoinedRows(tables, i) = RowCount(tables[i])
    /\ \A e, f \in Detect(tables) : e[1] = f[1] => e = f
    /\ \A e \in Found(tables) : \E f \in Detect(tables) :
          /\ f[1] = e[1]
          /\ Containment(tables[f[1]], tables[f[2]]) + 5 >= Containment(tables[e[1]], tables[e[2]])
=============================================================================
