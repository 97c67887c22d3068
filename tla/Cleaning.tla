------------------------------ MODULE Cleaning ------------------------------
(***************************************************************************)
(* How a text column is profiled (data/profiling.py), what the plan does   *)
(* to it (data/cleaning.py) and what the user is told of it                *)
(* (data/validation.py).  A column is a bag of cells; a cell is what kind  *)
(* of text it holds and whether spaces surround it.                        *)
(***************************************************************************)
EXTENDS Integers, FiniteSets, FiniteSetsExt

CONSTANTS
    Counts,         \* how often a cell occurs
    MaxCells,       \* bound: different cells of a column
    Coercion,       \* COERCION_THRESHOLD, in percent
    MixedLower,     \* MIXED_TYPE_LOWER
    MixedUpper      \* MIXED_TYPE_UPPER

ASSUME CleaningAssumption ==
    /\ Counts \subseteq Nat \ {0} /\ {Coercion, MixedLower, MixedUpper} \subseteq 0..100 /\ MaxCells \in Nat
    /\ MixedUpper <= Coercion  \* one number, written in two files

(* A "bit" is 0 or 1, "money" carries symbols or separators, a "token" is   *)
(* blank or one of NULL_TOKENS.                                             *)
Kinds == {"null", "token", "number", "money", "bit", "word", "date", "text"}
Cell == [kind : Kinds, padded : BOOLEAN]
TextColumns == UNION {[S -> Counts] : S \in UNION {kSubset(n, Cell) : n \in 1..MaxCells}}

NumberLike == {"number", "money", "bit"}
TruthLike  == {"bit", "word"}
DateLike   == {"date"}

HowMany(column, S) == SumFunctionOnSet(column, DOMAIN column \cap S)
OfKinds(K) == {c \in Cell : c.kind \in K}
RealValues == {c \in Cell : c.kind \notin {"null", "token"}}
Padded == {c \in Cell : c.padded /\ c.kind # "null"}

(* The profile: placeholders are no evidence against a type.                *)
Fraction(column, K) ==
    [of |-> 100 * HowMany(column, OfKinds(K)), outOf |-> HowMany(column, RealValues)]
AtLeast(f, percent) == f.outOf > 0 /\ f.of >= percent * f.outOf

(* plan_column.  Mutant: trimming is decided by the blank values.           *)
TrimsByBlanks(column) == HowMany(column, OfKinds({"token"})) > 0
Trims(column) == HowMany(column, Padded) > 0 \/ HowMany(column, OfKinds({"token"})) > 0
Nullifies(column) == HowMany(column, OfKinds({"token"})) > 0

ResultingType(column) ==
    IF AtLeast(Fraction(column, TruthLike), Coercion) THEN "boolean"
    ELSE IF AtLeast(Fraction(column, DateLike), Coercion) THEN "date"
    ELSE IF AtLeast(Fraction(column, NumberLike), Coercion) THEN "decimal"
    ELSE "text"

(* build_clean_sql on one cell: the trimming comes first, for without it no *)
(* word is recognised; a value that does not parse becomes NULL.            *)
Trimmed(column, c) == [c EXCEPT !.padded = @ /\ ~Trims(column)]
Casts(type, c) ==
    CASE type = "boolean" -> c.kind \in TruthLike /\ ~c.padded
      [] type = "date"    -> c.kind \in DateLike
      [] type = "decimal" -> c.kind \in NumberLike
      [] OTHER            -> TRUE

Cleaned(column, c) ==
    LET t == Trimmed(column, c) IN
    IF \/ t.kind = "token" /\ ~t.padded /\ Nullifies(column)
       \/ ~Casts(ResultingType(column), t)
    THEN [kind |-> "null", padded |-> FALSE] ELSE t

(* check_column: "mixes numbers and text ... It was left as text".          *)
ReportsMixed(column) ==
    LET f == Fraction(column, NumberLike) IN AtLeast(f, MixedLower) /\ ~AtLeast(f, MixedUpper)

-----------------------------------------------------------------------------
(* Cleaning discards at most the share of real values that the threshold    *)
(* allows, leaves no padding and no placeholder, and never turns a column   *)
(* into numbers of which the user is told that it was left as text.         *)
Lost(column) == HowMany(column, {c \in DOMAIN column \cap RealValues : Cleaned(column, c).kind = "null"})
CleansFaithfully(column) ==
    /\ 100 * Lost(column) <= (100 - Coercion) * HowMany(column, RealValues)
    /\ \A c \in DOMAIN column :
          c.kind # "null" => ~Cleaned(column, c).padded /\ Cleaned(column, c).kind # "token"
    /\ ReportsMixed(column) => ResultingType(column) # "decimal"
=============================================================================
