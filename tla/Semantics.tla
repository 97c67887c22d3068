----------------------------- MODULE Semantics ------------------------------
(***************************************************************************)
(* What each column of a cleaned table means, data/semantics.py, and the   *)
(* metrics and predictions that follow from it, data/metrics.py.           *)
(***************************************************************************)
EXTENDS Naturals, Sequences

(* A column as the classifier sees it: its type after cleaning, what its    *)
(* name says (the tag of the first pattern that matches, and whether it     *)
(* ends like a key), whether it holds enough to be used, and how far its    *)
(* values repeat: "few" to group by, "most" differ, or all but "all".       *)
Tags == {"monetary", "quantity", "cost", "customer_key", "order_key", "other", "none"}
Column == [type : {"text", "integer", "decimal", "boolean", "date"}, tag : Tags,
           key : BOOLEAN, usable : BOOLEAN, distinct : {"few", "most", "all"}]

Numeric(c) == c.type \in {"integer", "decimal"}
NamedAsKey(c) == c.key \/ (Numeric(c) /\ c.tag \in {"customer_key", "order_key"})
RepeatsTooLittle(c) ==
    \/ c.type = "integer" /\ c.distinct = "all"
    \/ c.type = "text" /\ c.distinct # "few"

(* Names decide before statistics: a number that is named like a key is one. *)
RoleByStatistics(c) ==
    CASE ~c.usable -> "ignored"
      [] c.usable /\ c.type = "date" -> "time"
      [] c.usable /\ c.type \in {"integer", "decimal", "text"} /\ RepeatsTooLittle(c) -> "identifier"
      [] c.usable /\ Numeric(c) /\ ~RepeatsTooLittle(c) -> "measure"
      [] OTHER -> "dimension"

Role(c) ==
    CASE ~c.usable -> "ignored"
      [] c.usable /\ c.type = "date" -> "time"
      [] c.usable /\ c.type \in {"integer", "decimal", "text"} /\ (NamedAsKey(c) \/ RepeatsTooLittle(c)) ->
            "identifier"
      [] c.usable /\ Numeric(c) /\ ~NamedAsKey(c) /\ ~RepeatsTooLittle(c) -> "measure"
      [] OTHER -> "dimension"

Tag(c) ==
    IF Role(c) = "time" THEN "event_date"
    ELSE IF c.tag = "none" /\ Role(c) = "measure" THEN "quantity"
    ELSE c.tag

Classify(columns) == [i \in DOMAIN columns |-> [role |-> Role(columns[i]), tag |-> Tag(columns[i])]]

(* The first column that fits, as a set of at most one.                     *)
FirstThat(S) == {i \in S : \A j \in S : i <= j}
FirstWith(s, tag, roles) == FirstThat({i \in DOMAIN s : s[i].tag = tag /\ s[i].role \in roles})
AnyRole == {"ignored", "time", "identifier", "measure", "dimension"}

Revenue(s) == FirstWith(s, "monetary", {"measure"})
Quantity(s) == FirstWith(s, "quantity", {"measure"})
Cost(s) == FirstWith(s, "cost", {"measure"})
Customer(s) == FirstWith(s, "customer_key", AnyRole)
Order(s) == FirstWith(s, "order_key", AnyRole)
TimeAxis(s) == FirstThat({i \in DOMAIN s : s[i].role = "time"})

(* build_kpi_specs: each metric with the columns it adds up, or averages,   *)
(* and those whose distinct values it counts; it exists when they do.       *)
Metric(key, sums, counts, needed) ==
    IF {} \in needed THEN {} ELSE {[key |-> key, sums |-> sums, counts |-> counts]}

Kpis(s) ==
    LET r == Revenue(s) q == Quantity(s) k == Cost(s) c == Customer(s) o == Order(s) IN
    UNION {Metric("row_count", {}, {}, {}),
           Metric("total_revenue", r, {}, {r}), Metric("average_transaction", r, {}, {r}),
           Metric("total_units", q, {}, {q}),
           Metric("unique_customers", {}, c, {c}), Metric("order_count", {}, o, {o}),
           Metric("average_order_value", r, o, {r, o}),
           Metric("revenue_per_customer", r, c, {r, c}), Metric("repeat_customer_rate", {}, c, {r, c}),
           Metric("gross_margin", r \cup k, {}, {r, k})}

(* available_predictions, for the specialists of a briefing.                *)
Supports(s) ==
    [time |-> TimeAxis(s) # {},
     dimension |-> \E i \in DOMAIN s : s[i].role = "dimension",
     customer |-> Customer(s) # {}]

-----------------------------------------------------------------------------
(* No metric adds up a column that is not a number, that is named as a key  *)
(* or that is all but empty, and the margin subtracts costs from revenue.   *)
SumsMeaningfully(columns) ==
    \A kpi \in Kpis(Classify(columns)) :
        /\ \A i \in kpi.sums : Numeric(columns[i]) /\ ~NamedAsKey(columns[i]) /\ columns[i].usable
        /\ kpi.key = "gross_margin" => \E i, j \in kpi.sums :
              columns[i].tag = "monetary" /\ columns[j].tag = "cost"
=============================================================================
