---------------------------- MODULE Contribution ----------------------------
(***************************************************************************)
(* Which segment explains a change: data/contribution.py, ranked by        *)
(* services/investigation.py and phrased by the investigator of            *)
(* services/fleet.py.  A dimension is the change of each of its segments;  *)
(* ratios are compared as products, for the code's floats are exact here.  *)
(***************************************************************************)
EXTENDS Integers, Sequences, FiniteSets, FiniteSetsExt

CONSTANTS
    Segments,
    MaxListed,  \* MAX_SEGMENTS
    MaxDelta    \* bound: how far a segment may move

ASSUME ContributionAssumption ==
    IsFiniteSet(Segments) /\ Segments # {} /\ MaxListed \in Nat \ {0} /\ MaxDelta \in Nat

Movement == [Segments -> (-MaxDelta)..MaxDelta]

Abs(n) == IF n < 0 THEN -n ELSE n
Sizes(d) == [s \in Segments |-> Abs(d[s])]
Largest(d, L) == CHOOSE n \in {Sizes(d)[s] : s \in L} : \A s \in L : Sizes(d)[s] <= n

(* The segments of a finding: those that moved most, in some order of those *)
(* that moved alike.                                                        *)
Listings(d) ==
    {L \in SUBSET Segments :
        /\ Cardinality(L) = IF Cardinality(Segments) < MaxListed THEN Cardinality(Segments) ELSE MaxListed
        /\ \A s \in L, t \in Segments \ L : Abs(d[s]) >= Abs(d[t])}

(* explain: statistics over all segments, then the cut.                     *)
StatisticsAfterCut(d, L) ==
    [net |-> SumFunctionOnSet(d, Segments), gross |-> SumFunctionOnSet(Sizes(d), L),
     lead |-> Largest(d, L)]

Statistics(d, L) ==
    [net |-> SumFunctionOnSet(d, Segments), gross |-> SumFunctionOnSet(Sizes(d), Segments),
     lead |-> Largest(d, L)]

Explain(d, L) == [of |-> d, listed |-> L, stat |-> Statistics(d, L)]

Concentrated(e) == 2 * e.stat.lead > e.stat.gross
Offsetting(e) == e.stat.gross > 2 * Abs(e.stat.net)
Leaders(e) == {s \in e.listed : Abs(e.of[s]) = e.stat.lead}
Risers(e) == {s \in e.listed : e.of[s] > 0}
Fallers(e) == {s \in e.listed : e.of[s] < 0}

(* Concentration is lead / gross, and 0 where nothing moved.                *)
AtLeastAs(e, f) == IF e.stat.gross = 0 THEN f.stat.gross = 0 ELSE e.stat.lead * f.stat.gross >= f.stat.lead * e.stat.gross
FirstBest(es, S) ==
    CHOOSE i \in S : /\ \A j \in S : AtLeastAs(es[i], es[j])
                     /\ \A j \in S : j < i => ~AtLeastAs(es[j], es[i])

(* The verdict is the best explanation's, the headline speaks of the first  *)
(* dimension of the ranking.                                                *)
Verdict(es) ==
    LET moved == {i \in DOMAIN es : es[i].stat.gross > 0}
    IN  moved # {} /\ Concentrated(es[FirstBest(es, moved)])
Headline(es) ==
    LET top == es[FirstBest(es, DOMAIN es)]
    IN  IF Offsetting(top) /\ Risers(top) # {} /\ Fallers(top) # {} THEN [says |-> "offsetting", of |-> top]
        ELSE IF Verdict(es) THEN [says |-> "cause", of |-> top]
        ELSE [says |-> "broad", of |-> top]

-----------------------------------------------------------------------------
(* A segment is named as the cause only when it moved more than all others  *)
(* of its dimension together, listed or not; and the headline says that the *)
(* change is broad only when no dimension has such a segment.               *)
Outweighs(d, s) == Abs(d[s]) > SumFunctionOnSet(Sizes(d), Segments \ {s})
CausesEarned(es) ==
    LET h == Headline(es) IN
    /\ h.says = "cause" => \A s \in Leaders(h.of) : Outweighs(h.of.of, s)
    /\ h.says = "broad" => \A i \in DOMAIN es : \A s \in Segments : ~Outweighs(es[i].of, s)
=============================================================================
