---------------------------- MODULE MCAlgorithms ----------------------------
(* The pure algorithms on bounded inputs: a state is one input of one of    *)
(* them, and each invariant speaks of the inputs of its algorithm.          *)
EXTENDS Cleaning, Semantics, Relationships, Contribution, Forecast, RateLimit,
        Naming

VARIABLE input

Tables == [count : [Values -> 0..2], nulls : 0..1, name : {"key", "other"}]

Init ==
    \/ \E n \in 1..3 : \E h \in [1..n -> Header] : input = [headers |-> h]
    \/ \E c \in TextColumns : input = [cells |-> c]
    \/ \E first, second \in Column : input = [columns |-> <<first, second>>]
    \/ \E s, t \in Tables, u \in {v \in Tables : v.nulls = 0} :
          (\A v \in Values : s.count[v] # 2) /\ s.name = "key" /\ input = [tables |-> <<s, t, u>>]
    \/ \E d, e \in Movement : \E L \in Listings(d), M \in Listings(e) :
          input = [movements |-> <<Explain(d, L), Explain(e, M)>>]
    \/ \E S \in SUBSET (0..LastMonth) : S # {} /\ input = [months |-> S]
    \/ \E n \in 1..7 : \E h \in [1..n -> Events] : input = [logins |-> h]

Next == UNCHANGED input

Of(kind) == DOMAIN input = {kind}

CleaningIsFaithful      == Of("cells")     => CleansFaithfully(input.cells)
SumsAreMeaningful       == Of("columns")   => SumsMeaningfully(input.columns)
ProposalsKeepRows       == Of("tables")    => ProposesSafely(input.tables)
CausesAreEarned         == Of("movements") => CausesEarned(input.movements)
ForecastFollowsCalendar == Of("months")    => FollowsCalendar(input.months)
LockoutsEnd             == Of("logins")    => LimitsFairly(input.logins)
NamesStayApart          == Of("headers")   => NamesApart(input.headers)
=============================================================================
