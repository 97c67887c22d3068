----------------------------- MODULE RateLimit ------------------------------
(***************************************************************************)
(* The login limiter of one account, core/ratelimit.py as api/v1/auth.py   *)
(* uses it: a counter in Redis that its first hit gives a time to live,    *)
(* and that is gone when the time is up.  A history is a sequence of       *)
(* events; a tick is a part of the window.                                 *)
(***************************************************************************)
EXTENDS Naturals, Sequences, FiniteSets

CONSTANTS
    Limit,   \* limit
    Window   \* window_seconds, in ticks

ASSUME RateAssumption == Limit \in Nat \ {0} /\ Window \in Nat \ {0}

(* A login with a wrong or a right password, one that Redis does not answer *)
(* for, and the passing of time.                                            *)
Events == {"wrong", "right", "outage", "tick"}

Fresh == [hits |-> 0, ttl |-> 0]

(* INCR and EXPIRE NX: only the hit that creates the counter sets its time  *)
(* to live.  Mutant: every hit does.                                        *)
ExpiresAnew(counter) == Window
ExpiresNX(counter) == IF counter.ttl = 0 THEN Window ELSE counter.ttl

Hit(counter) == [hits |-> counter.hits + 1, ttl |-> ExpiresNX(counter)]

Passes(counter) == IF counter.ttl <= 1 THEN Fresh ELSE [counter EXCEPT !.ttl = @ - 1]

(* enforce, and reset after a login that was admitted and right.            *)
After(counter, event) ==
    CASE event = "tick"   -> Passes(counter)
      [] event = "outage" -> counter
      [] event = "wrong"  -> Hit(counter)
      [] event = "right"  -> IF counter.hits >= Limit THEN Hit(counter) ELSE Fresh

Counters(history) ==
    LET after[n \in 0..Len(history)] == IF n = 0 THEN Fresh ELSE After(after[n - 1], history[n])
    IN  after

Counter(history, n) == Counters(history)[n]

Refused(history, n) ==
    history[n] \in {"wrong", "right"} /\ Counter(history, n - 1).hits >= Limit

-----------------------------------------------------------------------------
(* Before an event: the part of a window, and the last login that succeeded. *)
Ticks(history, m, n) == Cardinality({k \in m..n : history[k] = "tick"})
Recent(history, n) == {m \in 1..(n - 1) : Ticks(history, m, n) < Window}
SinceSuccess(history, n) ==
    {m \in 1..(n - 1) : \A k \in m..(n - 1) : history[k] = "right" => Refused(history, k)}

LetThrough(history) == {m \in 1..Len(history) : history[m] = "wrong" /\ ~Refused(history, m)}

(* A login is refused only when enough wrong ones were let through within   *)
(* the last window and since the last success: a lockout ends by itself     *)
(* however often it is tried; and no window without a success lets through  *)
(* more wrong ones, by count, than two limits.                              *)
LimitsFairly(history) ==
    \A n \in 1..Len(history) :
        LET tried == LetThrough(history) \cap Recent(history, n) \cap SinceSuccess(history, n) IN
        /\ Refused(history, n) => Cardinality(tried) >= Limit
        /\ Cardinality(tried) <= 2 * Limit
=============================================================================
