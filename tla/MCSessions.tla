----------------------------- MODULE MCSessions -----------------------------
(* Small instances of Sessions for TLC.                                     *)
EXTENDS Sessions

CONSTANTS t1, t2, b1, b2, c1, c2, c3

(* Two tabs of one browser, the first with two calls at once.               *)
OneBrowser == [t \in Tabs |-> b1]
CallTabs == [c \in Calls |-> IF c = c3 THEN t2 ELSE t1]
=============================================================================
