---------------------------- MODULE MCStarModel -----------------------------
(* Small instances of StarModel for TLC.                                    *)
EXTENDS StarModel, TLC

CONSTANTS orders, customers, o, c,  \* datasets and their slugs
          oc, oc2, co               \* two relationships one way, one the other

MCSlugOf == (orders :> o) @@ (customers :> c)
MCFrom == [e \in Edges |-> IF e = co THEN customers ELSE orders]
MCTo == [e \in Edges |-> IF e = co THEN orders ELSE customers]

Symmetry == Permutations(Requests)
=============================================================================
