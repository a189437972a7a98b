-------------------------------- MODULE Maps --------------------------------
(***************************************************************************)
(* The operators :> and @@ of module TLC, defined here because the proof   *)
(* system cannot expand those, and the facts about them that are cited     *)
(* instead of their definitions.                                           *)
(***************************************************************************)

\* The function that maps d to e, and nothing else
d :> e == [x \in {d} |-> e]

\* The function f, and g where f is not defined
f @@ g == [x \in (DOMAIN f) \cup (DOMAIN g) |-> IF x \in DOMAIN f THEN f[x] ELSE g[x]]

LEMMA Pair ==
  \A d, e : /\ \A x : x \in DOMAIN (d :> e) <=> x = d
            /\ (d :> e)[d] = e
BY DEF :>

LEMMA Merge ==
  \A f, g, x : /\ x \in DOMAIN (f @@ g) <=> x \in DOMAIN f \/ x \in DOMAIN g
               /\ x \in DOMAIN f => (f @@ g)[x] = f[x]
               /\ x \in DOMAIN g /\ x \notin DOMAIN f => (f @@ g)[x] = g[x]
BY DEF @@
=============================================================================
