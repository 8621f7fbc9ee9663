------------------------- MODULE MCAnonymousAuthority -------------------------
(* Two pages of one tab, and a page of another tab.                         *)
EXTENDS AnonymousAuthority, TLC

CONSTANTS a, b, c

MCRuntimeOf == [p \in {a, b} |-> "one"] @@ (c :> "two")

TabSymmetry == Permutations({a, b})
=============================================================================
