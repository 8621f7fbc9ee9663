----------------------------- MODULE MCHostTools -----------------------------
(* Two waiters on one Turn object that has a handler for every call.       *)
EXTENDS HostTools, TLC

CONSTANTS w1, w2, h1, g1

TwoWaiters == (w1 :> h1) @@ (w2 :> h1)
OneGuard   == (h1 :> g1)
AllBound   == (h1 :> Calls)
=============================================================================
