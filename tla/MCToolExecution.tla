--------------------------- MODULE MCToolExecution ---------------------------
(* Result on the handle that admitted the Turn, Updates on that handle or   *)
(* on a recovered one.                                                      *)
EXTENDS ToolExecution, TLC

CONSTANTS a, b, one, two

MCStatesOf == (a :> {one}) @@ (b :> {one, two})
MCBound    == (a :> {1, 2}) @@ (b :> {1, 2})
=============================================================================
