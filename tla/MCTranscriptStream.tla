------------------------- MODULE MCTranscriptStream -------------------------
(* The instance of the runs: one Turn claimed twice, whose two attempts    *)
(* write one message each.                                                 *)
EXTENDS TranscriptStream, TLC

CONSTANTS t1, m1, m2

RetriedTurn == (m1 :> [turn |-> t1, attempt |-> 1])
            @@ (m2 :> [turn |-> t1, attempt |-> 2])
=============================================================================
