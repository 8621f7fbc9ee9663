--------------------------- MODULE TranscriptFeed ---------------------------
(***************************************************************************)
(* What a transcript stream promises its reader, with no connection and no *)
(* cursor in sight: a transcript that grows message by message, and a      *)
(* reader who is shown a longer and longer beginning of it, is never shown *)
(* a row twice or out of order, and hears that a Turn is over only when    *)
(* all of that Turn is on the screen.  Reading may stop at any moment.     *)
(***************************************************************************)
EXTENDS Naturals, Sequences

CONSTANTS
  Turns, Messages,
  TurnOf       (* the Turn a message belongs to                           *)

VARIABLES
  log,         (* the transcript                                          *)
  over,        (* the Turns that have ended                               *)
  shown,       (* the rows the reader has                                 *)
  known        (* the Turns the reader knows to have ended                *)

feedVars == <<log, over, shown, known>>

Beginning(n) == {[sequence |-> i, id |-> log[i]] : i \in 1 .. n}

Init ==
  /\ log = <<>>
  /\ over = {}
  /\ shown = {}
  /\ known = {}

Write(m) ==
  /\ TurnOf[m] \notin over
  /\ \A i \in DOMAIN log : log[i] # m
  /\ log' = Append(log, m)
  /\ UNCHANGED <<over, shown, known>>

End(t) ==
  /\ t \notin over
  /\ over' = over \cup {t}
  /\ UNCHANGED <<log, shown, known>>

Show(n, T) ==
  /\ shown \subseteq Beginning(n)
  /\ shown' = Beginning(n)
  /\ known' = known \cup T
  /\ \A i \in DOMAIN log : TurnOf[log[i]] \in known' => i <= n
  /\ UNCHANGED <<log, over>>

Next ==
  \/ \E m \in Messages : Write(m)
  \/ \E t \in Turns : End(t)
  \/ \E n \in 0 .. Len(log), T \in SUBSET over : Show(n, T)

Spec == Init /\ [][Next]_feedVars
=============================================================================
