------------------------------- MODULE Reducer -------------------------------
(***************************************************************************)
(* The Reducer of the Python SDK (sdk/python/src/nvoken/stream.py): the    *)
(* fold of a transcript stream into one view.  Durable frames carry saved  *)
(* messages and lifecycle changes, ephemeral frames carry fragments of     *)
(* messages that are still being written.  Each operator of the second     *)
(* half is one branch of `apply`; the module that delivers the frames      *)
(* conjoins it with what happens to the connection.                        *)
(***************************************************************************)
EXTENDS Naturals, Sequences

CONSTANTS
  Turns,      (* identities of the Turns the stream may carry             *)
  Messages,   (* identities a message is written and then saved under     *)
  Indexes,    (* content_index: the blocks of one message                 *)
  NoTurn      (* the turn_id a frame does not have                        *)

ASSUME NoTurnAssumption == NoTurn \notin Turns

VARIABLES
  messages,       (* _messages: saved messages, at most one per sequence  *)
  changes,        (* _changes: the latest change known of each Turn       *)
  previews,       (* _previews: text received for each block; empty text  *)
                  (* stands for a key the dictionary does not hold        *)
  latestAttempt,  (* _latest_attempts: 0 for a Turn it does not hold      *)
  terminalTurns,  (* _terminal_turns                                      *)
  cursor          (* _cursor: the position the last durable frame gave    *)

reducerVars ==
  <<messages, changes, previews, latestAttempt, terminalTurns, cursor>>

Block   == Messages \X Indexes
Message == [sequence: Nat \ {0}, id: Messages]
Change  == [turn: Turns, revision: Nat \ {0}, terminal: BOOLEAN]
Preview == [turn: Turns \cup {NoTurn}, attempt: Nat, text: Seq(Nat)]
Delta   == [turn: Turns, attempt: Nat \ {0}, block: Block, fragment: Nat]

(* A cursor is opaque to the client; the service reads in it how many      *)
(* messages and how many changes it has already sent.                      *)
Cursor == [messages: Nat, changes: Nat]
Update == [messages: SUBSET Message, changes: SUBSET Change, cursor: Cursor]

NoCursor  == [messages |-> 0, changes |-> 0]
NoPreview == [turn |-> NoTurn, attempt |-> 0, text |-> <<>>]

Live(b) == previews[b].text # <<>>

ReducerTypeOK ==
  /\ messages \in SUBSET Message
  /\ changes \in SUBSET Change
  /\ previews \in [Block -> Preview]
  /\ latestAttempt \in [Turns -> Nat]
  /\ terminalTurns \in SUBSET Turns
  /\ cursor \in Cursor

ReducerInit ==
  /\ messages = {}
  /\ changes = {}
  /\ previews = [b \in Block |-> NoPreview]
  /\ latestAttempt = [t \in Turns |-> 0]
  /\ terminalTurns = {}
  /\ cursor = NoCursor

-----------------------------------------------------------------------------
(* A Turn's lifecycle is folded: of several changes of one Turn only the   *)
(* one with the highest revision is kept.                                  *)
Latest(S) ==
  {c \in S : \A d \in S : d.turn = c.turn => d.revision <= c.revision}

(* The previews left when those of the Turns in T, or those being written  *)
(* under the identities in M, are thrown away.                             *)
WithoutTurns(T) ==
  [b \in Block |-> IF previews[b].turn \in T THEN NoPreview ELSE previews[b]]
WithoutMessages(P, M) ==
  [b \in Block |-> IF b[1] \in M THEN NoPreview ELSE P[b]]

(* The attempts left when the Turns in T are forgotten.                    *)
Forget(T) == [t \in Turns |-> IF t \in T THEN 0 ELSE latestAttempt[t]]

-----------------------------------------------------------------------------
(* Faulty: only the attempt is looked at.                                  *)
RefusedByAttempt(d) == d.attempt < latestAttempt[d.turn]

(* message.delta: a fragment of a Turn that is over, or of an attempt that *)
(* a later attempt has replaced, is ignored ...                            *)
Refused(d) ==
  \/ d.turn \in terminalTurns
  \/ d.attempt < latestAttempt[d.turn]

(* Faulty: a new attempt goes on in the previews of the old one.           *)
AppendWithoutDiscard(d) ==
  /\ ~Refused(d)
  /\ previews' = [previews EXCEPT ![d.block] =
                    [turn    |-> d.turn,
                     attempt |-> d.attempt,
                     text    |-> Append(previews[d.block].text, d.fragment)]]
  /\ latestAttempt' = [latestAttempt EXCEPT ![d.turn] = d.attempt]
  /\ UNCHANGED <<messages, changes, terminalTurns, cursor>>

(* ... the first fragment of a new attempt throws away what the earlier    *)
(* attempts of its Turn left, and any other is appended to its block.      *)
AppendPreview(d) ==
  /\ ~Refused(d)
  /\ LET kept == IF d.attempt > latestAttempt[d.turn]
                   THEN WithoutTurns({d.turn}) ELSE previews
     IN previews' = [kept EXCEPT ![d.block] =
                       [turn    |-> d.turn,
                        attempt |-> d.attempt,
                        text    |-> Append(kept[d.block].text, d.fragment)]]
  /\ latestAttempt' = [latestAttempt EXCEPT ![d.turn] = d.attempt]
  /\ UNCHANGED <<messages, changes, terminalTurns, cursor>>

RefusePreview(d) == Refused(d) /\ UNCHANGED reducerVars

ApplyDelta(d) == AppendPreview(d) \/ RefusePreview(d)

(* Faulty: a resync without a Turn is taken for one of no Turn.            *)
ResyncNamedTurn(scope) ==
  /\ previews' = WithoutTurns({scope})
  /\ latestAttempt' = Forget({scope})
  /\ UNCHANGED <<messages, changes, terminalTurns, cursor>>

(* stream.resync: previews were lost, for one Turn or, when the frame      *)
(* names none, for all of them.                                            *)
ApplyResync(scope) ==
  /\ LET T == IF scope = NoTurn THEN Turns ELSE {scope}
     IN /\ previews' = WithoutTurns(T)
        /\ latestAttempt' = Forget(T)
  /\ UNCHANGED <<messages, changes, terminalTurns, cursor>>

(* Faulty: an update with messages is taken for an unfinished Turn.        *)
UpdateLosingEnd(u) ==
  /\ messages' = {m \in messages : m.sequence \notin {n.sequence : n \in u.messages}}
                 \cup u.messages
  /\ changes' = Latest(changes \cup u.changes)
  /\ terminalTurns' = terminalTurns \cup
       {c.turn : c \in {d \in u.changes : d.terminal /\ u.messages = {}}}
  /\ previews' = WithoutMessages(previews, {m.id : m \in u.messages})
  /\ UNCHANGED latestAttempt
  /\ cursor' = u.cursor

(* transcript.update: messages first, then changes, then the cursor.       *)
ApplyUpdate(u) ==
  LET ended == {c.turn : c \in {d \in u.changes : d.terminal}}
      saved == {m.id : m \in u.messages}
      taken == {m.sequence : m \in u.messages}
  IN /\ messages' = {m \in messages : m.sequence \notin taken} \cup u.messages
     /\ changes' = Latest(changes \cup u.changes)
     /\ terminalTurns' = terminalTurns \cup ended
     /\ previews' = WithoutMessages(WithoutTurns(ended), saved)
     /\ latestAttempt' = Forget(ended)
     /\ cursor' = u.cursor

-----------------------------------------------------------------------------
(* A late fragment never brings back the preview of a Turn that is over.   *)
NoPreviewOfSettledTurn ==
  \A b \in Block : Live(b) => previews[b].turn \notin terminalTurns

(* The text shown for one Turn comes from a single attempt, the one the    *)
(* Reducer compares the next fragment with: fragments of a superseded      *)
(* worker and of the one that replaced it are never mixed.                 *)
OneAttemptPerTurn ==
  \A b \in Block :
    Live(b) => previews[b].attempt = latestAttempt[previews[b].turn]

(* A block without text holds no trace of a Turn or of an attempt.         *)
PreviewsWellFormed ==
  \A b \in Block :
    IF Live(b) THEN previews[b].turn \in Turns ELSE previews[b] = NoPreview

ReducerInv ==
  /\ ReducerTypeOK
  /\ PreviewsWellFormed
  /\ NoPreviewOfSettledTurn
  /\ OneAttemptPerTurn
=============================================================================
