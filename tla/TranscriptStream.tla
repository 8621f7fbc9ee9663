-------------------------- MODULE TranscriptStream --------------------------
(***************************************************************************)
(* One reader of a transcript stream: the loop `_read_stream` of the       *)
(* Python SDK, which connects, folds every frame into a Reducer and        *)
(* connects again from the Reducer's cursor, and the service it reads,     *)
(* which is not in this repository and is modelled from the protocol       *)
(* the SDKs rely on.  The service keeps two append-only logs and a lossy   *)
(* fan-out bus: pages of the logs and fragments from the bus are sent on   *)
(* one connection, in an order only the service's scheduling decides.      *)
(***************************************************************************)
EXTENDS Reducer

CONSTANTS
  Origin,        (* the Turn and the attempt that writes each message     *)
  FollowedTurn,  (* the Turn of `iter_turn`, NoTurn for a Conversation    *)
  MaxAttempt, MaxChanges, MaxFragments,   (* bounds of the service        *)
  MaxPages, MaxLive                       (* bounds of what is in flight  *)

ASSUME OriginAssumption ==
  Origin \in [Messages -> [turn: Turns, attempt: Nat \ {0}]]
(* A Turn's own stream carries that Turn's rows and nothing else.          *)
ASSUME FollowedTurnAssumption ==
  FollowedTurn = NoTurn \/ Turns = {FollowedTurn}
ASSUME BoundsAssumption ==
  /\ MaxAttempt \in Nat /\ MaxChanges \in Nat /\ MaxFragments \in Nat
  /\ MaxPages \in Nat   /\ MaxLive \in Nat

VARIABLES
  saved,      (* service: the messages of the transcript, by sequence     *)
  changeLog,  (* service: the lifecycle changes, in commit order          *)
  attempt,    (* service: the attempt that holds each Turn, 0 before any  *)
  published,  (* service: how many fragments of each block went out       *)
  sent,       (* connection: the position the service has sent up to      *)
  pages,      (* connection: durable frames on their way                  *)
  live,       (* connection: ephemeral frames on their way                *)
  missed,     (* history: blocks of which a fragment, or the news of its  *)
              (* loss, had no reader                                      *)
  phase       (* reader: where the loop of _read_stream stands            *)

serviceVars    == <<saved, changeLog, attempt, published>>
connectionVars == <<sent, pages, live>>
vars == <<reducerVars, serviceVars, connectionVars, missed, phase>>

Phase   == {"connecting", "open", "waiting", "returned", "failed"}
Entry   == [turn: Turns, revision: Nat \ {0}, terminal: BOOLEAN, through: Nat]
Page    == [from: Cursor, to: Cursor]
DeltaFrame  == [type: {"delta"}, delta: Delta]
ResyncFrame == [type: {"resync"}, scope: Turns \cup {NoTurn}]

TypeOK ==
  /\ ReducerTypeOK
  /\ saved \in Seq(Messages)
  /\ changeLog \in Seq(Entry)
  /\ attempt \in [Turns -> Nat]
  /\ published \in [Block -> Nat]
  /\ sent \in Cursor
  /\ pages \in Seq(Page)
  /\ live \in Seq(DeltaFrame \cup ResyncFrame)
  /\ missed \in SUBSET Block
  /\ phase \in Phase

Init ==
  /\ ReducerInit
  /\ saved = <<>>
  /\ changeLog = <<>>
  /\ attempt = [t \in Turns |-> 0]
  /\ published = [b \in Block |-> 0]
  /\ sent = NoCursor
  /\ pages = <<>>
  /\ live = <<>>
  /\ missed = {}
  /\ phase = "connecting"

-----------------------------------------------------------------------------
(* What the two logs say.                                                  *)
IsSaved(m) == \E i \in DOMAIN saved : saved[i] = m
Ended(t)   == \E j \in DOMAIN changeLog :
                changeLog[j].turn = t /\ changeLog[j].terminal

MessageAt(i) == [sequence |-> i, id |-> saved[i]]
ChangeAt(j)  == [turn     |-> changeLog[j].turn,
                 revision |-> changeLog[j].revision,
                 terminal |-> changeLog[j].terminal]

(* The frame that carries the rows of page p.                              *)
UpdateOf(p) ==
  [messages |-> {MessageAt(i) : i \in (p.from.messages + 1) .. p.to.messages},
   changes  |-> {ChangeAt(j) : j \in (p.from.changes + 1) .. p.to.changes},
   cursor   |-> p.to]

-----------------------------------------------------------------------------
(* The service.                                                            *)

(* A change of Turn t is committed after every message saved so far.  What *)
(* is used of revisions is that those of one Turn grow.                    *)
Commit(t, terminal) ==
  /\ Len(changeLog) < MaxChanges
  /\ changeLog' = Append(changeLog,
       [turn |-> t, revision |-> Len(changeLog) + 1, terminal |-> terminal,
        through |-> Len(saved)])

(* A worker claims a queued Turn, or claims it again after recovery.       *)
Claim(t) ==
  /\ ~Ended(t)
  /\ attempt[t] < MaxAttempt
  /\ attempt' = [attempt EXCEPT ![t] = @ + 1]
  /\ Commit(t, FALSE)
  /\ UNCHANGED <<reducerVars, saved, published, connectionVars, missed, phase>>

(* The Turn parks, resumes or ends.                                        *)
Advance(t, terminal) ==
  /\ ~Ended(t)
  /\ attempt[t] > 0
  /\ Commit(t, terminal)
  /\ UNCHANGED <<reducerVars, saved, attempt, published, connectionVars,
                 missed, phase>>

Save(m) ==
  /\ ~IsSaved(m)
  /\ ~Ended(Origin[m].turn)
  /\ Origin[m].attempt = attempt[Origin[m].turn]
  /\ saved' = Append(saved, m)
  /\ UNCHANGED <<reducerVars, changeLog, attempt, published, connectionVars,
                 missed, phase>>

(* A worker publishes the next fragment of a message it has not saved.     *)
(* One that lost its claim may not know it yet and goes on publishing.     *)
MayPublish(b) ==
  LET t == Origin[b[1]].turn
      a == Origin[b[1]].attempt
  IN /\ published[b] < MaxFragments
     /\ ~IsSaved(b[1])
     /\ a <= attempt[t]
     /\ Ended(t) => a < attempt[t]

DeltaOf(b) ==
  [turn |-> Origin[b[1]].turn, attempt |-> Origin[b[1]].attempt,
   block |-> b, fragment |-> published[b] + 1]

(* A resync voids the previews of one Turn or, on a Conversation's stream, *)
(* of all of them.                                                         *)
ResyncScopes(t) == IF FollowedTurn = NoTurn THEN {t, NoTurn} ELSE {t}

Publish(b) ==
  /\ MayPublish(b)
  /\ published' = [published EXCEPT ![b] = @ + 1]
  /\ \/ /\ phase = "open"
        /\ Len(live) < MaxLive
        /\ \/ live' = Append(live, [type |-> "delta", delta |-> DeltaOf(b)])
           \/ \* the bus lost it: the service tells the reader
              \E scope \in ResyncScopes(Origin[b[1]].turn) :
                live' = Append(live, [type |-> "resync", scope |-> scope])
        /\ UNCHANGED missed
     \/ /\ phase # "open"
        /\ missed' = missed \cup {b}
        /\ UNCHANGED live
  /\ UNCHANGED <<reducerVars, saved, changeLog, attempt, sent, pages, phase>>

(* The service reads its logs from the position it has sent up to.  A page *)
(* holds messages first and, within the same budget, changes: a change is  *)
(* on it only if the messages committed before that change are sent too.   *)
CutPage(to) ==
  /\ phase = "open"
  /\ Len(pages) < MaxPages
  /\ to.messages >= sent.messages /\ to.changes >= sent.changes
  /\ to # sent
  /\ to.changes > sent.changes => changeLog[to.changes].through <= to.messages
  /\ pages' = Append(pages, [from |-> sent, to |-> to])
  /\ sent' = to
  /\ UNCHANGED <<reducerVars, serviceVars, live, missed, phase>>

Positions == [messages: 0 .. Len(saved), changes: 0 .. Len(changeLog)]

-----------------------------------------------------------------------------
(* The reader.                                                             *)

(* Faulty: the new connection goes on where the lost one had got to.       *)
ConnectFromSent ==
  /\ phase = "connecting"
  /\ phase' = "open"
  /\ pages' = <<>>
  /\ live' = <<>>
  /\ UNCHANGED <<reducerVars, serviceVars, sent, missed>>

(* Faulty: the new connection starts from the origin of the transcript.    *)
ConnectFromOrigin ==
  /\ phase = "connecting"
  /\ phase' = "open"
  /\ sent' = NoCursor
  /\ pages' = <<>>
  /\ live' = <<>>
  /\ UNCHANGED <<reducerVars, serviceVars, missed>>

(* The loop hands the Reducer's cursor to a new connection.                *)
Connect ==
  /\ phase = "connecting"
  /\ phase' = "open"
  /\ sent' = cursor
  /\ pages' = <<>>
  /\ live' = <<>>
  /\ UNCHANGED <<reducerVars, serviceVars, missed>>

(* The request ends in a TransportError or a TimeoutException.             *)
ConnectFails ==
  /\ phase = "connecting"
  /\ phase' = "waiting"
  /\ UNCHANGED <<reducerVars, serviceVars, connectionVars, missed>>

(* The service answers with an error status: NvokenError to the caller.    *)
ConnectRefused ==
  /\ phase = "connecting"
  /\ phase' = "failed"
  /\ UNCHANGED <<reducerVars, serviceVars, connectionVars, missed>>

(* The delay between two connections is over.                              *)
Wake ==
  /\ phase = "waiting"
  /\ phase' = "connecting"
  /\ UNCHANGED <<reducerVars, serviceVars, connectionVars, missed>>

(* The blocks of which a frame that never arrives told a fragment, or told *)
(* the loss of one.                                                        *)
LostWith(frame) ==
  {b \in Block : IF frame.type = "delta"
                   THEN b = frame.delta.block
                   ELSE frame.scope \in {NoTurn, Origin[b[1]].turn}}

(* What was on its way is gone with the connection.                        *)
Hangup(next) ==
  /\ phase' = next
  /\ pages' = <<>>
  /\ live' = <<>>
  /\ missed' = missed \cup UNION {LostWith(live[i]) : i \in DOMAIN live}

(* The connection ends between two frames, by an error or by a clean end.  *)
Drop ==
  /\ phase = "open"
  /\ Hangup("waiting")
  /\ UNCHANGED <<reducerVars, serviceVars, sent>>

(* The service gives up on a slow reader while it writes a frame: the rest *)
(* of the frame never comes, and what came is not JSON.  `json.loads`      *)
(* raises out of the loop.                                                 *)
ReceiveTruncated ==
  /\ phase = "open"
  /\ pages # <<>> \/ live # <<>>
  /\ Hangup("failed")
  /\ UNCHANGED <<reducerVars, serviceVars, sent>>

(* `iter_turn` leaves after the event that settles its Turn.               *)
ReceivePage ==
  /\ phase = "open"
  /\ pages # <<>>
  /\ ApplyUpdate(UpdateOf(Head(pages)))
  /\ \/ /\ FollowedTurn \in terminalTurns'
        /\ Hangup("returned")
     \/ /\ FollowedTurn \notin terminalTurns'
        /\ pages' = Tail(pages)
        /\ UNCHANGED <<live, missed, phase>>
  /\ UNCHANGED <<serviceVars, sent>>

ReceiveLive ==
  /\ phase = "open"
  /\ live # <<>>
  /\ LET frame == Head(live)
     IN \/ /\ frame.type = "delta"
           /\ ApplyDelta(frame.delta)
        \/ /\ frame.type = "resync"
           /\ ApplyResync(frame.scope)
  /\ live' = Tail(live)
  /\ UNCHANGED <<serviceVars, sent, pages, missed, phase>>

-----------------------------------------------------------------------------
Service ==
  \/ \E t \in Turns : Claim(t)
  \/ \E t \in Turns, terminal \in BOOLEAN : Advance(t, terminal)
  \/ \E m \in Messages : Save(m)
  \/ \E b \in Block : Publish(b)
  \/ \E to \in Positions : CutPage(to)

Reader ==
  \/ Connect \/ ConnectFails \/ ConnectRefused \/ Wake
  \/ Drop \/ ReceiveTruncated \/ ReceivePage \/ ReceiveLive

Next == Service \/ Reader

Spec == Init /\ [][Next]_vars

(* The reader's own steps happen; a service that has rows to send sends    *)
(* them, and of the pages it sends again and again one arrives.  Nothing   *)
(* makes a worker go on, and nothing makes a connection fail.              *)
Fairness ==
  /\ WF_vars(Wake)
  /\ SF_vars(Connect)
  /\ SF_vars(\E to \in Positions : CutPage(to))
  /\ SF_vars(ReceivePage)

FairSpec == Spec /\ Fairness

-----------------------------------------------------------------------------
(* Properties.                                                             *)

(* Whatever connections were lost, and wherever, the durable half of the   *)
(* view is the two logs up to the cursor: no row is skipped, none is taken *)
(* from beyond it, and of each Turn the last change is the one kept.       *)
DurableViewIsLogPrefix ==
  /\ messages = {MessageAt(i) : i \in 1 .. cursor.messages}
  /\ changes = Latest({ChangeAt(j) : j \in 1 .. cursor.changes})
  /\ terminalTurns = {changeLog[j].turn :
                        j \in {k \in 1 .. cursor.changes : changeLog[k].terminal}}

(* A reader told that a Turn is over has every message of that Turn.       *)
SettledAfterItsMessages ==
  \A i \in DOMAIN saved :
    Origin[saved[i]].turn \in terminalTurns => MessageAt(i) \in messages

(* The text of a block has no hole unless a fragment of it was published   *)
(* while no connection was there to carry it, or was lost with one: what   *)
(* the bus loses is followed by a resync, and a resync received is obeyed. *)
HoleOnlyFromReconnect ==
  \A b \in Block \ missed :
    \A i \in 2 .. Len(previews[b].text) :
      previews[b].text[i] = previews[b].text[i - 1] + 1

(* No frame, fresh or replayed, takes the durable view backwards.          *)
DurableNeverRetreats ==
  [][/\ cursor'.messages >= cursor.messages /\ cursor'.changes >= cursor.changes
     /\ messages \subseteq messages'
     /\ terminalTurns \subseteq terminalTurns'
     /\ \A c \in changes : \E d \in changes' :
          d.turn = c.turn /\ d.revision >= c.revision]_vars

(* However it is cut into frames and connections, the stream is the plain  *)
(* feed of TranscriptFeed.                                                 *)
Feed == INSTANCE TranscriptFeed WITH
  TurnOf <- [m \in Messages |-> Origin[m].turn],
  log    <- saved,
  over   <- {t \in Turns : Ended(t)},
  shown  <- messages,
  known  <- terminalTurns

IsTranscriptFeed == Feed!Spec

(* A reader learns of the end of every Turn, however many connections it   *)
(* takes, unless an error was raised to its caller or it has left.         *)
EndIsLearned ==
  \A t \in Turns :
    Ended(t) ~> (t \in terminalTurns \/ phase \in {"failed", "returned"})

-----------------------------------------------------------------------------
(* The inductive invariant behind these.                                   *)

(* Each beginning of the change log has a last change of each of its Turns.*)
HasLatest ==
  \A n \in 0 .. Len(changeLog) : \A j \in 1 .. n :
    \E k \in 1 .. n :
      /\ changeLog[k].turn = changeLog[j].turn
      /\ \A l \in 1 .. n : changeLog[l].turn = changeLog[j].turn => l <= k

(* Revisions grow with the log, a change knows the messages before it, and *)
(* a Turn writes no message after its end.                                 *)
LogsInv ==
  /\ \A j \in DOMAIN changeLog :
       /\ changeLog[j].revision = j
       /\ changeLog[j].through <= Len(saved)
       /\ \A k \in 1 .. j : changeLog[k].through <= changeLog[j].through
       /\ changeLog[j].terminal =>
            \A i \in DOMAIN saved :
              Origin[saved[i]].turn = changeLog[j].turn => i <= changeLog[j].through
  /\ HasLatest

(* A position inside the logs at which no change runs ahead of a message.  *)
GoodPosition(c) ==
  /\ c.messages <= Len(saved)
  /\ c.changes <= Len(changeLog)
  /\ \A j \in 1 .. c.changes : changeLog[j].through <= c.messages

GoodPage(p) ==
  /\ GoodPosition(p.from) /\ GoodPosition(p.to)
  /\ p.from.messages <= p.to.messages
  /\ p.from.changes <= p.to.changes

(* The pages on their way lead, one after the other, from the cursor of    *)
(* the reader to the position of the service.                              *)
InFlightInv ==
  /\ GoodPosition(cursor)
  /\ phase # "open" => pages = <<>>
  /\ phase = "open" =>
       /\ GoodPosition(sent)
       /\ pages = <<>> => sent = cursor
       /\ pages # <<>> => pages[1].from = cursor /\ pages[Len(pages)].to = sent
  /\ \A i \in DOMAIN pages : GoodPage(pages[i])
  /\ \A i \in 1 .. (Len(pages) - 1) : pages[i].to = pages[i + 1].from

StreamInv ==
  /\ TypeOK
  /\ ReducerInv
  /\ LogsInv
  /\ InFlightInv
  /\ DurableViewIsLogPrefix

=============================================================================
