---------------------------- MODULE HistoryWindow ----------------------------
(***************************************************************************)
(* The window of messages that a page of the TypeScript SDK keeps of its   *)
(* Conversation: the bounded `Reducer` of stream.ts as the conversation    *)
(* controller uses it, seeded with the newest messages, extended at one    *)
(* end by the stream and at the other by `loadEarlier`, and cut by         *)
(* `enforceBounds`.                                                        *)
(*                                                                         *)
(* Simplifications.  A Conversation is a log of rows, each a message or    *)
(* the terminal change of a Turn; a message's sequence is its place in the *)
(* log, a page token the place from which earlier messages are still to be *)
(* read.  Previews and changes that end nothing are left out, and so are   *)
(* what ConversationController is about: the first read is one step here,  *)
(* and the stream has no connections.                                      *)
(***************************************************************************)
EXTENDS Naturals, Sequences, FiniteSets, FiniteSetsExt

CONSTANTS
  MaxMessages,      (* MAX_MESSAGES of the controller                      *)
  PageSize,         (* PAGE_SIZE                                           *)
  MaxFrame,         (* bound: rows of one frame                            *)
  MaxRows,          (* bound: rows of all Conversations                    *)
  MaxTurns,         (* bound: Turns of one Conversation                    *)
  MaxConversations  (* bound: start overs, plus one                        *)

ASSUME WindowAssumption ==
  /\ PageSize \in Nat \ {0} /\ MaxMessages \in Nat /\ PageSize <= MaxMessages
  /\ MaxFrame \in Nat /\ MaxRows \in Nat /\ MaxTurns \in Nat
  /\ MaxConversations \in Nat \ {0}

NoTurn == 0     (* a message that belongs to no Turn                       *)
NoToken == 0    (* nothing earlier to read                                 *)
Nowhere == 0    (* no Conversation                                         *)
Turns == 1 .. MaxTurns
Conversations == 1 .. MaxConversations

VARIABLES
  log,      (* service: the rows of each Conversation                      *)
  window,   (* the page: its Conversation, reducer and history fields      *)
  loads,    (* pages of history that are on their way                      *)
  evicted,  (* messages that left the window                               *)
  seed      (* where the window was read: its cursor and first token       *)

vars == <<log, window, loads, evicted, seed>>

Row     == {r \in [turn: Turns \cup {NoTurn}, end: BOOLEAN] : r.end => r.turn # NoTurn}
Message == Conversations \X Nat
Load    == [conversation: Conversations, token: Nat]
Window  ==
  [conversation: Conversations \cup {Nowhere}, read: BOOLEAN,
   messages: SUBSET Message, ended: SUBSET Turns, cursor: Nat, token: Nat,
   full: BOOLEAN, loading: BOOLEAN, denied: BOOLEAN]

TypeOK ==
  /\ log \in [Conversations -> Seq(Row)]
  /\ window \in Window
  /\ loads \subseteq Load
  /\ evicted \subseteq Message
  /\ seed \in [at: Nat, token: Nat]

(* resetConversation.                                                      *)
Empty(c) ==
  [conversation |-> c, read |-> FALSE, messages |-> {}, ended |-> {},
   cursor |-> 0, token |-> NoToken, full |-> FALSE, loading |-> FALSE,
   denied |-> FALSE]

Init ==
  /\ log = [c \in Conversations |-> <<>>]
  /\ window = Empty(1)
  /\ loads = {}
  /\ evicted = {}
  /\ seed = [at |-> 0, token |-> NoToken]

-----------------------------------------------------------------------------
(* The service: Turns run one after the other.                             *)

IsMessage(c, i)   == i \in DOMAIN log[c] /\ ~log[c][i].end
TurnOf(m)         == log[m[1]][m[2]].turn
EndsAt(c, t)      == {i \in DOMAIN log[c] : log[c][i] = [turn |-> t, end |-> TRUE]}
Begun(c)          == {log[c][i].turn : i \in DOMAIN log[c]} \ {NoTurn}
LiveIn(c)         == {t \in Begun(c) : EndsAt(c, t) = {}}

Rows == UNION {{c} \X DOMAIN log[c] : c \in Conversations}

Write(c, row) ==
  /\ Cardinality(Rows) < MaxRows
  /\ log' = [log EXCEPT ![c] = Append(@, row)]
  /\ UNCHANGED <<window, loads, evicted, seed>>

(* A message of the Turn that runs, of the next one, or of none.           *)
Save(c) ==
  \E t \in LiveIn(c) \cup {NoTurn}
           \cup (IF LiveIn(c) = {} THEN {Cardinality(Begun(c)) + 1} \cap Turns ELSE {}) :
    Write(c, [turn |-> t, end |-> FALSE])

End(c) == \E t \in LiveIn(c) : Write(c, [turn |-> t, end |-> TRUE])

(* The newest messages before a place, and the token for what is before    *)
(* them.                                                                   *)
Before(c, place) == {i \in 1 .. place - 1 : IsMessage(c, i)}

Newest(S, n) == {i \in S : Cardinality({j \in S : j > i}) < n}

PageOf(c, place) == {<<c, i>> : i \in Newest(Before(c, place), PageSize)}

NextToken(c, place) ==
  IF Cardinality(Before(c, place)) <= PageSize THEN NoToken
  ELSE Min(Newest(Before(c, place), PageSize))

-----------------------------------------------------------------------------
(* enforceBounds.                                                          *)

Oldest(M) == CHOOSE m \in M : \A n \in M : m[2] <= n[2]

(* Faulty: message by message.                                             *)
BoundedByMessage(w) ==
  [w EXCEPT !.messages = {<<w.conversation, i>> :
     i \in Newest({m[2] : m \in w.messages}, MaxMessages)}]

(* The messages that go with those up to a place: a Turn goes as a whole.  *)
GoneWith(M, place) ==
  {m \in M : \E n \in M :
     n[2] <= place /\ (n = m \/ (TurnOf(n) = TurnOf(m) /\ TurnOf(m) # NoTurn))}

(* The loop ends within the bound, or at a Turn not known to be over.      *)
StopsAt(w, place) ==
  LET left == w.messages \ GoneWith(w.messages, place)
  IN \/ Cardinality(left) <= MaxMessages
     \/ left # {} /\ TurnOf(Oldest(left)) \notin w.ended \cup {NoTurn}

(* The oldest go first, as far as it takes, and their Turns are forgotten. *)
Bounded(w) ==
  LET gone == GoneWith(w.messages, Min({i \in 0 .. w.cursor : StopsAt(w, i)}))
  IN [w EXCEPT !.messages = @ \ gone, !.ended = @ \ {TurnOf(m) : m \in gone}]

Become(w) ==
  /\ window' = Bounded(w)
  /\ evicted' = evicted \cup (w.messages \ Bounded(w).messages)

-----------------------------------------------------------------------------
(* The page.                                                               *)

(* runBootstrap: the newest messages and the position they were read at.   *)
ReadTail ==
  LET c  == window.conversation
      at == Len(log[c])
  IN /\ c # Nowhere /\ ~window.read
     /\ Become([window EXCEPT !.read = TRUE, !.messages = PageOf(c, at + 1),
                  !.cursor = at, !.token = NextToken(c, at + 1), !.full = FALSE])
     /\ seed' = [at |-> at, token |-> NextToken(c, at + 1)]
     /\ UNCHANGED <<log, loads>>

(* Faulty: the bounds come before the changes.                             *)
ReceiveChangesLast(n) ==
  LET c    == window.conversation
      rows == window.cursor + 1 .. window.cursor + n
      w    == Bounded([window EXCEPT
                !.messages = @ \cup {<<c, i>> : i \in {j \in rows : IsMessage(c, j)}}])
  IN /\ window.read
     /\ window.cursor + n <= Len(log[c])
     /\ window' = [w EXCEPT !.cursor = @ + n,
          !.ended = @ \cup {log[c][i].turn : i \in {j \in rows : log[c][j].end}}]
     /\ evicted' = evicted \cup (window.messages \ w.messages)
     /\ UNCHANGED <<log, loads, seed>>

(* apply: the messages of a frame, its changes, its cursor, the bounds.    *)
Receive(n) ==
  LET c    == window.conversation
      rows == window.cursor + 1 .. window.cursor + n
  IN /\ window.read
     /\ window.cursor + n <= Len(log[c])
     /\ Become([window EXCEPT
          !.messages = @ \cup {<<c, i>> : i \in {j \in rows : IsMessage(c, j)}},
          !.ended    = @ \cup {log[c][i].turn : i \in {j \in rows : log[c][j].end}},
          !.cursor   = @ + n])
     /\ UNCHANGED <<log, loads, seed>>

Room(w, page) == Cardinality(w.messages \cup page) <= MaxMessages

(* Bound: two requests for the same page are one.                          *)
LoadEarlier ==
  LET c == window.conversation
  IN /\ window.read /\ window.token # NoToken
     /\ ~window.denied /\ ~window.loading /\ ~window.full
     /\ window' = [window EXCEPT !.loading = TRUE]
     /\ loads' = loads \cup {[conversation |-> c, token |-> window.token]}
     /\ UNCHANGED <<log, evicted, seed>>

(* Faulty: a page is merged as it comes.                                   *)
MergeUnbounded(w, l) ==
  [w EXCEPT !.messages = @ \cup PageOf(l.conversation, l.token), !.loading = FALSE,
            !.token = NextToken(l.conversation, l.token)]

(* Faulty: a full window goes on loading.                                  *)
MergeOrStayLoading(w, l) ==
  LET page == PageOf(l.conversation, l.token)
  IN IF Room(w, page)
       THEN [w EXCEPT !.messages = @ \cup page, !.loading = FALSE,
                      !.token = NextToken(l.conversation, l.token)]
       ELSE [w EXCEPT !.full = TRUE]

(* merge, without bounds: only if there is room.                           *)
Merge(w, l) ==
  LET page == PageOf(l.conversation, l.token)
  IN IF Room(w, page)
       THEN [w EXCEPT !.messages = @ \cup page, !.loading = FALSE,
                      !.token = NextToken(l.conversation, l.token)]
       ELSE [w EXCEPT !.full = TRUE, !.loading = FALSE]

(* Faulty: it is not looked at which Conversation the page shows.          *)
LoadedAnyway(l) ==
  /\ l \in loads
  /\ window' = Merge(window, l)
  /\ loads' = loads \ {l}
  /\ UNCHANGED <<log, evicted, seed>>

(* The page may show another Conversation by now.                          *)
Loaded(l) ==
  /\ l \in loads
  /\ window' = IF l.conversation = window.conversation THEN Merge(window, l) ELSE window
  /\ loads' = loads \ {l}
  /\ UNCHANGED <<log, evicted, seed>>

NotLoaded(l) ==
  /\ l \in loads
  /\ \E denied \in BOOLEAN :
       window' = [window EXCEPT !.loading = FALSE, !.denied = @ \/ denied]
  /\ loads' = loads \ {l}
  /\ UNCHANGED <<log, evicted, seed>>

(* handleTransportError resets the page, whatever Conversation was missing.*)
(* Bound: it stays empty then.                                             *)
NotFound(l) ==
  /\ l \in loads
  /\ window' = [Empty(Nowhere) EXCEPT !.denied = window.denied]
  /\ loads' = loads \ {l}
  /\ evicted' = {}
  /\ UNCHANGED <<log, seed>>

StartOver ==
  /\ window.conversation \in 1 .. MaxConversations - 1
  /\ window' = Empty(window.conversation + 1)
  /\ evicted' = {}
  /\ UNCHANGED <<log, loads, seed>>

-----------------------------------------------------------------------------
Page == ReadTail \/ LoadEarlier \/ StartOver \/ \E n \in 1 .. MaxFrame : Receive(n)

Next ==
  \/ \E c \in Conversations : Save(c) \/ End(c)
  \/ Page
  \/ \E l \in loads : Loaded(l) \/ NotLoaded(l) \/ NotFound(l)

Spec == Init /\ [][Next]_vars

(* A request is answered in the end.                                       *)
FairSpec == Spec /\ WF_vars(\E l \in loads : Loaded(l))

-----------------------------------------------------------------------------
(* Properties.                                                             *)

(* Between what is still to be read and what the stream has brought, every *)
(* message of the Conversation is shown, but for those that were evicted,  *)
(* and none of another Conversation is.                                    *)
NothingMissing ==
  window.read =>
    LET c == window.conversation
        from == IF window.token = NoToken THEN 1 ELSE window.token
    IN window.messages \cup evicted
         = {<<c, i>> : i \in {j \in from .. window.cursor : IsMessage(c, j)}}

(* A Turn that still runs is never cut, and no other is shown in part, but *)
(* one whose beginning was not in the window that was read: what is left   *)
(* of it can still be loaded.                                              *)
EvictsWholeEndedTurns ==
  \A n \in evicted :
    LET t == TurnOf(n)
        left == {m \in window.messages : TurnOf(m) = t}
    IN \/ t = NoTurn
       \/ /\ EndsAt(n[1], t) # {}
          /\ left # {} => \E i \in Before(n[1], seed.token) : TurnOf(<<n[1], i>>) = t

(* "Memory is bounded: 500 messages" - but by a Turn that still runs, by   *)
(* those that were over when the window was read, of which no end is       *)
(* received any more, and by one that was evicted and of which the         *)
(* beginning was loaded again.                                             *)
BoundIsExceededForCause ==
  Cardinality(window.messages) > MaxMessages =>
    LET t == TurnOf(Oldest(window.messages))
        received == seed.at + 1 .. window.cursor
    IN \/ t # NoTurn /\ EndsAt(window.conversation, t) \cap received = {}
       \/ \E n \in evicted : TurnOf(n) = t /\ t # NoTurn

(* Reading earlier history never takes the window past its bound, however  *)
(* much the stream has brought since the page was asked for.               *)
MergeWithinBound ==
  [][\A l \in loads \ loads' :
       window'.messages # window.messages => Cardinality(window'.messages) <= MaxMessages]_vars

(* Every request for earlier history comes to an end on the page.          *)
LoadingEnds == window.loading ~> ~window.loading
=============================================================================
