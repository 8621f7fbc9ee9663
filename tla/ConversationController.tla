----------------------- MODULE ConversationController -----------------------
(***************************************************************************)
(* `ConversationControllerImpl` of the TypeScript SDK: one page that shows *)
(* one Conversation.  JavaScript runs one callback at a time, so an action *)
(* is what a method, an answer, a frame or a timer does between two        *)
(* awaits; what is awaited is a request on its way, which any other        *)
(* action may overtake.                                                    *)
(*                                                                         *)
(* Simplifications.  The page is the record of the controller's fields.    *)
(* What is only displayed (revision, recovery, the text of errors) is left *)
(* out, and "connected" stands for "reconnecting" too: the loop between    *)
(* connections is TranscriptStream's.  The window of messages is           *)
(* HistoryWindow's; of a page of history only its answer is here.  A       *)
(* Conversation is its visitor's number, a Turn the number of the key it   *)
(* was admitted under, and what the reducer knows of lifecycles is the     *)
(* stretch of the Conversation's log that it has folded.                   *)
(***************************************************************************)
EXTENDS Naturals, Sequences

CONSTANTS
  Modes,        (* "host": the page's backend authorizes;  "anonymous"     *)
  MaxSends,     (* bound: messages the visitor sends                       *)
  MaxOthers,    (* bound: Turns that other clients start                   *)
  MaxVisitors,  (* bound: start overs, plus one                            *)
  MaxFailures,  (* bound: requests that fail                               *)
  Deletable,    (* bound: the Conversations that may be deleted            *)
  Faults        (* bound: what can go wrong with a request                 *)

ASSUME ModesAssumption == Modes \subseteq {"host", "anonymous"}
ASSUME FaultsAssumption ==
  Faults \subseteq {"transport", "authentication", "permission", "validation"}
ASSUME BoundsAssumption ==
  /\ MaxSends \in Nat /\ MaxOthers \in Nat /\ MaxFailures \in Nat
  /\ MaxVisitors \in Nat \ {0}
  /\ Deletable \subseteq 1 .. MaxVisitors

None == 0     (* no Conversation, no Turn                                  *)
Keys          == 1 .. MaxSends
Turns         == 1 .. MaxSends + MaxOthers
Conversations == 1 .. MaxVisitors
Operations    == {"send", "interrupt", "connection"}

VARIABLES
  page,       (* the fields of the controller                              *)
  authority,  (* of AnonymousAuthority: token, renewal timer, exchange     *)
  requests,   (* client.start of each key, as far as it has come           *)
  refresh,    (* refreshConversationClaim                                  *)
  stopping,   (* Turns whose interrupt has no answer yet                   *)
  log,        (* service: the lifecycle changes of each Conversation       *)
  gone,       (* service: Conversations that were deleted                  *)
  visitor,    (* service: the visitor that the page acts for               *)
  history     (* what has happened, for the bounds and the properties      *)

flightVars  == <<requests, refresh, stopping>>
serviceVars == <<log, gone, visitor>>
vars == <<page, authority, flightVars, serviceVars, history>>

NoReducer == [conversation |-> None, from |-> 0, at |-> 0]
NoSend    == [key |-> None, status |-> "none"]
NoRead    == [status |-> "none", at |-> 0, active |-> None]
NoRefresh == [status |-> "none", conversation |-> None, active |-> None,
              interrupted |-> None]

Reducers == [conversation: Conversations \cup {None}, from: Nat, at: Nat]
Readers  == [conversation: Conversations, of: Conversations \X Nat, open: BOOLEAN]
Pages ==
  [mode: {"host", "anonymous"}, conversationId: Conversations \cup {None},
   reducer: Reducers, readers: SUBSET Readers,
   claim: Turns \cup {None}, admitted: Turns \cup {None},
   pending: [key: Keys \cup {None}, status: {"none", "admitting", "uncertain"}],
   interrupting: Turns \cup {None}, interruptionError: Turns \cup {None},
   authorization: {"authorizing", "renewing", "ready", "lost"},
   connection: {"no_conversation", "connecting", "connected", "error"},
   bootstrapping: Conversations \cup {None},
   boots: [Conversations -> [status: {"none", "out", "read"}, at: Nat,
                             active: Turns \cup {None}]],
   startingOver: BOOLEAN,
   denied: SUBSET Operations, destroyed: BOOLEAN]

TypeOK ==
  /\ page \in Pages
  /\ authority \in [token: BOOLEAN, timer: BOOLEAN, of: Conversations,
                    exchange: {"none", "init", "renew", "retry"}]
  /\ requests \in [Keys -> [status: {"none", "out", "admitted", "busy", "done",
                                      "failed", "refused"},
                            conversation: Conversations \cup {None},
                            again: BOOLEAN, late: SUBSET Conversations]]
  /\ refresh \in [status: {"none", "out", "read"}, conversation: Conversations \cup {None},
                  active: Turns \cup {None}, interrupted: Turns \cup {None}]
  /\ stopping \subseteq Turns
  /\ log \in [Conversations -> Seq([turn: Turns, over: BOOLEAN])]
  /\ gone \subseteq Conversations
  /\ visitor \in Conversations
  /\ history \in [sends: Nat, others: Nat, failures: Nat, latest: Conversations,
                  dropped: SUBSET Keys, overlapped: SUBSET Keys, crossed: BOOLEAN,
                  misled: Nat]

(* A host names a Conversation by its id, or by a key under which it may   *)
(* not exist yet; an anonymous page asks for a grant first.                *)
Init ==
  /\ \E m \in Modes, c \in {None, 1} :
       /\ m = "anonymous" => c = None
       /\ page = [mode |-> m, conversationId |-> c, reducer |-> NoReducer,
            readers |-> {}, claim |-> None, admitted |-> None, pending |-> NoSend,
            interrupting |-> None, interruptionError |-> None,
            authorization |-> IF m = "host" THEN "ready" ELSE "authorizing",
            connection |-> IF c = None THEN "no_conversation" ELSE "connecting",
            bootstrapping |-> c,
            boots |-> [d \in Conversations |->
                         IF d = c THEN [NoRead EXCEPT !.status = "out"] ELSE NoRead],
            startingOver |-> FALSE,
            denied |-> {}, destroyed |-> FALSE]
       /\ authority = [token |-> FALSE, timer |-> FALSE, of |-> 1,
                       exchange |-> IF m = "host" THEN "none" ELSE "init"]
  /\ requests = [k \in Keys |-> [status |-> "none", conversation |-> None,
                                 again |-> FALSE, late |-> {}]]
  /\ refresh = NoRefresh
  /\ stopping = {}
  /\ log = [c \in Conversations |-> <<>>]
  /\ gone = {}
  /\ visitor = 1
  /\ history = [sends |-> 0, others |-> 0, failures |-> 0, latest |-> 1,
                dropped |-> {}, overlapped |-> {}, crossed |-> FALSE,
                misled |-> 0]

-----------------------------------------------------------------------------
(* What the page knows of Turns.                                           *)

Folded(r) == IF r = NoReducer THEN {} ELSE (r.from + 1) .. r.at
Known(r)  == {log[r.conversation][i].turn : i \in Folded(r)}
Running(r) ==
  {t \in Known(r) :
     \A i \in Folded(r) :
       log[r.conversation][i].turn = t => ~log[r.conversation][i].over}

(* Faulty: an admitted Turn counts even when the stream has reported on it.*)
ActiveAdmittedFirst(p) ==
  IF Running(p.reducer) # {} THEN CHOOSE t \in Running(p.reducer) : TRUE
  ELSE IF p.admitted # None  THEN p.admitted
  ELSE IF p.claim \notin Known(p.reducer) \cup {None} THEN p.claim
  ELSE None

(* Faulty: an admitted Turn counts only when the stream reports on it.     *)
ActiveInStream(p) ==
  IF Running(p.reducer) # {} THEN CHOOSE t \in Running(p.reducer) : TRUE
  ELSE IF p.claim \notin Known(p.reducer) \cup {None} THEN p.claim
  ELSE None

(* resolveActivity: the stream wins for any Turn it has reported on.       *)
Active(p) ==
  IF Running(p.reducer) # {}           THEN CHOOSE t \in Running(p.reducer) : TRUE
  ELSE IF p.admitted \notin Known(p.reducer) \cup {None} THEN p.admitted
  ELSE IF p.claim \notin Known(p.reducer) \cup {None}    THEN p.claim
  ELSE None

Idle(p) == p.pending.status # "admitting" /\ Active(p) = None

Usable(p) == p.authorization \in {"ready", "renewing"}
Allowed(p, operation) ==
  ~p.destroyed /\ Usable(p) /\ operation \notin p.denied

SendEnabled(p) == Allowed(p, "send") /\ p.pending = NoSend /\ Idle(p)

-----------------------------------------------------------------------------
(* The private methods, as functions of the page.                          *)

(* Faulty: the Turn that was admitted is left behind.                      *)
ResetAllButAdmitted(p, c) ==
  [p EXCEPT !.conversationId = c, !.reducer = NoReducer, !.claim = None,
            !.pending = NoSend, !.interrupting = None,
            !.interruptionError = None,
            !.connection = IF c = None THEN "no_conversation" ELSE "connecting"]

ResetConversation(p, c) ==
  [p EXCEPT !.conversationId = c, !.reducer = NoReducer, !.claim = None,
            !.pending = NoSend, !.admitted = None, !.interrupting = None,
            !.interruptionError = None,
            !.connection = IF c = None THEN "no_conversation" ELSE "connecting"]

StopStream(p) == [p EXCEPT !.readers = {}]

Identity(r) == <<r.conversation, r.from>>

NewReader(p) == [conversation |-> p.conversationId, of |-> Identity(p.reducer),
                 open |-> FALSE]

(* Faulty: the stream before it is not aborted.                            *)
StartSecondStream(p) ==
  [p EXCEPT !.readers = @ \cup {NewReader(p)}, !.connection = "connecting"]

StartStream(p) ==
  [StopStream(p) EXCEPT !.readers = {NewReader(p)}, !.connection = "connecting"]

(* Two callers that ask at once share one read.  Bound: there is one read  *)
(* of a Conversation at a time.                                            *)
Bootstrap(p) ==
  IF p.bootstrapping = p.conversationId THEN p
  ELSE [p EXCEPT !.bootstrapping = p.conversationId, !.connection = "connecting",
                 !.boots[p.conversationId] =
                    IF @.status = "none" THEN [NoRead EXCEPT !.status = "out"] ELSE @]

(* Faulty: a stream that has stopped is not put back.                      *)
NeedsFirstRead(p) ==
  /\ p.conversationId # None /\ ~p.destroyed /\ p.bootstrapping = None
  /\ p.reducer = NoReducer

NeedsResume(p) ==
  /\ p.conversationId # None /\ ~p.destroyed /\ p.bootstrapping = None
  /\ p.reducer = NoReducer \/ p.connection = "error"

Resume(p) == IF p.reducer # NoReducer THEN StartStream(p) ELSE Bootstrap(p)

ResumeIfNeeded(p) == IF NeedsResume(p) THEN Resume(p) ELSE p

(* Faulty: a missing Turn resets the page too.                             *)
HandleAnyError(p, error, scope) ==
  IF error = "authentication"
    THEN [StopStream(p) EXCEPT !.authorization = "lost",
            !.connection = IF p.conversationId = None THEN @ ELSE "error"]
  ELSE IF error = "not_found" /\ p.conversationId # None
    THEN ResetConversation(StopStream(p), None)
  ELSE p

(* handleTransportError: a missing Turn is that operation's problem alone. *)
HandleError(p, error, scope) ==
  IF error = "authentication"
    THEN [StopStream(p) EXCEPT !.authorization = "lost",
            !.connection = IF p.conversationId = None THEN @ ELSE "error"]
  ELSE IF error = "not_found" /\ scope = "conversation" /\ p.conversationId # None
    THEN ResetConversation(StopStream(p), None)
  ELSE p

(* Faulty: the connection takes the category of the error for its status.  *)
ConnectionShowsError(p, error) ==
  IF error \in {"authentication", "not_found"} THEN p
  ELSE [p EXCEPT !.connection = error]

(* What the two ways to read a Conversation do after that.                 *)
ConnectionLost(p, error) ==
  IF error \in {"authentication", "not_found"} THEN p
  ELSE [p EXCEPT !.connection = "error",
                 !.denied = @ \cup (IF error = "permission" THEN {"connection"} ELSE {})]

Deny(p, error, operation) ==
  IF error = "permission" THEN [p EXCEPT !.denied = @ \cup {operation}] ELSE p

(* onStreamUpdate: what came from outside the stream expires as soon as    *)
(* the stream has reported on the Turn.                                    *)
OnStreamUpdate(p) ==
  LET known == Known(p.reducer)
      q == [p EXCEPT !.admitted = IF @ \in known THEN None ELSE @,
                     !.claim    = IF @ \in known THEN None ELSE @]
  IN [q EXCEPT !.interruptionError = IF @ # None /\ Idle(q) THEN None ELSE @]

-----------------------------------------------------------------------------
(* The service.                                                            *)

Ended(t) == \E c \in Conversations : \E i \in DOMAIN log[c] :
              log[c][i].turn = t /\ log[c][i].over
Started(t, c) == \E i \in DOMAIN log[c] : log[c][i].turn = t
ActiveIn(c)   == {t \in Turns : Started(t, c) /\ ~Ended(t)}
TheActive(c)  == IF ActiveIn(c) = {} THEN None ELSE CHOOSE t \in ActiveIn(c) : TRUE

Record(c, t, over) ==
  log' = [log EXCEPT ![c] = Append(@, [turn |-> t, over |-> over])]

(* A key that was seen is answered with its Turn, and changes nothing when *)
(* it comes once more; a Conversation has one active Turn.                 *)
Admit(k) ==
  LET c == requests[k].conversation
  IN /\ requests[k].status = "out"
     /\ c \notin gone
     /\ \/ Started(k, c) /\ UNCHANGED log
        \/ ~Started(k, c) /\ ActiveIn(c) = {} /\ Record(c, k, FALSE)
     /\ requests' = [requests EXCEPT ![k] =
          [@ EXCEPT !.status = "admitted", !.late = requests[k].late \ {c}]]
     /\ UNCHANGED <<page, authority, refresh, stopping, gone, visitor, history>>

AnswerBusy(k) ==
  LET c == requests[k].conversation
  IN /\ requests[k].status = "out"
     /\ ~Started(k, c) /\ ActiveIn(c) # {}
     /\ requests' = [requests EXCEPT ![k].status = "busy"]
     /\ UNCHANGED <<page, authority, refresh, stopping, serviceVars, history>>

(* A request that the page has given up arrives after all, perhaps later   *)
(* than the answer to a retry.                                             *)
AdmitLate(k) ==
  \E c \in requests[k].late :
    /\ c \notin gone
    /\ ~Started(k, c) /\ ActiveIn(c) = {}
    /\ Record(c, k, FALSE)
    /\ requests' = [requests EXCEPT ![k].late = @ \ {c}]
    /\ UNCHANGED <<page, authority, refresh, stopping, gone, visitor, history>>

OtherTurnStarts(c) ==
  /\ history.others < MaxOthers
  /\ c <= history.latest /\ c \notin gone /\ ActiveIn(c) = {}
  /\ history' = [history EXCEPT !.others = @ + 1]
  /\ Record(c, MaxSends + history.others + 1, FALSE)
  /\ UNCHANGED <<page, authority, flightVars, gone, visitor>>

TurnEnds(c) ==
  /\ ActiveIn(c) # {}
  /\ Record(c, TheActive(c), TRUE)
  /\ UNCHANGED <<page, authority, flightVars, gone, visitor, history>>

(* A Conversation with an active Turn is not deleted.                      *)
Delete(c) ==
  /\ c \in Deletable \ gone
  /\ c <= history.latest /\ ActiveIn(c) = {}
  /\ gone' = gone \cup {c}
  /\ UNCHANGED <<page, authority, flightVars, log, visitor, history>>

Readable(c) == c \notin gone /\ (page.mode = "host" \/ c = visitor)

ReadWindow(c) ==
  /\ page.boots[c].status = "out"
  /\ Readable(c)
  /\ page' = [page EXCEPT !.boots[c] =
                [status |-> "read", at |-> Len(log[c]), active |-> TheActive(c)]]
  /\ UNCHANGED <<authority, flightVars, serviceVars, history>>

ReadClaim ==
  /\ refresh.status = "out"
  /\ Readable(refresh.conversation)
  /\ refresh' = [refresh EXCEPT !.status = "read",
                                !.active = TheActive(refresh.conversation)]
  /\ UNCHANGED <<page, authority, requests, stopping, serviceVars, history>>

-----------------------------------------------------------------------------
(* What can go wrong with a request about Conversation c.                  *)

Errors(c) == {"transport", "authentication", "permission"}
               \cup (IF Readable(c) THEN {} ELSE {"not_found"})

(* A send that a reset takes off the page.                                 *)
DroppedBy(q) ==
  IF page.conversationId # None /\ q.conversationId = None
    THEN {page.pending.key} \ {None} ELSE {}

(* "Not found" is an answer, not one of the failures that are bounded.     *)
FailTo(q, error) ==
  /\ error = "not_found" \/ history.failures < MaxFailures
  /\ page' = q
  /\ history' = [history EXCEPT !.dropped = @ \cup DroppedBy(q),
                    !.failures = IF error = "not_found" THEN @ ELSE @ + 1]

(* A "not found" that names something else, an AgentRevision or the App,   *)
(* and is taken for that of the Conversation.                              *)
MisleadTo(q) ==
  /\ history.failures < MaxFailures
  /\ page' = q
  /\ history' = [history EXCEPT !.dropped = @ \cup DroppedBy(q),
                    !.failures = @ + 1, !.misled = @ + 1]

-----------------------------------------------------------------------------
(* Sending.                                                                *)

RequestsOut == {k \in Keys : requests[k].status \in {"out", "admitted", "busy"}}

(* turnOptions: a host names its Conversation, a visitor's token means one.*)
Ask(k, again) ==
  [requests EXCEPT ![k] = [@ EXCEPT !.status = "out", !.again = again,
     !.conversation = IF page.mode = "host" THEN 1 ELSE visitor]]

Send ==
  LET k == history.sends + 1
  IN /\ SendEnabled(page)
     /\ k \in Keys
     /\ page' = [page EXCEPT !.pending = [key |-> k, status |-> "admitting"]]
     /\ requests' = Ask(k, FALSE)
     /\ history' = [history EXCEPT !.sends = k,
          !.overlapped = IF RequestsOut = {} THEN @ ELSE @ \cup {k}]
     /\ UNCHANGED <<authority, refresh, stopping, serviceVars>>

RetrySend ==
  /\ Allowed(page, "send") /\ page.pending.status = "uncertain"
  /\ page' = [page EXCEPT !.pending.status = "admitting"]
  /\ requests' = Ask(page.pending.key, TRUE)
  /\ UNCHANGED <<authority, refresh, stopping, serviceVars, history>>

DiscardSend ==
  /\ ~page.destroyed /\ page.pending.status = "uncertain"
  /\ page' = [page EXCEPT !.pending = NoSend]
  /\ history' = [history EXCEPT !.dropped = @ \cup {page.pending.key}]
  /\ UNCHANGED <<authority, flightVars, serviceVars>>

(* admitPending goes on, whatever has become of the page in between.       *)
SendAdmitted(k) ==
  LET c == requests[k].conversation
      bound == [page EXCEPT !.conversationId = c, !.admitted = k, !.pending = NoSend]
  IN /\ requests[k].status = "admitted"
     /\ page' = IF page.conversationId = None THEN Bootstrap(bound) ELSE bound
     /\ requests' = [requests EXCEPT ![k].status = "done"]
     /\ UNCHANGED <<authority, refresh, stopping, serviceVars, history>>

(* A request that has not been served may be served later.                 *)
GiveUp(k, error) ==
  LET c == requests[k].conversation
      late == IF requests[k].status = "out" /\ error = "transport" /\ ~Started(k, c)
                THEN {c} ELSE {}
  IN [requests EXCEPT ![k] =
        [@ EXCEPT !.status = "failed", !.late = requests[k].late \cup late]]

(* Faulty: a send with an unknown outcome has failed.                      *)
SendLost(k, error) ==
  LET q == HandleError(page, error, "conversation")
  IN /\ requests[k].status \in {"out", "admitted", "busy"}
     /\ error \in {"transport", "authentication"}
     /\ error = "authentication" => requests[k].status = "out"
     /\ FailTo([q EXCEPT !.pending = NoSend], error)
     /\ requests' = GiveUp(k, error)
     /\ UNCHANGED <<authority, refresh, stopping, serviceVars>>

(* The outcome is unknown: the key stays for a retry, on the send that     *)
(* this request belongs to.                                                *)
SendUncertain(k, error) ==
  LET q == HandleError(page, error, "conversation")
  IN /\ requests[k].status \in {"out", "admitted", "busy"}
     /\ error \in {"transport", "authentication"}
     /\ error = "authentication" => requests[k].status = "out"
     /\ FailTo([q EXCEPT !.pending.status = IF q.pending.key = k THEN "uncertain" ELSE @], error)
     /\ requests' = GiveUp(k, error)
     /\ UNCHANGED <<authority, refresh, stopping, serviceVars>>

(* Whatever send is on the page by now, it is taken off.  A key that was   *)
(* seen is not invalid.                                                    *)
SendRefused(k, error) ==
  LET c == requests[k].conversation
      q == Deny(HandleError(page, error, "conversation"), error, "send")
  IN /\ requests[k].status = "out"
     /\ \/ /\ error \in (Errors(c) \cup {"validation"}) \ {"transport", "authentication"}
           /\ error = "validation" => ~Started(k, c)
           /\ FailTo([q EXCEPT !.pending = NoSend], error)
        \/ /\ error = "not_found" /\ Readable(c)
           /\ MisleadTo([q EXCEPT !.pending = NoSend])
     /\ requests' = [requests EXCEPT ![k].status = "refused"]
     /\ UNCHANGED <<authority, refresh, stopping, serviceVars>>

AskClaim(c, t) ==
  refresh' = [NoRefresh EXCEPT !.status = "out", !.conversation = c, !.interrupted = t]

(* Somebody else's Turn is running: the claim is read again.  Bound: one   *)
(* such read at a time.                                                    *)
SendBusy(k) ==
  /\ requests[k].status = "busy"
  /\ refresh = NoRefresh
  /\ page' = [page EXCEPT !.pending = NoSend]
  /\ requests' = [requests EXCEPT ![k].status = "refused"]
  /\ IF page.conversationId = None THEN UNCHANGED refresh
                                   ELSE AskClaim(page.conversationId, None)
  /\ UNCHANGED <<authority, stopping, serviceVars, history>>

(* The end of refreshConversationClaim, and of the interrupt that waited   *)
(* for it.                                                                 *)
EndRefresh(p) ==
  IF refresh.interrupted = None THEN p
  ELSE [p EXCEPT !.interrupting = None, !.interruptionError = refresh.interrupted]

ClaimRefreshed ==
  /\ refresh.status = "read"
  /\ page' = EndRefresh(IF page.destroyed THEN page
                         ELSE [page EXCEPT !.claim = refresh.active])
  /\ refresh' = NoRefresh
  /\ UNCHANGED <<authority, requests, stopping, serviceVars, history>>

(* Any error is swallowed, and every one counts.                           *)
ClaimNotRefreshed ==
  /\ refresh.status # "none"
  /\ FailTo(EndRefresh(page), "transport")
  /\ refresh' = NoRefresh
  /\ UNCHANGED <<authority, requests, stopping, serviceVars>>
-----------------------------------------------------------------------------
(* The first read and the stream.                                          *)

EndBoot(p, c) ==
  [p EXCEPT !.boots[c] = NoRead,
            !.bootstrapping = IF @ = c THEN None ELSE @]

Seeded(p, c) ==
  LET read == page.boots[c]
  IN StartStream([p EXCEPT !.claim = read.active,
       !.reducer = [conversation |-> c, from |-> read.at, at |-> read.at]])

(* Faulty: the page is not looked at again after the read.                 *)
ApplyWindow(c) ==
  /\ page.boots[c].status = "read"
  /\ page' = EndBoot(Seeded(page, c), c)
  /\ UNCHANGED <<authority, flightVars, serviceVars, history>>

WindowRead(c) ==
  LET kept == ~page.destroyed /\ c = page.conversationId
  IN /\ page.boots[c].status = "read"
     /\ page' = EndBoot(IF kept THEN Seeded(page, c) ELSE page, c)
     /\ UNCHANGED <<authority, flightVars, serviceVars, history>>

WindowNotRead(c, error) ==
  /\ page.boots[c].status # "none"
  /\ error \in Errors(c)
  /\ FailTo(EndBoot(IF page.destroyed THEN page
                    ELSE ConnectionLost(HandleError(page, error, "conversation"), error), c), error)
  /\ UNCHANGED <<authority, flightVars, serviceVars>>

(* The service refuses a cursor of another Conversation.                   *)
StreamConnects(r) ==
  /\ r \in page.readers /\ ~r.open
  /\ Readable(r.conversation) /\ r.of[1] = r.conversation
  /\ page' = [page EXCEPT !.readers = (@ \ {r}) \cup {[r EXCEPT !.open = TRUE]},
                          !.connection = "connected"]
  /\ UNCHANGED <<authority, flightVars, serviceVars, history>>

ReceiveFrame(r) ==
  /\ r \in page.readers /\ r.open
  /\ r.of = Identity(page.reducer)
  /\ page.reducer.at < Len(log[r.conversation])
  /\ page' = OnStreamUpdate([page EXCEPT !.reducer.at = @ + 1])
  /\ UNCHANGED <<authority, flightVars, serviceVars, history>>

StreamFails(r, error) ==
  /\ r \in page.readers
  /\ error \in Errors(r.conversation)
  /\ LET stopped == [page EXCEPT !.readers = @ \ {r}]
     IN FailTo(ConnectionLost(HandleError(stopped, error, "conversation"), error), error)
  /\ UNCHANGED <<authority, flightVars, serviceVars>>

(* The button, and the browser that is online again.                       *)
Reconnect ==
  /\ Allowed(page, "connection") /\ page.connection = "error"
  /\ page.conversationId # None
  /\ page' = Resume(page)
  /\ UNCHANGED <<authority, flightVars, serviceVars, history>>

-----------------------------------------------------------------------------
(* Interrupting.                                                           *)

Interrupt ==
  LET t == IF page.interruptionError # None THEN page.interruptionError ELSE Active(page)
  IN /\ Allowed(page, "interrupt") /\ page.interrupting = None
     /\ t # None /\ t \notin stopping
     /\ page' = [page EXCEPT !.interrupting = t, !.interruptionError = None]
     /\ stopping' = stopping \cup {t}
     /\ UNCHANGED <<authority, requests, refresh, serviceVars, history>>

Interrupted(t) ==
  /\ t \in stopping
  /\ page' = [page EXCEPT !.interrupting = None]
  /\ stopping' = stopping \ {t}
  /\ UNCHANGED <<authority, requests, refresh, serviceVars, history>>

(* The service does not have the Turn any more, or not for this visitor.   *)
TurnMissing(t) ==
  Ended(t) \/ \E c \in Conversations : Started(t, c) /\ ~Readable(c)

NotInterrupted(t, error) ==
  LET q == Deny(HandleError(page, error, "turn"), error, "interrupt")
  IN /\ t \in stopping
     /\ error \in {"transport", "authentication", "permission"}
     /\ FailTo([q EXCEPT !.interrupting = None, !.interruptionError = t], error)
     /\ stopping' = stopping \ {t}
     /\ UNCHANGED <<authority, requests, refresh, serviceVars>>

(* A Turn that is gone cannot hold the composer: the claim is read again.  *)
NothingToInterrupt(t) ==
  LET q == HandleError(page, "not_found", "turn")
  IN /\ t \in stopping /\ TurnMissing(t) /\ refresh = NoRefresh
     /\ IF q.conversationId = None
          THEN /\ FailTo([q EXCEPT !.interrupting = None, !.interruptionError = t], "not_found")
               /\ UNCHANGED refresh
          ELSE FailTo(q, "not_found") /\ AskClaim(q.conversationId, t)
     /\ stopping' = stopping \ {t}
     /\ UNCHANGED <<authority, requests, serviceVars>>

-----------------------------------------------------------------------------
(* Authorization.                                                          *)

(* The Conversation a grant for visitor v names: there may be none yet.    *)
Granted(v) == IF log[v] = <<>> THEN {None, v} ELSE {v}

Ready(p) == ResumeIfNeeded([p EXCEPT !.authorization = "ready"])

RetryAuthorization ==
  /\ ~page.destroyed /\ page.authorization = "lost"
  /\ IF page.mode = "host"
       THEN page' = Ready([page EXCEPT !.denied = {}]) /\ UNCHANGED authority
       ELSE /\ authority.exchange = "none"
            /\ page' = [page EXCEPT !.authorization =
                          IF authority.token THEN "renewing" ELSE "authorizing"]
            /\ authority' = [authority EXCEPT !.exchange = "retry", !.of = visitor]
  /\ UNCHANGED <<flightVars, serviceVars, history>>

(* Bound: one exchange at a time, next to that of a start over.            *)
Renew ==
  /\ authority.timer /\ authority.exchange = "none"
  /\ page' = [page EXCEPT !.authorization =
                IF authority.token THEN "renewing" ELSE "authorizing"]
  /\ authority' = [authority EXCEPT !.timer = FALSE, !.exchange = "renew", !.of = visitor]
  /\ UNCHANGED <<flightVars, serviceVars, history>>

(* The ready callback comes first, then whoever waited for the exchange.   *)
Resolved(p, c) ==
  LET q == [p EXCEPT !.conversationId = IF @ = None THEN c ELSE @]
  IN CASE authority.exchange = "renew" -> p
       [] authority.exchange = "retry" -> Ready([q EXCEPT !.denied = {}])
       [] authority.exchange = "init"  ->
            IF q.conversationId = None THEN q ELSE Bootstrap(q)

Authorized(c) ==
  /\ authority.exchange # "none"
  /\ c \in Granted(authority.of)
  /\ IF page.destroyed
       THEN /\ authority' = [authority EXCEPT !.exchange = "none"]
            /\ UNCHANGED <<page, visitor>>
       ELSE /\ authority' = [authority EXCEPT !.exchange = "none",
                                !.token = TRUE, !.timer = TRUE]
            /\ page' = Resolved(Ready(page), c)
            /\ visitor' = authority.of
  /\ UNCHANGED <<flightVars, log, gone, history>>

(* A token that is still good is kept, and the renewal tried again.  Only  *)
(* `initialize` looks at the error: what it is not matters elsewhere.      *)
NotAuthorized(error, kept) ==
  /\ authority.exchange # "none"
  /\ error \in {"transport", "authentication", "permission", "not_found"}
  /\ error = "not_found" => authority.exchange = "init"
  /\ kept => authority.token
  /\ authority' = [authority EXCEPT !.exchange = "none", !.token = kept,
                                    !.timer = kept \/ @]
  /\ LET q == IF page.destroyed THEN page
              ELSE IF kept THEN Ready(page)
              ELSE [page EXCEPT !.authorization = "lost"]
         r == IF authority.exchange = "init" /\ ~page.destroyed
                THEN HandleError(q, error, "conversation") ELSE q
     IN IF error = "not_found" THEN MisleadTo(r) ELSE FailTo(r, error)
  /\ UNCHANGED <<flightVars, serviceVars>>

-----------------------------------------------------------------------------
(* A new visitor, and the end of the page.                                 *)

StartOver ==
  /\ ~page.destroyed /\ page.mode = "anonymous" /\ ~page.startingOver
  /\ history.latest < MaxVisitors
  /\ page' = [page EXCEPT !.startingOver = TRUE]
  /\ authority' = [authority EXCEPT !.timer = FALSE]
  /\ UNCHANGED <<flightVars, serviceVars, history>>

(* Nothing asked for the visitor before is still on its way.               *)
Quiet(p) ==
  /\ RequestsOut = {} /\ refresh = NoRefresh /\ stopping = {}
  /\ authority.exchange = "none"
  /\ \A d \in Conversations : p.boots[d] = NoRead

(* The ready callback still finds the Conversation of the visitor before.  *)
(* A destroyed page gets no token, but is reset all the same.              *)
StartedOver ==
  LET v == history.latest + 1
      ready == IF page.destroyed THEN page ELSE Ready(page)
  IN /\ page.startingOver
     /\ \E c \in Granted(v) :
          LET fresh == ResetConversation(
                StopStream([ready EXCEPT !.denied = {}, !.startingOver = FALSE]), c)
          IN page' = IF c = None THEN fresh ELSE Bootstrap(fresh)
     /\ authority' = IF page.destroyed THEN authority
                     ELSE [authority EXCEPT !.token = TRUE, !.timer = TRUE]
     /\ visitor' = v
     /\ history' = [history EXCEPT !.latest = v,
          !.crossed = @ \/ ~Quiet(ready),
          !.dropped = @ \cup ({page.pending.key} \ {None})]
     /\ UNCHANGED <<flightVars, log, gone>>

(* "A failure changes nothing": but the timer was cleared, and a "not      *)
(* found" of the App resets the page.                                      *)
NotStartedOver(error) ==
  LET q == [HandleError(page, error, "conversation") EXCEPT !.startingOver = FALSE]
  IN /\ page.startingOver
     /\ \/ /\ error \in {"transport", "authentication", "permission"}
           /\ FailTo(q, error)
        \/ error = "not_found" /\ MisleadTo(q)
     /\ UNCHANGED <<authority, flightVars, serviceVars>>

Destroy ==
  /\ ~page.destroyed
  /\ page' = [StopStream(page) EXCEPT !.destroyed = TRUE]
  /\ authority' = [authority EXCEPT !.token = FALSE, !.timer = FALSE]
  /\ UNCHANGED <<flightVars, serviceVars, history>>

-----------------------------------------------------------------------------
ErrorKinds == Faults \cup {"not_found"}

Page ==
  \/ Send \/ RetrySend \/ DiscardSend \/ Reconnect \/ Interrupt
  \/ RetryAuthorization \/ Renew \/ StartOver \/ Destroy

Answers ==
  \/ \E k \in Keys : SendAdmitted(k) \/ SendBusy(k)
  \/ ClaimRefreshed
  \/ \E c \in Conversations : WindowRead(c) \/ Authorized(c)
  \/ Authorized(None)
  \/ \E r \in page.readers : StreamConnects(r) \/ ReceiveFrame(r)
  \/ \E t \in stopping : Interrupted(t)
  \/ StartedOver

Failures ==
  \/ ClaimNotRefreshed
  \/ \E e \in ErrorKinds :
       \/ \E k \in Keys : SendUncertain(k, e) \/ SendRefused(k, e)
       \/ \E c \in Conversations : WindowNotRead(c, e)
       \/ \E r \in page.readers : StreamFails(r, e)
       \/ \E t \in stopping : NotInterrupted(t, e) \/ NothingToInterrupt(t)
       \/ \E kept \in BOOLEAN : NotAuthorized(e, kept)
       \/ NotStartedOver(e)

Service ==
  \/ \E k \in Keys : Admit(k) \/ AnswerBusy(k) \/ AdmitLate(k)
  \/ \E c \in Conversations :
       OtherTurnStarts(c) \/ TurnEnds(c) \/ Delete(c) \/ ReadWindow(c)
  \/ ReadClaim

Next == Page \/ Answers \/ Failures \/ Service

Spec == Init /\ [][Next]_vars

(* The service answers, the connection is made and frames are delivered,   *)
(* timers fire.  Nobody has to press a button and no Turn has to end.      *)
Fairness ==
  /\ \A c \in Conversations :
       WF_vars(ReadWindow(c) \/ WindowRead(c) \/ WindowNotRead(c, "not_found"))
  /\ WF_vars(\E r \in page.readers : StreamConnects(r) \/ ReceiveFrame(r))
  /\ WF_vars(Renew)
  /\ WF_vars(\E c \in Conversations \cup {None} : Authorized(c))
  /\ WF_vars(StartedOver)

FairSpec == Spec /\ Fairness

-----------------------------------------------------------------------------
(* Safety.                                                                 *)

(* However recoveries, reads and failures interleave, at most one stream   *)
(* is read, and a page that says "connected" is reading one.               *)
OneStream ==
  /\ \A r, s \in page.readers : r = s
  /\ page.connection = "connected" /\ ~page.destroyed
       => \E r \in page.readers : r.open

(* The stream, the claims and the credential are all those of the visitor  *)
(* that the page is for.                                                   *)
NothingCarriedOver ==
  page.mode = "anonymous" /\ ~page.destroyed =>
    /\ visitor = history.latest
    /\ page.conversationId \in {None, visitor}
    /\ \A r \in page.readers : r.conversation = visitor
    /\ \A t \in {page.admitted, page.claim} \ {None} : Started(t, visitor)

(* A start over that overtakes no request carries nothing over, whatever   *)
(* the page goes through before and after it.                              *)
QuietStartOver == ~history.crossed => NothingCarriedOver

(* From the receipt of its admission to the report of its end, the page's  *)
(* own Turn keeps the composer closed: there is no beat in which a second  *)
(* message can be sent into a live Turn.  A page that took the "not found" *)
(* of something else for its Conversation's forgot its Turns; left out.    *)
OwnTurnClosesComposer ==
  \A k \in Keys \ history.overlapped :
    /\ requests[k].status = "done" /\ ~history.crossed /\ history.misled = 0
    /\ requests[k].conversation = page.conversationId
    /\ k \in ActiveIn(page.conversationId)
    => ~SendEnabled(page)

(* A Turn that the service has admitted, however late, is acknowledged or  *)
(* still has its key on the page for a retry: a send that ends with its    *)
(* outcome unknown is not forgotten, and one that is refused, or finds the *)
(* Conversation busy, at the first attempt is never admitted.  A send of   *)
(* unknown outcome leaves the page only when the user discards it, when    *)
(* the page is reset, or when a retry is refused or finds the Conversation *)
(* busy, although the first attempt may have been admitted or may yet be.  *)
OwnTurnIsKept ==
  \A k \in Keys \ (history.overlapped \cup history.dropped) :
    /\ \E c \in Conversations : Started(k, c)
    /\ ~page.destroyed /\ ~history.crossed
    => \/ page.pending.key = k \/ requests[k].status = "done"
       \/ requests[k].status = "refused" /\ requests[k].again

(* No answer or grant that arrives after destroy() brings a stream or the  *)
(* renewal timer back.                                                     *)
DestroyIsFinal == page.destroyed => page.readers = {} /\ ~authority.timer

(* The page leaves its Conversation only because the Conversation is gone, *)
(* its visitor starts over, or a send or an exchange is answered "not      *)
(* found" for something else, which the code takes for the Conversation.   *)
(* No other failure and no late answer takes the transcript, and a missing *)
(* Turn never does.                                                        *)
LeavesOnlyTheGone ==
  [][/\ page.conversationId # None /\ page'.conversationId # page.conversationId
     /\ ~history'.crossed /\ history'.latest = history.latest
     /\ history'.misled = history.misled
     => page.conversationId \in gone]_vars

-----------------------------------------------------------------------------
(* Liveness.                                                               *)

(* A Turn that is over is still what the page waits for, with its stream   *)
(* connected.                                                              *)
Stuck(t) ==
  /\ ~page.destroyed /\ \E r \in page.readers : r.open
  /\ Ended(t) /\ Active(page) = t

(* The window was read when the Turn was over already, so that the stream  *)
(* has nothing to say of it.                                               *)
OverBeforeWindow(t) ==
  \E i \in 1 .. page.reducer.from :
    log[page.reducer.conversation][i] = [turn |-> t, over |-> TRUE]

(* onStreamUpdate: "keeping either past that is how a composer stays       *)
(* disabled".  A connected page lets go of its Turn when the Turn is over, *)
(* but for a Turn that was over before the window was read.                *)
TurnLetsGo ==
  \A t \in Turns :
    <>[]Stuck(t) => <>[](history.crossed \/ OverBeforeWindow(t))

(* A visitor's stream that stopped on a failure comes back by itself as    *)
(* long as the grant is renewed: it stays down only once no renewal is due *)
(* or on its way.                                                          *)
StreamComesBack ==
  <>[](/\ page.mode = "anonymous" /\ ~page.destroyed
       /\ page.conversationId # None /\ page.connection = "error")
    => <>[](~authority.timer /\ authority.exchange = "none")
=============================================================================
