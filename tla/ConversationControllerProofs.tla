--------------------- MODULE ConversationControllerProofs ---------------------
(***************************************************************************)
(* The safety of a page of a Conversation for any numbers of messages,     *)
(* Turns, visitors and failures.                                           *)
(***************************************************************************)
EXTENDS ConversationController, TLAPS

-----------------------------------------------------------------------------
(* Pages.                                                                  *)

(* What the streams of a page have to do with the rest of it ...           *)
Tidy(p) ==
  /\ p \in Pages
  /\ \A r, s \in p.readers : r = s
  /\ \A r \in p.readers : r.open => r.of[1] = r.conversation
  /\ p.readers # {} \/ p.connection = "connected" => p.conversationId # None
  /\ p.destroyed => p.readers = {}
  /\ p.reducer # NoReducer => p.reducer.conversation # None
  /\ p.conversationId = None => p.reducer = NoReducer

(* ... and with what it shows of its connection.                           *)
Honest(p) ==
  p.connection = "connected" /\ ~p.destroyed => \E r \in p.readers : r.open

Good(p) == Tidy(p) /\ Honest(p)

(* q shows what p shows, with other streams, first reads and notices ...   *)
View(p, q) ==
  /\ q.mode = p.mode /\ q.conversationId = p.conversationId
  /\ q.reducer = p.reducer
  /\ \A r \in q.readers :
       \/ r.conversation = q.conversationId
       \/ \E s \in p.readers : r.conversation = s.conversation
  /\ \A c \in Conversations :
       \/ q.boots[c] = p.boots[c] \/ q.boots[c].status = "none"
       \/ /\ c = q.conversationId /\ q.reducer = NoReducer
          /\ q.boots[c].status = "out"

(* ... and it has the same sends and claims ...                            *)
Stays(p, q) ==
  /\ View(p, q)
  /\ q.claim = p.claim /\ q.admitted = p.admitted /\ q.pending = p.pending

(* ... or is as far in its life, unless it has lost its authorization.     *)
Carries(p, q) ==
  /\ View(p, q)
  /\ q.startingOver = p.startingOver /\ q.destroyed = p.destroyed
  /\ q.authorization \in {p.authorization, "lost"}

Recovers(p, q) ==
  /\ Carries(p, q)
  /\ q.claim = p.claim /\ q.admitted = p.admitted /\ q.pending = p.pending

(* q is p, reset to no Conversation or another one.                        *)
Resets(p, q, c) ==
  /\ q.mode = p.mode /\ q.conversationId = c
  /\ q.reducer = NoReducer /\ q.claim = None /\ q.admitted = None
  /\ q.pending = NoSend /\ q.readers = {}
  /\ q.startingOver = p.startingOver /\ q.destroyed = p.destroyed
  /\ q.authorization = p.authorization
  /\ \A d \in Conversations : q.boots[d] = p.boots[d] \/ q.boots[d].status = "none"

LEMMA Numbers ==
  /\ None \notin Conversations /\ None \notin Turns /\ None \notin Keys
  /\ 1 \in Conversations /\ Keys \subseteq Turns
  /\ Conversations \subseteq Nat /\ Turns \subseteq Nat
BY BoundsAssumption DEF None, Conversations, Turns, Keys

LEMMA NothingTyped ==
  /\ NoReducer \in Reducers /\ NoReducer.conversation = None
  /\ NoRead.status = "none" /\ NoSend.status = "none" /\ NoSend.key = None
  /\ NoRead \in [status: {"none", "out", "read"}, at: Nat, active: Turns \cup {None}]
  /\ NoSend \in [key: Keys \cup {None}, status: {"none", "admitting", "uncertain"}]
BY DEF NoReducer, Reducers, NoRead, NoSend, None

LEMMA StreamStarts ==
  ASSUME NEW p, Tidy(p), p.conversationId # None, p.reducer # NoReducer, ~p.destroyed
  PROVE  Good(StartStream(p)) /\ Recovers(p, StartStream(p))
<1> DEFINE q == StartStream(p)
<1>1. NewReader(p) \in Readers /\ ~NewReader(p).open
      /\ NewReader(p).conversation = p.conversationId
  BY Numbers DEF NewReader, Readers, Identity, Tidy, Pages, Reducers
<1>2. q = [p EXCEPT !.readers = {NewReader(p)}, !.connection = "connecting"]
  BY DEF StartStream, StopStream, Tidy, Pages
<1> HIDE DEF q
<1>3. q \in Pages
  BY <1>1, <1>2, ZenonT(60) DEF Tidy, Pages
<1>4. QED
  BY <1>1, <1>2, <1>3 DEF q, Good, Tidy, Honest, Recovers, Carries, View, Pages

LEMMA FirstReadStarts ==
  ASSUME NEW p, Tidy(p), p.conversationId # None
  PROVE  /\ Tidy(Bootstrap(p)) /\ (Honest(p) => Honest(Bootstrap(p)))
         /\ p.reducer = NoReducer => Recovers(p, Bootstrap(p))
         /\ Bootstrap(p).mode = p.mode /\ Bootstrap(p).pending = p.pending
         /\ Bootstrap(p).startingOver = p.startingOver
         /\ Bootstrap(p).destroyed = p.destroyed
         /\ Bootstrap(p).reducer = p.reducer
         /\ \A d \in Conversations :
              Bootstrap(p).boots[d] = p.boots[d] \/ Bootstrap(p).boots[d].status = "out"
<1> DEFINE c == p.conversationId
           reading == [NoRead EXCEPT !.status = "out"]
           read == IF p.boots[c].status = "none" THEN reading ELSE p.boots[c]
           boots == [p.boots EXCEPT ![c] = read]
           q == Bootstrap(p)
<1>1. CASE p.bootstrapping = c
  <2>1. q = p
    BY <1>1 DEF Bootstrap
  <2> QED
    BY <2>1 DEF Recovers, Carries, View
<1>2. CASE p.bootstrapping # c
  <2>1. c \in Conversations
    BY DEF Tidy, Pages
  <2>2. /\ reading \in [status: {"none", "out", "read"}, at: Nat, active: Turns \cup {None}]
        /\ reading.status = "out"
    BY DEF NoRead
  <2>3. p.boots[c] \in [status: {"none", "out", "read"}, at: Nat, active: Turns \cup {None}]
    BY <2>1 DEF Tidy, Pages
  <2>4. q = [p EXCEPT !.bootstrapping = c, !.connection = "connecting", !.boots = boots]
    BY <1>2 DEF Bootstrap
  <2> HIDE DEF q, c, reading
  <2>5. boots \in
          [Conversations -> [status: {"none", "out", "read"}, at: Nat, active: Turns \cup {None}]]
    BY <2>1, <2>2, <2>3 DEF Tidy, Pages
  <2> HIDE DEF boots
  <2>7. q \in Pages /\ q.boots = boots
    BY <2>1, <2>4, <2>5 DEF Tidy, Pages
  <2>10. /\ q.readers = p.readers /\ q.connection = "connecting"
         /\ q.conversationId = p.conversationId /\ q.reducer = p.reducer
         /\ q.destroyed = p.destroyed
         /\ q.mode = p.mode /\ q.pending = p.pending /\ q.startingOver = p.startingOver
    BY <2>4 DEF Tidy, Pages
  <2>8. Tidy(q) /\ Honest(q)
    BY <2>7, <2>10 DEF Tidy, Honest
  <2>9. p.reducer = NoReducer => Recovers(p, q)
    <3> SUFFICES ASSUME p.reducer = NoReducer PROVE Recovers(p, q)
      OBVIOUS
    <3>1. \A d \in Conversations : q.boots[d] # p.boots[d]
            => d = q.conversationId /\ q.reducer = NoReducer /\ q.boots[d].status = "out"
      <4>1. read.status # p.boots[c].status => read.status = "out"
        BY <2>2
      <4>2. \A d \in Conversations : boots[d] # p.boots[d] => d = c
        BY <2>1 DEF boots, Tidy, Pages
      <4>3. boots[c] = read
        BY <2>1 DEF boots, Tidy, Pages
      <4>4. read # p.boots[c] => read.status = "out"
        BY <2>2
      <4>5. q.conversationId = c /\ q.reducer = NoReducer
        BY <2>4 DEF Tidy, Pages, c
      <4> QED
        BY <2>7, <4>2, <4>3, <4>4, <4>5
    <3> QED
      BY <2>4, <3>1 DEF Tidy, Recovers, Carries, View, Pages
  <2>11. \A d \in Conversations : q.boots[d] = p.boots[d] \/ q.boots[d].status = "out"
    <3>1. \A d \in Conversations : boots[d] = p.boots[d] \/ boots[d] = read
      BY <2>1 DEF boots, Tidy, Pages
    <3>2. read = p.boots[c] \/ read.status = "out"
      BY <2>2
    <3>3. \A d \in Conversations : boots[d] # p.boots[d] => d = c
      BY <2>1 DEF boots, Tidy, Pages
    <3> QED
      BY <2>7, <3>1, <3>2, <3>3
  <2> QED
    BY <2>8, <2>9, <2>10, <2>11 DEF q
<1>3. QED
  BY <1>1, <1>2

LEMMA PageResumes ==
  ASSUME NEW p, Good(p), p.conversationId # None, ~p.destroyed
  PROVE  Good(Resume(p)) /\ Recovers(p, Resume(p))
BY StreamStarts, FirstReadStarts DEF Resume, Good

LEMMA RecoversNothing ==
  ASSUME NEW p PROVE Recovers(p, p)
BY DEF Recovers, Carries, View

(* A grant arrives: the page is ready and goes on.                         *)
LEMMA PageIsReady ==
  ASSUME NEW p, Good(p)
  PROVE  /\ Good(Ready(p))
         /\ Recovers([p EXCEPT !.authorization = "ready"], Ready(p))
<1> DEFINE q == [p EXCEPT !.authorization = "ready"]
<1>1. Good(q)
  BY DEF Good, Tidy, Honest, Pages
<1>2. Ready(p) = IF NeedsResume(q) THEN Resume(q) ELSE q
  BY DEF Ready, ResumeIfNeeded
<1>3. NeedsResume(q) => q.conversationId # None /\ ~q.destroyed
  BY DEF NeedsResume
<1> HIDE DEF q
<1>4. CASE NeedsResume(q)
  BY <1>1, <1>2, <1>3, <1>4, PageResumes DEF q
<1>5. CASE ~NeedsResume(q)
  BY <1>1, <1>2, <1>5, RecoversNothing DEF q
<1>6. QED
  BY <1>4, <1>5

LEMMA StreamStops ==
  ASSUME NEW p, Tidy(p)
  PROVE  /\ Tidy(StopStream(p)) /\ Recovers(p, StopStream(p))
         /\ StopStream(p).readers = {}
         /\ StopStream(p).connection = p.connection
         /\ StopStream(p).boots = p.boots
         /\ StopStream(p).authorization = p.authorization
BY DEF StopStream, Tidy, Recovers, Carries, View, Pages

LEMMA PageIsReset ==
  ASSUME NEW p, Tidy(p), NEW c \in Conversations \cup {None}
  PROVE  /\ Good(ResetConversation(StopStream(p), c))
         /\ Resets(p, ResetConversation(StopStream(p), c), c)
<1> DEFINE s == StopStream(p)
           q == ResetConversation(s, c)
           connection == IF c = None THEN "no_conversation" ELSE "connecting"
<1>1. Tidy(s) /\ Recovers(p, s) /\ s.readers = {} /\ s.boots = p.boots
      /\ s.authorization = p.authorization
  BY StreamStops
<1>2. q = [s EXCEPT !.conversationId = c, !.reducer = NoReducer, !.claim = None,
            !.pending = NoSend, !.admitted = None, !.interrupting = None,
            !.interruptionError = None, !.connection = connection]
  BY DEF ResetConversation
<1>3. connection \in {"no_conversation", "connecting"}
  OBVIOUS
<1> HIDE DEF s, q, connection
<1>4. q \in Pages
  <2>1. s \in Pages
    BY <1>1 DEF Tidy
  <2>2. None \in Turns \cup {None}
    OBVIOUS
  <2> QED
    BY <1>2, <1>3, <2>1, <2>2, NothingTyped, ZenonT(60) DEF Pages
<1>5. Resets(p, q, c)
  BY <1>1, <1>2 DEF Resets, Recovers, Carries, View, Tidy, Pages
<1>6. Good(q)
  BY <1>2, <1>3, <1>4, <1>5, <1>1 DEF Resets, Good, Tidy, Honest, Pages
<1>7. QED
  BY <1>5, <1>6 DEF q, s

(* An error stops the stream or resets the page, and nothing else.         *)
LEMMA ErrorIsHandled ==
  ASSUME NEW p, Tidy(p), NEW e, NEW scope
  PROVE  LET q == HandleError(p, e, scope)
         IN /\ Tidy(q) /\ (Honest(p) => Honest(q))
            /\ e \in {"authentication", "not_found"} /\ p.conversationId # None
                 /\ scope = "conversation" => Honest(q)
            /\ \/ Recovers(p, q)
               \/ /\ e = "not_found" /\ scope = "conversation" /\ p.conversationId # None
                  /\ Resets(p, q, None)
<1> DEFINE q == HandleError(p, e, scope)
           s == StopStream(p)
           connection == IF p.conversationId = None THEN s.connection ELSE "error"
           lost == [s EXCEPT !.authorization = "lost", !.connection = connection]
<1>1. CASE e = "authentication"
  <2>1. q = lost
    BY <1>1 DEF HandleError
  <2>5. /\ Tidy(s) /\ Recovers(p, s) /\ s.readers = {} /\ s.connection = p.connection
        /\ s.authorization = p.authorization
    BY StreamStops
  <2> HIDE DEF s
  <2>6. connection \in {"no_conversation", "connecting", "connected", "error"}
    BY <2>5 DEF Tidy, Pages
  <2> HIDE DEF connection
  <2>2. lost \in Pages /\ lost.readers = {}
    <3>1. s \in Pages
      BY <2>5 DEF Tidy
    <3>2. lost \in Pages
      BY <2>6, <3>1, ZenonT(60) DEF Pages
    <3> QED
      BY <2>5, <3>1, <3>2 DEF Pages
  <2>3. Tidy(lost) /\ Recovers(p, lost) /\ (Honest(p) => Honest(lost))
    BY <2>2, <2>5 DEF Tidy, Honest, Recovers, Carries, View, Pages, connection
  <2>4. p.conversationId # None => Honest(lost)
    BY <2>2, <2>5 DEF Tidy, Honest, Pages, connection
  <2> QED
    BY <1>1, <2>1, <2>3, <2>4
<1>2. CASE e = "not_found" /\ scope = "conversation" /\ p.conversationId # None
  <2>1. q = ResetConversation(StopStream(p), None)
    BY <1>2 DEF HandleError
  <2> QED
    BY <1>2, <2>1, PageIsReset DEF Good
<1>3. CASE e # "authentication"
           /\ ~(e = "not_found" /\ scope = "conversation" /\ p.conversationId # None)
  <2>1. q = p
    BY <1>3 DEF HandleError
  <2> QED
    BY <1>3, <2>1, RecoversNothing
<1>4. QED
  BY <1>1, <1>2, <1>3

(* What a failed read or stream does, also where a stream has just been    *)
(* taken off the page.                                                     *)
LEMMA ConnectionIsLost ==
  ASSUME NEW p, Tidy(p), NEW e, Honest(p) \/ p.conversationId # None
  PROVE  LET q == ConnectionLost(HandleError(p, e, "conversation"), e)
         IN /\ Good(q)
            /\ \/ Recovers(p, q)
               \/ e = "not_found" /\ p.conversationId # None /\ Resets(p, q, None)
<1> DEFINE h == HandleError(p, e, "conversation")
           q == ConnectionLost(h, e)
<1>1. /\ Tidy(h) /\ (Honest(p) => Honest(h))
      /\ e \in {"authentication", "not_found"} /\ p.conversationId # None => Honest(h)
      /\ \/ Recovers(p, h)
         \/ e = "not_found" /\ p.conversationId # None /\ Resets(p, h, None)
  <2> HIDE DEF q
  <2>1. LET r == h
        IN /\ Tidy(r) /\ (Honest(p) => Honest(r))
           /\ e \in {"authentication", "not_found"} /\ p.conversationId # None => Honest(r)
           /\ \/ Recovers(p, r)
              \/ e = "not_found" /\ p.conversationId # None /\ Resets(p, r, None)
    BY ErrorIsHandled
  <2> QED
    BY <2>1
<1>2. CASE e \in {"authentication", "not_found"}
  BY <1>1, <1>2 DEF ConnectionLost, Good
<1>3. CASE e \notin {"authentication", "not_found"}
  <2>1. h = p
    BY <1>3 DEF HandleError
  <2> DEFINE denied == p.denied \cup (IF e = "permission" THEN {"connection"} ELSE {})
  <2>2. denied \subseteq Operations
    BY DEF Operations, Tidy, Pages
  <2>3. q = [p EXCEPT !.connection = "error", !.denied = denied]
    BY <1>3, <2>1 DEF ConnectionLost
  <2> HIDE DEF denied, q
  <2>4. q \in Pages
    BY <2>2, <2>3 DEF Tidy, Pages
  <2>5. Good(q) /\ Recovers(p, q)
    BY <2>3, <2>4 DEF Good, Tidy, Honest, Recovers, Carries, View, Pages
  <2> QED
    BY <2>5 DEF q
<1>4. QED
  BY <1>2, <1>3

-----------------------------------------------------------------------------
(* Types and streams.                                                      *)

Statuses == {"none", "out", "admitted", "busy", "done", "failed", "refused"}
Requests == [status: Statuses, conversation: Conversations \cup {None},
             again: BOOLEAN, late: SUBSET Conversations]
Reads    == [status: {"none", "out", "read"}, at: Nat, active: Turns \cup {None}]
Refreshes == [status: {"none", "out", "read"}, conversation: Conversations \cup {None},
              active: Turns \cup {None}, interrupted: Turns \cup {None}]
Authorities == [token: BOOLEAN, timer: BOOLEAN, of: Conversations,
                exchange: {"none", "init", "renew", "retry"}]
Histories ==
  [sends: Nat, others: Nat, failures: Nat, latest: Conversations,
   dropped: SUBSET Keys, overlapped: SUBSET Keys, crossed: BOOLEAN, misled: Nat]

(* The rest of what the types and the streams depend on.                   *)
Bookkeeping ==
  /\ page.destroyed => ~authority.token /\ ~authority.timer
  /\ page.startingOver => page.mode = "anonymous" /\ history.latest < MaxVisitors
  /\ \A k \in Keys : requests[k].status # "none" => requests[k].conversation # None
  /\ page.pending.status = "none" <=> page.pending.key = None

PageInv == TypeOK /\ Good(page) /\ Bookkeeping

LEMMA RequestChanges ==
  ASSUME TypeOK, NEW k \in Keys, NEW s \in Statuses, NEW late \in SUBSET Conversations,
         requests' = [requests EXCEPT ![k] =
                        [requests[k] EXCEPT !.status = s, !.late = late]]
  PROVE  /\ requests' \in [Keys -> Requests]
         /\ requests'[k].status = s /\ requests'[k].late = late
         /\ requests'[k].again = requests[k].again
         /\ \A j \in Keys : requests'[j].conversation = requests[j].conversation
         /\ \A j \in Keys \ {k} : requests'[j] = requests[j]
<1> DEFINE moved == [requests[k] EXCEPT !.status = s, !.late = late]
<1>1. requests \in [Keys -> Requests]
  BY DEF TypeOK, Requests, Statuses
<1>2. /\ moved \in Requests /\ moved.status = s /\ moved.late = late
      /\ moved.conversation = requests[k].conversation
      /\ moved.again = requests[k].again
  BY <1>1 DEF Requests
<1>3. requests' = [requests EXCEPT ![k] = moved]
  OBVIOUS
<1> HIDE DEF moved
<1>4. QED
  BY <1>1, <1>2, <1>3

LEMMA RequestMoves ==
  ASSUME TypeOK, NEW k \in Keys, NEW s \in Statuses,
         requests' = [requests EXCEPT ![k].status = s]
  PROVE  /\ requests' \in [Keys -> Requests]
         /\ requests'[k].status = s /\ requests'[k].late = requests[k].late
         /\ requests'[k].again = requests[k].again
         /\ \A j \in Keys : requests'[j].conversation = requests[j].conversation
         /\ \A j \in Keys \ {k} : requests'[j] = requests[j]
<1>1. requests[k] \in Requests
  BY DEF TypeOK, Requests, Statuses
<1>2. /\ requests[k].late \in SUBSET Conversations
      /\ [requests[k] EXCEPT !.status = s] =
           [requests[k] EXCEPT !.status = s, !.late = requests[k].late]
  BY <1>1 DEF Requests
<1>3. requests' = [requests EXCEPT ![k] =
                     [requests[k] EXCEPT !.status = s, !.late = requests[k].late]]
  BY <1>2
<1>4. QED
  BY <1>2, <1>3, RequestChanges

LEMMA SendIsAsked ==
  ASSUME TypeOK, NEW k \in Keys, requests' = Ask(k, FALSE) \/ requests' = Ask(k, TRUE)
  PROVE  /\ requests' \in [Keys -> Requests]
         /\ requests'[k].status = "out" /\ requests'[k].late = requests[k].late
         /\ requests' = Ask(k, FALSE) => ~requests'[k].again
         /\ requests' = Ask(k, TRUE) => requests'[k].again
         /\ requests'[k].conversation = IF page.mode = "host" THEN 1 ELSE visitor
         /\ \A j \in Keys \ {k} : requests'[j] = requests[j]
<1> DEFINE c == IF page.mode = "host" THEN 1 ELSE visitor
           sent(again) == [requests[k] EXCEPT !.status = "out", !.again = again,
                                              !.conversation = c]
<1>1. requests \in [Keys -> Requests] /\ c \in Conversations
  BY Numbers DEF TypeOK, Requests, Statuses
<1>2. \/ requests' = [requests EXCEPT ![k] = sent(FALSE)]
      \/ requests' = [requests EXCEPT ![k] = sent(TRUE)]
  BY DEF Ask
<1>5. /\ requests' = Ask(k, FALSE) => requests' = [requests EXCEPT ![k] = sent(FALSE)]
      /\ requests' = Ask(k, TRUE) => requests' = [requests EXCEPT ![k] = sent(TRUE)]
  BY DEF Ask
<1> HIDE DEF c
<1>3. /\ sent(FALSE) \in Requests /\ sent(FALSE).status = "out"
      /\ sent(FALSE).late = requests[k].late /\ sent(FALSE).conversation = c
      /\ ~sent(FALSE).again
      /\ sent(TRUE) \in Requests /\ sent(TRUE).status = "out"
      /\ sent(TRUE).late = requests[k].late /\ sent(TRUE).conversation = c
      /\ sent(TRUE).again
  BY <1>1 DEF Requests, Statuses
<1> HIDE DEF sent
<1>4. QED
  BY <1>1, <1>2, <1>3, <1>5 DEF c

LEMMA LateIsAdmitted ==
  ASSUME TypeOK, NEW k \in Keys, NEW c,
         requests' = [requests EXCEPT ![k].late = @ \ {c}]
  PROVE  /\ requests' \in [Keys -> Requests]
         /\ requests'[k].late = requests[k].late \ {c}
         /\ \A j \in Keys : /\ requests'[j].status = requests[j].status
                             /\ requests'[j].again = requests[j].again
                             /\ requests'[j].conversation = requests[j].conversation
         /\ \A j \in Keys \ {k} : requests'[j] = requests[j]
<1>1. requests[k] \in Requests
  BY DEF TypeOK, Requests, Statuses
<1> DEFINE late == requests[k].late \ {c}
<1>2. late \in SUBSET Conversations /\ requests[k].status \in Statuses
  BY <1>1 DEF Requests
<1>3. requests' = [requests EXCEPT ![k] =
                     [requests[k] EXCEPT !.status = requests[k].status, !.late = late]]
  <2>1. [requests[k] EXCEPT !.late = late] =
          [requests[k] EXCEPT !.status = requests[k].status, !.late = late]
    BY <1>1 DEF Requests
  <2> QED
    BY <2>1
<1> HIDE DEF late
<1>4. /\ requests' \in [Keys -> Requests]
      /\ requests'[k].status = requests[k].status /\ requests'[k].late = late
      /\ requests'[k].again = requests[k].again
      /\ \A j \in Keys : requests'[j].conversation = requests[j].conversation
      /\ \A j \in Keys \ {k} : requests'[j] = requests[j]
  BY <1>2, <1>3, RequestChanges
<1>5. QED
  BY <1>4 DEF late

(* What is left of a request that the page gives up.                       *)
LEMMA RequestIsGivenUp ==
  ASSUME TypeOK, NEW k \in Keys, NEW e, requests' = GiveUp(k, e),
         requests[k].conversation # None
  PROVE  /\ requests' \in [Keys -> Requests]
         /\ requests'[k].status = "failed" /\ requests'[k].again = requests[k].again
         /\ requests'[k].late \subseteq requests[k].late \cup {requests[k].conversation}
         /\ \A j \in Keys : requests'[j].conversation = requests[j].conversation
         /\ \A j \in Keys \ {k} : requests'[j] = requests[j]
<1> DEFINE c == requests[k].conversation
           new == IF requests[k].status = "out" /\ e = "transport" /\ ~Started(k, c)
                    THEN {c} ELSE {}
           late == requests[k].late \cup new
<1>1. requests[k] \in Requests
  BY DEF TypeOK, Requests, Statuses
<1>2. late \in SUBSET Conversations /\ new \subseteq {c}
  BY <1>1 DEF Requests
<1>3. requests' = [requests EXCEPT ![k] =
                     [requests[k] EXCEPT !.status = "failed", !.late = late]]
  BY DEF GiveUp
<1> HIDE DEF late
<1>4. /\ requests' \in [Keys -> Requests]
      /\ requests'[k].status = "failed" /\ requests'[k].again = requests[k].again
      /\ requests'[k].late = late
      /\ \A j \in Keys : requests'[j].conversation = requests[j].conversation
      /\ \A j \in Keys \ {k} : requests'[j] = requests[j]
  BY <1>2, <1>3, RequestChanges DEF Statuses
<1> HIDE DEF new
<1>5. QED
  BY <1>2, <1>4 DEF late

(* The history but for what a failure has dropped or misled.               *)
HistoryKept ==
  /\ history'.sends = history.sends /\ history'.latest = history.latest
  /\ history'.overlapped = history.overlapped /\ history'.crossed = history.crossed
  /\ history'.misled \in {history.misled, history.misled + 1}

LEMMA FailureIsCounted ==
  ASSUME TypeOK, NEW q, NEW e, FailTo(q, e)
  PROVE  /\ page' = q
         /\ history' \in Histories
         /\ HistoryKept /\ history'.misled = history.misled
         /\ history'.dropped = history.dropped \cup DroppedBy(q)
<1>1. history \in Histories /\ page.pending.key \in Keys \cup {None}
  BY DEF TypeOK, Histories, Pages
<1> DEFINE dropped == history.dropped \cup DroppedBy(q)
           failures == IF e = "not_found" THEN history.failures ELSE history.failures + 1
<1>2. dropped \subseteq Keys /\ failures \in Nat
  BY <1>1 DEF DroppedBy, Histories
<1>3. page' = q /\ history' = [history EXCEPT !.dropped = dropped, !.failures = failures]
  BY DEF FailTo
<1> HIDE DEF dropped, failures
<1>4. QED
  BY <1>1, <1>2, <1>3 DEF Histories, HistoryKept, dropped

LEMMA MisleadingIsCounted ==
  ASSUME TypeOK, NEW q, MisleadTo(q)
  PROVE  /\ page' = q
         /\ history' \in Histories
         /\ HistoryKept /\ history'.misled = history.misled + 1
         /\ history'.dropped = history.dropped \cup DroppedBy(q)
<1>1. history \in Histories /\ page.pending.key \in Keys \cup {None}
  BY DEF TypeOK, Histories, Pages
<1> DEFINE dropped == history.dropped \cup DroppedBy(q)
<1>2. /\ dropped \subseteq Keys
      /\ history.failures + 1 \in Nat /\ history.misled + 1 \in Nat
  BY <1>1 DEF DroppedBy, Histories
<1>3. page' = q /\ history' = [history EXCEPT !.dropped = dropped,
        !.failures = history.failures + 1, !.misled = history.misled + 1]
  BY DEF MisleadTo
<1> HIDE DEF dropped
<1>4. QED
  BY <1>1, <1>2, <1>3 DEF Histories, HistoryKept, dropped

LEMMA FailureDrops ==
  ASSUME NEW q
  PROVE  /\ Carries(page, q) => DroppedBy(q) = {}
         /\ Resets(page, q, None) /\ page.conversationId # None
              => DroppedBy(q) = {page.pending.key} \ {None}
BY DEF DroppedBy, Carries, View, Resets

(* A Turn that is active is a Turn.                                        *)
LEMMA ActiveIsTurn ==
  ASSUME NEW c
  PROVE  /\ TheActive(c) \in Turns \cup {None}
         /\ TheActive(c) # None => TheActive(c) \in ActiveIn(c)
         /\ ActiveIn(c) # {} => TheActive(c) \in ActiveIn(c) /\ TheActive(c) \in Turns
BY DEF TheActive, ActiveIn

LEMMA LogIsTyped ==
  ASSUME TypeOK, NEW c \in Conversations, NEW t \in Turns, NEW over \in BOOLEAN,
         Record(c, t, over)
  PROVE  /\ log' \in [Conversations -> Seq([turn: Turns, over: BOOLEAN])]
         /\ log'[c] = Append(log[c], [turn |-> t, over |-> over])
         /\ \A d \in Conversations \ {c} : log'[d] = log[d]
<1> DEFINE change == [turn |-> t, over |-> over]
<1>1. change \in [turn: Turns, over: BOOLEAN]
  OBVIOUS
<1>2. log \in [Conversations -> Seq([turn: Turns, over: BOOLEAN])]
  BY DEF TypeOK
<1>3. log' = [log EXCEPT ![c] = Append(log[c], change)]
  BY DEF Record
<1> HIDE DEF change
<1>4. Append(log[c], change) \in Seq([turn: Turns, over: BOOLEAN])
  <2>1. log[c] \in Seq([turn: Turns, over: BOOLEAN])
    BY <1>2
  <2> QED
    BY <1>1, <2>1
<1>5. QED
  BY <1>2, <1>3, <1>4 DEF change

LEMMA InitPage == Init => PageInv
<1> SUFFICES ASSUME Init PROVE PageInv
  OBVIOUS
<1>1. PICK m \in Modes, c \in {None, 1} :
        /\ m = "anonymous" => c = None
        /\ page = [mode |-> m, conversationId |-> c, reducer |-> NoReducer,
            readers |-> {}, claim |-> None, admitted |-> None, pending |-> NoSend,
            interrupting |-> None, interruptionError |-> None,
            authorization |-> IF m = "host" THEN "ready" ELSE "authorizing",
            connection |-> IF c = None THEN "no_conversation" ELSE "connecting",
            bootstrapping |-> c,
            boots |-> [d \in Conversations |->
                         IF d = c THEN [NoRead EXCEPT !.status = "out"] ELSE NoRead],
            startingOver |-> FALSE,
            denied |-> {}, destroyed |-> FALSE]
        /\ authority = [token |-> FALSE, timer |-> FALSE, of |-> 1,
                        exchange |-> IF m = "host" THEN "none" ELSE "init"]
  BY DEF Init
<1>2. m \in {"host", "anonymous"} /\ c \in Conversations \cup {None}
  BY ModesAssumption, Numbers
<1>3. [d \in Conversations |-> IF d = c THEN [NoRead EXCEPT !.status = "out"] ELSE NoRead]
        \in [Conversations -> Reads]
  <2>1. [NoRead EXCEPT !.status = "out"] \in Reads /\ NoRead \in Reads
    BY DEF NoRead, Reads
  <2> QED
    BY <2>1
<1>4. page \in Pages
  BY <1>1, <1>2, <1>3, NothingTyped DEF Pages, Reads
<1>5. Good(page) /\ Bookkeeping
  BY <1>1, <1>4, Numbers, NothingTyped DEF Good, Tidy, Honest, Bookkeeping, Init
<1>6. TypeOK
  <2>1. authority \in [token: BOOLEAN, timer: BOOLEAN, of: Conversations,
                       exchange: {"none", "init", "renew", "retry"}]
    BY <1>1, Numbers
  <2>2. requests \in [Keys -> [status: {"none", "out", "admitted", "busy", "done",
                                      "failed", "refused"},
                               conversation: Conversations \cup {None},
                               again: BOOLEAN, late: SUBSET Conversations]]
    BY DEF Init
  <2>3. refresh \in [status: {"none", "out", "read"}, conversation: Conversations \cup {None},
                     active: Turns \cup {None}, interrupted: Turns \cup {None}]
    BY DEF Init, NoRefresh
  <2>4. /\ stopping \subseteq Turns /\ gone \subseteq Conversations /\ visitor \in Conversations
        /\ log \in [Conversations -> Seq([turn: Turns, over: BOOLEAN])]
    BY Numbers DEF Init
  <2>5. history \in [sends: Nat, others: Nat, failures: Nat, latest: Conversations,
                     dropped: SUBSET Keys, overlapped: SUBSET Keys, crossed: BOOLEAN,
                     misled: Nat]
    BY Numbers DEF Init
  <2> QED
    BY <1>4, <2>1, <2>2, <2>3, <2>4, <2>5 DEF TypeOK
<1>7. QED
  BY <1>5, <1>6 DEF PageInv

(* What the service does.                                                  *)
LEMMA ServiceKeepsPage ==
  ASSUME PageInv, Service
  PROVE  PageInv'
<1>1. ASSUME NEW k \in Keys, Admit(k) PROVE PageInv'
  <2> DEFINE late == requests[k].late \ {requests[k].conversation}
  <2>1. /\ requests' = [requests EXCEPT ![k] =
                          [requests[k] EXCEPT !.status = "admitted", !.late = late]]
        /\ requests[k].status = "out"
        /\ UNCHANGED <<page, authority, refresh, stopping, gone, visitor, history>>
    BY <1>1 DEF Admit
  <2>6. late \in SUBSET Conversations
    BY DEF PageInv, TypeOK
  <2> HIDE DEF late
  <2>2. /\ requests' \in [Keys -> Requests]
        /\ \A j \in Keys : requests'[j].conversation = requests[j].conversation
        /\ \A j \in Keys \ {k} : requests'[j] = requests[j]
    BY <2>1, <2>6, RequestChanges DEF PageInv, Statuses
  <2>3. log' \in [Conversations -> Seq([turn: Turns, over: BOOLEAN])]
    <3>1. requests[k].conversation \in Conversations
      BY <2>1 DEF PageInv, Bookkeeping, TypeOK
    <3>2. CASE UNCHANGED log
      BY <3>2 DEF PageInv, TypeOK
    <3>3. CASE Record(requests[k].conversation, k, FALSE)
      BY <3>1, <3>3, LogIsTyped, Numbers DEF PageInv
    <3> QED
      BY <1>1, <3>2, <3>3 DEF Admit
  <2>4. TypeOK'
    BY <2>1, <2>2, <2>3 DEF PageInv, TypeOK, Requests, Statuses
  <2>5. Bookkeeping'
    BY <2>1, <2>2 DEF PageInv, Bookkeeping
  <2> QED
    BY <2>1, <2>4, <2>5 DEF PageInv
<1>2. ASSUME NEW k \in Keys, AnswerBusy(k) PROVE PageInv'
  <2>1. /\ requests' = [requests EXCEPT ![k].status = "busy"]
        /\ requests[k].status = "out"
        /\ UNCHANGED <<page, authority, refresh, stopping, log, gone, visitor, history>>
    BY <1>2 DEF AnswerBusy, serviceVars
  <2>2. /\ requests' \in [Keys -> Requests]
        /\ \A j \in Keys : requests'[j].conversation = requests[j].conversation
        /\ \A j \in Keys \ {k} : requests'[j] = requests[j]
    BY <2>1, RequestMoves DEF PageInv, Statuses
  <2>4. TypeOK'
    BY <2>1, <2>2, ZenonT(60) DEF PageInv, TypeOK, Requests, Statuses
  <2>5. Bookkeeping'
    BY <2>1, <2>2 DEF PageInv, Bookkeeping
  <2> QED
    BY <2>1, <2>4, <2>5 DEF PageInv
<1>3. ASSUME NEW c \in Conversations, OtherTurnStarts(c) PROVE PageInv'
  <2> DEFINE t == MaxSends + history.others + 1
  <2>1. history.others \in Nat /\ history.others < MaxOthers
    BY <1>3 DEF OtherTurnStarts, PageInv, TypeOK
  <2>2. t \in Turns
    BY <2>1, BoundsAssumption DEF Turns
  <2>3. Record(c, t, FALSE)
    BY <1>3 DEF OtherTurnStarts
  <2>4. log' \in [Conversations -> Seq([turn: Turns, over: BOOLEAN])]
    BY <2>2, <2>3, LogIsTyped DEF PageInv
  <2>5. history' = [history EXCEPT !.others = history.others + 1]
    BY <1>3 DEF OtherTurnStarts
  <2>6. history' \in Histories /\ history'.latest = history.latest
    <3>1. history \in Histories /\ history.others + 1 \in Nat
      BY <2>1 DEF PageInv, TypeOK, Histories
    <3> QED
      BY <2>5, <3>1 DEF Histories
  <2> QED
    BY <1>3, <2>4, <2>6, ZenonT(60)
       DEF OtherTurnStarts, flightVars, PageInv, TypeOK, Bookkeeping, Histories
<1>4. ASSUME NEW c \in Conversations, TurnEnds(c) PROVE PageInv'
  <2>1. Record(c, TheActive(c), TRUE) /\ TheActive(c) \in Turns
    BY <1>4, ActiveIsTurn DEF TurnEnds
  <2>2. log' \in [Conversations -> Seq([turn: Turns, over: BOOLEAN])]
    BY <2>1, LogIsTyped DEF PageInv
  <2>3. TypeOK'
    BY <1>4, <2>2 DEF TurnEnds, flightVars, PageInv, TypeOK
  <2>4. Bookkeeping'
    BY <1>4 DEF TurnEnds, flightVars, PageInv, Bookkeeping
  <2> QED
    BY <1>4, <2>3, <2>4 DEF TurnEnds, PageInv
<1>5. ASSUME NEW c \in Conversations, Delete(c) PROVE PageInv'
  <2>3. TypeOK'
    BY <1>5, ZenonT(60) DEF Delete, flightVars, PageInv, TypeOK
  <2>4. Bookkeeping'
    BY <1>5 DEF Delete, flightVars, PageInv, Bookkeeping
  <2> QED
    BY <1>5, <2>3, <2>4 DEF Delete, PageInv
<1>6. ASSUME NEW c \in Conversations, ReadWindow(c) PROVE PageInv'
  <2> DEFINE read == [status |-> "read", at |-> Len(log[c]), active |-> TheActive(c)]
             boots == [page.boots EXCEPT ![c] = read]
  <2>1. read \in Reads
    <3>1. log[c] \in Seq([turn: Turns, over: BOOLEAN])
      BY DEF PageInv, TypeOK
    <3> QED
      BY <3>1, ActiveIsTurn DEF Reads
  <2>2. boots \in [Conversations -> Reads]
    BY <2>1 DEF PageInv, TypeOK, Pages, Reads
  <2>3. page' = [page EXCEPT !.boots = boots]
    BY <1>6 DEF ReadWindow
  <2> HIDE DEF boots
  <2>4. page' \in Pages
    BY <2>2, <2>3 DEF PageInv, TypeOK, Pages, Reads
  <2>7. /\ page'.readers = page.readers /\ page'.connection = page.connection
        /\ page'.conversationId = page.conversationId /\ page'.reducer = page.reducer
        /\ page'.destroyed = page.destroyed
    BY <2>3 DEF PageInv, TypeOK, Pages
  <2>5. Good(page')
    BY <2>4, <2>7 DEF PageInv, Good, Tidy, Honest
  <2>6. page'.destroyed = page.destroyed /\ page'.startingOver = page.startingOver
        /\ page'.mode = page.mode /\ page'.pending = page.pending
    BY <2>3 DEF PageInv, TypeOK, Pages
  <2>8. TypeOK'
    BY <1>6, <2>4 DEF ReadWindow, flightVars, serviceVars, PageInv, TypeOK
  <2>9. Bookkeeping'
    BY <1>6, <2>6 DEF ReadWindow, flightVars, PageInv, Bookkeeping
  <2> QED
    BY <2>5, <2>8, <2>9 DEF PageInv
<1>7. ASSUME ReadClaim PROVE PageInv'
  <2>1. refresh' = [refresh EXCEPT !.status = "read",
                                   !.active = TheActive(refresh.conversation)]
    BY <1>7 DEF ReadClaim
  <2>2. refresh' \in [status: {"none", "out", "read"}, conversation: Conversations \cup {None},
                      active: Turns \cup {None}, interrupted: Turns \cup {None}]
    BY <2>1, ActiveIsTurn DEF PageInv, TypeOK
  <2> QED
    BY <1>7, <2>2 DEF ReadClaim, serviceVars, PageInv, TypeOK, Bookkeeping
<1>8. ASSUME NEW k \in Keys, AdmitLate(k) PROVE PageInv'
  <2>1. PICK c \in requests[k].late :
          /\ Record(c, k, FALSE)
          /\ requests' = [requests EXCEPT ![k].late = @ \ {c}]
          /\ UNCHANGED <<page, authority, refresh, stopping, gone, visitor, history>>
    BY <1>8 DEF AdmitLate
  <2>2. /\ requests' \in [Keys -> Requests]
        /\ \A j \in Keys : requests'[j].status = requests[j].status
        /\ \A j \in Keys : requests'[j].conversation = requests[j].conversation
    BY <2>1, LateIsAdmitted DEF PageInv
  <2>3. log' \in [Conversations -> Seq([turn: Turns, over: BOOLEAN])]
    <3>1. c \in Conversations
      BY DEF PageInv, TypeOK
    <3> QED
      BY <2>1, <3>1, LogIsTyped, Numbers DEF PageInv
  <2>4. TypeOK'
    BY <2>1, <2>2, <2>3 DEF PageInv, TypeOK, Requests, Statuses
  <2>5. Bookkeeping'
    BY <2>1, <2>2 DEF PageInv, Bookkeeping
  <2> QED
    BY <2>1, <2>4, <2>5 DEF PageInv
<1>9. QED
  BY <1>1, <1>2, <1>3, <1>4, <1>5, <1>6, <1>7, <1>8 DEF Service

-----------------------------------------------------------------------------
(* Sending.                                                                *)

(* q is p but for its sends, claims and interrupts.                        *)
SameView(p, q) ==
  /\ q.mode = p.mode /\ q.conversationId = p.conversationId
  /\ q.reducer = p.reducer /\ q.readers = p.readers /\ q.boots = p.boots
  /\ q.connection = p.connection /\ q.authorization = p.authorization
  /\ q.startingOver = p.startingOver /\ q.destroyed = p.destroyed

LEMMA SameViewIsGood ==
  ASSUME NEW p, NEW q \in Pages, SameView(p, q)
  PROVE  /\ Tidy(p) => Tidy(q)
         /\ Honest(p) => Honest(q)
         /\ Good(p) => Good(q)
         /\ Carries(p, q)
BY DEF SameView, Tidy, Honest, Good, Carries, View

LEMMA CarriesOn ==
  ASSUME NEW p, NEW q, NEW r, Carries(p, q), SameView(q, r)
  PROVE  Carries(p, r)
BY DEF Carries, View, SameView

(* What a reader of these proofs may take for granted of the page.         *)
LEMMA PageFacts ==
  ASSUME PageInv
  PROVE  /\ page \in Pages /\ Good(page) /\ Tidy(page) /\ Honest(page) /\ TypeOK
         /\ history \in Histories /\ requests \in [Keys -> Requests]
         /\ history.sends \in Nat /\ visitor \in Conversations
         /\ authority \in Authorities /\ refresh \in Refreshes
         /\ stopping \in SUBSET Turns
         /\ page.destroyed => ~authority.token /\ ~authority.timer
BY DEF PageInv, TypeOK, Good, Histories, Requests, Statuses, Authorities, Refreshes, Bookkeeping

LEMMA SendEffect ==
  ASSUME PageInv, Send
  PROVE  LET k == history.sends + 1
         IN /\ PageInv' /\ Carries(page, page')
            /\ k \in Keys /\ page.pending = NoSend
            /\ page'.pending = [key |-> k, status |-> "admitting"]
            /\ page'.claim = page.claim /\ page'.admitted = page.admitted
            /\ history'.sends = k /\ history'.latest = history.latest
            /\ history'.crossed = history.crossed /\ history'.dropped = history.dropped
            /\ history'.misled = history.misled
            /\ history'.overlapped = IF RequestsOut = {} THEN history.overlapped
                                     ELSE history.overlapped \cup {k}
<1> DEFINE k == history.sends + 1
           send == [key |-> k, status |-> "admitting"]
           over == IF RequestsOut = {} THEN history.overlapped
                   ELSE history.overlapped \cup {k}
<1>1. /\ k \in Keys /\ page' = [page EXCEPT !.pending = send]
      /\ requests' = Ask(k, FALSE)
      /\ history' = [history EXCEPT !.sends = k, !.overlapped = over]
      /\ page.pending = NoSend
      /\ UNCHANGED <<authority, refresh, stopping, serviceVars>>
  BY DEF Send, SendEnabled
<1>2. send \in [key: Keys \cup {None}, status: {"none", "admitting", "uncertain"}]
  BY <1>1
<1>3. over \subseteq Keys /\ k \in Nat
  BY <1>1, PageFacts DEF Histories
<1> HIDE DEF k, send, over
<1>4. page' \in Pages /\ SameView(page, page') /\ page'.pending = send
      /\ page'.claim = page.claim /\ page'.admitted = page.admitted
  BY <1>1, <1>2, PageFacts DEF Pages, SameView
<1>5. /\ history' \in Histories /\ history'.sends = k /\ history'.overlapped = over
      /\ history'.latest = history.latest /\ history'.crossed = history.crossed
      /\ history'.dropped = history.dropped /\ history'.misled = history.misled
  BY <1>1, <1>3, PageFacts DEF Histories
<1>6. /\ requests' \in [Keys -> Requests]
      /\ \A j \in Keys : requests'[j].status # "none" => requests'[j].conversation # None
  <2>1. /\ requests' \in [Keys -> Requests]
        /\ requests'[k].conversation = IF page.mode = "host" THEN 1 ELSE visitor
        /\ \A j \in Keys \ {k} : requests'[j] = requests[j]
    BY <1>1, SendIsAsked, PageFacts
  <2>2. requests'[k].conversation # None
    BY <2>1, PageFacts, Numbers
  <2> QED
    BY <2>1, <2>2 DEF PageInv, Bookkeeping
<1>7. TypeOK'
  <2>1. /\ authority' = authority /\ refresh' = refresh /\ stopping' = stopping
        /\ log' = log /\ gone' = gone /\ visitor' = visitor /\ TypeOK
    BY <1>1, PageFacts DEF serviceVars
  <2>2. page' \in Pages
    BY <1>4
  <2>3. history' \in Histories
    BY <1>5
  <2>4. requests' \in [Keys -> Requests]
    BY <1>6
  <2> QED
    BY <2>1, <2>2, <2>3, <2>4 DEF TypeOK, Histories, Requests, Statuses
<1>8. Bookkeeping'
  <2>1. send.status # "none" /\ send.key # None
    BY <1>1, Numbers DEF send, k
  <2> QED
    BY <1>1, <1>4, <1>5, <1>6, <2>1 DEF PageInv, Bookkeeping, SameView
<1>9. QED
  BY <1>1, <1>4, <1>5, <1>7, <1>8, SameViewIsGood DEF PageInv, k, send, over

LEMMA RetrySendEffect ==
  ASSUME PageInv, RetrySend
  PROVE  /\ PageInv' /\ Carries(page, page')
         /\ page.pending.status = "uncertain"
         /\ page.pending.key \in Keys /\ requests' = Ask(page.pending.key, TRUE)
         /\ page'.pending = [key |-> page.pending.key, status |-> "admitting"]
         /\ page'.claim = page.claim /\ page'.admitted = page.admitted
<1> DEFINE k == page.pending.key
           send == [key |-> k, status |-> "admitting"]
<1>1. /\ page' = [page EXCEPT !.pending = send]
      /\ requests' = Ask(k, TRUE) /\ page.pending.status = "uncertain"
      /\ UNCHANGED <<authority, refresh, stopping, serviceVars, history>>
  <2>1. [page EXCEPT !.pending.status = "admitting"] = [page EXCEPT !.pending = send]
    BY PageFacts DEF Pages
  <2> QED
    BY <2>1 DEF RetrySend
<1>2. k \in Keys
  BY <1>1, PageFacts DEF Pages, PageInv, Bookkeeping
<1>3. send \in [key: Keys \cup {None}, status: {"none", "admitting", "uncertain"}]
  BY <1>2
<1> HIDE DEF send
<1>4. page' \in Pages /\ SameView(page, page') /\ page'.pending = send
      /\ page'.claim = page.claim /\ page'.admitted = page.admitted
  BY <1>1, <1>3, PageFacts DEF Pages, SameView
<1>5. /\ requests' \in [Keys -> Requests]
      /\ \A j \in Keys : requests'[j].status # "none" => requests'[j].conversation # None
  <2> HIDE DEF k
  <2>1. /\ requests' \in [Keys -> Requests]
        /\ requests'[k].conversation = IF page.mode = "host" THEN 1 ELSE visitor
        /\ \A j \in Keys \ {k} : requests'[j] = requests[j]
    BY <1>1, <1>2, SendIsAsked, PageFacts
  <2> QED
    BY <1>2, <2>1, PageFacts, Numbers DEF PageInv, Bookkeeping
<1>6. TypeOK'
  BY <1>1, <1>4, <1>5 DEF PageInv, TypeOK, serviceVars, Requests, Statuses
<1>7. Bookkeeping'
  <2>1. send.status # "none" /\ send.key # None
    BY <1>2, Numbers DEF send
  <2> QED
    BY <1>1, <1>4, <1>5, <2>1 DEF PageInv, Bookkeeping, SameView
<1>8. QED
  BY <1>1, <1>2, <1>4, <1>6, <1>7, SameViewIsGood DEF PageInv, send, k

LEMMA DiscardSendEffect ==
  ASSUME PageInv, DiscardSend
  PROVE  /\ PageInv' /\ Carries(page, page')
         /\ page.pending.status = "uncertain" /\ page'.pending = NoSend
         /\ page'.claim = page.claim /\ page'.admitted = page.admitted
         /\ HistoryKept /\ history'.misled = history.misled
         /\ history'.dropped = history.dropped \cup {page.pending.key}
<1> DEFINE dropped == history.dropped \cup {page.pending.key}
<1>1. /\ page' = [page EXCEPT !.pending = NoSend] /\ page.pending.status = "uncertain"
      /\ history' = [history EXCEPT !.dropped = dropped]
      /\ UNCHANGED <<authority, flightVars, serviceVars>>
  BY DEF DiscardSend
<1>2. page.pending.key \in Keys
  BY <1>1, PageFacts DEF Pages, PageInv, Bookkeeping
<1>3. dropped \subseteq Keys
  BY <1>2, PageFacts DEF Histories
<1> HIDE DEF dropped
<1>4. page' \in Pages /\ SameView(page, page') /\ page'.pending = NoSend
      /\ page'.claim = page.claim /\ page'.admitted = page.admitted
  BY <1>1, NothingTyped, PageFacts DEF Pages, SameView
<1>5. /\ history' \in Histories /\ history'.sends = history.sends
      /\ history'.latest = history.latest /\ history'.crossed = history.crossed
      /\ history'.overlapped = history.overlapped /\ history'.dropped = dropped
      /\ history'.misled = history.misled
  BY <1>1, <1>3, PageFacts DEF Histories
<1>6. TypeOK'
  BY <1>1, <1>4, <1>5 DEF PageInv, TypeOK, flightVars, serviceVars, Histories
<1>7. Bookkeeping'
  BY <1>1, <1>4, <1>5, NothingTyped DEF PageInv, Bookkeeping, SameView, flightVars
<1>8. QED
  BY <1>1, <1>4, <1>5, <1>6, <1>7, SameViewIsGood DEF HistoryKept, PageInv, dropped

LEMMA SendAdmittedEffect ==
  ASSUME PageInv, NEW k \in Keys, SendAdmitted(k)
  PROVE  LET c == requests[k].conversation
             bound == [page EXCEPT !.conversationId = c, !.admitted = k, !.pending = NoSend]
         IN /\ PageInv' /\ Recovers(bound, page') /\ bound \in Pages
            /\ c \in Conversations
            /\ requests'[k].status = "done" /\ requests'[k].late = requests[k].late
            /\ requests'[k].again = requests[k].again
            /\ \A j \in Keys : requests'[j].conversation = requests[j].conversation
            /\ \A j \in Keys \ {k} : requests'[j] = requests[j]
<1> DEFINE c == requests[k].conversation
           bound == [page EXCEPT !.conversationId = c, !.admitted = k, !.pending = NoSend]
<1>1. /\ requests[k].status = "admitted"
      /\ requests' = [requests EXCEPT ![k].status = "done"]
      /\ page' = IF page.conversationId = None THEN Bootstrap(bound) ELSE bound
      /\ UNCHANGED <<authority, refresh, stopping, serviceVars, history>>
  BY DEF SendAdmitted
<1>2. /\ requests' \in [Keys -> Requests] /\ requests'[k].status = "done"
      /\ requests'[k].late = requests[k].late /\ requests'[k].again = requests[k].again
      /\ \A j \in Keys : requests'[j].conversation = requests[j].conversation
      /\ \A j \in Keys \ {k} : requests'[j] = requests[j]
  BY <1>1, RequestMoves, PageFacts DEF Statuses
<1>3. c \in Conversations
  BY <1>1, PageFacts DEF PageInv, Bookkeeping, Requests
<1> HIDE DEF c
<1>4. bound \in Pages
  BY <1>3, Numbers, NothingTyped, PageFacts DEF Pages
<1>5. Good(bound)
  BY <1>3, <1>4, Numbers, PageFacts DEF Good, Tidy, Honest, Pages
<1>6. /\ bound.conversationId # None
      /\ page.conversationId = None => bound.reducer = NoReducer
  BY <1>3, Numbers, PageFacts DEF Tidy, Pages
<1>7. Good(page') /\ Recovers(bound, page')
  <2> HIDE DEF bound
  <2>1. CASE page.conversationId = None
    BY <1>1, <1>5, <1>6, <2>1, FirstReadStarts DEF Good
  <2>2. CASE page.conversationId # None
    BY <1>1, <1>5, <2>2, RecoversNothing
  <2> QED
    BY <2>1, <2>2
<1>8. page'.destroyed = page.destroyed /\ page'.startingOver = page.startingOver
      /\ page'.mode = page.mode
  BY <1>4, <1>7, PageFacts DEF Recovers, Carries, View, Pages
<1>9. TypeOK'
  BY <1>1, <1>2, <1>7, ZenonT(60) DEF PageInv, TypeOK, serviceVars, Requests, Statuses, Good, Tidy
<1>12. page'.pending = NoSend
  BY <1>4, <1>7, NothingTyped, PageFacts DEF Recovers, Pages
<1>10. Bookkeeping'
  BY <1>1, <1>2, <1>8, <1>12, NothingTyped DEF PageInv, Bookkeeping
<1>11. QED
  BY <1>2, <1>3, <1>4, <1>7, <1>9, <1>10 DEF PageInv, c

LEMMA ResetsOn ==
  ASSUME NEW p, NEW q, NEW r, NEW c, Resets(p, q, c), SameView(q, r),
         r.claim = q.claim, r.admitted = q.admitted, r.pending = q.pending
  PROVE  Resets(p, r, c)
BY DEF Resets, SameView

LEMMA DenyKeeps ==
  ASSUME NEW p \in Pages, NEW e, NEW operation \in Operations
  PROVE  LET q == Deny(p, e, operation)
         IN /\ q \in Pages /\ SameView(p, q)
            /\ q.claim = p.claim /\ q.admitted = p.admitted /\ q.pending = p.pending
BY DEF Deny, Pages, SameView

LEMMA PendingChanges ==
  ASSUME NEW p \in Pages,
         NEW send \in [key: Keys \cup {None}, status: {"none", "admitting", "uncertain"}]
  PROVE  LET q == [p EXCEPT !.pending = send]
         IN /\ q \in Pages /\ SameView(p, q)
            /\ q.claim = p.claim /\ q.admitted = p.admitted /\ q.pending = send
BY DEF Pages, SameView

LEMMA SendUncertainEffect ==
  ASSUME PageInv, NEW k \in Keys, NEW e, SendUncertain(k, e)
  PROVE  /\ PageInv' /\ Carries(page, page')
         /\ page'.claim = page.claim /\ page'.admitted = page.admitted
         /\ page'.pending = IF page.pending.key = k THEN [key |-> k, status |-> "uncertain"]
                            ELSE page.pending
         /\ requests'[k].status = "failed" /\ requests'[k].again = requests[k].again
         /\ requests'[k].late \subseteq requests[k].late \cup {requests[k].conversation}
         /\ \A j \in Keys : requests'[j].conversation = requests[j].conversation
         /\ \A j \in Keys \ {k} : requests'[j] = requests[j]
         /\ HistoryKept /\ history'.misled = history.misled
         /\ history'.dropped = history.dropped
<1> DEFINE q == HandleError(page, e, "conversation")
           status == IF q.pending.key = k THEN "uncertain" ELSE q.pending.status
           send == [key |-> q.pending.key, status |-> status]
<1>1. /\ e \in {"transport", "authentication"} /\ requests[k].status # "none"
      /\ FailTo([q EXCEPT !.pending.status = status], e)
      /\ requests' = GiveUp(k, e)
      /\ UNCHANGED <<authority, refresh, stopping, serviceVars>>
  BY DEF SendUncertain
<1>2. Good(q) /\ Recovers(page, q)
  BY <1>1, ErrorIsHandled, PageFacts DEF Good
<1>3. /\ requests' \in [Keys -> Requests] /\ requests'[k].status = "failed"
      /\ requests'[k].again = requests[k].again
      /\ requests'[k].late \subseteq requests[k].late \cup {requests[k].conversation}
      /\ \A j \in Keys : requests'[j].conversation = requests[j].conversation
      /\ \A j \in Keys \ {k} : requests'[j] = requests[j]
  BY <1>1, RequestIsGivenUp, PageFacts DEF PageInv, Bookkeeping
<1> HIDE DEF q
<1>4. q \in Pages
  BY <1>2 DEF Good, Tidy
<1>5. /\ send \in [key: Keys \cup {None}, status: {"none", "admitting", "uncertain"}]
      /\ [q EXCEPT !.pending.status = status] = [q EXCEPT !.pending = send]
  BY <1>4 DEF Pages
<1> DEFINE r == [q EXCEPT !.pending = send]
<1>6. /\ r \in Pages /\ SameView(q, r) /\ r.pending = send
      /\ r.claim = q.claim /\ r.admitted = q.admitted
  BY <1>4, <1>5, PendingChanges, ZenonT(60)
<1>7. FailTo(r, e)
  BY <1>1, <1>5
<1> HIDE DEF r
<1>8. /\ page' = r /\ history' \in Histories
      /\ HistoryKept /\ history'.misled = history.misled
      /\ history'.dropped = history.dropped \cup DroppedBy(r)
  BY <1>7, FailureIsCounted, PageFacts
<1>9. Good(page') /\ Carries(page, page')
  BY <1>2, <1>6, <1>8, SameViewIsGood, CarriesOn DEF Recovers
<1>10. DroppedBy(r) = {}
  BY <1>8, <1>9 DEF DroppedBy, Carries, View
<1>11. send = IF page.pending.key = k THEN [key |-> k, status |-> "uncertain"]
              ELSE page.pending
  <2>1. q.pending = page.pending
    BY <1>2 DEF Recovers
  <2>2. page.pending \in [key: Keys \cup {None}, status: {"none", "admitting", "uncertain"}]
    BY PageFacts DEF Pages
  <2> QED
    BY <2>1, <2>2
<1>12. TypeOK'
  BY <1>1, <1>3, <1>6, <1>8 DEF PageInv, TypeOK, serviceVars, Histories, Requests, Statuses
<1>13. Bookkeeping'
  <2>1. page'.pending.status = "none" <=> page'.pending.key = None
    BY <1>6, <1>8, <1>11, Numbers DEF PageInv, Bookkeeping
  <2> QED
    BY <1>1, <1>3, <1>8, <1>9, <2>1 DEF HistoryKept, PageInv, Bookkeeping, Carries, View
<1>14. QED
  BY <1>2, <1>3, <1>6, <1>8, <1>9, <1>10, <1>11, <1>12, <1>13 DEF PageInv, Recovers

LEMMA SendRefusedEffect ==
  ASSUME PageInv, NEW k \in Keys, NEW e, SendRefused(k, e)
  PROVE  /\ PageInv'
         /\ \/ /\ Carries(page, page') /\ page'.claim = page.claim
               /\ page'.admitted = page.admitted /\ page'.pending = NoSend
               /\ history'.dropped = history.dropped
            \/ /\ Resets(page, page', None) /\ e = "not_found" /\ page.conversationId # None
               /\ history'.dropped = history.dropped \cup ({page.pending.key} \ {None})
               /\ history'.misled = history.misled => ~Readable(requests[k].conversation)
         /\ requests'[k].status = "refused" /\ requests'[k].late = requests[k].late
         /\ requests'[k].again = requests[k].again
         /\ \A j \in Keys : requests'[j].conversation = requests[j].conversation
         /\ \A j \in Keys \ {k} : requests'[j] = requests[j]
         /\ HistoryKept
<1> DEFINE h == HandleError(page, e, "conversation")
           q == Deny(h, e, "send")
           r == [q EXCEPT !.pending = NoSend]
<1>1. /\ FailTo(r, e) \/ MisleadTo(r)
      /\ (FailTo(r, e) /\ e = "not_found") => ~Readable(requests[k].conversation) \/ MisleadTo(r)
      /\ requests[k].status # "none"
      /\ requests' = [requests EXCEPT ![k].status = "refused"]
      /\ UNCHANGED <<authority, refresh, stopping, serviceVars>>
  BY DEF SendRefused, Errors
<1>2. Good(h) /\ (Recovers(page, h) \/ (e = "not_found" /\ page.conversationId # None
                                        /\ Resets(page, h, None)))
  BY ErrorIsHandled, PageFacts DEF Good
<1>3. /\ requests' \in [Keys -> Requests] /\ requests'[k].status = "refused"
      /\ requests'[k].late = requests[k].late /\ requests'[k].again = requests[k].again
      /\ \A j \in Keys : requests'[j].conversation = requests[j].conversation
      /\ \A j \in Keys \ {k} : requests'[j] = requests[j]
  BY <1>1, RequestMoves, PageFacts DEF Statuses
<1> HIDE DEF h
<1>4. h \in Pages
  BY <1>2 DEF Good, Tidy
<1>5. /\ q \in Pages /\ SameView(h, q)
      /\ q.claim = h.claim /\ q.admitted = h.admitted /\ q.pending = h.pending
  BY <1>4, DenyKeeps DEF Operations
<1> HIDE DEF q
<1>6. /\ r \in Pages /\ SameView(q, r) /\ r.pending = NoSend
      /\ r.claim = q.claim /\ r.admitted = q.admitted
  BY <1>5, PendingChanges, NothingTyped
<1> HIDE DEF r
<1>7. SameView(h, r)
  BY <1>5, <1>6 DEF SameView
<1>8. /\ page' = r /\ history' \in Histories
      /\ HistoryKept
      /\ history'.dropped = history.dropped \cup DroppedBy(r)
      /\ history'.misled = history.misled /\ e = "not_found"
           => ~Readable(requests[k].conversation)
  <2>1. CASE MisleadTo(r)
    <3>1. history'.misled # history.misled
      BY <2>1, MisleadingIsCounted, PageFacts DEF Histories
    <3> QED
      BY <2>1, <3>1, MisleadingIsCounted, PageFacts
  <2>2. CASE FailTo(r, e) /\ ~MisleadTo(r)
    BY <1>1, <2>2, FailureIsCounted, PageFacts
  <2> QED
    BY <1>1, <2>1, <2>2
<1>9. Good(page')
  BY <1>2, <1>6, <1>7, <1>8, SameViewIsGood
<1>10. \/ /\ Carries(page, page') /\ page'.claim = page.claim
          /\ page'.admitted = page.admitted /\ page'.pending = NoSend
          /\ DroppedBy(r) = {}
       \/ /\ Resets(page, page', None) /\ e = "not_found" /\ page.conversationId # None
          /\ DroppedBy(r) = {page.pending.key} \ {None}
  <2>1. CASE Recovers(page, h)
    <3>1. Carries(page, r)
      BY <1>7, <2>1, CarriesOn DEF Recovers
    <3>2. DroppedBy(r) = {}
      BY <3>1 DEF DroppedBy, Carries, View
    <3> QED
      BY <1>5, <1>6, <1>8, <2>1, <3>1, <3>2 DEF Recovers
  <2>2. CASE e = "not_found" /\ page.conversationId # None /\ Resets(page, h, None)
    <3>1. Resets(page, r, None)
      BY <1>5, <1>6, <1>7, <2>2, ResetsOn DEF Resets
    <3>2. DroppedBy(r) = {page.pending.key} \ {None}
      BY <2>2, <3>1 DEF DroppedBy, Resets
    <3> QED
      BY <1>8, <2>2, <3>1, <3>2
  <2> QED
    BY <1>2, <2>1, <2>2
<1>11. TypeOK'
  BY <1>1, <1>3, <1>6, <1>8 DEF PageInv, TypeOK, serviceVars, Histories, Requests, Statuses
<1>12. Bookkeeping'
  <2>1. page'.destroyed = page.destroyed /\ page'.startingOver = page.startingOver
        /\ page'.mode = page.mode /\ page'.pending = NoSend
    BY <1>6, <1>8, <1>10 DEF Carries, View, Resets
  <2> QED
    BY <1>1, <1>3, <1>8, <2>1, NothingTyped DEF HistoryKept, PageInv, Bookkeeping
<1>13. QED
  BY <1>3, <1>8, <1>9, <1>10, <1>11, <1>12 DEF PageInv

LEMMA ClaimIsAsked ==
  ASSUME NEW c \in Conversations, NEW t \in Turns \cup {None}, AskClaim(c, t)
  PROVE  /\ refresh' \in Refreshes
         /\ refresh'.status = "out" /\ refresh'.conversation = c
<1>1. refresh' = [status |-> "out", conversation |-> c, active |-> None, interrupted |-> t]
  BY DEF AskClaim, NoRefresh
<1>2. QED
  BY <1>1 DEF Refreshes

LEMMA SendBusyEffect ==
  ASSUME PageInv, NEW k \in Keys, SendBusy(k)
  PROVE  /\ PageInv' /\ Carries(page, page')
         /\ page'.claim = page.claim /\ page'.admitted = page.admitted
         /\ page'.pending = NoSend
         /\ requests'[k].status = "refused" /\ requests'[k].late = requests[k].late
         /\ requests'[k].again = requests[k].again
         /\ \A j \in Keys : requests'[j].conversation = requests[j].conversation
         /\ \A j \in Keys \ {k} : requests'[j] = requests[j]
         /\ refresh'.status # "none" =>
              /\ refresh'.status = "out" /\ refresh'.conversation = page.conversationId
              /\ page.conversationId # None
<1>1. /\ page' = [page EXCEPT !.pending = NoSend] /\ requests[k].status # "none"
      /\ requests' = [requests EXCEPT ![k].status = "refused"] /\ refresh = NoRefresh
      /\ IF page.conversationId = None THEN UNCHANGED refresh
                                       ELSE AskClaim(page.conversationId, None)
      /\ UNCHANGED <<authority, stopping, serviceVars, history>>
  BY DEF SendBusy
<1>2. /\ page' \in Pages /\ SameView(page, page') /\ page'.pending = NoSend
      /\ page'.claim = page.claim /\ page'.admitted = page.admitted
  BY <1>1, PendingChanges, NothingTyped, PageFacts
<1>3. /\ requests' \in [Keys -> Requests] /\ requests'[k].status = "refused"
      /\ requests'[k].late = requests[k].late /\ requests'[k].again = requests[k].again
      /\ \A j \in Keys : requests'[j].conversation = requests[j].conversation
      /\ \A j \in Keys \ {k} : requests'[j] = requests[j]
  BY <1>1, RequestMoves, PageFacts DEF Statuses
<1>4. /\ refresh' \in Refreshes
      /\ refresh'.status # "none" =>
           /\ refresh'.status = "out" /\ refresh'.conversation = page.conversationId
           /\ page.conversationId # None
  <2>1. CASE page.conversationId = None
    BY <1>1, <2>1 DEF NoRefresh, Refreshes
  <2>2. CASE page.conversationId # None
    <3>1. page.conversationId \in Conversations
      BY <2>2, PageFacts DEF Pages
    <3> QED
      BY <1>1, <2>2, <3>1, ClaimIsAsked
  <2> QED
    BY <2>1, <2>2
<1>5. TypeOK'
  BY <1>1, <1>2, <1>3, <1>4 DEF PageInv, TypeOK, serviceVars, Requests, Statuses, Refreshes
<1>6. Bookkeeping'
  BY <1>1, <1>2, <1>3, NothingTyped DEF PageInv, Bookkeeping, SameView
<1>7. QED
  BY <1>2, <1>3, <1>4, <1>5, <1>6, SameViewIsGood DEF PageInv

(* The end of a refresh of the claim.                                      *)
LEMMA RefreshEnds ==
  ASSUME PageInv, NEW p \in Pages
  PROVE  LET q == EndRefresh(p)
         IN /\ q \in Pages /\ SameView(p, q)
            /\ q.claim = p.claim /\ q.admitted = p.admitted /\ q.pending = p.pending
<1>1. refresh.interrupted \in Turns \cup {None}
  BY DEF PageInv, TypeOK
<1>2. CASE refresh.interrupted = None
  BY <1>2 DEF EndRefresh, SameView
<1>3. CASE refresh.interrupted # None
  <2>1. EndRefresh(p) = [p EXCEPT !.interrupting = None,
                                  !.interruptionError = refresh.interrupted]
    BY <1>3 DEF EndRefresh
  <2> QED
    BY <1>1, <2>1, ZenonT(60) DEF Pages, SameView
<1>4. QED
  BY <1>2, <1>3

LEMMA ClaimRefreshedEffect ==
  ASSUME PageInv, ClaimRefreshed
  PROVE  /\ PageInv' /\ Carries(page, page')
         /\ page'.claim \in {page.claim, refresh.active}
         /\ page'.admitted = page.admitted /\ page'.pending = page.pending
<1> DEFINE p == IF page.destroyed THEN page ELSE [page EXCEPT !.claim = refresh.active]
<1>1. /\ page' = EndRefresh(p) /\ refresh' = NoRefresh
      /\ UNCHANGED <<authority, requests, stopping, serviceVars, history>>
  BY DEF ClaimRefreshed
<1>2. refresh.active \in Turns \cup {None}
  BY PageFacts DEF TypeOK
<1>3. /\ p \in Pages /\ SameView(page, p) /\ p.claim \in {page.claim, refresh.active}
      /\ p.admitted = page.admitted /\ p.pending = page.pending
  BY <1>2, PageFacts DEF Pages, SameView
<1> HIDE DEF p
<1>4. /\ page' \in Pages /\ SameView(p, page') /\ page'.claim = p.claim
      /\ page'.admitted = p.admitted /\ page'.pending = p.pending
  BY <1>1, <1>3, RefreshEnds
<1>5. SameView(page, page') /\ page'.pending = page.pending
  BY <1>3, <1>4 DEF SameView
<1>6. TypeOK'
  BY <1>1, <1>4 DEF PageInv, TypeOK, serviceVars, NoRefresh
<1>7. Bookkeeping'
  BY <1>1, <1>5 DEF PageInv, Bookkeeping, SameView
<1>8. QED
  BY <1>3, <1>4, <1>5, <1>6, <1>7, SameViewIsGood DEF PageInv

LEMMA ClaimNotRefreshedEffect ==
  ASSUME PageInv, ClaimNotRefreshed
  PROVE  /\ PageInv' /\ Carries(page, page') /\ page'.claim = page.claim
         /\ page'.admitted = page.admitted /\ page'.pending = page.pending
         /\ HistoryKept /\ history'.misled = history.misled
         /\ history'.dropped = history.dropped
<1> DEFINE q == EndRefresh(page)
<1>1. FailTo(q, "transport") /\ refresh' = NoRefresh
      /\ UNCHANGED <<authority, requests, stopping, serviceVars>>
  BY DEF ClaimNotRefreshed
<1>2. /\ q \in Pages /\ SameView(page, q)
      /\ q.claim = page.claim /\ q.admitted = page.admitted /\ q.pending = page.pending
  BY RefreshEnds, PageFacts
<1> HIDE DEF q
<1>3. /\ page' = q /\ history' \in Histories
      /\ HistoryKept /\ history'.misled = history.misled
      /\ history'.dropped = history.dropped \cup DroppedBy(q)
  BY <1>1, FailureIsCounted, PageFacts
<1>4. DroppedBy(q) = {}
  BY <1>2 DEF DroppedBy, SameView
<1>5. TypeOK'
  BY <1>1, <1>2, <1>3 DEF PageInv, TypeOK, serviceVars, NoRefresh, Histories
<1>6. Bookkeeping'
  BY <1>1, <1>2, <1>3 DEF HistoryKept, PageInv, Bookkeeping, SameView
<1>7. QED
  BY <1>2, <1>3, <1>4, <1>5, <1>6, SameViewIsGood DEF PageInv

-----------------------------------------------------------------------------
(* The first read and the stream.                                          *)

(* A read of Conversation c has ended.                                     *)
LEMMA ReadEnds ==
  ASSUME NEW p \in Pages, NEW c \in Conversations
  PROVE  LET q == EndBoot(p, c)
         IN /\ q \in Pages
            /\ (Tidy(p) => Tidy(q)) /\ (Honest(p) => Honest(q))
            /\ Recovers(p, q) /\ q.boots[c].status = "none"
            /\ q.readers = p.readers /\ q.authorization = p.authorization
            /\ \A d \in Conversations : q.boots[d] = p.boots[d] \/ q.boots[d].status = "none"
<1> DEFINE boots == [p.boots EXCEPT ![c] = NoRead]
           bootstrapping == IF p.bootstrapping = c THEN None ELSE p.bootstrapping
           q == EndBoot(p, c)
<1>1. q = [p EXCEPT !.boots = boots, !.bootstrapping = bootstrapping]
  BY DEF EndBoot
<1>2. /\ boots \in [Conversations -> Reads] /\ boots[c].status = "none"
      /\ \A d \in Conversations : boots[d] = p.boots[d] \/ boots[d].status = "none"
  BY NothingTyped DEF Pages, Reads
<1>3. bootstrapping \in Conversations \cup {None}
  BY DEF Pages
<1> HIDE DEF boots, bootstrapping, q
<1>4. q \in Pages
  BY <1>1, <1>2, <1>3 DEF Pages, Reads
<1>5. /\ q.mode = p.mode /\ q.conversationId = p.conversationId
      /\ q.reducer = p.reducer /\ q.readers = p.readers /\ q.boots = boots
      /\ q.connection = p.connection /\ q.authorization = p.authorization
      /\ q.startingOver = p.startingOver /\ q.destroyed = p.destroyed
      /\ q.claim = p.claim /\ q.admitted = p.admitted /\ q.pending = p.pending
  BY <1>1 DEF Pages
<1>6. (Tidy(p) => Tidy(q)) /\ (Honest(p) => Honest(q))
  BY <1>4, <1>5 DEF Tidy, Honest
<1>7. Recovers(p, q)
  BY <1>2, <1>5 DEF Recovers, Carries, View
<1>8. QED
  BY <1>2, <1>4, <1>5, <1>6, <1>7 DEF q

LEMMA RecoversOn ==
  ASSUME NEW p, NEW q, NEW r, Recovers(p, q), Recovers(q, r)
  PROVE  Recovers(p, r)
BY DEF Recovers, Carries, View

LEMMA ResetsAndRecovers ==
  ASSUME NEW p, NEW q, NEW r, NEW c, Resets(p, q, c), Recovers(q, r),
         r.readers = q.readers, r.authorization = q.authorization,
         \A d \in Conversations : r.boots[d] = q.boots[d] \/ r.boots[d].status = "none"
  PROVE  Resets(p, r, c)
BY DEF Recovers, Carries, View, Resets

LEMMA WindowReadEffect ==
  ASSUME PageInv, NEW c \in Conversations, WindowRead(c)
  PROVE  LET read == page.boots[c]
             seeded == [page EXCEPT !.claim = read.active,
                !.reducer = [conversation |-> c, from |-> read.at, at |-> read.at]]
         IN /\ PageInv' /\ page'.boots[c].status = "none"
            /\ \/ Recovers(page, page')
               \/ /\ c = page.conversationId /\ ~page.destroyed /\ seeded \in Pages
                  /\ Recovers(seeded, page')
<1> DEFINE read == page.boots[c]
           reducer == [conversation |-> c, from |-> read.at, at |-> read.at]
           seeded == [page EXCEPT !.claim = read.active, !.reducer = reducer]
           kept == ~page.destroyed /\ c = page.conversationId
           q == IF kept THEN StartStream(seeded) ELSE page
<1>1. /\ page' = EndBoot(q, c)
      /\ UNCHANGED <<authority, flightVars, serviceVars, history>>
  BY DEF WindowRead, Seeded
<1>2. read \in Reads
  BY PageFacts DEF Pages, Reads
<1>3. reducer \in Reducers /\ reducer # NoReducer /\ reducer.conversation = c
  BY <1>2, Numbers DEF Reads, Reducers, NoReducer
<1> HIDE DEF reducer
<1>4. /\ seeded \in Pages /\ seeded.reducer = reducer
      /\ seeded.conversationId = page.conversationId /\ seeded.destroyed = page.destroyed
      /\ seeded.readers = page.readers /\ seeded.connection = page.connection
      /\ seeded.mode = page.mode /\ seeded.startingOver = page.startingOver
      /\ seeded.pending = page.pending
  BY <1>2, <1>3, PageFacts, ZenonT(60) DEF Pages, Reads
<1> HIDE DEF seeded
<1>5. kept => Good(StartStream(seeded)) /\ Recovers(seeded, StartStream(seeded))
  <2> SUFFICES ASSUME kept PROVE Good(StartStream(seeded)) /\ Recovers(seeded, StartStream(seeded))
    OBVIOUS
  <2>1. Tidy(seeded)
    BY <1>3, <1>4, Numbers, PageFacts DEF Tidy
  <2> QED
    BY <1>3, <1>4, <2>1, StreamStarts, Numbers
<1>6. /\ Good(q) /\ q \in Pages
      /\ Recovers(IF kept THEN seeded ELSE page, q)
  BY <1>5, PageFacts, RecoversNothing DEF Good, Tidy
<1> HIDE DEF q
<1>7. /\ Good(page') /\ Recovers(q, page') /\ page'.boots[c].status = "none"
      /\ page'.readers = q.readers /\ page'.authorization = q.authorization
      /\ page' \in Pages
  BY <1>1, <1>6, ReadEnds DEF Good
<1>9. Recovers(IF kept THEN seeded ELSE page, page')
  BY <1>6, <1>7, RecoversOn
<1>10. page'.destroyed = page.destroyed /\ page'.startingOver = page.startingOver
       /\ page'.mode = page.mode /\ page'.pending = page.pending
  BY <1>4, <1>9 DEF Recovers, Carries, View
<1>11. TypeOK'
  BY <1>1, <1>7 DEF PageInv, TypeOK, flightVars, serviceVars
<1>12. Bookkeeping'
  BY <1>1, <1>10 DEF PageInv, Bookkeeping, flightVars
<1>13. QED
  BY <1>4, <1>7, <1>9, <1>11, <1>12 DEF PageInv, kept, seeded, reducer

(* What a failure may do to the page: nothing that Recovers leaves out, or *)
(* a reset, which drops the send.                                          *)
Fails(error) ==
  /\ HistoryKept /\ history'.misled = history.misled
  /\ \/ Recovers(page, page') /\ history'.dropped = history.dropped
     \/ /\ error = "not_found" /\ page.conversationId # None
        /\ Resets(page, page', None)
        /\ history'.dropped = history.dropped \cup ({page.pending.key} \ {None})

LEMMA FailureKeepsPage ==
  ASSUME PageInv, NEW q, NEW e, FailTo(q, e), Good(q),
         Recovers(page, q) \/ (/\ e = "not_found" /\ page.conversationId # None
                               /\ Resets(page, q, None)),
         authority' \in Authorities, page.destroyed => ~authority'.token /\ ~authority'.timer,
         refresh' \in Refreshes, stopping' \in SUBSET Turns,
         UNCHANGED <<requests, serviceVars>>
  PROVE  PageInv' /\ Fails(e)
<1>1. /\ page' = q /\ history' \in Histories /\ HistoryKept
      /\ history'.misled = history.misled
      /\ history'.dropped = history.dropped \cup DroppedBy(q)
  BY FailureIsCounted, PageFacts
<1>2. Fails(e)
  BY <1>1, FailureDrops DEF Fails, Recovers
<1>3. TypeOK'
  BY <1>1 DEF PageInv, TypeOK, serviceVars, Histories, Good, Tidy, Authorities, Refreshes
<1>4. /\ page'.destroyed = page.destroyed /\ page'.startingOver = page.startingOver
      /\ page'.mode = page.mode /\ page'.pending \in {page.pending, NoSend}
  BY <1>1 DEF Recovers, Carries, View, Resets
<1>5. Bookkeeping'
  BY <1>1, <1>4, NothingTyped DEF PageInv, Bookkeeping, HistoryKept
<1>6. QED
  BY <1>1, <1>2, <1>3, <1>5 DEF PageInv

LEMMA WindowNotReadEffect ==
  ASSUME PageInv, NEW c \in Conversations, NEW e, WindowNotRead(c, e)
  PROVE  PageInv' /\ Fails(e)
<1> DEFINE q == IF page.destroyed THEN page
                ELSE ConnectionLost(HandleError(page, e, "conversation"), e)
           r == EndBoot(q, c)
<1>1. FailTo(r, e) /\ UNCHANGED <<authority, requests, refresh, stopping, serviceVars>>
  BY DEF WindowNotRead, flightVars
<1>2. /\ Good(q)
      /\ \/ Recovers(page, q)
         \/ e = "not_found" /\ page.conversationId # None /\ Resets(page, q, None)
  BY ConnectionIsLost, RecoversNothing, PageFacts
<1> HIDE DEF q
<1>3. /\ Good(r) /\ Recovers(q, r) /\ r.readers = q.readers
      /\ r.authorization = q.authorization
      /\ \A d \in Conversations : r.boots[d] = q.boots[d] \/ r.boots[d].status = "none"
  BY <1>2, ReadEnds DEF Good, Tidy
<1> HIDE DEF r
<1>4. \/ Recovers(page, r)
      \/ e = "not_found" /\ page.conversationId # None /\ Resets(page, r, None)
  BY <1>2, <1>3, RecoversOn, ResetsAndRecovers
<1>5. QED
  BY <1>1, <1>3, <1>4, FailureKeepsPage, PageFacts

LEMMA StreamFailsEffect ==
  ASSUME PageInv, NEW r, NEW e, StreamFails(r, e)
  PROVE  PageInv' /\ Fails(e)
<1> DEFINE stopped == [page EXCEPT !.readers = page.readers \ {r}]
           q == ConnectionLost(HandleError(stopped, e, "conversation"), e)
<1>1. /\ r \in page.readers /\ FailTo(q, e)
      /\ UNCHANGED <<authority, requests, refresh, stopping, serviceVars>>
  BY DEF StreamFails, flightVars
<1>2. /\ Tidy(stopped) /\ stopped.conversationId # None /\ Recovers(page, stopped)
      /\ stopped.conversationId = page.conversationId
      /\ stopped.boots = page.boots /\ stopped.authorization = page.authorization
  <2>1. stopped \in Pages
    BY PageFacts DEF Pages
  <2> QED
    BY <1>1, <2>1, PageFacts DEF Tidy, Recovers, Carries, View, Pages
<1> HIDE DEF stopped
<1>3. /\ Good(q)
      /\ \/ Recovers(stopped, q)
         \/ e = "not_found" /\ stopped.conversationId # None /\ Resets(stopped, q, None)
  BY <1>2, ConnectionIsLost
<1> HIDE DEF q
<1>4. \/ Recovers(page, q)
      \/ e = "not_found" /\ page.conversationId # None /\ Resets(page, q, None)
  <2>1. Resets(stopped, q, None) => Resets(page, q, None)
    BY <1>2 DEF Resets, Recovers, Carries, View
  <2> QED
    BY <1>2, <1>3, <2>1, RecoversOn
<1>5. QED
  BY <1>1, <1>3, <1>4, FailureKeepsPage, PageFacts

(* A step that leaves requests and history alone.                          *)
LEMMA PageStep ==
  ASSUME PageInv, Good(page'), page'.mode = page.mode,
         page'.destroyed = page.destroyed, page'.startingOver = page.startingOver,
         page'.pending \in {page.pending, NoSend},
         authority' \in Authorities, page.destroyed => ~authority'.token /\ ~authority'.timer,
         stopping' \in SUBSET Turns, visitor' \in Conversations,
         UNCHANGED <<requests, refresh, log, gone, history>>
  PROVE  PageInv'
<1>1. TypeOK'
  BY DEF PageInv, TypeOK, Good, Tidy, Authorities
<1>2. Bookkeeping'
  BY NothingTyped DEF PageInv, Bookkeeping
<1>3. QED
  BY <1>1, <1>2 DEF PageInv

LEMMA StreamConnectsEffect ==
  ASSUME PageInv, NEW r, StreamConnects(r)
  PROVE  PageInv' /\ Recovers(page, page')
<1> DEFINE opened == [r EXCEPT !.open = TRUE]
           readers == (page.readers \ {r}) \cup {opened}
<1>1. /\ r \in page.readers /\ r.of[1] = r.conversation
      /\ page' = [page EXCEPT !.readers = readers, !.connection = "connected"]
      /\ UNCHANGED <<authority, flightVars, serviceVars, history>>
  BY DEF StreamConnects
<1>2. page.readers = {r} /\ r \in Readers
  BY <1>1, PageFacts DEF Tidy, Pages
<1>3. /\ opened \in Readers /\ opened.open /\ opened.of = r.of
      /\ opened.conversation = r.conversation
  BY <1>2 DEF Readers
<1> HIDE DEF opened
<1>4. readers = {opened}
  BY <1>2
<1> HIDE DEF readers
<1>5. page' \in Pages
  <2>1. readers \in SUBSET Readers
    BY <1>3, <1>4
  <2>2. page \in Pages
    BY PageFacts
  <2> QED
    BY <1>1, <2>1, <2>2 DEF Pages
<1>6. Good(page') /\ Recovers(page, page')
  BY <1>1, <1>2, <1>3, <1>4, <1>5, PageFacts DEF Good, Tidy, Honest, Recovers, Carries, View, Pages
<1>7. QED
  BY <1>1, <1>6, PageStep, PageFacts DEF Recovers, Carries, View, flightVars, serviceVars

LEMMA ReconnectEffect ==
  ASSUME PageInv, Reconnect
  PROVE  PageInv' /\ Recovers(page, page')
<1>1. Good(page') /\ Recovers(page, page')
  BY PageResumes, PageFacts DEF Reconnect, Allowed
<1>2. QED
  BY <1>1, PageStep, PageFacts DEF Recovers, Carries, View, Reconnect, flightVars, serviceVars

(* A frame is folded: what came from outside the stream expires.           *)
LEMMA ReceiveFrameEffect ==
  ASSUME PageInv, NEW r, ReceiveFrame(r)
  PROVE  LET folded == [page EXCEPT !.reducer.at = page.reducer.at + 1]
             known == Known(folded.reducer)
         IN /\ PageInv' /\ folded \in Pages
            /\ r \in page.readers /\ r.conversation = page.reducer.conversation
            /\ page.reducer # NoReducer
            /\ page.reducer.at < Len(log[page.reducer.conversation])
            /\ Carries(folded, page') /\ page'.pending = page.pending
            /\ page'.admitted = IF page.admitted \in known THEN None ELSE page.admitted
            /\ page'.claim = IF page.claim \in known THEN None ELSE page.claim
<1> DEFINE reducer == [page.reducer EXCEPT !.at = page.reducer.at + 1]
           folded == [page EXCEPT !.reducer = reducer]
           known == Known(folded.reducer)
           admitted == IF page.admitted \in known THEN None ELSE page.admitted
           claim == IF page.claim \in known THEN None ELSE page.claim
           q == [folded EXCEPT !.admitted = admitted, !.claim = claim]
           error == IF q.interruptionError # None /\ Idle(q) THEN None
                    ELSE q.interruptionError
<1>1. /\ r \in page.readers /\ r.open /\ r.of = Identity(page.reducer)
      /\ page.reducer.at < Len(log[r.conversation])
      /\ UNCHANGED <<authority, flightVars, serviceVars, history>>
  BY DEF ReceiveFrame
<1>2. [page EXCEPT !.reducer.at = page.reducer.at + 1] = folded
  OBVIOUS
<1>3. page.reducer \in Reducers /\ r.conversation \in Conversations
  BY <1>1, PageFacts DEF Pages, Readers
<1>4. r.conversation = page.reducer.conversation /\ page.reducer # NoReducer
  <2>1. r.of[1] = r.conversation /\ r.of[1] = page.reducer.conversation
    BY <1>1, PageFacts DEF Tidy, Identity
  <2> QED
    BY <1>3, <2>1, NothingTyped, Numbers
<1>5. reducer \in Reducers /\ reducer.conversation = page.reducer.conversation
  BY <1>3 DEF Reducers
<1> HIDE DEF reducer
<1>6. folded \in Pages /\ folded.reducer = reducer /\ folded.admitted = page.admitted
      /\ folded.claim = page.claim
  BY <1>5, PageFacts, ZenonT(60) DEF Pages
<1>7. page' = [q EXCEPT !.interruptionError = error]
  BY <1>2, <1>6, ZenonT(60) DEF ReceiveFrame, OnStreamUpdate
<1>8. admitted \in Turns \cup {None} /\ claim \in Turns \cup {None}
  BY PageFacts DEF Pages
<1> HIDE DEF known, admitted, claim
<1>9. q \in Pages /\ q.admitted = admitted /\ q.claim = claim
      /\ SameView(folded, q) /\ q.pending = page.pending
  BY <1>6, <1>8, PageFacts, ZenonT(60) DEF Pages, SameView
<1> HIDE DEF q
<1>10. error \in Turns \cup {None}
  BY <1>9 DEF Pages
<1> HIDE DEF error
<1>11. page' \in Pages /\ page'.admitted = admitted /\ page'.claim = claim
       /\ SameView(q, page') /\ page'.pending = page.pending
  BY <1>7, <1>9, <1>10 DEF Pages, SameView
<1>12. Good(folded)
  BY <1>4, <1>5, <1>6, Numbers, PageFacts, SMTT(30) DEF Good, Tidy, Honest, Pages
<1> HIDE DEF folded
<1>13. SameView(folded, page')
  BY <1>9, <1>11 DEF SameView
<1>14. Good(page') /\ Carries(folded, page')
  BY <1>11, <1>12, <1>13, SameViewIsGood
<1>15. /\ page'.mode = page.mode /\ page'.destroyed = page.destroyed
       /\ page'.startingOver = page.startingOver
  BY <1>14, PageFacts DEF Carries, View, folded, Pages
<1>16. PageInv'
  BY <1>1, <1>11, <1>14, <1>15, PageStep, PageFacts DEF flightVars, serviceVars
<1>17. QED
  BY <1>1, <1>2, <1>4, <1>6, <1>11, <1>14, <1>16 DEF folded, admitted, claim, known

-----------------------------------------------------------------------------
(* Interrupting.                                                           *)

(* What has been read of a log is in it.                                   *)
FoldedInv ==
  /\ \A c \in Conversations : page.boots[c].status = "read" => page.boots[c].at <= Len(log[c])
  /\ page.reducer # NoReducer => page.reducer.at <= Len(log[page.reducer.conversation])

LEMMA EntriesOf ==
  ASSUME NEW S, NEW l \in Seq(S), NEW i \in 1 .. Len(l)
  PROVE  l[i] \in S /\ i \in DOMAIN l
OBVIOUS

LEMMA KnownAreTurns ==
  ASSUME TypeOK, NEW r \in Reducers,
         r # NoReducer => r.conversation # None /\ r.at <= Len(log[r.conversation])
  PROVE  /\ Known(r) \subseteq Turns
         /\ \A t \in Known(r) : Started(t, r.conversation)
<1>1. SUFFICES ASSUME NEW i \in Folded(r)
               PROVE  /\ log[r.conversation][i].turn \in Turns
                      /\ i \in DOMAIN log[r.conversation]
  BY DEF Known, Started
<1>2. /\ r # NoReducer /\ i \in (r.from + 1) .. r.at
  BY <1>1 DEF Folded
<1>3. r.conversation \in Conversations /\ r.from \in Nat /\ r.at \in Nat
  BY <1>2 DEF Reducers
<1>4. log[r.conversation] \in Seq([turn: Turns, over: BOOLEAN])
  BY <1>3 DEF TypeOK
<1>5. i \in 1 .. Len(log[r.conversation])
  BY <1>2, <1>3, <1>4
<1>6. log[r.conversation][i] \in [turn: Turns, over: BOOLEAN]
      /\ i \in DOMAIN log[r.conversation]
  BY <1>4, <1>5, EntriesOf
<1>7. QED
  BY <1>6

LEMMA ActiveIsTyped ==
  ASSUME PageInv, FoldedInv
  PROVE  Active(page) \in Turns \cup {None}
<1>1. Known(page.reducer) \subseteq Turns
  BY KnownAreTurns, PageFacts DEF FoldedInv, Tidy, Pages
<1>2. Running(page.reducer) \subseteq Turns
  BY <1>1 DEF Running
<1>3. QED
  BY <1>2, PageFacts DEF Active, Pages

LEMMA InterruptEffect ==
  ASSUME PageInv, FoldedInv, Interrupt
  PROVE  PageInv' /\ Recovers(page, page')
<1> DEFINE t == IF page.interruptionError # None THEN page.interruptionError ELSE Active(page)
<1>1. /\ t # None
      /\ page' = [page EXCEPT !.interrupting = t, !.interruptionError = None]
      /\ stopping' = stopping \cup {t}
      /\ UNCHANGED <<authority, requests, refresh, serviceVars, history>>
  BY DEF Interrupt
<1>2. t \in Turns
  BY <1>1, ActiveIsTyped, PageFacts DEF Pages
<1> HIDE DEF t
<1>3. page' \in Pages /\ SameView(page, page') /\ page'.pending = page.pending
      /\ page'.claim = page.claim /\ page'.admitted = page.admitted
  BY <1>1, <1>2, PageFacts, ZenonT(60) DEF Pages, SameView
<1>4. Good(page') /\ Recovers(page, page')
  BY <1>3, SameViewIsGood, PageFacts DEF Recovers
<1>5. QED
  BY <1>1, <1>2, <1>4, PageStep, PageFacts DEF Recovers, Carries, View, serviceVars

LEMMA InterruptedEffect ==
  ASSUME PageInv, NEW t, Interrupted(t)
  PROVE  PageInv' /\ Recovers(page, page')
<1>1. /\ page' = [page EXCEPT !.interrupting = None]
      /\ stopping' = stopping \ {t}
      /\ UNCHANGED <<authority, requests, refresh, serviceVars, history>>
  BY DEF Interrupted
<1>2. page' \in Pages /\ SameView(page, page') /\ page'.pending = page.pending
      /\ page'.claim = page.claim /\ page'.admitted = page.admitted
  BY <1>1, PageFacts DEF Pages, SameView
<1>3. Good(page') /\ Recovers(page, page')
  BY <1>2, SameViewIsGood, PageFacts DEF Recovers
<1>4. QED
  BY <1>1, <1>3, PageStep, PageFacts DEF Recovers, Carries, View, serviceVars

(* The interrupt has failed.                                               *)
LEMMA InterruptEnds ==
  ASSUME NEW p, Good(p), NEW t \in Turns
  PROVE  LET q == [p EXCEPT !.interrupting = None, !.interruptionError = t]
         IN Good(q) /\ Recovers(p, q)
<1> DEFINE q == [p EXCEPT !.interrupting = None, !.interruptionError = t]
<1>1. q \in Pages /\ SameView(p, q) /\ q.pending = p.pending
      /\ q.claim = p.claim /\ q.admitted = p.admitted
  BY DEF Good, Tidy, Pages, SameView
<1>2. QED
  BY <1>1, SameViewIsGood DEF Recovers

LEMMA NotInterruptedEffect ==
  ASSUME PageInv, NEW t, NEW e, NotInterrupted(t, e)
  PROVE  PageInv' /\ Fails(e)
<1> DEFINE h == HandleError(page, e, "turn")
           q == Deny(h, e, "interrupt")
           r == [q EXCEPT !.interrupting = None, !.interruptionError = t]
<1>1. /\ t \in stopping /\ FailTo(r, e) /\ stopping' = stopping \ {t}
      /\ UNCHANGED <<authority, requests, refresh, serviceVars>>
  BY DEF NotInterrupted
<1>2. Good(h) /\ Recovers(page, h)
  BY ErrorIsHandled, PageFacts DEF Good
<1> HIDE DEF h
<1>3. Good(q) /\ Recovers(h, q)
  BY <1>2, DenyKeeps, SameViewIsGood DEF Operations, Recovers, Good, Tidy
<1> HIDE DEF q
<1>4. t \in Turns
  BY <1>1, PageFacts
<1>5. Good(r) /\ Recovers(q, r)
  BY <1>3, <1>4, InterruptEnds
<1> HIDE DEF r
<1>6. Recovers(page, r)
  BY <1>2, <1>3, <1>5, RecoversOn
<1>7. QED
  BY <1>1, <1>5, <1>6, FailureKeepsPage, PageFacts

LEMMA NothingToInterruptEffect ==
  ASSUME PageInv, NEW t, NothingToInterrupt(t)
  PROVE  /\ PageInv' /\ HistoryKept /\ history'.dropped = history.dropped
         /\ history'.misled = history.misled /\ Recovers(page, page')
         /\ refresh' # refresh => /\ refresh'.status = "out"
                                  /\ page.conversationId # None
                                  /\ refresh'.conversation = page.conversationId
<1> DEFINE r == [page EXCEPT !.interrupting = None, !.interruptionError = t]
<1>1. HandleError(page, "not_found", "turn") = page
  BY DEF HandleError
<1>2. /\ t \in stopping /\ stopping' = stopping \ {t}
      /\ UNCHANGED <<authority, requests, serviceVars>>
  BY DEF NothingToInterrupt
<1>3. t \in Turns
  BY <1>2, PageFacts
<1>4. Good(r) /\ Recovers(page, r)
  BY <1>3, InterruptEnds, PageFacts
<1>5. CASE page.conversationId = None
  <2>1. FailTo(r, "not_found") /\ UNCHANGED refresh
    BY <1>1, <1>5 DEF NothingToInterrupt
  <2> HIDE DEF r
  <2>2. page' = r
    BY <2>1, FailureIsCounted, PageFacts
  <2> QED
    BY <1>2, <1>4, <1>5, <2>1, <2>2, FailureKeepsPage, PageFacts DEF Fails
<1>6. CASE page.conversationId # None
  <2>1. FailTo(page, "not_found") /\ AskClaim(page.conversationId, t)
    BY <1>1, <1>6 DEF NothingToInterrupt
  <2>2. page.conversationId \in Conversations
    BY <1>6, PageFacts DEF Pages
  <2>3. /\ refresh' \in Refreshes /\ refresh'.status = "out"
        /\ refresh'.conversation = page.conversationId
    BY <1>3, <2>1, <2>2, ClaimIsAsked
  <2>4. page' = page
    BY <2>1, FailureIsCounted, PageFacts
  <2>5. PageInv' /\ Fails("not_found")
    BY <1>2, <2>1, <2>3, RecoversNothing, FailureKeepsPage, PageFacts
  <2>6. Recovers(page, page')
    BY <2>4, RecoversNothing
  <2>7. ~Resets(page, page', None)
    BY <1>6, <2>4 DEF Resets
  <2> QED
    BY <1>6, <2>3, <2>5, <2>6, <2>7 DEF Fails
<1>7. QED
  BY <1>5, <1>6

-----------------------------------------------------------------------------
(* Authorization.                                                          *)

LEMMA StaysOn ==
  ASSUME NEW p, NEW q, NEW r, Stays(p, q), Stays(q, r)
  PROVE  Stays(p, r)
BY DEF Stays, View

LEMMA RecoveringStays ==
  ASSUME NEW p, NEW q, Recovers(p, q)
  PROVE  Stays(p, q) /\ q.startingOver = p.startingOver /\ q.destroyed = p.destroyed
BY DEF Recovers, Carries, Stays

(* A page whose authorization changes ...                                  *)
LEMMA AuthorizationChanges ==
  ASSUME NEW p, Good(p), NEW a \in {"authorizing", "renewing", "ready", "lost"},
         NEW q, q = [p EXCEPT !.authorization = a]
  PROVE  /\ Good(q) /\ Stays(p, q) /\ q.authorization = a
         /\ q.startingOver = p.startingOver /\ q.destroyed = p.destroyed
<1>1. q \in Pages
  BY DEF Good, Tidy, Pages
<1>2. QED
  BY <1>1 DEF Good, Tidy, Honest, Stays, View, Pages

(* ... and one whose denials are forgotten.                                *)
LEMMA DenialsAreForgotten ==
  ASSUME NEW p, Good(p), NEW q, q = [p EXCEPT !.denied = {}]
  PROVE  /\ Good(q) /\ Recovers(p, q) /\ q.authorization = p.authorization
<1>1. q \in Pages
  BY DEF Good, Tidy, Pages
<1>2. QED
  BY <1>1 DEF Good, Tidy, Honest, Recovers, Carries, View, Pages

LEMMA ReadyStays ==
  ASSUME NEW p, Good(p)
  PROVE  /\ Good(Ready(p)) /\ Stays(p, Ready(p))
         /\ Ready(p).startingOver = p.startingOver /\ Ready(p).destroyed = p.destroyed
<1> DEFINE q == [p EXCEPT !.authorization = "ready"]
<1>1. Good(Ready(p)) /\ Recovers(q, Ready(p))
  BY PageIsReady
<1>3. Stays(p, q) /\ q.startingOver = p.startingOver /\ q.destroyed = p.destroyed
  BY AuthorizationChanges
<1> HIDE DEF q
<1>4. QED
  BY <1>1, <1>3, RecoveringStays, StaysOn

LEMMA RetryAuthorizationEffect ==
  ASSUME PageInv, RetryAuthorization
  PROVE  /\ PageInv' /\ Stays(page, page') /\ page'.destroyed = page.destroyed
         /\ authority'.exchange # authority.exchange =>
              authority'.exchange = "retry" /\ authority'.of = visitor
         /\ authority'.exchange = authority.exchange => page.mode = "host"
         /\ UNCHANGED <<flightVars, serviceVars, history>>
<1>1. /\ ~page.destroyed
      /\ UNCHANGED <<flightVars, serviceVars, history>>
  BY DEF RetryAuthorization
<1>2. CASE page.mode = "host"
  <2> DEFINE q == [page EXCEPT !.denied = {}]
  <2>2. /\ Good(q) /\ Stays(page, q) /\ q.startingOver = page.startingOver
        /\ q.destroyed = page.destroyed
    BY DenialsAreForgotten, RecoveringStays, PageFacts
  <2>3. page' = Ready(q) /\ UNCHANGED authority
    BY <1>2 DEF RetryAuthorization
  <2> HIDE DEF q
  <2>4. /\ Good(page') /\ Stays(page, page') /\ page'.startingOver = page.startingOver
        /\ page'.destroyed = page.destroyed
    BY <2>2, <2>3, ReadyStays, StaysOn
  <2> QED
    BY <1>1, <1>2, <2>3, <2>4, PageStep, PageFacts DEF Stays, View, flightVars, serviceVars
<1>3. CASE page.mode # "host"
  <2> DEFINE a == IF authority.token THEN "renewing" ELSE "authorizing"
  <2>1. /\ page' = [page EXCEPT !.authorization = a] /\ authority.exchange = "none"
        /\ authority' = [authority EXCEPT !.exchange = "retry", !.of = visitor]
    BY <1>3 DEF RetryAuthorization
  <2>3. /\ Good(page') /\ Stays(page, page') /\ page'.startingOver = page.startingOver
        /\ page'.destroyed = page.destroyed
    BY <2>1, AuthorizationChanges, PageFacts
  <2>4. /\ authority' \in Authorities /\ authority'.exchange = "retry"
        /\ authority'.of = visitor /\ authority'.token = authority.token
        /\ authority'.timer = authority.timer
    BY <2>1, PageFacts DEF Authorities
  <2> QED
    BY <1>1, <2>1, <2>3, <2>4, PageStep, PageFacts DEF Stays, View, flightVars, serviceVars
<1>4. QED
  BY <1>2, <1>3

LEMMA RenewEffect ==
  ASSUME PageInv, Renew
  PROVE  /\ PageInv' /\ Stays(page, page') /\ page'.destroyed = page.destroyed
         /\ authority'.exchange = "renew" /\ authority'.of = visitor
         /\ UNCHANGED <<flightVars, serviceVars, history>>
<1> DEFINE a == IF authority.token THEN "renewing" ELSE "authorizing"
<1>1. /\ authority.timer
      /\ page' = [page EXCEPT !.authorization = a]
      /\ authority' = [authority EXCEPT !.timer = FALSE, !.exchange = "renew", !.of = visitor]
      /\ UNCHANGED <<flightVars, serviceVars, history>>
  BY DEF Renew
<1>3. /\ Good(page') /\ Stays(page, page') /\ page'.startingOver = page.startingOver
      /\ page'.destroyed = page.destroyed
  BY <1>1, AuthorizationChanges, PageFacts
<1>4. /\ authority' \in Authorities /\ authority'.exchange = "renew"
      /\ authority'.of = visitor /\ authority'.token = authority.token
      /\ authority'.timer = FALSE
  BY <1>1, PageFacts DEF Authorities
<1>5. QED
  BY <1>1, <1>3, <1>4, PageStep, PageFacts DEF Stays, View, flightVars, serviceVars

(* A grant names the Conversation that q shows, where p has none.          *)
Grants(p, q, c) ==
  /\ q.mode = p.mode /\ q.reducer = p.reducer
  /\ \/ q.conversationId = p.conversationId
     \/ p.conversationId = None /\ q.conversationId = c
  /\ \A r \in q.readers :
       \/ r.conversation = q.conversationId
       \/ \E s \in p.readers : r.conversation = s.conversation
  /\ \A d \in Conversations :
       \/ q.boots[d] = p.boots[d] \/ q.boots[d].status = "none"
       \/ /\ d = q.conversationId /\ q.reducer = NoReducer
          /\ q.boots[d].status = "out"
  /\ q.claim = p.claim /\ q.admitted = p.admitted /\ q.pending = p.pending

LEMMA GrantsOn ==
  ASSUME NEW p, NEW q, NEW r, NEW c
  PROVE  /\ Stays(p, q) => Grants(p, q, c)
         /\ Good(q) /\ Stays(p, q) /\ Grants(q, r, c) => Grants(p, r, c)
         /\ Grants(p, q, c) /\ Stays(q, r) => Grants(p, r, c)
<1>1. Stays(p, q) => Grants(p, q, c)
  BY DEF Stays, View, Grants
<1>2. ASSUME Good(q), Stays(p, q), Grants(q, r, c) PROVE Grants(p, r, c)
  <2>1. \A x \in r.readers :
          \/ x.conversation = r.conversationId
          \/ \E s \in p.readers : x.conversation = s.conversation
    <3>1. SUFFICES ASSUME NEW x \in r.readers, x.conversation # r.conversationId
                   PROVE  \E s \in p.readers : x.conversation = s.conversation
      OBVIOUS
    <3>2. PICK s \in q.readers : x.conversation = s.conversation
      BY <1>2, <3>1 DEF Grants
    <3> QED
      BY <1>2, <3>1, <3>2 DEF Good, Tidy, Stays, View, Grants
  <2>2. \A d \in Conversations :
          \/ r.boots[d] = p.boots[d] \/ r.boots[d].status = "none"
          \/ d = r.conversationId /\ r.reducer = NoReducer /\ r.boots[d].status = "out"
    BY <1>2, Numbers DEF Stays, View, Grants
  <2> QED
    BY <1>2, <2>1, <2>2 DEF Stays, View, Grants
<1>3. ASSUME Grants(p, q, c), Stays(q, r) PROVE Grants(p, r, c)
  <2>1. \A x \in r.readers :
          \/ x.conversation = r.conversationId
          \/ \E s \in p.readers : x.conversation = s.conversation
    BY <1>3 DEF Stays, View, Grants
  <2>2. \A d \in Conversations :
          \/ r.boots[d] = p.boots[d] \/ r.boots[d].status = "none"
          \/ d = r.conversationId /\ r.reducer = NoReducer /\ r.boots[d].status = "out"
    BY <1>3, Numbers DEF Stays, View, Grants
  <2> QED
    BY <1>3, <2>1, <2>2 DEF Stays, View, Grants
<1>4. QED
  BY <1>1, <1>2, <1>3

LEMMA PageIsBound ==
  ASSUME NEW p, Good(p), NEW c \in Conversations \cup {None}, NEW q,
         q = [p EXCEPT !.conversationId = IF p.conversationId = None THEN c
                                          ELSE p.conversationId]
  PROVE  /\ Good(q) /\ Grants(p, q, c)
         /\ q.startingOver = p.startingOver /\ q.destroyed = p.destroyed
         /\ q.reducer = p.reducer
<1> DEFINE shown == IF p.conversationId = None THEN c ELSE p.conversationId
<1>1. q = [p EXCEPT !.conversationId = shown] /\ shown \in Conversations \cup {None}
  BY DEF Good, Tidy, Pages
<1> HIDE DEF shown
<1>2. /\ q \in Pages /\ q.conversationId = shown
      /\ q.mode = p.mode
      /\ q.reducer = p.reducer /\ q.readers = p.readers /\ q.boots = p.boots
      /\ q.connection = p.connection
      /\ q.startingOver = p.startingOver /\ q.destroyed = p.destroyed
      /\ q.claim = p.claim /\ q.admitted = p.admitted /\ q.pending = p.pending
  BY <1>1 DEF Good, Tidy, Pages
<1>3. Good(q)
  BY <1>2 DEF Good, Tidy, Honest, shown
<1>4. Grants(p, q, c)
  BY <1>2 DEF Grants, shown
<1>5. QED
  BY <1>2, <1>3, <1>4

LEMMA AuthorizedEffect ==
  ASSUME PageInv, NEW c \in Conversations \cup {None}, Authorized(c)
  PROVE  /\ PageInv' /\ authority.exchange # "none" /\ c \in Granted(authority.of)
         /\ authority'.exchange = "none" /\ authority'.of = authority.of
         /\ UNCHANGED <<flightVars, log, gone, history>>
         /\ page'.destroyed = page.destroyed /\ page'.mode = page.mode
         /\ page'.pending = page.pending
         /\ page.destroyed => UNCHANGED <<page, visitor>>
         /\ page'.reducer = page.reducer
         /\ \A d \in Conversations : \/ page'.boots[d] = page.boots[d]
                                     \/ page'.boots[d].status \in {"none", "out"}
         /\ ~page.destroyed =>
              /\ visitor' = authority.of
              /\ authority.exchange = "init" /\ page.conversationId = None
                   => Grants(page, page', c)
              /\ authority.exchange # "init" => Grants(page, page', c)
<1>1. /\ authority.exchange # "none" /\ c \in Granted(authority.of)
      /\ UNCHANGED <<flightVars, log, gone, history>>
  BY DEF Authorized
<1>2. CASE page.destroyed
  <2>1. /\ authority' = [authority EXCEPT !.exchange = "none"]
        /\ UNCHANGED <<page, visitor>>
    BY <1>2 DEF Authorized
  <2>2. authority' \in Authorities /\ authority'.exchange = "none"
        /\ authority'.of = authority.of
        /\ authority'.token = authority.token /\ authority'.timer = authority.timer
    BY <2>1, PageFacts DEF Authorities
  <2> QED
    BY <1>1, <1>2, <2>1, <2>2, PageStep, PageFacts DEF flightVars
<1>3. CASE ~page.destroyed
  <2> DEFINE p == Ready(page)
             q == [p EXCEPT !.conversationId = IF p.conversationId = None THEN c
                                               ELSE p.conversationId]
  <2>1. /\ authority' = [authority EXCEPT !.exchange = "none",
                                          !.token = TRUE, !.timer = TRUE]
        /\ page' = Resolved(p, c) /\ visitor' = authority.of
    BY <1>3 DEF Authorized
  <2>2. authority' \in Authorities /\ authority'.exchange = "none"
        /\ authority'.of = authority.of /\ authority.of \in Conversations
    BY <2>1, PageFacts DEF Authorities
  <2>3. /\ Good(p) /\ Stays(page, p)
        /\ p.startingOver = page.startingOver /\ p.destroyed = page.destroyed
    BY ReadyStays, PageFacts
  <2> HIDE DEF p
  <2>4. /\ Good(q) /\ Grants(p, q, c)
        /\ q.startingOver = p.startingOver /\ q.destroyed = p.destroyed
        /\ q.reducer = p.reducer
    BY <2>3, PageIsBound
  <2>5. /\ Good(page') /\ page'.startingOver = page.startingOver
        /\ page'.destroyed = page.destroyed /\ page'.mode = page.mode
        /\ page'.pending = page.pending
        /\ authority.exchange = "init" /\ page.conversationId = None => Grants(page, page', c)
        /\ authority.exchange # "init" => Grants(page, page', c)
        /\ page'.reducer = page.reducer
        /\ \A d \in Conversations : \/ page'.boots[d] = page.boots[d]
                                    \/ page'.boots[d].status \in {"none", "out"}
    <3>1. CASE authority.exchange = "renew"
      <4>1. page' = p
        BY <2>1, <3>1 DEF Resolved
      <4> QED
        BY <2>3, <3>1, <4>1, GrantsOn DEF Stays, View, Grants
    <3>2. CASE authority.exchange = "retry"
      <4> DEFINE r == [q EXCEPT !.denied = {}]
      <4>1. page' = Ready(r)
        BY <2>1, <3>2 DEF Resolved
      <4> HIDE DEF q
      <4>2. Good(r) /\ Recovers(q, r)
        BY <2>4, DenialsAreForgotten
      <4> HIDE DEF r
      <4>3. /\ Good(page') /\ Stays(r, page')
            /\ page'.startingOver = r.startingOver /\ page'.destroyed = r.destroyed
        BY <4>1, <4>2, ReadyStays
      <4>4. /\ Stays(q, page') /\ page'.startingOver = page.startingOver
            /\ page'.destroyed = page.destroyed
        BY <2>3, <2>4, <4>2, <4>3, RecoveringStays, StaysOn
      <4>5. Grants(page, page', c)
        BY <2>3, <2>4, <4>4, GrantsOn
      <4> QED
        BY <3>2, <4>3, <4>4, <4>5 DEF Grants
    <3>3. CASE authority.exchange = "init"
      <4>1. page' = IF q.conversationId = None THEN q ELSE Bootstrap(q)
        BY <2>1, <3>3 DEF Resolved
      <4> HIDE DEF q
      <4>2. CASE q.conversationId = None
        <5>1. Grants(page, page', c)
          BY <2>3, <2>4, <4>1, <4>2, GrantsOn
        <5> QED
          BY <2>3, <2>4, <3>3, <4>1, <4>2, <5>1 DEF Grants
      <4>3. CASE q.conversationId # None
        <5>1. /\ Good(page') /\ page'.mode = q.mode /\ page'.pending = q.pending
              /\ page'.startingOver = q.startingOver /\ page'.destroyed = q.destroyed
              /\ q.reducer = NoReducer => Recovers(q, page')
              /\ page'.reducer = q.reducer
              /\ \A d \in Conversations : \/ page'.boots[d] = q.boots[d]
                                          \/ page'.boots[d].status = "out"
          BY <2>4, <4>1, <4>3, FirstReadStarts DEF Good
        <5>2. /\ page'.mode = page.mode /\ page'.pending = page.pending
          BY <2>3, <2>4, <5>1 DEF Grants, Stays, View
        <5>3. page.conversationId = None => q.reducer = NoReducer
          BY <2>3, <2>4, PageFacts DEF Tidy, Stays, View
        <5>4. page.conversationId = None => Grants(page, page', c)
          BY <2>3, <2>4, <5>1, <5>3, RecoveringStays, GrantsOn
        <5>5. /\ page'.reducer = page.reducer
              /\ \A d \in Conversations : \/ page'.boots[d] = page.boots[d]
                                          \/ page'.boots[d].status \in {"none", "out"}
          <6>1. Grants(page, q, c)
            BY <2>3, <2>4, GrantsOn
          <6> QED
            BY <5>1, <6>1 DEF Grants
        <5> QED
          BY <2>3, <2>4, <3>3, <5>1, <5>2, <5>4, <5>5
      <4> QED
        BY <4>2, <4>3
    <3> QED
      BY <1>1, <3>1, <3>2, <3>3, PageFacts DEF Authorities
  <2>6. PageInv'
    BY <1>1, <1>3, <2>1, <2>2, <2>5, PageStep, PageFacts DEF flightVars
  <2> QED
    BY <1>1, <1>3, <2>1, <2>2, <2>5, <2>6
<1>4. QED
  BY <1>2, <1>3

(* A failure that touches neither the transcript nor the sends.            *)
LEMMA HarmlessFailure ==
  ASSUME PageInv, NEW q, NEW e, FailTo(q, e), Good(q), Stays(page, q),
         q.destroyed = page.destroyed, q.startingOver \in {FALSE, page.startingOver},
         authority' \in Authorities, page.destroyed => ~authority'.token /\ ~authority'.timer,
         UNCHANGED <<flightVars, serviceVars>>
  PROVE  /\ PageInv' /\ Stays(page, page') /\ page'.destroyed = page.destroyed
         /\ HistoryKept /\ history'.dropped = history.dropped
         /\ history'.misled = history.misled
<1>1. /\ page' = q /\ history' \in Histories /\ HistoryKept
      /\ history'.misled = history.misled
      /\ history'.dropped = history.dropped \cup DroppedBy(q)
  BY FailureIsCounted, PageFacts
<1>2. DroppedBy(q) = {}
  BY DEF DroppedBy, Stays, View
<1>3. TypeOK'
  BY <1>1 DEF PageInv, TypeOK, flightVars, serviceVars, Histories, Good, Tidy, Authorities
<1>4. Bookkeeping'
  BY <1>1 DEF PageInv, Bookkeeping, HistoryKept, Stays, View, flightVars
<1>5. QED
  BY <1>1, <1>2, <1>3, <1>4 DEF PageInv

(* q is p, without its Conversation, its Turns and its send.               *)
Clears(p, q) ==
  /\ q.mode = p.mode /\ q.conversationId = None
  /\ q.reducer = NoReducer /\ q.claim = None /\ q.admitted = None
  /\ q.pending = NoSend /\ q.readers = {}
  /\ \A d \in Conversations :
       \/ q.boots[d] = p.boots[d] \/ q.boots[d].status = "none"
       \/ d = p.conversationId /\ p.reducer = NoReducer /\ q.boots[d].status = "out"

(* The page takes the "not found" of something else for its Conversation's.*)
Cleared ==
  /\ page.conversationId # None /\ Clears(page, page')
  /\ HistoryKept /\ history'.misled = history.misled + 1
  /\ history'.dropped = history.dropped \cup ({page.pending.key} \ {None})

LEMMA ResettingClears ==
  ASSUME NEW p, NEW q, NEW r, Stays(p, q), Resets(q, r, None)
  PROVE  Clears(p, r)
BY DEF Stays, View, Resets, Clears

LEMMA MisleadingFailure ==
  ASSUME PageInv, NEW q, MisleadTo(q), Good(q),
         Stays(page, q) \/ (page.conversationId # None /\ Clears(page, q)),
         q.destroyed = page.destroyed, q.startingOver \in {FALSE, page.startingOver},
         authority' \in Authorities, page.destroyed => ~authority'.token /\ ~authority'.timer,
         UNCHANGED <<flightVars, serviceVars>>
  PROVE  /\ PageInv' /\ page'.destroyed = page.destroyed /\ HistoryKept
         /\ (Stays(page, page') /\ history'.dropped = history.dropped) \/ Cleared
<1>1. /\ page' = q /\ history' \in Histories /\ HistoryKept
      /\ history'.misled = history.misled + 1
      /\ history'.dropped = history.dropped \cup DroppedBy(q)
  BY MisleadingIsCounted, PageFacts
<1>2. /\ Stays(page, q) => DroppedBy(q) = {}
      /\ page.conversationId # None /\ Clears(page, q)
           => DroppedBy(q) = {page.pending.key} \ {None}
  BY DEF DroppedBy, Stays, View, Clears
<1>3. TypeOK'
  BY <1>1 DEF PageInv, TypeOK, flightVars, serviceVars, Histories, Good, Tidy, Authorities
<1>4. q.mode = page.mode /\ q.pending \in {page.pending, NoSend}
  BY DEF Stays, View, Clears
<1>5. Bookkeeping'
  BY <1>1, <1>4, NothingTyped DEF PageInv, Bookkeeping, HistoryKept, flightVars
<1>6. QED
  BY <1>1, <1>2, <1>3, <1>5 DEF PageInv, Cleared

LEMMA NotAuthorizedEffect ==
  ASSUME PageInv, NEW e, NEW kept \in BOOLEAN, NotAuthorized(e, kept)
  PROVE  /\ PageInv' /\ page'.destroyed = page.destroyed /\ HistoryKept
         /\ (Stays(page, page') /\ history'.dropped = history.dropped) \/ Cleared
         /\ authority.exchange # "none" /\ authority'.exchange = "none"
         /\ authority'.of = authority.of
         /\ UNCHANGED <<flightVars, serviceVars>>
<1> DEFINE q == IF page.destroyed THEN page
                ELSE IF kept THEN Ready(page)
                ELSE [page EXCEPT !.authorization = "lost"]
           r == IF authority.exchange = "init" /\ ~page.destroyed
                  THEN HandleError(q, e, "conversation") ELSE q
<1>1. /\ authority.exchange # "none"
      /\ kept => authority.token
      /\ authority' = [authority EXCEPT !.exchange = "none", !.token = kept,
                                        !.timer = kept \/ authority.timer]
      /\ IF e = "not_found" THEN MisleadTo(r) ELSE FailTo(r, e)
      /\ UNCHANGED <<flightVars, serviceVars>>
  BY DEF NotAuthorized
<1>2. /\ authority' \in Authorities /\ authority'.exchange = "none"
      /\ authority'.of = authority.of
      /\ page.destroyed => ~authority'.token /\ ~authority'.timer
  BY <1>1, PageFacts DEF Authorities
<1>3. /\ Good(q) /\ Stays(page, q)
      /\ q.destroyed = page.destroyed /\ q.startingOver = page.startingOver
  <2>1. CASE page.destroyed
    BY <2>1, RecoversNothing, RecoveringStays, PageFacts
  <2>2. CASE ~page.destroyed /\ kept
    BY <2>2, ReadyStays, PageFacts
  <2>3. CASE ~page.destroyed /\ ~kept
    <3>1. q = [page EXCEPT !.authorization = "lost"]
      BY <2>3
    <3> HIDE DEF q
    <3> QED
      BY <3>1, AuthorizationChanges, PageFacts
  <2> QED
    BY <2>1, <2>2, <2>3
<1> HIDE DEF q
<1>4. /\ Good(r) /\ r.destroyed = page.destroyed /\ r.startingOver = page.startingOver
      /\ \/ Stays(page, r)
         \/ e = "not_found" /\ page.conversationId # None /\ Clears(page, r)
  <2>1. CASE r = q
    BY <1>3, <2>1
  <2>2. CASE r = HandleError(q, e, "conversation")
    <3> HIDE DEF r
    <3>1. /\ Good(r)
          /\ \/ Recovers(q, r)
             \/ e = "not_found" /\ q.conversationId # None /\ Resets(q, r, None)
      BY <1>3, <2>2, ErrorIsHandled DEF Good
    <3>2. CASE Recovers(q, r)
      BY <1>3, <3>1, <3>2, RecoveringStays, StaysOn
    <3>3. CASE e = "not_found" /\ q.conversationId # None /\ Resets(q, r, None)
      BY <1>3, <3>1, <3>3, ResettingClears DEF Stays, View, Resets
    <3> QED
      BY <3>1, <3>2, <3>3
  <2> QED
    BY <2>1, <2>2
<1> HIDE DEF r
<1>5. CASE e = "not_found"
  BY <1>1, <1>2, <1>4, <1>5, MisleadingFailure
<1>6. CASE e # "not_found"
  BY <1>1, <1>2, <1>4, <1>6, HarmlessFailure
<1>7. QED
  BY <1>5, <1>6

-----------------------------------------------------------------------------
(* A new visitor, and the end of the page.                                 *)

LEMMA StartOverEffect ==
  ASSUME PageInv, StartOver
  PROVE  /\ PageInv' /\ Recovers([page EXCEPT !.startingOver = TRUE], page')
         /\ Stays(page, page') /\ page'.destroyed = page.destroyed
         /\ authority'.exchange = authority.exchange /\ authority'.of = authority.of
         /\ page'.authorization = page.authorization
         /\ UNCHANGED <<flightVars, serviceVars, history>>
<1>1. /\ page.mode = "anonymous" /\ history.latest < MaxVisitors
      /\ page' = [page EXCEPT !.startingOver = TRUE]
      /\ authority' = [authority EXCEPT !.timer = FALSE]
      /\ UNCHANGED <<flightVars, serviceVars, history>>
  BY DEF StartOver
<1>2. /\ page' \in Pages /\ page'.destroyed = page.destroyed
      /\ page'.mode = page.mode /\ page'.pending = page.pending
      /\ page'.authorization = page.authorization
  BY <1>1, PageFacts DEF Pages
<1>3. Good(page') /\ Stays(page, page')
  BY <1>1, <1>2, PageFacts DEF Good, Tidy, Honest, Stays, View, Pages
<1>4. /\ authority' \in Authorities /\ authority'.exchange = authority.exchange
      /\ authority'.of = authority.of
      /\ authority'.token = authority.token /\ ~authority'.timer
  BY <1>1, PageFacts DEF Authorities
<1>5. TypeOK'
  BY <1>1, <1>2, <1>4 DEF PageInv, TypeOK, flightVars, serviceVars, Authorities
<1>6. Bookkeeping'
  BY <1>1, <1>2, <1>4 DEF PageInv, Bookkeeping, flightVars
<1>7. QED
  BY <1>1, <1>2, <1>3, <1>4, <1>5, <1>6, RecoversNothing DEF PageInv

LEMMA NotStartedOverEffect ==
  ASSUME PageInv, NEW e, NotStartedOver(e)
  PROVE  /\ PageInv' /\ page'.destroyed = page.destroyed /\ HistoryKept
         /\ (Stays(page, page') /\ history'.dropped = history.dropped) \/ Cleared
         /\ page'.authorization \in {page.authorization, "lost"}
         /\ UNCHANGED <<authority, flightVars, serviceVars>>
<1> DEFINE h == HandleError(page, e, "conversation")
           q == [h EXCEPT !.startingOver = FALSE]
<1>1. /\ \/ FailTo(q, e) /\ e # "not_found"
         \/ MisleadTo(q) /\ e = "not_found"
      /\ UNCHANGED <<authority, flightVars, serviceVars>>
  <2>1. /\ \/ e \in {"transport", "authentication", "permission"} /\ FailTo(q, e)
           \/ e = "not_found" /\ MisleadTo(q)
        /\ UNCHANGED <<authority, flightVars, serviceVars>>
    BY Zenon DEF NotStartedOver
  <2> HIDE DEF q
  <2> QED
    BY <2>1
<1>2. /\ Good(h)
      /\ \/ Recovers(page, h)
         \/ e = "not_found" /\ page.conversationId # None /\ Resets(page, h, None)
  BY ErrorIsHandled, PageFacts DEF Good
<1> HIDE DEF h
<1>3. /\ q \in Pages /\ q.destroyed = h.destroyed /\ q.startingOver = FALSE
      /\ q.authorization = h.authorization
  BY <1>2, ZenonT(60) DEF Good, Tidy, Pages
<1>4. Good(q) /\ Stays(h, q) /\ (Resets(page, h, None) => Clears(page, q))
  BY <1>2, <1>3 DEF Good, Tidy, Honest, Stays, View, Pages, Resets, Clears
<1> HIDE DEF q
<1>5. /\ q.destroyed = page.destroyed
      /\ \/ Stays(page, q)
         \/ e = "not_found" /\ page.conversationId # None /\ Clears(page, q)
  <2>1. CASE Recovers(page, h)
    BY <1>3, <1>4, <2>1, RecoveringStays, StaysOn
  <2>2. CASE e = "not_found" /\ page.conversationId # None /\ Resets(page, h, None)
    BY <1>3, <1>4, <2>2 DEF Resets
  <2> QED
    BY <1>2, <2>1, <2>2
<1>6. page' = q
  BY <1>1, FailureIsCounted, MisleadingIsCounted, PageFacts
<1>7. q.authorization \in {page.authorization, "lost"}
  BY <1>2, <1>3 DEF Recovers, Carries, Resets
<1>8. authority' \in Authorities /\ (page.destroyed => ~authority'.token /\ ~authority'.timer)
  BY <1>1, PageFacts
<1>9. CASE MisleadTo(q) /\ e = "not_found"
  BY <1>1, <1>3, <1>4, <1>5, <1>6, <1>7, <1>8, <1>9, MisleadingFailure
<1>10. CASE FailTo(q, e) /\ e # "not_found"
  BY <1>1, <1>3, <1>4, <1>5, <1>6, <1>7, <1>8, <1>10, HarmlessFailure
<1>11. QED
  BY <1>1, <1>9, <1>10

LEMMA DestroyEffect ==
  ASSUME PageInv, Destroy
  PROVE  /\ PageInv' /\ Stays(page, page') /\ page'.destroyed
         /\ page'.authorization = page.authorization
         /\ authority'.exchange = authority.exchange /\ authority'.of = authority.of
         /\ UNCHANGED <<flightVars, serviceVars, history>>
<1> DEFINE s == StopStream(page)
<1>1. /\ page' = [s EXCEPT !.destroyed = TRUE]
      /\ authority' = [authority EXCEPT !.token = FALSE, !.timer = FALSE]
      /\ UNCHANGED <<flightVars, serviceVars, history>>
  BY DEF Destroy
<1>2. /\ Tidy(s) /\ Recovers(page, s) /\ s.readers = {}
      /\ s.authorization = page.authorization
  BY StreamStops, PageFacts
<1> HIDE DEF s
<1>3. /\ page' \in Pages /\ page'.destroyed /\ page'.mode = s.mode
      /\ page'.pending = s.pending /\ page'.startingOver = s.startingOver
      /\ page'.authorization = s.authorization
  BY <1>1, <1>2 DEF Tidy, Pages
<1>4. Good(page') /\ Stays(s, page')
  BY <1>1, <1>2, <1>3 DEF Good, Tidy, Honest, Stays, View, Pages
<1>5. Stays(page, page')
  BY <1>2, <1>4, RecoveringStays, StaysOn
<1>6. /\ authority' \in Authorities /\ ~authority'.token /\ ~authority'.timer
      /\ authority'.exchange = authority.exchange /\ authority'.of = authority.of
  BY <1>1, PageFacts DEF Authorities
<1>7. TypeOK'
  BY <1>1, <1>3, <1>6 DEF PageInv, TypeOK, flightVars, serviceVars, Authorities
<1>8. Bookkeeping'
  BY <1>1, <1>2, <1>3, <1>5, <1>6 DEF PageInv, Bookkeeping, flightVars, Stays, View, Recovers, Carries
<1>9. QED
  BY <1>1, <1>2, <1>3, <1>4, <1>5, <1>6, <1>7, <1>8 DEF PageInv

(* The page that the ready callback of a start over leaves.                *)
ReadyAgain == IF page.destroyed THEN page ELSE Ready(page)

LEMMA ReadyAgainStays ==
  ASSUME PageInv
  PROVE  /\ Good(ReadyAgain) /\ Stays(page, ReadyAgain)
         /\ ReadyAgain.startingOver = page.startingOver
         /\ ReadyAgain.destroyed = page.destroyed
BY ReadyStays, RecoversNothing, RecoveringStays, PageFacts DEF ReadyAgain

LEMMA StartedOverEffect ==
  ASSUME PageInv, StartedOver
  PROVE  /\ PageInv' /\ page'.destroyed = page.destroyed
         /\ UNCHANGED <<flightVars, log, gone>>
         /\ authority'.exchange = authority.exchange /\ authority'.of = authority.of
         /\ visitor' = history.latest + 1 /\ history'.latest = visitor'
         /\ \E c \in Granted(visitor') :
              /\ page'.conversationId = c /\ page'.readers = {}
              /\ \A d \in Conversations :
                   \/ page'.boots[d] = ReadyAgain.boots[d]
                   \/ page'.boots[d].status = "none"
                   \/ d = c /\ page'.boots[d].status = "out"
         /\ page'.mode = page.mode /\ page'.reducer = NoReducer
         /\ page'.claim = None /\ page'.admitted = None /\ page'.pending = NoSend
         /\ ~history'.crossed => ~history.crossed /\ Quiet(ReadyAgain)
         /\ history'.sends = history.sends /\ history'.misled = history.misled
         /\ history'.overlapped = history.overlapped
         /\ history'.dropped = history.dropped \cup ({page.pending.key} \ {None})
<1>1. page.startingOver /\ UNCHANGED <<flightVars, log, gone>>
  BY DEF StartedOver
<1> DEFINE v == history.latest + 1
           ready == ReadyAgain
           known == [ready EXCEPT !.denied = {}, !.startingOver = FALSE]
           dropped == history.dropped \cup ({page.pending.key} \ {None})
           crossed == history.crossed \/ ~Quiet(ready)
<1>2. PICK c \in Granted(v) :
        page' = IF c = None THEN ResetConversation(StopStream(known), c)
                ELSE Bootstrap(ResetConversation(StopStream(known), c))
  BY DEF StartedOver, ReadyAgain
<1>3. /\ authority' = IF page.destroyed THEN authority
                    ELSE [authority EXCEPT !.token = TRUE, !.timer = TRUE]
      /\ visitor' = v
      /\ history' = [history EXCEPT !.latest = v, !.crossed = crossed, !.dropped = dropped]
  BY DEF StartedOver, ReadyAgain
<1>4. history.latest < MaxVisitors /\ page.mode = "anonymous"
  BY <1>1 DEF PageInv, Bookkeeping
<1>5. v \in Conversations /\ c \in Conversations \cup {None}
  BY <1>2, <1>4, PageFacts, BoundsAssumption DEF Histories, Conversations, Granted
<1>6. /\ Good(ready) /\ Stays(page, ready)
      /\ ready.startingOver = page.startingOver /\ ready.destroyed = page.destroyed
  BY ReadyAgainStays, PageFacts
<1>7. dropped \subseteq Keys /\ crossed \in BOOLEAN
  BY PageFacts DEF Histories, Pages, Quiet
<1> HIDE DEF ready, dropped, crossed, v
<1>8. /\ known \in Pages /\ known.readers = ready.readers
      /\ known.connection = ready.connection /\ known.conversationId = ready.conversationId
      /\ known.destroyed = ready.destroyed /\ known.reducer = ready.reducer
      /\ known.boots = ready.boots /\ known.mode = ready.mode
      /\ known.startingOver = FALSE
  BY <1>6, ZenonT(60) DEF Good, Tidy, Pages
<1> HIDE DEF known
<1>9. Tidy(known)
  BY <1>6, <1>8 DEF Good, Tidy
<1> DEFINE fresh == ResetConversation(StopStream(known), c)
<1>10. Good(fresh) /\ Resets(known, fresh, c)
  BY <1>5, <1>9, PageIsReset
<1> HIDE DEF fresh
<1>11. Good(page') /\ Recovers(fresh, page') /\ page'.readers = {}
  <2>1. CASE c = None
    <3>1. page' = fresh
      BY <1>2, <2>1 DEF fresh
    <3> QED
      BY <1>10, <3>1, RecoversNothing DEF Resets
  <2>2. CASE c # None
    <3>1. page' = Bootstrap(fresh)
      BY <1>2, <2>2 DEF fresh
    <3>2. fresh.conversationId # None /\ fresh.reducer = NoReducer /\ fresh.readers = {}
      BY <1>10, <2>2 DEF Resets
    <3>3. Good(page') /\ Recovers(fresh, page')
      BY <1>10, <3>1, <3>2, FirstReadStarts DEF Good
    <3>4. Bootstrap(fresh).readers = fresh.readers
      BY <1>10 DEF Bootstrap, Good, Tidy, Pages
    <3> QED
      BY <3>1, <3>2, <3>3, <3>4
  <2> QED
    BY <2>1, <2>2
<1>12. /\ page'.mode = page.mode /\ page'.destroyed = page.destroyed
       /\ page'.startingOver = FALSE /\ page'.conversationId = c
       /\ page'.reducer = NoReducer /\ page'.claim = None /\ page'.admitted = None
       /\ page'.pending = NoSend
  BY <1>6, <1>8, <1>10, <1>11 DEF Recovers, Carries, View, Resets, Stays
<1>13. \A d \in Conversations :
         \/ page'.boots[d] = ready.boots[d] \/ page'.boots[d].status = "none"
         \/ d = c /\ page'.boots[d].status = "out"
  BY <1>8, <1>10, <1>11, <1>12 DEF Recovers, Carries, View, Resets
<1>14. /\ authority' \in Authorities /\ authority'.exchange = authority.exchange
       /\ authority'.of = authority.of
       /\ (page.destroyed => ~authority'.token /\ ~authority'.timer)
  BY <1>3, PageFacts DEF Authorities
<1>15. /\ history' \in Histories /\ history'.latest = v /\ history'.crossed = crossed
       /\ history'.dropped = dropped /\ history'.sends = history.sends
       /\ history'.overlapped = history.overlapped /\ history'.misled = history.misled
  BY <1>3, <1>5, <1>7, PageFacts DEF Histories
<1>16. TypeOK'
  BY <1>1, <1>3, <1>5, <1>11, <1>14, <1>15
     DEF PageInv, TypeOK, flightVars, Histories, Authorities, Good, Tidy
<1>17. Bookkeeping'
  BY <1>1, <1>12, <1>14, NothingTyped DEF PageInv, Bookkeeping, flightVars
<1>18. PageInv'
  BY <1>11, <1>16, <1>17 DEF PageInv
<1>19. \E d \in Granted(visitor') :
         /\ page'.conversationId = d /\ page'.readers = {}
         /\ \A e \in Conversations :
              \/ page'.boots[e] = ReadyAgain.boots[e]
              \/ page'.boots[e].status = "none"
              \/ e = d /\ page'.boots[e].status = "out"
  BY <1>2, <1>3, <1>11, <1>12, <1>13 DEF ready
<1>20. /\ visitor' = history.latest + 1 /\ history'.latest = visitor'
       /\ ~history'.crossed => ~history.crossed /\ Quiet(ReadyAgain)
       /\ history'.dropped = history.dropped \cup ({page.pending.key} \ {None})
  BY <1>3, <1>15 DEF v, ready, crossed, dropped
<1> QED
  BY <1>1, <1>12, <1>14, <1>15, <1>18, <1>19, <1>20

-----------------------------------------------------------------------------
(* Steps, by what they do to the transcript and the sends.                 *)

(* Nothing moves but streams, first reads, refreshes and the authority.    *)
Rests ==
  /\ Stays(page, page') /\ (page.destroyed => page'.destroyed)
  /\ HistoryKept /\ history'.dropped = history.dropped
  /\ \/ refresh' = refresh
     \/ refresh'.status = "none"
     \/ /\ refresh'.status = "out" /\ page.conversationId # None
        /\ refresh'.conversation = page.conversationId
  /\ \/ authority'.exchange = "none"
     \/ /\ authority'.exchange = authority.exchange /\ authority'.of = authority.of
        /\ page'.authorization \in {page.authorization, "lost"}
     \/ authority'.exchange \in {"retry", "renew"} /\ authority'.of = visitor
     \/ page.mode = "host" /\ authority' = authority
  /\ authority'.of \in {authority.of, visitor}
  /\ UNCHANGED <<requests, serviceVars>>

(* The page is reset, because a Conversation it reads cannot be read.      *)
Leaves ==
  /\ Resets(page, page', None) /\ page.conversationId # None
  /\ HistoryKept
  /\ history'.dropped = history.dropped \cup ({page.pending.key} \ {None})
  /\ \/ \E c \in Conversations : page.boots[c].status # "none" /\ ~Readable(c)
     \/ \E r \in page.readers : ~Readable(r.conversation)
  /\ UNCHANGED <<authority, requests, refresh, serviceVars>>

(* The page is reset, although its Conversation can be read.               *)
Misleads ==
  /\ Cleared /\ page'.destroyed = page.destroyed
  /\ \/ authority'.exchange = "none" /\ authority'.of = authority.of
     \/ authority' = authority /\ page'.authorization \in {page.authorization, "lost"}
  /\ UNCHANGED <<flightVars, serviceVars>>

LEMMA ErrorsOf ==
  ASSUME NEW c, "not_found" \in Errors(c)
  PROVE  ~Readable(c)
BY DEF Errors

LEMMA RecoveringRests ==
  ASSUME Recovers(page, page'), HistoryKept, history'.dropped = history.dropped,
         UNCHANGED <<authority, requests, refresh, serviceVars>>
  PROVE  Rests
<1>1. /\ Stays(page, page') /\ page'.destroyed = page.destroyed
      /\ page'.authorization \in {page.authorization, "lost"}
  BY RecoveringStays DEF Recovers, Carries
<1>2. QED
  BY <1>1 DEF Rests

LEMMA HistoryRests ==
  ASSUME UNCHANGED history
  PROVE  HistoryKept /\ history'.dropped = history.dropped
BY DEF HistoryKept

LEMMA PageActs ==
  ASSUME PageInv, FoldedInv, Page
  PROVE  PageInv' /\ (Rests \/ Send \/ RetrySend \/ DiscardSend)
<1>1. CASE Send
  BY <1>1, SendEffect
<1>2. CASE RetrySend
  BY <1>2, RetrySendEffect
<1>3. CASE DiscardSend
  BY <1>3, DiscardSendEffect
<1>4. CASE Reconnect
  BY <1>4, ReconnectEffect, RecoveringRests, HistoryRests DEF Reconnect, flightVars, serviceVars
<1>5. CASE Interrupt
  BY <1>5, InterruptEffect, RecoveringRests, HistoryRests DEF Interrupt, serviceVars
<1>6. CASE RetryAuthorization
  <2>1. /\ PageInv' /\ Stays(page, page') /\ page'.destroyed = page.destroyed
        /\ \/ authority'.exchange \in {"retry", "renew"} /\ authority'.of = visitor
           \/ page.mode = "host" /\ authority' = authority
        /\ UNCHANGED <<flightVars, serviceVars, history>>
    BY <1>6, RetryAuthorizationEffect DEF RetryAuthorization
  <2> QED
    BY <2>1, HistoryRests DEF Rests, flightVars
<1>7. CASE Renew
  BY <1>7, RenewEffect, HistoryRests DEF Rests, flightVars
<1>8. CASE StartOver
  BY <1>8, StartOverEffect, HistoryRests DEF Rests, flightVars
<1>9. CASE Destroy
  BY <1>9, DestroyEffect, HistoryRests DEF Rests, flightVars
<1>10. QED
  BY <1>1, <1>2, <1>3, <1>4, <1>5, <1>6, <1>7, <1>8, <1>9 DEF Page

LEMMA AnswersArrive ==
  ASSUME PageInv, FoldedInv, Answers
  PROVE  PageInv' /\ \/ Rests
                     \/ \E k \in Keys : SendAdmitted(k) \/ SendBusy(k)
                     \/ ClaimRefreshed
                     \/ \E c \in Conversations : WindowRead(c)
                     \/ \E r \in page.readers : ReceiveFrame(r)
                     \/ \E c \in Conversations \cup {None} : Authorized(c)
                     \/ StartedOver
<1>1. ASSUME NEW k \in Keys, SendAdmitted(k) \/ SendBusy(k) PROVE PageInv'
  BY <1>1, SendAdmittedEffect, SendBusyEffect
<1>2. CASE ClaimRefreshed
  BY <1>2, ClaimRefreshedEffect
<1>3. ASSUME NEW c \in Conversations, WindowRead(c) PROVE PageInv'
  BY <1>3, WindowReadEffect
<1>4. ASSUME NEW c \in Conversations \cup {None}, Authorized(c) PROVE PageInv'
  BY <1>4, AuthorizedEffect
<1>5. ASSUME NEW r \in page.readers, StreamConnects(r) PROVE PageInv' /\ Rests
  BY <1>5, StreamConnectsEffect, RecoveringRests, HistoryRests
     DEF StreamConnects, flightVars, serviceVars
<1>6. ASSUME NEW r \in page.readers, ReceiveFrame(r) PROVE PageInv'
  BY <1>6, ReceiveFrameEffect
<1>7. ASSUME NEW t \in stopping, Interrupted(t) PROVE PageInv' /\ Rests
  BY <1>7, InterruptedEffect, RecoveringRests, HistoryRests DEF Interrupted, serviceVars
<1>8. CASE StartedOver
  BY <1>8, StartedOverEffect
<1>9. CASE Authorized(None)
  BY <1>4, <1>9
<1>10. QED
  BY <1>1, <1>2, <1>3, <1>4, <1>5, <1>6, <1>7, <1>8, <1>9 DEF Answers

LEMMA FailureRests ==
  ASSUME NEW e, Fails(e), UNCHANGED <<authority, requests, refresh, serviceVars>>,
         e = "not_found" =>
           \/ \E c \in Conversations : page.boots[c].status # "none" /\ ~Readable(c)
           \/ \E r \in page.readers : ~Readable(r.conversation)
  PROVE  Rests \/ Leaves
BY RecoveringRests DEF Fails, Leaves

LEMMA FailuresArrive ==
  ASSUME PageInv, Failures
  PROVE  PageInv' /\ \/ Rests \/ Leaves \/ Misleads
                     \/ \E e \in ErrorKinds, k \in Keys : SendUncertain(k, e) \/ SendRefused(k, e)
<1>1. CASE ClaimNotRefreshed
  <2>1. /\ PageInv' /\ Recovers(page, page') /\ HistoryKept
        /\ history'.dropped = history.dropped
    BY <1>1, ClaimNotRefreshedEffect DEF Recovers
  <2>2. /\ refresh'.status = "none" /\ UNCHANGED <<authority, requests, serviceVars>>
    BY <1>1 DEF ClaimNotRefreshed, NoRefresh
  <2>3. /\ Stays(page, page') /\ page'.destroyed = page.destroyed
        /\ page'.authorization \in {page.authorization, "lost"}
    BY <2>1, RecoveringStays DEF Recovers, Carries
  <2> QED
    BY <2>1, <2>2, <2>3 DEF Rests
<1>2. ASSUME NEW e \in ErrorKinds, NEW k \in Keys, SendUncertain(k, e) \/ SendRefused(k, e)
      PROVE PageInv'
  BY <1>2, SendUncertainEffect, SendRefusedEffect
<1>3. ASSUME NEW e \in ErrorKinds, NEW c \in Conversations, WindowNotRead(c, e)
      PROVE  PageInv' /\ (Rests \/ Leaves)
  BY <1>3, WindowNotReadEffect, FailureRests, ErrorsOf DEF WindowNotRead, flightVars, serviceVars
<1>4. ASSUME NEW e \in ErrorKinds, NEW r \in page.readers, StreamFails(r, e)
      PROVE  PageInv' /\ (Rests \/ Leaves)
  BY <1>4, StreamFailsEffect, FailureRests, ErrorsOf DEF StreamFails, flightVars, serviceVars
<1>5. ASSUME NEW e \in ErrorKinds, NEW t \in stopping, NotInterrupted(t, e)
      PROVE  PageInv' /\ (Rests \/ Leaves)
  BY <1>5, NotInterruptedEffect, FailureRests DEF NotInterrupted, serviceVars
<1>6. ASSUME NEW t \in stopping, NothingToInterrupt(t) PROVE PageInv' /\ Rests
  <2>1. /\ PageInv' /\ HistoryKept /\ history'.dropped = history.dropped
        /\ Recovers(page, page')
        /\ refresh' # refresh => /\ refresh'.status = "out"
                                 /\ page.conversationId # None
                                 /\ refresh'.conversation = page.conversationId
    BY <1>6, NothingToInterruptEffect
  <2>2. /\ Stays(page, page') /\ page'.destroyed = page.destroyed
        /\ page'.authorization \in {page.authorization, "lost"}
    BY <2>1, RecoveringStays DEF Recovers, Carries
  <2> QED
    BY <1>6, <2>1, <2>2 DEF Rests, NothingToInterrupt, serviceVars
<1>7. ASSUME NEW e \in ErrorKinds, NEW kept \in BOOLEAN, NotAuthorized(e, kept)
      PROVE  PageInv' /\ (Rests \/ Misleads)
  BY <1>7, NotAuthorizedEffect DEF Rests, Misleads, flightVars
<1>8. ASSUME NEW e \in ErrorKinds, NotStartedOver(e)
      PROVE  PageInv' /\ (Rests \/ Misleads)
  BY <1>8, NotStartedOverEffect DEF Rests, Misleads, flightVars
<1>9. QED
  BY <1>1, <1>2, <1>3, <1>4, <1>5, <1>6, <1>7, <1>8 DEF Failures

-----------------------------------------------------------------------------
(* The logs of the service.                                                *)

LogGrows ==
  \A c \in Conversations :
    /\ Len(log[c]) <= Len(log'[c])
    /\ \A i \in 1 .. Len(log[c]) : log'[c][i] = log[c][i]

(* What is recorded is all that is new.                                    *)
Recorded(c, t, over) ==
  \A d \in Conversations : \A i \in 1 .. Len(log'[d]) :
    \/ i \in 1 .. Len(log[d])
    \/ d = c /\ log'[d][i] = [turn |-> t, over |-> over]

LEMMA LogsAreSequences ==
  ASSUME TypeOK, NEW c \in Conversations
  PROVE  /\ log[c] \in Seq([turn: Turns, over: BOOLEAN])
         /\ DOMAIN log[c] = 1 .. Len(log[c]) /\ Len(log[c]) \in Nat
<1>1. log[c] \in Seq([turn: Turns, over: BOOLEAN])
  BY DEF TypeOK
<1>2. QED
  BY <1>1

LEMMA LogsStaySequences ==
  ASSUME TypeOK', NEW c \in Conversations
  PROVE  /\ log'[c] \in Seq([turn: Turns, over: BOOLEAN])
         /\ DOMAIN log'[c] = 1 .. Len(log'[c]) /\ Len(log'[c]) \in Nat
<1>1. log'[c] \in Seq([turn: Turns, over: BOOLEAN])
  BY DEF TypeOK
<1>2. QED
  BY <1>1

LEMMA LogIsRecorded ==
  ASSUME TypeOK, TypeOK', NEW c \in Conversations, NEW t \in Turns, NEW over \in BOOLEAN,
         Record(c, t, over)
  PROVE  LogGrows /\ Recorded(c, t, over) /\ Started(t, c)'
         /\ (over => Ended(t)')
<1> DEFINE change == [turn |-> t, over |-> over]
           n == Len(log[c]) + 1
<1>1. /\ log'[c] = Append(log[c], change)
      /\ \A d \in Conversations \ {c} : log'[d] = log[d]
  BY LogIsTyped
<1>2. log[c] \in Seq([turn: Turns, over: BOOLEAN]) /\ Len(log[c]) \in Nat
  BY LogsAreSequences
<1>3. change \in [turn: Turns, over: BOOLEAN] /\ change.turn = t /\ change.over = over
  OBVIOUS
<1> HIDE DEF change
<1>4. /\ Len(log'[c]) = n /\ log'[c][n] = change
      /\ \A i \in 1 .. Len(log[c]) : log'[c][i] = log[c][i]
  BY <1>1, <1>2, <1>3
<1>5. DOMAIN log'[c] = 1 .. Len(log'[c])
  <2>1. log'[c] \in Seq([turn: Turns, over: BOOLEAN])
    BY DEF TypeOK
  <2> QED
    BY <2>1
<1>6. n \in DOMAIN log'[c]
  BY <1>2, <1>4, <1>5
<1>7. LogGrows
  <2>1. ASSUME NEW d \in Conversations, d # c
        PROVE  /\ Len(log[d]) <= Len(log'[d])
               /\ \A i \in 1 .. Len(log[d]) : log'[d][i] = log[d][i]
    BY <1>1, <2>1, LogsAreSequences
  <2>2. /\ Len(log[c]) <= Len(log'[c])
        /\ \A i \in 1 .. Len(log[c]) : log'[c][i] = log[c][i]
    BY <1>2, <1>4
  <2> QED
    BY <2>1, <2>2 DEF LogGrows
<1>8. Recorded(c, t, over)
  <2>1. ASSUME NEW i \in 1 .. Len(log'[c]), i \notin 1 .. Len(log[c])
        PROVE  log'[c][i] = change
    BY <1>2, <1>4, <2>1
  <2> QED
    BY <1>1, <2>1 DEF Recorded, change
<1>9. Started(t, c)' /\ (over => Ended(t)')
  BY <1>3, <1>4, <1>6 DEF Started, Ended
<1>10. QED
  BY <1>7, <1>8, <1>9

LEMMA LogRests ==
  ASSUME TypeOK, UNCHANGED log
  PROVE  LogGrows
BY LogsAreSequences DEF LogGrows

(* A Turn that has started or ended stays so, and what was folded reads    *)
(* the same.                                                               *)
LEMMA TurnsStay ==
  ASSUME TypeOK, TypeOK', LogGrows
  PROVE  /\ \A t, c : c \in Conversations /\ Started(t, c) => Started(t, c)'
         /\ \A t : Ended(t) => Ended(t)'
         /\ \A r \in Reducers :
              (r # NoReducer => r.conversation # None /\ r.at <= Len(log[r.conversation]))
                => Known(r)' = Known(r)
<1>1. \A c \in Conversations :
        /\ DOMAIN log[c] = 1 .. Len(log[c]) /\ Len(log[c]) \in Nat
        /\ DOMAIN log'[c] = 1 .. Len(log'[c]) /\ Len(log'[c]) \in Nat
  <2>1. ASSUME NEW c \in Conversations
        PROVE  DOMAIN log'[c] = 1 .. Len(log'[c]) /\ Len(log'[c]) \in Nat
    <3>1. log'[c] \in Seq([turn: Turns, over: BOOLEAN])
      BY DEF TypeOK
    <3> QED
      BY <3>1
  <2> QED
    BY <2>1, LogsAreSequences
<1>2. \A c \in Conversations : \A i \in DOMAIN log[c] :
        i \in DOMAIN log'[c] /\ log'[c][i] = log[c][i]
  BY <1>1 DEF LogGrows
<1>3. ASSUME NEW r \in Reducers, r # NoReducer => r.conversation # None
                                                 /\ r.at <= Len(log[r.conversation])
      PROVE  Known(r)' = Known(r)
  <2>1. Folded(r)' = Folded(r)
    BY DEF Folded
  <2>2. ASSUME NEW i \in Folded(r) PROVE log'[r.conversation][i] = log[r.conversation][i]
    <3>1. /\ r # NoReducer /\ i \in (r.from + 1) .. r.at
      BY <2>2 DEF Folded
    <3>2. r.conversation \in Conversations /\ r.from \in Nat /\ r.at \in Nat
      BY <1>3, <3>1 DEF Reducers
    <3>3. i \in 1 .. Len(log[r.conversation])
      BY <1>1, <1>3, <3>1, <3>2
    <3> QED
      BY <3>2, <3>3 DEF LogGrows
  <2> QED
    BY <2>1, <2>2 DEF Known
<1>4. QED
  BY <1>2, <1>3 DEF Started, Ended

(* No step of the page but a first read and a frame folds anything.        *)
FoldsNothing ==
  /\ page'.reducer \in {page.reducer, NoReducer}
  /\ \A c \in Conversations :
       page'.boots[c] = page.boots[c] \/ page'.boots[c].status \in {"none", "out"}

(* A first read has an answer only from the service.                       *)
BootsMove ==
  \/ \E c \in Conversations : ReadWindow(c)
  \/ \A c \in Conversations :
       page'.boots[c] = page.boots[c] \/ page'.boots[c].status \in {"none", "out"}

LEMMA FoldedStays ==
  ASSUME PageInv, PageInv', FoldedInv, FoldsNothing, LogGrows
  PROVE  FoldedInv' /\ BootsMove
<1>1. \A c \in Conversations : Len(log[c]) \in Nat /\ Len(log'[c]) \in Nat
  <2>1. \A c \in Conversations : log'[c] \in Seq([turn: Turns, over: BOOLEAN])
    BY DEF PageInv, TypeOK
  <2> QED
    BY <2>1, LogsAreSequences DEF PageInv
<1>2. ASSUME NEW c \in Conversations, page'.boots[c].status = "read"
      PROVE  page'.boots[c].at <= Len(log'[c])
  <2>1. page'.boots[c] = page.boots[c] /\ page.boots[c].at \in Nat
    BY <1>2, PageFacts DEF FoldsNothing, Pages
  <2> QED
    BY <1>1, <1>2, <2>1 DEF FoldedInv, LogGrows
<1>3. ASSUME page'.reducer # NoReducer
      PROVE  page'.reducer.at <= Len(log'[page'.reducer.conversation])
  <2>1. page'.reducer = page.reducer /\ page.reducer # NoReducer
    BY <1>3 DEF FoldsNothing
  <2>2. page.reducer.conversation \in Conversations /\ page.reducer.at \in Nat
    BY <2>1, PageFacts DEF Tidy, Pages, Reducers
  <2> QED
    BY <1>1, <2>1, <2>2 DEF FoldedInv, LogGrows
<1>4. QED
  BY <1>2, <1>3 DEF FoldedInv, BootsMove, FoldsNothing

LEMMA ViewFoldsNothing ==
  ASSUME NEW p, p.reducer = page.reducer, p.boots = page.boots, View(p, page')
  PROVE  FoldsNothing
BY DEF FoldsNothing, View

LEMMA SamePageFolds ==
  ASSUME UNCHANGED page
  PROVE  FoldsNothing
BY DEF FoldsNothing

(* The steps of the service, one by one.                                   *)
LEMMA ServiceEffect ==
  ASSUME PageInv, PageInv', Service
  PROVE  LogGrows
<1>1. TypeOK /\ TypeOK'
  BY DEF PageInv
<1>2. ASSUME NEW k \in Keys, Admit(k) PROVE LogGrows
  <2>1. requests[k].conversation \in Conversations
    BY <1>2, PageFacts DEF Admit, PageInv, Bookkeeping, Requests
  <2> QED
    BY <1>1, <1>2, <2>1, LogIsRecorded, LogRests, Numbers DEF Admit
<1>3. ASSUME NEW c \in Conversations, OtherTurnStarts(c) PROVE LogGrows
  <2>1. MaxSends + history.others + 1 \in Turns
    BY <1>3, PageFacts, BoundsAssumption DEF OtherTurnStarts, Histories, Turns
  <2> QED
    BY <1>1, <1>3, <2>1, LogIsRecorded DEF OtherTurnStarts
<1>4. ASSUME NEW c \in Conversations, TurnEnds(c) PROVE LogGrows
  BY <1>1, <1>4, LogIsRecorded, ActiveIsTurn DEF TurnEnds
<1>6. ASSUME NEW k \in Keys, AdmitLate(k) PROVE LogGrows
  <2>1. PICK c \in requests[k].late : Record(c, k, FALSE)
    BY <1>6 DEF AdmitLate
  <2>2. c \in Conversations
    BY PageFacts DEF TypeOK
  <2> QED
    BY <1>1, <2>1, <2>2, LogIsRecorded, Numbers
<1>5. QED
  BY <1>1, <1>2, <1>3, <1>4, <1>6, LogRests
     DEF Service, AnswerBusy, Delete, ReadWindow, ReadClaim, serviceVars

LEMMA FoldedIsKept ==
  ASSUME PageInv, FoldedInv, Next
  PROVE  PageInv' /\ FoldedInv' /\ LogGrows /\ BootsMove
<1>1. TypeOK
  BY PageFacts
<1>2. CASE Page
  <2>1. PageInv' /\ (Rests \/ Send \/ RetrySend \/ DiscardSend)
    BY <1>2, PageActs
  <2>2. UNCHANGED log
    BY <2>1 DEF Rests, Send, RetrySend, DiscardSend, serviceVars
  <2>3. View(page, page')
    BY <2>1, SendEffect, RetrySendEffect, DiscardSendEffect DEF Rests, Stays, Carries
  <2> QED
    BY <1>1, <2>1, <2>2, <2>3, ViewFoldsNothing, FoldedStays, LogRests
<1>3. CASE Answers
  <2>1. /\ PageInv'
        /\ \/ Rests
           \/ \E k \in Keys : SendAdmitted(k) \/ SendBusy(k)
           \/ ClaimRefreshed
           \/ \E c \in Conversations : WindowRead(c)
           \/ \E r \in page.readers : ReceiveFrame(r)
           \/ \E c \in Conversations \cup {None} : Authorized(c)
           \/ StartedOver
    BY <1>3, AnswersArrive
  <2>2. UNCHANGED log
    BY <2>1 DEF Rests, SendAdmitted, SendBusy, ClaimRefreshed, WindowRead, ReceiveFrame,
                Authorized, StartedOver, serviceVars
  <2>3. LogGrows
    BY <1>1, <2>2, LogRests
  <2>4. CASE Rests
    BY <2>1, <2>3, <2>4, ViewFoldsNothing, FoldedStays DEF Rests, Stays
  <2>5. ASSUME NEW k \in Keys, SendAdmitted(k) PROVE FoldedInv' /\ BootsMove
    <3> DEFINE c == requests[k].conversation
               bound == [page EXCEPT !.conversationId = c, !.admitted = k, !.pending = NoSend]
    <3>1. View(bound, page')
      BY <2>5, SendAdmittedEffect DEF Recovers, Carries
    <3>2. bound.reducer = page.reducer /\ bound.boots = page.boots
      BY PageFacts DEF Pages
    <3> QED
      BY <2>1, <2>3, <3>1, <3>2, ViewFoldsNothing, FoldedStays
  <2>6. ASSUME NEW k \in Keys, SendBusy(k) PROVE FoldedInv' /\ BootsMove
    BY <2>1, <2>3, <2>6, SendBusyEffect, ViewFoldsNothing, FoldedStays DEF Carries
  <2>7. CASE ClaimRefreshed
    BY <2>1, <2>3, <2>7, ClaimRefreshedEffect, ViewFoldsNothing, FoldedStays DEF Carries
  <2>8. ASSUME NEW c \in Conversations, WindowRead(c) PROVE FoldedInv' /\ BootsMove
    <3> DEFINE read == page.boots[c]
               reducer == [conversation |-> c, from |-> read.at, at |-> read.at]
               seeded == [page EXCEPT !.claim = read.active, !.reducer = reducer]
    <3>1. CASE Recovers(page, page')
      BY <2>1, <2>3, <3>1, ViewFoldsNothing, FoldedStays DEF Recovers, Carries
    <3>2. CASE Recovers(seeded, page')
      <4>1. seeded.reducer = reducer /\ seeded.boots = page.boots
        BY PageFacts DEF Pages
      <4>2. /\ page'.reducer = reducer
            /\ \A d \in Conversations : \/ page'.boots[d] = page.boots[d]
                                        \/ page'.boots[d].status \in {"none", "out"}
        BY <3>2, <4>1 DEF Recovers, Carries, View
      <4>3. read.at <= Len(log[c])
        BY <2>8 DEF WindowRead, FoldedInv
      <4>4. reducer.at = read.at /\ reducer.conversation = c
        OBVIOUS
      <4>5. \A d \in Conversations : page'.boots[d].status = "read"
              => page'.boots[d].at <= Len(log[d])
        BY <4>2 DEF FoldedInv
      <4> HIDE DEF reducer
      <4> QED
        BY <2>2, <4>2, <4>3, <4>4, <4>5 DEF FoldedInv, BootsMove
    <3> QED
      BY <2>8, <3>1, <3>2, WindowReadEffect
  <2>9. ASSUME NEW r \in page.readers, ReceiveFrame(r) PROVE FoldedInv' /\ BootsMove
    <3> DEFINE reducer == [page.reducer EXCEPT !.at = page.reducer.at + 1]
               folded == [page EXCEPT !.reducer = reducer]
    <3>1. /\ page.reducer # NoReducer
          /\ page.reducer.at < Len(log[page.reducer.conversation])
          /\ View(folded, page')
      BY <2>9, ReceiveFrameEffect DEF Carries
    <3>2. folded.reducer = reducer /\ folded.boots = page.boots
      BY PageFacts DEF Pages
    <3>3. page.reducer \in Reducers /\ page.reducer.conversation \in Conversations
      BY <3>1, PageFacts DEF Tidy, Pages, Reducers
    <3>4. /\ reducer.at = page.reducer.at + 1
          /\ reducer.conversation = page.reducer.conversation /\ page.reducer.at \in Nat
      BY <3>3 DEF Reducers
    <3>5. /\ page'.reducer = reducer
          /\ \A d \in Conversations : \/ page'.boots[d] = page.boots[d]
                                      \/ page'.boots[d].status \in {"none", "out"}
      BY <3>1, <3>2 DEF View
    <3>6. \A d \in Conversations : page'.boots[d].status = "read"
            => page'.boots[d].at <= Len(log[d])
      BY <3>5 DEF FoldedInv
    <3>7. Len(log[page.reducer.conversation]) \in Nat
      BY <1>1, <3>3, LogsAreSequences
    <3> HIDE DEF reducer
    <3> QED
      BY <2>2, <3>1, <3>4, <3>5, <3>6, <3>7 DEF FoldedInv, BootsMove
  <2>10. ASSUME NEW c \in Conversations \cup {None}, Authorized(c) PROVE FoldedInv' /\ BootsMove
    <3>1. FoldsNothing
      BY <2>10, AuthorizedEffect DEF FoldsNothing
    <3> QED
      BY <2>1, <2>3, <3>1, FoldedStays
  <2>11. CASE StartedOver
    <3>1. /\ page'.reducer = NoReducer
          /\ \A d \in Conversations : \/ page'.boots[d] = ReadyAgain.boots[d]
                                      \/ page'.boots[d].status \in {"none", "out"}
      BY <2>11, StartedOverEffect
    <3>2. \A d \in Conversations : \/ ReadyAgain.boots[d] = page.boots[d]
                                   \/ ReadyAgain.boots[d].status \in {"none", "out"}
      BY ReadyAgainStays DEF Stays, View
    <3> QED
      BY <2>1, <2>3, <3>1, <3>2, FoldedStays DEF FoldsNothing
  <2> QED
    BY <2>1, <2>3, <2>4, <2>5, <2>6, <2>7, <2>8, <2>9, <2>10, <2>11
<1>4. CASE Failures
  <2>1. PageInv' /\ \/ Rests \/ Leaves \/ Misleads
                    \/ \E e \in ErrorKinds, k \in Keys : SendUncertain(k, e) \/ SendRefused(k, e)
    BY <1>4, FailuresArrive
  <2>2. UNCHANGED log
    BY <2>1 DEF Rests, Leaves, Misleads, SendUncertain, SendRefused, serviceVars
  <2>3. FoldsNothing
    <3>1. CASE Rests
      BY <3>1, ViewFoldsNothing DEF Rests, Stays
    <3>2. Resets(page, page', None) => FoldsNothing
      BY DEF Resets, FoldsNothing
    <3>3. ASSUME NEW e \in ErrorKinds, NEW k \in Keys, SendUncertain(k, e) \/ SendRefused(k, e)
          PROVE  FoldsNothing
      BY <3>2, <3>3, SendUncertainEffect, SendRefusedEffect, ViewFoldsNothing DEF Carries
    <3>4. Clears(page, page') => FoldsNothing
      BY DEF Clears, FoldsNothing
    <3> QED
      BY <2>1, <3>1, <3>2, <3>3, <3>4 DEF Leaves, Misleads, Cleared
  <2> QED
    BY <1>1, <2>1, <2>2, <2>3, FoldedStays, LogRests
<1>5. CASE Service
  <2>1. PageInv' /\ LogGrows
    BY <1>5, ServiceKeepsPage, ServiceEffect
  <2>2. CASE \E c \in Conversations : ReadWindow(c)
    <3>1. PICK c \in Conversations : ReadWindow(c)
      BY <2>2
    <3> DEFINE read == [status |-> "read", at |-> Len(log[c]), active |-> TheActive(c)]
               boots == [page.boots EXCEPT ![c] = read]
    <3>2. /\ page' = [page EXCEPT !.boots = boots] /\ UNCHANGED log
      BY <3>1 DEF ReadWindow, serviceVars
    <3>3. \A d \in Conversations : \/ boots[d] = page.boots[d]
                                   \/ d = c /\ boots[d].at = Len(log[c])
      BY PageFacts DEF Pages
    <3> HIDE DEF boots
    <3>4. page'.boots = boots /\ page'.reducer = page.reducer
      BY <3>2, PageFacts DEF Pages
    <3>5. Len(log[c]) <= Len(log[c])
      BY <1>1, LogsAreSequences
    <3> QED
      BY <2>1, <3>1, <3>2, <3>3, <3>4, <3>5 DEF FoldedInv, BootsMove
  <2>3. CASE UNCHANGED page
    BY <2>1, <2>3, SamePageFolds, FoldedStays
  <2> QED
    BY <1>5, <2>1, <2>2, <2>3
       DEF Service, Admit, AnswerBusy, AdmitLate, OtherTurnStarts, TurnEnds, Delete, ReadClaim
<1>6. QED
  BY <1>2, <1>3, <1>4, <1>5 DEF Next

-----------------------------------------------------------------------------
(* What follows of the streams.                                            *)

LEMMA InitFolded == Init => FoldedInv
BY Numbers, NothingTyped DEF Init, FoldedInv

LEMMA PageStutters == PageInv /\ FoldedInv /\ UNCHANGED vars => PageInv' /\ FoldedInv'
BY ZenonT(60) DEF PageInv, FoldedInv, TypeOK, Bookkeeping, vars, flightVars, serviceVars

LEMMA PageIsSound == Spec => [](PageInv /\ FoldedInv)
<1>1. Init => PageInv /\ FoldedInv
  BY InitPage, InitFolded
<1>2. PageInv /\ FoldedInv /\ [Next]_vars => PageInv' /\ FoldedInv'
  BY FoldedIsKept, PageStutters
<1>3. QED
  BY <1>1, <1>2, PTL DEF Spec

(* The page, the requests, the authority and the service keep their types, *)
(* whatever overtakes what.                                                *)
THEOREM PageTypeOK == Spec => []TypeOK
<1>1. PageInv => TypeOK
  BY DEF PageInv
<1>2. QED
  BY <1>1, PageIsSound, PTL

(* However recoveries, reads and failures interleave, at most one stream   *)
(* is read, and a page that says "connected" is reading one.               *)
THEOREM PageReadsOneStream == Spec => []OneStream
<1>1. PageInv => OneStream
  BY DEF PageInv, Good, Tidy, Honest, OneStream
<1>2. QED
  BY <1>1, PageIsSound, PTL

(* No answer or grant that arrives after destroy() brings a stream or the  *)
(* renewal timer back.                                                     *)
THEOREM PageStaysDestroyed == Spec => []DestroyIsFinal
<1>1. PageInv => DestroyIsFinal
  BY DEF PageInv, Good, Tidy, Bookkeeping, DestroyIsFinal
<1>2. QED
  BY <1>1, PageIsSound, PTL

-----------------------------------------------------------------------------
(* Visitors and their Turns.                                               *)

Kinds ==
  \/ Rests \/ Leaves \/ Misleads
  \/ Send \/ RetrySend \/ DiscardSend
  \/ \E k \in Keys : SendAdmitted(k) \/ SendBusy(k)
  \/ \E e \in ErrorKinds, k \in Keys : SendUncertain(k, e) \/ SendRefused(k, e)
  \/ ClaimRefreshed
  \/ \E c \in Conversations : WindowRead(c)
  \/ \E r \in page.readers : ReceiveFrame(r)
  \/ \E c \in Conversations \cup {None} : Authorized(c)
  \/ StartedOver
  \/ Service

LEMMA StepsAreOfKinds ==
  ASSUME PageInv, FoldedInv, Next PROVE Kinds
BY PageActs, AnswersArrive, FailuresArrive DEF Next, Kinds

(* What moves of visitors and of what belongs to them.                     *)
Moves ==
  /\ page'.mode = page.mode
  /\ \/ history'.latest = history.latest
     \/ /\ page.mode = "anonymous" /\ history'.latest = history.latest + 1
        /\ visitor' = history'.latest
  /\ visitor' \in {visitor, authority.of, history'.latest}
  /\ authority'.of \in {authority.of, visitor}
  /\ history.crossed => history'.crossed
  /\ history'.misled \in {history.misled, history.misled + 1}
  /\ \A k \in Keys :
       /\ requests'[k].conversation \in {requests[k].conversation, 1, visitor}
       /\ requests'[k].late \subseteq requests[k].late \cup {requests[k].conversation}

(* What the service does to a request.                                     *)
LEMMA RequestIsServed ==
  ASSUME PageInv, NEW k \in Keys, Admit(k) \/ AnswerBusy(k) \/ AdmitLate(k)
  PROVE  /\ \A j \in Keys : /\ requests'[j].conversation = requests[j].conversation
                            /\ requests'[j].late \subseteq requests[j].late
                            /\ requests'[j].again = requests[j].again
         /\ \A j \in Keys \ {k} : requests'[j] = requests[j]
         /\ Admit(k) => /\ requests'[k].status = "admitted"
                        /\ requests'[k].late = requests[k].late \ {requests[k].conversation}
         /\ AnswerBusy(k) => /\ requests'[k].status = "busy"
                             /\ requests'[k].late = requests[k].late
         /\ AdmitLate(k) => requests'[k].status = requests[k].status
<1>1. CASE Admit(k)
  <2> DEFINE late == requests[k].late \ {requests[k].conversation}
  <2>1. /\ requests' = [requests EXCEPT ![k] =
                          [requests[k] EXCEPT !.status = "admitted", !.late = late]]
        /\ requests[k].status = "out"
    BY <1>1 DEF Admit
  <2>2. late \in SUBSET Conversations
    BY PageFacts DEF TypeOK
  <2> HIDE DEF late
  <2>3. /\ requests'[k].status = "admitted" /\ requests'[k].late = late
        /\ requests'[k].again = requests[k].again
        /\ \A j \in Keys : requests'[j].conversation = requests[j].conversation
        /\ \A j \in Keys \ {k} : requests'[j] = requests[j]
    BY <2>1, <2>2, RequestChanges, PageFacts DEF Statuses
  <2>4. ~AnswerBusy(k) /\ (AdmitLate(k) => requests'[k].status = requests[k].status)
    <3>1. AnswerBusy(k) \/ AdmitLate(k) => requests'[k].status \in {"busy", "out"}
      <4>1. CASE AnswerBusy(k)
        BY <4>1, RequestMoves, PageFacts DEF AnswerBusy, Statuses
      <4>2. CASE AdmitLate(k)
        <5>1. PICK c : requests' = [requests EXCEPT ![k].late = @ \ {c}]
          BY <4>2 DEF AdmitLate
        <5> QED
          BY <2>1, <5>1, LateIsAdmitted, PageFacts
      <4> QED
        BY <4>1, <4>2
    <3> QED
      BY <2>3, <3>1
  <2> QED
    BY <2>3, <2>4 DEF late
<1>2. CASE AnswerBusy(k) /\ ~Admit(k)
  <2>1. /\ requests' = [requests EXCEPT ![k].status = "busy"]
        /\ requests[k].status = "out"
    BY <1>2 DEF AnswerBusy
  <2>2. /\ requests'[k].status = "busy" /\ requests'[k].late = requests[k].late
        /\ requests'[k].again = requests[k].again
        /\ \A j \in Keys : requests'[j].conversation = requests[j].conversation
        /\ \A j \in Keys \ {k} : requests'[j] = requests[j]
    BY <2>1, RequestMoves, PageFacts DEF Statuses
  <2>3. AdmitLate(k) => requests'[k].status = requests[k].status
    <3> SUFFICES ASSUME AdmitLate(k) PROVE requests'[k].status = requests[k].status
      OBVIOUS
    <3>1. PICK c : requests' = [requests EXCEPT ![k].late = @ \ {c}]
      BY DEF AdmitLate
    <3> QED
      BY <3>1, LateIsAdmitted, PageFacts
  <2> QED
    BY <1>2, <2>2, <2>3
<1>3. CASE AdmitLate(k) /\ ~Admit(k) /\ ~AnswerBusy(k)
  <2>1. PICK c : requests' = [requests EXCEPT ![k].late = @ \ {c}]
    BY <1>3 DEF AdmitLate
  <2> QED
    BY <1>3, <2>1, LateIsAdmitted, PageFacts
<1>4. QED
  BY <1>1, <1>2, <1>3

LEMMA StepsMove ==
  ASSUME PageInv, FoldedInv, Next
  PROVE  Moves
<1>1. CASE Rests
  BY <1>1 DEF Rests, Moves, Stays, View, HistoryKept, serviceVars
<1>2. CASE Leaves
  BY <1>2 DEF Leaves, Moves, Resets, HistoryKept, serviceVars
<1>17. CASE Misleads
  BY <1>17 DEF Misleads, Cleared, Clears, Moves, HistoryKept, flightVars, serviceVars
<1>3. CASE Send
  <2>1. requests' = Ask(history.sends + 1, FALSE) /\ history.sends + 1 \in Keys
    BY <1>3 DEF Send
  <2>2. \A k \in Keys :
          /\ requests'[k].conversation \in {requests[k].conversation, 1, visitor}
          /\ requests'[k].late = requests[k].late
    BY <2>1, SendIsAsked, PageFacts
  <2> QED
    BY <1>3, <2>2, SendEffect DEF Send, Moves, Carries, View, serviceVars
<1>4. CASE RetrySend
  <2>1. \A k \in Keys :
          /\ requests'[k].conversation \in {requests[k].conversation, 1, visitor}
          /\ requests'[k].late = requests[k].late
    BY <1>4, RetrySendEffect, SendIsAsked, PageFacts
  <2> QED
    BY <1>4, <2>1, RetrySendEffect DEF RetrySend, Moves, Carries, View, serviceVars
<1>5. CASE DiscardSend
  BY <1>5, DiscardSendEffect
     DEF DiscardSend, Moves, Carries, View, HistoryKept, flightVars, serviceVars
<1>6. ASSUME NEW k \in Keys, SendAdmitted(k) PROVE Moves
  <2> DEFINE c == requests[k].conversation
             bound == [page EXCEPT !.conversationId = c, !.admitted = k, !.pending = NoSend]
  <2>1. bound.mode = page.mode
    BY PageFacts DEF Pages
  <2>2. page'.mode = bound.mode
    BY <1>6, SendAdmittedEffect DEF Recovers, Carries, View
  <2> HIDE DEF bound
  <2> QED
    BY <1>6, <2>1, <2>2, SendAdmittedEffect DEF SendAdmitted, Moves, serviceVars
<1>7. ASSUME NEW k \in Keys, SendBusy(k) PROVE Moves
  BY <1>7, SendBusyEffect DEF SendBusy, Moves, Carries, View, serviceVars
<1>8. ASSUME NEW k \in Keys, NEW e, SendUncertain(k, e) \/ SendRefused(k, e) PROVE Moves
  <2>1. \A j \in Keys :
          /\ requests'[j].conversation = requests[j].conversation
          /\ requests'[j].late \subseteq requests[j].late \cup {requests[j].conversation}
    BY <1>8, SendUncertainEffect, SendRefusedEffect
  <2>2. page'.mode = page.mode /\ HistoryKept
    BY <1>8, SendUncertainEffect, SendRefusedEffect DEF Carries, View, Resets
  <2>3. UNCHANGED <<authority, visitor>>
    BY <1>8 DEF SendUncertain, SendRefused, serviceVars
  <2> QED
    BY <2>1, <2>2, <2>3 DEF Moves, HistoryKept
<1>10. CASE ClaimRefreshed
  BY <1>10, ClaimRefreshedEffect DEF ClaimRefreshed, Moves, Carries, View, serviceVars
<1>11. ASSUME NEW c \in Conversations, WindowRead(c) PROVE Moves
  <2>1. page'.mode = page.mode
    <3> DEFINE read == page.boots[c]
               reducer == [conversation |-> c, from |-> read.at, at |-> read.at]
               seeded == [page EXCEPT !.claim = read.active, !.reducer = reducer]
    <3>1. seeded.mode = page.mode
      BY PageFacts DEF Pages
    <3>2. Recovers(page, page') \/ Recovers(seeded, page')
      BY <1>11, WindowReadEffect
    <3> HIDE DEF seeded
    <3> QED
      BY <3>1, <3>2 DEF Recovers, Carries, View
  <2> QED
    BY <1>11, <2>1 DEF WindowRead, Moves, flightVars, serviceVars
<1>12. ASSUME NEW r \in page.readers, ReceiveFrame(r) PROVE Moves
  <2>1. page'.mode = page.mode
    <3> DEFINE reducer == [page.reducer EXCEPT !.at = page.reducer.at + 1]
               folded == [page EXCEPT !.reducer = reducer]
    <3>1. folded.mode = page.mode
      BY PageFacts DEF Pages
    <3>2. Carries(folded, page')
      BY <1>12, ReceiveFrameEffect
    <3> HIDE DEF folded
    <3> QED
      BY <3>1, <3>2 DEF Carries, View
  <2> QED
    BY <1>12, <2>1 DEF ReceiveFrame, Moves, flightVars, serviceVars
<1>13. ASSUME NEW c \in Conversations \cup {None}, Authorized(c) PROVE Moves
  BY <1>13, AuthorizedEffect DEF Moves, flightVars
<1>14. CASE StartedOver
  <2>1. page.mode = "anonymous"
    BY <1>14 DEF StartedOver, PageInv, Bookkeeping
  <2> QED
    BY <1>14, <2>1, StartedOverEffect DEF Moves, flightVars
<1>15. CASE Service
  <2>1. page'.mode = page.mode
    BY <1>15, PageFacts DEF Service, Admit, AnswerBusy, AdmitLate, OtherTurnStarts, TurnEnds, Delete,
       ReadWindow, ReadClaim, Pages
  <2>2. /\ history'.latest = history.latest /\ history'.crossed = history.crossed
        /\ history'.misled = history.misled
    BY <1>15, PageFacts DEF Service, Admit, AnswerBusy, AdmitLate, OtherTurnStarts, TurnEnds, Delete,
       ReadWindow, ReadClaim, Histories
  <2>3. \A k \in Keys : /\ requests'[k].conversation = requests[k].conversation
                        /\ requests'[k].late \subseteq requests[k].late
    <3>1. ASSUME NEW k \in Keys, Admit(k) \/ AnswerBusy(k) \/ AdmitLate(k)
          PROVE  \A j \in Keys : /\ requests'[j].conversation = requests[j].conversation
                                 /\ requests'[j].late \subseteq requests[j].late
      BY <3>1, RequestIsServed
    <3> QED
      BY <1>15, <3>1 DEF Service, OtherTurnStarts, TurnEnds, Delete, ReadWindow, ReadClaim,
         flightVars
  <2>4. visitor' = visitor /\ authority' = authority
    BY <1>15 DEF Service, Admit, AnswerBusy, AdmitLate, OtherTurnStarts, TurnEnds, Delete, ReadWindow,
       ReadClaim, serviceVars
  <2> QED
    BY <2>1, <2>2, <2>3, <2>4 DEF Moves
<1>16. QED
  BY <1>1, <1>2, <1>3, <1>4, <1>5, <1>6, <1>7, <1>8, <1>10, <1>11, <1>12, <1>13,
     <1>14, <1>15, <1>17, StepsAreOfKinds DEF Kinds

(* What a request is answered with, the service has decided.               *)
AnswersMove ==
  /\ \/ refresh' = refresh \/ refresh'.status = "none" \/ ReadClaim
     \/ refresh'.status = "out" /\ refresh'.conversation # None
  /\ \A k \in Keys : requests'[k].status \in {"admitted", "done"} =>
       \/ /\ requests[k].status \in {"admitted", "done"}
          /\ requests'[k].conversation = requests[k].conversation
       \/ Admit(k)
  /\ gone' = gone \/ \E c \in Conversations : Delete(c)

(* What is written to a log, and when.                                     *)
LogMoves ==
  \/ UNCHANGED log
  \/ \E k \in Keys : LET c == requests[k].conversation
                     IN Admit(k) /\ ~Started(k, c) /\ c \notin gone /\ ActiveIn(c) = {}
                          /\ Record(c, k, FALSE)
  \/ \E k \in Keys : \E c \in requests[k].late :
       AdmitLate(k) /\ c \notin gone /\ ActiveIn(c) = {} /\ ~Started(k, c)
         /\ Record(c, k, FALSE) /\ requests'[k].late = requests[k].late \ {c}
  \/ \E c \in Conversations : OtherTurnStarts(c) \/ TurnEnds(c)

LEMMA StepsAnswer ==
  ASSUME PageInv, FoldedInv, Next
  PROVE  AnswersMove /\ LogMoves
<1>1. CASE Rests
  BY <1>1 DEF Rests, AnswersMove, LogMoves, serviceVars
<1>2. CASE Leaves
  BY <1>2 DEF Leaves, AnswersMove, LogMoves, serviceVars
<1>13. CASE Misleads
  BY <1>13 DEF Misleads, AnswersMove, LogMoves, flightVars, serviceVars
<1>3. CASE Send
  <2>1. requests' = Ask(history.sends + 1, FALSE) /\ history.sends + 1 \in Keys
    BY <1>3 DEF Send
  <2>2. \A k \in Keys : requests'[k].status \in {"admitted", "done"}
          => requests'[k] = requests[k]
    BY <2>1, SendIsAsked, PageFacts
  <2> QED
    BY <1>3, <2>2 DEF Send, AnswersMove, LogMoves, serviceVars
<1>4. CASE RetrySend
  <2>1. \A k \in Keys : requests'[k].status \in {"admitted", "done"}
          => requests'[k] = requests[k]
    BY <1>4, RetrySendEffect, SendIsAsked, PageFacts
  <2> QED
    BY <1>4, <2>1 DEF RetrySend, AnswersMove, LogMoves, serviceVars
<1>5. CASE DiscardSend
  BY <1>5 DEF DiscardSend, AnswersMove, LogMoves, flightVars, serviceVars
<1>6. ASSUME NEW k \in Keys, SendAdmitted(k) PROVE AnswersMove /\ LogMoves
  <2>1. \A j \in Keys : requests'[j].status \in {"admitted", "done"} =>
          /\ requests[j].status \in {"admitted", "done"}
          /\ requests'[j].conversation = requests[j].conversation
    BY <1>6, SendAdmittedEffect DEF SendAdmitted
  <2> QED
    BY <1>6, <2>1 DEF SendAdmitted, AnswersMove, LogMoves, serviceVars
<1>7. ASSUME NEW k \in Keys, SendBusy(k) PROVE AnswersMove /\ LogMoves
  <2>1. /\ \A j \in Keys : requests'[j].status \in {"admitted", "done"}
             => requests'[j] = requests[j]
        /\ \/ refresh'.status = "none"
           \/ refresh'.status = "out" /\ refresh'.conversation # None
    BY <1>7, SendBusyEffect, PageFacts DEF Refreshes
  <2> QED
    BY <1>7, <2>1 DEF SendBusy, AnswersMove, LogMoves, serviceVars
<1>8. ASSUME NEW k \in Keys, NEW e, SendUncertain(k, e) \/ SendRefused(k, e)
      PROVE  AnswersMove /\ LogMoves
  <2>1. \A j \in Keys : requests'[j].status \in {"admitted", "done"}
          => requests'[j] = requests[j]
    BY <1>8, SendUncertainEffect, SendRefusedEffect
  <2> QED
    BY <1>8, <2>1 DEF SendUncertain, SendRefused, AnswersMove, LogMoves, serviceVars
<1>9. CASE ClaimRefreshed
  BY <1>9 DEF ClaimRefreshed, NoRefresh, AnswersMove, LogMoves, serviceVars
<1>10. CASE \/ \E c \in Conversations : WindowRead(c)
            \/ \E r \in page.readers : ReceiveFrame(r)
            \/ \E c \in Conversations \cup {None} : Authorized(c)
            \/ StartedOver
  BY <1>10 DEF WindowRead, ReceiveFrame, Authorized, StartedOver, AnswersMove, LogMoves,
     flightVars, serviceVars
<1>11. CASE Service
  <2>1. ASSUME NEW k \in Keys, Admit(k) PROVE AnswersMove /\ LogMoves
    <3>1. \A j \in Keys \ {k} : requests'[j] = requests[j]
      BY <2>1, RequestIsServed
    <3> QED
      BY <2>1, <3>1 DEF Admit, AnswersMove, LogMoves
  <2>2. ASSUME NEW k \in Keys, AnswerBusy(k) PROVE AnswersMove /\ LogMoves
    <3>1. requests'[k].status = "busy" /\ \A j \in Keys \ {k} : requests'[j] = requests[j]
      BY <2>2, RequestIsServed
    <3> QED
      BY <2>2, <3>1 DEF AnswerBusy, AnswersMove, LogMoves, serviceVars
  <2>6. ASSUME NEW k \in Keys, AdmitLate(k) PROVE AnswersMove /\ LogMoves
    <3>1. /\ \A j \in Keys : /\ requests'[j].status = requests[j].status
                             /\ requests'[j].conversation = requests[j].conversation
      BY <2>6, RequestIsServed
    <3>2. PICK c \in requests[k].late :
            /\ c \notin gone /\ ActiveIn(c) = {} /\ ~Started(k, c) /\ Record(c, k, FALSE)
            /\ requests' = [requests EXCEPT ![k].late = @ \ {c}]
      BY <2>6 DEF AdmitLate
    <3>3. requests'[k].late = requests[k].late \ {c}
      BY <3>2, LateIsAdmitted, PageFacts
    <3>4. LogMoves
      BY <2>6, <3>2, <3>3 DEF LogMoves
    <3> QED
      BY <2>6, <3>1, <3>4 DEF AdmitLate, AnswersMove
  <2>3. CASE ReadClaim
    BY <2>3 DEF ReadClaim, AnswersMove, LogMoves, serviceVars
  <2>4. CASE \E c \in Conversations : OtherTurnStarts(c) \/ TurnEnds(c)
    BY <2>4 DEF OtherTurnStarts, TurnEnds, AnswersMove, LogMoves, flightVars
  <2>5. CASE \E c \in Conversations : Delete(c) \/ ReadWindow(c)
    BY <2>5 DEF Delete, ReadWindow, AnswersMove, LogMoves, flightVars, serviceVars
  <2> QED
    BY <1>11, <2>1, <2>2, <2>3, <2>4, <2>5, <2>6 DEF Service
<1>12. QED
  BY <1>1, <1>2, <1>3, <1>4, <1>5, <1>6, <1>7, <1>8, <1>9, <1>10, <1>11, <1>13, StepsAreOfKinds
     DEF Kinds

(* Every visitor that anything belongs to has been here ...                *)
Visited ==
  /\ \A c \in Conversations : Len(log[c]) # 0 => c <= history.latest
  /\ \A k \in Keys : requests[k].conversation <= history.latest
  /\ \A k \in Keys : \A c \in requests[k].late : c <= history.latest
  /\ visitor <= history.latest /\ authority.of <= history.latest
  /\ page.mode = "host" => history.latest = 1

(* ... no Conversation was deleted under its Turn, and what the service    *)
(* has answered was so when it answered.                                   *)
Answered ==
  /\ \A c \in gone : ActiveIn(c) = {}
  /\ \A c \in Conversations :
       page.boots[c].status = "read" /\ page.boots[c].active # None
         => Started(page.boots[c].active, c)
  /\ refresh.status # "none" => refresh.conversation # None
  /\ refresh.status = "read" /\ refresh.active # None
       => Started(refresh.active, refresh.conversation)
  /\ \A k \in Keys : requests[k].status \in {"admitted", "done"}
                       => Started(k, requests[k].conversation)

TurnsInv == Visited /\ Answered

LEMMA InitTurns == Init => TurnsInv
<1> SUFFICES ASSUME Init PROVE TurnsInv
  OBVIOUS
<1>1. log = [c \in Conversations |-> <<>>]
  BY DEF Init
<1>2. \A c \in Conversations : Len(log[c]) = 0
  BY <1>1
<1>6. \A k \in Keys : /\ requests[k].status = "none" /\ requests[k].conversation = None
                      /\ requests[k].late = {}
  BY DEF Init
<1>3. Visited
  BY <1>2, <1>6, Numbers DEF Init, Visited, None
<1>4. Answered
  BY <1>6, NothingTyped DEF Init, Answered, NoRefresh
<1>5. QED
  BY <1>3, <1>4 DEF TurnsInv

(* A Turn that has started or ended now has been recorded now, or before.  *)
LEMMA TurnsWere ==
  ASSUME TypeOK, TypeOK', LogGrows, NEW c, NEW t, NEW over, Recorded(c, t, over)
  PROVE  /\ \A s : \A d \in Conversations : Started(s, d)' => Started(s, d) \/ (s = t /\ d = c)
         /\ \A s : Ended(s)' => Ended(s) \/ (s = t /\ over)
<1>1. \A d \in Conversations : \A i \in DOMAIN log'[d] :
        \/ i \in DOMAIN log[d] /\ log'[d][i] = log[d][i]
        \/ d = c /\ log'[d][i] = [turn |-> t, over |-> over]
  <2>1. ASSUME NEW d \in Conversations, NEW i \in DOMAIN log'[d]
        PROVE  \/ i \in DOMAIN log[d] /\ log'[d][i] = log[d][i]
               \/ d = c /\ log'[d][i] = [turn |-> t, over |-> over]
    <3>1. i \in 1 .. Len(log'[d])
      BY LogsStaySequences
    <3>2. CASE i \in 1 .. Len(log[d])
      BY <3>2, LogsAreSequences DEF LogGrows
    <3> QED
      BY <3>1, <3>2 DEF Recorded
  <2> QED
    BY <2>1
<1>2. QED
  BY <1>1 DEF Started, Ended

(* A log is written by a start, which finds no Turn active, or by an end.  *)
StartsIn(c, t) ==
  /\ Recorded(c, t, FALSE)
  /\ \/ /\ c \notin gone /\ ActiveIn(c) = {}
        /\ \E k \in Keys : /\ t = k /\ c = requests[k].conversation /\ Admit(k)
                          /\ ~Started(k, c)
     \/ /\ c \notin gone /\ ActiveIn(c) = {}
        /\ \E k \in Keys : /\ t = k /\ c \in requests[k].late /\ AdmitLate(k)
                          /\ requests'[k].late = requests[k].late \ {c}
                          /\ ~Started(k, c)
     \/ OtherTurnStarts(c) /\ t \notin Keys

EndsIn(c, t) == Recorded(c, t, TRUE) /\ TurnEnds(c) /\ t \in ActiveIn(c) /\ Ended(t)'

Written(c, t) ==
  /\ LogGrows /\ Started(t, c)'
  /\ \A d \in Conversations \ {c} : log'[d] = log[d]

LEMMA LogIsWritten ==
  ASSUME PageInv, PageInv', LogMoves, ~UNCHANGED log
  PROVE  \E c \in Conversations, t \in Turns :
           Written(c, t) /\ (StartsIn(c, t) \/ EndsIn(c, t))
<1>1. TypeOK /\ TypeOK'
  BY DEF PageInv
<1>2. ASSUME NEW c \in Conversations, NEW t \in Turns, Record(c, t, FALSE)
      PROVE  Recorded(c, t, FALSE) /\ Written(c, t)
  BY <1>1, <1>2, LogIsRecorded, LogIsTyped DEF Written
<1>3. ASSUME NEW k \in Keys, Admit(k), ~Started(k, requests[k].conversation),
             requests[k].conversation \notin gone, ActiveIn(requests[k].conversation) = {},
             Record(requests[k].conversation, k, FALSE)
      PROVE  \E c \in Conversations, t \in Turns : Written(c, t) /\ StartsIn(c, t)
  <2>1. PICK c \in Conversations : c = requests[k].conversation
    BY <1>3, PageFacts DEF Admit, PageInv, Bookkeeping, Requests
  <2>2. Record(c, k, FALSE) /\ k \in Turns
    BY <1>3, <2>1, Numbers
  <2>3. Recorded(c, k, FALSE) /\ Written(c, k)
    BY <1>2, <2>2
  <2>4. StartsIn(c, k)
    BY <1>3, <2>1, <2>3 DEF StartsIn
  <2> QED
    BY <2>2, <2>3, <2>4
<1>4. ASSUME NEW c \in Conversations, OtherTurnStarts(c)
      PROVE  \E t \in Turns : Written(c, t) /\ StartsIn(c, t)
  <2>1. history.others < MaxOthers /\ history.others \in Nat
    BY <1>4, PageFacts DEF OtherTurnStarts, Histories
  <2>2. PICK t \in Turns : t = MaxSends + history.others + 1 /\ t \notin Keys
    BY <2>1, BoundsAssumption DEF Turns, Keys
  <2>3. Record(c, t, FALSE)
    BY <1>4, <2>2 DEF OtherTurnStarts
  <2>4. Recorded(c, t, FALSE) /\ Written(c, t)
    BY <1>2, <2>2, <2>3
  <2> QED
    BY <1>4, <2>2, <2>4 DEF StartsIn
<1>5. ASSUME NEW c \in Conversations, TurnEnds(c)
      PROVE  \E t \in Turns : Written(c, t) /\ EndsIn(c, t)
  <2>1. PICK t \in Turns : t \in ActiveIn(c) /\ Record(c, t, TRUE)
    BY <1>5, ActiveIsTurn DEF TurnEnds
  <2>2. Recorded(c, t, TRUE) /\ Written(c, t) /\ Ended(t)'
    BY <1>1, <2>1, LogIsRecorded, LogIsTyped DEF Written
  <2> QED
    BY <1>5, <2>1, <2>2 DEF EndsIn
<1>7. ASSUME NEW k \in Keys, NEW c \in requests[k].late, AdmitLate(k), c \notin gone,
             ActiveIn(c) = {}, ~Started(k, c), Record(c, k, FALSE),
             requests'[k].late = requests[k].late \ {c}
      PROVE  \E d \in Conversations, t \in Turns : Written(d, t) /\ StartsIn(d, t)
  <2>1. c \in Conversations /\ k \in Turns
    BY PageFacts, Numbers DEF Requests
  <2>2. Recorded(c, k, FALSE) /\ Written(c, k)
    BY <1>2, <1>7, <2>1
  <2>3. StartsIn(c, k)
    BY <1>7, <2>2 DEF StartsIn
  <2> QED
    BY <2>1, <2>2, <2>3
<1>6. QED
  BY <1>3, <1>4, <1>5, <1>7 DEF LogMoves

LEMMA VisitedIsKept ==
  ASSUME PageInv, PageInv', Visited, Moves, LogMoves
  PROVE  Visited'
<1>1. /\ history.latest \in Nat /\ history'.latest \in Nat
      /\ history.latest <= history'.latest
      /\ 1 \in Nat /\ 1 <= history'.latest
      /\ visitor \in Nat /\ authority.of \in Nat
      /\ \A k \in Keys : requests[k].conversation \in Nat /\ requests[k].late \subseteq Nat
  <2>1. history.latest \in Conversations /\ history'.latest \in Conversations
    BY DEF PageInv, TypeOK
  <2>2. \A k \in Keys : /\ requests[k].conversation \in Conversations \cup {None}
                        /\ requests[k].late \subseteq Conversations
    BY PageFacts DEF Requests
  <2> QED
    BY <2>1, <2>2, PageFacts, Numbers DEF Moves, Authorities, Conversations, None
<1>2. \A k \in Keys : requests'[k].conversation <= history'.latest
  BY <1>1 DEF Moves, Visited
<1>3. visitor' <= history'.latest /\ authority'.of <= history'.latest
  BY <1>1 DEF Moves, Visited
<1>4. page'.mode = "host" => history'.latest = 1
  BY DEF Moves, Visited
<1>5. ASSUME NEW c \in Conversations, Len(log'[c]) # 0 PROVE c <= history'.latest
  <2>1. c \in Nat
    BY Numbers
  <2>2. CASE UNCHANGED log
    BY <1>1, <1>5, <2>1, <2>2 DEF Visited
  <2>3. CASE ~UNCHANGED log
    <3>1. PICK d \in Conversations, t \in Turns :
            Written(d, t) /\ (StartsIn(d, t) \/ EndsIn(d, t))
      BY <2>3, LogIsWritten
    <3>2. CASE c # d
      <4>1. log'[c] = log[c]
        BY <3>1, <3>2 DEF Written
      <4> QED
        BY <1>1, <1>5, <2>1, <4>1 DEF Visited
    <3>3. CASE c = d /\ EndsIn(d, t)
      <4>1. Started(t, c)
        BY <3>3 DEF EndsIn, ActiveIn
      <4>2. Len(log[c]) # 0
        BY <4>1, LogsAreSequences DEF PageInv, Started
      <4> QED
        BY <1>1, <2>1, <4>2 DEF Visited
    <3>4. CASE c = d /\ StartsIn(d, t)
      <4>1. d <= history.latest
        BY <3>4 DEF StartsIn, Visited, OtherTurnStarts
      <4> QED
        BY <1>1, <2>1, <3>4, <4>1
    <3> QED
      BY <3>1, <3>2, <3>3, <3>4
  <2> QED
    BY <2>2, <2>3
<1>6. \A k \in Keys : \A c \in requests'[k].late : c <= history'.latest
  <2>1. ASSUME NEW k \in Keys, NEW c \in requests'[k].late PROVE c <= history'.latest
    <3>1. c \in requests[k].late \/ c = requests[k].conversation
      BY DEF Moves
    <3>2. c \in Nat /\ c <= history.latest
      BY <1>1, <3>1 DEF Visited
    <3> QED
      BY <1>1, <3>2
  <2> QED
    BY <2>1
<1>7. QED
  BY <1>2, <1>3, <1>4, <1>5, <1>6 DEF Visited

(* No Turn comes to life where none was, but where one starts.             *)
LEMMA ActivesWere ==
  ASSUME PageInv, PageInv', LogMoves, NEW d \in Conversations
  PROVE  \A s \in Turns : s \in ActiveIn(d)' =>
           \/ s \in ActiveIn(d)
           \/ Written(d, s) /\ StartsIn(d, s)
<1>1. TypeOK /\ TypeOK'
  BY DEF PageInv
<1>2. CASE UNCHANGED log
  BY <1>2 DEF ActiveIn, Started, Ended
<1>3. CASE ~UNCHANGED log
  <2>1. PICK c \in Conversations, t \in Turns :
          Written(c, t) /\ (StartsIn(c, t) \/ EndsIn(c, t))
    BY <1>3, LogIsWritten
  <2>2. \A s : Ended(s) => Ended(s)'
    BY <1>1, <2>1, TurnsStay DEF Written
  <2>3. CASE StartsIn(c, t)
    <3>1. \A s : Started(s, d)' => Started(s, d) \/ (s = t /\ d = c)
      BY <1>1, <2>1, <2>3, TurnsWere DEF Written, StartsIn
    <3> QED
      BY <2>1, <2>2, <2>3, <3>1 DEF ActiveIn
  <2>4. CASE EndsIn(c, t)
    <3>1. \A s : Started(s, d)' => Started(s, d) \/ (s = t /\ d = c)
      BY <1>1, <2>1, <2>4, TurnsWere DEF Written, EndsIn
    <3> QED
      BY <2>2, <2>4, <3>1 DEF ActiveIn, EndsIn
  <2> QED
    BY <2>1, <2>3, <2>4
<1>4. QED
  BY <1>2, <1>3

LEMMA AnsweredIsKept ==
  ASSUME PageInv, PageInv', Answered, AnswersMove, LogMoves, BootsMove, LogGrows
  PROVE  Answered'
<1>1. TypeOK /\ TypeOK'
  BY DEF PageInv
<1>2. \A t, c : c \in Conversations /\ Started(t, c) => Started(t, c)'
  BY <1>1, TurnsStay
<1>3. ASSUME NEW c \in gone' PROVE ActiveIn(c)' = {}
  <2>1. c \in Conversations
    BY DEF PageInv, TypeOK
  <2>2. CASE c \in gone
    <3>1. ActiveIn(c) = {}
      BY <2>2 DEF Answered
    <3>2. \A s \in Turns : ~StartsIn(c, s)
      BY <2>2 DEF StartsIn, OtherTurnStarts
    <3>3. \A s \in Turns : s \notin ActiveIn(c)'
      BY <2>1, <3>1, <3>2, ActivesWere
    <3> QED
      BY <3>3 DEF ActiveIn
  <2>3. CASE c \notin gone
    <3>1. PICK d \in Conversations : Delete(d)
      BY <1>3, <2>3 DEF AnswersMove
    <3>2. c = d /\ ActiveIn(d) = {} /\ UNCHANGED log
      BY <1>3, <2>3, <3>1 DEF Delete
    <3> QED
      BY <3>2 DEF ActiveIn, Started, Ended
  <2> QED
    BY <2>2, <2>3
<1>4. ASSUME NEW c \in Conversations, page'.boots[c].status = "read",
             page'.boots[c].active # None
      PROVE  Started(page.boots[c].active, c)' 
  <2>1. CASE page'.boots[c] = page.boots[c]
    <3>1. PICK t : t = page'.boots[c].active
      OBVIOUS
    <3>2. Started(t, c)
      BY <1>4, <2>1, <3>1 DEF Answered
    <3>3. Started(t, c)'
      BY <1>2, <3>2
    <3> QED
      BY <3>1, <3>3 DEF Started
  <2>2. CASE page'.boots[c] # page.boots[c]
    <3>1. PICK d \in Conversations : ReadWindow(d)
      BY <1>4, <2>2 DEF BootsMove
    <3> DEFINE read == [status |-> "read", at |-> Len(log[d]), active |-> TheActive(d)]
               boots == [page.boots EXCEPT ![d] = read]
    <3>2. page' = [page EXCEPT !.boots = boots] /\ UNCHANGED log
      BY <3>1 DEF ReadWindow, serviceVars
    <3>3. /\ \A b \in Conversations \ {d} : boots[b] = page.boots[b]
          /\ boots[d].active = TheActive(d)
      BY PageFacts DEF Pages
    <3> HIDE DEF boots
    <3>4. page'.boots = boots
      BY <3>2, PageFacts DEF Pages
    <3>5. c = d /\ page'.boots[c].active = TheActive(c)
      BY <2>2, <3>3, <3>4
    <3>6. Started(TheActive(c), c)
      BY <1>4, <3>5, ActiveIsTurn DEF ActiveIn
    <3> QED
      BY <3>2, <3>5, <3>6 DEF Started
  <2> QED
    BY <2>1, <2>2
<1>5. ASSUME refresh'.status = "read", refresh'.active # None
      PROVE  Started(refresh.active, refresh.conversation)'
  <2>1. CASE refresh' = refresh
    <3>1. PICK s, c : s = refresh.active /\ c = refresh.conversation
      OBVIOUS
    <3>2. c \in Conversations
      BY <1>5, <2>1, <3>1, PageFacts DEF Answered, Refreshes
    <3>3. Started(s, c)
      BY <1>5, <2>1, <3>1 DEF Answered
    <3>4. Started(s, c)'
      BY <1>2, <3>2, <3>3
    <3> QED
      BY <2>1, <3>1, <3>4 DEF Started
  <2>3. CASE refresh' # refresh
    <3>1. ReadClaim
      BY <1>5, <2>3 DEF AnswersMove
    <3>2. /\ refresh'.active = TheActive(refresh.conversation)
          /\ refresh'.conversation = refresh.conversation /\ UNCHANGED log
      BY <3>1, PageFacts DEF ReadClaim, serviceVars, Refreshes
    <3>3. Started(TheActive(refresh.conversation), refresh.conversation)
      BY <1>5, <3>2, ActiveIsTurn DEF ActiveIn
    <3> QED
      BY <3>2, <3>3 DEF Started
  <2> QED
    BY <2>1, <2>3
<1>6. ASSUME NEW k \in Keys, requests'[k].status \in {"admitted", "done"}
      PROVE  Started(k, requests[k].conversation)'
  <2>1. PICK c : c = requests[k].conversation
    OBVIOUS
  <2>2. requests'[k].conversation = c /\ c \in Conversations
    <3>1. requests'[k].conversation = c
      BY <1>6, <2>1, RequestIsServed DEF AnswersMove
    <3> QED
      BY <1>6, <2>1, <3>1, SMTT(30) DEF PageInv, Bookkeeping, TypeOK
  <2>3. CASE requests[k].status \in {"admitted", "done"}
    BY <1>2, <2>1, <2>2, <2>3 DEF Answered
  <2>4. CASE Started(k, c)
    BY <1>2, <2>2, <2>4
  <2>5. CASE Admit(k) /\ ~Started(k, c)
    <3>1. Record(c, k, FALSE) /\ k \in Turns
      BY <2>1, <2>5, Numbers DEF Admit
    <3>2. Started(k, c)'
      BY <1>1, <2>2, <3>1, LogIsRecorded
    <3> QED
      BY <2>2, <3>2
  <2>6. requests[k].status \in {"admitted", "done"} \/ Admit(k)
    BY <1>6 DEF AnswersMove
  <2>7. Started(k, c)' => Started(k, requests[k].conversation)'
    BY <2>2 DEF Started
  <2> QED
    BY <2>3, <2>4, <2>5, <2>6, <2>7
<1>7. refresh'.status # "none" => refresh'.conversation # None
  BY PageFacts DEF Answered, AnswersMove, ReadClaim, Refreshes
<1>8. QED
  BY <1>3, <1>4, <1>5, <1>6, <1>7 DEF Answered

-----------------------------------------------------------------------------
(* A page and its visitor.                                                 *)

(* What page p shows, reads and claims belongs to the visitor.             *)
Shown(p) ==
  /\ p.conversationId \in {None, visitor}
  /\ \A r \in p.readers : r.conversation = p.conversationId
  /\ p.reducer = NoReducer \/ p.reducer.conversation = p.conversationId
  /\ \A c \in Conversations : p.boots[c].status # "none" => c = visitor /\ p.reducer = NoReducer
  /\ \A t \in {p.admitted, p.claim} \ {None} : Started(t, visitor)

(* Nothing happens on an anonymous page before it is authorized.           *)
Waiting ==
  /\ page.mode = "anonymous" /\ page.conversationId = None
  /\ page.authorization \in {"authorizing", "lost"}
  /\ RequestsOut = {} /\ page.pending = NoSend

(* What is asked for is asked for the visitor.                             *)
Asked ==
  /\ visitor = history.latest
  /\ authority.exchange # "none" => authority.of = visitor
  /\ \A k \in RequestsOut : requests[k].conversation = visitor
  /\ page.pending.key # None => requests[page.pending.key].conversation = visitor
  /\ refresh.status # "none" => refresh.conversation = visitor

SameVisitor ==
  ~history.crossed => Shown(page) /\ Asked /\ (authority.exchange = "init" => Waiting)

LEMMA InitSameVisitor == Init => SameVisitor
<1> SUFFICES ASSUME Init PROVE SameVisitor
  OBVIOUS
<1>1. PICK m \in Modes, c \in {None, 1} :
        /\ m = "anonymous" => c = None
        /\ page = [mode |-> m, conversationId |-> c, reducer |-> NoReducer,
            readers |-> {}, claim |-> None, admitted |-> None, pending |-> NoSend,
            interrupting |-> None, interruptionError |-> None,
            authorization |-> IF m = "host" THEN "ready" ELSE "authorizing",
            connection |-> IF c = None THEN "no_conversation" ELSE "connecting",
            bootstrapping |-> c,
            boots |-> [d \in Conversations |->
                         IF d = c THEN [NoRead EXCEPT !.status = "out"] ELSE NoRead],
            startingOver |-> FALSE,
            denied |-> {}, destroyed |-> FALSE]
        /\ authority = [token |-> FALSE, timer |-> FALSE, of |-> 1,
                        exchange |-> IF m = "host" THEN "none" ELSE "init"]
  BY DEF Init
<1>2. m \in {"host", "anonymous"}
  BY ModesAssumption
<1>3. \A k \in Keys : requests[k].status = "none"
  BY DEF Init
<1>4. RequestsOut = {}
  BY <1>3 DEF RequestsOut
<1>5. visitor = 1 /\ history.latest = 1 /\ refresh.status = "none"
  BY DEF Init, NoRefresh
<1>6. \A d \in Conversations : page.boots[d].status # "none" => d = 1
  BY <1>1, Numbers, NothingTyped
<1>7. Shown(page)
  BY <1>1, <1>5, <1>6 DEF Shown
<1>8. Asked
  BY <1>1, <1>4, <1>5, NothingTyped DEF Asked
<1>9. authority.exchange = "init" => Waiting
  BY <1>1, <1>2, <1>4 DEF Waiting
<1>10. QED
  BY <1>7, <1>8, <1>9 DEF SameVisitor

LEMMA ShownStays ==
  ASSUME NEW p, NEW q, Shown(p), View(p, q),
         q.claim \in {p.claim, None}, q.admitted \in {p.admitted, None}
  PROVE  Shown(q)
<1>1. q.conversationId \in {None, visitor}
  BY DEF Shown, View
<1>2. \A r \in q.readers : r.conversation = q.conversationId
  BY DEF Shown, View
<1>3. q.reducer = NoReducer \/ q.reducer.conversation = q.conversationId
  BY DEF Shown, View
<1>4. \A c \in Conversations : q.boots[c].status # "none" => c = visitor /\ q.reducer = NoReducer
  BY <1>1, Numbers DEF Shown, View
<1>5. \A t \in {q.admitted, q.claim} \ {None} : Started(t, visitor)
  BY DEF Shown
<1>6. QED
  BY <1>1, <1>2, <1>3, <1>4, <1>5 DEF Shown

LEMMA ShownGrants ==
  ASSUME NEW p, NEW q, NEW c \in {None, visitor}, Tidy(p), Shown(p), Grants(p, q, c)
  PROVE  Shown(q)
<1>1. q.conversationId \in {None, visitor}
  BY DEF Shown, Grants
<1>2. \A r \in q.readers : r.conversation = q.conversationId
  <2>1. SUFFICES ASSUME NEW r \in q.readers, r.conversation # q.conversationId
                 PROVE  FALSE
    OBVIOUS
  <2>2. PICK s \in p.readers : r.conversation = s.conversation
    BY <2>1 DEF Grants
  <2>3. s.conversation = p.conversationId /\ p.conversationId # None
    BY <2>2 DEF Shown, Tidy
  <2> QED
    BY <2>1, <2>2, <2>3 DEF Grants
<1>3. q.reducer = NoReducer \/ q.reducer.conversation = q.conversationId
  BY DEF Shown, Tidy, Grants
<1>4. \A d \in Conversations : q.boots[d].status # "none" => d = visitor /\ q.reducer = NoReducer
  BY <1>1, Numbers DEF Shown, Grants
<1>5. \A t \in {q.admitted, q.claim} \ {None} : Started(t, visitor)
  BY DEF Shown, Grants
<1>6. QED
  BY <1>1, <1>2, <1>3, <1>4, <1>5 DEF Shown

LEMMA ShownLater ==
  ASSUME PageInv, PageInv', LogGrows, visitor' = visitor, Shown(page')
  PROVE  Shown(page)'
<1>1. \A t : Started(t, visitor) => Started(t, visitor)'
  <2>1. PICK v \in Conversations : v = visitor
    BY PageFacts
  <2>2. \A t : Started(t, v) => Started(t, v)'
    BY <2>1, TurnsStay DEF PageInv
  <2> QED
    BY <2>1, <2>2 DEF Started
<1>2. QED
  BY <1>1 DEF Shown

LEMMA AskedStays ==
  ASSUME PageInv, Shown(page), Asked, visitor' = visitor,
         history'.latest = history.latest, authority' = authority,
         \A k \in Keys : requests'[k].conversation = requests[k].conversation,
         \A k \in Keys : requests'[k] = requests[k]
                           \/ requests'[k].status \in {"done", "failed", "refused"},
         page'.pending.key \in {page.pending.key, None},
         \/ refresh' = refresh \/ refresh'.status = "none"
         \/ page.conversationId # None /\ refresh'.conversation = page.conversationId
  PROVE  Asked'
<1>1. \A k \in Keys : k \in RequestsOut' => k \in RequestsOut
  BY DEF RequestsOut
<1>2. \A k \in RequestsOut' : requests'[k].conversation = visitor
  BY <1>1 DEF RequestsOut, Asked
<1>3. page.pending.key \in Keys \cup {None}
  BY PageFacts DEF Pages
<1>4. page'.pending.key # None => requests'[page'.pending.key].conversation = visitor
  BY <1>3 DEF Asked
<1>5. refresh'.status # "none" => refresh'.conversation = visitor
  BY DEF Asked, Shown
<1>6. QED
  BY <1>2, <1>4, <1>5 DEF Asked

(* The new beginning of a visitor who has started over in silence.         *)
LEMMA StartedOverInSilence ==
  ASSUME PageInv, PageInv', StartedOver, ~history'.crossed
  PROVE  /\ Shown(page)' /\ Asked' /\ authority'.exchange = "none"
<1>1. /\ visitor' = history.latest + 1 /\ history'.latest = visitor'
      /\ page'.reducer = NoReducer /\ page'.claim = None /\ page'.admitted = None
      /\ page'.pending = NoSend /\ Quiet(ReadyAgain)
      /\ authority'.exchange = authority.exchange
      /\ requests' = requests /\ refresh' = refresh
  BY StartedOverEffect DEF flightVars
<1>2. PICK c \in Granted(visitor') :
        /\ page'.conversationId = c /\ page'.readers = {}
        /\ \A d \in Conversations :
             \/ page'.boots[d] = ReadyAgain.boots[d]
             \/ page'.boots[d].status = "none"
             \/ d = c /\ page'.boots[d].status = "out"
  BY StartedOverEffect
<1>3. c \in {None, visitor'}
  BY DEF Granted
<1>4. /\ RequestsOut = {} /\ refresh = NoRefresh /\ authority.exchange = "none"
      /\ \A d \in Conversations : ReadyAgain.boots[d] = NoRead
  BY <1>1 DEF Quiet
<1>5. \A d \in Conversations : page'.boots[d].status # "none" => d = visitor'
  BY <1>2, <1>3, <1>4, Numbers, NothingTyped
<1>6. Shown(page)'
  BY <1>1, <1>2, <1>3, <1>5 DEF Shown
<1>7. RequestsOut' = {}
  BY <1>1, <1>4 DEF RequestsOut
<1>8. Asked'
  BY <1>1, <1>4, <1>7, NothingTyped DEF Asked, NoRefresh
<1>9. QED
  BY <1>1, <1>4, <1>6, <1>8

(* What is the same after a step that stays with the visitor.              *)
Kept == visitor' = visitor /\ Shown(page') /\ Asked' /\ (authority'.exchange = "init" => Waiting')

LEMMA SendsKeepVisitor ==
  ASSUME PageInv, FoldedInv, TurnsInv, Shown(page), Asked, authority.exchange = "init" => Waiting,
         \/ Send \/ RetrySend \/ DiscardSend
         \/ \E k \in Keys : SendAdmitted(k) \/ SendBusy(k)
         \/ \E e \in ErrorKinds, k \in Keys : SendUncertain(k, e) \/ SendRefused(k, e)
  PROVE  Kept
<1>1. page.mode = "host" => visitor = 1
  BY DEF TurnsInv, Visited, Asked
<1>2. CASE Send
  <2>1. /\ Carries(page, page') /\ history.sends + 1 \in Keys
        /\ page'.pending.key = history.sends + 1
        /\ page'.claim = page.claim /\ page'.admitted = page.admitted
        /\ history'.latest = history.latest
    BY <1>2, SendEffect
  <2>2. /\ authority' = authority /\ visitor' = visitor /\ refresh' = refresh
        /\ requests' = Ask(history.sends + 1, FALSE)
        /\ page.authorization \in {"ready", "renewing"}
    BY <1>2 DEF Send, serviceVars, SendEnabled, Allowed, Usable
  <2>3. Shown(page')
    BY <2>1, ShownStays DEF Carries
  <2>4. /\ requests'[history.sends + 1].conversation = visitor
        /\ \A j \in Keys \ {history.sends + 1} : requests'[j] = requests[j]
    BY <1>1, <2>1, <2>2, SendIsAsked, PageFacts
  <2>5. \A j \in RequestsOut' : requests'[j].conversation = visitor
    BY <2>4 DEF RequestsOut, Asked
  <2>6. Asked'
    BY <2>1, <2>2, <2>4, <2>5 DEF Asked
  <2> QED
    BY <2>2, <2>3, <2>6 DEF Kept, Waiting
<1>3. CASE RetrySend
  <2>1. /\ Carries(page, page') /\ page.pending.key \in Keys
        /\ page'.pending.key = page.pending.key
        /\ page'.claim = page.claim /\ page'.admitted = page.admitted
        /\ requests' = Ask(page.pending.key, TRUE)
    BY <1>3, RetrySendEffect
  <2>2. /\ authority' = authority /\ visitor' = visitor /\ refresh' = refresh
        /\ history' = history
        /\ page.authorization \in {"ready", "renewing"}
    BY <1>3 DEF RetrySend, serviceVars, Allowed, Usable
  <2>3. Shown(page')
    BY <2>1, ShownStays DEF Carries
  <2>4. /\ requests'[page.pending.key].conversation = visitor
        /\ \A j \in Keys \ {page.pending.key} : requests'[j] = requests[j]
    BY <1>1, <2>1, <2>2, SendIsAsked, PageFacts
  <2>5. \A j \in RequestsOut' : requests'[j].conversation = visitor
    BY <2>4 DEF RequestsOut, Asked
  <2>6. Asked'
    BY <2>1, <2>2, <2>4, <2>5 DEF Asked
  <2> QED
    BY <2>2, <2>3, <2>6 DEF Kept, Waiting
<1>4. CASE DiscardSend
  <2>1. /\ Carries(page, page') /\ page.pending.status = "uncertain"
        /\ page'.pending = NoSend /\ HistoryKept
        /\ page'.claim = page.claim /\ page'.admitted = page.admitted
    BY <1>4, DiscardSendEffect
  <2>2. /\ authority' = authority /\ visitor' = visitor /\ refresh' = refresh
        /\ requests' = requests
    BY <1>4 DEF DiscardSend, flightVars, serviceVars
  <2>3. Shown(page')
    BY <2>1, ShownStays DEF Carries
  <2>4. Asked'
    BY <2>1, <2>2, NothingTyped, AskedStays DEF HistoryKept
  <2> QED
    BY <2>1, <2>2, <2>3, <2>4, NothingTyped DEF Kept, Waiting
<1>5. ASSUME NEW k \in Keys, SendAdmitted(k) PROVE Kept
  <2> DEFINE c == requests[k].conversation
             bound == [page EXCEPT !.conversationId = c, !.admitted = k, !.pending = NoSend]
  <2>1. /\ requests[k].status = "admitted" /\ authority' = authority
        /\ visitor' = visitor /\ refresh' = refresh /\ history' = history
    BY <1>5 DEF SendAdmitted, serviceVars
  <2>2. k \in RequestsOut /\ c = visitor /\ c \in Conversations /\ Started(k, visitor)
    BY <2>1, PageFacts DEF RequestsOut, Asked, TurnsInv, Answered
  <2>3. /\ bound.conversationId = c /\ bound.admitted = k /\ bound.pending = NoSend
        /\ bound.reducer = page.reducer /\ bound.readers = page.readers
        /\ bound.boots = page.boots /\ bound.claim = page.claim
    BY PageFacts DEF Pages
  <2>4. /\ Recovers(bound, page')
        /\ requests'[k].status = "done"
        /\ \A j \in Keys : requests'[j].conversation = requests[j].conversation
        /\ \A j \in Keys \ {k} : requests'[j] = requests[j]
    BY <1>5, SendAdmittedEffect
  <2> HIDE DEF bound
  <2>5. Shown(bound)
    <3>1. /\ page.readers # {} => page.conversationId = visitor
          /\ page.reducer # NoReducer => page.conversationId = visitor
      BY PageFacts DEF Tidy, Shown
    <3> QED
      BY <2>2, <2>3, <3>1 DEF Shown
  <2>6. Shown(page')
    BY <2>4, <2>5, ShownStays DEF Recovers, Carries
  <2>7. page'.pending.key = None
    BY <2>3, <2>4, NothingTyped DEF Recovers
  <2>8. Asked'
    BY <2>1, <2>4, <2>7, AskedStays
  <2> QED
    BY <2>1, <2>2, <2>6, <2>8 DEF Kept, Waiting
<1>6. ASSUME NEW k \in Keys, SendBusy(k) PROVE Kept
  <2>1. /\ requests[k].status = "busy" /\ authority' = authority
        /\ visitor' = visitor /\ history' = history
    BY <1>6 DEF SendBusy, serviceVars
  <2>2. /\ Carries(page, page') /\ page'.pending = NoSend
        /\ page'.claim = page.claim /\ page'.admitted = page.admitted
        /\ requests'[k].status = "refused"
        /\ \A j \in Keys : requests'[j].conversation = requests[j].conversation
        /\ \A j \in Keys \ {k} : requests'[j] = requests[j]
        /\ refresh'.status # "none" =>
             /\ refresh'.status = "out" /\ refresh'.conversation = page.conversationId
             /\ page.conversationId # None
    BY <1>6, SendBusyEffect
  <2>3. Shown(page')
    BY <2>2, ShownStays DEF Carries
  <2>4. Asked'
    BY <2>1, <2>2, NothingTyped, AskedStays
  <2>5. k \in RequestsOut
    BY <2>1 DEF RequestsOut
  <2> QED
    BY <2>1, <2>3, <2>4, <2>5 DEF Kept, Waiting
<1>7. ASSUME NEW k \in Keys, NEW e \in ErrorKinds, SendUncertain(k, e) \/ SendRefused(k, e)
      PROVE  Kept
  <2>1. /\ k \in RequestsOut /\ authority' = authority
        /\ visitor' = visitor /\ refresh' = refresh
    BY <1>7 DEF SendUncertain, SendRefused, serviceVars, RequestsOut
  <2>2. /\ requests'[k].status \in {"failed", "refused"}
        /\ \A j \in Keys : requests'[j].conversation = requests[j].conversation
        /\ \A j \in Keys \ {k} : requests'[j] = requests[j]
        /\ HistoryKept
    BY <1>7, SendUncertainEffect, SendRefusedEffect
  <2>3. \/ /\ Carries(page, page')
           /\ page'.claim = page.claim /\ page'.admitted = page.admitted
           /\ page'.pending.key \in {page.pending.key, None}
        \/ Resets(page, page', None)
    <3>1. CASE SendUncertain(k, e)
      <4>1. page'.pending = IF page.pending.key = k THEN [key |-> k, status |-> "uncertain"]
                            ELSE page.pending
        BY <3>1, SendUncertainEffect
      <4>2. page'.pending.key = page.pending.key
        BY <4>1
      <4> QED
        BY <3>1, <4>2, SendUncertainEffect
    <3>2. CASE SendRefused(k, e)
      BY <3>2, SendRefusedEffect, NothingTyped
    <3> QED
      BY <1>7, <3>1, <3>2
  <2>4. Shown(page')
    <3>1. Resets(page, page', None) => Shown(page')
      BY DEF Resets, Shown
    <3> QED
      BY <2>3, <3>1, ShownStays DEF Carries
  <2>5. page'.pending.key \in {page.pending.key, None}
    BY <2>3, NothingTyped DEF Resets
  <2>6. Asked'
    BY <2>1, <2>2, <2>5, AskedStays DEF HistoryKept
  <2> QED
    BY <2>1, <2>4, <2>6 DEF Kept, Waiting
<1>8. QED
  BY <1>2, <1>3, <1>4, <1>5, <1>6, <1>7

LEMMA OthersKeepVisitor ==
  ASSUME PageInv, PageInv', FoldedInv, TurnsInv, Shown(page), Asked,
         authority.exchange = "init" => Waiting,
         \/ Rests \/ Leaves \/ Misleads
         \/ ClaimRefreshed
         \/ \E c \in Conversations : WindowRead(c)
         \/ \E r \in page.readers : ReceiveFrame(r)
         \/ \E c \in Conversations \cup {None} : Authorized(c)
  PROVE  Kept
<1>1. CASE Rests
  <2>1. /\ View(page, page') /\ page'.claim = page.claim /\ page'.admitted = page.admitted
        /\ page'.pending = page.pending /\ HistoryKept
        /\ requests' = requests /\ visitor' = visitor
    BY <1>1 DEF Rests, Stays, serviceVars
  <2>2. Shown(page')
    BY <2>1, ShownStays
  <2>3. \A k \in RequestsOut' : requests'[k].conversation = visitor
    BY <2>1 DEF RequestsOut, Asked
  <2>4. Asked'
    BY <1>1, <2>1, <2>3 DEF Asked, Shown, Rests, HistoryKept
  <2>5. authority'.exchange = "init" => Waiting'
    BY <1>1, <2>1 DEF Rests, View, Waiting, RequestsOut
  <2> QED
    BY <2>1, <2>2, <2>4, <2>5 DEF Kept
<1>2. CASE Leaves
  <2>1. /\ Resets(page, page', None) /\ page.conversationId # None /\ HistoryKept
        /\ requests' = requests /\ refresh' = refresh /\ authority' = authority
        /\ visitor' = visitor
    BY <1>2 DEF Leaves, serviceVars
  <2>2. Shown(page')
    BY <2>1 DEF Resets, Shown
  <2>3. Asked'
    BY <2>1, AskedStays, NothingTyped DEF Resets, HistoryKept
  <2> QED
    BY <2>1, <2>2, <2>3 DEF Kept, Waiting
<1>3. CASE ClaimRefreshed
  <2>1. /\ refresh.status = "read" /\ refresh'.status = "none"
        /\ requests' = requests /\ authority' = authority
        /\ visitor' = visitor /\ history' = history
    BY <1>3 DEF ClaimRefreshed, NoRefresh, serviceVars
  <2>2. /\ Carries(page, page') /\ page'.claim \in {page.claim, refresh.active}
        /\ page'.admitted = page.admitted /\ page'.pending = page.pending
    BY <1>3, ClaimRefreshedEffect
  <2>3. refresh.active # None => Started(refresh.active, visitor)
    BY <2>1 DEF Asked, TurnsInv, Answered
  <2>4. Shown(page')
    <3>1. CASE page'.claim = page.claim
      BY <2>2, <3>1, ShownStays DEF Carries
    <3>2. CASE page'.claim = refresh.active
      <4>1. /\ page'.conversationId \in {None, visitor}
            /\ \A r \in page'.readers : r.conversation = page'.conversationId
            /\ page'.reducer = NoReducer \/ page'.reducer.conversation = page'.conversationId
        BY <2>2 DEF Carries, View, Shown
      <4>2. \A c \in Conversations : page'.boots[c].status # "none"
              => c = visitor /\ page'.reducer = NoReducer
        BY <2>2, <4>1, Numbers DEF Carries, View, Shown
      <4>3. \A t \in {page'.admitted, page'.claim} \ {None} : Started(t, visitor)
        BY <2>2, <2>3, <3>2 DEF Shown
      <4> QED
        BY <4>1, <4>2, <4>3 DEF Shown
    <3> QED
      BY <2>2, <3>1, <3>2
  <2>5. Asked'
    BY <2>1, <2>2, AskedStays
  <2>6. authority'.exchange = "init" => Waiting'
    BY <2>1, <2>2 DEF Carries, View, Waiting, RequestsOut
  <2> QED
    BY <2>1, <2>4, <2>5, <2>6 DEF Kept
<1>4. ASSUME NEW c \in Conversations, WindowRead(c) PROVE Kept
  <2> DEFINE read == page.boots[c]
             reducer == [conversation |-> c, from |-> read.at, at |-> read.at]
             seeded == [page EXCEPT !.claim = read.active, !.reducer = reducer]
  <2>1. /\ read.status = "read" /\ requests' = requests /\ authority' = authority
        /\ refresh' = refresh /\ visitor' = visitor /\ history' = history
    BY <1>4 DEF WindowRead, flightVars, serviceVars
  <2>2. /\ page'.boots[c].status = "none"
        /\ \/ Recovers(page, page')
           \/ /\ c = page.conversationId
              /\ Recovers(seeded, page')
    BY <1>4, WindowReadEffect
  <2>3. /\ c = visitor /\ (read.active # None => Started(read.active, visitor))
    BY <2>1 DEF Shown, TurnsInv, Answered
  <2>4. /\ seeded.mode = page.mode /\ seeded.conversationId = page.conversationId
        /\ seeded.reducer = reducer /\ seeded.readers = page.readers
        /\ seeded.boots = page.boots /\ seeded.claim = read.active
        /\ seeded.admitted = page.admitted /\ seeded.pending = page.pending
        /\ seeded.authorization = page.authorization
        /\ reducer.conversation = c
    BY PageFacts DEF Pages
  <2> HIDE DEF seeded, reducer
  <2>5. Shown(page')
    <3>1. CASE Recovers(page, page')
      BY <3>1, ShownStays DEF Recovers, Carries
    <3>2. CASE c = page.conversationId /\ Recovers(seeded, page')
      <4>1. /\ page'.conversationId = visitor /\ page'.reducer = reducer
            /\ page'.claim = read.active /\ page'.admitted = page.admitted
            /\ \A r \in page'.readers : r.conversation = page'.conversationId
        BY <2>3, <2>4, <3>2, ZenonT(60) DEF Recovers, Carries, View, Shown
      <4>2. reducer # NoReducer
        BY <2>3, <2>4, NothingTyped, Numbers, PageFacts
      <4>3. \A d \in Conversations : page'.boots[d].status = "none"
        <5>1. ASSUME NEW d \in Conversations, d # c PROVE page'.boots[d].status = "none"
          BY <2>3, <2>4, <3>2, <4>1, <4>2, <5>1 DEF Recovers, Carries, View, Shown
        <5> QED
          BY <2>2, <5>1
      <4> QED
        BY <2>3, <2>4, <4>1, <4>3 DEF Shown
    <3> QED
      BY <2>2, <3>1, <3>2
  <2>6. page'.pending = page.pending
    BY <2>2, <2>4 DEF Recovers
  <2>7. Asked'
    BY <2>1, <2>6, AskedStays
  <2>8. authority'.exchange = "init" => Waiting'
    <3>1. c # None
      BY Numbers
    <3> QED
      BY <2>1, <2>2, <2>6, <3>1 DEF Recovers, Carries, View, Waiting, RequestsOut
  <2> QED
    BY <2>1, <2>5, <2>7, <2>8 DEF Kept
<1>5. ASSUME NEW r \in page.readers, ReceiveFrame(r) PROVE Kept
  <2> DEFINE reducer == [page.reducer EXCEPT !.at = page.reducer.at + 1]
             folded == [page EXCEPT !.reducer = reducer]
  <2>1. /\ requests' = requests /\ authority' = authority
        /\ refresh' = refresh /\ visitor' = visitor /\ history' = history
    BY <1>5 DEF ReceiveFrame, flightVars, serviceVars
  <2>2. /\ page.reducer # NoReducer /\ Carries(folded, page') /\ page'.pending = page.pending
        /\ page'.admitted \in {page.admitted, None} /\ page'.claim \in {page.claim, None}
    BY <1>5, ReceiveFrameEffect
  <2>3. page.conversationId # None /\ page.reducer \in Reducers
    BY <2>2, PageFacts DEF Tidy, Pages
  <2>4. /\ folded.conversationId = page.conversationId
        /\ folded.reducer = reducer /\ folded.readers = page.readers
        /\ folded.boots = page.boots /\ folded.claim = page.claim
        /\ folded.admitted = page.admitted
        /\ reducer.conversation = page.reducer.conversation
    BY <2>3, PageFacts DEF Pages, Reducers
  <2> HIDE DEF folded, reducer
  <2>5. Shown(folded)
    BY <2>2, <2>4 DEF Shown
  <2>6. Shown(page')
    BY <2>2, <2>4, <2>5, ShownStays DEF Carries
  <2>7. Asked'
    BY <2>1, <2>2, AskedStays
  <2> QED
    BY <2>1, <2>3, <2>6, <2>7 DEF Kept, Waiting
<1>6. ASSUME NEW c \in Conversations \cup {None}, Authorized(c) PROVE Kept
  <2>1. /\ authority.exchange # "none" /\ c \in Granted(authority.of)
        /\ authority'.exchange = "none"
        /\ requests' = requests /\ refresh' = refresh /\ history' = history
        /\ page'.pending = page.pending
        /\ page.destroyed => page' = page /\ visitor' = visitor
        /\ ~page.destroyed =>
              /\ visitor' = authority.of
              /\ authority.exchange = "init" /\ page.conversationId = None
                   => Grants(page, page', c)
              /\ authority.exchange # "init" => Grants(page, page', c)
    BY <1>6, AuthorizedEffect DEF flightVars
  <2>2. c \in {None, visitor} /\ visitor' = visitor
    BY <2>1 DEF Granted, Asked
  <2>3. Shown(page')
    BY <2>1, <2>2, ShownGrants, PageFacts DEF Waiting
  <2>4. \A k \in RequestsOut' : requests'[k].conversation = visitor
    BY <2>1 DEF RequestsOut, Asked
  <2>5. Asked'
    BY <2>1, <2>2, <2>4 DEF Asked
  <2> QED
    BY <2>1, <2>2, <2>3, <2>5 DEF Kept
<1>7. CASE Misleads
  <2>1. /\ Clears(page, page') /\ page.conversationId # None /\ HistoryKept
        /\ requests' = requests /\ refresh' = refresh /\ visitor' = visitor
        /\ authority'.exchange # "none" => authority' = authority
    BY <1>7 DEF Misleads, Cleared, flightVars, serviceVars
  <2>2. Shown(page')
    <3>1. \A c \in Conversations : page'.boots[c].status # "none" => c = visitor
      BY <2>1 DEF Clears, Shown
    <3> QED
      BY <2>1, <3>1 DEF Clears, Shown
  <2>3. \A k \in RequestsOut' : requests'[k].conversation = visitor
    BY <2>1 DEF RequestsOut, Asked
  <2>4. Asked'
    BY <2>1, <2>3, NothingTyped DEF Asked, Clears, HistoryKept
  <2>5. authority'.exchange # "init"
    BY <2>1 DEF Waiting
  <2> QED
    BY <2>1, <2>2, <2>4, <2>5 DEF Kept
<1>8. QED
  BY <1>1, <1>2, <1>3, <1>4, <1>5, <1>6, <1>7

(* The service answers for the visitor who asked.                          *)
LEMMA ServiceKeepsVisitor ==
  ASSUME PageInv, PageInv', Shown(page), Asked, authority.exchange = "init" => Waiting, Service
  PROVE  Kept /\ page'.conversationId = page.conversationId
<1>1. ASSUME requests' = requests, authority' = authority, visitor' = visitor,
             history'.latest = history.latest, refresh'.conversation = refresh.conversation,
             refresh'.status # "none" => refresh.status # "none",
             page'.pending = page.pending, page'.mode = page.mode,
             page'.authorization = page.authorization,
             page'.conversationId = page.conversationId, Shown(page')
      PROVE  Kept
  <2>1. RequestsOut' = RequestsOut
    BY <1>1 DEF RequestsOut
  <2>2. Asked'
    BY <1>1, <2>1 DEF Asked
  <2>3. Waiting => Waiting'
    BY <1>1, <2>1 DEF Waiting
  <2> QED
    BY <1>1, <2>2, <2>3 DEF Kept
<1>2. ASSUME NEW k \in Keys, Admit(k) \/ AnswerBusy(k),
             UNCHANGED <<page, authority, refresh, visitor, history>>
      PROVE  Kept
  <2>1. requests[k].status = "out"
    BY <1>2 DEF Admit, AnswerBusy
  <2>2. /\ requests'[k].status \in {"admitted", "busy"}
        /\ \A j \in Keys : requests'[j].conversation = requests[j].conversation
        /\ \A j \in Keys \ {k} : requests'[j] = requests[j]
    BY <1>2, RequestIsServed
  <2>3. RequestsOut' = RequestsOut
    BY <2>1, <2>2 DEF RequestsOut
  <2>4. page.pending.key \in Keys \cup {None}
    BY PageFacts DEF Pages
  <2>5. Asked'
    BY <1>2, <2>2, <2>3, <2>4 DEF Asked, RequestsOut
  <2>6. Waiting => Waiting'
    BY <1>2, <2>3 DEF Waiting
  <2> QED
    BY <1>2, <2>5, <2>6 DEF Kept
<1>3. ASSUME NEW k \in Keys, Admit(k) \/ AnswerBusy(k)
      PROVE  Kept /\ page'.conversationId = page.conversationId
  BY <1>2, <1>3 DEF Admit, AnswerBusy, serviceVars
<1>4. CASE \E c \in Conversations : OtherTurnStarts(c) \/ TurnEnds(c) \/ Delete(c)
  <2>1. /\ UNCHANGED <<page, authority, requests, refresh, visitor>>
        /\ history'.latest = history.latest
    BY <1>4, PageFacts DEF OtherTurnStarts, TurnEnds, Delete, flightVars, Histories
  <2> QED
    BY <1>1, <2>1
<1>5. CASE ReadClaim
  <2>1. /\ UNCHANGED <<page, authority, requests, visitor, history>>
        /\ refresh.status = "out" /\ refresh'.conversation = refresh.conversation
    BY <1>5, PageFacts DEF ReadClaim, serviceVars, Refreshes
  <2> QED
    BY <1>1, <2>1
<1>6. ASSUME NEW c \in Conversations, ReadWindow(c)
      PROVE  Kept /\ page'.conversationId = page.conversationId
  <2> DEFINE read == [status |-> "read", at |-> Len(log[c]), active |-> TheActive(c)]
             boots == [page.boots EXCEPT ![c] = read]
  <2>1. /\ page' = [page EXCEPT !.boots = boots] /\ page.boots[c].status = "out"
        /\ UNCHANGED <<authority, requests, refresh, visitor, history>>
    BY <1>6 DEF ReadWindow, flightVars, serviceVars
  <2>2. \A d \in Conversations \ {c} : boots[d] = page.boots[d]
    BY PageFacts DEF Pages
  <2> HIDE DEF boots
  <2>3. /\ page'.boots = boots /\ page'.reducer = page.reducer /\ page'.readers = page.readers
        /\ page'.claim = page.claim /\ page'.admitted = page.admitted
        /\ page'.pending = page.pending /\ page'.mode = page.mode
        /\ page'.authorization = page.authorization
        /\ page'.conversationId = page.conversationId
    BY <2>1, PageFacts DEF Pages
  <2>4. Shown(page')
    BY <2>1, <2>2, <2>3 DEF Shown
  <2> QED
    BY <1>1, <2>1, <2>3, <2>4
<1>8. ASSUME NEW k \in Keys, AdmitLate(k)
      PROVE  Kept /\ page'.conversationId = page.conversationId
  <2>1. UNCHANGED <<page, authority, refresh, visitor, history>>
    BY <1>8 DEF AdmitLate
  <2>2. PICK c : requests' = [requests EXCEPT ![k].late = @ \ {c}]
    BY <1>8 DEF AdmitLate
  <2>3. \A j \in Keys : /\ requests'[j].status = requests[j].status
                        /\ requests'[j].conversation = requests[j].conversation
    BY <2>2, LateIsAdmitted, PageFacts
  <2>4. RequestsOut' = RequestsOut
    BY <2>3 DEF RequestsOut
  <2>5. page.pending.key \in Keys \cup {None}
    BY PageFacts DEF Pages
  <2>6. Asked'
    BY <2>1, <2>3, <2>4, <2>5 DEF Asked, RequestsOut
  <2>7. Waiting => Waiting'
    BY <2>1, <2>4 DEF Waiting
  <2> QED
    BY <2>1, <2>6, <2>7 DEF Kept
<1>7. QED
  BY <1>3, <1>4, <1>5, <1>6, <1>8 DEF Service

LEMMA SameVisitorIsKept ==
  ASSUME PageInv, PageInv', FoldedInv, TurnsInv, SameVisitor, Next, LogGrows
  PROVE  SameVisitor'
<1>1. SUFFICES ASSUME ~history'.crossed
               PROVE  Shown(page)' /\ Asked' /\ (authority'.exchange = "init" => Waiting')
  BY DEF SameVisitor
<1>2. Shown(page) /\ Asked /\ (authority.exchange = "init" => Waiting)
  BY <1>1, StepsMove DEF Moves, SameVisitor
<1>3. CASE StartedOver
  BY <1>1, <1>3, StartedOverInSilence
<1>4. CASE ~StartedOver
  <2>1. Kept
    BY <1>2, <1>4, StepsAreOfKinds, SendsKeepVisitor, OthersKeepVisitor, ServiceKeepsVisitor
       DEF Kinds
  <2> QED
    BY <2>1, ShownLater DEF Kept
<1>5. QED
  BY <1>3, <1>4

LEMMA VisitorStutters == TurnsInv /\ SameVisitor /\ UNCHANGED vars => TurnsInv' /\ SameVisitor'
<1> SUFFICES ASSUME TurnsInv, SameVisitor, UNCHANGED vars PROVE TurnsInv' /\ SameVisitor'
  OBVIOUS
<1>1. UNCHANGED <<page, authority, requests, refresh, log, gone, visitor, history>>
  BY DEF vars, flightVars, serviceVars
<1>2. Visited'
  BY <1>1 DEF TurnsInv, Visited
<1>3. Answered'
  BY <1>1 DEF TurnsInv, Answered, ActiveIn, Started, Ended
<1>4. RequestsOut' = RequestsOut
  BY <1>1 DEF RequestsOut
<1>5. Shown(page) => Shown(page)'
  BY <1>1 DEF Shown, Started
<1>6. Asked => Asked'
  BY <1>1, <1>4 DEF Asked
<1>7. Waiting => Waiting'
  BY <1>1, <1>4 DEF Waiting
<1>8. QED
  BY <1>1, <1>2, <1>3, <1>5, <1>6, <1>7 DEF TurnsInv, SameVisitor

VisitorInv == PageInv /\ FoldedInv /\ TurnsInv /\ SameVisitor

LEMMA VisitorIsSound == Spec => []VisitorInv
<1>1. Init => VisitorInv
  BY InitPage, InitFolded, InitTurns, InitSameVisitor DEF VisitorInv
<1>2. ASSUME VisitorInv, Next PROVE VisitorInv'
  <2>1. PageInv' /\ FoldedInv' /\ LogGrows /\ BootsMove
    BY <1>2, FoldedIsKept DEF VisitorInv
  <2>2. Moves /\ AnswersMove /\ LogMoves
    BY <1>2, StepsMove, StepsAnswer DEF VisitorInv
  <2>3. TurnsInv'
    BY <1>2, <2>1, <2>2, VisitedIsKept, AnsweredIsKept DEF VisitorInv, TurnsInv
  <2>4. SameVisitor'
    BY <1>2, <2>1, SameVisitorIsKept DEF VisitorInv
  <2> QED
    BY <2>1, <2>3, <2>4 DEF VisitorInv
<1>3. VisitorInv /\ UNCHANGED vars => VisitorInv'
  BY PageStutters, VisitorStutters DEF VisitorInv
<1>4. VisitorInv /\ [Next]_vars => VisitorInv'
  BY <1>2, <1>3
<1>5. QED
  BY <1>1, <1>4, PTL DEF Spec

(* A start over that overtakes no request carries nothing over, whatever   *)
(* the page goes through before and after it: stream, claims and           *)
(* credential are those of the visitor that the page is for.               *)
THEOREM PageIsItsVisitors == Spec => []QuietStartOver
<1>1. VisitorInv => QuietStartOver
  <2>1. SUFFICES ASSUME VisitorInv, ~history.crossed PROVE NothingCarriedOver
    BY DEF QuietStartOver
  <2>2. Shown(page) /\ Asked /\ Tidy(page)
    BY <2>1, PageFacts DEF VisitorInv, SameVisitor
  <2>3. \A r \in page.readers : r.conversation = visitor
    BY <2>2 DEF Shown, Tidy
  <2> QED
    BY <2>2, <2>3 DEF NothingCarriedOver, Shown, Asked
<1>2. QED
  BY <1>1, VisitorIsSound, PTL

LEMMA OnlyTheGoneIsLeft ==
  ASSUME VisitorInv, Next, ~history'.crossed, history'.latest = history.latest,
         history'.misled = history.misled,
         page.conversationId # None, page'.conversationId # page.conversationId
  PROVE  page.conversationId \in gone
<1>1. PageInv /\ FoldedInv /\ TurnsInv /\ PageInv'
  BY FoldedIsKept DEF VisitorInv
<1>2. Shown(page) /\ Asked /\ (authority.exchange = "init" => Waiting)
  BY <1>1, StepsMove DEF VisitorInv, Moves, SameVisitor
<1>3. page.conversationId = visitor
  BY <1>2 DEF Shown
<1>4. ~Readable(visitor) => visitor \in gone
  BY DEF Readable
<1>5. CASE Leaves
  <2>1. \E c \in Conversations : c = visitor /\ ~Readable(c)
    BY <1>2, <1>3, <1>5, PageFacts, <1>1 DEF Leaves, Shown
  <2> QED
    BY <1>3, <1>4, <2>1
<1>6. ASSUME NEW k \in Keys, NEW e, SendRefused(k, e) PROVE page.conversationId \in gone
  <2>1. ~Readable(requests[k].conversation)
    BY <1>1, <1>6, SendRefusedEffect DEF Carries, View
  <2>2. requests[k].conversation = visitor
    BY <1>2, <1>6 DEF SendRefused, RequestsOut, Asked
  <2>3. ~Readable(visitor)
    BY <2>1, <2>2
  <2> QED
    BY <1>3, <1>4, <2>3
<1>7. ASSUME NEW k \in Keys, SendAdmitted(k) PROVE FALSE
  <2>1. requests[k].conversation = visitor
    BY <1>2, <1>7 DEF SendAdmitted, RequestsOut, Asked
  <2> DEFINE bound == [page EXCEPT !.conversationId = visitor, !.admitted = k, !.pending = NoSend]
  <2>2. Recovers(bound, page')
    BY <1>1, <1>7, <2>1, SendAdmittedEffect
  <2>3. bound.conversationId = visitor
    BY <1>1, PageFacts DEF Pages
  <2> QED
    BY <1>3, <2>2, <2>3 DEF Recovers, Carries, View
<1>8. ASSUME NEW c \in Conversations, WindowRead(c) PROVE FALSE
  <2> DEFINE read == page.boots[c]
             reducer == [conversation |-> c, from |-> read.at, at |-> read.at]
             seeded == [page EXCEPT !.claim = read.active, !.reducer = reducer]
  <2>1. seeded.conversationId = page.conversationId
    BY <1>1, PageFacts DEF Pages
  <2>2. Recovers(page, page') \/ Recovers(seeded, page')
    BY <1>1, <1>8, WindowReadEffect
  <2> QED
    BY <2>1, <2>2 DEF Recovers, Carries, View
<1>9. ASSUME NEW r, ReceiveFrame(r) PROVE FALSE
  <2> DEFINE folded == [page EXCEPT !.reducer.at = page.reducer.at + 1]
  <2>1. folded.conversationId = page.conversationId
    BY <1>1, PageFacts DEF Pages
  <2>2. Carries(folded, page')
    BY <1>1, <1>9, ReceiveFrameEffect
  <2> QED
    BY <2>1, <2>2 DEF Carries, View
<1>10. ASSUME NEW c \in Conversations \cup {None}, Authorized(c) PROVE FALSE
  <2>1. ~page.destroyed /\ Grants(page, page', c)
    BY <1>1, <1>2, <1>10, AuthorizedEffect DEF Waiting
  <2> QED
    BY <2>1 DEF Grants
<1>11. history.latest \in Nat /\ history.misled \in Nat
  BY <1>1, Numbers DEF PageInv, TypeOK
<1>16. ~StartedOver
  BY <1>1, <1>11, StartedOverEffect
<1>17. ~Misleads
  BY <1>11 DEF Misleads, Cleared
<1>12. CASE Rests
  BY <1>12 DEF Rests, Stays, View
<1>13. CASE \/ Send \/ RetrySend \/ DiscardSend \/ ClaimRefreshed
            \/ \E k \in Keys : SendBusy(k)
            \/ \E e \in ErrorKinds, k \in Keys : SendUncertain(k, e)
  <2>1. Carries(page, page')
    BY <1>1, <1>13, SendEffect, RetrySendEffect, DiscardSendEffect, ClaimRefreshedEffect,
       SendBusyEffect, SendUncertainEffect
  <2> QED
    BY <2>1 DEF Carries, View
<1>14. CASE Service
  BY <1>1, <1>2, <1>14, ServiceKeepsVisitor
<1>15. QED
  BY <1>1, <1>5, <1>6, <1>7, <1>8, <1>9, <1>10, <1>12, <1>13, <1>14, <1>16, <1>17,
     StepsAreOfKinds DEF Kinds

(* The page leaves its Conversation only because the Conversation is gone, *)
(* its visitor starts over, or a send or an exchange is answered "not      *)
(* found" for something else.  No other failure and no late answer takes   *)
(* the transcript, and a missing Turn never does.                          *)
THEOREM PageLeavesOnlyTheGone == Spec => LeavesOnlyTheGone
<1> DEFINE Left ==
      /\ page.conversationId # None /\ page'.conversationId # page.conversationId
      /\ ~history'.crossed /\ history'.latest = history.latest
      /\ history'.misled = history.misled
      => page.conversationId \in gone
<1>1. VisitorInv /\ [Next]_vars => [Left]_vars
  BY OnlyTheGoneIsLeft
<1>2. QED
  BY <1>1, VisitorIsSound, PTL DEF Spec, LeavesOnlyTheGone

-----------------------------------------------------------------------------
(* Sends and the Turns that they start.                                    *)

(* A key has a request from its send on, and a Turn only with a request;   *)
(* what is on the page is the last send, and alone on its way unless it    *)
(* has overlapped another.                                                 *)
Sends ==
  /\ \A k \in Keys : requests[k].status = "none" <=> k > history.sends
  /\ \A k \in Keys : requests[k].status = "none" => requests[k].late = {}
  /\ \A k \in Keys : \A c \in Conversations : Started(k, c) => requests[k].status # "none"
  /\ page.pending.key # None =>
       requests[page.pending.key].status \in {"out", "admitted", "busy", "failed"}
  /\ page.pending.status = "uncertain" => requests[page.pending.key].status = "failed"
  /\ page.pending.key \notin history.overlapped \cup {None}
       => RequestsOut \subseteq {page.pending.key}

LEMMA InitSends == Init => Sends
<1> SUFFICES ASSUME Init PROVE Sends
  OBVIOUS
<1>1. \A k \in Keys : requests[k].status = "none"
  BY DEF Init
<1>2. \A k \in Keys : k > history.sends
  BY DEF Init, Keys
<1>3. \A k \in Keys : \A c \in Conversations : ~Started(k, c)
  <2>1. \A c \in Conversations : log[c] = <<>>
    BY DEF Init
  <2> QED
    BY <2>1 DEF Started
<1>4. page.pending.key = None /\ page.pending.status = "none"
  BY NothingTyped DEF Init
<1>5. \A k \in Keys : requests[k].late = {}
  BY DEF Init
<1>6. QED
  BY <1>1, <1>2, <1>3, <1>4, <1>5 DEF Sends

(* The service starts the Turn of a key: its request is admitted, or one   *)
(* that was given up before.                                               *)
Admits(k, c) ==
  /\ ~Started(k, c)
  /\ \/ /\ Admit(k) /\ c = requests[k].conversation
        /\ requests[k].status = "out" /\ requests'[k].status = "admitted"
     \/ /\ AdmitLate(k) /\ c \in requests[k].late /\ c \notin requests'[k].late
        /\ requests'[k].status = requests[k].status

LEMMA StartedWere ==
  ASSUME PageInv, PageInv', LogMoves, NEW k \in Keys, NEW c \in Conversations, Started(k, c)'
  PROVE  Started(k, c) \/ Admits(k, c)
<1>1. CASE UNCHANGED log
  BY <1>1 DEF Started
<1>2. CASE ~UNCHANGED log
  <2>1. PICK d \in Conversations, t \in Turns :
          Written(d, t) /\ (StartsIn(d, t) \/ EndsIn(d, t))
    BY <1>2, LogIsWritten
  <2>2. TypeOK /\ TypeOK' /\ LogGrows
    BY <2>1 DEF PageInv, Written
  <2>3. CASE EndsIn(d, t)
    <3>1. Started(k, c) \/ (k = t /\ c = d)
      BY <2>2, <2>3, TurnsWere DEF EndsIn
    <3> QED
      BY <2>3, <3>1 DEF EndsIn, ActiveIn
  <2>4. CASE StartsIn(d, t)
    <3>1. Started(k, c) \/ (k = t /\ c = d)
      BY <2>2, <2>4, TurnsWere DEF StartsIn
    <3>2. CASE k = t /\ c = d
      <4>1. \/ Admit(k) /\ c = requests[k].conversation /\ ~Started(k, c)
            \/ /\ AdmitLate(k) /\ c \in requests[k].late /\ c \notin requests'[k].late
               /\ ~Started(k, c)
        BY <2>4, <3>2 DEF StartsIn
      <4>2. Admit(k) => requests[k].status = "out" /\ requests'[k].status = "admitted"
        BY RequestIsServed DEF Admit
      <4>3. AdmitLate(k) => requests'[k].status = requests[k].status
        BY RequestIsServed
      <4> QED
        BY <4>1, <4>2, <4>3 DEF Admits
    <3> QED
      BY <3>1, <3>2
  <2> QED
    BY <2>1, <2>3, <2>4
<1>3. QED
  BY <1>1, <1>2

LEMMA ActiveWere ==
  ASSUME PageInv, PageInv', LogMoves, LogGrows, NEW k \in Keys, NEW c \in Conversations,
         k \in ActiveIn(c)'
  PROVE  k \in ActiveIn(c) \/ Admits(k, c)
<1>1. Started(k, c)' /\ ~Ended(k)' /\ k \in Turns
  BY DEF ActiveIn
<1>2. ~Ended(k)
  BY <1>1, TurnsStay DEF PageInv
<1>3. QED
  BY <1>1, <1>2, StartedWere DEF ActiveIn

(* Nothing is sent or answered, and the send on the page is there or gone. *)
LEMMA SilenceKeepsSends ==
  ASSUME PageInv, PageInv', LogMoves, Sends, requests' = requests,
         page'.pending \in {page.pending, NoSend},
         history'.sends = history.sends, history'.overlapped = history.overlapped
  PROVE  Sends'
<1>1. RequestsOut' = RequestsOut
  BY DEF RequestsOut
<1>2. \A k \in Keys : \A c \in Conversations : Started(k, c)' => Started(k, c)
  BY StartedWere DEF Admits
<1>3. NoSend.key = None /\ NoSend.status = "none"
  BY NothingTyped
<1>4. QED
  BY <1>1, <1>2, <1>3 DEF Sends

(* A request that is on its way ends.                                      *)
Settles(j) ==
  /\ j \in RequestsOut
  /\ requests'[j].status \in {"done", "failed", "refused"}
  /\ requests'[j].again = requests[j].again
  /\ requests'[j].status = "refused" =>
       requests[j].status \in {"out", "busy"} /\ requests'[j].late = requests[j].late
  /\ \A k \in Keys : requests'[k].conversation = requests[k].conversation
  /\ \A k \in Keys \ {j} : requests'[k] = requests[k]
  /\ \/ page'.pending = NoSend
     \/ /\ requests'[j].status = "failed"
        /\ page'.pending = IF page.pending.key = j THEN [key |-> j, status |-> "uncertain"]
                           ELSE page.pending
  /\ history'.sends = history.sends /\ history'.overlapped = history.overlapped
  /\ history'.crossed = history.crossed
  /\ \A k \in history.dropped : k \in history'.dropped
  /\ UNCHANGED serviceVars

LEMMA SettlingKeepsSends ==
  ASSUME PageInv, PageInv', Sends, NEW j \in Keys, Settles(j)
  PROVE  Sends'
<1>1. /\ \A k \in Keys \ {j} : requests'[k] = requests[k]
      /\ requests[j].status \in {"out", "admitted", "busy"}
      /\ requests'[j].status \in {"done", "failed", "refused"}
      /\ UNCHANGED log
  BY DEF Settles, RequestsOut, serviceVars
<1>2. RequestsOut' \subseteq RequestsOut
  BY <1>1 DEF RequestsOut
<1>3. \A k \in Keys : requests'[k].status = "none" <=> requests[k].status = "none"
  BY <1>1
<1>4. \A k \in Keys : \A c \in Conversations : Started(k, c)' => Started(k, c)
  BY <1>1 DEF Started
<1>5. history'.sends = history.sends /\ history'.overlapped = history.overlapped
  BY DEF Settles
<1>9. \A k \in Keys : requests'[k].status = "none" => requests'[k].late = {}
  BY <1>1 DEF Sends
<1>6. CASE page'.pending = NoSend
  BY <1>2, <1>3, <1>4, <1>5, <1>6, <1>9, NothingTyped DEF Sends
<1>7. CASE /\ requests'[j].status = "failed"
           /\ page'.pending = IF page.pending.key = j THEN [key |-> j, status |-> "uncertain"]
                              ELSE page.pending
  <2>1. page'.pending.key = page.pending.key /\ page.pending.key \in Keys \cup {None}
    BY <1>7, PageFacts DEF Pages
  <2>2. page'.pending.key # None =>
          requests'[page'.pending.key].status \in {"out", "admitted", "busy", "failed"}
    BY <1>1, <1>7, <2>1 DEF Sends
  <2>3. page'.pending.status = "uncertain" => requests'[page'.pending.key].status = "failed"
    <3>1. CASE page.pending.key = j
      BY <1>7, <2>1, <3>1
    <3>2. CASE page.pending.key # j
      <4>1. page'.pending = page.pending
        BY <1>7, <3>2
      <4>2. page.pending.status = "uncertain" => page.pending.key \in Keys
        BY <2>1 DEF PageInv, Bookkeeping
      <4> QED
        BY <1>1, <3>2, <4>1, <4>2 DEF Sends
    <3> QED
      BY <3>1, <3>2
  <2> QED
    BY <1>2, <1>3, <1>4, <1>5, <1>9, <2>1, <2>2, <2>3 DEF Sends
<1>8. QED
  BY <1>6, <1>7 DEF Settles

LEMMA RequestsSettle ==
  ASSUME PageInv, NEW j \in Keys,
         \/ SendAdmitted(j) \/ SendBusy(j)
         \/ \E e \in ErrorKinds : SendUncertain(j, e) \/ SendRefused(j, e)
  PROVE  Settles(j)
<1>1. CASE SendAdmitted(j)
  <2> DEFINE c == requests[j].conversation
             bound == [page EXCEPT !.conversationId = c, !.admitted = j, !.pending = NoSend]
  <2>1. bound.pending = NoSend
    BY PageFacts DEF Pages
  <2>2. page'.pending = NoSend
    BY <1>1, <2>1, SendAdmittedEffect DEF Recovers
  <2> QED
    BY <1>1, <2>2, SendAdmittedEffect DEF SendAdmitted, Settles, RequestsOut
<1>2. CASE SendBusy(j)
  BY <1>2, SendBusyEffect DEF SendBusy, Settles, RequestsOut
<1>3. ASSUME NEW e \in ErrorKinds, SendUncertain(j, e) PROVE Settles(j)
  BY <1>3, SendUncertainEffect DEF SendUncertain, Settles, RequestsOut, HistoryKept
<1>4. ASSUME NEW e \in ErrorKinds, SendRefused(j, e) PROVE Settles(j)
  BY <1>4, SendRefusedEffect, ZenonT(60) DEF SendRefused, Settles, RequestsOut, HistoryKept, Resets
<1>5. QED
  BY <1>1, <1>2, <1>3, <1>4

(* The steps in which no request moves and the page keeps its Turn.        *)
Silent ==
  \/ Rests
  \/ ClaimRefreshed
  \/ \E c \in Conversations : WindowRead(c)
  \/ \E r \in page.readers : ReceiveFrame(r)
  \/ \E c \in Conversations \cup {None} : Authorized(c)
  \/ ReadClaim
  \/ \E c \in Conversations :
       OtherTurnStarts(c) \/ TurnEnds(c) \/ Delete(c) \/ ReadWindow(c)

LEMMA SilentEffect ==
  ASSUME PageInv, Silent
  PROVE  /\ requests' = requests /\ page'.pending = page.pending
         /\ history'.sends = history.sends /\ history'.overlapped = history.overlapped
         /\ history'.dropped = history.dropped /\ history'.crossed = history.crossed
         /\ history'.latest = history.latest
         /\ page.destroyed => page'.destroyed
<1>1. CASE Rests
  BY <1>1 DEF Rests, Stays, HistoryKept
<1>2. CASE ClaimRefreshed
  BY <1>2, ClaimRefreshedEffect DEF ClaimRefreshed, Carries
<1>3. ASSUME NEW c \in Conversations, WindowRead(c)
      PROVE  page'.pending = page.pending /\ page'.destroyed = page.destroyed
  <2> DEFINE read == page.boots[c]
             reducer == [conversation |-> c, from |-> read.at, at |-> read.at]
             seeded == [page EXCEPT !.claim = read.active, !.reducer = reducer]
  <2>1. seeded.pending = page.pending /\ seeded.destroyed = page.destroyed
    BY PageFacts DEF Pages
  <2>2. Recovers(page, page') \/ Recovers(seeded, page')
    BY <1>3, WindowReadEffect
  <2> QED
    BY <2>1, <2>2 DEF Recovers, Carries
<1>4. ASSUME NEW r \in page.readers, ReceiveFrame(r)
      PROVE  page'.pending = page.pending /\ page'.destroyed = page.destroyed
  <2> DEFINE folded == [page EXCEPT !.reducer.at = page.reducer.at + 1]
  <2>1. folded.destroyed = page.destroyed
    BY PageFacts DEF Pages
  <2> QED
    BY <1>4, <2>1, ReceiveFrameEffect DEF Carries
<1>5. CASE \/ \E c \in Conversations : WindowRead(c)
           \/ \E r \in page.readers : ReceiveFrame(r)
  BY <1>3, <1>4, <1>5 DEF WindowRead, ReceiveFrame, flightVars
<1>6. CASE \E c \in Conversations \cup {None} : Authorized(c)
  BY <1>6, AuthorizedEffect DEF flightVars
<1>8. CASE ReadClaim \/ \E c \in Conversations : TurnEnds(c) \/ Delete(c)
  BY <1>8 DEF ReadClaim, TurnEnds, Delete, flightVars
<1>9. CASE \E c \in Conversations : OtherTurnStarts(c)
  BY <1>9, PageFacts DEF OtherTurnStarts, flightVars, Histories
<1>10. CASE \E c \in Conversations : ReadWindow(c)
  BY <1>10, PageFacts DEF ReadWindow, flightVars, Pages
<1>11. QED
  BY <1>1, <1>2, <1>5, <1>6, <1>8, <1>9, <1>10 DEF Silent

LEMMA SendsIsKept ==
  ASSUME PageInv, PageInv', FoldedInv, LogMoves, Sends, Next
  PROVE  Sends'
<1>1. CASE Silent
  BY <1>1, SilentEffect, SilenceKeepsSends
<1>2. CASE Leaves
  BY <1>2, SilenceKeepsSends DEF Leaves, Resets, HistoryKept
<1>3. CASE DiscardSend
  BY <1>3, DiscardSendEffect, SilenceKeepsSends DEF DiscardSend, HistoryKept, flightVars
<1>4. CASE StartedOver
  BY <1>4, StartedOverEffect, SilenceKeepsSends DEF flightVars
<1>10. CASE Misleads
  BY <1>10, SilenceKeepsSends DEF Misleads, Cleared, Clears, HistoryKept, flightVars
<1>5. ASSUME NEW j \in Keys,
             \/ SendAdmitted(j) \/ SendBusy(j)
             \/ \E e \in ErrorKinds : SendUncertain(j, e) \/ SendRefused(j, e)
      PROVE  Sends'
  BY <1>5, RequestsSettle, SettlingKeepsSends
<1>6. CASE Send
  <2> DEFINE k == history.sends + 1
  <2>1. /\ k \in Keys /\ page'.pending.key = k /\ page'.pending.status = "admitting"
        /\ history'.sends = k
        /\ history'.overlapped = IF RequestsOut = {} THEN history.overlapped
                                 ELSE history.overlapped \cup {k}
    BY <1>6, SendEffect
  <2>2. requests' = Ask(k, FALSE) /\ UNCHANGED log
    BY <1>6 DEF Send, serviceVars
  <2>3. requests'[k].status = "out" /\ \A j \in Keys \ {k} : requests'[j] = requests[j]
    BY <2>1, <2>2, SendIsAsked, PageFacts
  <2>4. \A j \in Keys : requests'[j].status = "none" <=> j > k
    <3>1. \A j \in Keys \ {k} : j > history.sends <=> j > k
      BY PageFacts DEF Keys
    <3>2. ~(k > k)
      BY <2>1 DEF Keys
    <3> QED
      BY <2>3, <3>1, <3>2 DEF Sends
  <2>5. \A j \in Keys : \A c \in Conversations : Started(j, c)' => requests'[j].status # "none"
    BY <2>2, <2>3 DEF Sends, Started
  <2>6. k \notin history'.overlapped \cup {None} => RequestsOut' \subseteq {k}
    BY <2>1, <2>3 DEF RequestsOut
  <2> HIDE DEF k
  <2> QED
    BY <2>1, <2>3, <2>4, <2>5, <2>6 DEF Sends
<1>7. CASE RetrySend
  <2> DEFINE k == page.pending.key
  <2>1. /\ k \in Keys /\ page'.pending.key = k /\ page'.pending.status = "admitting"
        /\ requests' = Ask(k, TRUE) /\ page.pending.status = "uncertain"
    BY <1>7, RetrySendEffect
  <2>2. UNCHANGED log /\ history' = history
    BY <1>7 DEF RetrySend, serviceVars
  <2>3. requests'[k].status = "out" /\ \A j \in Keys \ {k} : requests'[j] = requests[j]
    BY <2>1, SendIsAsked, PageFacts
  <2>4. requests[k].status = "failed"
    BY <2>1 DEF Sends
  <2>5. \A j \in Keys : requests'[j].status = "none" <=> requests[j].status = "none"
    BY <2>3, <2>4
  <2>6. \A j \in Keys : \A c \in Conversations : Started(j, c)' => Started(j, c)
    BY <2>2 DEF Started
  <2>7. RequestsOut' \subseteq RequestsOut \cup {k}
    BY <2>3 DEF RequestsOut
  <2> QED
    BY <2>1, <2>2, <2>3, <2>5, <2>6, <2>7 DEF Sends
<1>8. ASSUME NEW j \in Keys, Admit(j) \/ AnswerBusy(j) \/ AdmitLate(j) PROVE Sends'
  <2>1. page' = page /\ history' = history
    BY <1>8 DEF Admit, AnswerBusy, AdmitLate
  <2>2. \/ requests[j].status = "out" /\ requests'[j].status \in {"admitted", "busy"}
        \/ requests'[j].status = requests[j].status
    BY <1>8, RequestIsServed DEF Admit, AnswerBusy
  <2>3. \A k \in Keys \ {j} : requests'[k] = requests[k]
    BY <1>8, RequestIsServed
  <2>4. \A k \in Keys : requests'[k].status = "none" <=> requests[k].status = "none"
    BY <2>2, <2>3
  <2>5. \A k \in Keys : \A c \in Conversations : Started(k, c)' => requests'[k].status # "none"
    <3>1. ASSUME NEW k \in Keys, NEW c \in Conversations, Started(k, c)'
          PROVE  requests'[k].status # "none"
      <4>1. CASE Started(k, c)
        BY <2>4, <4>1 DEF Sends
      <4>2. CASE Admits(k, c)
        <5>1. \A i \in Keys : requests[i].status = "none" => requests[i].late = {}
          BY DEF Sends
        <5> QED
          BY <4>2, <5>1 DEF Admits
      <4> QED
        BY <3>1, <4>1, <4>2, StartedWere
    <3> QED
      BY <3>1
  <2>6. RequestsOut' = RequestsOut
    BY <2>2, <2>3 DEF RequestsOut
  <2>7. page.pending.key \in Keys \cup {None}
    BY PageFacts DEF Pages
  <2>8. page.pending.status = "uncertain" => page.pending.key \in Keys
    BY <2>7 DEF PageInv, Bookkeeping
  <2>9. \A k \in Keys : requests'[k].late \subseteq requests[k].late
    BY <1>8, RequestIsServed
  <2> QED
    BY <2>1, <2>2, <2>3, <2>4, <2>5, <2>6, <2>7, <2>8, <2>9 DEF Sends
<1>9. QED
  BY <1>1, <1>2, <1>3, <1>4, <1>5, <1>6, <1>7, <1>8, <1>10, StepsAreOfKinds
     DEF Kinds, Silent, Service

(* A key that is at its first attempt, and has not been admitted.          *)
Fresh(k) ==
  \/ requests[k].status = "none"
  \/ ~requests[k].again /\ requests[k].status \in {"out", "busy", "refused"}

(* The Turn of a key is in the Conversation that its requests name; at a   *)
(* first attempt there is neither a Turn nor a request given up.           *)
Followed ==
  /\ \A k \in Keys : \A c \in Conversations :
       Started(k, c) \/ c \in requests[k].late => c = requests[k].conversation
  /\ \A k \in Keys : Fresh(k) =>
       requests[k].late = {} /\ \A c \in Conversations : ~Started(k, c)

(* A send that is on its way, or whose outcome is unknown, is on the page. *)
Unforgotten ==
  \A k \in Keys \ history.overlapped :
    /\ k \in RequestsOut
         /\ \/ k \notin history.dropped
            \/ requests[k].conversation \notin gone /\ history.misled = 0
         => page.pending.key = k
    /\ k \notin history.dropped /\ requests[k].status = "failed" => page.pending.key = k

(* The page knows of a Turn of its own that runs, and sends nothing then.  *)
Held(k) == page.admitted = k \/ k \in Known(page.reducer)

Own ==
  \A k \in Keys \ history.overlapped :
    requests[k].status = "done" /\ k \in ActiveIn(visitor) =>
      /\ page.conversationId = visitor
      /\ RequestsOut = {} /\ page.pending = NoSend
      /\ Held(k)

SendsInv ==
  ~history.crossed =>
    /\ Followed
    /\ ~page.destroyed => Unforgotten /\ (history.misled = 0 => Own)

LEMMA InitSendsInv == Init => SendsInv
<1> SUFFICES ASSUME Init PROVE SendsInv
  OBVIOUS
<1>1. \A k \in Keys : requests[k].status = "none"
  BY DEF Init
<1>2. \A k \in Keys : \A c \in Conversations : ~Started(k, c)
  <2>1. \A c \in Conversations : log[c] = <<>>
    BY DEF Init
  <2> QED
    BY <2>1 DEF Started
<1>8. \A k \in Keys : requests[k].late = {}
  BY DEF Init
<1>3. Followed
  BY <1>2, <1>8 DEF Followed
<1>4. RequestsOut = {}
  BY <1>1 DEF RequestsOut
<1>5. Unforgotten
  BY <1>1, <1>4 DEF Unforgotten
<1>6. Own
  <2>1. \A k \in Keys \ history.overlapped : requests[k].status # "done"
    BY <1>1
  <2> QED
    BY <2>1 DEF Own
<1>7. QED
  BY <1>3, <1>5, <1>6 DEF SendsInv

LEMMA StepsKeepVisitor ==
  ASSUME VisitorInv, Next, ~history'.crossed, ~StartedOver
  PROVE  Kept
<1>1. PageInv /\ FoldedInv /\ TurnsInv /\ PageInv'
  BY FoldedIsKept DEF VisitorInv
<1>2. Shown(page) /\ Asked /\ (authority.exchange = "init" => Waiting)
  BY <1>1, StepsMove DEF VisitorInv, Moves, SameVisitor
<1>3. QED
  BY <1>1, <1>2, StepsAreOfKinds, SendsKeepVisitor, OthersKeepVisitor, ServiceKeepsVisitor
     DEF Kinds

LEMMA MisledStays ==
  ASSUME VisitorInv, Next, history'.misled = 0
  PROVE  history.misled = 0
<1>1. Moves /\ history.misled \in Nat
  BY StepsMove DEF VisitorInv, PageInv, TypeOK
<1>2. QED
  BY <1>1 DEF Moves

LEMMA KnownStays ==
  ASSUME PageInv, PageInv', FoldedInv, LogGrows, page'.reducer = page.reducer
  PROVE  Known(page.reducer)' = Known(page.reducer)
<1>1. PICK r \in Reducers : r = page.reducer
  BY PageFacts DEF Pages
<1>2. r # NoReducer => r.conversation # None /\ r.at <= Len(log[r.conversation])
  BY <1>1, PageFacts DEF FoldedInv, Tidy
<1>3. Known(r)' = Known(r)
  BY <1>2, TurnsStay DEF PageInv
<1>4. QED
  BY <1>1, <1>3 DEF Known, Folded

(* What the page holds of its Turn it keeps: the first read comes before   *)
(* the reducer, and a frame takes the Turn from the receipt.               *)
LEMMA HeldStays ==
  ASSUME PageInv, PageInv', FoldedInv, LogGrows, Shown(page),
         authority.exchange = "init" => Waiting, Silent, NEW k \in Keys, Held(k)
  PROVE  Held(k)'
<1>1. ASSUME page'.reducer = page.reducer, page'.admitted = page.admitted
      PROVE  Held(k)'
  BY <1>1, KnownStays DEF Held
<1>2. CASE Rests
  BY <1>1, <1>2 DEF Rests, Stays, View
<1>3. CASE ClaimRefreshed
  BY <1>1, <1>3, ClaimRefreshedEffect DEF Carries, View
<1>4. ASSUME NEW c \in Conversations, WindowRead(c) PROVE Held(k)'
  <2> DEFINE read == page.boots[c]
             reducer == [conversation |-> c, from |-> read.at, at |-> read.at]
             seeded == [page EXCEPT !.claim = read.active, !.reducer = reducer]
  <2>1. seeded.admitted = page.admitted
    BY PageFacts DEF Pages
  <2>2. Recovers(page, page') \/ Recovers(seeded, page')
    BY <1>4, WindowReadEffect
  <2>3. page'.admitted = page.admitted
    BY <2>1, <2>2 DEF Recovers
  <2>4. page.reducer = NoReducer
    BY <1>4 DEF WindowRead, Shown
  <2>5. Known(page.reducer) = {}
    BY <2>4 DEF Known, Folded
  <2> QED
    BY <2>3, <2>5 DEF Held
<1>5. ASSUME NEW r \in page.readers, ReceiveFrame(r) PROVE Held(k)'
  <2> DEFINE reducer == [page.reducer EXCEPT !.at = page.reducer.at + 1]
             folded == [page EXCEPT !.reducer = reducer]
  <2>1. /\ page.reducer # NoReducer /\ Carries(folded, page')
        /\ page'.admitted = IF page.admitted \in Known(folded.reducer) THEN None ELSE page.admitted
    BY <1>5, ReceiveFrameEffect
  <2>2. page.reducer \in Reducers /\ folded.reducer = reducer
    BY PageFacts DEF Pages
  <2>3. /\ reducer.conversation = page.reducer.conversation /\ reducer.from = page.reducer.from
        /\ reducer.at = page.reducer.at + 1 /\ page.reducer.at \in Nat /\ page.reducer.from \in Nat
        /\ page.reducer.conversation \in Conversations
    BY <2>1, <2>2, PageFacts DEF Reducers, Tidy
  <2> HIDE DEF reducer
  <2>4. reducer # NoReducer
    BY <2>3, NothingTyped, Numbers
  <2>5. Folded(page.reducer) \subseteq Folded(reducer)
    BY <2>1, <2>3, <2>4 DEF Folded
  <2>6. Known(page.reducer) \subseteq Known(reducer)
    BY <2>3, <2>5 DEF Known
  <2>7. page'.reducer = reducer
    BY <2>1, <2>2 DEF Carries, View
  <2>8. UNCHANGED log
    BY <1>5 DEF ReceiveFrame, serviceVars
  <2>9. Known(page.reducer)' = Known(reducer)
    BY <2>7, <2>8 DEF Known, Folded
  <2> QED
    BY <2>1, <2>2, <2>6, <2>9 DEF Held
<1>6. ASSUME NEW c \in Conversations \cup {None}, Authorized(c) PROVE Held(k)'
  <2>1. page'.reducer = page.reducer /\ (page' = page \/ Grants(page, page', c))
    BY <1>6, AuthorizedEffect DEF Waiting
  <2> QED
    BY <1>1, <2>1 DEF Grants
<1>8. CASE ReadClaim \/ \E c \in Conversations : OtherTurnStarts(c) \/ TurnEnds(c) \/ Delete(c)
  BY <1>1, <1>8 DEF ReadClaim, OtherTurnStarts, TurnEnds, Delete
<1>9. CASE \E c \in Conversations : ReadWindow(c)
  BY <1>1, <1>9, PageFacts DEF ReadWindow, Pages
<1>10. QED
  BY <1>2, <1>3, <1>4, <1>5, <1>6, <1>8, <1>9 DEF Silent

(* A Turn of its own that the page knows of and that runs is active.       *)
LEMMA HeldIsActive ==
  ASSUME PageInv, FoldedInv, NEW k \in Keys, Held(k), ~Ended(k)
  PROVE  Active(page) # None
<1> DEFINE r == page.reducer
<1>1. /\ r \in Reducers
      /\ r # NoReducer => r.conversation # None /\ r.at <= Len(log[r.conversation])
  BY PageFacts DEF Pages, FoldedInv, Tidy
<1>2. Known(r) \subseteq Turns
  BY <1>1, KnownAreTurns, PageFacts
<1>3. k # None
  BY Numbers
<1>4. \A i \in Folded(r) : r.conversation \in Conversations /\ i \in DOMAIN log[r.conversation]
  <2>1. SUFFICES ASSUME NEW i \in Folded(r)
                 PROVE  r.conversation \in Conversations /\ i \in DOMAIN log[r.conversation]
    OBVIOUS
  <2>2. r # NoReducer /\ i \in (r.from + 1) .. r.at
    BY <2>1 DEF Folded
  <2>3. r.conversation \in Conversations /\ r.from \in Nat /\ r.at \in Nat
    BY <1>1, <2>2 DEF Reducers
  <2>4. DOMAIN log[r.conversation] = 1 .. Len(log[r.conversation])
        /\ Len(log[r.conversation]) \in Nat
    BY <2>3, LogsAreSequences, PageFacts
  <2> QED
    BY <1>1, <2>2, <2>3, <2>4
<1>5. k \in Known(r) => k \in Running(r)
  BY <1>4 DEF Running, Ended
<1>6. CASE Running(r) # {}
  BY <1>2, <1>6, Numbers DEF Active, Running
<1>7. CASE Running(r) = {}
  <2>1. page.admitted = k /\ k \notin Known(r)
    BY <1>5, <1>7 DEF Held
  <2> QED
    BY <1>3, <1>7, <2>1 DEF Active
<1>8. QED
  BY <1>6, <1>7

LEMMA OwnTurnCloses ==
  ASSUME VisitorInv, ~page.destroyed, Own, NEW k \in Keys \ history.overlapped,
         requests[k].status = "done", k \in ActiveIn(visitor)
  PROVE  ~SendEnabled(page)
BY HeldIsActive DEF VisitorInv, Own, ActiveIn, SendEnabled, Idle

LEMMA DestroyedStays ==
  ASSUME PageInv, FoldedInv, Next, page.destroyed
  PROVE  page'.destroyed
<1>1. CASE Silent
  BY <1>1, SilentEffect
<1>2. CASE Leaves
  BY <1>2 DEF Leaves, Resets
<1>3. CASE Send \/ RetrySend \/ DiscardSend
  BY <1>3, SendEffect, RetrySendEffect, DiscardSendEffect DEF Carries
<1>4. ASSUME NEW j \in Keys, SendAdmitted(j) PROVE page'.destroyed
  <2> DEFINE c == requests[j].conversation
             bound == [page EXCEPT !.conversationId = c, !.admitted = j, !.pending = NoSend]
  <2>1. bound.destroyed = page.destroyed
    BY PageFacts DEF Pages
  <2> QED
    BY <1>4, <2>1, SendAdmittedEffect DEF Recovers, Carries
<1>5. ASSUME NEW j \in Keys, NEW e \in ErrorKinds,
             SendBusy(j) \/ SendUncertain(j, e) \/ SendRefused(j, e)
      PROVE  page'.destroyed
  BY <1>5, SendBusyEffect, SendUncertainEffect, SendRefusedEffect DEF Carries, Resets
<1>6. CASE StartedOver
  BY <1>6, StartedOverEffect
<1>7. CASE \E j \in Keys : Admit(j) \/ AnswerBusy(j) \/ AdmitLate(j)
  BY <1>7 DEF Admit, AnswerBusy, AdmitLate
<1>8. CASE Misleads
  BY <1>8 DEF Misleads
<1>10. "not_found" \in ErrorKinds
  BY DEF ErrorKinds
<1>9. QED
  BY <1>1, <1>2, <1>3, <1>4, <1>5, <1>6, <1>7, <1>8, <1>10, StepsAreOfKinds
     DEF Kinds, Silent, Service

LEMMA FollowedIsKept ==
  ASSUME VisitorInv, PageInv', Next, LogMoves, ~history'.crossed, Sends, Followed
  PROVE  Followed'
<1>1. /\ PageInv /\ FoldedInv /\ Asked /\ Moves
      /\ page.mode = "host" => visitor = 1
  BY StepsMove DEF VisitorInv, Moves, SameVisitor, Asked, TurnsInv, Visited
<1>2. \A k \in Keys : requests[k].status = "none" => Fresh(k)
  BY DEF Fresh
<1> DEFINE Follows(k) ==
      /\ requests[k].status # "none" => requests'[k].conversation = requests[k].conversation
      /\ requests[k].status = "none" => requests'[k].late = requests[k].late
      /\ Fresh(k)' => Fresh(k) /\ requests'[k].late = requests[k].late
<1>3. \A k \in Keys : Follows(k)
  <2>1. CASE Silent \/ Leaves \/ Misleads \/ DiscardSend \/ StartedOver
    <3>1. requests' = requests
      BY <1>1, <2>1, SilentEffect, StartedOverEffect DEF Leaves, Misleads, DiscardSend, flightVars
    <3> QED
      BY <3>1 DEF Fresh
  <2>2. ASSUME NEW j \in Keys,
               \/ SendAdmitted(j) \/ SendBusy(j)
               \/ \E e \in ErrorKinds : SendUncertain(j, e) \/ SendRefused(j, e)
        PROVE  \A k \in Keys : Follows(k)
    <3>1. Settles(j)
      BY <1>1, <2>2, RequestsSettle
    <3> QED
      BY <3>1 DEF Settles, Fresh, RequestsOut
  <2>3. CASE Send
    <3> DEFINE k == history.sends + 1
    <3>1. k \in Keys /\ requests' = Ask(k, FALSE)
      BY <2>3 DEF Send
    <3>2. /\ requests'[k].status = "out" /\ requests'[k].late = requests[k].late
          /\ \A j \in Keys \ {k} : requests'[j] = requests[j]
      BY <1>1, <3>1, SendIsAsked, PageFacts
    <3>3. requests[k].status = "none"
      <4>1. k > history.sends
        BY <1>1, PageFacts
      <4> QED
        BY <3>1, <4>1 DEF Sends
    <3> HIDE DEF k
    <3> QED
      BY <3>2, <3>3 DEF Fresh
  <2>4. CASE RetrySend
    <3> DEFINE k == page.pending.key
    <3>1. k \in Keys /\ requests' = Ask(k, TRUE)
      BY <1>1, <2>4, RetrySendEffect
    <3>2. /\ requests'[k].status = "out" /\ requests'[k].again
          /\ requests'[k].late = requests[k].late /\ requests'[k].conversation = visitor
          /\ \A j \in Keys \ {k} : requests'[j] = requests[j]
      BY <1>1, <3>1, SendIsAsked, PageFacts
    <3>3. requests[k].conversation = visitor
      BY <1>1, <3>1, Numbers DEF Asked
    <3> HIDE DEF k
    <3> QED
      BY <3>2, <3>3 DEF Fresh
  <2>5. ASSUME NEW j \in Keys, Admit(j) \/ AnswerBusy(j) PROVE \A k \in Keys : Follows(k)
    <3>1. /\ requests[j].status = "out" /\ requests'[j].status \in {"admitted", "busy"}
          /\ requests'[j].status = "busy" => requests'[j].late = requests[j].late
          /\ requests'[j].again = requests[j].again
          /\ \A k \in Keys : requests'[k].conversation = requests[k].conversation
          /\ \A k \in Keys \ {j} : requests'[k] = requests[k]
      BY <1>1, <2>5, RequestIsServed DEF Admit, AnswerBusy
    <3> QED
      BY <3>1 DEF Fresh
  <2>6. ASSUME NEW j \in Keys, AdmitLate(j) PROVE \A k \in Keys : Follows(k)
    <3>1. /\ requests[j].late # {}
          /\ requests'[j].status = requests[j].status /\ requests'[j].again = requests[j].again
          /\ \A k \in Keys : requests'[k].conversation = requests[k].conversation
          /\ \A k \in Keys \ {j} : requests'[k] = requests[k]
      BY <1>1, <2>6, RequestIsServed DEF AdmitLate
    <3>2. ~Fresh(j)
      BY <3>1 DEF Followed
    <3> QED
      BY <3>1, <3>2 DEF Fresh
  <2> QED
    BY <1>1, <2>1, <2>2, <2>3, <2>4, <2>5, <2>6, StepsAreOfKinds DEF Kinds, Silent, Service
<1> HIDE DEF Follows
<1>4. ASSUME NEW k \in Keys, NEW c \in Conversations,
             Started(k, c)' \/ c \in requests'[k].late
      PROVE  c = requests'[k].conversation
  <2>1. CASE requests[k].status = "none"
    <3>1. requests[k].late = {} /\ ~Started(k, c)
      BY <2>1 DEF Sends
    <3>2. ~Started(k, c)'
      BY <1>1, <2>1, <3>1, StartedWere DEF Admits
    <3> QED
      BY <1>3, <1>4, <2>1, <3>1, <3>2 DEF Follows
  <2>2. CASE requests[k].status # "none"
    <3>1. c \in requests[k].late \/ c = requests[k].conversation \/ Started(k, c)
      BY <1>1, <1>4, StartedWere DEF Moves, Admits
    <3>2. c = requests[k].conversation
      BY <3>1 DEF Followed
    <3> QED
      BY <1>3, <2>2, <3>2 DEF Follows
  <2> QED
    BY <2>1, <2>2
<1>5. ASSUME NEW k \in Keys, Fresh(k)'
      PROVE  requests'[k].late = {} /\ \A c \in Conversations : ~Started(k, c)'
  <2>1. /\ Fresh(k) /\ requests'[k].late = requests[k].late
        /\ requests[k].late = {} /\ \A c \in Conversations : ~Started(k, c)
    BY <1>3, <1>5 DEF Follows, Followed
  <2>2. ASSUME NEW c \in Conversations, Started(k, c)' PROVE FALSE
    <3>1. Admits(k, c)
      BY <1>1, <2>1, <2>2, StartedWere
    <3>2. requests'[k].status = "admitted"
      BY <2>1, <3>1 DEF Admits
    <3> QED
      BY <1>5, <3>2 DEF Fresh
  <2> QED
    BY <2>1, <2>2
<1>6. QED
  BY <1>4, <1>5 DEF Followed

(* What the service has deleted stays deleted.                             *)
LEMMA GoneStays ==
  ASSUME AnswersMove
  PROVE  gone \subseteq gone'
BY DEF AnswersMove, Delete

(* A send is forgotten only when it is given up, and not on its way to a   *)
(* Conversation that is there, unless the page has been misled.            *)
LEMMA UnforgottenStays ==
  ASSUME PageInv, PageInv', Unforgotten, requests' = requests,
         gone \subseteq gone', history.overlapped \subseteq history'.overlapped,
         \A k \in history.dropped : k \in history'.dropped,
         history'.misled = 0 => history.misled = 0,
         \/ page'.pending.key = page.pending.key
         \/ page.pending.key = None
         \/ /\ page.pending.key \in history'.dropped
            /\ \/ page.pending.key \notin RequestsOut
               \/ requests[page.pending.key].conversation \in gone
               \/ history'.misled # 0
  PROVE  Unforgotten'
<1>1. RequestsOut' = RequestsOut
  BY DEF RequestsOut
<1>3. SUFFICES ASSUME NEW k \in Keys \ history'.overlapped
      PROVE  /\ k \in RequestsOut
                  /\ \/ k \notin history'.dropped
                     \/ requests[k].conversation \notin gone' /\ history'.misled = 0
                  => page'.pending.key = k
             /\ k \notin history'.dropped /\ requests[k].status = "failed"
                  => page'.pending.key = k
  BY <1>1 DEF Unforgotten
<1>4. k \in Keys \ history.overlapped /\ k # None
  BY <1>3, Numbers
<1>5. ASSUME k \in RequestsOut,
             \/ k \notin history'.dropped
             \/ requests[k].conversation \notin gone' /\ history'.misled = 0
      PROVE  page'.pending.key = k
  <2>1. page.pending.key = k
    BY <1>4, <1>5 DEF Unforgotten
  <2> QED
    BY <1>4, <1>5, <2>1
<1>6. ASSUME k \notin history'.dropped, requests[k].status = "failed"
      PROVE  page'.pending.key = k
  <2>1. page.pending.key = k
    BY <1>4, <1>6 DEF Unforgotten
  <2> QED
    BY <1>4, <1>6, <2>1
<1>7. QED
  BY <1>5, <1>6

LEMMA UnforgottenIsKept ==
  ASSUME VisitorInv, PageInv', Next, LogMoves, AnswersMove, ~history'.crossed,
         Sends, Unforgotten
  PROVE  Unforgotten'
<1>1. /\ PageInv /\ FoldedInv /\ Shown(page) /\ Asked /\ gone \subseteq gone'
      /\ history'.misled = 0 => history.misled = 0
  BY StepsMove, GoneStays, MisledStays DEF VisitorInv, Moves, SameVisitor
<1>2. CASE Silent
  BY <1>1, <1>2, SilentEffect, UnforgottenStays
<1>3. CASE Leaves
  <2>1. /\ requests' = requests /\ HistoryKept /\ page.conversationId # None
        /\ history'.dropped = history.dropped \cup ({page.pending.key} \ {None})
        /\ page'.conversationId = None
    BY <1>3 DEF Leaves, Resets
  <2>2. page.pending.key # None /\ history'.misled = 0
          => requests[page.pending.key].conversation \in gone
    <3>1. SUFFICES ASSUME page.pending.key # None, history'.misled = 0
                   PROVE  requests[page.pending.key].conversation \in gone
      OBVIOUS
    <3>2. history.misled = 0
      BY <1>1, <3>1
    <3>3. page.conversationId \in gone
      BY <2>1, <3>1, <3>2, OnlyTheGoneIsLeft DEF HistoryKept
    <3> QED
      BY <1>1, <2>1, <3>1, <3>3 DEF Shown, Asked
  <2> QED
    BY <1>1, <2>1, <2>2, UnforgottenStays DEF HistoryKept
<1>12. CASE Misleads
  <2>1. /\ requests' = requests /\ HistoryKept /\ history'.misled = history.misled + 1
        /\ history'.dropped = history.dropped \cup ({page.pending.key} \ {None})
    BY <1>12 DEF Misleads, Cleared, flightVars
  <2>2. history'.misled # 0
    BY <1>1, <2>1 DEF PageInv, TypeOK
  <2> QED
    BY <1>1, <2>1, <2>2, UnforgottenStays DEF HistoryKept
<1>4. CASE DiscardSend
  <2>1. /\ requests' = requests /\ HistoryKept /\ page.pending.status = "uncertain"
        /\ history'.dropped = history.dropped \cup {page.pending.key}
    BY <1>1, <1>4, DiscardSendEffect DEF DiscardSend, flightVars
  <2>2. page.pending.key \notin RequestsOut
    BY <2>1 DEF Sends, RequestsOut
  <2> QED
    BY <1>1, <2>1, <2>2, UnforgottenStays DEF HistoryKept
<1>5. CASE StartedOver
  <2>1. /\ requests' = requests /\ Quiet(ReadyAgain)
        /\ history'.overlapped = history.overlapped
        /\ history'.dropped = history.dropped \cup ({page.pending.key} \ {None})
    BY <1>1, <1>5, StartedOverEffect DEF flightVars
  <2>2. RequestsOut = {}
    BY <2>1 DEF Quiet
  <2> QED
    BY <1>1, <2>1, <2>2, UnforgottenStays
<1>6. CASE Send \/ RetrySend
  <2>1. PICK n \in Keys :
          /\ page'.pending.key = n /\ page.pending.key \in {None, n}
          /\ \A k \in Keys \ {n} : requests'[k] = requests[k]
    <3>1. CASE Send
      <4> DEFINE n == history.sends + 1
      <4>1. n \in Keys /\ page.pending.key = None /\ page'.pending.key = n
        BY <1>1, <3>1, SendEffect, NothingTyped
      <4>2. \A k \in Keys \ {n} : requests'[k] = requests[k]
        BY <1>1, <3>1, <4>1, SendIsAsked, PageFacts DEF Send
      <4> QED
        BY <4>1, <4>2
    <3>2. CASE RetrySend
      <4>1. /\ page.pending.key \in Keys /\ page'.pending.key = page.pending.key
            /\ requests' = Ask(page.pending.key, TRUE)
        BY <1>1, <3>2, RetrySendEffect
      <4> QED
        BY <1>1, <4>1, SendIsAsked, PageFacts
    <3> QED
      BY <1>6, <3>1, <3>2
  <2>2. /\ UNCHANGED gone /\ history'.dropped = history.dropped
        /\ history.overlapped \subseteq history'.overlapped
    BY <1>1, <1>6, SendEffect DEF Send, RetrySend, serviceVars
  <2>3. SUFFICES ASSUME NEW k \in Keys \ history'.overlapped, k # n
                 PROVE  /\ ~(/\ k \in RequestsOut'
                             /\ \/ k \notin history.dropped
                                \/ requests[k].conversation \notin gone /\ history'.misled = 0)
                        /\ ~(k \notin history.dropped /\ requests[k].status = "failed")
    BY <2>1, <2>2 DEF Unforgotten
  <2>4. k \in Keys \ history.overlapped /\ page.pending.key # k /\ requests'[k] = requests[k]
    BY <2>1, <2>2, <2>3, Numbers
  <2>5. k \in RequestsOut' => k \in RequestsOut
    BY <2>4 DEF RequestsOut
  <2> QED
    BY <1>1, <2>4, <2>5 DEF Unforgotten
<1>7. ASSUME NEW j \in Keys,
             \/ SendAdmitted(j) \/ SendBusy(j)
             \/ \E e \in ErrorKinds : SendUncertain(j, e) \/ SendRefused(j, e)
      PROVE  Unforgotten'
  <2>1. Settles(j)
    BY <1>1, <1>7, RequestsSettle
  <2>2. /\ j \in RequestsOut /\ UNCHANGED gone
        /\ requests'[j].status \in {"done", "failed", "refused"}
        /\ \A k \in Keys \ {j} : requests'[k] = requests[k]
        /\ history'.overlapped = history.overlapped
        /\ \A k \in history.dropped : k \in history'.dropped
    BY <2>1 DEF Settles, serviceVars
  <2>3. SUFFICES ASSUME NEW k \in Keys \ history.overlapped
                 PROVE  /\ k \in RequestsOut'
                             /\ \/ k \notin history'.dropped
                                \/ requests'[k].conversation \notin gone /\ history'.misled = 0
                             => page'.pending.key = k
                        /\ k \notin history'.dropped /\ requests'[k].status = "failed"
                             => page'.pending.key = k
    BY <2>2 DEF Unforgotten
  <2>4. CASE k # j
    <3>1. page.pending.key # k
      <4>1. page.pending.key = k => RequestsOut \subseteq {k}
        BY <2>3, Numbers DEF Sends
      <4> QED
        BY <2>2, <2>4, <4>1
    <3>2. requests'[k] = requests[k] /\ (k \in RequestsOut' => k \in RequestsOut)
      BY <2>2, <2>4 DEF RequestsOut
    <3> QED
      BY <1>1, <2>2, <3>1, <3>2 DEF Unforgotten
  <2>5. CASE k = j
    <3>1. k \notin RequestsOut'
      BY <2>2, <2>5 DEF RequestsOut
    <3>2. ASSUME k \notin history'.dropped, requests'[k].status = "failed"
          PROVE  page'.pending.key = k
      <4>1. page.pending.key = k
        BY <2>2, <2>5, <3>2 DEF Unforgotten
      <4>2. ~SendAdmitted(j) /\ ~SendBusy(j) /\ \A e \in ErrorKinds : ~SendRefused(j, e)
        BY <1>1, <2>5, <3>2, SendAdmittedEffect, SendBusyEffect, SendRefusedEffect
      <4>3. ASSUME NEW e \in ErrorKinds, SendUncertain(j, e) PROVE page'.pending.key = k
        <5>1. page'.pending = [key |-> j, status |-> "uncertain"]
          BY <1>1, <2>5, <4>1, <4>3, SendUncertainEffect
        <5> QED
          BY <2>5, <5>1
      <4> QED
        BY <1>7, <4>2, <4>3
    <3> QED
      BY <3>1, <3>2
  <2> QED
    BY <2>4, <2>5
<1>8. ASSUME NEW j \in Keys, Admit(j) \/ AnswerBusy(j) \/ AdmitLate(j) PROVE Unforgotten'
  <2>1. page' = page /\ history' = history /\ gone' = gone
    BY <1>8 DEF Admit, AnswerBusy, AdmitLate, serviceVars
  <2>2. \/ requests[j].status = "out" /\ requests'[j].status \in {"admitted", "busy"}
        \/ requests'[j].status = requests[j].status
    BY <1>1, <1>8, RequestIsServed DEF Admit, AnswerBusy
  <2>3. /\ \A k \in Keys \ {j} : requests'[k] = requests[k]
        /\ \A k \in Keys : requests'[k].conversation = requests[k].conversation
    BY <1>1, <1>8, RequestIsServed
  <2>4. RequestsOut' = RequestsOut
    BY <2>2, <2>3 DEF RequestsOut
  <2>5. \A k \in Keys : requests'[k].status = "failed" => requests[k].status = "failed"
    BY <2>2, <2>3
  <2> QED
    BY <2>1, <2>3, <2>4, <2>5 DEF Unforgotten
<1>10. "not_found" \in ErrorKinds
  BY DEF ErrorKinds
<1>11. QED
  BY <1>1, <1>2, <1>3, <1>4, <1>5, <1>6, <1>7, <1>8, <1>12, StepsAreOfKinds
     DEF Kinds, Silent, Service

LEMMA OwnIsKept ==
  ASSUME VisitorInv, PageInv', Next, LogMoves, LogGrows, ~history'.crossed, ~page.destroyed,
         history'.misled = 0, Sends, Followed, Unforgotten, Own
  PROVE  Own'
<1>11. history.misled = 0 /\ history'.misled = history.misled
  BY MisledStays
<1>1. /\ PageInv /\ FoldedInv /\ TurnsInv /\ Shown(page) /\ Asked
      /\ authority.exchange = "init" => Waiting
  BY StepsMove DEF VisitorInv, Moves, SameVisitor
<1>2. visitor \in Conversations /\ visitor # None /\ (visitor \in gone => ActiveIn(visitor) = {})
  BY <1>1, Numbers, PageFacts DEF TurnsInv, Answered, PageInv, TypeOK
<1>3. CASE StartedOver
  <2>1. visitor' = history.latest + 1 /\ UNCHANGED log
    BY <1>1, <1>3, StartedOverEffect
  <2>2. visitor' \in Conversations /\ history.latest \in Nat
    BY <1>1, PageFacts DEF PageInv, TypeOK, Conversations
  <2>3. ~(visitor' <= history.latest)
    BY <2>1, <2>2
  <2>4. Len(log[visitor']) = 0
    BY <1>1, <2>2, <2>3 DEF TurnsInv, Visited
  <2>5. DOMAIN log[visitor'] = {}
    BY <1>1, <2>2, <2>4, LogsAreSequences DEF PageInv
  <2>6. ActiveIn(visitor)' = {}
    BY <2>1, <2>5 DEF ActiveIn, Started
  <2> QED
    BY <2>6 DEF Own
<1>4. ASSUME ~StartedOver, history.overlapped \subseteq history'.overlapped,
             NEW k \in Keys \ history'.overlapped,
             k \in ActiveIn(visitor)', requests'[k] = requests[k], requests[k].status = "done"
      PROVE  /\ visitor' = visitor /\ k \in ActiveIn(visitor)
             /\ page.conversationId = visitor /\ visitor \notin gone
             /\ RequestsOut = {} /\ page.pending = NoSend /\ Held(k)
  <2>1. visitor' = visitor
    BY <1>4, StepsKeepVisitor DEF Kept
  <2>2. k \in ActiveIn(visitor)
    <3>1. PICK c \in Conversations : c = visitor
      BY <1>2
    <3>2. k \in ActiveIn(c)'
      BY <1>4, <2>1, <3>1 DEF ActiveIn
    <3>3. ~Admits(k, c)
      <4>1. SUFFICES ASSUME Admits(k, c) PROVE FALSE
        OBVIOUS
      <4>2. c \in requests[k].late /\ ~Started(k, c)
        BY <1>4, <4>1 DEF Admits
      <4>3. c = requests[k].conversation
        BY <4>2 DEF Followed
      <4>4. Started(k, requests[k].conversation)
        BY <1>1, <1>4 DEF TurnsInv, Answered
      <4> QED
        BY <4>2, <4>3, <4>4
    <3> QED
      BY <1>1, <1>4, <3>1, <3>2, <3>3, ActiveWere
  <2> QED
    BY <1>2, <1>4, <2>1, <2>2 DEF Own
<1>5. CASE Silent /\ ~StartedOver
  <2>1. /\ requests' = requests /\ page'.pending = page.pending
        /\ history'.overlapped = history.overlapped /\ history'.latest = history.latest
    BY <1>1, <1>5, SilentEffect
  <2>2. RequestsOut' = RequestsOut
    BY <2>1 DEF RequestsOut
  <2>3. ASSUME NEW k \in Keys \ history'.overlapped,
               requests'[k].status = "done", k \in ActiveIn(visitor)'
        PROVE  /\ page'.conversationId = visitor' /\ RequestsOut' = {}
               /\ page'.pending = NoSend /\ Held(k)'
    <3>1. /\ visitor' = visitor /\ page.conversationId = visitor /\ visitor \notin gone
          /\ RequestsOut = {} /\ page.pending = NoSend /\ Held(k)
      BY <1>4, <1>5, <2>1, <2>3
    <3>2. page'.conversationId = visitor
      BY <1>2, <1>11, <2>1, <3>1, OnlyTheGoneIsLeft
    <3>3. Held(k)'
      BY <1>1, <1>5, <3>1, HeldStays
    <3> QED
      BY <2>1, <2>2, <3>1, <3>2, <3>3
  <2> QED
    BY <2>3 DEF Own
<1>6. CASE (Leaves \/ DiscardSend \/ Send \/ RetrySend) /\ ~StartedOver
  <2>1. ASSUME NEW k \in Keys \ history'.overlapped,
               requests'[k].status = "done", k \in ActiveIn(visitor)'
        PROVE  FALSE
    <3>1. history.overlapped \subseteq history'.overlapped
      <4>1. CASE Send
        BY <1>1, <4>1, SendEffect
      <4>2. CASE DiscardSend
        BY <1>1, <4>2, DiscardSendEffect DEF HistoryKept
      <4>3. CASE Leaves \/ RetrySend
        BY <4>3 DEF Leaves, RetrySend, HistoryKept
      <4> QED
        BY <1>6, <4>1, <4>2, <4>3
    <3>2. requests'[k] = requests[k]
      <4>1. CASE Leaves \/ DiscardSend
        BY <4>1 DEF Leaves, DiscardSend, flightVars
      <4>2. CASE Send
        <5> DEFINE n == history.sends + 1
        <5>1. n \in Keys /\ requests' = Ask(n, FALSE)
          BY <4>2 DEF Send
        <5>2. requests'[n].status = "out" /\ \A j \in Keys \ {n} : requests'[j] = requests[j]
          BY <1>1, <5>1, SendIsAsked, PageFacts
        <5> QED
          BY <2>1, <5>2
      <4>3. CASE RetrySend
        <5> DEFINE n == page.pending.key
        <5>1. n \in Keys /\ requests' = Ask(n, TRUE)
          BY <1>1, <4>3, RetrySendEffect
        <5>2. requests'[n].status = "out" /\ \A j \in Keys \ {n} : requests'[j] = requests[j]
          BY <1>1, <5>1, SendIsAsked, PageFacts
        <5> QED
          BY <2>1, <5>2
      <4> QED
        BY <1>6, <4>1, <4>2, <4>3
    <3>3. /\ k \in ActiveIn(visitor) /\ page.conversationId = visitor /\ visitor \notin gone
          /\ page.pending = NoSend
      BY <1>4, <1>6, <2>1, <3>1, <3>2
    <3>4. ~Leaves
      <4>1. SUFFICES ASSUME Leaves PROVE FALSE
        OBVIOUS
      <4>2. page'.conversationId # visitor /\ history'.latest = history.latest
        BY <1>2, <4>1 DEF Leaves, Resets, HistoryKept
      <4> QED
        BY <1>2, <1>11, <3>3, <4>2, OnlyTheGoneIsLeft
    <3>5. ~Send
      BY <2>1, <3>1, <3>2, <3>3, OwnTurnCloses DEF Send
    <3>6. ~DiscardSend /\ ~RetrySend
      BY <1>1, <3>3, NothingTyped, DiscardSendEffect, RetrySendEffect
    <3> QED
      BY <1>6, <3>4, <3>5, <3>6
  <2> QED
    BY <2>1 DEF Own
<1>7. ASSUME ~StartedOver, NEW j \in Keys,
             \/ SendAdmitted(j) \/ SendBusy(j)
             \/ \E e \in ErrorKinds : SendUncertain(j, e) \/ SendRefused(j, e)
      PROVE  Own'
  <2>1. Settles(j)
    BY <1>1, <1>7, RequestsSettle
  <2>2. /\ j \in RequestsOut /\ UNCHANGED <<log, visitor, gone>>
        /\ \A k \in Keys \ {j} : requests'[k] = requests[k]
        /\ history'.overlapped = history.overlapped
    BY <2>1 DEF Settles, serviceVars
  <2>3. SUFFICES ASSUME NEW k \in Keys \ history.overlapped,
                        requests'[k].status = "done", k \in ActiveIn(visitor)'
                 PROVE  /\ page'.conversationId = visitor /\ RequestsOut' = {}
                        /\ page'.pending = NoSend /\ Held(k)'
    BY <2>2 DEF Own
  <2>4. k = j
    BY <1>4, <1>7, <2>2, <2>3
  <2>5. SendAdmitted(j)
    BY <1>1, <1>7, <2>3, <2>4, SendBusyEffect, SendUncertainEffect, SendRefusedEffect
  <2>6. requests[j].conversation = visitor
    BY <1>1, <2>2 DEF Asked
  <2>7. visitor \notin gone
    BY <1>2, <2>2, <2>3 DEF ActiveIn, Started, Ended
  <2>8. page.pending.key = j /\ RequestsOut \subseteq {j}
    BY <1>11, <2>2, <2>3, <2>4, <2>6, <2>7, Numbers DEF Unforgotten, Sends
  <2>9. RequestsOut' = {}
    BY <2>2, <2>3, <2>4, <2>8 DEF RequestsOut
  <2>10. page'.conversationId = visitor /\ page'.admitted = j /\ page'.pending = NoSend
    <3> DEFINE c == requests[j].conversation
               bound == [page EXCEPT !.conversationId = c, !.admitted = j, !.pending = NoSend]
    <3>1. bound.conversationId = c /\ bound.admitted = j /\ bound.pending = NoSend
      BY <1>1, PageFacts DEF Pages
    <3>2. Recovers(bound, page')
      BY <1>1, <2>5, SendAdmittedEffect
    <3> QED
      BY <2>6, <3>1, <3>2 DEF Recovers, Carries, View
  <2> QED
    BY <2>4, <2>9, <2>10 DEF Held
<1>8. ASSUME ~StartedOver, NEW j \in Keys, Admit(j) \/ AnswerBusy(j) PROVE Own'
  <2>1. requests[j].status = "out" /\ history' = history
    BY <1>8 DEF Admit, AnswerBusy
  <2>2. /\ requests'[j].status \in {"admitted", "busy"}
        /\ \A k \in Keys \ {j} : requests'[k] = requests[k]
    BY <1>1, <1>8, RequestIsServed
  <2>3. ASSUME NEW k \in Keys \ history'.overlapped,
               requests'[k].status = "done", k \in ActiveIn(visitor)'
        PROVE  FALSE
    <3>1. requests'[k] = requests[k]
      BY <2>2, <2>3
    <3>2. RequestsOut = {}
      BY <1>4, <1>8, <2>1, <2>3, <3>1
    <3> QED
      BY <2>1, <3>2 DEF RequestsOut
  <2> QED
    BY <2>3 DEF Own
<1>12. ASSUME ~StartedOver, NEW j \in Keys, AdmitLate(j) PROVE Own'
  <2>1. PICK c \in requests[j].late :
          /\ ~Started(j, c) /\ ActiveIn(c) = {} /\ c \in requests[j].late
          /\ page' = page /\ history' = history
    BY <1>12 DEF AdmitLate
  <2>2. /\ requests'[j].status = requests[j].status
        /\ \A k \in Keys \ {j} : requests'[k] = requests[k]
    BY <1>1, <1>12, RequestIsServed
  <2>3. requests[j].status # "done"
    <3>1. requests[j].conversation = c
      BY <1>1, <2>1, PageFacts DEF Followed, Requests
    <3> QED
      BY <1>1, <2>1, <3>1 DEF TurnsInv, Answered
  <2>4. RequestsOut' = RequestsOut
    BY <2>2 DEF RequestsOut
  <2>5. ASSUME NEW k \in Keys \ history'.overlapped,
               requests'[k].status = "done", k \in ActiveIn(visitor)'
        PROVE  /\ page'.conversationId = visitor' /\ RequestsOut' = {}
               /\ page'.pending = NoSend /\ Held(k)'
    <3>1. requests'[k] = requests[k]
      BY <2>2, <2>3, <2>5
    <3>2. /\ visitor' = visitor /\ page.conversationId = visitor
          /\ RequestsOut = {} /\ page.pending = NoSend /\ Held(k)
      BY <1>4, <1>12, <2>1, <2>5, <3>1
    <3>3. Held(k)'
      BY <1>1, <2>1, <3>2, KnownStays DEF Held
    <3> QED
      BY <2>1, <2>4, <3>2, <3>3
  <2> QED
    BY <2>5 DEF Own
<1>9. "not_found" \in ErrorKinds
  BY DEF ErrorKinds
<1>13. ~Misleads
  BY <1>1, <1>11 DEF Misleads, Cleared
<1>10. QED
  BY <1>1, <1>3, <1>5, <1>6, <1>7, <1>8, <1>12, <1>13, StepsAreOfKinds DEF Kinds, Silent, Service

LEMMA SendsStutter == Sends /\ SendsInv /\ UNCHANGED vars => Sends' /\ SendsInv'
<1> SUFFICES ASSUME Sends, SendsInv, UNCHANGED vars PROVE Sends' /\ SendsInv'
  OBVIOUS
<1>1. UNCHANGED <<page, authority, requests, log, gone, visitor, history>>
  BY DEF vars, flightVars, serviceVars
<1>2. RequestsOut' = RequestsOut
  BY <1>1 DEF RequestsOut
<1>3. Sends'
  BY <1>1, <1>2 DEF Sends, Started
<1>4. Followed => Followed'
  BY <1>1 DEF Followed, Fresh, Started
<1>5. Unforgotten => Unforgotten'
  BY <1>1, <1>2 DEF Unforgotten, Started
<1>6. \A k \in Keys : Held(k) => Held(k)'
  BY <1>1 DEF Held, Known, Folded
<1>7. ActiveIn(visitor)' = ActiveIn(visitor)
  BY <1>1 DEF ActiveIn, Started, Ended
<1>8. Own => Own'
  BY <1>1, <1>2, <1>6, <1>7 DEF Own
<1>9. QED
  BY <1>1, <1>3, <1>4, <1>5, <1>8 DEF SendsInv

LEMMA SendsAreSound == Spec => [](VisitorInv /\ Sends /\ SendsInv)
<1>1. Init => Sends /\ SendsInv
  BY InitSends, InitSendsInv
<1>2. ASSUME VisitorInv, Sends, SendsInv, Next PROVE Sends' /\ SendsInv'
  <2>1. PageInv /\ FoldedInv /\ PageInv' /\ LogGrows
    BY <1>2, FoldedIsKept DEF VisitorInv
  <2>2. Moves /\ AnswersMove /\ LogMoves
    BY <1>2, <2>1, StepsMove, StepsAnswer
  <2>3. Sends'
    BY <1>2, <2>1, <2>2, SendsIsKept
  <2>4. ASSUME ~history'.crossed
        PROVE  /\ Followed'
               /\ ~page'.destroyed => Unforgotten' /\ (history'.misled = 0 => Own')
    <3>1. /\ Followed
          /\ ~page.destroyed => Unforgotten /\ (history.misled = 0 => Own)
      BY <1>2, <2>2, <2>4 DEF Moves, SendsInv
    <3>2. Followed'
      BY <1>2, <2>1, <2>2, <2>4, <3>1, FollowedIsKept
    <3>3. ASSUME ~page'.destroyed PROVE Unforgotten' /\ (history'.misled = 0 => Own')
      <4>1. ~page.destroyed
        BY <1>2, <2>1, <3>3, DestroyedStays
      <4>2. Unforgotten'
        BY <1>2, <2>1, <2>2, <2>4, <3>1, <4>1, UnforgottenIsKept
      <4>3. history'.misled = 0 => Own'
        BY <1>2, MisledStays, <2>1, <2>2, <2>4, <3>1, <4>1, OwnIsKept
      <4> QED
        BY <4>2, <4>3
    <3> QED
      BY <3>2, <3>3
  <2> QED
    BY <2>3, <2>4 DEF SendsInv
<1>3. VisitorInv /\ VisitorInv' /\ Sends /\ SendsInv /\ [Next]_vars => Sends' /\ SendsInv'
  BY <1>2, SendsStutter
<1>4. QED
  BY <1>1, <1>3, VisitorIsSound, PTL DEF Spec

(* From the receipt of its admission to the report of its end, the page's  *)
(* own Turn keeps the composer closed, unless the page was reset for the   *)
(* "not found" of something else.                                          *)
THEOREM OwnTurnHoldsComposer == Spec => []OwnTurnClosesComposer
<1>1. VisitorInv /\ SendsInv => OwnTurnClosesComposer
  <2>1. SUFFICES ASSUME VisitorInv, SendsInv, ~history.crossed, history.misled = 0,
                        NEW k \in Keys \ history.overlapped, requests[k].status = "done",
                        requests[k].conversation = page.conversationId,
                        k \in ActiveIn(page.conversationId)
                 PROVE  ~SendEnabled(page)
    BY DEF OwnTurnClosesComposer
  <2>2. page.conversationId \in Conversations
    BY <2>1, PageFacts DEF VisitorInv, PageInv, Bookkeeping, Requests
  <2>3. page.conversationId = visitor
    BY <2>1, <2>2, Numbers DEF VisitorInv, SameVisitor, Shown
  <2>4. CASE page.destroyed
    BY <2>4 DEF SendEnabled, Allowed
  <2>5. CASE ~page.destroyed
    BY <2>1, <2>3, <2>5, OwnTurnCloses DEF SendsInv
  <2> QED
    BY <2>4, <2>5
<1>2. QED
  BY <1>1, SendsAreSound, PTL

(* A Turn that the service has admitted, however late, is acknowledged or  *)
(* still has its key on the page for a retry, unless its send was          *)
(* discarded, reset away, or given up because a retry was refused or found *)
(* the Conversation busy.  A send refused at its first attempt is never    *)
(* admitted.                                                               *)
THEOREM PageKeepsItsTurn == Spec => []OwnTurnIsKept
<1>1. VisitorInv /\ Sends /\ SendsInv => OwnTurnIsKept
  <2>1. SUFFICES ASSUME VisitorInv, Sends, SendsInv, ~history.crossed, ~page.destroyed,
                        NEW k \in Keys \ (history.overlapped \cup history.dropped),
                        NEW c \in Conversations, Started(k, c)
                 PROVE  \/ page.pending.key = k \/ requests[k].status = "done"
                        \/ requests[k].status = "refused" /\ requests[k].again
    BY DEF OwnTurnIsKept
  <2>2. Followed /\ Unforgotten
    BY <2>1 DEF SendsInv
  <2>3. requests[k].status \in Statuses \ {"none"}
    BY <2>1, PageFacts DEF VisitorInv, Requests, Sends
  <2>4. CASE requests[k].status \in {"out", "admitted", "busy"}
    BY <2>1, <2>2, <2>4 DEF Unforgotten, RequestsOut
  <2>5. CASE requests[k].status = "failed"
    BY <2>1, <2>2, <2>5 DEF Unforgotten
  <2>6. CASE requests[k].status = "refused"
    BY <2>1, <2>2, <2>6 DEF Followed, Fresh
  <2> QED
    BY <2>3, <2>4, <2>5, <2>6 DEF Statuses
<1>2. QED
  BY <1>1, SendsAreSound, PTL
=============================================================================
