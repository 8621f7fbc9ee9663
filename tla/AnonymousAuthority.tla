-------------------------- MODULE AnonymousAuthority --------------------------
(***************************************************************************)
(* `AnonymousAuthority` of the TypeScript SDK: how the pages of one        *)
(* browser come to be one visitor.  The visitor's token is in storage that *)
(* all pages share; the pages of one runtime share the exchange that is in *)
(* flight, and runtimes take turns by a web lock.                          *)
(*                                                                         *)
(* Simplifications.  A token is its visitor's number, a grant the visitor  *)
(* it is for.  Of time there is only that a timer fires, and that an       *)
(* access token may have expired when a renewal fails.  Every browser has  *)
(* web locks, storage that does not fail, and one kind of storage for all  *)
(* pages.                                                                  *)
(***************************************************************************)
EXTENDS Naturals, FiniteSets

CONSTANTS
  Pages,        (* controllers                                             *)
  Runtimes,     (* processes with a flight map of their own                *)
  RuntimeOf,    (* the runtime of each page                                *)
  NoPage,       (* the owner of no exchange                                *)
  MaxExchanges, (* bound: logical exchanges                                *)
  MaxLost,      (* bound: answers that are lost                            *)
  MaxRevoked,   (* bound: visitors whose token the service refuses         *)
  MaxStartOvers (* bound: start overs                                      *)

ASSUME RuntimeAssumption == RuntimeOf \in [Pages -> Runtimes]
ASSUME NoPageAssumption == NoPage \notin Pages
ASSUME BoundsAssumption ==
  /\ MaxExchanges \in Nat /\ MaxLost \in Nat
  /\ MaxRevoked \in Nat /\ MaxStartOvers \in Nat

None == 0           (* no token                                            *)
Keys == 1 .. (MaxExchanges + MaxLost)
Visitors == Keys    (* a visitor is minted under the key of an exchange    *)

VARIABLES
  stored,     (* the visitor token in storage                              *)
  pages,      (* the fields of each controller                             *)
  flights,    (* anonymousFlights: the exchange of each runtime            *)
  overs,      (* the exchange of each page that starts over                *)
  minted,     (* service: visitors, and so the keys that were answered     *)
  revoked,    (* service: visitors whose token is refused                  *)
  history     (* what has happened, for the bounds and the properties      *)

vars == <<stored, pages, flights, overs, minted, revoked, history>>

Page ==
  [state: {"new", "idle", "waiting", "deleting"}, again: BOOLEAN,
   token: Visitors \cup {None}, timer: BOOLEAN, exposed: BOOLEAN,
   destroyed: BOOLEAN]

Exchange ==
  [status: {"none", "queued", "asking", "granted", "refused", "failed"},
   owner: Pages \cup {NoPage}, members: SUBSET Pages, key: Keys \cup {None},
   sent: Visitors \cup {None}, visitor: Visitors \cup {None}]

Over == [status: {"none", "asking", "granted"}, key: Keys \cup {None}]

TypeOK ==
  /\ stored \in Visitors \cup {None}
  /\ pages \in [Pages -> Page]
  /\ flights \in [Runtimes -> Exchange]
  /\ overs \in [Pages -> Over]
  /\ minted \subseteq Visitors
  /\ revoked \subseteq Visitors
  /\ history \in [exchanges: Nat, lost: Nat, overs: Nat, gaveUp: BOOLEAN,
                  orphaned: BOOLEAN, overtaken: BOOLEAN, unshown: BOOLEAN,
                  stopped: SUBSET Pages]

NoFlight == [status |-> "none", owner |-> NoPage, members |-> {},
             key |-> None, sent |-> None, visitor |-> None]
NoOver   == [status |-> "none", key |-> None]

Init ==
  /\ stored = None
  /\ pages = [p \in Pages |-> [state |-> "new", again |-> FALSE, token |-> None,
                timer |-> FALSE, exposed |-> FALSE, destroyed |-> FALSE]]
  /\ flights = [r \in Runtimes |-> NoFlight]
  /\ overs = [p \in Pages |-> NoOver]
  /\ minted = {}
  /\ revoked = {}
  /\ history = [exchanges |-> 0, lost |-> 0, overs |-> 0, gaveUp |-> FALSE,
                orphaned |-> FALSE, overtaken |-> FALSE, unshown |-> FALSE,
                stopped |-> {}]

-----------------------------------------------------------------------------
(* coordinatedExchange: the flight of the runtime, or a new one.           *)

Join(p) ==
  LET r == RuntimeOf[p]
      f == flights[r]
  IN flights' = [flights EXCEPT ![r] =
       IF f.status = "none"
         THEN [NoFlight EXCEPT !.status = "queued", !.owner = p, !.members = {p}]
         ELSE [f EXCEPT !.members = f.members \cup {p}]]

Ask(p) ==
  /\ Join(p)
  /\ UNCHANGED <<stored, overs, minted, revoked, history>>

(* A page authorizes when it is made, when its timer fires, and when it     *)
(* has no access token, or one that has expired, and needs one.            *)
Open(p) ==
  /\ pages[p].state = "new"
  /\ pages' = [pages EXCEPT ![p].state = "waiting"]
  /\ Ask(p)

Renew(p) ==
  /\ pages[p].timer /\ pages[p].state = "idle"
  /\ pages' = [pages EXCEPT ![p] =
                [@ EXCEPT !.state = "waiting", !.again = FALSE, !.timer = FALSE]]
  /\ Ask(p)

RetryAuthorization(p) ==
  /\ pages[p].state = "idle" /\ ~pages[p].destroyed
  /\ pages' = [pages EXCEPT ![p] = [@ EXCEPT !.state = "waiting", !.again = FALSE]]
  /\ Ask(p)

-----------------------------------------------------------------------------
(* exchangeStored, under the web lock.                                     *)

Holding == {r \in Runtimes : flights[r].status \in {"asking", "granted", "refused"}}

NewKey == history.exchanges + 1

BeginExchange(r) ==
  /\ flights[r].status = "queued"
  /\ NewKey <= MaxExchanges
  /\ IF pages[flights[r].owner].destroyed
       THEN /\ flights' = [flights EXCEPT ![r].status = "failed"]
            /\ UNCHANGED history
       ELSE /\ flights' = [flights EXCEPT ![r] =
                 [@ EXCEPT !.status = "asking", !.key = NewKey, !.sent = stored]]
            /\ history' = [history EXCEPT !.exchanges = NewKey]
  /\ UNCHANGED <<stored, pages, overs, minted, revoked>>

(* Faulty: nobody waits for the lock.                                      *)
LockUnheld(r) == BeginExchange(r)

Lock(r) == Holding = {} /\ BeginExchange(r)

(* The service: a key that was answered has the same answer again.         *)
Issue(r) ==
  LET f == flights[r]
  IN /\ f.status = "asking"
     /\ flights' = [flights EXCEPT ![r] =
          IF f.key \in minted             THEN [f EXCEPT !.status = "granted", !.visitor = f.key]
          ELSE IF f.sent = None           THEN [f EXCEPT !.status = "granted", !.visitor = f.key]
          ELSE IF f.sent \notin revoked   THEN [f EXCEPT !.status = "granted", !.visitor = f.sent]
          ELSE [f EXCEPT !.status = "refused"]]
     /\ minted' = IF f.sent = None THEN minted \cup {f.key} ELSE minted
     /\ UNCHANGED <<stored, pages, overs, revoked, history>>

(* Faulty: a new key for every attempt.                                    *)
AskAgainAnew(f) ==
  [f EXCEPT !.status = "asking", !.visitor = None,
            !.key = MaxExchanges + history.lost + 1]

(* One key for the whole logical exchange.                                 *)
AskAgain(f) == [f EXCEPT !.status = "asking", !.visitor = None]

(* No answer comes: the exchange is repeated, or given up after its        *)
(* horizon.                                                                *)
LoseAnswer(r) ==
  /\ flights[r].status \in {"asking", "granted"}
  /\ history.lost < MaxLost
  /\ \E givenUp \in {pages[flights[r].owner].destroyed, TRUE} :
       /\ flights' = [flights EXCEPT ![r] =
            IF givenUp THEN [@ EXCEPT !.status = "failed"] ELSE AskAgain(@)]
       /\ history' = [history EXCEPT !.lost = @ + 1, !.gaveUp = @ \/ givenUp]
  /\ UNCHANGED <<stored, pages, overs, minted, revoked>>

-----------------------------------------------------------------------------
(* How an exchange ends for the pages that share it.                       *)

Deleting == {p \in Pages : pages[p].state = "deleting"}

(* Faulty: the new access token has no timer.                              *)
ApplyOnce(page, v, named) ==
  IF page.destroyed THEN [page EXCEPT !.state = "idle"]
  ELSE [page EXCEPT !.state = "idle", !.token = v, !.exposed = @ \/ named]

(* applyGrant.  A grant may name a Conversation that exists already.       *)
ApplyGrant(page, v, named) ==
  IF page.destroyed THEN [page EXCEPT !.state = "idle"]
  ELSE [page EXCEPT !.state = "idle", !.token = v, !.timer = TRUE,
                    !.exposed = @ \/ named]

(* A page that was destroyed stores nothing, be it for others.             *)
Granted(r, named) ==
  LET f == flights[r]
      stores == ~pages[f.owner].destroyed
  IN /\ f.status = "granted"
     /\ stored' = IF stores THEN f.visitor ELSE stored
     /\ pages' = [p \in Pages |-> IF p \in f.members
                    THEN ApplyGrant(pages[p], f.visitor, named) ELSE pages[p]]
     /\ flights' = [flights EXCEPT ![r] = NoFlight]
     /\ history' = [history EXCEPT !.orphaned = @ \/ ~stores,
                                   !.overtaken = @ \/ Deleting # {},
                                   !.stopped = @ \ f.members]
     /\ UNCHANGED <<overs, minted, revoked>>

(* authorize fails: a token that is still good is kept, and renewed later. *)
Failed(page, expired) ==
  IF page.destroyed THEN [page EXCEPT !.state = "idle"]
  ELSE IF page.token = None \/ expired
    THEN [page EXCEPT !.state = "idle", !.token = None]
  ELSE [page EXCEPT !.state = "idle", !.timer = TRUE]

NotGranted(r, expired) ==
  /\ flights[r].status = "failed"
  /\ pages' = [p \in Pages |-> IF p \in flights[r].members
                 THEN Failed(pages[p], expired) ELSE pages[p]]
  /\ flights' = [flights EXCEPT ![r] = NoFlight]
  /\ UNCHANGED <<stored, overs, minted, revoked, history>>

(* Faulty: whatever the page shows, its visitor is dropped.                *)
DropsAlways(page) == ~page.again /\ stored # None

(* exchangeWithRecovery: a stored token that is refused is only safe to    *)
(* drop while nothing has been shown of its Conversation.                  *)
Drops(page) == ~page.exposed /\ ~page.again /\ stored # None

Refused(r, expired) ==
  /\ flights[r].status = "refused"
  /\ pages' = [p \in Pages |->
       IF p \notin flights[r].members THEN pages[p]
       ELSE IF Drops(pages[p]) THEN [pages[p] EXCEPT !.state = "deleting"]
       ELSE Failed(pages[p], expired)]
  /\ flights' = [flights EXCEPT ![r] = NoFlight]
  /\ history' = [history EXCEPT !.unshown =
       @ \/ \E p \in flights[r].members : Drops(pages[p]) /\ ~pages[p].exposed]
  /\ UNCHANGED <<stored, overs, minted, revoked>>

(* safeDelete, with no lock, of whatever is in storage by now.             *)
DropStored(p) ==
  /\ pages[p].state = "deleting"
  /\ stored' = None
  /\ pages' = [pages EXCEPT ![p] = [@ EXCEPT !.state = "waiting", !.again = TRUE]]
  /\ Join(p)
  /\ UNCHANGED <<overs, minted, revoked, history>>

-----------------------------------------------------------------------------
(* Starting over: an exchange without a token, without lock or flight.     *)

StartOver(p) ==
  /\ ~pages[p].destroyed /\ pages[p].state # "new" /\ overs[p] = NoOver
  /\ history.overs < MaxStartOvers /\ NewKey <= MaxExchanges
  /\ overs' = [overs EXCEPT ![p] = [status |-> "asking", key |-> NewKey]]
  /\ pages' = [pages EXCEPT ![p].timer = FALSE]
  /\ history' = [history EXCEPT !.exchanges = NewKey, !.overs = @ + 1]
  /\ UNCHANGED <<stored, flights, minted, revoked>>

IssueOver(p) ==
  /\ overs[p].status = "asking"
  /\ overs' = [overs EXCEPT ![p].status = "granted"]
  /\ minted' = minted \cup {overs[p].key}
  /\ UNCHANGED <<stored, pages, flights, revoked, history>>

(* The exchange comes first: stored continuity is overwritten only once it *)
(* has succeeded.                                                          *)
StartedOver(p) ==
  /\ overs[p].status = "granted"
  /\ overs' = [overs EXCEPT ![p] = NoOver]
  /\ IF pages[p].destroyed
       THEN UNCHANGED <<stored, pages, history>>
       ELSE /\ stored' = overs[p].key
            /\ pages' = [pages EXCEPT ![p] =
                 [@ EXCEPT !.token = overs[p].key, !.timer = TRUE, !.exposed = FALSE]]
            /\ history' = [history EXCEPT !.stopped = @ \ {p},
                 !.overtaken = @ \/ Deleting # {} \/ Holding # {}]
  /\ UNCHANGED <<flights, minted, revoked>>

NotStartedOver(p) ==
  /\ overs[p].status # "none" /\ history.lost < MaxLost
  /\ overs' = [overs EXCEPT ![p] = NoOver]
  /\ history' = [history EXCEPT !.lost = @ + 1, !.stopped = @ \cup {p}]
  /\ UNCHANGED <<stored, pages, flights, minted, revoked>>

-----------------------------------------------------------------------------
(* The controller has read a window of the Conversation.                   *)
MarkExposed(p) ==
  /\ pages[p].token # None /\ ~pages[p].exposed
  /\ pages' = [pages EXCEPT ![p].exposed = TRUE]
  /\ UNCHANGED <<stored, flights, overs, minted, revoked, history>>

Destroy(p) ==
  /\ ~pages[p].destroyed /\ pages[p].state # "new"
  /\ pages' = [pages EXCEPT ![p] =
                [@ EXCEPT !.destroyed = TRUE, !.token = None, !.timer = FALSE]]
  /\ UNCHANGED <<stored, flights, overs, minted, revoked, history>>

Revoke(v) ==
  /\ v \in minted \ revoked
  /\ Cardinality(revoked) < MaxRevoked
  /\ revoked' = revoked \cup {v}
  /\ UNCHANGED <<stored, pages, flights, overs, minted, history>>

Next ==
  \/ \E p \in Pages :
       \/ Open(p) \/ Renew(p) \/ RetryAuthorization(p) \/ DropStored(p)
       \/ StartOver(p) \/ IssueOver(p) \/ StartedOver(p) \/ NotStartedOver(p)
       \/ MarkExposed(p) \/ Destroy(p)
  \/ \E r \in Runtimes :
       \/ Lock(r) \/ Issue(r) \/ LoseAnswer(r)
       \/ \E b \in BOOLEAN : Granted(r, b) \/ NotGranted(r, b) \/ Refused(r, b)
  \/ \E v \in Visitors : Revoke(v)

Spec == Init /\ [][Next]_vars

-----------------------------------------------------------------------------
(* Properties.                                                             *)

(* However many pages open at once, in however many tabs, and however      *)
(* often an answer is lost, the service mints one visitor: unless somebody *)
(* starts over, the service refuses a token, an exchange is given up, or   *)
(* the page that began an exchange is destroyed before it can store what   *)
(* the others share.                                                       *)
OneVisitor ==
  Cardinality(minted) > 1 =>
    history.overs > 0 \/ revoked # {} \/ history.gaveUp \/ history.orphaned

(* A returning visitor is not lost: a stored token that the service still  *)
(* takes is replaced or deleted only by a page that has started over, or   *)
(* by an exchange or a recovery that such a page, or one in another tab    *)
(* that stored a token of its own, has overtaken.                          *)
ContinuityKept ==
  [][stored' # stored =>
       \/ stored \in revoked \cup {None}
       \/ history'.overtaken
       \/ \E p \in Pages : StartedOver(p)]_vars

(* A page that has shown something of its visitor's Conversation does not  *)
(* come to speak for another visitor behind it.  It does if this or        *)
(* another page starts over, if the recovery of a page that has shown      *)
(* nothing drops the token for all, and if the token was never stored.     *)
ShownVisitorIsKept ==
  [][\A p \in Pages :
       pages[p].exposed /\ pages[p].token # None =>
         \/ pages'[p].token \in {None, pages[p].token}
         \/ history.overs > 0 \/ history.unshown \/ history.orphaned]_vars

(* Authorization does not run out unseen: a page that has an access token, *)
(* and neither asks for one nor starts over, has its renewal scheduled.    *)
(* The exception is the page whose start over failed: that has cancelled   *)
(* the renewal of the visitor it keeps.                                    *)
RenewalGoesOn ==
  \A p \in Pages :
    pages[p].token # None /\ pages[p].state = "idle" /\ overs[p] = NoOver =>
      pages[p].timer \/ p \in history.stopped
=============================================================================
