----------------------- MODULE AnonymousAuthorityProofs -----------------------
(***************************************************************************)
(* The pages of a browser are one visitor, the visitor a page shows is not *)
(* dropped behind its back, and a page with an access token has its        *)
(* renewal scheduled, for any pages, runtimes and bounds.                  *)
(***************************************************************************)
EXTENDS AnonymousAuthority, FiniteSetTheorems, TLAPS

-----------------------------------------------------------------------------
(* Types.  A key in use is one that an exchange has taken.                 *)

Taken == 1 .. history.exchanges

KeysTaken ==
  /\ history.exchanges <= MaxExchanges
  /\ minted \subseteq Taken
  /\ \A r \in Runtimes : flights[r].status \in {"asking", "granted", "refused"}
                           => flights[r].key \in Taken
  /\ \A p \in Pages : overs[p].status # "none" => overs[p].key \in Taken

Typed == TypeOK /\ KeysTaken

LEMMA PageFunctions ==
  ASSUME NEW page \in Page, NEW v \in Visitors \cup {None}, NEW b \in BOOLEAN
  PROVE  ApplyGrant(page, v, b) \in Page /\ Failed(page, b) \in Page
BY DEF ApplyGrant, Failed, Page

LEMMA PageUpdates ==
  ASSUME NEW page \in Page, NEW v \in Visitors \cup {None}
  PROVE  /\ [page EXCEPT !.token = v, !.timer = TRUE, !.exposed = FALSE] \in Page
         /\ [page EXCEPT !.destroyed = TRUE, !.token = None, !.timer = FALSE] \in Page
         /\ [page EXCEPT !.exposed = TRUE] \in Page
BY DEF Page

LEMMA PageReplaced ==
  ASSUME TypeOK, NEW p \in Pages, NEW q \in Page, pages' = [pages EXCEPT ![p] = q]
  PROVE  pages' \in [Pages -> Page]
BY DEF TypeOK

LEMMA FlightReplaced ==
  ASSUME TypeOK, NEW r \in Runtimes, NEW f \in Exchange,
         flights' = [flights EXCEPT ![r] = f]
  PROVE  /\ flights' \in [Runtimes -> Exchange]
         /\ flights'[r] = f
         /\ \A s \in Runtimes \ {r} : flights'[s] = flights[s]
BY DEF TypeOK

LEMMA NoFlightTyped == NoFlight \in Exchange /\ NoFlight.status = "none"
BY DEF NoFlight, Exchange

(* Whoever joins an exchange leaves it as far as it was.                   *)
LEMMA JoinKeeps ==
  ASSUME Typed, NEW p \in Pages, Join(p)
  PROVE  /\ flights' \in [Runtimes -> Exchange]
         /\ \A r \in Runtimes :
              /\ flights'[r].status # flights[r].status => flights'[r].status = "queued"
              /\ flights'[r].status # flights[r].status => flights[r].status = "none"
              /\ flights'[r].status = flights[r].status =>
                   /\ flights'[r].key = flights[r].key
                   /\ flights'[r].sent = flights[r].sent
                   /\ flights'[r].visitor = flights[r].visitor
<1> DEFINE r == RuntimeOf[p]
           new == [NoFlight EXCEPT !.status = "queued", !.owner = p, !.members = {p}]
           more == [flights[r] EXCEPT !.members = flights[r].members \cup {p}]
<1>1. r \in Runtimes /\ flights \in [Runtimes -> Exchange]
  BY RuntimeAssumption DEF Typed, TypeOK
<1>2. new \in Exchange /\ new.status = "queued"
  BY DEF NoFlight, Exchange
<1>3. /\ more \in Exchange /\ more.status = flights[r].status
      /\ more.key = flights[r].key /\ more.sent = flights[r].sent
      /\ more.visitor = flights[r].visitor
  BY <1>1 DEF Exchange
<1>4. flights' = [flights EXCEPT ![r] = IF flights[r].status = "none" THEN new ELSE more]
  BY DEF Join
<1> HIDE DEF new, more, r
<1> QED
  BY <1>1, <1>2, <1>3, <1>4

LEMMA InitTyped == Init => Typed
<1> SUFFICES ASSUME Init PROVE Typed
  OBVIOUS
<1>1. NoFlight \in Exchange /\ NoOver \in Over
  BY DEF NoFlight, Exchange, NoOver, Over
<1>2. TypeOK
  BY <1>1 DEF Init, TypeOK, Page
<1>3. KeysTaken
  BY BoundsAssumption DEF Init, KeysTaken, NoFlight, NoOver
<1> QED
  BY <1>2, <1>3 DEF Typed

LEMMA StepTyped ==
  ASSUME Typed, [Next]_vars
  PROVE  Typed'
<1> USE BoundsAssumption DEF Typed
<1> DEFINE H == [exchanges: Nat, lost: Nat, overs: Nat, gaveUp: BOOLEAN,
                 orphaned: BOOLEAN, overtaken: BOOLEAN, unshown: BOOLEAN,
                 stopped: SUBSET Pages]
<1>1. history \in H
  BY DEF TypeOK
<1>2. \A k \in Taken : k \in Keys
  BY <1>1 DEF KeysTaken, Taken, Keys
<1>3. ASSUME NEW p \in Pages, Ask(p), pages' \in [Pages -> Page]
      PROVE  Typed'
  <2>1. Join(p) /\ UNCHANGED <<stored, overs, minted, revoked, history>>
    BY <1>3 DEF Ask
  <2> QED
    BY <1>3, <2>1, JoinKeeps DEF TypeOK, KeysTaken, Taken
<1>4. ASSUME NEW p \in Pages, Open(p) \/ Renew(p) \/ RetryAuthorization(p)
      PROVE  Typed'
  <2>1. pages[p] \in Page
    BY DEF TypeOK
  <2>2. CASE Open(p)
    <3> DEFINE q == [pages[p] EXCEPT !.state = "waiting"]
    <3>1. q \in Page
      BY <2>1 DEF Page
    <3>2. pages' = [pages EXCEPT ![p] = q]
      BY <2>2 DEF Open
    <3> QED
      BY <1>3, <2>2, <3>1, <3>2, PageReplaced DEF Open
  <2>3. CASE Renew(p)
    <3> DEFINE q == [pages[p] EXCEPT !.state = "waiting", !.again = FALSE, !.timer = FALSE]
    <3>1. q \in Page
      BY <2>1 DEF Page
    <3>2. pages' = [pages EXCEPT ![p] = q]
      BY <2>3 DEF Renew
    <3> QED
      BY <1>3, <2>3, <3>1, <3>2, PageReplaced DEF Renew
  <2>4. CASE RetryAuthorization(p)
    <3> DEFINE q == [pages[p] EXCEPT !.state = "waiting", !.again = FALSE]
    <3>1. q \in Page
      BY <2>1 DEF Page
    <3>2. pages' = [pages EXCEPT ![p] = q]
      BY <2>4 DEF RetryAuthorization
    <3> QED
      BY <1>3, <2>4, <3>1, <3>2, PageReplaced DEF RetryAuthorization
  <2> QED
    BY <1>4, <2>2, <2>3, <2>4
<1>5. ASSUME NEW p \in Pages, DropStored(p)
      PROVE  Typed'
  <2> DEFINE q == [pages[p] EXCEPT !.state = "waiting", !.again = TRUE]
  <2>2. q \in Page /\ pages' = [pages EXCEPT ![p] = q]
    BY <1>5 DEF DropStored, TypeOK, Page
  <2>1. /\ Join(p) /\ stored' = None /\ pages' \in [Pages -> Page]
        /\ UNCHANGED <<overs, minted, revoked, history>>
    BY <1>5, <2>2, PageReplaced DEF DropStored
  <2> QED
    BY <2>1, JoinKeeps DEF TypeOK, KeysTaken, Taken
<1>6. ASSUME NEW p \in Pages, StartOver(p)
      PROVE  Typed'
  <2>1. NewKey \in Keys /\ NewKey \in 1 .. NewKey /\ Taken \subseteq 1 .. NewKey
    BY <1>1, <1>6 DEF StartOver, NewKey, Keys, Taken
  <2> DEFINE q == [pages[p] EXCEPT !.timer = FALSE]
  <2>6. q \in Page /\ pages' = [pages EXCEPT ![p] = q]
    BY <1>6 DEF StartOver, TypeOK, Page
  <2>5. pages' \in [Pages -> Page]
    BY <2>6, PageReplaced
  <2>7. history' \in H
    <3> DEFINE n == history.overs + 1
    <3>1. n \in Nat /\ NewKey \in Nat
      BY <1>1 DEF NewKey
    <3>2. history' = [history EXCEPT !.exchanges = NewKey, !.overs = n]
      BY <1>6 DEF StartOver
    <3> HIDE DEF n
    <3> QED
      BY <1>1, <3>1, <3>2
  <2>8. [status |-> "asking", key |-> NewKey] \in Over
    BY <2>1 DEF Over
  <2>2. overs' \in [Pages -> Over] /\ history' \in H
    BY <1>6, <2>7, <2>8 DEF StartOver, TypeOK
  <2>3. history'.exchanges = NewKey /\ Taken' = 1 .. NewKey
    BY <1>1, <1>6 DEF StartOver, Taken
  <2>4. \A r \in Pages : overs'[r].status # "none" => overs'[r].key \in Taken'
    BY <1>6, <2>1, <2>3 DEF StartOver, TypeOK, Over, KeysTaken
  <2> QED
    BY <1>6, <2>1, <2>2, <2>3, <2>4, <2>5 DEF StartOver, TypeOK, KeysTaken
<1>7. ASSUME NEW p \in Pages, IssueOver(p)
      PROVE  Typed'
  <2>1. overs[p].key \in Taken /\ overs[p].key \in Keys
    BY <1>2, <1>7 DEF IssueOver, KeysTaken
  <2>2. /\ overs' \in [Pages -> Over]
        /\ \A q \in Pages : overs'[q].key = overs[q].key
        /\ \A q \in Pages : overs'[q].status # "none" => overs[q].status # "none"
    BY <1>7 DEF IssueOver, TypeOK, Over
  <2> QED
    BY <1>7, <2>1, <2>2 DEF IssueOver, TypeOK, KeysTaken, Visitors, Taken
<1>8. ASSUME NEW p \in Pages, StartedOver(p)
      PROVE  Typed'
  <2>1. NoOver \in Over /\ NoOver.status = "none"
    BY DEF NoOver, Over
  <2>2. /\ overs' \in [Pages -> Over]
        /\ \A q \in Pages : overs'[q].status # "none" => overs'[q] = overs[q]
    BY <1>8, <2>1 DEF StartedOver, TypeOK
  <2>3. overs[p].key \in Keys \cup {None}
    BY DEF TypeOK, Over
  <2>4. CASE pages[p].destroyed
    BY <1>8, <2>2, <2>4 DEF StartedOver, TypeOK, KeysTaken, Taken
  <2>5. CASE ~pages[p].destroyed
    <3> DEFINE q == [pages[p] EXCEPT !.token = overs[p].key, !.timer = TRUE,
                                     !.exposed = FALSE]
    <3>6. q \in Page
      <4>1. pages[p] \in Page /\ overs[p].key \in Visitors \cup {None}
        BY <2>3 DEF TypeOK, Visitors
      <4> QED
        BY <4>1, PageUpdates, Zenon
    <3>7. pages' = [pages EXCEPT ![p] = q]
      BY <1>8, <2>5 DEF StartedOver
    <3>1. pages' \in [Pages -> Page]
      BY <3>6, <3>7, PageReplaced
    <3> DEFINE over == history.overtaken \/ Deleting # {} \/ Holding # {}
    <3>4. over \in BOOLEAN
      OBVIOUS
    <3>5. history' = [history EXCEPT !.stopped = history.stopped \ {p}, !.overtaken = over]
      BY <1>8, <2>5 DEF StartedOver
    <3> HIDE DEF over
    <3>2. history' \in H /\ history'.exchanges = history.exchanges
      BY <1>1, <3>4, <3>5
    <3> QED
      BY <1>8, <2>2, <2>3, <2>5, <3>1, <3>2
         DEF StartedOver, TypeOK, KeysTaken, Taken, Visitors
  <2> QED
    BY <2>4, <2>5
<1>9. ASSUME NEW p \in Pages, NotStartedOver(p)
      PROVE  Typed'
  <2>1. NoOver \in Over /\ NoOver.status = "none"
    BY DEF NoOver, Over
  <2>2. /\ overs' \in [Pages -> Over]
        /\ \A q \in Pages : overs'[q].status # "none" => overs'[q] = overs[q]
    BY <1>9, <2>1 DEF NotStartedOver, TypeOK
  <2> DEFINE n == history.lost + 1
  <2>4. history' = [history EXCEPT !.lost = n, !.stopped = history.stopped \cup {p}]
    BY <1>9 DEF NotStartedOver
  <2>5. n \in Nat
    BY <1>1
  <2> HIDE DEF n
  <2>3. history' \in H /\ history'.exchanges = history.exchanges
    BY <1>1, <2>4, <2>5
  <2> QED
    BY <1>9, <2>2, <2>3 DEF NotStartedOver, TypeOK, KeysTaken, Taken
<1>10. ASSUME NEW p \in Pages, MarkExposed(p) \/ Destroy(p)
       PROVE  Typed'
  <2> DEFINE q == [pages[p] EXCEPT !.exposed = TRUE]
             d == [pages[p] EXCEPT !.destroyed = TRUE, !.token = None, !.timer = FALSE]
  <2>4. pages[p] \in Page /\ None \in Visitors \cup {None}
    BY DEF TypeOK
  <2>2. q \in Page /\ d \in Page
    BY <2>4, PageUpdates, Zenon
  <2>3. pages' = [pages EXCEPT ![p] = q] \/ pages' = [pages EXCEPT ![p] = d]
    BY <1>10 DEF MarkExposed, Destroy
  <2> HIDE DEF q, d
  <2>1. pages' \in [Pages -> Page]
    BY <2>2, <2>3, PageReplaced
  <2> QED
    BY <1>10, <2>1 DEF MarkExposed, Destroy, TypeOK, KeysTaken, Taken
<1>11. ASSUME NEW r \in Runtimes, BeginExchange(r)
       PROVE  Typed'
  <2>1. CASE pages[flights[r].owner].destroyed
    <3> DEFINE f == [flights[r] EXCEPT !.status = "failed"]
    <3>2. f \in Exchange /\ f.status = "failed"
      BY DEF TypeOK, Exchange
    <3>3. flights' = [flights EXCEPT ![r] = f]
      BY <1>11, <2>1 DEF BeginExchange
    <3> HIDE DEF f
    <3>1. /\ flights' \in [Runtimes -> Exchange]
          /\ \A s \in Runtimes : flights'[s] = flights[s] \/ flights'[s].status = "failed"
      BY <3>2, <3>3, FlightReplaced
    <3> QED
      BY <1>11, <2>1, <3>1 DEF BeginExchange, TypeOK, KeysTaken, Taken
  <2>2. CASE ~pages[flights[r].owner].destroyed
    <3>1. NewKey \in Keys /\ NewKey \in 1 .. NewKey /\ Taken \subseteq 1 .. NewKey
          /\ NewKey <= MaxExchanges /\ NewKey \in Nat
      BY <1>1, <1>11 DEF BeginExchange, NewKey, Keys, Taken
    <3>2. history' \in H /\ history'.exchanges = NewKey /\ Taken' = 1 .. NewKey
      BY <1>1, <1>11, <2>2, <3>1 DEF BeginExchange, Taken
    <3> DEFINE f == [flights[r] EXCEPT !.status = "asking", !.key = NewKey, !.sent = stored]
    <3>4. f \in Exchange /\ f.key = NewKey
      BY <3>1 DEF TypeOK, Exchange
    <3>5. flights' = [flights EXCEPT ![r] = f]
      BY <1>11, <2>2 DEF BeginExchange
    <3> HIDE DEF f
    <3>3. /\ flights' \in [Runtimes -> Exchange]
          /\ \A s \in Runtimes : flights'[s] = flights[s] \/ flights'[s].key = NewKey
      BY <3>4, <3>5, FlightReplaced
    <3> QED
      BY <1>11, <3>1, <3>2, <3>3 DEF BeginExchange, TypeOK, KeysTaken
  <2> QED
    BY <2>1, <2>2
<1>12. ASSUME NEW r \in Runtimes, Issue(r)
       PROVE  Typed'
  <2>1. flights[r].key \in Taken /\ flights[r].key \in Keys /\ flights[r] \in Exchange
    BY <1>2, <1>12 DEF Issue, KeysTaken, TypeOK
  <2>2. /\ flights' \in [Runtimes -> Exchange]
        /\ \A s \in Runtimes : flights'[s] = flights[s] \/ flights'[s].key = flights[r].key
    BY <1>12, <2>1 DEF Issue, TypeOK, Exchange, Visitors
  <2> QED
    BY <1>12, <2>1, <2>2 DEF Issue, TypeOK, KeysTaken, Taken, Visitors
<1>13. ASSUME NEW r \in Runtimes, LoseAnswer(r)
       PROVE  Typed'
  <2>1. PICK givenUp \in {pages[flights[r].owner].destroyed, TRUE} :
          /\ flights' = [flights EXCEPT ![r] =
               IF givenUp THEN [@ EXCEPT !.status = "failed"] ELSE AskAgain(@)]
          /\ history' = [history EXCEPT !.lost = @ + 1, !.gaveUp = @ \/ givenUp]
    BY <1>13 DEF LoseAnswer
  <2>2. flights[r].key \in Taken /\ flights[r] \in Exchange
    BY <1>13 DEF LoseAnswer, KeysTaken, TypeOK
  <2>3. /\ flights' \in [Runtimes -> Exchange]
        /\ \A s \in Runtimes : flights'[s] = flights[s] \/ flights'[s].key = flights[r].key
    BY <2>1, <2>2 DEF TypeOK, Exchange, AskAgain
  <2>4. (history.gaveUp \/ givenUp) \in BOOLEAN
    OBVIOUS
  <2> DEFINE gave == history.gaveUp \/ givenUp
             n == history.lost + 1
  <2>6. history' = [history EXCEPT !.lost = n, !.gaveUp = gave]
    BY <2>1
  <2>7. gave \in BOOLEAN /\ n \in Nat
    BY <1>1
  <2> HIDE DEF gave, n
  <2>5. history' \in H /\ history'.exchanges = history.exchanges
    BY <1>1, <2>6, <2>7
  <2> QED
    BY <1>13, <2>2, <2>3, <2>5 DEF LoseAnswer, TypeOK, KeysTaken, Taken
<1>14. ASSUME NEW r \in Runtimes,
              /\ flights' = [flights EXCEPT ![r] = NoFlight]
              /\ pages' \in [Pages -> Page] /\ stored' \in Visitors \cup {None}
              /\ history' \in H /\ history'.exchanges = history.exchanges
              /\ UNCHANGED <<overs, minted, revoked>>
       PROVE  Typed'
  <2>1. /\ flights' \in [Runtimes -> Exchange]
        /\ \A s \in Runtimes : flights'[s] = flights[s] \/ flights'[s].status = "none"
    BY <1>14, NoFlightTyped DEF TypeOK
  <2> QED
    BY <1>14, <2>1 DEF TypeOK, KeysTaken, Taken
<1>15. ASSUME NEW r \in Runtimes, NEW b \in BOOLEAN, Granted(r, b)
       PROVE  Typed'
  <2>1. flights[r].visitor \in Visitors \cup {None} /\ flights[r].members \subseteq Pages
    BY DEF TypeOK, Exchange
  <2>2. pages' \in [Pages -> Page]
    BY <1>15, <2>1, PageFunctions DEF Granted, TypeOK
  <2>3. history' \in H /\ history'.exchanges = history.exchanges
    BY <1>1, <1>15, <2>1 DEF Granted
  <2> QED
    BY <1>14, <1>15, <2>1, <2>2, <2>3 DEF Granted, TypeOK
<1>16. ASSUME NEW r \in Runtimes, NEW b \in BOOLEAN, NotGranted(r, b)
       PROVE  Typed'
  <2>1. pages' \in [Pages -> Page]
    BY <1>16, PageFunctions DEF NotGranted, TypeOK, None
  <2> QED
    BY <1>1, <1>14, <1>16, <2>1 DEF NotGranted, TypeOK
<1>17. ASSUME NEW r \in Runtimes, NEW b \in BOOLEAN, Refused(r, b)
       PROVE  Typed'
  <2>1. \A p \in Pages : [pages[p] EXCEPT !.state = "deleting"] \in Page
    BY DEF TypeOK, Page
  <2>2. pages' \in [Pages -> Page]
    BY <1>17, <2>1, PageFunctions DEF Refused, TypeOK, None
  <2>3. history' \in H /\ history'.exchanges = history.exchanges
    BY <1>1, <1>17 DEF Refused
  <2> QED
    BY <1>14, <1>17, <2>2, <2>3 DEF Refused, TypeOK
<1>18. ASSUME NEW v \in Visitors, Revoke(v)
       PROVE  Typed'
  BY <1>18 DEF Revoke, TypeOK, KeysTaken, Taken
<1>19. CASE UNCHANGED vars
  BY <1>19 DEF vars, TypeOK, KeysTaken, Taken
<1> QED
  BY <1>4, <1>5, <1>6, <1>7, <1>8, <1>9, <1>10, <1>11, <1>12, <1>13, <1>15, <1>16,
     <1>17, <1>18, <1>19 DEF Next, Lock

LEMMA TypesInvariant == Spec => []Typed
<1>1. Typed /\ [Next]_vars => Typed'
  BY StepTyped
<1> QED
  BY InitTyped, <1>1, PTL DEF Spec

(* The pages, tabs and exchanges of a browser are what they are said to be *)
(* (AnonymousAuthority), for any number of them.                           *)
THEOREM AuthorityTypeOK == Spec => []TypeOK
<1>1. Typed => TypeOK
  BY DEF Typed
<1> QED
  BY <1>1, TypesInvariant, PTL

-----------------------------------------------------------------------------
(* Renewal.                                                                *)

(* What a page owes: no token after its end, a renewal as long as it has   *)
(* one.                                                                    *)
Due(page, over, stopped) ==
  /\ page.destroyed => page.token = None
  /\ page.token # None /\ page.state = "idle" /\ over = NoOver => page.timer \/ stopped

RenewalInv == \A p \in Pages : Due(pages[p], overs[p], p \in history.stopped)

LEMMA RenewalStep ==
  ASSUME Typed, RenewalInv, [Next]_vars, NEW q \in Pages
  PROVE  Due(pages[q], overs[q], q \in history.stopped)'
<1> DEFINE Served == Due(pages[q], overs[q], q \in history.stopped)'
<1> USE DEF Typed, RenewalInv, Due
<1>1. pages \in [Pages -> Page] /\ overs \in [Pages -> Over]
  BY DEF TypeOK
<1>2. history \in [exchanges: Nat, lost: Nat, overs: Nat, gaveUp: BOOLEAN,
                   orphaned: BOOLEAN, overtaken: BOOLEAN, unshown: BOOLEAN,
                   stopped: SUBSET Pages]
  BY DEF TypeOK
<1>3. ASSUME pages'[q] = pages[q], overs'[q] = overs[q],
             q \in history.stopped => q \in history'.stopped
      PROVE  Served
  BY <1>3
<1>4. ASSUME pages'[q].destroyed => pages'[q].token = None,
             pages'[q].state # "idle" \/ pages'[q].token = None \/ pages'[q].timer
      PROVE  Served
  BY <1>4
<1>5. ASSUME NEW p \in Pages,
             Open(p) \/ Renew(p) \/ RetryAuthorization(p) \/ DropStored(p)
      PROVE  Served
  <2>1. UNCHANGED <<overs, history>>
    BY <1>5 DEF Open, Renew, RetryAuthorization, DropStored, Ask
  <2>2. ASSUME NEW w, pages' = [pages EXCEPT ![p] = w], w.state = "waiting",
               w.destroyed = pages[p].destroyed, w.token = pages[p].token
        PROVE  Served
    <3>1. pages'[p] = w /\ (q # p => pages'[q] = pages[q])
      BY <1>1, <2>2
    <3> QED
      BY <1>3, <1>4, <2>1, <2>2, <3>1
  <2>3. pages[p] \in Page
    BY <1>1
  <2>4. CASE Open(p)
    <3> DEFINE w == [pages[p] EXCEPT !.state = "waiting"]
    <3>1. pages' = [pages EXCEPT ![p] = w]
      BY <2>4 DEF Open
    <3>2. w.state = "waiting" /\ w.destroyed = pages[p].destroyed /\ w.token = pages[p].token
      BY <2>3 DEF Page
    <3> QED
      BY <2>2, <3>1, <3>2
  <2>5. CASE Renew(p)
    <3> DEFINE w == [pages[p] EXCEPT !.state = "waiting", !.again = FALSE, !.timer = FALSE]
    <3>1. pages' = [pages EXCEPT ![p] = w]
      BY <2>5 DEF Renew
    <3>2. w.state = "waiting" /\ w.destroyed = pages[p].destroyed /\ w.token = pages[p].token
      BY <2>3 DEF Page
    <3> QED
      BY <2>2, <3>1, <3>2
  <2>6. CASE RetryAuthorization(p)
    <3> DEFINE w == [pages[p] EXCEPT !.state = "waiting", !.again = FALSE]
    <3>1. pages' = [pages EXCEPT ![p] = w]
      BY <2>6 DEF RetryAuthorization
    <3>2. w.state = "waiting" /\ w.destroyed = pages[p].destroyed /\ w.token = pages[p].token
      BY <2>3 DEF Page
    <3> QED
      BY <2>2, <3>1, <3>2
  <2>7. CASE DropStored(p)
    <3> DEFINE w == [pages[p] EXCEPT !.state = "waiting", !.again = TRUE]
    <3>1. pages' = [pages EXCEPT ![p] = w]
      BY <2>7 DEF DropStored
    <3>2. w.state = "waiting" /\ w.destroyed = pages[p].destroyed /\ w.token = pages[p].token
      BY <2>3 DEF Page
    <3> QED
      BY <2>2, <3>1, <3>2
  <2> QED
    BY <1>5, <2>4, <2>5, <2>6, <2>7
<1>6. ASSUME NEW p \in Pages, StartOver(p)
      PROVE  Served
  <2>1. overs'[p].status = "asking" /\ (q # p => overs'[q] = overs[q] /\ pages'[q] = pages[q])
    BY <1>1, <1>6 DEF StartOver
  <2>3. pages'[p].token = pages[p].token /\ pages'[p].destroyed = pages[p].destroyed
    BY <1>1, <1>6 DEF StartOver, Page
  <2>2. NoOver.status # "asking" /\ history'.stopped = history.stopped
    BY <1>2, <1>6 DEF StartOver, NoOver
  <2> QED
    BY <1>3, <2>1, <2>2, <2>3
<1>7. ASSUME NEW p \in Pages, IssueOver(p)
      PROVE  Served
  <2>1. overs'[p].status = "granted" /\ (q # p => overs'[q] = overs[q])
    BY <1>1, <1>7 DEF IssueOver, Over
  <2>2. NoOver.status # "granted" /\ UNCHANGED <<pages, history>>
    BY <1>7 DEF IssueOver, NoOver
  <2> QED
    BY <1>3, <2>1, <2>2
<1>8. ASSUME NEW p \in Pages, StartedOver(p)
      PROVE  Served
  <2>1. q # p => overs'[q] = overs[q]
    BY <1>1, <1>8 DEF StartedOver
  <2>2. CASE pages[p].destroyed
    <3>1. UNCHANGED <<pages, history>>
      BY <1>8, <2>2 DEF StartedOver
    <3> QED
      BY <1>3, <2>1, <2>2, <3>1
  <2>3. CASE ~pages[p].destroyed
    <3>1. pages'[p].timer /\ ~pages'[p].destroyed /\ (q # p => pages'[q] = pages[q])
      <4> DEFINE w == [pages[p] EXCEPT !.token = overs[p].key, !.timer = TRUE,
                                       !.exposed = FALSE]
      <4>1. pages' = [pages EXCEPT ![p] = w]
        BY <1>8, <2>3 DEF StartedOver
      <4>2. pages[p] \in Page
        BY <1>1
      <4>3. w.timer /\ ~w.destroyed
        BY <2>3, <4>2 DEF Page
      <4> QED
        BY <1>1, <4>1, <4>3
    <3>2. q # p /\ q \in history.stopped => q \in history'.stopped
      <4> DEFINE over == history.overtaken \/ Deleting # {} \/ Holding # {}
      <4>1. history' = [history EXCEPT !.stopped = history.stopped \ {p}, !.overtaken = over]
        BY <1>8, <2>3 DEF StartedOver
      <4> HIDE DEF over
      <4> QED
        BY <1>2, <4>1
    <3> QED
      BY <1>3, <1>4, <2>1, <3>1, <3>2
  <2> QED
    BY <2>2, <2>3
<1>9. ASSUME NEW p \in Pages, NotStartedOver(p)
      PROVE  Served
  <2>1. /\ q # p => overs'[q] = overs[q]
        /\ p \in history'.stopped /\ (q \in history.stopped => q \in history'.stopped)
        /\ UNCHANGED pages
    BY <1>1, <1>2, <1>9 DEF NotStartedOver
  <2> QED
    BY <1>3, <2>1
<1>10. ASSUME NEW p \in Pages, MarkExposed(p) \/ Destroy(p)
       PROVE  Served
  <2>1. UNCHANGED <<overs, history>> /\ (q # p => pages'[q] = pages[q])
    <3>1. UNCHANGED <<overs, history>>
      BY <1>10 DEF MarkExposed, Destroy
    <3>2. q # p => pages'[q] = pages[q]
      BY <1>1, <1>10 DEF MarkExposed, Destroy
    <3> QED
      BY <3>1, <3>2
  <2>2. CASE MarkExposed(p)
    <3>1. /\ pages'[p].destroyed = pages[p].destroyed /\ pages'[p].token = pages[p].token
          /\ pages'[p].state = pages[p].state /\ pages'[p].timer = pages[p].timer
      BY <1>1, <2>2 DEF MarkExposed, Page
    <3> QED
      BY <1>3, <2>1, <3>1
  <2>3. CASE Destroy(p)
    <3>1. pages'[p].token = None
      BY <1>1, <2>3 DEF Destroy, Page
    <3> QED
      BY <1>3, <1>4, <2>1, <3>1
  <2> QED
    BY <1>10, <2>2, <2>3
<1>11. ASSUME NEW r \in Runtimes, BeginExchange(r) \/ Issue(r) \/ LoseAnswer(r)
       PROVE  Served
  <2>1. history'.stopped = history.stopped
    BY <1>2, <1>11 DEF BeginExchange, Issue, LoseAnswer
  <2> QED
    BY <1>3, <1>11, <2>1 DEF BeginExchange, Issue, LoseAnswer
<1>12. ASSUME NEW r \in Runtimes, NEW b \in BOOLEAN, Granted(r, b)
       PROVE  Served
  <2> DEFINE f == flights[r]
  <2>1. f.visitor \in Visitors \cup {None}
    BY DEF TypeOK, Exchange
  <2>2. /\ overs' = overs
        /\ pages'[q] = IF q \in f.members THEN ApplyGrant(pages[q], f.visitor, b) ELSE pages[q]
        /\ history'.stopped = history.stopped \ f.members
    BY <1>2, <1>12 DEF Granted
  <2>3. CASE q \in f.members /\ ~pages[q].destroyed
    <3>1. pages'[q].timer /\ ~pages'[q].destroyed
      BY <1>1, <2>2, <2>3 DEF ApplyGrant, Page
    <3> QED
      BY <1>4, <3>1
  <2>4. CASE q \in f.members /\ pages[q].destroyed
    <3>1. pages'[q].token = pages[q].token
      BY <1>1, <2>2, <2>4 DEF ApplyGrant, Page
    <3> QED
      BY <1>4, <2>4, <3>1
  <2>5. CASE q \notin f.members
    BY <1>3, <2>2, <2>5
  <2> QED
    BY <2>3, <2>4, <2>5
<1>13. ASSUME NEW b \in BOOLEAN, pages'[q] = Failed(pages[q], b)
       PROVE  Served
  <2>1. CASE pages[q].destroyed
    <3>1. pages'[q].token = pages[q].token
      BY <1>1, <1>13, <2>1 DEF Failed, Page
    <3> QED
      BY <1>4, <2>1, <3>1
  <2>2. CASE ~pages[q].destroyed /\ (pages[q].token = None \/ b)
    <3>1. pages'[q].token = None
      BY <1>1, <1>13, <2>2 DEF Failed, Page
    <3> QED
      BY <1>4, <3>1
  <2>3. CASE ~pages[q].destroyed /\ ~(pages[q].token = None \/ b)
    <3>1. pages'[q].timer /\ ~pages'[q].destroyed
      BY <1>1, <1>13, <2>3 DEF Failed, Page
    <3> QED
      BY <1>4, <3>1
  <2> QED
    BY <2>1, <2>2, <2>3
<1>14. ASSUME NEW r \in Runtimes, NEW b \in BOOLEAN, NotGranted(r, b)
       PROVE  Served
  <2>1. UNCHANGED <<overs, history>>
        /\ (pages'[q] = Failed(pages[q], b) \/ pages'[q] = pages[q])
    BY <1>14 DEF NotGranted
  <2> QED
    BY <1>3, <1>13, <2>1
<1>15. ASSUME NEW r \in Runtimes, NEW b \in BOOLEAN, Refused(r, b)
       PROVE  Served
  <2>1. /\ overs' = overs /\ history'.stopped = history.stopped
        /\ \/ pages'[q] = [pages[q] EXCEPT !.state = "deleting"]
           \/ pages'[q] = Failed(pages[q], b)
           \/ pages'[q] = pages[q]
    BY <1>2, <1>15 DEF Refused
  <2>2. ASSUME pages'[q] = [pages[q] EXCEPT !.state = "deleting"]
        PROVE  Served
    <3>1. /\ pages'[q].state = "deleting" /\ pages'[q].token = pages[q].token
          /\ pages'[q].destroyed = pages[q].destroyed
      BY <1>1, <2>2 DEF Page
    <3> QED
      BY <1>4, <3>1
  <2> QED
    BY <1>3, <1>13, <2>1, <2>2
<1>16. ASSUME NEW v \in Visitors, Revoke(v)
       PROVE  Served
  BY <1>3, <1>16 DEF Revoke
<1>17. CASE UNCHANGED vars
  BY <1>3, <1>17 DEF vars
<1> QED
  BY <1>5, <1>6, <1>7, <1>8, <1>9, <1>10, <1>11, <1>12, <1>14, <1>15, <1>16, <1>17
     DEF Next, Lock

(* Authorization does not run out unseen: as long as a page has an access  *)
(* token it asks for the next one, starts over, or has a timer that will   *)
(* ask, unless its start over failed and took the timer with it.           *)
THEOREM RenewalScheduled == Spec => []RenewalGoesOn
<1>1. Init => RenewalInv
  BY DEF Init, RenewalInv, Due
<1>2. Typed /\ RenewalInv /\ [Next]_vars => RenewalInv'
  BY RenewalStep DEF RenewalInv
<1>3. RenewalInv => RenewalGoesOn
  BY DEF RenewalInv, RenewalGoesOn, Due
<1> QED
  BY TypesInvariant, <1>1, <1>2, <1>3, PTL DEF Spec

-----------------------------------------------------------------------------
(* One visitor.  While nobody starts over, no token is refused, and no     *)
(* exchange is given up or loses its owner, the one exchange that may      *)
(* create a visitor is that of the runtime that has the lock, and it ends  *)
(* with the token stored before another one begins.                        *)

Undisturbed ==
  history.overs = 0 /\ revoked = {} /\ ~history.gaveUp /\ ~history.orphaned

Exchanging(r) == flights[r].status \in {"asking", "granted", "refused"}

OneHolds == \A r, s \in Runtimes : Exchanging(r) /\ Exchanging(s) => r = s

(* What has been minted is what is stored, or is about to be.              *)
MintedIsStored ==
  IF stored = None
    THEN \A v \in minted : \E r \in Runtimes : Exchanging(r) /\ flights[r].key = v
    ELSE minted = {stored}

ExchangeCurrent(r) ==
  Exchanging(r) =>
    /\ flights[r].status # "refused"
    /\ flights[r].sent = stored
    /\ stored # None => flights[r].key \notin minted
    /\ flights[r].status = "granted" => flights[r].visitor \in minted

VisitorInv ==
  /\ OneHolds
  /\ Undisturbed =>
       /\ \A p \in Pages : overs[p].status = "none" /\ pages[p].state # "deleting"
       /\ MintedIsStored
       /\ \A r \in Runtimes : ExchangeCurrent(r)

LEMMA AtMostOneMinted ==
  ASSUME Typed, VisitorInv, Undisturbed, NEW v \in minted, NEW w \in minted
  PROVE  v = w
BY DEF VisitorInv, MintedIsStored, OneHolds

LEMMA InitVisitor == Init => VisitorInv
BY DEF Init, VisitorInv, OneHolds, Exchanging, Undisturbed, MintedIsStored,
       ExchangeCurrent, NoFlight, NoOver

LEMMA OneVisitorInvariant == VisitorInv /\ Typed => OneVisitor
<1> SUFFICES ASSUME VisitorInv, Typed, Undisturbed
             PROVE  ~(Cardinality(minted) > 1)
  BY BoundsAssumption DEF OneVisitor, Undisturbed, Typed, TypeOK
<1>1. CASE minted = {}
  BY <1>1, FS_EmptySet
<1>2. ASSUME NEW v \in minted PROVE ~(Cardinality(minted) > 1)
  <2>1. minted = {v}
    BY <1>2, AtMostOneMinted
  <2>2. Cardinality({v}) = 1
    BY FS_Singleton
  <2> QED
    BY <2>1, <2>2
<1> QED
  BY <1>1, <1>2

LEMMA HoldersStay ==
  ASSUME OneHolds, \A r \in Runtimes : Exchanging(r)' => Exchanging(r)
  PROVE  OneHolds'
BY DEF OneHolds

(* A step that neither mints nor stores, and leaves every exchange under   *)
(* way as it is, or ends it with nothing minted under its key.             *)
LEMMA NothingMoves ==
  ASSUME VisitorInv, UNCHANGED <<stored, minted>>, Undisturbed' => Undisturbed,
         \A r \in Runtimes : Exchanging(r)' <=> Exchanging(r),
         \A r \in Runtimes : Exchanging(r) =>
           /\ flights'[r].status \in {flights[r].status, "asking"}
           /\ flights'[r].key = flights[r].key /\ flights'[r].sent = flights[r].sent
           /\ flights'[r].visitor = flights[r].visitor \/ flights'[r].status = "asking",
         Undisturbed' =>
           \A p \in Pages : overs'[p].status = "none" /\ pages'[p].state # "deleting"
  PROVE  VisitorInv'
<1>1. OneHolds'
  BY HoldersStay DEF VisitorInv
<1>2. ASSUME Undisturbed'
      PROVE  MintedIsStored' /\ \A r \in Runtimes : ExchangeCurrent(r)'
  <2>1. MintedIsStored'
    BY <1>2 DEF VisitorInv, MintedIsStored
  <2>2. ASSUME NEW r \in Runtimes, Exchanging(r)'
        PROVE  /\ flights'[r].status # "refused"
               /\ flights'[r].sent = stored'
               /\ stored' # None => flights'[r].key \notin minted'
               /\ flights'[r].status = "granted" => flights'[r].visitor \in minted'
    <3>1. Exchanging(r) /\ ExchangeCurrent(r)
      BY <1>2, <2>2 DEF VisitorInv
    <3> QED
      BY <3>1 DEF ExchangeCurrent
  <2> QED
    BY <2>1, <2>2 DEF ExchangeCurrent
<1> QED
  BY <1>1, <1>2 DEF VisitorInv

LEMMA DisturbedStep ==
  ASSUME VisitorInv, ~Undisturbed', \A r \in Runtimes : Exchanging(r)' => Exchanging(r)
  PROVE  VisitorInv'
BY HoldersStay DEF VisitorInv

LEMMA VisitorStep ==
  ASSUME Typed, VisitorInv, [Next]_vars
  PROVE  VisitorInv'
<1> USE DEF Typed
<1>1. /\ pages \in [Pages -> Page] /\ overs \in [Pages -> Over]
      /\ flights \in [Runtimes -> Exchange]
  BY DEF TypeOK
<1>2. history \in [exchanges: Nat, lost: Nat, overs: Nat, gaveUp: BOOLEAN,
                   orphaned: BOOLEAN, overtaken: BOOLEAN, unshown: BOOLEAN,
                   stopped: SUBSET Pages]
  BY DEF TypeOK
<1>3. ASSUME NEW p \in Pages, Open(p) \/ Renew(p) \/ RetryAuthorization(p)
      PROVE  VisitorInv'
  <2>1. Join(p) /\ UNCHANGED <<stored, overs, minted, revoked, history>>
    BY <1>3 DEF Open, Renew, RetryAuthorization, Ask
  <2>2. \A q \in Pages : pages'[q].state = pages[q].state \/ pages'[q].state = "waiting"
    <3>1. \A q \in Pages : q # p => pages'[q] = pages[q]
      BY <1>1, <1>3 DEF Open, Renew, RetryAuthorization
    <3>2. pages'[p].state = "waiting"
      BY <1>1, <1>3 DEF Open, Renew, RetryAuthorization, Page
    <3> QED
      BY <3>1, <3>2
  <2>3. Undisturbed' <=> Undisturbed
    BY <2>1 DEF Undisturbed
  <2>4. \A r \in Runtimes : Exchanging(r)' <=> Exchanging(r)
    BY <2>1, JoinKeeps DEF Exchanging
  <2> QED
    BY <2>1, <2>2, <2>3, <2>4, JoinKeeps, NothingMoves DEF VisitorInv, Exchanging
<1>4. ASSUME NEW p \in Pages, DropStored(p)
      PROVE  VisitorInv'
  <2>1. Join(p) /\ UNCHANGED <<revoked, history>> /\ pages[p].state = "deleting"
    BY <1>4 DEF DropStored
  <2>2. ~Undisturbed /\ (Undisturbed' <=> Undisturbed)
    BY <2>1 DEF VisitorInv, Undisturbed
  <2>3. \A r \in Runtimes : Exchanging(r)' => Exchanging(r)
    BY <2>1, JoinKeeps DEF Exchanging
  <2> QED
    BY <2>2, <2>3, DisturbedStep
<1>5. ASSUME NEW p \in Pages, StartOver(p)
      PROVE  VisitorInv'
  <2>1. UNCHANGED flights /\ history'.overs = history.overs + 1 /\ history.overs \in Nat
    BY <1>2, <1>5 DEF StartOver
  <2>2. ~Undisturbed'
    BY <2>1 DEF Undisturbed
  <2> QED
    BY <2>1, <2>2, DisturbedStep DEF Exchanging
<1>6. ASSUME NEW p \in Pages, IssueOver(p) \/ StartedOver(p) \/ NotStartedOver(p)
      PROVE  VisitorInv'
  <2>1. UNCHANGED <<flights, revoked>> /\ overs[p].status # "none"
    BY <1>6 DEF IssueOver, StartedOver, NotStartedOver
  <2>2. /\ history'.overs = history.overs /\ history'.gaveUp = history.gaveUp
        /\ history'.orphaned = history.orphaned
    BY <1>2, <1>6 DEF IssueOver, StartedOver, NotStartedOver
  <2>3. ~Undisturbed /\ (Undisturbed' <=> Undisturbed)
    BY <2>1, <2>2 DEF VisitorInv, Undisturbed
  <2> QED
    BY <2>1, <2>3, DisturbedStep DEF Exchanging
<1>7. ASSUME NEW p \in Pages, MarkExposed(p) \/ Destroy(p)
      PROVE  VisitorInv'
  <2>1. UNCHANGED <<stored, flights, overs, minted, revoked, history>>
    BY <1>7 DEF MarkExposed, Destroy
  <2>2. pages'[p].state = pages[p].state
    BY <1>1, <1>7 DEF MarkExposed, Destroy, Page
  <2>3. \A q \in Pages : q # p => pages'[q] = pages[q]
    BY <1>1, <1>7 DEF MarkExposed, Destroy
  <2> QED
    BY <2>1, <2>2, <2>3, NothingMoves DEF VisitorInv, Exchanging, Undisturbed
<1>8. ASSUME NEW r \in Runtimes, Lock(r)
      PROVE  VisitorInv'
  <2>1. \A s \in Runtimes : ~Exchanging(s)
    BY <1>8 DEF Lock, Holding, Exchanging
  <2>2. BeginExchange(r) /\ UNCHANGED <<stored, pages, overs, minted, revoked>>
    BY <1>8 DEF Lock, BeginExchange
  <2>3. \A s \in Runtimes : s # r => flights'[s] = flights[s]
    BY <1>1, <2>2 DEF BeginExchange
  <2>4. /\ history'.overs = history.overs /\ history'.gaveUp = history.gaveUp
        /\ history'.orphaned = history.orphaned
    BY <1>2, <2>2 DEF BeginExchange
  <2>5. CASE pages[flights[r].owner].destroyed
    <3>1. flights'[r].status = "failed"
      BY <1>1, <2>2, <2>5 DEF BeginExchange, Exchange
    <3>2. \A s \in Runtimes : ~Exchanging(s)'
      BY <2>1, <2>3, <3>1 DEF Exchanging
    <3> QED
      BY <2>1, <2>2, <2>4, <3>2, NothingMoves DEF VisitorInv, Undisturbed
  <2>6. CASE ~pages[flights[r].owner].destroyed
    <3> DEFINE f == [flights[r] EXCEPT !.status = "asking", !.key = NewKey, !.sent = stored]
    <3>1. flights' = [flights EXCEPT ![r] = f]
      BY <2>2, <2>6 DEF BeginExchange
    <3>2. flights[r] \in Exchange
      BY <1>1
    <3>3. f.status = "asking" /\ f.key = NewKey /\ f.sent = stored
      BY <3>2 DEF Exchange
    <3>4. flights'[r].status = "asking" /\ flights'[r].key = NewKey /\ flights'[r].sent = stored
      BY <1>1, <3>1, <3>3
    <3>5. NewKey \notin minted
      BY <1>2 DEF KeysTaken, Taken, NewKey
    <3>6. \A s \in Runtimes : Exchanging(s)' => s = r
      BY <2>1, <2>3 DEF Exchanging
    <3>7. OneHolds'
      BY <3>6 DEF OneHolds
    <3>8. ASSUME Undisturbed'
          PROVE  MintedIsStored' /\ \A s \in Runtimes : ExchangeCurrent(s)'
      <4>1. MintedIsStored /\ \A s \in Runtimes : ExchangeCurrent(s)
        BY <2>2, <2>4, <3>8 DEF VisitorInv, Undisturbed
      <4>2. MintedIsStored'
        BY <2>1, <2>2, <4>1 DEF MintedIsStored
      <4> QED
        BY <2>2, <3>4, <3>5, <3>6, <4>2 DEF ExchangeCurrent
    <3> QED
      BY <2>2, <2>4, <3>7, <3>8 DEF VisitorInv, Undisturbed
  <2> QED
    BY <2>5, <2>6
<1>9. ASSUME NEW r \in Runtimes, Issue(r)
      PROVE  VisitorInv'
  <2> DEFINE f == flights[r]
  <2>1. /\ f \in Exchange /\ f.status = "asking"
        /\ UNCHANGED <<stored, pages, overs, revoked, history>>
        /\ minted' = IF f.sent = None THEN minted \cup {f.key} ELSE minted
        /\ \A s \in Runtimes : s # r => flights'[s] = flights[s]
    BY <1>1, <1>9 DEF Issue
  <2>2. \A s \in Runtimes : Exchanging(s)' => Exchanging(s)
    BY <2>1 DEF Exchanging
  <2>3. OneHolds' /\ (Undisturbed' <=> Undisturbed)
    BY <2>1, <2>2, HoldersStay DEF VisitorInv, Undisturbed
  <2>4. ASSUME Undisturbed
        PROVE  MintedIsStored' /\ \A s \in Runtimes : ExchangeCurrent(s)'
    <3>1. MintedIsStored /\ ExchangeCurrent(r) /\ Exchanging(r) /\ f.sent = stored
      BY <2>1, <2>4 DEF VisitorInv, Exchanging, ExchangeCurrent
    <3> DEFINE v == IF f.sent = None THEN f.key ELSE f.sent
               g == [f EXCEPT !.status = "granted", !.visitor = v]
    <3>2. stored # None => f.key \notin minted
      BY <3>1 DEF ExchangeCurrent
    <3>3. f.sent \notin revoked
      BY <2>4 DEF Undisturbed
    <3>4. flights' = [flights EXCEPT ![r] = g]
      BY <1>9, <3>1, <3>2, <3>3 DEF Issue
    <3>5. g.status = "granted" /\ g.key = f.key /\ g.sent = f.sent /\ g.visitor = v
      BY <2>1 DEF Exchange
    <3> HIDE DEF g
    <3>6. /\ flights'[r].status = "granted" /\ flights'[r].key = f.key
          /\ flights'[r].sent = f.sent /\ flights'[r].visitor = v
      BY <1>1, <3>4, <3>5
    <3>7. v \in minted'
      BY <2>1, <3>1 DEF MintedIsStored
    <3>8. \A s \in Runtimes : Exchanging(s)' => s = r
      BY <2>2, <3>1 DEF VisitorInv, OneHolds
    <3>9. MintedIsStored'
      <4>1. CASE stored # None
        BY <2>1, <3>1, <4>1 DEF MintedIsStored
      <4>2. CASE stored = None
        <5>1. minted \subseteq {f.key}
          BY <3>1, <4>2 DEF MintedIsStored, VisitorInv, OneHolds
        <5>2. Exchanging(r)' /\ flights'[r].key = f.key
          BY <3>6 DEF Exchanging
        <5> QED
          BY <2>1, <4>2, <5>1, <5>2 DEF MintedIsStored
      <4> QED
        BY <4>1, <4>2
    <3> QED
      BY <2>1, <3>1, <3>2, <3>6, <3>7, <3>8, <3>9 DEF ExchangeCurrent
  <2> QED
    BY <2>1, <2>3, <2>4 DEF VisitorInv
<1>10. ASSUME NEW r \in Runtimes, LoseAnswer(r)
       PROVE  VisitorInv'
  <2>1. PICK givenUp \in {pages[flights[r].owner].destroyed, TRUE} :
          /\ flights' = [flights EXCEPT ![r] =
               IF givenUp THEN [@ EXCEPT !.status = "failed"] ELSE AskAgain(@)]
          /\ history' = [history EXCEPT !.lost = @ + 1, !.gaveUp = @ \/ givenUp]
    BY <1>10 DEF LoseAnswer
  <2>2. /\ flights[r] \in Exchange /\ flights[r].status \in {"asking", "granted"}
        /\ UNCHANGED <<stored, pages, overs, minted, revoked>>
    BY <1>1, <1>10 DEF LoseAnswer
  <2>3. \A s \in Runtimes : s # r => flights'[s] = flights[s]
    BY <1>1, <2>1
  <2>4. \A s \in Runtimes : Exchanging(s)' => Exchanging(s)
    BY <2>2, <2>3 DEF Exchanging
  <2>5. CASE givenUp
    <3>1. history'.gaveUp
      BY <1>2, <2>1, <2>5
    <3> QED
      BY <2>4, <3>1, DisturbedStep DEF Undisturbed
  <2>6. CASE ~givenUp
    <3> DEFINE g == AskAgain(flights[r])
    <3>1. flights' = [flights EXCEPT ![r] = g]
      BY <2>1, <2>6
    <3>2. g.status = "asking" /\ g.key = flights[r].key /\ g.sent = flights[r].sent
      BY <2>2 DEF AskAgain, Exchange
    <3> HIDE DEF g
    <3>3. flights'[r] = g
      BY <1>1, <3>1
    <3>4. /\ history'.overs = history.overs /\ history'.orphaned = history.orphaned
          /\ history'.gaveUp = (history.gaveUp \/ givenUp)
      BY <1>2, <2>1
    <3>5. Undisturbed' => Undisturbed
      BY <2>2, <3>4 DEF Undisturbed
    <3>6. \A s \in Runtimes : Exchanging(s)' <=> Exchanging(s)
      BY <2>2, <2>3, <3>2, <3>3 DEF Exchanging
    <3> QED
      BY <2>2, <2>3, <3>2, <3>3, <3>5, <3>6, NothingMoves DEF VisitorInv
  <2> QED
    BY <2>5, <2>6
<1>11. ASSUME NEW r \in Runtimes, NEW b \in BOOLEAN, Granted(r, b)
       PROVE  VisitorInv'
  <2> DEFINE f == flights[r]
  <2>1. /\ f.status = "granted" /\ flights' = [flights EXCEPT ![r] = NoFlight]
        /\ stored' = IF ~pages[f.owner].destroyed THEN f.visitor ELSE stored
        /\ \A p \in Pages : pages'[p] = pages[p] \/ pages'[p] = ApplyGrant(pages[p], f.visitor, b)
        /\ UNCHANGED <<overs, minted, revoked>>
    BY <1>11 DEF Granted
  <2>2. /\ history'.overs = history.overs /\ history'.gaveUp = history.gaveUp
        /\ history'.orphaned = (history.orphaned \/ pages[f.owner].destroyed)
    BY <1>2, <1>11 DEF Granted
  <2>3. Exchanging(r) /\ ~Exchanging(r)'
    BY <1>1, <2>1, NoFlightTyped DEF Exchanging
  <2>4. \A s \in Runtimes : s # r => flights'[s] = flights[s]
    BY <1>1, <2>1
  <2>5. OneHolds /\ \A s \in Runtimes : ~Exchanging(s)'
    BY <2>3, <2>4 DEF VisitorInv, OneHolds, Exchanging
  <2>6. ASSUME Undisturbed'
        PROVE  /\ \A p \in Pages : overs'[p].status = "none" /\ pages'[p].state # "deleting"
               /\ MintedIsStored'
    <3>1. Undisturbed /\ stored' = f.visitor
      BY <2>1, <2>2, <2>6 DEF Undisturbed
    <3>2. f.visitor \in minted /\ minted = {f.visitor}
      <4>1. f.visitor \in minted
        BY <2>1, <2>3, <3>1 DEF VisitorInv, ExchangeCurrent
      <4> QED
        BY <3>1, <4>1, AtMostOneMinted
    <3>3. f.visitor # None
      BY <3>2, BoundsAssumption DEF TypeOK, Visitors, Keys, None
    <3>4. \A p \in Pages : ApplyGrant(pages[p], f.visitor, b).state = "idle"
      BY <1>1 DEF ApplyGrant, Page
    <3>5. \A p \in Pages : overs[p].status = "none" /\ pages[p].state # "deleting"
      BY <3>1 DEF VisitorInv
    <3> QED
      BY <2>1, <3>1, <3>2, <3>3, <3>4, <3>5 DEF MintedIsStored
  <2> QED
    BY <2>5, <2>6 DEF VisitorInv, OneHolds, ExchangeCurrent
<1>12. ASSUME NEW r \in Runtimes, NEW b \in BOOLEAN, NotGranted(r, b)
       PROVE  VisitorInv'
  <2>1. /\ flights[r].status = "failed" /\ flights' = [flights EXCEPT ![r] = NoFlight]
        /\ \A p \in Pages : pages'[p] = pages[p] \/ pages'[p] = Failed(pages[p], b)
        /\ UNCHANGED <<stored, overs, minted, revoked, history>>
    BY <1>12 DEF NotGranted
  <2>2. \A s \in Runtimes : s # r => flights'[s] = flights[s]
    BY <1>1, <2>1
  <2>3. ~Exchanging(r) /\ ~Exchanging(r)'
    BY <1>1, <2>1, NoFlightTyped DEF Exchanging
  <2>4. \A s \in Runtimes : Exchanging(s)' <=> Exchanging(s)
    BY <2>2, <2>3 DEF Exchanging
  <2>5. \A p \in Pages : Failed(pages[p], b).state = "idle"
    BY <1>1 DEF Failed, Page
  <2> QED
    BY <2>1, <2>2, <2>3, <2>4, <2>5, NothingMoves DEF VisitorInv, Undisturbed
<1>13. ASSUME NEW r \in Runtimes, NEW b \in BOOLEAN, Refused(r, b)
       PROVE  VisitorInv'
  <2>1. /\ flights[r].status = "refused" /\ flights' = [flights EXCEPT ![r] = NoFlight]
        /\ UNCHANGED revoked
    BY <1>13 DEF Refused
  <2>2. /\ history'.overs = history.overs /\ history'.gaveUp = history.gaveUp
        /\ history'.orphaned = history.orphaned
    BY <1>2, <1>13 DEF Refused
  <2>3. ~Undisturbed /\ (Undisturbed' <=> Undisturbed)
    BY <2>1, <2>2 DEF VisitorInv, Undisturbed, ExchangeCurrent, Exchanging
  <2>4. \A s \in Runtimes : Exchanging(s)' => Exchanging(s)
    BY <1>1, <2>1, NoFlightTyped DEF Exchanging
  <2> QED
    BY <2>3, <2>4, DisturbedStep
<1>14. ASSUME NEW v \in Visitors, Revoke(v)
       PROVE  VisitorInv'
  <2>1. UNCHANGED flights /\ revoked' # {}
    BY <1>14 DEF Revoke
  <2> QED
    BY <2>1, DisturbedStep DEF Undisturbed, Exchanging
<1>15. CASE UNCHANGED vars
  BY <1>15 DEF vars, VisitorInv, OneHolds, Exchanging, Undisturbed, MintedIsStored,
               ExchangeCurrent
<1> QED
  BY <1>3, <1>4, <1>5, <1>6, <1>7, <1>8, <1>9, <1>10, <1>11, <1>12, <1>13, <1>14,
     <1>15 DEF Next

(* However many pages open at once, in however many tabs, and however      *)
(* often an answer is lost, the service mints one visitor for the browser. *)
THEOREM BrowserIsOneVisitor == Spec => []OneVisitor
<1>1. Typed /\ VisitorInv /\ [Next]_vars => VisitorInv'
  BY VisitorStep
<1> QED
  BY TypesInvariant, InitVisitor, <1>1, OneVisitorInvariant, PTL DEF Spec

-----------------------------------------------------------------------------
(* Continuity.  Unless it is overtaken, the exchange that is under way was *)
(* begun with the token that is stored, and a page that is to delete it    *)
(* has had it refused.                                                     *)

KeysDistinct ==
  \A r \in Runtimes, p \in Pages :
    Exchanging(r) /\ overs[p].status # "none" => flights[r].key # overs[p].key

KeysFresh ==
  \A r \in Runtimes : Exchanging(r) /\ flights[r].sent # None => flights[r].key \notin minted

Carries(r) ==
  Exchanging(r) /\ stored # None =>
    /\ flights[r].sent = stored
    /\ flights[r].status = "granted" => flights[r].visitor = stored
    /\ flights[r].status = "refused" => stored \in revoked

ContinuityInv ==
  /\ OneHolds
  /\ KeysDistinct
  /\ KeysFresh
  /\ ~history.overtaken =>
       /\ \A r \in Runtimes : Carries(r)
       /\ \A p \in Pages : pages[p].state = "deleting" => stored \in revoked \cup {None}

LEMMA InitContinuity == Init => ContinuityInv
BY DEF Init, ContinuityInv, OneHolds, KeysDistinct, KeysFresh, Carries, Exchanging,
       NoFlight, NoOver

(* A step that stores nothing, begins nothing and starts no recovery.      *)
LEMMA ContinuityStays ==
  ASSUME ContinuityInv, UNCHANGED <<stored, minted>>, revoked \subseteq revoked',
         history'.overtaken = history.overtaken,
         \A r \in Runtimes : Exchanging(r)' =>
           /\ Exchanging(r)
           /\ flights'[r].status \in {flights[r].status, "asking"}
           /\ flights'[r].key = flights[r].key /\ flights'[r].sent = flights[r].sent
           /\ flights'[r].visitor = flights[r].visitor \/ flights'[r].status = "asking",
         \A p \in Pages : overs'[p].status # "none" =>
           overs[p].status # "none" /\ overs'[p].key = overs[p].key,
         \A p \in Pages : pages'[p].state = "deleting" => pages[p].state = "deleting"
  PROVE  ContinuityInv'
<1>1. OneHolds'
  BY HoldersStay DEF ContinuityInv
<1>2. KeysDistinct' /\ KeysFresh'
  BY DEF ContinuityInv, KeysDistinct, KeysFresh
<1>3. ASSUME ~history'.overtaken
      PROVE  /\ \A r \in Runtimes : Carries(r)'
             /\ \A p \in Pages : pages'[p].state = "deleting" => stored' \in revoked' \cup {None}
  <2>1. ASSUME NEW r \in Runtimes, Exchanging(r)', stored' # None
        PROVE  /\ flights'[r].sent = stored'
               /\ flights'[r].status = "granted" => flights'[r].visitor = stored'
               /\ flights'[r].status = "refused" => stored' \in revoked'
    BY <1>3, <2>1 DEF ContinuityInv, Carries
  <2>2. \A r \in Runtimes : Carries(r)'
    BY <2>1 DEF Carries
  <2>3. \A p \in Pages : pages'[p].state = "deleting" => stored' \in revoked' \cup {None}
    BY <1>3 DEF ContinuityInv
  <2> QED
    BY <2>2, <2>3
<1> QED
  BY <1>1, <1>2, <1>3 DEF ContinuityInv

(* A step after which nothing is under way that could replace what is      *)
(* stored.                                                                 *)
LEMMA NothingUnderWay ==
  ASSUME \A r \in Runtimes : ~Exchanging(r)',
         history'.overtaken \/ \A p \in Pages : pages'[p].state # "deleting"
  PROVE  ContinuityInv'
BY DEF ContinuityInv, OneHolds, KeysDistinct, KeysFresh, Carries

LEMMA ContinuityStep ==
  ASSUME Typed, ContinuityInv, [Next]_vars
  PROVE  ContinuityInv'
<1> USE DEF Typed
<1>1. /\ pages \in [Pages -> Page] /\ overs \in [Pages -> Over]
      /\ flights \in [Runtimes -> Exchange]
  BY DEF TypeOK
<1>2. history \in [exchanges: Nat, lost: Nat, overs: Nat, gaveUp: BOOLEAN,
                   orphaned: BOOLEAN, overtaken: BOOLEAN, unshown: BOOLEAN,
                   stopped: SUBSET Pages]
  BY DEF TypeOK
<1>3. ASSUME NEW p \in Pages, Open(p) \/ Renew(p) \/ RetryAuthorization(p)
      PROVE  ContinuityInv'
  <2>1. Join(p) /\ UNCHANGED <<stored, overs, minted, revoked, history>>
    BY <1>3 DEF Open, Renew, RetryAuthorization, Ask
  <2>2. \A q \in Pages : pages'[q].state = pages[q].state \/ pages'[q].state = "waiting"
    <3>1. \A q \in Pages : q # p => pages'[q] = pages[q]
      BY <1>1, <1>3 DEF Open, Renew, RetryAuthorization
    <3>2. pages'[p].state = "waiting"
      BY <1>1, <1>3 DEF Open, Renew, RetryAuthorization, Page
    <3> QED
      BY <3>1, <3>2
  <2> QED
    BY <2>1, <2>2, JoinKeeps, ContinuityStays DEF Exchanging
<1>4. ASSUME NEW p \in Pages, DropStored(p)
      PROVE  ContinuityInv'
  <2>1. Join(p) /\ stored' = None /\ UNCHANGED <<overs, minted, revoked, history>>
    BY <1>4 DEF DropStored
  <2>2. \A r \in Runtimes : Exchanging(r)' =>
          /\ Exchanging(r)
          /\ flights'[r].key = flights[r].key /\ flights'[r].sent = flights[r].sent
    BY <2>1, JoinKeeps DEF Exchanging
  <2>3. OneHolds' /\ KeysDistinct' /\ KeysFresh'
    BY <2>1, <2>2 DEF ContinuityInv, OneHolds, KeysDistinct, KeysFresh
  <2> QED
    BY <2>1, <2>3 DEF ContinuityInv, Carries
<1>5. ASSUME NEW p \in Pages, StartOver(p)
      PROVE  ContinuityInv'
  <2>1. /\ UNCHANGED <<stored, flights, minted, revoked>>
        /\ history'.overtaken = history.overtaken
    BY <1>2, <1>5 DEF StartOver
  <2>2. \A q \in Pages : pages'[q].state = pages[q].state
    BY <1>1, <1>5 DEF StartOver, Page
  <2>3. \A q \in Pages : overs'[q] = overs[q] \/ overs'[q].key = NewKey
    BY <1>1, <1>5 DEF StartOver
  <2>4. \A r \in Runtimes : Exchanging(r) => flights[r].key # NewKey
    BY <1>2 DEF KeysTaken, Exchanging, Taken, NewKey
  <2>5. KeysDistinct'
    BY <2>1, <2>3, <2>4 DEF ContinuityInv, KeysDistinct, Exchanging
  <2> QED
    BY <2>1, <2>2, <2>5 DEF ContinuityInv, OneHolds, KeysFresh, Carries, Exchanging
<1>6. ASSUME NEW p \in Pages, IssueOver(p)
      PROVE  ContinuityInv'
  <2>1. /\ UNCHANGED <<stored, pages, flights, revoked, history>>
        /\ minted' = minted \cup {overs[p].key} /\ overs[p].status # "none"
    BY <1>6 DEF IssueOver
  <2>2. \A q \in Pages : overs'[q].key = overs[q].key
                        /\ (overs'[q].status # "none" => overs[q].status # "none")
    BY <1>1, <1>6 DEF IssueOver, Over
  <2>3. KeysDistinct' /\ KeysFresh'
    BY <2>1, <2>2 DEF ContinuityInv, KeysDistinct, KeysFresh, Exchanging
  <2> QED
    BY <2>1, <2>3 DEF ContinuityInv, OneHolds, Carries, Exchanging
<1>7. ASSUME NEW p \in Pages, StartedOver(p)
      PROVE  ContinuityInv'
  <2>1. UNCHANGED <<flights, minted, revoked>> /\ overs' = [overs EXCEPT ![p] = NoOver]
    BY <1>7 DEF StartedOver
  <2>2. \A q \in Pages : overs'[q] = overs[q] \/ overs'[q].status = "none"
    BY <1>1, <2>1 DEF NoOver
  <2>3. OneHolds' /\ KeysDistinct' /\ KeysFresh'
    BY <2>1, <2>2 DEF ContinuityInv, OneHolds, KeysDistinct, KeysFresh, Exchanging
  <2>4. CASE pages[p].destroyed
    BY <1>7, <2>1, <2>3, <2>4 DEF StartedOver, ContinuityInv, Carries, Exchanging
  <2>5. CASE ~pages[p].destroyed
    <3> DEFINE over == history.overtaken \/ Deleting # {} \/ Holding # {}
    <3>1. history' = [history EXCEPT !.stopped = history.stopped \ {p}, !.overtaken = over]
      BY <1>7, <2>5 DEF StartedOver
    <3> HIDE DEF over
    <3>2. history'.overtaken = over
      BY <1>2, <3>1
    <3>3. ASSUME ~history'.overtaken
          PROVE  /\ \A r \in Runtimes : ~Exchanging(r)
                 /\ \A q \in Pages : pages[q].state # "deleting"
      BY <3>2, <3>3 DEF over, Deleting, Holding, Exchanging
    <3> DEFINE w == [pages[p] EXCEPT !.token = overs[p].key, !.timer = TRUE,
                                     !.exposed = FALSE]
    <3>4. pages' = [pages EXCEPT ![p] = w]
      BY <1>7, <2>5 DEF StartedOver
    <3>5. w.state = pages[p].state
      BY <1>1 DEF Page
    <3>6. \A q \in Pages : pages'[q].state = pages[q].state
      BY <1>1, <3>4, <3>5
    <3> QED
      BY <2>1, <2>3, <3>3, <3>6 DEF ContinuityInv, Carries, Exchanging
  <2> QED
    BY <2>4, <2>5
<1>8. ASSUME NEW p \in Pages, NotStartedOver(p)
      PROVE  ContinuityInv'
  <2>1. UNCHANGED <<stored, pages, flights, minted, revoked>>
        /\ overs' = [overs EXCEPT ![p] = NoOver]
    BY <1>8 DEF NotStartedOver
  <2>2. \A q \in Pages : overs'[q] = overs[q] \/ overs'[q].status = "none"
    BY <1>1, <2>1 DEF NoOver
  <2>3. history'.overtaken = history.overtaken
    BY <1>2, <1>8 DEF NotStartedOver
  <2> QED
    BY <2>1, <2>2, <2>3, ContinuityStays DEF Exchanging
<1>9. ASSUME NEW p \in Pages, MarkExposed(p) \/ Destroy(p)
      PROVE  ContinuityInv'
  <2>1. UNCHANGED <<stored, flights, overs, minted, revoked, history>>
    BY <1>9 DEF MarkExposed, Destroy
  <2>2. pages'[p].state = pages[p].state
    BY <1>1, <1>9 DEF MarkExposed, Destroy, Page
  <2>3. \A q \in Pages : q # p => pages'[q] = pages[q]
    BY <1>1, <1>9 DEF MarkExposed, Destroy
  <2> QED
    BY <2>1, <2>2, <2>3, ContinuityStays DEF Exchanging
<1>10. ASSUME NEW r \in Runtimes, Lock(r)
       PROVE  ContinuityInv'
  <2>1. \A s \in Runtimes : ~Exchanging(s)
    BY <1>10 DEF Lock, Holding, Exchanging
  <2>2. BeginExchange(r) /\ UNCHANGED <<stored, pages, overs, minted, revoked>>
    BY <1>10 DEF Lock, BeginExchange
  <2>3. \A s \in Runtimes : s # r => flights'[s] = flights[s]
    BY <1>1, <2>2 DEF BeginExchange
  <2>4. history'.overtaken = history.overtaken
    BY <1>2, <2>2 DEF BeginExchange
  <2>5. CASE pages[flights[r].owner].destroyed
    <3>1. flights'[r].status = "failed"
      BY <1>1, <2>2, <2>5 DEF BeginExchange, Exchange
    <3>2. \A s \in Runtimes : ~Exchanging(s)'
      BY <2>1, <2>3, <3>1 DEF Exchanging
    <3> QED
      BY <2>2, <2>4, <3>2, ContinuityStays
  <2>6. CASE ~pages[flights[r].owner].destroyed
    <3> DEFINE f == [flights[r] EXCEPT !.status = "asking", !.key = NewKey, !.sent = stored]
    <3>1. flights' = [flights EXCEPT ![r] = f]
      BY <2>2, <2>6 DEF BeginExchange
    <3>2. flights[r] \in Exchange
      BY <1>1
    <3>3. f.status = "asking" /\ f.key = NewKey /\ f.sent = stored
      BY <3>2 DEF Exchange
    <3>4. flights'[r].status = "asking" /\ flights'[r].key = NewKey /\ flights'[r].sent = stored
      BY <1>1, <3>1, <3>3
    <3>5. NewKey \notin minted
      BY <1>2 DEF KeysTaken, Taken, NewKey
    <3>6. \A p \in Pages : overs[p].status # "none" => NewKey # overs[p].key
      BY <1>2 DEF KeysTaken, Taken, NewKey
    <3>7. \A s \in Runtimes : Exchanging(s)' => s = r
      BY <2>1, <2>3 DEF Exchanging
    <3>8. OneHolds' /\ KeysDistinct' /\ KeysFresh'
      BY <2>2, <3>4, <3>5, <3>6, <3>7 DEF OneHolds, KeysDistinct, KeysFresh
    <3>9. \A s \in Runtimes : Carries(s)'
      BY <2>2, <3>4, <3>7 DEF Carries
    <3> QED
      BY <2>2, <2>4, <3>8, <3>9 DEF ContinuityInv
  <2> QED
    BY <2>5, <2>6
<1>11. ASSUME NEW r \in Runtimes, Issue(r)
       PROVE  ContinuityInv'
  <2> DEFINE f == flights[r]
             g == [f EXCEPT !.status = "granted", !.visitor = f.key]
             h == [f EXCEPT !.status = "granted", !.visitor = f.sent]
             e == [f EXCEPT !.status = "refused"]
  <2>1. /\ f \in Exchange /\ f.status = "asking"
        /\ UNCHANGED <<stored, pages, overs, revoked, history>>
        /\ minted' = IF f.sent = None THEN minted \cup {f.key} ELSE minted
        /\ \A s \in Runtimes : s # r => flights'[s] = flights[s]
    BY <1>1, <1>11 DEF Issue
  <2>2. \/ (f.key \in minted \/ f.sent = None) /\ flights' = [flights EXCEPT ![r] = g]
        \/ f.sent \notin revoked /\ flights' = [flights EXCEPT ![r] = h]
        \/ f.sent \in revoked /\ flights' = [flights EXCEPT ![r] = e]
    BY <1>11 DEF Issue
  <2>3. /\ g.status = "granted" /\ g.key = f.key /\ g.sent = f.sent
        /\ h.status = "granted" /\ h.key = f.key /\ h.sent = f.sent /\ h.visitor = f.sent
        /\ e.status = "refused" /\ e.key = f.key /\ e.sent = f.sent
    BY <2>1 DEF Exchange
  <2> HIDE DEF g, h, e
  <2>4. /\ flights'[r].key = f.key /\ flights'[r].sent = f.sent
        /\ \/ (f.key \in minted \/ f.sent = None) /\ flights'[r].status = "granted"
           \/ flights'[r].status = "granted" /\ flights'[r].visitor = f.sent
           \/ flights'[r].status = "refused" /\ f.sent \in revoked
    BY <1>1, <2>2, <2>3
  <2>5. Exchanging(r) /\ \A s \in Runtimes : Exchanging(s)' => s = r
    BY <2>1 DEF ContinuityInv, OneHolds, Exchanging
  <2>6. OneHolds' /\ KeysDistinct' /\ KeysFresh'
    <3>1. OneHolds'
      BY <2>5 DEF OneHolds
    <3>2. KeysDistinct'
      BY <2>1, <2>4, <2>5 DEF ContinuityInv, KeysDistinct
    <3>3. KeysFresh'
      BY <2>1, <2>4, <2>5 DEF ContinuityInv, KeysFresh
    <3> QED
      BY <3>1, <3>2, <3>3
  <2>7. ASSUME ~history.overtaken, stored # None
        PROVE  /\ flights'[r].sent = stored
               /\ flights'[r].status = "granted" => flights'[r].visitor = stored
               /\ flights'[r].status = "refused" => stored \in revoked
    <3>1. f.sent = stored /\ f.key \notin minted
      BY <2>5, <2>7 DEF ContinuityInv, Carries, KeysFresh
    <3> QED
      BY <2>4, <2>7, <3>1
  <2> QED
    BY <2>1, <2>5, <2>6, <2>7 DEF ContinuityInv, Carries
<1>12. ASSUME NEW r \in Runtimes, LoseAnswer(r)
       PROVE  ContinuityInv'
  <2>1. PICK givenUp \in {pages[flights[r].owner].destroyed, TRUE} :
          /\ flights' = [flights EXCEPT ![r] =
               IF givenUp THEN [@ EXCEPT !.status = "failed"] ELSE AskAgain(@)]
          /\ history' = [history EXCEPT !.lost = @ + 1, !.gaveUp = @ \/ givenUp]
    BY <1>12 DEF LoseAnswer
  <2>2. /\ flights[r] \in Exchange /\ flights[r].status \in {"asking", "granted"}
        /\ UNCHANGED <<stored, pages, overs, minted, revoked>>
    BY <1>1, <1>12 DEF LoseAnswer
  <2> DEFINE g == AskAgain(flights[r])
             e == [flights[r] EXCEPT !.status = "failed"]
  <2>3. flights' = [flights EXCEPT ![r] = g] \/ flights' = [flights EXCEPT ![r] = e]
    BY <2>1
  <2>4. /\ g.status = "asking" /\ g.key = flights[r].key /\ g.sent = flights[r].sent
        /\ e.status = "failed"
    BY <2>2 DEF AskAgain, Exchange
  <2> HIDE DEF g, e
  <2>5. /\ \A s \in Runtimes : s # r => flights'[s] = flights[s]
        /\ flights'[r] = g \/ flights'[r] = e
    BY <1>1, <2>3
  <2>6. history'.overtaken = history.overtaken
    BY <1>2, <2>1
  <2> QED
    BY <2>2, <2>4, <2>5, <2>6, ContinuityStays DEF Exchanging
<1>13. ASSUME NEW r \in Runtimes, NEW b \in BOOLEAN, Granted(r, b)
       PROVE  ContinuityInv'
  <2> DEFINE f == flights[r]
  <2>1. /\ f.status = "granted" /\ flights' = [flights EXCEPT ![r] = NoFlight]
        /\ \A p \in Pages : pages'[p] = pages[p] \/ pages'[p] = ApplyGrant(pages[p], f.visitor, b)
    BY <1>13 DEF Granted
  <2>2. history'.overtaken = (history.overtaken \/ Deleting # {})
    BY <1>2, <1>13 DEF Granted
  <2>3. \A s \in Runtimes : s # r => flights'[s] = flights[s]
    BY <1>1, <2>1
  <2>4. ~Exchanging(r)' /\ \A s \in Runtimes : ~Exchanging(s)'
    BY <1>1, <2>1, <2>3, NoFlightTyped DEF ContinuityInv, OneHolds, Exchanging
  <2>5. \A p \in Pages : ApplyGrant(pages[p], f.visitor, b).state = "idle"
    BY <1>1 DEF ApplyGrant, Page
  <2>6. history'.overtaken \/ \A p \in Pages : pages'[p].state # "deleting"
    BY <2>1, <2>2, <2>5 DEF Deleting
  <2> QED
    BY <2>4, <2>6, NothingUnderWay
<1>14. ASSUME NEW r \in Runtimes, NEW b \in BOOLEAN, NotGranted(r, b)
       PROVE  ContinuityInv'
  <2>1. /\ flights[r].status = "failed" /\ flights' = [flights EXCEPT ![r] = NoFlight]
        /\ \A p \in Pages : pages'[p] = pages[p] \/ pages'[p] = Failed(pages[p], b)
        /\ UNCHANGED <<stored, overs, minted, revoked, history>>
    BY <1>14 DEF NotGranted
  <2>2. \A s \in Runtimes : Exchanging(s)' => Exchanging(s) /\ flights'[s] = flights[s]
    BY <1>1, <2>1, NoFlightTyped DEF Exchanging
  <2>3. \A p \in Pages : Failed(pages[p], b).state = "idle"
    BY <1>1 DEF Failed, Page
  <2> QED
    BY <2>1, <2>2, <2>3, ContinuityStays
<1>15. ASSUME NEW r \in Runtimes, NEW b \in BOOLEAN, Refused(r, b)
       PROVE  ContinuityInv'
  <2>1. /\ flights[r].status = "refused" /\ flights' = [flights EXCEPT ![r] = NoFlight]
        /\ UNCHANGED <<stored, overs, minted, revoked>>
    BY <1>15 DEF Refused
  <2>2. history'.overtaken = history.overtaken
    BY <1>2, <1>15 DEF Refused
  <2>3. \A s \in Runtimes : ~Exchanging(s)'
    BY <1>1, <2>1, NoFlightTyped DEF ContinuityInv, OneHolds, Exchanging
  <2>4. ~history.overtaken => stored \in revoked \cup {None}
    BY <2>1 DEF ContinuityInv, Carries, Exchanging
  <2> QED
    BY <2>1, <2>2, <2>3, <2>4 DEF ContinuityInv, OneHolds, KeysDistinct, KeysFresh, Carries
<1>16. ASSUME NEW v \in Visitors, Revoke(v)
       PROVE  ContinuityInv'
  BY <1>16, ContinuityStays DEF Revoke, Exchanging
<1>17. CASE UNCHANGED vars
  BY <1>17, ContinuityStays DEF vars, Exchanging
<1> QED
  BY <1>3, <1>4, <1>5, <1>6, <1>7, <1>8, <1>9, <1>10, <1>11, <1>12, <1>13, <1>14,
     <1>15, <1>16, <1>17 DEF Next

LEMMA StoredStep ==
  ASSUME Typed, ContinuityInv, [Next]_vars, stored' # stored
  PROVE  \/ stored \in revoked \cup {None}
         \/ history'.overtaken
         \/ \E p \in Pages : StartedOver(p)
<1>1. ASSUME NEW p \in Pages, DropStored(p)
      PROVE  stored \in revoked \cup {None} \/ history'.overtaken
  BY <1>1 DEF DropStored, ContinuityInv
<1>2. ASSUME NEW r \in Runtimes, NEW b \in BOOLEAN, Granted(r, b)
      PROVE  stored = None \/ history'.overtaken
  <2>1. /\ flights[r].status = "granted"
        /\ stored' = IF ~pages[flights[r].owner].destroyed THEN flights[r].visitor ELSE stored
    BY <1>2 DEF Granted
  <2>2. history'.overtaken = (history.overtaken \/ Deleting # {})
    BY <1>2 DEF Granted, Typed, TypeOK
  <2> QED
    BY <2>1, <2>2 DEF ContinuityInv, Carries, Exchanging
<1>3. ASSUME NEW p \in Pages,
             \/ Open(p) \/ Renew(p) \/ RetryAuthorization(p) \/ StartOver(p)
             \/ IssueOver(p) \/ NotStartedOver(p) \/ MarkExposed(p) \/ Destroy(p)
      PROVE  FALSE
  BY <1>3 DEF Open, Renew, RetryAuthorization, Ask, StartOver, IssueOver,
              NotStartedOver, MarkExposed, Destroy
<1>4. ASSUME NEW r \in Runtimes, NEW b \in BOOLEAN,
             Lock(r) \/ Issue(r) \/ LoseAnswer(r) \/ NotGranted(r, b) \/ Refused(r, b)
      PROVE  FALSE
  BY <1>4 DEF Lock, BeginExchange, Issue, LoseAnswer, NotGranted, Refused
<1>5. ASSUME NEW v \in Visitors, Revoke(v)
      PROVE  FALSE
  BY <1>5 DEF Revoke
<1>6. ~ UNCHANGED vars
  BY DEF vars
<1> QED
  BY <1>1, <1>2, <1>3, <1>4, <1>5, <1>6 DEF Next

(* A returning visitor is not lost: the token that is stored is replaced   *)
(* or deleted only if the service refuses it, by a page that starts over,  *)
(* or by what such a page or another tab has overtaken.                    *)
THEOREM VisitorIsNotLost == Spec => ContinuityKept
<1>1. Typed /\ ContinuityInv /\ [Next]_vars => ContinuityInv'
  BY ContinuityStep
<1>2. Typed /\ ContinuityInv /\ [Next]_vars =>
        [stored' # stored =>
           \/ stored \in revoked \cup {None}
           \/ history'.overtaken
           \/ \E p \in Pages : StartedOver(p)]_vars
  BY StoredStep
<1> QED
  BY TypesInvariant, InitContinuity, <1>1, <1>2, PTL DEF Spec, ContinuityKept

-----------------------------------------------------------------------------
(* A page that has shown something keeps its visitor.  While nobody starts *)
(* over, no page that has shown nothing drops the token and every exchange *)
(* is stored, each page has the visitor that is stored, or none.           *)

Calm == history.overs = 0 /\ ~history.unshown /\ ~history.orphaned

AsStored ==
  \A p \in Pages :
    /\ overs[p].status = "none"
    /\ pages[p].state # "deleting"
    /\ pages[p].token \in {None, stored}

ShownInv == Calm => ~history.overtaken /\ AsStored

LEMMA InitShown == Init => ShownInv
BY DEF Init, ShownInv, AsStored, NoOver

(* A step that stores nothing and gives no page a token.                   *)
LEMMA ShownStays ==
  ASSUME ShownInv, stored' = stored, Calm' => Calm,
         Calm => history'.overtaken = history.overtaken,
         \A p \in Pages : /\ overs'[p].status # "none" => overs[p].status # "none"
                          /\ Calm' /\ pages'[p].state = "deleting" => pages[p].state = "deleting"
                          /\ pages'[p].token \in {None, pages[p].token}
  PROVE  /\ ShownInv'
         /\ \A p \in Pages : pages'[p].token \in {None, pages[p].token}
BY DEF ShownInv, AsStored

(* What a step may do to the token of a page.                              *)
KeepsVisitor ==
  \A p \in Pages : pages[p].token # None => pages'[p].token \in {None, pages[p].token} \/ ~Calm

LEMMA ShownStep ==
  ASSUME Typed, ContinuityInv, ShownInv, [Next]_vars
  PROVE  ShownInv' /\ KeepsVisitor
<1>1. /\ pages \in [Pages -> Page] /\ overs \in [Pages -> Over]
      /\ flights \in [Runtimes -> Exchange]
  BY DEF Typed, TypeOK
<1>2. history \in [exchanges: Nat, lost: Nat, overs: Nat, gaveUp: BOOLEAN,
                   orphaned: BOOLEAN, overtaken: BOOLEAN, unshown: BOOLEAN,
                   stopped: SUBSET Pages]
  BY DEF Typed, TypeOK
<1>3. ASSUME UNCHANGED <<stored, history>>,
             \A p \in Pages : /\ overs'[p].status # "none" => overs[p].status # "none"
                              /\ pages'[p].state = "deleting" => pages[p].state = "deleting"
                              /\ pages'[p].token \in {None, pages[p].token}
      PROVE  ShownInv' /\ KeepsVisitor
  BY <1>3, ShownStays DEF Calm, KeepsVisitor
<1>4. ASSUME NEW p \in Pages, Open(p) \/ Renew(p) \/ RetryAuthorization(p)
      PROVE  ShownInv' /\ KeepsVisitor
  <2>1. UNCHANGED <<stored, overs, history>>
    BY <1>4 DEF Open, Renew, RetryAuthorization, Ask
  <2>2. /\ pages'[p].token = pages[p].token /\ pages'[p].state = "waiting"
        /\ \A q \in Pages : q # p => pages'[q] = pages[q]
    BY <1>1, <1>4 DEF Open, Renew, RetryAuthorization, Page
  <2> QED
    BY <1>3, <2>1, <2>2
<1>5. ASSUME NEW p \in Pages, DropStored(p)
      PROVE  ShownInv' /\ KeepsVisitor
  BY <1>5 DEF DropStored, ShownInv, AsStored, KeepsVisitor, Calm
<1>6. ASSUME NEW p \in Pages, StartOver(p)
      PROVE  ShownInv' /\ KeepsVisitor
  <2>1. history'.overs = history.overs + 1 /\ history.overs \in Nat
    BY <1>2, <1>6 DEF StartOver
  <2>2. ~Calm'
    BY <2>1 DEF Calm
  <2>3. \A q \in Pages : pages'[q].token = pages[q].token
    BY <1>1, <1>6 DEF StartOver, Page
  <2> QED
    BY <2>2, <2>3 DEF ShownInv, KeepsVisitor
<1>7. ASSUME NEW p \in Pages, IssueOver(p)
      PROVE  ShownInv' /\ KeepsVisitor
  <2>1. UNCHANGED <<stored, pages, history>>
    BY <1>7 DEF IssueOver
  <2>2. \A q \in Pages : overs'[q].status # "none" => overs[q].status # "none"
    BY <1>1, <1>7 DEF IssueOver, Over
  <2> QED
    BY <1>3, <2>1, <2>2
<1>8. ASSUME NEW p \in Pages, StartedOver(p)
      PROVE  ShownInv' /\ KeepsVisitor
  <2>1. ~Calm
    BY <1>8 DEF StartedOver, ShownInv, AsStored
  <2>2. history'.overs = history.overs /\ history'.unshown = history.unshown
        /\ history'.orphaned = history.orphaned
    BY <1>2, <1>8 DEF StartedOver
  <2> QED
    BY <2>1, <2>2 DEF ShownInv, KeepsVisitor, Calm
<1>9. ASSUME NEW p \in Pages, NotStartedOver(p)
      PROVE  ShownInv' /\ KeepsVisitor
  <2>1. ~Calm
    BY <1>9 DEF NotStartedOver, ShownInv, AsStored
  <2>2. history'.overs = history.overs /\ history'.unshown = history.unshown
        /\ history'.orphaned = history.orphaned
    BY <1>2, <1>9 DEF NotStartedOver
  <2> QED
    BY <2>1, <2>2 DEF ShownInv, KeepsVisitor, Calm
<1>10. ASSUME NEW p \in Pages, MarkExposed(p) \/ Destroy(p)
       PROVE  ShownInv' /\ KeepsVisitor
  <2>1. UNCHANGED <<stored, overs, history>>
    BY <1>10 DEF MarkExposed, Destroy
  <2>2. /\ pages'[p].state = pages[p].state /\ pages'[p].token \in {None, pages[p].token}
        /\ \A q \in Pages : q # p => pages'[q] = pages[q]
    BY <1>1, <1>10 DEF MarkExposed, Destroy, Page
  <2> QED
    BY <1>3, <2>1, <2>2
<1>11. ASSUME NEW r \in Runtimes, Lock(r) \/ Issue(r) \/ LoseAnswer(r)
       PROVE  ShownInv' /\ KeepsVisitor
  <2>1. UNCHANGED <<stored, pages, overs>>
    BY <1>11 DEF Lock, BeginExchange, Issue, LoseAnswer
  <2>2. /\ history'.overs = history.overs /\ history'.unshown = history.unshown
        /\ history'.orphaned = history.orphaned /\ history'.overtaken = history.overtaken
    BY <1>2, <1>11 DEF Lock, BeginExchange, Issue, LoseAnswer
  <2> QED
    BY <2>1, <2>2, ShownStays DEF Calm, KeepsVisitor
<1>12. ASSUME NEW r \in Runtimes, NEW b \in BOOLEAN, Granted(r, b)
       PROVE  ShownInv' /\ KeepsVisitor
  <2> DEFINE f == flights[r]
             stores == ~pages[f.owner].destroyed
  <2>1. /\ f.status = "granted" /\ Exchanging(r) /\ UNCHANGED overs
        /\ stored' = IF stores THEN f.visitor ELSE stored
        /\ \A p \in Pages : pages'[p] = IF p \in f.members THEN ApplyGrant(pages[p], f.visitor, b)
                                                           ELSE pages[p]
    BY <1>12 DEF Granted, Exchanging
  <2>2. \A p \in Pages : /\ pages'[p].token \in {None, pages[p].token, f.visitor}
                         /\ pages'[p].state \in {pages[p].state, "idle"}
    <3>1. ASSUME NEW p \in Pages
          PROVE  /\ ApplyGrant(pages[p], f.visitor, b).token \in {pages[p].token, f.visitor}
                 /\ ApplyGrant(pages[p], f.visitor, b).state = "idle"
      BY <1>1 DEF ApplyGrant, Page
    <3> QED
      BY <2>1, <3>1
  <2>3. /\ history'.overs = history.overs /\ history'.unshown = history.unshown
        /\ history'.orphaned = (history.orphaned \/ ~stores)
        /\ history'.overtaken = (history.overtaken \/ Deleting # {})
    BY <1>2, <1>12 DEF Granted
  <2>4. Calm' => Calm /\ stores
    BY <2>3 DEF Calm
  <2>5. Calm => AsStored /\ ~history'.overtaken
    BY <2>3 DEF ShownInv, AsStored, Deleting
  <2>6. Calm /\ stored # None => f.visitor = stored
    BY <2>1 DEF ShownInv, ContinuityInv, Carries
  <2> HIDE DEF f, stores
  <2>7. KeepsVisitor
    BY <2>2, <2>5, <2>6 DEF KeepsVisitor, AsStored
  <2>8. Calm' => AsStored'
    BY <2>1, <2>2, <2>4, <2>5, <2>6 DEF AsStored
  <2> QED
    BY <2>4, <2>5, <2>7, <2>8 DEF ShownInv
<1>13. ASSUME NEW r \in Runtimes, NEW b \in BOOLEAN, NotGranted(r, b)
       PROVE  ShownInv' /\ KeepsVisitor
  <2>1. /\ UNCHANGED <<stored, overs, history>>
        /\ \A p \in Pages : pages'[p] = pages[p] \/ pages'[p] = Failed(pages[p], b)
    BY <1>13 DEF NotGranted
  <2>2. \A p \in Pages : Failed(pages[p], b).token \in {None, pages[p].token}
                         /\ Failed(pages[p], b).state = "idle"
    BY <1>1 DEF Failed, Page
  <2>3. \A p \in Pages : pages'[p].token \in {None, pages[p].token}
                         /\ (pages'[p].state = "deleting" => pages[p].state = "deleting")
    BY <2>1, <2>2
  <2> QED
    BY <1>3, <2>1, <2>3
<1>14. ASSUME NEW r \in Runtimes, NEW b \in BOOLEAN, Refused(r, b)
       PROVE  ShownInv' /\ KeepsVisitor
  <2> DEFINE d(p) == [pages[p] EXCEPT !.state = "deleting"]
             dropped == \E p \in flights[r].members : Drops(pages[p]) /\ ~pages[p].exposed
  <2>1. /\ UNCHANGED <<stored, overs>>
        /\ \A p \in Pages : \/ pages'[p] = pages[p] \/ pages'[p] = Failed(pages[p], b)
                            \/ pages'[p] = d(p) /\ dropped
    BY <1>14 DEF Refused, Drops
  <2>2. \A p \in Pages : /\ Failed(pages[p], b).token \in {None, pages[p].token}
                         /\ Failed(pages[p], b).state = "idle"
                         /\ d(p).token = pages[p].token
    BY <1>1 DEF Failed, Page
  <2>3. /\ history'.overs = history.overs /\ history'.unshown = (history.unshown \/ dropped)
        /\ history'.orphaned = history.orphaned /\ history'.overtaken = history.overtaken
    BY <1>2, <1>14 DEF Refused
  <2> HIDE DEF d, dropped
  <2>4. \A p \in Pages : pages'[p].token \in {None, pages[p].token}
    BY <2>1, <2>2
  <2>5. Calm' => Calm /\ ~dropped
    BY <2>3 DEF Calm
  <2>6. \A p \in Pages : Calm' /\ pages'[p].state = "deleting" => pages[p].state = "deleting"
    BY <2>1, <2>2, <2>5
  <2> QED
    BY <2>1, <2>3, <2>4, <2>5, <2>6, ShownStays DEF KeepsVisitor
<1>15. ASSUME NEW v \in Visitors, Revoke(v)
       PROVE  ShownInv' /\ KeepsVisitor
  BY <1>3, <1>15 DEF Revoke
<1>16. CASE UNCHANGED vars
  BY <1>3, <1>16 DEF vars
<1> QED
  BY <1>4, <1>5, <1>6, <1>7, <1>8, <1>9, <1>10, <1>11, <1>12, <1>13, <1>14, <1>15,
     <1>16 DEF Next

(* A page that has shown something of its visitor's Conversation keeps     *)
(* that visitor or has none: `applyGrant` gives it another one only after  *)
(* a start over, a recovery that dropped the token of all, or an exchange  *)
(* whose page was destroyed before it stored the token.                    *)
THEOREM ShownVisitorStays == Spec => ShownVisitorIsKept
<1>1. (Typed /\ ContinuityInv /\ ShownInv) /\ [Next]_vars => (ContinuityInv /\ ShownInv)'
  BY ContinuityStep, ShownStep
<1>2. Typed /\ ContinuityInv /\ ShownInv /\ [Next]_vars =>
        [\A p \in Pages :
           pages[p].exposed /\ pages[p].token # None =>
             \/ pages'[p].token \in {None, pages[p].token}
             \/ history.overs > 0 \/ history.unshown \/ history.orphaned]_vars
  <2>1. ASSUME Typed, ContinuityInv, ShownInv, [Next]_vars, NEW p \in Pages,
               pages[p].token # None
        PROVE  \/ pages'[p].token \in {None, pages[p].token}
               \/ history.overs > 0 \/ history.unshown \/ history.orphaned
    <3>1. history.overs \in Nat
      BY <2>1 DEF Typed, TypeOK
    <3>2. pages'[p].token \in {None, pages[p].token} \/ ~Calm
      BY <2>1, ShownStep DEF KeepsVisitor
    <3> QED
      BY <3>1, <3>2 DEF Calm
  <2> QED
    BY <2>1
<1> QED
  BY TypesInvariant, InitContinuity, InitShown, <1>1, <1>2, PTL DEF Spec, ShownVisitorIsKept
=============================================================================
