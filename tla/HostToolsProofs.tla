--------------------------- MODULE HostToolsProofs ---------------------------
(***************************************************************************)
(* The safety of host tool execution for any calls, waiters, Turn handles  *)
(* and guards: ToolsInv is inductive, and the properties follow from it.   *)
(***************************************************************************)
EXTENDS HostTools, TLAPS

(* A waiter may plan from a reading that shows calls of the Turn, and      *)
(* none that was made alone together with another.                         *)
GoodView(view) ==
  /\ view \in View
  /\ view.calls \subseteq asked
  /\ Apart(view.calls)

-----------------------------------------------------------------------------
LEMMA InitTools == Init => ToolsInv
<1> SUFFICES ASSUME Init PROVE ToolsInv
  OBVIOUS
<1>1. TypeOK
  BY WaitersAssumption DEF Init, TypeOK, View, Status, Pc
<1>2. PlansInv
  BY DEF Init, PlansInv
<1>3. GuardAccountsForCalls
  BY DEF Init, GuardAccountsForCalls
<1>4. LoneInv
  BY WaitersAssumption DEF Init, LoneInv, Apart, Open, Guard
<1>5. QED
  BY <1>1, <1>2, <1>3, <1>4 DEF ToolsInv

LEMMA ParkStep ==
  ASSUME ToolsInv, NEW S \in SUBSET Calls, Park(S)
  PROVE  ToolsInv'
<1> USE WaitersAssumption DEF ToolsInv
<1>1. TypeOK'
  BY DEF TypeOK, Park, planVars, View, Status, Pc, Open, Guard
<1>2. PlansInv'
  BY DEF TypeOK, PlansInv, Park, planVars, Guard
<1>3. GuardAccountsForCalls'
  BY DEF TypeOK, PlansInv, GuardAccountsForCalls, Park, planVars, Guard
<1>4. LoneInv'
  BY DEF TypeOK, PlansInv, LoneInv, Apart, Open, Park, planVars, Guard, View
<1>5. QED
  BY <1>1, <1>2, <1>3, <1>4

LEMMA EndStep ==
  ASSUME ToolsInv, End
  PROVE  ToolsInv'
<1> USE WaitersAssumption DEF ToolsInv
<1>1. TypeOK'
  BY DEF TypeOK, End, planVars, historyVars, View, Status, Pc, Open, Guard
<1>2. PlansInv'
  BY DEF TypeOK, PlansInv, End, planVars, historyVars, Guard
<1>3. GuardAccountsForCalls'
  BY DEF TypeOK, PlansInv, GuardAccountsForCalls, End, planVars, historyVars, Guard
<1>4. LoneInv'
  BY DEF TypeOK, PlansInv, LoneInv, Apart, Open, End, planVars, historyVars, Guard, View
<1>5. QED
  BY <1>1, <1>2, <1>3, <1>4

LEMMA DeliverStep ==
  ASSUME ToolsInv, NEW w \in Waiters, Deliver(w)
  PROVE  ToolsInv'
<1> USE WaitersAssumption DEF ToolsInv
<1>1. TypeOK'
  <2>1. taken' \in [Guards -> SUBSET Calls]
    BY DEF TypeOK, Deliver, Guard
  <2>2. /\ status' \in Status
        /\ asked' \in SUBSET Calls /\ committed' \in SUBSET Calls
        /\ news' \in SUBSET Followers
    BY DEF TypeOK, Deliver, Accept, Status
  <2>3. reply' \in [Waiters -> {"none", "accepted", "refused"}]
    BY DEF TypeOK, Deliver
  <2>4. QED
    BY <2>1, <2>2, <2>3 DEF TypeOK, Deliver
<1>2. PlansInv'
  BY DEF TypeOK, PlansInv, Deliver, Accept, Guard
<1>3. GuardAccountsForCalls'
  BY DEF TypeOK, PlansInv, GuardAccountsForCalls, Deliver, Accept, Guard
<1>4. LoneInv'
  <2>1. /\ results[w] = attempted[w] /\ attempted[w] \subseteq asked
        /\ attempted[w] \cap lone \subseteq handled[Guard(w)]
        /\ asked' = asked /\ committed \subseteq committed'
        /\ status' \in {status, "running"}
    BY DEF Deliver, Accept, PlansInv, LoneInv
  <2>2. /\ status' = "running" => asked' \subseteq committed'
        /\ Open' \subseteq Open
    BY <2>1 DEF Deliver, Accept, LoneInv, Open
  <2>3. /\ taken' \in [Guards -> SUBSET Calls] /\ Guard(w) \in Guards
        /\ \A g \in Guards : \/ taken'[g] = taken[g]
                             \/ /\ g = Guard(w) /\ reply'[w] = "accepted"
                                /\ taken'[g] = taken[g] \cup attempted[w]
    BY <2>1 DEF Deliver, TypeOK, Guard
  <2>4. \A g \in Guards : /\ taken'[g] \cup uncertain[g] \subseteq asked
                         /\ (taken'[g] \cup uncertain[g]) \cap lone \subseteq handled[g]
    BY <2>1, <2>3 DEF LoneInv
  <2>5. ASSUME NEW u \in Waiters, reply'[u] # "accepted"
        PROVE  attempted[u] \cap lone \cap taken'[Guard(u)] = {}
    <3>1. reply[u] # "accepted" /\ Guard(u) \in Guards
      BY <2>5 DEF Deliver, TypeOK, Guard
    <3>2. attempted[u] \cap lone \cap taken[Guard(u)] = {}
      BY <3>1 DEF LoneInv
    <3>3. CASE Guard(u) = Guard(w) /\ u # w
      <4>1. attempted[u] \cap attempted[w] \cap lone = {}
        BY <3>3 DEF LoneInv
      <4>2. QED
        BY <2>3, <3>1, <3>2, <4>1
    <3>4. QED
      BY <2>3, <2>5, <3>1, <3>2, <3>3
  <2>6. QED
    BY <2>2, <2>4, <2>5 DEF LoneInv, Apart, Deliver, Accept, Guard
<1>5. QED
  BY <1>1, <1>2, <1>3, <1>4

LEMMA DeliverStrayStep ==
  ASSUME ToolsInv, NEW batch \in strays, DeliverStray(batch)
  PROVE  ToolsInv'
<1> USE WaitersAssumption DEF ToolsInv
<1>1. TypeOK'
  BY DEF TypeOK, DeliverStray, Accept, planVars, historyVars, View, Status, Pc, Open, Guard
<1>2. PlansInv'
  BY DEF TypeOK, PlansInv, DeliverStray, Accept, planVars, historyVars, Guard
<1>3. GuardAccountsForCalls'
  BY DEF TypeOK, PlansInv, GuardAccountsForCalls, DeliverStray, Accept, planVars, historyVars, Guard
<1>4. LoneInv'
  BY DEF TypeOK, PlansInv, LoneInv, Apart, Open, DeliverStray, Accept, planVars, historyVars, Guard, View
<1>5. QED
  BY <1>1, <1>2, <1>3, <1>4

LEMMA StartStep ==
  ASSUME ToolsInv, NEW w \in Waiters, Start(w)
  PROVE  ToolsInv'
<1> USE WaitersAssumption DEF ToolsInv
<1>1. TypeOK'
  BY DEF TypeOK, Start, serviceVars, planVars, historyVars, View, Status, Pc, Open, Guard
<1>2. PlansInv'
  BY DEF TypeOK, PlansInv, Start, serviceVars, planVars, historyVars, Guard
<1>3. GuardAccountsForCalls'
  BY DEF TypeOK, PlansInv, GuardAccountsForCalls, Start, serviceVars, planVars, historyVars, Guard
<1>4. LoneInv'
  BY DEF TypeOK, PlansInv, LoneInv, Apart, Open, Start, serviceVars, planVars, historyVars, Guard, View
<1>5. QED
  BY <1>1, <1>2, <1>3, <1>4

LEMMA AnswerStep ==
  ASSUME ToolsInv, NEW w \in Waiters, Answer(w)
  PROVE  ToolsInv'
<1> USE WaitersAssumption DEF ToolsInv
<1>1. TypeOK'
  BY DEF TypeOK, Answer, serviceVars, planVars, historyVars, View, Status, Pc, Open, Guard
<1>2. PlansInv'
  BY DEF TypeOK, PlansInv, Answer, serviceVars, planVars, historyVars, Guard
<1>3. GuardAccountsForCalls'
  BY DEF TypeOK, PlansInv, GuardAccountsForCalls, Answer, serviceVars, planVars, historyVars, Guard
<1>4. LoneInv'
  BY DEF TypeOK, PlansInv, LoneInv, Apart, Open, Answer, serviceVars, planVars, historyVars, Guard, View
<1>5. QED
  BY <1>1, <1>2, <1>3, <1>4

LEMMA AnswerFailsStep ==
  ASSUME ToolsInv, NEW w \in Waiters, AnswerFails(w)
  PROVE  ToolsInv'
<1> USE WaitersAssumption DEF ToolsInv
<1>1. TypeOK'
  BY DEF TypeOK, AnswerFails, serviceVars, planVars, historyVars, View, Status, Pc, Open, Guard
<1>2. PlansInv'
  BY DEF TypeOK, PlansInv, AnswerFails, serviceVars, planVars, historyVars, Guard
<1>3. GuardAccountsForCalls'
  BY DEF TypeOK, PlansInv, GuardAccountsForCalls, AnswerFails, serviceVars, planVars, historyVars, Guard
<1>4. LoneInv'
  BY DEF TypeOK, PlansInv, LoneInv, Apart, Open, AnswerFails, serviceVars, planVars, historyVars, Guard, View
<1>5. QED
  BY <1>1, <1>2, <1>3, <1>4

LEMMA AcceptedStep ==
  ASSUME ToolsInv, NEW w \in Waiters, Accepted(w)
  PROVE  ToolsInv'
<1> USE WaitersAssumption DEF ToolsInv
<1>1. TypeOK'
  BY DEF TypeOK, Accepted, Finish, serviceVars, historyVars, View, Status, Pc, Open, Guard
<1>2. PlansInv'
  BY DEF TypeOK, PlansInv, Accepted, Finish, serviceVars, historyVars, Guard
<1>3. GuardAccountsForCalls'
  BY DEF TypeOK, PlansInv, GuardAccountsForCalls, Accepted, Finish, serviceVars, historyVars, Guard
<1>4. LoneInv'
  BY DEF TypeOK, PlansInv, LoneInv, Apart, Open, Accepted, Finish, serviceVars, historyVars, Guard, View
<1>5. QED
  BY <1>1, <1>2, <1>3, <1>4

LEMMA RefusedStep ==
  ASSUME ToolsInv, NEW w \in Waiters, Refused(w)
  PROVE  ToolsInv'
<1> USE WaitersAssumption DEF ToolsInv
<1>1. TypeOK'
  BY DEF TypeOK, Refused, Finish, serviceVars, historyVars, View, Status, Pc, Open, Guard
<1>2. PlansInv'
  BY DEF TypeOK, PlansInv, Refused, Finish, serviceVars, historyVars, Guard
<1>3. GuardAccountsForCalls'
  BY DEF TypeOK, PlansInv, GuardAccountsForCalls, Refused, Finish, serviceVars, historyVars, Guard
<1>4. LoneInv'
  <2>1. /\ Guard(w) \in Guards /\ reply[w] = "refused"
        /\ attempted[w] \cap lone \cap (taken[Guard(w)] \cup uncertain[Guard(w)]) = {}
        /\ attempted' = [attempted EXCEPT ![w] = {}]
        /\ handled' = [handled EXCEPT ![Guard(w)] = @ \ attempted[w]]
    BY DEF LoneInv, Refused, Finish, Guard
  <2>2. \A g \in Guards : (taken[g] \cup uncertain[g]) \cap lone \subseteq handled'[g]
    BY <2>1 DEF TypeOK, LoneInv
  <2>3. ASSUME NEW u \in Waiters
        PROVE  /\ attempted'[u] \cap lone \subseteq handled'[Guard(u)] \ uncertain[Guard(u)]
               /\ reply'[u] # "accepted" => attempted'[u] \cap lone \cap taken[Guard(u)] = {}
    <3>1. CASE u = w
      BY <2>1, <3>1 DEF TypeOK
    <3>2. CASE u # w
      <4>1. Guard(u) = Guard(w) => attempted[u] \cap attempted[w] \cap lone = {}
        BY <3>2 DEF LoneInv
      <4>2. Guard(u) \in Guards /\ attempted'[u] = attempted[u] /\ reply'[u] = reply[u]
        BY <2>1, <3>2 DEF TypeOK, Refused, Finish, Guard
      <4>3. QED
        BY <2>1, <4>1, <4>2 DEF TypeOK, LoneInv
    <3>3. QED
      BY <3>1, <3>2
  <2>4. QED
    BY <2>1, <2>2, <2>3 DEF TypeOK, LoneInv, Apart, Open, Refused, Finish, serviceVars,
       historyVars, Guard
<1>5. QED
  BY <1>1, <1>2, <1>3, <1>4

(* The state of a plan keeps its type when the plan is over.               *)
LEMMA FinishTypes ==
  ASSUME TypeOK, NEW w \in Waiters, NEW next \in Pc, NEW kept, Finish(w, next, kept)
  PROVE  /\ pc' \in [Waiters -> Pc]
         /\ handled' \in [Guards -> SUBSET Calls]
         /\ todo' \in [Waiters -> SUBSET Calls]
         /\ attempted' \in [Waiters -> SUBSET Calls]
         /\ results' \in [Waiters -> SUBSET Calls]
         /\ reply' \in [Waiters -> {"none", "accepted", "refused"}]
<1>1. Guard(w) \in Guards
  BY WaitersAssumption DEF Guard
<1>2. handled[Guard(w)] \in SUBSET Calls
  BY <1>1 DEF TypeOK
<1>3. QED
  BY <1>1, <1>2 DEF TypeOK, Finish

LEMMA TransportFailsStep ==
  ASSUME ToolsInv, NEW w \in Waiters, TransportFails(w)
  PROVE  ToolsInv'
<1> USE WaitersAssumption DEF ToolsInv
<1>1. TypeOK'
  <2>1. "stopped" \in Pc /\ Finish(w, "stopped", attempted[w])
    BY DEF Pc, TransportFails
  <2>2. /\ UNCHANGED <<status, asked, committed>>
        /\ strays' \in SUBSET SUBSET Calls
    BY DEF TypeOK, TransportFails, Abandon
  <2>3. uncertain' \in [Guards -> SUBSET Calls]
    BY DEF TypeOK, TransportFails, Guard
  <2>4. UNCHANGED <<resource, answer, news, starts, taken, lone>>
    BY DEF TransportFails
  <2>5. QED
    BY <2>1, <2>2, <2>3, <2>4, FinishTypes DEF TypeOK
<1>2. PlansInv'
  BY DEF TypeOK, PlansInv, TransportFails, Abandon, Finish, Guard
<1>3. GuardAccountsForCalls'
  BY DEF TypeOK, PlansInv, GuardAccountsForCalls, TransportFails, Abandon, Finish, Guard
<1>4. LoneInv'
  BY DEF TypeOK, PlansInv, LoneInv, Apart, Open, TransportFails, Abandon, Finish, Guard, View
<1>5. QED
  BY <1>1, <1>2, <1>3, <1>4

LEMMA CancelStep ==
  ASSUME ToolsInv, NEW w \in Waiters, Cancel(w)
  PROVE  ToolsInv'
<1> USE WaitersAssumption DEF ToolsInv
<1>1. TypeOK'
  <2>1. "stopped" \in Pc /\ Finish(w, "stopped", {})
    BY DEF Pc, Cancel
  <2>2. /\ UNCHANGED <<status, asked, committed>>
        /\ strays' \in SUBSET SUBSET Calls
    BY DEF TypeOK, Cancel, Abandon, serviceVars
  <2>3. taken' \in [Guards -> SUBSET Calls]
    BY DEF TypeOK, Cancel, Guard
  <2>4. UNCHANGED <<resource, answer, news, starts, uncertain, lone>>
    BY DEF Cancel
  <2>5. QED
    BY <2>1, <2>2, <2>3, <2>4, FinishTypes DEF TypeOK
<1>2. PlansInv'
  BY DEF TypeOK, PlansInv, Cancel, Abandon, Finish, serviceVars, Guard
<1>3. GuardAccountsForCalls'
  BY DEF TypeOK, PlansInv, GuardAccountsForCalls, Cancel, Abandon, Finish, serviceVars, Guard
<1>4. LoneInv'
  BY DEF TypeOK, PlansInv, LoneInv, Apart, Open, Cancel, Abandon, Finish, serviceVars, Guard, View
<1>5. QED
  BY <1>1, <1>2, <1>3, <1>4

LEMMA WakeStep ==
  ASSUME ToolsInv, NEW w \in Waiters, Wake(w)
  PROVE  ToolsInv'
<1> USE WaitersAssumption DEF ToolsInv
<1>1. TypeOK'
  BY DEF TypeOK, Wake, serviceVars, planVars, historyVars, View, Status, Pc, Open, Guard
<1>2. PlansInv'
  BY DEF TypeOK, PlansInv, Wake, serviceVars, planVars, historyVars, Guard
<1>3. GuardAccountsForCalls'
  BY DEF TypeOK, PlansInv, GuardAccountsForCalls, Wake, serviceVars, planVars, historyVars, Guard
<1>4. LoneInv'
  BY DEF TypeOK, PlansInv, LoneInv, Apart, Open, Wake, serviceVars, planVars, historyVars, Guard, View
<1>5. QED
  BY <1>1, <1>2, <1>3, <1>4

-----------------------------------------------------------------------------
(* A handler is started by a waiter that has none running the call, from a *)
(* list of calls in which no call made alone stands, except as the only    *)
(* one and not in the guard.                                               *)
Startable(w, rest) ==
  /\ rest \subseteq asked
  /\ Apart(rest)
  /\ rest \cap lone \cap handled[Guard(w)] = {}

(* What the start of a handler leaves alone.                               *)
OnlyPlansChange ==
  UNCHANGED <<status, asked, committed, strays, answer, reply, news, starts,
              uncertain, taken, lone>>

LEMMA BeginStep ==
  ASSUME ToolsInv, NEW w \in Waiters, NEW rest, NEW tried,
         Begin(w, rest, tried), Startable(w, rest), tried = attempted[w],
         OnlyPlansChange,
         pc' = [pc EXCEPT ![w] = "handling"], reply[w] = "none",
         results' \in [Waiters -> SUBSET Calls],
         \A v \in Waiters \ {w} : results'[v] = results[v],
         \A h \in Handles : \/ resource'[h] = resource[h]
                            \/ resource'[h] = answer[w],
         resource' \in [Handles -> View]
  PROVE  ToolsInv'
<1> USE WaitersAssumption DEF ToolsInv
<1>1. PICK c \in rest :
        /\ handled' = [handled EXCEPT ![Guard(w)] = @ \cup {c}]
        /\ attempted' = [attempted EXCEPT ![w] = tried \cup {c}]
        /\ todo' = [todo EXCEPT ![w] = rest \ {c}]
  BY DEF Begin
<1>2. /\ Guard(w) \in Guards
      /\ rest \subseteq Calls /\ c \in Calls /\ c \in asked
  BY <1>1 DEF Guard, TypeOK, Startable
<1>3. TypeOK'
  <2>1. /\ handled' \in [Guards -> SUBSET Calls]
        /\ attempted' \in [Waiters -> SUBSET Calls]
        /\ todo' \in [Waiters -> SUBSET Calls]
    BY <1>1, <1>2 DEF TypeOK
  <2>2. pc' \in [Waiters -> Pc]
    BY DEF TypeOK, Pc
  <2>3. QED
    BY <2>1, <2>2 DEF TypeOK, OnlyPlansChange
<1>4. PlansInv'
  BY <1>1 DEF TypeOK, PlansInv, OnlyPlansChange
<1>5. GuardAccountsForCalls'
  BY <1>1, <1>2 DEF TypeOK, GuardAccountsForCalls, OnlyPlansChange, Guard
<1>6. LoneInv'
  <2>1. rest \ {c} \subseteq asked \ lone
    BY <1>1 DEF Startable, Apart
  <2>2. c \in lone => c \notin handled[Guard(w)]
    BY <1>1 DEF Startable
  <2>3. todo'[w] \subseteq asked \ lone /\ attempted'[w] \subseteq asked
    BY <1>1, <1>2, <2>1 DEF TypeOK, LoneInv
  <2>4. ASSUME NEW u \in Waiters, NEW v \in Waiters \ {u}, Guard(v) = Guard(u)
        PROVE  attempted'[u] \cap attempted'[v] \cap lone = {}
    <3>1. /\ attempted[u] \cap attempted[v] \cap lone = {}
          /\ attempted[u] \cap lone \subseteq handled[Guard(u)]
          /\ attempted[v] \cap lone \subseteq handled[Guard(u)]
      BY <2>4 DEF LoneInv
    <3>2. QED
      BY <1>1, <2>2, <2>4, <3>1 DEF TypeOK
  <2>5. ASSUME NEW u \in Waiters
        PROVE  attempted'[u] \cap lone \subseteq handled'[Guard(u)] \ uncertain[Guard(u)]
    <3>1. /\ Guard(u) \in Guards
          /\ attempted[u] \cap lone \subseteq handled[Guard(u)] \ uncertain[Guard(u)]
          /\ uncertain[Guard(w)] \cap lone \subseteq handled[Guard(w)]
      BY <1>2 DEF LoneInv, Guard
    <3>2. QED
      BY <1>1, <1>2, <2>2, <3>1 DEF TypeOK
  <2>6. \A g \in Guards : (taken[g] \cup uncertain[g]) \cap lone \subseteq handled'[g]
    BY <1>1, <1>2 DEF TypeOK, LoneInv
  <2>7. \A h \in Handles : resource'[h].calls \subseteq asked /\ Apart(resource'[h].calls)
    BY DEF LoneInv
  <2>8. \A u \in Waiters : todo'[u] \subseteq asked \ lone /\ attempted'[u] \subseteq asked
    BY <1>1, <2>3 DEF TypeOK, LoneInv
  <2>9. UNCHANGED Open
    BY DEF Open, OnlyPlansChange
  <2>10. ASSUME NEW u \in Waiters, reply'[u] # "accepted"
        PROVE  attempted'[u] \cap lone \cap taken[Guard(u)] = {}
    <3>1. /\ attempted[u] \cap lone \cap taken[Guard(u)] = {}
          /\ taken[Guard(w)] \cap lone \subseteq handled[Guard(w)]
      BY <1>2, <2>10 DEF LoneInv, OnlyPlansChange
    <3>2. QED
      BY <1>1, <2>2, <3>1 DEF TypeOK
  <2>11. QED
    BY <2>4, <2>5, <2>6, <2>7, <2>8, <2>9, <2>10 DEF LoneInv, Apart, OnlyPlansChange, Guard
<1>7. QED
  BY <1>3, <1>4, <1>5, <1>6

LEMMA FinishHandlerStep ==
  ASSUME ToolsInv, NEW w \in Waiters, FinishHandler(w)
  PROVE  ToolsInv'
<1> USE WaitersAssumption DEF ToolsInv
<1>1. CASE todo[w] = {}
  <2>1. TypeOK'
    BY <1>1 DEF TypeOK, FinishHandler, serviceVars, historyVars, Pc
  <2>2. PlansInv'
    BY <1>1 DEF TypeOK, PlansInv, FinishHandler, serviceVars
  <2>3. GuardAccountsForCalls'
    BY <1>1 DEF GuardAccountsForCalls, FinishHandler, serviceVars, historyVars, Guard
  <2>4. LoneInv'
    BY <1>1 DEF LoneInv, Apart, Open, FinishHandler, serviceVars, historyVars, Guard
  <2>5. QED
    BY <2>1, <2>2, <2>3, <2>4
<1>2. CASE todo[w] # {}
  <2>1. Startable(w, todo[w])
    BY DEF Startable, Apart, LoneInv
  <2>2. /\ Begin(w, todo[w], attempted[w])
        /\ OnlyPlansChange
        /\ pc' = [pc EXCEPT ![w] = "handling"]
        /\ reply[w] = "none"
    BY <1>2 DEF FinishHandler, OnlyPlansChange, serviceVars, historyVars, TypeOK, PlansInv
  <2>3. /\ results' \in [Waiters -> SUBSET Calls]
        /\ \A v \in Waiters \ {w} : results'[v] = results[v]
        /\ resource' = resource
        /\ resource' \in [Handles -> View]
    BY DEF FinishHandler, TypeOK
  <2>4. QED
    BY <2>1, <2>2, <2>3, BeginStep
<1>3. QED
  BY <1>1, <1>2

(* A reading is acted on: as it was just read, or as the handle holds it.  *)
LEMMA ActOnReading ==
  ASSUME ToolsInv, NEW w \in Waiters, pc[w] \in {"answered", "yielded"},
         NEW seen, NEW view, GoodView(view),
         Work(w, seen, view) \/ Leave(w, seen, view),
         UNCHANGED <<serviceVars, answer, news, starts, historyVars>>,
         \A h \in Handles : \/ resource'[h] = resource[h]
                            \/ resource'[h] = answer[w],
         resource' \in [Handles -> View]
  PROVE  ToolsInv'
<1> USE WaitersAssumption DEF ToolsInv
<1>1. CASE Work(w, seen, view)
  <2>1. Startable(w, Pending(w, view))
    BY DEF Startable, GoodView, Apart, Pending
  <2>2. attempted[w] = {} /\ reply[w] = "none"
    BY DEF PlansInv, TypeOK
  <2>3. /\ Begin(w, Pending(w, view), {})
        /\ OnlyPlansChange
        /\ pc' = [pc EXCEPT ![w] = "handling"]
    BY <1>1 DEF Work, OnlyPlansChange, serviceVars, historyVars
  <2>4. /\ results' \in [Waiters -> SUBSET Calls]
        /\ \A v \in Waiters \ {w} : results'[v] = results[v]
    BY <1>1 DEF Work, TypeOK
  <2>5. QED
    BY <2>1, <2>2, <2>3, <2>4, BeginStep
<1>2. CASE Leave(w, seen, view)
  <2>1. TypeOK'
    BY <1>2 DEF TypeOK, Leave, Pc, serviceVars, planVars, historyVars
  <2>2. PlansInv'
    BY <1>2 DEF TypeOK, PlansInv, Leave, serviceVars, planVars
  <2>3. GuardAccountsForCalls'
    BY <1>2 DEF GuardAccountsForCalls, Leave, serviceVars, planVars, historyVars, Guard
  <2>4. LoneInv'
    BY <1>2 DEF LoneInv, Apart, Open, Leave, serviceVars, planVars, historyVars, Guard
  <2>5. QED
    BY <2>1, <2>2, <2>3, <2>4
<1>3. QED
  BY <1>1, <1>2

LEMMA ReceiveStep ==
  ASSUME ToolsInv, NEW w \in Waiters, Receive(w)
  PROVE  ToolsInv'
<1> USE WaitersAssumption DEF ToolsInv
<1>1. /\ resource' \in [Handles -> View]
      /\ \A h \in Handles : resource'[h] = resource[h] \/ resource'[h] = answer[w]
  BY DEF Receive, TypeOK
<1>2. UNCHANGED <<serviceVars, answer, news, starts, historyVars>>
  BY DEF Receive
<1>3. CASE w \notin Followers
  <2>1. GoodView(answer[w])
    BY DEF GoodView, TypeOK, LoneInv
  <2>2. QED
    BY <1>1, <1>2, <1>3, <2>1, ActOnReading DEF Receive
<1>4. CASE w \in Followers
  <2>1. pc' = [pc EXCEPT ![w] = "yielded"] /\ UNCHANGED <<handled, planVars>>
    BY <1>4 DEF Receive
  <2>2. TypeOK'
    BY <1>1, <1>2, <2>1 DEF TypeOK, Pc, serviceVars, planVars, historyVars
  <2>3. PlansInv'
    BY <1>2, <2>1 DEF TypeOK, PlansInv, Receive, serviceVars, planVars
  <2>4. GuardAccountsForCalls'
    BY <1>2, <2>1 DEF GuardAccountsForCalls, serviceVars, planVars, historyVars, Guard
  <2>5. LoneInv'
    BY <1>1, <1>2, <2>1 DEF LoneInv, Apart, Open, serviceVars, planVars, historyVars, Guard
  <2>6. QED
    BY <2>2, <2>3, <2>4, <2>5
<1>5. QED
  BY <1>3, <1>4

LEMMA ResumeStep ==
  ASSUME ToolsInv, NEW w \in Waiters, Resume(w)
  PROVE  ToolsInv'
<1> USE WaitersAssumption DEF ToolsInv
<1>1. GoodView(resource[HandleOf[w]])
  BY DEF GoodView, TypeOK, LoneInv
<1>2. resource' \in [Handles -> View] /\ resource' = resource
  BY DEF Resume, TypeOK
<1>3. QED
  BY <1>1, <1>2, ActOnReading DEF Resume

-----------------------------------------------------------------------------
LEMMA StutterStep ==
  ASSUME ToolsInv, UNCHANGED vars
  PROVE  ToolsInv'
BY DEF ToolsInv, TypeOK, PlansInv, GuardAccountsForCalls, LoneInv, Apart, Open,
       Guard, vars, serviceVars, planVars, historyVars

(* The steps of Next, as the cases every proof about a step goes through.  *)
LEMMA StepOfTools == ToolsInv /\ [Next]_vars => ToolsInv'
<1> SUFFICES ASSUME ToolsInv, [Next]_vars PROVE ToolsInv'
  OBVIOUS
<1>1. CASE Service
  BY <1>1, ParkStep, EndStep, DeliverStep, DeliverStrayStep DEF Service
<1>2. ASSUME NEW w \in Waiters, Waiter(w) PROVE ToolsInv'
  BY <1>2, StartStep, AnswerStep, AnswerFailsStep, ReceiveStep, ResumeStep,
     FinishHandlerStep, AcceptedStep, RefusedStep, TransportFailsStep, CancelStep,
     WakeStep DEF Waiter
<1>3. CASE UNCHANGED vars
  BY <1>3, StutterStep
<1>4. QED
  BY <1>1, <1>2, <1>3 DEF Next

(* ToolsInv holds in every state: the guard, the plans of the waiters and  *)
(* their readings of the Turn fit together whoever runs when.              *)
THEOREM ToolsInvariant == Spec => []ToolsInv
<1>1. Init => ToolsInv
  BY InitTools
<1>2. ToolsInv /\ [Next]_vars => ToolsInv'
  BY StepOfTools
<1>3. QED
  BY <1>1, <1>2, PTL DEF Spec

(* No call is withheld from the handlers for good, whatever waiters are    *)
(* cancelled, refused or cut off.                                          *)
THEOREM GuardAccounts == Spec => []GuardAccountsForCalls
<1>1. ToolsInv => GuardAccountsForCalls
  BY DEF ToolsInv
<1>2. QED
  BY <1>1, ToolsInvariant, PTL

(* A handler enters a waiter's plan only by Begin, from the calls of a     *)
(* reading that the guard does not hold or from the rest of the plan.      *)
LEMMA OnlyBeginPlans ==
  ASSUME ToolsInv, [Next]_vars, NEW w \in Waiters,
         NEW c \in attempted'[w] \ attempted[w]
  PROVE  \/ c \in todo[w]
         \/ c \notin handled[Guard(w)]
<1> USE DEF ToolsInv, TypeOK
<1>1. ASSUME NEW rest, Begin(w, rest, attempted[w]) PROVE c \in rest
  BY <1>1 DEF Begin
<1>2. ASSUME NEW rest, Begin(w, rest, {}) PROVE c \in rest
  BY <1>2 DEF Begin
<1>3. CASE Receive(w)
  BY <1>2, <1>3 DEF Receive, Work, Leave, Pending, planVars
<1>4. CASE Resume(w)
  BY <1>2, <1>4 DEF Resume, Work, Leave, Pending, planVars
<1>5. CASE FinishHandler(w)
  BY <1>1, <1>5 DEF FinishHandler
<1>6. CASE Service
  BY <1>6 DEF Service, Park, End, Deliver, DeliverStray, planVars
<1>7. ASSUME NEW v \in Waiters \ {w}, Waiter(v) PROVE FALSE
  <2>1. attempted'[w] = attempted[w]
    BY <1>7 DEF Waiter, Start, Answer, AnswerFails, Receive, Resume, Work, Leave,
       Begin, FinishHandler, Accepted, Refused, TransportFails, Cancel, Wake,
       Finish, planVars
  <2>2. QED
    BY <2>1
<1>8. CASE /\ Waiter(w)
           /\ ~Receive(w) /\ ~Resume(w) /\ ~FinishHandler(w)
  BY <1>8 DEF Waiter, Start, Answer, AnswerFails, Accepted, Refused,
     TransportFails, Cancel, Wake, Finish, planVars
<1>9. CASE UNCHANGED vars
  BY <1>9 DEF vars, planVars
<1>10. QED
  BY <1>3, <1>4, <1>5, <1>6, <1>7, <1>8, <1>9 DEF Next, Waiter

(* The handler of a call the Turn made alone is not started while another  *)
(* waiter of the guard runs it or submits its result, nor once the service *)
(* has taken its result or the submission was lost; a waiter cancelled     *)
(* while it submits is the exception, as in Repeats.                       *)
THEOREM LoneCallsAreRunOnce == Spec => LoneCallNotRepeated
<1> DEFINE NoRepeat == \A w \in Waiters : \A c \in lone : ~Repeats(w, c)
<1>1. ToolsInv /\ [Next]_vars => [NoRepeat]_vars
  <2> SUFFICES ASSUME ToolsInv, [Next]_vars, NEW w \in Waiters, NEW c \in lone,
                      Repeats(w, c)
               PROVE  FALSE
    OBVIOUS
  <2>1. c \in todo[w] \/ c \notin handled[Guard(w)]
    BY OnlyBeginPlans DEF Repeats
  <2>2. c \notin todo[w]
    BY DEF ToolsInv, LoneInv
  <2>3. Guard(w) \in Guards
    BY WaitersAssumption DEF Guard
  <2>4. c \notin taken[Guard(w)] \cup uncertain[Guard(w)]
    BY <2>1, <2>2, <2>3 DEF ToolsInv, LoneInv
  <2>5. ASSUME NEW v \in Waiters, Guard(v) = Guard(w), c \in attempted[v]
        PROVE  FALSE
    BY <2>1, <2>2, <2>5 DEF ToolsInv, LoneInv
  <2>6. QED
    BY <2>4, <2>5 DEF Repeats
<1>2. QED
  BY <1>1, ToolsInvariant, PTL DEF Spec, LoneCallNotRepeated
=============================================================================
