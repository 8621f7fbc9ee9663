------------------------------ MODULE HostTools ------------------------------
(***************************************************************************)
(* How the Python SDK runs the host tools of one Turn                      *)
(* (sdk/python/src/nvoken/facade.py, class Turn): every coroutine that     *)
(* waits in `result` or iterates `updates` reads the Turn, runs the        *)
(* handlers of the calls the service waits for, and submits their results. *)
(* Turn handles made by `bind_tools` share one set of handled calls, the   *)
(* guard, and every await lets the other waiters run.  The service is not  *)
(* in this repository and is modelled from openapi and the protocol.       *)
(***************************************************************************)
EXTENDS Naturals

CONSTANTS
  Calls,     (* the host calls the Turn may make, in the order it lists    *)
  Waiters,   (* coroutines in `result` or `updates`                        *)
  Followers, (* those of the Waiters that are in `updates`                 *)
  Handles,   (* Turn objects                                               *)
  Guards,    (* _handled_tool_call_ids sets                                *)
  HandleOf,  (* the Turn object each waiter was called on                  *)
  GuardOf,   (* the guard each Turn object refers to                       *)
  Bound,     (* the calls each Turn object has a handler for               *)
  MaxStarts  (* bound: how often a waiter is started                       *)

ASSUME CallsAssumption  == Calls \subseteq Nat
ASSUME WaitersAssumption ==
  /\ Followers \subseteq Waiters
  /\ HandleOf \in [Waiters -> Handles]
  /\ GuardOf \in [Handles -> Guards]
  /\ Bound \in [Handles -> SUBSET Calls]
  /\ MaxStarts \in Nat

VARIABLES
  status,     (* service: of the Turn                                      *)
  asked,      (* service: the calls the Turn has made                      *)
  committed,  (* service: the calls it holds a result for                  *)
  strays,     (* submissions whose sender no longer waits for the answer   *)
  handled,    (* _handled_tool_call_ids                                    *)
  resource,   (* _resource: the Turn as a handle last saw it               *)
  pc,         (* where each waiter is suspended                            *)
  answer,     (* the Turn as the waiter's own request read it              *)
  todo,       (* the rest of the loop over `pending`                       *)
  attempted,  (* attempted                                                 *)
  results,    (* results: the calls whose handlers have answered           *)
  reply,      (* what the service answered to the submission               *)
  news,       (* followers for whom a frame is on its way                  *)
  starts,     (* how often each waiter was started                         *)
  uncertain,  (* history: calls whose submission ended in a transport error*)
  taken,      (* history: calls whose result the service took from a waiter*)
              (* that was not cancelled before it had the answer           *)
  lone        (* history: calls the Turn has not made together with others *)

serviceVars == <<status, asked, committed, strays>>
planVars    == <<todo, attempted, results, reply>>
historyVars == <<uncertain, taken, lone>>
vars == <<serviceVars, handled, resource, pc, answer, planVars, news, starts,
          historyVars>>

Status == {"running", "waiting", "ended"}
Pc == {"stopped", "asking", "answered", "yielded", "handling", "submitting",
       "resting"}
View == [status: Status, calls: SUBSET Calls]

Guard(w)  == GuardOf[HandleOf[w]]

TypeOK ==
  /\ status \in Status
  /\ asked \in SUBSET Calls
  /\ committed \in SUBSET Calls
  /\ strays \in SUBSET SUBSET Calls
  /\ handled \in [Guards -> SUBSET Calls]
  /\ resource \in [Handles -> View]
  /\ pc \in [Waiters -> Pc]
  /\ answer \in [Waiters -> View]
  /\ todo \in [Waiters -> SUBSET Calls]
  /\ attempted \in [Waiters -> SUBSET Calls]
  /\ results \in [Waiters -> SUBSET Calls]
  /\ reply \in [Waiters -> {"none", "accepted", "refused"}]
  /\ news \in SUBSET Followers
  /\ starts \in [Waiters -> Nat]
  /\ uncertain \in [Guards -> SUBSET Calls]
  /\ taken \in [Guards -> SUBSET Calls]
  /\ lone \in SUBSET Calls

Init ==
  /\ status = "running"
  /\ asked = {}
  /\ committed = {}
  /\ strays = {}
  /\ handled = [g \in Guards |-> {}]
  /\ resource = [h \in Handles |-> [status |-> "running", calls |-> {}]]
  /\ pc = [w \in Waiters |-> "stopped"]
  /\ answer = [w \in Waiters |-> [status |-> "running", calls |-> {}]]
  /\ todo = [w \in Waiters |-> {}]
  /\ attempted = [w \in Waiters |-> {}]
  /\ results = [w \in Waiters |-> {}]
  /\ reply = [w \in Waiters |-> "none"]
  /\ news = {}
  /\ starts = [w \in Waiters |-> 0]
  /\ uncertain = [g \in Guards |-> {}]
  /\ taken = [g \in Guards |-> {}]
  /\ lone = {}

-----------------------------------------------------------------------------
(* The service.                                                            *)

(* The calls the Turn waits for: those shown with their arguments.         *)
Open == IF status = "waiting" THEN asked \ committed ELSE {}

(* The model calls tools and the Turn parks.                               *)
Park(S) ==
  /\ status = "running"
  /\ S # {} /\ S \cap asked = {}
  /\ status' = "waiting"
  /\ asked' = asked \cup S
  /\ news' = Followers
  /\ lone' = IF \A c, d \in S : c = d THEN lone \cup S ELSE lone
  /\ UNCHANGED <<committed, strays, handled, resource, pc, answer, planVars,
                 starts, uncertain, taken>>

(* The Turn completes, fails, is interrupted or waited too long.           *)
End ==
  /\ status # "ended"
  /\ status' = "ended"
  /\ news' = Followers
  /\ UNCHANGED <<asked, committed, strays, handled, resource, pc, answer,
                 planVars, starts, historyVars>>

(* A batch is taken as a whole: the first result of a call stays, an equal *)
(* one is acknowledged.  The Turn goes on when no call is left open.       *)
Accept(batch) ==
  /\ batch \subseteq asked
  /\ status = "waiting" \/ batch \subseteq committed
  /\ committed' = committed \cup batch
  /\ IF status = "waiting" /\ asked \subseteq committed'
       THEN status' = "running" /\ news' = Followers
       ELSE UNCHANGED <<status, news>>
  /\ UNCHANGED asked

(* A submission reaches the service, which takes it or answers with an     *)
(* error: a changed replay conflicts, and a service may be out of order.   *)
Deliver(w) ==
  /\ pc[w] = "submitting"
  /\ reply[w] = "none"
  /\ \/ /\ Accept(results[w])
        /\ reply' = [reply EXCEPT ![w] = "accepted"]
        /\ taken' = [taken EXCEPT ![Guard(w)] = @ \cup results[w]]
     \/ /\ reply' = [reply EXCEPT ![w] = "refused"]
        /\ UNCHANGED <<status, asked, committed, news, taken>>
  /\ UNCHANGED <<strays, handled, resource, pc, answer, todo, attempted,
                 results, starts, uncertain, lone>>

(* One that was given up reaches it after all.                             *)
DeliverStray(batch) ==
  /\ batch \in strays
  /\ strays' = strays \ {batch}
  /\ \/ Accept(batch)
     \/ UNCHANGED <<status, asked, committed, news>>
  /\ UNCHANGED <<handled, resource, pc, answer, planVars, starts, historyVars>>

-----------------------------------------------------------------------------
(* A waiter.                                                               *)

(* The application calls `result` or `updates`, perhaps once more.         *)
Start(w) ==
  /\ pc[w] = "stopped"
  /\ starts[w] < MaxStarts
  /\ starts' = [starts EXCEPT ![w] = @ + 1]
  /\ pc' = [pc EXCEPT ![w] = "asking"]
  /\ news' = news \cup ({w} \cap Followers)
  /\ UNCHANGED <<serviceVars, handled, resource, answer, planVars, historyVars>>

(* `status` reads the Turn at the service ...                              *)
Answer(w) ==
  /\ pc[w] = "asking"
  /\ pc' = [pc EXCEPT ![w] = "answered"]
  /\ answer' = [answer EXCEPT ![w] = [status |-> status, calls |-> Open]]
  /\ UNCHANGED <<serviceVars, handled, resource, planVars, news, starts, historyVars>>

(* ... or raises.                                                          *)
AnswerFails(w) ==
  /\ pc[w] \in {"asking", "answered"}
  /\ pc' = [pc EXCEPT ![w] = "stopped"]
  /\ UNCHANGED <<serviceVars, handled, resource, answer, planVars, news, starts,
                 historyVars>>

(* Faulty: whatever was handled, the handler runs again.                   *)
PendingUnguarded(w, view) == view.calls \cap Bound[HandleOf[w]]

(* `pending` of _run_host_tools.                                           *)
Pending(w, view) == (view.calls \cap Bound[HandleOf[w]]) \ handled[Guard(w)]

(* Faulty: each handler starts a list of its own.                          *)
BeginAnew(w, rest, tried) ==
  \E c \in rest :
    /\ \A d \in rest : c <= d
    /\ handled' = [handled EXCEPT ![Guard(w)] = @ \cup {c}]
    /\ attempted' = [attempted EXCEPT ![w] = {c}]
    /\ todo' = [todo EXCEPT ![w] = rest \ {c}]

(* The next handler of the loop is called.                                 *)
Begin(w, rest, tried) ==
  \E c \in rest :
    /\ \A d \in rest : c <= d
    /\ handled' = [handled EXCEPT ![Guard(w)] = @ \cup {c}]
    /\ attempted' = [attempted EXCEPT ![w] = tried \cup {c}]
    /\ todo' = [todo EXCEPT ![w] = rest \ {c}]

(* The Turn, as read, is waited on: its open calls are run, the end is     *)
(* returned, and anything else is waited out.                              *)
Work(w, seen, view) ==
  /\ seen = "waiting"
  /\ Begin(w, Pending(w, view), {})
  /\ pc' = [pc EXCEPT ![w] = "handling"]
  /\ results' = [results EXCEPT ![w] = {}]
  /\ UNCHANGED reply

Leave(w, seen, view) ==
  /\ seen = "waiting" => Pending(w, view) = {}
  /\ pc' = [pc EXCEPT ![w] = IF seen = "ended" THEN "stopped" ELSE "resting"]
  /\ UNCHANGED <<handled, planVars>>

(* `status` returns.  In `result` the loop goes on with what was read; in  *)
(* `updates` the consumer gets it first, and takes its time.               *)
Receive(w) ==
  /\ pc[w] = "answered"
  /\ resource' = [resource EXCEPT ![HandleOf[w]] = answer[w]]
  /\ \/ /\ w \notin Followers
        /\ \/ Work(w, answer[w].status, answer[w])
           \/ Leave(w, answer[w].status, answer[w])
     \/ /\ w \in Followers
        /\ pc' = [pc EXCEPT ![w] = "yielded"]
        /\ UNCHANGED <<handled, planVars>>
  /\ UNCHANGED <<serviceVars, answer, news, starts, historyVars>>

(* The consumer asks for the next update: the status is the one yielded,   *)
(* the calls are those of the handle, whoever read them last.              *)
Resume(w) ==
  /\ pc[w] = "yielded"
  /\ \/ Work(w, answer[w].status, resource[HandleOf[w]])
     \/ Leave(w, answer[w].status, resource[HandleOf[w]])
  /\ UNCHANGED <<serviceVars, resource, answer, news, starts, historyVars>>

(* A handler answers or raises; the next one is called, or the results of  *)
(* all are submitted.                                                      *)
FinishHandler(w) ==
  /\ pc[w] = "handling"
  /\ results' = [results EXCEPT ![w] = attempted[w]]
  /\ IF todo[w] = {}
       THEN /\ pc' = [pc EXCEPT ![w] = "submitting"]
            /\ UNCHANGED <<handled, attempted, todo>>
       ELSE /\ Begin(w, todo[w], attempted[w])
            /\ UNCHANGED pc
  /\ UNCHANGED <<serviceVars, resource, answer, reply, news, starts, historyVars>>

(* The plan is over; the guard keeps `kept` of it.                         *)
Finish(w, next, kept) ==
  /\ pc' = [pc EXCEPT ![w] = next]
  /\ handled' = [handled EXCEPT ![Guard(w)] = @ \ (attempted[w] \ kept)]
  /\ todo' = [todo EXCEPT ![w] = {}]
  /\ attempted' = [attempted EXCEPT ![w] = {}]
  /\ results' = [results EXCEPT ![w] = {}]
  /\ reply' = [reply EXCEPT ![w] = "none"]

Accepted(w) ==
  /\ pc[w] = "submitting"
  /\ reply[w] = "accepted"
  /\ Finish(w, IF w \in Followers THEN "resting" ELSE "asking", attempted[w])
  /\ UNCHANGED <<serviceVars, resource, answer, news, starts, historyVars>>

(* Faulty: a refused batch stays in the guard.                             *)
RefusedKeepingGuard(w) ==
  /\ pc[w] = "submitting"
  /\ reply[w] = "refused"
  /\ Finish(w, "stopped", attempted[w])
  /\ UNCHANGED <<serviceVars, resource, answer, news, starts, historyVars>>

(* An error status raises, and the calls may be tried again.               *)
Refused(w) ==
  /\ pc[w] = "submitting"
  /\ reply[w] = "refused"
  /\ Finish(w, "stopped", {})
  /\ UNCHANGED <<serviceVars, resource, answer, news, starts, historyVars>>

(* What is on its way to the service is not called back.                   *)
Abandon(w) ==
  /\ \/ reply[w] = "none" /\ strays' = strays \cup {results[w]}
     \/ UNCHANGED strays
  /\ UNCHANGED <<status, asked, committed>>

(* The request, or its answer, is lost in a TransportError or a            *)
(* TimeoutException, which _run_host_tools does not catch.                 *)
TransportFails(w) ==
  /\ pc[w] = "submitting"
  /\ Abandon(w)
  /\ uncertain' = [uncertain EXCEPT ![Guard(w)] = @ \cup attempted[w]]
  /\ Finish(w, "stopped", attempted[w])
  /\ UNCHANGED <<resource, answer, news, starts, taken, lone>>

(* Faulty: only a cancelled submission is rolled back.                     *)
CancelKeepingGuard(w) ==
  /\ pc[w] # "stopped"
  /\ IF pc[w] = "submitting" THEN Abandon(w) ELSE UNCHANGED serviceVars
  /\ taken' = [taken EXCEPT ![Guard(w)] = @ \ attempted[w]]
  /\ Finish(w, "stopped", IF pc[w] = "submitting" THEN {} ELSE attempted[w])
  /\ UNCHANGED <<resource, answer, news, starts, uncertain, lone>>

(* The waiter is cancelled, by its caller or by the timeout of `result`.   *)
(* Its calls may be tried again even if the service has their results.     *)
Cancel(w) ==
  /\ pc[w] # "stopped"
  /\ IF pc[w] = "submitting" THEN Abandon(w) ELSE UNCHANGED serviceVars
  /\ taken' = [taken EXCEPT ![Guard(w)] = @ \ attempted[w]]
  /\ Finish(w, "stopped", {})
  /\ UNCHANGED <<resource, answer, news, starts, uncertain, lone>>

(* `result` polls again; `updates` reads the Turn when a frame arrives.    *)
Wake(w) ==
  /\ pc[w] = "resting"
  /\ pc' = [pc EXCEPT ![w] = "asking"]
  /\ news' = news \ {w}
  /\ UNCHANGED <<serviceVars, handled, resource, answer, planVars, starts, historyVars>>

-----------------------------------------------------------------------------
Service ==
  \/ \E S \in SUBSET Calls : Park(S)
  \/ End
  \/ \E w \in Waiters : Deliver(w)
  \/ \E batch \in strays : DeliverStray(batch)

Waiter(w) ==
  \/ Start(w) \/ Answer(w) \/ AnswerFails(w) \/ Receive(w) \/ Resume(w)
  \/ FinishHandler(w) \/ Accepted(w) \/ Refused(w) \/ TransportFails(w) \/ Cancel(w) \/ Wake(w)

Next == Service \/ \E w \in Waiters : Waiter(w)

Spec == Init /\ [][Next]_vars

(* Coroutines are scheduled, handlers return, the service answers, and a   *)
(* frame that is on its way arrives.  Nothing makes the model call tools,  *)
(* the consumer of `updates` go on or the application start a waiter.      *)
Fairness ==
  \A w \in Waiters :
    /\ WF_vars(Answer(w)) /\ WF_vars(Receive(w))
    /\ WF_vars(FinishHandler(w)) /\ WF_vars(Deliver(w))
    /\ WF_vars(Accepted(w)) /\ WF_vars(Refused(w))
    /\ WF_vars(Wake(w) /\ (w \in Followers => w \in news))

FairSpec == Spec /\ Fairness

-----------------------------------------------------------------------------
(* Properties.                                                             *)

(* No call is withheld from the handlers for good: one that the guard      *)
(* holds is settled, is in the hands of a waiter, or was in a submission   *)
(* whose outcome nobody knows.                                             *)
GuardAccountsForCalls ==
  \A g \in Guards : \A c \in handled[g] :
    \/ c \in committed
    \/ c \in uncertain[g]
    \/ \E w \in Waiters : Guard(w) = g /\ c \in attempted[w]

(* What the guard relies on: a plan is held only while its handlers run or *)
(* its results are submitted, a submission has a result for every handler  *)
(* started, and one answered with success is in the service's hands.       *)
PlansInv ==
  \A w \in Waiters :
    /\ pc[w] \notin {"handling", "submitting"} => attempted[w] = {}
    /\ pc[w] = "submitting" => results[w] = attempted[w]
    /\ reply[w] # "none" => pc[w] = "submitting"
    /\ reply[w] = "accepted" => attempted[w] \subseteq committed

(* A call made alone is never planned behind another one: it is the only   *)
(* call of every reading that shows it, so it is in one waiter's hands and *)
(* stays in the guard.                                                     *)
Apart(S) == \A c \in S \cap lone : S = {c}

LoneInv ==
  /\ status = "running" => asked \subseteq committed
  /\ lone \subseteq asked
  /\ Apart(Open)
  /\ \A w \in Waiters :
       /\ answer[w].calls \subseteq asked /\ Apart(answer[w].calls)
       /\ todo[w] \subseteq asked \ lone
       /\ attempted[w] \subseteq asked
       /\ attempted[w] \cap lone \subseteq handled[Guard(w)] \ uncertain[Guard(w)]
       /\ reply[w] # "accepted" => attempted[w] \cap lone \cap taken[Guard(w)] = {}
       /\ \A v \in Waiters \ {w} : Guard(v) = Guard(w) =>
            attempted[w] \cap attempted[v] \cap lone = {}
  /\ \A h \in Handles : resource[h].calls \subseteq asked /\ Apart(resource[h].calls)
  /\ \A g \in Guards :
       /\ taken[g] \cup uncertain[g] \subseteq asked
       /\ (taken[g] \cup uncertain[g]) \cap lone \subseteq handled[g]

ToolsInv ==
  /\ TypeOK
  /\ PlansInv
  /\ GuardAccountsForCalls
  /\ LoneInv

(* The handler of a call the Turn has made alone is not started, not even  *)
(* from a reading that is out of date, while a waiter of the same guard    *)
(* runs it or submits its result, nor once the service has taken its       *)
(* result from one, nor after such a submission was lost.  There is one    *)
(* exception: a waiter cancelled while it submits takes its calls out of   *)
(* the guard even if the service has taken them, and a reading from before *)
(* that runs them again.                                                   *)
Repeats(w, c) ==
  /\ c \in attempted'[w] \ attempted[w]
  /\ \/ c \in taken[Guard(w)] \cup uncertain[Guard(w)]
     \/ \E v \in Waiters \ {w} : Guard(v) = Guard(w) /\ c \in attempted[v]

LoneCallNotRepeated ==
  [][\A w \in Waiters : \A c \in lone : ~Repeats(w, c)]_vars

(* A call the Turn waits for is served as long as a waiter in `result` has *)
(* a handler for it and does not fail, whatever becomes of the waiters     *)
(* that got hold of the call before, unless a submission of it was lost.   *)
OpenCallIsServed ==
  \A w \in Waiters \ Followers : \A c \in Bound[HandleOf[w]] :
    (pc[w] # "stopped" /\ c \in Open)
      ~> (c \notin Open \/ pc[w] = "stopped" \/ c \in uncertain[Guard(w)])

-----------------------------------------------------------------------------
(* sdk/python/README.md:109 "Replayed projections do not repeat a handled  *)
(* call": the same of every call.                                          *)
HandledCallNotRepeated ==
  [][\A w \in Waiters : \A c \in Calls : ~Repeats(w, c)]_vars
=============================================================================
