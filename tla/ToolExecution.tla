---------------------------- MODULE ToolExecution ----------------------------
(***************************************************************************)
(* How the Go SDK runs the host tools of one Turn (sdk/go/agent.go and     *)
(* stream.go): goroutines in `Result` and `Updates` resolve the calls the  *)
(* Turn waits for through the toolExecutionState of their handle, which    *)
(* runs each handler once and keeps its result for whoever asks later.     *)
(* Handles made by BindTools share that state, recovered ones have their   *)
(* own.  The service is modelled from openapi and the protocol.            *)
(*                                                                         *)
(* Simplifications.  The result of a call is the number of the run of its  *)
(* handler, and whether the run's context had ended under it.  A follower  *)
(* reads the Turn's changes from the first one on, which is what Updates   *)
(* asks for without a cursor; the loop between its connections is          *)
(* TranscriptStream's.                                                     *)
(***************************************************************************)
EXTENDS Naturals, Sequences

CONSTANTS
  Calls,     (* the host calls the Turn may make, in the order it lists    *)
  Waiters,   (* goroutines in Result or Updates                            *)
  Followers, (* those of the Waiters that are in Updates                   *)
  States,    (* toolExecutionStates                                        *)
  StatesOf,  (* those of the handles each waiter may be called on          *)
  Bound,     (* the calls these handles have a handler for                 *)
  MaxStarts, (* bound: how often a waiter is started                       *)
  Panicking, (* bound: the calls whose handlers may panic                  *)
  MaxRuns    (* bound: runs of one handler in one state                    *)

ASSUME CallsAssumption == Calls \subseteq Nat
ASSUME WaitersAssumption ==
  /\ Followers \subseteq Waiters
  /\ StatesOf \in [Waiters -> (SUBSET States) \ {{}}]
  /\ Bound \in [Waiters -> SUBSET Calls]
ASSUME MaximaAssumption == MaxStarts \in Nat /\ MaxRuns \in Nat /\ Panicking \subseteq Calls

VARIABLES
  status,     (* service: of the Turn                                      *)
  asked,      (* service: the calls the Turn has made                      *)
  committed,  (* service: the results it took                              *)
  changes,    (* service: the open calls of each change of the Turn        *)
  strays,     (* submissions whose sender no longer waits for the answer   *)
  cache,      (* `results` of each state                                   *)
  running,    (* `running` of each state                                   *)
  pc,         (* where each waiter is                                      *)
  state,      (* the state of the handle it was called on                  *)
  done,       (* waiters whose context has ended                           *)
  view,       (* the calls the waiter's own request read, or the end       *)
  todo,       (* the rest of the loop over the calls                       *)
  collected,  (* the results of the loop                                   *)
  reply,      (* what the service answered to the submission               *)
  at,         (* the changes a follower has received                       *)
  starts,     (* how often each waiter was started                         *)
  runs,       (* history: how often each handler was called                *)
  panicked    (* history: the handlers that panicked                       *)

serviceVars == <<status, asked, committed, changes>>
stateVars   == <<cache, running>>
loopVars    == <<todo, collected>>
historyVars == <<runs, panicked>>
waiterVars  == <<state, starts>>
vars == <<serviceVars, strays, stateVars, pc, done, view, loopVars, reply, at,
          waiterVars, historyVars>>

Status == {"running", "waiting", "ended"}
Pc     == {"stopped", "asking", "answered", "resolving", "handling", "submitting",
           "resting", "following"}
Result == [call: Calls, state: States, run: 1 .. MaxRuns, cut: BOOLEAN]
View   == [status: Status, calls: SUBSET Calls]
NoView == [status |-> "running", calls |-> {}]

TypeOK ==
  /\ status \in Status
  /\ asked \subseteq Calls
  /\ committed \subseteq Result
  /\ changes \in Seq(SUBSET Calls)
  /\ strays \subseteq SUBSET Result
  /\ cache \in [States -> SUBSET Result]
  /\ running \in [States -> SUBSET Calls]
  /\ pc \in [Waiters -> Pc]
  /\ done \subseteq Waiters
  /\ view \in [Waiters -> View]
  /\ todo \in [Waiters -> SUBSET Calls]
  /\ collected \in [Waiters -> SUBSET Result]
  /\ reply \in [Waiters -> {"none", "accepted", "conflict", "failed"}]
  /\ at \in [Waiters -> Nat]
  /\ state \in [Waiters -> States]
  /\ starts \in [Waiters -> Nat]
  /\ runs \in [States -> [Calls -> 0 .. MaxRuns]]
  /\ panicked \in [States -> SUBSET Calls]

Init ==
  /\ status = "running"
  /\ asked = {}
  /\ committed = {}
  /\ changes = <<>>
  /\ strays = {}
  /\ cache = [s \in States |-> {}]
  /\ running = [s \in States |-> {}]
  /\ pc = [w \in Waiters |-> "stopped"]
  /\ done = {}
  /\ view = [w \in Waiters |-> NoView]
  /\ todo = [w \in Waiters |-> {}]
  /\ collected = [w \in Waiters |-> {}]
  /\ reply = [w \in Waiters |-> "none"]
  /\ at = [w \in Waiters |-> 0]
  /\ state = [w \in Waiters |-> CHOOSE s \in StatesOf[w] : TRUE]
  /\ starts = [w \in Waiters |-> 0]
  /\ runs = [s \in States |-> [c \in Calls |-> 0]]
  /\ panicked = [s \in States |-> {}]

-----------------------------------------------------------------------------
(* The service.                                                            *)

CallsOf(results) == {r.call : r \in results}

Open == IF status = "waiting" THEN asked \ CallsOf(committed) ELSE {}

(* The model calls tools and the Turn parks.                               *)
Park(S) ==
  /\ status = "running"
  /\ S # {} /\ S \cap asked = {}
  /\ status' = "waiting"
  /\ asked' = asked \cup S
  /\ changes' = Append(changes, S)
  /\ UNCHANGED <<committed, strays, stateVars, pc, done, view, loopVars, reply, at,
                 waiterVars, historyVars>>

End ==
  /\ status # "ended"
  /\ status' = "ended"
  /\ UNCHANGED <<asked, committed, changes, strays, stateVars, pc, done, view, loopVars,
                 reply, at, waiterVars, historyVars>>

(* The results of the batch that are not equal to the one the call has.    *)
Changed(batch) ==
  {r \in batch : \E q \in committed : q.call = r.call /\ q # r}

(* A batch is taken as a whole: the first result of a call stays, an equal *)
(* one is acknowledged, and another run may have had an equal result.      *)
Accept(batch) ==
  LET new == {r \in batch : r.call \notin CallsOf(committed)}
      left == asked \ CallsOf(committed \cup new)
  IN /\ CallsOf(batch) \subseteq asked
     /\ status = "waiting" \/ new = {}
     /\ committed' = committed \cup new
     /\ status' = IF status = "waiting" /\ left = {} THEN "running" ELSE status
     /\ changes' = IF new = {} THEN changes ELSE Append(changes, left)
     /\ UNCHANGED asked

(* The service takes a submission, answers that it conflicts with what the *)
(* Turn has, or fails.                                                     *)
Deliver(w) ==
  /\ pc[w] = "submitting" /\ reply[w] = "none"
  /\ \/ /\ Accept(collected[w])
        /\ reply' = [reply EXCEPT ![w] = "accepted"]
     \/ /\ status = "ended" \/ Changed(collected[w]) # {}
        /\ reply' = [reply EXCEPT ![w] = "conflict"]
        /\ UNCHANGED serviceVars
     \/ /\ reply' = [reply EXCEPT ![w] = "failed"]
        /\ UNCHANGED serviceVars
  /\ UNCHANGED <<strays, stateVars, pc, done, view, loopVars, at, waiterVars, historyVars>>

(* One that was given up reaches it after all, or never.                   *)
DeliverStray(batch) ==
  /\ batch \in strays
  /\ strays' = strays \ {batch}
  /\ Accept(batch) \/ UNCHANGED serviceVars
  /\ UNCHANGED <<stateVars, pc, done, view, loopVars, reply, at, waiterVars, historyVars>>

-----------------------------------------------------------------------------
(* A waiter reads the Turn.                                                *)

Goes(w, next) ==
  /\ pc' = [pc EXCEPT ![w] = next]
  /\ todo' = [todo EXCEPT ![w] = {}]
  /\ collected' = [collected EXCEPT ![w] = {}]
  /\ reply' = [reply EXCEPT ![w] = "none"]

(* The application calls Result or Updates, perhaps once more, on the      *)
(* handle it admitted the Turn with or on a recovered one.                 *)
Start(w) ==
  /\ pc[w] = "stopped"
  /\ starts[w] < MaxStarts
  /\ starts' = [starts EXCEPT ![w] = @ + 1]
  /\ \E s \in StatesOf[w] : state' = [state EXCEPT ![w] = s]
  /\ pc' = [pc EXCEPT ![w] = "asking"]
  /\ done' = done \ {w}
  /\ at' = [at EXCEPT ![w] = 0]
  /\ UNCHANGED <<serviceVars, strays, stateVars, view, loopVars, reply, historyVars>>

(* The context ends: it was cancelled, or its deadline has passed.         *)
Cancel(w) ==
  /\ pc[w] # "stopped" /\ w \notin done
  /\ done' = done \cup {w}
  /\ UNCHANGED <<serviceVars, strays, stateVars, pc, view, loopVars, reply, at, waiterVars,
                 historyVars>>

Answer(w) ==
  /\ pc[w] = "asking" /\ w \notin done
  /\ pc' = [pc EXCEPT ![w] = "answered"]
  /\ view' = [view EXCEPT ![w] = [status |-> status, calls |-> Open]]
  /\ UNCHANGED <<serviceVars, strays, stateVars, done, loopVars, reply, at, waiterVars,
                 historyVars>>

AnswerFails(w) ==
  /\ pc[w] \in {"asking", "answered"}
  /\ Goes(w, "stopped")
  /\ view' = [view EXCEPT ![w] = NoView]
  /\ UNCHANGED <<serviceVars, strays, stateVars, done, at, waiterVars, historyVars>>

(* settleHostTools: the calls this handle has a handler for.               *)
Settle(w, calls, otherwise) ==
  /\ pc' = [pc EXCEPT ![w] = IF calls \cap Bound[w] = {} THEN otherwise ELSE "resolving"]
  /\ todo' = [todo EXCEPT ![w] = calls \cap Bound[w]]
  /\ UNCHANGED <<collected, reply>>

Read(w) ==
  /\ pc[w] = "answered"
  /\ Settle(w, view[w].calls,
       IF view[w].status = "ended" THEN "stopped"
       ELSE IF w \in Followers THEN "following" ELSE "resting")
  /\ view' = [view EXCEPT ![w] = NoView]
  /\ UNCHANGED <<serviceVars, strays, stateVars, done, at, waiterVars, historyVars>>

(* The poll interval is over, or the context.                              *)
Wake(w) ==
  /\ pc[w] = "resting"
  /\ pc' = [pc EXCEPT ![w] = "asking"]
  /\ UNCHANGED <<serviceVars, strays, stateVars, done, view, loopVars, reply, at, waiterVars,
                 historyVars>>

(* A change of the Turn, whose calls may be settled by now.                *)
Receive(w) ==
  /\ pc[w] = "following"
  /\ at[w] < Len(changes)
  /\ at' = [at EXCEPT ![w] = @ + 1]
  /\ Settle(w, changes[at[w] + 1], "following")
  /\ UNCHANGED <<serviceVars, strays, stateVars, done, view, waiterVars, historyVars>>

StopFollowing(w) ==
  /\ pc[w] = "following"
  /\ w \in done \/ (status = "ended" /\ at[w] = Len(changes))
  /\ Goes(w, "stopped")
  /\ UNCHANGED <<serviceVars, strays, stateVars, done, view, at, waiterVars, historyVars>>

-----------------------------------------------------------------------------
(* toolExecutionState.resolve, for the next call of the loop.              *)

First(w, c) == c \in todo[w] /\ \A d \in todo[w] : c <= d

NextCall(w, c) == pc[w] = "resolving" /\ First(w, c)

(* Faulty: nobody looks for a result.                                      *)
ForgottenOf(s, c) == {}

KeptOf(s, c) == {r \in cache[s] : r.call = c}

Take(w, r) ==
  /\ todo' = [todo EXCEPT ![w] = @ \ {r.call}]
  /\ collected' = [collected EXCEPT ![w] = @ \cup {r}]

FromCache(w, c) ==
  /\ NextCall(w, c)
  /\ \E r \in KeptOf(state[w], c) : Take(w, r)
  /\ UNCHANGED <<serviceVars, strays, stateVars, pc, done, view, reply, at, waiterVars,
                 historyVars>>

Called(w, c) ==
  /\ NextCall(w, c)
  /\ KeptOf(state[w], c) = {}
  /\ runs[state[w]][c] < MaxRuns
  /\ running' = [running EXCEPT ![state[w]] = @ \cup {c}]
  /\ runs' = [runs EXCEPT ![state[w]][c] = @ + 1]
  /\ pc' = [pc EXCEPT ![w] = "handling"]
  /\ UNCHANGED <<serviceVars, strays, cache, done, view, loopVars, reply, at, waiterVars,
                 panicked>>

(* Faulty: a handler that runs already is called once more.                *)
CallAlways(w, c) == Called(w, c)

(* The handler is called, though the context may have ended already.       *)
CallHandler(w, c) == c \notin running[state[w]] /\ Called(w, c)

(* Faulty: who waits for a handler does not look at its context.           *)
NeverGiveUp(w, c) == FALSE /\ UNCHANGED vars

(* Another waiter runs the handler and the context ends first.             *)
GiveUp(w, c) ==
  /\ NextCall(w, c)
  /\ KeptOf(state[w], c) = {} /\ c \in running[state[w]]
  /\ w \in done
  /\ Goes(w, "stopped")
  /\ UNCHANGED <<serviceVars, strays, stateVars, done, view, at, waiterVars, historyVars>>

Keep(s, r) ==
  /\ cache' = [cache EXCEPT ![s] = (@ \ KeptOf(s, r.call)) \cup {r}]
  /\ running' = [running EXCEPT ![s] = @ \ {r.call}]

(* Faulty: the error of a context that has ended is returned before the    *)
(* state is put in order.                                                  *)
KeepUnlessCut(s, r) == IF r.cut THEN UNCHANGED stateVars ELSE Keep(s, r)

Over(s, r) == Keep(s, r)

(* What the handler returns is the result, be it that its context ended.   *)
HandlerReturns(w, cut) ==
  LET s == state[w]
  IN /\ pc[w] = "handling"
     /\ cut => w \in done
     /\ \E c \in Calls :
          /\ First(w, c)
          /\ LET r == [call |-> c, state |-> s, run |-> runs[s][c], cut |-> cut]
             IN /\ Over(s, r)
                /\ Take(w, r)
     /\ pc' = [pc EXCEPT ![w] = "resolving"]
     /\ UNCHANGED <<serviceVars, strays, done, view, reply, at, waiterVars, historyVars>>

(* A panic that somebody above recovers: the call stays among those that   *)
(* run.                                                                    *)
HandlerPanics(w) ==
  LET s == state[w]
  IN /\ pc[w] = "handling"
     /\ \E c \in Panicking :
          /\ First(w, c)
          /\ panicked' = [panicked EXCEPT ![s] = @ \cup {c}]
     /\ Goes(w, "stopped")
     /\ UNCHANGED <<serviceVars, strays, stateVars, done, view, at, waiterVars, runs>>

-----------------------------------------------------------------------------
(* submitToolResults.                                                      *)

Submit(w) ==
  /\ pc[w] = "resolving" /\ todo[w] = {}
  /\ IF w \in done THEN Goes(w, "stopped")
     ELSE /\ pc' = [pc EXCEPT ![w] = "submitting"]
          /\ UNCHANGED <<loopVars, reply>>
  /\ UNCHANGED <<serviceVars, strays, stateVars, done, view, at, waiterVars, historyVars>>

Submitted(w) ==
  /\ pc[w] = "submitting" /\ reply[w] # "none"
  /\ Goes(w, IF reply[w] # "accepted" THEN "stopped"
             ELSE IF w \in Followers THEN "following" ELSE "asking")
  /\ UNCHANGED <<serviceVars, strays, stateVars, done, view, at, waiterVars, historyVars>>

(* No answer comes, though the service may have the results, or have them  *)
(* later.                                                                  *)
SubmissionFails(w) ==
  /\ pc[w] = "submitting"
  /\ \/ reply[w] = "none" /\ strays' = strays \cup {collected[w]}
     \/ UNCHANGED strays
  /\ Goes(w, "stopped")
  /\ UNCHANGED <<serviceVars, stateVars, done, view, at, waiterVars, historyVars>>

-----------------------------------------------------------------------------
Service ==
  \/ \E S \in SUBSET Calls : Park(S)
  \/ End
  \/ \E w \in Waiters : Deliver(w)
  \/ \E batch \in strays : DeliverStray(batch)

Goroutine(w) ==
  \/ Answer(w) \/ Read(w) \/ Wake(w) \/ Receive(w) \/ StopFollowing(w)
  \/ \E c \in Calls : FromCache(w, c) \/ CallHandler(w, c) \/ GiveUp(w, c)
  \/ HandlerReturns(w, FALSE) \/ Submit(w) \/ Submitted(w)

Mishap(w) ==
  \/ Cancel(w) \/ AnswerFails(w) \/ SubmissionFails(w) \/ HandlerPanics(w)
  \/ HandlerReturns(w, TRUE)

Next ==
  \/ Service
  \/ \E w \in Waiters : Start(w) \/ Goroutine(w) \/ Mishap(w)

Spec == Init /\ [][Next]_vars

(* Goroutines are scheduled, handlers return unless they panic, and the    *)
(* service answers; a request whose context has ended fails.  Nothing      *)
(* makes the application start a waiter.                                   *)
Fairness ==
  \A w \in Waiters :
    /\ WF_vars(Goroutine(w)) /\ WF_vars(Deliver(w))
    /\ WF_vars(w \in done /\ AnswerFails(w))

FairSpec == Spec /\ Fairness

-----------------------------------------------------------------------------
(* What the safety properties rest on: the results of a state are never    *)
(* replaced, and everything that was collected or taken is among them.     *)

ResultsAreKept ==
  /\ \A s \in States : \A r, q \in cache[s] : r.state = s /\ (r.call = q.call => r = q)
  /\ \A w \in Waiters : collected[w] \subseteq cache[state[w]]
  /\ \A r \in committed : r \in cache[r.state]
  /\ \A batch \in strays : \A r \in batch : r \in cache[r.state]

RunsAreKnown ==
  \A s \in States, c \in Calls :
    /\ KeptOf(s, c) # {} => c \notin running[s]
    /\ runs[s][c] = IF KeptOf(s, c) # {} \/ c \in running[s] THEN 1 ELSE 0

OneHandlerOfACall ==
  \A w \in Waiters, c \in Calls :
    pc[w] = "handling" /\ First(w, c) =>
      /\ c \in running[state[w]]
      /\ \A v \in Waiters :
           pc[v] = "handling" /\ First(v, c) /\ state[v] = state[w] => v = w

OnlySubmittersHaveReplies ==
  \A w \in Waiters :
    /\ pc[w] # "submitting" => reply[w] = "none"
    /\ pc[w] \notin {"resolving", "handling", "submitting"} => collected[w] = {}

-----------------------------------------------------------------------------
(* Properties.                                                             *)

(* However many waiters resolve a call through one state, at once or one   *)
(* after the other, alive or cancelled, its handler is called once.        *)
HandlerRunsOnce == \A s \in States, c \in Calls : runs[s][c] <= 1

(* A submission conflicts only with the result of another state, as a      *)
(* recovered handle has, or with the end of the Turn: the waiters of one   *)
(* state never submit two results of a call.                               *)
NoConflictOfOneState ==
  \A w \in Waiters :
    reply[w] = "conflict" =>
      \/ status = "ended"
      \/ \E r \in collected[w], q \in committed : q.call = r.call /\ q.state # state[w]

(* The inductive invariant.                                                *)
ExecutionInv ==
  /\ TypeOK /\ ResultsAreKept /\ RunsAreKnown /\ OneHandlerOfACall
  /\ OnlySubmittersHaveReplies /\ NoConflictOfOneState

(* An open call is served as long as a waiter has a handler for it and     *)
(* does not stop, unless a handler of its state has panicked.              *)
OpenCallIsServed ==
  \A w \in Waiters : \A c \in Bound[w] :
    []<>(c \notin Open \/ pc[w] = "stopped" \/ panicked[state[w]] # {})

(* A wait that is cancelled ends, even where it waits for a handler that   *)
(* another waiter called and that has panicked.                            *)
CancelledWaitEnds == \A w \in Waiters : w \in done ~> (pc[w] = "stopped" \/ w \notin done)
=============================================================================
