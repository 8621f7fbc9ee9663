--------------------------- MODULE CallbackReceiver ---------------------------
(***************************************************************************)
(* The endpoint that answers ToolCalls (sdk/python/src/nvoken/callback.py, *)
(* CallbackReceiver.handle) and the service that delivers to it at least   *)
(* once: a delivery that is not answered in time is made again while the   *)
(* handler of the first may still run, and the process of the receiver may *)
(* end anywhere.  The store of replies is the application's and survives.  *)
(***************************************************************************)
EXTENDS Naturals

CONSTANTS
  Calls,        (* ToolCalls of callback tools                             *)
  Deliveries,   (* identities of the HTTP requests                         *)
  Known,        (* the calls whose tool has a handler in `tools`           *)
  NoCall,       (* the call of a request that was never made               *)
  NoReply,      (* what `find` returns when nothing is recorded            *)
  MaxAttempts   (* bound: of the service's attempts for one call           *)

Reply == [status: {200, 202, 400, 401, 503}, run: Deliveries]

ASSUME CallsAssumption == Known \subseteq Calls /\ NoCall \notin Calls
ASSUME NoReplyAssumption == NoReply \notin Reply
ASSUME MaxAttemptsAssumption == MaxAttempts \in Nat

VARIABLES
  outcome,    (* service: of the delivery of each call                     *)
  answer,     (* service: the successful reply it took for each call       *)
  attempts,   (* service: how often it delivered each call                 *)
  callOf,     (* the call of each request                                  *)
  awaited,    (* the requests whose answer the service still waits for     *)
  keys,       (* _keys: "none", "unknown" to the sender's identity, "held" *)
  hasStore,   (* whether the receiver was given a store                    *)
  pc,         (* where `handle` is suspended for each request              *)
  reply,      (* `recorded`, `reply` or `stored` of `handle`               *)
  store,      (* the application's record of each call's reply             *)
  strays,     (* writes to the store whose sender no longer waits for them *)
  late        (* history: requests that came after their call's record     *)

serviceVars  == <<outcome, answer, attempts, callOf, awaited>>
receiverVars == <<keys, hasStore>>
vars == <<serviceVars, receiverVars, pc, reply, store, strays, late>>

Outcome == {"pending", "acknowledged", "succeeded", "failed"}
Keys    == {"none", "unknown", "held"}
Inside  == {"finding", "found", "running", "putting", "put"}
Pc      == {"unused", "arriving", "answered", "gone"} \cup Inside

TypeOK ==
  /\ outcome \in [Calls -> Outcome]
  /\ answer \in [Calls -> Reply \cup {NoReply}]
  /\ attempts \in [Calls -> Nat]
  /\ callOf \in [Deliveries -> Calls \cup {NoCall}]
  /\ awaited \in SUBSET Deliveries
  /\ keys \in Keys
  /\ hasStore \in BOOLEAN
  /\ pc \in [Deliveries -> Pc]
  /\ reply \in [Deliveries -> Reply \cup {NoReply}]
  /\ store \in [Calls -> Reply \cup {NoReply}]
  /\ strays \in SUBSET (Calls \X Reply)
  /\ late \in SUBSET Deliveries

Init ==
  /\ outcome = [c \in Calls |-> "pending"]
  /\ answer = [c \in Calls |-> NoReply]
  /\ attempts = [c \in Calls |-> 0]
  /\ callOf = [d \in Deliveries |-> NoCall]
  /\ awaited = {}
  /\ keys \in Keys
  /\ hasStore \in BOOLEAN
  /\ pc = [d \in Deliveries |-> "unused"]
  /\ reply = [d \in Deliveries |-> NoReply]
  /\ store = [c \in Calls |-> NoReply]
  /\ strays = {}
  /\ late = {}

Success(r) == r # NoReply /\ r.status \in {200, 202}

-----------------------------------------------------------------------------
(* The service.                                                            *)

(* One request at a time is made for a call, of a bounded number.          *)
Deliver(c, d) ==
  /\ outcome[c] = "pending"
  /\ attempts[c] < MaxAttempts
  /\ \A e \in awaited : callOf[e] # c
  /\ pc[d] = "unused"
  /\ pc' = [pc EXCEPT ![d] = "arriving"]
  /\ callOf' = [callOf EXCEPT ![d] = c]
  /\ awaited' = awaited \cup {d}
  /\ attempts' = [attempts EXCEPT ![c] = @ + 1]
  /\ UNCHANGED <<outcome, answer, receiverVars, reply, store, strays, late>>

(* The service no longer waits for request d, which ended the delivery of  *)
(* its call with `end`, unless the call was settled meanwhile.             *)
Conclude(d, end) ==
  /\ awaited' = awaited \ {d}
  /\ outcome' = [outcome EXCEPT ![callOf[d]] = IF @ = "pending" THEN end ELSE @]
  /\ UNCHANGED <<attempts, callOf>>

(* What another attempt would have to make good.                           *)
Retried(c) == IF attempts[c] < MaxAttempts THEN "pending" ELSE "failed"

(* The deadline passes, or the connection fails on the way.                *)
TimeOut(d) ==
  /\ d \in awaited
  /\ Conclude(d, Retried(callOf[d]))
  /\ UNCHANGED <<answer, receiverVars, pc, reply, store, strays, late>>

TakeAnswer(d) ==
  /\ d \in awaited
  /\ pc[d] = "answered"
  /\ \/ /\ Success(reply[d])
        /\ Conclude(d, IF reply[d].status = 200 THEN "succeeded" ELSE "acknowledged")
        /\ answer' = [answer EXCEPT ![callOf[d]] =
                        IF outcome[callOf[d]] = "pending" THEN reply[d] ELSE @]
     \/ /\ reply[d].status = 503
        /\ Conclude(d, Retried(callOf[d]))
        /\ UNCHANGED answer
     \/ /\ reply[d].status \in {400, 401}
        /\ Conclude(d, "failed")
        /\ UNCHANGED answer
  /\ UNCHANGED <<receiverVars, pc, reply, store, strays, late>>

(* The application settles a call it took away, through the tool results.  *)
Settle(c) ==
  /\ outcome[c] \in {"pending", "acknowledged"}
  /\ \E d \in Deliveries :
       callOf[d] = c /\ Success(reply[d]) /\ reply[d].status = 202
  /\ outcome' = [outcome EXCEPT ![c] = "succeeded"]
  /\ UNCHANGED <<answer, attempts, callOf, awaited, receiverVars, pc, reply, store, strays, late>>

-----------------------------------------------------------------------------
(* The receiver.                                                           *)

Respond(d, status) ==
  /\ pc' = [pc EXCEPT ![d] = "answered"]
  /\ reply' = [reply EXCEPT ![d] = [status |-> status, run |-> d]]

(* The signing key is selected, the tool is looked up, and the store is    *)
(* asked, or the handler called when there is none.                        *)
Arrive(d) ==
  /\ pc[d] = "arriving"
  /\ \/ keys = "none" /\ Respond(d, 503)
     \/ keys = "unknown" /\ Respond(d, 401)
     \/ keys = "held" /\ callOf[d] \notin Known /\ Respond(d, 400)
     \/ /\ keys = "held" /\ callOf[d] \in Known
        /\ pc' = [pc EXCEPT ![d] = IF hasStore THEN "finding" ELSE "running"]
        /\ UNCHANGED reply
  /\ late' = IF store[callOf[d]] # NoReply THEN late \cup {d} ELSE late
  /\ UNCHANGED <<serviceVars, receiverVars, store, strays>>

(* The clocks are too far apart for the signed timestamp.                  *)
RefuseTimestamp(d) ==
  /\ pc[d] = "arriving"
  /\ keys = "held"
  /\ Respond(d, 401)
  /\ UNCHANGED <<serviceVars, receiverVars, store, strays, late>>

(* `find` reads the store ...                                              *)
Find(d) ==
  /\ pc[d] = "finding"
  /\ pc' = [pc EXCEPT ![d] = "found"]
  /\ reply' = [reply EXCEPT ![d] = store[callOf[d]]]
  /\ UNCHANGED <<serviceVars, receiverVars, store, strays, late>>

(* Faulty: the handler is called whatever is recorded.                     *)
RunAnyway(d) ==
  /\ pc[d] = "found"
  /\ pc' = [pc EXCEPT ![d] = "running"]
  /\ UNCHANGED <<serviceVars, receiverVars, reply, store, strays, late>>

(* ... and returns: the recorded reply is given, or the handler is called. *)
Found(d) ==
  /\ pc[d] = "found"
  /\ pc' = [pc EXCEPT ![d] = IF reply[d] # NoReply THEN "answered" ELSE "running"]
  /\ UNCHANGED <<serviceVars, receiverVars, reply, store, strays, late>>

(* The handler settles the call or takes it away.                          *)
Return(d) ==
  /\ pc[d] = "running"
  /\ \E status \in {200, 202} :
       reply' = [reply EXCEPT ![d] = [status |-> status, run |-> d]]
  /\ pc' = [pc EXCEPT ![d] = IF hasStore THEN "putting" ELSE "answered"]
  /\ UNCHANGED <<serviceVars, receiverVars, store, strays, late>>

(* Faulty: the reply of this run is given, whichever was recorded.         *)
PutReturningOwn(d) ==
  /\ pc[d] = "putting"
  /\ pc' = [pc EXCEPT ![d] = "put"]
  /\ store' = [store EXCEPT ![callOf[d]] = IF @ = NoReply THEN reply[d] ELSE @]
  /\ UNCHANGED <<serviceVars, receiverVars, reply, strays, late>>

(* Faulty: a record is overwritten.                                        *)
PutAlways(d) ==
  /\ pc[d] = "putting"
  /\ pc' = [pc EXCEPT ![d] = "put"]
  /\ store' = [store EXCEPT ![callOf[d]] = reply[d]]
  /\ UNCHANGED <<serviceVars, receiverVars, reply, strays, late>>

Record(c, r) == store' = [store EXCEPT ![c] = IF @ = NoReply THEN r ELSE @]

(* `put_if_absent` writes the store and hands out what the store holds ... *)
Put(d) ==
  /\ pc[d] = "putting"
  /\ pc' = [pc EXCEPT ![d] = "put"]
  /\ Record(callOf[d], reply[d])
  /\ reply' = [reply EXCEPT ![d] = store'[callOf[d]]]
  /\ UNCHANGED <<serviceVars, receiverVars, strays, late>>

(* ... and returns.                                                        *)
PutReturns(d) ==
  /\ pc[d] = "put"
  /\ pc' = [pc EXCEPT ![d] = "answered"]
  /\ UNCHANGED <<serviceVars, receiverVars, reply, store, strays, late>>

(* The writes of the requests in D may be on their way to the store.       *)
Abandon(D) ==
  \E E \in SUBSET {d \in D : pc[d] = "putting"} :
    strays' = strays \cup {<<callOf[d], reply[d]>> : d \in E}

PutStray(c, r) ==
  /\ <<c, r>> \in strays
  /\ strays' = strays \ {<<c, r>>}
  /\ Record(c, r)
  /\ UNCHANGED <<serviceVars, receiverVars, pc, reply, late>>

(* The store or the handler raises: the service is to deliver again.       *)
Raise(d) ==
  /\ pc[d] \in Inside
  /\ Abandon({d})
  /\ Respond(d, 503)
  /\ UNCHANGED <<serviceVars, receiverVars, store, late>>

(* The request is cancelled, which `handle` lets through.                  *)
Cancel(d) ==
  /\ pc[d] \in Inside
  /\ Abandon({d})
  /\ pc' = [pc EXCEPT ![d] = "gone"]
  /\ UNCHANGED <<serviceVars, receiverVars, reply, store, late>>

(* The process ends, and another one starts with the keys of the day.      *)
Restart ==
  /\ Abandon(Deliveries)
  /\ pc' = [d \in Deliveries |-> IF pc[d] \in Inside THEN "gone" ELSE pc[d]]
  /\ keys' \in Keys
  /\ UNCHANGED <<serviceVars, hasStore, reply, store, late>>

-----------------------------------------------------------------------------
Handle(d) ==
  \/ Arrive(d) \/ RefuseTimestamp(d) \/ Find(d) \/ Found(d) \/ Return(d)
  \/ Put(d) \/ PutReturns(d) \/ Raise(d) \/ Cancel(d)

Next ==
  \/ \E c \in Calls, d \in Deliveries : Deliver(c, d)
  \/ \E d \in Deliveries : TimeOut(d) \/ TakeAnswer(d) \/ Handle(d)
  \/ \E c \in Calls : Settle(c)
  \/ \E c \in Calls, r \in Reply : PutStray(c, r)
  \/ Restart

Spec == Init /\ [][Next]_vars

-----------------------------------------------------------------------------
(* Properties.                                                             *)

(* With a store, whatever handlers raced and whatever processes ended, the *)
(* successful answers to a call are all the recorded one, on their way and *)
(* at the service.                                                         *)
AnswersAreTheRecord ==
  hasStore =>
    /\ \A d \in Deliveries :
         pc[d] = "answered" /\ Success(reply[d]) => reply[d] = store[callOf[d]]
    /\ \A c \in Calls : answer[c] # NoReply => answer[c] = store[c]

(* A delivery that comes after its call's reply was recorded, by whatever  *)
(* process, does not run the tool.                                         *)
RecordedCallIsNotRun ==
  [][\A d \in Deliveries :
       pc[d] # "running" /\ pc'[d] = "running" => d \notin late']_vars

(* To the service the endpoint is one answer a call, or none.              *)
Answers == INSTANCE AnswerOnce WITH
  Replies <- Reply,
  given   <- IF hasStore THEN store ELSE answer,
  taken   <- answer

IsAnswerOnce == Answers!Spec

-----------------------------------------------------------------------------
(* The inductive invariant behind these.                                   *)

(* A request that is awaited or was answered belongs to a call, a late one *)
(* finds the record, and a record is a success.                            *)
RequestsInv ==
  /\ \A d \in Deliveries :
       /\ pc[d] # "unused" => callOf[d] \in Calls
       /\ d \in awaited => pc[d] # "unused"
       /\ pc[d] \in {"unused", "arriving", "finding"} => reply[d] = NoReply
       /\ pc[d] \in {"unused", "arriving"} => d \notin late
       /\ pc[d] \in {"putting", "put", "answered"} => reply[d] # NoReply
       /\ pc[d] \in {"putting", "put"} => Success(reply[d])
  /\ \A c \in Calls : store[c] # NoReply => Success(store[c])
  /\ \A s \in strays : Success(s[2])
  /\ \A c \in Calls : outcome[c] = "pending" => answer[c] = NoReply

RecordInv ==
  hasStore =>
    \A d \in Deliveries :
      /\ pc[d] \in {"found", "put"} /\ reply[d] # NoReply => reply[d] = store[callOf[d]]
      /\ d \in late => /\ store[callOf[d]] # NoReply
                       /\ pc[d] = "found" => reply[d] # NoReply

NoStoreInv ==
  ~hasStore =>
    /\ strays = {}
    /\ \A c \in Calls : store[c] = NoReply
    /\ \A d \in Deliveries : pc[d] \notin Inside \ {"running"}

CallbacksInv ==
  /\ TypeOK
  /\ RequestsInv
  /\ RecordInv
  /\ NoStoreInv
  /\ AnswersAreTheRecord
=============================================================================
