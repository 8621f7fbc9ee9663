------------------------ MODULE CallbackReceiverProofs ------------------------
(***************************************************************************)
(* The safety of the callback endpoint for any calls, requests and number  *)
(* of attempts: CallbacksInv is inductive, and the properties follow.      *)
(***************************************************************************)
EXTENDS CallbackReceiver, TLAPS

LEMMA InitCallbacks == Init => CallbacksInv
<1> SUFFICES ASSUME Init PROVE CallbacksInv
  OBVIOUS
<1>1. TypeOK
  BY DEF Init, TypeOK, Outcome, Pc
<1>2. RequestsInv
  BY DEF Init, RequestsInv
<1>3. RecordInv /\ NoStoreInv /\ AnswersAreTheRecord
  BY DEF Init, RecordInv, NoStoreInv, AnswersAreTheRecord, Inside
<1>4. QED
  BY <1>1, <1>2, <1>3 DEF CallbacksInv

LEMMA DeliverStep ==
  ASSUME CallbacksInv, NEW c \in Calls, NEW d \in Deliveries, Deliver(c, d)
  PROVE  CallbacksInv'
<1> USE CallsAssumption, NoReplyAssumption DEF CallbacksInv
<1>1. TypeOK'
  BY DEF TypeOK, Deliver, serviceVars, receiverVars, Outcome, Pc, Inside, Reply, RequestsInv
<1>2. RequestsInv'
  BY DEF TypeOK, RequestsInv, Deliver, serviceVars, receiverVars, Success, Inside, Reply
<1>3. RecordInv'
  BY DEF TypeOK, RequestsInv, RecordInv, Deliver, serviceVars, receiverVars, Success, Inside
<1>4. NoStoreInv'
  BY DEF TypeOK, NoStoreInv, Deliver, serviceVars, receiverVars, Inside
<1>5. AnswersAreTheRecord'
  BY DEF TypeOK, RequestsInv, RecordInv, AnswersAreTheRecord, Deliver, serviceVars, receiverVars, Success, Inside
<1>6. QED
  BY <1>1, <1>2, <1>3, <1>4, <1>5

LEMMA TimeOutStep ==
  ASSUME CallbacksInv, NEW d \in Deliveries, TimeOut(d)
  PROVE  CallbacksInv'
<1> USE CallsAssumption, NoReplyAssumption DEF CallbacksInv
<1>1. TypeOK'
  BY DEF TypeOK, TimeOut, Conclude, Retried, serviceVars, receiverVars, Outcome, Pc, Inside, Reply, RequestsInv
<1>2. RequestsInv'
  BY DEF TypeOK, RequestsInv, TimeOut, Conclude, Retried, serviceVars, receiverVars, Success, Inside, Reply
<1>3. RecordInv'
  BY DEF TypeOK, RequestsInv, RecordInv, TimeOut, Conclude, Retried, serviceVars, receiverVars, Success, Inside
<1>4. NoStoreInv'
  BY DEF TypeOK, NoStoreInv, TimeOut, Conclude, Retried, serviceVars, receiverVars, Inside
<1>5. AnswersAreTheRecord'
  BY DEF TypeOK, RequestsInv, RecordInv, AnswersAreTheRecord, TimeOut, Conclude, Retried, serviceVars, receiverVars, Success, Inside
<1>6. QED
  BY <1>1, <1>2, <1>3, <1>4, <1>5

LEMMA TakeAnswerStep ==
  ASSUME CallbacksInv, NEW d \in Deliveries, TakeAnswer(d)
  PROVE  CallbacksInv'
<1> USE CallsAssumption, NoReplyAssumption DEF CallbacksInv
<1>1. TypeOK'
  BY DEF TypeOK, TakeAnswer, Conclude, Retried, serviceVars, receiverVars, Outcome, Pc, Inside, Reply, RequestsInv
<1>2. RequestsInv'
  BY DEF TypeOK, RequestsInv, TakeAnswer, Conclude, Retried, serviceVars, receiverVars, Success, Inside, Reply
<1>3. RecordInv'
  BY DEF TypeOK, RequestsInv, RecordInv, TakeAnswer, Conclude, Retried, serviceVars, receiverVars, Success, Inside
<1>4. NoStoreInv'
  BY DEF TypeOK, NoStoreInv, TakeAnswer, Conclude, Retried, serviceVars, receiverVars, Inside
<1>5. AnswersAreTheRecord'
  BY DEF TypeOK, RequestsInv, RecordInv, AnswersAreTheRecord, TakeAnswer, Conclude, Retried, serviceVars, receiverVars, Success, Inside
<1>6. QED
  BY <1>1, <1>2, <1>3, <1>4, <1>5

LEMMA SettleStep ==
  ASSUME CallbacksInv, NEW c \in Calls, Settle(c)
  PROVE  CallbacksInv'
<1> USE CallsAssumption, NoReplyAssumption DEF CallbacksInv
<1>1. TypeOK'
  BY DEF TypeOK, Settle, serviceVars, receiverVars, Outcome, Pc, Inside, Reply, RequestsInv
<1>2. RequestsInv'
  BY DEF TypeOK, RequestsInv, Settle, serviceVars, receiverVars, Success, Inside, Reply
<1>3. RecordInv'
  BY DEF TypeOK, RequestsInv, RecordInv, Settle, serviceVars, receiverVars, Success, Inside
<1>4. NoStoreInv'
  BY DEF TypeOK, NoStoreInv, Settle, serviceVars, receiverVars, Inside
<1>5. AnswersAreTheRecord'
  BY DEF TypeOK, RequestsInv, RecordInv, AnswersAreTheRecord, Settle, serviceVars, receiverVars, Success, Inside
<1>6. QED
  BY <1>1, <1>2, <1>3, <1>4, <1>5

LEMMA ArriveStep ==
  ASSUME CallbacksInv, NEW d \in Deliveries, Arrive(d)
  PROVE  CallbacksInv'
<1> USE CallsAssumption, NoReplyAssumption DEF CallbacksInv
<1>1. TypeOK'
  BY DEF TypeOK, Arrive, Respond, serviceVars, receiverVars, Outcome, Pc, Inside, Reply, RequestsInv
<1>2. RequestsInv'
  BY DEF TypeOK, RequestsInv, Arrive, Respond, serviceVars, receiverVars, Success, Inside, Reply
<1>3. RecordInv'
  BY DEF TypeOK, RequestsInv, RecordInv, Arrive, Respond, serviceVars, receiverVars, Success, Inside
<1>4. NoStoreInv'
  BY DEF TypeOK, NoStoreInv, Arrive, Respond, serviceVars, receiverVars, Inside
<1>5. AnswersAreTheRecord'
  BY DEF TypeOK, RequestsInv, RecordInv, AnswersAreTheRecord, Arrive, Respond, serviceVars, receiverVars, Success, Inside
<1>6. QED
  BY <1>1, <1>2, <1>3, <1>4, <1>5

LEMMA RefuseTimestampStep ==
  ASSUME CallbacksInv, NEW d \in Deliveries, RefuseTimestamp(d)
  PROVE  CallbacksInv'
<1> USE CallsAssumption, NoReplyAssumption DEF CallbacksInv
<1>1. TypeOK'
  BY DEF TypeOK, RefuseTimestamp, Respond, serviceVars, receiverVars, Outcome, Pc, Inside, Reply, RequestsInv
<1>2. RequestsInv'
  BY DEF TypeOK, RequestsInv, RefuseTimestamp, Respond, serviceVars, receiverVars, Success, Inside, Reply
<1>3. RecordInv'
  BY DEF TypeOK, RequestsInv, RecordInv, RefuseTimestamp, Respond, serviceVars, receiverVars, Success, Inside
<1>4. NoStoreInv'
  BY DEF TypeOK, NoStoreInv, RefuseTimestamp, Respond, serviceVars, receiverVars, Inside
<1>5. AnswersAreTheRecord'
  BY DEF TypeOK, RequestsInv, RecordInv, AnswersAreTheRecord, RefuseTimestamp, Respond, serviceVars, receiverVars, Success, Inside
<1>6. QED
  BY <1>1, <1>2, <1>3, <1>4, <1>5

LEMMA FindStep ==
  ASSUME CallbacksInv, NEW d \in Deliveries, Find(d)
  PROVE  CallbacksInv'
<1> USE CallsAssumption, NoReplyAssumption DEF CallbacksInv
<1>1. TypeOK'
  BY DEF TypeOK, Find, serviceVars, receiverVars, Outcome, Pc, Inside, Reply, RequestsInv
<1>2. RequestsInv'
  BY DEF TypeOK, RequestsInv, Find, serviceVars, receiverVars, Success, Inside, Reply
<1>3. RecordInv'
  BY DEF TypeOK, RequestsInv, RecordInv, Find, serviceVars, receiverVars, Success, Inside
<1>4. NoStoreInv'
  BY DEF TypeOK, NoStoreInv, Find, serviceVars, receiverVars, Inside
<1>5. AnswersAreTheRecord'
  BY DEF TypeOK, RequestsInv, RecordInv, AnswersAreTheRecord, Find, serviceVars, receiverVars, Success, Inside
<1>6. QED
  BY <1>1, <1>2, <1>3, <1>4, <1>5

LEMMA FoundStep ==
  ASSUME CallbacksInv, NEW d \in Deliveries, Found(d)
  PROVE  CallbacksInv'
<1> USE CallsAssumption, NoReplyAssumption DEF CallbacksInv
<1>1. TypeOK'
  BY DEF TypeOK, Found, serviceVars, receiverVars, Outcome, Pc, Inside, Reply, RequestsInv
<1>2. RequestsInv'
  BY DEF TypeOK, RequestsInv, Found, serviceVars, receiverVars, Success, Inside, Reply
<1>3. RecordInv'
  BY DEF TypeOK, RequestsInv, RecordInv, Found, serviceVars, receiverVars, Success, Inside
<1>4. NoStoreInv'
  BY DEF TypeOK, NoStoreInv, Found, serviceVars, receiverVars, Inside
<1>5. AnswersAreTheRecord'
  BY DEF TypeOK, RequestsInv, RecordInv, AnswersAreTheRecord, Found, serviceVars, receiverVars, Success, Inside
<1>6. QED
  BY <1>1, <1>2, <1>3, <1>4, <1>5

LEMMA ReturnStep ==
  ASSUME CallbacksInv, NEW d \in Deliveries, Return(d)
  PROVE  CallbacksInv'
<1> USE CallsAssumption, NoReplyAssumption DEF CallbacksInv
<1>1. TypeOK'
  BY DEF TypeOK, Return, serviceVars, receiverVars, Outcome, Pc, Inside, Reply, RequestsInv
<1>2. RequestsInv'
  BY DEF TypeOK, RequestsInv, Return, serviceVars, receiverVars, Success, Inside, Reply
<1>3. RecordInv'
  BY DEF TypeOK, RequestsInv, RecordInv, Return, serviceVars, receiverVars, Success, Inside
<1>4. NoStoreInv'
  BY DEF TypeOK, NoStoreInv, Return, serviceVars, receiverVars, Inside
<1>5. AnswersAreTheRecord'
  BY DEF TypeOK, RequestsInv, RecordInv, AnswersAreTheRecord, Return, serviceVars, receiverVars, Success, Inside
<1>6. QED
  BY <1>1, <1>2, <1>3, <1>4, <1>5

LEMMA PutStep ==
  ASSUME CallbacksInv, NEW d \in Deliveries, Put(d)
  PROVE  CallbacksInv'
<1> USE CallsAssumption, NoReplyAssumption DEF CallbacksInv
<1>1. TypeOK'
  BY DEF TypeOK, Put, Record, serviceVars, receiverVars, Outcome, Pc, Inside, Reply, RequestsInv
<1>2. RequestsInv'
  BY DEF TypeOK, RequestsInv, Put, Record, serviceVars, receiverVars, Success, Inside, Reply
<1>3. RecordInv'
  BY DEF TypeOK, RequestsInv, RecordInv, Put, Record, serviceVars, receiverVars, Success, Inside
<1>4. NoStoreInv'
  BY DEF TypeOK, NoStoreInv, Put, Record, serviceVars, receiverVars, Inside
<1>5. AnswersAreTheRecord'
  BY DEF TypeOK, RequestsInv, RecordInv, AnswersAreTheRecord, Put, Record, serviceVars, receiverVars, Success, Inside
<1>6. QED
  BY <1>1, <1>2, <1>3, <1>4, <1>5

LEMMA PutStrayStep ==
  ASSUME CallbacksInv, NEW c \in Calls, NEW r \in Reply, PutStray(c, r)
  PROVE  CallbacksInv'
<1> USE CallsAssumption, NoReplyAssumption DEF CallbacksInv
<1>1. TypeOK'
  BY DEF TypeOK, PutStray, Record, serviceVars, receiverVars, Outcome, Pc, Inside, Reply, RequestsInv
<1>2. RequestsInv'
  BY DEF TypeOK, RequestsInv, PutStray, Record, serviceVars, receiverVars, Success, Inside, Reply
<1>3. RecordInv'
  BY DEF TypeOK, RequestsInv, RecordInv, PutStray, Record, serviceVars, receiverVars, Success, Inside
<1>4. NoStoreInv'
  BY DEF TypeOK, NoStoreInv, PutStray, Record, serviceVars, receiverVars, Inside
<1>5. AnswersAreTheRecord'
  BY DEF TypeOK, RequestsInv, RecordInv, AnswersAreTheRecord, PutStray, Record, serviceVars, receiverVars, Success, Inside
<1>6. QED
  BY <1>1, <1>2, <1>3, <1>4, <1>5

LEMMA PutReturnsStep ==
  ASSUME CallbacksInv, NEW d \in Deliveries, PutReturns(d)
  PROVE  CallbacksInv'
<1> USE CallsAssumption, NoReplyAssumption DEF CallbacksInv
<1>1. TypeOK'
  BY DEF TypeOK, PutReturns, serviceVars, receiverVars, Outcome, Pc, Inside, Reply, RequestsInv
<1>2. RequestsInv'
  BY DEF TypeOK, RequestsInv, PutReturns, serviceVars, receiverVars, Success, Inside, Reply
<1>3. RecordInv'
  BY DEF TypeOK, RequestsInv, RecordInv, PutReturns, serviceVars, receiverVars, Success, Inside
<1>4. NoStoreInv'
  BY DEF TypeOK, NoStoreInv, PutReturns, serviceVars, receiverVars, Inside
<1>5. AnswersAreTheRecord'
  BY DEF TypeOK, RequestsInv, RecordInv, AnswersAreTheRecord, PutReturns, serviceVars, receiverVars, Success, Inside
<1>6. QED
  BY <1>1, <1>2, <1>3, <1>4, <1>5

LEMMA RaiseStep ==
  ASSUME CallbacksInv, NEW d \in Deliveries, Raise(d)
  PROVE  CallbacksInv'
<1> USE CallsAssumption, NoReplyAssumption DEF CallbacksInv
<1>1. TypeOK'
  BY DEF TypeOK, Raise, Abandon, Respond, serviceVars, receiverVars, Outcome, Pc, Inside, Reply, RequestsInv
<1>2. RequestsInv'
  BY DEF TypeOK, RequestsInv, Raise, Abandon, Respond, serviceVars, receiverVars, Success, Inside, Reply
<1>3. RecordInv'
  BY DEF TypeOK, RequestsInv, RecordInv, Raise, Abandon, Respond, serviceVars, receiverVars, Success, Inside
<1>4. NoStoreInv'
  BY DEF TypeOK, NoStoreInv, Raise, Abandon, Respond, serviceVars, receiverVars, Inside
<1>5. AnswersAreTheRecord'
  BY DEF TypeOK, RequestsInv, RecordInv, AnswersAreTheRecord, Raise, Abandon, Respond, serviceVars, receiverVars, Success, Inside
<1>6. QED
  BY <1>1, <1>2, <1>3, <1>4, <1>5

LEMMA CancelStep ==
  ASSUME CallbacksInv, NEW d \in Deliveries, Cancel(d)
  PROVE  CallbacksInv'
<1> USE CallsAssumption, NoReplyAssumption DEF CallbacksInv
<1>1. TypeOK'
  BY DEF TypeOK, Cancel, Abandon, serviceVars, receiverVars, Outcome, Pc, Inside, Reply, RequestsInv
<1>2. RequestsInv'
  BY DEF TypeOK, RequestsInv, Cancel, Abandon, serviceVars, receiverVars, Success, Inside, Reply
<1>3. RecordInv'
  BY DEF TypeOK, RequestsInv, RecordInv, Cancel, Abandon, serviceVars, receiverVars, Success, Inside
<1>4. NoStoreInv'
  BY DEF TypeOK, NoStoreInv, Cancel, Abandon, serviceVars, receiverVars, Inside
<1>5. AnswersAreTheRecord'
  BY DEF TypeOK, RequestsInv, RecordInv, AnswersAreTheRecord, Cancel, Abandon, serviceVars, receiverVars, Success, Inside
<1>6. QED
  BY <1>1, <1>2, <1>3, <1>4, <1>5

LEMMA RestartStep ==
  ASSUME CallbacksInv, Restart
  PROVE  CallbacksInv'
<1> USE CallsAssumption, NoReplyAssumption DEF CallbacksInv
<1>1. TypeOK'
  BY DEF TypeOK, Restart, Abandon, serviceVars, receiverVars, Outcome, Pc, Inside, Reply, RequestsInv
<1>2. RequestsInv'
  BY DEF TypeOK, RequestsInv, Restart, Abandon, serviceVars, receiverVars, Success, Inside, Reply
<1>3. RecordInv'
  BY DEF TypeOK, RequestsInv, RecordInv, Restart, Abandon, serviceVars, receiverVars, Success, Inside
<1>4. NoStoreInv'
  BY DEF TypeOK, NoStoreInv, Restart, Abandon, serviceVars, receiverVars, Inside
<1>5. AnswersAreTheRecord'
  BY DEF TypeOK, RequestsInv, RecordInv, AnswersAreTheRecord, Restart, Abandon, serviceVars, receiverVars, Success, Inside
<1>6. QED
  BY <1>1, <1>2, <1>3, <1>4, <1>5

-----------------------------------------------------------------------------
LEMMA StutterStep ==
  ASSUME CallbacksInv, UNCHANGED vars
  PROVE  CallbacksInv'
BY DEF CallbacksInv, TypeOK, RequestsInv, RecordInv, NoStoreInv, AnswersAreTheRecord,
       Success, vars, serviceVars, receiverVars

LEMMA StepOfCallbacks == CallbacksInv /\ [Next]_vars => CallbacksInv'
<1> SUFFICES ASSUME CallbacksInv, [Next]_vars PROVE CallbacksInv'
  OBVIOUS
<1>1. ASSUME NEW d \in Deliveries, Handle(d) PROVE CallbacksInv'
  BY <1>1, ArriveStep, RefuseTimestampStep, FindStep, FoundStep, ReturnStep, PutStep,
     PutReturnsStep, RaiseStep, CancelStep DEF Handle
<1>2. CASE UNCHANGED vars
  BY <1>2, StutterStep
<1>3. QED
  BY <1>1, <1>2, DeliverStep, TimeOutStep, TakeAnswerStep, SettleStep, PutStrayStep,
     RestartStep DEF Next

(* CallbacksInv holds in every state, whatever requests overlap, fail or   *)
(* are cancelled and whenever the process ends.                            *)
THEOREM CallbacksInvariant == Spec => []CallbacksInv
<1>1. Init => CallbacksInv
  BY InitCallbacks
<1>2. CallbacksInv /\ [Next]_vars => CallbacksInv'
  BY StepOfCallbacks
<1>3. QED
  BY <1>1, <1>2, PTL DEF Spec

(* Every successful answer to a call is the recorded one.                  *)
THEOREM AnswersAgree == Spec => []AnswersAreTheRecord
<1>1. CallbacksInv => AnswersAreTheRecord
  BY DEF CallbacksInv
<1>2. QED
  BY <1>1, CallbacksInvariant, PTL

(* A tool is called by `handle` without a store, when nothing is ever      *)
(* recorded, or after `find` returned nothing.                             *)
THEOREM RecordedCallsAreReplayed == Spec => RecordedCallIsNotRun
<1> DEFINE NoLateRun ==
      \A d \in Deliveries :
        pc[d] # "running" /\ pc'[d] = "running" => d \notin late'
<1>1. CallbacksInv /\ [Next]_vars => [NoLateRun]_vars
  <2> SUFFICES ASSUME CallbacksInv, [Next]_vars, NEW d \in Deliveries,
                      pc[d] # "running", pc'[d] = "running"
               PROVE  d \notin late'
    OBVIOUS
  <2> USE DEF CallbacksInv, TypeOK
  <2>1. CASE Arrive(d)
    <3>1. ~hasStore
      BY <2>1 DEF Arrive, Respond
    <3>2. callOf[d] \in Calls /\ d \notin late
      BY <2>1 DEF Arrive, RequestsInv
    <3>3. QED
      BY <2>1, <3>1, <3>2 DEF Arrive, NoStoreInv
  <2>2. CASE Found(d)
    <3>1. reply[d] = NoReply /\ pc[d] = "found" /\ late' = late
      BY <2>2 DEF Found
    <3>2. hasStore
      BY <3>1 DEF NoStoreInv, Inside
    <3>3. QED
      BY <3>1, <3>2 DEF RecordInv
  <2>3. Arrive(d) \/ Found(d)
    <3>1. ASSUME NEW e \in Deliveries \ {d}, Handle(e) PROVE FALSE
      BY <3>1 DEF Handle, Arrive, RefuseTimestamp, Find, Found, Return, Put, PutReturns,
         Raise, Cancel, Respond
    <3>2. Handle(d) => Arrive(d) \/ Found(d)
      BY DEF Handle, RefuseTimestamp, Find, Return, Put, PutReturns, Raise, Cancel, Respond
    <3>3. CASE UNCHANGED pc
      BY <3>3
    <3>4. CASE Restart
      BY <3>4 DEF Restart
    <3>5. ASSUME NEW c \in Calls, NEW e \in Deliveries, Deliver(c, e) PROVE FALSE
      BY <3>5 DEF Deliver
    <3>6. QED
      BY <3>1, <3>2, <3>3, <3>4, <3>5 DEF Next, TimeOut, TakeAnswer, Settle, PutStray, vars
  <2>4. QED
    BY <2>1, <2>2, <2>3
<1>2. QED
  BY <1>1, CallbacksInvariant, PTL DEF Spec, RecordedCallIsNotRun

-----------------------------------------------------------------------------
given == IF hasStore THEN store ELSE answer

(* The first write of a record gives the answer ...                        *)
LEMMA RecordGives ==
  ASSUME CallbacksInv, NEW c \in Calls, NEW r \in Reply, Record(c, r), hasStore,
         UNCHANGED <<hasStore, answer>>
  PROVE  [Answers!Next]_<<given, answer>>
<1>1. CASE store[c] = NoReply
  <2>1. store' = [store EXCEPT ![c] = r]
    BY <1>1 DEF Record
  <2>2. Answers!Give(c, r)
    BY <1>1, <2>1 DEF Answers!Give
  <2>3. QED
    BY <2>2 DEF Answers!Next
<1>2. CASE store[c] # NoReply
  BY <1>2 DEF Record, CallbacksInv, TypeOK, given
<1>3. QED
  BY <1>1, <1>2

(* ... and the first success the service accepts takes it.                 *)
LEMMA AnswerTakes ==
  ASSUME CallbacksInv, NEW d \in Deliveries, TakeAnswer(d)
  PROVE  [Answers!Next]_<<given, answer>>
<1> DEFINE c == callOf[d]
<1> USE DEF CallbacksInv, TypeOK
<1>1. c \in Calls /\ UNCHANGED <<hasStore, store>>
  BY DEF TakeAnswer, RequestsInv, receiverVars
<1>2. CASE ~Success(reply[d]) \/ outcome[c] # "pending"
  <2>1. answer' = answer
    BY <1>1, <1>2 DEF TakeAnswer
  <2>2. QED
    BY <1>1, <2>1 DEF given
<1>3. CASE Success(reply[d]) /\ outcome[c] = "pending"
  <2>1. /\ answer' = [answer EXCEPT ![c] = reply[d]]
        /\ answer[c] = NoReply
        /\ pc[d] = "answered"
        /\ reply[d] \in Reply
    BY <1>1, <1>3, NoReplyAssumption DEF TakeAnswer, RequestsInv, Success, Reply
  <2>2. CASE hasStore
    <3>1. reply[d] = store[c]
      BY <1>3, <2>1, <2>2 DEF AnswersAreTheRecord
    <3>2. Answers!Take(c)
      BY <1>1, <2>1, <2>2, <3>1 DEF Answers!Take
    <3>3. QED
      BY <1>1, <3>2 DEF Answers!Next
  <2>3. CASE ~hasStore
    <3>1. Answers!Give(c, reply[d])
      BY <1>1, <2>1, <2>3 DEF Answers!Give
    <3>2. QED
      BY <1>1, <2>1, <3>1 DEF Answers!Next
  <2>4. QED
    BY <2>2, <2>3
<1>4. QED
  BY <1>2, <1>3

(* To the service the endpoint is one answer a call, or none.              *)
THEOREM ImplementsAnswerOnce == Spec => IsAnswerOnce
<1>1. Init => Answers!Init
  BY DEF Init, Answers!Init
<1>2. CallbacksInv /\ [Next]_vars => [Answers!Next]_<<given, answer>>
  <2> SUFFICES ASSUME CallbacksInv, [Next]_vars
               PROVE  [Answers!Next]_<<given, answer>>
    OBVIOUS
  <2>1. ASSUME NEW d \in Deliveries, Put(d) PROVE [Answers!Next]_<<given, answer>>
    <3>1. callOf[d] \in Calls /\ reply[d] \in Reply /\ hasStore
      BY <2>1 DEF Put, CallbacksInv, TypeOK, RequestsInv, NoStoreInv, Inside, Success
    <3>2. QED
      BY <2>1, <3>1, RecordGives DEF Put, serviceVars, receiverVars
  <2>2. ASSUME NEW c \in Calls, NEW r \in Reply, PutStray(c, r)
        PROVE  [Answers!Next]_<<given, answer>>
    <3>1. hasStore
      BY <2>2 DEF PutStray, CallbacksInv, NoStoreInv, TypeOK
    <3>2. QED
      BY <2>2, <3>1, RecordGives DEF PutStray, serviceVars, receiverVars
  <2>3. CASE UNCHANGED <<hasStore, store, answer>>
    BY <2>3 DEF given
  <2>4. QED
    BY <2>1, <2>2, <2>3, AnswerTakes DEF Next, Handle, Deliver, TimeOut, Conclude, Settle,
       Arrive, RefuseTimestamp, Find, Found, Return, PutReturns, Raise, Cancel, Restart,
       serviceVars, receiverVars, vars
<1>3. QED
  BY <1>1, <1>2, CallbacksInvariant, PTL DEF Spec, IsAnswerOnce, Answers!Spec, given
=============================================================================
