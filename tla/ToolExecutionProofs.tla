--------------------------- MODULE ToolExecutionProofs -------------------------
(***************************************************************************)
(* The safety of the Go SDK's host tools for any calls, waiters and states: *)
(* ExecutionInv is inductive, the properties are conjuncts of it, and no   *)
(* result that was kept or taken is ever replaced.                         *)
(***************************************************************************)
EXTENDS ToolExecution, TLAPS

LEMMA InitExecution == Init => ExecutionInv
<1> SUFFICES ASSUME Init PROVE ExecutionInv
  OBVIOUS
<1> USE WaitersAssumption, MaximaAssumption
<1>1. TypeOK
  <2>1. \A w \in Waiters : (CHOOSE s \in StatesOf[w] : TRUE) \in States
    <3> SUFFICES ASSUME NEW w \in Waiters PROVE (CHOOSE s \in StatesOf[w] : TRUE) \in States
      OBVIOUS
    <3>1. StatesOf[w] \in (SUBSET States) \ {{}}
      OBVIOUS
    <3>2. StatesOf[w] # {} /\ StatesOf[w] \subseteq States
      BY <3>1
    <3>3. QED
      BY <3>2
  <2>2. state \in [Waiters -> States]
    BY <2>1 DEF Init
  <2>3. QED
    BY <2>2 DEF Init, TypeOK, View, NoView, Status, Pc
<1>2. ResultsAreKept
  BY DEF Init, ResultsAreKept
<1>3. RunsAreKnown
  BY DEF Init, RunsAreKnown, KeptOf
<1>4. OneHandlerOfACall
  BY DEF Init, OneHandlerOfACall
<1>5. OnlySubmittersHaveReplies /\ NoConflictOfOneState
  BY DEF Init, OnlySubmittersHaveReplies, NoConflictOfOneState
<1>6. QED
  BY <1>1, <1>2, <1>3, <1>4, <1>5 DEF ExecutionInv

-----------------------------------------------------------------------------
(* What the service does to the batch it takes.                            *)

LEMMA TakenBatch ==
  ASSUME TypeOK, NEW batch \in SUBSET Result, Accept(batch)
  PROVE  /\ status' \in Status /\ asked' = asked
         /\ committed' \subseteq Result /\ changes' \in Seq(SUBSET Calls)
         /\ committed \subseteq committed' /\ committed' \subseteq committed \cup batch
         /\ status = "ended" => status' = "ended"
<1> DEFINE new  == {r \in batch : r.call \notin CallsOf(committed)}
           left == asked \ CallsOf(committed \cup new)
<1>1. /\ asked' = asked /\ committed' = committed \cup new
      /\ status' = IF status = "waiting" /\ left = {} THEN "running" ELSE status
      /\ changes' = IF new = {} THEN changes ELSE Append(changes, left)
  BY DEF Accept
<1>2. new \subseteq batch /\ left \in SUBSET Calls
  BY DEF TypeOK
<1> HIDE DEF new, left
<1>3. QED
  BY <1>1, <1>2 DEF TypeOK, Status

LEMMA ParkStep ==
  ASSUME ExecutionInv, NEW S \in SUBSET Calls, Park(S)
  PROVE  ExecutionInv'
<1> USE WaitersAssumption, CallsAssumption, MaximaAssumption DEF ExecutionInv
<1>1. TypeOK'
  BY DEF TypeOK, Park, historyVars, loopVars, serviceVars, stateVars, waiterVars, View, NoView, Status, Pc, Result
<1>2. ResultsAreKept'
  BY DEF TypeOK, ResultsAreKept, OnlySubmittersHaveReplies, KeptOf, Park, historyVars, loopVars, serviceVars, stateVars, waiterVars
<1>3. RunsAreKnown'
  BY DEF TypeOK, RunsAreKnown, KeptOf, Park, historyVars, loopVars, serviceVars, stateVars, waiterVars
<1>4. OneHandlerOfACall'
  BY DEF TypeOK, OneHandlerOfACall, First, Park, historyVars, loopVars, serviceVars, stateVars, waiterVars
<1>5. OnlySubmittersHaveReplies'
  BY DEF TypeOK, OnlySubmittersHaveReplies, Park, historyVars, loopVars, serviceVars, stateVars, waiterVars
<1>6. NoConflictOfOneState'
  BY DEF TypeOK, OnlySubmittersHaveReplies, NoConflictOfOneState, Park, historyVars, loopVars, serviceVars, stateVars, waiterVars
<1>7. QED
  BY <1>1, <1>2, <1>3, <1>4, <1>5, <1>6

LEMMA EndStep ==
  ASSUME ExecutionInv, End
  PROVE  ExecutionInv'
<1> USE WaitersAssumption, CallsAssumption, MaximaAssumption DEF ExecutionInv
<1>1. TypeOK'
  BY DEF TypeOK, End, historyVars, loopVars, serviceVars, stateVars, waiterVars, View, NoView, Status, Pc, Result
<1>2. ResultsAreKept'
  BY DEF TypeOK, ResultsAreKept, OnlySubmittersHaveReplies, KeptOf, End, historyVars, loopVars, serviceVars, stateVars, waiterVars
<1>3. RunsAreKnown'
  BY DEF TypeOK, RunsAreKnown, KeptOf, End, historyVars, loopVars, serviceVars, stateVars, waiterVars
<1>4. OneHandlerOfACall'
  BY DEF TypeOK, OneHandlerOfACall, First, End, historyVars, loopVars, serviceVars, stateVars, waiterVars
<1>5. OnlySubmittersHaveReplies'
  BY DEF TypeOK, OnlySubmittersHaveReplies, End, historyVars, loopVars, serviceVars, stateVars, waiterVars
<1>6. NoConflictOfOneState'
  BY DEF TypeOK, OnlySubmittersHaveReplies, NoConflictOfOneState, End, historyVars, loopVars, serviceVars, stateVars, waiterVars
<1>7. QED
  BY <1>1, <1>2, <1>3, <1>4, <1>5, <1>6

LEMMA DeliverStep ==
  ASSUME ExecutionInv, NEW w \in Waiters, Deliver(w)
  PROVE  ExecutionInv'
<1> USE WaitersAssumption, CallsAssumption, MaximaAssumption DEF ExecutionInv
<1>1. TypeOK'
  <2>1. collected[w] \in SUBSET Result
    BY DEF TypeOK
  <2>2. CASE Accept(collected[w]) /\ reply' = [reply EXCEPT ![w] = "accepted"]
    BY <2>1, <2>2, TakenBatch DEF TypeOK, Deliver, stateVars, waiterVars, loopVars, historyVars
  <2>3. CASE UNCHANGED serviceVars /\ reply' \in [Waiters -> {"none", "accepted", "conflict", "failed"}]
    BY <2>3 DEF TypeOK, Deliver, serviceVars, stateVars, waiterVars, loopVars, historyVars
  <2>4. QED
    BY <2>2, <2>3 DEF Deliver, TypeOK
<1>2. ResultsAreKept'
  BY DEF TypeOK, ResultsAreKept, OnlySubmittersHaveReplies, KeptOf, Deliver, Accept, Changed, CallsOf, serviceVars, historyVars, loopVars, stateVars, waiterVars
<1>3. RunsAreKnown'
  BY DEF TypeOK, RunsAreKnown, KeptOf, Deliver, Accept, Changed, CallsOf, serviceVars, historyVars, loopVars, stateVars, waiterVars
<1>4. OneHandlerOfACall'
  BY DEF TypeOK, OneHandlerOfACall, First, Deliver, Accept, Changed, CallsOf, serviceVars, historyVars, loopVars, stateVars, waiterVars
<1>5. OnlySubmittersHaveReplies'
  BY DEF TypeOK, OnlySubmittersHaveReplies, Deliver, Accept, Changed, CallsOf, serviceVars, historyVars, loopVars, stateVars, waiterVars
<1>6. NoConflictOfOneState'
  <2>1. collected[w] \in SUBSET Result
    BY DEF TypeOK
  <2>2. committed \subseteq committed' /\ (status = "ended" => status' = "ended")
    BY <2>1, TakenBatch DEF Deliver, serviceVars
  <2>3. SUFFICES ASSUME NEW v \in Waiters, reply'[v] = "conflict", status' # "ended"
                 PROVE  \E r \in collected[v], q \in committed' :
                          q.call = r.call /\ q.state # state[v]
    BY DEF NoConflictOfOneState, Deliver, loopVars, waiterVars
  <2>4. CASE v # w
    <3>1. reply[v] = "conflict"
      BY <2>3, <2>4 DEF Deliver, TypeOK
    <3>2. QED
      BY <2>2, <2>3, <3>1 DEF NoConflictOfOneState
  <2>5. CASE v = w
    <3>1. PICK r \in collected[w], q \in committed : q.call = r.call /\ q # r
      <4>1. status = "ended" \/ Changed(collected[w]) # {}
        BY <2>3, <2>5 DEF Deliver, TypeOK
      <4>2. status # "ended"
        BY <2>2, <2>3
      <4>3. QED
        BY <4>1, <4>2 DEF Changed
    <3>2. state[w] \in States /\ r \in cache[state[w]] /\ q \in cache[q.state]
      BY DEF TypeOK, ResultsAreKept
    <3>3. q.state # state[w]
      BY <3>1, <3>2 DEF ResultsAreKept
    <3>4. QED
      BY <2>2, <2>5, <3>1, <3>3
  <2>6. QED
    BY <2>4, <2>5
<1>7. QED
  BY <1>1, <1>2, <1>3, <1>4, <1>5, <1>6

LEMMA DeliverStrayStep ==
  ASSUME ExecutionInv, NEW batch \in strays, DeliverStray(batch)
  PROVE  ExecutionInv'
<1> USE WaitersAssumption, CallsAssumption, MaximaAssumption DEF ExecutionInv
<1>1. TypeOK'
  <2>1. batch \in SUBSET Result
    BY DEF TypeOK
  <2>2. CASE Accept(batch)
    BY <2>1, <2>2, TakenBatch DEF TypeOK, DeliverStray, stateVars, waiterVars, loopVars, historyVars
  <2>3. CASE UNCHANGED serviceVars
    BY <2>3 DEF TypeOK, DeliverStray, serviceVars, stateVars, waiterVars, loopVars, historyVars
  <2>4. QED
    BY <2>2, <2>3 DEF DeliverStray
<1>2. ResultsAreKept'
  BY DEF TypeOK, ResultsAreKept, OnlySubmittersHaveReplies, KeptOf, DeliverStray, Accept, CallsOf, serviceVars, historyVars, loopVars, stateVars, waiterVars
<1>3. RunsAreKnown'
  BY DEF TypeOK, RunsAreKnown, KeptOf, DeliverStray, Accept, CallsOf, serviceVars, historyVars, loopVars, stateVars, waiterVars
<1>4. OneHandlerOfACall'
  BY DEF TypeOK, OneHandlerOfACall, First, DeliverStray, Accept, CallsOf, serviceVars, historyVars, loopVars, stateVars, waiterVars
<1>5. OnlySubmittersHaveReplies'
  BY DEF TypeOK, OnlySubmittersHaveReplies, DeliverStray, Accept, CallsOf, serviceVars, historyVars, loopVars, stateVars, waiterVars
<1>6. NoConflictOfOneState'
  BY DEF TypeOK, OnlySubmittersHaveReplies, NoConflictOfOneState, DeliverStray, Accept, CallsOf, serviceVars, historyVars, loopVars, stateVars, waiterVars
<1>7. QED
  BY <1>1, <1>2, <1>3, <1>4, <1>5, <1>6

LEMMA StartStep ==
  ASSUME ExecutionInv, NEW w \in Waiters, Start(w)
  PROVE  ExecutionInv'
<1> USE WaitersAssumption, CallsAssumption, MaximaAssumption DEF ExecutionInv
<1>1. TypeOK'
  <2>1. \A s \in StatesOf[w] : s \in States
    OBVIOUS
  <2>2. state' \in [Waiters -> States]
    BY <2>1 DEF TypeOK, Start
  <2>3. starts' \in [Waiters -> Nat] /\ at' \in [Waiters -> Nat] /\ pc' \in [Waiters -> Pc]
    BY DEF TypeOK, Start, Pc
  <2>4. QED
    BY <2>2, <2>3 DEF TypeOK, Start, serviceVars, stateVars, loopVars, historyVars
<1>2. ResultsAreKept'
  <2>1. collected'[w] = {} /\ \A v \in Waiters \ {w} : state'[v] = state[v]
    BY DEF TypeOK, OnlySubmittersHaveReplies, Start, loopVars
  <2>2. \A v \in Waiters : collected'[v] \subseteq cache[state'[v]]
    BY <2>1 DEF ResultsAreKept, Start, loopVars
  <2>3. QED
    BY <2>2 DEF ResultsAreKept, Start, serviceVars, stateVars, loopVars
<1>3. RunsAreKnown'
  BY DEF TypeOK, RunsAreKnown, KeptOf, Start, serviceVars, stateVars, waiterVars, loopVars, historyVars
<1>4. OneHandlerOfACall'
  BY DEF TypeOK, OneHandlerOfACall, First, Start, serviceVars, stateVars, waiterVars, loopVars, historyVars
<1>5. OnlySubmittersHaveReplies'
  BY DEF TypeOK, OnlySubmittersHaveReplies, Start, serviceVars, stateVars, waiterVars, loopVars, historyVars
<1>6. NoConflictOfOneState'
  <2>1. reply[w] = "none" /\ \A v \in Waiters \ {w} : state'[v] = state[v]
    BY DEF TypeOK, OnlySubmittersHaveReplies, Start
  <2>2. QED
    BY <2>1 DEF NoConflictOfOneState, Start, serviceVars, loopVars
<1>7. QED
  BY <1>1, <1>2, <1>3, <1>4, <1>5, <1>6

LEMMA CancelStep ==
  ASSUME ExecutionInv, NEW w \in Waiters, Cancel(w)
  PROVE  ExecutionInv'
<1> USE WaitersAssumption, CallsAssumption, MaximaAssumption DEF ExecutionInv
<1>1. TypeOK'
  BY DEF TypeOK, Cancel, serviceVars, stateVars, waiterVars, loopVars, historyVars, View, NoView, Status, Pc, Result
<1>2. ResultsAreKept'
  BY DEF TypeOK, ResultsAreKept, OnlySubmittersHaveReplies, KeptOf, Cancel, serviceVars, stateVars, waiterVars, loopVars, historyVars
<1>3. RunsAreKnown'
  BY DEF TypeOK, RunsAreKnown, KeptOf, Cancel, serviceVars, stateVars, waiterVars, loopVars, historyVars
<1>4. OneHandlerOfACall'
  BY DEF TypeOK, OneHandlerOfACall, First, Cancel, serviceVars, stateVars, waiterVars, loopVars, historyVars
<1>5. OnlySubmittersHaveReplies'
  BY DEF TypeOK, OnlySubmittersHaveReplies, Cancel, serviceVars, stateVars, waiterVars, loopVars, historyVars
<1>6. NoConflictOfOneState'
  BY DEF TypeOK, OnlySubmittersHaveReplies, NoConflictOfOneState, Cancel, serviceVars, stateVars, waiterVars, loopVars, historyVars
<1>7. QED
  BY <1>1, <1>2, <1>3, <1>4, <1>5, <1>6

LEMMA AnswerStep ==
  ASSUME ExecutionInv, NEW w \in Waiters, Answer(w)
  PROVE  ExecutionInv'
<1> USE WaitersAssumption, CallsAssumption, MaximaAssumption DEF ExecutionInv
<1>1. TypeOK'
  BY DEF TypeOK, Answer, Open, serviceVars, stateVars, waiterVars, loopVars, historyVars, View, NoView, Status, Pc, Result
<1>2. ResultsAreKept'
  BY DEF TypeOK, ResultsAreKept, OnlySubmittersHaveReplies, KeptOf, Answer, Open, serviceVars, stateVars, waiterVars, loopVars, historyVars
<1>3. RunsAreKnown'
  BY DEF TypeOK, RunsAreKnown, KeptOf, Answer, Open, serviceVars, stateVars, waiterVars, loopVars, historyVars
<1>4. OneHandlerOfACall'
  BY DEF TypeOK, OneHandlerOfACall, First, Answer, Open, serviceVars, stateVars, waiterVars, loopVars, historyVars
<1>5. OnlySubmittersHaveReplies'
  BY DEF TypeOK, OnlySubmittersHaveReplies, Answer, Open, serviceVars, stateVars, waiterVars, loopVars, historyVars
<1>6. NoConflictOfOneState'
  BY DEF TypeOK, OnlySubmittersHaveReplies, NoConflictOfOneState, Answer, Open, serviceVars, stateVars, waiterVars, loopVars, historyVars
<1>7. QED
  BY <1>1, <1>2, <1>3, <1>4, <1>5, <1>6

LEMMA AnswerFailsStep ==
  ASSUME ExecutionInv, NEW w \in Waiters, AnswerFails(w)
  PROVE  ExecutionInv'
<1> USE WaitersAssumption, CallsAssumption, MaximaAssumption DEF ExecutionInv
<1>1. TypeOK'
  BY DEF TypeOK, AnswerFails, Goes, serviceVars, stateVars, waiterVars, loopVars, historyVars, View, NoView, Status, Pc, Result
<1>2. ResultsAreKept'
  BY DEF TypeOK, ResultsAreKept, OnlySubmittersHaveReplies, KeptOf, AnswerFails, Goes, serviceVars, stateVars, waiterVars, loopVars, historyVars
<1>3. RunsAreKnown'
  BY DEF TypeOK, RunsAreKnown, KeptOf, AnswerFails, Goes, serviceVars, stateVars, waiterVars, loopVars, historyVars
<1>4. OneHandlerOfACall'
  BY DEF TypeOK, OneHandlerOfACall, First, AnswerFails, Goes, serviceVars, stateVars, waiterVars, loopVars, historyVars
<1>5. OnlySubmittersHaveReplies'
  BY DEF TypeOK, OnlySubmittersHaveReplies, AnswerFails, Goes, serviceVars, stateVars, waiterVars, loopVars, historyVars
<1>6. NoConflictOfOneState'
  BY DEF TypeOK, OnlySubmittersHaveReplies, NoConflictOfOneState, AnswerFails, Goes, serviceVars, stateVars, waiterVars, loopVars, historyVars
<1>7. QED
  BY <1>1, <1>2, <1>3, <1>4, <1>5, <1>6

LEMMA ReadStep ==
  ASSUME ExecutionInv, NEW w \in Waiters, Read(w)
  PROVE  ExecutionInv'
<1> USE WaitersAssumption, CallsAssumption, MaximaAssumption DEF ExecutionInv
<1>1. TypeOK'
  BY DEF TypeOK, Read, Settle, serviceVars, stateVars, waiterVars, loopVars, historyVars, View, NoView, Status, Pc, Result
<1>2. ResultsAreKept'
  BY DEF TypeOK, ResultsAreKept, OnlySubmittersHaveReplies, KeptOf, Read, Settle, serviceVars, stateVars, waiterVars, loopVars, historyVars
<1>3. RunsAreKnown'
  BY DEF TypeOK, RunsAreKnown, KeptOf, Read, Settle, serviceVars, stateVars, waiterVars, loopVars, historyVars
<1>4. OneHandlerOfACall'
  BY DEF TypeOK, OneHandlerOfACall, First, Read, Settle, serviceVars, stateVars, waiterVars, loopVars, historyVars
<1>5. OnlySubmittersHaveReplies'
  BY DEF TypeOK, OnlySubmittersHaveReplies, Read, Settle, serviceVars, stateVars, waiterVars, loopVars, historyVars
<1>6. NoConflictOfOneState'
  BY DEF TypeOK, OnlySubmittersHaveReplies, NoConflictOfOneState, Read, Settle, serviceVars, stateVars, waiterVars, loopVars, historyVars
<1>7. QED
  BY <1>1, <1>2, <1>3, <1>4, <1>5, <1>6

LEMMA WakeStep ==
  ASSUME ExecutionInv, NEW w \in Waiters, Wake(w)
  PROVE  ExecutionInv'
<1> USE WaitersAssumption, CallsAssumption, MaximaAssumption DEF ExecutionInv
<1>1. TypeOK'
  BY DEF TypeOK, Wake, serviceVars, stateVars, waiterVars, loopVars, historyVars, View, NoView, Status, Pc, Result
<1>2. ResultsAreKept'
  BY DEF TypeOK, ResultsAreKept, OnlySubmittersHaveReplies, KeptOf, Wake, serviceVars, stateVars, waiterVars, loopVars, historyVars
<1>3. RunsAreKnown'
  BY DEF TypeOK, RunsAreKnown, KeptOf, Wake, serviceVars, stateVars, waiterVars, loopVars, historyVars
<1>4. OneHandlerOfACall'
  BY DEF TypeOK, OneHandlerOfACall, First, Wake, serviceVars, stateVars, waiterVars, loopVars, historyVars
<1>5. OnlySubmittersHaveReplies'
  BY DEF TypeOK, OnlySubmittersHaveReplies, Wake, serviceVars, stateVars, waiterVars, loopVars, historyVars
<1>6. NoConflictOfOneState'
  BY DEF TypeOK, OnlySubmittersHaveReplies, NoConflictOfOneState, Wake, serviceVars, stateVars, waiterVars, loopVars, historyVars
<1>7. QED
  BY <1>1, <1>2, <1>3, <1>4, <1>5, <1>6

LEMMA ReceiveStep ==
  ASSUME ExecutionInv, NEW w \in Waiters, Receive(w)
  PROVE  ExecutionInv'
<1> USE WaitersAssumption, CallsAssumption, MaximaAssumption DEF ExecutionInv
<1>1. TypeOK'
  BY DEF TypeOK, Receive, Settle, serviceVars, stateVars, waiterVars, loopVars, historyVars, View, NoView, Status, Pc, Result
<1>2. ResultsAreKept'
  BY DEF TypeOK, ResultsAreKept, OnlySubmittersHaveReplies, KeptOf, Receive, Settle, serviceVars, stateVars, waiterVars, loopVars, historyVars
<1>3. RunsAreKnown'
  BY DEF TypeOK, RunsAreKnown, KeptOf, Receive, Settle, serviceVars, stateVars, waiterVars, loopVars, historyVars
<1>4. OneHandlerOfACall'
  BY DEF TypeOK, OneHandlerOfACall, First, Receive, Settle, serviceVars, stateVars, waiterVars, loopVars, historyVars
<1>5. OnlySubmittersHaveReplies'
  BY DEF TypeOK, OnlySubmittersHaveReplies, Receive, Settle, serviceVars, stateVars, waiterVars, loopVars, historyVars
<1>6. NoConflictOfOneState'
  BY DEF TypeOK, OnlySubmittersHaveReplies, NoConflictOfOneState, Receive, Settle, serviceVars, stateVars, waiterVars, loopVars, historyVars
<1>7. QED
  BY <1>1, <1>2, <1>3, <1>4, <1>5, <1>6

LEMMA StopFollowingStep ==
  ASSUME ExecutionInv, NEW w \in Waiters, StopFollowing(w)
  PROVE  ExecutionInv'
<1> USE WaitersAssumption, CallsAssumption, MaximaAssumption DEF ExecutionInv
<1>1. TypeOK'
  BY DEF TypeOK, StopFollowing, Goes, serviceVars, stateVars, waiterVars, loopVars, historyVars, View, NoView, Status, Pc, Result
<1>2. ResultsAreKept'
  BY DEF TypeOK, ResultsAreKept, OnlySubmittersHaveReplies, KeptOf, StopFollowing, Goes, serviceVars, stateVars, waiterVars, loopVars, historyVars
<1>3. RunsAreKnown'
  BY DEF TypeOK, RunsAreKnown, KeptOf, StopFollowing, Goes, serviceVars, stateVars, waiterVars, loopVars, historyVars
<1>4. OneHandlerOfACall'
  BY DEF TypeOK, OneHandlerOfACall, First, StopFollowing, Goes, serviceVars, stateVars, waiterVars, loopVars, historyVars
<1>5. OnlySubmittersHaveReplies'
  BY DEF TypeOK, OnlySubmittersHaveReplies, StopFollowing, Goes, serviceVars, stateVars, waiterVars, loopVars, historyVars
<1>6. NoConflictOfOneState'
  BY DEF TypeOK, OnlySubmittersHaveReplies, NoConflictOfOneState, StopFollowing, Goes, serviceVars, stateVars, waiterVars, loopVars, historyVars
<1>7. QED
  BY <1>1, <1>2, <1>3, <1>4, <1>5, <1>6

LEMMA FromCacheStep ==
  ASSUME ExecutionInv, NEW w \in Waiters, NEW c \in Calls, FromCache(w, c)
  PROVE  ExecutionInv'
<1> USE WaitersAssumption, CallsAssumption, MaximaAssumption DEF ExecutionInv
<1>1. TypeOK'
  <2>1. PICK r \in KeptOf(state[w], c) : Take(w, r)
    BY DEF FromCache
  <2>2. r \in Result
    BY <2>1 DEF TypeOK, KeptOf
  <2>3. todo' \in [Waiters -> SUBSET Calls] /\ collected' \in [Waiters -> SUBSET Result]
    BY <2>1, <2>2 DEF TypeOK, Take
  <2>4. QED
    BY <2>3 DEF TypeOK, FromCache, serviceVars, stateVars, waiterVars, historyVars
<1>2. ResultsAreKept'
  BY DEF TypeOK, ResultsAreKept, OnlySubmittersHaveReplies, KeptOf, FromCache, Take, NextCall, serviceVars, stateVars, waiterVars, loopVars, historyVars
<1>3. RunsAreKnown'
  BY DEF TypeOK, RunsAreKnown, KeptOf, FromCache, Take, NextCall, serviceVars, stateVars, waiterVars, loopVars, historyVars
<1>4. OneHandlerOfACall'
  BY DEF TypeOK, OneHandlerOfACall, First, FromCache, Take, NextCall, serviceVars, stateVars, waiterVars, loopVars, historyVars
<1>5. OnlySubmittersHaveReplies'
  BY DEF TypeOK, OnlySubmittersHaveReplies, FromCache, Take, NextCall, serviceVars, stateVars, waiterVars, loopVars, historyVars
<1>6. NoConflictOfOneState'
  <2>1. reply[w] = "none" /\ \A v \in Waiters \ {w} : collected'[v] = collected[v]
    BY DEF TypeOK, OnlySubmittersHaveReplies, FromCache, NextCall, Take
  <2>2. QED
    BY <2>1 DEF NoConflictOfOneState, FromCache, serviceVars, waiterVars
<1>7. QED
  BY <1>1, <1>2, <1>3, <1>4, <1>5, <1>6

LEMMA CallHandlerStep ==
  ASSUME ExecutionInv, NEW w \in Waiters, NEW c \in Calls, CallHandler(w, c)
  PROVE  ExecutionInv'
<1> USE WaitersAssumption, CallsAssumption, MaximaAssumption DEF ExecutionInv
<1>1. TypeOK'
  <2> DEFINE s == state[w]
  <2>1. s \in States /\ runs[s] \in [Calls -> 0 .. MaxRuns] /\ runs[s][c] \in 0 .. MaxRuns
        /\ runs[s][c] < MaxRuns
    BY DEF TypeOK, CallHandler, Called
  <2>2. runs[s][c] + 1 \in 0 .. MaxRuns
    BY <2>1
  <2>3. [runs[s] EXCEPT ![c] = runs[s][c] + 1] \in [Calls -> 0 .. MaxRuns]
    BY <2>1, <2>2
  <2>4. runs' = [runs EXCEPT ![s] = [runs[s] EXCEPT ![c] = runs[s][c] + 1]]
    <3>1. runs' = [runs EXCEPT ![state[w]][c] = @ + 1]
      BY DEF CallHandler, Called
    <3>2. QED
      BY <2>1, <3>1 DEF TypeOK
  <2>5. runs' \in [States -> [Calls -> 0 .. MaxRuns]]
    BY <2>1, <2>3, <2>4 DEF TypeOK
  <2>6. running' \in [States -> SUBSET Calls] /\ pc' \in [Waiters -> Pc]
    BY <2>1 DEF TypeOK, CallHandler, Called, Pc
  <2>7. QED
    BY <2>5, <2>6 DEF TypeOK, CallHandler, Called, serviceVars, waiterVars, loopVars
<1>2. ResultsAreKept'
  BY DEF TypeOK, ResultsAreKept, OnlySubmittersHaveReplies, KeptOf, CallHandler, Called, NextCall, serviceVars, stateVars, waiterVars, loopVars, historyVars
<1>3. RunsAreKnown'
  <2> DEFINE s == state[w]
  <2>1. s \in States /\ KeptOf(s, c) = {} /\ c \notin running[s] /\ runs[s][c] = 0
    BY DEF TypeOK, CallHandler, Called, RunsAreKnown
  <2>2. cache' = cache
    BY DEF CallHandler, Called
  <2>3. running'[s] = running[s] \cup {c}
        /\ \A t \in States \ {s} : running'[t] = running[t] /\ runs'[t] = runs[t]
    BY <2>1 DEF TypeOK, CallHandler, Called
  <2>4. runs'[s][c] = 1 /\ \A d \in Calls \ {c} : runs'[s][d] = runs[s][d]
    <3>1. runs' = [runs EXCEPT ![state[w]][c] = @ + 1]
      BY DEF CallHandler, Called
    <3>2. runs[s] \in [Calls -> 0 .. MaxRuns] /\ runs \in [States -> [Calls -> 0 .. MaxRuns]]
      BY <2>1 DEF TypeOK
    <3>3. runs'[s] = [runs[s] EXCEPT ![c] = runs[s][c] + 1]
      BY <2>1, <3>1, <3>2
    <3>4. QED
      BY <2>1, <3>2, <3>3
  <2>5. QED
    BY <2>1, <2>2, <2>3, <2>4 DEF RunsAreKnown, KeptOf
<1>4. OneHandlerOfACall'
  BY DEF TypeOK, OneHandlerOfACall, First, CallHandler, Called, NextCall, serviceVars, stateVars, waiterVars, loopVars, historyVars
<1>5. OnlySubmittersHaveReplies'
  BY DEF TypeOK, OnlySubmittersHaveReplies, CallHandler, Called, NextCall, serviceVars, stateVars, waiterVars, loopVars, historyVars
<1>6. NoConflictOfOneState'
  BY DEF TypeOK, OnlySubmittersHaveReplies, NoConflictOfOneState, CallHandler, Called, NextCall, serviceVars, stateVars, waiterVars, loopVars, historyVars
<1>7. QED
  BY <1>1, <1>2, <1>3, <1>4, <1>5, <1>6

LEMMA GiveUpStep ==
  ASSUME ExecutionInv, NEW w \in Waiters, NEW c \in Calls, GiveUp(w, c)
  PROVE  ExecutionInv'
<1> USE WaitersAssumption, CallsAssumption, MaximaAssumption DEF ExecutionInv
<1>1. TypeOK'
  BY DEF TypeOK, GiveUp, Goes, NextCall, serviceVars, stateVars, waiterVars, loopVars, historyVars, View, NoView, Status, Pc, Result
<1>2. ResultsAreKept'
  BY DEF TypeOK, ResultsAreKept, OnlySubmittersHaveReplies, KeptOf, GiveUp, Goes, NextCall, serviceVars, stateVars, waiterVars, loopVars, historyVars
<1>3. RunsAreKnown'
  BY DEF TypeOK, RunsAreKnown, KeptOf, GiveUp, Goes, NextCall, serviceVars, stateVars, waiterVars, loopVars, historyVars
<1>4. OneHandlerOfACall'
  BY DEF TypeOK, OneHandlerOfACall, First, GiveUp, Goes, NextCall, serviceVars, stateVars, waiterVars, loopVars, historyVars
<1>5. OnlySubmittersHaveReplies'
  BY DEF TypeOK, OnlySubmittersHaveReplies, GiveUp, Goes, NextCall, serviceVars, stateVars, waiterVars, loopVars, historyVars
<1>6. NoConflictOfOneState'
  BY DEF TypeOK, OnlySubmittersHaveReplies, NoConflictOfOneState, GiveUp, Goes, NextCall, serviceVars, stateVars, waiterVars, loopVars, historyVars
<1>7. QED
  BY <1>1, <1>2, <1>3, <1>4, <1>5, <1>6

-----------------------------------------------------------------------------
(* A handler that returns is the only one of its call, and the first.      *)

LEMMA ReturnedResult ==
  ASSUME ExecutionInv, NEW w \in Waiters, NEW cut \in BOOLEAN, HandlerReturns(w, cut)
  PROVE  \E c \in Calls, r \in Result :
           /\ r.call = c /\ r.state = state[w]
           /\ First(w, c) /\ c \in running[state[w]]
           /\ KeptOf(state[w], c) = {} /\ runs[state[w]][c] = 1
           /\ cache' = [cache EXCEPT ![state[w]] = cache[state[w]] \cup {r}]
           /\ running' = [running EXCEPT ![state[w]] = running[state[w]] \ {c}]
           /\ Take(w, r)
<1> USE DEF ExecutionInv
<1> DEFINE s == state[w]
           Of(c) == [call |-> c, state |-> s, run |-> runs[s][c], cut |-> cut]
<1>1. PICK c \in Calls : First(w, c) /\ Over(s, Of(c)) /\ Take(w, Of(c))
  BY DEF HandlerReturns
<1>2. Of(c).call = c /\ Of(c).state = s
  OBVIOUS
<1>3. pc[w] = "handling" /\ s \in States
  BY DEF HandlerReturns, TypeOK
<1>4. c \in running[s]
  BY <1>1, <1>3 DEF OneHandlerOfACall
<1>5. KeptOf(s, c) = {} /\ runs[s][c] = 1
  BY <1>3, <1>4 DEF RunsAreKnown
<1>6. runs[s][c] \in 1 .. MaxRuns
  <2>1. runs[s][c] \in 0 .. MaxRuns
    BY <1>3 DEF TypeOK
  <2>2. QED
    BY <1>5, <2>1, MaximaAssumption
<1>7. Of(c) \in Result
  BY <1>3, <1>6 DEF Result
<1>8. cache' = [cache EXCEPT ![s] = cache[s] \cup {Of(c)}]
      /\ running' = [running EXCEPT ![s] = running[s] \ {c}]
  <2> HIDE DEF Of
  <2>1. KeptOf(s, Of(c).call) = {}
    BY <1>2, <1>5
  <2>2. QED
    BY <1>1, <1>2, <2>1 DEF Over, Keep
<1> HIDE DEF Of
<1>9. QED
  BY <1>1, <1>2, <1>4, <1>5, <1>7, <1>8

LEMMA HandlerReturnsStep ==
  ASSUME ExecutionInv, NEW w \in Waiters, NEW cut \in BOOLEAN, HandlerReturns(w, cut)
  PROVE  ExecutionInv'
<1> USE WaitersAssumption, CallsAssumption, MaximaAssumption DEF ExecutionInv
<1>0. PICK c \in Calls, r \in Result :
        /\ r.call = c /\ r.state = state[w]
        /\ First(w, c) /\ c \in running[state[w]]
        /\ KeptOf(state[w], c) = {} /\ runs[state[w]][c] = 1
        /\ cache' = [cache EXCEPT ![state[w]] = cache[state[w]] \cup {r}]
        /\ running' = [running EXCEPT ![state[w]] = running[state[w]] \ {c}]
        /\ Take(w, r)
  BY ReturnedResult
<1>1. TypeOK'
  <2>1. cache' \in [States -> SUBSET Result] /\ running' \in [States -> SUBSET Calls]
    BY <1>0 DEF TypeOK
  <2>2. todo' \in [Waiters -> SUBSET Calls] /\ collected' \in [Waiters -> SUBSET Result]
    BY <1>0 DEF TypeOK, Take
  <2>3. pc' \in [Waiters -> Pc]
    BY DEF TypeOK, HandlerReturns, Pc
  <2>4. QED
    BY <2>1, <2>2, <2>3 DEF TypeOK, HandlerReturns, serviceVars, waiterVars, historyVars
<1>2. ResultsAreKept'
  <2>1. state[w] \in States /\ \A s \in States : cache[s] \subseteq cache'[s]
    BY <1>0 DEF TypeOK
  <2>2. \A s \in States : \A p, q \in cache'[s] : p.state = s /\ (p.call = q.call => p = q)
    <3>1. cache'[state[w]] = cache[state[w]] \cup {r}
          /\ \A s \in States \ {state[w]} : cache'[s] = cache[s]
      BY <1>0, <2>1 DEF TypeOK
    <3>2. \A q \in cache[state[w]] : q.call # c
      BY <1>0 DEF KeptOf
    <3>3. QED
      BY <1>0, <3>1, <3>2 DEF ResultsAreKept
  <2>3. \A v \in Waiters : collected'[v] \subseteq cache'[state[v]]
    <3> SUFFICES ASSUME NEW v \in Waiters PROVE collected'[v] \subseteq cache'[state[v]]
      OBVIOUS
    <3>1. state[v] \in States /\ collected[v] \subseteq cache'[state[v]]
      BY <2>1 DEF TypeOK, ResultsAreKept
    <3>2. r \in cache'[state[w]]
      BY <1>0, <2>1 DEF TypeOK
    <3>3. collected'[v] = collected[v] \/ (v = w /\ collected'[v] = collected[v] \cup {r})
      BY <1>0 DEF TypeOK, Take
    <3>4. QED
      BY <3>1, <3>2, <3>3
  <2>4. committed \subseteq Result /\ \A batch \in strays : batch \subseteq Result
    BY DEF TypeOK
  <2>5. \A q \in Result : q.state \in States
    BY DEF Result
  <2>6. committed' = committed /\ strays' = strays /\ state' = state
    BY DEF HandlerReturns, serviceVars, waiterVars
  <2>7. /\ \A q \in committed : q \in cache'[q.state]
        /\ \A batch \in strays : \A q \in batch : q \in cache'[q.state]
    BY <2>1, <2>4, <2>5 DEF ResultsAreKept
  <2>8. QED
    BY <2>2, <2>3, <2>6, <2>7 DEF ResultsAreKept
<1>3. RunsAreKnown'
  <2>1. state[w] \in States /\ runs' = runs
    BY DEF TypeOK, HandlerReturns, historyVars
  <2>2. cache'[state[w]] = cache[state[w]] \cup {r} /\ running'[state[w]] = running[state[w]] \ {c}
        /\ \A s \in States \ {state[w]} : cache'[s] = cache[s] /\ running'[s] = running[s]
    BY <1>0, <2>1 DEF TypeOK
  <2>3. QED
    BY <1>0, <2>1, <2>2 DEF RunsAreKnown, KeptOf
<1>4. OneHandlerOfACall'
  <2>1. pc' = [pc EXCEPT ![w] = "resolving"] /\ state' = state
    BY DEF HandlerReturns, waiterVars
  <2>2. SUFFICES ASSUME NEW v \in Waiters, NEW d \in Calls, pc'[v] = "handling", First(v, d)'
                 PROVE  /\ d \in running'[state[v]]
                        /\ \A u \in Waiters :
                             pc'[u] = "handling" /\ First(u, d)' /\ state[u] = state[v] => u = v
    BY <2>1 DEF OneHandlerOfACall
  <2>3. \A u \in Waiters : pc'[u] = "handling" =>
          u # w /\ pc[u] = "handling" /\ \A e \in Calls : First(u, e)' => First(u, e)
    BY <1>0, <2>1 DEF TypeOK, Take, First
  <2>4. v # w /\ pc[v] = "handling" /\ First(v, d)
    BY <2>2, <2>3
  <2>5. pc[w] = "handling"
    BY DEF HandlerReturns
  <2>6. d \in running[state[v]] /\ (state[v] = state[w] => d # c)
    BY <1>0, <2>4, <2>5 DEF OneHandlerOfACall
  <2>7. d \in running'[state[v]]
    BY <1>0, <2>6 DEF TypeOK
  <2>8. QED
    BY <2>3, <2>4, <2>7 DEF OneHandlerOfACall
<1>5. OnlySubmittersHaveReplies'
  BY DEF TypeOK, OnlySubmittersHaveReplies, HandlerReturns, Over, Keep, Take, serviceVars, stateVars, waiterVars, loopVars, historyVars
<1>6. NoConflictOfOneState'
  <2>1. reply[w] = "none" /\ \A v \in Waiters \ {w} : collected'[v] = collected[v]
    BY <1>0 DEF TypeOK, OnlySubmittersHaveReplies, HandlerReturns, Take
  <2>2. QED
    BY <2>1 DEF NoConflictOfOneState, HandlerReturns, serviceVars, waiterVars
<1>7. QED
  BY <1>1, <1>2, <1>3, <1>4, <1>5, <1>6

LEMMA HandlerPanicsStep ==
  ASSUME ExecutionInv, NEW w \in Waiters, HandlerPanics(w)
  PROVE  ExecutionInv'
<1> USE WaitersAssumption, CallsAssumption, MaximaAssumption DEF ExecutionInv
<1>1. TypeOK'
  BY DEF TypeOK, HandlerPanics, Goes, serviceVars, stateVars, waiterVars, loopVars, historyVars, View, NoView, Status, Pc, Result
<1>2. ResultsAreKept'
  BY DEF TypeOK, ResultsAreKept, OnlySubmittersHaveReplies, KeptOf, HandlerPanics, Goes, serviceVars, stateVars, waiterVars, loopVars, historyVars
<1>3. RunsAreKnown'
  BY DEF TypeOK, RunsAreKnown, KeptOf, HandlerPanics, Goes, serviceVars, stateVars, waiterVars, loopVars, historyVars
<1>4. OneHandlerOfACall'
  BY DEF TypeOK, OneHandlerOfACall, First, HandlerPanics, Goes, serviceVars, stateVars, waiterVars, loopVars, historyVars
<1>5. OnlySubmittersHaveReplies'
  BY DEF TypeOK, OnlySubmittersHaveReplies, HandlerPanics, Goes, serviceVars, stateVars, waiterVars, loopVars, historyVars
<1>6. NoConflictOfOneState'
  BY DEF TypeOK, OnlySubmittersHaveReplies, NoConflictOfOneState, HandlerPanics, Goes, serviceVars, stateVars, waiterVars, loopVars, historyVars
<1>7. QED
  BY <1>1, <1>2, <1>3, <1>4, <1>5, <1>6

LEMMA SubmitStep ==
  ASSUME ExecutionInv, NEW w \in Waiters, Submit(w)
  PROVE  ExecutionInv'
<1> USE WaitersAssumption, CallsAssumption, MaximaAssumption DEF ExecutionInv
<1>1. TypeOK'
  <2>1. CASE Goes(w, "stopped")
    BY <2>1 DEF TypeOK, Pc, Submit, Goes, serviceVars, stateVars, waiterVars, loopVars, historyVars
  <2>2. CASE pc' = [pc EXCEPT ![w] = "submitting"] /\ UNCHANGED <<loopVars, reply>>
    BY <2>2 DEF TypeOK, Pc, Submit, serviceVars, stateVars, waiterVars, loopVars, historyVars
  <2>3. QED
    BY <2>1, <2>2 DEF Submit
<1>2. ResultsAreKept'
  <2>1. CASE Goes(w, "stopped")
    BY <2>1 DEF TypeOK, ResultsAreKept, Submit, Goes, serviceVars, stateVars, waiterVars, loopVars, historyVars
  <2>2. CASE pc' = [pc EXCEPT ![w] = "submitting"] /\ UNCHANGED <<loopVars, reply>>
    BY <2>2 DEF TypeOK, ResultsAreKept, Submit, serviceVars, stateVars, waiterVars, loopVars, historyVars
  <2>3. QED
    BY <2>1, <2>2 DEF Submit
<1>3. RunsAreKnown'
  BY DEF TypeOK, RunsAreKnown, KeptOf, Submit, Goes, serviceVars, stateVars, waiterVars, loopVars, historyVars
<1>4. OneHandlerOfACall'
  <2>1. CASE Goes(w, "stopped")
    BY <2>1 DEF TypeOK, OneHandlerOfACall, First, Submit, Goes, serviceVars, stateVars, waiterVars, loopVars, historyVars
  <2>2. CASE pc' = [pc EXCEPT ![w] = "submitting"] /\ UNCHANGED <<loopVars, reply>>
    BY <2>2 DEF TypeOK, OneHandlerOfACall, First, Submit, serviceVars, stateVars, waiterVars, loopVars, historyVars
  <2>3. QED
    BY <2>1, <2>2 DEF Submit
<1>5. OnlySubmittersHaveReplies'
  BY DEF TypeOK, OnlySubmittersHaveReplies, Submit, Goes, serviceVars, stateVars, waiterVars, loopVars, historyVars
<1>6. NoConflictOfOneState'
  <2>1. CASE Goes(w, "stopped")
    BY <2>1 DEF TypeOK, OnlySubmittersHaveReplies, NoConflictOfOneState, Submit, Goes, serviceVars, stateVars, waiterVars, loopVars, historyVars
  <2>2. CASE pc' = [pc EXCEPT ![w] = "submitting"] /\ UNCHANGED <<loopVars, reply>>
    BY <2>2 DEF TypeOK, OnlySubmittersHaveReplies, NoConflictOfOneState, Submit, serviceVars, stateVars, waiterVars, loopVars, historyVars
  <2>3. QED
    BY <2>1, <2>2 DEF Submit
<1>7. QED
  BY <1>1, <1>2, <1>3, <1>4, <1>5, <1>6

LEMMA SubmittedStep ==
  ASSUME ExecutionInv, NEW w \in Waiters, Submitted(w)
  PROVE  ExecutionInv'
<1> USE WaitersAssumption, CallsAssumption, MaximaAssumption DEF ExecutionInv
<1>1. TypeOK'
  BY DEF TypeOK, Submitted, Goes, serviceVars, stateVars, waiterVars, loopVars, historyVars, View, NoView, Status, Pc, Result
<1>2. ResultsAreKept'
  BY DEF TypeOK, ResultsAreKept, OnlySubmittersHaveReplies, KeptOf, Submitted, Goes, serviceVars, stateVars, waiterVars, loopVars, historyVars
<1>3. RunsAreKnown'
  BY DEF TypeOK, RunsAreKnown, KeptOf, Submitted, Goes, serviceVars, stateVars, waiterVars, loopVars, historyVars
<1>4. OneHandlerOfACall'
  BY DEF TypeOK, OneHandlerOfACall, First, Submitted, Goes, serviceVars, stateVars, waiterVars, loopVars, historyVars
<1>5. OnlySubmittersHaveReplies'
  BY DEF TypeOK, OnlySubmittersHaveReplies, Submitted, Goes, serviceVars, stateVars, waiterVars, loopVars, historyVars
<1>6. NoConflictOfOneState'
  BY DEF TypeOK, OnlySubmittersHaveReplies, NoConflictOfOneState, Submitted, Goes, serviceVars, stateVars, waiterVars, loopVars, historyVars
<1>7. QED
  BY <1>1, <1>2, <1>3, <1>4, <1>5, <1>6

LEMMA SubmissionFailsStep ==
  ASSUME ExecutionInv, NEW w \in Waiters, SubmissionFails(w)
  PROVE  ExecutionInv'
<1> USE WaitersAssumption, CallsAssumption, MaximaAssumption DEF ExecutionInv
<1>1. TypeOK'
  <2>1. strays' \subseteq SUBSET Result
    <3>1. collected[w] \in SUBSET Result /\ strays \subseteq SUBSET Result
      BY DEF TypeOK
    <3>2. strays' = strays \cup {collected[w]} \/ strays' = strays
      BY DEF SubmissionFails
    <3>3. QED
      BY <3>1, <3>2
  <2>2. Goes(w, "stopped")
    BY DEF SubmissionFails
  <2>3. QED
    BY <2>1, <2>2 DEF TypeOK, SubmissionFails, Goes, Pc, serviceVars, stateVars, waiterVars,
       historyVars
<1>2. ResultsAreKept'
  <2>1. state[w] \in States /\ \A r \in collected[w] : r \in cache[r.state]
    BY DEF TypeOK, ResultsAreKept
  <2>2. \A batch \in strays' : \A r \in batch : r \in cache[r.state]
    BY <2>1 DEF SubmissionFails, ResultsAreKept
  <2>3. collected' = [collected EXCEPT ![w] = {}]
    BY DEF SubmissionFails, Goes
  <2>4. QED
    BY <2>2, <2>3 DEF TypeOK, ResultsAreKept, SubmissionFails, serviceVars, stateVars, waiterVars
<1>3. RunsAreKnown'
  BY DEF TypeOK, RunsAreKnown, KeptOf, SubmissionFails, Goes, serviceVars, stateVars, waiterVars, loopVars, historyVars
<1>4. OneHandlerOfACall'
  BY DEF TypeOK, OneHandlerOfACall, First, SubmissionFails, Goes, serviceVars, stateVars, waiterVars, loopVars, historyVars
<1>5. OnlySubmittersHaveReplies'
  BY DEF TypeOK, OnlySubmittersHaveReplies, SubmissionFails, Goes, serviceVars, stateVars, waiterVars, loopVars, historyVars
<1>6. NoConflictOfOneState'
  BY DEF TypeOK, OnlySubmittersHaveReplies, NoConflictOfOneState, SubmissionFails, Goes, serviceVars, stateVars, waiterVars, loopVars, historyVars
<1>7. QED
  BY <1>1, <1>2, <1>3, <1>4, <1>5, <1>6

LEMMA StepOfExecution == ExecutionInv /\ [Next]_vars => ExecutionInv'
<1> SUFFICES ASSUME ExecutionInv, [Next]_vars PROVE ExecutionInv'
  OBVIOUS
<1>1. CASE Service
  BY <1>1, ParkStep, EndStep, DeliverStep, DeliverStrayStep DEF Service
<1>2. ASSUME NEW w \in Waiters, Goroutine(w) PROVE ExecutionInv'
  BY <1>2, AnswerStep, ReadStep, WakeStep, ReceiveStep, StopFollowingStep,
     FromCacheStep, CallHandlerStep, GiveUpStep, HandlerReturnsStep, SubmitStep,
     SubmittedStep DEF Goroutine
<1>3. ASSUME NEW w \in Waiters, Mishap(w) PROVE ExecutionInv'
  BY <1>3, CancelStep, AnswerFailsStep, SubmissionFailsStep, HandlerPanicsStep,
     HandlerReturnsStep DEF Mishap
<1>4. CASE UNCHANGED vars
  BY <1>4 DEF vars, serviceVars, stateVars, waiterVars, loopVars, historyVars,
     ExecutionInv, TypeOK, ResultsAreKept, RunsAreKnown, KeptOf, OneHandlerOfACall,
     First, OnlySubmittersHaveReplies, NoConflictOfOneState
<1>5. QED
  BY <1>1, <1>2, <1>3, <1>4, StartStep DEF Next

(* ExecutionInv holds in every state: the results of a state are never     *)
(* replaced, and whatever was collected, submitted or taken is among them. *)
THEOREM ExecutionInvariant == Spec => []ExecutionInv
<1>1. QED
  BY InitExecution, StepOfExecution, PTL DEF Spec

(* One state calls the handler of a call once, whoever waits for it and    *)
(* whichever waits are cancelled.                                          *)
THEOREM HandlersRunOnce == Spec => []HandlerRunsOnce
<1>1. ExecutionInv => HandlerRunsOnce
  BY DEF ExecutionInv, RunsAreKnown, HandlerRunsOnce
<1>2. QED
  BY <1>1, ExecutionInvariant, PTL

(* Waiters that share a state never submit two results of a call, however  *)
(* their submissions fail and arrive late.                                 *)
THEOREM StateAgreesWithItself == Spec => []NoConflictOfOneState
<1>1. ExecutionInv => NoConflictOfOneState
  BY DEF ExecutionInv
<1>2. QED
  BY <1>1, ExecutionInvariant, PTL

-----------------------------------------------------------------------------
(* Results are final.                                                      *)

(* A handler returns in a state that has no result of its call yet.        *)
LEMMA ReturnIsNew ==
  ASSUME ExecutionInv, NEW w \in Waiters, NEW cut \in BOOLEAN, HandlerReturns(w, cut)
  PROVE  \A s \in States : cache[s] \subseteq cache'[s]
<1>1. PICK c \in Calls : /\ pc[w] = "handling" /\ First(w, c)
                         /\ Keep(state[w], [call |-> c, state |-> state[w],
                                            run |-> runs[state[w]][c], cut |-> cut])
  BY DEF HandlerReturns, Over
<1>2. state[w] \in States /\ cache \in [States -> SUBSET Result]
  BY DEF ExecutionInv, TypeOK
<1>3. c \in running[state[w]]
  BY <1>1 DEF ExecutionInv, OneHandlerOfACall
<1>4. KeptOf(state[w], c) = {}
  BY <1>2, <1>3 DEF ExecutionInv, RunsAreKnown
<1>5. QED
  BY <1>1, <1>2, <1>4 DEF Keep

(* What a state or the service has found out of a call, it keeps: the      *)
(* results of toolExecutionState are only added to.                        *)
ResultsStay ==
  /\ \A s \in States : cache[s] \subseteq cache'[s]
  /\ committed \subseteq committed'

(* What the service does, does not touch what the states know.             *)
LEMMA ServiceKeepsResults ==
  ASSUME ExecutionInv, Service
  PROVE  ResultsStay
<1>1. ASSUME NEW batch \in SUBSET Result, Accept(batch) \/ UNCHANGED serviceVars
      PROVE  committed \subseteq committed'
  BY <1>1, TakenBatch DEF ExecutionInv, serviceVars
<1>2. ASSUME NEW w \in Waiters, Deliver(w) PROVE committed \subseteq committed'
  <2>1. collected[w] \in SUBSET Result
    BY <1>2 DEF ExecutionInv, TypeOK
  <2>2. QED
    BY <1>1, <1>2, <2>1 DEF Deliver
<1>3. ASSUME NEW batch \in strays, DeliverStray(batch) PROVE committed \subseteq committed'
  <2>1. batch \in SUBSET Result
    BY <1>3 DEF ExecutionInv, TypeOK
  <2>2. QED
    BY <1>1, <1>3, <2>1 DEF DeliverStray
<1>4. UNCHANGED cache
  BY DEF Service, Park, End, Deliver, DeliverStray, stateVars
<1>5. ASSUME NEW S \in SUBSET Calls, Park(S) \/ End PROVE committed \subseteq committed'
  BY <1>5 DEF Park, End
<1>6. committed \subseteq committed'
  BY <1>2, <1>3, <1>5 DEF Service
<1>7. QED
  BY <1>4, <1>6 DEF ResultsStay

(* Once a state has the result of a call, and once the service has taken   *)
(* one, it stays as it is, be the handler's context cancelled or its run   *)
(* another one's.                                                          *)
THEOREM ResultsAreFinal == Spec => [][ResultsStay]_vars
<1>1. ExecutionInv /\ [Next]_vars => [ResultsStay]_vars
  <2> SUFFICES ASSUME ExecutionInv, Next PROVE ResultsStay
    BY DEF ResultsStay
  <2>1. CASE Service
    BY <2>1, ServiceKeepsResults
  <2>2. ASSUME NEW w \in Waiters, NEW cut \in BOOLEAN, HandlerReturns(w, cut)
        PROVE  ResultsStay
    BY <2>2, ReturnIsNew DEF ResultsStay, HandlerReturns, serviceVars
  <2>3. ASSUME NEW w \in Waiters,
               \/ Start(w) \/ Answer(w) \/ Read(w) \/ Wake(w) \/ Receive(w)
               \/ StopFollowing(w) \/ Submit(w) \/ Submitted(w)
               \/ Cancel(w) \/ AnswerFails(w) \/ SubmissionFails(w) \/ HandlerPanics(w)
        PROVE  UNCHANGED <<cache, committed>>
    BY <2>3 DEF Start, Answer, Read, Wake, Receive, StopFollowing, Submit, Submitted,
       Cancel, AnswerFails, SubmissionFails, HandlerPanics, serviceVars, stateVars
  <2>4. ASSUME NEW w \in Waiters, NEW c \in Calls,
               FromCache(w, c) \/ CallHandler(w, c) \/ GiveUp(w, c)
        PROVE  UNCHANGED <<cache, committed>>
    BY <2>4 DEF FromCache, CallHandler, Called, GiveUp, serviceVars, stateVars
  <2>5. QED
    BY <2>1, <2>2, <2>3, <2>4 DEF Next, Goroutine, Mishap, ResultsStay
<1>2. QED
  BY <1>1, ExecutionInvariant, PTL DEF Spec

(* Submissions that were given up are of one state each, since a waiter    *)
(* collects from one.                                                      *)
OneStateABatch == \A batch \in strays : \A r, q \in batch : r.state = q.state

(* No two results of a call are taken, of one state or of several.         *)
OneResultTaken == \A r, q \in committed : r.call = q.call => r = q

LEMMA BatchHasOneResult ==
  ASSUME ExecutionInv, OneResultTaken, NEW batch \in SUBSET Result, Accept(batch),
         \A r \in batch : r.state \in States /\ r \in cache[r.state],
         \A r, q \in batch : r.state = q.state
  PROVE  OneResultTaken'
<1>1. \A r, q \in batch : r.call = q.call => r = q
  BY DEF ExecutionInv, ResultsAreKept
<1>2. committed' = committed \cup {r \in batch : r.call \notin CallsOf(committed)}
  BY DEF Accept
<1>3. QED
  BY <1>1, <1>2 DEF OneResultTaken, CallsOf

LEMMA ServiceTakesOne ==
  ASSUME ExecutionInv, OneStateABatch, OneResultTaken, Service
  PROVE  OneStateABatch' /\ OneResultTaken'
<1>1. ASSUME NEW w \in Waiters, Deliver(w) PROVE OneResultTaken'
  <2>1. /\ collected[w] \in SUBSET Result /\ state[w] \in States
        /\ \A r \in collected[w] : r \in cache[state[w]] /\ r.state = state[w]
    BY DEF ExecutionInv, TypeOK, ResultsAreKept
  <2>2. CASE Accept(collected[w])
    BY <2>1, <2>2, BatchHasOneResult
  <2>3. CASE UNCHANGED serviceVars
    BY <2>3 DEF serviceVars, OneResultTaken
  <2>4. QED
    BY <1>1, <2>2, <2>3 DEF Deliver
<1>2. ASSUME NEW batch \in strays, DeliverStray(batch) PROVE OneResultTaken'
  <2>1. /\ batch \in SUBSET Result
        /\ \A r \in batch : r.state \in States /\ r \in cache[r.state]
        /\ \A r, q \in batch : r.state = q.state
    BY DEF ExecutionInv, TypeOK, ResultsAreKept, OneStateABatch, Result
  <2>2. CASE Accept(batch)
    BY <2>1, <2>2, BatchHasOneResult
  <2>3. CASE UNCHANGED serviceVars
    BY <2>3 DEF serviceVars, OneResultTaken
  <2>4. QED
    BY <1>2, <2>2, <2>3 DEF DeliverStray
<1>3. ASSUME NEW S \in SUBSET Calls, Park(S) \/ End PROVE OneResultTaken'
  BY <1>3 DEF Park, End, OneResultTaken
<1>4. strays' \subseteq strays
  BY DEF Service, Park, End, Deliver, DeliverStray
<1>5. QED
  BY <1>1, <1>2, <1>3, <1>4 DEF Service, OneStateABatch

LEMMA WaiterTakesNone ==
  ASSUME ExecutionInv, OneStateABatch, OneResultTaken,
         NEW w \in Waiters, Start(w) \/ Goroutine(w) \/ Mishap(w)
  PROVE  OneStateABatch' /\ OneResultTaken'
<1>1. CASE SubmissionFails(w)
  <2>1. \A r, q \in collected[w] : r.state = q.state
    BY DEF ExecutionInv, TypeOK, ResultsAreKept
  <2>2. strays' \subseteq strays \cup {collected[w]} /\ committed' = committed
    BY <1>1 DEF SubmissionFails, serviceVars
  <2>3. QED
    BY <2>1, <2>2 DEF OneStateABatch, OneResultTaken
<1>2. ASSUME \/ Start(w) \/ Answer(w) \/ Read(w) \/ Wake(w) \/ Receive(w)
             \/ StopFollowing(w) \/ Submit(w) \/ Submitted(w)
             \/ Cancel(w) \/ AnswerFails(w) \/ HandlerPanics(w)
             \/ HandlerReturns(w, TRUE) \/ HandlerReturns(w, FALSE)
      PROVE  UNCHANGED <<strays, committed>>
  BY <1>2 DEF Start, Answer, Read, Wake, Receive, StopFollowing, Submit, Submitted,
     Cancel, AnswerFails, HandlerPanics, HandlerReturns, serviceVars
<1>3. ASSUME NEW c \in Calls, FromCache(w, c) \/ CallHandler(w, c) \/ GiveUp(w, c)
      PROVE  UNCHANGED <<strays, committed>>
  BY <1>3 DEF FromCache, CallHandler, Called, GiveUp, serviceVars
<1>4. ASSUME UNCHANGED <<strays, committed>> PROVE OneStateABatch' /\ OneResultTaken'
  BY <1>4 DEF OneStateABatch, OneResultTaken
<1>5. QED
  BY <1>1, <1>2, <1>3, <1>4 DEF Goroutine, Mishap

(* The service has at most one result of a call, however many waiters of   *)
(* however many states ran its handler, and whatever arrives late.         *)
THEOREM OneResultOfACall == Spec => []OneResultTaken
<1>1. Init => OneStateABatch /\ OneResultTaken
  BY DEF Init, OneStateABatch, OneResultTaken
<1>2. ExecutionInv /\ OneStateABatch /\ OneResultTaken /\ [Next]_vars
        => OneStateABatch' /\ OneResultTaken'
  <2> SUFFICES ASSUME ExecutionInv, OneStateABatch, OneResultTaken, [Next]_vars
               PROVE  OneStateABatch' /\ OneResultTaken'
    OBVIOUS
  <2>1. CASE UNCHANGED vars
    BY <2>1 DEF vars, serviceVars, OneStateABatch, OneResultTaken
  <2>2. QED
    BY <2>1, ServiceTakesOne, WaiterTakesNone DEF Next
<1>3. QED
  BY <1>1, <1>2, ExecutionInvariant, PTL DEF Spec
=============================================================================
