----------------------- MODULE TranscriptStreamProofs -----------------------
(***************************************************************************)
(* The safety of a transcript stream for any set of Turns and messages and *)
(* any bounds: StreamInv is inductive, and the properties follow from it.  *)
(***************************************************************************)
EXTENDS TranscriptStream, TLAPS

-----------------------------------------------------------------------------
(* The Reducer.  Every branch of it keeps its previews coherent, whatever  *)
(* frame it is given and in whatever order: nothing here says what a       *)
(* service sends.                                                          *)

(* The empty Reducer is coherent.                                          *)
LEMMA EmptyReducer == ReducerInit => ReducerInv
  BY DEF ReducerInit, ReducerInv, ReducerTypeOK, PreviewsWellFormed,
         NoPreviewOfSettledTurn, OneAttemptPerTurn, Live, Preview, NoPreview,
         Cursor, NoCursor

(* Discarding the previews of some Turns leaves well-typed previews, and   *)
(* those left are of the other Turns and unchanged.                        *)
LEMMA WithoutTurnsType ==
  ASSUME ReducerTypeOK, NEW T
  PROVE  /\ WithoutTurns(T) \in [Block -> Preview]
         /\ \A b \in Block :
              \/ WithoutTurns(T)[b] = NoPreview
              \/ /\ WithoutTurns(T)[b] = previews[b]
                 /\ previews[b].turn \notin T
  BY DEF ReducerTypeOK, WithoutTurns, Preview, NoPreview

(* A text that has grown is not empty.                                     *)
LEMMA AppendIsLonger ==
  ASSUME NEW s \in Seq(Nat), NEW n \in Nat
  PROVE  Append(s, n) \in Seq(Nat) /\ Append(s, n) # <<>>
<1>1. Append(s, n) \in Seq(Nat) /\ Len(Append(s, n)) = Len(s) + 1
  OBVIOUS
<1>2. Len(s) + 1 # 0 /\ Len(<<>>) = 0
  OBVIOUS
<1>3. QED
  BY <1>1, <1>2

(* A fragment, fresh, late or from a superseded attempt, keeps the         *)
(* Reducer coherent.                                                       *)
LEMMA DeltaKeepsReducer ==
  ASSUME ReducerInv, NEW d \in Delta, ApplyDelta(d)
  PROVE  ReducerInv'
<1>1. CASE RefusePreview(d)
  BY <1>1 DEF RefusePreview, reducerVars, ReducerInv, ReducerTypeOK,
              PreviewsWellFormed, NoPreviewOfSettledTurn, OneAttemptPerTurn, Live
<1>2. CASE AppendPreview(d)
  <2> DEFINE kept == IF d.attempt > latestAttempt[d.turn]
                       THEN WithoutTurns({d.turn}) ELSE previews
             grown == [turn    |-> d.turn,
                       attempt |-> d.attempt,
                       text    |-> Append(kept[d.block].text, d.fragment)]
  <2>1. /\ d.turn \in Turns /\ d.attempt \in Nat \ {0}
        /\ d.block \in Block /\ d.fragment \in Nat
    BY DEF Delta
  <2>2. /\ d.turn \notin terminalTurns
        /\ d.attempt >= latestAttempt[d.turn]
    BY <1>2, <2>1 DEF AppendPreview, Refused, ReducerInv, ReducerTypeOK
  <2>3. kept \in [Block -> Preview]
    BY WithoutTurnsType DEF ReducerInv, ReducerTypeOK
  <2>4. /\ previews' = [kept EXCEPT ![d.block] = grown]
        /\ latestAttempt' = [latestAttempt EXCEPT ![d.turn] = d.attempt]
        /\ UNCHANGED <<messages, changes, terminalTurns, cursor>>
    BY <1>2 DEF AppendPreview
  <2>5. kept[d.block].text \in Seq(Nat)
    BY <2>1, <2>3 DEF Preview
  <2>6. /\ grown.text \in Seq(Nat) /\ grown.text # <<>>
        /\ grown \in Preview
        /\ grown.turn = d.turn /\ grown.attempt = d.attempt
    <3>1. grown.text = Append(kept[d.block].text, d.fragment)
      OBVIOUS
    <3>2. grown.text \in Seq(Nat) /\ grown.text # <<>>
      BY <3>1, <2>1, <2>5, AppendIsLonger
    <3>3. grown \in Preview
      BY <2>1, <3>1, <3>2 DEF Preview
    <3>4. QED
      BY <3>2, <3>3
  <2> HIDE DEF grown, kept
  <2>7. ReducerTypeOK'
    BY <2>1, <2>3, <2>4, <2>6 DEF ReducerInv, ReducerTypeOK
  <2>8. previews'[d.block] = grown
    BY <2>1, <2>3, <2>4
  <2>9. ASSUME NEW b \in Block, b # d.block
        PROVE  \/ previews'[b] = NoPreview
               \/ /\ previews'[b] = previews[b]
                  /\ \/ previews[b].turn # d.turn
                     \/ d.attempt = latestAttempt[d.turn]
    <3>1. previews'[b] = kept[b]
      BY <2>1, <2>3, <2>4, <2>9
    <3>2. CASE d.attempt > latestAttempt[d.turn]
      BY <3>1, <3>2, <2>9, WithoutTurnsType DEF kept, ReducerInv
    <3>3. CASE ~(d.attempt > latestAttempt[d.turn])
      BY <3>1, <3>3, <2>1, <2>2 DEF kept, ReducerInv, ReducerTypeOK
    <3>4. QED
      BY <3>2, <3>3
  <2>10. latestAttempt'[d.turn] = d.attempt
    BY <2>1, <2>4 DEF ReducerInv, ReducerTypeOK
  <2>11. \A t \in Turns : t # d.turn => latestAttempt'[t] = latestAttempt[t]
    BY <2>1, <2>4 DEF ReducerInv, ReducerTypeOK
  <2>12. ASSUME NEW b \in Block
         PROVE  /\ IF Live(b)' THEN previews'[b].turn \in Turns
                               ELSE previews'[b] = NoPreview
                /\ Live(b)' => /\ previews'[b].turn \notin terminalTurns
                               /\ previews'[b].attempt
                                    = latestAttempt'[previews'[b].turn]
    <3>1. CASE b = d.block
      BY <3>1, <2>1, <2>2, <2>6, <2>8, <2>10 DEF Live
    <3>2. CASE b # d.block
      <4>1. CASE previews'[b] = NoPreview
        BY <4>1 DEF Live, NoPreview
      <4>2. CASE previews'[b] # NoPreview
        <5>1. /\ previews'[b] = previews[b]
              /\ \/ previews[b].turn # d.turn
                 \/ d.attempt = latestAttempt[d.turn]
          BY <3>2, <4>2, <2>9
        <5>2. IF Live(b) THEN previews[b].turn \in Turns
                         ELSE previews[b] = NoPreview
          BY DEF ReducerInv, PreviewsWellFormed
        <5>3. Live(b) => /\ previews[b].turn \notin terminalTurns
                         /\ previews[b].attempt = latestAttempt[previews[b].turn]
          BY DEF ReducerInv, NoPreviewOfSettledTurn, OneAttemptPerTurn
        <5>4. Live(b) => latestAttempt'[previews[b].turn]
                           = latestAttempt[previews[b].turn]
          BY <5>1, <5>2, <2>10, <2>11
        <5>5. Live(b)' <=> Live(b)
          BY <5>1 DEF Live
        <5>6. QED
          BY <5>1, <5>2, <5>3, <5>4, <5>5
      <4>3. QED
        BY <4>1, <4>2
    <3>3. QED
      BY <3>1, <3>2
  <2>13. terminalTurns' = terminalTurns
    BY <2>4
  <2>14. QED
    BY <2>7, <2>12, <2>13 DEF ReducerInv, PreviewsWellFormed,
       NoPreviewOfSettledTurn, OneAttemptPerTurn
<1>3. QED
  BY <1>1, <1>2 DEF ApplyDelta

(* So does a resync, of one Turn or of all.                                *)
LEMMA ResyncKeepsReducer ==
  ASSUME ReducerInv, NEW scope \in Turns \cup {NoTurn}, ApplyResync(scope)
  PROVE  ReducerInv'
<1> DEFINE T == IF scope = NoTurn THEN Turns ELSE {scope}
<1>1. /\ previews' = WithoutTurns(T)
      /\ latestAttempt' = Forget(T)
      /\ UNCHANGED <<messages, changes, terminalTurns, cursor>>
  BY DEF ApplyResync
<1> HIDE DEF T
<1>2. Forget(T) \in [Turns -> Nat]
  BY DEF Forget, ReducerInv, ReducerTypeOK
<1>3. ReducerTypeOK'
  BY <1>1, <1>2, WithoutTurnsType DEF ReducerInv, ReducerTypeOK
<1>4. ASSUME NEW b \in Block
      PROVE  \/ previews'[b] = NoPreview
             \/ /\ previews'[b] = previews[b]
                /\ previews[b].turn \notin T
  BY <1>1, <1>4, WithoutTurnsType DEF ReducerInv
<1>5. \A t \in Turns \ T : latestAttempt'[t] = latestAttempt[t]
  BY <1>1 DEF Forget
<1>6. QED
  BY <1>1, <1>3, <1>4, <1>5 DEF ReducerInv, PreviewsWellFormed,
     NoPreviewOfSettledTurn, OneAttemptPerTurn, Live, NoPreview

(* So does a durable frame, whichever rows it carries.                     *)
LEMMA UpdateKeepsReducer ==
  ASSUME ReducerInv, NEW u \in Update, ApplyUpdate(u)
  PROVE  ReducerInv'
<1> DEFINE ended == {c.turn : c \in {d \in u.changes : d.terminal}}
           named == {m.id : m \in u.messages}
           taken == {m.sequence : m \in u.messages}
           kept  == WithoutTurns(ended)
<1>1. /\ messages' = {m \in messages : m.sequence \notin taken} \cup u.messages
      /\ changes' = Latest(changes \cup u.changes)
      /\ terminalTurns' = terminalTurns \cup ended
      /\ previews' = WithoutMessages(kept, named)
      /\ latestAttempt' = Forget(ended)
      /\ cursor' = u.cursor
  BY DEF ApplyUpdate
<1>2. /\ u.messages \in SUBSET Message
      /\ u.changes \in SUBSET Change
      /\ u.cursor \in Cursor
  BY DEF Update
<1>3. ended \in SUBSET Turns
  BY <1>2 DEF Change
<1>4. kept \in [Block -> Preview]
  BY WithoutTurnsType DEF ReducerInv
<1>5. \A b \in Block : \/ kept[b] = NoPreview
                       \/ kept[b] = previews[b] /\ previews[b].turn \notin ended
  BY WithoutTurnsType DEF ReducerInv
<1> HIDE DEF ended, named, taken, kept
<1>6. WithoutMessages(kept, named) \in [Block -> Preview]
  BY <1>4 DEF WithoutMessages, Preview, NoPreview
<1>7. \A b \in Block : previews'[b] \in {NoPreview, kept[b]}
  BY <1>1 DEF WithoutMessages
<1>8. ReducerTypeOK'
  <2>1. Forget(ended) \in [Turns -> Nat]
    BY DEF Forget, ReducerInv, ReducerTypeOK
  <2>2. Latest(changes \cup u.changes) \in SUBSET Change
    BY <1>2 DEF Latest, ReducerInv, ReducerTypeOK
  <2>3. QED
    BY <1>1, <1>2, <1>3, <1>6, <2>1, <2>2 DEF ReducerInv, ReducerTypeOK
<1>9. \A t \in Turns \ ended : latestAttempt'[t] = latestAttempt[t]
  BY <1>1 DEF Forget
<1>10. QED
  BY <1>1, <1>5, <1>7, <1>8, <1>9 DEF ReducerInv, PreviewsWellFormed,
     NoPreviewOfSettledTurn, OneAttemptPerTurn, Live, NoPreview

-----------------------------------------------------------------------------
(* The stream.                                                             *)

(* The logs are only appended to.                                          *)
LogsGrow ==
  /\ Len(saved) <= Len(saved')
  /\ \A i \in DOMAIN saved : saved'[i] = saved[i]
  /\ Len(changeLog) <= Len(changeLog')
  /\ \A j \in DOMAIN changeLog : changeLog'[j] = changeLog[j]

-----------------------------------------------------------------------------
(* The first state.                                                        *)
LEMMA InitStream == Init => StreamInv
<1> SUFFICES ASSUME Init PROVE StreamInv
  OBVIOUS
<1>1. ReducerInv
  BY EmptyReducer DEF Init
<1>2. TypeOK
  BY <1>1 DEF Init, TypeOK, ReducerInv, NoCursor, Cursor, Phase
<1>3. LogsInv
  <2>1. /\ Len(changeLog) = 0 /\ DOMAIN changeLog = {}
        /\ 0 .. 0 = {0} /\ 1 .. 0 = {}
    BY DEF Init
  <2>2. HasLatest
    BY <2>1 DEF HasLatest
  <2>3. QED
    BY <2>1, <2>2 DEF LogsInv
<1>4. InFlightInv
  <2>1. /\ cursor = NoCursor /\ NoCursor.messages = 0 /\ NoCursor.changes = 0
        /\ saved = <<>> /\ changeLog = <<>> /\ pages = <<>> /\ phase # "open"
    BY DEF Init, ReducerInit, NoCursor
  <2>2. GoodPosition(cursor)
    BY <2>1 DEF GoodPosition
  <2>3. QED
    BY <2>1, <2>2 DEF InFlightInv
<1>5. DurableViewIsLogPrefix
  BY DEF Init, DurableViewIsLogPrefix, ReducerInit, NoCursor, Latest
<1>6. QED
  BY <1>1, <1>2, <1>3, <1>4, <1>5 DEF StreamInv

(* What a step may do to the logs: nothing, save a message of a Turn that  *)
(* has not ended, or commit one change of such a Turn.                     *)
LogStep ==
  \/ UNCHANGED <<saved, changeLog>>
  \/ /\ UNCHANGED changeLog
     /\ \E m \in Messages : ~Ended(Origin[m].turn) /\ saved' = Append(saved, m)
  \/ /\ UNCHANGED saved
     /\ \E t \in Turns, e \in BOOLEAN : ~Ended(t) /\ Commit(t, e)

LEMMA StepOfLogs == StreamInv /\ [Next]_vars => LogStep
<1> SUFFICES ASSUME StreamInv, [Next]_vars PROVE LogStep
  OBVIOUS
<1>1. CASE UNCHANGED vars
  BY <1>1 DEF LogStep, vars, serviceVars
<1>2. ASSUME NEW t \in Turns, Claim(t) PROVE LogStep
  BY <1>2 DEF Claim, LogStep
<1>3. ASSUME NEW t \in Turns, NEW e \in BOOLEAN, Advance(t, e) PROVE LogStep
  BY <1>3 DEF Advance, LogStep
<1>4. ASSUME NEW m \in Messages, Save(m) PROVE LogStep
  BY <1>4 DEF Save, LogStep
<1>5. ASSUME NEW b \in Block, Publish(b) PROVE LogStep
  BY <1>5 DEF Publish, LogStep
<1>6. ASSUME NEW to \in Positions, CutPage(to) PROVE LogStep
  BY <1>6 DEF CutPage, LogStep, serviceVars
<1>7. CASE Reader
  BY <1>7 DEF Reader, Connect, ConnectFails, ConnectRefused, Wake, Drop,
     ReceiveTruncated, ReceivePage, ReceiveLive, LogStep, serviceVars
<1>8. QED
  BY <1>1, <1>2, <1>3, <1>4, <1>5, <1>6, <1>7 DEF Next, Service

(* A commit appends a well-formed entry.                                   *)
LEMMA CommitAppends ==
  ASSUME TypeOK, NEW t \in Turns, NEW e \in BOOLEAN, Commit(t, e)
  PROVE  /\ changeLog' \in Seq(Entry)
         /\ Len(changeLog') = Len(changeLog) + 1
         /\ \A j \in DOMAIN changeLog : changeLog'[j] = changeLog[j]
         /\ changeLog'[Len(changeLog) + 1] =
              [turn |-> t, revision |-> Len(changeLog) + 1, terminal |-> e,
               through |-> Len(saved)]
<1> DEFINE entry == [turn |-> t, revision |-> Len(changeLog) + 1, terminal |-> e,
                     through |-> Len(saved)]
<1>1. changeLog \in Seq(Entry) /\ saved \in Seq(Messages)
  BY DEF TypeOK
<1>2. entry \in Entry
  BY <1>1 DEF Entry
<1>3. changeLog' = Append(changeLog, entry)
  BY DEF Commit
<1> HIDE DEF entry
<1>4. QED
  BY <1>1, <1>2, <1>3 DEF entry

LEMMA SaveAppends ==
  ASSUME TypeOK, NEW m \in Messages, saved' = Append(saved, m)
  PROVE  /\ saved' \in Seq(Messages)
         /\ Len(saved') = Len(saved) + 1
         /\ \A i \in DOMAIN saved : saved'[i] = saved[i]
         /\ saved'[Len(saved) + 1] = m
  BY DEF TypeOK

LEMMA GrowthOfLogs ==
  ASSUME StreamInv, LogStep
  PROVE  /\ LogsGrow
         /\ saved' \in Seq(Messages)
         /\ changeLog' \in Seq(Entry)
<1>1. TypeOK
  BY DEF StreamInv
<1>2. Len(saved) \in Nat /\ Len(changeLog) \in Nat
  BY <1>1 DEF TypeOK
<1>3. CASE UNCHANGED <<saved, changeLog>>
  BY <1>1, <1>2, <1>3 DEF LogsGrow, TypeOK
<1>4. ASSUME UNCHANGED changeLog, NEW m \in Messages, saved' = Append(saved, m)
      PROVE  LogsGrow /\ saved' \in Seq(Messages) /\ changeLog' \in Seq(Entry)
  BY <1>1, <1>2, <1>4, SaveAppends DEF LogsGrow, TypeOK
<1>5. ASSUME UNCHANGED saved, NEW t \in Turns, NEW e \in BOOLEAN, Commit(t, e)
      PROVE  LogsGrow /\ saved' \in Seq(Messages) /\ changeLog' \in Seq(Entry)
  <2>1. /\ changeLog' \in Seq(Entry)
        /\ Len(changeLog') = Len(changeLog) + 1
        /\ \A j \in DOMAIN changeLog : changeLog'[j] = changeLog[j]
    BY <1>1, <1>5, CommitAppends
  <2>2. saved \in Seq(Messages) /\ saved' = saved
    BY <1>1, <1>5 DEF TypeOK
  <2>3. QED
    BY <1>2, <2>1, <2>2 DEF LogsGrow
<1>6. QED
  BY <1>3, <1>4, <1>5 DEF LogStep

(* The logs stay ordered.                                                  *)
LEMMA LogsStep ==
  ASSUME StreamInv, LogStep
  PROVE  LogsInv'
<1>1. TypeOK /\ LogsInv
  BY DEF StreamInv
<1>2. /\ Len(saved) \in Nat /\ Len(changeLog) \in Nat
      /\ saved \in Seq(Messages) /\ changeLog \in Seq(Entry)
  BY <1>1 DEF TypeOK
<1>3. CASE UNCHANGED <<saved, changeLog>>
  <2>1. saved' = saved /\ changeLog' = changeLog
    BY <1>3
  <2>2. HasLatest
    BY <1>1 DEF LogsInv
  <2>3. HasLatest'
    BY <2>1, <2>2, Zenon DEF HasLatest
  <2>4. QED
    BY <1>1, <2>1, <2>3, Zenon DEF LogsInv
<1>4. ASSUME UNCHANGED changeLog, NEW m \in Messages, ~Ended(Origin[m].turn),
             saved' = Append(saved, m)
      PROVE  LogsInv'
  <2>1. HasLatest'
    BY <1>1, <1>4 DEF LogsInv, HasLatest
  <2>2. ASSUME NEW j \in DOMAIN changeLog
        PROVE  /\ changeLog[j].through <= Len(saved')
               /\ changeLog[j].terminal =>
                    \A i \in DOMAIN saved' :
                      Origin[saved'[i]].turn = changeLog[j].turn
                        => i <= changeLog[j].through
    <3> changeLog[j] \in Entry
      BY <1>2
    <3>1. changeLog[j].through \in Nat
      BY DEF Entry
    <3>2. /\ Len(saved') = Len(saved) + 1
          /\ saved' \in Seq(Messages)
          /\ \A i \in DOMAIN saved : saved'[i] = saved[i]
          /\ saved'[Len(saved) + 1] = m
      BY <1>1, <1>4, SaveAppends
    <3>3. changeLog[j].terminal => Origin[m].turn # changeLog[j].turn
      BY <1>4 DEF Ended
    <3>4. /\ changeLog[j].through <= Len(saved)
          /\ changeLog[j].terminal =>
               \A i \in DOMAIN saved :
                 Origin[saved[i]].turn = changeLog[j].turn
                   => i <= changeLog[j].through
      BY <1>1 DEF LogsInv
    <3>5. \A i \in DOMAIN saved' : i \in DOMAIN saved \/ i = Len(saved) + 1
      BY <1>2, <3>2
    <3>6. QED
      BY <1>2, <3>1, <3>2, <3>3, <3>4, <3>5
  <2>3. QED
    BY <1>1, <1>4, <2>1, <2>2 DEF LogsInv
<1>5. ASSUME UNCHANGED saved, NEW t \in Turns, NEW e \in BOOLEAN,
             ~Ended(t), Commit(t, e)
      PROVE  LogsInv'
  <2> DEFINE N == Len(changeLog) + 1
  <2>1. /\ changeLog' \in Seq(Entry)
        /\ Len(changeLog') = N
        /\ \A j \in DOMAIN changeLog : changeLog'[j] = changeLog[j]
        /\ changeLog'[N] = [turn |-> t, revision |-> N, terminal |-> e,
                            through |-> Len(saved)]
    BY <1>1, <1>5, CommitAppends
  <2>2. \A j \in DOMAIN changeLog' : j \in DOMAIN changeLog \/ j = N
    BY <1>2, <2>1
  <2>3. \A j \in DOMAIN changeLog :
          changeLog[j] \in Entry /\ changeLog[j].through \in Nat
    <3>1. \A j \in DOMAIN changeLog : changeLog[j] \in Entry
      BY <1>2
    <3>2. QED
      BY <3>1 DEF Entry
  <2>4. HasLatest'
    <3> SUFFICES ASSUME NEW n \in 0 .. N, NEW j \in 1 .. n
                 PROVE  \E k \in 1 .. n :
                          /\ changeLog'[k].turn = changeLog'[j].turn
                          /\ \A l \in 1 .. n :
                               changeLog'[l].turn = changeLog'[j].turn => l <= k
      BY <2>1 DEF HasLatest
    <3>1. CASE n <= Len(changeLog)
      <4>1. n \in 0 .. Len(changeLog)
        BY <1>2, <3>1
      <4>2. \A l \in 1 .. n : changeLog'[l] = changeLog[l]
        BY <1>2, <2>1, <4>1
      <4>3. PICK k \in 1 .. n :
              /\ changeLog[k].turn = changeLog[j].turn
              /\ \A l \in 1 .. n : changeLog[l].turn = changeLog[j].turn => l <= k
        BY <1>1, <4>1 DEF LogsInv, HasLatest
      <4>4. QED
        BY <4>2, <4>3
    <3>2. CASE n = N /\ changeLog'[j].turn = t
      <4>1. changeLog'[N].turn = t /\ N \in 1 .. n
        BY <1>2, <2>1, <3>2
      <4>2. \A l \in 1 .. n : l <= N
        BY <3>2
      <4>3. QED
        BY <3>2, <4>1, <4>2
    <3>3. CASE n = N /\ changeLog'[j].turn # t
      <4>1. j \in 1 .. Len(changeLog)
        BY <1>2, <2>1, <3>3
      <4>2. Len(changeLog) \in 0 .. Len(changeLog)
        BY <1>2
      <4>3. PICK k \in 1 .. Len(changeLog) :
              /\ changeLog[k].turn = changeLog[j].turn
              /\ \A l \in 1 .. Len(changeLog) :
                   changeLog[l].turn = changeLog[j].turn => l <= k
        BY <1>1, <4>1, <4>2 DEF LogsInv, HasLatest
      <4>4. \A l \in 1 .. Len(changeLog) : changeLog'[l] = changeLog[l]
        BY <1>2, <2>1
      <4>5. k \in 1 .. n /\ changeLog'[k].turn = changeLog'[j].turn
        BY <1>2, <3>3, <4>1, <4>3, <4>4
      <4>6. \A l \in 1 .. n : changeLog'[l].turn = changeLog'[j].turn
                                => l \in 1 .. Len(changeLog)
        BY <1>2, <2>1, <3>3
      <4>7. \A l \in 1 .. n : changeLog'[l].turn = changeLog'[j].turn => l <= k
        BY <4>1, <4>3, <4>4, <4>6
      <4>8. QED
        BY <4>5, <4>7
    <3>4. QED
      BY <1>2, <3>1, <3>2, <3>3
  <2>5. ASSUME NEW j \in DOMAIN changeLog'
        PROVE  /\ changeLog'[j].revision = j
               /\ changeLog'[j].through <= Len(saved)
               /\ \A k \in 1 .. j : changeLog'[k].through <= changeLog'[j].through
               /\ changeLog'[j].terminal =>
                    \A i \in DOMAIN saved :
                      Origin[saved[i]].turn = changeLog'[j].turn
                        => i <= changeLog'[j].through
    <3>1. CASE j \in DOMAIN changeLog
      <4>1. \A k \in 1 .. j : changeLog'[k] = changeLog[k]
        BY <1>2, <2>1, <3>1
      <4>2. changeLog'[j] = changeLog[j]
        BY <2>1, <3>1
      <4>3. QED
        BY <1>1, <3>1, <4>1, <4>2 DEF LogsInv
    <3>2. CASE j = N
      <4>1. \A k \in DOMAIN changeLog : changeLog'[k].through <= Len(saved)
        BY <1>1, <2>1 DEF LogsInv
      <4>2. \A k \in 1 .. j : k \in DOMAIN changeLog \/ k = N
        BY <1>2, <3>2
      <4>3. \A i \in DOMAIN saved : i <= Len(saved)
        BY <1>2
      <4>4. /\ changeLog'[j].revision = j
            /\ changeLog'[j].through = Len(saved)
        BY <2>1, <3>2
      <4>5. \A k \in 1 .. j : changeLog'[k].through <= Len(saved)
        BY <1>2, <3>2, <4>1, <4>2, <4>4
      <4>6. QED
        BY <1>2, <4>3, <4>4, <4>5
    <3>3. QED
      BY <2>2, <3>1, <3>2
  <2>6. QED
    BY <1>5, <2>4, <2>5 DEF LogsInv
<1>6. QED
  BY <1>3, <1>4, <1>5 DEF LogStep

-----------------------------------------------------------------------------
(* The Reducer and the types.                                              *)
LEMMA PageIsUpdate ==
  ASSUME StreamInv, NEW p \in Page, GoodPage(p)
  PROVE  UpdateOf(p) \in Update
<1>1. /\ p.from \in Cursor /\ p.to \in Cursor
      /\ saved \in Seq(Messages) /\ changeLog \in Seq(Entry)
  BY DEF Page, StreamInv, TypeOK
<1>2. /\ p.from.messages \in Nat /\ p.to.messages \in Nat
      /\ p.from.changes \in Nat /\ p.to.changes \in Nat
      /\ p.to.messages <= Len(saved) /\ p.to.changes <= Len(changeLog)
  BY <1>1 DEF Cursor, GoodPage, GoodPosition
<1>3. ASSUME NEW i \in (p.from.messages + 1) .. p.to.messages
      PROVE  MessageAt(i) \in Message
  <2>1. i \in DOMAIN saved /\ i \in Nat \ {0}
    BY <1>1, <1>2
  <2>2. saved[i] \in Messages
    BY <1>1, <2>1
  <2>3. QED
    BY <2>1, <2>2 DEF MessageAt, Message
<1>4. ASSUME NEW j \in (p.from.changes + 1) .. p.to.changes
      PROVE  ChangeAt(j) \in Change
  <2>1. j \in DOMAIN changeLog
    BY <1>1, <1>2
  <2>2. changeLog[j] \in Entry
    BY <1>1, <2>1
  <2>3. QED
    BY <2>2 DEF ChangeAt, Change, Entry
<1>5. QED
  BY <1>1, <1>3, <1>4 DEF UpdateOf, Update

LEMMA FirstPage ==
  ASSUME StreamInv, pages # <<>>
  PROVE  /\ pages[1] = Head(pages)
         /\ pages[1] \in Page
         /\ GoodPage(pages[1])
         /\ 1 \in DOMAIN pages
<1>1. pages \in Seq(Page)
  BY DEF StreamInv, TypeOK
<1>2. 1 \in DOMAIN pages
  BY <1>1
<1>3. QED
  BY <1>1, <1>2 DEF StreamInv, InFlightInv

LEMMA FirstLive ==
  ASSUME StreamInv, live # <<>>
  PROVE  Head(live) \in DeltaFrame \cup ResyncFrame
  BY DEF StreamInv, TypeOK

LEMMA ReducerUntouched ==
  ASSUME ReducerInv, UNCHANGED reducerVars
  PROVE  ReducerInv'
  BY DEF reducerVars, ReducerInv, ReducerTypeOK, PreviewsWellFormed,
         NoPreviewOfSettledTurn, OneAttemptPerTurn, Live

(* What a step may do to the Reducer.                                      *)
ReducerStep ==
  \/ UNCHANGED reducerVars
  \/ /\ phase = "open" /\ pages # <<>>
     /\ ApplyUpdate(UpdateOf(Head(pages)))
  \/ \E d \in Delta : ApplyDelta(d)
  \/ \E scope \in Turns \cup {NoTurn} : ApplyResync(scope)

LEMMA StepOfReducer == StreamInv /\ [Next]_vars => ReducerStep
<1> SUFFICES ASSUME StreamInv, [Next]_vars PROVE ReducerStep
  OBVIOUS
<1>1. CASE UNCHANGED vars
  BY <1>1 DEF ReducerStep, vars
<1>2. CASE Service
  BY <1>2 DEF Service, Claim, Advance, Save, Publish, CutPage, ReducerStep
<1>3. CASE Connect \/ ConnectFails \/ ConnectRefused \/ Wake \/ Drop
           \/ ReceiveTruncated
  BY <1>3 DEF Connect, ConnectFails, ConnectRefused, Wake, Drop,
     ReceiveTruncated, ReducerStep
<1>4. CASE ReceivePage
  BY <1>4 DEF ReceivePage, ReducerStep
<1>5. CASE ReceiveLive
  <2>1. CASE Head(live).type = "delta" /\ ApplyDelta(Head(live).delta)
    <3>1. Head(live) \in DeltaFrame
      BY <1>5, <2>1, FirstLive DEF ReceiveLive, ResyncFrame
    <3>2. Head(live).delta \in Delta
      BY <3>1 DEF DeltaFrame
    <3>3. QED
      BY <2>1, <3>2 DEF ReducerStep
  <2>2. CASE Head(live).type = "resync" /\ ApplyResync(Head(live).scope)
    <3>1. Head(live) \in ResyncFrame
      BY <1>5, <2>2, FirstLive DEF ReceiveLive, DeltaFrame
    <3>2. Head(live).scope \in Turns \cup {NoTurn}
      BY <3>1 DEF ResyncFrame
    <3>3. QED
      BY <2>2, <3>2 DEF ReducerStep
  <2>3. QED
    BY <1>5, <2>1, <2>2 DEF ReceiveLive
<1>6. QED
  BY <1>1, <1>2, <1>3, <1>4, <1>5 DEF Next, Reader

LEMMA ReducerStaysCoherent ==
  ASSUME StreamInv, ReducerStep
  PROVE  ReducerInv'
<1>1. ReducerInv
  BY DEF StreamInv
<1>2. CASE UNCHANGED reducerVars
  BY <1>1, <1>2, ReducerUntouched
<1>3. CASE /\ phase = "open" /\ pages # <<>>
           /\ ApplyUpdate(UpdateOf(Head(pages)))
  <2>1. UpdateOf(Head(pages)) \in Update
    BY <1>3, FirstPage, PageIsUpdate
  <2>2. QED
    BY <1>1, <1>3, <2>1, UpdateKeepsReducer
<1>4. ASSUME NEW d \in Delta, ApplyDelta(d) PROVE ReducerInv'
  BY <1>1, <1>4, DeltaKeepsReducer
<1>5. ASSUME NEW scope \in Turns \cup {NoTurn}, ApplyResync(scope)
      PROVE  ReducerInv'
  BY <1>1, <1>5, ResyncKeepsReducer
<1>6. QED
  BY <1>2, <1>3, <1>4, <1>5 DEF ReducerStep

(* The variables of the service, the connection and the reader.            *)
LEMMA TypeStep ==
  ASSUME StreamInv, [Next]_vars, ReducerInv',
         saved' \in Seq(Messages), changeLog' \in Seq(Entry)
  PROVE  TypeOK'
<1>1. TypeOK
  BY DEF StreamInv
<1>2. ReducerTypeOK'
  BY DEF ReducerInv
<1> DEFINE ConnectionOK == /\ sent \in Cursor
                           /\ pages \in Seq(Page)
                           /\ live \in Seq(DeltaFrame \cup ResyncFrame)
                           /\ missed \in SUBSET Block
                           /\ phase \in Phase
           ServiceOK == /\ attempt \in [Turns -> Nat]
                        /\ published \in [Block -> Nat]
<1>3. ConnectionOK /\ ServiceOK /\ cursor \in Cursor
  BY <1>1 DEF TypeOK, ReducerTypeOK
<1> SUFFICES ConnectionOK' /\ ServiceOK'
  BY <1>2 DEF TypeOK
<1>4. CASE UNCHANGED vars
  BY <1>3, <1>4 DEF vars, serviceVars, connectionVars
<1>5. ASSUME NEW t \in Turns, Claim(t)
      PROVE  ConnectionOK' /\ ServiceOK'
  BY <1>3, <1>5 DEF Claim, connectionVars
<1>6. ASSUME NEW t \in Turns, NEW e \in BOOLEAN, Advance(t, e)
      PROVE  ConnectionOK' /\ ServiceOK'
  BY <1>3, <1>6 DEF Advance, connectionVars
<1>7. ASSUME NEW m \in Messages, Save(m)
      PROVE  ConnectionOK' /\ ServiceOK'
  BY <1>3, <1>7 DEF Save, connectionVars
<1>8. ASSUME NEW b \in Block, Publish(b)
      PROVE  ConnectionOK' /\ ServiceOK'
  <2>1. DeltaOf(b) \in Delta /\ Origin[b[1]].turn \in Turns
    <3>1. b[1] \in Messages
      BY DEF Block
    <3>2. Origin[b[1]] \in [turn: Turns, attempt: Nat \ {0}]
      BY <3>1, OriginAssumption
    <3>3. QED
      BY <1>3, <3>2 DEF DeltaOf, Delta
  <2>2. [type |-> "delta", delta |-> DeltaOf(b)] \in DeltaFrame
    BY <2>1 DEF DeltaFrame
  <2>3. \A scope \in ResyncScopes(Origin[b[1]].turn) :
          [type |-> "resync", scope |-> scope] \in ResyncFrame
    BY <2>1 DEF ResyncFrame, ResyncScopes
  <2>4. live' = live
        \/ \E f \in DeltaFrame \cup ResyncFrame : live' = Append(live, f)
    BY <1>8, <2>2, <2>3 DEF Publish
  <2>5. (live \in Seq(DeltaFrame \cup ResyncFrame))'
    <3> DEFINE F == DeltaFrame \cup ResyncFrame
    <3>1. live \in Seq(F)
      BY <1>3
    <3> HIDE DEF F
    <3>2. ASSUME NEW f \in F, live' = Append(live, f) PROVE live' \in Seq(F)
      BY <3>1, <3>2
    <3>3. ASSUME live' = live PROVE live' \in Seq(F)
      BY <3>1, <3>3, Zenon
    <3>4. live' \in Seq(F)
      BY <2>4, <3>2, <3>3 DEF F
    <3>5. QED
      BY <3>4 DEF F
  <2>6. (missed \in SUBSET Block)' /\ (published \in [Block -> Nat])'
    BY <1>3, <1>8 DEF Publish
  <2>7. QED
    BY <1>3, <1>8, <2>5, <2>6 DEF Publish
<1>9. ASSUME NEW to \in Positions, CutPage(to)
      PROVE  ConnectionOK' /\ ServiceOK'
  <2>1. to \in Cursor
    BY <1>1 DEF Positions, Cursor, TypeOK
  <2>2. [from |-> sent, to |-> to] \in Page
    BY <1>3, <2>1 DEF Page
  <2>3. (pages \in Seq(Page))'
    BY <1>3, <1>9, <2>2 DEF CutPage
  <2>4. QED
    BY <1>3, <1>9, <2>1, <2>3 DEF CutPage, serviceVars
<1>10. CASE Connect \/ ConnectFails \/ ConnectRefused \/ Wake
  <2>1. CASE Connect
    <3>1. /\ sent' = cursor /\ pages' = <<>> /\ live' = <<>> /\ phase' = "open"
          /\ UNCHANGED <<serviceVars, missed>>
      BY <2>1 DEF Connect
    <3>2. ConnectionOK'
      BY <1>3, <3>1 DEF Phase
    <3>3. QED
      BY <1>3, <3>1, <3>2 DEF serviceVars
  <2>2. CASE ConnectFails \/ ConnectRefused \/ Wake
    <3>1. /\ UNCHANGED <<serviceVars, connectionVars, missed>>
          /\ phase' \in {"waiting", "failed", "connecting"}
      BY <2>2 DEF ConnectFails, ConnectRefused, Wake
    <3>2. QED
      BY <1>3, <3>1 DEF serviceVars, connectionVars, Phase
  <2>3. QED
    BY <1>10, <2>1, <2>2
<1>11. UNION {LostWith(live[i]) : i \in DOMAIN live} \in SUBSET Block
  BY DEF LostWith
<1>12. ASSUME NEW next \in Phase, Hangup(next)
       PROVE  /\ (pages \in Seq(Page))' /\ (phase \in Phase)'
              /\ (live \in Seq(DeltaFrame \cup ResyncFrame))'
              /\ (missed \in SUBSET Block)'
  BY <1>3, <1>11, <1>12 DEF Hangup
<1>13. CASE Drop \/ ReceiveTruncated
  BY <1>3, <1>12, <1>13 DEF Drop, ReceiveTruncated, serviceVars, Phase
<1>14. CASE ReceivePage
  <2>1. UNCHANGED <<serviceVars, sent>> /\ pages # <<>>
    BY <1>14 DEF ReceivePage
  <2>2. CASE Hangup("returned")
    BY <1>3, <1>12, <2>1, <2>2 DEF serviceVars, Phase
  <2>3. CASE pages' = Tail(pages) /\ UNCHANGED <<live, missed, phase>>
    <3>1. (pages \in Seq(Page))'
      BY <1>3, <2>1, <2>3
    <3>2. QED
      BY <1>3, <2>1, <2>3, <3>1 DEF serviceVars
  <2>4. QED
    BY <1>14, <2>2, <2>3 DEF ReceivePage
<1>15. CASE ReceiveLive
  <2>1. (live \in Seq(DeltaFrame \cup ResyncFrame))'
    BY <1>3, <1>15 DEF ReceiveLive
  <2>2. QED
    BY <1>3, <1>15, <2>1 DEF ReceiveLive, serviceVars
<1>16. QED
  BY <1>4, <1>5, <1>6, <1>7, <1>8, <1>9, <1>10, <1>13, <1>14, <1>15
     DEF Next, Service, Reader

-----------------------------------------------------------------------------
(* Positions and pages.                                                    *)
(* GoodPosition and GoodPage of the state a step leads to.                 *)
GoodNext(c) ==
  /\ c.messages <= Len(saved')
  /\ c.changes <= Len(changeLog')
  /\ \A j \in 1 .. c.changes : changeLog'[j].through <= c.messages

GoodPageNext(p) ==
  /\ GoodNext(p.from) /\ GoodNext(p.to)
  /\ p.from.messages <= p.to.messages
  /\ p.from.changes <= p.to.changes

LEMMA GoodStays ==
  ASSUME StreamInv, LogStep
  PROVE  \A c \in Cursor : GoodPosition(c) => GoodNext(c)
<1> SUFFICES ASSUME NEW c \in Cursor, GoodPosition(c) PROVE GoodNext(c)
  OBVIOUS
<1>1. /\ saved \in Seq(Messages) /\ changeLog \in Seq(Entry)
      /\ c.messages \in Nat /\ c.changes \in Nat
  BY DEF StreamInv, TypeOK, Cursor
<1>2. /\ c.messages <= Len(saved) /\ c.changes <= Len(changeLog)
      /\ \A j \in 1 .. c.changes : changeLog[j].through <= c.messages
  BY DEF GoodPosition
<1>3. /\ saved' \in Seq(Messages) /\ changeLog' \in Seq(Entry)
      /\ Len(saved) <= Len(saved') /\ Len(changeLog) <= Len(changeLog')
      /\ \A j \in DOMAIN changeLog : changeLog'[j] = changeLog[j]
  BY GrowthOfLogs DEF LogsGrow
<1>4. \A j \in 1 .. c.changes : j \in DOMAIN changeLog
  BY <1>1, <1>2
<1>5. QED
  BY <1>1, <1>2, <1>3, <1>4 DEF GoodNext

LEMMA GoodPageStays ==
  ASSUME StreamInv, LogStep
  PROVE  \A p \in Page : GoodPage(p) => GoodPageNext(p)
<1> SUFFICES ASSUME NEW p \in Page, GoodPage(p) PROVE GoodPageNext(p)
  OBVIOUS
<1>1. p.from \in Cursor /\ p.to \in Cursor
  BY DEF Page
<1>2. QED
  BY <1>1, GoodStays DEF GoodPage, GoodPageNext

(* A page is cut at a good position beyond the one the service has reached.*)
LEMMA CutIsGood ==
  ASSUME StreamInv, NEW to \in Positions, CutPage(to)
  PROVE  to \in Cursor /\ GoodPage([from |-> sent, to |-> to])
<1>1. /\ saved \in Seq(Messages) /\ changeLog \in Seq(Entry) /\ sent \in Cursor
  BY DEF StreamInv, TypeOK
<1>2. to \in Cursor /\ to.messages <= Len(saved) /\ to.changes <= Len(changeLog)
  BY <1>1 DEF Positions, Cursor
<1>3. GoodPosition(sent)
  BY DEF CutPage, StreamInv, InFlightInv
<1>4. /\ sent.messages <= to.messages /\ sent.changes <= to.changes
      /\ to.changes > sent.changes => changeLog[to.changes].through <= to.messages
  BY <1>1, <1>2 DEF CutPage, Cursor
<1>5. ASSUME NEW j \in 1 .. to.changes
      PROVE  changeLog[j].through <= to.messages
  <2>1. j \in DOMAIN changeLog /\ to.changes \in DOMAIN changeLog
    BY <1>1, <1>2 DEF Cursor
  <2>2. changeLog[j] \in Entry /\ changeLog[to.changes] \in Entry
    BY <1>1, <2>1
  <2>3. /\ changeLog[j].through \in Nat /\ changeLog[to.changes].through \in Nat
        /\ sent.messages \in Nat /\ to.messages \in Nat
        /\ sent.changes \in Nat /\ to.changes \in Nat
    BY <1>1, <1>2, <2>2 DEF Entry, Cursor
  <2>4. CASE to.changes > sent.changes
    <3>1. changeLog[j].through <= changeLog[to.changes].through
      BY <2>1 DEF StreamInv, LogsInv
    <3>2. QED
      BY <1>4, <2>3, <2>4, <3>1
  <2>5. CASE to.changes = sent.changes
    <3>1. changeLog[j].through <= sent.messages
      BY <1>3, <2>5 DEF GoodPosition
    <3>2. QED
      BY <1>4, <2>3, <3>1
  <2>6. QED
    BY <1>4, <2>3, <2>4, <2>5
<1>6. GoodPosition(to)
  BY <1>2, <1>5 DEF GoodPosition
<1>7. QED
  BY <1>2, <1>3, <1>4, <1>6 DEF GoodPage

(* What a step may do to the pages on their way and to the two ends they   *)
(* lead between.                                                           *)
FlightStep ==
  \/ /\ UNCHANGED <<cursor, sent, pages>>
     /\ phase = "open" <=> phase' = "open"
  \/ /\ phase = "open" /\ UNCHANGED <<cursor, phase>>
     /\ \E to \in Positions : CutPage(to)
  \/ /\ phase # "open" /\ phase' = "open"
     /\ UNCHANGED cursor /\ sent' = cursor /\ pages' = <<>>
  \/ /\ phase = "open" /\ phase' # "open"
     /\ pages' = <<>>
     /\ \/ UNCHANGED cursor
        \/ pages # <<>> /\ cursor' = pages[1].to
  \/ /\ phase = "open" /\ pages # <<>> /\ UNCHANGED <<phase, sent>>
     /\ cursor' = pages[1].to /\ pages' = Tail(pages)

LEMMA StepOfFlight == StreamInv /\ [Next]_vars => FlightStep
<1> SUFFICES ASSUME StreamInv, [Next]_vars PROVE FlightStep
  OBVIOUS
<1>1. CASE UNCHANGED vars
  BY <1>1 DEF FlightStep, vars, reducerVars, connectionVars
<1>2. ASSUME NEW to \in Positions, CutPage(to) PROVE FlightStep
  BY <1>2 DEF CutPage, FlightStep, reducerVars
<1>3. CASE \/ \E t \in Turns : Claim(t)
           \/ \E t \in Turns, e \in BOOLEAN : Advance(t, e)
           \/ \E m \in Messages : Save(m)
           \/ \E b \in Block : Publish(b)
  BY <1>3 DEF Claim, Advance, Save, Publish, FlightStep, reducerVars,
     connectionVars
<1>4. CASE Connect \/ ConnectFails \/ ConnectRefused \/ Wake
  BY <1>4 DEF Connect, ConnectFails, ConnectRefused, Wake, FlightStep,
     reducerVars, connectionVars
<1>5. CASE Drop \/ ReceiveTruncated
  BY <1>5 DEF Drop, ReceiveTruncated, Hangup, FlightStep, reducerVars
<1>6. CASE ReceivePage
  <2>1. cursor' = pages[1].to
    BY <1>6, FirstPage DEF ReceivePage, ApplyUpdate, UpdateOf
  <2>2. QED
    BY <1>6, <2>1 DEF ReceivePage, Hangup, FlightStep
<1>7. CASE ReceiveLive
  BY <1>7 DEF ReceiveLive, ApplyDelta, AppendPreview, RefusePreview,
     ApplyResync, FlightStep, reducerVars
<1>8. QED
  BY <1>1, <1>2, <1>3, <1>4, <1>5, <1>6, <1>7 DEF Next, Service, Reader

LEMMA FlightStaysInv ==
  ASSUME StreamInv, LogStep, FlightStep
  PROVE  InFlightInv'
<1>1. /\ pages \in Seq(Page) /\ sent \in Cursor /\ cursor \in Cursor
  BY DEF StreamInv, TypeOK, ReducerTypeOK
<1>2. /\ GoodPosition(cursor)
      /\ phase # "open" => pages = <<>>
      /\ phase = "open" =>
           /\ GoodPosition(sent)
           /\ pages = <<>> => sent = cursor
           /\ pages # <<>> => pages[1].from = cursor /\ pages[Len(pages)].to = sent
      /\ \A i \in DOMAIN pages : GoodPage(pages[i])
      /\ \A i \in 1 .. (Len(pages) - 1) : pages[i].to = pages[i + 1].from
  BY DEF StreamInv, InFlightInv
<1>3. \A i \in DOMAIN pages : pages[i] \in Page /\ GoodPageNext(pages[i])
  BY <1>1, <1>2, GoodPageStays
<1>4. GoodNext(cursor) /\ (phase = "open" => GoodNext(sent))
  BY <1>1, <1>2, GoodStays
<1> SUFFICES
      /\ GoodNext(cursor')
      /\ phase' # "open" => pages' = <<>>
      /\ phase' = "open" =>
           /\ GoodNext(sent')
           /\ pages' = <<>> => sent' = cursor'
           /\ pages' # <<>> => /\ pages'[1].from = cursor'
                               /\ pages'[Len(pages')].to = sent'
      /\ \A i \in DOMAIN pages' : GoodPageNext(pages'[i])
      /\ \A i \in 1 .. (Len(pages') - 1) : pages'[i].to = pages'[i + 1].from
  BY DEF InFlightInv, GoodPosition, GoodPage, GoodNext, GoodPageNext
<1>5. CASE /\ UNCHANGED <<cursor, sent, pages>>
           /\ phase = "open" <=> phase' = "open"
  BY <1>2, <1>3, <1>4, <1>5
<1>6. ASSUME phase = "open", UNCHANGED <<cursor, phase>>,
             NEW to \in Positions, CutPage(to)
      PROVE  /\ GoodNext(sent') /\ pages' # <<>>
             /\ pages'[1].from = cursor /\ pages'[Len(pages')].to = sent'
             /\ \A i \in DOMAIN pages' : GoodPageNext(pages'[i])
             /\ \A i \in 1 .. (Len(pages') - 1) :
                  pages'[i].to = pages'[i + 1].from
  <2> DEFINE page == [from |-> sent, to |-> to]
  <2>1. pages' = Append(pages, page) /\ sent' = to
    BY <1>6 DEF CutPage
  <2>2. to \in Cursor /\ GoodPage(page)
    BY <1>6, CutIsGood
  <2>3. page \in Page
    BY <1>1, <2>2 DEF Page
  <2>4. page.from = sent /\ page.to = to
    OBVIOUS
  <2>5. GoodPageNext(page) /\ GoodNext(to)
    BY <2>2, <2>3, <2>4, GoodPageStays DEF GoodPageNext
  <2> HIDE DEF page
  <2>6. /\ Len(pages') = Len(pages) + 1 /\ pages'[Len(pages) + 1] = page
        /\ \A i \in DOMAIN pages : pages'[i] = pages[i]
        /\ Len(pages) \in Nat
        /\ DOMAIN pages' = 1 .. (Len(pages) + 1)
        /\ DOMAIN pages = 1 .. Len(pages)
    BY <1>1, <2>1, <2>3
  <2>7. pages' # <<>> /\ pages'[Len(pages')].to = sent'
    BY <2>1, <2>4, <2>6
  <2>8. pages'[1].from = cursor
    <3>1. CASE Len(pages) = 0
      BY <1>1, <1>2, <1>6, <2>4, <2>6, <3>1
    <3>2. CASE Len(pages) # 0
      BY <1>1, <1>2, <1>6, <2>6, <3>2
    <3>3. QED
      BY <3>1, <3>2
  <2>9. \A i \in DOMAIN pages' : GoodPageNext(pages'[i])
    BY <1>3, <2>5, <2>6
  <2>10. ASSUME NEW i \in 1 .. (Len(pages') - 1)
         PROVE  pages'[i].to = pages'[i + 1].from
    <3>1. CASE i = Len(pages)
      BY <1>1, <1>2, <1>6, <2>4, <2>6, <2>10, <3>1
    <3>2. CASE i # Len(pages)
      <4>1. /\ i \in 1 .. (Len(pages) - 1)
            /\ i \in DOMAIN pages /\ i + 1 \in DOMAIN pages
        <5>1. i \in 1 .. Len(pages) /\ Len(pages) \in Nat
          BY <2>6, <2>10
        <5>2. i \in 1 .. (Len(pages) - 1) /\ i + 1 \in 1 .. Len(pages)
          BY <3>2, <5>1
        <5>3. QED
          BY <2>6, <5>1, <5>2
      <4>2. QED
        BY <1>2, <2>6, <4>1
    <3>3. QED
      BY <3>1, <3>2
  <2>11. QED
    BY <2>1, <2>5, <2>7, <2>8, <2>9, <2>10
<1>7. CASE /\ phase # "open" /\ phase' = "open"
           /\ UNCHANGED cursor /\ sent' = cursor /\ pages' = <<>>
  BY <1>4, <1>7
<1>8. ASSUME pages # <<>>
      PROVE  /\ GoodNext(pages[1].to)
             /\ 1 \in DOMAIN pages
  <2>1. 1 \in DOMAIN pages
    BY <1>1, <1>8
  <2>2. QED
    BY <1>3, <2>1 DEF GoodPageNext
<1>9. CASE /\ phase = "open" /\ phase' # "open"
           /\ pages' = <<>>
           /\ \/ UNCHANGED cursor
              \/ pages # <<>> /\ cursor' = pages[1].to
  BY <1>4, <1>8, <1>9
<1>10. CASE /\ phase = "open" /\ pages # <<>> /\ UNCHANGED <<phase, sent>>
            /\ cursor' = pages[1].to /\ pages' = Tail(pages)
  <2>1. /\ Len(pages') = Len(pages) - 1 /\ Len(pages) \in Nat \ {0}
        /\ \A i \in 1 .. Len(pages') : pages'[i] = pages[i + 1]
        /\ DOMAIN pages' = 1 .. (Len(pages) - 1)
        /\ DOMAIN pages = 1 .. Len(pages)
    BY <1>1, <1>10
  <2>2. pages' = <<>> => Len(pages) = 1
    <3>1. pages' = <<>> => Len(pages') = 0
      OBVIOUS
    <3>2. QED
      BY <2>1, <3>1
  <2>3. \A i \in DOMAIN pages' : GoodPageNext(pages'[i])
    BY <1>3, <2>1
  <2>4. \A i \in 1 .. (Len(pages') - 1) : pages'[i].to = pages'[i + 1].from
    BY <1>2, <2>1
  <2>5. pages' = <<>> => sent' = cursor'
    BY <1>2, <1>10, <2>2
  <2>6. pages' # <<>> => /\ pages'[1].from = cursor'
                         /\ pages'[Len(pages')].to = sent'
    <3> SUFFICES ASSUME pages' # <<>> PROVE /\ pages'[1].from = cursor'
                                            /\ pages'[Len(pages')].to = sent'
      OBVIOUS
    <3>1. Len(pages) > 1
      BY <1>1, <1>10, <2>1
    <3>2. pages'[1] = pages[2] /\ pages'[Len(pages')] = pages[Len(pages)]
      BY <2>1, <3>1
    <3>3. pages[1].to = pages[2].from
      BY <1>2, <2>1, <3>1
    <3>4. QED
      BY <1>2, <1>10, <3>2, <3>3
  <2>7. QED
    BY <1>4, <1>8, <1>10, <2>3, <2>4, <2>5, <2>6
<1>11. QED
  BY <1>4, <1>5, <1>6, <1>7, <1>9, <1>10 DEF FlightStep

-----------------------------------------------------------------------------
(* The durable view.                                                       *)
(* Folding a set of changes that is already folded with new ones folds     *)
(* them all, if each change folded away is dominated by one that was kept. *)
LEMMA LatestOfUnion ==
  ASSUME NEW A \in SUBSET Change, NEW B \in SUBSET Change,
         \A d \in A : \E e \in Latest(A) :
           e.turn = d.turn /\ d.revision <= e.revision
  PROVE  Latest(Latest(A) \cup B) = Latest(A \cup B)
<1>1. \A d \in A \cup B : d.revision \in Nat
  BY DEF Change
<1>2. Latest(A) \subseteq A
  BY DEF Latest
<1>3. ASSUME NEW c \in Latest(Latest(A) \cup B) PROVE c \in Latest(A \cup B)
  <2>1. c \in A \cup B
    BY <1>2, <1>3 DEF Latest
  <2>2. \A d \in Latest(A) \cup B : d.turn = c.turn => d.revision <= c.revision
    BY <1>3 DEF Latest
  <2>3. ASSUME NEW d \in A, d.turn = c.turn PROVE d.revision <= c.revision
    <3>1. PICK e \in Latest(A) : e.turn = d.turn /\ d.revision <= e.revision
      OBVIOUS
    <3>2. e.revision <= c.revision
      BY <2>2, <2>3, <3>1
    <3>3. QED
      BY <1>1, <1>2, <2>1, <3>1, <3>2
  <2>4. QED
    BY <2>1, <2>2, <2>3 DEF Latest
<1>4. ASSUME NEW c \in Latest(A \cup B) PROVE c \in Latest(Latest(A) \cup B)
  BY <1>2, <1>4 DEF Latest
<1>5. QED
  BY <1>3, <1>4

(* The rows that were in the logs are still there.                         *)
LEMMA RowsStay ==
  ASSUME StreamInv, LogStep
  PROVE  /\ \A i \in 1 .. cursor.messages : saved'[i] = saved[i]
         /\ \A j \in 1 .. cursor.changes : changeLog'[j] = changeLog[j]
<1>1. /\ saved \in Seq(Messages) /\ changeLog \in Seq(Entry) /\ cursor \in Cursor
      /\ GoodPosition(cursor)
  BY DEF StreamInv, TypeOK, ReducerTypeOK, InFlightInv
<1>2. /\ cursor.messages \in Nat /\ cursor.changes \in Nat
      /\ cursor.messages <= Len(saved) /\ cursor.changes <= Len(changeLog)
  BY <1>1 DEF Cursor, GoodPosition
<1>3. /\ \A i \in 1 .. cursor.messages : i \in DOMAIN saved
      /\ \A j \in 1 .. cursor.changes : j \in DOMAIN changeLog
  BY <1>1, <1>2
<1>4. QED
  BY <1>3, GrowthOfLogs DEF LogsGrow

LEMMA DurableUntouched ==
  ASSUME StreamInv, LogStep,
         UNCHANGED <<messages, changes, terminalTurns, cursor>>
  PROVE  DurableViewIsLogPrefix'
<1>1. DurableViewIsLogPrefix
  BY DEF StreamInv
<1>2. /\ \A i \in 1 .. cursor.messages : MessageAt(i)' = MessageAt(i)
      /\ \A j \in 1 .. cursor.changes : ChangeAt(j)' = ChangeAt(j)
  BY RowsStay DEF MessageAt, ChangeAt
<1>3. {MessageAt(i)' : i \in 1 .. cursor.messages}
        = {MessageAt(i) : i \in 1 .. cursor.messages}
  BY <1>2
<1>4. {ChangeAt(j)' : j \in 1 .. cursor.changes}
        = {ChangeAt(j) : j \in 1 .. cursor.changes}
  BY <1>2
<1>5. {changeLog'[j].turn : j \in {k \in 1 .. cursor.changes : changeLog'[k].terminal}}
        = {changeLog[j].turn : j \in {k \in 1 .. cursor.changes : changeLog[k].terminal}}
  BY RowsStay
<1>6. QED
  BY <1>1, <1>3, <1>4, <1>5 DEF DurableViewIsLogPrefix

(* Of the changes up to a position, each is dominated by one that is kept. *)
LEMMA PrefixHasLatest ==
  ASSUME StreamInv, NEW n \in 0 .. Len(changeLog)
  PROVE  /\ \A j \in 1 .. n : ChangeAt(j) \in Change
         /\ \A j \in 1 .. n : \E e \in Latest({ChangeAt(i) : i \in 1 .. n}) :
              e.turn = ChangeAt(j).turn /\ ChangeAt(j).revision <= e.revision
<1> DEFINE A == {ChangeAt(j) : j \in 1 .. n}
<1>1. changeLog \in Seq(Entry) /\ LogsInv
  BY DEF StreamInv, TypeOK
<1>2. ASSUME NEW j \in 1 .. n
      PROVE  /\ ChangeAt(j) \in Change
             /\ ChangeAt(j).revision = j
             /\ ChangeAt(j).turn = changeLog[j].turn
  <2>1. j \in DOMAIN changeLog /\ j \in Nat \ {0}
    BY <1>1
  <2>2. changeLog[j] \in Entry /\ changeLog[j].revision = j
    BY <1>1, <2>1 DEF LogsInv
  <2>3. QED
    BY <2>2 DEF ChangeAt, Change, Entry
<1>3. ASSUME NEW j \in 1 .. n
      PROVE  \E e \in Latest(A) :
               e.turn = ChangeAt(j).turn /\ ChangeAt(j).revision <= e.revision
  <2>1. PICK k \in 1 .. n :
          /\ changeLog[k].turn = changeLog[j].turn
          /\ \A l \in 1 .. n : changeLog[l].turn = changeLog[j].turn => l <= k
    BY <1>1 DEF LogsInv, HasLatest
  <2>2. \A l \in 1 .. n : ChangeAt(l).turn = ChangeAt(k).turn
                            => ChangeAt(l).revision <= ChangeAt(k).revision
    BY <1>2, <2>1
  <2>3. ChangeAt(k) \in Latest(A)
    BY <2>2 DEF Latest
  <2>4. QED
    BY <1>2, <2>1, <2>3
<1>4. QED
  BY <1>2, <1>3

LEMMA DurableGrows ==
  ASSUME StreamInv, UNCHANGED <<saved, changeLog>>, phase = "open", pages # <<>>,
         ApplyUpdate(UpdateOf(Head(pages)))
  PROVE  DurableViewIsLogPrefix'
<1> DEFINE p == pages[1]
           A == {ChangeAt(j) : j \in 1 .. p.from.changes}
           B == {ChangeAt(j) : j \in (p.from.changes + 1) .. p.to.changes}
           M == {MessageAt(i) : i \in (p.from.messages + 1) .. p.to.messages}
<1>1. /\ p \in Page /\ GoodPage(p) /\ Head(pages) = p /\ p.from = cursor
      /\ saved \in Seq(Messages) /\ changeLog \in Seq(Entry)
  BY FirstPage DEF StreamInv, InFlightInv, TypeOK
<1>2. /\ p.from.messages \in Nat /\ p.to.messages \in Nat
      /\ p.from.changes \in Nat /\ p.to.changes \in Nat
      /\ p.from.messages <= p.to.messages /\ p.from.changes <= p.to.changes
      /\ p.from.changes <= Len(changeLog) /\ p.to.changes <= Len(changeLog)
  BY <1>1 DEF Page, Cursor, GoodPage, GoodPosition
<1>3. /\ messages = {MessageAt(i) : i \in 1 .. p.from.messages}
      /\ changes = Latest(A)
      /\ terminalTurns = {changeLog[j].turn :
           j \in {k \in 1 .. p.from.changes : changeLog[k].terminal}}
  BY <1>1 DEF StreamInv, DurableViewIsLogPrefix
<1>4. /\ messages' = {m \in messages : m.sequence \notin {n.sequence : n \in M}} \cup M
      /\ changes' = Latest(changes \cup B)
      /\ terminalTurns' = terminalTurns
                            \cup {c.turn : c \in {d \in B : d.terminal}}
      /\ cursor' = p.to
  BY <1>1 DEF ApplyUpdate, UpdateOf
<1>5. \A i \in 1 .. p.to.messages :
        \/ i \in 1 .. p.from.messages
        \/ i \in (p.from.messages + 1) .. p.to.messages
  BY <1>2
<1>6. \A j \in 1 .. p.to.changes :
        \/ j \in 1 .. p.from.changes
        \/ j \in (p.from.changes + 1) .. p.to.changes
  BY <1>2
<1>7. messages' = {MessageAt(i) : i \in 1 .. p.to.messages}
  <2>1. \A i \in 1 .. p.from.messages :
          MessageAt(i).sequence \notin {n.sequence : n \in M}
    BY <1>2 DEF MessageAt
  <2>2. messages' = {MessageAt(i) : i \in 1 .. p.from.messages} \cup M
    BY <1>3, <1>4, <2>1
  <2>3. QED
    BY <1>2, <1>5, <2>2
<1>8. A \cup B = {ChangeAt(j) : j \in 1 .. p.to.changes}
  BY <1>2, <1>6
<1>9. changes' = Latest({ChangeAt(j) : j \in 1 .. p.to.changes})
  <2>1. /\ p.from.changes \in 0 .. Len(changeLog)
        /\ p.to.changes \in 0 .. Len(changeLog)
    BY <1>1, <1>2
  <2>2. /\ A \in SUBSET Change
        /\ \A d \in A : \E e \in Latest(A) :
             e.turn = d.turn /\ d.revision <= e.revision
    <3>1. /\ \A j \in 1 .. p.from.changes : ChangeAt(j) \in Change
          /\ \A j \in 1 .. p.from.changes : \E e \in Latest(A) :
               e.turn = ChangeAt(j).turn /\ ChangeAt(j).revision <= e.revision
      BY <2>1, PrefixHasLatest
    <3>2. QED
      BY <3>1
  <2>3. B \in SUBSET Change
    <3>1. \A j \in 1 .. p.to.changes : ChangeAt(j) \in Change
      BY <2>1, PrefixHasLatest
    <3>2. QED
      BY <1>2, <3>1
  <2> HIDE DEF A, B
  <2>4. Latest(Latest(A) \cup B) = Latest(A \cup B)
    BY <2>2, <2>3, LatestOfUnion
  <2>5. QED
    BY <1>3, <1>4, <1>8, <2>4
<1>10. terminalTurns' = {changeLog[j].turn :
                          j \in {k \in 1 .. p.to.changes : changeLog[k].terminal}}
  <2> DEFINE Ends(i, k) == {changeLog[j].turn : j \in {l \in i .. k : changeLog[l].terminal}}
             new == {c.turn : c \in {d \in B : d.terminal}}
  <2>1. \A j : /\ ChangeAt(j).turn = changeLog[j].turn
               /\ ChangeAt(j).terminal = changeLog[j].terminal
    BY DEF ChangeAt
  <2>2. \A t : t \in new <=> \E d \in B : d.terminal /\ d.turn = t
    <3> HIDE DEF B
    <3>1. QED
      OBVIOUS
  <2>3. new = Ends(p.from.changes + 1, p.to.changes)
    <3>1. \A t : t \in new <=>
            \E j \in (p.from.changes + 1) .. p.to.changes :
              ChangeAt(j).terminal /\ ChangeAt(j).turn = t
      <4> HIDE DEF new
      <4>1. QED
        BY <2>2
    <3>2. \A t : t \in Ends(p.from.changes + 1, p.to.changes) <=>
            \E j \in (p.from.changes + 1) .. p.to.changes :
              changeLog[j].terminal /\ changeLog[j].turn = t
      <4>1. \A S, t : t \in {changeLog[j].turn : j \in {l \in S : changeLog[l].terminal}}
                       <=> \E j \in S : changeLog[j].terminal /\ changeLog[j].turn = t
        OBVIOUS
      <4>2. QED
        BY <4>1
    <3> HIDE DEF new, Ends, B
    <3>3. \A t : t \in new <=> t \in Ends(p.from.changes + 1, p.to.changes)
      BY <2>1, <3>1, <3>2
    <3>4. QED
      BY <3>3
  <2>4. Ends(1, p.from.changes) \cup Ends(p.from.changes + 1, p.to.changes)
          = Ends(1, p.to.changes)
    BY <1>2, <1>6
  <2>5. terminalTurns' = Ends(1, p.from.changes) \cup new
    BY <1>3, <1>4
  <2> HIDE DEF Ends, new
  <2>6. terminalTurns' = Ends(1, p.to.changes)
    BY <2>3, <2>4, <2>5
  <2>7. QED
    BY <2>6 DEF Ends
<1>11. /\ \A i : MessageAt(i)' = MessageAt(i)
       /\ \A j : ChangeAt(j)' = ChangeAt(j)
  BY DEF MessageAt, ChangeAt
<1>12. /\ {MessageAt(i)' : i \in 1 .. p.to.messages}
            = {MessageAt(i) : i \in 1 .. p.to.messages}
       /\ {ChangeAt(j)' : j \in 1 .. p.to.changes}
            = {ChangeAt(j) : j \in 1 .. p.to.changes}
  BY <1>11
<1> HIDE DEF p, A, B, M
<1>13. QED
  BY <1>4, <1>7, <1>9, <1>10, <1>12 DEF DurableViewIsLogPrefix

(* What a step may do to the durable half of the view: nothing, or take    *)
(* the rows of the first page on its way.                                  *)
DurableStep ==
  \/ UNCHANGED <<messages, changes, terminalTurns, cursor>>
  \/ /\ UNCHANGED <<saved, changeLog>>
     /\ phase = "open" /\ pages # <<>>
     /\ ApplyUpdate(UpdateOf(Head(pages)))

LEMMA StepOfDurable == StreamInv /\ [Next]_vars => DurableStep
<1> SUFFICES ASSUME StreamInv, [Next]_vars PROVE DurableStep
  OBVIOUS
<1>1. CASE UNCHANGED vars
  BY <1>1 DEF DurableStep, vars, reducerVars
<1>2. CASE Service
  BY <1>2 DEF Service, Claim, Advance, Save, Publish, CutPage, DurableStep,
     reducerVars
<1>3. CASE Connect \/ ConnectFails \/ ConnectRefused \/ Wake \/ Drop
           \/ ReceiveTruncated
  BY <1>3 DEF Connect, ConnectFails, ConnectRefused, Wake, Drop,
     ReceiveTruncated, DurableStep, reducerVars
<1>4. CASE ReceivePage
  BY <1>4 DEF ReceivePage, DurableStep, serviceVars
<1>5. CASE ReceiveLive
  BY <1>5 DEF ReceiveLive, ApplyDelta, AppendPreview, RefusePreview,
     ApplyResync, DurableStep, reducerVars
<1>6. QED
  BY <1>1, <1>2, <1>3, <1>4, <1>5 DEF Next, Reader

LEMMA StreamInvStep == StreamInv /\ [Next]_vars => StreamInv'
<1> SUFFICES ASSUME StreamInv, [Next]_vars PROVE StreamInv'
  OBVIOUS
<1>1. LogStep /\ ReducerStep /\ FlightStep /\ DurableStep
  BY StepOfLogs, StepOfReducer, StepOfFlight, StepOfDurable
<1>2. LogsInv'
  BY <1>1, LogsStep
<1>3. ReducerInv'
  BY <1>1, ReducerStaysCoherent
<1>4. TypeOK'
  BY <1>1, <1>3, GrowthOfLogs, TypeStep
<1>5. InFlightInv'
  BY <1>1, FlightStaysInv
<1>6. DurableViewIsLogPrefix'
  BY <1>1, DurableUntouched, DurableGrows DEF DurableStep
<1>7. QED
  BY <1>2, <1>3, <1>4, <1>5, <1>6 DEF StreamInv

-----------------------------------------------------------------------------
(* The theorems.                                                           *)

(* The inductive invariant: the Reducer is coherent, the logs are ordered, *)
(* the pages on their way join the reader's cursor to the service's        *)
(* position, and the durable view is the logs up to that cursor.           *)
THEOREM StreamInvariant == Spec => []StreamInv
<1>1. Init => StreamInv
  BY InitStream
<1>2. StreamInv /\ [Next]_vars => StreamInv'
  BY StreamInvStep
<1>3. QED
  BY <1>1, <1>2, PTL DEF Spec

(* Every variable keeps its type.                                          *)
THEOREM TypeCorrect == Spec => []TypeOK
<1>1. StreamInv => TypeOK
  BY DEF StreamInv
<1>2. QED
  BY <1>1, StreamInvariant, PTL

(* The durable view of `_read_stream`'s Reducer is exactly the two logs up *)
(* to the cursor, after any number of lost connections.                    *)
THEOREM DurableViewCorrect == Spec => []DurableViewIsLogPrefix
<1>1. StreamInv => DurableViewIsLogPrefix
  BY DEF StreamInv
<1>2. QED
  BY <1>1, StreamInvariant, PTL

(* A message of a Turn that has ended precedes the end in every position.  *)
LEMMA EndComesAfter ==
  ASSUME StreamInv, NEW c \in Cursor, GoodPosition(c),
         NEW j \in 1 .. c.changes, changeLog[j].terminal,
         NEW i \in DOMAIN saved, Origin[saved[i]].turn = changeLog[j].turn
  PROVE  i \in 1 .. c.messages
<1>1. /\ saved \in Seq(Messages) /\ changeLog \in Seq(Entry) /\ LogsInv
  BY DEF StreamInv, TypeOK
<1>2. /\ c.messages \in Nat /\ c.changes \in Nat /\ c.changes <= Len(changeLog)
      /\ changeLog[j].through <= c.messages
  BY DEF Cursor, GoodPosition
<1>3. j \in DOMAIN changeLog
  BY <1>1, <1>2
<1>4. changeLog[j] \in Entry
  BY <1>1, <1>3
<1>5. changeLog[j].through \in Nat
  BY <1>4 DEF Entry
<1>6. i <= changeLog[j].through
  BY <1>1, <1>3 DEF LogsInv
<1>7. QED
  BY <1>1, <1>2, <1>5, <1>6

(* A reader told that a Turn is over has every message of it, however the  *)
(* stream was cut into pages and connections.                              *)
THEOREM SettledCorrect == Spec => []SettledAfterItsMessages
<1>1. StreamInv => SettledAfterItsMessages
  <2> SUFFICES ASSUME StreamInv, NEW i \in DOMAIN saved,
                      Origin[saved[i]].turn \in terminalTurns
               PROVE  MessageAt(i) \in messages
    BY DEF SettledAfterItsMessages
  <2>1. /\ DurableViewIsLogPrefix /\ cursor \in Cursor /\ GoodPosition(cursor)
    BY DEF StreamInv, TypeOK, ReducerTypeOK, InFlightInv
  <2>2. PICK j \in 1 .. cursor.changes :
          changeLog[j].terminal /\ changeLog[j].turn = Origin[saved[i]].turn
    BY <2>1 DEF DurableViewIsLogPrefix
  <2>3. i \in 1 .. cursor.messages
    BY <2>1, <2>2, EndComesAfter
  <2>4. QED
    BY <2>1, <2>3 DEF DurableViewIsLogPrefix
<1>2. QED
  BY <1>1, StreamInvariant, PTL

(* No late, replayed or superseded fragment brings back the preview of a   *)
(* Turn the Reducer has recorded as over.                                  *)
THEOREM SettledTurnsHaveNoPreview == Spec => []NoPreviewOfSettledTurn
<1>1. StreamInv => NoPreviewOfSettledTurn
  BY DEF StreamInv, ReducerInv
<1>2. QED
  BY <1>1, StreamInvariant, PTL

(* The previews of one Turn all belong to the attempt the Reducer holds    *)
(* for it: the text of two workers is never mixed.                         *)
THEOREM PreviewsOfOneAttempt == Spec => []OneAttemptPerTurn
<1>1. StreamInv => OneAttemptPerTurn
  BY DEF StreamInv, ReducerInv
<1>2. QED
  BY <1>1, StreamInvariant, PTL

(* What the view becomes when the first page on its way is taken.          *)
LEMMA DurableAfterPage ==
  ASSUME StreamInv, DurableViewIsLogPrefix', UNCHANGED <<saved, changeLog>>,
         phase = "open", pages # <<>>, ApplyUpdate(UpdateOf(Head(pages)))
  PROVE  LET to == pages[1].to
         IN /\ to \in Cursor /\ GoodPosition(to)
            /\ cursor' = to
            /\ to.messages >= cursor.messages /\ to.changes >= cursor.changes
            /\ messages' = {MessageAt(i) : i \in 1 .. to.messages}
            /\ changes' = Latest({ChangeAt(j) : j \in 1 .. to.changes})
            /\ terminalTurns' = {changeLog[j].turn :
                 j \in {k \in 1 .. to.changes : changeLog[k].terminal}}
<1> DEFINE to == pages[1].to
<1>1. /\ pages[1] \in Page /\ GoodPage(pages[1]) /\ Head(pages) = pages[1]
      /\ pages[1].from = cursor
  BY FirstPage DEF StreamInv, InFlightInv
<1>2. to \in Cursor /\ cursor \in Cursor
  BY <1>1 DEF Page
<1>3. cursor' = to
  BY <1>1 DEF ApplyUpdate, UpdateOf
<1>4. /\ GoodPosition(to)
      /\ cursor.messages <= to.messages /\ cursor.changes <= to.changes
  BY <1>1 DEF GoodPage
<1>5. /\ to.messages \in Nat /\ to.changes \in Nat
      /\ cursor.messages \in Nat /\ cursor.changes \in Nat
  BY <1>2 DEF Cursor
<1>6. /\ \A i : MessageAt(i)' = MessageAt(i)
      /\ \A j : ChangeAt(j)' = ChangeAt(j)
  BY DEF MessageAt, ChangeAt
<1>7. /\ {MessageAt(i)' : i \in 1 .. to.messages}
           = {MessageAt(i) : i \in 1 .. to.messages}
      /\ {ChangeAt(j)' : j \in 1 .. to.changes}
           = {ChangeAt(j) : j \in 1 .. to.changes}
  BY <1>6
<1> HIDE DEF to
<1>8. /\ messages' = {MessageAt(i) : i \in 1 .. to.messages}
      /\ changes' = Latest({ChangeAt(j) : j \in 1 .. to.changes})
      /\ terminalTurns' = {changeLog[j].turn :
           j \in {k \in 1 .. to.changes : changeLog[k].terminal}}
  BY <1>3, <1>7 DEF DurableViewIsLogPrefix
<1>9. to.messages >= cursor.messages /\ to.changes >= cursor.changes
  BY <1>4, <1>5
<1>10. QED
  BY <1>2, <1>3, <1>4, <1>8, <1>9 DEF to

(* No frame takes the durable view backwards.                              *)
Advances ==
  /\ cursor'.messages >= cursor.messages /\ cursor'.changes >= cursor.changes
  /\ messages \subseteq messages'
  /\ terminalTurns \subseteq terminalTurns'
  /\ \A c \in changes : \E d \in changes' :
       d.turn = c.turn /\ d.revision >= c.revision

LEMMA AdvancesStep == StreamInv /\ [Next]_vars => Advances
<1> SUFFICES ASSUME StreamInv, [Next]_vars PROVE Advances
  OBVIOUS
<1>1. DurableStep /\ DurableViewIsLogPrefix' /\ DurableViewIsLogPrefix
  BY StepOfDurable, StreamInvStep DEF StreamInv
<1>2. cursor \in Cursor /\ changes \in SUBSET Change
  BY DEF StreamInv, TypeOK, ReducerTypeOK
<1>3. /\ cursor.messages \in Nat /\ cursor.changes \in Nat
      /\ \A c \in changes : c.revision \in Nat
  BY <1>2 DEF Cursor, Change
<1>4. CASE UNCHANGED <<messages, changes, terminalTurns, cursor>>
  BY <1>3, <1>4 DEF Advances
<1>5. CASE /\ UNCHANGED <<saved, changeLog>>
           /\ phase = "open" /\ pages # <<>>
           /\ ApplyUpdate(UpdateOf(Head(pages)))
  <2> DEFINE to == pages[1].to
  <2>1. /\ to \in Cursor /\ GoodPosition(to)
        /\ cursor' = to
        /\ to.messages >= cursor.messages /\ to.changes >= cursor.changes
        /\ messages' = {MessageAt(i) : i \in 1 .. to.messages}
        /\ changes' = Latest({ChangeAt(j) : j \in 1 .. to.changes})
        /\ terminalTurns' = {changeLog[j].turn :
             j \in {k \in 1 .. to.changes : changeLog[k].terminal}}
    BY <1>1, <1>5, DurableAfterPage
  <2> HIDE DEF to
  <2>2. /\ to.messages \in Nat /\ to.changes \in Nat
        /\ to.changes <= Len(changeLog) /\ changeLog \in Seq(Entry)
    BY <2>1 DEF Cursor, GoodPosition, StreamInv, TypeOK
  <2>3. /\ 1 .. cursor.messages \subseteq 1 .. to.messages
        /\ 1 .. cursor.changes \subseteq 1 .. to.changes
        /\ to.changes \in 0 .. Len(changeLog)
    BY <1>3, <2>1, <2>2
  <2>4. messages \subseteq messages' /\ terminalTurns \subseteq terminalTurns'
    BY <1>1, <2>1, <2>3 DEF DurableViewIsLogPrefix
  <2>5. ASSUME NEW c \in changes
        PROVE  \E d \in changes' : d.turn = c.turn /\ d.revision >= c.revision
    <3>1. PICK j \in 1 .. cursor.changes : c = ChangeAt(j)
      BY <1>1 DEF DurableViewIsLogPrefix, Latest
    <3>2. PICK e \in changes' :
            e.turn = ChangeAt(j).turn /\ ChangeAt(j).revision <= e.revision
      BY <2>1, <2>3, PrefixHasLatest
    <3>3. \A k \in 1 .. to.changes : ChangeAt(k).revision \in Nat
      BY <2>3, PrefixHasLatest DEF Change
    <3>4. e.revision \in Nat /\ c.revision \in Nat
      BY <1>3, <2>1, <3>2, <3>3 DEF Latest
    <3>5. QED
      BY <3>1, <3>2, <3>4
  <2>6. QED
    BY <2>1, <2>4, <2>5 DEF Advances
<1>6. QED
  BY <1>1, <1>4, <1>5 DEF DurableStep

(* The cursor, the messages, the Turns known to be over and the revision   *)
(* known of each Turn only ever grow.                                      *)
THEOREM DurableMonotone == Spec => DurableNeverRetreats
<1>1. StreamInv /\ [Next]_vars => Advances
  BY AdvancesStep
<1>2. QED
  BY <1>1, StreamInvariant, PTL DEF Spec, DurableNeverRetreats, Advances

-----------------------------------------------------------------------------
(* The stream implements the plain feed.                                   *)

over == {t \in Turns : Ended(t)}

LEMMA InitIsFeedInit == Init => Feed!Init
  BY DEF Init, ReducerInit, Feed!Init, Ended

(* A page shows the reader the beginning of the transcript it leads to.    *)
LEMMA PageIsShow ==
  ASSUME StreamInv, DurableViewIsLogPrefix', UNCHANGED <<saved, changeLog>>,
         phase = "open", pages # <<>>, ApplyUpdate(UpdateOf(Head(pages)))
  PROVE  \E n \in 0 .. Len(saved), T \in SUBSET over : Feed!Show(n, T)
<1> DEFINE to == pages[1].to
           T == terminalTurns'
<1>1. /\ to \in Cursor /\ GoodPosition(to)
      /\ to.messages >= cursor.messages /\ to.changes >= cursor.changes
      /\ messages' = {MessageAt(i) : i \in 1 .. to.messages}
      /\ T = {changeLog[j].turn :
                j \in {k \in 1 .. to.changes : changeLog[k].terminal}}
  BY DurableAfterPage
<1> HIDE DEF to
<1>2. /\ to.messages \in Nat /\ to.changes \in Nat
      /\ to.messages <= Len(saved) /\ to.changes <= Len(changeLog)
      /\ saved \in Seq(Messages) /\ changeLog \in Seq(Entry)
      /\ cursor \in Cursor /\ DurableViewIsLogPrefix
  BY <1>1 DEF Cursor, GoodPosition, StreamInv, TypeOK, ReducerTypeOK
<1>3. to.messages \in 0 .. Len(saved)
  BY <1>2
<1>4. T \in SUBSET over
  <2>1. ASSUME NEW j \in 1 .. to.changes, changeLog[j].terminal
        PROVE  changeLog[j].turn \in over
    <3>1. j \in DOMAIN changeLog
      BY <1>2
    <3>2. changeLog[j] \in Entry
      BY <1>2, <3>1
    <3>3. QED
      BY <2>1, <3>1, <3>2 DEF over, Ended, Entry
  <2>2. QED
    BY <1>1, <2>1
<1>5. /\ 1 .. cursor.messages \subseteq 1 .. to.messages
      /\ 1 .. cursor.changes \subseteq 1 .. to.changes
  <2>1. cursor.messages \in Nat /\ cursor.changes \in Nat
    BY <1>2 DEF Cursor
  <2>2. QED
    BY <1>1, <1>2, <2>1
<1>6. Feed!Beginning(to.messages) = {MessageAt(i) : i \in 1 .. to.messages}
  BY DEF Feed!Beginning, MessageAt
<1>7. messages \subseteq {MessageAt(i) : i \in 1 .. to.messages}
  BY <1>2, <1>5 DEF DurableViewIsLogPrefix
<1>8. terminalTurns' = terminalTurns \cup T
  BY <1>1, <1>2, <1>5 DEF DurableViewIsLogPrefix
<1>9. ASSUME NEW i \in DOMAIN saved, Origin[saved[i]].turn \in T
      PROVE  i <= to.messages
  <2>1. PICK j \in 1 .. to.changes :
          changeLog[j].terminal /\ changeLog[j].turn = Origin[saved[i]].turn
    BY <1>1, <1>9
  <2>2. i \in 1 .. to.messages
    BY <1>1, <2>1, EndComesAfter
  <2>3. QED
    BY <1>2, <2>2
<1>10. \A i \in DOMAIN saved : saved[i] \in Messages
  BY <1>2
<1>11. over' = over
  BY DEF over, Ended
<1>12. Feed!Show(to.messages, T)
  BY <1>1, <1>6, <1>7, <1>8, <1>9, <1>10, <1>11 DEF Feed!Show, over
<1>13. QED
  BY <1>3, <1>4, <1>12

LEMMA StepIsFeedStep == StreamInv /\ [Next]_vars => [Feed!Next]_(Feed!feedVars)
<1> SUFFICES ASSUME StreamInv, [Next]_vars
             PROVE  Feed!Next \/ UNCHANGED <<saved, over, messages, terminalTurns>>
  BY DEF Feed!feedVars, over
<1>1. DurableStep /\ DurableViewIsLogPrefix'
  BY StepOfDurable, StreamInvStep DEF StreamInv
<1>2. ASSUME UNCHANGED <<saved, changeLog>>
      PROVE  Feed!Next \/ UNCHANGED <<saved, over, messages, terminalTurns>>
  <2>1. over' = over
    BY <1>2 DEF over, Ended
  <2>2. CASE UNCHANGED <<messages, changes, terminalTurns, cursor>>
    BY <1>2, <2>1, <2>2
  <2>3. CASE /\ phase = "open" /\ pages # <<>>
             /\ ApplyUpdate(UpdateOf(Head(pages)))
    <3>1. \E n \in 0 .. Len(saved), T \in SUBSET over : Feed!Show(n, T)
      BY <1>1, <1>2, <2>3, PageIsShow
    <3>2. QED
      BY <3>1 DEF Feed!Next, over
  <2>4. QED
    BY <1>1, <2>2, <2>3 DEF DurableStep
<1>3. ASSUME NEW t \in Turns, NEW e \in BOOLEAN, ~Ended(t), Commit(t, e),
             UNCHANGED <<saved, messages, terminalTurns>>
      PROVE  Feed!Next \/ UNCHANGED <<saved, over, messages, terminalTurns>>
  <2>1. /\ changeLog \in Seq(Entry)
        /\ changeLog' \in Seq(Entry)
        /\ Len(changeLog') = Len(changeLog) + 1
        /\ \A j \in DOMAIN changeLog : changeLog'[j] = changeLog[j]
        /\ changeLog'[Len(changeLog) + 1].turn = t
        /\ changeLog'[Len(changeLog) + 1].terminal = e
    <3>1. TypeOK /\ changeLog \in Seq(Entry)
      BY DEF StreamInv, TypeOK
    <3>2. /\ changeLog' \in Seq(Entry)
          /\ Len(changeLog') = Len(changeLog) + 1
          /\ \A j \in DOMAIN changeLog : changeLog'[j] = changeLog[j]
          /\ changeLog'[Len(changeLog) + 1] =
               [turn |-> t, revision |-> Len(changeLog) + 1, terminal |-> e,
                through |-> Len(saved)]
      BY <1>3, <3>1, CommitAppends
    <3>3. QED
      BY <3>1, <3>2
  <2>2. Len(changeLog) \in Nat
    BY <2>1
  <2>3. \A j \in DOMAIN changeLog' : j \in DOMAIN changeLog \/ j = Len(changeLog) + 1
    BY <2>1, <2>2
  <2>4. /\ \A j \in DOMAIN changeLog : j \in DOMAIN changeLog'
        /\ Len(changeLog) + 1 \in DOMAIN changeLog'
    BY <2>1, <2>2
  <2>5. \A u \in Turns : Ended(u)' <=> Ended(u) \/ (u = t /\ e)
    BY <2>1, <2>3, <2>4 DEF Ended
  <2>6. CASE e = FALSE
    BY <1>3, <2>5, <2>6 DEF over
  <2>7. CASE e = TRUE
    <3>1. over' = over \cup {t}
      BY <2>5, <2>7 DEF over
    <3>2. Feed!End(t)
      BY <1>3, <3>1 DEF Feed!End, over
    <3>3. QED
      BY <3>2 DEF Feed!Next
  <2>8. QED
    BY <2>6, <2>7
<1>4. ASSUME NEW m \in Messages, Save(m) PROVE Feed!Next
  <2>1. over' = over
    BY <1>4 DEF Save, over, Ended
  <2>2. Feed!Write(m)
    BY <1>4, <2>1 DEF Save, IsSaved, reducerVars, Feed!Write, over
  <2>3. QED
    BY <2>2 DEF Feed!Next
<1>5. ASSUME NEW t \in Turns, Claim(t)
      PROVE  Feed!Next \/ UNCHANGED <<saved, over, messages, terminalTurns>>
  BY <1>3, <1>5 DEF Claim, reducerVars
<1>6. ASSUME NEW t \in Turns, NEW e \in BOOLEAN, Advance(t, e)
      PROVE  Feed!Next \/ UNCHANGED <<saved, over, messages, terminalTurns>>
  BY <1>3, <1>6 DEF Advance, reducerVars
<1>7. CASE UNCHANGED vars
  BY <1>2, <1>7 DEF vars, serviceVars
<1>8. CASE \/ \E b \in Block : Publish(b)
           \/ \E to \in Positions : CutPage(to)
  BY <1>2, <1>8 DEF Publish, CutPage, serviceVars
<1>9. CASE Reader
  BY <1>2, <1>9 DEF Reader, Connect, ConnectFails, ConnectRefused, Wake, Drop,
     ReceiveTruncated, ReceivePage, ReceiveLive, serviceVars
<1>10. QED
  BY <1>4, <1>5, <1>6, <1>7, <1>8, <1>9 DEF Next, Service

(* However the rows are cut into pages, and however many connections break,*)
(* the reader of `_read_stream` sees what TranscriptFeed promises.         *)
THEOREM ImplementsFeed == Spec => IsTranscriptFeed
<1>1. Init => Feed!Init
  BY InitIsFeedInit
<1>2. StreamInv /\ [Next]_vars => [Feed!Next]_(Feed!feedVars)
  BY StepIsFeedStep
<1>3. QED
  BY <1>1, <1>2, StreamInvariant, PTL DEF Spec, IsTranscriptFeed, Feed!Spec

-----------------------------------------------------------------------------
(* Texts without holes.                                                    *)

Frame == DeltaFrame \cup ResyncFrame

(* Of the frames after place i, the first with news of block b goes on     *)
(* after fragment n or tells a loss; when there is none, n is the last     *)
(* fragment that was published.                                            *)
GoesOn(frames, last, b, n, i) ==
  \/ \E j \in (i + 1) .. Len(frames) :
       /\ b \in LostWith(frames[j])
       /\ \A k \in (i + 1) .. (j - 1) : b \notin LostWith(frames[k])
       /\ frames[j].type = "delta" => frames[j].delta.fragment = n + 1
  \/ /\ \A j \in (i + 1) .. Len(frames) : b \notin LostWith(frames[j])
     /\ last = n

(* It goes on so when the next fragment, or its loss, is sent ...          *)
LEMMA GoesOnWithNews ==
  ASSUME NEW frames \in Seq(Frame), NEW frame \in Frame, NEW b,
         NEW last \in Nat, NEW later \in Nat, NEW n \in Nat, NEW i \in 0 .. Len(frames),
         GoesOn(frames, last, b, n, i),
         IF b \in LostWith(frame) THEN frame.type = "delta" => frame.delta.fragment = last + 1
                                  ELSE later = last
  PROVE  GoesOn(Append(frames, frame), later, b, n, i)
<1> DEFINE more == Append(frames, frame)
<1>1. /\ Len(more) = Len(frames) + 1 /\ more[Len(frames) + 1] = frame
      /\ \A j \in 1 .. Len(frames) : more[j] = frames[j]
  OBVIOUS
<1>2. Len(frames) \in Nat /\ i \in Nat
  OBVIOUS
<1> HIDE DEF more
<1>3. ASSUME NEW j \in (i + 1) .. Len(frames), b \in LostWith(frames[j]),
             \A k \in (i + 1) .. (j - 1) : b \notin LostWith(frames[k]),
             frames[j].type = "delta" => frames[j].delta.fragment = n + 1
      PROVE  GoesOn(more, later, b, n, i)
  <2>1. more[j] = frames[j] /\ \A k \in (i + 1) .. (j - 1) : more[k] = frames[k]
    BY <1>1, <1>2
  <2>2. j \in (i + 1) .. Len(more)
    BY <1>1, <1>2
  <2> QED
    BY <1>3, <2>1, <2>2 DEF GoesOn
<1>4. ASSUME \A j \in (i + 1) .. Len(frames) : b \notin LostWith(frames[j]), last = n
      PROVE  GoesOn(more, later, b, n, i)
  <2>1. \A j \in (i + 1) .. Len(frames) : b \notin LostWith(more[j])
    BY <1>1, <1>2, <1>4
  <2>2. CASE b \in LostWith(frame)
    <3>1. Len(more) \in (i + 1) .. Len(more) /\ more[Len(more)] = frame
          /\ Len(more) - 1 = Len(frames)
      BY <1>1, <1>2
    <3> QED
      BY <1>4, <2>1, <2>2, <3>1 DEF GoesOn
  <2>3. CASE b \notin LostWith(frame)
    <3>1. \A j \in (i + 1) .. Len(more) : b \notin LostWith(more[j])
      BY <1>1, <1>2, <2>1, <2>3
    <3> QED
      BY <1>4, <2>3, <3>1 DEF GoesOn
  <2> QED
    BY <2>2, <2>3
<1>5. QED
  BY <1>3, <1>4 DEF GoesOn, more

(* ... and when a frame before it is received.                             *)
LEMMA GoesOnLater ==
  ASSUME NEW frames \in Seq(Frame), frames # <<>>, NEW b, NEW last \in Nat, NEW n \in Nat,
         NEW i \in 0 .. Len(frames), GoesOn(frames, last, b, n, i),
         i = 0 => b \notin LostWith(frames[1])
  PROVE  GoesOn(Tail(frames), last, b, n, IF i = 0 THEN 0 ELSE i - 1)
<1> DEFINE rest == Tail(frames)
           place == IF i = 0 THEN 0 ELSE i - 1
<1>1. /\ Len(frames) \in Nat /\ Len(frames) # 0 /\ Len(rest) = Len(frames) - 1
      /\ \A j \in 1 .. Len(rest) : rest[j] = frames[j + 1]
  OBVIOUS
<1>2. place \in Nat /\ i \in Nat /\ (i = 0 => place = 0) /\ (i # 0 => place = i - 1)
  OBVIOUS
<1> HIDE DEF rest, place
<1>3. ASSUME NEW j \in (i + 1) .. Len(frames), b \in LostWith(frames[j]),
             \A k \in (i + 1) .. (j - 1) : b \notin LostWith(frames[k]),
             frames[j].type = "delta" => frames[j].delta.fragment = n + 1
      PROVE  GoesOn(rest, last, b, n, place)
  <2>1. j # 1
    BY <1>2, <1>3
  <2>2. j - 1 \in (place + 1) .. Len(rest) /\ rest[j - 1] = frames[j]
    BY <1>1, <1>2, <2>1
  <2>3. ASSUME NEW k \in (place + 1) .. (j - 1 - 1) PROVE b \notin LostWith(rest[k])
    <3>1. k \in Nat /\ j \in Nat /\ place + 1 <= k /\ k <= j - 2 /\ j - 1 <= Len(rest)
      BY <1>1, <1>2, <1>3, <2>2
    <3>2. i <= place + 1
      BY <1>2
    <3>3. k \in 1 .. Len(rest) /\ k + 1 \in (i + 1) .. (j - 1)
      BY <1>1, <1>2, <3>1, <3>2
    <3>4. rest[k] = frames[k + 1]
      BY <1>1, <3>3
    <3> QED
      BY <1>3, <3>3, <3>4
  <2> QED
    BY <1>3, <2>2, <2>3 DEF GoesOn
<1>4. ASSUME \A j \in (i + 1) .. Len(frames) : b \notin LostWith(frames[j]), last = n
      PROVE  GoesOn(rest, last, b, n, place)
  <2>1. ASSUME NEW k \in (place + 1) .. Len(rest) PROVE b \notin LostWith(rest[k])
    <3>1. rest[k] = frames[k + 1] /\ k + 1 \in (i + 1) .. Len(frames)
      BY <1>1, <1>2
    <3> QED
      BY <1>4, <3>1
  <2> QED
    BY <1>4, <2>1 DEF GoesOn
<1>5. QED
  BY <1>3, <1>4 DEF GoesOn, rest, place

(* The next fragment is the one that is received.                          *)
LEMMA GoesOnFirst ==
  ASSUME NEW frames \in Seq(Frame), frames # <<>>, NEW b, NEW last, NEW n \in Nat,
         GoesOn(frames, last, b, n, 0), b \in LostWith(frames[1]), frames[1].type = "delta"
  PROVE  frames[1].delta.fragment = n + 1
<1>1. Len(frames) \in Nat /\ 1 \in (0 + 1) .. Len(frames)
  OBVIOUS
<1>2. PICK j \in (0 + 1) .. Len(frames) :
        /\ \A k \in (0 + 1) .. (j - 1) : b \notin LostWith(frames[k])
        /\ frames[j].type = "delta" => frames[j].delta.fragment = n + 1
  BY <1>1 DEF GoesOn
<1>3. j = 1
  BY <1>1, <1>2
<1>4. QED
  BY <1>2, <1>3

(* With nothing on its way, everything published was received.             *)
LEMMA GoesOnNothing ==
  ASSUME NEW b, NEW last, NEW n, NEW frames \in Seq(Frame),
         \A i \in DOMAIN frames : b \notin LostWith(frames[i]),
         GoesOn(frames, last, b, n, 0)
  PROVE  GoesOn(<<>>, last, b, n, 0)
<1>1. Len(frames) \in Nat /\ Len(<<>>) = 0 /\ DOMAIN frames = 1 .. Len(frames)
  OBVIOUS
<1>2. last = n
  BY <1>1 DEF GoesOn
<1>3. (0 + 1) .. Len(<<>>) = {}
  BY <1>1
<1>4. QED
  BY <1>2, <1>3 DEF GoesOn

NoHole(text) == \A i \in 2 .. Len(text) : text[i] = text[i - 1] + 1

(* The text of block b has no hole, and what is on its way goes on after   *)
(* the fragment before it: after the text, and after each fragment.        *)
OnTrack(b) ==
  /\ NoHole(previews[b].text)
  /\ Live(b) => GoesOn(live, published[b], b,
                       previews[b].text[Len(previews[b].text)], 0)
  /\ \A i \in DOMAIN live :
       live[i].type = "delta" /\ live[i].delta.block = b =>
         GoesOn(live, published[b], b, live[i].delta.fragment, i)

(* A fragment, shown or on its way, is of the Turn and the attempt that    *)
(* write its message.                                                      *)
OfItsOrigin ==
  /\ \A b \in Block : Live(b) => /\ previews[b].turn = Origin[b[1]].turn
                                 /\ previews[b].attempt = Origin[b[1]].attempt
  /\ \A i \in DOMAIN live : live[i].type = "delta" =>
       /\ live[i].delta.turn = Origin[live[i].delta.block[1]].turn
       /\ live[i].delta.attempt = Origin[live[i].delta.block[1]].attempt

HolesInv ==
  /\ OfItsOrigin
  /\ phase # "open" => live = <<>>
  /\ \A b \in Block \ missed : OnTrack(b)

(* A preview stays, or is thrown away.                                     *)
KeptOrGone(b) == previews'[b] \in {previews[b], NoPreview}

LEMMA LiveFrames ==
  ASSUME StreamInv
  PROVE  /\ live \in Seq(Frame)
         /\ DOMAIN live = 1 .. Len(live) /\ Len(live) \in Nat
         /\ \A i \in DOMAIN live : live[i] \in Frame
<1>1. live \in Seq(Frame)
  BY DEF StreamInv, TypeOK, Frame
<1>2. QED
  BY <1>1

LEMMA ShownText ==
  ASSUME StreamInv, NEW b \in Block
  PROVE  /\ previews[b] \in Preview
         /\ previews[b].text \in Seq(Nat)
         /\ Live(b) => /\ Len(previews[b].text) \in Nat \ {0}
                       /\ previews[b].text[Len(previews[b].text)] \in Nat
<1>1. previews[b] \in Preview
  BY DEF StreamInv, ReducerInv, ReducerTypeOK
<1>2. previews[b].text \in Seq(Nat)
  BY <1>1 DEF Preview
<1>3. QED
  BY <1>1, <1>2 DEF Live

LEMMA NoTextNoHole == NoHole(<<>>) /\ NoHole(NoPreview.text) /\ NoPreview.text = <<>>
  BY DEF NoHole, NoPreview

(* Nothing happens to the frames.                                          *)
LEMMA OnTrackQuiet ==
  ASSUME StreamInv, NEW b \in Block, OnTrack(b), KeptOrGone(b), UNCHANGED <<live, published>>
  PROVE  OnTrack(b)'
<1>1. CASE previews'[b] = previews[b]
  BY <1>1 DEF OnTrack, Live
<1>2. CASE previews'[b] = NoPreview
  BY <1>2, NoTextNoHole DEF OnTrack, Live
<1>3. QED
  BY <1>1, <1>2 DEF KeptOrGone

(* The frames are gone, and none of them was about the block.              *)
LEMMA OnTrackCleared ==
  ASSUME StreamInv, NEW b \in Block, OnTrack(b), KeptOrGone(b), UNCHANGED published, live' = <<>>,
         \A i \in DOMAIN live : b \notin LostWith(live[i])
  PROVE  OnTrack(b)'
<1>1. DOMAIN live' = {}
  OBVIOUS
<1>2. CASE previews'[b] = previews[b]
  <2>1. ASSUME Live(b)
        PROVE  GoesOn(<<>>, published[b], b, previews[b].text[Len(previews[b].text)], 0)
    <3>1. GoesOn(live, published[b], b, previews[b].text[Len(previews[b].text)], 0)
      BY <2>1 DEF OnTrack
    <3> QED
      BY <3>1, LiveFrames, GoesOnNothing
  <2>2. NoHole(previews[b].text)
    BY DEF OnTrack
  <2> QED
    BY <1>1, <1>2, <2>1, <2>2 DEF OnTrack, Live
<1>3. CASE previews'[b] = NoPreview
  BY <1>1, <1>3, NoTextNoHole DEF OnTrack, Live
<1>4. QED
  BY <1>2, <1>3 DEF KeptOrGone

(* News of the block, or of others, is sent.                               *)
LEMMA OnTrackNews ==
  ASSUME StreamInv, NEW b \in Block, OnTrack(b), UNCHANGED previews, NEW frame \in Frame,
         live' = Append(live, frame), published'[b] \in Nat,
         IF b \in LostWith(frame)
           THEN frame.type = "delta" => frame.delta.fragment = published[b] + 1
                                        /\ published'[b] = frame.delta.fragment
           ELSE published'[b] = published[b],
         frame.type = "delta" /\ frame.delta.block = b => b \in LostWith(frame)
  PROVE  OnTrack(b)'
<1>1. /\ live \in Seq(Frame) /\ DOMAIN live = 1 .. Len(live) /\ Len(live) \in Nat
      /\ \A i \in DOMAIN live : live[i] \in Frame
  BY LiveFrames
<1>2. /\ Len(live') = Len(live) + 1 /\ DOMAIN live' = 1 .. (Len(live) + 1)
      /\ live'[Len(live) + 1] = frame
      /\ \A i \in DOMAIN live : live'[i] = live[i]
  BY <1>1
<1>3. published[b] \in Nat
  BY DEF StreamInv, TypeOK
<1>4. ASSUME NEW n \in Nat, NEW i \in 0 .. Len(live), GoesOn(live, published[b], b, n, i)
      PROVE  GoesOn(live', published'[b], b, n, i)
  BY <1>1, <1>3, <1>4, GoesOnWithNews
<1>5. Live(b)' => GoesOn(live', published'[b], b, previews'[b].text[Len(previews'[b].text)], 0)
  <2>1. 0 \in 0 .. Len(live)
    BY <1>1
  <2> QED
    BY <1>4, <2>1, ShownText DEF OnTrack, Live
<1>6. ASSUME NEW i \in DOMAIN live', live'[i].type = "delta", live'[i].delta.block = b
      PROVE  GoesOn(live', published'[b], b, live'[i].delta.fragment, i)
  <2>1. CASE i \in DOMAIN live
    <3>1. live[i].delta.fragment \in Nat /\ i \in 0 .. Len(live)
      BY <1>1, <1>2, <1>6, <2>1 DEF Frame, DeltaFrame, ResyncFrame, Delta
    <3>2. GoesOn(live, published[b], b, live[i].delta.fragment, i)
      BY <1>2, <1>6, <2>1 DEF OnTrack
    <3> QED
      BY <1>2, <1>4, <2>1, <3>1, <3>2
  <2>2. CASE i = Len(live) + 1
    <3>1. published'[b] = frame.delta.fragment
      BY <1>2, <1>6, <2>2
    <3>2. \A j \in (i + 1) .. Len(live') : b \notin LostWith(live'[j])
      BY <1>1, <1>2, <2>2
    <3> QED
      BY <1>2, <2>2, <3>1, <3>2 DEF GoesOn
  <2> QED
    BY <1>1, <1>2, <2>1, <2>2
<1>7. QED
  BY <1>5, <1>6 DEF OnTrack

(* The first frame is received: those behind it go on as they did ...      *)
LEMMA FramesBehind ==
  ASSUME StreamInv, NEW b \in Block, OnTrack(b), live # <<>>, live' = Tail(live), UNCHANGED published
  PROVE  /\ \A i \in DOMAIN live' : live'[i].type = "delta" /\ live'[i].delta.block = b =>
              GoesOn(live', published'[b], b, live'[i].delta.fragment, i)
         /\ \A n \in Nat : GoesOn(live, published[b], b, n, 1) => GoesOn(live', published'[b], b, n, 0)
         /\ \A n \in Nat : GoesOn(live, published[b], b, n, 0) /\ b \notin LostWith(live[1])
              => GoesOn(live', published'[b], b, n, 0)
<1>1. /\ live \in Seq(Frame) /\ DOMAIN live = 1 .. Len(live) /\ Len(live) \in Nat
      /\ \A i \in DOMAIN live : live[i] \in Frame
  BY LiveFrames
<1>2. /\ Len(live) # 0 /\ Len(live') = Len(live) - 1 /\ DOMAIN live' = 1 .. (Len(live) - 1)
      /\ \A i \in DOMAIN live' : live'[i] = live[i + 1]
  BY <1>1
<1>3. published[b] \in Nat /\ published'[b] = published[b]
  BY DEF StreamInv, TypeOK
<1>4. ASSUME NEW n \in Nat, NEW i \in 1 .. Len(live), GoesOn(live, published[b], b, n, i)
      PROVE  GoesOn(live', published'[b], b, n, i - 1)
  <2>1. i \in 0 .. Len(live) /\ i # 0
    BY <1>1
  <2> QED
    BY <1>1, <1>3, <1>4, <2>1, GoesOnLater
<1>5. ASSUME NEW n \in Nat, GoesOn(live, published[b], b, n, 0), b \notin LostWith(live[1])
      PROVE  GoesOn(live', published'[b], b, n, 0)
  <2>1. 0 \in 0 .. Len(live)
    BY <1>1
  <2> QED
    BY <1>1, <1>3, <1>5, <2>1, GoesOnLater
<1>6. ASSUME NEW i \in DOMAIN live', live'[i].type = "delta", live'[i].delta.block = b
      PROVE  GoesOn(live', published'[b], b, live'[i].delta.fragment, i)
  <2>1. live'[i] = live[i + 1] /\ i + 1 \in 1 .. Len(live) /\ i + 1 \in DOMAIN live /\ i = i + 1 - 1
    BY <1>1, <1>2
  <2>2. live[i + 1].delta.fragment \in Nat
    BY <1>1, <1>6, <2>1 DEF Frame, DeltaFrame, ResyncFrame, Delta
  <2>3. GoesOn(live, published[b], b, live[i + 1].delta.fragment, i + 1)
    BY <1>6, <2>1 DEF OnTrack
  <2>4. GoesOn(live', published'[b], b, live[i + 1].delta.fragment, (i + 1) - 1)
    BY <1>4, <2>1, <2>2, <2>3
  <2> QED
    BY <2>1, <2>4
<1>7. 1 \in 1 .. Len(live) /\ 1 - 1 = 0
  BY <1>1, <1>2
<1>8. ASSUME NEW n \in Nat, GoesOn(live, published[b], b, n, 1)
      PROVE  GoesOn(live', published'[b], b, n, 0)
  <2>1. GoesOn(live', published'[b], b, n, 1 - 1)
    BY <1>4, <1>7, <1>8
  <2> QED
    BY <1>7, <2>1
<1>9. QED
  BY <1>5, <1>6, <1>8

(* ... a block it does not mention keeps its text or loses it ...          *)
LEMMA OnTrackUnmentioned ==
  ASSUME StreamInv, NEW b \in Block, OnTrack(b), live # <<>>, live' = Tail(live), UNCHANGED published,
         KeptOrGone(b), b \notin LostWith(live[1])
  PROVE  OnTrack(b)'
<1>1. CASE previews'[b] = previews[b]
  <2>1. Live(b) => GoesOn(live', published'[b], b, previews[b].text[Len(previews[b].text)], 0)
    BY FramesBehind, ShownText DEF OnTrack
  <2> QED
    BY <1>1, <2>1, FramesBehind DEF OnTrack, Live
<1>2. CASE previews'[b] = NoPreview
  BY <1>2, FramesBehind, NoTextNoHole DEF OnTrack, Live
<1>3. QED
  BY <1>1, <1>2 DEF KeptOrGone

(* ... a block whose loss it tells has no text any more ...                *)
LEMMA OnTrackVoided ==
  ASSUME StreamInv, NEW b \in Block, OnTrack(b), live # <<>>, live' = Tail(live), UNCHANGED published,
         previews'[b] = NoPreview
  PROVE  OnTrack(b)'
  BY FramesBehind, NoTextNoHole DEF OnTrack, Live

(* ... and the fragment it carries goes on after the text, or begins one.  *)
LEMMA OnTrackAppended ==
  ASSUME StreamInv, NEW b \in Block, OnTrack(b), live # <<>>, live' = Tail(live), UNCHANGED published,
         live[1].type = "delta", live[1].delta.block = b,
         NEW kept \in {previews[b], NoPreview},
         previews'[b].text = Append(kept.text, live[1].delta.fragment)
  PROVE  OnTrack(b)'
<1> DEFINE n == live[1].delta.fragment
           text == previews[b].text
<1>1. /\ live \in Seq(Frame) /\ 1 \in DOMAIN live /\ live[1] \in Frame
  BY LiveFrames
<1>2. n \in Nat /\ b \in LostWith(live[1])
  BY <1>1 DEF Frame, DeltaFrame, ResyncFrame, Delta, LostWith
<1>3. GoesOn(live', published'[b], b, n, 0)
  <2>1. GoesOn(live, published[b], b, n, 1)
    BY <1>1 DEF OnTrack
  <2> QED
    BY <1>2, <2>1, FramesBehind
<1>4. CASE kept.text = <<>>
  <2>1. previews'[b].text = <<n>>
    BY <1>2, <1>4
  <2>2. NoHole(<<n>>) /\ <<n>>[Len(<<n>>)] = n
    BY DEF NoHole
  <2> QED
    BY <1>3, <2>1, <2>2, FramesBehind DEF OnTrack
<1>5. CASE kept.text # <<>>
  <2>1. kept = previews[b] /\ Live(b)
    BY <1>5, NoTextNoHole DEF Live
  <2>2. text \in Seq(Nat) /\ Len(text) \in Nat \ {0} /\ text[Len(text)] \in Nat
    BY <2>1, ShownText
  <2>3. n = text[Len(text)] + 1
    <3>1. GoesOn(live, published[b], b, text[Len(text)], 0)
      BY <2>1 DEF OnTrack
    <3> QED
      BY <1>1, <1>2, <2>2, <3>1, GoesOnFirst
  <2>4. NoHole(text)
    BY DEF OnTrack
  <2>5. previews'[b].text = Append(text, n)
    BY <2>1
  <2> HIDE DEF n, text
  <2>6. NoHole(Append(text, n)) /\ Append(text, n)[Len(Append(text, n))] = n
    BY <1>2, <2>2, <2>3, <2>4 DEF NoHole
  <2> QED
    BY <1>3, <2>5, <2>6, FramesBehind DEF OnTrack, n
<1>6. QED
  BY <1>4, <1>5

-----------------------------------------------------------------------------
LEMMA UpdateKeepsOrDrops ==
  ASSUME StreamInv, NEW u, ApplyUpdate(u), NEW b \in Block
  PROVE  KeptOrGone(b)
  BY WithoutTurnsType DEF ApplyUpdate, WithoutMessages, KeptOrGone, WithoutTurns

(* A step that touches neither the frames nor the count of fragments.      *)
Quiet ==
  /\ UNCHANGED <<live, published>>
  /\ missed' = missed
  /\ \A b \in Block : KeptOrGone(b)
  /\ phase' # "open" => phase # "open"

(* A connection that ends.                                                 *)
HangsUp ==
  /\ live' = <<>>
  /\ UNCHANGED published
  /\ missed' = missed \cup UNION {LostWith(live[i]) : i \in DOMAIN live}
  /\ \A b \in Block : KeptOrGone(b)

LEMMA StepOfFrames ==
  ASSUME StreamInv, HolesInv, [Next]_vars
  PROVE  \/ Quiet
         \/ HangsUp
         \/ \E b \in Block : Publish(b)
         \/ ReceiveLive
<1>1. UNCHANGED previews => \A b \in Block : KeptOrGone(b)
  BY DEF KeptOrGone
<1>2. CASE UNCHANGED vars
  BY <1>1, <1>2 DEF vars, reducerVars, serviceVars, connectionVars, Quiet
<1>3. ASSUME NEW t \in Turns, Claim(t) PROVE Quiet
  BY <1>1, <1>3 DEF Claim, reducerVars, connectionVars, Quiet
<1>4. ASSUME NEW t \in Turns, NEW e \in BOOLEAN, Advance(t, e) PROVE Quiet
  BY <1>1, <1>4 DEF Advance, reducerVars, connectionVars, Quiet
<1>5. ASSUME NEW m \in Messages, Save(m) PROVE Quiet
  BY <1>1, <1>5 DEF Save, reducerVars, connectionVars, Quiet
<1>6. ASSUME NEW to \in Positions, CutPage(to) PROVE Quiet
  BY <1>1, <1>6 DEF CutPage, reducerVars, serviceVars, Quiet
<1>7. CASE Connect
  BY <1>1, <1>7 DEF Connect, reducerVars, serviceVars, HolesInv, Quiet
<1>8. CASE ConnectFails \/ ConnectRefused \/ Wake
  BY <1>1, <1>8 DEF ConnectFails, ConnectRefused, Wake, reducerVars, serviceVars,
     connectionVars, Quiet
<1>9. CASE Drop \/ ReceiveTruncated
  BY <1>1, <1>9 DEF Drop, ReceiveTruncated, Hangup, reducerVars, serviceVars, HangsUp
<1>10. CASE ReceivePage
  <2>1. \A b \in Block : KeptOrGone(b)
    BY <1>10, UpdateKeepsOrDrops DEF ReceivePage
  <2>2. Quiet \/ HangsUp
    BY <1>10, <2>1 DEF ReceivePage, Hangup, serviceVars, Quiet, HangsUp
  <2> QED
    BY <2>2
<1>11. QED
  BY <1>2, <1>3, <1>4, <1>5, <1>6, <1>7, <1>8, <1>9, <1>10 DEF Next, Service, Reader

(* What a published fragment, or the news of its loss, says of each block. *)
LEMMA PublishedNews ==
  ASSUME StreamInv, NEW b \in Block, Publish(b), phase = "open"
  PROVE  \E frame \in Frame :
           /\ live' = Append(live, frame)
           /\ b \in LostWith(frame)
           /\ frame.type = "delta" => frame.delta = DeltaOf(b) /\ LostWith(frame) = {b}
<1>1. /\ Origin[b[1]].turn \in Turns /\ Origin[b[1]].attempt \in Nat \ {0}
      /\ published[b] \in Nat
  BY OriginAssumption DEF Block, StreamInv, TypeOK
<1>2. CASE live' = Append(live, [type |-> "delta", delta |-> DeltaOf(b)])
  <2> DEFINE frame == [type |-> "delta", delta |-> DeltaOf(b)]
  <2>1. DeltaOf(b) \in Delta /\ DeltaOf(b).block = b
    BY <1>1 DEF DeltaOf, Delta
  <2>2. frame \in Frame
    BY <2>1 DEF Frame, DeltaFrame
  <2>3. LostWith(frame) = {b}
    BY <2>1 DEF LostWith
  <2> QED
    BY <1>2, <2>2, <2>3
<1>3. CASE \E scope \in ResyncScopes(Origin[b[1]].turn) :
             live' = Append(live, [type |-> "resync", scope |-> scope])
  <2>1. PICK scope \in ResyncScopes(Origin[b[1]].turn) :
          live' = Append(live, [type |-> "resync", scope |-> scope])
    BY <1>3
  <2> DEFINE frame == [type |-> "resync", scope |-> scope]
  <2>2. scope \in {Origin[b[1]].turn, NoTurn}
    BY DEF ResyncScopes
  <2>3. frame \in Frame
    BY <1>1, <2>2 DEF Frame, ResyncFrame
  <2>4. b \in LostWith(frame) /\ frame.type # "delta"
    BY <2>2 DEF LostWith
  <2> QED
    BY <2>1, <2>3, <2>4
<1>4. QED
  BY <1>2, <1>3 DEF Publish

LEMMA PublishKeepsTrack ==
  ASSUME StreamInv, HolesInv, NEW b \in Block, Publish(b)
  PROVE  HolesInv'
<1>1. /\ UNCHANGED <<previews, phase>>
      /\ published' = [published EXCEPT ![b] = @ + 1]
      /\ published \in [Block -> Nat]
  BY DEF Publish, reducerVars, StreamInv, TypeOK
<1>2. CASE phase # "open"
  <2>1. live' = live /\ missed' = missed \cup {b}
    BY <1>2 DEF Publish
  <2>2. ASSUME NEW c \in Block \ missed' PROVE OnTrack(c)'
    <3>1. published'[c] = published[c] /\ OnTrack(c)
      BY <1>1, <2>1, <2>2 DEF HolesInv
    <3> QED
      BY <1>1, <2>1, <3>1 DEF OnTrack, Live
  <2>3. OfItsOrigin'
    BY <1>1, <2>1 DEF HolesInv, OfItsOrigin, Live
  <2> QED
    BY <1>1, <2>1, <2>2, <2>3 DEF HolesInv
<1>3. CASE phase = "open"
  <2>1. PICK frame \in Frame :
           /\ live' = Append(live, frame)
           /\ b \in LostWith(frame)
           /\ frame.type = "delta" => frame.delta = DeltaOf(b) /\ LostWith(frame) = {b}
    BY <1>3, PublishedNews
  <2>2. missed' = missed
    BY <1>3 DEF Publish
  <2>3. frame.type = "delta" => /\ frame.delta.fragment = published[b] + 1
                                /\ frame.delta.block = b
                                /\ frame.delta.turn = Origin[b[1]].turn
                                /\ frame.delta.attempt = Origin[b[1]].attempt
    BY <2>1 DEF DeltaOf
  <2>4. ASSUME NEW c \in Block \ missed' PROVE OnTrack(c)'
    <3>1. OnTrack(c) /\ published'[c] \in Nat
      BY <1>1, <2>2 DEF HolesInv
    <3>2. CASE c = b
      <4>1. published'[c] = published[c] + 1
        BY <1>1, <3>2
      <4> QED
        BY <1>1, <2>1, <2>3, <3>1, <3>2, <4>1, OnTrackNews
    <3>3. CASE c # b
      <4>1. published'[c] = published[c]
        BY <1>1, <3>3
      <4>2. CASE c \in LostWith(frame)
        <5>1. frame.type # "delta"
          BY <2>1, <3>3, <4>2
        <5> QED
          BY <1>1, <2>1, <3>1, <4>2, <5>1, OnTrackNews
      <4>3. CASE c \notin LostWith(frame)
        BY <1>1, <2>1, <2>3, <3>1, <3>3, <4>1, <4>3, OnTrackNews
      <4> QED
        BY <4>2, <4>3
    <3> QED
      BY <3>2, <3>3
  <2>5. OfItsOrigin'
    <3>1. /\ DOMAIN live' = 1 .. (Len(live) + 1) /\ DOMAIN live = 1 .. Len(live)
          /\ live'[Len(live) + 1] = frame /\ \A i \in DOMAIN live : live'[i] = live[i]
      BY <2>1, LiveFrames
    <3>2. \A i \in DOMAIN live' : i \in DOMAIN live \/ i = Len(live) + 1
      BY <3>1, LiveFrames
    <3> QED
      BY <1>1, <2>3, <3>1, <3>2 DEF HolesInv, OfItsOrigin, Live
  <2> QED
    BY <1>1, <1>3, <2>4, <2>5 DEF HolesInv
<1>4. QED
  BY <1>2, <1>3

LEMMA QuietKeepsTrack ==
  ASSUME StreamInv, HolesInv, Quiet
  PROVE  HolesInv'
<1>1. ASSUME NEW b \in Block \ missed' PROVE OnTrack(b)'
  BY <1>1, OnTrackQuiet DEF Quiet, HolesInv
<1>2. OfItsOrigin'
  <2>1. ASSUME NEW b \in Block, Live(b)' PROVE previews'[b] = previews[b] /\ Live(b)
    BY <2>1, NoTextNoHole DEF Quiet, KeptOrGone, Live
  <2> QED
    BY <2>1 DEF Quiet, HolesInv, OfItsOrigin
<1>3. QED
  BY <1>1, <1>2 DEF Quiet, HolesInv

LEMMA HangupKeepsTrack ==
  ASSUME StreamInv, HolesInv, HangsUp
  PROVE  HolesInv'
<1>1. ASSUME NEW b \in Block \ missed' PROVE OnTrack(b)'
  <2>1. b \notin missed /\ \A i \in DOMAIN live : b \notin LostWith(live[i])
    BY <1>1 DEF HangsUp
  <2> QED
    BY <1>1, <2>1, OnTrackCleared DEF HangsUp, HolesInv
<1>2. OfItsOrigin'
  <2>1. ASSUME NEW b \in Block, Live(b)' PROVE previews'[b] = previews[b] /\ Live(b)
    BY <2>1, NoTextNoHole DEF HangsUp, KeptOrGone, Live
  <2>2. DOMAIN live' = {}
    BY DEF HangsUp
  <2> QED
    BY <2>1, <2>2 DEF HolesInv, OfItsOrigin
<1>3. QED
  BY <1>1, <1>2 DEF HangsUp, HolesInv

(* A fragment on its way to a block that shows text is never refused: the  *)
(* text would be of a Turn that is over, or of a later attempt.            *)
LEMMA ShownIsNotRefused ==
  ASSUME StreamInv, HolesInv, NEW d \in Delta, Live(d.block),
         d.turn = Origin[d.block[1]].turn, d.attempt = Origin[d.block[1]].attempt
  PROVE  ~Refused(d)
<1>1. d.block \in Block /\ d.attempt \in Nat
  BY DEF Delta
<1>2. previews[d.block].turn = d.turn /\ previews[d.block].attempt = d.attempt
  BY <1>1 DEF HolesInv, OfItsOrigin
<1>3. d.turn \notin terminalTurns /\ d.attempt = latestAttempt[d.turn]
  BY <1>1, <1>2 DEF StreamInv, ReducerInv, NoPreviewOfSettledTurn, OneAttemptPerTurn
<1>4. QED
  BY <1>1, <1>3 DEF Refused

(* What a fragment does to each block.                                     *)
LEMMA AppendedOrKept ==
  ASSUME StreamInv, NEW d \in Delta, AppendPreview(d), NEW b \in Block
  PROVE  \/ b # d.block /\ KeptOrGone(b)
         \/ /\ b = d.block
            /\ \E kept \in {previews[b], NoPreview} :
                 previews'[b] = [turn |-> d.turn, attempt |-> d.attempt,
                                 text |-> Append(kept.text, d.fragment)]
<1> DEFINE kept == IF d.attempt > latestAttempt[d.turn]
                     THEN WithoutTurns({d.turn}) ELSE previews
<1>1. kept \in [Block -> Preview] /\ \A c \in Block : kept[c] \in {previews[c], NoPreview}
  BY WithoutTurnsType DEF StreamInv, ReducerInv, ReducerTypeOK
<1>2. previews' = [kept EXCEPT ![d.block] = [turn |-> d.turn, attempt |-> d.attempt,
                                             text |-> Append(kept[d.block].text, d.fragment)]]
  BY DEF AppendPreview
<1>3. d.block \in Block
  BY DEF Delta
<1> HIDE DEF kept
<1>4. CASE b # d.block
  BY <1>1, <1>2, <1>4 DEF KeptOrGone
<1>5. CASE b = d.block
  BY <1>1, <1>2, <1>3, <1>5
<1>6. QED
  BY <1>4, <1>5

(* What a resync does to each block.                                       *)
LEMMA VoidedOrKept ==
  ASSUME StreamInv, HolesInv, NEW frame \in ResyncFrame, ApplyResync(frame.scope), NEW b \in Block
  PROVE  /\ KeptOrGone(b)
         /\ b \in LostWith(frame) => previews'[b] = NoPreview
<1> DEFINE T == IF frame.scope = NoTurn THEN Turns ELSE {frame.scope}
<1>1. previews' = WithoutTurns(T)
  BY DEF ApplyResync
<1>2. KeptOrGone(b)
  BY <1>1, WithoutTurnsType DEF StreamInv, ReducerInv, KeptOrGone
<1>3. ASSUME b \in LostWith(frame) PROVE previews'[b] = NoPreview
  <2>1. frame.scope \in {NoTurn, Origin[b[1]].turn}
    BY <1>3 DEF LostWith, ResyncFrame
  <2>2. CASE Live(b)
    <3>1. previews[b].turn = Origin[b[1]].turn /\ Origin[b[1]].turn \in Turns
      BY <2>2, OriginAssumption DEF HolesInv, OfItsOrigin, Block
    <3>2. previews[b].turn \in T
      BY <2>1, <3>1
    <3> QED
      BY <1>1, <3>2 DEF WithoutTurns
  <2>3. CASE ~Live(b)
    <3>1. previews[b] = NoPreview
      BY <2>3 DEF StreamInv, ReducerInv, PreviewsWellFormed
    <3> QED
      BY <1>2, <3>1 DEF KeptOrGone
  <2> QED
    BY <2>2, <2>3
<1>4. QED
  BY <1>2, <1>3

LEMMA ReceiveKeepsTrack ==
  ASSUME StreamInv, HolesInv, ReceiveLive
  PROVE  HolesInv'
<1> DEFINE frame == live[1]
<1>1. /\ phase = "open" /\ phase' = "open" /\ live # <<>> /\ live' = Tail(live)
      /\ UNCHANGED <<published, missed>> /\ Head(live) = frame
  BY LiveFrames DEF ReceiveLive, serviceVars
<1>2. /\ DOMAIN live = 1 .. Len(live) /\ 1 \in DOMAIN live /\ frame \in Frame
      /\ \A i \in DOMAIN live' : i + 1 \in DOMAIN live /\ live'[i] = live[i + 1]
  BY <1>1, LiveFrames
<1>3. \A i \in DOMAIN live' : live'[i].type = "delta" =>
        /\ live'[i].delta.turn = Origin[live'[i].delta.block[1]].turn
        /\ live'[i].delta.attempt = Origin[live'[i].delta.block[1]].attempt
  BY <1>2 DEF HolesInv, OfItsOrigin
<1> HIDE DEF frame
<1>4. CASE frame.type = "delta" /\ AppendPreview(frame.delta)
  <2> DEFINE d == frame.delta
  <2>1. d \in Delta /\ LostWith(frame) = {d.block} \cap Block
    BY <1>2, <1>4 DEF Frame, DeltaFrame, ResyncFrame, LostWith
  <2>2. d.turn = Origin[d.block[1]].turn /\ d.attempt = Origin[d.block[1]].attempt
    BY <1>2, <1>4 DEF HolesInv, OfItsOrigin, frame
  <2> HIDE DEF d
  <2>3. ASSUME NEW b \in Block \ missed' PROVE OnTrack(b)'
    <3>1. OnTrack(b)
      BY <1>1, <2>3 DEF HolesInv
    <3>2. CASE b # d.block /\ KeptOrGone(b)
      BY <1>1, <2>1, <3>1, <3>2, OnTrackUnmentioned DEF frame
    <3>3. ASSUME b = d.block, NEW kept \in {previews[b], NoPreview},
                 previews'[b] = [turn |-> d.turn, attempt |-> d.attempt,
                                 text |-> Append(kept.text, d.fragment)]
          PROVE  OnTrack(b)'
      <4>1. previews'[b].text = Append(kept.text, frame.delta.fragment) /\ frame.delta.block = b
        BY <3>3 DEF d
      <4> QED
        BY <1>1, <1>4, <3>1, <4>1, OnTrackAppended DEF frame
    <3> QED
      BY <1>4, <2>1, <3>2, <3>3, AppendedOrKept DEF d
  <2>4. ASSUME NEW b \in Block, Live(b)'
        PROVE  previews'[b].turn = Origin[b[1]].turn /\ previews'[b].attempt = Origin[b[1]].attempt
    <3>1. CASE KeptOrGone(b)
      BY <2>4, <3>1, NoTextNoHole DEF KeptOrGone, Live, HolesInv, OfItsOrigin
    <3>2. CASE b = d.block /\ previews'[b].turn = d.turn /\ previews'[b].attempt = d.attempt
      BY <2>2, <3>2
    <3>3. KeptOrGone(b) \/ (b = d.block /\ previews'[b].turn = d.turn /\ previews'[b].attempt = d.attempt)
      <4>1. AppendPreview(d)
        BY <1>4 DEF d
      <4>2. CASE b # d.block /\ KeptOrGone(b)
        BY <4>2
      <4>3. ASSUME b = d.block, NEW kept \in {previews[b], NoPreview},
                   previews'[b] = [turn |-> d.turn, attempt |-> d.attempt,
                                   text |-> Append(kept.text, d.fragment)]
            PROVE  b = d.block /\ previews'[b].turn = d.turn /\ previews'[b].attempt = d.attempt
        BY <4>3
      <4> QED
        BY <2>1, <4>1, <4>2, <4>3, AppendedOrKept
    <3> QED
      BY <3>1, <3>2, <3>3
  <2> QED
    BY <1>1, <1>3, <2>3, <2>4 DEF HolesInv, OfItsOrigin
<1>5. CASE frame.type = "delta" /\ RefusePreview(frame.delta)
  <2> DEFINE d == frame.delta
  <2>1. d \in Delta /\ LostWith(frame) = {d.block} \cap Block /\ d.block \in Block
    BY <1>2, <1>5 DEF Frame, DeltaFrame, ResyncFrame, LostWith, Delta
  <2>2. d.turn = Origin[d.block[1]].turn /\ d.attempt = Origin[d.block[1]].attempt
    BY <1>2, <1>5 DEF HolesInv, OfItsOrigin, frame
  <2>3. previews' = previews /\ Refused(d)
    BY <1>5 DEF RefusePreview, reducerVars
  <2>4. previews[d.block] = NoPreview
    <3>1. ~Live(d.block)
      BY <2>1, <2>2, <2>3, ShownIsNotRefused
    <3> QED
      BY <2>1, <3>1 DEF StreamInv, ReducerInv, PreviewsWellFormed
  <2> HIDE DEF d
  <2>5. ASSUME NEW b \in Block \ missed' PROVE OnTrack(b)'
    <3>1. OnTrack(b)
      BY <1>1, <2>5 DEF HolesInv
    <3>2. CASE b = d.block
      BY <1>1, <2>3, <2>4, <3>1, <3>2, OnTrackVoided
    <3>3. CASE b # d.block
      BY <1>1, <2>1, <2>3, <3>1, <3>3, OnTrackUnmentioned DEF frame, KeptOrGone
    <3> QED
      BY <3>2, <3>3
  <2> QED
    BY <1>1, <1>3, <2>3, <2>5 DEF HolesInv, OfItsOrigin, Live
<1>6. CASE frame.type = "resync" /\ ApplyResync(frame.scope)
  <2>1. frame \in ResyncFrame
    BY <1>2, <1>6 DEF Frame, DeltaFrame
  <2>2. ASSUME NEW b \in Block \ missed' PROVE OnTrack(b)'
    <3>1. OnTrack(b)
      BY <1>1, <2>2 DEF HolesInv
    <3>2. /\ KeptOrGone(b)
          /\ b \in LostWith(frame) => previews'[b] = NoPreview
      BY <1>6, <2>1, VoidedOrKept
    <3>3. CASE b \in LostWith(frame)
      BY <1>1, <3>1, <3>2, <3>3, OnTrackVoided
    <3>4. CASE b \notin LostWith(frame)
      BY <1>1, <3>1, <3>2, <3>4, OnTrackUnmentioned DEF frame
    <3> QED
      BY <3>3, <3>4
  <2>3. ASSUME NEW b \in Block, Live(b)' PROVE previews'[b] = previews[b] /\ Live(b)
    BY <1>6, <2>1, <2>3, VoidedOrKept, NoTextNoHole DEF KeptOrGone, Live
  <2> QED
    BY <1>1, <1>3, <2>2, <2>3 DEF HolesInv, OfItsOrigin
<1>7. QED
  BY <1>1, <1>4, <1>5, <1>6 DEF ReceiveLive, ApplyDelta

LEMMA HolesInvStep == StreamInv /\ HolesInv /\ [Next]_vars => HolesInv'
  BY StepOfFrames, QuietKeepsTrack, HangupKeepsTrack, PublishKeepsTrack, ReceiveKeepsTrack

LEMMA InitHoles == Init => HolesInv
<1> SUFFICES ASSUME Init PROVE HolesInv
  OBVIOUS
<1>1. live = <<>> /\ DOMAIN live = {} /\ \A b \in Block : previews[b] = NoPreview
  BY DEF Init, ReducerInit
<1>2. QED
  BY <1>1, NoTextNoHole DEF HolesInv, OfItsOrigin, OnTrack, Live

(* What `message.delta` and `stream.resync` make of a preview in           *)
(* `Reducer.apply`: a text with a hole is only shown of a block of which   *)
(* a fragment, or the news of its loss, found no connection.               *)
THEOREM TextsHaveNoHole == Spec => []HoleOnlyFromReconnect
<1>1. Init => StreamInv /\ HolesInv
  BY InitStream, InitHoles
<1>2. (StreamInv /\ HolesInv) /\ [Next]_vars => (StreamInv /\ HolesInv)'
  BY StreamInvStep, HolesInvStep
<1>3. HolesInv => HoleOnlyFromReconnect
  BY DEF HolesInv, OnTrack, NoHole, HoleOnlyFromReconnect
<1>4. QED
  BY <1>1, <1>2, <1>3, PTL DEF Spec
=============================================================================
