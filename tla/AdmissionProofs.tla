--------------------------- MODULE AdmissionProofs ---------------------------
(***************************************************************************)
(* Admission gives each job one Turn, and refuses a call of a lock only    *)
(* for a Turn that no other call of the lock follows, for any jobs, locks, *)
(* stored keys and number of calls.  To the application, it is one answer  *)
(* a job: AnswerOnce.                                                      *)
(***************************************************************************)
EXTENDS Admission, TLAPS

-----------------------------------------------------------------------------
(* The queue of a lock.                                                    *)

LEMMA HeadOfConcat ==
  ASSUME NEW a \in Seq(Jobs), NEW b \in Seq(Jobs), Len(a) >= 1
  PROVE  a \o b # <<>> /\ Head(a \o b) = a[1]
<1>1. a \o b \in Seq(Jobs) /\ Len(a \o b) = Len(a) + Len(b)
  OBVIOUS
<1>2. Len(a) \in Nat /\ Len(b) \in Nat /\ Len(a \o b) >= 1
  BY <1>1
<1>3. (a \o b)[1] = a[1]
  BY <1>2
<1>4. a \o b # <<>>
  BY <1>2, Len(<<>>) = 0
<1> QED
  BY <1>1, <1>3, <1>4

(* Leaving the queue keeps it a queue, and keeps its head if that is       *)
(* someone else.                                                           *)
LEMMA LeavingKeepsHead ==
  ASSUME NEW q \in Seq(Jobs), NEW i \in 1..Len(q)
  PROVE  /\ SubSeq(q, 1, i - 1) \o SubSeq(q, i + 1, Len(q)) \in Seq(Jobs)
         /\ Head(q) # q[i] =>
              /\ SubSeq(q, 1, i - 1) \o SubSeq(q, i + 1, Len(q)) # <<>>
              /\ Head(SubSeq(q, 1, i - 1) \o SubSeq(q, i + 1, Len(q))) = Head(q)
<1>1. SubSeq(q, 1, i - 1) \in Seq(Jobs) /\ SubSeq(q, i + 1, Len(q)) \in Seq(Jobs)
  OBVIOUS
<1>2. SubSeq(q, 1, i - 1) \o SubSeq(q, i + 1, Len(q)) \in Seq(Jobs)
  BY <1>1
<1>3. ASSUME Head(q) # q[i]
      PROVE  Len(SubSeq(q, 1, i - 1)) >= 1 /\ SubSeq(q, 1, i - 1)[1] = Head(q)
  <2>1. Head(q) = q[1] /\ i # 1
    BY <1>3
  <2> QED
    BY <2>1
<1> QED
  BY <1>1, <1>2, <1>3, HeadOfConcat

(* A job that releases leaves every lock a queue, and every head that is   *)
(* not its own where it is.                                                *)
LEMMA ReleaseKeepsHeads ==
  ASSUME TypeOK, NEW j \in Jobs, Release(j)
  PROVE  /\ lock' \in [Locks -> Seq(Jobs)]
         /\ \A l \in Locks :
              lock[l] # <<>> /\ Head(lock[l]) # j =>
                lock'[l] # <<>> /\ Head(lock'[l]) = Head(lock[l])
<1> DEFINE m == LockKey[j]
           q == lock[m]
<1>1. m \in Locks /\ q \in Seq(Jobs)
  BY LockKeyAssumption DEF TypeOK
<1>2. PICK i \in 1..Len(q) :
        /\ q[i] = j
        /\ lock' = [lock EXCEPT ![m] = SubSeq(q, 1, i - 1) \o SubSeq(q, i + 1, Len(q))]
  BY DEF Release
<1> DEFINE r == SubSeq(q, 1, i - 1) \o SubSeq(q, i + 1, Len(q))
<1>3. r \in Seq(Jobs) /\ (Head(q) # j => r # <<>> /\ Head(r) = Head(q))
  BY <1>1, <1>2, LeavingKeepsHead
<1> HIDE DEF r
<1>4. lock' = [lock EXCEPT ![m] = r]
  BY <1>2 DEF r
<1> QED
  BY <1>1, <1>3, <1>4 DEF TypeOK

-----------------------------------------------------------------------------
(* The invariant.                                                          *)

LEMMA Constants ==
  /\ \A j \in Jobs : <<j, 0>> \in Keys /\ <<j, 0>>[1] = j
  /\ \A j \in Jobs, n \in 0..MaxCalls : <<j, n>> \in Keys /\ <<j, n>>[1] = j
  /\ \A j \in Jobs : Stored(j) \in Keys \cup {NoKey}
BY MaxCallsAssumption DEF Keys, Stored

LEMMA InitAdmission == Init => AdmissionInv
<1> SUFFICES ASSUME Init PROVE AdmissionInv
  OBVIOUS
<1>1. TypeOK
  BY Constants, MaxCallsAssumption DEF Init, TypeOK, Pc, Reply
<1>2. KeysInv
  BY Constants, NoKeyAssumption DEF Init, KeysInv, Sent, Stored
<1>3. LockInv
  BY DEF Init, LockInv
<1> QED
  BY <1>1, <1>2, <1>3 DEF AdmissionInv

(* The types survive every step.                                           *)
LEMMA StepTypes ==
  ASSUME AdmissionInv, [Next]_vars
  PROVE  TypeOK'
<1> USE DEF AdmissionInv
<1> USE Constants, MaxCallsAssumption
<1>1. ASSUME NEW j \in Jobs, NEW method \in {"start", "run"}, Call(j, method)
      PROVE  TypeOK'
  <2>1. LockKey[j] \in Locks /\ lock[LockKey[j]] \in Seq(Jobs)
    BY LockKeyAssumption DEF TypeOK
  <2>2. Append(lock[LockKey[j]], j) \in Seq(Jobs)
    BY <2>1
  <2>3. lock' \in [Locks -> Seq(Jobs)]
    BY <1>1, <2>2 DEF Call, TypeOK
  <2> QED
    BY <1>1, <2>3 DEF Call, TypeOK, Pc
<1>2. ASSUME NEW j \in Jobs, Send(j)
      PROVE  TypeOK'
  BY <1>2 DEF Send, TypeOK, Pc
<1>3. ASSUME NEW j \in Jobs, Reach(j)
      PROVE  TypeOK'
  <2>1. key[j] \in Keys
    BY <1>3 DEF Reach, KeysInv
  <2> QED
    BY <1>3, <2>1 DEF Reach, Serve, TypeOK, Reply
<1>4. ASSUME NEW j \in Jobs, NEW next \in Pc, End(j, next)
      PROVE  /\ pc' \in [Jobs -> Pc]
             /\ kind' \in [Jobs -> {"none", "start", "run"}]
             /\ key' \in [Jobs -> Keys \cup {NoKey}]
             /\ reply' \in [Jobs -> Reply]
  BY <1>4 DEF End, TypeOK, Reply
<1>5. \A j \in Jobs : IdleOrLost(j) \in Pc
  BY DEF IdleOrLost, Pc
<1>6. "idle" \in Pc /\ "done" \in Pc /\ "following" \in Pc
  BY DEF Pc
<1>7. ASSUME NEW j \in Jobs, pc[j] = "admitting"
      PROVE  key[j] \in Keys
  BY <1>7 DEF KeysInv
<1>8. ASSUME NEW j \in Jobs, LeaveRequest(j)
      PROVE  strays' \in SUBSET Keys
  BY <1>7, <1>8 DEF LeaveRequest, TypeOK
<1>9. ASSUME NEW j \in Jobs, Admitted(j)
      PROVE  TypeOK'
  <2>1. CASE kind[j] = "run"
    BY <1>9, <2>1, <1>6 DEF Admitted, TypeOK
  <2>2. CASE kind[j] = "start"
    BY <1>9, <2>2, <1>4, <1>6, ReleaseKeepsHeads DEF Admitted, TypeOK
  <2> QED
    BY <1>9, <2>1, <2>2 DEF Admitted
<1>10. ASSUME NEW j \in Jobs, Refused(j)
       PROVE  TypeOK'
  BY <1>10, <1>4, <1>5, <1>6, ReleaseKeepsHeads DEF Refused, TypeOK
<1>11. ASSUME NEW j \in Jobs, AnswerLost(j)
       PROVE  TypeOK'
  BY <1>11, <1>4, <1>6, <1>7, <1>8, ReleaseKeepsHeads DEF AnswerLost, TypeOK
<1>12. ASSUME NEW j \in Jobs, Result(j) \/ ResultTimesOut(j)
       PROVE  TypeOK'
  BY <1>12, <1>4, <1>6, ReleaseKeepsHeads DEF Result, ResultTimesOut, TypeOK
<1>13. ASSUME NEW j \in Jobs, Fail(j)
       PROVE  TypeOK'
  BY <1>13, <1>4, <1>5, <1>6, <1>8, ReleaseKeepsHeads DEF Fail, TypeOK
<1>14. ASSUME NEW k \in Keys, ReachStray(k) \/ EndTurn(k)
       PROVE  TypeOK'
  BY <1>14 DEF ReachStray, EndTurn, Serve, TypeOK
<1>15. CASE Restart
  BY <1>15, <1>7 DEF Restart, TypeOK, Pc, Reply
<1>16. CASE UNCHANGED vars
  BY <1>16 DEF vars, TypeOK
<1> QED
  BY <1>1, <1>2, <1>3, <1>9, <1>10, <1>11, <1>12, <1>13, <1>14, <1>15, <1>16 DEF Next, Step

(* What was sent for a job stays under one key: a step on a call of job j  *)
(* says nothing of the others, and sends under the key it has or, having   *)
(* none, under the first of the job's.                                     *)
LEMMA StepKeys ==
  ASSUME AdmissionInv, [Next]_vars
  PROVE  KeysInv'
<1> USE DEF AdmissionInv
<1>0. \A k \in Keys : k[1] \in Jobs /\ k # NoKey
  BY NoKeyAssumption DEF Keys
<1>o. \A j \in OwnKey : j \in Jobs /\ known[j] = <<j, 0>> /\ known[j] \in Keys /\ known[j] # NoKey
  <2>1. \A j \in OwnKey : j \in Jobs /\ <<j, 0>> \in Keys
    BY Constants, OwnKeyAssumption
  <2>2. \A j \in OwnKey : known[j] = <<j, 0>>
    BY <2>1 DEF KeysInv
  <2> QED
    BY <2>1, <2>2, NoKeyAssumption
<1>1. ASSUME NEW j \in Jobs, NEW method \in {"start", "run"}, Call(j, method)
      PROVE  KeysInv'
  BY <1>1 DEF Call, KeysInv, Sent, TypeOK
<1>2. ASSUME NEW j \in Jobs, Send(j)
      PROVE  KeysInv'
  <2>1. <<j, calls>> \in Keys /\ <<j, calls>>[1] = j
    BY Constants DEF TypeOK
  <2>2. /\ key'[j] \in Keys /\ key'[j][1] = j
        /\ known[j] # NoKey => key'[j] = known[j]
        /\ \A k \in Keys : k[1] = j /\ Sent(k) => k = key'[j]
        /\ known[j] = NoKey => ~Sent(key'[j])
    BY <1>0, <1>2, <2>1 DEF Send, KeysInv, TypeOK
  <2>3. pc'[j] = "admitting" /\ reply'[j] = reply[j]
    BY <1>2 DEF Send, TypeOK
  <2>4. \A i \in Jobs : i # j => pc'[i] = pc[i] /\ key'[i] = key[i]
    BY <1>2 DEF Send, TypeOK
  <2>5. /\ \A k \in Keys : Sent(k)' = Sent(k)
        /\ UNCHANGED <<known, reply, strays, turns>>
    BY <1>2 DEF Send, Sent
  <2> QED
    <3>1. ASSUME NEW i \in Jobs, i # j
          PROVE  /\ key'[i] = key[i] /\ pc'[i] = pc[i] /\ known'[i] = known[i] /\ reply'[i] = reply[i]
                 /\ turns' = turns /\ strays' = strays
      BY <2>4, <2>5, <3>1
    <3>2. known' = known /\ turns' = turns /\ strays' = strays
      BY <2>5
    <3>3. reply[j] = "none"
      BY <1>2 DEF Send, KeysInv
    <3>4. ~Sent(key'[j]) => key'[j] \notin strays' /\ turns'[key'[j]] = "none"
      BY <3>2 DEF Sent
    <3> QED
      BY <2>2, <2>3, <2>5, <3>1, <3>2, <3>3, <3>4 DEF KeysInv
<1>3. ASSUME NEW j \in Jobs, Reach(j)
      PROVE  KeysInv'
  <2>1. key[j] \in Keys /\ key[j][1] = j
    BY <1>3 DEF Reach, KeysInv
  <2>2. \A k \in Keys : k # key[j] => turns'[k] = turns[k]
    BY <1>3, <2>1 DEF Reach, Serve, TypeOK
  <2>3. \A k \in Keys : turns[k] # "none" => turns'[k] # "none"
    BY <1>3, <2>1 DEF Reach, Serve, TypeOK
  <2>4. \A i \in Jobs : i # j => reply'[i] = reply[i]
    BY <1>3 DEF Reach, TypeOK
  <2>5. /\ reply'[j] = "turn" => turns'[key[j]] # "none"
        /\ reply'[j] = "conflict" => turns'[key[j]] = turns[key[j]]
        /\ reply'[j] # "none"
    BY <1>3, <2>1 DEF Reach, Serve, Admits, TypeOK
  <2>6. pc[j] = "admitting" /\ reply[j] = "none" /\ UNCHANGED <<pc, known, key, strays>>
    BY <1>3 DEF Reach
  <2>7. \A k \in Keys : k # key[j] => Sent(k)' = Sent(k)
    BY <2>2, <2>6 DEF Sent
  <2>8. ASSUME NEW i \in Jobs, i # j
        PROVE  \A k \in Keys : k[1] = i => Sent(k)' = Sent(k) /\ turns'[k] = turns[k]
    BY <2>1, <2>2, <2>7, <2>8
  <2> QED
    BY <2>1, <2>2, <2>3, <2>4, <2>5, <2>6, <2>7, <2>8 DEF KeysInv
<1>4. ASSUME NEW j \in Jobs, Admitted(j)
      PROVE  KeysInv'
  <2>1. CASE kind[j] = "run"
    BY <1>4, <2>1 DEF Admitted, KeysInv, Sent, TypeOK
  <2>2. CASE kind[j] = "start"
    BY <1>4, <2>2 DEF Admitted, End, KeysInv, Sent, TypeOK
  <2> QED
    BY <1>4, <2>1, <2>2 DEF Admitted
<1>5. ASSUME NEW j \in Jobs, Refused(j)
      PROVE  KeysInv'
  <2>1. /\ pc' = [pc EXCEPT ![j] = IF reply[j] = "conflict" THEN "idle" ELSE IdleOrLost(j)]
        /\ \A i \in Jobs : i # j => key'[i] = key[i] /\ reply'[i] = reply[i]
        /\ reply'[j] = "none"
        /\ UNCHANGED <<known, strays, turns>>
    BY <1>5 DEF Refused, End, TypeOK
  <2>2. pc'[j] = "idle" => \A k \in Keys : k[1] = j /\ Sent(k) => k = known[j]
    BY <1>0, <1>5, <2>1 DEF Refused, IdleOrLost, KeysInv, Sent, TypeOK
  <2>3. pc'[j] \in {"idle", "lost"}
    BY <2>1 DEF IdleOrLost, TypeOK
  <2>4. \A i \in Jobs : i # j => pc'[i] = pc[i]
    BY <2>1 DEF TypeOK
  <2> QED
    BY <2>1, <2>2, <2>3, <2>4 DEF KeysInv, Sent
<1>6. ASSUME NEW j \in Jobs, AnswerLost(j)
      PROVE  KeysInv'
  <2>1. /\ pc[j] = "admitting" /\ key[j] \in Keys /\ key[j][1] = j /\ key[j] # NoKey
    BY <1>0, <1>6 DEF AnswerLost, KeysInv
  <2>2. /\ pc'[j] = "idle" /\ known'[j] = key[j]
        /\ strays' \in {strays, strays \cup {key[j]}}
        /\ UNCHANGED turns
    BY <1>6 DEF AnswerLost, End, LeaveRequest, TypeOK
  <2>3. \A i \in Jobs : i # j =>
          pc'[i] = pc[i] /\ known'[i] = known[i] /\ key'[i] = key[i] /\ reply'[i] = reply[i]
    BY <1>6 DEF AnswerLost, End, TypeOK
  <2>4. \A k \in Keys : k # key[j] => Sent(k)' = Sent(k) /\ (k \in strays' <=> k \in strays)
    BY <2>2 DEF Sent
  <2>5. ASSUME NEW i \in Jobs, i # j
        PROVE  \A k \in Keys : k[1] = i => Sent(k)' = Sent(k) /\ (k \in strays' <=> k \in strays)
    BY <2>1, <2>4, <2>5
  <2>6. \A k \in Keys : k[1] = j /\ Sent(k)' => k = key[j]
    BY <2>1, <2>4 DEF KeysInv
  <2>7. j \in OwnKey => key[j] = <<j, 0>>
    BY <1>o, <2>1 DEF KeysInv
  <2>8. reply'[j] = "none"
    BY <1>6 DEF AnswerLost, End, TypeOK
  <2> QED
    BY <2>1, <2>2, <2>3, <2>5, <2>6, <2>7, <2>8 DEF KeysInv
<1>7. ASSUME NEW j \in Jobs, Result(j) \/ ResultTimesOut(j)
      PROVE  KeysInv'
  BY <1>7 DEF Result, ResultTimesOut, End, KeysInv, Sent, TypeOK
<1>8. ASSUME NEW j \in Jobs, Fail(j)
      PROVE  KeysInv'
  <2>1. /\ pc' = [pc EXCEPT ![j] = IF pc[j] = "locking" THEN "idle" ELSE IdleOrLost(j)]
        /\ \A i \in Jobs : i # j => key'[i] = key[i] /\ reply'[i] = reply[i]
        /\ reply'[j] = "none"
        /\ UNCHANGED <<known, turns>>
        /\ \/ strays' = strays
           \/ pc[j] = "admitting" /\ strays' = strays \cup {key[j]}
    <3>1. /\ pc' = [pc EXCEPT ![j] = IF pc[j] = "locking" THEN "idle" ELSE IdleOrLost(j)]
          /\ key' = [key EXCEPT ![j] = NoKey]
          /\ reply' = [reply EXCEPT ![j] = "none"]
          /\ UNCHANGED <<known, turns>>
      BY <1>8 DEF Fail, End
    <3>2. \/ strays' = strays
          \/ pc[j] = "admitting" /\ strays' = strays \cup {key[j]}
      BY <1>8 DEF Fail, LeaveRequest
    <3> QED
      BY <3>1, <3>2 DEF TypeOK
  <2>2. pc'[j] \in {"idle", "lost"}
    BY <2>1 DEF IdleOrLost, TypeOK
  <2>3. \A i \in Jobs : i # j => pc'[i] = pc[i]
    BY <2>1 DEF TypeOK
  <2>4. CASE strays' = strays
    <3>1. pc'[j] = "idle" => \A k \in Keys : k[1] = j /\ Sent(k) => k = known[j]
      BY <1>8, <2>1 DEF Fail, IdleOrLost, KeysInv, TypeOK
    <3> QED
      BY <2>1, <2>2, <2>3, <2>4, <3>1 DEF KeysInv, Sent
  <2>5. CASE pc[j] = "admitting" /\ strays' = strays \cup {key[j]}
    <3>1. key[j] \in Keys /\ key[j][1] = j
      BY <2>5 DEF KeysInv
    <3>2. \A k \in Keys : k # key[j] => Sent(k)' = Sent(k) /\ (k \in strays' <=> k \in strays)
      BY <2>1, <2>5 DEF Sent
    <3>3. \A i \in Jobs : i # j =>
            \A k \in Keys : k[1] = i => Sent(k)' = Sent(k) /\ (k \in strays' <=> k \in strays)
      BY <3>1, <3>2
    <3>4. pc'[j] = "idle" \/ known[j] # NoKey => known[j] = key[j]
      BY <2>1, <2>5 DEF IdleOrLost, KeysInv, TypeOK
    <3>5. \A k \in Keys : k[1] = j /\ Sent(k)' => k = key[j]
      BY <2>5, <3>2 DEF KeysInv
    <3> QED
      BY <2>1, <2>2, <2>3, <3>3, <3>4, <3>5 DEF KeysInv
  <2> QED
    BY <2>1, <2>4, <2>5
<1>9. ASSUME NEW k \in Keys, ReachStray(k)
      PROVE  KeysInv'
  <2>1. k \in strays /\ strays' \subseteq strays
    BY <1>9 DEF ReachStray
  <2>2. \A e \in Keys : Sent(e)' => Sent(e)
    BY <1>9, <2>1 DEF ReachStray, Serve, Sent, TypeOK
  <2>3. /\ \A e \in Keys : e # k => turns'[e] = turns[e]
        /\ \A e \in Keys : turns[e] # "none" => turns'[e] # "none"
    BY <1>9 DEF ReachStray, Serve, TypeOK
  <2>4. UNCHANGED <<pc, known, key, reply>>
    BY <1>9 DEF ReachStray
  <2> QED
    BY <2>1, <2>2, <2>3, <2>4 DEF KeysInv
<1>10. ASSUME NEW k \in Keys, EndTurn(k)
       PROVE  KeysInv'
  <2>1. \A e \in Keys : turns'[e] = "none" <=> turns[e] = "none"
    BY <1>10 DEF EndTurn, TypeOK
  <2>2. UNCHANGED <<pc, known, key, reply, strays>>
    BY <1>10 DEF EndTurn
  <2>3. \A e \in Keys : Sent(e)' = Sent(e)
    BY <2>1, <2>2 DEF Sent
  <2> QED
    BY <2>1, <2>2, <2>3 DEF KeysInv
<1>11. CASE Restart
  <2> DEFINE sending(i) == pc[i] = "admitting" /\ reply[i] = "none"
  <2>1. /\ \A j \in Jobs : pc'[j] \in {"idle", "done", "lost"}
        /\ \A j \in Jobs : pc'[j] = "idle" => j \in OwnKey
        /\ known' = [j \in Jobs |-> Stored(j)]
        /\ UNCHANGED turns
    BY <1>11 DEF Restart
  <2>2. \A k \in Keys : k \in strays' => k \in strays \/ (sending(k[1]) /\ k = key[k[1]])
    BY <1>0, <1>11 DEF Restart, KeysInv
  <2>3. \A k \in Keys : Sent(k)' => Sent(k) \/ (sending(k[1]) /\ k = key[k[1]])
    BY <2>1, <2>2 DEF Sent
  <2>4. \A k1, k2 \in Keys : k1[1] = k2[1] /\ Sent(k1)' /\ Sent(k2)' => k1 = k2
    BY <1>0, <2>3 DEF KeysInv
  <2>5. \A j \in OwnKey : \A k \in Keys : k[1] = j /\ Sent(k)' => k = Stored(j)
    <3> SUFFICES ASSUME NEW j \in OwnKey, NEW k \in Keys, k[1] = j, Sent(k)'
                 PROVE  k = known[j]
      BY <1>o DEF Stored
    <3>1. Sent(k) => k = known[j]
      BY <1>o DEF KeysInv
    <3>2. pc[j] = "admitting" => key[j] = known[j]
      BY <1>o DEF KeysInv
    <3> QED
      BY <2>3, <3>1, <3>2
  <2> QED
    <3>1. \A j \in Jobs : known'[j] = Stored(j) /\ reply'[j] = "none"
      BY <1>11 DEF Restart
    <3>2. \A j \in Jobs : known'[j] = IF j \in OwnKey THEN <<j, 0>> ELSE NoKey
      BY <3>1 DEF Stored
    <3>3. ASSUME NEW j \in Jobs, known'[j] # NoKey
          PROVE  j \in OwnKey /\ known'[j][1] = j
      <4>1. j \in OwnKey /\ known'[j] = <<j, 0>>
        BY <3>2, <3>3
      <4> QED
        BY <4>1
    <3>4. ASSUME NEW j \in Jobs, j \in OwnKey
          PROVE  known'[j] = <<j, 0>>
      BY <3>2, <3>4
    <3>5. \A j \in Jobs : pc'[j] \in {"idle", "locking"} \/ known'[j] # NoKey =>
            \A k \in Keys : k[1] = j /\ Sent(k)' => k = known'[j]
      BY <2>1, <2>5, <3>1, <3>3
    <3> QED
      BY <2>1, <2>4, <3>1, <3>3, <3>4, <3>5 DEF KeysInv
<1>12. CASE UNCHANGED vars
  BY <1>12 DEF vars, KeysInv, Sent
<1> QED
  BY <1>1, <1>2, <1>3, <1>4, <1>5, <1>6, <1>7, <1>8, <1>9, <1>10, <1>11, <1>12 DEF Next, Step

(* A call keeps its place at the head of its lock: others leave from       *)
(* behind it, or join behind it.                                           *)
LEMMA StepLocks ==
  ASSUME AdmissionInv, [Next]_vars
  PROVE  LockInv'
<1> USE DEF AdmissionInv
<1>1. ASSUME NEW j \in Jobs, NEW method \in {"start", "run"}, Call(j, method)
      PROVE  LockInv'
  <2>1. ASSUME NEW l \in Locks, lock[l] # <<>>
        PROVE  lock'[l] # <<>> /\ Head(lock'[l]) = Head(lock[l])
    <3>1. lock[l] \in Seq(Jobs)
      BY DEF TypeOK
    <3>2. Append(lock[l], j) # <<>> /\ Head(Append(lock[l], j)) = Head(lock[l])
      BY <2>1, <3>1
    <3>3. lock'[l] \in {lock[l], Append(lock[l], j)}
      BY <1>1 DEF Call, TypeOK
    <3> QED
      BY <2>1, <3>2, <3>3
  <2>2. \A i \in Jobs : pc'[i] \in {"admitting", "following"} => pc[i] = pc'[i]
    BY <1>1 DEF Call, TypeOK
  <2> QED
    BY <2>1, <2>2, LockKeyAssumption DEF LockInv, Holds
<1>2. ASSUME NEW j \in Jobs, Send(j)
      PROVE  LockInv'
  BY <1>2 DEF Send, Holds, LockInv, TypeOK
<1>3. ASSUME NEW j \in Jobs, Release(j), pc'[j] \in {"idle", "done", "lost"},
             \A i \in Jobs : i # j => pc'[i] = pc[i]
      PROVE  LockInv'
  BY <1>3, ReleaseKeepsHeads, LockKeyAssumption DEF LockInv, Holds
<1>4. ASSUME NEW j \in Jobs, NEW next \in {"idle", "done", "lost"}, End(j, next), Release(j)
      PROVE  LockInv'
  BY <1>3, <1>4 DEF End, TypeOK
<1>5. \A j \in Jobs : IdleOrLost(j) \in {"idle", "lost"}
  BY DEF IdleOrLost
<1>6. ASSUME NEW j \in Jobs, Admitted(j)
      PROVE  LockInv'
  <2>1. CASE kind[j] = "run"
    BY <1>6, <2>1 DEF Admitted, LockInv, Holds, TypeOK
  <2>2. CASE kind[j] = "start"
    BY <1>4, <1>6, <2>2 DEF Admitted
  <2> QED
    BY <1>6, <2>1, <2>2 DEF Admitted
<1>7. ASSUME NEW j \in Jobs,
             Refused(j) \/ AnswerLost(j) \/ Result(j) \/ ResultTimesOut(j) \/ Fail(j)
      PROVE  LockInv'
  BY <1>4, <1>5, <1>7 DEF Refused, AnswerLost, Result, ResultTimesOut, Fail
<1>8. CASE Restart
  BY <1>8 DEF Restart, LockInv
<1>9. CASE UNCHANGED <<pc, lock>>
  BY <1>9 DEF LockInv, Holds
<1> QED
  BY <1>1, <1>2, <1>6, <1>7, <1>8, <1>9
     DEF Next, Step, Reach, ReachStray, EndTurn, vars

-----------------------------------------------------------------------------
(* The theorems.                                                           *)

(* The invariant holds of every behaviour: the keys, the requests on their *)
(* way, the Turns and the queues of the locks fit together.                *)
THEOREM AdmissionInvariant == Spec => []AdmissionInv
<1>1. AdmissionInv /\ [Next]_vars => AdmissionInv'
  BY StepTypes, StepKeys, StepLocks DEF AdmissionInv
<1> QED
  BY InitAdmission, <1>1, PTL DEF Spec

(* A job gets one Turn, however often it is called for (_start and its     *)
(* idempotency key).                                                       *)
THEOREM OneTurnEach == Spec => []OneTurnPerJob
<1>1. AdmissionInv => OneTurnPerJob
  BY DEF AdmissionInv, KeysInv, OneTurnPerJob, Sent, Keys
<1> QED
  BY AdmissionInvariant, <1>1, PTL

(* Two calls that share a lock are never both between their request and    *)
(* their end, so that a call is refused only for a Turn that no run of its *)
(* lock follows (Conversation.run under `async with lock`).                *)
LEMMA OneCallPerLock ==
  ASSUME AdmissionInv, NEW i \in Jobs, NEW j \in Jobs, LockKey[i] = LockKey[j],
         pc[i] \in {"admitting", "following"}, pc[j] \in {"admitting", "following"}
  PROVE  i = j
BY DEF AdmissionInv, LockInv, Holds

THEOREM RefusalsAreOfOthers == Spec => RefusedForTurnOfOthers
<1>1. ASSUME AdmissionInv, [Next]_vars,
             NEW j \in Jobs, reply[j] # "conflict", reply'[j] = "conflict"
      PROVE  \E k \in Active : \A i \in Jobs :
               pc[i] = "following" /\ LockKey[i] = LockKey[j] => key[i] # k
  <2>1. Reach(j)
    <3>1. TypeOK
      BY <1>1 DEF AdmissionInv
    <3>2. ASSUME NEW i \in Jobs, NEW next \in Pc, End(i, next)
          PROVE  reply'[j] # "conflict"
      BY <1>1, <3>1, <3>2 DEF End, TypeOK
    <3>3. ASSUME NEW i \in Jobs, Reach(i)
          PROVE  i = j
      BY <1>1, <3>1, <3>3 DEF Reach, TypeOK
    <3>4. ASSUME NEW i \in Jobs, Admitted(i) \/ Refused(i) \/ AnswerLost(i) \/ Fail(i)
                                 \/ Result(i) \/ ResultTimesOut(i)
          PROVE  FALSE
      BY <1>1, <3>2, <3>4
         DEF Admitted, Refused, AnswerLost, Fail, Result, ResultTimesOut, IdleOrLost, Pc
    <3>5. ~Restart
      BY <1>1 DEF Restart
    <3> QED
      BY <1>1, <3>3, <3>4, <3>5 DEF Next, Step, Call, Send, ReachStray, EndTurn, vars
  <2>2. pc[j] = "admitting" /\ ~Admits(key[j])
    BY <1>1, <2>1 DEF Reach, AdmissionInv, TypeOK
  <2>3. PICK k : k \in Active
    BY <2>2 DEF Admits
  <2>4. ASSUME NEW i \in Jobs, pc[i] = "following", LockKey[i] = LockKey[j]
        PROVE  FALSE
    BY <1>1, <2>2, <2>4, OneCallPerLock
  <2> QED
    BY <2>3, <2>4
<1>2. AdmissionInv /\ [Next]_vars =>
        [\A j \in Jobs :
           reply[j] # "conflict" /\ reply'[j] = "conflict" =>
             \E k \in Active : \A i \in Jobs :
               pc[i] = "following" /\ LockKey[i] = LockKey[j] => key[i] # k]_vars
  BY <1>1
<1> QED
  BY AdmissionInvariant, <1>2, PTL DEF Spec, RefusedForTurnOfOthers

-----------------------------------------------------------------------------
(* Admission is AnswerOnce: a job is the call, the key of its Turn the     *)
(* answer, taken when the application has the Turn.                        *)

AdmittedFor(j) == {k \in Keys : k[1] = j /\ turns[k] # "none"}

TurnFor(j) ==
  IF AdmittedFor(j) = {} THEN NoKey ELSE CHOOSE k \in AdmittedFor(j) : TRUE

admitted == [j \in Jobs |-> TurnFor(j)]
returned == [j \in Jobs |-> IF pc[j] = "done" THEN TurnFor(j) ELSE NoKey]

Turns == INSTANCE AnswerOnce WITH
  Calls <- Jobs, Replies <- Keys, NoReply <- NoKey, given <- admitted, taken <- returned

(* A call that has ended well has a Turn, and so has one that follows it.  *)
ReturnsItsTurn ==
  \A j \in Jobs :
    /\ pc[j] = "following" => turns[key[j]] # "none"
    /\ pc[j] = "done" => AdmittedFor(j) # {}

(* A Turn that was admitted under a key is admitted from then on.          *)
LEMMA AdmittedStays ==
  ASSUME AdmissionInv, [Next]_vars, NEW k \in Keys, turns[k] # "none"
  PROVE  turns'[k] # "none"
<1> USE DEF AdmissionInv, TypeOK
<1>1. ASSUME NEW i, Serve(i) \/ UNCHANGED turns PROVE turns'[k] # "none"
  BY <1>1 DEF Serve
<1>2. ASSUME NEW i \in Keys, EndTurn(i) PROVE turns'[k] # "none"
  BY <1>2 DEF EndTurn
<1>3. QED
  BY <1>1, <1>2 DEF Next, Step, Call, Send, Reach, Admitted, Refused, AnswerLost, Result,
     ResultTimesOut, Fail, ReachStray, Restart, vars

LEMMA SameAdmitted ==
  ASSUME NEW j, AdmittedFor(j)' = AdmittedFor(j)
  PROVE  TurnFor(j)' = TurnFor(j)
BY DEF TurnFor

LEMMA AdmittedForStays ==
  ASSUME AdmissionInv, [Next]_vars, NEW j, AdmittedFor(j) # {}
  PROVE  AdmittedFor(j)' # {}
<1>1. PICK k \in Keys : k[1] = j /\ turns[k] # "none"
  BY DEF AdmittedFor
<1>2. turns'[k] # "none"
  BY <1>1, AdmittedStays
<1>3. QED
  BY <1>1, <1>2 DEF AdmittedFor

(* What a step does to the calls, as far as they follow or have ended.     *)
LEMMA EndedBy ==
  ASSUME AdmissionInv, ReturnsItsTurn, [Next]_vars, NEW j \in Jobs
  PROVE  /\ pc'[j] = "following" => /\ key'[j] = key[j]
                                    /\ \/ pc[j] = "following"
                                       \/ pc[j] = "admitting" /\ reply[j] = "turn"
         /\ pc'[j] = "done" => \/ pc[j] \in {"following", "done"}
                               \/ pc[j] = "admitting" /\ reply[j] = "turn"
         /\ pc[j] = "done" => pc'[j] = "done"
<1> USE DEF AdmissionInv, TypeOK
<1>1. ASSUME NEW i \in Jobs, Step(i)
      PROVE  /\ \/ pc' = pc /\ key' = key
                \/ \E p \in Pc : /\ pc[i] # "done" /\ pc' = [pc EXCEPT ![i] = p]
                                 /\ \/ p = "done" /\ \/ pc[i] = "following"
                                                     \/ pc[i] = "admitting" /\ reply[i] = "turn"
                                    \/ p \notin {"following", "done"}
                                    \/ /\ p = "following" /\ key' = key
                                       /\ pc[i] = "admitting" /\ reply[i] = "turn"
             /\ \A h \in Jobs \ {i} : key'[h] = key[h]
  <2>1. ASSUME NEW method \in {"start", "run"}, Call(i, method)
        PROVE  pc[i] # "done" /\ pc' = [pc EXCEPT ![i] = "locking"] /\ key' = key
    BY <2>1 DEF Call
  <2>2. CASE Send(i)
    BY <2>2 DEF Send, Pc
  <2>3. CASE Reach(i)
    BY <2>3 DEF Reach
  <2>4. CASE Admitted(i)
    BY <2>4 DEF Admitted, End, Pc
  <2>5. CASE Refused(i)
    BY <2>5 DEF Refused, End, IdleOrLost, Pc
  <2>6. CASE AnswerLost(i)
    BY <2>6 DEF AnswerLost, End, Pc
  <2>7. CASE Result(i) \/ ResultTimesOut(i)
    BY <2>7 DEF Result, ResultTimesOut, End, Pc
  <2>8. CASE Fail(i)
    BY <2>8 DEF Fail, End, IdleOrLost, Pc
  <2>9. QED
    BY <1>1, <2>1, <2>2, <2>3, <2>4, <2>5, <2>6, <2>7, <2>8 DEF Step, Pc
<1>2. CASE Restart
  BY <1>2 DEF Restart
<1>3. CASE UNCHANGED <<pc, key>>
  BY <1>3
<1>4. ASSUME NEW i \in Jobs, Step(i)
      PROVE  /\ pc'[j] = "following" => /\ key'[j] = key[j]
                                        /\ \/ pc[j] = "following"
                                           \/ pc[j] = "admitting" /\ reply[j] = "turn"
             /\ pc'[j] = "done" => \/ pc[j] \in {"following", "done"}
                                   \/ pc[j] = "admitting" /\ reply[j] = "turn"
             /\ pc[j] = "done" => pc'[j] = "done"
  BY <1>1, <1>4
<1>5. QED
  BY <1>2, <1>3, <1>4 DEF Next, ReachStray, EndTurn, vars

LEMMA StepReturnsItsTurn ==
  ASSUME AdmissionInv, ReturnsItsTurn, [Next]_vars
  PROVE  ReturnsItsTurn'
<1> SUFFICES ASSUME NEW j \in Jobs
             PROVE  /\ pc'[j] = "following" => turns'[key'[j]] # "none"
                    /\ pc'[j] = "done" => AdmittedFor(j)' # {}
  BY DEF ReturnsItsTurn
<1>1. ASSUME \/ pc[j] = "following"
             \/ pc[j] = "admitting" /\ reply[j] = "turn"
      PROVE  turns'[key[j]] # "none" /\ AdmittedFor(j)' # {}
  <2>1. key[j] \in Keys /\ key[j][1] = j /\ turns[key[j]] # "none"
    BY <1>1 DEF AdmissionInv, KeysInv, ReturnsItsTurn
  <2>2. QED
    BY <2>1, AdmittedStays, AdmittedForStays DEF AdmittedFor
<1>2. pc[j] = "done" => AdmittedFor(j)' # {}
  BY AdmittedForStays DEF ReturnsItsTurn
<1>3. QED
  BY <1>1, <1>2, EndedBy

LEMMA ReturnsInvariant == Spec => []ReturnsItsTurn
<1>1. Init => ReturnsItsTurn
  BY DEF Init, ReturnsItsTurn
<1>2. AdmissionInv /\ ReturnsItsTurn /\ [Next]_vars => ReturnsItsTurn'
  BY StepReturnsItsTurn
<1>3. QED
  BY <1>1, <1>2, AdmissionInvariant, PTL DEF Spec

(* A request of a job that has no Turn may give it one ...                 *)
LEMMA ServedIsGiven ==
  ASSUME AdmissionInv, ReturnsItsTurn, OneTurnPerJob, OneTurnPerJob',
         NEW k \in Keys, Serve(k) \/ UNCHANGED turns, UNCHANGED pc
  PROVE  [Turns!Next]_<<admitted, returned>>
<1> USE DEF AdmissionInv, TypeOK
<1>1. CASE turns[k] = "none" /\ turns' = [turns EXCEPT ![k] = "active"]
  <2> DEFINE j == k[1]
  <2>1. j \in Jobs
    BY DEF Keys
  <2>2. AdmittedFor(j)' = {k} /\ TurnFor(j)' = k
    <3>1. k \in AdmittedFor(j)'
      BY <1>1 DEF AdmittedFor
    <3>2. AdmittedFor(j)' = {k}
      BY <3>1 DEF AdmittedFor, OneTurnPerJob
    <3>3. QED
      BY <3>2 DEF TurnFor
  <2>3. AdmittedFor(j) = {}
    <3>1. AdmittedFor(j) \subseteq AdmittedFor(j)' \ {k}
      BY <1>1 DEF AdmittedFor
    <3>2. QED
      BY <2>2, <3>1
  <2>4. \A i \in Jobs : i # j => AdmittedFor(i)' = AdmittedFor(i)
    BY <1>1 DEF AdmittedFor
  <2>5. \A i \in Jobs : i # j => TurnFor(i)' = TurnFor(i)
    BY <2>4, SameAdmitted
  <2>6. pc[j] # "done"
    BY <2>1, <2>3 DEF ReturnsItsTurn
  <2>7. TurnFor(j) = NoKey
    BY <2>3 DEF TurnFor
  <2> HIDE DEF j
  <2>8. admitted' = [admitted EXCEPT ![j] = k] /\ admitted[j] = NoKey
    BY <2>1, <2>2, <2>5, <2>7 DEF admitted
  <2>9. returned' = returned
    BY <2>5, <2>6 DEF returned
  <2>10. Turns!Give(j, k)
    BY <2>8, <2>9 DEF Turns!Give
  <2>11. QED
    BY <2>1, <2>10 DEF Turns!Next
<1>2. CASE UNCHANGED turns
  BY <1>2 DEF admitted, returned, TurnFor, AdmittedFor
<1>3. QED
  BY <1>1, <1>2 DEF Serve

(* ... and a call that ends well takes the Turn its job was given.         *)
LEMMA EndedIsTaken ==
  ASSUME AdmissionInv, ReturnsItsTurn, [Next]_vars, UNCHANGED turns
  PROVE  [Turns!Next]_<<admitted, returned>>
<1>1. \A j \in Jobs : TurnFor(j)' = TurnFor(j)
  BY DEF TurnFor, AdmittedFor
<1>2. admitted' = admitted
  BY <1>1 DEF admitted
<1>3. ASSUME \A j \in Jobs : pc'[j] = "done" => pc[j] = "done" PROVE returned' = returned
  BY <1>1, <1>3, EndedBy DEF returned
<1>4. ASSUME NEW j \in Jobs, pc[j] # "done", pc'[j] = "done"
      PROVE  Turns!Take(j)
  <2>1. \A i \in Jobs : i # j => (pc'[i] = "done" <=> pc[i] = "done")
    <3>1. ~Restart
      BY <1>4 DEF Restart
    <3>2. ASSUME NEW h \in Jobs, Step(h) PROVE \A i \in Jobs \ {h} : pc'[i] = pc[i]
      BY <3>2 DEF Step, Call, Send, Reach, Admitted, Refused, AnswerLost, Result,
         ResultTimesOut, Fail, End, AdmissionInv, TypeOK
    <3>3. QED
      BY <1>4, <3>1, <3>2 DEF Next, ReachStray, EndTurn, vars
  <2>2. returned' = [returned EXCEPT ![j] = admitted[j]] /\ returned[j] = NoKey
    BY <1>1, <1>4, <2>1 DEF returned, admitted
  <2>3. QED
    BY <1>2, <2>2 DEF Turns!Take
<1>5. QED
  BY <1>2, <1>3, <1>4 DEF Turns!Next

(* To the application a job is given one Turn, or none, and what it is     *)
(* told of it is that Turn and stays so.                                   *)
THEOREM ImplementsTurnOnce == Spec => Turns!Spec
<1>1. Init => Turns!Init
  BY DEF Init, Turns!Init, admitted, returned, TurnFor, AdmittedFor
<1>2. ASSUME AdmissionInv, AdmissionInv', ReturnsItsTurn, [Next]_vars
      PROVE  [Turns!Next]_<<admitted, returned>>
  <2>1. OneTurnPerJob /\ OneTurnPerJob'
    BY <1>2 DEF AdmissionInv, KeysInv, OneTurnPerJob, Sent, Keys
  <2>2. ASSUME NEW j \in Jobs, Reach(j) PROVE [Turns!Next]_<<admitted, returned>>
    <3>1. key[j] \in Keys
      BY <1>2, <2>2 DEF Reach, AdmissionInv, KeysInv
    <3>2. QED
      BY <1>2, <2>1, <2>2, <3>1, ServedIsGiven DEF Reach
  <2>3. ASSUME NEW k \in Keys, ReachStray(k) PROVE [Turns!Next]_<<admitted, returned>>
    BY <1>2, <2>1, <2>3, ServedIsGiven DEF ReachStray
  <2>4. ASSUME NEW k \in Keys, EndTurn(k) PROVE UNCHANGED <<admitted, returned>>
    <3>1. \A j \in Jobs : AdmittedFor(j)' = AdmittedFor(j)
      BY <1>2, <2>4 DEF EndTurn, AdmittedFor, AdmissionInv, TypeOK
    <3>2. \A j \in Jobs : TurnFor(j)' = TurnFor(j)
      BY <3>1, SameAdmitted
    <3>3. QED
      BY <2>4, <3>2 DEF EndTurn, admitted, returned
  <2>5. CASE UNCHANGED turns
    BY <1>2, <2>5, EndedIsTaken
  <2>6. QED
    BY <1>2, <2>2, <2>3, <2>4, <2>5 DEF Next, Step, Call, Send, Admitted, Refused,
       AnswerLost, Result, ResultTimesOut, Fail, Restart, vars
<1>3. QED
  BY <1>1, <1>2, AdmissionInvariant, ReturnsInvariant, PTL DEF Spec, Turns!Spec
=============================================================================
