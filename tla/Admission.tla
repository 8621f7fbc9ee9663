------------------------------ MODULE Admission ------------------------------
(***************************************************************************)
(* The admission of Turns to one Conversation (sdk/python facade.py,       *)
(* _Runnable._start and Conversation.start and run).  Calls that name the  *)
(* Conversation alike take turns on one lock of their Client.  An          *)
(* admission whose answer is lost is repeated by the application, under    *)
(* the idempotency key the error gave it or the one it chose itself, while *)
(* the first request may still be on its way.                              *)
(***************************************************************************)
EXTENDS Naturals, Sequences

CONSTANTS
  Jobs,       (* what the application wants done, each by one Turn         *)
  OwnKey,     (* the jobs for which it passes an idempotency key it stores *)
  Locks,      (* keys of _conversation_locks                               *)
  LockKey,    (* how each job names the Conversation                       *)
  NoKey,      (* no idempotency key                                        *)
  MaxCalls    (* bound: of the calls made                                  *)

Keys == Jobs \X (0..MaxCalls)    (* generated by a call, or the job's own: 0 *)

ASSUME OwnKeyAssumption == OwnKey \subseteq Jobs
ASSUME LockKeyAssumption == LockKey \in [Jobs -> Locks]
ASSUME NoKeyAssumption == NoKey \notin Keys
ASSUME MaxCallsAssumption == MaxCalls \in Nat

VARIABLES
  pc,      (* where the call made for each job is suspended                *)
  calls,   (* how many calls were made                                     *)
  kind,    (* which method its call is of: "start" or "run"                *)
  known,   (* the key the application has for it                           *)
  key,     (* admission_key of its call                                    *)
  reply,   (* the answer to the request of its call                        *)
  lock,    (* the asyncio.Lock of each name: its holder and who waits      *)
  strays,  (* keys of requests on their way whose callers have gone        *)
  turns    (* service: the Turn admitted under each key                    *)

vars == <<pc, calls, kind, known, key, reply, lock, strays, turns>>

Pc    == {"idle", "locking", "admitting", "following", "done", "lost"}
Reply == {"none", "turn", "conflict", "error"}

TypeOK ==
  /\ pc \in [Jobs -> Pc]
  /\ calls \in 0..MaxCalls
  /\ kind \in [Jobs -> {"none", "start", "run"}]
  /\ known \in [Jobs -> Keys \cup {NoKey}]
  /\ key \in [Jobs -> Keys \cup {NoKey}]
  /\ reply \in [Jobs -> Reply]
  /\ lock \in [Locks -> Seq(Jobs)]
  /\ strays \in SUBSET Keys
  /\ turns \in [Keys -> {"none", "active", "ended"}]

Stored(j) == IF j \in OwnKey THEN <<j, 0>> ELSE NoKey

Init ==
  /\ pc = [j \in Jobs |-> "idle"]
  /\ calls = 0
  /\ kind = [j \in Jobs |-> "none"]
  /\ known = [j \in Jobs |-> Stored(j)]
  /\ key = [j \in Jobs |-> NoKey]
  /\ reply = [j \in Jobs |-> "none"]
  /\ lock = [l \in Locks |-> <<>>]
  /\ strays = {}
  /\ turns = [k \in Keys |-> "none"]

-----------------------------------------------------------------------------
(* The service.                                                            *)

Active == {k \in Keys : turns[k] = "active"}

(* A key seen before stands for its Turn; another Turn is admitted only    *)
(* when the Conversation has none that is active (`if_active: reject`).    *)
Admits(k) == turns[k] # "none" \/ Active = {}

Serve(k) ==
  turns' = IF turns[k] = "none" /\ Active = {} THEN [turns EXCEPT ![k] = "active"]
           ELSE turns

Reach(j) ==
  /\ pc[j] = "admitting"
  /\ reply[j] = "none"
  /\ \/ /\ Serve(key[j])
        /\ reply' = [reply EXCEPT ![j] = IF Admits(key[j]) THEN "turn" ELSE "conflict"]
     \/ /\ Serve(key[j]) \/ UNCHANGED turns
        /\ reply' = [reply EXCEPT ![j] = "error"]
  /\ UNCHANGED <<pc, calls, kind, known, key, lock, strays>>

(* Requests of several calls may be on their way under one key.            *)
ReachStray(k) ==
  /\ k \in strays
  /\ strays' \in {strays, strays \ {k}}
  /\ Serve(k)
  /\ UNCHANGED <<pc, calls, kind, known, key, reply, lock>>

EndTurn(k) ==
  /\ turns[k] = "active"
  /\ turns' = [turns EXCEPT ![k] = "ended"]
  /\ UNCHANGED <<pc, calls, kind, known, key, reply, lock, strays>>

-----------------------------------------------------------------------------
(* The calls.                                                              *)

(* The lock is free for the first in its queue.                            *)
Holds(j) == lock[LockKey[j]] # <<>> /\ Head(lock[LockKey[j]]) = j

(* `async with lock` is left, or the wait for it given up.                 *)
Release(j) ==
  \E i \in 1..Len(lock[LockKey[j]]) :
    /\ lock[LockKey[j]][i] = j
    /\ lock' = [lock EXCEPT ![LockKey[j]] =
                  SubSeq(@, 1, i - 1) \o SubSeq(@, i + 1, Len(@))]

(* The call ends, and what it knew with it.                                *)
End(j, next) ==
  /\ pc' = [pc EXCEPT ![j] = next]
  /\ kind' = [kind EXCEPT ![j] = "none"]
  /\ key' = [key EXCEPT ![j] = NoKey]
  /\ reply' = [reply EXCEPT ![j] = "none"]

(* The request of the call may be on its way still.                        *)
LeaveRequest(j) ==
  strays' = IF pc[j] = "admitting" /\ reply[j] = "none"
            THEN strays \cup {key[j]} ELSE strays

(* The application can make another call for the job, if it has its key.   *)
IdleOrLost(j) == IF known[j] # NoKey THEN "idle" ELSE "lost"

Call(j, method) ==
  /\ pc[j] = "idle"
  /\ calls < MaxCalls
  /\ pc' = [pc EXCEPT ![j] = "locking"]
  /\ calls' = calls + 1
  /\ kind' = [kind EXCEPT ![j] = method]
  /\ lock' = [lock EXCEPT ![LockKey[j]] = Append(@, j)]
  /\ UNCHANGED <<known, key, reply, strays, turns>>

(* Faulty: the key of an earlier call is not used again.                   *)
SendAnew(j) ==
  /\ pc[j] = "locking"
  /\ Holds(j)
  /\ pc' = [pc EXCEPT ![j] = "admitting"]
  /\ key' = [key EXCEPT ![j] = <<j, calls>>]
  /\ UNCHANGED <<calls, kind, known, reply, lock, strays, turns>>

(* The lock is taken, the key generated or used again, the request sent.   *)
Send(j) ==
  /\ pc[j] = "locking"
  /\ Holds(j)
  /\ pc' = [pc EXCEPT ![j] = "admitting"]
  /\ key' = [key EXCEPT ![j] = IF known[j] # NoKey THEN known[j] ELSE <<j, calls>>]
  /\ UNCHANGED <<calls, kind, known, reply, lock, strays, turns>>

(* Faulty: `run` gives the lock back when the Turn is admitted.            *)
AdmittedAlike(j) ==
  /\ pc[j] = "admitting"
  /\ reply[j] = "turn"
  /\ pc' = [pc EXCEPT ![j] = IF kind[j] = "run" THEN "following" ELSE "done"]
  /\ Release(j)
  /\ UNCHANGED <<calls, kind, known, key, reply, strays, turns>>

(* `start` returns the Turn, `run` goes on to its result.                  *)
Admitted(j) ==
  /\ pc[j] = "admitting"
  /\ reply[j] = "turn"
  /\ \/ /\ kind[j] = "run"
        /\ pc' = [pc EXCEPT ![j] = "following"]
        /\ UNCHANGED <<kind, key, reply, lock>>
     \/ /\ kind[j] = "start"
        /\ End(j, "done")
        /\ Release(j)
  /\ UNCHANGED <<calls, known, strays, turns>>

(* Faulty: a refusal leaves the lock taken.                                *)
RefusedHoldingLock(j) ==
  /\ pc[j] = "admitting"
  /\ reply[j] \in {"conflict", "error"}
  /\ End(j, IF reply[j] = "conflict" THEN "idle" ELSE IdleOrLost(j))
  /\ UNCHANGED <<calls, known, lock, strays, turns>>

(* An error status, whose error has no key.  After a conflict the job was  *)
(* not admitted; after another error it may have been.                     *)
Refused(j) ==
  /\ pc[j] = "admitting"
  /\ reply[j] \in {"conflict", "error"}
  /\ End(j, IF reply[j] = "conflict" THEN "idle" ELSE IdleOrLost(j))
  /\ Release(j)
  /\ UNCHANGED <<calls, known, strays, turns>>

(* TurnTimeoutError and TurnAdmissionError hand the key out.               *)
AnswerLost(j) ==
  /\ pc[j] = "admitting"
  /\ End(j, "idle")
  /\ known' = [known EXCEPT ![j] = key[j]]
  /\ LeaveRequest(j)
  /\ Release(j)
  /\ UNCHANGED <<calls, turns>>

(* The result arrives, or TurnTimeoutError hands out the Turn.             *)
Result(j) ==
  /\ pc[j] = "following"
  /\ turns[key[j]] = "ended"
  /\ End(j, "done")
  /\ Release(j)
  /\ UNCHANGED <<calls, known, strays, turns>>

ResultTimesOut(j) ==
  /\ pc[j] = "following"
  /\ End(j, "done")
  /\ Release(j)
  /\ UNCHANGED <<calls, known, strays, turns>>

(* The call is cancelled anywhere, or fails while it follows its Turn: no  *)
(* key and no Turn is handed out.  A call that sent nothing can be repeated.*)
Fail(j) ==
  /\ pc[j] \in {"locking", "admitting", "following"}
  /\ End(j, IF pc[j] = "locking" THEN "idle" ELSE IdleOrLost(j))
  /\ LeaveRequest(j)
  /\ Release(j)
  /\ UNCHANGED <<calls, known, turns>>

(* The process ends.  The application remembers the keys it stored, and    *)
(* makes another call for a job only under such a key.                     *)
Restart ==
  /\ pc' = [j \in Jobs |->
              IF pc[j] = "done" THEN "done" ELSE IF j \in OwnKey THEN "idle" ELSE "lost"]
  /\ kind' = [j \in Jobs |-> "none"]
  /\ known' = [j \in Jobs |-> Stored(j)]
  /\ key' = [j \in Jobs |-> NoKey]
  /\ reply' = [j \in Jobs |-> "none"]
  /\ lock' = [l \in Locks |-> <<>>]
  /\ strays' = strays \cup
       {key[j] : j \in {i \in Jobs : pc[i] = "admitting" /\ reply[i] = "none"}}
  /\ UNCHANGED <<calls, turns>>

-----------------------------------------------------------------------------
Step(j) ==
  \/ \E method \in {"start", "run"} : Call(j, method)
  \/ Send(j) \/ Reach(j) \/ Admitted(j) \/ Refused(j) \/ AnswerLost(j)
  \/ Result(j) \/ ResultTimesOut(j) \/ Fail(j)

Next ==
  \/ \E j \in Jobs : Step(j)
  \/ \E k \in Keys : ReachStray(k) \/ EndTurn(k)
  \/ Restart

Spec == Init /\ [][Next]_vars

(* Coroutines run, the service answers, and Turns end.                     *)
Fairness ==
  /\ \A j \in Jobs :
       WF_vars(Send(j)) /\ WF_vars(Reach(j)) /\ WF_vars(Admitted(j)) /\ WF_vars(Refused(j))
       /\ WF_vars(Result(j))
  /\ \A k \in Keys : WF_vars(EndTurn(k))

FairSpec == Spec /\ Fairness

-----------------------------------------------------------------------------
(* Properties.                                                             *)

(* However often a job is called for, with requests overtaking each other  *)
(* and answers lost, it gets one Turn.                                     *)
OneTurnPerJob ==
  \A k1, k2 \in Keys :
    turns[k1] # "none" /\ turns[k2] # "none" /\ k1[1] = k2[1] => k1 = k2

(* Of the calls that share a lock, one is refused only because of a Turn   *)
(* that none of them follows: one that `start` left running, that was      *)
(* given up, or that was called for under another name.                    *)
RefusedForTurnOfOthers ==
  [][\A j \in Jobs :
       reply[j] # "conflict" /\ reply'[j] = "conflict" =>
         \E k \in Active : \A i \in Jobs :
           pc[i] = "following" /\ LockKey[i] = LockKey[j] => key[i] # k]_vars

(* A call that waits for the lock gets it, or gives up.                    *)
LockIsHandedOn == \A j \in Jobs : pc[j] = "locking" ~> pc[j] # "locking"

-----------------------------------------------------------------------------
(* The inductive invariant behind these.                                   *)

(* The service has a request under key k, or may yet have one.             *)
Sent(k) == turns[k] # "none" \/ k \in strays

(* All that was sent for a job was sent under the one key that its next    *)
(* request will carry, if there can be one.                                *)
KeysInv ==
  \A j \in Jobs :
    /\ known[j] # NoKey => known[j][1] = j
    /\ j \in OwnKey => known[j] = <<j, 0>>
    /\ \A k1, k2 \in Keys : k1[1] = j /\ k2[1] = j /\ Sent(k1) /\ Sent(k2) => k1 = k2
    /\ pc[j] \in {"idle", "locking"} \/ known[j] # NoKey =>
         \A k \in Keys : k[1] = j /\ Sent(k) => k = known[j]
    /\ pc[j] \in {"admitting", "following"} =>
         /\ key[j] \in Keys
         /\ key[j][1] = j
         /\ \A k \in Keys : k[1] = j /\ Sent(k) => k = key[j]
         /\ known[j] # NoKey => key[j] = known[j]
    /\ pc[j] \in {"idle", "locking"} => reply[j] = "none"
    /\ pc[j] = "admitting" /\ known[j] = NoKey =>
         /\ key[j] \notin strays
         /\ reply[j] \in {"none", "conflict"} => turns[key[j]] = "none"
    /\ pc[j] = "admitting" /\ reply[j] = "turn" => turns[key[j]] # "none"

(* A call from its request to its end is first in its lock's queue.        *)
LockInv == \A j \in Jobs : pc[j] \in {"admitting", "following"} => Holds(j)

AdmissionInv ==
  /\ TypeOK
  /\ KeysInv
  /\ LockInv
=============================================================================
