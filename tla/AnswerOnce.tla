------------------------------ MODULE AnswerOnce ------------------------------
(***************************************************************************)
(* What a callback endpoint promises: each ToolCall gets at most one       *)
(* answer, which never changes, and the service learns that answer or none.*)
(***************************************************************************)
CONSTANTS Calls, Replies, NoReply

VARIABLES
  given,   (* the answer of each call                                      *)
  taken    (* the answer the service has of it                             *)

Init ==
  /\ given = [c \in Calls |-> NoReply]
  /\ taken = [c \in Calls |-> NoReply]

(* An answer is given, and perhaps taken at once.                          *)
Give(c, r) ==
  /\ given[c] = NoReply
  /\ given' = [given EXCEPT ![c] = r]
  /\ taken' \in {taken, [taken EXCEPT ![c] = r]}

Take(c) ==
  /\ taken[c] = NoReply
  /\ taken' = [taken EXCEPT ![c] = given[c]]
  /\ UNCHANGED given

Next == \E c \in Calls : Take(c) \/ \E r \in Replies : Give(c, r)

Spec == Init /\ [][Next]_<<given, taken>>
=============================================================================
