----------------------------- MODULE MCAdmission -----------------------------
(* Two jobs name the Conversation by its key, one of them with a stored    *)
(* idempotency key; the third names it by its id.                          *)
EXTENDS Admission

CONSTANTS j1, j2, j3, byKey, byId

NameOf == [j \in Jobs |-> IF j = j3 THEN byId ELSE byKey]
=============================================================================
