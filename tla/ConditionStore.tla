--------------------------- MODULE ConditionStore ---------------------------
(***************************************************************************)
(* What UpsertPtpCondition promises its callers, stated without the       *)
(* Get / UpdateStatus round trips: each call is a read-modify-write of    *)
(* the status conditions that takes effect atomically, zero or more       *)
(* times, and the call returns ok only after one of them took effect.     *)
(* A call that took effect may still return timeout (its last reply was   *)
(* lost), and any call may return err or timeout without effect.          *)
(***************************************************************************)
CONSTANTS
  Writers,         \* concurrent callers
  Cond,            \* Cond[w]: the condition caller w upserts
  InitConditions,  \* the conditions the object may start with
  UpsertOp(_, _)   \* the upsert: the list with one condition written in

VARIABLES
  store,   \* the stored conditions
  result   \* each call's outcome: pending, ok, err or timeout

vars == <<store, result>>

Outcomes == {"pending", "ok", "err", "timeout"}

Init ==
  /\ store \in InitConditions
  /\ result = [w \in Writers |-> "pending"]

(* The call's upsert takes effect on the current conditions; the call   *)
(* may return ok, go on, or return timeout because the reply was lost.  *)
Apply(w) ==
  /\ result[w] = "pending"
  /\ store' = UpsertOp(store, Cond[w])
  /\ \E r \in {"pending", "ok", "timeout"} : result' = [result EXCEPT ![w] = r]

(* The call gives up without a further effect. *)
Fail(w) ==
  /\ result[w] = "pending"
  /\ \E r \in {"err", "timeout"} : result' = [result EXCEPT ![w] = r]
  /\ UNCHANGED store

Next == \E w \in Writers : Apply(w) \/ Fail(w)

(* A call does not stay pending for ever. *)
Spec == Init /\ [][Next]_vars /\ \A w \in Writers : WF_vars(Fail(w))
=============================================================================
