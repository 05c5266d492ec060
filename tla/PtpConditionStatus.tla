------------------------- MODULE PtpConditionStatus -------------------------
(***************************************************************************)
(* Concurrent callers of UpsertPtpCondition                                *)
(* (src/pkg/status/ptpconfig_status.go) writing conditions into the       *)
(* status of one PtpConfig object.                                        *)
(*                                                                         *)
(* Each try of the backoff loop Gets the object, upserts the caller's    *)
(* condition by its composite key (Type, Profile, Filename, Process),     *)
(* trims the list to its last MaxConditions entries and calls            *)
(* UpdateStatus with the object it read.  The API server accepts the     *)
(* update only if the object's resourceVersion is still current          *)
(* (optimistic concurrency); a conflict or any other UpdateStatus error  *)
(* makes the try return (false, nil), so wait.ExponentialBackoff tries   *)
(* again until its Steps are used up and then returns ErrWaitTimeout.    *)
(* A Get error is returned at once and ends the loop.  An UpdateStatus   *)
(* error may also be a lost reply to an update the server applied.       *)
(*                                                                         *)
(* A condition is abstracted to its composite key and a value standing   *)
(* for the rest of its fields.                                           *)
(***************************************************************************)
EXTENDS Naturals, Sequences, SequencesExt

CONSTANTS
  Writers,        \* concurrent callers of UpsertPtpCondition
  Keys,           \* composite keys Type+Profile+Filename+Process
  Values,         \* the other fields of a condition
  Cond,           \* Cond[w]: the condition caller w upserts
  MaxConditions,  \* maxConditions (100 in the code)
  BackoffSteps,   \* wait.Backoff.Steps (6 in the code)
  GetErrors,      \* whether Get may fail
  UpdateErrors,   \* whether UpdateStatus may fail other than by conflict
  InitConditions  \* the status conditions the object may start with

Conditions == [key : Keys, val : Values]
NoValue == "none"

ASSUME
  /\ Cond \in [Writers -> Conditions]
  /\ MaxConditions \in Nat \ {0}
  /\ BackoffSteps \in Nat \ {0}
  /\ GetErrors \in BOOLEAN /\ UpdateErrors \in BOOLEAN
  /\ InitConditions \subseteq Seq(Conditions)

VARIABLES
  store,       \* pc.Status.PtpStatus.Conditions as stored by the API server
  version,     \* the object's resourceVersion
  pc,          \* each caller's position: get, update, ok, err, timeout
  snap,        \* the conditions the caller computed from its Get
  snapVer,     \* the resourceVersion of the object it read
  snapDrop,    \* the keys its trim dropped
  left,        \* backoff.Steps still left
  lastCommit,  \* per key: the value of the last update the server applied
  evicted      \* keys trimmed away and not written since

vars == <<store, version, pc, snap, snapVer, snapDrop, left, lastCommit, evicted>>

Done == {"ok", "err", "timeout"}

KeysOf(s) == {s[i].key : i \in 1..Len(s)}

(* A plausible slip: an off-by-one in the history bound. *)
TrimOffByOne(s) ==
  IF Len(s) > MaxConditions + 1 THEN SubSeq(s, Len(s) - MaxConditions, Len(s))
                                ELSE s

(* The history bound: keep the last MaxConditions entries. *)
Trim(s) ==
  IF Len(s) > MaxConditions THEN SubSeq(s, Len(s) - MaxConditions + 1, Len(s))
                            ELSE s

(* A plausible slip: append without looking for the key. *)
UpsertAppend(s, c) == Trim(Append(s, c))

(* Replace the first condition with c's key in place, or append c;       *)
(* then trim.                                                            *)
Upsert(s, c) ==
  LET i == SelectInSeq(s, LAMBDA x : x.key = c.key)
  IN  Trim(IF i # 0 THEN [s EXCEPT ![i] = c] ELSE Append(s, c))

Init ==
  /\ store \in InitConditions
  /\ version = 0
  /\ pc = [w \in Writers |-> "get"]
  /\ snap = [w \in Writers |-> <<>>]
  /\ snapVer = [w \in Writers |-> 0]
  /\ snapDrop = [w \in Writers |-> {}]
  /\ left = [w \in Writers |-> BackoffSteps]
  /\ lastCommit = [k \in Keys |-> NoValue]
  /\ evicted = {}

(* One try of the condition: Get, upsert and trim in the local copy.     *)
Get(w) ==
  /\ pc[w] = "get"
  /\ snap' = [snap EXCEPT ![w] = Upsert(store, Cond[w])]
  /\ snapVer' = [snapVer EXCEPT ![w] = version]
  /\ snapDrop' = [snapDrop EXCEPT ![w] =
                    (KeysOf(store) \cup {Cond[w].key}) \ KeysOf(snap'[w])]
  /\ pc' = [pc EXCEPT ![w] = "update"]
  /\ UNCHANGED <<store, version, left, lastCommit, evicted>>

(* A Get error is returned by the condition and ends the backoff loop.   *)
GetError(w) ==
  /\ pc[w] = "get"
  /\ GetErrors
  /\ pc' = [pc EXCEPT ![w] = "err"]
  /\ UNCHANGED <<store, version, snap, snapVer, snapDrop, left, lastCommit, evicted>>

(* A plausible slip: an update that does not carry the version it read. *)
FreshAlways(w) == TRUE

(* UpdateStatus sends the object read by Get, with its resourceVersion. *)
Fresh(w) == snapVer[w] = version

(* The server applies caller w's update. *)
Commit(w) ==
  /\ store' = snap[w]
  /\ version' = version + 1
  /\ lastCommit' = [lastCommit EXCEPT ![Cond[w].key] = Cond[w].val]
  /\ evicted' = (evicted \cup snapDrop[w]) \ KeysOf(snap[w])

(* A plausible slip: retry without counting the step. *)
BackoffNoCount(w) == pc' = [pc EXCEPT ![w] = "get"] /\ UNCHANGED left

(* The condition returned (false, nil): try again, or give up when       *)
(* Steps is down to one.                                                 *)
Backoff(w) ==
  IF left[w] = 1
    THEN pc' = [pc EXCEPT ![w] = "timeout"] /\ UNCHANGED left
    ELSE pc' = [pc EXCEPT ![w] = "get"] /\ left' = [left EXCEPT ![w] = @ - 1]

UpdateStatus(w) ==
  /\ pc[w] = "update"
  /\ Fresh(w)
  /\ Commit(w)
  /\ pc' = [pc EXCEPT ![w] = "ok"]
  /\ UNCHANGED <<snap, snapVer, snapDrop, left>>

UpdateConflict(w) ==
  /\ pc[w] = "update"
  /\ ~Fresh(w)
  /\ Backoff(w)
  /\ UNCHANGED <<store, version, snap, snapVer, snapDrop, lastCommit, evicted>>

(* Any other error: the update is not applied... *)
UpdateFailed(w) ==
  /\ pc[w] = "update"
  /\ UpdateErrors
  /\ Backoff(w)
  /\ UNCHANGED <<store, version, snap, snapVer, snapDrop, lastCommit, evicted>>

(* ...or it was applied and the reply was lost. *)
UpdateReplyLost(w) ==
  /\ pc[w] = "update"
  /\ UpdateErrors
  /\ Fresh(w)
  /\ Commit(w)
  /\ Backoff(w)
  /\ UNCHANGED <<snap, snapVer, snapDrop>>

Upserting(w) ==
  \/ Get(w) \/ GetError(w)
  \/ UpdateStatus(w) \/ UpdateConflict(w) \/ UpdateFailed(w) \/ UpdateReplyLost(w)

Next == \E w \in Writers : Upserting(w)

(* Each caller's goroutine keeps running: its sleeps end and its calls *)
(* return.                                                              *)
Fairness == \A w \in Writers : WF_vars(Upserting(w))

Spec == Init /\ [][Next]_vars /\ Fairness
-----------------------------------------------------------------------------
TypeOK ==
  /\ store \in Seq(Conditions) /\ Len(store) <= MaxConditions
  /\ version \in Nat
  /\ pc \in [Writers -> {"get", "update"} \cup Done]
  /\ snap \in [Writers -> Seq(Conditions)]
  /\ snapVer \in [Writers -> Nat]
  /\ snapDrop \in [Writers -> SUBSET Keys]
  /\ left \in [Writers -> 1..BackoffSteps]
  /\ lastCommit \in [Keys -> Values \cup {NoValue}]
  /\ evicted \subseteq Keys

(* The upsert replaces a condition with the same composite key instead  *)
(* of appending one, so the stored conditions have distinct keys, even  *)
(* when a retry repeats an update whose reply was lost.                 *)
UniqueConditionKeys ==
  \A i, j \in 1..Len(store) : i # j => store[i].key # store[j].key

(* No lost update: the read-modify-write of concurrent callers never    *)
(* drops another caller's applied condition.  For every key some update *)
(* wrote, the stored value is the one the server applied last, unless   *)
(* the trim to maxConditions evicted the key.                           *)
NoLostUpdate ==
  \A k \in Keys :
    (lastCommit[k] # NoValue /\ k \notin evicted)
      => [key |-> k, val |-> lastCommit[k]] \in ToSet(store)

(* Every call of UpsertPtpCondition returns, however often UpdateStatus *)
(* fails: the backoff gives up after Steps tries.                        *)
EveryUpsertReturns == \A w \in Writers : <>(pc[w] \in Done)

(* Each call's outcome as its caller sees it. *)
Outcome == [w \in Writers |-> IF pc[w] \in Done THEN pc[w] ELSE "pending"]

CS == INSTANCE ConditionStore WITH UpsertOp <- Upsert, result <- Outcome

(* The upserts of concurrent callers are atomic: the Get / upsert /      *)
(* UpdateStatus round trips, with conflicts, failed and lost replies and *)
(* retries, implement ConditionStore, where every applied update is the  *)
(* upsert of the caller's condition into the conditions stored at that   *)
(* moment and a call returns ok only after its update was applied.  It   *)
(* rests on UpdateStatus sending the resourceVersion read by the Get.    *)
AtomicUpsert == CS!Spec
=============================================================================
