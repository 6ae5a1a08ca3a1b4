----------------------------- MODULE EmailOutbox -----------------------------
(***************************************************************************)
(* The transactional email outbox of the identity module                   *)
(* (apps/identity/services/email_delivery.py).  A row per delivery is      *)
(* written in the caller's transaction; workers (the scheduled command, or *)
(* the on-commit hook in development) claim a row in one transaction, call *)
(* the provider outside any transaction and record the outcome with a save *)
(* of the row they loaded when they claimed it.                            *)
(*                                                                         *)
(* The clock is abstracted to what the code compares it with: each row has *)
(* a flag for "next_attempt_at has passed", "locked_at is past the lock    *)
(* timeout" and "expires_at has passed".                                   *)
(***************************************************************************)
EXTENDS Naturals

CONSTANTS Deliveries,    \* idempotency keys
          Workers,       \* processes that run process_email_deliveries or the hook
          NoDelivery,    \* what an idle worker holds
          MaxAttempts,   \* EMAIL_DELIVERY_MAX_ATTEMPTS, stored on each row
          MaxCrashes,    \* bound: worker processes that die
          Slow           \* a provider call may outlast EMAIL_DELIVERY_LOCK_TIMEOUT_SECONDS

ASSUME AttemptsAssumption == MaxAttempts \in Nat \ {0} /\ MaxCrashes \in Nat
ASSUME SlowAssumption == Slow \in BOOLEAN
ASSUME NoDeliveryAssumption == NoDelivery \notin Deliveries

VARIABLES row,       \* identity_email_deliveries, by idempotency key
          worker,    \* what each worker process has in memory
          mailed,    \* provider side: accepted sends of each delivery
          crashes    \* worker processes that died so far

vars == <<row, worker, mailed, crashes>>

Unsettled == {"pending", "processing", "retry"}
Settled == {"sent", "dead"}

Rows == [status : Unsettled \union Settled \union {"absent", "purged"},
         payload : BOOLEAN,      \* encrypted_payload is not the empty string
         attempts : Nat,         \* attempt_count
         due : BOOLEAN,          \* next_attempt_at <= now
         stale : BOOLEAN,        \* locked_at <= now - lock timeout
         expired : BOOLEAN]      \* expires_at <= now

\* A worker's in-memory copy of the row it claimed, and how far it got.
Locals == [step : {"idle", "claimed", "accepted"},
           job : Deliveries \union {NoDelivery},
           attempts : Nat,
           payload : BOOLEAN]

Idle == [step |-> "idle", job |-> NoDelivery, attempts |-> 0, payload |-> FALSE]

Busy(w) == worker[w].step # "idle"

NoRow == [status |-> "absent", payload |-> FALSE, attempts |-> 0,
          due |-> FALSE, stale |-> FALSE, expired |-> FALSE]

Init ==
  /\ row = [d \in Deliveries |-> NoRow]
  /\ worker = [w \in Workers |-> Idle]
  /\ mailed = [d \in Deliveries |-> 0]
  /\ crashes = 0
-----------------------------------------------------------------------------
(* Enqueue and the clock                                                    *)

\* enqueue_email_delivery: get_or_create leaves an existing row as it is.
Enqueue(d) ==
  /\ row[d].status = "absent"
  /\ row' = [row EXCEPT ![d] = [NoRow EXCEPT !.status = "pending", !.payload = TRUE,
                                             !.due = TRUE]]
  /\ UNCHANGED <<worker, mailed, crashes>>

BackoffElapses(d) ==
  /\ row[d].status = "retry" /\ ~row[d].due
  /\ row' = [row EXCEPT ![d].due = TRUE]
  /\ UNCHANGED <<worker, mailed, crashes>>

\* The lock of a live worker goes stale only if its provider call may be slow.
LockGoesStale(d) ==
  /\ row[d].status = "processing" /\ ~row[d].stale
  /\ Slow \/ \A w \in Workers : worker[w].job # d
  /\ row' = [row EXCEPT ![d].stale = TRUE]
  /\ UNCHANGED <<worker, mailed, crashes>>

Expires(d) ==
  /\ row[d].status \notin {"absent", "purged"} /\ ~row[d].expired
  /\ row' = [row EXCEPT ![d].expired = TRUE]
  /\ UNCHANGED <<worker, mailed, crashes>>
-----------------------------------------------------------------------------
(* Workers                                                                  *)

\* Fault: the due filter forgets the lock timeout on PROCESSING rows.
ClaimableIgnoringLock(r) ==
  \/ r.status \in {"pending", "retry"} /\ r.due
  \/ r.status = "processing"

\* Fault: PROCESSING rows are never reclaimed.
ClaimableOnce(r) == r.status \in {"pending", "retry"} /\ r.due

\* The filter of claim_due_email_delivery and claim_email_delivery.
Claimable(r) ==
  \/ r.status \in {"pending", "retry"} /\ r.due
  \/ r.status = "processing" /\ r.stale

\* _claim_one and _claim_by_id: one transaction under SKIP LOCKED.
Claim(w, d) ==
  /\ ~Busy(w)
  /\ Claimable(row[d])
  /\ row' = [row EXCEPT ![d] = [@ EXCEPT !.status = "processing", !.stale = FALSE,
                                         !.attempts = row[d].attempts + 1]]
  /\ worker' = [worker EXCEPT ![w] = [step |-> "claimed", job |-> d,
                                      attempts |-> row[d].attempts + 1,
                                      payload |-> row[d].payload]]
  /\ UNCHANGED <<mailed, crashes>>

\* The provider takes the message.  A row past its expiry, or one whose payload
\* does not decrypt, never gets that far.
ProviderAccepts(w) ==
  /\ worker[w].step = "claimed"
  /\ worker[w].payload
  /\ ~row[worker[w].job].expired
  /\ mailed' = [mailed EXCEPT ![worker[w].job] = @ + 1]
  /\ worker' = [worker EXCEPT ![w].step = "accepted"]
  /\ UNCHANGED <<row, crashes>>

\* Fault: the payload column is missing from update_fields.
SaveWithoutPayload(w, status, payload) ==
  /\ row' = [row EXCEPT ![worker[w].job] =
               IF @.status = "purged" THEN @
               ELSE [@ EXCEPT !.status = status, !.due = FALSE, !.stale = FALSE]]
  /\ worker' = [worker EXCEPT ![w] = Idle]
  /\ UNCHANGED <<mailed, crashes>>

\* delivery.save(update_fields=...): the worker's copy replaces the listed columns
\* whatever the row holds by now; a purged row makes the save raise.
SaveOutcome(w, status, payload) ==
  /\ row' = [row EXCEPT ![worker[w].job] =
               IF @.status = "purged" THEN @
               ELSE [@ EXCEPT !.status = status, !.payload = payload,
                              !.due = FALSE, !.stale = FALSE]]
  /\ worker' = [worker EXCEPT ![w] = Idle]
  /\ UNCHANGED <<mailed, crashes>>

\* Fault: the provider's own word for success is stored as the status.
FinishAsDelivered(w) ==
  /\ worker[w].step = "accepted"
  /\ SaveOutcome(w, "delivered", FALSE)

FinishSuccess(w) ==
  /\ worker[w].step = "accepted"
  /\ SaveOutcome(w, "sent", FALSE)

\* Fault: the attempt limit is tested with > and not >=.
ExhaustedLate(w) ==
  worker[w].attempts > MaxAttempts \/ row[worker[w].job].expired

\* The attempt was the last one allowed, or the delivery is past its expiry.
Exhausted(w) ==
  worker[w].attempts >= MaxAttempts \/ row[worker[w].job].expired

\* _process_delivery's expiry check and its three except branches.  A refusal is
\* permanent only if the provider did not take the message; an answer lost or
\* unreadable after it did is a temporary failure.
FinishFailure(w) ==
  /\ Busy(w)
  /\ \/ Exhausted(w) /\ SaveOutcome(w, "dead", FALSE)
     \/ ~Exhausted(w) /\ SaveOutcome(w, "retry", worker[w].payload)
     \/ worker[w].step = "claimed" /\ SaveOutcome(w, "dead", FALSE)

\* The process dies; the row keeps its lock until it goes stale.
Crash(w) ==
  /\ Busy(w)
  /\ crashes < MaxCrashes
  /\ crashes' = crashes + 1
  /\ worker' = [worker EXCEPT ![w] = Idle]
  /\ UNCHANGED <<row, mailed>>

\* purge_email_deliveries deletes what settled long enough ago.
Purge(d) ==
  /\ row[d].status \in Settled
  /\ row' = [row EXCEPT ![d] = [@ EXCEPT !.status = "purged", !.payload = FALSE]]
  /\ UNCHANGED <<worker, mailed, crashes>>

WorkerStep(w) == ProviderAccepts(w) \/ FinishSuccess(w) \/ FinishFailure(w)

Next ==
  \/ \E d \in Deliveries :
       \/ Enqueue(d) \/ BackoffElapses(d) \/ LockGoesStale(d) \/ Expires(d) \/ Purge(d)
       \/ \E w \in Workers : Claim(w, d)
  \/ \E w \in Workers : WorkerStep(w) \/ Crash(w)

\* Time passes, the scheduler keeps starting workers and a worker that does not die
\* comes to the end of its job.  Nobody has to enqueue, purge or crash.
Fairness ==
  /\ \A d \in Deliveries : /\ WF_vars(BackoffElapses(d))
                           /\ WF_vars(LockGoesStale(d))
                           /\ WF_vars(Expires(d))
                           /\ WF_vars(\E w \in Workers : Claim(w, d))
  /\ \A w \in Workers : WF_vars(WorkerStep(w))

SafetySpec == Init /\ [][Next]_vars
Spec == SafetySpec /\ Fairness
-----------------------------------------------------------------------------
(* Properties                                                               *)

\* The row and every worker's copy of it stay within their types.
TypeOK ==
  /\ row \in [Deliveries -> Rows]
  /\ worker \in [Workers -> Locals]
  /\ mailed \in [Deliveries -> Nat]
  /\ crashes \in Nat

\* The encrypted payload is there exactly as long as the row still has to be sent:
\* no interleaving of stale workers leaves a retry without its message or a settled
\* row with one (encrypted_payload in the update_fields of both _finish_ functions).
PayloadIffUnsettled ==
  \A d \in Deliveries : row[d].payload <=> row[d].status \in Unsettled

\* While provider calls stay within the lock timeout no two workers ever hold the same
\* delivery (select_for_update(skip_locked) and the stale_before filter of the claim).
OneWorkerPerDelivery ==
  \A v, w \in Workers : v # w /\ Busy(v) => worker[v].job # worker[w].job

\* The provider is asked at most once per attempt counted on the row, and attempts
\* beyond the limit are only ever made up for processes that died: a stale lock is
\* reclaimed without looking at max_attempts.
AttemptsAccounted ==
  \A d \in Deliveries : row[d].status \in Unsettled =>
    /\ mailed[d] <= row[d].attempts
    /\ row[d].attempts <= MaxAttempts + crashes

\* Once a delivery is sent or dead its payload stays erased, whoever saves the row later.
ErasedStaysErased ==
  [][\A d \in Deliveries : row[d].status \in Settled => ~row'[d].payload]_vars

\* The outbox seen by its callers.
Outcome(d) ==
  CASE row[d].status = "absent" -> "none"
    [] row[d].status \in Unsettled -> "queued"
    [] OTHER -> row[d].status

Caller == INSTANCE OutboxPromise WITH job <- [d \in Deliveries |-> Outcome(d)]

\* With calls that stay within the lock timeout the outbox is the one its callers are
\* promised: nothing is mailed after its outcome is recorded, sent means mailed, an
\* outcome is final, and every queued delivery gets one.
KeepsPromise == Caller!Promise
=============================================================================
