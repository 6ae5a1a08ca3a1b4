---------------------------- MODULE OutboxPromise ----------------------------
(***************************************************************************)
(* What the email outbox promises to the identity services that enqueue    *)
(* into it: a queued email is handed to the provider any number of times   *)
(* while it is queued and never again once its outcome is recorded; it is  *)
(* recorded as sent only if the provider took it at least once; the        *)
(* outcome, sent or dead, is recorded exactly once; and it is recorded     *)
(* eventually.  Workers, locks, retries and crashes are not visible here.  *)
(***************************************************************************)
EXTENDS Naturals

CONSTANT Deliveries   \* the idempotency keys that callers enqueue under

VARIABLES job,     \* the outcome recorded for each delivery so far
          mailed   \* how often the provider accepted each delivery

promiseVars == <<job, mailed>>

Outcomes == {"none", "queued", "sent", "dead", "purged"}

PromiseInit ==
  /\ job = [d \in Deliveries |-> "none"]
  /\ mailed = [d \in Deliveries |-> 0]

Queue(d) ==
  /\ job[d] = "none"
  /\ job' = [job EXCEPT ![d] = "queued"]
  /\ UNCHANGED mailed

Mail(d) ==
  /\ job[d] = "queued"
  /\ mailed' = [mailed EXCEPT ![d] = @ + 1]
  /\ UNCHANGED job

Settle(d) ==
  /\ job[d] = "queued"
  /\ \/ mailed[d] > 0 /\ job' = [job EXCEPT ![d] = "sent"]
     \/ job' = [job EXCEPT ![d] = "dead"]
  /\ UNCHANGED mailed

Forget(d) ==
  /\ job[d] \in {"sent", "dead"}
  /\ job' = [job EXCEPT ![d] = "purged"]
  /\ UNCHANGED mailed

PromiseNext == \E d \in Deliveries : Queue(d) \/ Mail(d) \/ Settle(d) \/ Forget(d)

\* The safety half of the promise, and the whole of it.
PromiseSafety == PromiseInit /\ [][PromiseNext]_promiseVars

Promise == PromiseSafety /\ \A d \in Deliveries : WF_promiseVars(Settle(d))
=============================================================================
