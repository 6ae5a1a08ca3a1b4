-------------------------- MODULE EmailOutboxProofs --------------------------
(***************************************************************************)
(* What the email outbox does for any number of deliveries and workers.    *)
(***************************************************************************)
EXTENDS EmailOutbox, TLAPS

LEMMA Constants ==
  /\ MaxAttempts \in Nat \ {0} /\ MaxCrashes \in Nat
  /\ Slow \in BOOLEAN /\ NoDelivery \notin Deliveries
  BY AttemptsAssumption, SlowAssumption, NoDeliveryAssumption

\* A busy worker holds a delivery and a copy of its message, an idle one nothing.
Holdings ==
  \A w \in Workers :
    /\ Busy(w) => worker[w].job \in Deliveries /\ worker[w].payload
    /\ ~Busy(w) => worker[w].job = NoDelivery

SoundInv == TypeOK /\ PayloadIffUnsettled /\ Holdings

\* A save by a busy worker keeps the columns it writes consistent.
LEMMA SaveOutcomeSound ==
  ASSUME SoundInv, NEW w \in Workers, Busy(w),
         NEW status \in {"sent", "dead", "retry"}, NEW payload \in BOOLEAN,
         payload <=> status = "retry",
         SaveOutcome(w, status, payload)
  PROVE  SoundInv'
<1>1. worker[w].job \in Deliveries
  BY DEF SoundInv, Holdings
<1>. DEFINE d == worker[w].job
            saved == [row[d] EXCEPT !.status = status, !.payload = payload,
                                    !.due = FALSE, !.stale = FALSE]
<1>5. row[d] \in Rows
  BY <1>1 DEF SoundInv, TypeOK
<1>6. saved \in Rows
  BY <1>5 DEF Rows, Unsettled, Settled
<1>7. row' \in [Deliveries -> Rows]
  BY <1>1, <1>5, <1>6 DEF SoundInv, TypeOK, SaveOutcome
<1>2. TypeOK'
  BY <1>7 DEF SoundInv, TypeOK, Locals, SaveOutcome, Idle
<1>3. PayloadIffUnsettled'
  BY <1>1 DEF SoundInv, TypeOK, Rows, PayloadIffUnsettled, SaveOutcome, Unsettled
<1>4. Holdings'
  BY DEF SoundInv, TypeOK, Holdings, SaveOutcome, Idle, Busy
<1>. QED
  BY <1>2, <1>3, <1>4 DEF SoundInv

LEMMA InitSound == Init => SoundInv
<1>. SUFFICES ASSUME Init PROVE SoundInv
  OBVIOUS
<1>1. TypeOK
  BY DEF Init, TypeOK, Rows, Locals, NoRow, Idle, Unsettled, Settled
<1>2. PayloadIffUnsettled
  BY DEF Init, PayloadIffUnsettled, NoRow, Unsettled
<1>3. Holdings
  BY DEF Init, Holdings, Busy, Idle
<1>. QED
  BY <1>1, <1>2, <1>3 DEF SoundInv

LEMMA NextSound == SoundInv /\ [Next]_vars => SoundInv'
<1>. SUFFICES ASSUME SoundInv, [Next]_vars PROVE SoundInv'
  OBVIOUS
<1>. USE DEF SoundInv
<1>1. ASSUME NEW d \in Deliveries,
             Enqueue(d) \/ BackoffElapses(d) \/ LockGoesStale(d) \/ Expires(d) \/ Purge(d)
      PROVE  SoundInv'
  <2>4. row[d] \in Rows
    BY DEF TypeOK
  <2>5. PICK r \in Rows : /\ row' = [row EXCEPT ![d] = r]
                          /\ r.payload <=> r.status \in Unsettled
    <3>1. CASE Enqueue(d)
      <4>. DEFINE r == [NoRow EXCEPT !.status = "pending", !.payload = TRUE, !.due = TRUE]
      <4>1. r \in Rows /\ r.payload /\ r.status \in Unsettled
        BY DEF Rows, NoRow, Unsettled
      <4>. QED
        BY <3>1, <4>1 DEF Enqueue
    <3>2. CASE BackoffElapses(d)
      <4>. DEFINE r == [row[d] EXCEPT !.due = TRUE]
      <4>1. r \in Rows /\ r.payload = row[d].payload /\ r.status = row[d].status
        BY <2>4 DEF Rows
      <4>. QED
        BY <3>2, <4>1 DEF BackoffElapses, PayloadIffUnsettled
    <3>3. CASE LockGoesStale(d)
      <4>. DEFINE r == [row[d] EXCEPT !.stale = TRUE]
      <4>1. r \in Rows /\ r.payload = row[d].payload /\ r.status = row[d].status
        BY <2>4 DEF Rows
      <4>. QED
        BY <3>3, <4>1 DEF LockGoesStale, PayloadIffUnsettled
    <3>4. CASE Expires(d)
      <4>. DEFINE r == [row[d] EXCEPT !.expired = TRUE]
      <4>1. r \in Rows /\ r.payload = row[d].payload /\ r.status = row[d].status
        BY <2>4 DEF Rows
      <4>. QED
        BY <3>4, <4>1 DEF Expires, PayloadIffUnsettled
    <3>5. CASE Purge(d)
      <4>. DEFINE r == [row[d] EXCEPT !.status = "purged", !.payload = FALSE]
      <4>1. r \in Rows /\ ~r.payload /\ r.status = "purged"
        BY <2>4 DEF Rows
      <4>. QED
        BY <3>5, <4>1 DEF Purge, Unsettled
    <3>. QED
      BY <1>1, <3>1, <3>2, <3>3, <3>4, <3>5
  <2>6. UNCHANGED <<worker, mailed, crashes>>
    BY <1>1 DEF Enqueue, BackoffElapses, LockGoesStale, Expires, Purge
  <2>1. TypeOK'
    BY <2>5, <2>6 DEF TypeOK
  <2>2. PayloadIffUnsettled'
    BY <2>5, <2>6 DEF TypeOK, PayloadIffUnsettled
  <2>3. Holdings'
    BY <1>1 DEF Enqueue, BackoffElapses, LockGoesStale, Expires, Purge, Holdings, Busy
  <2>. QED
    BY <2>1, <2>2, <2>3
<1>2. ASSUME NEW w \in Workers, NEW d \in Deliveries, Claim(w, d)
      PROVE  SoundInv'
  <2>. DEFINE r == [row[d] EXCEPT !.status = "processing", !.stale = FALSE,
                                  !.attempts = row[d].attempts + 1]
              l == [step |-> "claimed", job |-> d, attempts |-> row[d].attempts + 1,
                    payload |-> row[d].payload]
  <2>5. row[d] \in Rows
    BY DEF TypeOK
  <2>6. row[d].attempts + 1 \in Nat /\ row[d].payload \in BOOLEAN
    BY <2>5 DEF Rows
  <2>7. r \in Rows
    BY <2>5, <2>6 DEF Rows, Unsettled
  <2>8. l \in Locals
    BY <2>6 DEF Locals
  <2>9. row' = [row EXCEPT ![d] = r] /\ worker' = [worker EXCEPT ![w] = l]
        /\ UNCHANGED <<mailed, crashes>>
    BY <1>2 DEF Claim
  <2>1. TypeOK'
    <3>. HIDE DEF r, l
    <3>. QED
      BY <2>7, <2>8, <2>9 DEF TypeOK
  <2>2. row[d].payload /\ row[d].status \in Unsettled
    BY <1>2 DEF Claim, Claimable, PayloadIffUnsettled, Unsettled
  <2>3. PayloadIffUnsettled'
    BY <1>2, <2>2 DEF Claim, TypeOK, Rows, PayloadIffUnsettled, Unsettled
  <2>4. Holdings'
    BY <1>2, <2>2 DEF Claim, TypeOK, Holdings, Busy
  <2>. QED
    BY <2>1, <2>3, <2>4
<1>3. ASSUME NEW w \in Workers, ProviderAccepts(w)
      PROVE  SoundInv'
  <2>1. worker[w].job \in Deliveries
    BY <1>3 DEF ProviderAccepts, Holdings, Busy
  <2>2. TypeOK'
    BY <1>3, <2>1, SMTT(30) DEF ProviderAccepts, TypeOK, Locals
  <2>3. PayloadIffUnsettled' /\ Holdings'
    BY <1>3 DEF ProviderAccepts, TypeOK, Locals, PayloadIffUnsettled, Holdings, Busy
  <2>. QED
    BY <2>2, <2>3
<1>4. ASSUME NEW w \in Workers, FinishSuccess(w)
      PROVE  SoundInv'
  <2>1. Busy(w) /\ SaveOutcome(w, "sent", FALSE)
    BY <1>4 DEF FinishSuccess, Busy
  <2>. QED
    BY <2>1, SaveOutcomeSound
<1>5. ASSUME NEW w \in Workers, FinishFailure(w)
      PROVE  SoundInv'
  <2>1. CASE SaveOutcome(w, "dead", FALSE)
    BY <1>5, <2>1, SaveOutcomeSound DEF FinishFailure
  <2>2. CASE SaveOutcome(w, "retry", worker[w].payload)
    <3>1. Busy(w) /\ worker[w].payload
      BY <1>5 DEF FinishFailure, Holdings
    <3>2. worker[w].payload \in BOOLEAN
      BY DEF TypeOK, Locals
    <3>. QED
      BY <2>2, <3>1, <3>2, SaveOutcomeSound
  <2>. QED
    BY <1>5, <2>1, <2>2 DEF FinishFailure
<1>6. ASSUME NEW w \in Workers, Crash(w)
      PROVE  SoundInv'
  <2>1. TypeOK'
    BY <1>6 DEF Crash, TypeOK, Locals, Idle
  <2>2. PayloadIffUnsettled' /\ Holdings'
    BY <1>6 DEF Crash, TypeOK, PayloadIffUnsettled, Holdings, Busy, Idle
  <2>. QED
    BY <2>1, <2>2
<1>7. CASE UNCHANGED vars
  BY <1>7 DEF vars, TypeOK, PayloadIffUnsettled, Holdings, Busy
<1>. QED
  BY <1>1, <1>2, <1>3, <1>4, <1>5, <1>6, <1>7 DEF Next, WorkerStep

LEMMA AlwaysSound == SafetySpec => []SoundInv
  BY InitSound, NextSound, PTL DEF SafetySpec

\* Every row and every worker's copy of one stay within their types, however slow the
\* workers are (the columns of EmailDelivery).
THEOREM OutboxTyped == SafetySpec => []TypeOK
<1>1. SoundInv => TypeOK
  BY DEF SoundInv
<1>. QED
  BY <1>1, AlwaysSound, PTL

\* No interleaving of workers, slow ones included, leaves a delivery to be retried
\* without its message or a settled one with it: both _finish_ functions write the
\* payload together with the status.
THEOREM PayloadKept == SafetySpec => []PayloadIffUnsettled
<1>1. SoundInv => PayloadIffUnsettled
  BY DEF SoundInv
<1>. QED
  BY <1>1, AlwaysSound, PTL
-----------------------------------------------------------------------------
(* From here on provider calls stay within the lock timeout.                *)

\* A delivery in a worker's hands is still locked for it, and is accepted only if mailed.
Locked ==
  \A w \in Workers : Busy(w) =>
    /\ row[worker[w].job].status = "processing"
    /\ ~row[worker[w].job].stale
    /\ worker[w].step = "accepted" => mailed[worker[w].job] > 0

LockInv == SoundInv /\ Locked /\ OneWorkerPerDelivery

LEMMA NextLocked == ~Slow /\ LockInv /\ [Next]_vars => Locked' /\ OneWorkerPerDelivery'
<1>. SUFFICES ASSUME ~Slow, LockInv, [Next]_vars
              PROVE  Locked' /\ OneWorkerPerDelivery'
  OBVIOUS
<1>. USE DEF LockInv, SoundInv
<1>1. ASSUME NEW d \in Deliveries,
             Enqueue(d) \/ BackoffElapses(d) \/ LockGoesStale(d) \/ Expires(d) \/ Purge(d)
      PROVE  Locked' /\ OneWorkerPerDelivery'
  <2>1. UNCHANGED <<worker, mailed>>
    BY <1>1 DEF Enqueue, BackoffElapses, LockGoesStale, Expires, Purge
  <2>2. ASSUME NEW w \in Workers, Busy(w), worker[w].job = d
        PROVE  row'[d].status = "processing" /\ ~row'[d].stale
    <3>1. row[d].status = "processing" /\ ~row[d].stale
      BY <2>2 DEF Locked
    <3>2. Expires(d)
      BY <1>1, <2>2, <3>1 DEF Enqueue, BackoffElapses, LockGoesStale, Purge, Settled
    <3>. QED
      BY <3>1, <3>2 DEF Expires, TypeOK, Rows
  <2>3. \A e \in Deliveries : e # d => row'[e] = row[e]
    BY <1>1 DEF Enqueue, BackoffElapses, LockGoesStale, Expires, Purge, TypeOK
  <2>4. Locked'
    BY <2>1, <2>2, <2>3 DEF Locked, Holdings, Busy
  <2>. QED
    BY <2>1, <2>4 DEF OneWorkerPerDelivery, Busy
<1>2. ASSUME NEW w \in Workers, NEW d \in Deliveries, Claim(w, d)
      PROVE  Locked' /\ OneWorkerPerDelivery'
  <2>1. \A v \in Workers : worker[v].job # d
    BY <1>2, NoDeliveryAssumption DEF Claim, Claimable, Locked, Holdings
  <2>2. /\ worker'[w].step = "claimed" /\ worker'[w].job = d
        /\ \A v \in Workers \ {w} : worker'[v] = worker[v]
        /\ ~Busy(w)
    BY <1>2 DEF Claim, TypeOK
  <2>3. /\ row'[d].status = "processing" /\ ~row'[d].stale
        /\ \A e \in Deliveries \ {d} : row'[e] = row[e]
    BY <1>2 DEF Claim, TypeOK, Rows
  <2>4. UNCHANGED mailed
    BY <1>2 DEF Claim
  <2>. QED
    BY <2>1, <2>2, <2>3, <2>4 DEF Locked, OneWorkerPerDelivery, Holdings, Busy
<1>3. ASSUME NEW w \in Workers, ProviderAccepts(w)
      PROVE  Locked' /\ OneWorkerPerDelivery'
  <2>1. /\ Busy(w) /\ worker[w].job \in Deliveries /\ UNCHANGED row
        /\ mailed[worker[w].job] \in Nat
    BY <1>3 DEF ProviderAccepts, Holdings, Busy, TypeOK
  <2>2. /\ mailed'[worker[w].job] = mailed[worker[w].job] + 1
        /\ \A e \in Deliveries \ {worker[w].job} : mailed'[e] = mailed[e]
    BY <1>3, <2>1 DEF ProviderAccepts, TypeOK
  <2>3. /\ \A v \in Workers : worker'[v].job = worker[v].job /\ (Busy(v)' <=> Busy(v))
        /\ \A v \in Workers \ {w} : worker'[v] = worker[v]
    BY <1>3, <2>1 DEF ProviderAccepts, TypeOK, Locals, Busy
  <2>4. OneWorkerPerDelivery'
    BY <2>3 DEF OneWorkerPerDelivery
  <2>5. mailed'[worker[w].job] > 0
    BY <2>1, <2>2
  <2>6. Locked'
    BY <2>1, <2>2, <2>3, <2>5 DEF Locked, OneWorkerPerDelivery, Holdings
  <2>. QED
    BY <2>4, <2>6
<1>4. ASSUME NEW w \in Workers, FinishSuccess(w) \/ FinishFailure(w) \/ Crash(w)
      PROVE  Locked' /\ OneWorkerPerDelivery'
  <2>1. Busy(w) /\ UNCHANGED mailed
    BY <1>4 DEF FinishSuccess, FinishFailure, SaveOutcome, Crash, Busy
  <2>2. worker' = [worker EXCEPT ![w] = Idle]
    BY <1>4 DEF FinishSuccess, FinishFailure, SaveOutcome, Crash
  <2>3. \A e \in Deliveries \ {worker[w].job} : row'[e] = row[e]
    BY <1>4 DEF FinishSuccess, FinishFailure, SaveOutcome, Crash, TypeOK
  <2>4. ~Busy(w)' /\ worker'[w].job = NoDelivery
        /\ \A v \in Workers \ {w} : worker'[v] = worker[v]
    BY <2>2 DEF TypeOK, Idle, Busy
  <2>. QED
    BY <2>1, <2>3, <2>4, NoDeliveryAssumption DEF Locked, OneWorkerPerDelivery, Holdings, Busy
<1>5. CASE UNCHANGED vars
  BY <1>5 DEF vars, Locked, OneWorkerPerDelivery, Busy
<1>. QED
  BY <1>1, <1>2, <1>3, <1>4, <1>5 DEF Next, WorkerStep

LEMMA AlwaysLocked == ASSUME ~Slow PROVE SafetySpec => []LockInv
<1>1. Init => LockInv
  BY InitSound DEF Init, LockInv, Locked, OneWorkerPerDelivery, Busy, Idle
<1>2. LockInv /\ [Next]_vars => LockInv'
  BY NextLocked, NextSound DEF LockInv
<1>. QED
  BY <1>1, <1>2, PTL DEF SafetySpec

\* With provider calls that stay within the lock timeout no two workers hold the same
\* delivery, whatever crashes and reclaims happen: the claim filters skip a row whose
\* lock is fresh.
THEOREM ExclusiveClaims == ASSUME ~Slow PROVE SafetySpec => []OneWorkerPerDelivery
<1>1. LockInv => OneWorkerPerDelivery
  BY DEF LockInv
<1>. QED
  BY <1>1, AlwaysLocked, PTL

\* With provider calls that stay within the lock timeout a sent or dead delivery's payload
\* stays erased: nobody is left to save an older copy of it.
THEOREM ErasedForGood == ASSUME ~Slow PROVE SafetySpec => ErasedStaysErased
<1>1. LockInv /\ [Next]_vars =>
        [\A d \in Deliveries : row[d].status \in Settled => ~row'[d].payload]_vars
  <2>. SUFFICES ASSUME LockInv, Next, NEW d \in Deliveries, row[d].status \in Settled
                PROVE  ~row'[d].payload
    BY DEF vars
  <2>. USE DEF LockInv, SoundInv
  <2>1. ~row[d].payload /\ row[d].status # "processing"
    BY DEF PayloadIffUnsettled, Settled, Unsettled
  <2>2. ASSUME NEW w \in Workers, Busy(w)
        PROVE  worker[w].job # d
    BY <2>1, <2>2 DEF Locked
  <2>3. ASSUME NEW e \in Deliveries,
               Enqueue(e) \/ BackoffElapses(e) \/ LockGoesStale(e) \/ Expires(e) \/ Purge(e)
        PROVE  ~row'[d].payload
    BY <2>1, <2>3 DEF Enqueue, BackoffElapses, LockGoesStale, Expires, Purge, TypeOK, Rows,
      Settled
  <2>4. ASSUME NEW w \in Workers, NEW e \in Deliveries, Claim(w, e)
        PROVE  ~row'[d].payload
    BY <2>1, <2>4 DEF Claim, Claimable, Settled, TypeOK, Rows
  <2>5. ASSUME NEW w \in Workers, WorkerStep(w) \/ Crash(w)
        PROVE  ~row'[d].payload
    <3>1. Busy(w)
      BY <2>5 DEF WorkerStep, ProviderAccepts, FinishSuccess, FinishFailure, Crash, Busy
    <3>2. row'[d] = row[d]
      BY <2>5, <3>1, <2>2 DEF WorkerStep, ProviderAccepts, FinishSuccess, FinishFailure,
        SaveOutcome, Crash, TypeOK
    <3>. QED
      BY <2>1, <3>2
  <2>. QED
    BY <2>3, <2>4, <2>5 DEF Next
<1>. QED
  BY <1>1, AlwaysLocked, PTL DEF SafetySpec, ErasedStaysErased
-----------------------------------------------------------------------------
(* Attempts.                                                                *)

\* What a row's attempt count says in each status; a row left in "processing" by a process
\* that died has that crash to its credit.
RowAccount(d) ==
  /\ mailed[d] <= row[d].attempts
  /\ row[d].status \in {"absent", "pending"} => row[d].attempts = 0
  /\ row[d].status = "retry" => row[d].attempts < MaxAttempts
  /\ row[d].status = "processing" =>
       /\ row[d].attempts <= MaxAttempts + crashes
       /\ (\A w \in Workers : worker[w].job # d) => row[d].attempts < MaxAttempts + crashes

WorkerAccount(w) ==
  Busy(w) => /\ worker[w].attempts = row[worker[w].job].attempts
             /\ worker[w].step = "claimed" => mailed[worker[w].job] < worker[w].attempts

Accounts == (\A d \in Deliveries : RowAccount(d)) /\ (\A w \in Workers : WorkerAccount(w))

\* What a save does to the row its worker claimed.
LEMMA SaveOutcomeRow ==
  ASSUME TypeOK, NEW w \in Workers, NEW d \in Deliveries, worker[w].job = d,
         row[d].status # "purged", NEW status, NEW payload, SaveOutcome(w, status, payload)
  PROVE  /\ row'[d].status = status /\ row'[d].attempts = row[d].attempts
         /\ crashes' = crashes
<1>1. row[d] \in Rows
  BY DEF TypeOK
<1>2. row'[d] = [row[d] EXCEPT !.status = status, !.payload = payload,
                               !.due = FALSE, !.stale = FALSE]
  BY DEF TypeOK, SaveOutcome
<1>3. row'[d].status = status /\ row'[d].attempts = row[d].attempts
  BY <1>1, <1>2 DEF Rows
<1>4. crashes' = crashes
  BY DEF SaveOutcome
<1>. QED
  BY <1>3, <1>4

LEMMA NextAccounted ==
  ASSUME ~Slow, LockInv, Accounts, [Next]_vars
  PROVE  Accounts'
<1>. USE Constants DEF LockInv, SoundInv, Accounts
<1>0. /\ \A d \in Deliveries : row[d] \in Rows /\ row[d].attempts \in Nat /\ mailed[d] \in Nat
      /\ crashes \in Nat /\ \A w \in Workers : worker[w] \in Locals /\ worker[w].attempts \in Nat
  BY DEF TypeOK, Rows, Locals
<1>1. ASSUME NEW d \in Deliveries,
             Enqueue(d) \/ BackoffElapses(d) \/ LockGoesStale(d) \/ Expires(d) \/ Purge(d)
      PROVE  Accounts'
  <2>1. UNCHANGED <<worker, mailed, crashes>>
    BY <1>1 DEF Enqueue, BackoffElapses, LockGoesStale, Expires, Purge
  <2>2. \A e \in Deliveries : e # d => row'[e] = row[e]
    BY <1>1 DEF Enqueue, BackoffElapses, LockGoesStale, Expires, Purge, TypeOK
  <2>3. /\ row'[d].attempts = row[d].attempts
        /\ \/ row'[d].status = row[d].status
           \/ row'[d].status = "pending" /\ row[d].status = "absent"
           \/ row'[d].status = "purged"
    <3>1. CASE Enqueue(d)
      BY <3>1 DEF Enqueue, TypeOK, NoRow, RowAccount
    <3>2. CASE BackoffElapses(d)
      BY <1>0, <3>2 DEF BackoffElapses, TypeOK, Rows
    <3>3. CASE LockGoesStale(d)
      BY <1>0, <3>3 DEF LockGoesStale, TypeOK, Rows
    <3>4. CASE Expires(d)
      BY <1>0, <3>4 DEF Expires, TypeOK, Rows
    <3>5. CASE Purge(d)
      BY <1>0, <3>5 DEF Purge, TypeOK, Rows
    <3>. QED
      BY <1>1, <3>1, <3>2, <3>3, <3>4, <3>5
  <2>5. RowAccount(d)'
    BY <2>1, <2>3 DEF RowAccount
  <2>6. \A e \in Deliveries : RowAccount(e)'
    BY <2>1, <2>2, <2>5 DEF RowAccount
  <2>7. \A w \in Workers : WorkerAccount(w)'
    BY <2>1, <2>2, <2>3 DEF WorkerAccount, Holdings, Busy
  <2>. QED
    BY <2>6, <2>7
<1>2. ASSUME NEW w \in Workers, NEW d \in Deliveries, Claim(w, d)
      PROVE  Accounts'
  <2>1. \A v \in Workers : worker[v].job # d
    BY <1>2, NoDeliveryAssumption DEF Claim, Claimable, Locked, Holdings
  <2>2. /\ worker'[w].step = "claimed" /\ worker'[w].job = d
        /\ worker'[w].attempts = row[d].attempts + 1
        /\ \A v \in Workers \ {w} : worker'[v] = worker[v]
    BY <1>2 DEF Claim, TypeOK
  <2>3. /\ row'[d].status = "processing" /\ row'[d].attempts = row[d].attempts + 1
        /\ \A e \in Deliveries \ {d} : row'[e] = row[e]
    BY <1>0, <1>2 DEF Claim, TypeOK, Rows
  <2>4. UNCHANGED <<mailed, crashes>> /\ ~Busy(w)
    BY <1>2 DEF Claim
  <2>5. row[d].attempts + 1 <= MaxAttempts + crashes
    BY <1>0, <1>2, <2>1 DEF Claim, Claimable, RowAccount
  <2>6. RowAccount(d)'
    BY <1>0, <2>2, <2>3, <2>4, <2>5 DEF RowAccount
  <2>7. ASSUME NEW e \in Deliveries \ {d} PROVE RowAccount(e)'
    <3>1. worker[w].job # e /\ worker'[w].job # e
      BY <2>2, <2>4, NoDeliveryAssumption DEF Holdings
    <3>2. (\A v \in Workers : worker'[v].job # e) <=> (\A v \in Workers : worker[v].job # e)
      BY <2>2, <3>1
    <3>. QED
      BY <2>3, <2>4, <3>2 DEF RowAccount
  <2>8. WorkerAccount(w)'
    BY <1>0, <2>2, <2>3, <2>4 DEF WorkerAccount, RowAccount
  <2>9. ASSUME NEW v \in Workers \ {w} PROVE WorkerAccount(v)'
    BY <2>1, <2>2, <2>3, <2>4 DEF WorkerAccount, Holdings, Busy
  <2>. QED
    BY <2>6, <2>7, <2>8, <2>9
<1>3. ASSUME NEW w \in Workers, ProviderAccepts(w)
      PROVE  Accounts'
  <2>1. /\ Busy(w) /\ worker[w].job \in Deliveries /\ UNCHANGED <<row, crashes>>
        /\ worker[w].step = "claimed"
    BY <1>3 DEF ProviderAccepts, Holdings, Busy
  <2>2. /\ mailed'[worker[w].job] = mailed[worker[w].job] + 1
        /\ \A e \in Deliveries \ {worker[w].job} : mailed'[e] = mailed[e]
    BY <1>3, <2>1 DEF ProviderAccepts, TypeOK
  <2>3. /\ \A v \in Workers : /\ worker'[v].job = worker[v].job /\ (Busy(v)' <=> Busy(v))
                              /\ worker'[v].attempts = worker[v].attempts
        /\ \A v \in Workers \ {w} : worker'[v] = worker[v]
        /\ worker'[w].step = "accepted"
    BY <1>3, <2>1 DEF ProviderAccepts, TypeOK, Locals, Busy
  <2>4. mailed[worker[w].job] + 1 <= row[worker[w].job].attempts
    BY <1>0, <2>1 DEF WorkerAccount
  <2>5. \A e \in Deliveries : mailed'[e] <= row[e].attempts
    BY <2>2, <2>4 DEF RowAccount
  <2>6. \A e \in Deliveries : RowAccount(e)'
    BY <2>1, <2>3, <2>5 DEF RowAccount
  <2>7. ASSUME NEW v \in Workers PROVE WorkerAccount(v)'
    BY <2>1, <2>2, <2>3, <2>7 DEF WorkerAccount, OneWorkerPerDelivery, Holdings
  <2>. QED
    BY <2>6, <2>7
<1>4. ASSUME NEW w \in Workers, FinishSuccess(w) \/ FinishFailure(w) \/ Crash(w)
      PROVE  Accounts'
  <2>0. PICK d \in Deliveries : d = worker[w].job
    BY <1>4 DEF FinishSuccess, FinishFailure, Crash, Holdings, Busy
  <2>1. Busy(w) /\ UNCHANGED mailed /\ row[d].status = "processing"
    BY <1>4, <2>0 DEF FinishSuccess, FinishFailure, SaveOutcome, Crash, Busy, Locked
  <2>2. \A e \in Deliveries \ {d} : row'[e] = row[e]
    BY <1>4, <2>0 DEF FinishSuccess, FinishFailure, SaveOutcome, Crash, TypeOK
  <2>3. row'[d].attempts = row[d].attempts
    BY <1>4, <2>0, <2>1, SaveOutcomeRow DEF FinishSuccess, FinishFailure, Crash
  <2>4. \/ crashes' = crashes /\ row'[d].status \in Settled
        \/ crashes' = crashes /\ row'[d].status = "retry" /\ row[d].attempts < MaxAttempts
        \/ crashes' = crashes + 1 /\ row'[d] = row[d]
    <3>1. CASE FinishSuccess(w)
      BY <2>0, <2>1, <3>1, SaveOutcomeRow DEF FinishSuccess, Settled
    <3>2. CASE FinishFailure(w)
      <4>1. ~Exhausted(w) => row[d].attempts < MaxAttempts
        BY <1>0, <2>0, <2>1 DEF Exhausted, WorkerAccount
      <4>2. \/ ~Exhausted(w) /\ SaveOutcome(w, "retry", worker[w].payload)
            \/ SaveOutcome(w, "dead", FALSE)
        BY <3>2 DEF FinishFailure
      <4>3. CASE ~Exhausted(w) /\ SaveOutcome(w, "retry", worker[w].payload)
        BY <2>0, <2>1, <4>1, <4>3, SaveOutcomeRow
      <4>4. CASE SaveOutcome(w, "dead", FALSE)
        BY <2>0, <2>1, <4>4, SaveOutcomeRow, ZenonT(40) DEF Settled
      <4>. QED
        BY <4>2, <4>3, <4>4
    <3>3. CASE Crash(w)
      BY <3>3 DEF Crash
    <3>. QED
      BY <1>4, <3>1, <3>2, <3>3
  <2>5. /\ ~Busy(w)' /\ worker'[w].job = NoDelivery
        /\ \A v \in Workers \ {w} : worker'[v] = worker[v]
    BY <1>4 DEF FinishSuccess, FinishFailure, SaveOutcome, Crash, TypeOK, Idle, Busy
  <2>6. RowAccount(d)'
    BY <1>0, <2>1, <2>3, <2>4 DEF RowAccount, Settled
  <2>7. ASSUME NEW e \in Deliveries \ {d} PROVE RowAccount(e)'
    <3>1. (\A v \in Workers : worker'[v].job # e) => (\A v \in Workers : worker[v].job # e)
      BY <2>0, <2>5
    <3>2. crashes' \in {crashes, crashes + 1}
      BY <2>4
    <3>. QED
      BY <1>0, <2>1, <2>2, <3>1, <3>2 DEF RowAccount
  <2>8. ASSUME NEW v \in Workers PROVE WorkerAccount(v)'
    BY <2>0, <2>1, <2>2, <2>3, <2>5 DEF WorkerAccount, OneWorkerPerDelivery, Holdings, Busy
  <2>. QED
    BY <2>6, <2>7, <2>8
<1>5. CASE UNCHANGED vars
  BY <1>5 DEF vars, RowAccount, WorkerAccount, Busy
<1>. QED
  BY <1>1, <1>2, <1>3, <1>4, <1>5 DEF Next, WorkerStep

\* With provider calls that stay within the lock timeout, the provider takes a delivery at
\* most once per counted attempt, and only a process that died buys a delivery an attempt
\* beyond max_attempts.
THEOREM AttemptsBounded == ASSUME ~Slow PROVE SafetySpec => []AttemptsAccounted
<1>1. Init => Accounts
  BY Constants DEF Init, NoRow, Idle, Busy, Accounts, RowAccount, WorkerAccount
<1>2. LockInv /\ Accounts /\ [Next]_vars => Accounts'
  BY NextAccounted
<1>3. LockInv /\ Accounts => AttemptsAccounted
  <2>. SUFFICES ASSUME LockInv, Accounts, NEW d \in Deliveries, row[d].status \in Unsettled
                PROVE  mailed[d] <= row[d].attempts /\ row[d].attempts <= MaxAttempts + crashes
    BY DEF AttemptsAccounted
  <2>1. row[d].attempts \in Nat /\ crashes \in Nat
    BY DEF LockInv, SoundInv, TypeOK, Rows
  <2>. QED
    BY <2>1, Constants DEF Accounts, RowAccount, Unsettled
<1>. QED
  BY <1>1, <1>2, <1>3, AlwaysLocked, PTL DEF SafetySpec
-----------------------------------------------------------------------------
(* The refinement.                                                          *)

LEMMA OutcomeUnfolds ==
  ASSUME NEW d \in Deliveries
  PROVE  /\ row[d].status = "absent" => Outcome(d) = "none"
         /\ row[d].status \in Unsettled => Outcome(d) = "queued"
         /\ row[d].status \in {"sent", "dead", "purged"} => Outcome(d) = row[d].status
  BY DEF Outcome, Unsettled

\* A change of one row is a change of one job.
LEMMA OneOutcomeChanges ==
  ASSUME NEW d \in Deliveries, NEW o, Outcome(d)' = o,
         \A e \in Deliveries \ {d} : row'[e] = row[e]
  PROVE  [e \in Deliveries |-> Outcome(e)]' = [[e \in Deliveries |-> Outcome(e)] EXCEPT ![d] = o]
<1>1. ASSUME NEW e \in Deliveries \ {d} PROVE Outcome(e)' = Outcome(e)
  BY <1>1 DEF Outcome
<1>. QED
  BY <1>1

\* Every step of the outbox is a step of the promise or leaves it unchanged.
LEMMA StepKeepsPromise ==
  ASSUME ~Slow, LockInv, [Next]_vars
  PROVE  [Caller!PromiseNext]_(Caller!promiseVars)
<1>. USE DEF LockInv, SoundInv
<1>. DEFINE jobs == [d \in Deliveries |-> Outcome(d)]
<1>a. ASSUME UNCHANGED mailed, \A d \in Deliveries : Outcome(d)' = Outcome(d)
      PROVE  UNCHANGED Caller!promiseVars
  BY <1>a DEF Caller!promiseVars
<1>1. ASSUME NEW d \in Deliveries, Enqueue(d)
      PROVE  Caller!Queue(d)
  <2>1. row[d].status = "absent" /\ row'[d].status = "pending" /\ UNCHANGED mailed
    BY <1>1 DEF Enqueue, TypeOK, NoRow
  <2>2. \A e \in Deliveries \ {d} : row'[e] = row[e]
    BY <1>1 DEF Enqueue, TypeOK
  <2>3. Outcome(d) = "none" /\ Outcome(d)' = "queued"
    BY <2>1 DEF Outcome, Unsettled
  <2>. QED
    BY <2>1, <2>2, <2>3, OneOutcomeChanges DEF Caller!Queue
<1>2. ASSUME NEW d \in Deliveries, BackoffElapses(d) \/ LockGoesStale(d) \/ Expires(d)
      PROVE  UNCHANGED Caller!promiseVars
  <2>1. UNCHANGED mailed
    BY <1>2 DEF BackoffElapses, LockGoesStale, Expires
  <2>2. \A e \in Deliveries : row'[e].status = row[e].status
    BY <1>2 DEF BackoffElapses, LockGoesStale, Expires, TypeOK, Rows
  <2>. QED
    BY <1>a, <2>1, <2>2 DEF Outcome
<1>3. ASSUME NEW d \in Deliveries, Purge(d)
      PROVE  Caller!Forget(d)
  <2>1. row[d].status \in Settled /\ row'[d].status = "purged" /\ UNCHANGED mailed
    BY <1>3 DEF Purge, TypeOK, Rows
  <2>2. \A e \in Deliveries \ {d} : row'[e] = row[e]
    BY <1>3 DEF Purge, TypeOK
  <2>3. Outcome(d) \in {"sent", "dead"} /\ Outcome(d)' = "purged"
    BY <2>1 DEF Outcome, Unsettled, Settled
  <2>. QED
    BY <2>1, <2>2, <2>3, OneOutcomeChanges DEF Caller!Forget
<1>4. ASSUME NEW w \in Workers, NEW d \in Deliveries, Claim(w, d)
      PROVE  UNCHANGED Caller!promiseVars
  <2>1. UNCHANGED mailed
    BY <1>4 DEF Claim
  <2>2. row[d].status \in Unsettled /\ row'[d].status \in Unsettled
    BY <1>4 DEF Claim, Claimable, Unsettled, TypeOK, Rows
  <2>3. \A e \in Deliveries \ {d} : row'[e] = row[e]
    BY <1>4 DEF Claim, TypeOK
  <2>. QED
    BY <1>a, <2>1, <2>2, <2>3 DEF Outcome, Unsettled
<1>5. ASSUME NEW w \in Workers, ProviderAccepts(w)
      PROVE  Caller!Mail(worker[w].job)
  <2>. DEFINE d == worker[w].job
  <2>1. d \in Deliveries /\ Outcome(d) = "queued"
    BY <1>5 DEF ProviderAccepts, Holdings, Locked, Busy, Outcome, Unsettled
  <2>2. mailed' = [mailed EXCEPT ![d] = @ + 1] /\ UNCHANGED row
    BY <1>5 DEF ProviderAccepts
  <2>3. jobs' = jobs
    BY <2>2 DEF Outcome
  <2>. QED
    BY <2>1, <2>2, <2>3 DEF Caller!Mail
<1>6. ASSUME NEW w \in Workers, Busy(w), NEW status \in Settled, NEW payload,
             status = "sent" => worker[w].step = "accepted",
             SaveOutcome(w, status, payload)
      PROVE  Caller!Settle(worker[w].job)
  <2>0. PICK d \in Deliveries : d = worker[w].job
    BY <1>6 DEF Holdings
  <2>1. Outcome(d) = "queued" /\ row[d].status = "processing"
    BY <1>6, <2>0 DEF Locked, Outcome, Unsettled
  <2>2. row'[d].status = status /\ UNCHANGED mailed
    BY <1>6, <2>0, <2>1 DEF SaveOutcome, TypeOK, Rows
  <2>3. \A e \in Deliveries \ {d} : row'[e] = row[e]
    BY <1>6, <2>0 DEF SaveOutcome, TypeOK
  <2>4. Outcome(d)' = status
    BY <2>2 DEF Outcome, Settled, Unsettled
  <2>5. status = "sent" => mailed[d] > 0
    BY <1>6, <2>0 DEF Locked
  <2>. QED
    BY <2>0, <2>1, <2>2, <2>3, <2>4, <2>5, OneOutcomeChanges DEF Caller!Settle, Settled
<1>7. ASSUME NEW w \in Workers, Busy(w), SaveOutcome(w, "retry", worker[w].payload)
      PROVE  UNCHANGED Caller!promiseVars
  <2>0. PICK d \in Deliveries : d = worker[w].job
    BY <1>7 DEF Holdings
  <2>1. row[d].status = "processing"
    BY <1>7, <2>0 DEF Locked
  <2>2. row'[d].status = "retry" /\ UNCHANGED mailed
    BY <1>7, <2>0, <2>1 DEF SaveOutcome, TypeOK, Rows
  <2>3. \A e \in Deliveries \ {d} : row'[e] = row[e]
    BY <1>7, <2>0 DEF SaveOutcome, TypeOK
  <2>. QED
    BY <1>a, <2>1, <2>2, <2>3 DEF Outcome, Unsettled
<1>8. ASSUME NEW w \in Workers, WorkerStep(w)
      PROVE  [Caller!PromiseNext]_(Caller!promiseVars)
  <2>1. Busy(w) /\ worker[w].job \in Deliveries
    BY <1>8 DEF WorkerStep, ProviderAccepts, FinishSuccess, FinishFailure, Busy, Holdings
  <2>2. CASE ProviderAccepts(w)
    BY <2>1, <2>2, <1>5 DEF Caller!PromiseNext
  <2>3. CASE FinishSuccess(w)
    BY <2>1, <2>3, <1>6 DEF FinishSuccess, Settled, Caller!PromiseNext
  <2>4. CASE FinishFailure(w)
    BY <2>1, <2>4, <1>6, <1>7 DEF FinishFailure, Settled, Caller!PromiseNext
  <2>. QED
    BY <1>8, <2>2, <2>3, <2>4 DEF WorkerStep
<1>9. ASSUME NEW w \in Workers, Crash(w)
      PROVE  UNCHANGED Caller!promiseVars
  BY <1>9, <1>a DEF Crash, Outcome
<1>10. CASE UNCHANGED vars
  BY <1>10, <1>a DEF vars, Outcome
<1>. QED
  BY <1>1, <1>2, <1>3, <1>4, <1>8, <1>9, <1>10 DEF Next, Caller!PromiseNext

\* For any number of deliveries and workers, as long as provider calls stay within the lock
\* timeout, the outbox implements the safety half of what its callers are promised: nothing
\* is mailed once its outcome is recorded, sent means mailed, and an outcome is final.
THEOREM OutboxKeepsPromise == ASSUME ~Slow PROVE SafetySpec => Caller!PromiseSafety
<1>1. Init => Caller!PromiseInit
  <2>. SUFFICES ASSUME Init PROVE Caller!PromiseInit
    OBVIOUS
  <2>1. ASSUME NEW d \in Deliveries PROVE Outcome(d) = "none"
    BY OutcomeUnfolds DEF Init, NoRow
  <2>. QED
    BY <2>1 DEF Init, Caller!PromiseInit
<1>2. LockInv /\ [Next]_vars => [Caller!PromiseNext]_(Caller!promiseVars)
  BY StepKeepsPromise
<1>. QED
  BY <1>1, <1>2, AlwaysLocked, PTL DEF SafetySpec, Caller!PromiseSafety
=============================================================================
