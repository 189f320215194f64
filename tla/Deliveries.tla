------------------------------ MODULE Deliveries ------------------------------
(***************************************************************************)
(* The outbox of run callbacks: delivery rows, the attempts made at them    *)
(* and, where a queue owns the schedule, its jobs. Both deployments are     *)
(* modelled: workers that poll and claim due rows, and consumers of a       *)
(* DeliveryQueue with a recovery sweep beside them. Time is whether a row's *)
(* next_attempt_at has passed.                                              *)
(***************************************************************************)
EXTENDS Integers, FiniteSets

CONSTANTS Deliveries,  \* every callback that may be recorded
          Disallowed,  \* those whose target the configuration refuses
          Workers,     \* processes that run a delivery worker
          BatchSize,   \* rows claimed or listed in one tick
          MaxAttempts, \* the configured attempts per delivery
          Replayed,    \* statuses in which the operator replays a delivery
          Pauses,      \* whether an attempt may outlive its lease or the sweep's margin
          MaxTrouble   \* bound on replays, faults and crashes, all together

ASSUME DeliveriesAssumption ==
  /\ IsFiniteSet(Deliveries) /\ Deliveries \cap Workers = {}
  /\ Disallowed \subseteq Deliveries
  /\ BatchSize \in Nat \ {0} /\ MaxAttempts \in Nat \ {0}
  /\ Replayed \subseteq {"pending", "delivering", "dead"} /\ Pauses \in BOOLEAN
  /\ MaxTrouble \in Nat

VARIABLES
  queued,   \* whether a DeliveryQueue is configured; never changes
  row,      \* row[d]: the delivery row; due is next_attempt_at <= now
  attempt,  \* attempt[a]: what actor a does: the recorder of d, or a worker
  batch,    \* batch[w]: rows the tick of w claimed or listed and has not handled
  job,      \* job[d]: the queue's job, with the attempts it has left
  replay,   \* replay[d]: the operator's request between row and queue
  replays, faults, crashes   \* so far

bounds == <<replays, faults, crashes>>
vars == <<queued, row, attempt, batch, job, replay, bounds>>

Settled == {"delivered", "dead"}
Actors == Deliveries \cup Workers

NoRow == [status |-> "absent", attempt |-> 0, payload |-> FALSE, due |-> FALSE]
NoJob == [state |-> "none", left |-> 0, by |-> "none"]
Idle == [pc |-> "idle", d |-> "none", n |-> 0, full |-> FALSE,
         final |-> FALSE]
NoReplay == [pc |-> "none", n |-> 0]

Init ==
  /\ queued \in BOOLEAN
  /\ row = [d \in Deliveries |-> NoRow] /\ job = [d \in Deliveries |-> NoJob]
  /\ attempt = [a \in Actors |-> Idle] /\ batch = [w \in Workers |-> {}]
  /\ replay = [d \in Deliveries |-> NoReplay]
  /\ replays = 0 /\ faults = 0 /\ crashes = 0

Exists(d) == row[d].status \notin {"absent", "swept"}
Due_Unclaimed(d) == row[d].status = "pending" /\ row[d].due
Due(d) == row[d].status \in {"pending", "delivering"} /\ row[d].due

Trouble == replays + faults + crashes < MaxTrouble
(* A call to the store or the queue fails.                                   *)
Fault == Trouble /\ faults' = faults + 1

Remaining_Default(n) == 1
Remaining_Unclamped(n) == MaxAttempts - n
Remaining(n) == IF n < MaxAttempts THEN MaxAttempts - n ELSE 1

(* Scheduling is idempotent on the delivery: an existing job is left alone.   *)
AddJob(d, left) ==
  job' = IF job[d].state = "none"
         THEN [job EXCEPT ![d] = [state |-> "waiting", left |-> left, by |-> "none"]] ELSE job

Attempting(d, n, full, final) ==
  [pc |-> "post", d |-> d, n |-> n, full |-> full, final |-> final]

IsFinalAttempt(n) == n >= MaxAttempts

(* --- recording a callback ----------------------------------------------- *)
(* finalizeWithDelivery: born claimed, for the attempt the engine makes next. *)
InsertClaimed(d) ==
  /\ row[d].status = "absent"
  /\ row' = [row EXCEPT ![d] = [status |-> "delivering", attempt |-> 1,
                                payload |-> TRUE, due |-> FALSE]]
  /\ attempt' = [attempt EXCEPT ![d] = Attempting(d, 1, TRUE, IsFinalAttempt(1))]
  /\ UNCHANGED <<queued, batch, job, replay, bounds>>

(* settle: a native run's callback is due at once and handed to the queue.   *)
InsertDue(d) ==
  /\ row[d].status = "absent"
  /\ row' = [row EXCEPT ![d] = [status |-> "pending", attempt |-> 0,
                                payload |-> TRUE, due |-> TRUE]]
  /\ attempt' = IF queued THEN [attempt EXCEPT ![d] = [Idle EXCEPT !.pc = "schedule", !.d = d]]
                ELSE attempt
  /\ UNCHANGED <<queued, batch, job, replay, bounds>>

(* --- the polling worker --------------------------------------------------- *)
(* One page of due rows.                                                      *)
Page(S) == /\ S # {} /\ S \subseteq {d \in Deliveries : Due(d)}
           /\ \/ Cardinality(S) = BatchSize
              \/ Cardinality(S) < BatchSize /\ S = {d \in Deliveries : Due(d)}

Claim(w) ==
  /\ ~queued /\ batch[w] = {} /\ attempt[w] = Idle
  /\ \E S \in SUBSET Deliveries :
       /\ Page(S)
       /\ row' = [d \in Deliveries |->
            IF d \in S THEN [row[d] EXCEPT !.status = "delivering", !.attempt = @ + 1, !.due = FALSE]
            ELSE row[d]]
       /\ batch' = [batch EXCEPT ![w] =
            {[d |-> d, n |-> row[d].attempt + 1, full |-> row[d].payload] : d \in S}]
  /\ UNCHANGED <<queued, attempt, job, replay, bounds>>

(* The batch is attempted one row after the other.                           *)
NextInBatch(w) ==
  /\ ~queued /\ attempt[w] = Idle
  /\ \E s \in batch[w] :
       /\ attempt' = [attempt EXCEPT ![w] = Attempting(s.d, s.n, s.full, IsFinalAttempt(s.n))]
       /\ batch' = [batch EXCEPT ![w] = @ \ {s}]
  /\ UNCHANGED <<queued, row, job, replay, bounds>>

(* --- the queue's consumer --------------------------------------------------- *)
NothingLeft_Never(d) == ~Exists(d)
NothingLeft(d) == ~Exists(d) \/ row[d].status \in Settled

(* processDelivery rereads the row: a settled or swept one ends the job.      *)
Take(w, d) ==
  /\ queued /\ attempt[w] = Idle /\ job[d].state = "waiting"
  /\ \/ /\ NothingLeft(d)
        /\ job' = [job EXCEPT ![d] = NoJob]
        /\ UNCHANGED attempt
     \/ /\ ~NothingLeft(d)
        /\ job' = [job EXCEPT ![d].state = "active", ![d].by = w]
        /\ attempt' = [attempt EXCEPT ![w] =
             Attempting(d, row[d].attempt + 1, row[d].payload, job[d].left = 1)]
  /\ UNCHANGED <<queued, row, batch, replay, bounds>>

(* The queue finds an active job without a consumer: it redelivers it, or     *)
(* drops it once it has stalled too often.                                    *)
Stall(d) ==
  /\ job[d].state = "active" /\ (Pauses \/ attempt[job[d].by].d # d)
  /\ \/ job' = [job EXCEPT ![d] = NoJob]
     \/ job' = [job EXCEPT ![d].state = "waiting", ![d].by = "none"]
  /\ UNCHANGED <<queued, row, attempt, batch, replay, bounds>>

(* --- the end of an attempt ----------------------------------------------------- *)
(* A refused target is given up at once; otherwise the receiver answers or,   *)
(* as far as the sender can tell, does not.                                   *)
Results(x) == IF x.d \in Disallowed THEN {"dead"}
              ELSE {"delivered", IF x.final THEN "dead" ELSE "retrying"}

(* recordAttempt: by id alone, whatever the row has become meanwhile. A       *)
(* retry is due later; delivering clears the payload.                         *)
Recorded(old, result, n) ==
  [old EXCEPT !.status = IF result = "retrying" THEN "pending" ELSE result,
              !.payload = @ /\ result # "delivered", !.attempt = n, !.due = FALSE]

RecordAttempt(d, result, n) ==
  row' = IF Exists(d) THEN [row EXCEPT ![d] = Recorded(@, result, n)] ELSE row

(* Consumers give the count, as nothing claimed their row.                    *)
Counted(w) == IF attempt[w].d \in Disallowed THEN row[attempt[w].d].attempt ELSE attempt[w].n

(* The recorder's attempt and a polling worker's: one that must be retried is *)
(* handed to the queue where there is one.                                    *)
Record(a) ==
  /\ attempt[a].pc = "post" /\ (a \in Deliveries \/ ~queued)
  /\ LET x == attempt[a] IN \E result \in Results(x) :
     /\ \/ RecordAttempt(x.d, result, row[x.d].attempt) /\ UNCHANGED faults
        \/ Fault /\ UNCHANGED row
     /\ attempt' = [attempt EXCEPT ![a] =
          IF queued /\ result = "retrying" THEN [x EXCEPT !.pc = "schedule"] ELSE Idle]
  /\ UNCHANGED <<queued, batch, job, replay, replays, crashes>>

(* A job whose attempt failed, or could not be recorded, has one less left.   *)
(* One that its consumer no longer holds is not touched.                      *)
Answered(w, d, thrown) ==
  IF job[d].state # "active" \/ job[d].by # w THEN job[d]
  ELSE IF thrown /\ job[d].left > 1
       THEN [state |-> "waiting", left |-> job[d].left - 1, by |-> "none"]
       ELSE NoJob

RecordAndAnswer(w) ==
  /\ w \in Workers /\ queued /\ attempt[w].pc = "post"
  /\ LET x == attempt[w] IN \E result \in Results(x) :
     \/ /\ RecordAttempt(x.d, result, Counted(w)) /\ UNCHANGED faults
        /\ job' = [job EXCEPT ![x.d] = Answered(w, x.d, result = "retrying")]
     \/ /\ Fault /\ UNCHANGED row
        /\ job' = [job EXCEPT ![x.d] = Answered(w, x.d, TRUE)]
  /\ attempt' = [attempt EXCEPT ![w] = Idle]
  /\ UNCHANGED <<queued, batch, replay, replays, crashes>>

(* The recorder hands over. If the queue refuses, the engine's attempt puts   *)
(* the row back on the polling schedule; a native settlement leaves it due.   *)
Schedule(d) ==
  /\ attempt[d].pc = "schedule"
  /\ \/ /\ AddJob(d, Remaining(attempt[d].n)) /\ UNCHANGED faults
        /\ attempt' = [attempt EXCEPT ![d] = Idle]
     \/ /\ Fault /\ UNCHANGED job
        /\ attempt' = [attempt EXCEPT ![d] = IF @.n > 0 THEN [@ EXCEPT !.pc = "fallback"]
                                             ELSE Idle]
  /\ UNCHANGED <<queued, row, batch, replay, replays, crashes>>

Fallback(d) ==
  /\ attempt[d].pc = "fallback"
  /\ \/ RecordAttempt(d, "retrying", row[d].attempt) /\ UNCHANGED faults
     \/ Fault /\ UNCHANGED row
  /\ attempt' = [attempt EXCEPT ![d] = Idle]
  /\ UNCHANGED <<queued, batch, job, replay, replays, crashes>>

(* --- the recovery sweep beside a queue --------------------------------------- *)
(* Due rows are read, not claimed, and scheduled one by one.                  *)
List(w) ==
  /\ queued /\ batch[w] = {}
  /\ \E S \in SUBSET Deliveries :
       Page(S) /\ batch' = [batch EXCEPT ![w] =
         {[d |-> d, n |-> row[d].attempt, full |-> row[d].payload] : d \in S}]
  /\ UNCHANGED <<queued, row, attempt, job, replay, bounds>>

Reschedule(w) ==
  /\ queued
  /\ \E s \in batch[w] :
       /\ \/ AddJob(s.d, Remaining(s.n)) /\ UNCHANGED faults
          \/ Fault /\ UNCHANGED job
       /\ batch' = [batch EXCEPT ![w] = @ \ {s}]
  /\ UNCHANGED <<queued, row, attempt, replay, replays, crashes>>

(* --- the operator --------------------------------------------------------------- *)
(* retryNow: a row that still has its payload is due at once.                 *)
Replay(d) ==
  /\ row[d].status \in Replayed /\ row[d].payload /\ replay[d] = NoReplay
  /\ Trouble /\ replays' = replays + 1
  /\ row' = [row EXCEPT ![d].status = "pending", ![d].due = TRUE]
  /\ replay' = IF queued THEN [replay EXCEPT ![d] = [pc |-> "queue", n |-> row[d].attempt]]
               ELSE replay
  /\ UNCHANGED <<queued, attempt, batch, job, faults, crashes>>

(* A waiting job is replaced, an active one cannot be.                        *)
ReplayNow(d) ==
  /\ replay[d].pc = "queue"
  /\ \/ /\ job' = IF job[d].state = "active" THEN job
                  ELSE [job EXCEPT ![d] = [state |-> "waiting", left |-> Remaining(replay[d].n),
                                           by |-> "none"]]
        /\ UNCHANGED faults
     \/ Fault /\ UNCHANGED job
  /\ replay' = [replay EXCEPT ![d] = NoReplay]
  /\ UNCHANGED <<queued, row, attempt, batch, replays, crashes>>

(* --- time and crashes -------------------------------------------------------------- *)
UnderLease_OnePost(d) == \E a \in Actors : attempt[a].d = d
(* The lease outlasts every attempt of the batch it was taken for, and the    *)
(* sweep's margin the hand-over to the queue.                                 *)
UnderLease(d) == \/ \E a \in Actors : attempt[a].d = d
                 \/ \E w \in Workers : \E s \in batch[w] : s.d = d

Elapse(d) ==
  /\ ~row[d].due
  /\ \/ row[d].status = "pending" /\ (Pauses \/ attempt[d].pc \notin {"schedule", "fallback"})
     \/ row[d].status = "delivering" /\ (Pauses \/ ~UnderLease(d))
  /\ row' = [row EXCEPT ![d].due = TRUE]
  /\ UNCHANGED <<queued, attempt, batch, job, replay, bounds>>

Expire(d) ==
  /\ row[d].status \in Settled
  /\ row' = [row EXCEPT ![d] = [NoRow EXCEPT !.status = "swept"]]
  /\ UNCHANGED <<queued, attempt, batch, job, replay, bounds>>

(* A process dies with its attempt, or with the batch of its worker.          *)
Crash(a) ==
  /\ Trouble /\ crashes' = crashes + 1
  /\ attempt[a] # Idle \/ (a \in Workers /\ batch[a] # {})
  /\ attempt' = [attempt EXCEPT ![a] = Idle]
  /\ batch' = [w \in Workers |-> IF w = a THEN {} ELSE batch[w]]
  /\ UNCHANGED <<queued, row, job, replay, replays, faults>>

EndAttempt(a) == Record(a) \/ RecordAndAnswer(a)
HandOver(d) == Schedule(d) \/ Fallback(d) \/ ReplayNow(d)
Tick(w) == Claim(w) \/ NextInBatch(w) \/ List(w) \/ Reschedule(w)
Clock(d) == Elapse(d) \/ Stall(d)

Next ==
  \/ \E a \in Actors : EndAttempt(a) \/ Crash(a)
  \/ \E d \in Deliveries : \/ InsertClaimed(d) \/ InsertDue(d) \/ HandOver(d) \/ Clock(d)
                           \/ Replay(d) \/ Expire(d)
  \/ \E w \in Workers : Tick(w) \/ \E d \in Deliveries : Take(w, d)

Spec == Init /\ [][Next]_vars

(* Timers fire, promises continue, the worker's loop always ticks again and   *)
(* the queue serves its waiting jobs.                                         *)
FairSpec ==
  /\ Spec
  /\ WF_vars(\E a \in Actors : EndAttempt(a))
  /\ WF_vars(\E d \in Deliveries : HandOver(d))
  /\ WF_vars(\E d \in Deliveries : Clock(d))
  /\ WF_vars(\E w \in Workers : Tick(w))
  /\ WF_vars(\E w \in Workers, d \in Deliveries : Take(w, d))

-----------------------------------------------------------------------------
TypeOK ==
  /\ queued \in BOOLEAN
  /\ row \in [Deliveries -> [status: {"absent", "pending", "delivering", "swept"} \cup Settled,
                             attempt: Nat, payload: BOOLEAN, due: BOOLEAN]]
  /\ attempt \in [Actors -> [pc: {"idle", "post", "schedule", "fallback"},
                             d: Deliveries \cup {"none"}, n: Nat, full: BOOLEAN,
                             final: BOOLEAN]]
  /\ batch \in [Workers -> SUBSET [d: Deliveries, n: Nat, full: BOOLEAN]]
  /\ job \in [Deliveries -> {NoJob} \cup [state: {"waiting", "active"}, left: 1..MaxAttempts,
                                          by: Workers \cup {"none"}]]
  /\ replay \in [Deliveries -> [pc: {"none", "queue"}, n: Nat]]
  /\ replays \in Nat /\ faults \in Nat /\ crashes \in Nat
  /\ replays + faults + crashes <= MaxTrouble

(* A delivery that succeeded stays so until it is swept, whatever retries,    *)
(* sweeps, crashes and replays of dead deliveries do (recordAttempt,          *)
(* processDelivery's reread).                                                 *)
DeliveredIsFinal ==
  [][\A d \in Deliveries : row[d].status = "delivered" =>
                           row'[d].status \in {"delivered", "swept"}]_vars

(* No receiver is sent a callback without its payload, which delivering clears.*)
NothingEmptySent == \A a \in Actors : attempt[a].pc = "post" => attempt[a].full

(* A delivery is given up only after the attempts its configuration promises; *)
(* a failing store or queue may cost one each (remainingQueueAttempts).       *)
DeadSpentBudget ==
  \A d \in Deliveries \ Disallowed :
    row[d].status = "dead" => row[d].attempt + faults >= MaxAttempts

(* No two attempts at one delivery are under way at once, on whichever        *)
(* processes (claimDue, deliveryLeaseMs, the queue's one job per delivery).   *)
OneAttemptAtATime ==
  \A a, b \in Actors : attempt[a].pc = "post" /\ attempt[b].pc = "post" =>
                       a = b \/ attempt[a].d # attempt[b].d

(* Every recorded callback is delivered or given up, also after a crash       *)
(* between recording and scheduling, and after a replay.                      *)
EveryDeliverySettles ==
  \A d \in Deliveries : row[d].status = "pending" \/ row[d].status = "delivering"
                        ~> row[d].status \in Settled \cup {"swept"}
=============================================================================
