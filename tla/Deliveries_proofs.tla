--------------------------- MODULE Deliveries_proofs ---------------------------
(***************************************************************************)
(* The callback outbox, for any number of deliveries, workers, attempts,     *)
(* faults and crashes. Types hold always; the rest is proved where leases     *)
(* outlast attempts and operators replay what is dead (Timely), the case the  *)
(* runs check. Whoever attempts a delivery then owns it: in a deployment      *)
(* that polls by its claim on the row, in one with a queue by the active job, *)
(* and the engine that recorded the callback while its row is in hand.       *)
(***************************************************************************)
EXTENDS Deliveries, TLAPS

Timely == ~Pauses /\ Replayed \subseteq {"dead"}

-----------------------------------------------------------------------------
(* The inductive invariant.                                                  *)

(* Worker w attempts d, or has it in its batch.                              *)
Serves(w, d) == \/ attempt[w].pc = "post" /\ attempt[w].d = d
                \/ \E s \in batch[w] : s.d = d

(* The engine that recorded d attempts it, or is handing it over after that.  *)
InHand(d) == attempt[d].pc # "idle" /\ attempt[d].n > 0

Unsettled(d) == row[d].status \in {"pending", "delivering"}

Roles ==
  /\ \A w \in Workers : /\ attempt[w].pc \in {"idle", "post"}
                        /\ attempt[w].pc = "post" => attempt[w].d \in Deliveries
  /\ \A d \in Deliveries :
       /\ attempt[d].pc # "idle" => attempt[d].d = d
       /\ attempt[d].pc \in {"schedule", "fallback"} => queued
       /\ attempt[d].pc \in {"post", "fallback"} => attempt[d].n > 0

Untouched(d) ==
  /\ job[d].state = "none" /\ replay[d].pc = "none"
  /\ \A w \in Workers : ~Serves(w, d)

Unborn == \A d \in Deliveries :
  row[d].status = "absent" => attempt[d].pc = "idle" /\ Untouched(d)

(* Nobody else is at a delivery its recorder has in hand.                    *)
Recording == \A d \in Deliveries : InHand(d) =>
  /\ Untouched(d) /\ Unsettled(d) /\ ~row[d].due
  /\ row[d].attempt = attempt[d].n
  /\ attempt[d].pc = "post" => /\ row[d].status = "delivering" /\ attempt[d].full
                               /\ attempt[d].final = IsFinalAttempt(attempt[d].n)

(* A claimed row is delivering and not due, and its claim is unique.          *)
ClaimedRows == \A w \in Workers, d \in Deliveries :
  Serves(w, d) => row[d].status = "delivering" /\ ~row[d].due
ClaimsUnique ==
  /\ \A w, x \in Workers, d \in Deliveries : Serves(w, d) /\ Serves(x, d) => w = x
  /\ \A w \in Workers : \A s, t \in batch[w] : s.d = t.d => s = t
  /\ \A w \in Workers : \A s \in batch[w] : attempt[w].pc = "post" => s.d # attempt[w].d
ClaimedCounts == \A w \in Workers :
  /\ \A s \in batch[w] : s.n = row[s.d].attempt /\ s.full
  /\ attempt[w].pc = "post" =>
       /\ attempt[w].n = row[attempt[w].d].attempt /\ attempt[w].full
       /\ attempt[w].final = IsFinalAttempt(attempt[w].n)
Claiming == ~queued =>
  /\ \A d \in Deliveries : job[d].state = "none" /\ replay[d].pc = "none"
  /\ ClaimedRows /\ ClaimsUnique /\ ClaimedCounts

(* A consumer holds the job of what it attempts.                             *)
HoldsJob(w, d) ==
  /\ job[d].state = "active" /\ job[d].by = w
  /\ Unsettled(d) /\ attempt[w].n = row[d].attempt + 1
  /\ attempt[w].full /\ (attempt[w].final <=> job[d].left = 1)
Consuming == queued => \A w \in Workers : attempt[w].pc = "post" => HoldsJob(w, attempt[w].d)

(* Counts read earlier are never above the row's, so that jobs have enough    *)
(* attempts left.                                                           *)
Counting == queued => \A d \in Deliveries : row[d].status # "swept" =>
  /\ \A w \in Workers : \A s \in batch[w] : s.d = d => s.n <= row[d].attempt
  /\ replay[d].pc = "queue" => replay[d].n <= row[d].attempt
  /\ attempt[d].pc = "schedule" => attempt[d].n <= row[d].attempt
  /\ job[d].state # "none" => job[d].left + row[d].attempt + faults >= MaxAttempts

(* Only delivering, and sweeping, clear a payload.                           *)
Payloads == \A d \in Deliveries : Unsettled(d) \/ row[d].status = "dead" => row[d].payload

IInv ==
  /\ TypeOK /\ Roles /\ Unborn /\ Recording /\ Claiming /\ Consuming /\ Counting
  /\ Payloads /\ DeadSpentBudget

-----------------------------------------------------------------------------
(* Types.                                                                    *)

Rows == [status: {"absent", "pending", "delivering", "swept"} \cup Settled,
         attempt: Nat, payload: BOOLEAN, due: BOOLEAN]
Attempts == [pc: {"idle", "post", "schedule", "fallback"}, d: Deliveries \cup {"none"},
             n: Nat, full: BOOLEAN, final: BOOLEAN]
Entries == [d: Deliveries, n: Nat, full: BOOLEAN]
Jobs == {NoJob} \cup [state: {"waiting", "active"}, left: 1..MaxAttempts,
                      by: Workers \cup {"none"}]
Bounded == /\ replays \in Nat /\ faults \in Nat /\ crashes \in Nat
           /\ replays + faults + crashes <= MaxTrouble

(* TypeOK, with its record types by name.                                    *)
LEMMA Types ==
  TypeOK <=>
    /\ queued \in BOOLEAN
    /\ row \in [Deliveries -> Rows] /\ attempt \in [Actors -> Attempts]
    /\ batch \in [Workers -> SUBSET Entries] /\ job \in [Deliveries -> Jobs]
    /\ replay \in [Deliveries -> [pc: {"none", "queue"}, n: Nat]]
    /\ Bounded
BY DEF TypeOK, Rows, Attempts, Entries, Jobs, Bounded

LEMMA Types_next ==
  TypeOK' <=>
    /\ queued' \in BOOLEAN
    /\ row' \in [Deliveries -> Rows] /\ attempt' \in [Actors -> Attempts]
    /\ batch' \in [Workers -> SUBSET Entries] /\ job' \in [Deliveries -> Jobs]
    /\ replay' \in [Deliveries -> [pc: {"none", "queue"}, n: Nat]]
    /\ Bounded'
BY DEF TypeOK, Rows, Attempts, Entries, Jobs, Bounded

(* Recorders and workers are different actors, and both are actors.           *)
LEMMA ActorNames == Deliveries \subseteq Actors /\ Workers \subseteq Actors
                    /\ Deliveries \cap Workers = {} /\ Actors = Deliveries \cup Workers
BY DeliveriesAssumption DEF Actors

(* The attempts the actions write.                                           *)
LEMMA AttemptValues ==
  /\ Idle \in Attempts
  /\ \A d \in Deliveries, n \in Nat, full, final \in BOOLEAN :
       Attempting(d, n, full, final) \in Attempts
  /\ \A d \in Deliveries : [Idle EXCEPT !.pc = "schedule", !.d = d] \in Attempts
  /\ \A x \in Attempts : /\ [x EXCEPT !.pc = "schedule"] \in Attempts
                         /\ [x EXCEPT !.pc = "fallback"] \in Attempts
  /\ \A n \in Nat : IsFinalAttempt(n) \in BOOLEAN
<1> USE DEF Attempts
<1>1. Idle \in Attempts
  BY DEF Idle
<1>2. ASSUME NEW d \in Deliveries
      PROVE  [Idle EXCEPT !.pc = "schedule", !.d = d] \in Attempts
  BY DEF Idle
<1>3. \A d \in Deliveries, n \in Nat, full, final \in BOOLEAN :
        Attempting(d, n, full, final) \in Attempts
  BY DEF Attempting
<1>4. ASSUME NEW x \in Attempts
      PROVE  [x EXCEPT !.pc = "schedule"] \in Attempts /\ [x EXCEPT !.pc = "fallback"] \in Attempts
  OBVIOUS
<1>5. \A n \in Nat : IsFinalAttempt(n) \in BOOLEAN
  BY DEF IsFinalAttempt
<1> QED BY <1>1, <1>2, <1>3, <1>4, <1>5

(* The attempts a job is given, with those made so far, are those promised.   *)
LEMMA RemainingCounts ==
  ASSUME NEW n \in Nat
  PROVE  Remaining(n) \in 1..MaxAttempts /\ Remaining(n) + n >= MaxAttempts
BY DeliveriesAssumption DEF Remaining

(* The jobs the actions write.                                               *)
LEMMA JobValues ==
  /\ NoJob \in Jobs
  /\ \A left \in 1..MaxAttempts :
       [state |-> "waiting", left |-> left, by |-> "none"] \in Jobs
  /\ \A j \in Jobs : j.state # "none" =>
       /\ j.left \in 1..MaxAttempts
       /\ [j EXCEPT !.state = "waiting", !.by = "none"] \in Jobs
       /\ \A w \in Workers : [j EXCEPT !.state = "active", !.by = w] \in Jobs
       /\ j.left > 1 => j.left - 1 \in 1..MaxAttempts
<1>1. NoJob \in Jobs
  BY DEF Jobs
<1>2. ASSUME NEW left \in 1..MaxAttempts
      PROVE  [state |-> "waiting", left |-> left, by |-> "none"] \in Jobs
  BY DEF Jobs
<1>3. ASSUME NEW j \in Jobs, j.state # "none"
      PROVE  /\ j.left \in 1..MaxAttempts
             /\ [j EXCEPT !.state = "waiting", !.by = "none"] \in Jobs
             /\ \A w \in Workers : [j EXCEPT !.state = "active", !.by = w] \in Jobs
             /\ j.left > 1 => j.left - 1 \in 1..MaxAttempts
  <2>1. j \in [state: {"waiting", "active"}, left: 1..MaxAttempts, by: Workers \cup {"none"}]
    BY <1>3 DEF Jobs, NoJob
  <2>2. j.left > 1 => j.left - 1 \in 1..MaxAttempts
    BY <2>1, DeliveriesAssumption
  <2> QED BY <2>1, <2>2 DEF Jobs
<1> QED BY <1>1, <1>2, <1>3

(* What a batch remembers of a row.                                          *)
LEMMA EntryValues ==
  \A d \in Deliveries, n \in Nat, full \in BOOLEAN : [d |-> d, n |-> n, full |-> full] \in Entries
BY DEF Entries

(* The rows the actions write.                                               *)
LEMMA RowValues ==
  /\ NoRow \in Rows /\ [NoRow EXCEPT !.status = "swept"] \in Rows
  /\ \A n \in Nat, due \in BOOLEAN, st \in {"pending", "delivering"} :
       [status |-> st, attempt |-> n, payload |-> TRUE, due |-> due] \in Rows
  /\ \A x \in Rows : /\ [x EXCEPT !.due = TRUE] \in Rows
                     /\ [x EXCEPT !.status = "pending", !.due = TRUE] \in Rows
                     /\ [x EXCEPT !.status = "delivering", !.attempt = @ + 1, !.due = FALSE] \in Rows
<1> USE DEF Rows, Settled
<1>1. NoRow \in Rows /\ [NoRow EXCEPT !.status = "swept"] \in Rows
  BY DEF NoRow
<1>2. ASSUME NEW n \in Nat, NEW due \in BOOLEAN, NEW st \in {"pending", "delivering"}
      PROVE  [status |-> st, attempt |-> n, payload |-> TRUE, due |-> due] \in Rows
  OBVIOUS
<1>3. ASSUME NEW x \in Rows
      PROVE  /\ [x EXCEPT !.due = TRUE] \in Rows
             /\ [x EXCEPT !.status = "pending", !.due = TRUE] \in Rows
             /\ [x EXCEPT !.status = "delivering", !.attempt = @ + 1, !.due = FALSE] \in Rows
  <2>1. [x EXCEPT !.due = TRUE] \in Rows
    OBVIOUS
  <2>2. [x EXCEPT !.status = "pending", !.due = TRUE] \in Rows
    OBVIOUS
  <2>3. [x EXCEPT !.status = "delivering", !.attempt = @ + 1, !.due = FALSE] \in Rows
    <3>1. x.attempt + 1 \in Nat
      OBVIOUS
    <3> QED BY <3>1
  <2> QED BY <2>1, <2>2, <2>3
<1> QED BY <1>1, <1>2, <1>3

(* A recorded result, field by field: only delivering clears the payload.      *)
LEMMA RecordedValue ==
  \A x \in Rows, n \in Nat, result \in {"delivered", "dead", "retrying"} :
    /\ Recorded(x, result, n) \in Rows
    /\ Recorded(x, result, n).status = (IF result = "retrying" THEN "pending" ELSE result)
    /\ Recorded(x, result, n).attempt = n
    /\ Recorded(x, result, n).due = FALSE
    /\ (result # "delivered" => Recorded(x, result, n).payload = x.payload)
<1> TAKE x \in Rows, n \in Nat, result \in {"delivered", "dead", "retrying"}
<1> DEFINE p == x.payload /\ result # "delivered"
<1> DEFINE y == [x EXCEPT !.status = IF result = "retrying" THEN "pending" ELSE result,
                         !.payload = p, !.attempt = n, !.due = FALSE]
<1>1. p \in BOOLEAN
  OBVIOUS
<1>2. (result # "delivered") => p = x.payload
  <2>1. x.payload \in BOOLEAN
    BY DEF Rows
  <2> HIDE DEF p
  <2>2. (result # "delivered") => (p <=> x.payload)
    BY DEF p
  <2> QED BY <1>1, <2>1, <2>2
<1>3. Recorded(x, result, n) = y
  BY Zenon DEF Recorded
<1> HIDE DEF p
<1>4. /\ y \in Rows
      /\ y.status = IF result = "retrying" THEN "pending" ELSE result
      /\ y.attempt = n /\ y.due = FALSE /\ y.payload = p
  BY <1>1 DEF Rows, Settled
<1> HIDE DEF y
<1> QED BY <1>2, <1>3, <1>4

(* What an attempt may have recorded.                                        *)
LEMMA ResultValues ==
  ASSUME NEW x
  PROVE  /\ Results(x) \subseteq {"delivered", "dead", "retrying"}
         /\ x.d \notin Disallowed /\ ~x.final => "dead" \notin Results(x)
BY DEF Results

(* An actor's attempt, a row, a job and a batch changed alone keep their types.*)
LEMMA Pointwise ==
  ASSUME TypeOK
  PROVE  /\ \A a \in Actors, x \in Attempts : [attempt EXCEPT ![a] = x] \in [Actors -> Attempts]
         /\ \A d \in Deliveries, x \in Rows : [row EXCEPT ![d] = x] \in [Deliveries -> Rows]
         /\ \A d \in Deliveries, x \in Jobs : [job EXCEPT ![d] = x] \in [Deliveries -> Jobs]
         /\ \A w \in Workers, x \in SUBSET Entries :
              [batch EXCEPT ![w] = x] \in [Workers -> SUBSET Entries]
BY Types

(* Recording by id keeps the rows' types, whatever the row is.                *)
LEMMA RecordAttempt_Type ==
  ASSUME TypeOK, NEW d \in Deliveries, NEW n \in Nat,
         NEW result \in {"delivered", "dead", "retrying"}, RecordAttempt(d, result, n)
  PROVE  row' \in [Deliveries -> Rows]
<1>1. row[d] \in Rows
  BY Types
<1>2. Recorded(row[d], result, n) \in Rows
  BY <1>1, RecordedValue
<1> QED BY <1>2, Pointwise, Types DEF RecordAttempt

LEMMA AddJob_Type ==
  ASSUME TypeOK, NEW d \in Deliveries, NEW left \in 1..MaxAttempts, AddJob(d, left)
  PROVE  job' \in [Deliveries -> Jobs]
BY JobValues, Pointwise, Types DEF AddJob

LEMMA Fault_Type ==
  ASSUME TypeOK, UNCHANGED faults \/ Fault, UNCHANGED <<replays, crashes>>
  PROVE  Bounded'
BY DeliveriesAssumption, Types DEF Bounded, Fault, Trouble

LEMMA InsertClaimed_Type ==
  ASSUME TypeOK, Roles, NEW d \in Deliveries, InsertClaimed(d) PROVE TypeOK' /\ Roles'
<1> USE DEF InsertClaimed
<1>1. row' \in [Deliveries -> Rows]
  BY RowValues, Pointwise
<1>2. Attempting(d, 1, TRUE, IsFinalAttempt(1)) \in Attempts
  BY AttemptValues
<1>3. attempt' \in [Actors -> Attempts]
  BY <1>2, Pointwise, ActorNames
<1>4. TypeOK'
  BY <1>1, <1>3, Types, Types_next DEF bounds, Bounded
<1>5. Roles'
  BY ActorNames, Types DEF Roles, Attempting
<1> QED BY <1>4, <1>5

LEMMA InsertDue_Type ==
  ASSUME TypeOK, Roles, NEW d \in Deliveries, InsertDue(d) PROVE TypeOK' /\ Roles'
<1> USE DEF InsertDue
<1>1. row' \in [Deliveries -> Rows]
  BY RowValues, Pointwise
<1>2. attempt' \in [Actors -> Attempts]
  BY AttemptValues, Pointwise, ActorNames, Types
<1>3. TypeOK'
  BY <1>1, <1>2, Types, Types_next DEF bounds, Bounded
<1>4. Roles'
  BY ActorNames, Types DEF Roles, Idle
<1> QED BY <1>3, <1>4

LEMMA Claim_Type ==
  ASSUME TypeOK, Roles, NEW w \in Workers, Claim(w) PROVE TypeOK' /\ Roles'
<1>0. PICK S \in SUBSET Deliveries :
      /\ row' = [d \in Deliveries |->
            IF d \in S THEN [row[d] EXCEPT !.status = "delivering", !.attempt = @ + 1, !.due = FALSE]
            ELSE row[d]]
      /\ batch' = [batch EXCEPT ![w] =
            {[d |-> d, n |-> row[d].attempt + 1, full |-> row[d].payload] : d \in S}]
  BY DEF Claim
<1>1. \A d \in Deliveries : row[d] \in Rows
  BY Types
<1>2. row' \in [Deliveries -> Rows]
  BY <1>0, <1>1, RowValues
<1>3. {[d |-> d, n |-> row[d].attempt + 1, full |-> row[d].payload] : d \in S} \subseteq Entries
  <2>1. ASSUME NEW d \in S
        PROVE  [d |-> d, n |-> row[d].attempt + 1, full |-> row[d].payload] \in Entries
    <3>1. row[d].attempt \in Nat /\ row[d].payload \in BOOLEAN
      BY <1>1 DEF Rows
    <3> QED BY <3>1, EntryValues
  <2> QED BY <2>1
<1>4. batch' \in [Workers -> SUBSET Entries]
  BY <1>0, <1>3, Pointwise
<1> QED BY <1>2, <1>4, Types, Types_next DEF Claim, bounds, Bounded, Roles

LEMMA NextInBatch_Type ==
  ASSUME TypeOK, Roles, NEW w \in Workers, NextInBatch(w) PROVE TypeOK' /\ Roles'
<1> PICK s \in batch[w] :
      /\ attempt' = [attempt EXCEPT ![w] = Attempting(s.d, s.n, s.full, IsFinalAttempt(s.n))]
      /\ batch' = [batch EXCEPT ![w] = @ \ {s}]
  BY DEF NextInBatch
<1>1. s \in Entries
  BY Types
<1>2. Attempting(s.d, s.n, s.full, IsFinalAttempt(s.n)) \in Attempts
  BY <1>1, AttemptValues DEF Entries
<1>3. attempt' \in [Actors -> Attempts]
  BY <1>2, Pointwise, ActorNames
<1>4. batch' \in [Workers -> SUBSET Entries]
  BY Pointwise, Types
<1>5. TypeOK'
  BY <1>3, <1>4, Types, Types_next DEF NextInBatch, bounds, Bounded
<1>6. Roles'
  BY <1>1, ActorNames, Types DEF Roles, Attempting, Entries, NextInBatch
<1> QED BY <1>5, <1>6

LEMMA Take_Type ==
  ASSUME TypeOK, Roles, NEW w \in Workers, NEW d \in Deliveries, Take(w, d)
  PROVE  TypeOK' /\ Roles'
<1> USE DEF Take
<1>1. job[d] \in Jobs /\ row[d] \in Rows
  BY Types
<1>2. job' \in [Deliveries -> Jobs]
  <2>1. [job[d] EXCEPT !.state = "active", !.by = w] \in Jobs
    BY <1>1, JobValues
  <2>2. CASE job' = [job EXCEPT ![d] = NoJob]
    BY <2>2, JobValues, Pointwise
  <2>3. CASE job' = [job EXCEPT ![d].state = "active", ![d].by = w]
    BY <2>1, <2>3, Types
  <2> QED BY <2>2, <2>3
<1> DEFINE last == job[d].left = 1
<1>3. Attempting(d, row[d].attempt + 1, row[d].payload, last) \in Attempts
  <2>1. last \in BOOLEAN
    OBVIOUS
  <2> HIDE DEF last
  <2>2. row[d].attempt + 1 \in Nat /\ row[d].payload \in BOOLEAN
    BY <1>1 DEF Rows
  <2> QED BY <2>1, <2>2, AttemptValues
<1> HIDE DEF last
<1>a. \/ UNCHANGED attempt
      \/ attempt' = [attempt EXCEPT ![w] = Attempting(d, row[d].attempt + 1, row[d].payload, last)]
  BY DEF last
<1>4. attempt' \in [Actors -> Attempts]
  BY <1>3, <1>a, Pointwise, ActorNames, Types
<1>5. TypeOK'
  BY <1>2, <1>4, Types, Types_next DEF bounds, Bounded
<1>6. Roles'
  <2>1. CASE UNCHANGED attempt
    BY <2>1 DEF Roles
  <2>2. CASE attempt' = [attempt EXCEPT ![w] = Attempting(d, row[d].attempt + 1, row[d].payload, last)]
    <3>1. attempt'[w].pc = "post" /\ attempt'[w].d = d
      BY <2>2, ActorNames, Types DEF Attempting
    <3>2. \A a \in Actors \ {w} : attempt'[a] = attempt[a]
      BY <2>2, Types
    <3> QED BY <3>1, <3>2, ActorNames DEF Roles
  <2> QED BY <1>a, <2>1, <2>2
<1> QED BY <1>5, <1>6

LEMMA Stall_Type ==
  ASSUME TypeOK, Roles, NEW d \in Deliveries, Stall(d) PROVE TypeOK' /\ Roles'
<1> USE DEF Stall
<1>1. job[d] \in Jobs
  BY Types
<1>2. [job[d] EXCEPT !.state = "waiting", !.by = "none"] \in Jobs
  BY <1>1, JobValues
<1>3. job' \in [Deliveries -> Jobs]
  <2>1. CASE job' = [job EXCEPT ![d] = NoJob]
    BY <2>1, JobValues, Pointwise
  <2>2. CASE job' = [job EXCEPT ![d] = [job[d] EXCEPT !.state = "waiting", !.by = "none"]]
    BY <1>2, <2>2, Pointwise
  <2> QED BY <2>1, <2>2
<1> QED BY <1>3, Types, Types_next DEF bounds, Bounded, Roles

LEMMA Record_Type ==
  ASSUME TypeOK, Roles, NEW a \in Actors, Record(a) PROVE TypeOK' /\ Roles'
<1> DEFINE x == attempt[a]
<1> PICK result \in Results(x) :
      /\ \/ RecordAttempt(x.d, result, row[x.d].attempt) /\ UNCHANGED faults
         \/ Fault /\ UNCHANGED row
      /\ attempt' = [attempt EXCEPT ![a] =
           IF queued /\ result = "retrying" THEN [x EXCEPT !.pc = "schedule"] ELSE Idle]
  BY DEF Record
<1>1. x.d \in Deliveries /\ row[x.d] \in Rows /\ x \in Attempts
  BY ActorNames, Types DEF Record, Roles
<1>2. result \in {"delivered", "dead", "retrying"} /\ row[x.d].attempt \in Nat
  BY <1>1, ResultValues DEF Rows
<1>3. row' \in [Deliveries -> Rows]
  BY <1>1, <1>2, RecordAttempt_Type, Types
<1>4. attempt' \in [Actors -> Attempts]
  BY <1>1, AttemptValues, Pointwise
<1>5. TypeOK'
  BY <1>3, <1>4, Fault_Type, Types, Types_next DEF Record
<1>6. Roles'
  BY ActorNames, Types DEF Roles, Idle, Record, Attempts
<1> QED BY <1>5, <1>6

LEMMA RecordAndAnswer_Type ==
  ASSUME TypeOK, Roles, NEW w \in Workers, RecordAndAnswer(w) PROVE TypeOK' /\ Roles'
<1> DEFINE x == attempt[w]
<1> USE DEF RecordAndAnswer
<1> PICK result \in Results(x), thrown \in BOOLEAN :
      /\ \/ RecordAttempt(x.d, result, Counted(w)) /\ UNCHANGED faults
         \/ Fault /\ UNCHANGED row
      /\ job' = [job EXCEPT ![x.d] = Answered(w, x.d, thrown)]
  OBVIOUS
<1>1. x.d \in Deliveries /\ x \in Attempts /\ w \in Actors
  BY ActorNames, Types DEF Roles
<1>2. row[x.d] \in Rows /\ job[x.d] \in Jobs
  BY <1>1, Types
<1>3. result \in {"delivered", "dead", "retrying"} /\ Counted(w) \in Nat
  BY <1>1, <1>2, ResultValues DEF Rows, Attempts, Counted
<1>4. row' \in [Deliveries -> Rows]
  BY <1>1, <1>3, RecordAttempt_Type, Types
<1>5. Answered(w, x.d, thrown) \in Jobs
  <2>1. ASSUME job[x.d].state = "active", job[x.d].left > 1
        PROVE  [state |-> "waiting", left |-> job[x.d].left - 1, by |-> "none"] \in Jobs
    BY <1>2, <2>1, JobValues
  <2>2. CASE job[x.d].state # "active" \/ job[x.d].by # w
    <3>1. Answered(w, x.d, thrown) = job[x.d]
      BY <2>2 DEF Answered
    <3> QED BY <1>2, <3>1
  <2>3. CASE job[x.d].state = "active" /\ job[x.d].by = w
    BY <2>1, <2>3, JobValues DEF Answered
  <2> QED BY <2>2, <2>3
<1>6. job' \in [Deliveries -> Jobs]
  BY <1>1, <1>5, Pointwise
<1>7. attempt' \in [Actors -> Attempts]
  BY <1>1, AttemptValues, Pointwise
<1>8. TypeOK'
  BY <1>4, <1>6, <1>7, Fault_Type, Types, Types_next
<1>9. Roles'
  BY <1>1, ActorNames, Types DEF Roles, Idle
<1> QED BY <1>8, <1>9

LEMMA Schedule_Type ==
  ASSUME TypeOK, Roles, NEW d \in Deliveries, Schedule(d) PROVE TypeOK' /\ Roles'
<1> USE DEF Schedule
<1>1. attempt[d] \in Attempts /\ d \in Actors
  BY ActorNames, Types
<1>2. Remaining(attempt[d].n) \in 1..MaxAttempts
  BY <1>1, RemainingCounts DEF Attempts
<1>3. job' \in [Deliveries -> Jobs]
  BY <1>2, AddJob_Type, Types
<1>4. attempt' \in [Actors -> Attempts]
  <2>1. [attempt[d] EXCEPT !.pc = "fallback"] \in Attempts
    BY <1>1, AttemptValues
  <2>2. CASE attempt' = [attempt EXCEPT ![d] = Idle]
    BY <1>1, <2>2, AttemptValues, Pointwise
  <2>3. CASE attempt' = [attempt EXCEPT ![d] = [attempt[d] EXCEPT !.pc = "fallback"]]
    BY <1>1, <2>1, <2>3, Pointwise
  <2> QED BY <2>2, <2>3, Zenon
<1>5. TypeOK'
  BY <1>3, <1>4, Fault_Type, Types, Types_next
<1>6. Roles'
  <2>1. \A a \in Actors \ {d} : attempt'[a] = attempt[a]
    BY Types
  <2>2. \/ attempt'[d] = Idle
        \/ attempt'[d] = [attempt[d] EXCEPT !.pc = "fallback"] /\ attempt[d].n > 0
    BY <1>1, Types
  <2>3. attempt'[d].pc \in {"idle", "fallback"}
        /\ (attempt'[d].pc = "fallback" => attempt'[d].d = attempt[d].d /\ attempt'[d].n > 0)
    BY <1>1, <2>2 DEF Idle, Attempts
  <2> QED BY <1>1, <2>1, <2>3, ActorNames DEF Roles
<1> QED BY <1>5, <1>6

LEMMA Fallback_Type ==
  ASSUME TypeOK, Roles, NEW d \in Deliveries, Fallback(d) PROVE TypeOK' /\ Roles'
<1> USE DEF Fallback
<1>1. row[d] \in Rows /\ d \in Actors
  BY ActorNames, Types
<1>2. row[d].attempt \in Nat
  BY <1>1 DEF Rows
<1>3. row' \in [Deliveries -> Rows]
  BY <1>2, RecordAttempt_Type, Types
<1>4. attempt' \in [Actors -> Attempts]
  BY <1>1, AttemptValues, Pointwise
<1>5. TypeOK'
  BY <1>3, <1>4, Fault_Type, Types, Types_next
<1>6. Roles'
  BY <1>1, ActorNames, Types DEF Roles, Idle
<1> QED BY <1>5, <1>6

LEMMA List_Type ==
  ASSUME TypeOK, Roles, NEW w \in Workers, List(w) PROVE TypeOK' /\ Roles'
<1> PICK S \in SUBSET Deliveries : batch' = [batch EXCEPT ![w] =
         {[d |-> d, n |-> row[d].attempt, full |-> row[d].payload] : d \in S}]
  BY DEF List
<1>1. {[d |-> d, n |-> row[d].attempt, full |-> row[d].payload] : d \in S} \subseteq Entries
  BY Types DEF Entries, Rows
<1>2. batch' \in [Workers -> SUBSET Entries]
  BY <1>1, Pointwise
<1> QED BY <1>2, Types, Types_next DEF List, bounds, Bounded, Roles

LEMMA Reschedule_Type ==
  ASSUME TypeOK, Roles, NEW w \in Workers, Reschedule(w) PROVE TypeOK' /\ Roles'
<1> PICK s \in batch[w] :
      /\ \/ AddJob(s.d, Remaining(s.n)) /\ UNCHANGED faults
         \/ Fault /\ UNCHANGED job
      /\ batch' = [batch EXCEPT ![w] = @ \ {s}]
  BY DEF Reschedule
<1>1. s \in Entries
  BY Types
<1>2. s.d \in Deliveries /\ Remaining(s.n) \in 1..MaxAttempts
  BY <1>1, RemainingCounts DEF Entries
<1>3. job' \in [Deliveries -> Jobs]
  BY <1>2, AddJob_Type, Types
<1>4. batch' \in [Workers -> SUBSET Entries]
  BY Pointwise, Types
<1>5. TypeOK'
  BY <1>3, <1>4, Fault_Type, Types, Types_next DEF Reschedule
<1>6. Roles'
  BY DEF Roles, Reschedule
<1> QED BY <1>5, <1>6

LEMMA Replay_Type ==
  ASSUME TypeOK, Roles, NEW d \in Deliveries, Replay(d) PROVE TypeOK' /\ Roles'
<1> USE DEF Replay
<1>1. row[d] \in Rows
  BY Types
<1>2. row' \in [Deliveries -> Rows]
  <2>1. [row[d] EXCEPT !.status = "pending", !.due = TRUE] \in Rows
    BY <1>1, RowValues
  <2>2. row' = [row EXCEPT ![d] = [row[d] EXCEPT !.status = "pending", !.due = TRUE]]
    BY Zenon
  <2>3. row \in [Deliveries -> Rows]
    BY Types
  <2> QED BY <2>1, <2>2, <2>3
<1>3. replay' \in [Deliveries -> [pc: {"none", "queue"}, n: Nat]]
  BY <1>1, Types DEF Rows
<1>4. Bounded'
  BY Types, DeliveriesAssumption DEF Bounded, Trouble
<1> QED BY <1>2, <1>3, <1>4, Types, Types_next DEF Roles

LEMMA ReplayNow_Type ==
  ASSUME TypeOK, Roles, NEW d \in Deliveries, ReplayNow(d) PROVE TypeOK' /\ Roles'
<1> USE DEF ReplayNow
<1>1. replay[d] \in [pc: {"none", "queue"}, n: Nat]
  BY Types
<1>2. Remaining(replay[d].n) \in 1..MaxAttempts
  BY <1>1, RemainingCounts
<1>3. job' \in [Deliveries -> Jobs]
  BY <1>2, JobValues, Pointwise, Types
<1>4. replay' \in [Deliveries -> [pc: {"none", "queue"}, n: Nat]]
  BY Types DEF NoReplay
<1> QED BY <1>3, <1>4, Fault_Type, Types, Types_next DEF Roles

LEMMA Clock_Type ==
  ASSUME TypeOK, Roles, NEW d \in Deliveries, Elapse(d) \/ Expire(d) PROVE TypeOK' /\ Roles'
<1> USE DEF Elapse, Expire
<1>1. row[d] \in Rows
  BY Types
<1>2. row' \in [Deliveries -> Rows]
  <2>1. [row[d] EXCEPT !.due = TRUE] \in Rows
    BY <1>1, RowValues
  <2>2. CASE row' = [row EXCEPT ![d] = [row[d] EXCEPT !.due = TRUE]]
    BY <2>1, <2>2, Pointwise
  <2>3. CASE row' = [row EXCEPT ![d] = [NoRow EXCEPT !.status = "swept"]]
    BY <2>3, RowValues, Pointwise
  <2> QED BY <2>2, <2>3, Zenon
<1> QED BY <1>2, Types, Types_next DEF bounds, Bounded, Roles

LEMMA Crash_Type ==
  ASSUME TypeOK, Roles, NEW a \in Actors, Crash(a) PROVE TypeOK' /\ Roles'
<1> USE DEF Crash
<1>1. attempt' \in [Actors -> Attempts]
  BY AttemptValues, Pointwise
<1>2. batch' \in [Workers -> SUBSET Entries]
  BY Types
<1>3. Bounded'
  BY Types, DeliveriesAssumption DEF Bounded, Trouble
<1>4. TypeOK'
  BY <1>1, <1>2, <1>3, Types, Types_next
<1>5. Roles'
  BY ActorNames, Types DEF Roles, Idle
<1> QED BY <1>4, <1>5

-----------------------------------------------------------------------------
(* The other conjuncts, action by action.                                    *)
Safe == Unborn /\ Recording /\ Claiming /\ Consuming /\ Counting /\ Payloads /\ DeadSpentBudget

(* Claims stand when workers only give up and the rows they serve are left.   *)
LEMMA Claims_Kept ==
  ASSUME TypeOK, Roles, Claiming, UNCHANGED queued,
         ~queued => UNCHANGED <<job, replay>>,
         ~queued => \A w \in Workers : /\ batch'[w] \subseteq batch[w]
                                       /\ attempt'[w] = attempt[w] \/ attempt'[w].pc = "idle",
         ~queued => \A w \in Workers, d \in Deliveries : Serves(w, d)' => row'[d] = row[d]
  PROVE  Claiming'
<1> SUFFICES ASSUME ~queued PROVE Claiming'
  BY DEF Claiming
<1>1. \A w \in Workers, d \in Deliveries : Serves(w, d)' => Serves(w, d)
  BY DEF Serves
<1>2. ClaimedRows'
  BY <1>1 DEF Claiming, ClaimedRows
<1>3. ClaimsUnique'
  <2>1. \A w, x \in Workers, d \in Deliveries : Serves(w, d)' /\ Serves(x, d)' => w = x
    BY <1>1 DEF Claiming, ClaimsUnique
  <2>2. \A w \in Workers : \A s, t \in batch'[w] : s.d = t.d => s = t
    BY DEF Claiming, ClaimsUnique
  <2>3. \A w \in Workers : \A s \in batch'[w] : attempt'[w].pc = "post" => s.d # attempt'[w].d
    BY DEF Claiming, ClaimsUnique
  <2> QED BY <2>1, <2>2, <2>3 DEF ClaimsUnique
<1>4. ASSUME NEW w \in Workers, NEW s \in batch'[w] PROVE s.n = row'[s.d].attempt /\ s.full
  <2>1. s \in batch[w] /\ s.d \in Deliveries
    BY <1>4, Types DEF Entries
  <2>2. row'[s.d] = row[s.d]
    BY <1>4, <2>1 DEF Serves
  <2> QED BY <2>1, <2>2 DEF Claiming, ClaimedCounts
<1>5. ASSUME NEW w \in Workers, attempt'[w].pc = "post"
      PROVE  /\ attempt'[w].n = row'[attempt'[w].d].attempt /\ attempt'[w].full
             /\ attempt'[w].final = IsFinalAttempt(attempt'[w].n)
  <2>1. attempt'[w] = attempt[w] /\ attempt[w].d \in Deliveries
    BY <1>5 DEF Roles
  <2>2. row'[attempt[w].d] = row[attempt[w].d]
    BY <1>5, <2>1 DEF Serves
  <2> QED BY <1>5, <2>1, <2>2 DEF Claiming, ClaimedCounts
<1>6. ClaimedCounts'
  BY <1>4, <1>5 DEF ClaimedCounts, IsFinalAttempt
<1>7. \A d \in Deliveries : job'[d].state = "none" /\ replay'[d].pc = "none"
  BY DEF Claiming
<1> QED BY <1>2, <1>3, <1>6, <1>7 DEF Claiming

(* A consumer's job and row stay its own while both are left alone.           *)
LEMMA Consuming_Kept ==
  ASSUME TypeOK, Roles, Consuming, UNCHANGED queued,
         \A w \in Workers : attempt'[w] = attempt[w] \/ attempt'[w].pc = "idle",
         \A w \in Workers, d \in Deliveries :
           queued /\ attempt[w].pc = "post" /\ attempt[w].d = d /\ attempt'[w] = attempt[w] =>
             job'[d] = job[d] /\ row'[d] = row[d]
  PROVE  Consuming'
<1> SUFFICES ASSUME queued, NEW w \in Workers, attempt'[w].pc = "post"
             PROVE  HoldsJob(w, attempt[w].d)' /\ attempt'[w].d = attempt[w].d
  BY DEF Consuming, HoldsJob, Unsettled
<1>1. attempt'[w] = attempt[w] /\ attempt[w].d \in Deliveries
  BY DEF Roles
<1>2. job'[attempt[w].d] = job[attempt[w].d] /\ row'[attempt[w].d] = row[attempt[w].d]
  BY <1>1
<1>3. HoldsJob(w, attempt[w].d)
  BY <1>1 DEF Consuming
<1> QED BY <1>1, <1>2, <1>3 DEF HoldsJob, Unsettled

(* Counts go on being below the row's when rows only count up.                *)
LEMMA Counting_Kept ==
  ASSUME TypeOK, TypeOK', Counting, UNCHANGED queued, faults <= faults',
         \A d \in Deliveries : queued /\ row'[d].status # "swept" =>
           /\ row[d].status # "swept" /\ row[d].attempt <= row'[d].attempt
           /\ replay'[d].pc = "queue" => replay'[d].n <= row'[d].attempt
           /\ attempt'[d].pc = "schedule" => attempt'[d].n <= row'[d].attempt
           /\ job'[d].state # "none" =>
                job'[d] = job[d] \/ job'[d].left + row'[d].attempt + faults' >= MaxAttempts,
         \A w \in Workers : queued => batch'[w] \subseteq batch[w]
  PROVE  Counting'
<1> SUFFICES ASSUME queued, NEW d \in Deliveries, row'[d].status # "swept"
             PROVE  /\ \A w \in Workers : \A s \in batch'[w] : s.d = d => s.n <= row'[d].attempt
                    /\ replay'[d].pc = "queue" => replay'[d].n <= row'[d].attempt
                    /\ attempt'[d].pc = "schedule" => attempt'[d].n <= row'[d].attempt
                    /\ job'[d].state # "none" =>
                         job'[d].left + row'[d].attempt + faults' >= MaxAttempts
  BY DEF Counting
<1>1. row[d].attempt \in Nat /\ row'[d].attempt \in Nat /\ faults \in Nat /\ faults' \in Nat
  BY Types, Types_next DEF Rows, Bounded
<1>2. row[d].status # "swept" /\ row[d].attempt <= row'[d].attempt
  OBVIOUS
<1>3. ASSUME NEW w \in Workers, NEW s \in batch'[w], s.d = d PROVE s.n <= row'[d].attempt
  <2>1. s \in batch[w] /\ s.n \in Nat
    BY <1>3, Types DEF Entries
  <2>2. s.n <= row[d].attempt
    BY <1>2, <1>3, <2>1 DEF Counting
  <2> QED BY <1>1, <1>2, <2>1, <2>2
<1>4. ASSUME job'[d].state # "none", job'[d] = job[d]
      PROVE  job'[d].left + row'[d].attempt + faults' >= MaxAttempts
  <2>1. job[d].left + row[d].attempt + faults >= MaxAttempts
    BY <1>2, <1>4 DEF Counting
  <2>2. job[d].left \in Nat /\ MaxAttempts \in Nat
    <3>1. job[d] \in Jobs
      BY Types
    <3>2. job[d].left \in 1..MaxAttempts /\ MaxAttempts \in Nat
      BY <1>4, <3>1, JobValues, DeliveriesAssumption
    <3> QED BY <3>2
  <2> QED BY <1>1, <1>2, <1>4, <2>1, <2>2
<1> QED BY <1>3, <1>4

LEMMA InsertClaimed_Inv ==
  ASSUME Timely, IInv, TypeOK', Roles', NEW d \in Deliveries, InsertClaimed(d) PROVE Safe'
<1> USE DEF IInv
<1>0. UNCHANGED <<queued, batch, job, replay, replays, faults, crashes>>
  BY DEF InsertClaimed, bounds
<1>1. row'[d].status = "delivering" /\ row'[d].attempt = 1 /\ row'[d].payload /\ ~row'[d].due
  BY Types DEF InsertClaimed
<1>2. attempt'[d] = Attempting(d, 1, TRUE, IsFinalAttempt(1))
  BY Types, ActorNames DEF InsertClaimed
<1>3. \A e \in Deliveries \ {d} : row'[e] = row[e]
  BY Types DEF InsertClaimed
<1>4. \A a \in Actors \ {d} : attempt'[a] = attempt[a]
  BY Types DEF InsertClaimed
<1>5. Untouched(d)
  BY DEF Unborn, InsertClaimed
<1>6. \A e \in Deliveries : Untouched(e)' <=> Untouched(e)
  BY <1>0, <1>4, ActorNames DEF Untouched, Serves
<1>7. \A w \in Workers : attempt'[w] = attempt[w] /\ ~Serves(w, d)
  BY <1>4, <1>5, ActorNames DEF Untouched
<1>8. Unborn'
  BY <1>1, <1>3, <1>4, <1>6, ActorNames DEF Unborn
<1>9. Recording'
  BY <1>1, <1>2, <1>3, <1>4, <1>5, <1>6, ActorNames DEF Recording, InHand, Unsettled, Attempting
<1>10. Claiming'
  BY <1>0, <1>3, <1>7, Claims_Kept DEF Serves
<1>11. Consuming'
  BY <1>0, <1>3, <1>7, Consuming_Kept DEF Serves
<1>12. Counting'
  BY <1>0, <1>1, <1>2, <1>3, <1>4, <1>5, ActorNames
     DEF Counting, Untouched, Serves, Attempting
<1>13. Payloads' /\ DeadSpentBudget'
  BY <1>0, <1>1, <1>3 DEF Payloads, DeadSpentBudget, Unsettled
<1> QED BY <1>8, <1>9, <1>10, <1>11, <1>12, <1>13 DEF Safe

LEMMA InsertDue_Inv ==
  ASSUME Timely, IInv, TypeOK', Roles', NEW d \in Deliveries, InsertDue(d) PROVE Safe'
<1> USE DEF IInv
<1>0. UNCHANGED <<queued, batch, job, replay, replays, faults, crashes>>
  BY DEF InsertDue, bounds
<1>1. row'[d].status = "pending" /\ row'[d].attempt = 0 /\ row'[d].payload /\ row'[d].due
  BY Types DEF InsertDue
<1>2. attempt'[d] = attempt[d] \/ attempt'[d].n = 0
  BY Types, ActorNames DEF InsertDue, Idle
<1>3. \A e \in Deliveries \ {d} : row'[e] = row[e]
  BY Types DEF InsertDue
<1>4. \A a \in Actors \ {d} : attempt'[a] = attempt[a]
  BY Types DEF InsertDue
<1>5. attempt[d].pc = "idle" /\ Untouched(d)
  BY DEF Unborn, InsertDue
<1>6. \A e \in Deliveries : Untouched(e)' <=> Untouched(e)
  BY <1>0, <1>4, ActorNames DEF Untouched, Serves
<1>7. \A w \in Workers : attempt'[w] = attempt[w] /\ ~Serves(w, d)
  BY <1>4, <1>5, ActorNames DEF Untouched
<1>8. Unborn'
  BY <1>1, <1>3, <1>4, <1>6, ActorNames DEF Unborn
<1>9. Recording'
  BY <1>1, <1>2, <1>3, <1>4, <1>5, <1>6, ActorNames DEF Recording, InHand, Unsettled
<1>10. Claiming'
  BY <1>0, <1>3, <1>7, Claims_Kept DEF Serves
<1>11. Consuming'
  BY <1>0, <1>3, <1>7, Consuming_Kept DEF Serves
<1>12. Counting'
  BY <1>0, <1>1, <1>2, <1>3, <1>4, <1>5, ActorNames DEF Counting, Untouched, Serves
<1>13. Payloads' /\ DeadSpentBudget'
  BY <1>0, <1>1, <1>3 DEF Payloads, DeadSpentBudget, Unsettled
<1> QED BY <1>8, <1>9, <1>10, <1>11, <1>12, <1>13 DEF Safe

LEMMA Claim_Inv ==
  ASSUME Timely, IInv, TypeOK', Roles', NEW w \in Workers, Claim(w) PROVE Safe'
<1> USE DEF IInv
<1>0. UNCHANGED <<queued, attempt, job, replay, replays, faults, crashes>> /\ ~queued
  BY DEF Claim, bounds
<1>1. PICK S \in SUBSET Deliveries :
      /\ Page(S)
      /\ row' = [d \in Deliveries |->
            IF d \in S THEN [row[d] EXCEPT !.status = "delivering", !.attempt = @ + 1, !.due = FALSE]
            ELSE row[d]]
      /\ batch' = [batch EXCEPT ![w] =
            {[d |-> d, n |-> row[d].attempt + 1, full |-> row[d].payload] : d \in S}]
  BY DEF Claim
<1>2. \A d \in S : row[d].due /\ Unsettled(d) /\ d \in Deliveries
  BY <1>1 DEF Page, Due, Unsettled
<1>3. \A d \in S : /\ row'[d].status = "delivering" /\ row'[d].attempt = row[d].attempt + 1
                   /\ row'[d].payload = row[d].payload /\ ~row'[d].due
  BY <1>1, <1>2, Types DEF Rows
<1>4. \A d \in Deliveries \ S : row'[d] = row[d]
  BY <1>1
<1>5. /\ \A s \in batch'[w] : s.d \in S /\ s.n = row[s.d].attempt + 1 /\ s.full = row[s.d].payload
      /\ \A s, t \in batch'[w] : s.d = t.d => s = t
      /\ \A x \in Workers \ {w} : batch'[x] = batch[x]
      /\ batch[w] = {} /\ attempt[w] = Idle
  <2>1. batch'[w] = {[d |-> d, n |-> row[d].attempt + 1, full |-> row[d].payload] : d \in S}
    BY <1>1, Types
  <2>2. \A s \in batch'[w] : s.d \in S /\ s.n = row[s.d].attempt + 1 /\ s.full = row[s.d].payload
    BY <2>1
  <2>3. \A s, t \in batch'[w] : s.d = t.d => s = t
    BY <2>1
  <2>4. \A x \in Workers \ {w} : batch'[x] = batch[x]
    BY <1>1, Types
  <2> QED BY <2>2, <2>3, <2>4 DEF Claim
<1>6. \A x \in Workers : \A d \in S : ~Serves(x, d)
  BY <1>0, <1>2 DEF Claiming, ClaimedRows
<1>7. \A x \in Workers, e \in Deliveries :
        Serves(x, e)' => (Serves(x, e) /\ e \notin S) \/ (x = w /\ e \in S)
  <2> SUFFICES ASSUME NEW x \in Workers, NEW e \in Deliveries, Serves(x, e)'
               PROVE  (Serves(x, e) /\ e \notin S) \/ (x = w /\ e \in S)
    OBVIOUS
  <2>1. CASE x = w
    BY <1>0, <1>5, <2>1 DEF Serves, Idle
  <2>2. CASE x # w
    <3>1. Serves(x, e)
      BY <1>0, <1>5, <2>2 DEF Serves
    <3>2. e \notin S
      BY <1>6, <3>1
    <3> QED BY <3>1, <3>2
  <2> QED BY <2>1, <2>2
<1>8. \A e \in Deliveries \ S : Untouched(e) => Untouched(e)'
  BY <1>0, <1>7 DEF Untouched
<1>9. Unborn'
  BY <1>0, <1>3, <1>4, <1>8 DEF Unborn
<1>10. Recording'
  <2>1. \A e \in Deliveries : InHand(e) => e \notin S
    BY <1>2 DEF Recording
  <2> QED BY <1>0, <1>4, <1>8, <2>1 DEF Recording, InHand, Unsettled, IsFinalAttempt
<1>11. ClaimedRows'
  BY <1>0, <1>3, <1>4, <1>7 DEF Claiming, ClaimedRows
<1>12. ClaimsUnique'
  <2>1. \A x, y \in Workers, e \in Deliveries : Serves(x, e)' /\ Serves(y, e)' => x = y
    BY <1>0, <1>7 DEF Claiming, ClaimsUnique
  <2> QED BY <1>0, <1>5, <2>1 DEF Claiming, ClaimsUnique, Idle
<1>13. ClaimedCounts'
  <2>1. ASSUME NEW x \in Workers, NEW s \in batch'[x] PROVE s.n = row'[s.d].attempt /\ s.full
    <3>1. CASE x = w
      BY <1>2, <1>3, <1>5, <2>1, <3>1 DEF Payloads
    <3>2. CASE x # w
      <4>1. s \in batch[x] /\ s.d \in Deliveries /\ s.d \notin S
        BY <1>5, <1>6, <2>1, <3>2, Types DEF Entries, Serves
      <4> QED BY <1>0, <1>4, <4>1 DEF Claiming, ClaimedCounts
    <3> QED BY <3>1, <3>2
  <2>2. ASSUME NEW x \in Workers, attempt[x].pc = "post"
        PROVE  row'[attempt[x].d] = row[attempt[x].d]
    BY <1>4, <1>6, <2>2 DEF Serves, Roles
  <2> QED BY <1>0, <2>1, <2>2 DEF Claiming, ClaimedCounts, IsFinalAttempt
<1>14. Claiming' /\ Consuming' /\ Counting'
  BY <1>0, <1>11, <1>12, <1>13 DEF Claiming, Consuming, Counting
<1>15. Payloads' /\ DeadSpentBudget'
  BY <1>0, <1>2, <1>3, <1>4 DEF Payloads, DeadSpentBudget, Unsettled
<1> QED BY <1>9, <1>10, <1>14, <1>15 DEF Safe

LEMMA NextInBatch_Inv ==
  ASSUME Timely, IInv, TypeOK', Roles', NEW w \in Workers, NextInBatch(w) PROVE Safe'
<1> USE DEF IInv
<1>0. UNCHANGED <<queued, row, job, replay, replays, faults, crashes>> /\ ~queued
  BY DEF NextInBatch, bounds
<1>1. PICK s \in batch[w] :
      /\ attempt' = [attempt EXCEPT ![w] = Attempting(s.d, s.n, s.full, IsFinalAttempt(s.n))]
      /\ batch' = [batch EXCEPT ![w] = @ \ {s}]
  BY DEF NextInBatch
<1>2. s.d \in Deliveries /\ attempt[w] = Idle
  BY Types DEF Entries, NextInBatch
<1>3. attempt'[w] = Attempting(s.d, s.n, s.full, IsFinalAttempt(s.n)) /\ batch'[w] = batch[w] \ {s}
  BY <1>1, Types, ActorNames
<1>4. /\ \A a \in Actors \ {w} : attempt'[a] = attempt[a]
      /\ \A x \in Workers \ {w} : batch'[x] = batch[x]
  BY <1>1, Types
<1>5. \A x \in Workers, e \in Deliveries : Serves(x, e)' <=> Serves(x, e)
  BY <1>2, <1>3, <1>4, ActorNames DEF Serves, Attempting, Idle
<1>6. \A e \in Deliveries : Untouched(e)' <=> Untouched(e)
  BY <1>0, <1>5 DEF Untouched
<1>7. \A e \in Deliveries : attempt'[e] = attempt[e]
  BY <1>4, ActorNames
<1>8. Unborn' /\ Recording'
  BY <1>0, <1>6, <1>7 DEF Unborn, Recording, InHand, Unsettled, IsFinalAttempt
<1>9. ClaimedRows'
  BY <1>0, <1>5 DEF Claiming, ClaimedRows
<1>10. ClaimsUnique'
  BY <1>0, <1>2, <1>3, <1>4, <1>5, ActorNames DEF Claiming, ClaimsUnique, Attempting
<1>11. ClaimedCounts'
  BY <1>0, <1>1, <1>3, <1>4, ActorNames DEF Claiming, ClaimedCounts, Attempting, IsFinalAttempt
<1>12. Claiming' /\ Consuming' /\ Counting'
  BY <1>0, <1>9, <1>10, <1>11 DEF Claiming, Consuming, Counting
<1>13. Payloads' /\ DeadSpentBudget'
  BY <1>0 DEF Payloads, DeadSpentBudget, Unsettled
<1> QED BY <1>8, <1>12, <1>13 DEF Safe

LEMMA Take_Inv ==
  ASSUME Timely, IInv, TypeOK', Roles', NEW w \in Workers, NEW d \in Deliveries, Take(w, d)
  PROVE  Safe'
<1> USE DEF IInv
<1>0. UNCHANGED <<queued, row, batch, replay, replays, faults, crashes>> /\ queued
      /\ job[d].state = "waiting" /\ attempt[w] = Idle
  BY DEF Take, bounds
<1>1. \A e \in Deliveries \ {d} : job'[e] = job[e]
  BY Types DEF Take
<1>2. \A a \in Actors \ {w} : attempt'[a] = attempt[a]
  BY Types DEF Take
<1>3. row[d].status # "absent" /\ ~InHand(d)
  BY <1>0 DEF Unborn, Recording, Untouched
<1>4. attempt'[w].pc = "post" => attempt'[w].d = d
  BY <1>0, Types, ActorNames DEF Take, Attempting, Idle
<1>5. \A e \in Deliveries \ {d} : Untouched(e) => Untouched(e)'
  BY <1>0, <1>1, <1>2, <1>4, ActorNames DEF Untouched, Serves
<1>6. \A e \in Deliveries : attempt'[e] = attempt[e]
  BY <1>2, ActorNames
<1>7. Unborn' /\ Recording'
  BY <1>0, <1>3, <1>5, <1>6 DEF Unborn, Recording, InHand, Unsettled, IsFinalAttempt
<1>8. Consuming'
  <2>1. CASE NothingLeft(d) /\ UNCHANGED attempt
    <3>1. \A x \in Workers : attempt[x].pc = "post" => attempt[x].d # d
      BY <1>0 DEF Consuming, HoldsJob
    <3> QED BY <1>0, <1>1, <2>1, <3>1, ActorNames, Consuming_Kept
  <2>2. CASE ~NothingLeft(d)
    <3> DEFINE last == job[d].left = 1
    <3>1. /\ job'[d].state = "active" /\ job'[d].by = w /\ job'[d].left = job[d].left
          /\ attempt'[w] = Attempting(d, row[d].attempt + 1, row[d].payload, last)
      <4>1. /\ job' = [job EXCEPT ![d].state = "active", ![d].by = w]
            /\ attempt' = [attempt EXCEPT ![w] =
                 Attempting(d, row[d].attempt + 1, row[d].payload, last)]
        BY <2>2 DEF Take
      <4>2. job[d] \in [state: {"waiting", "active"}, left: 1..MaxAttempts, by: Workers \cup {"none"}]
        BY <1>0, Types DEF Jobs, NoJob
      <4> QED BY <4>1, <4>2, Types, ActorNames
    <3>2. Unsettled(d) /\ row[d].payload
      BY <2>2, Types DEF NothingLeft, Exists, Unsettled, Rows, Settled, Payloads
    <3>3. ASSUME NEW x \in Workers \ {w}, attempt[x].pc = "post" PROVE attempt[x].d # d
      BY <1>0, <3>3 DEF Consuming, HoldsJob
    <3>4. last <=> job'[d].left = 1
      BY <3>1
    <3> HIDE DEF last
    <3>5. attempt'[w].d = d /\ attempt'[w].n = row[d].attempt + 1 /\ attempt'[w].full = row[d].payload
          /\ attempt'[w].final = last
      BY <3>1 DEF Attempting
    <3>6. ASSUME NEW x \in Workers \ {w}, attempt'[x].pc = "post"
          PROVE  HoldsJob(x, attempt[x].d)' /\ attempt'[x].d = attempt[x].d
      <4>1. attempt'[x] = attempt[x] /\ attempt[x].d \in Deliveries
        BY <1>2, <3>6, ActorNames DEF Roles
      <4>2. job'[attempt[x].d] = job[attempt[x].d] /\ row'[attempt[x].d] = row[attempt[x].d]
        BY <1>0, <1>1, <3>3, <3>6, <4>1
      <4>3. HoldsJob(x, attempt[x].d)
        BY <1>0, <3>6, <4>1 DEF Consuming
      <4> QED BY <4>1, <4>2, <4>3 DEF HoldsJob, Unsettled
    <3>7. HoldsJob(w, d)'
      BY <1>0, <3>1, <3>2, <3>4, <3>5 DEF HoldsJob, Unsettled
    <3> QED BY <3>5, <3>6, <3>7 DEF Consuming, HoldsJob, Unsettled
  <2> QED BY <2>1, <2>2 DEF Take
<1>9. Claiming'
  BY <1>0 DEF Claiming
<1>10. Counting'
  <2>1. job'[d].state # "none" => job'[d].left = job[d].left
    BY <1>0, Types DEF Take, NoJob, Jobs
  <2> QED BY <1>0, <1>1, <1>6, <2>1 DEF Counting
<1>11. Payloads' /\ DeadSpentBudget'
  BY <1>0 DEF Payloads, DeadSpentBudget, Unsettled
<1> QED BY <1>7, <1>8, <1>9, <1>10, <1>11 DEF Safe

LEMMA Stall_Inv ==
  ASSUME Timely, IInv, TypeOK', Roles', NEW d \in Deliveries, Stall(d) PROVE Safe'
<1> USE DEF IInv
<1>0. UNCHANGED <<queued, row, attempt, batch, replay, replays, faults, crashes>> /\ queued
  BY DEF Stall, bounds, Claiming
<1>1. /\ \A e \in Deliveries \ {d} : job'[e] = job[e]
      /\ job'[d].state # "none" => job'[d].left = job[d].left
  <2>1. job[d] \in [state: {"waiting", "active"}, left: 1..MaxAttempts, by: Workers \cup {"none"}]
    BY Types DEF Jobs, NoJob, Stall
  <2>2. CASE job' = [job EXCEPT ![d] = NoJob]
    BY <2>2, Types DEF NoJob
  <2>3. CASE job' = [job EXCEPT ![d].state = "waiting", ![d].by = "none"]
    BY <2>1, <2>3, Types
  <2> QED BY <2>2, <2>3 DEF Stall
<1>2. row[d].status # "absent" /\ ~InHand(d)
  BY <1>0 DEF Unborn, Recording, Untouched, Stall
<1>3. \A w \in Workers : attempt[w].pc = "post" => attempt[w].d # d
  BY <1>0 DEF Consuming, HoldsJob, Stall, Timely
<1>4. \A e \in Deliveries \ {d} : Untouched(e) => Untouched(e)'
  BY <1>0, <1>1 DEF Untouched, Serves
<1>5. Unborn' /\ Recording'
  BY <1>0, <1>2, <1>4 DEF Unborn, Recording, InHand, Unsettled, IsFinalAttempt
<1>6. Claiming'
  BY <1>0 DEF Claiming
<1>7. Consuming'
  BY <1>0, <1>1, <1>3, Consuming_Kept
<1>8. Counting'
  BY <1>0, <1>1, Types DEF Counting, Stall
<1>9. Payloads' /\ DeadSpentBudget'
  BY <1>0 DEF Payloads, DeadSpentBudget, Unsettled
<1> QED BY <1>5, <1>6, <1>7, <1>8, <1>9 DEF Safe

(* What recording a result does to a row that exists.                        *)
LEMMA RecordedRow ==
  ASSUME TypeOK, NEW d \in Deliveries, NEW n \in Nat, Unsettled(d),
         NEW result \in {"delivered", "dead", "retrying"}, RecordAttempt(d, result, n)
  PROVE  /\ row'[d].status = IF result = "retrying" THEN "pending" ELSE result
         /\ row'[d].attempt = n /\ ~row'[d].due
         /\ result # "delivered" => row'[d].payload = row[d].payload
         /\ \A e \in Deliveries \ {d} : row'[e] = row[e]
<1>1. row[d] \in Rows
  BY Types
<1>2. row' = [row EXCEPT ![d] = Recorded(row[d], result, n)]
  BY DEF RecordAttempt, Exists, Unsettled
<1>3. /\ row'[d] = Recorded(row[d], result, n)
      /\ \A e \in Deliveries \ {d} : row'[e] = row[e]
  BY <1>2, Types
<1>4. /\ Recorded(row[d], result, n).status = (IF result = "retrying" THEN "pending" ELSE result)
      /\ Recorded(row[d], result, n).attempt = n
      /\ Recorded(row[d], result, n).due = FALSE
      /\ result # "delivered" => Recorded(row[d], result, n).payload = row[d].payload
  <2> DEFINE x == row[d]
  <2> HIDE DEF x
  <2>1. x \in Rows
    BY <1>1 DEF x
  <2>2. /\ Recorded(x, result, n).status = (IF result = "retrying" THEN "pending" ELSE result)
        /\ Recorded(x, result, n).attempt = n
        /\ Recorded(x, result, n).due = FALSE
        /\ result # "delivered" => Recorded(x, result, n).payload = x.payload
    BY <2>1, RecordedValue
  <2> QED BY <2>2, Zenon DEF x
<1> QED BY <1>3, <1>4, Zenon

(* A row that is dead had its budget when others are left alone.              *)
LEMMA BudgetKept ==
  ASSUME TypeOK, TypeOK', DeadSpentBudget, faults <= faults', NEW d,
         \A e \in Deliveries \ {d} : row'[e] = row[e] \/ row'[e].status # "dead",
         d \notin Disallowed /\ row'[d].status = "dead" => row'[d].attempt + faults' >= MaxAttempts
  PROVE  DeadSpentBudget'
<1> SUFFICES ASSUME NEW e \in Deliveries \ Disallowed, row'[e].status = "dead"
             PROVE  row'[e].attempt + faults' >= MaxAttempts
  BY DEF DeadSpentBudget
<1>1. row'[e].attempt \in Nat /\ faults \in Nat /\ faults' \in Nat /\ MaxAttempts \in Nat
  BY Types, Types_next, DeliveriesAssumption DEF Rows, Bounded
<1>2. CASE e = d
  BY <1>2
<1>3. CASE e # d
  <2>1. row'[e] = row[e] /\ row[e].attempt + faults >= MaxAttempts
    BY <1>3 DEF DeadSpentBudget
  <2> QED BY <1>1, <2>1
<1> QED BY <1>2, <1>3

(* The recorder's own attempt ends.                                          *)
LEMMA Record_Recorder_Inv ==
  ASSUME Timely, IInv, TypeOK', Roles', NEW d \in Deliveries, Record(d) PROVE Safe'
<1> USE DEF IInv
<1>0. UNCHANGED <<queued, batch, job, replay, replays, crashes>> /\ attempt[d].pc = "post"
      /\ faults <= faults'
  BY Types DEF Record, Bounded, Fault
<1>1. attempt[d].d = d /\ InHand(d) /\ Unsettled(d) /\ Untouched(d)
  BY <1>0 DEF Roles, InHand, Recording
<1> DEFINE n == attempt[d].n
<1>2. n = row[d].attempt /\ n \in Nat /\ row[d].status = "delivering" /\ ~row[d].due
      /\ attempt[d].final = IsFinalAttempt(n)
  BY <1>0, <1>1, Types DEF Recording, Rows
<1>3. PICK result \in Results(attempt[d]) :
      /\ \/ RecordAttempt(d, result, n) /\ UNCHANGED faults
         \/ Fault /\ UNCHANGED row
      /\ attempt' = [attempt EXCEPT ![d] =
           IF queued /\ result = "retrying" THEN [attempt[d] EXCEPT !.pc = "schedule"] ELSE Idle]
  BY <1>1, <1>2 DEF Record
<1>4. result \in {"delivered", "dead", "retrying"}
  BY ResultValues
<1>5. /\ \A e \in Deliveries \ {d} : row'[e] = row[e]
      /\ row'[d].status \in {"pending", "delivering", "delivered", "dead"}
      /\ row'[d].attempt = n /\ ~row'[d].due
      /\ result = "retrying" => Unsettled(d)'
      /\ row'[d].status # "delivered" => row'[d].payload = row[d].payload
  BY <1>1, <1>2, <1>3, <1>4, RecordedRow DEF Unsettled
<1>6. row'[d].status = "dead" => result = "dead"
  BY <1>1, <1>2, <1>3, <1>4, RecordedRow
<1>7. \A a \in Actors \ {d} : attempt'[a] = attempt[a]
  BY <1>3, Types
<1>8. attempt'[d].pc # "idle" => /\ attempt'[d].pc = "schedule" /\ attempt'[d].n = n
                               /\ result = "retrying"
  BY <1>3, Types, ActorNames DEF Idle, Attempts
<1>9. \A e \in Deliveries : Untouched(e)' <=> Untouched(e)
  BY <1>0, <1>7, ActorNames DEF Untouched, Serves
<1>10. Unborn'
  BY <1>1, <1>2, <1>5, <1>7, <1>9, ActorNames DEF Unborn
<1>11. Recording'
  <2>1. ASSUME NEW e \in Deliveries \ {d}, InHand(e)'
        PROVE  InHand(e) /\ attempt'[e] = attempt[e] /\ row'[e] = row[e]
    BY <1>5, <1>7, <2>1, ActorNames DEF InHand
  <2>2. InHand(d)' => /\ attempt'[d].pc = "schedule" /\ attempt'[d].n = n /\ Unsettled(d)'
    BY <1>5, <1>8 DEF InHand
  <2> QED BY <1>1, <1>5, <1>9, <2>1, <2>2 DEF Recording, Unsettled, IsFinalAttempt
<1>12. \A w \in Workers : attempt'[w] = attempt[w] /\ ~Serves(w, d)
  BY <1>1, <1>7, ActorNames DEF Untouched
<1>13. Claiming'
  BY <1>0, <1>5, <1>12, Claims_Kept DEF Serves
<1>14. Consuming'
  BY <1>0, <1>5, <1>12, Consuming_Kept DEF Serves
<1>15. Counting'
  <2>1. \A w \in Workers : \A s \in batch[w] : s.d # d
    BY <1>1 DEF Untouched, Serves
  <2>2. \A e \in Deliveries \ {d} : attempt'[e] = attempt[e] /\ row'[e].attempt \in Nat
    BY <1>7, Types_next, ActorNames DEF Rows
  <2>3. /\ row[d].status # "swept" /\ row[d].attempt = row'[d].attempt
        /\ job'[d].state = "none" /\ replay'[d].pc = "none"
        /\ attempt'[d].pc = "schedule" => attempt'[d].n = row'[d].attempt
    BY <1>0, <1>1, <1>2, <1>5, <1>8 DEF Untouched
  <2> QED BY <1>0, <1>2, <1>5, <2>2, <2>3, Counting_Kept DEF Counting
<1>16. Payloads'
  BY <1>1, <1>5 DEF Payloads, Unsettled
<1>17. DeadSpentBudget'
  <2>1. ASSUME d \notin Disallowed, row'[d].status = "dead" PROVE n >= MaxAttempts
    BY <1>1, <1>2, <1>3, <1>6, <2>1, ResultValues DEF IsFinalAttempt
  <2>2. d \notin Disallowed /\ row'[d].status = "dead" => row'[d].attempt + faults' >= MaxAttempts
    BY <1>2, <1>5, <2>1, Types_next, DeliveriesAssumption DEF Bounded
  <2> QED BY <1>0, <1>5, <2>2, BudgetKept
<1> QED BY <1>10, <1>11, <1>13, <1>14, <1>15, <1>16, <1>17 DEF Safe

(* A polling worker's attempt at a row it claimed ends.                      *)
LEMMA Record_Worker_Inv ==
  ASSUME Timely, IInv, TypeOK', Roles', NEW w \in Workers, Record(w) PROVE Safe'
<1> USE DEF IInv
<1>0. UNCHANGED <<queued, batch, job, replay, replays, crashes>> /\ attempt[w].pc = "post"
      /\ ~queued /\ faults <= faults'
  BY Types, ActorNames DEF Record, Bounded, Fault
<1>1. PICK d \in Deliveries : d = attempt[w].d /\ Serves(w, d)
  BY <1>0 DEF Roles, Serves
<1>2. /\ row[d].status = "delivering" /\ ~row[d].due /\ Unsettled(d) /\ row[d].attempt \in Nat
      /\ attempt[w].n = row[d].attempt /\ attempt[w].final = IsFinalAttempt(row[d].attempt)
  BY <1>0, <1>1, Types DEF Claiming, ClaimedRows, ClaimedCounts, Unsettled, Rows
<1>3. PICK result \in Results(attempt[w]) :
      /\ \/ RecordAttempt(d, result, row[d].attempt) /\ UNCHANGED faults
         \/ Fault /\ UNCHANGED row
      /\ attempt' = [attempt EXCEPT ![w] = Idle]
  BY <1>0, <1>1 DEF Record
<1>4. result \in {"delivered", "dead", "retrying"}
  BY ResultValues
<1>5. /\ \A e \in Deliveries \ {d} : row'[e] = row[e]
      /\ row'[d].status \in {"pending", "delivering", "delivered", "dead"}
      /\ row'[d].attempt = row[d].attempt
      /\ row'[d].status # "delivered" => row'[d].payload = row[d].payload
      /\ row'[d].status = "dead" => result = "dead"
  BY <1>1, <1>2, <1>3, <1>4, RecordedRow
<1>6. /\ \A a \in Actors \ {w} : attempt'[a] = attempt[a]
      /\ attempt'[w].pc = "idle"
  BY <1>3, Types, ActorNames DEF Idle
<1>7. \A e \in Deliveries : attempt'[e] = attempt[e]
  BY <1>6, ActorNames
<1>8. \A x \in Workers, e \in Deliveries : Serves(x, e)' => Serves(x, e) /\ e # d
  <2>1. \A x \in Workers, e \in Deliveries : Serves(x, e)' => Serves(x, e)
    BY <1>0, <1>6, ActorNames DEF Serves
  <2>2. \A s \in batch[w] : s.d # d
    BY <1>0, <1>1 DEF Claiming, ClaimsUnique
  <2>3. ~Serves(w, d)'
    BY <1>0, <1>6, <2>2 DEF Serves
  <2>4. \A x \in Workers : Serves(x, d) => x = w
    BY <1>0, <1>1 DEF Claiming, ClaimsUnique
  <2> QED BY <1>1, <2>1, <2>3, <2>4
<1>9. \A e \in Deliveries : Untouched(e) => Untouched(e)'
  BY <1>0, <1>8 DEF Untouched
<1>10. ~InHand(d)
  BY <1>1 DEF Recording, Untouched
<1>11. Unborn'
  BY <1>5, <1>7, <1>9 DEF Unborn
<1>12. Recording'
  <2>1. \A e \in Deliveries : InHand(e)' <=> InHand(e)
    BY <1>7 DEF InHand
  <2> QED BY <1>5, <1>7, <1>9, <1>10, <2>1 DEF Recording, Unsettled, IsFinalAttempt
<1>13. Claiming'
  BY <1>0, <1>5, <1>6, <1>8, ActorNames, Claims_Kept
<1>14. Consuming' /\ Counting'
  BY <1>0 DEF Consuming, Counting
<1>15. Payloads'
  BY <1>1, <1>2, <1>5 DEF Payloads, Unsettled
<1>16. DeadSpentBudget'
  <2>1. ASSUME d \notin Disallowed, row'[d].status = "dead" PROVE row[d].attempt >= MaxAttempts
    BY <1>1, <1>2, <1>3, <1>5, <2>1, ResultValues DEF IsFinalAttempt
  <2>2. d \notin Disallowed /\ row'[d].status = "dead" => row'[d].attempt + faults' >= MaxAttempts
    BY <1>2, <1>5, <2>1, Types_next, DeliveriesAssumption DEF Bounded
  <2> QED BY <1>0, <1>5, <2>2, BudgetKept
<1> QED BY <1>11, <1>12, <1>13, <1>14, <1>15, <1>16 DEF Safe

(* A consumer's attempt ends, and the queue hears of it: the job loses an      *)
(* attempt when the row gains one, or when a call failed.                     *)
LEMMA RecordAndAnswer_Inv ==
  ASSUME Timely, IInv, TypeOK', Roles', NEW w \in Workers, RecordAndAnswer(w) PROVE Safe'
<1> USE DEF IInv
<1> DEFINE d == attempt[w].d
<1>0. UNCHANGED <<queued, batch, replay, replays, crashes>> /\ attempt[w].pc = "post"
      /\ queued /\ faults <= faults'
  <2>1. UNCHANGED faults \/ Fault
    BY DEF RecordAndAnswer
  <2>2. faults <= faults'
    BY <2>1, Types DEF Bounded, Fault
  <2> QED BY <2>2 DEF RecordAndAnswer
<1>1. d \in Deliveries /\ HoldsJob(w, d)
  BY <1>0 DEF Roles, Consuming
<1>2. /\ row[d] \in Rows /\ row[d].attempt \in Nat /\ Unsettled(d)
      /\ job[d].state = "active" /\ job[d].by = w /\ job[d].left \in 1..MaxAttempts
      /\ faults \in Nat /\ faults' \in Nat /\ MaxAttempts \in Nat
  <2>1. job[d] \in Jobs /\ job[d].state = "active" /\ job[d].by = w
    BY <1>1, Types DEF HoldsJob
  <2>2. job[d].left \in 1..MaxAttempts
    BY <2>1, JobValues
  <2> QED BY <1>1, <2>1, <2>2, Types, Types_next, DeliveriesAssumption DEF Rows, HoldsJob, Bounded
<1>3. PICK n \in Nat : n = Counted(w)
                      /\ n = IF d \in Disallowed THEN row[d].attempt ELSE row[d].attempt + 1
  <2>1. Counted(w) = IF d \in Disallowed THEN row[d].attempt ELSE row[d].attempt + 1
    BY <1>1 DEF Counted, HoldsJob
  <2> QED BY <1>2, <2>1
<1>4. PICK result \in Results(attempt[w]) :
      \/ /\ RecordAttempt(d, result, n) /\ UNCHANGED faults
         /\ job' = [job EXCEPT ![d] = Answered(w, d, result = "retrying")]
      \/ /\ Fault /\ UNCHANGED row
         /\ job' = [job EXCEPT ![d] = Answered(w, d, TRUE)]
  BY <1>3 DEF RecordAndAnswer, RecordAttempt
<1>5. result \in {"delivered", "dead", "retrying"}
  BY ResultValues
<1>6. attempt' = [attempt EXCEPT ![w] = Idle]
  BY DEF RecordAndAnswer
<1>7. /\ \A a \in Actors \ {w} : attempt'[a] = attempt[a]
      /\ attempt'[w].pc = "idle"
  BY <1>6, Types, ActorNames DEF Idle
<1>8. \A e \in Deliveries \ {d} : row'[e] = row[e] /\ job'[e] = job[e]
  <2>1. \A e \in Deliveries \ {d} : job'[e] = job[e]
    BY <1>4, Types
  <2>2. \A e \in Deliveries \ {d} : row'[e] = row[e]
    <3>1. CASE RecordAttempt(d, result, n)
      BY <1>1, <1>2, <1>5, <3>1, RecordedRow
    <3> QED BY <1>4, <3>1
  <2> QED BY <2>1, <2>2
<1>9. /\ row'[d].status \in {"pending", "delivering", "delivered", "dead"}
      /\ row'[d].status # "delivered" => row'[d].payload = row[d].payload
  <2>1. CASE RecordAttempt(d, result, n)
    <3>1. /\ row'[d].status = IF result = "retrying" THEN "pending" ELSE result
          /\ result # "delivered" => row'[d].payload = row[d].payload
      BY <1>1, <1>2, <1>3, <1>5, <2>1, RecordedRow
    <3> QED BY <1>5, <3>1
  <2>2. CASE UNCHANGED row
    BY <1>2, <2>2 DEF Unsettled
  <2> QED BY <1>4, <2>1, <2>2
<1>10. job'[d].state # "none" =>
         /\ job'[d].left = job[d].left - 1
         /\ \/ row'[d].attempt = row[d].attempt + 1 /\ faults' = faults
            \/ row'[d].attempt = row[d].attempt /\ faults' = faults + 1
  <2>1. CASE RecordAttempt(d, result, n) /\ UNCHANGED faults
             /\ job' = [job EXCEPT ![d] = Answered(w, d, result = "retrying")]
    <3>1. row'[d].attempt = n
      BY <1>1, <1>2, <1>3, <1>5, <2>1, RecordedRow
    <3>2. result = "retrying" => d \notin Disallowed
      BY DEF Results
    <3>3. job'[d] = Answered(w, d, result = "retrying")
      BY <1>1, <2>1, Types
    <3>4. job'[d].state # "none" => result = "retrying" /\ job'[d].left = job[d].left - 1
      BY <1>2, <3>3 DEF Answered, NoJob
    <3> QED BY <1>3, <2>1, <3>1, <3>2, <3>4
  <2>2. CASE Fault /\ UNCHANGED row /\ job' = [job EXCEPT ![d] = Answered(w, d, TRUE)]
    <3>1. job'[d] = Answered(w, d, TRUE)
      BY <1>1, <2>2, Types
    <3>2. job'[d].state # "none" => job'[d].left = job[d].left - 1
      BY <1>2, <3>1 DEF Answered, NoJob
    <3> QED BY <2>2, <3>2 DEF Fault
  <2> QED BY <1>4, <2>1, <2>2
<1>11. row[d].attempt <= row'[d].attempt /\ row'[d].attempt \in Nat
  <2>1. row'[d].attempt = row[d].attempt \/ row'[d].attempt = n
    <3>1. CASE RecordAttempt(d, result, n)
      BY <1>1, <1>2, <1>3, <1>5, <3>1, RecordedRow
    <3> QED BY <1>4, <3>1
  <2> QED BY <1>2, <1>3, <2>1
<1>12. \A e \in Deliveries : attempt'[e] = attempt[e]
  BY <1>7, ActorNames
<1>13. \A e \in Deliveries \ {d} : Untouched(e) => Untouched(e)'
  BY <1>0, <1>7, <1>8, ActorNames DEF Untouched, Serves
<1>14. row[d].status # "absent" /\ ~InHand(d)
  BY <1>1, <1>2 DEF Recording, Untouched, Unsettled
<1>15. Unborn'
  BY <1>8, <1>9, <1>12, <1>13 DEF Unborn
<1>16. Recording'
  <2>1. \A e \in Deliveries : InHand(e)' <=> InHand(e)
    BY <1>12 DEF InHand
  <2> QED BY <1>8, <1>12, <1>13, <1>14, <2>1 DEF Recording, Unsettled, IsFinalAttempt
<1>17. Claiming'
  BY <1>0 DEF Claiming
<1>18. Consuming'
  <2>1. \A x \in Workers \ {w} : attempt[x].pc = "post" => attempt[x].d # d
    BY <1>0, <1>2 DEF Consuming, HoldsJob
  <2> QED BY <1>0, <1>7, <1>8, <2>1, ActorNames, Consuming_Kept
<1>19. Counting'
  <2>1. job'[d].state # "none" => job'[d].left + row'[d].attempt + faults' >= MaxAttempts
    <3>1. job[d].left + row[d].attempt + faults >= MaxAttempts
      BY <1>0, <1>1, <1>2 DEF Counting, Unsettled
    <3> QED BY <1>2, <1>10, <1>11, <3>1
  <2>2. /\ replay[d].pc = "queue" => replay[d].n <= row'[d].attempt
        /\ attempt[d].pc = "schedule" => attempt[d].n <= row'[d].attempt
        /\ row[d].status # "swept"
    <3>1. replay[d].n \in Nat /\ attempt[d].n \in Nat
      BY <1>1, ActorNames, Types DEF Attempts
    <3> QED BY <1>0, <1>1, <1>2, <1>11, <3>1 DEF Counting, Unsettled
  <2>3. \A e \in Deliveries : row[e].attempt \in Nat
    BY Types DEF Rows
  <2> QED BY <1>0, <1>8, <1>11, <1>12, <2>1, <2>2, <2>3, Counting_Kept DEF Counting
<1>20. Payloads'
  BY <1>1, <1>2, <1>8, <1>9 DEF Payloads, Unsettled
<1>21. DeadSpentBudget'
  <2>1. ASSUME d \notin Disallowed, row'[d].status = "dead"
        PROVE  row'[d].attempt + faults' >= MaxAttempts
    <3>1. result = "dead" /\ row'[d].attempt = row[d].attempt + 1 /\ faults' = faults
      <4>1. RecordAttempt(d, result, n) /\ UNCHANGED faults
        BY <1>2, <1>4, <2>1 DEF Unsettled
      <4>2. row'[d].attempt = n /\ row'[d].status = IF result = "retrying" THEN "pending" ELSE result
        BY <1>1, <1>2, <1>5, <4>1, RecordedRow
      <4> QED BY <1>3, <2>1, <4>1, <4>2
    <3>2. attempt[w].final
      BY <2>1, <3>1, ResultValues
    <3>3. job[d].left = 1 /\ job[d].left + row[d].attempt + faults >= MaxAttempts
      BY <1>0, <1>1, <1>2, <3>2 DEF HoldsJob, Counting, Unsettled
    <3> QED BY <1>2, <3>1, <3>3
  <2> QED BY <1>0, <1>8, <2>1, BudgetKept
<1> QED BY <1>15, <1>16, <1>17, <1>18, <1>19, <1>20, <1>21 DEF Safe

LEMMA Schedule_Inv ==
  ASSUME Timely, IInv, TypeOK', Roles', NEW d \in Deliveries, Schedule(d) PROVE Safe'
<1> USE DEF IInv
<1>0. UNCHANGED <<queued, row, batch, replay, replays, crashes>> /\ attempt[d].pc = "schedule"
      /\ queued
  BY DEF Schedule, Roles
<1>1. attempt[d].n \in Nat /\ faults \in Nat /\ faults' \in Nat /\ faults <= faults'
      /\ MaxAttempts \in Nat
  BY Types, ActorNames, DeliveriesAssumption DEF Attempts, Bounded, Schedule, Fault
<1>2. \A a \in Actors \ {d} : attempt'[a] = attempt[a]
  BY Types DEF Schedule
<1>3. attempt'[d].pc # "idle" => attempt'[d].pc = "fallback" /\ attempt[d].n > 0
                                 /\ attempt'[d].n = attempt[d].n /\ UNCHANGED job
  BY <1>1, Types, ActorNames DEF Schedule, Idle, Attempts
<1>4. \A e \in Deliveries \ {d} : job'[e] = job[e]
  BY Types DEF Schedule, AddJob
<1>5. job'[d] = job[d] \/ (job'[d].state # "none" => job'[d].left = Remaining(attempt[d].n))
  BY Types DEF Schedule, AddJob
<1>6. \A w \in Workers : attempt'[w] = attempt[w]
  BY <1>2, ActorNames
<1>7. \A e \in Deliveries : job'[e] = job[e] => (Untouched(e)' <=> Untouched(e))
  BY <1>0, <1>6 DEF Untouched, Serves
<1>8. Unborn'
  <2>1. row[d].status # "absent"
    BY <1>0 DEF Unborn
  <2> QED BY <1>0, <1>2, <1>4, <1>7, <2>1, ActorNames DEF Unborn
<1>9. Recording'
  <2>1. ASSUME NEW e \in Deliveries \ {d}, InHand(e)'
        PROVE  InHand(e) /\ attempt'[e] = attempt[e] /\ job'[e] = job[e]
    BY <1>2, <1>4, <2>1, ActorNames DEF InHand
  <2>2. ASSUME InHand(d)'
        PROVE  InHand(d) /\ job'[d] = job[d] /\ attempt'[d].pc = "fallback"
               /\ attempt'[d].n = attempt[d].n
    BY <1>0, <1>3, <2>2 DEF InHand
  <2> QED BY <1>0, <1>7, <2>1, <2>2 DEF Recording, Unsettled, IsFinalAttempt
<1>10. Claiming'
  BY <1>0 DEF Claiming
<1>11. Consuming'
  <2>1. \A w \in Workers, e \in Deliveries :
          attempt[w].pc = "post" /\ attempt[w].d = e => job'[e] = job[e]
    <3>1. \A w \in Workers : attempt[w].pc = "post" /\ attempt[w].d = d => job[d].state # "none"
      BY <1>0 DEF Consuming, HoldsJob
    <3>2. job[d].state # "none" => job' = job
      BY DEF Schedule, AddJob
    <3> QED BY <1>4, <3>1, <3>2
  <2> QED BY <1>0, <1>6, <2>1, Consuming_Kept
<1>12. Counting'
  <2>1. ASSUME row[d].status # "swept", job'[d].state # "none", job'[d] # job[d]
        PROVE  job'[d].left + row'[d].attempt + faults' >= MaxAttempts
    <3>1. attempt[d].n <= row[d].attempt /\ row[d].attempt \in Nat
      BY <1>0, <2>1, Types DEF Counting, Rows
    <3>2. Remaining(attempt[d].n) + attempt[d].n >= MaxAttempts
          /\ Remaining(attempt[d].n) \in Nat
      BY <1>1, RemainingCounts
    <3>3. job'[d].left = Remaining(attempt[d].n)
      BY <1>5, <2>1
    <3> QED BY <1>0, <1>1, <3>1, <3>2, <3>3
  <2>2. \A e \in Deliveries : row[e].attempt \in Nat
    BY Types DEF Rows
  <2>3. \A e \in Deliveries : attempt'[e].pc = "schedule" => attempt'[e] = attempt[e]
    BY <1>2, <1>3, ActorNames
  <2> QED BY <1>0, <1>1, <1>4, <2>1, <2>2, <2>3, Counting_Kept DEF Counting
<1>13. Payloads' /\ DeadSpentBudget'
  <2>1. Payloads'
    BY <1>0 DEF Payloads, Unsettled
  <2>2. DeadSpentBudget'
    <3>1. \A e \in Deliveries : row[e].attempt \in Nat
      BY Types DEF Rows
    <3> QED BY <1>0, <1>1, <3>1 DEF DeadSpentBudget
  <2> QED BY <2>1, <2>2
<1> QED BY <1>8, <1>9, <1>10, <1>11, <1>12, <1>13 DEF Safe

LEMMA Fallback_Inv ==
  ASSUME Timely, IInv, TypeOK', Roles', NEW d \in Deliveries, Fallback(d) PROVE Safe'
<1> USE DEF IInv
<1>0. UNCHANGED <<queued, batch, job, replay, replays, crashes>> /\ attempt[d].pc = "fallback"
      /\ queued
  BY DEF Fallback, Roles
<1>1. faults \in Nat /\ faults' \in Nat /\ faults <= faults'
  BY Types DEF Bounded, Fallback, Fault
<1>2. InHand(d)
  BY <1>0 DEF InHand, Roles
<1>3. Untouched(d) /\ Unsettled(d) /\ row[d].attempt \in Nat
  BY <1>2, Types DEF Recording, Rows
<1>4. /\ \A e \in Deliveries \ {d} : row'[e] = row[e]
      /\ row'[d].status \in {"pending", "delivering"} /\ row'[d].attempt = row[d].attempt
      /\ row'[d].payload = row[d].payload
  <2>1. CASE RecordAttempt(d, "retrying", row[d].attempt)
    BY <1>3, <2>1, RecordedRow
  <2>2. CASE UNCHANGED row
    BY <1>3, <2>2 DEF Unsettled
  <2> QED BY <2>1, <2>2 DEF Fallback
<1>5. (\A a \in Actors \ {d} : attempt'[a] = attempt[a]) /\ attempt'[d].pc = "idle"
  BY Types, ActorNames DEF Fallback, Idle
<1>6. \A w \in Workers : attempt'[w] = attempt[w] /\ ~Serves(w, d)
  BY <1>3, <1>5, ActorNames DEF Untouched
<1>7. \A e \in Deliveries : Untouched(e)' <=> Untouched(e)
  BY <1>0, <1>6 DEF Untouched, Serves
<1>8. Unborn'
  BY <1>4, <1>5, <1>7, ActorNames DEF Unborn
<1>9. Recording'
  <2>1. \A e \in Deliveries : InHand(e)' => InHand(e) /\ e # d /\ attempt'[e] = attempt[e]
    BY <1>5, ActorNames DEF InHand
  <2> QED BY <1>4, <1>7, <2>1 DEF Recording, Unsettled, IsFinalAttempt
<1>10. Claiming'
  BY <1>0 DEF Claiming
<1>11. Consuming'
  BY <1>0, <1>4, <1>6, Consuming_Kept DEF Serves
<1>12. Counting'
  <2>1. \A e \in Deliveries : row[e].attempt \in Nat
    BY Types DEF Rows
  <2>2. \A e \in Deliveries : attempt'[e].pc = "schedule" => attempt'[e] = attempt[e]
    BY <1>5, ActorNames
  <2>3. \A e \in Deliveries : row'[e].attempt = row[e].attempt
    BY <1>4
  <2>4. \A e \in Deliveries : row[e].status = "swept" => row'[e].status = "swept"
    BY <1>3, <1>4 DEF Unsettled
  <2> QED BY <1>0, <1>1, <2>1, <2>2, <2>3, <2>4, Counting_Kept DEF Counting
<1>13. Payloads'
  BY <1>3, <1>4 DEF Payloads, Unsettled
<1>14. DeadSpentBudget'
  BY <1>1, <1>4, BudgetKept
<1> QED BY <1>8, <1>9, <1>10, <1>11, <1>12, <1>13, <1>14 DEF Safe

LEMMA List_Inv ==
  ASSUME Timely, IInv, TypeOK', Roles', NEW w \in Workers, List(w) PROVE Safe'
<1> USE DEF IInv
<1>0. UNCHANGED <<queued, row, attempt, job, replay, replays, faults, crashes>> /\ queued
      /\ batch[w] = {}
  BY DEF List, bounds
<1>1. PICK S \in SUBSET Deliveries :
      Page(S) /\ batch' = [batch EXCEPT ![w] =
         {[d |-> d, n |-> row[d].attempt, full |-> row[d].payload] : d \in S}]
  BY DEF List
<1>2. \A d \in S : row[d].due /\ Unsettled(d)
  BY <1>1 DEF Page, Due, Unsettled
<1>3. /\ \A s \in batch'[w] : s.d \in S /\ s.n = row[s.d].attempt
      /\ \A x \in Workers \ {w} : batch'[x] = batch[x]
  BY <1>1, Types
<1>4. \A d \in Deliveries \ S : Untouched(d) => Untouched(d)'
  BY <1>0, <1>3 DEF Untouched, Serves
<1>5. Unborn'
  BY <1>0, <1>2, <1>4 DEF Unborn, Unsettled
<1>6. Recording'
  BY <1>0, <1>2, <1>4 DEF Recording, InHand, Unsettled, IsFinalAttempt
<1>7. Claiming' /\ Consuming'
  BY <1>0 DEF Claiming, Consuming, HoldsJob, Unsettled
<1>8. Counting'
  <2>1. \A d \in Deliveries : row[d].attempt \in Nat
    BY Types DEF Rows
  <2>2. \A x \in Workers, d \in Deliveries : row[d].status # "swept" =>
          \A s \in batch'[x] : s.d = d => s.n <= row[d].attempt
    <3> SUFFICES ASSUME NEW x \in Workers, NEW d \in Deliveries, row[d].status # "swept",
                        NEW s \in batch'[x], s.d = d
                 PROVE  s.n <= row[d].attempt
      OBVIOUS
    <3>1. CASE x = w
      BY <1>3, <2>1, <3>1
    <3>2. CASE x # w
      BY <1>0, <1>3, <3>2 DEF Counting
    <3> QED BY <3>1, <3>2
  <2> QED BY <1>0, <2>2 DEF Counting
<1>9. Payloads' /\ DeadSpentBudget'
  BY <1>0 DEF Payloads, DeadSpentBudget, Unsettled
<1> QED BY <1>5, <1>6, <1>7, <1>8, <1>9 DEF Safe

LEMMA Reschedule_Inv ==
  ASSUME Timely, IInv, TypeOK', Roles', NEW w \in Workers, Reschedule(w) PROVE Safe'
<1> USE DEF IInv
<1>0. UNCHANGED <<queued, row, attempt, replay, replays, crashes>> /\ queued
  BY DEF Reschedule
<1>1. PICK s \in batch[w] :
      /\ \/ AddJob(s.d, Remaining(s.n)) /\ UNCHANGED faults
         \/ Fault /\ UNCHANGED job
      /\ batch' = [batch EXCEPT ![w] = @ \ {s}]
  BY DEF Reschedule
<1>2. s.d \in Deliveries /\ s.n \in Nat /\ Serves(w, s.d)
  BY Types DEF Entries, Serves
<1>3. faults \in Nat /\ faults' \in Nat /\ faults <= faults' /\ MaxAttempts \in Nat
  BY <1>1, Types, DeliveriesAssumption DEF Bounded, Fault
<1>4. \A x \in Workers : batch'[x] \subseteq batch[x]
  BY <1>1, Types
<1>5. \A e \in Deliveries :
        \/ job'[e] = job[e]
        \/ e = s.d /\ job[e].state = "none" /\ job'[e].left = Remaining(s.n)
  <2>1. CASE UNCHANGED job
    BY <2>1
  <2>2. CASE AddJob(s.d, Remaining(s.n))
    BY <1>2, <2>2, Types DEF AddJob
  <2> QED BY <1>1, <2>1, <2>2
<1>6. \A e \in Deliveries \ {s.d} : Untouched(e) => Untouched(e)'
  BY <1>0, <1>4, <1>5 DEF Untouched, Serves
<1>7. row[s.d].status # "absent" /\ ~InHand(s.d)
  BY <1>2 DEF Unborn, Recording, Untouched
<1>8. Unborn'
  BY <1>0, <1>6, <1>7 DEF Unborn
<1>9. Recording'
  BY <1>0, <1>6, <1>7 DEF Recording, InHand, Unsettled, IsFinalAttempt
<1>10. Claiming'
  BY <1>0 DEF Claiming
<1>11. Consuming'
  <2>1. \A x \in Workers : attempt[x].pc = "post" => job[attempt[x].d].state = "active"
    BY <1>0 DEF Consuming, HoldsJob
  <2> QED BY <1>0, <1>5, <2>1, Consuming_Kept
<1>12. Counting'
  <2>1. \A e \in Deliveries : row[e].attempt \in Nat
    BY Types DEF Rows
  <2>2. ASSUME row[s.d].status # "swept", job'[s.d] # job[s.d]
        PROVE  job'[s.d].left + row'[s.d].attempt + faults' >= MaxAttempts
    <3>1. s.n <= row[s.d].attempt
      BY <1>0, <1>2, <2>2 DEF Counting
    <3>2. Remaining(s.n) + s.n >= MaxAttempts /\ Remaining(s.n) \in Nat
      BY <1>2, RemainingCounts
    <3>3. job'[s.d].left = Remaining(s.n)
      BY <1>2, <1>5, <2>2
    <3> QED BY <1>0, <1>2, <1>3, <2>1, <3>1, <3>2, <3>3
  <2>3. \A e \in Deliveries \ {s.d} : job'[e] = job[e]
    BY <1>5
  <2> QED BY <1>0, <1>3, <1>4, <2>1, <2>2, <2>3, Counting_Kept DEF Counting
<1>13. Payloads' /\ DeadSpentBudget'
  <2>1. Payloads'
    BY <1>0 DEF Payloads, Unsettled
  <2>2. DeadSpentBudget'
    <3>1. \A e \in Deliveries : row[e].attempt \in Nat
      BY Types DEF Rows
    <3> QED BY <1>0, <1>3, <3>1 DEF DeadSpentBudget
  <2> QED BY <2>1, <2>2
<1> QED BY <1>8, <1>9, <1>10, <1>11, <1>12, <1>13 DEF Safe

(* Under Timely only a delivery that was given up is replayed: nobody is at it. *)
LEMMA Replay_Inv ==
  ASSUME Timely, IInv, TypeOK', Roles', NEW d \in Deliveries, Replay(d) PROVE Safe'
<1> USE DEF IInv
<1>0. UNCHANGED <<queued, attempt, batch, job, faults, crashes>>
  BY DEF Replay
<1>1. row[d].status = "dead" /\ row[d].payload
  BY DEF Replay, Timely
<1>2. /\ row'[d].status = "pending" /\ row'[d].attempt = row[d].attempt
      /\ row'[d].payload = row[d].payload
      /\ \A e \in Deliveries \ {d} : row'[e] = row[e]
  BY Types DEF Replay, Rows
<1>3. \A e \in Deliveries : \/ replay'[e] = replay[e]
                            \/ e = d /\ queued /\ replay'[e].n = row[e].attempt
  BY Types DEF Replay
<1>4. ~InHand(d)
  BY <1>1 DEF Recording, Unsettled
<1>5. \A e \in Deliveries \ {d} : Untouched(e)' <=> Untouched(e)
  BY <1>0, <1>3 DEF Untouched, Serves
<1>6. Unborn'
  BY <1>0, <1>2, <1>5 DEF Unborn
<1>7. Recording'
  BY <1>0, <1>2, <1>4, <1>5 DEF Recording, InHand, Unsettled, IsFinalAttempt
<1>8. Claiming'
  <2>1. ~queued => \A w \in Workers : ~Serves(w, d)
    BY <1>1 DEF Claiming, ClaimedRows
  <2>2. ~queued => UNCHANGED replay
    BY DEF Replay
  <2> QED BY <1>0, <1>2, <2>1, <2>2, Claims_Kept DEF Serves
<1>9. Consuming'
  <2>1. \A w \in Workers : queued /\ attempt[w].pc = "post" => attempt[w].d # d
    BY <1>1 DEF Consuming, HoldsJob, Unsettled
  <2> QED BY <1>0, <1>2, <2>1, Consuming_Kept
<1>10. Counting'
  <2>1. \A e \in Deliveries : row[e].attempt \in Nat /\ row'[e].attempt = row[e].attempt
    BY <1>2, Types DEF Rows
  <2>2. \A e \in Deliveries : row[e].status = "swept" => row'[e].status = "swept"
    BY <1>1, <1>2
  <2>3. faults \in Nat
    BY Types DEF Bounded
  <2> QED BY <1>0, <1>3, <2>1, <2>2, <2>3, Counting_Kept DEF Counting
<1>11. Payloads'
  BY <1>1, <1>2 DEF Payloads, Unsettled
<1>12. DeadSpentBudget'
  BY <1>0, <1>2 DEF DeadSpentBudget
<1> QED BY <1>6, <1>7, <1>8, <1>9, <1>10, <1>11, <1>12 DEF Safe

LEMMA ReplayNow_Inv ==
  ASSUME Timely, IInv, TypeOK', Roles', NEW d \in Deliveries, ReplayNow(d) PROVE Safe'
<1> USE DEF IInv
<1>0. UNCHANGED <<queued, row, attempt, batch, replays, crashes>> /\ replay[d].pc = "queue"
      /\ queued
  BY DEF ReplayNow, Claiming
<1>1. replay[d].n \in Nat /\ faults \in Nat /\ faults' \in Nat /\ faults <= faults'
      /\ MaxAttempts \in Nat
  BY Types, DeliveriesAssumption DEF Bounded, ReplayNow, Fault
<1>2. \A e \in Deliveries : job'[e] = job[e]
        \/ (e = d /\ job[e].state # "active" /\ job'[e].left = Remaining(replay[d].n))
  <2>1. CASE UNCHANGED job
    BY <2>1
  <2>2. CASE job' = [job EXCEPT ![d] = [state |-> "waiting", left |-> Remaining(replay[d].n),
                                        by |-> "none"]] /\ job[d].state # "active"
    BY <2>2, Types
  <2> QED BY <2>1, <2>2 DEF ReplayNow
<1>3. /\ \A e \in Deliveries \ {d} : replay'[e] = replay[e]
      /\ replay'[d].pc = "none"
  BY Types DEF ReplayNow, NoReplay
<1>4. row[d].status # "absent" /\ ~InHand(d)
  BY <1>0 DEF Unborn, Recording, Untouched
<1>5. \A e \in Deliveries \ {d} : Untouched(e)' <=> Untouched(e)
  BY <1>0, <1>2, <1>3 DEF Untouched, Serves
<1>6. Unborn'
  BY <1>0, <1>4, <1>5 DEF Unborn
<1>7. Recording'
  BY <1>0, <1>4, <1>5 DEF Recording, InHand, Unsettled, IsFinalAttempt
<1>8. Claiming'
  BY <1>0 DEF Claiming
<1>9. Consuming'
  <2>1. \A w \in Workers : attempt[w].pc = "post" => job[attempt[w].d].state = "active"
    BY <1>0 DEF Consuming, HoldsJob
  <2> QED BY <1>0, <1>2, <2>1, Consuming_Kept
<1>10. Counting'
  <2>1. \A e \in Deliveries : row[e].attempt \in Nat
    BY Types DEF Rows
  <2>2. ASSUME row[d].status # "swept", job'[d] # job[d]
        PROVE  job'[d].left + row'[d].attempt + faults' >= MaxAttempts
    <3>1. replay[d].n <= row[d].attempt
      BY <1>0, <2>2 DEF Counting
    <3>2. Remaining(replay[d].n) + replay[d].n >= MaxAttempts /\ Remaining(replay[d].n) \in Nat
      BY <1>1, RemainingCounts
    <3>3. job'[d].left = Remaining(replay[d].n)
      BY <1>2, <2>2
    <3> QED BY <1>0, <1>1, <2>1, <3>1, <3>2, <3>3
  <2>3. \A e \in Deliveries \ {d} : job'[e] = job[e]
    BY <1>2
  <2> QED BY <1>0, <1>1, <1>3, <2>1, <2>2, <2>3, Counting_Kept DEF Counting
<1>11. Payloads'
  BY <1>0 DEF Payloads, Unsettled
<1>12. DeadSpentBudget'
  <2>1. \A e \in Deliveries : row[e].attempt \in Nat
    BY Types DEF Rows
  <2> QED BY <1>0, <1>1, <2>1 DEF DeadSpentBudget
<1> QED BY <1>6, <1>7, <1>8, <1>9, <1>10, <1>11, <1>12 DEF Safe

(* Under Timely a row becomes due only when nobody has it: leases hold.        *)
LEMMA Elapse_Inv ==
  ASSUME Timely, IInv, TypeOK', Roles', NEW d \in Deliveries, Elapse(d) PROVE Safe'
<1> USE DEF IInv
<1>0. UNCHANGED <<queued, attempt, batch, job, replay, replays, faults, crashes>>
  BY DEF Elapse, bounds
<1>1. /\ row'[d].status = row[d].status /\ row'[d].attempt = row[d].attempt
      /\ row'[d].payload = row[d].payload
      /\ \A e \in Deliveries \ {d} : row'[e] = row[e]
  BY Types DEF Elapse, Rows
<1>2. ~InHand(d)
  <2>1. CASE row[d].status = "pending" /\ attempt[d].pc \notin {"schedule", "fallback"}
    BY <2>1, ActorNames, Types DEF InHand, Recording, Attempts
  <2>2. CASE ~UnderLease(d)
    BY <2>2, ActorNames DEF InHand, UnderLease, Roles
  <2> QED BY <2>1, <2>2 DEF Elapse, Timely
<1>3. ~queued => \A w \in Workers : ~Serves(w, d)
  <2>1. CASE row[d].status = "pending"
    BY <2>1 DEF Claiming, ClaimedRows
  <2>2. CASE ~UnderLease(d)
    BY <2>2, ActorNames DEF UnderLease, Serves
  <2> QED BY <2>1, <2>2 DEF Elapse, Timely
<1>4. \A e \in Deliveries : Untouched(e)' <=> Untouched(e)
  BY <1>0 DEF Untouched, Serves
<1>5. Unborn'
  BY <1>0, <1>1, <1>4 DEF Unborn
<1>6. Recording'
  BY <1>0, <1>1, <1>2, <1>4 DEF Recording, InHand, Unsettled, IsFinalAttempt
<1>7. Claiming'
  BY <1>0, <1>1, <1>3, Claims_Kept DEF Serves
<1>8. Consuming'
  BY <1>0, <1>1 DEF Consuming, HoldsJob, Unsettled, Roles
<1>9. Counting'
  BY <1>0, <1>1 DEF Counting
<1>10. Payloads' /\ DeadSpentBudget'
  BY <1>0, <1>1 DEF Payloads, DeadSpentBudget, Unsettled
<1> QED BY <1>5, <1>6, <1>7, <1>8, <1>9, <1>10 DEF Safe

LEMMA Expire_Inv ==
  ASSUME Timely, IInv, TypeOK', Roles', NEW d \in Deliveries, Expire(d) PROVE Safe'
<1> USE DEF IInv
<1>0. UNCHANGED <<queued, attempt, batch, job, replay, replays, faults, crashes>>
  BY DEF Expire, bounds
<1>1. row[d].status \in {"delivered", "dead"} /\ row'[d].status = "swept"
      /\ \A e \in Deliveries \ {d} : row'[e] = row[e]
  BY Types DEF Expire, NoRow, Settled
<1>2. ~InHand(d)
  BY <1>1 DEF Recording, Unsettled
<1>3. ~queued => \A w \in Workers : ~Serves(w, d)
  BY <1>1 DEF Claiming, ClaimedRows
<1>4. queued => \A w \in Workers : attempt[w].pc = "post" => attempt[w].d # d
  BY <1>1 DEF Consuming, HoldsJob, Unsettled
<1>5. \A e \in Deliveries : Untouched(e)' <=> Untouched(e)
  BY <1>0 DEF Untouched, Serves
<1>6. Unborn'
  BY <1>0, <1>1, <1>5 DEF Unborn
<1>7. Recording'
  BY <1>0, <1>1, <1>2, <1>5 DEF Recording, InHand, Unsettled, IsFinalAttempt
<1>8. Claiming'
  BY <1>0, <1>1, <1>3, Claims_Kept DEF Serves
<1>9. Consuming'
  BY <1>0, <1>1, <1>4, Consuming_Kept
<1>10. Counting'
  BY <1>0, <1>1 DEF Counting
<1>11. Payloads' /\ DeadSpentBudget'
  BY <1>0, <1>1 DEF Payloads, DeadSpentBudget, Unsettled
<1> QED BY <1>6, <1>7, <1>8, <1>9, <1>10, <1>11 DEF Safe

LEMMA Crash_Inv ==
  ASSUME Timely, IInv, TypeOK', Roles', NEW a \in Actors, Crash(a) PROVE Safe'
<1> USE DEF IInv
<1>0. UNCHANGED <<queued, row, job, replay, replays, faults>>
  BY DEF Crash
<1>1. \A b \in Actors : attempt'[b] = attempt[b] \/ attempt'[b].pc = "idle"
  BY Types DEF Crash, Idle
<1>2. \A w \in Workers : batch'[w] \subseteq batch[w]
  BY DEF Crash
<1>3. \A e \in Deliveries : Untouched(e) => Untouched(e)'
  BY <1>0, <1>1, <1>2, ActorNames DEF Untouched, Serves
<1>4. Unborn'
  BY <1>0, <1>1, <1>3, ActorNames DEF Unborn
<1>5. Recording'
  <2>1. \A e \in Deliveries : InHand(e)' => InHand(e) /\ attempt'[e] = attempt[e]
    BY <1>1, ActorNames DEF InHand
  <2> QED BY <1>0, <1>3, <2>1 DEF Recording, Unsettled, IsFinalAttempt
<1>6. Claiming'
  BY <1>0, <1>1, <1>2, ActorNames, Claims_Kept
<1>7. Consuming'
  BY <1>0, <1>1, ActorNames, Consuming_Kept
<1>8. Counting'
  <2>1. \A e \in Deliveries : row[e].attempt \in Nat
    BY Types DEF Rows
  <2>2. \A e \in Deliveries : attempt'[e].pc = "schedule" => attempt'[e] = attempt[e]
    BY <1>1, ActorNames
  <2>3. faults \in Nat
    BY Types DEF Bounded
  <2> QED BY <1>0, <1>2, <2>1, <2>2, <2>3, Counting_Kept DEF Counting
<1>9. Payloads' /\ DeadSpentBudget'
  BY <1>0 DEF Payloads, DeadSpentBudget, Unsettled
<1> QED BY <1>4, <1>5, <1>6, <1>7, <1>8, <1>9 DEF Safe

-----------------------------------------------------------------------------
(* What a step may not do to a delivered row: only retries, sweeps and replays *)
(* write it, and none of them has it.                                        *)
LEMMA StepKeepsDelivered ==
  ASSUME Timely, IInv, [Next]_vars, NEW d \in Deliveries, row[d].status = "delivered"
  PROVE  row'[d].status \in {"delivered", "swept"}
<1> USE DEF IInv
<1>1. ASSUME NEW a \in Actors, Record(a) PROVE row'[d] = row[d]
  <2>1. attempt[a].pc = "post" /\ attempt[a].d \in Deliveries
    BY <1>1, ActorNames DEF Record, Roles
  <2>2. attempt[a].d # d
    <3>1. CASE a \in Deliveries
      BY <2>1, <3>1 DEF Roles, InHand, Recording, Unsettled
    <3>2. CASE a \in Workers /\ ~queued
      BY <2>1, <3>2 DEF Claiming, ClaimedRows, Serves
    <3> QED BY <1>1, <3>1, <3>2, ActorNames DEF Record
  <2> QED BY <1>1, <2>1, <2>2, Types DEF Record, RecordAttempt
<1>2. ASSUME NEW a \in Actors, RecordAndAnswer(a) PROVE row'[d] = row[d]
  <2>1. attempt[a].d \in Deliveries /\ attempt[a].d # d
    BY <1>2 DEF RecordAndAnswer, Roles, Consuming, HoldsJob, Unsettled
  <2> QED BY <1>2, <2>1, Types DEF RecordAndAnswer, RecordAttempt
<1>3. ASSUME NEW e \in Deliveries, Fallback(e) PROVE row'[d] = row[d]
  <2>1. e # d
    BY <1>3 DEF Fallback, Roles, InHand, Recording, Unsettled
  <2> QED BY <1>3, <2>1, Types DEF Fallback, RecordAttempt
<1>4. ASSUME NEW w \in Workers, Claim(w) PROVE row'[d] = row[d]
  <2>0. PICK S \in SUBSET Deliveries :
        /\ Page(S)
        /\ row' = [e \in Deliveries |->
             IF e \in S THEN [row[e] EXCEPT !.status = "delivering", !.attempt = @ + 1, !.due = FALSE]
             ELSE row[e]]
    BY <1>4 DEF Claim
  <2>1. d \notin S
    BY <2>0 DEF Page, Due
  <2> QED BY <2>0, <2>1
<1>5. ASSUME NEW e \in Deliveries, InsertClaimed(e) \/ InsertDue(e) \/ Replay(e) PROVE row'[d] = row[d]
  <2>1. e # d
    BY <1>5 DEF InsertClaimed, InsertDue, Replay, Timely
  <2> QED BY <1>5, <2>1, Types DEF InsertClaimed, InsertDue, Replay
<1>6. ASSUME NEW e \in Deliveries, Elapse(e) PROVE row'[d].status = row[d].status
  BY <1>6, Types DEF Elapse, Rows
<1>7. ASSUME NEW e \in Deliveries, Expire(e) PROVE row'[d] = row[d] \/ row'[d].status = "swept"
  BY <1>7, Types DEF Expire, NoRow
<1>8. ASSUME UNCHANGED row PROVE row'[d] = row[d]
  BY <1>8
<1>9. CASE \E a \in Actors : EndAttempt(a) \/ Crash(a)
  BY <1>1, <1>2, <1>8, <1>9 DEF EndAttempt, Crash
<1>10. CASE \E e \in Deliveries : \/ InsertClaimed(e) \/ InsertDue(e) \/ HandOver(e) \/ Clock(e)
                                  \/ Replay(e) \/ Expire(e)
  BY <1>3, <1>5, <1>6, <1>7, <1>8, <1>10 DEF HandOver, Clock, Schedule, ReplayNow, Stall
<1>11. CASE \E w \in Workers : Tick(w) \/ \E e \in Deliveries : Take(w, e)
  BY <1>4, <1>8, <1>11 DEF Tick, NextInBatch, List, Reschedule, Take
<1> QED BY <1>8, <1>9, <1>10, <1>11 DEF Next, vars

-----------------------------------------------------------------------------
LEMMA InitInv ==
  ASSUME Init PROVE IInv
<1> USE DEF Init, Idle, NoRow, NoJob, NoReplay
<1>1. TypeOK
  <2>1. row \in [Deliveries -> Rows]
    BY DEF Rows
  <2>2. attempt \in [Actors -> Attempts]
    BY DEF Attempts
  <2>3. job \in [Deliveries -> Jobs] /\ batch \in [Workers -> SUBSET Entries]
    BY DEF Jobs
  <2> QED BY <2>1, <2>2, <2>3, Types, DeliveriesAssumption DEF Bounded
<1>2. Roles
  BY ActorNames DEF Roles
<1>3. \A w \in Workers, d \in Deliveries : ~Serves(w, d)
  BY ActorNames DEF Serves
<1>4. Unborn /\ Recording
  BY <1>3, ActorNames DEF Unborn, Recording, Untouched, InHand
<1>5. Claiming
  BY <1>3, ActorNames DEF Claiming, ClaimedRows, ClaimsUnique, ClaimedCounts
<1>6. Consuming /\ Counting
  BY ActorNames DEF Consuming, Counting
<1>7. Payloads /\ DeadSpentBudget
  BY DEF Payloads, DeadSpentBudget, Unsettled
<1> QED BY <1>1, <1>2, <1>4, <1>5, <1>6, <1>7 DEF IInv

(* Every action keeps the types, whatever leases and operators do.            *)
LEMMA NextTypes ==
  ASSUME TypeOK, Roles, [Next]_vars PROVE TypeOK' /\ Roles'
<1>1. ASSUME NEW a \in Actors, EndAttempt(a) \/ Crash(a) PROVE TypeOK' /\ Roles'
  BY <1>1, Record_Type, RecordAndAnswer_Type, Crash_Type DEF EndAttempt, RecordAndAnswer
<1>2. ASSUME NEW d \in Deliveries,
             \/ InsertClaimed(d) \/ InsertDue(d) \/ HandOver(d) \/ Clock(d)
             \/ Replay(d) \/ Expire(d)
      PROVE  TypeOK' /\ Roles'
  BY <1>2, InsertClaimed_Type, InsertDue_Type, Schedule_Type, Fallback_Type, ReplayNow_Type,
     Clock_Type, Stall_Type, Replay_Type DEF HandOver, Clock
<1>3. ASSUME NEW w \in Workers, Tick(w) PROVE TypeOK' /\ Roles'
  BY <1>3, Claim_Type, NextInBatch_Type, List_Type, Reschedule_Type DEF Tick
<1>4. ASSUME NEW w \in Workers, NEW d \in Deliveries, Take(w, d) PROVE TypeOK' /\ Roles'
  BY <1>4, Take_Type
<1>5. CASE UNCHANGED vars
  BY <1>5, Types, Types_next DEF vars, bounds, Bounded, Roles
<1> QED BY <1>1, <1>2, <1>3, <1>4, <1>5 DEF Next

LEMMA NextInv ==
  ASSUME Timely, IInv, [Next]_vars PROVE IInv'
<1>1. TypeOK' /\ Roles'
  BY NextTypes DEF IInv
<1>2. ASSUME NEW a \in Actors, EndAttempt(a) \/ Crash(a) PROVE Safe'
  <2>1. CASE Record(a)
    BY <1>1, <2>1, ActorNames, Record_Recorder_Inv, Record_Worker_Inv
  <2>2. CASE RecordAndAnswer(a)
    BY <1>1, <2>2, RecordAndAnswer_Inv DEF RecordAndAnswer
  <2> QED BY <1>1, <1>2, <2>1, <2>2, Crash_Inv DEF EndAttempt
<1>3. ASSUME NEW d \in Deliveries,
             \/ InsertClaimed(d) \/ InsertDue(d) \/ HandOver(d) \/ Clock(d)
             \/ Replay(d) \/ Expire(d)
      PROVE  Safe'
  BY <1>1, <1>3, InsertClaimed_Inv, InsertDue_Inv, Schedule_Inv, Fallback_Inv, ReplayNow_Inv,
     Elapse_Inv, Expire_Inv, Stall_Inv, Replay_Inv DEF HandOver, Clock
<1>4. ASSUME NEW w \in Workers, Tick(w) PROVE Safe'
  BY <1>1, <1>4, Claim_Inv, NextInBatch_Inv, List_Inv, Reschedule_Inv DEF Tick
<1>5. ASSUME NEW w \in Workers, NEW d \in Deliveries, Take(w, d) PROVE Safe'
  BY <1>1, <1>5, Take_Inv
<1>6. ASSUME UNCHANGED vars PROVE Safe'
  <2> USE DEF IInv
  <2>1. UNCHANGED <<queued, row, attempt, batch, job, replay, faults>>
    BY <1>6 DEF vars, bounds
  <2>2. \A d \in Deliveries : Untouched(d)' <=> Untouched(d)
    BY <2>1 DEF Untouched, Serves
  <2>3. Unborn' /\ Recording'
    BY <2>1, <2>2 DEF Unborn, Recording, InHand, Unsettled, IsFinalAttempt
  <2>4. Claiming'
    BY <2>1, Claims_Kept
  <2>5. Consuming'
    BY <2>1, Consuming_Kept
  <2>6. Counting'
    BY <2>1 DEF Counting
  <2>7. Payloads' /\ DeadSpentBudget'
    BY <2>1 DEF Payloads, DeadSpentBudget, Unsettled
  <2> QED BY <2>3, <2>4, <2>5, <2>6, <2>7 DEF Safe
<1>7. Safe'
  <2>1. CASE \E a \in Actors : EndAttempt(a) \/ Crash(a)
    BY <1>2, <2>1
  <2>2. CASE \E d \in Deliveries : \/ InsertClaimed(d) \/ InsertDue(d) \/ HandOver(d) \/ Clock(d)
                                   \/ Replay(d) \/ Expire(d)
    BY <1>3, <2>2
  <2>3. CASE \E w \in Workers : Tick(w) \/ \E d \in Deliveries : Take(w, d)
    BY <1>4, <1>5, <2>3
  <2> QED BY <1>6, <2>1, <2>2, <2>3 DEF Next
<1> QED BY <1>1, <1>7 DEF IInv, Safe

-----------------------------------------------------------------------------
(* Rows, attempts, batches, jobs and replays keep their shapes in every        *)
(* deployment, whether or not attempts outlive their leases: claimDue,         *)
(* recordAttempt, processDelivery, schedule and sweep write nothing else, and   *)
(* a job never has fewer than one attempt left, or more than are configured    *)
(* (remainingQueueAttempts).                                                 *)
THEOREM TypesKept == Spec => []TypeOK
<1>1. Init => TypeOK /\ Roles
  BY InitInv DEF IInv
<1>2. TypeOK /\ Roles /\ [Next]_vars => TypeOK' /\ Roles'
  BY NextTypes
<1> QED BY <1>1, <1>2, PTL DEF Spec

(* The inductive invariant: whoever attempts a delivery owns it, by its claim   *)
(* (claimDue), by the queue's active job, or as the run that recorded it.      *)
THEOREM OwnershipInvariant == ASSUME Timely PROVE Spec => []IInv
<1>1. Init => IInv
  BY InitInv
<1>2. IInv /\ [Next]_vars => IInv'
  BY NextInv
<1> QED BY <1>1, <1>2, PTL DEF Spec

(* Where leases outlast attempts, no two actors attempt one delivery at once,   *)
(* in either deployment (claimDue, the queue's one job per delivery).         *)
THEOREM AttemptsAreExclusive == ASSUME Timely PROVE Spec => []OneAttemptAtATime
<1>1. IInv => OneAttemptAtATime
  <2> SUFFICES ASSUME IInv, NEW a \in Actors, NEW b \in Actors, a # b,
                      attempt[a].pc = "post", attempt[b].pc = "post",
                      attempt[a].d = attempt[b].d
               PROVE  FALSE
    BY DEF OneAttemptAtATime
  <2> USE DEF IInv
  <2>1. CASE a \in Workers /\ b \in Workers
    <3>1. attempt[a].d \in Deliveries /\ Serves(a, attempt[a].d) /\ Serves(b, attempt[a].d)
      BY <2>1 DEF Roles, Serves
    <3>2. CASE queued
      BY <2>1, <3>2 DEF Consuming, HoldsJob
    <3>3. CASE ~queued
      BY <2>1, <3>1, <3>3 DEF Claiming, ClaimsUnique
    <3> QED BY <3>2, <3>3
  <2>2. ASSUME NEW d \in Deliveries, NEW w \in Workers,
               attempt[d].pc = "post", attempt[w].pc = "post", attempt[d].d = attempt[w].d
        PROVE  FALSE
    <3>1. InHand(d) /\ attempt[d].d = d
      BY <2>2 DEF InHand, Roles
    <3>2. Serves(w, d)
      BY <2>2, <3>1 DEF Serves
    <3> QED BY <3>1, <3>2 DEF Recording, Untouched
  <2>3. CASE a \in Deliveries /\ b \in Deliveries
    BY <2>3 DEF Roles
  <2> QED BY <2>1, <2>2, <2>3, ActorNames
<1> QED BY <1>1, OwnershipInvariant, PTL

(* Nothing is sent once its payload is cleared: a claim and a reread see rows   *)
(* that are not settled, and only recordAttempt of a delivered row clears it.   *)
THEOREM PayloadsAreSent == ASSUME Timely PROVE Spec => []NothingEmptySent
<1>1. IInv => NothingEmptySent
  <2> SUFFICES ASSUME IInv, NEW a \in Actors, attempt[a].pc = "post"
               PROVE  attempt[a].full
    BY DEF NothingEmptySent
  <2> USE DEF IInv
  <2>1. CASE a \in Deliveries
    BY <2>1 DEF Roles, InHand, Recording
  <2>2. CASE a \in Workers
    BY <2>2 DEF Claiming, ClaimedCounts, Consuming, HoldsJob
  <2> QED BY <2>1, <2>2, ActorNames
<1> QED BY <1>1, OwnershipInvariant, PTL

(* A delivery is dead only after its configured attempts, less one for each     *)
(* call that failed: a row's count and its job's attempts left always add up    *)
(* (recordAttempt, remainingQueueAttempts, isFinalAttempt).                    *)
THEOREM DeadSpentTheirBudget == ASSUME Timely PROVE Spec => []DeadSpentBudget
<1>1. IInv => DeadSpentBudget
  BY DEF IInv
<1> QED BY <1>1, OwnershipInvariant, PTL

(* A delivered row is written by nothing but the retention sweep: every         *)
(* recordAttempt and fallback is about a row that is still unsettled.          *)
THEOREM DeliveredStaysDelivered == ASSUME Timely PROVE Spec => DeliveredIsFinal
<1>1. IInv /\ [Next]_vars =>
        [\A d \in Deliveries : row[d].status = "delivered" =>
                               row'[d].status \in {"delivered", "swept"}]_vars
  BY StepKeepsDelivered
<1> QED BY <1>1, OwnershipInvariant, PTL DEF Spec, DeliveredIsFinal
=============================================================================
