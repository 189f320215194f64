----------------------------- MODULE RedisRunQueue -----------------------------
(***************************************************************************)
(* The run queue of several instances: BullMQ jobs that any worker may take,  *)
(* and beside them, in Redis, the order in which the runs of a thread may go  *)
(* (redis-run-partitions.ts). A delivered run registers; only the head of its *)
(* thread goes on to the worker, a follower is parked for a minute and        *)
(* promoted once it is the head. Workers may die, or lose their job to        *)
(* another while they go on, between any two calls.                          *)
(***************************************************************************)
EXTENDS RunJobs, SequencesExt

CONSTANTS Sweepers,  \* the one-second timers, one for each instance
          Retried,   \* the runs whose jobs ask for more than one attempt
          Attempts   \* how many they ask for

ASSUME QueueAssumption ==
  /\ Attempts \in Nat \ {0} /\ Retried \subseteq Runs /\ Sweepers \cap (Slots \cup Requests) = {}
  /\ "none" \notin Slots /\ IsFiniteSet(Slots \cup Sweepers)

VARIABLES
  job,      \* job[r]: its BullMQ state, the slot that holds its lock, the start it is
            \* delayed after, how often it failed, and whether it stalled
  part,     \* part[th]: the registered runs of th, in the order of their registration
  marker,   \* marker[r]: the start of r whose parking is recorded, or 0
  disp,     \* disp[s]: where slot s is in dispatchRun, and the start it serves
  recon,    \* recon[c]: the advance under way in slot or sweeper c
  arrived,  \* history: the runs in the order of their first registration
  failed,   \* history: the runs whose job BullMQ failed and removed
  cancelled, \* history: the runs a cancel was written for
  overdue   \* history: the advances that found a run parked in a start whose minute has
            \* ended since, or that such an advance promoted

queue == <<job, part, marker, disp, recon, arrived, failed, cancelled, overdue>>
vars == <<jobs, queue>>

Reconcilers == Slots \cup Sweepers
Native == {"after", "busy", "backoff"}
JobStates == {"none", "wait", "active", "parked"} \cup Native
NoJob == [state |-> "none", by |-> "none", at |-> 0, failures |-> 0, stalled |-> FALSE]
NoDispatch == [pc |-> "idle", at |-> 0]
NoAdvance == [pc |-> "idle", thread |-> 0, run |-> 0, at |-> 0]

QueueInit ==
  /\ job = [r \in Runs |-> NoJob]
  /\ part = [th \in Homes |-> <<>>]
  /\ marker = [r \in Runs |-> 0]
  /\ disp = [s \in Slots |-> NoDispatch]
  /\ recon = [c \in Reconcilers |-> NoAdvance]
  /\ arrived = <<>> /\ failed = {} /\ cancelled = {} /\ overdue = {}

QueueTypeOK ==
  /\ job \in [Runs -> [state: JobStates, by: Slots \cup {"none", "dead"}, at: Nat,
                       failures: 0..Attempts - 1, stalled: BOOLEAN]]
  /\ part \in [Homes -> Seq(Runs)] /\ \A th \in Homes : IsInjective(part[th])
  /\ marker \in [Runs -> Nat]
  /\ disp \in [Slots -> [pc: {"idle", "register", "work", "park", "mark", "advance"}, at: Nat]]
  /\ recon \in [Reconcilers -> [pc: {"idle", "look", "remove", "take", "promote"},
                               thread: Homes \cup {0}, run: Runs \cup {0}, at: Nat]]
  /\ failed \subseteq Runs /\ cancelled \subseteq Runs /\ overdue \subseteq Reconcilers
  /\ arrived \in Seq(Runs) /\ IsInjective(arrived)

-----------------------------------------------------------------------------
(* BullMQ: what the code relies on.                                          *)
Moved(r, state, at) == [job EXCEPT ![r].state = state, ![r].by = "none", ![r].at = at]
Holds(s) == job[worker[s].run].state = "active" /\ job[worker[s].run].by = s

(* add with a job id is refused while a job of that id is there.             *)
Add(r, state) ==
  job' = IF job[r].state = "none" THEN [job EXCEPT ![r] = [NoJob EXCEPT !.state = state]] ELSE job

(* A failed job is retried, at once or after the backoff of an older job, or  *)
(* it is removed.                                                           *)
FailJob(r, at) ==
  IF r \in Retried /\ job[r].failures + 1 < Attempts
  THEN /\ \E state \in {"wait", "backoff"} :
            job' = [Moved(r, state, IF state = "wait" THEN 0 ELSE at) EXCEPT ![r].failures = @ + 1]
       /\ UNCHANGED failed
  ELSE /\ job' = [job EXCEPT ![r] = NoJob]
       /\ failed' = failed \cup {r}

(* The timers of the delayed set; an advance may be between its look at a       *)
(* parked job and the promotion when the minute ends.                         *)
Watching(r) ==
  {c \in Reconcilers : /\ recon[c].pc \in {"take", "promote"} /\ recon[c].run = r
                       /\ job[r].state = "parked" /\ job[r].at = recon[c].at}

Timer(r) ==
  /\ job[r].state \in Native \cup {"parked"}
  /\ job' = Moved(r, "wait", 0)
  /\ overdue' = overdue \cup Watching(r)
  /\ UNCHANGED <<part, marker, disp, recon, arrived, failed, cancelled>> /\ UNCHANGED jobs

(* A job whose worker died is taken up again, once.                          *)
Stalled(r) ==
  /\ job[r].state = "active" /\ job[r].by = "dead"
  /\ IF job[r].stalled THEN job' = [job EXCEPT ![r] = NoJob] /\ failed' = failed \cup {r}
     ELSE job' = [Moved(r, "wait", 0) EXCEPT ![r].stalled = TRUE] /\ UNCHANGED failed
  /\ UNCHANGED <<part, marker, disp, recon, arrived, cancelled, overdue>> /\ UNCHANGED jobs

-----------------------------------------------------------------------------
(* A service inserts and enqueues a background run, perhaps for later.        *)
Submit(r, th) ==
  /\ IsNext(r) /\ row' = Inserted(r, th, 0, 0)
  /\ \E state \in {"wait", "after"} : Add(r, state)
  /\ UNCHANGED <<part, marker, disp, recon, arrived, failed>>
  /\ UNCHANGED <<lease, worker, started, trouble, cancelled, overdue>>

(* A recovery sweep enqueues a pending background run again, which takes effect *)
(* once its job is gone.                                                     *)
Resubmit(r) ==
  /\ Pending(r) /\ r \in failed
  /\ Add(r, "wait")
  /\ UNCHANGED <<part, marker, disp, recon, arrived, failed, cancelled, overdue>> /\ UNCHANGED jobs

(* A cancel writes the row of a run that is not over; its job stays, and who    *)
(* executes it finds out at the next read of the row, or not at all.            *)
Cancel(r) ==
  /\ ~Finished(r) /\ Trouble
  /\ row' = [row EXCEPT ![r].status = "done"]
  /\ cancelled' = cancelled \cup {r}
  /\ UNCHANGED <<job, part, marker, disp, recon, arrived, failed, overdue>>
  /\ UNCHANGED <<lease, worker, started>>

-----------------------------------------------------------------------------
(* dispatchRun.                                                             *)
PartOf(r) == part[row[r].thread]
HeadOf(th) == IF part[th] = <<>> THEN 0 ELSE Head(part[th])
Goto(s, pc) == [disp EXCEPT ![s].pc = pc]

(* A start of a job counts up attemptsStarted. Only the order of the numbers   *)
(* still kept somewhere matters: a start renumbers them from 1.               *)
Kept(r) == ({marker[r]} \cup {disp[s].at : s \in {z \in Slots : worker[z].run = r}}
             \cup {recon[c].at : c \in {z \in Reconcilers : recon[z].run = r}}) \ {0}
Rank(r, at) == Cardinality({n \in Kept(r) : n <= at})
NextStart(r) == Cardinality(Kept(r)) + 1

Take(s, r) ==
  /\ disp[s].pc = "idle" /\ job[r].state = "wait"
  /\ job' = [job EXCEPT ![r].state = "active", ![r].by = s]
  /\ worker' = [worker EXCEPT ![s].run = r]
  /\ disp' = [z \in Slots |-> IF z = s THEN [pc |-> "register", at |-> NextStart(r)]
                             ELSE IF worker[z].run = r THEN [disp[z] EXCEPT !.at = Rank(r, @)]
                             ELSE disp[z]]
  /\ recon' = [c \in Reconcilers |-> IF recon[c].run = r THEN [recon[c] EXCEPT !.at = Rank(r, @)]
                                    ELSE recon[c]]
  /\ marker' = [marker EXCEPT ![r] = Rank(r, @)]
  /\ UNCHANGED <<part, arrived, failed, row, lease, started, trouble, cancelled, overdue>>

(* REGISTER: keep the place the run has, else take the last; a head that is   *)
(* delivered needs no promotion.                                            *)
Registered(r) == IF Contains(PartOf(r), r) THEN PartOf(r) ELSE Append(PartOf(r), r)

Unmarked(r) == [marker EXCEPT ![r] = 0]

Register(s) ==
  /\ disp[s].pc = "register"
  /\ LET r == worker[s].run
         isHead == Head(Registered(r)) = r
     IN /\ part' = [part EXCEPT ![row[r].thread] = Registered(r)]
        /\ marker' = IF isHead THEN Unmarked(r) ELSE marker
        /\ arrived' = IF Contains(arrived, r) THEN arrived ELSE Append(arrived, r)
        /\ disp' = Goto(s, IF isHead THEN "work" ELSE "park")
        /\ worker' = IF isHead THEN Stepped(s, "read") ELSE worker
  /\ UNCHANGED <<job, recon, failed, row, lease, started, trouble, cancelled, overdue>>

Leave(s) ==
  /\ disp' = [disp EXCEPT ![s] = NoDispatch]
  /\ worker' = [worker EXCEPT ![s] = Idle]

(* A follower waits a minute; without the job's lock the move fails.          *)
Park(s) ==
  /\ disp[s].pc = "park"
  /\ IF Holds(s) THEN /\ job' = Moved(worker[s].run, "parked", disp[s].at)
                      /\ disp' = Goto(s, "mark") /\ UNCHANGED worker
     ELSE Leave(s) /\ UNCHANGED job
  /\ UNCHANGED <<part, marker, recon, arrived, failed, row, lease, started, trouble, cancelled, overdue>>

(* RECORD_PARKED: the start that was parked, unless a later one is known or    *)
(* the run left; the write may fail.                                        *)
RecordParked(s) ==
  /\ disp[s].pc = "mark"
  /\ LET r == worker[s].run IN
     \/ /\ marker' = IF Contains(PartOf(r), r) /\ marker[r] <= disp[s].at
                     THEN [marker EXCEPT ![r] = disp[s].at] ELSE marker
        /\ UNCHANGED trouble
     \/ Trouble /\ UNCHANGED marker
  /\ Leave(s)
  /\ UNCHANGED <<job, part, recon, arrived, failed, row, lease, started, cancelled, overdue>>

(* The worker's answer: a busy head waits 50 ms, a failed one is BullMQ's.     *)
Defer(s) ==
  /\ disp[s].pc = "work" /\ worker[s].pc = "busy"
  /\ job' = IF Holds(s) THEN Moved(worker[s].run, "busy", disp[s].at) ELSE job
  /\ Leave(s)
  /\ UNCHANGED <<part, marker, recon, arrived, failed, row, lease, started, trouble, cancelled, overdue>>

(* A call of dispatchRun that fails counts as a failure of the processor.     *)
Fail(s) ==
  /\ \/ disp[s].pc = "work" /\ worker[s].pc = "thrown" /\ UNCHANGED trouble
     \/ disp[s].pc \in {"register", "park"} /\ Trouble
     \/ disp[s].pc = "work" /\ worker[s].pc \in {"busy", "handled"} /\ Trouble
  /\ IF Holds(s) THEN FailJob(worker[s].run, disp[s].at) ELSE UNCHANGED <<job, failed>>
  /\ Leave(s)
  /\ UNCHANGED <<part, marker, recon, arrived, row, lease, started, cancelled, overdue>>

(* REMOVE, then look for the next head.                                     *)
Advancing(th) == [NoAdvance EXCEPT !.pc = "look", !.thread = th]
Removed(r) == [part EXCEPT ![row[r].thread] = RemoveFirst(@, r)]

Handled(s) ==
  /\ disp[s].pc = "work" /\ worker[s].pc = "handled"
  /\ LET r == worker[s].run IN
     /\ part' = Removed(r) /\ marker' = Unmarked(r)
     /\ recon' = [recon EXCEPT ![s] = Advancing(row[r].thread)]
  /\ disp' = Goto(s, "advance")
  /\ UNCHANGED <<job, arrived, failed, cancelled, overdue>> /\ UNCHANGED jobs

(* The processor returns once its advance is over or has failed.              *)
Complete(s) ==
  /\ disp[s].pc = "advance" /\ recon[s].pc = "idle"
  /\ job' = IF Holds(s) THEN [job EXCEPT ![worker[s].run] = NoJob] ELSE job
  /\ Leave(s)
  /\ UNCHANGED <<part, marker, recon, arrived, failed, row, lease, started, trouble, cancelled, overdue>>

-----------------------------------------------------------------------------
(* advance: look at the head; a job that is gone is removed and the next one  *)
(* looked at; a parked one is promoted by whoever takes its marker.          *)
Sweep(c, th) ==
  /\ c \in Sweepers /\ recon[c].pc = "idle" /\ part[th] # <<>>
  /\ recon' = [recon EXCEPT ![c] = Advancing(th)]
  /\ UNCHANGED <<job, part, marker, disp, arrived, failed, cancelled, overdue>> /\ UNCHANGED jobs

Gone_Never(r) == FALSE
Gone_Retrying(r) == job[r].state \in {"none", "backoff"}
Gone(r) == job[r].state = "none"
Delayed(r) == job[r].state \in {"parked"} \cup Native
Look(c) ==
  /\ recon[c].pc = "look"
  /\ LET h == HeadOf(recon[c].thread) IN
     recon' = [recon EXCEPT ![c] =
       IF h = 0 THEN NoAdvance
       ELSE IF Gone(h) THEN [@ EXCEPT !.pc = "remove", !.run = h]
       ELSE IF Delayed(h) THEN [@ EXCEPT !.pc = "take", !.run = h, !.at = job[h].at]
       ELSE NoAdvance]
  /\ UNCHANGED <<job, part, marker, disp, arrived, failed, cancelled, overdue>> /\ UNCHANGED jobs

RemoveGone(c) ==
  /\ recon[c].pc = "remove"
  /\ LET r == recon[c].run IN part' = Removed(r) /\ marker' = Unmarked(r)
  /\ recon' = [recon EXCEPT ![c] = Advancing(recon[c].thread)]
  /\ UNCHANGED <<job, disp, arrived, failed, cancelled, overdue>> /\ UNCHANGED jobs

(* TAKE_PARKED: only the start that was parked, and only once.               *)
Parked_Any(c) == marker[recon[c].run] # 0
Parked(c) == marker[recon[c].run] = recon[c].at

TakeParked(c) ==
  /\ recon[c].pc = "take"
  /\ IF Parked(c) THEN /\ marker' = Unmarked(recon[c].run)
                       /\ recon' = [recon EXCEPT ![c].pc = "promote"]
                       /\ UNCHANGED overdue
     ELSE recon' = [recon EXCEPT ![c] = NoAdvance] /\ overdue' = overdue \ {c} /\ UNCHANGED marker
  /\ UNCHANGED <<job, part, disp, arrived, failed, cancelled>> /\ UNCHANGED jobs

Promote(c) ==
  /\ recon[c].pc = "promote"
  /\ LET r == recon[c].run IN
     /\ job' = IF Delayed(r) THEN Moved(r, "wait", 0) ELSE job
     /\ overdue' = (IF c \in overdue THEN overdue \cup Watching(r) ELSE overdue) \ {c}
  /\ recon' = [recon EXCEPT ![c] = NoAdvance]
  /\ UNCHANGED <<part, marker, disp, arrived, failed, cancelled>> /\ UNCHANGED jobs

(* A failing call ends the advance.                                         *)
AdvanceFails(c) ==
  /\ recon[c].pc # "idle" /\ Trouble
  /\ recon' = [recon EXCEPT ![c] = NoAdvance] /\ overdue' = overdue \ {c}
  /\ UNCHANGED <<job, part, marker, disp, arrived, failed, row, lease, worker, started, cancelled>>

Advance(c) == Look(c) \/ RemoveGone(c) \/ TakeParked(c) \/ Promote(c)

-----------------------------------------------------------------------------
(* An instance dies with its slot or its sweeper; its jobs stall.             *)
Crash(c) ==
  /\ Trouble
  /\ IF c \in Slots
     THEN /\ disp[c].pc # "idle"
          /\ worker' = Died({c}) /\ lease' = Abandoned({c})
          /\ disp' = [disp EXCEPT ![c] = NoDispatch]
          /\ job' = [r \in Runs |-> IF job[r].by = c THEN [job[r] EXCEPT !.by = "dead"] ELSE job[r]]
     ELSE recon[c].pc # "idle" /\ UNCHANGED <<worker, lease, disp, job>>
  /\ recon' = [recon EXCEPT ![c] = NoAdvance] /\ overdue' = overdue \ {c}
  /\ UNCHANGED <<part, marker, arrived, failed, row, started, cancelled>>

(* A slot that cannot renew its lock loses the job, and works on.             *)
LoseLock(s) ==
  /\ disp[s].pc # "idle" /\ Holds(s) /\ Trouble
  /\ job' = [job EXCEPT ![worker[s].run].by = "dead"]
  /\ UNCHANGED <<part, marker, disp, recon, arrived, failed, row, lease, worker, started, cancelled, overdue>>
=============================================================================
