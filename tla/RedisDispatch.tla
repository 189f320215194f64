----------------------------- MODULE RedisDispatch -----------------------------
(***************************************************************************)
(* Several instances over one Redis: services submit runs, the slots of all   *)
(* workers take and execute them, requests execute runs of their own on the   *)
(* same threads, sweepers put right what a dead worker left behind.           *)
(***************************************************************************)
EXTENDS RedisRunQueue

Init == JobsInit /\ QueueInit

Work(p) == Execute(p) /\ UNCHANGED queue
Dispatch(s) ==
  \/ Register(s) \/ Park(s) \/ RecordParked(s) \/ Defer(s) \/ Fail(s)
  \/ Handled(s) \/ Complete(s)

Next ==
  \/ \E s \in Slots, r \in Runs : Take(s, r)
  \/ \E r \in Runs : Timer(r) \/ Stalled(r) \/ Resubmit(r) \/ Cancel(r)
  \/ \E r \in Runs, th \in Homes : \/ Submit(r, th)
                                   \/ \E q \in Requests : Request(q, r, th) /\ UNCHANGED queue
  \/ \E p \in Processes : Work(p)
  \/ \E s \in Slots : Dispatch(s) \/ LoseLock(s) \/ ((Throw(s) \/ SettleFails(s)) /\ UNCHANGED queue)
  \/ \E c \in Reconcilers : Advance(c) \/ AdvanceFails(c) \/ Crash(c)
  \/ \E c \in Sweepers, th \in Homes : Sweep(c, th)

Spec == Init /\ [][Next]_vars

(* BullMQ's timers fire, its stalled check runs, and its waiting list is first *)
(* in first out, so that no waiting job is passed over for ever; what a slot   *)
(* or a sweeper has begun goes on.                                           *)
FairSpec ==
  /\ Spec
  /\ \A r \in Runs : /\ WF_vars(Timer(r)) /\ WF_vars(Stalled(r))
                    /\ SF_vars(\E s \in Slots : Take(s, r))
  /\ \A q \in Requests : WF_vars(Work(q))
  /\ \A s \in Slots : WF_vars(Work(s) \/ Dispatch(s) \/ Advance(s))
  /\ \A c \in Sweepers : WF_vars(Advance(c)) /\ \A th \in Homes : SF_vars(Sweep(c, th))

-----------------------------------------------------------------------------
TypeOK == JobsTypeOK /\ QueueTypeOK

(* The runs of a thread start in the order in which they registered: a run    *)
(* that is still to be executed, that nobody cancelled and that BullMQ never    *)
(* gave up is not passed by a later one, whoever is busy, dies or loses a lock  *)
(* (dispatchRun; docs/reuse.md: a false result retains identity and ordering    *)
(* position).                                                                *)
Earlier(q, r) ==
  \E i, j \in DOMAIN arrived : i < j /\ arrived[i] = q /\ arrived[j] = r
StartsInOrder ==
  [][\A r, q \in Runs :
       started'[r] # started[r] /\ Earlier(q, r) /\ row[q].thread = row[r].thread
         => Finished(q) \/ q \in failed \cup cancelled]_vars

(* A promotion cuts short a busy head's pause, a retry's backoff or a start    *)
(* that is to come later only if the minute of the parked start it is meant     *)
(* for ends just while the advance is between its look at the job and the       *)
(* promotion (advance, RECORD_PARKED, TAKE_PARKED).                           *)
NativeDelaysKept ==
  [][\A r \in Runs, c \in Reconcilers :
       job[r].state \in Native /\ job'[r].state = "wait" /\ recon'[c] # recon[c]
         => c \in overdue]_vars

(* "Only Skein's parked followers may be promoted. A delayed head can instead   *)
(* be in native retry backoff" (redis-run-partitions.ts:72-73): an advance      *)
(* never cuts a busy pause or a backoff. (It can: the minute of the parked      *)
(* head may end, and its start fail, before the promotion.)                    *)
OnlyParkedPromoted ==
  [][\A r \in Runs, c \in Reconcilers :
       ~(job[r].state \in Native /\ job'[r].state = "wait" /\ recon'[c] # recon[c])]_vars

(* A run that was executed to its end is not executed again by a second         *)
(* delivery, although setStatus(running) looks at nothing (executeOne,          *)
(* startRunExecution, executeRun). A cancelled run may be: the write reopens it. *)
NotReexecuted ==
  [][\A r \in Runs : started'[r] # started[r] =>
       row[r].status # "done" \/ r \in cancelled]_vars

(* Every submitted run is executed, cancelled or found over, unless BullMQ      *)
(* gave its job up, and the order kept for its thread is cleaned up, whatever   *)
(* call failed, whoever died or was late (dispatchRun, advance, sweep).         *)
Owed == \/ \E r \in Runs : ~Finished(r) /\ r \notin failed \cup cancelled
        \/ \E th \in Homes : part[th] # <<>>
EveryRunServed == Owed ~> ~Owed
=============================================================================
