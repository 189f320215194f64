----------------------------- MODULE CronDispatch -----------------------------
(***************************************************************************)
(* One server with a durable store and the in-process queue: the scheduler    *)
(* fires crons, the queue's consumer executes their runs, requests execute    *)
(* runs of their own on the same threads, clients patch the crons, and the    *)
(* process may die and take queue, ticks and executions with it.             *)
(***************************************************************************)
EXTENDS CronScheduler

vars == <<jobs, queue, crons>>

Init == JobsInit /\ QueueInit /\ CronsInit

Work(p) == Execute(p) /\ UNCHANGED <<queue, crons>>
Consume(s) == (Pull(s) \/ Answer(s)) /\ UNCHANGED crons
Rested == \E th \in Threads : ReleaseThread(th) /\ UNCHANGED crons

Edit ==
  /\ \/ \E e \in Editors : \/ WritePatch(e)
                           \/ \E k \in Crons, kind \in PatchKinds : BeginPatch(e, k, kind)
     \/ \E k \in Crons : DeleteCron(k)
     \/ \E th \in Homes : DeleteThread(th)
  /\ UNCHANGED <<lease, worker, started>> /\ UNCHANGED queue

InlineRun ==
  /\ \E q \in Requests, r \in Runs, th \in homes : Request(q, r, th)
  /\ UNCHANGED <<queue, crons>>

Crash ==
  /\ Trouble
  /\ worker' = Died(Processes) /\ lease' = Abandoned(Processes)
  /\ QueueLost
  /\ tick' = [t \in Ticks |-> NoTick] /\ editor' = [e \in Editors |-> NoPatch]
  /\ UNCHANGED <<row, started, now, cron, homes, made>>

Next ==
  \/ \E p \in Processes : Work(p)
  \/ \E s \in Slots : Consume(s) \/ (Throw(s) /\ UNCHANGED <<queue, crons>>)
  \/ Rested
  \/ \E t \in Ticks : TickStep(t) \/ FireFails(t) \/ TickFails(t)
  \/ Clock \/ Edit \/ InlineRun \/ Crash

Spec == Init /\ [][Next]_vars

(* Timers fire, every tick goes on, every execution goes on, and a free slot   *)
(* takes the next run.                                                      *)
FairSpec ==
  /\ Spec /\ WF_vars(Clock) /\ WF_vars(Rested)
  /\ \A t \in Ticks : WF_vars(TickStep(t))
  /\ \A q \in Requests : WF_vars(Work(q))
  /\ \A s \in Slots : WF_vars(Work(s) \/ Consume(s))

-----------------------------------------------------------------------------
TickSteps == {"idle", "fire", "claim", "discard", "enqueue", "advance", "sweep", "requeue"}
TypeOK ==
  /\ JobsTypeOK /\ QueueTypeOK
  /\ now \in 0..MaxNow
  /\ cron \in [Crons -> [exists: BOOLEAN, enabled: BOOLEAN, next: 0..EndTime,
                         thread: Homes \cup {0}, seq: Nat, fired: [occ: 0..EndTime, at: 0..MaxNow]]]
  /\ homes \subseteq Homes /\ made \in Nat
  /\ \A t \in Ticks : tick[t].pc \in TickSteps
  /\ editor \in [Editors -> [cron: Crons \cup {0}, kind: PatchKinds \cup {"none"}, next: 0..EndTime]]

(* However many ticks overlap, fail or die, an occurrence fires one run, and   *)
(* one run stands for everything a cron missed: unless it was patched between, *)
(* the occurrence of a later run lies after the tick that fired the earlier    *)
(* one (claimAndCreateRun, advanceCronOccurrence; docs/crons.md, Catch-up).   *)
Coalesced ==
  [][\A r \in Runs : ~Fired(r) /\ row'[r].cron # 0 =>
       cron'[row'[r].cron].fired.occ > cron[row'[r].cron].fired.at]_vars

(* A thread made for a fire has its run, or a tick that will claim it a run or *)
(* discard it, or else a failure or a crash to blame (fireCron).             *)
Held(t) == /\ tick[t].pc \in {"claim", "discard"}
           /\ cron[Current(t).cron].thread = 0
StraysAccounted ==
  made <= Cardinality({t \in Ticks : Held(t)}) + Cardinality({r \in Runs : row[r].thread = r})
          + trouble * Cardinality(Ticks)

(* The sweep never hands a run that a request executes inline to the worker    *)
(* (sweepUnqueuedRuns).                                                     *)
InlineNotQueued == \A r \in Runs : Queued(r) => Fired(r)

(* No run's graph is started twice, whoever enqueues it again (enqueue,        *)
(* executeOne, startRunExecution).                                          *)
StartedOnce == \A r \in Runs : started[r] <= 1

(* A due cron is fired or moved on, and a fired run is started, whatever       *)
(* tick or process died in between (the claim, the sweep).                   *)
Owed == \/ DueCrons # {}
        \/ \E r \in Runs : Pending(r) /\ Fired(r) /\ row[r].created + Grace <= MaxNow
CronsKeepUp == Owed ~> ~Owed

(* An enabled cron has no next date only once no occurrence is left before     *)
(* its end (docs/crons.md: next_run_date === null means dormant).            *)
DormantIsOver ==
  \A k \in Crons : cron[k].exists /\ cron[k].enabled /\ cron[k].next = Never => now >= EndTime
=============================================================================
