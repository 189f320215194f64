---------------------------- MODULE RunLifecycle ----------------------------
(***************************************************************************)
(* Runs of one thread from request to settled row: RunService's requests,   *)
(* the executions of RunEngine, the execution claim, the abort channel and  *)
(* process crashes, interleaved at every awaited store operation.           *)
(***************************************************************************)
EXTENDS RunEngine, RunService

Init ==
  /\ row = [r \in Runs |-> "absent"] /\ order = <<>>
  /\ plan = [r \in Runs |-> NoPlan] /\ stored = [r \in Runs |-> "none"]
  /\ admitted = {} /\ calls = [r \in Runs |-> <<>>]
  /\ thread = "idle" /\ hist = <<>> /\ closed = {}
  /\ holder = NoTask /\ queue = [i \in Instances |-> <<>>]
  /\ exec = [r \in Runs |-> NoExecution]
  /\ creator = [r \in Runs |-> NoCreation]
  /\ canceller = [r \in Runs |-> NoCancellation]
  /\ deleter = [r \in Runs |-> "none"]
  /\ mail = {} /\ crashes = 0

TaskAt(task, i) == IF task[1] = "run" THEN exec[task[2]].at = i
                                      ELSE canceller[task[2]].at = i

(* A process dies. Its requests and inline executions are gone, its claims   *)
(* and notes with it; a queued run's job is delivered again, and admission   *)
(* dispatches a native run that had not reached the queue.                   *)
Crash(i) ==
  /\ crashes < MaxCrashes
  /\ crashes' = crashes + 1
  /\ exec' = [r \in Runs |->
       IF exec[r].at # i THEN exec[r]
       ELSE [NoExecution EXCEPT !.pc =
               IF r \in Native \/ (r \in Background /\ exec[r].pc # "prepared")
               THEN "queued" ELSE "done"]]
  /\ creator' = [c \in Runs |-> IF creator[c].at = i THEN Created ELSE creator[c]]
  /\ canceller' = [r \in Runs |->
       IF canceller[r].at = i /\ canceller[r].pc # "done"
       THEN [canceller[r] EXCEPT !.pc = "lost"] ELSE canceller[r]]
  /\ holder' = IF holder # NoTask /\ TaskAt(holder, i) THEN NoTask ELSE holder
  /\ queue' = [queue EXCEPT ![i] = <<>>]
  /\ UNCHANGED <<store, thread, hist, closed, deleter, mail>>

(* Everything has run to completion: the system may rest here.               *)
Resting == /\ \A r \in Runs : /\ exec[r].pc \in {"none", "done"}
                              /\ creator[r].pc \in {"none", "done"}
                              /\ canceller[r].pc \in {"none", "done", "lost"}
                              /\ deleter[r] \in {"none", "done"}
           /\ holder = NoTask

Next ==
  \/ \E r \in Runs : EngineStep(r) \/ CreateStep(r) \/ CancelStep(r)
  \/ \E r \in Runs : PersistBase(r) \/ Timeout(r) \/ Observe(r) \/ DeleteRow(r)
  \/ \E r \in Runs, i \in Instances :
       \/ CreateIfIdle(r, i) \/ DeleteAbort(r, i)
       \/ \E s \in Strategies : ListActive(r, i, s)
       \/ \E m \in CancelModes : CancelRead(r, i, m)
  \/ \E r \in Runs, why \in Reasons : DeliverAbort(r, why)
  \/ \E i \in Instances : Acquire(i) \/ Crash(i)

Spec == Init /\ [][Next]_vars

(* What the code's scheduling guarantees while a process lives: some          *)
(* continuation that can run runs, a graph ends, the claim goes to a waiter,  *)
(* a deferred job is pulled again. Every request and execution takes finitely *)
(* many steps, so this one condition is enough for all of them to finish.     *)
(* Requests, timeouts, aborts on the channel, the unawaited persist and       *)
(* crashes are not guaranteed.                                                *)
Progress == \/ \E r \in Runs : EngineStep(r) \/ CreateStep(r) \/ CancelStep(r)
            \/ \E i \in Instances : Acquire(i)

FairSpec == Spec /\ WF_vars(Progress)

-----------------------------------------------------------------------------
TypeStore ==
  /\ row \in [Runs -> RowStatus] /\ order \in Seq(Runs)
  /\ plan \in [Runs -> [revert: Recorded, rows: SUBSET Runs]]
  /\ stored \in [Runs -> Recorded]
  /\ admitted \subseteq Runs /\ calls \in [Runs -> Seq(Terminal)]

TypeThread ==
  /\ thread \in {"idle", "busy", "interrupted", "error"}
  /\ hist \in Seq(Runs) /\ closed \subseteq Runs
  /\ mail \subseteq Runs \X Reasons /\ crashes \in 0..MaxCrashes

TypeClaim == holder \in Tasks \cup {NoTask} /\ queue \in [Instances -> Seq(Tasks)]

TypeExec == exec \in [Runs -> Execution]

TypeRequests ==
  /\ creator \in [Runs -> Creation]
  /\ canceller \in [Runs -> Cancellation]
  /\ deleter \in [Runs -> {"none", "row", "done"}]

TypeOK == TypeStore /\ TypeThread /\ TypeClaim /\ TypeExec /\ TypeRequests

(* What makes TypeOK and the exclusive claim inductive: an execution that    *)
(* settles has decided its outcome, only interrupt and rollback displace,    *)
(* and whoever works under the claim is its holder.                          *)
Settling == \A r \in Runs :
  /\ exec[r].pc \in {"settle", "write", "mirror"} =>
       exec[r].out \in Terminal /\ exec[r].mode # "none"
  /\ exec[r].pc \in {"write", "mirror"} => exec[r].eff \in Terminal

Displacing ==
  \A c \in Runs : creator[c].todo # {} => creator[c].by \in {"interrupt", "rollback"}

Claimed ==
  /\ \A r \in Runs : exec[r].pc \in Holding => holder = <<"run", r>>
  /\ \A r \in Runs : canceller[r].pc = "claimed" => holder = <<"cancel", r>>

IInv == TypeOK /\ Settling /\ Displacing /\ Claimed
-----------------------------------------------------------------------------
(* A finished run row is never reopened or rewritten, whatever cancel,       *)
(* displacement, timeout, crash recovery and the engine do at once; it can   *)
(* only be deleted (setStatus, settle, finalizeRun).                         *)
FirstTerminalWins ==
  [][\A r \in Runs : row[r] \in Terminal => row'[r] \in {row[r], "deleted"}]_vars

(* A run is notified at most once although a failing thread write makes the  *)
(* engine settle it a second time (the recordedDelivery guard).              *)
OneCallback == \A r \in Runs : Len(calls[r]) <= 1

(* While a run that displaced others by rollback executes, the history holds *)
(* none of their writes, if one of them had recorded a base.                 *)
DisplacedWritesGone ==
  \A r \in Runs : exec[r].pc \in EngineSteps /\ plan[r].revert # "none" =>
    plan[r].rows \cap ToSet(hist) = {}

(* A checkpoint is dropped only by a rollback aimed at the run that wrote it:*)
(* another turn's work is never collateral.                                  *)
OnlyRolledBackWritesRemoved ==
  [][\A d \in ToSet(hist) \ ToSet(hist') :
       \/ \E r \in Runs : exec[r].pc = "revert" /\ d \in plan[r].rows
       \/ canceller[d].pc = "claimed" /\ canceller[d].mode = "rollback"]_vars

(* Once a cancel that waits has answered, its run never executes (again).    *)
WaitedCancelMeansStopped ==
  \A r \in Runs : canceller[r].mode = "wait" /\ canceller[r].pc = "done" =>
    exec[r].pc \notin EngineSteps

(* Once a cancel?action=rollback that found a base has answered, the thread  *)
(* carries none of the run's writes.                                         *)
CancelRollbackDiscards ==
  \A r \in Runs : canceller[r].pc = "done" /\ canceller[r].base # "none" =>
    r \notin ToSet(hist)

(* A thread at rest with no active run is not reported busy, whatever happened  *)
(* to its runs but a cancel by a client (mirrorThreadStatus, mirrorThreadError). *)
IdleAtRest == Resting /\ ActiveRuns = {} => thread # "busy"
NotBusyAtRest == (\A r \in Runs : canceller[r].pc = "none") => IdleAtRest

(* Without enqueue, strategies leave at most one active run on the thread.   *)
OneActiveRun == Cardinality(ActiveRuns) <= 1

(* The claim: at most one run executes on the thread, and none while a       *)
(* cancel rolls its history back, whatever processes crash.                  *)
ExclusiveExecution ==
  /\ \A r, s \in Runs : exec[r].pc \in Holding /\ exec[s].pc \in Holding => r = s
  /\ \A r, s \in Runs : canceller[r].pc = "claimed" => exec[s].pc \notin Holding

(* A deleted row stays deleted: no late status write brings it back.         *)
DeletedStaysDeleted ==
  [][\A r \in Runs : row[r] = "deleted" => row'[r] = "deleted"]_vars

(* docs/runs.md: the turn a rollback displaces "should read as if it never   *)
(* happened" when the displacing run executes, base recorded or not.         *)
RollbackErasesDisplaced ==
  \A r \in Runs : exec[r].pc = "graph" => plan[r].rows \cap ToSet(hist) = {}

(* Runs created through admission keep the contract of RunContract: each row *)
(* settles once, and its callback with it, in one step.                      *)
Contract == INSTANCE RunContract WITH
  Runs <- Runs, Webhook <- Webhook, row <- row, calls <- calls
KeepsContract == Contract!Spec

(* Every created run reaches a terminal row (or is deleted).                 *)
EveryRunSettles ==
  \A r \in Runs : row[r] = "pending" ~> row[r] \in Terminal \cup {"deleted"}

(* Every finished run's stream ends: its bus channel is closed.              *)
TerminalClosesBus == \A r \in Runs : row[r] \in Terminal ~> r \in closed

(* Every cancel request is answered, the waiting ones included.              *)
CancelReturns ==
  \A r \in Runs : canceller[r].pc # "none" ~> canceller[r].pc \in {"done", "lost"}
=============================================================================
