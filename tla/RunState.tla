------------------------------ MODULE RunState ------------------------------
(***************************************************************************)
(* The state that every part of run execution shares, for one thread, and  *)
(* the store, bus, claim and cancellation-registry operations on it.       *)
(* RunService and RunEngine extend this module; RunLifecycle composes them.*)
(*                                                                         *)
(* A run writes at most one checkpoint per execution and the checkpoint is *)
(* named after the run, so hist is the sequence of runs whose writes the   *)
(* thread's history carries.                                               *)
(***************************************************************************)
EXTENDS Integers, Sequences, FiniteSets, SequencesExt

CONSTANTS Runs,        \* every run the clients may create on the thread
          Native,      \* runs created through atomic admission
          Background,  \* runs executed from the queue; the others inline
          Webhook,     \* runs that owe a callback
          Timed,       \* runs with a wall-clock budget
          Instances,   \* server processes sharing store, bus, queue and gate
          Strategies,  \* multitask strategies the clients use
          Cancellable, \* runs a client may cancel, once each
          CancelModes, \* "cancel", "wait", "rollback": the cancels requested
          Deletable,   \* runs a client may delete
          Faulty,      \* whether a thread write or a checkpoint revert may fail
          MaxCrashes   \* bound on process crashes

Terminal == {"success", "error", "timeout", "interrupted", "cancelled"}
Active == {"pending", "running"}
RowStatus == {"absent", "deleted"} \cup Active \cup Terminal
Reasons == {"cancel", "interrupt", "rollback", "timeout"}
Bases == Runs \cup {"empty"}           \* what a recorded base may be

ASSUME ConstantsAssumption ==
  /\ IsFiniteSet(Runs) /\ Runs \cap {"none", "empty"} = {}
  /\ Native \subseteq Background /\ Background \subseteq Runs
  /\ Webhook \subseteq Runs /\ Timed \subseteq Runs /\ Deletable \subseteq Runs
  /\ Cancellable \subseteq Runs
  /\ Strategies \subseteq {"reject", "interrupt", "rollback", "enqueue"}
  /\ CancelModes \subseteq {"cancel", "wait", "rollback"}
  /\ Faulty \in BOOLEAN /\ MaxCrashes \in Nat /\ "none" \notin Instances

VARIABLES
  row,      \* row[r]: status of the run row, the concurrency source of truth
  order,    \* runs in the order their rows were inserted
  plan,     \* plan[r]: the rollback plan in r's kwargs (no rows: no plan)
  stored,   \* stored[r]: base_checkpoint_id persisted in r's kwargs, or "none"
  admitted, \* runs the admission outbox knows: their rows refuse terminal -> running
  calls,    \* calls[r]: statuses of the callbacks recorded for r, in order
  thread,   \* the thread's mirrored status
  hist,     \* the thread's checkpoint history
  closed,   \* runs whose bus channel was closed
  holder,   \* the task that holds the thread's execution claim, or NoTask
  queue,    \* queue[i]: tasks waiting for the claim at instance i, FIFO
  exec,     \* exec[r]: the execution of r and its registry entry
  creator,  \* creator[r]: the request that creates r
  canceller,\* canceller[r]: the request that cancels r
  deleter,  \* deleter[r]: the request that deletes r
  mail,     \* abort requests on the cross-instance channel
  crashes   \* process crashes so far

store == <<row, order, plan, stored, admitted, calls>>
claim == <<holder, queue>>
vars == <<store, thread, hist, closed, claim, exec, creator, canceller,
          deleter, mail, crashes>>

(* --- program counters -------------------------------------------------- *)
EngineSteps == {"check", "set", "busy", "base", "graph", "settle", "write",
                "mirror", "close"}     \* inside executeRun
Holding == {"claimed", "revert"} \cup EngineSteps
Registered == {"waiting"} \cup Holding \* has an entry in RunControlRegistry
Steps == {"none", "prepared", "queued", "done"} \cup Registered
CreateSteps == {"none", "bases", "displace", "stop", "insert", "done"}
CancelSteps == {"none", "base", "write", "idle", "abort", "waiting", "claimed", "done", "lost"}
Modes == {"none", "done", "stopped", "timedout", "aborted", "failed"}
Outcomes == Terminal \cup {"none"}
Places == Instances \cup {"none"}
Recorded == Bases \cup {"none"}

Execution == [pc: Steps, at: Places, started: BOOLEAN, recorded: BOOLEAN,
              reason: Reasons \cup {"none"}, note: Recorded, mode: Modes,
              out: Outcomes, eff: Outcomes]
NoExecution == [pc |-> "none", at |-> "none", started |-> FALSE, recorded |-> FALSE,
                reason |-> "none", note |-> "none", mode |-> "none",
                out |-> "none", eff |-> "none"]
NoPlan == [revert |-> "none", rows |-> {}]

Creation == [pc: CreateSteps, at: Places, by: Strategies \cup {"none"},
             seen: [Runs -> Active \cup {"none"}], todo: SUBSET Runs, revert: Recorded]
NoCreation == [pc |-> "none", at |-> "none", by |-> "none",
               seen |-> [r \in Runs |-> "none"], todo |-> {}, revert |-> "none"]
Created == [NoCreation EXCEPT !.pc = "done"]    \* answered, or failed

Cancellation == [pc: CancelSteps, at: Places, mode: CancelModes \cup {"none"},
                 seen: Active \cup {"none"}, base: Recorded]
NoCancellation == [pc |-> "none", at |-> "none", mode |-> "none",
                   seen |-> "none", base |-> "none"]

Tasks == {"run", "cancel"} \X Runs     \* who may hold or await the claim
NoTask == <<"none", "none">>

(* --- store operations --------------------------------------------------- *)
ActiveRuns == {r \in Runs : row[r] \in Active}
Exists_Upsert(r) == row[r] # "absent"
Exists(r) == row[r] \notin {"absent", "deleted"}

Settle_Overwrites(S, st) ==
  row' = [r \in Runs |-> IF r \in S THEN st ELSE row[r]] /\ UNCHANGED calls
(* runs.settle of rows that exist: the first terminal status wins; the       *)
(* callback of a native run is identified, so it is inserted once.           *)
Settle(S, st) ==
  /\ row' = [r \in Runs |-> IF r \in S /\ row[r] \in Active THEN st ELSE row[r]]
  /\ calls' = [r \in Runs |-> IF /\ r \in S \cap Native \cap Webhook
                                 /\ calls[r] = <<>>
                              THEN <<row'[r]>> ELSE calls[r]]

(* runs.setStatus outside admission: an unconditional write.                *)
SetStatus(r, st) == row' = [row EXCEPT ![r] = st] /\ UNCHANGED calls

(* The base a rollback of r reverts to: the in-process note first, then the *)
(* run's persisted kwargs; "none" when neither recorded one.                *)
ReadBase(r, i) == IF exec[r].note # "none" /\ exec[r].at = i
                  THEN exec[r].note ELSE IF Exists(r) THEN stored[r] ELSE "none"

(* Runs are listed in the order of their rows.                               *)
Oldest(d, S) == \E k \in DOMAIN order : order[k] = d /\ \A j \in 1..(k - 1) : order[j] \notin S
Newest(d, S) == \E k \in DOMAIN order :
                  order[k] = d /\ \A j \in (k + 1)..Len(order) : order[j] \notin S

(* Of several displaced runs, the one read last decides; "none" is skipped. *)
LastBase(base, S, i) ==
  LET based == {r \in S : ReadBase(r, i) # "none"}
  IN  \/ based = {} /\ base = "none"
      \/ \E d \in based : Newest(d, based) /\ base = ReadBase(d, i)

IsLatest(r) == Newest(r, {d \in Runs : Exists(d)})

(* --- checkpoint history -------------------------------------------------- *)
Tip == IF hist = <<>> THEN "empty" ELSE Last(hist)

RevertedTo_Keeps(base) == hist
(* rollbackThreadCheckpointsTo: keep the base's ancestors; a base that is   *)
(* no longer there leaves the history untouched.                            *)
RevertedTo(base) ==
  IF base = "empty" THEN <<>>
  ELSE IF \E k \in DOMAIN hist : hist[k] = base
       THEN SubSeq(hist, 1, CHOOSE k \in DOMAIN hist : hist[k] = base)
       ELSE hist

(* --- the cancellation registry and its cross-instance channel ------------ *)
AbortChannel == Cardinality(Instances) > 1

(* First reason wins; without a registration here the local abort is lost.  *)
Aborted(r, why) ==
  IF exec[r].pc \in Registered /\ exec[r].reason = "none"
  THEN [exec EXCEPT ![r].reason = why] ELSE exec

Abort(r, why, i) ==
  /\ exec' = IF exec[r].at = i THEN Aborted(r, why) ELSE exec
  /\ mail' = IF AbortChannel THEN mail \cup {<<r, why>>} ELSE mail

(* Pub/sub delivery. A request nobody delivers is a lost one.               *)
DeliverAbort(r, why) ==
  /\ <<r, why>> \in mail
  /\ exec' = Aborted(r, why)
  /\ mail' = mail \ {<<r, why>>}
  /\ UNCHANGED <<store, thread, hist, closed, claim, creator, canceller, deleter, crashes>>

(* A run its canceller or displacer saw pending has no engine to close it.   *)
CloseIfPending_Never(r, seen) == UNCHANGED closed
CloseIfPending(r, seen) ==
  closed' = IF seen = "pending" THEN closed \cup {r} ELSE closed

(* --- the execution claim -------------------------------------------------- *)
Await(task, i) == queue' = [queue EXCEPT ![i] = Append(@, task)] /\ UNCHANGED holder

(* The task at the head of a process' local queue gets the gate.            *)
Acquire(i) ==
  /\ holder = NoTask /\ queue[i] # <<>>
  /\ LET task == Head(queue[i]) IN
     /\ holder' = task
     /\ exec' = IF task[1] = "run" THEN [exec EXCEPT ![task[2]].pc = "claimed"] ELSE exec
     /\ canceller' = IF task[1] = "cancel"
                     THEN [canceller EXCEPT ![task[2]].pc = "claimed"] ELSE canceller
  /\ queue' = [queue EXCEPT ![i] = Tail(@)]
  /\ UNCHANGED <<store, thread, hist, closed, creator, deleter, mail, crashes>>

Release_Leaks == UNCHANGED claim
Release == holder' = NoTask /\ UNCHANGED queue
=============================================================================
