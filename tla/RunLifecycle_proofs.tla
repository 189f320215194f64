------------------------ MODULE RunLifecycle_proofs ------------------------
(***************************************************************************)
(* The types of RunLifecycle, the exclusive execution claim, and how runs   *)
(* end, for every number of runs, processes and crashes. IInv is inductive; *)
(* the lemmas take the actions one by one, first for TypeOK, then for the   *)
(* three conjuncts that make it inductive. Core is inductive on top of IInv: *)
(* what is known of a run before its row is inserted, who waits for the     *)
(* claim, what admission has recorded, and which callbacks are there. Each   *)
(* part ends with its theorems.                                             *)
(***************************************************************************)
EXTENDS RunLifecycle, FiniteSetTheorems, TLAPS

(* The program counters and statuses the actions write are the declared ones.*)
LEMMA StepNames ==
  /\ {"none", "prepared", "queued", "done", "waiting", "claimed", "revert", "check",
      "set", "busy", "base", "graph", "settle", "write", "mirror", "close"} \subseteq Steps
  /\ {"none", "bases", "displace", "stop", "insert", "done"} \subseteq CreateSteps
  /\ {"none", "base", "write", "idle", "abort", "waiting", "claimed", "done", "lost"}
       \subseteq CancelSteps
BY DEF Steps, Registered, EngineSteps, Holding, CreateSteps, CancelSteps

(* Statuses, modes, places and abort reasons by name, the same way.          *)
LEMMA StatusNames ==
  /\ Terminal \subseteq RowStatus /\ Active \subseteq RowStatus
  /\ Terminal \subseteq Outcomes /\ "none" \in Outcomes
  /\ {"success", "error", "timeout", "interrupted", "cancelled"} \subseteq Terminal
  /\ {"absent", "pending", "running", "deleted"} \subseteq RowStatus
  /\ {"none", "done", "stopped", "timedout", "aborted", "failed"} \subseteq Modes
  /\ Instances \subseteq Places /\ "none" \in Places
  /\ Runs \subseteq Recorded /\ {"none", "empty"} \subseteq Recorded
  /\ {"cancel", "interrupt", "rollback", "timeout"} \subseteq Reasons
BY DEF Terminal, RowStatus, Active, Outcomes, Modes, Recorded, Places, Bases, Reasons

(* The steps of an execution that hold the claim.                            *)
LEMMA HoldingNames ==
  /\ {"claimed", "revert", "check", "set", "busy", "base", "graph", "settle", "write",
      "mirror", "close"} \subseteq Holding
  /\ {"none", "prepared", "queued", "done", "waiting"} \cap Holding = {}
  /\ EngineSteps \subseteq Holding /\ Holding \subseteq Registered
  /\ {"check", "set", "busy", "base", "graph", "settle", "write", "mirror", "close"}
       \subseteq EngineSteps
BY DEF Holding, EngineSteps, Registered

(* What a new, finished or recovered execution and an answered creation are. *)
LEMMA Fresh ==
  /\ NoExecution \in Execution /\ Created \in Creation
  /\ [NoExecution EXCEPT !.pc = "done"] \in Execution
  /\ \A i \in Places : [NoExecution EXCEPT !.pc = "prepared", !.at = i] \in Execution
BY StepNames, StatusNames DEF Execution, NoExecution, Created, NoCreation, Creation

(* Field by field, the updates of an execution the engine makes.             *)
LEMMA ExecutionUpdates ==
  ASSUME NEW e \in Execution, NEW pc \in Steps
  PROVE  /\ [e EXCEPT !.pc = pc] \in Execution
         /\ \A i \in Places : [e EXCEPT !.pc = pc, !.at = i] \in Execution
         /\ \A n \in Recorded : [e EXCEPT !.pc = pc, !.note = n] \in Execution
         /\ \A o \in Outcomes :
              /\ [e EXCEPT !.pc = pc, !.eff = o] \in Execution
              /\ [e EXCEPT !.pc = pc, !.recorded = TRUE, !.eff = o] \in Execution
         /\ \A o \in Outcomes, m \in Modes :
              [e EXCEPT !.pc = pc, !.out = o, !.mode = m] \in Execution
BY DEF Execution

(* ... of a creation,                                                        *)
LEMMA CreationUpdates ==
  ASSUME NEW e \in Creation, NEW pc \in CreateSteps
  PROVE  /\ [e EXCEPT !.pc = pc] \in Creation
         /\ \A base \in Recorded : [e EXCEPT !.revert = base, !.pc = pc] \in Creation
         /\ \A S \in SUBSET Runs : [e EXCEPT !.todo = S, !.pc = pc] \in Creation
BY DEF Creation

(* ... and of a cancellation.                                                *)
LEMMA CancellationUpdates ==
  ASSUME NEW e \in Cancellation, NEW pc \in CancelSteps
  PROVE  /\ [e EXCEPT !.pc = pc] \in Cancellation
         /\ \A base \in Recorded : [e EXCEPT !.pc = pc, !.base = base] \in Cancellation
BY DEF Cancellation

-----------------------------------------------------------------------------
(* The operators the actions are built from.                                 *)

(* A rollback leaves a history of runs (rollbackThreadCheckpointsTo).         *)
LEMMA Reverted ==
  ASSUME hist \in Seq(Runs), NEW base
  PROVE  RevertedTo(base) \in Seq(Runs)
BY DEF RevertedTo

(* The tip is a run or the empty history: a base that may be recorded.       *)
LEMMA TipOK ==
  ASSUME hist \in Seq(Runs)
  PROVE  Tip \in Recorded
<1>1. CASE hist = <<>>
  BY <1>1, StatusNames DEF Tip
<1>2. CASE hist # <<>>
  <2>1. Len(hist) \in 1..Len(hist)
    BY <1>2
  <2>2. Last(hist) \in Runs
    BY <2>1 DEF Last
  <2> QED BY <1>2, <2>2, StatusNames DEF Tip
<1> QED BY <1>1, <1>2

(* readBaseCheckpoint finds a run, the empty history or nothing.             *)
LEMMA ReadBaseOK ==
  ASSUME TypeStore, TypeExec, NEW r \in Runs, NEW i
  PROVE  ReadBase(r, i) \in Recorded
BY StatusNames DEF ReadBase, TypeStore, TypeExec, Execution

(* The plan a creation stores with its run.                                  *)
LEMMA PlanOK ==
  ASSUME TypeRequests, NEW c \in Runs
  PROVE  PlanOf(c) \in [revert: Recorded, rows: SUBSET Runs]
BY StatusNames DEF PlanOf, NoPlan, Snapshot, TypeRequests, Creation

(* A local abort only sets the reason of a registered execution.             *)
LEMMA AbortedOK ==
  ASSUME TypeExec, NEW r \in Runs, NEW why \in Reasons
  PROVE  Aborted(r, why) \in [Runs -> Execution]
BY DEF TypeExec, Aborted, Execution

(* An abort is local, and published on the channel when there is one.        *)
LEMMA AbortOK ==
  ASSUME TypeExec, mail \subseteq Runs \X Reasons,
         NEW r \in Runs, NEW why \in Reasons, NEW i, Abort(r, why, i)
  PROVE  TypeExec' /\ mail' \subseteq Runs \X Reasons
BY AbortedOK DEF TypeExec, Abort

(* The catch block decides a terminal status.                                *)
LEMMA CaughtOK ==
  ASSUME NEW e \in Execution
  PROVE  Caught(e) \in Execution
BY StepNames, StatusNames DEF Execution, Caught, AbortedStatus

(* An exception keeps the execution typed,                                   *)
LEMMA ThrowOK ==
  ASSUME TypeExec, NEW r \in Runs, Throw(r)
  PROVE  TypeExec'
BY StepNames, CaughtOK DEF TypeExec, Throw, Execution

(* ... and so does a step to the next program counter.                       *)
LEMMA GotoOK ==
  ASSUME TypeExec, NEW r \in Runs, NEW pc \in Steps, Goto(r, pc)
  PROVE  TypeExec'
BY DEF TypeExec, Goto, Execution

(* A cancel request moves on.                                                *)
LEMMA CancelGotoOK ==
  ASSUME canceller \in [Runs -> Cancellation],
         NEW r \in Runs, NEW pc \in CancelSteps, CancelGoto(r, pc)
  PROVE  canceller' \in [Runs -> Cancellation]
BY DEF CancelGoto, Cancellation

(* A task queues for the claim.                                              *)
LEMMA AwaitOK ==
  ASSUME TypeClaim, NEW t \in {"run", "cancel"}, NEW r \in Runs, NEW i,
         Await(<<t, r>>, i)
  PROVE  TypeClaim'
<1>1. <<t, r>> \in Tasks
  BY DEF Tasks
<1>2. \A q \in Seq(Tasks) : Append(q, <<t, r>>) \in Seq(Tasks)
  BY <1>1
<1> QED BY <1>2 DEF TypeClaim, Await

(* Settling rows that exist records terminal callbacks only.                 *)
LEMMA SettleOK ==
  ASSUME TypeStore, NEW S \in SUBSET {r \in Runs : Exists(r)}, NEW st \in Terminal,
         Settle(S, st)
  PROVE  row' \in [Runs -> RowStatus] /\ calls' \in [Runs -> Seq(Terminal)]
<1>1. row' \in [Runs -> RowStatus]
  BY StatusNames DEF TypeStore, Settle
<1>2. \A r \in S : row'[r] \in Terminal
  BY DEF TypeStore, Settle, Exists, RowStatus
<1>3. \A r \in S : <<row'[r]>> \in Seq(Terminal)
  BY <1>2
<1>4. calls' \in [Runs -> Seq(Terminal)]
  BY <1>3 DEF TypeStore, Settle
<1> QED BY <1>1, <1>4

(* An unconditional status write.                                            *)
LEMMA SetStatusOK ==
  ASSUME TypeStore, NEW r \in Runs, NEW st \in RowStatus, SetStatus(r, st)
  PROVE  row' \in [Runs -> RowStatus] /\ calls' \in [Runs -> Seq(Terminal)]
BY DEF TypeStore, SetStatus

(* The outcome finalizeRun reports: the row's, if it is terminal already.    *)
LEMMA OutcomeTyped ==
  ASSUME TypeStore, TypeExec, NEW r \in Runs
  PROVE  (IF row[r] \in Terminal THEN row[r] ELSE exec[r].out) \in Outcomes
BY StatusNames DEF TypeExec, Execution

(* A step that does not enter the settling section keeps Settling.           *)
LEMMA GotoSettling ==
  ASSUME TypeExec, Settling, NEW r \in Runs,
         NEW pc, pc \notin {"settle", "write", "mirror"}, Goto(r, pc)
  PROVE  Settling'
BY DEF TypeExec, Execution, Settling, Goto

(* The catch block enters it with an outcome.                                *)
LEMMA ThrowSettling ==
  ASSUME TypeExec, Settling, NEW r \in Runs, Throw(r)
  PROVE  Settling'
<1>1. /\ Caught(exec[r]).out \in Terminal
      /\ Caught(exec[r]).mode # "none" /\ Caught(exec[r]).pc = "settle"
  BY StatusNames DEF TypeExec, Execution, Caught, AbortedStatus
<1>2. exec'[r] = Caught(exec[r]) \/ exec'[r] = [exec[r] EXCEPT !.pc = "close"]
  BY DEF Throw, TypeExec
<1>3. \A s \in Runs \ {r} : exec'[s] = exec[s]
  BY DEF Throw, TypeExec
<1> QED BY <1>1, <1>2, <1>3 DEF Settling, TypeExec, Execution

(* A creation that is answered or goes on to signal keeps Displacing.        *)
LEMMA CreatorDisplacing ==
  ASSUME TypeRequests, Displacing, NEW c \in Runs,
         creator' \in {[creator EXCEPT ![c] = Created], [creator EXCEPT ![c].pc = "stop"]}
  PROVE  Displacing'
<1>1. Created.todo = {}
  BY DEF Created, NoCreation
<1>2. CASE creator' = [creator EXCEPT ![c] = Created]
  BY <1>1, <1>2 DEF TypeRequests, Displacing
<1>3. CASE creator' = [creator EXCEPT ![c].pc = "stop"]
  BY <1>3 DEF TypeRequests, Displacing, Creation
<1> QED BY <1>2, <1>3

-----------------------------------------------------------------------------
(* Each action keeps the types.                                              *)

(* An inline run queues on the claim (StartInline): the types. *)
LEMMA StartInline_Type ==
  ASSUME TypeOK, Settling, Displacing, NEW r \in Runs, StartInline(r)
  PROVE  TypeOK'
<1> USE DEF StartInline, TypeOK, vars, store, claim, Rest
<1>1. TypeStore' /\ TypeThread' /\ TypeRequests'
  BY DEF TypeStore, TypeThread, TypeRequests
<1>2. TypeClaim'
  BY AwaitOK
<1>3. TypeExec'
  BY StepNames, GotoOK DEF TypeExec
<1> QED BY <1>1, <1>2, <1>3

(* A background run goes to the queue (Enqueue): the types. *)
LEMMA Enqueue_Type ==
  ASSUME TypeOK, Settling, Displacing, NEW r \in Runs, Enqueue(r)
  PROVE  TypeOK'
<1> USE DEF Enqueue, TypeOK, vars, store, claim, Rest
<1>1. TypeStore' /\ TypeThread' /\ TypeClaim' /\ TypeRequests'
  BY DEF TypeStore, TypeThread, TypeClaim, TypeRequests
<1>2. TypeExec'
  BY StepNames, StatusNames, ExecutionUpdates DEF TypeExec
<1> QED BY <1>1, <1>2

(* The row is reread under the claim (Reread): the types. *)
LEMMA Reread_Type ==
  ASSUME TypeOK, Settling, Displacing, NEW r \in Runs, Reread(r)
  PROVE  TypeOK'
<1> USE DEF Reread, TypeOK, vars, store, claim, Rest
<1>1. TypeStore' /\ TypeThread' /\ TypeRequests'
  BY DEF TypeStore, TypeThread, TypeRequests
<1>2. TypeClaim'
  BY DEF TypeClaim, Release
<1>3. TypeExec'
  BY StepNames, GotoOK, Fresh DEF TypeExec
<1> QED BY <1>1, <1>2, <1>3

(* The rollback plan is applied (ApplyPlan): the types. *)
LEMMA ApplyPlan_Type ==
  ASSUME TypeOK, Settling, Displacing, NEW r \in Runs, ApplyPlan(r)
  PROVE  TypeOK'
<1> USE DEF ApplyPlan, TypeOK, vars, store, claim, Rest
<1>1. TypeClaim' /\ TypeRequests'
  BY DEF TypeClaim, TypeRequests
<1>2. TypeStore'
  BY StatusNames DEF TypeStore
<1>3. TypeThread'
  BY Reverted DEF TypeThread
<1>4. TypeExec'
  BY StepNames, GotoOK DEF TypeExec
<1> QED BY <1>1, <1>2, <1>3, <1>4

(* ExecuteRun looks at the row (Check): the types. *)
LEMMA Check_Type ==
  ASSUME TypeOK, Settling, Displacing, NEW r \in Runs, Check(r)
  PROVE  TypeOK'
<1> USE DEF Check, TypeOK, vars, store, claim, Rest
<1>1. TypeStore' /\ TypeThread' /\ TypeClaim' /\ TypeRequests'
  BY DEF TypeStore, TypeThread, TypeClaim, TypeRequests
<1>2. TypeExec'
  BY StepNames, GotoOK DEF TypeExec
<1> QED BY <1>1, <1>2

(* The row is marked running (MarkRunning): the types. *)
LEMMA MarkRunning_Type ==
  ASSUME TypeOK, Settling, Displacing, NEW r \in Runs, MarkRunning(r)
  PROVE  TypeOK'
<1> USE DEF MarkRunning, TypeOK, vars, store, claim, Rest
<1>1. TypeThread' /\ TypeClaim' /\ TypeRequests'
  BY DEF TypeThread, TypeClaim, TypeRequests
<1>2. TypeStore'
  BY StatusNames, SetStatusOK DEF TypeStore
<1>3. TypeExec'
  <2>1. [exec[r] EXCEPT !.pc = "busy", !.started = TRUE] \in Execution
    <3>1. exec[r] \in Execution /\ "busy" \in Steps
      BY StepNames DEF TypeExec
    <3> QED BY <3>1 DEF Execution
  <2>2. CASE exec' = [exec EXCEPT ![r].pc = "busy", ![r].started = TRUE]
    BY <2>1, <2>2 DEF TypeExec
  <2> QED BY <2>2, StepNames, GotoOK, ThrowOK
<1> QED BY <1>1, <1>2, <1>3

(* The thread turns busy (MirrorBusy): the types. *)
LEMMA MirrorBusy_Type ==
  ASSUME TypeOK, Settling, Displacing, NEW r \in Runs, MirrorBusy(r)
  PROVE  TypeOK'
<1> USE DEF MirrorBusy, TypeOK, vars, store, claim, Rest
<1>1. TypeStore' /\ TypeClaim' /\ TypeRequests'
  BY DEF TypeStore, TypeClaim, TypeRequests
<1>2. TypeThread'
  BY DEF TypeThread
<1>3. TypeExec'
  BY StepNames, GotoOK DEF TypeExec
<1> QED BY <1>1, <1>2, <1>3

(* The base checkpoint is noted (RecordBase): the types. *)
LEMMA RecordBase_Type ==
  ASSUME TypeOK, Settling, Displacing, NEW r \in Runs, RecordBase(r)
  PROVE  TypeOK'
<1> USE DEF RecordBase, TypeOK, vars, store, claim, Rest
<1>1. TypeStore' /\ TypeThread' /\ TypeClaim' /\ TypeRequests'
  BY DEF TypeStore, TypeThread, TypeClaim, TypeRequests
<1>2. TypeExec'
  <2>1. Tip \in Recorded
    BY TipOK DEF TypeThread
  <2>2. [exec[r] EXCEPT !.pc = "graph", !.note = Tip] \in Execution
    BY <2>1, StepNames, ExecutionUpdates DEF TypeExec
  <2> QED BY <2>2 DEF TypeExec
<1> QED BY <1>1, <1>2

(* The noted base reaches the row's kwargs (PersistBase): the types. *)
LEMMA PersistBase_Type ==
  ASSUME TypeOK, Settling, Displacing, NEW r \in Runs, PersistBase(r)
  PROVE  TypeOK'
<1> USE DEF PersistBase, TypeOK, vars, store, claim, Rest
<1>1. TypeThread' /\ TypeClaim' /\ TypeExec' /\ TypeRequests'
  BY DEF TypeThread, TypeClaim, TypeExec, TypeRequests
<1>2. TypeStore'
  <2>1. exec[r].note \in Recorded
    BY DEF TypeExec, Execution
  <2> QED BY <2>1 DEF TypeStore
<1> QED BY <1>1, <1>2

(* The graph saves a checkpoint (GraphWrite): the types. *)
LEMMA GraphWrite_Type ==
  ASSUME TypeOK, Settling, Displacing, NEW r \in Runs, GraphWrite(r)
  PROVE  TypeOK'
<1> USE DEF GraphWrite, TypeOK, vars, store, claim, Rest
<1>1. TypeStore' /\ TypeClaim' /\ TypeExec' /\ TypeRequests'
  BY DEF TypeStore, TypeClaim, TypeExec, TypeRequests
<1>2. TypeThread'
  BY DEF TypeThread
<1> QED BY <1>1, <1>2

(* The stream ends (GraphReturn): the types. *)
LEMMA GraphReturn_Type ==
  ASSUME TypeOK, Settling, Displacing, NEW r \in Runs, GraphReturn(r)
  PROVE  TypeOK'
<1> USE DEF GraphReturn, TypeOK, vars, store, claim, Rest
<1>1. TypeStore' /\ TypeThread' /\ TypeClaim' /\ TypeRequests'
  BY DEF TypeStore, TypeThread, TypeClaim, TypeRequests
<1>2. TypeExec'
  <2>1. PICK final \in Terminal :
          exec' = [exec EXCEPT ![r].pc = "settle", ![r].out = final,
                     ![r].mode = IF exec[r].reason = "none" THEN "done" ELSE "stopped"]
    BY StatusNames DEF AbortedStatus
  <2> DEFINE mode == IF exec[r].reason = "none" THEN "done" ELSE "stopped"
  <2>2. mode \in Modes /\ final \in Outcomes
    BY StatusNames
  <2>3. exec' = [exec EXCEPT ![r].pc = "settle", ![r].out = final, ![r].mode = mode]
    BY <2>1
  <2> HIDE DEF mode
  <2>4. [exec[r] EXCEPT !.pc = "settle", !.out = final, !.mode = mode] \in Execution
    BY <2>2, StepNames, ExecutionUpdates DEF TypeExec
  <2> QED BY <2>3, <2>4 DEF TypeExec
<1> QED BY <1>1, <1>2

(* The stream throws (GraphThrow): the types. *)
LEMMA GraphThrow_Type ==
  ASSUME TypeOK, Settling, Displacing, NEW r \in Runs, GraphThrow(r)
  PROVE  TypeOK'
<1> USE DEF GraphThrow, TypeOK, vars, store, claim, Rest
<1>1. TypeStore' /\ TypeThread' /\ TypeClaim' /\ TypeRequests'
  BY DEF TypeStore, TypeThread, TypeClaim, TypeRequests
<1>2. TypeExec'
  BY ThrowOK
<1> QED BY <1>1, <1>2

(* FinalizeRun reads the row (FinalizeRead): the types. *)
LEMMA FinalizeRead_Type ==
  ASSUME TypeOK, Settling, Displacing, NEW r \in Runs, FinalizeRead(r)
  PROVE  TypeOK'
<1> USE DEF FinalizeRead, TypeOK, vars, store, claim, Rest
<1>1. TypeStore' /\ TypeThread' /\ TypeClaim' /\ TypeRequests'
  BY DEF TypeStore, TypeThread, TypeClaim, TypeRequests
<1>2. TypeExec'
  <2> DEFINE told == IF row[r] \in Terminal THEN row[r] ELSE exec[r].out
             next == IF row[r] \in Active THEN "write" ELSE "mirror"
  <2>1. told \in Outcomes /\ next \in Steps
    BY StepNames, OutcomeTyped
  <2>2. exec' = [exec EXCEPT ![r].pc = next, ![r].eff = told]
    OBVIOUS
  <2> HIDE DEF told, next
  <2>3. [exec[r] EXCEPT !.pc = next, !.eff = told] \in Execution
    BY <2>1, ExecutionUpdates DEF TypeExec
  <2> QED BY <2>2, <2>3 DEF TypeExec
<1> QED BY <1>1, <1>2

(* FinalizeRun writes the row (FinalizeWrite): the types. *)
LEMMA FinalizeWrite_Type ==
  ASSUME TypeOK, Settling, Displacing, NEW r \in Runs, FinalizeWrite(r)
  PROVE  TypeOK'
<1> USE DEF FinalizeWrite, TypeOK, vars, store, claim, Rest
<1>1. TypeThread' /\ TypeClaim' /\ TypeRequests'
  BY DEF TypeThread, TypeClaim, TypeRequests
<1>2. TypeStore'
  BY StatusNames, SetStatusOK DEF TypeStore, Settling
<1>3. TypeExec'
  BY StepNames, GotoOK, ThrowOK
<1> QED BY <1>1, <1>2, <1>3

(* Row and callback are written together (FinalizeWithDelivery): the types. *)
LEMMA FinalizeWithDelivery_Type ==
  ASSUME TypeOK, Settling, Displacing, NEW r \in Runs, FinalizeWithDelivery(r)
  PROVE  TypeOK'
<1> USE DEF FinalizeWithDelivery, TypeOK, vars, store, claim, Rest
<1>1. TypeThread' /\ TypeClaim' /\ TypeRequests'
  BY DEF TypeThread, TypeClaim, TypeRequests
<1>2. TypeStore'
  BY StatusNames DEF TypeStore, Settling
<1>3. TypeExec'
  <2> DEFINE told == IF row[r] \in Terminal THEN row[r] ELSE exec[r].out
  <2>1. told \in Outcomes
    BY OutcomeTyped
  <2>2. exec' = [exec EXCEPT ![r].pc = "mirror", ![r].recorded = TRUE, ![r].eff = told]
    OBVIOUS
  <2> HIDE DEF told
  <2>3. [exec[r] EXCEPT !.pc = "mirror", !.recorded = TRUE, !.eff = told] \in Execution
    BY <2>1, StepNames, ExecutionUpdates DEF TypeExec
  <2> QED BY <2>2, <2>3 DEF TypeExec
<1> QED BY <1>1, <1>2, <1>3

(* A native run settles (SettleNative): the types. *)
LEMMA SettleNative_Type ==
  ASSUME TypeOK, Settling, Displacing, NEW r \in Runs, SettleNative(r)
  PROVE  TypeOK'
<1> USE DEF SettleNative, TypeOK, vars, store, claim, Rest
<1>1. TypeThread' /\ TypeClaim' /\ TypeRequests'
  BY DEF TypeThread, TypeClaim, TypeRequests
<1>2. TypeStore'
  <2>1. exec[r].out \in Terminal
    BY DEF Settling
  <2>2. CASE Exists(r)
    BY <2>1, <2>2, SettleOK DEF TypeStore
  <2>3. CASE ~Exists(r)
    <3>1. <<exec[r].out>> \in Seq(Terminal)
      BY <2>1
    <3>2. UNCHANGED calls \/ calls' = [calls EXCEPT ![r] = <<exec[r].out>>]
      BY <2>3
    <3>3. UNCHANGED <<row, order, plan, stored, admitted>>
      BY <2>3
    <3> HIDE DEF SettleNative
    <3> QED BY <3>1, <3>2, <3>3 DEF TypeStore
  <2> QED BY <2>2, <2>3
<1>3. TypeExec'
  <2>1. exec[r].out \in Terminal
    BY DEF Settling
  <2>2. CASE Exists(r)
    <3>1. row'[r] \in Terminal
      BY <2>1, <2>2 DEF TypeStore, Settle, Exists, RowStatus
    <3> QED BY <2>2, <3>1, StepNames, StatusNames DEF TypeExec, Execution
  <2>3. CASE ~Exists(r)
    BY <2>1, <2>3, StepNames, StatusNames DEF TypeExec, Execution
  <2> QED BY <2>2, <2>3
<1> QED BY <1>1, <1>2, <1>3

(* The thread's status is mirrored (Mirror): the types. *)
LEMMA Mirror_Type ==
  ASSUME TypeOK, Settling, Displacing, NEW r \in Runs, Mirror(r)
  PROVE  TypeOK'
<1> USE DEF Mirror, TypeOK, vars, store, claim, Rest
<1>1. TypeStore' /\ TypeClaim' /\ TypeRequests'
  BY DEF TypeStore, TypeClaim, TypeRequests
<1>2. TypeThread'
  <2>1. Mirrored(r) \in {"idle", "busy", "interrupted", "error"}
    <3>1. exec[r].out \in Terminal /\ exec[r].eff \in Terminal /\ exec[r].mode # "none"
      BY DEF Settling
    <3>2. ThreadStatusFor[exec[r].out] \in {"idle", "interrupted", "error"}
      BY <3>1 DEF ThreadStatusFor, Terminal
    <3>3. exec[r].mode \in Modes \ {"none"}
      BY <3>1 DEF TypeExec, Execution
    <3> QED BY <3>2, <3>3 DEF Mirrored, Modes, TypeThread
  <2> QED BY <2>1 DEF TypeThread
<1>3. TypeExec'
  BY StepNames, GotoOK, ThrowOK
<1> QED BY <1>1, <1>2, <1>3

(* The bus closes and the claim is left (Close): the types. *)
LEMMA Close_Type ==
  ASSUME TypeOK, Settling, Displacing, NEW r \in Runs, Close(r)
  PROVE  TypeOK'
<1> USE DEF Close, TypeOK, vars, store, claim, Rest
<1>1. TypeStore' /\ TypeRequests'
  BY DEF TypeStore, TypeRequests
<1>2. TypeThread'
  BY DEF TypeThread
<1>3. TypeClaim'
  BY DEF TypeClaim, Release
<1>4. TypeExec'
  BY Fresh DEF TypeExec
<1> QED BY <1>1, <1>2, <1>3, <1>4

(* The run's timer fires (Timeout): the types. *)
LEMMA Timeout_Type ==
  ASSUME TypeOK, Settling, Displacing, NEW r \in Runs, Timeout(r)
  PROVE  TypeOK'
<1> USE DEF Timeout, TypeOK, vars, store, claim, Rest
<1>1. TypeStore' /\ TypeThread' /\ TypeClaim' /\ TypeRequests'
  BY DEF TypeStore, TypeThread, TypeClaim, TypeRequests
<1>2. TypeExec'
  BY StatusNames, AbortedOK DEF TypeExec
<1> QED BY <1>1, <1>2

(* The execution polls its row (Observe): the types. *)
LEMMA Observe_Type ==
  ASSUME TypeOK, Settling, Displacing, NEW r \in Runs, Observe(r)
  PROVE  TypeOK'
<1> USE DEF Observe, TypeOK, vars, store, claim, Rest
<1>1. TypeStore' /\ TypeThread' /\ TypeClaim' /\ TypeRequests'
  BY DEF TypeStore, TypeThread, TypeClaim, TypeRequests
<1>2. TypeExec'
  <2>1. PICK why \in Reasons : exec' = Aborted(r, why)
    BY StatusNames
  <2> QED BY <2>1, AbortedOK DEF TypeExec
<1> QED BY <1>1, <1>2

(* A reject creation inserts (CreateIfIdle): the types. *)
LEMMA CreateIfIdle_Type ==
  ASSUME TypeOK, Settling, Displacing, NEW c \in Runs, NEW i \in Instances, CreateIfIdle(c, i)
  PROVE  TypeOK'
<1> USE DEF CreateIfIdle, TypeOK, vars, store, claim
<1>1. TypeThread' /\ TypeClaim'
  BY DEF TypeThread, TypeClaim
<1>2. TypeStore'
  BY StatusNames DEF TypeStore, Insert
<1>3. TypeExec'
  BY Fresh, StatusNames DEF TypeExec, Insert
<1>4. TypeRequests'
  BY Fresh DEF TypeRequests
<1> QED BY <1>1, <1>2, <1>3, <1>4

(* A creation lists the active runs (ListActive): the types. *)
LEMMA ListActive_Type ==
  ASSUME TypeOK, Settling, Displacing, NEW c \in Runs, NEW i \in Instances, NEW s \in Strategies, ListActive(c, i, s)
  PROVE  TypeOK'
<1> USE DEF ListActive, TypeOK, vars, store, claim
<1>1. TypeStore' /\ TypeThread' /\ TypeClaim' /\ TypeExec'
  BY DEF TypeStore, TypeThread, TypeClaim, TypeExec
<1>2. TypeRequests'
  <2> DEFINE e == [NoCreation EXCEPT
          !.pc = CASE ActiveRuns = {} \/ s = "enqueue" -> "insert"
                   [] s = "rollback" -> "bases"
                   [] s = "interrupt" -> IF c \in Native THEN "insert" ELSE "displace",
          !.at = i, !.by = s,
          !.todo = IF s = "enqueue" THEN {} ELSE ActiveRuns,
          !.seen = [r \in Runs |-> IF r \in ActiveRuns THEN row[r] ELSE "none"]]
  <2>1. s \in {"interrupt", "rollback", "enqueue"}
    BY ConstantsAssumption
  <2>2. e.pc \in CreateSteps
    BY <2>1, StepNames DEF NoCreation
  <2>3. e \in Creation
    BY <2>2, StatusNames DEF Creation, NoCreation, ActiveRuns
  <2> QED BY <2>3 DEF TypeRequests
<1> QED BY <1>1, <1>2

(* A rollback reads its base (ReadBases): the types. *)
LEMMA ReadBases_Type ==
  ASSUME TypeOK, Settling, Displacing, NEW c \in Runs, ReadBases(c)
  PROVE  TypeOK'
<1> USE DEF ReadBases, TypeOK, vars, store, claim
<1>1. TypeStore' /\ TypeThread' /\ TypeClaim' /\ TypeExec'
  BY DEF TypeStore, TypeThread, TypeClaim, TypeExec
<1>2. TypeRequests'
  <2> DEFINE next == IF c \in Native THEN "insert" ELSE "displace"
  <2>1. PICK base \in Recorded : creator' = [creator EXCEPT ![c].revert = base, ![c].pc = next]
    OBVIOUS
  <2>2. next \in CreateSteps
    BY StepNames
  <2> HIDE DEF next
  <2>3. [creator[c] EXCEPT !.revert = base, !.pc = next] \in Creation
    BY <2>2, CreationUpdates DEF TypeRequests
  <2> QED BY <2>1, <2>3 DEF TypeRequests
<1> QED BY <1>1, <1>2

(* A displaced row is written (DisplaceRow): the types. *)
LEMMA DisplaceRow_Type ==
  ASSUME TypeOK, Settling, Displacing, NEW c \in Runs, DisplaceRow(c)
  PROVE  TypeOK'
<1> USE DEF DisplaceRow, TypeOK, vars, store, claim
<1>1. TypeThread' /\ TypeClaim' /\ TypeExec'
  BY DEF TypeThread, TypeClaim, TypeExec
<1>2. TypeStore'
  <2>1. DisplacedStatus(c) \in Terminal
    BY StatusNames DEF DisplacedStatus
  <2>2. PICK d \in Runs : \/ UNCHANGED <<row, calls>>
                          \/ Exists(d) /\ Settle({d}, DisplacedStatus(c))
                          \/ SetStatus(d, DisplacedStatus(c))
    OBVIOUS
  <2> QED BY <2>1, <2>2, StatusNames, SettleOK, SetStatusOK DEF TypeStore
<1>3. TypeRequests'
  <2>1. [creator[c] EXCEPT !.pc = "stop"] \in Creation
    BY StepNames, CreationUpdates DEF TypeRequests
  <2>2. creator' \in {[creator EXCEPT ![c] = Created], [creator EXCEPT ![c].pc = "stop"]}
    OBVIOUS
  <2> QED BY <2>1, <2>2, Fresh DEF TypeRequests
<1> QED BY <1>1, <1>2, <1>3

(* A displaced run is signalled (DisplaceStop): the types. *)
LEMMA DisplaceStop_Type ==
  ASSUME TypeOK, Settling, Displacing, NEW c \in Runs, DisplaceStop(c)
  PROVE  TypeOK'
<1> USE DEF DisplaceStop, TypeOK, vars, store, claim
<1>1. TypeStore' /\ TypeClaim'
  BY DEF TypeStore, TypeClaim
<1>2. TypeThread'
  <2>1. PICK d \in Runs : /\ NextDisplaced(d, c) /\ Abort(d, creator[c].by, creator[c].at)
                          /\ UNCHANGED closed \/ CloseIfPending(d, creator[c].seen[d])
    OBVIOUS
  <2>2. creator[c].by \in Reasons
    BY <2>1, StatusNames DEF Displacing, NextDisplaced
  <2> QED BY <2>1, <2>2, AbortOK DEF TypeThread, CloseIfPending
<1>3. TypeExec'
  <2>1. PICK d \in Runs : NextDisplaced(d, c) /\ Abort(d, creator[c].by, creator[c].at)
    OBVIOUS
  <2>2. creator[c].by \in Reasons
    BY <2>1, StatusNames DEF Displacing, NextDisplaced
  <2> QED BY <2>1, <2>2, AbortOK DEF TypeThread
<1>4. TypeRequests'
  <2>1. PICK left \in SUBSET Runs, pc \in CreateSteps :
          creator' \in {[creator EXCEPT ![c] = Created],
                       [creator EXCEPT ![c] = [@ EXCEPT !.todo = left, !.pc = pc]]}
    BY StepNames DEF TypeRequests, Creation
  <2>2. [creator[c] EXCEPT !.todo = left, !.pc = pc] \in Creation
    BY CreationUpdates DEF TypeRequests
  <2>3. UNCHANGED <<canceller, deleter>>
    OBVIOUS
  <2> HIDE DEF DisplaceStop
  <2>4. creator' \in [Runs -> Creation]
    BY <2>1, <2>2, Fresh DEF TypeRequests
  <2> QED BY <2>3, <2>4 DEF TypeRequests
<1> QED BY <1>1, <1>2, <1>3, <1>4

(* A creation inserts its row (InsertRow): the types. *)
LEMMA InsertRow_Type ==
  ASSUME TypeOK, Settling, Displacing, NEW c \in Runs, InsertRow(c)
  PROVE  TypeOK'
<1> USE DEF InsertRow, TypeOK, vars, store, claim
<1>1. TypeThread' /\ TypeClaim'
  BY DEF TypeThread, TypeClaim
<1>2. TypeStore'
  <2>1. PlanOf(c) \in [revert: Recorded, rows: SUBSET Runs]
    BY PlanOK
  <2> QED BY <2>1, StatusNames DEF TypeStore, Insert
<1>3. TypeExec'
  <2>1. creator[c].at \in Places
    BY DEF TypeRequests, Creation
  <2> QED BY <2>1, Fresh DEF TypeExec, Insert
<1>4. TypeRequests'
  BY Fresh DEF TypeRequests
<1> QED BY <1>1, <1>2, <1>3, <1>4

(* Admission displaces and inserts at once (Admit): the types. *)
LEMMA Admit_Type ==
  ASSUME TypeOK, Settling, Displacing, NEW c \in Runs, Admit(c)
  PROVE  TypeOK'
<1> USE DEF Admit, TypeOK, vars, store, claim
<1>1. TypeThread' /\ TypeClaim'
  BY DEF TypeThread, TypeClaim
<1>2. TypeStore'
  <2> DEFINE gone == creator[c].todo
             told == [r \in Runs |-> IF r \in gone \cap Native \cap Webhook /\ calls[r] = <<>>
                                    THEN <<DisplacedStatus(c)>> ELSE calls[r]]
  <2>1. PlanOf(c) \in [revert: Recorded, rows: SUBSET Runs]
    BY PlanOK
  <2>2. DisplacedStatus(c) \in Terminal
    BY StatusNames DEF DisplacedStatus
  <2>3. <<DisplacedStatus(c)>> \in Seq(Terminal)
    BY <2>2
  <2>4. row' \in [Runs -> RowStatus]
    BY <2>2, StatusNames DEF TypeStore
  <2>5. told \in [Runs -> Seq(Terminal)]
    BY <2>3 DEF TypeStore
  <2>6. calls' \in {calls, told}
    OBVIOUS
  <2>7. gone \subseteq Runs
    BY DEF TypeRequests, Creation
  <2>8. /\ admitted' \in {admitted, admitted \cup gone \cup {c}}
        /\ plan' \in {plan, [plan EXCEPT ![c] = PlanOf(c)]}
        /\ order' \in {order, Append(order, c)}
        /\ stored' = stored
    BY DEF Insert
  <2> HIDE DEF Admit, gone, told
  <2>9. order' \in Seq(Runs)
    <3>1. order \in Seq(Runs) /\ Append(order, c) \in Seq(Runs)
      BY DEF TypeStore
    <3> QED BY <2>8, <3>1
  <2>10. plan' \in [Runs -> [revert: Recorded, rows: SUBSET Runs]]
    BY <2>1, <2>8 DEF TypeStore
  <2>11. admitted' \subseteq Runs
    BY <2>7, <2>8 DEF TypeStore
  <2>12. calls' \in [Runs -> Seq(Terminal)]
    BY <2>5, <2>6 DEF TypeStore
  <2> QED BY <2>4, <2>8, <2>9, <2>10, <2>11, <2>12 DEF TypeStore
<1>3. TypeExec'
  <2>1. creator[c].at \in Places
    BY DEF TypeRequests, Creation
  <2>2. \/ UNCHANGED exec
        \/ exec' = [exec EXCEPT ![c] = [NoExecution EXCEPT !.pc = "prepared", !.at = creator[c].at]]
    BY DEF Insert
  <2> QED BY <2>1, <2>2, Fresh DEF TypeExec
<1>4. TypeRequests'
  <2>1. [creator[c] EXCEPT !.pc = "stop"] \in Creation
    BY StepNames, CreationUpdates DEF TypeRequests
  <2>2. creator' \in {[creator EXCEPT ![c] = Created], [creator EXCEPT ![c].pc = "stop"]}
    OBVIOUS
  <2>3. UNCHANGED <<canceller, deleter>>
    OBVIOUS
  <2> HIDE DEF Admit
  <2> QED BY <2>1, <2>2, <2>3, Fresh DEF TypeRequests
<1> QED BY <1>1, <1>2, <1>3, <1>4

(* A cancel reads the row (CancelRead): the types. *)
LEMMA CancelRead_Type ==
  ASSUME TypeOK, Settling, Displacing, NEW r \in Runs, NEW i \in Instances, NEW m \in CancelModes, CancelRead(r, i, m)
  PROVE  TypeOK'
<1> USE DEF CancelRead, TypeOK, vars, store, claim
<1>1. TypeStore' /\ TypeThread' /\ TypeClaim' /\ TypeExec'
  BY DEF TypeStore, TypeThread, TypeClaim, TypeExec
<1>2. TypeRequests'
  BY StepNames, StatusNames DEF TypeRequests, Cancellation
<1> QED BY <1>1, <1>2

(* A cancel reads the base (CancelBase): the types. *)
LEMMA CancelBase_Type ==
  ASSUME TypeOK, Settling, Displacing, NEW r \in Runs, CancelBase(r)
  PROVE  TypeOK'
<1> USE DEF CancelBase, TypeOK, vars, store, claim
<1>1. TypeStore' /\ TypeThread' /\ TypeClaim' /\ TypeExec'
  BY DEF TypeStore, TypeThread, TypeClaim, TypeExec
<1>2. TypeRequests'
  <2>1. ReadBase(r, canceller[r].at) \in Recorded
    BY ReadBaseOK
  <2> QED BY <2>1, StepNames, CancellationUpdates DEF TypeRequests
<1> QED BY <1>1, <1>2

(* A cancel writes the row (CancelWrite): the types. *)
LEMMA CancelWrite_Type ==
  ASSUME TypeOK, Settling, Displacing, NEW r \in Runs, CancelWrite(r)
  PROVE  TypeOK'
<1> USE DEF CancelWrite, TypeOK, vars, store, claim
<1>1. TypeThread' /\ TypeClaim' /\ TypeExec'
  BY DEF TypeThread, TypeClaim, TypeExec
<1>2. TypeStore'
  <2>1. \/ UNCHANGED <<row, calls>>
        \/ Exists(r) /\ Settle({r}, "cancelled")
        \/ SetStatus(r, "cancelled")
    OBVIOUS
  <2> QED BY <2>1, StatusNames, SettleOK, SetStatusOK DEF TypeStore
<1>3. TypeRequests'
  BY StepNames, CancelGotoOK DEF TypeRequests
<1> QED BY <1>1, <1>2, <1>3

(* A cancel turns the thread idle (CancelIdle): the types. *)
LEMMA CancelIdle_Type ==
  ASSUME TypeOK, Settling, Displacing, NEW r \in Runs, CancelIdle(r)
  PROVE  TypeOK'
<1> USE DEF CancelIdle, TypeOK, vars, store, claim
<1>1. TypeStore' /\ TypeClaim' /\ TypeExec'
  BY DEF TypeStore, TypeClaim, TypeExec
<1>2. TypeThread'
  BY DEF TypeThread
<1>3. TypeRequests'
  BY StepNames, CancelGotoOK DEF TypeRequests
<1> QED BY <1>1, <1>2, <1>3

(* A cancel signals and may wait for the claim (CancelAbort): the types. *)
LEMMA CancelAbort_Type ==
  ASSUME TypeOK, Settling, Displacing, NEW r \in Runs, CancelAbort(r)
  PROVE  TypeOK'
<1> USE DEF CancelAbort, TypeOK, vars, store, claim
<1>1. TypeStore'
  BY DEF TypeStore
<1>2. TypeThread'
  <2>1. PICK why \in Reasons : Abort(r, why, canceller[r].at)
    BY StatusNames
  <2>2. mail' \subseteq Runs \X Reasons
    BY <2>1, AbortOK DEF TypeThread
  <2> QED BY <2>2 DEF TypeThread, CloseIfPending
<1>3. TypeClaim'
  BY AwaitOK DEF TypeClaim
<1>4. TypeExec'
  <2>1. PICK why \in Reasons : Abort(r, why, canceller[r].at)
    BY StatusNames
  <2> QED BY <2>1, AbortOK DEF TypeThread
<1>5. TypeRequests'
  BY StepNames, CancelGotoOK DEF TypeRequests
<1> QED BY <1>1, <1>2, <1>3, <1>4, <1>5

(* A cancel rolls back under the claim (CancelClaimed): the types. *)
LEMMA CancelClaimed_Type ==
  ASSUME TypeOK, Settling, Displacing, NEW r \in Runs, CancelClaimed(r)
  PROVE  TypeOK'
<1> USE DEF CancelClaimed, TypeOK, vars, store, claim
<1>1. TypeExec'
  BY DEF TypeExec
<1>2. TypeStore'
  <2>1. UNCHANGED <<order, plan, stored, admitted>>
    OBVIOUS
  <2>2. UNCHANGED calls /\ row' \in {row, [row EXCEPT ![r] = "deleted"]}
    OBVIOUS
  <2> HIDE DEF CancelClaimed
  <2> QED BY <2>1, <2>2, StatusNames DEF TypeStore
<1>3. TypeThread'
  BY Reverted DEF TypeThread
<1>4. TypeClaim'
  BY DEF TypeClaim, Release
<1>5. TypeRequests'
  BY StepNames, CancelGotoOK DEF TypeRequests
<1> QED BY <1>1, <1>2, <1>3, <1>4, <1>5

(* A delete signals (DeleteAbort): the types. *)
LEMMA DeleteAbort_Type ==
  ASSUME TypeOK, Settling, Displacing, NEW r \in Runs, NEW i \in Instances, DeleteAbort(r, i)
  PROVE  TypeOK'
<1> USE DEF DeleteAbort, TypeOK, vars, store, claim
<1>1. TypeStore' /\ TypeClaim'
  BY DEF TypeStore, TypeClaim
<1>2. TypeThread'
  BY AbortOK, StatusNames DEF TypeThread
<1>3. TypeExec'
  BY AbortOK, StatusNames DEF TypeThread
<1>4. TypeRequests'
  BY DEF TypeRequests
<1> QED BY <1>1, <1>2, <1>3, <1>4

(* A delete drops the row (DeleteRow): the types. *)
LEMMA DeleteRow_Type ==
  ASSUME TypeOK, Settling, Displacing, NEW r \in Runs, DeleteRow(r)
  PROVE  TypeOK'
<1> USE DEF DeleteRow, TypeOK, vars, store, claim
<1>1. TypeThread' /\ TypeClaim' /\ TypeExec'
  BY DEF TypeThread, TypeClaim, TypeExec
<1>2. TypeStore'
  BY StatusNames DEF TypeStore
<1>3. TypeRequests'
  BY DEF TypeRequests
<1> QED BY <1>1, <1>2, <1>3

(* The channel delivers an abort (DeliverAbort): the types. *)
LEMMA DeliverAbort_Type ==
  ASSUME TypeOK, Settling, Displacing, NEW r \in Runs, NEW why \in Reasons, DeliverAbort(r, why)
  PROVE  TypeOK'
<1> USE DEF DeliverAbort, TypeOK, vars, store, claim
<1>1. TypeStore' /\ TypeClaim' /\ TypeRequests'
  BY DEF TypeStore, TypeClaim, TypeRequests
<1>2. TypeThread'
  BY DEF TypeThread
<1>3. TypeExec'
  BY AbortedOK DEF TypeExec
<1> QED BY <1>1, <1>2, <1>3

(* The claim goes to a waiting task (Acquire): the types. *)
LEMMA Acquire_Type ==
  ASSUME TypeOK, Settling, Displacing, NEW i \in Instances, Acquire(i)
  PROVE  TypeOK'
<1> USE DEF Acquire, TypeOK, vars, store, claim
<1>1. TypeStore' /\ TypeThread'
  BY DEF TypeStore, TypeThread
<1>2. TypeClaim'
  <2>1. queue[i] \in Seq(Tasks) /\ queue[i] # <<>>
    BY DEF TypeClaim
  <2>2. Head(queue[i]) \in Tasks /\ Tail(queue[i]) \in Seq(Tasks)
    BY <2>1
  <2> QED BY <2>2 DEF TypeClaim
<1>3. TypeExec'
  <2> DEFINE r == Head(queue[i])[2]
  <2>1. exec' \in {exec, [exec EXCEPT ![r].pc = "claimed"]}
    OBVIOUS
  <2> HIDE DEF r
  <2>2. r \in Runs => [exec[r] EXCEPT !.pc = "claimed"] \in Execution
    BY StepNames, ExecutionUpdates DEF TypeExec
  <2> QED BY <2>1, <2>2 DEF TypeExec
<1>4. TypeRequests'
  <2> DEFINE r == Head(queue[i])[2]
  <2>1. canceller' \in {canceller, [canceller EXCEPT ![r].pc = "claimed"]}
    OBVIOUS
  <2> HIDE DEF r
  <2>2. r \in Runs => [canceller[r] EXCEPT !.pc = "claimed"] \in Cancellation
    BY StepNames, CancellationUpdates DEF TypeRequests
  <2> QED BY <2>1, <2>2 DEF TypeRequests
<1> QED BY <1>1, <1>2, <1>3, <1>4

(* A worker takes a job (Pull): the types. *)
LEMMA Pull_Type ==
  ASSUME TypeOK, Settling, Displacing, NEW r \in Runs, NEW i \in Instances, Pull(r, i)
  PROVE  TypeOK'
<1> USE DEF Pull, ClaimFree, TypeOK, vars, store, claim, Rest
<1>1. TypeStore' /\ TypeThread' /\ TypeRequests'
  BY DEF TypeStore, TypeThread, TypeRequests
<1>2. TypeClaim'
  <2>1. <<"run", r>> \in Tasks
    BY DEF Tasks
  <2> QED BY <2>1 DEF TypeClaim
<1>3. TypeExec'
  <2>1. [exec[r] EXCEPT !.pc = "claimed", !.at = i] \in Execution
    BY StepNames, StatusNames, ExecutionUpdates DEF TypeExec
  <2>2. \/ Goto(r, "done")
        \/ exec' = [exec EXCEPT ![r].pc = "claimed", ![r].at = i]
    OBVIOUS
  <2> QED BY <2>1, <2>2, StepNames, GotoOK DEF TypeExec
<1> QED BY <1>1, <1>2, <1>3

(* A process dies (Crash): the types. *)
LEMMA Crash_Type ==
  ASSUME TypeOK, Settling, Displacing, NEW i \in Instances, Crash(i)
  PROVE  TypeOK'
<1> USE DEF Crash, TypeOK, vars, store, claim
<1>1. TypeStore'
  BY DEF TypeStore
<1>2. TypeThread'
  BY ConstantsAssumption DEF TypeThread
<1>3. TypeClaim'
  BY DEF TypeClaim
<1>4. TypeExec'
  <2>1. \A pc \in Steps : [NoExecution EXCEPT !.pc = pc] \in Execution
    BY Fresh DEF Execution
  <2> QED BY <2>1, StepNames DEF TypeExec
<1>5. TypeRequests'
  <2>1. \A r \in Runs : [canceller[r] EXCEPT !.pc = "lost"] \in Cancellation
    BY StepNames DEF TypeRequests, Cancellation
  <2> QED BY <2>1, Fresh DEF TypeRequests
<1> QED BY <1>1, <1>2, <1>3, <1>4, <1>5

-----------------------------------------------------------------------------
(* The same actions keep what the types rest on, and the claim exclusive.    *)

(* An inline run queues on the claim (StartInline): the claim and what settles. *)
LEMMA StartInline_Inv ==
  ASSUME TypeOK, Settling, Displacing, Claimed,
         NEW r \in Runs, StartInline(r)
  PROVE  Settling' /\ Displacing' /\ Claimed'
<1> USE DEF StartInline, vars, store, claim, Rest
<1>1. Displacing'
  BY DEF Displacing
<1>2. Settling'
  BY DEF Settling, TypeOK, TypeExec, Execution, Goto
<1>3. Claimed'
  BY HoldingNames DEF Claimed, TypeOK, TypeExec, Execution, Goto, Await
<1> QED BY <1>1, <1>2, <1>3

(* A background run goes to the queue (Enqueue): the claim and what settles. *)
LEMMA Enqueue_Inv ==
  ASSUME TypeOK, Settling, Displacing, Claimed,
         NEW r \in Runs, Enqueue(r)
  PROVE  Settling' /\ Displacing' /\ Claimed'
<1> USE DEF Enqueue, vars, store, claim, Rest
<1>1. Displacing'
  BY DEF Displacing
<1>2. Settling'
  BY DEF Settling, TypeOK, TypeExec, Execution
<1>3. Claimed'
  BY HoldingNames DEF Claimed, TypeOK, TypeExec, Execution
<1> QED BY <1>1, <1>2, <1>3

(* The row is reread under the claim (Reread): the claim and what settles. *)
LEMMA Reread_Inv ==
  ASSUME TypeOK, Settling, Displacing, Claimed,
         NEW r \in Runs, Reread(r)
  PROVE  Settling' /\ Displacing' /\ Claimed'
<1> USE DEF Reread, vars, store, claim, Rest
<1>1. Displacing'
  BY DEF Displacing
<1>2. Settling'
  <2>1. PICK pc \in {"revert", "check", "done"} :
          Goto(r, pc) \/ exec' = [exec EXCEPT ![r] = [NoExecution EXCEPT !.pc = "done"]]
    OBVIOUS
  <2> QED BY <2>1, GotoSettling DEF TypeOK, TypeExec, Settling, NoExecution
<1>3. Claimed'
  <2>1. exec[r].pc \in Holding
    BY HoldingNames
  <2>2. CASE row[r] \notin Active
    BY <2>1, <2>2, HoldingNames DEF Claimed, Release, NoExecution, TypeOK, TypeExec
  <2>3. CASE row[r] \in Active
    BY <2>1, <2>3, HoldingNames DEF Claimed, Goto, TypeOK, TypeExec, Execution
  <2> QED BY <2>2, <2>3
<1> QED BY <1>1, <1>2, <1>3

(* The rollback plan is applied (ApplyPlan): the claim and what settles. *)
LEMMA ApplyPlan_Inv ==
  ASSUME TypeOK, Settling, Displacing, Claimed,
         NEW r \in Runs, ApplyPlan(r)
  PROVE  Settling' /\ Displacing' /\ Claimed'
<1> USE DEF ApplyPlan, vars, store, claim, Rest
<1>1. Displacing'
  BY DEF Displacing
<1>2. Settling'
  BY DEF Settling, TypeOK, TypeExec, Execution, Goto, TypeStore
<1>3. Claimed'
  BY HoldingNames DEF Claimed, TypeOK, TypeExec, Execution, Goto
<1> QED BY <1>1, <1>2, <1>3

(* ExecuteRun looks at the row (Check): the claim and what settles. *)
LEMMA Check_Inv ==
  ASSUME TypeOK, Settling, Displacing, Claimed,
         NEW r \in Runs, Check(r)
  PROVE  Settling' /\ Displacing' /\ Claimed'
<1> USE DEF Check, vars, store, claim, Rest
<1>1. Displacing'
  BY DEF Displacing
<1>2. Settling'
  BY DEF Settling, TypeOK, TypeExec, Execution, Goto, TypeStore
<1>3. Claimed'
  BY HoldingNames DEF Claimed, TypeOK, TypeExec, Execution, Goto
<1> QED BY <1>1, <1>2, <1>3

(* The row is marked running (MarkRunning): the claim and what settles. *)
LEMMA MarkRunning_Inv ==
  ASSUME TypeOK, Settling, Displacing, Claimed,
         NEW r \in Runs, MarkRunning(r)
  PROVE  Settling' /\ Displacing' /\ Claimed'
<1> USE DEF MarkRunning, vars, store, claim, Rest
<1>1. Displacing'
  BY DEF Displacing
<1>2. Settling'
  <2>1. CASE Throw(r) \/ Goto(r, "close")
    BY <2>1, GotoSettling, ThrowSettling DEF TypeOK
  <2>2. CASE exec' = [exec EXCEPT ![r].pc = "busy", ![r].started = TRUE]
    BY <2>2 DEF Settling, TypeOK, TypeExec, Execution
  <2> QED BY <2>1, <2>2
<1>3. Claimed'
  BY HoldingNames DEF Claimed, TypeOK, TypeExec, Execution, Goto, Throw, Caught
<1> QED BY <1>1, <1>2, <1>3

(* The thread turns busy (MirrorBusy): the claim and what settles. *)
LEMMA MirrorBusy_Inv ==
  ASSUME TypeOK, Settling, Displacing, Claimed,
         NEW r \in Runs, MirrorBusy(r)
  PROVE  Settling' /\ Displacing' /\ Claimed'
<1> USE DEF MirrorBusy, vars, store, claim, Rest
<1>1. Displacing'
  BY DEF Displacing
<1>2. Settling'
  BY DEF Settling, TypeOK, TypeExec, Execution, Goto
<1>3. Claimed'
  BY HoldingNames DEF Claimed, TypeOK, TypeExec, Execution, Goto
<1> QED BY <1>1, <1>2, <1>3

(* The base checkpoint is noted (RecordBase): the claim and what settles. *)
LEMMA RecordBase_Inv ==
  ASSUME TypeOK, Settling, Displacing, Claimed,
         NEW r \in Runs, RecordBase(r)
  PROVE  Settling' /\ Displacing' /\ Claimed'
<1> USE DEF RecordBase, vars, store, claim, Rest
<1>1. Displacing'
  BY DEF Displacing
<1>2. Settling'
  BY DEF Settling, TypeOK, TypeExec, Execution
<1>3. Claimed'
  BY HoldingNames DEF Claimed, TypeOK, TypeExec, Execution
<1> QED BY <1>1, <1>2, <1>3

(* The noted base reaches the row's kwargs (PersistBase): the claim and what settles. *)
LEMMA PersistBase_Inv ==
  ASSUME TypeOK, Settling, Displacing, Claimed,
         NEW r \in Runs, PersistBase(r)
  PROVE  Settling' /\ Displacing' /\ Claimed'
<1> USE DEF PersistBase, vars, store, claim, Rest
<1>1. Settling' /\ Displacing' /\ Claimed'
  BY DEF Settling, Displacing, Claimed
<1> QED BY <1>1

(* The graph saves a checkpoint (GraphWrite): the claim and what settles. *)
LEMMA GraphWrite_Inv ==
  ASSUME TypeOK, Settling, Displacing, Claimed,
         NEW r \in Runs, GraphWrite(r)
  PROVE  Settling' /\ Displacing' /\ Claimed'
<1> USE DEF GraphWrite, vars, store, claim, Rest
<1>1. Settling' /\ Displacing' /\ Claimed'
  BY DEF Settling, Displacing, Claimed
<1> QED BY <1>1

(* The stream ends (GraphReturn): the claim and what settles. *)
LEMMA GraphReturn_Inv ==
  ASSUME TypeOK, Settling, Displacing, Claimed,
         NEW r \in Runs, GraphReturn(r)
  PROVE  Settling' /\ Displacing' /\ Claimed'
<1> USE DEF GraphReturn, vars, store, claim, Rest
<1>1. Displacing'
  BY DEF Displacing
<1>2. Settling'
  BY StatusNames DEF Settling, TypeOK, TypeExec, Execution, AbortedStatus
<1>3. Claimed'
  BY HoldingNames DEF Claimed, TypeOK, TypeExec, Execution
<1> QED BY <1>1, <1>2, <1>3

(* The stream throws (GraphThrow): the claim and what settles. *)
LEMMA GraphThrow_Inv ==
  ASSUME TypeOK, Settling, Displacing, Claimed,
         NEW r \in Runs, GraphThrow(r)
  PROVE  Settling' /\ Displacing' /\ Claimed'
<1> USE DEF GraphThrow, vars, store, claim, Rest
<1>1. Displacing'
  BY DEF Displacing
<1>2. Settling'
  BY StatusNames DEF Settling, TypeOK, TypeExec, Execution, Throw, Caught,
      AbortedStatus
<1>3. Claimed'
  BY HoldingNames DEF Claimed, TypeOK, TypeExec, Execution, Throw, Caught
<1> QED BY <1>1, <1>2, <1>3

(* FinalizeRun reads the row (FinalizeRead): the claim and what settles. *)
LEMMA FinalizeRead_Inv ==
  ASSUME TypeOK, Settling, Displacing, Claimed,
         NEW r \in Runs, FinalizeRead(r)
  PROVE  Settling' /\ Displacing' /\ Claimed'
<1> USE DEF FinalizeRead, vars, store, claim, Rest
<1>1. Displacing'
  BY DEF Displacing
<1>2. Settling'
  <2> DEFINE told == IF row[r] \in Terminal THEN row[r] ELSE exec[r].out
             next == IF row[r] \in Active THEN "write" ELSE "mirror"
  <2>1. told \in Terminal /\ exec[r].out \in Terminal /\ exec[r].mode # "none"
    BY DEF Settling
  <2>2. exec' = [exec EXCEPT ![r].pc = next, ![r].eff = told]
    OBVIOUS
  <2> HIDE DEF FinalizeRead, told, next
  <2> QED BY <2>1, <2>2 DEF Settling, TypeOK, TypeExec, Execution
<1>3. Claimed'
  BY HoldingNames DEF Claimed, TypeOK, TypeExec, Execution
<1> QED BY <1>1, <1>2, <1>3

(* FinalizeRun writes the row (FinalizeWrite): the claim and what settles. *)
LEMMA FinalizeWrite_Inv ==
  ASSUME TypeOK, Settling, Displacing, Claimed,
         NEW r \in Runs, FinalizeWrite(r)
  PROVE  Settling' /\ Displacing' /\ Claimed'
<1> USE DEF FinalizeWrite, vars, store, claim, Rest
<1>1. Displacing'
  BY DEF Displacing
<1>2. Settling'
  <2>1. CASE Throw(r)
    BY <2>1, ThrowSettling DEF TypeOK
  <2>2. CASE Exists(r) /\ SetStatus(r, exec[r].out) /\ Goto(r, "mirror")
    BY <2>2 DEF Settling, Goto, TypeOK, TypeExec, Execution
  <2> QED BY <2>1, <2>2
<1>3. Claimed'
  BY HoldingNames DEF Claimed, TypeOK, TypeExec, Execution, Goto, Throw, Caught
<1> QED BY <1>1, <1>2, <1>3

(* Row and callback are written together (FinalizeWithDelivery): the claim and what settles. *)
LEMMA FinalizeWithDelivery_Inv ==
  ASSUME TypeOK, Settling, Displacing, Claimed,
         NEW r \in Runs, FinalizeWithDelivery(r)
  PROVE  Settling' /\ Displacing' /\ Claimed'
<1> USE DEF FinalizeWithDelivery, vars, store, claim, Rest
<1>1. Displacing'
  BY DEF Displacing
<1>2. Settling'
  BY DEF Settling, TypeOK, TypeExec, Execution, TypeStore
<1>3. Claimed'
  BY HoldingNames DEF Claimed, TypeOK, TypeExec, Execution
<1> QED BY <1>1, <1>2, <1>3

(* A native run settles (SettleNative): the claim and what settles. *)
LEMMA SettleNative_Inv ==
  ASSUME TypeOK, Settling, Displacing, Claimed,
         NEW r \in Runs, SettleNative(r)
  PROVE  Settling' /\ Displacing' /\ Claimed'
<1> USE DEF SettleNative, vars, store, claim, Rest
<1>1. Displacing'
  BY DEF Displacing
<1>2. Settling'
  <2>1. exec[r].out \in Terminal /\ exec[r].mode # "none"
    BY DEF Settling
  <2>2. PICK eff \in Terminal : exec' = [exec EXCEPT ![r].pc = "mirror", ![r].eff = eff]
    <3>1. CASE Exists(r)
      BY <2>1, <3>1 DEF TypeOK, TypeStore, Settle, Exists, RowStatus
    <3> QED BY <2>1, <3>1
  <2> HIDE DEF SettleNative
  <2> QED BY <2>1, <2>2 DEF Settling, TypeOK, TypeExec, Execution
<1>3. Claimed'
  BY HoldingNames DEF Claimed, TypeOK, TypeExec, Execution
<1> QED BY <1>1, <1>2, <1>3

(* The thread's status is mirrored (Mirror): the claim and what settles. *)
LEMMA Mirror_Inv ==
  ASSUME TypeOK, Settling, Displacing, Claimed,
         NEW r \in Runs, Mirror(r)
  PROVE  Settling' /\ Displacing' /\ Claimed'
<1> USE DEF Mirror, vars, store, claim, Rest
<1>1. Displacing'
  BY DEF Displacing
<1>2. Settling'
  <2>1. Throw(r) \/ Goto(r, "close")
    OBVIOUS
  <2> QED BY <2>1, GotoSettling, ThrowSettling DEF TypeOK
<1>3. Claimed'
  BY HoldingNames DEF Claimed, TypeOK, TypeExec, Execution, Goto, Throw, Caught
<1> QED BY <1>1, <1>2, <1>3

(* The bus closes and the claim is left (Close): the claim and what settles. *)
LEMMA Close_Inv ==
  ASSUME TypeOK, Settling, Displacing, Claimed,
         NEW r \in Runs, Close(r)
  PROVE  Settling' /\ Displacing' /\ Claimed'
<1> USE DEF Close, vars, store, claim, Rest
<1>1. Displacing'
  BY DEF Displacing
<1>2. Settling'
  BY DEF Settling, TypeOK, TypeExec, Execution, NoExecution
<1>3. Claimed'
  BY HoldingNames DEF Claimed, TypeOK, TypeExec, Execution, NoExecution, Release
<1> QED BY <1>1, <1>2, <1>3

(* The run's timer fires (Timeout): the claim and what settles. *)
LEMMA Timeout_Inv ==
  ASSUME TypeOK, Settling, Displacing, Claimed,
         NEW r \in Runs, Timeout(r)
  PROVE  Settling' /\ Displacing' /\ Claimed'
<1> USE DEF Timeout, vars, store, claim, Rest
<1>1. Displacing'
  BY DEF Displacing
<1>2. Settling'
  BY DEF Settling, TypeOK, TypeExec, Execution, Aborted
<1>3. Claimed'
  BY HoldingNames DEF Claimed, TypeOK, TypeExec, Execution, Aborted
<1> QED BY <1>1, <1>2, <1>3

(* The execution polls its row (Observe): the claim and what settles. *)
LEMMA Observe_Inv ==
  ASSUME TypeOK, Settling, Displacing, Claimed,
         NEW r \in Runs, Observe(r)
  PROVE  Settling' /\ Displacing' /\ Claimed'
<1> USE DEF Observe, vars, store, claim, Rest
<1>1. Displacing'
  BY DEF Displacing
<1>2. Settling'
  BY DEF Settling, TypeOK, TypeExec, Execution, Aborted, TypeStore
<1>3. Claimed'
  BY HoldingNames DEF Claimed, TypeOK, TypeExec, Execution, Aborted
<1> QED BY <1>1, <1>2, <1>3

(* A reject creation inserts (CreateIfIdle): the claim and what settles. *)
LEMMA CreateIfIdle_Inv ==
  ASSUME TypeOK, Settling, Displacing, Claimed,
         NEW c \in Runs, NEW i \in Instances, CreateIfIdle(c, i)
  PROVE  Settling' /\ Displacing' /\ Claimed'
<1> USE DEF CreateIfIdle, vars, store, claim
<1>1. Settling'
  BY DEF Settling, TypeOK, TypeExec, Execution, Insert, NoExecution, TypeStore
<1>2. Displacing'
  BY DEF Displacing, TypeOK, TypeRequests, Creation, Created, NoCreation
<1>3. Claimed'
  BY HoldingNames DEF Claimed, TypeOK, TypeExec, Execution, Insert, NoExecution
<1> QED BY <1>1, <1>2, <1>3

(* A creation lists the active runs (ListActive): the claim and what settles. *)
LEMMA ListActive_Inv ==
  ASSUME TypeOK, Settling, Displacing, Claimed,
         NEW c \in Runs, NEW i \in Instances, NEW s \in Strategies, ListActive(c, i, s)
  PROVE  Settling' /\ Displacing' /\ Claimed'
<1> USE DEF ListActive, vars, store, claim
<1>1. Settling' /\ Claimed'
  BY DEF Settling, Claimed
<1>2. Displacing'
  <2>1. s = "enqueue" \/ s \in {"interrupt", "rollback"}
    BY ConstantsAssumption
  <2>2. /\ creator'[c].todo = IF s = "enqueue" THEN {} ELSE ActiveRuns
        /\ creator'[c].by = s
        /\ \A d \in Runs \ {c} : creator'[d] = creator[d]
    BY DEF TypeOK, TypeRequests, NoCreation
  <2> QED BY <2>1, <2>2 DEF Displacing
<1> QED BY <1>1, <1>2

(* A rollback reads its base (ReadBases): the claim and what settles. *)
LEMMA ReadBases_Inv ==
  ASSUME TypeOK, Settling, Displacing, Claimed,
         NEW c \in Runs, ReadBases(c)
  PROVE  Settling' /\ Displacing' /\ Claimed'
<1> USE DEF ReadBases, vars, store, claim
<1>1. Settling' /\ Claimed'
  BY DEF Settling, Claimed
<1>2. Displacing'
  BY DEF Displacing, TypeOK, TypeRequests, Creation
<1> QED BY <1>1, <1>2

(* A displaced row is written (DisplaceRow): the claim and what settles. *)
LEMMA DisplaceRow_Inv ==
  ASSUME TypeOK, Settling, Displacing, Claimed,
         NEW c \in Runs, DisplaceRow(c)
  PROVE  Settling' /\ Displacing' /\ Claimed'
<1> USE DEF DisplaceRow, vars, store, claim
<1>1. Settling' /\ Claimed'
  BY DEF Settling, Claimed
<1>2. Displacing'
  <2>1. creator' \in {[creator EXCEPT ![c] = Created], [creator EXCEPT ![c].pc = "stop"]}
    OBVIOUS
  <2> HIDE DEF DisplaceRow
  <2> QED BY <2>1, CreatorDisplacing DEF TypeOK
<1> QED BY <1>1, <1>2

(* A displaced run is signalled (DisplaceStop): the claim and what settles. *)
LEMMA DisplaceStop_Inv ==
  ASSUME TypeOK, Settling, Displacing, Claimed,
         NEW c \in Runs, DisplaceStop(c)
  PROVE  Settling' /\ Displacing' /\ Claimed'
<1> USE DEF DisplaceStop, vars, store, claim
<1>1. Settling'
  BY DEF Settling, TypeOK, TypeExec, Execution, Aborted, Abort
<1>2. Displacing'
  BY DEF Displacing, TypeOK, TypeRequests, Creation, Created, NoCreation
<1>3. Claimed'
  BY HoldingNames DEF Claimed, TypeOK, TypeExec, Execution, Aborted, Abort
<1> QED BY <1>1, <1>2, <1>3

(* A creation inserts its row (InsertRow): the claim and what settles. *)
LEMMA InsertRow_Inv ==
  ASSUME TypeOK, Settling, Displacing, Claimed,
         NEW c \in Runs, InsertRow(c)
  PROVE  Settling' /\ Displacing' /\ Claimed'
<1> USE DEF InsertRow, vars, store, claim
<1>1. Settling'
  BY DEF Settling, TypeOK, TypeExec, Execution, Insert, NoExecution, TypeStore
<1>2. Displacing'
  BY DEF Displacing, TypeOK, TypeRequests, Creation, Created, NoCreation
<1>3. Claimed'
  BY HoldingNames DEF Claimed, TypeOK, TypeExec, Execution, Insert, NoExecution
<1> QED BY <1>1, <1>2, <1>3

(* Admission displaces and inserts at once (Admit): the claim and what settles. *)
LEMMA Admit_Inv ==
  ASSUME TypeOK, Settling, Displacing, Claimed,
         NEW c \in Runs, Admit(c)
  PROVE  Settling' /\ Displacing' /\ Claimed'
<1> USE DEF Admit, vars, store, claim
<1>1. Settling'
  <2>1. \/ UNCHANGED exec
        \/ exec' = [exec EXCEPT ![c] = [NoExecution EXCEPT !.pc = "prepared", !.at = creator[c].at]]
    BY DEF Insert
  <2> HIDE DEF Admit
  <2>2. ASSUME NEW r \in Runs PROVE exec'[r] = exec[r] \/ exec'[r].pc = "prepared"
    BY <2>1 DEF NoExecution, TypeOK, TypeExec
  <2> QED BY <2>2 DEF Settling
<1>2. Displacing'
  <2>1. creator' \in {[creator EXCEPT ![c] = Created], [creator EXCEPT ![c].pc = "stop"]}
    OBVIOUS
  <2> HIDE DEF Admit
  <2> QED BY <2>1, CreatorDisplacing DEF TypeOK
<1>3. Claimed'
  <2>1. \/ UNCHANGED exec
        \/ exec' = [exec EXCEPT ![c] = [NoExecution EXCEPT !.pc = "prepared", !.at = creator[c].at]]
    BY DEF Insert
  <2>2. UNCHANGED <<holder, canceller>>
    OBVIOUS
  <2> HIDE DEF Admit
  <2>3. ASSUME NEW r \in Runs PROVE exec'[r].pc = exec[r].pc \/ exec'[r].pc = "prepared"
    BY <2>1 DEF NoExecution, TypeOK, TypeExec
  <2> QED BY <2>2, <2>3, HoldingNames DEF Claimed
<1> QED BY <1>1, <1>2, <1>3

(* A cancel reads the row (CancelRead): the claim and what settles. *)
LEMMA CancelRead_Inv ==
  ASSUME TypeOK, Settling, Displacing, Claimed,
         NEW r \in Runs, NEW i \in Instances, NEW m \in CancelModes, CancelRead(r, i, m)
  PROVE  Settling' /\ Displacing' /\ Claimed'
<1> USE DEF CancelRead, vars, store, claim
<1>1. Settling' /\ Displacing'
  BY DEF Settling, Displacing
<1>2. Claimed'
  BY DEF Claimed, TypeOK, TypeRequests, Cancellation, CancelAt
<1> QED BY <1>1, <1>2

(* A cancel reads the base (CancelBase): the claim and what settles. *)
LEMMA CancelBase_Inv ==
  ASSUME TypeOK, Settling, Displacing, Claimed,
         NEW r \in Runs, CancelBase(r)
  PROVE  Settling' /\ Displacing' /\ Claimed'
<1> USE DEF CancelBase, vars, store, claim
<1>1. Settling' /\ Displacing'
  BY DEF Settling, Displacing
<1>2. Claimed'
  BY DEF Claimed, TypeOK, TypeRequests, Cancellation, CancelAt
<1> QED BY <1>1, <1>2

(* A cancel writes the row (CancelWrite): the claim and what settles. *)
LEMMA CancelWrite_Inv ==
  ASSUME TypeOK, Settling, Displacing, Claimed,
         NEW r \in Runs, CancelWrite(r)
  PROVE  Settling' /\ Displacing' /\ Claimed'
<1> USE DEF CancelWrite, vars, store, claim
<1>1. Settling' /\ Displacing'
  BY DEF Settling, Displacing
<1>2. Claimed'
  <2>1. UNCHANGED <<exec, holder>> /\ (CancelGoto(r, "lost") \/ CancelGoto(r, "idle"))
    OBVIOUS
  <2> HIDE DEF CancelWrite
  <2> QED BY <2>1 DEF Claimed, CancelGoto, TypeOK, TypeRequests, Cancellation
<1> QED BY <1>1, <1>2

(* A cancel turns the thread idle (CancelIdle): the claim and what settles. *)
LEMMA CancelIdle_Inv ==
  ASSUME TypeOK, Settling, Displacing, Claimed,
         NEW r \in Runs, CancelIdle(r)
  PROVE  Settling' /\ Displacing' /\ Claimed'
<1> USE DEF CancelIdle, vars, store, claim
<1>1. Settling' /\ Displacing'
  BY DEF Settling, Displacing
<1>2. Claimed'
  BY DEF Claimed, TypeOK, TypeRequests, Cancellation, CancelGoto, CancelAt
<1> QED BY <1>1, <1>2

(* A cancel signals and may wait for the claim (CancelAbort): the claim and what settles. *)
LEMMA CancelAbort_Inv ==
  ASSUME TypeOK, Settling, Displacing, Claimed,
         NEW r \in Runs, CancelAbort(r)
  PROVE  Settling' /\ Displacing' /\ Claimed'
<1> USE DEF CancelAbort, vars, store, claim
<1>1. Displacing'
  BY DEF Displacing
<1>2. Settling'
  BY DEF Settling, TypeOK, TypeExec, Execution, Aborted, Abort
<1>3. Claimed'
  BY HoldingNames DEF Claimed, TypeOK, TypeExec, Execution, TypeRequests,
      Cancellation, Aborted, Abort, Await, CancelGoto, CancelAt
<1> QED BY <1>1, <1>2, <1>3

(* A cancel rolls back under the claim (CancelClaimed): the claim and what settles. *)
LEMMA CancelClaimed_Inv ==
  ASSUME TypeOK, Settling, Displacing, Claimed,
         NEW r \in Runs, CancelClaimed(r)
  PROVE  Settling' /\ Displacing' /\ Claimed'
<1> USE DEF CancelClaimed, vars, store, claim
<1>1. Settling' /\ Displacing'
  BY DEF Settling, Displacing
<1>2. Claimed'
  BY HoldingNames DEF Claimed, TypeOK, TypeRequests, Cancellation, Release,
      CancelGoto, CancelAt
<1> QED BY <1>1, <1>2

(* A delete signals (DeleteAbort): the claim and what settles. *)
LEMMA DeleteAbort_Inv ==
  ASSUME TypeOK, Settling, Displacing, Claimed,
         NEW r \in Runs, NEW i \in Instances, DeleteAbort(r, i)
  PROVE  Settling' /\ Displacing' /\ Claimed'
<1> USE DEF DeleteAbort, vars, store, claim
<1>1. Displacing'
  BY DEF Displacing
<1>2. Settling'
  BY DEF Settling, TypeOK, TypeExec, Execution, Aborted, Abort, TypeStore
<1>3. Claimed'
  BY HoldingNames DEF Claimed, TypeOK, TypeExec, Execution, Aborted, Abort
<1> QED BY <1>1, <1>2, <1>3

(* A delete drops the row (DeleteRow): the claim and what settles. *)
LEMMA DeleteRow_Inv ==
  ASSUME TypeOK, Settling, Displacing, Claimed,
         NEW r \in Runs, DeleteRow(r)
  PROVE  Settling' /\ Displacing' /\ Claimed'
<1> USE DEF DeleteRow, vars, store, claim
<1>1. Settling' /\ Displacing' /\ Claimed'
  BY DEF Settling, Displacing, Claimed
<1> QED BY <1>1

(* The channel delivers an abort (DeliverAbort): the claim and what settles. *)
LEMMA DeliverAbort_Inv ==
  ASSUME TypeOK, Settling, Displacing, Claimed,
         NEW r \in Runs, NEW why \in Reasons, DeliverAbort(r, why)
  PROVE  Settling' /\ Displacing' /\ Claimed'
<1> USE DEF DeliverAbort, vars, store, claim
<1>1. Displacing'
  BY DEF Displacing
<1>2. Settling'
  BY DEF Settling, TypeOK, TypeExec, Execution, Aborted
<1>3. Claimed'
  BY HoldingNames DEF Claimed, TypeOK, TypeExec, Execution, Aborted
<1> QED BY <1>1, <1>2, <1>3

(* The claim goes to a waiting task (Acquire): the claim and what settles. *)
LEMMA Acquire_Inv ==
  ASSUME TypeOK, Settling, Displacing, Claimed,
         NEW i \in Instances, Acquire(i)
  PROVE  Settling' /\ Displacing' /\ Claimed'
<1> USE DEF Acquire, vars, store, claim
<1>1. Displacing'
  BY DEF Displacing
<1>2. Settling'
  BY DEF Settling, TypeOK, TypeExec, Execution
<1>3. Claimed'
  <2> DEFINE task == Head(queue[i])
  <2>1. /\ holder = NoTask /\ holder' = task
        /\ exec' = IF task[1] = "run" THEN [exec EXCEPT ![task[2]].pc = "claimed"] ELSE exec
        /\ canceller' = IF task[1] = "cancel"
                        THEN [canceller EXCEPT ![task[2]].pc = "claimed"] ELSE canceller
    OBVIOUS
  <2>2. task \in Tasks
    BY DEF TypeOK, TypeClaim
  <2>3. PICK t \in {"run", "cancel"}, r \in Runs : task = <<t, r>>
    BY <2>2 DEF Tasks
  <2> HIDE DEF Acquire, task
  <2>4. /\ \A s \in Runs : exec[s].pc \notin Holding
        /\ \A s \in Runs : canceller[s].pc # "claimed"
    BY <2>1 DEF Claimed, NoTask
  <2>5. CASE t = "run"
    <3>1. exec' = [exec EXCEPT ![r].pc = "claimed"] /\ canceller' = canceller
      BY <2>1, <2>3, <2>5
    <3> QED BY <2>1, <2>3, <2>4, <2>5, <3>1 DEF Claimed, TypeOK, TypeExec, Execution
  <2>6. CASE t = "cancel"
    <3>1. exec' = exec /\ canceller' = [canceller EXCEPT ![r].pc = "claimed"]
      BY <2>1, <2>3, <2>6
    <3> QED BY <2>1, <2>3, <2>4, <2>6, <3>1 DEF Claimed, TypeOK, TypeRequests, Cancellation
  <2> QED BY <2>5, <2>6
<1> QED BY <1>1, <1>2, <1>3

(* A worker takes a job (Pull): the claim and what settles. *)
LEMMA Pull_Inv ==
  ASSUME TypeOK, Settling, Displacing, Claimed,
         NEW r \in Runs, NEW i \in Instances, Pull(r, i)
  PROVE  Settling' /\ Displacing' /\ Claimed'
<1> USE DEF Pull, ClaimFree, vars, store, claim, Rest
<1>1. Displacing'
  BY DEF Displacing
<1>2. Settling'
  <2>1. \/ Goto(r, "done")
        \/ exec' = [exec EXCEPT ![r].pc = "claimed", ![r].at = i]
    OBVIOUS
  <2> QED BY <2>1, GotoSettling DEF Settling, TypeOK, TypeExec, Execution
<1>3. Claimed'
  <2>1. CASE Goto(r, "done") /\ UNCHANGED claim
    BY <2>1, HoldingNames DEF Claimed, Goto, TypeOK, TypeExec, Execution
  <2>2. CASE /\ holder = NoTask /\ holder' = <<"run", r>>
             /\ exec' = [exec EXCEPT ![r].pc = "claimed", ![r].at = i]
    <3>1. /\ \A s \in Runs : exec[s].pc \notin Holding
          /\ \A s \in Runs : canceller[s].pc # "claimed"
      BY <2>2 DEF Claimed, NoTask
    <3> QED BY <2>2, <3>1 DEF Claimed, TypeOK, TypeExec, Execution
  <2> QED BY <2>1, <2>2
<1> QED BY <1>1, <1>2, <1>3

(* A process dies (Crash): the claim and what settles. *)
LEMMA Crash_Inv ==
  ASSUME TypeOK, Settling, Displacing, Claimed,
         NEW i \in Instances, Crash(i)
  PROVE  Settling' /\ Displacing' /\ Claimed'
<1> USE DEF Crash, vars, store, claim
<1>1. Settling'
  BY DEF Settling, TypeOK, TypeExec, Execution, NoExecution
<1>2. Displacing'
  BY DEF Displacing, TypeOK, TypeRequests, Creation, Created, NoCreation
<1>3. Claimed'
  <2>1. ASSUME NEW r \in Runs, exec'[r].pc \in Holding
        PROVE  holder' = <<"run", r>>
    <3>1. exec[r].at # i /\ exec'[r] = exec[r]
      BY <2>1, HoldingNames DEF NoExecution
    <3>2. holder = <<"run", r>>
      BY <2>1, <3>1 DEF Claimed
    <3> QED BY <3>1, <3>2 DEF TaskAt
  <2>2. ASSUME NEW r \in Runs, canceller'[r].pc = "claimed"
        PROVE  holder' = <<"cancel", r>>
    <3>1. canceller[r].at # i /\ canceller'[r] = canceller[r]
      BY <2>2 DEF TypeOK, TypeRequests, Cancellation
    <3>2. holder = <<"cancel", r>>
      BY <2>2, <3>1 DEF Claimed
    <3> QED BY <3>1, <3>2 DEF TaskAt
  <2> QED BY <2>1, <2>2 DEF Claimed
<1> QED BY <1>1, <1>2, <1>3

-----------------------------------------------------------------------------
(* Initially nothing exists.                                                 *)
LEMMA InitInv == Init => IInv
<1> SUFFICES ASSUME Init PROVE IInv
  OBVIOUS
<1> USE DEF Init
<1>1. TypeStore
  BY StatusNames DEF TypeStore, NoPlan
<1>2. TypeThread /\ TypeClaim
  BY ConstantsAssumption DEF TypeThread, TypeClaim
<1>3. TypeExec
  BY Fresh DEF TypeExec
<1>4. TypeRequests
  <2>1. NoCreation \in Creation /\ NoCancellation \in Cancellation
    BY StepNames, StatusNames DEF Creation, NoCreation, Cancellation, NoCancellation
  <2> QED BY <2>1 DEF TypeRequests
<1>5. Settling /\ Displacing
  BY DEF Settling, Displacing, NoExecution, NoCreation
<1>6. Claimed
  BY HoldingNames DEF Claimed, NoExecution, NoCancellation
<1> QED BY <1>1, <1>2, <1>3, <1>4, <1>5, <1>6 DEF IInv, TypeOK

(* Every step of requests, executions, the channel, the claim and crashes    *)
(* keeps the inductive invariant.                                            *)
LEMMA NextInv == IInv /\ [Next]_vars => IInv'
<1> SUFFICES ASSUME IInv, [Next]_vars PROVE IInv'
  OBVIOUS
<1> USE DEF IInv
<1>1. ASSUME NEW r \in Runs, EngineStep(r) PROVE IInv'
  <2>1. CASE \E i \in Instances : Pull(r, i)
    BY <2>1, Pull_Type, Pull_Inv
  <2>2. CASE \/ StartInline(r) \/ Enqueue(r) \/ Reread(r) \/ ApplyPlan(r) \/ Check(r)
             \/ MarkRunning(r) \/ MirrorBusy(r) \/ RecordBase(r)
    BY <2>2, StartInline_Type, StartInline_Inv, Enqueue_Type, Enqueue_Inv,
      Reread_Type, Reread_Inv, ApplyPlan_Type, ApplyPlan_Inv, Check_Type, Check_Inv,
      MarkRunning_Type, MarkRunning_Inv, MirrorBusy_Type, MirrorBusy_Inv,
      RecordBase_Type, RecordBase_Inv
  <2>3. CASE \/ GraphWrite(r) \/ GraphReturn(r) \/ GraphThrow(r) \/ FinalizeRead(r)
             \/ FinalizeWrite(r) \/ FinalizeWithDelivery(r) \/ SettleNative(r)
             \/ Mirror(r) \/ Close(r)
    BY <2>3, GraphWrite_Type, GraphWrite_Inv, GraphReturn_Type, GraphReturn_Inv,
      GraphThrow_Type, GraphThrow_Inv, FinalizeRead_Type, FinalizeRead_Inv,
      FinalizeWrite_Type, FinalizeWrite_Inv, FinalizeWithDelivery_Type,
      FinalizeWithDelivery_Inv, SettleNative_Type, SettleNative_Inv, Mirror_Type,
      Mirror_Inv, Close_Type, Close_Inv
  <2> QED BY <1>1, <2>1, <2>2, <2>3 DEF EngineStep
<1>2. ASSUME NEW c \in Runs, CreateStep(c) PROVE IInv'
  BY <1>2, ReadBases_Type, ReadBases_Inv, DisplaceRow_Type, DisplaceRow_Inv,
      DisplaceStop_Type, DisplaceStop_Inv, InsertRow_Type, InsertRow_Inv, Admit_Type,
      Admit_Inv DEF CreateStep
<1>3. ASSUME NEW r \in Runs, CancelStep(r) PROVE IInv'
  BY <1>3, CancelBase_Type, CancelBase_Inv, CancelWrite_Type, CancelWrite_Inv,
      CancelIdle_Type, CancelIdle_Inv, CancelAbort_Type, CancelAbort_Inv,
      CancelClaimed_Type, CancelClaimed_Inv DEF CancelStep
<1>4. ASSUME NEW r \in Runs, PersistBase(r) \/ Timeout(r) \/ Observe(r) \/ DeleteRow(r)
      PROVE  IInv'
  BY <1>4, PersistBase_Type, PersistBase_Inv, Timeout_Type, Timeout_Inv,
      Observe_Type, Observe_Inv, DeleteRow_Type, DeleteRow_Inv
<1>5. ASSUME NEW r \in Runs, NEW i \in Instances,
             \/ CreateIfIdle(r, i) \/ DeleteAbort(r, i)
             \/ \E s \in Strategies : ListActive(r, i, s)
             \/ \E m \in CancelModes : CancelRead(r, i, m)
      PROVE  IInv'
  BY <1>5, CreateIfIdle_Type, CreateIfIdle_Inv, DeleteAbort_Type, DeleteAbort_Inv,
      ListActive_Type, ListActive_Inv, CancelRead_Type, CancelRead_Inv
<1>6. ASSUME NEW r \in Runs, NEW why \in Reasons, DeliverAbort(r, why) PROVE IInv'
  BY <1>6, DeliverAbort_Type, DeliverAbort_Inv
<1>7. ASSUME NEW i \in Instances, Acquire(i) \/ Crash(i) PROVE IInv'
  BY <1>7, Acquire_Type, Acquire_Inv, Crash_Type, Crash_Inv
<1>8. CASE UNCHANGED vars
  BY <1>8 DEF vars, store, claim, TypeOK, TypeStore, TypeThread, TypeClaim, TypeExec,
              TypeRequests, Settling, Displacing, Claimed
<1> QED BY <1>1, <1>2, <1>3, <1>4, <1>5, <1>6, <1>7, <1>8 DEF Next

(* The inductive invariant holds of every execution of the system.           *)
THEOREM InductiveInvariant == Spec => []IInv
BY InitInv, NextInv, PTL DEF Spec

(* Type correctness: rows, histories, callbacks, claims, executions and      *)
(* requests keep their declared values whatever requests, workers, signals   *)
(* and crashes do.                                                           *)
THEOREM TypeCorrect == Spec => []TypeOK
<1>1. IInv => TypeOK
  BY DEF IInv
<1> QED BY <1>1, InductiveInvariant, PTL

(* The execution claim: two runs never execute on the thread at once, and    *)
(* none executes while a cancel rolls the thread's history back, for any     *)
(* number of processes and crashes.                                          *)
THEOREM ClaimIsExclusive == Spec => []ExclusiveExecution
<1>1. IInv => ExclusiveExecution
  <2> SUFFICES ASSUME IInv PROVE ExclusiveExecution
    OBVIOUS
  <2>1. ASSUME NEW r \in Runs, NEW s \in Runs, exec[r].pc \in Holding, exec[s].pc \in Holding
        PROVE  r = s
    <3>1. <<"run", r>> = <<"run", s>>
      BY <2>1 DEF IInv, Claimed
    <3> QED BY <3>1
  <2>2. ASSUME NEW r \in Runs, NEW s \in Runs, canceller[r].pc = "claimed"
        PROVE  exec[s].pc \notin Holding
    <3>1. SUFFICES ASSUME exec[s].pc \in Holding PROVE FALSE
      OBVIOUS
    <3>2. <<"run", s>> = <<"cancel", r>>
      BY <2>2, <3>1 DEF IInv, Claimed
    <3> QED BY <3>2
  <2> QED BY <2>1, <2>2 DEF ExclusiveExecution
<1> QED BY <1>1, InductiveInvariant, PTL

-----------------------------------------------------------------------------
(* How the runs end: what may still happen to a finished or deleted row, how   *)
(* often a run is notified, and that admitted runs keep RunContract.         *)

(* A creation that has not inserted its row yet.                             *)
Creating(c) ==
  \/ creator[c].pc \in {"none", "bases", "displace", "insert"}
  \/ creator[c].pc = "stop" /\ c \notin Native

(* Nothing is known of a run before its row is inserted.                     *)
Unborn == \A r \in Runs :
  /\ Creating(r) => row[r] = "absent"
  /\ row[r] = "absent" => /\ exec[r] = NoExecution /\ calls[r] = <<>>
                          /\ canceller[r] = NoCancellation /\ deleter[r] = "none"

(* The claim's queues hold each waiting task of their process once.          *)
Waiting == \A i \in Instances :
  /\ \A k, l \in 1..Len(queue[i]) : queue[i][k] = queue[i][l] => k = l
  /\ \A k \in 1..Len(queue[i]), r \in Runs :
       /\ queue[i][k] = <<"run", r>> => exec[r].pc = "waiting" /\ exec[r].at = i
       /\ queue[i][k] = <<"cancel", r>> =>
            canceller[r].pc = "waiting" /\ canceller[r].at = i

(* Native runs are known to admission and never take the non-native paths.   *)
Admissions == \A r \in Native :
  /\ row[r] # "absent" => r \in admitted
  /\ exec[r].pc # "write" /\ creator[r].pc # "displace"

(* The execution that recorded its run's callback goes on remembering it, or  *)
(* it is over; a queued one finds the row finished and ends.                 *)
Late == {"settle", "write", "mirror", "close"}
Answered(r) == exec[r].recorded \/ exec[r].pc \in {"queued", "done"}

(* A native run is told with its settlement; any other one by an execution   *)
(* that remembers it.                                                        *)
Callbacks ==
  /\ \A r \in Runs : calls[r] # <<>> => r \in Webhook
  /\ \A r \in Native : /\ Len(calls[r]) <= 1
                       /\ row[r] \in Active => calls[r] = <<>>
                       /\ row[r] \in Terminal /\ r \in Webhook => calls[r] # <<>>
  /\ \A r \in Runs : exec[r].recorded => exec[r].pc \in Late
  /\ \A r \in Runs \ Native : calls[r] # <<>> =>
       Len(calls[r]) = 1 /\ row[r] \notin Active /\ Answered(r)

Core == Unborn /\ Waiting /\ Admissions /\ Callbacks
-----------------------------------------------------------------------------
(* What the variables range over.                                            *)
LEMMA Shapes ==
  ASSUME TypeOK
  PROVE  /\ row \in [Runs -> RowStatus] /\ exec \in [Runs -> Execution]
         /\ creator \in [Runs -> Creation] /\ canceller \in [Runs -> Cancellation]
         /\ calls \in [Runs -> Seq(Terminal)] /\ queue \in [Instances -> Seq(Tasks)]
         /\ deleter \in [Runs -> {"none", "row", "done"}]
         /\ plan \in [Runs -> [revert: Recorded, rows: SUBSET Runs]]
         /\ admitted \subseteq Runs /\ mail \subseteq Runs \X Reasons
BY DEF TypeOK, TypeStore, TypeThread, TypeClaim, TypeExec, TypeRequests

LEMMA Shapes_next ==
  ASSUME TypeOK'
  PROVE  /\ row' \in [Runs -> RowStatus] /\ exec' \in [Runs -> Execution]
         /\ creator' \in [Runs -> Creation] /\ canceller' \in [Runs -> Cancellation]
         /\ calls' \in [Runs -> Seq(Terminal)] /\ queue' \in [Instances -> Seq(Tasks)]
         /\ deleter' \in [Runs -> {"none", "row", "done"}]
         /\ admitted' \subseteq Runs
BY DEF TypeOK, TypeStore, TypeThread, TypeClaim, TypeExec, TypeRequests

(* The statuses are different.                                               *)
LEMMA Statuses ==
  /\ Active \cap Terminal = {} /\ Active = {"pending", "running"}
  /\ {"absent", "deleted"} \cap (Active \cup Terminal) = {}
  /\ RowStatus = {"absent", "deleted"} \cup Active \cup Terminal
  /\ Native \subseteq Runs /\ Background \subseteq Runs
BY ConstantsAssumption DEF Active, Terminal, RowStatus

(* A run without an execution is at no process and has recorded nothing.     *)
LEMMA Nothing ==
  /\ NoExecution.pc = "none" /\ NoExecution.at = "none" /\ NoExecution.recorded = FALSE
  /\ NoCancellation.pc = "none" /\ NoCancellation.at = "none"
  /\ Created.pc = "done" /\ Created.at = "none" /\ Created.todo = {}
BY DEF NoExecution, NoCancellation, Created, NoCreation

-----------------------------------------------------------------------------
(* What a step does to the rows, the executions and the requests.            *)

(* A row is inserted, active, terminal and deleted in that order; only a run  *)
(* outside admission may leave a terminal status.                            *)
RowMoves(r) ==
  \/ row'[r] = row[r]
  \/ row[r] = "absent" /\ row'[r] = "pending"
  \/ row[r] \in Active /\ row'[r] \in Active \cup Terminal
  \/ row[r] # "absent" /\ row'[r] = "deleted"
  \/ r \notin Native /\ row[r] \in Terminal /\ row'[r] \in Active \cup Terminal

(* No row is inserted and no native run settled, and only an execution that   *)
(* marks its run running brings a finished one back.                         *)
RowsKept == \A r \in Runs :
  /\ row[r] \in Active \/ row'[r] \notin Active \/ exec[r].pc = "set"
  /\ RowMoves(r) /\ (row[r] = "absent" => row'[r] = "absent")
  /\ r \in Native /\ row[r] \in Active => row'[r] \in Active \cup {"deleted"}

(* An execution remembers the callback it recorded until it is over.         *)
Remembers(r) ==
  /\ exec'[r].recorded => exec'[r].pc \in Late
  /\ Answered(r) => Answered(r)' \/ (exec[r].pc = "queued" /\ row[r] \in Active)
RecordsKept == \A r \in Runs : Remembers(r)

(* No execution starts, joins or leaves the queue of the claim.              *)
ExecutionsKept == RecordsKept /\ \A r \in Runs :
  /\ exec[r] = NoExecution => exec'[r] = NoExecution
  /\ exec[r].pc = "waiting" => exec'[r].pc = "waiting" /\ exec'[r].at = exec[r].at
  /\ r \in Native => exec'[r].pc # "write"

CreationsKept == \A r \in Runs :
  /\ Creating(r)' => Creating(r)
  /\ r \in Native => creator'[r].pc # "displace"

(* A cancel or delete request is one of a run that exists.                   *)
RequestsKept == \A r \in Runs :
  /\ row[r] = "absent" => canceller'[r] = canceller[r] /\ deleter'[r] = deleter[r]
  /\ canceller[r].pc = "waiting" =>
       canceller'[r].pc = "waiting" /\ canceller'[r].at = canceller[r].at

LEMMA CoreKept ==
  ASSUME TypeOK, TypeOK', Core, UNCHANGED <<queue, calls, admitted>>,
         RowsKept, ExecutionsKept, CreationsKept, RequestsKept
  PROVE  Core'
<1> USE DEF Core
<1>1. Unborn'
  BY Statuses DEF Unborn, RowsKept, RowMoves, ExecutionsKept, CreationsKept, RequestsKept
<1>2. Waiting'
  BY DEF Waiting, ExecutionsKept, RequestsKept
<1>3. Admissions'
  BY Statuses DEF Admissions, RowsKept, ExecutionsKept, CreationsKept
<1>4. Callbacks'
  <2>1. ASSUME NEW r \in Native
        PROVE  /\ Len(calls'[r]) <= 1
               /\ row'[r] \in Active => calls'[r] = <<>>
               /\ row'[r] \in Terminal /\ r \in Webhook => calls'[r] # <<>>
    BY Statuses DEF Callbacks, RowsKept, RowMoves
  <2>2. ASSUME NEW r \in Runs \ Native, calls'[r] # <<>>
        PROVE  Len(calls'[r]) = 1 /\ row'[r] \notin Active /\ Answered(r)'
    <3>1. Len(calls[r]) = 1 /\ row[r] \notin Active /\ Answered(r) /\ exec[r].pc # "set"
      BY <2>2 DEF Callbacks, Answered, Late
    <3> QED BY <2>2, <3>1 DEF RowsKept, ExecutionsKept, RecordsKept, Remembers
  <2>3. \A r \in Runs : exec'[r].recorded => exec'[r].pc \in Late
    BY DEF ExecutionsKept, RecordsKept, Remembers
  <2>4. \A r \in Runs : calls'[r] # <<>> => r \in Webhook
    BY DEF Callbacks
  <2> QED BY <2>1, <2>2, <2>3, <2>4 DEF Callbacks
<1> QED BY <1>1, <1>2, <1>3, <1>4

(* Nothing happens to the executions. *)
LEMMA SameExecutions ==
  ASSUME Core, UNCHANGED exec PROVE ExecutionsKept
BY DEF ExecutionsKept, RecordsKept, Remembers, Answered, Core, Admissions, Callbacks

(* Rows that do not change.                                                  *)
LEMMA SameRows ==
  ASSUME UNCHANGED row PROVE RowsKept
BY Statuses DEF RowsKept, RowMoves

(* Requests that do not change.                                              *)
LEMMA SameCreations ==
  ASSUME Core, UNCHANGED creator PROVE CreationsKept
BY DEF CreationsKept, Creating, Core, Admissions

LEMMA SameRequests ==
  ASSUME UNCHANGED <<canceller, deleter>> PROVE RequestsKept
BY DEF RequestsKept

(* An abort sets the reason of a registered execution, if anything.          *)
LEMMA AbortedKeeps ==
  ASSUME TypeOK, Core, NEW r \in Runs, NEW why, exec' \in {exec, Aborted(r, why)}
  PROVE  /\ ExecutionsKept
         /\ \A s \in Runs : /\ exec'[s].pc = exec[s].pc /\ exec'[s].at = exec[s].at
                            /\ exec'[s].mode = exec[s].mode /\ exec'[s].out = exec[s].out
                            /\ exec'[s].eff = exec[s].eff
<1>1. exec \in [Runs -> Execution]
  BY Shapes
<1>2. ASSUME NEW s \in Runs
      PROVE  /\ exec'[s].pc = exec[s].pc /\ exec'[s].at = exec[s].at
             /\ exec'[s].recorded = exec[s].recorded
             /\ exec'[s].mode = exec[s].mode /\ exec'[s].out = exec[s].out
             /\ exec'[s].eff = exec[s].eff
             /\ exec'[s] = exec[s] \/ exec[s].pc \in Registered
  BY <1>1 DEF Aborted, Execution
<1>3. NoExecution.pc \notin Registered
  BY Nothing DEF Registered, Holding, EngineSteps
<1>4. RecordsKept
  BY <1>2 DEF RecordsKept, Remembers, Answered, Core, Callbacks
<1> QED BY <1>2, <1>3, <1>4 DEF ExecutionsKept, Core, Admissions

-----------------------------------------------------------------------------
(* Executions.                                                               *)

(* One execution takes a step: it is neither new nor waiting for the claim.  *)
LEMMA OwnStep ==
  ASSUME TypeOK, TypeOK', Core, NEW r \in Runs,
         exec[r].pc \notin {"none", "waiting", "done"},
         \A s \in Runs \ {r} : exec'[s] = exec[s],
         exec'[r].pc = "write" => r \notin Native, Remembers(r)
  PROVE  ExecutionsKept
<1>1. RecordsKept
  BY DEF RecordsKept, Remembers, Answered, Core, Callbacks
<1> QED BY <1>1, Nothing DEF ExecutionsKept, Core, Admissions

(* ... and remembers its callback as it did.                                 *)
LEMMA OwnRemembers ==
  ASSUME Core, NEW r \in Runs, exec'[r].recorded = exec[r].recorded, exec[r].pc # "queued",
         exec[r].pc \in Late => exec'[r].pc \in Late, exec[r].pc # "done"
  PROVE  Remembers(r)
BY DEF Remembers, Answered, Core, Callbacks

(* ... and changes neither requests nor callbacks.                           *)
LEMMA OwnCore ==
  ASSUME TypeOK, TypeOK', Core, ExecutionsKept, RowsKept,
         UNCHANGED <<queue, calls, admitted, creator, canceller, deleter>>
  PROVE  Core'
BY CoreKept, SameCreations, SameRequests

(* The next program counter.                                                 *)
LEMMA GotoStep ==
  ASSUME TypeOK, TypeOK', Core, NEW r \in Runs, NEW pc, Goto(r, pc),
         exec[r].pc \notin {"none", "waiting", "done", "queued"},
         exec[r].pc \in Late => pc \in Late,
         pc = "write" => r \notin Native
  PROVE  ExecutionsKept
<1>1. exec \in [Runs -> Execution]
  BY Shapes
<1>2. /\ exec'[r].pc = pc /\ exec'[r].recorded = exec[r].recorded
      /\ \A s \in Runs \ {r} : exec'[s] = exec[s]
  BY <1>1 DEF Goto, Execution
<1> QED BY <1>2, OwnRemembers, OwnStep

(* The catch or the finally block.                                           *)
LEMMA ThrowStep ==
  ASSUME TypeOK, TypeOK', Core, NEW r \in Runs, Throw(r),
         exec[r].pc \notin {"none", "waiting", "done", "queued"}
  PROVE  ExecutionsKept /\ exec'[r].pc \in {"settle", "close"}
         /\ \A s \in Runs \ {r} : exec'[s] = exec[s]
<1>1. exec \in [Runs -> Execution]
  BY Shapes
<1>2. /\ exec'[r] \in {Caught(exec[r]), [exec[r] EXCEPT !.pc = "close"]}
      /\ \A s \in Runs \ {r} : exec'[s] = exec[s]
  BY <1>1 DEF Throw
<1>3. exec'[r].pc \in {"settle", "close"} /\ exec'[r].recorded = exec[r].recorded
  <2>1. exec[r] \in Execution
    BY <1>1
  <2> QED BY <1>2, <2>1 DEF Caught, Execution
<1>4. exec'[r].pc \in Late
  BY <1>3 DEF Late
<1> QED BY <1>2, <1>3, <1>4, OwnRemembers, OwnStep

(* The end: a new record of a finished execution.                            *)
LEMMA DoneStep ==
  ASSUME TypeOK, TypeOK', Core, NEW r \in Runs,
         exec' = [exec EXCEPT ![r] = [NoExecution EXCEPT !.pc = "done"]],
         exec[r].pc \notin {"none", "waiting", "done"}
  PROVE  ExecutionsKept
<1>1. exec \in [Runs -> Execution]
  BY Shapes
<1>2. /\ exec'[r].pc = "done" /\ ~exec'[r].recorded
      /\ \A s \in Runs \ {r} : exec'[s] = exec[s]
  BY <1>1 DEF NoExecution
<1>3. Remembers(r)
  BY <1>2 DEF Remembers, Answered
<1> QED BY <1>2, <1>3, OwnStep

(* A task joins a queue it is not in.                                        *)
Unqueued(t) == \A j \in Instances : \A k \in 1..Len(queue[j]) : queue[j][k] # t
Joined(t, i) ==
  /\ \A j \in Instances : \A k, l \in 1..Len(queue'[j]) : queue'[j][k] = queue'[j][l] => k = l
  /\ \A j \in Instances : \A k \in 1..Len(queue'[j]) :
       \/ k \in 1..Len(queue[j]) /\ queue'[j][k] = queue[j][k]
       \/ j = i /\ queue'[j][k] = t

LEMMA Awaited ==
  ASSUME TypeOK, Waiting, NEW t \in Tasks, NEW i, Await(t, i), Unqueued(t)
  PROVE  Joined(t, i)
<1> USE DEF Unqueued, Joined
<1>1. /\ \A j \in Instances : queue[j] \in Seq(Tasks)
      /\ \A j \in Instances \ {i} : queue'[j] = queue[j]
      /\ i \in Instances => queue'[i] = Append(queue[i], t)
  BY Shapes DEF Await
<1>2. ASSUME i \in Instances
      PROVE  /\ Len(queue'[i]) = Len(queue[i]) + 1 /\ Len(queue[i]) \in Nat
             /\ queue'[i][Len(queue[i]) + 1] = t
             /\ \A k \in 1..Len(queue[i]) : queue'[i][k] = queue[i][k]
  <2>1. queue[i] \in Seq(Tasks)
    BY <1>1, <1>2
  <2> QED BY <1>1, <1>2, <2>1
<1>3. ASSUME NEW j \in Instances, NEW k \in 1..Len(queue'[j])
      PROVE  \/ k \in 1..Len(queue[j]) /\ queue'[j][k] = queue[j][k]
             \/ j = i /\ k = Len(queue[i]) + 1 /\ queue'[j][k] = t
  <2>1. CASE j # i
    BY <1>1, <1>3, <2>1
  <2>2. CASE j = i
    BY <1>2, <1>3, <2>2
  <2> QED BY <2>1, <2>2
<1>4. ASSUME NEW j \in Instances, NEW k \in 1..Len(queue'[j]), NEW l \in 1..Len(queue'[j]),
             queue'[j][k] = queue'[j][l]
      PROVE  k = l
  <2>1. CASE k \in 1..Len(queue[j]) /\ queue'[j][k] = queue[j][k]
    <3>1. CASE l \in 1..Len(queue[j]) /\ queue'[j][l] = queue[j][l]
      <4>1. queue[j][k] = queue[j][l]
        BY <1>4, <2>1, <3>1
      <4> QED BY <2>1, <3>1, <4>1 DEF Waiting
    <3> QED BY <1>3, <1>4, <2>1, <3>1
  <2>2. CASE k = Len(queue[i]) + 1 /\ queue'[j][k] = t
    <3>1. CASE l \in 1..Len(queue[j]) /\ queue'[j][l] = queue[j][l]
      BY <1>4, <2>2, <3>1
    <3> QED BY <1>3, <2>2, <3>1
  <2> QED BY <1>3, <2>1, <2>2
<1> QED BY <1>3, <1>4

(* An inline run queues on the claim. *)
LEMMA StartInline_Core ==
  ASSUME TypeOK, TypeOK', Core, NEW r \in Runs, StartInline(r) PROVE Core' /\ RowsKept
<1> USE DEF Core
<1> DEFINE i == exec[r].at
<1>0. UNCHANGED <<row, calls, admitted, creator, canceller, deleter>>
  BY DEF StartInline, store, Rest
<1>1. /\ exec[r].pc = "prepared" /\ exec'[r].pc = "waiting" /\ exec'[r].at = i
      /\ exec'[r].recorded = exec[r].recorded
      /\ \A s \in Runs \ {r} : exec'[s] = exec[s]
  BY Shapes DEF StartInline, Goto, Execution
<1>2. RowsKept
  BY <1>0, SameRows
<1>3. Unborn'
  BY <1>0, <1>1, Nothing DEF Unborn, Creating
<1>4. Waiting'
  <2>1. Unqueued(<<"run", r>>)
    BY <1>1 DEF Waiting, Unqueued
  <2>2. <<"run", r>> \in Tasks /\ Await(<<"run", r>>, i)
    BY DEF Tasks, StartInline
  <2>3. Joined(<<"run", r>>, i)
    BY <2>1, <2>2, Awaited
  <2>4. \A s \in Runs : <<"run", r>> = <<"run", s>> => s = r
    OBVIOUS
  <2>5. ASSUME NEW j \in Instances, NEW k \in 1..Len(queue'[j]), NEW s \in Runs
        PROVE  /\ queue'[j][k] = <<"run", s>> => exec'[s].pc = "waiting" /\ exec'[s].at = j
               /\ queue'[j][k] = <<"cancel", s>> =>
                    canceller'[s].pc = "waiting" /\ canceller'[s].at = j
    <3>1. CASE k \in 1..Len(queue[j]) /\ queue'[j][k] = queue[j][k]
      <4>1. queue[j][k] # <<"run", r>>
        BY <2>1, <3>1 DEF Unqueued
      <4>2. /\ queue[j][k] = <<"run", s>> => exec[s].pc = "waiting" /\ exec[s].at = j
            /\ queue[j][k] = <<"cancel", s>> => canceller[s].pc = "waiting" /\ canceller[s].at = j
        BY <3>1 DEF Waiting
      <4>3. s # r => exec'[s] = exec[s]
        BY <1>1
      <4> QED BY <1>0, <3>1, <4>1, <4>2, <4>3
    <3>2. CASE j = i /\ queue'[j][k] = <<"run", r>>
      BY <1>1, <2>4, <3>2
    <3> QED BY <2>3, <3>1, <3>2 DEF Joined
  <2> QED BY <2>3, <2>5 DEF Waiting, Joined
<1>5. Admissions'
  BY <1>0, <1>1, Statuses DEF Admissions
<1>6. Callbacks'
  BY <1>0, <1>1 DEF Callbacks, Answered, Late
<1> QED BY <1>2, <1>3, <1>4, <1>5, <1>6

(* A background run goes to the queue. *)
LEMMA Enqueue_Core ==
  ASSUME TypeOK, TypeOK', Core, NEW r \in Runs, Enqueue(r) PROVE Core' /\ RowsKept
<1>0. UNCHANGED <<row, queue, calls, admitted, creator, canceller, deleter>>
  BY DEF Enqueue, store, claim, Rest
<1>1. /\ exec[r].pc = "prepared" /\ exec'[r].pc = "queued" /\ exec'[r].recorded = exec[r].recorded
      /\ \A s \in Runs \ {r} : exec'[s] = exec[s]
  BY Shapes DEF Enqueue, Execution
<1>2. ExecutionsKept
  <2>1. Remembers(r)
    BY <1>1 DEF Remembers, Answered, Core, Callbacks, Late
  <2> QED BY <1>1, <2>1, OwnStep
<1>3. RowsKept
  BY <1>0, SameRows
<1> QED BY <1>0, <1>2, <1>3, OwnCore

(* A worker takes or drops a job. *)
LEMMA Pull_Core ==
  ASSUME TypeOK, TypeOK', Core, NEW r \in Runs, NEW i \in Instances, Pull(r, i)
  PROVE  Core' /\ RowsKept
<1>0. UNCHANGED <<row, queue, calls, admitted, creator, canceller, deleter>>
  BY DEF Pull, store, claim, Rest
<1>1. /\ exec[r].pc = "queued" /\ exec'[r].pc \in {"done", "claimed"}
      /\ exec'[r].recorded = exec[r].recorded
      /\ exec'[r].pc = "done" \/ row[r] \in Active
      /\ \A s \in Runs \ {r} : exec'[s] = exec[s]
  BY Shapes DEF Pull, Goto, Execution
<1>2. ExecutionsKept
  <2>1. Remembers(r)
    BY <1>1 DEF Remembers, Answered, Core, Callbacks, Late
  <2> QED BY <1>1, <2>1, OwnStep
<1>3. RowsKept
  BY <1>0, SameRows
<1> QED BY <1>0, <1>2, <1>3, OwnCore

(* The row is reread under the claim. *)
LEMMA Reread_Core ==
  ASSUME TypeOK, TypeOK', Core, NEW r \in Runs, Reread(r) PROVE Core' /\ RowsKept
<1>0. UNCHANGED <<row, queue, calls, admitted, creator, canceller, deleter>>
  BY DEF Reread, store, claim, Release, Rest
<1>1. exec[r].pc = "claimed"
  BY DEF Reread
<1>2. ExecutionsKept
  <2>1. CASE exec' = [exec EXCEPT ![r] = [NoExecution EXCEPT !.pc = "done"]]
    BY <1>1, <2>1, DoneStep
  <2>2. CASE Goto(r, IF plan[r].rows # {} THEN "revert" ELSE "check")
    BY <1>1, <2>2, GotoStep DEF Late
  <2> QED BY <2>1, <2>2 DEF Reread
<1>3. RowsKept
  BY <1>0, SameRows
<1> QED BY <1>0, <1>2, <1>3, OwnCore

(* The rollback plan is applied: rows of other runs may be deleted. *)
LEMMA ApplyPlan_Core ==
  ASSUME TypeOK, TypeOK', Core, NEW r \in Runs, ApplyPlan(r) PROVE Core' /\ RowsKept
<1>0. UNCHANGED <<queue, calls, admitted, creator, canceller, deleter>>
  BY DEF ApplyPlan, store, claim, Rest
<1>1. exec[r].pc = "revert"
  BY DEF ApplyPlan
<1>2. ExecutionsKept
  BY <1>1, GotoStep DEF ApplyPlan, Late
<1>3. RowsKept
  BY Shapes, Statuses DEF ApplyPlan, RowsKept, RowMoves, Exists
<1> QED BY <1>0, <1>2, <1>3, OwnCore

(* ExecuteRun looks at the row. *)
LEMMA Check_Core ==
  ASSUME TypeOK, TypeOK', Core, NEW r \in Runs, Check(r) PROVE Core' /\ RowsKept
<1>0. UNCHANGED <<row, queue, calls, admitted, creator, canceller, deleter>>
  BY DEF Check, store, claim, Rest
<1>1. exec[r].pc = "check"
  BY DEF Check
<1>2. ExecutionsKept
  BY <1>1, GotoStep DEF Check, Late
<1>3. RowsKept
  BY <1>0, SameRows
<1> QED BY <1>0, <1>2, <1>3, OwnCore

(* The row is marked running: a native one only while it is active. *)
LEMMA MarkRunning_Core ==
  ASSUME TypeOK, TypeOK', Core, NEW r \in Runs, MarkRunning(r) PROVE Core' /\ RowsKept
<1>0. UNCHANGED <<queue, calls, admitted, creator, canceller, deleter>> /\ exec[r].pc = "set"
  BY DEF MarkRunning, SetStatus, claim, Rest
<1>2. ExecutionsKept
  <2>1. CASE exec' = [exec EXCEPT ![r].pc = "busy", ![r].started = TRUE]
    <3>1. /\ exec'[r].pc = "busy" /\ exec'[r].recorded = exec[r].recorded
          /\ \A s \in Runs \ {r} : exec'[s] = exec[s]
      BY <2>1, Shapes DEF Execution
    <3> QED BY <1>0, <3>1, OwnRemembers, OwnStep DEF Late
  <2>2. CASE Throw(r)
    BY <1>0, <2>2, ThrowStep
  <2>3. CASE Goto(r, "close")
    BY <1>0, <2>3, GotoStep DEF Late
  <2> QED BY <2>1, <2>2, <2>3 DEF MarkRunning
<1>3. RowsKept
  <2>1. CASE UNCHANGED row
    BY <2>1, SameRows
  <2>2. CASE Exists(r) /\ ~RefusesRunning(r) /\ SetStatus(r, "running")
    <3>1. row[r] \in Active \/ (r \notin Native /\ row[r] \in Terminal)
      <4>1. row[r] \in Active \cup Terminal
        BY <2>2, Shapes, Statuses DEF Exists
      <4>2. row[r] \in Terminal => r \notin admitted
        BY <2>2 DEF RefusesRunning
      <4>3. r \in Native => r \in admitted
        BY <2>2 DEF Exists, Core, Admissions
      <4> QED BY <4>1, <4>2, <4>3
    <3>2. row'[r] = "running" /\ \A s \in Runs \ {r} : row'[s] = row[s]
      BY <2>2, Shapes DEF SetStatus
    <3> QED BY <1>0, <3>1, <3>2, Statuses DEF RowsKept, RowMoves
  <2> QED BY <2>1, <2>2 DEF MarkRunning
<1> QED BY <1>0, <1>2, <1>3, OwnCore

(* The thread is marked busy. *)
LEMMA MirrorBusy_Core ==
  ASSUME TypeOK, TypeOK', Core, NEW r \in Runs, MirrorBusy(r) PROVE Core' /\ RowsKept
<1>0. UNCHANGED <<row, queue, calls, admitted, creator, canceller, deleter>>
  BY DEF MirrorBusy, store, claim, Rest
<1>1. exec[r].pc = "busy"
  BY DEF MirrorBusy
<1>2. ExecutionsKept
  BY <1>1, GotoStep DEF MirrorBusy, Late
<1>3. RowsKept
  BY <1>0, SameRows
<1> QED BY <1>0, <1>2, <1>3, OwnCore

(* The base is noted. *)
LEMMA RecordBase_Core ==
  ASSUME TypeOK, TypeOK', Core, NEW r \in Runs, RecordBase(r) PROVE Core' /\ RowsKept
<1>0. UNCHANGED <<row, queue, calls, admitted, creator, canceller, deleter>>
  BY DEF RecordBase, store, claim, Rest
<1>1. exec[r].pc = "base"
  BY DEF RecordBase
<1>2. ExecutionsKept
  <2>1. /\ exec'[r].pc = "graph" /\ exec'[r].recorded = exec[r].recorded
        /\ \A s \in Runs \ {r} : exec'[s] = exec[s]
    BY Shapes DEF RecordBase, Execution
  <2> QED BY <1>1, <2>1, OwnRemembers, OwnStep DEF Late
<1>3. RowsKept
  BY <1>0, SameRows
<1> QED BY <1>0, <1>2, <1>3, OwnCore

(* The graph ends. *)
LEMMA GraphReturn_Core ==
  ASSUME TypeOK, TypeOK', Core, NEW r \in Runs, GraphReturn(r) PROVE Core' /\ RowsKept
<1>0. UNCHANGED <<row, queue, calls, admitted, creator, canceller, deleter>>
  BY DEF GraphReturn, store, claim, Rest
<1>1. exec[r].pc = "graph"
  BY DEF GraphReturn
<1>2. ExecutionsKept
  <2>1. /\ exec'[r].pc = "settle" /\ exec'[r].recorded = exec[r].recorded
        /\ \A s \in Runs \ {r} : exec'[s] = exec[s]
    BY Shapes DEF GraphReturn, Execution
  <2> QED BY <1>1, <2>1, OwnRemembers, OwnStep DEF Late
<1>3. RowsKept
  BY <1>0, SameRows
<1> QED BY <1>0, <1>2, <1>3, OwnCore

(* The graph throws. *)
LEMMA GraphThrow_Core ==
  ASSUME TypeOK, TypeOK', Core, NEW r \in Runs, GraphThrow(r) PROVE Core' /\ RowsKept
<1>0. UNCHANGED <<row, queue, calls, admitted, creator, canceller, deleter>>
  BY DEF GraphThrow, store, claim, Rest
<1>1. exec[r].pc = "graph"
  BY DEF GraphThrow
<1>2. ExecutionsKept
  BY <1>1, ThrowStep DEF GraphThrow
<1>3. RowsKept
  BY <1>0, SameRows
<1> QED BY <1>0, <1>2, <1>3, OwnCore

(* FinalizeRun reads the row; this run is not native. *)
LEMMA FinalizeRead_Core ==
  ASSUME TypeOK, TypeOK', Core, NEW r \in Runs, FinalizeRead(r) PROVE Core' /\ RowsKept
<1>0. UNCHANGED <<row, queue, calls, admitted, creator, canceller, deleter>>
  BY DEF FinalizeRead, store, claim, Rest
<1>1. exec[r].pc = "settle"
  BY DEF FinalizeRead
<1>2. ExecutionsKept
  <2>1. /\ r \notin Native /\ exec'[r].recorded = exec[r].recorded
        /\ exec'[r].pc \in {"write", "mirror"}
        /\ \A s \in Runs \ {r} : exec'[s] = exec[s]
    BY Shapes DEF FinalizeRead, Execution
  <2> QED BY <1>1, <2>1, OwnRemembers, OwnStep DEF Late
<1>3. RowsKept
  BY <1>0, SameRows
<1> QED BY <1>0, <1>2, <1>3, OwnCore

(* FinalizeRun writes the row of a run outside admission. *)
LEMMA FinalizeWrite_Core ==
  ASSUME IInv, TypeOK', Core, NEW r \in Runs, FinalizeWrite(r) PROVE Core' /\ RowsKept
<1> USE DEF IInv
<1>0. UNCHANGED <<queue, calls, admitted, creator, canceller, deleter>> /\ exec[r].pc = "write"
  BY DEF FinalizeWrite, SetStatus, claim, Rest
<1>2. ExecutionsKept
  <2>1. CASE Throw(r)
    BY <1>0, <2>1, ThrowStep
  <2>2. CASE Goto(r, "mirror")
    BY <1>0, <2>2, GotoStep DEF Late
  <2> QED BY <2>1, <2>2 DEF FinalizeWrite
<1>3. RowsKept
  <2>1. CASE UNCHANGED row
    BY <2>1, SameRows
  <2>2. CASE Exists(r) /\ SetStatus(r, exec[r].out)
    <3>1. r \notin Native /\ exec[r].out \in Terminal
      BY <1>0 DEF Core, Admissions, Settling
    <3>2. row[r] \in Active \cup Terminal
      BY <2>2, Shapes, Statuses DEF Exists
    <3>3. row'[r] = exec[r].out /\ \A s \in Runs \ {r} : row'[s] = row[s]
      BY <2>2, Shapes DEF SetStatus
    <3> QED BY <3>1, <3>2, <3>3, Statuses DEF RowsKept, RowMoves
  <2> QED BY <2>1, <2>2 DEF FinalizeWrite
<1> QED BY <1>0, <1>2, <1>3, OwnCore

(* The thread mirrors the outcome. *)
LEMMA Mirror_Core ==
  ASSUME TypeOK, TypeOK', Core, NEW r \in Runs, Mirror(r) PROVE Core' /\ RowsKept
<1>0. UNCHANGED <<row, queue, calls, admitted, creator, canceller, deleter>>
  BY DEF Mirror, store, claim, Rest
<1>1. exec[r].pc = "mirror"
  BY DEF Mirror
<1>2. ExecutionsKept
  <2>1. CASE Throw(r)
    BY <1>1, <2>1, ThrowStep
  <2>2. CASE Goto(r, "close")
    BY <1>1, <2>2, GotoStep DEF Late
  <2> QED BY <2>1, <2>2 DEF Mirror
<1>3. RowsKept
  BY <1>0, SameRows
<1> QED BY <1>0, <1>2, <1>3, OwnCore

(* The execution ends. *)
LEMMA Close_Core ==
  ASSUME TypeOK, TypeOK', Core, NEW r \in Runs, Close(r) PROVE Core' /\ RowsKept
<1>0. UNCHANGED <<row, queue, calls, admitted, creator, canceller, deleter>>
  BY DEF Close, store, claim, Release, Rest
<1>1. exec[r].pc = "close"
  BY DEF Close
<1>2. ExecutionsKept
  BY <1>1, DoneStep DEF Close
<1>3. RowsKept
  BY <1>0, SameRows
<1> QED BY <1>0, <1>2, <1>3, OwnCore

(* The time budget is spent. *)
LEMMA Timeout_Core ==
  ASSUME TypeOK, TypeOK', Core, NEW r \in Runs, Timeout(r) PROVE Core' /\ RowsKept
<1>0. UNCHANGED <<row, queue, calls, admitted, creator, canceller, deleter>>
  BY DEF Timeout, store, claim, Rest
<1>2. ExecutionsKept
  BY AbortedKeeps DEF Timeout
<1>3. RowsKept
  BY <1>0, SameRows
<1> QED BY <1>0, <1>2, <1>3, OwnCore

(* The execution polls its row. *)
LEMMA Observe_Core ==
  ASSUME TypeOK, TypeOK', Core, NEW r \in Runs, Observe(r) PROVE Core' /\ RowsKept
<1>0. UNCHANGED <<row, queue, calls, admitted, creator, canceller, deleter>>
  BY DEF Observe, store, claim, Rest
<1>2. ExecutionsKept
  BY AbortedKeeps DEF Observe
<1>3. RowsKept
  BY <1>0, SameRows
<1> QED BY <1>0, <1>2, <1>3, OwnCore

(* Nothing Core speaks of changes when a base is persisted or a checkpoint saved. *)
LEMMA Written_Core ==
  ASSUME TypeOK, TypeOK', Core, NEW r \in Runs, PersistBase(r) \/ GraphWrite(r)
  PROVE  Core' /\ RowsKept
<1>0. UNCHANGED <<row, exec, queue, calls, admitted, creator, canceller, deleter>>
  BY DEF PersistBase, GraphWrite, store, claim, Rest
<1>2. ExecutionsKept
  BY <1>0, SameExecutions
<1>3. RowsKept
  BY <1>0, SameRows
<1> QED BY <1>0, <1>2, <1>3, OwnCore

-----------------------------------------------------------------------------
(* The settlements.                                                          *)

(* A callback is recorded, and the row settled if it was active. *)
LEMMA FinalizeWithDelivery_Core ==
  ASSUME IInv, TypeOK', Core, NEW r \in Runs, FinalizeWithDelivery(r)
  PROVE  Core' /\ RowsKept
<1> USE DEF IInv, Core
<1>0. /\ UNCHANGED <<queue, admitted, creator, canceller, deleter>>
      /\ exec[r].pc = "settle" /\ r \notin Native /\ r \in Webhook /\ ~exec[r].recorded
  BY DEF FinalizeWithDelivery, OwesCallback, claim, Rest
<1>1. /\ exec'[r].pc = "mirror" /\ exec'[r].recorded = TRUE
      /\ \A s \in Runs \ {r} : exec'[s] = exec[s]
  BY Shapes DEF FinalizeWithDelivery, Execution
<1>2. ExecutionsKept
  <2>1. Remembers(r)
    BY <1>0, <1>1 DEF Remembers, Answered, Late
  <2> QED BY <1>0, <1>1, <2>1, OwnStep
<1>3. RowsKept /\ row'[r] \notin Active
  <2>1. exec[r].out \in Terminal
    BY <1>0 DEF Settling
  <2>2. /\ row'[r] = IF row[r] \in Active THEN exec[r].out ELSE row[r]
        /\ \A s \in Runs \ {r} : row'[s] = row[s]
    BY Shapes DEF FinalizeWithDelivery
  <2> QED BY <1>0, <2>1, <2>2, Statuses DEF RowsKept, RowMoves
<1>4. /\ \A s \in Runs \ {r} : calls'[s] = calls[s]
      /\ Len(calls'[r]) = 1
  <2>1. PICK told : calls' = [calls EXCEPT ![r] = Append(calls[r], told)]
    BY DEF FinalizeWithDelivery
  <2>2. calls[r] = <<>>
    BY <1>0 DEF Callbacks, Answered
  <2> QED BY <2>1, <2>2, Shapes
<1>5. Unborn'
  <2>1. row[r] # "absent"
    BY <1>0, Nothing DEF Unborn
  <2>2. \A s \in Runs : row'[s] = "absent" <=> row[s] = "absent"
    BY <1>3, Statuses DEF RowsKept, RowMoves
  <2> QED BY <1>0, <1>1, <1>4, <2>1, <2>2 DEF Unborn, Creating
<1>6. Waiting'
  BY <1>0, <1>2 DEF Waiting, ExecutionsKept
<1>7. Admissions'
  BY <1>0, <1>2, <1>3, Statuses DEF Admissions, RowsKept, ExecutionsKept
<1>8. Callbacks'
  <2>1. \A s \in Runs \ {r} : row'[s] = row[s]
    BY DEF FinalizeWithDelivery
  <2>2. Answered(r)' /\ exec'[r].pc \in Late /\ \A s \in Runs \ {r} : Answered(s)' = Answered(s)
    BY <1>1 DEF Answered, Late
  <2> QED BY <1>0, <1>1, <1>3, <1>4, <2>1, <2>2, Statuses DEF Callbacks
<1> QED BY <1>3, <1>5, <1>6, <1>7, <1>8

(* What runs.settle does to rows that exist: the native ones among them are  *)
(* told in the same step.                                                    *)
LEMMA Settled ==
  ASSUME TypeOK, Core, NEW S \in SUBSET Runs, NEW st \in Terminal, Settle(S, st)
  PROVE  /\ \A s \in Runs : row'[s] = IF s \in S /\ row[s] \in Active THEN st ELSE row[s]
         /\ \A s \in Runs : RowMoves(s)
         /\ \A s \in Runs : row[s] = "absent" <=> row'[s] = "absent"
         /\ \A s \in Runs : calls'[s] = calls[s] \/ (s \in Native /\ s \in Webhook
              /\ calls[s] = <<>> /\ calls'[s] = <<row'[s]>> /\ s \in S)
         /\ \A s \in Native : s \in S /\ s \in Webhook => calls'[s] # <<>>
<1> USE DEF Core
<1>1. \A s \in Runs : row'[s] = IF s \in S /\ row[s] \in Active THEN st ELSE row[s]
  BY DEF Settle
<1>2. \A s \in Runs : calls'[s] = IF s \in S /\ s \in Native /\ s \in Webhook /\ calls[s] = <<>>
                                 THEN <<row'[s]>> ELSE calls[s]
  BY DEF Settle
<1>3. \A s \in Runs : RowMoves(s) /\ (row[s] = "absent" <=> row'[s] = "absent")
  BY <1>1, Statuses DEF RowMoves
<1>4. \A x : <<x>> # <<>>
  OBVIOUS
<1> QED BY <1>1, <1>2, <1>3, <1>4, Statuses

(* Callbacks of a step that settles native runs, tells of deleted ones, or   *)
(* neither.                                                                  *)
LEMMA CallbacksKept ==
  ASSUME TypeOK, TypeOK', Core, RecordsKept,
         \A s \in Runs : calls'[s] = calls[s] \/ (s \in Native /\ s \in Webhook
           /\ calls[s] = <<>> /\ Len(calls'[s]) = 1 /\ calls'[s] # <<>> /\ row'[s] \notin Active),
         \A s \in Runs : row'[s] \in Active => row[s] \in Active \cup {"absent"},
         \A s \in Native : row'[s] \in Terminal /\ s \in Webhook =>
           row[s] \in Terminal \/ calls'[s] # <<>>
  PROVE  Callbacks'
<1> USE DEF Core
<1>1. \A s \in Runs : calls'[s] # <<>> => s \in Webhook
  BY DEF Callbacks
<1>2. ASSUME NEW s \in Native
      PROVE  /\ Len(calls'[s]) <= 1
             /\ row'[s] \in Active => calls'[s] = <<>>
             /\ row'[s] \in Terminal /\ s \in Webhook => calls'[s] # <<>>
  <2>1. s \in Runs
    BY Statuses
  <2>2. row[s] \in Active \cup {"absent"} => calls[s] = <<>>
    BY <2>1, Statuses DEF Callbacks, Unborn
  <2>3. /\ Len(calls[s]) <= 1
        /\ row[s] \in Terminal /\ s \in Webhook => calls[s] # <<>>
    BY DEF Callbacks
  <2>4. CASE calls'[s] = calls[s]
    BY <2>1, <2>2, <2>3, <2>4
  <2>5. CASE Len(calls'[s]) = 1 /\ calls'[s] # <<>> /\ row'[s] \notin Active
    BY <2>5
  <2> QED BY <2>1, <2>4, <2>5
<1>3. ASSUME NEW s \in Runs \ Native, calls'[s] # <<>>
      PROVE  Len(calls'[s]) = 1 /\ row'[s] \notin Active /\ Answered(s)'
  <2>1. calls'[s] = calls[s]
    BY <1>3
  <2>2. Len(calls[s]) = 1 /\ row[s] \notin Active /\ Answered(s)
    BY <1>3, <2>1 DEF Callbacks
  <2>3. row[s] # "absent"
    BY <1>3, <2>1 DEF Unborn
  <2> QED BY <2>1, <2>2, <2>3 DEF RecordsKept, Remembers
<1>4. \A s \in Runs : exec'[s].recorded => exec'[s].pc \in Late
  BY DEF RecordsKept, Remembers
<1> QED BY <1>1, <1>2, <1>3, <1>4 DEF Callbacks

(* A native run settles, or is told although its row is gone. *)
LEMMA SettleNative_Core ==
  ASSUME IInv, TypeOK', Core, NEW r \in Runs, SettleNative(r)
  PROVE  Core' /\ \A s \in Runs : RowMoves(s)
<1> USE DEF IInv, Core
<1>0. /\ UNCHANGED <<queue, admitted, creator, canceller, deleter>>
      /\ exec[r].pc = "settle" /\ r \in Native /\ exec[r].out \in Terminal
  BY DEF SettleNative, claim, Rest, Settling
<1>1. /\ exec'[r].pc = "mirror" /\ exec'[r].recorded = exec[r].recorded
      /\ \A s \in Runs \ {r} : exec'[s] = exec[s]
  BY Shapes DEF SettleNative, Execution
<1>2. ExecutionsKept
  BY <1>0, <1>1, OwnRemembers, OwnStep DEF Late
<1>3. row[r] # "absent"
  BY <1>0, Nothing DEF Unborn
<1>4. /\ \A s \in Runs : RowMoves(s) /\ (row[s] = "absent" <=> row'[s] = "absent")
      /\ \A s \in Runs \ {r} : row'[s] = row[s] /\ calls'[s] = calls[s]
      /\ row'[r] \notin Active
      /\ \/ calls'[r] = calls[r] /\ ~Exists(r)
         \/ calls'[r] = calls[r] /\ (r \in Webhook => calls'[r] # <<>>)
         \/ r \in Webhook /\ calls[r] = <<>> /\ \E st : calls'[r] = <<st>>
  <2>1. CASE Exists(r) /\ Settle({r}, exec[r].out)
    <3>1. /\ \A s \in Runs : row'[s] = IF s \in {r} /\ row[s] \in Active THEN exec[r].out ELSE row[s]
          /\ \A s \in Runs : RowMoves(s) /\ (row[s] = "absent" <=> row'[s] = "absent")
          /\ \A s \in Runs : calls'[s] = calls[s] \/ (s \in Native /\ s \in Webhook
               /\ calls[s] = <<>> /\ calls'[s] = <<row'[s]>> /\ s \in {r})
          /\ r \in Webhook => calls'[r] # <<>>
      BY <1>0, <2>1, Settled
    <3>2. row'[r] \notin Active
      BY <1>0, <3>1, Statuses
    <3> QED BY <3>1, <3>2
  <2>2. CASE /\ ~Exists(r) /\ UNCHANGED row
             /\ \/ UNCHANGED calls
                \/ /\ r \in Webhook /\ calls[r] = <<>>
                   /\ calls' = [calls EXCEPT ![r] = <<exec[r].out>>]
    BY <2>2, Shapes, Statuses DEF RowMoves, Exists
  <2> QED BY <2>1, <2>2 DEF SettleNative
<1>5. Unborn'
  BY <1>0, <1>1, <1>3, <1>4, Nothing DEF Unborn, Creating
<1>6. Waiting'
  BY <1>0, <1>2 DEF Waiting, ExecutionsKept
<1>7. Admissions'
  BY <1>0, <1>2, <1>4, Statuses DEF Admissions, ExecutionsKept
<1>8. Callbacks'
  <2>1. \A st : Len(<<st>>) = 1 /\ <<st>> # <<>>
    OBVIOUS
  <2>2. row[r] \in Terminal \/ row'[r] \notin Terminal \/ r \notin Webhook \/ calls'[r] # <<>>
    <3>1. CASE ~Exists(r)
      <4>1. RowMoves(r)
        BY <1>4
      <4>2. row[r] = "deleted"
        BY <1>3, <3>1 DEF Exists
      <4> QED BY <4>1, <4>2, Statuses DEF RowMoves
    <3>2. CASE r \in Webhook => calls'[r] # <<>>
      BY <3>2
    <3>3. CASE \E st : calls'[r] = <<st>>
      BY <2>1, <3>3
    <3> QED BY <1>4, <3>1, <3>2, <3>3
  <2>3. RecordsKept
    BY <1>2 DEF ExecutionsKept
  <2>4. \A s \in Runs : calls'[s] = calls[s] \/ (s \in Native /\ s \in Webhook
          /\ calls[s] = <<>> /\ Len(calls'[s]) = 1 /\ calls'[s] # <<>> /\ row'[s] \notin Active)
    <3>1. \A s \in Runs \ {r} : calls'[s] = calls[s]
      BY <1>4
    <3>2. \/ calls'[r] = calls[r]
          \/ /\ r \in Native /\ r \in Webhook /\ row'[r] \notin Active
             /\ calls[r] = <<>> /\ \E st : calls'[r] = <<st>>
      BY <1>0, <1>4
    <3>3. \/ calls'[r] = calls[r]
          \/ /\ r \in Native /\ r \in Webhook /\ row'[r] \notin Active
             /\ calls[r] = <<>> /\ Len(calls'[r]) = 1 /\ calls'[r] # <<>>
      BY <2>1, <3>2
    <3> QED BY <3>1, <3>3
  <2>5. \A s \in Runs : row'[s] \in Active => row[s] \in Active \cup {"absent"}
    BY <1>4
  <2>6. \A s \in Native : row'[s] \in Terminal /\ s \in Webhook =>
          row[s] \in Terminal \/ calls'[s] # <<>>
    BY <1>4, <2>2, Statuses
  <2> QED BY <2>3, <2>4, <2>5, <2>6, CallbacksKept
<1> QED BY <1>4, <1>5, <1>6, <1>7, <1>8

(* A request settles runs and goes on.                                       *)
LEMMA SettledCore ==
  ASSUME TypeOK, TypeOK', Core, NEW S \in SUBSET Runs, NEW st \in Terminal,
         Settle(S, st), UNCHANGED <<queue, admitted>>,
         ExecutionsKept, CreationsKept, RequestsKept
  PROVE  Core' /\ \A s \in Runs : RowMoves(s)
<1> USE DEF Core
<1>1. /\ \A s \in Runs : row'[s] = IF s \in S /\ row[s] \in Active THEN st ELSE row[s]
      /\ \A s \in Runs : RowMoves(s) /\ (row[s] = "absent" <=> row'[s] = "absent")
      /\ \A s \in Runs : calls'[s] = calls[s] \/ (s \in Native /\ s \in Webhook
           /\ calls[s] = <<>> /\ calls'[s] = <<row'[s]>> /\ s \in S)
      /\ \A s \in Native : s \in S /\ s \in Webhook => calls'[s] # <<>>
  BY Settled
<1>2. \A s \in Runs : row[s] = "absent" => calls'[s] = calls[s]
  BY <1>1, Shapes_next, Statuses DEF Settle
<1>3. Unborn'
  BY <1>1, <1>2 DEF Unborn, ExecutionsKept, CreationsKept, RequestsKept
<1>4. Waiting'
  BY DEF Waiting, ExecutionsKept, RequestsKept
<1>5. Admissions'
  BY <1>1, Statuses DEF Admissions, ExecutionsKept, CreationsKept
<1>6. Callbacks'
  <2>1. \A x : Len(<<x>>) = 1 /\ <<x>> # <<>>
    OBVIOUS
  <2>2. \A s \in S : row'[s] \notin Active
    BY <1>1, Statuses
  <2>3. /\ \A s \in Runs : row'[s] \in Active => row[s] \in Active
        /\ \A s \in Native : row'[s] \in Terminal => row[s] \in Terminal \/ s \in S
    BY <1>1, Statuses
  <2>4. RecordsKept
    BY DEF ExecutionsKept
  <2> QED BY <1>1, <2>1, <2>2, <2>3, <2>4, CallbacksKept
<1> QED BY <1>1, <1>3, <1>4, <1>5, <1>6

-----------------------------------------------------------------------------
(* Creations.                                                                *)

(* One creation moves on.                                                    *)
LEMMA CreationMoves ==
  ASSUME TypeOK, Core, NEW c \in Runs, NEW x, creator' = [creator EXCEPT ![c] = x],
         x.pc \in {"bases", "displace", "insert"} => Creating(c),
         x.pc = "stop" => c \in Native \/ Creating(c),
         x.pc # "none", x.pc = "displace" => c \notin Native
  PROVE  CreationsKept
<1>1. creator'[c] = x /\ \A d \in Runs \ {c} : creator'[d] = creator[d]
  BY Shapes
<1> QED BY <1>1 DEF CreationsKept, Creating, Core, Admissions

(* The active runs are listed. *)
LEMMA ListActive_Core ==
  ASSUME TypeOK, TypeOK', Core, NEW c \in Runs, NEW i \in Instances, NEW s \in Strategies,
         ListActive(c, i, s)
  PROVE  Core' /\ RowsKept
<1>0. UNCHANGED <<row, exec, queue, calls, admitted, canceller, deleter>>
  BY DEF ListActive, store, claim
<1>1. PICK x : /\ creator' = [creator EXCEPT ![c] = x] /\ x.pc \in {"bases", "displace", "insert"}
               /\ x.pc = "displace" => c \notin Native
  <2> DEFINE pc == CASE ActiveRuns = {} \/ s = "enqueue" -> "insert"
                     [] s = "rollback" -> "bases"
                     [] s = "interrupt" -> IF c \in Native THEN "insert" ELSE "displace"
             x == [NoCreation EXCEPT
                    !.pc = pc, !.at = i, !.by = s,
                    !.todo = IF s = "enqueue" THEN {} ELSE ActiveRuns,
                    !.seen = [r \in Runs |-> IF r \in ActiveRuns THEN row[r] ELSE "none"]]
  <2>1. creator' = [creator EXCEPT ![c] = x]
    BY DEF ListActive
  <2>2. s \in {"rollback", "interrupt", "enqueue"}
    BY ConstantsAssumption DEF ListActive
  <2>3. pc \in {"bases", "displace", "insert"} /\ (pc = "displace" => c \notin Native)
    BY <2>2
  <2>4. x.pc = pc
    BY DEF NoCreation
  <2> HIDE DEF pc, x
  <2> QED BY <2>1, <2>3, <2>4
<1>2. Creating(c)
  BY DEF ListActive, CreatorAt, Creating
<1>3. CreationsKept
  BY <1>1, <1>2, CreationMoves
<1>4. ExecutionsKept
  BY <1>0, SameExecutions
<1> QED BY <1>0, <1>3, <1>4, SameRows, SameRequests, CoreKept

(* A rollback reads the bases. *)
LEMMA ReadBases_Core ==
  ASSUME TypeOK, TypeOK', Core, NEW c \in Runs, ReadBases(c) PROVE Core' /\ RowsKept
<1>0. UNCHANGED <<row, exec, queue, calls, admitted, canceller, deleter>>
  BY DEF ReadBases, store, claim
<1>1. PICK x : /\ creator' = [creator EXCEPT ![c] = x] /\ x.pc \in {"displace", "insert"}
               /\ x.pc = "displace" => c \notin Native
  <2>1. PICK base \in Recorded : creator' = [creator EXCEPT
            ![c].revert = base, ![c].pc = IF c \in Native THEN "insert" ELSE "displace"]
    BY DEF ReadBases
  <2> DEFINE x == [creator[c] EXCEPT
            !.revert = base, !.pc = IF c \in Native THEN "insert" ELSE "displace"]
  <2>2. creator' = [creator EXCEPT ![c] = x]
    BY <2>1, Shapes
  <2>3. x.pc = IF c \in Native THEN "insert" ELSE "displace"
    BY Shapes DEF Creation
  <2> HIDE DEF x
  <2> QED BY <2>2, <2>3
<1>2. Creating(c)
  BY DEF ReadBases, CreatorAt, Creating
<1>3. CreationsKept
  BY <1>1, <1>2, CreationMoves
<1>4. ExecutionsKept
  BY <1>0, SameExecutions
<1> QED BY <1>0, <1>3, <1>4, SameRows, SameRequests, CoreKept

(* A displaced row is settled or overwritten. *)
LEMMA DisplaceRow_Core ==
  ASSUME TypeOK, TypeOK', Core, NEW c \in Runs, DisplaceRow(c)
  PROVE  Core' /\ \A s \in Runs : RowMoves(s)
<1> USE DEF Core
<1>0. UNCHANGED <<exec, queue, admitted, canceller, deleter>> /\ creator[c].pc = "displace"
  BY DEF DisplaceRow, claim, CreatorAt
<1>1. c \notin Native /\ Creating(c)
  BY <1>0 DEF Admissions, Creating
<1>2. CreationsKept
  <2>1. creator' \in {[creator EXCEPT ![c] = Created],
                     [creator EXCEPT ![c] = [creator[c] EXCEPT !.pc = "stop"]]}
    BY Shapes DEF DisplaceRow
  <2>2. [creator[c] EXCEPT !.pc = "stop"].pc = "stop"
    BY Shapes DEF Creation
  <2> QED BY <1>1, <2>1, <2>2, Nothing, CreationMoves
<1>3. ExecutionsKept
  BY <1>0, SameExecutions DEF Core
<1>4. PICK d \in Runs :
        \/ UNCHANGED <<row, calls>>
        \/ Exists(d) /\ d \in Native /\ Settle({d}, DisplacedStatus(c))
        \/ Exists(d) /\ d \notin Native /\ SetStatus(d, DisplacedStatus(c))
  BY DEF DisplaceRow
<1>5. DisplacedStatus(c) \in Terminal
  BY StatusNames DEF DisplacedStatus
<1>6. CASE UNCHANGED <<row, calls>>
  BY <1>0, <1>2, <1>3, <1>6, SameRows, SameRequests, CoreKept DEF RowsKept
<1>7. CASE Exists(d) /\ d \notin Native /\ SetStatus(d, DisplacedStatus(c))
  <2>1. UNCHANGED calls /\ row'[d] = DisplacedStatus(c) /\ \A s \in Runs \ {d} : row'[s] = row[s]
    BY <1>7, Shapes DEF SetStatus
  <2>2. row[d] \in Active \cup Terminal
    BY <1>7, Shapes, Statuses DEF Exists
  <2>3. RowsKept
    BY <1>5, <1>7, <2>1, <2>2, Statuses DEF RowsKept, RowMoves
  <2> QED BY <1>0, <1>2, <1>3, <2>1, <2>3, SameRequests, CoreKept DEF RowsKept
<1>8. CASE Exists(d) /\ d \in Native /\ Settle({d}, DisplacedStatus(c))
  BY <1>0, <1>2, <1>3, <1>5, <1>8, SameRequests, SettledCore
<1> QED BY <1>4, <1>6, <1>7, <1>8

(* An abort requested by a request or delivered leaves what Core speaks of.  *)
LEMMA AbortKeeps ==
  ASSUME TypeOK, Core, NEW r \in Runs, NEW why, NEW i, Abort(r, why, i)
  PROVE  ExecutionsKept /\ \A s \in Runs : exec'[s].pc = exec[s].pc
BY AbortedKeeps DEF Abort

(* A displaced run is signalled. *)
LEMMA DisplaceStop_Core ==
  ASSUME TypeOK, TypeOK', Core, NEW c \in Runs, DisplaceStop(c) PROVE Core' /\ RowsKept
<1>0. UNCHANGED <<row, queue, calls, admitted, canceller, deleter>> /\ creator[c].pc = "stop"
  BY DEF DisplaceStop, store, claim, CreatorAt
<1>1. PICK d, x :
        /\ d \in Runs /\ Abort(d, creator[c].by, creator[c].at)
        /\ creator' = [creator EXCEPT ![c] = x] /\ x.pc \in {"done", "stop", "insert", "displace"}
        /\ x.pc = "stop" => c \in Native
        /\ x.pc \in {"insert", "displace"} => c \notin Native
  <2>1. PICK d \in Runs : LET left == creator[c].todo \ {d} IN
          /\ Abort(d, creator[c].by, creator[c].at)
          /\ creator' = [creator EXCEPT ![c] =
               IF c \in Native /\ left = {} THEN Created
               ELSE [creator[c] EXCEPT !.todo = left,
                              !.pc = CASE c \in Native -> "stop"
                                       [] c \notin Native /\ left = {} -> "insert"
                                       [] OTHER -> "displace"]]
    BY DEF DisplaceStop
  <2> DEFINE left == creator[c].todo \ {d}
             pc == CASE c \in Native -> "stop"
                     [] c \notin Native /\ left = {} -> "insert"
                     [] OTHER -> "displace"
             y == [creator[c] EXCEPT !.todo = left, !.pc = pc]
             x == IF c \in Native /\ left = {} THEN Created ELSE y
  <2>2. creator' = [creator EXCEPT ![c] = x]
    BY <2>1
  <2>3. y.pc = pc
    BY Shapes DEF Creation
  <2>4. /\ pc \in {"stop", "insert", "displace"} /\ (pc = "stop" => c \in Native)
        /\ pc \in {"insert", "displace"} => c \notin Native
    OBVIOUS
  <2>5. /\ x.pc \in {"done", "stop", "insert", "displace"} /\ (x.pc = "stop" => c \in Native)
        /\ x.pc \in {"insert", "displace"} => c \notin Native
    <3> HIDE DEF pc, y
    <3> QED BY <2>3, <2>4, Nothing
  <2> HIDE DEF x
  <2> QED BY <2>1, <2>2, <2>5
<1>2. c \notin Native => Creating(c)
  BY <1>0 DEF Creating
<1>3. CreationsKept
  BY <1>1, <1>2, CreationMoves
<1>4. ExecutionsKept
  BY <1>1, AbortKeeps
<1> QED BY <1>0, <1>3, <1>4, SameRows, SameRequests, CoreKept

(* A row is inserted: what is known of the run begins. The step may settle    *)
(* the runs it displaces.                                                    *)
LEMMA Inserted ==
  ASSUME TypeOK, TypeOK', Core, NEW c \in Runs, NEW at,
         row[c] = "absent", row'[c] = "pending",
         exec' = [exec EXCEPT ![c] = [NoExecution EXCEPT !.pc = "prepared", !.at = at]],
         c \in Native => c \in admitted', admitted \subseteq admitted',
         UNCHANGED <<queue, canceller, deleter>>,
         \A d \in Runs : Creating(d)' => Creating(d) /\ d # c,
         \A d \in Native : creator'[d].pc # "displace",
         \A s \in Runs \ {c} : RowMoves(s) /\ (row'[s] = "absent" <=> row[s] = "absent"),
         \A s \in Runs : row[s] = "absent" => calls'[s] = calls[s]
  PROVE  Unborn' /\ Waiting' /\ Admissions' /\ RecordsKept /\ \A s \in Runs : RowMoves(s)
<1> USE DEF Core
<1>1. /\ exec'[c].pc = "prepared" /\ \A s \in Runs \ {c} : exec'[s] = exec[s]
      /\ exec[c] = NoExecution
  BY Shapes DEF NoExecution, Unborn
<1>7. ~exec'[c].recorded
  BY Shapes DEF NoExecution
<1>2. Unborn'
  BY <1>1 DEF Unborn
<1>3. Waiting'
  BY <1>1, Nothing DEF Waiting
<1>4. Admissions'
  BY <1>1, Statuses DEF Admissions
<1>5. RecordsKept
  BY <1>1, <1>7, Nothing DEF RecordsKept, Remembers, Answered, Callbacks
<1>6. \A s \in Runs : RowMoves(s)
  BY DEF RowMoves
<1> QED BY <1>2, <1>3, <1>4, <1>5, <1>6

(* reject: a run is inserted on an idle thread. *)
LEMMA CreateIfIdle_Core ==
  ASSUME TypeOK, TypeOK', Core, NEW c \in Runs, NEW i \in Instances, CreateIfIdle(c, i)
  PROVE  Core' /\ \A s \in Runs : RowMoves(s)
<1> USE DEF Core
<1>0. UNCHANGED <<calls, queue, canceller, deleter>> /\ creator[c].pc = "none"
  BY DEF CreateIfIdle, claim, CreatorAt
<1>1. row[c] = "absent" /\ row'[c] = "pending" /\ \A s \in Runs \ {c} : row'[s] = row[s]
  BY <1>0, Shapes DEF CreateIfIdle, Unborn, Creating
<1>2. creator' = [creator EXCEPT ![c] = Created]
  BY DEF CreateIfIdle
<1>3. \A d \in Runs : Creating(d)' => Creating(d) /\ d # c
  BY <1>2, Shapes, Nothing DEF Creating
<1>4. \A d \in Native : creator'[d].pc # "displace"
  BY <1>2, Shapes, Nothing, Statuses DEF Admissions
<1>5. /\ c \in Native => c \in admitted'
      /\ admitted \subseteq admitted'
      /\ exec' = [exec EXCEPT ![c] = [NoExecution EXCEPT !.pc = "prepared", !.at = i]]
  BY DEF CreateIfIdle, Insert
<1>6. \A s \in Runs \ {c} : RowMoves(s) /\ (row'[s] = "absent" <=> row[s] = "absent")
  BY <1>1 DEF RowMoves
<1>7. Unborn' /\ Waiting' /\ Admissions' /\ RecordsKept /\ \A s \in Runs : RowMoves(s)
  BY <1>0, <1>1, <1>3, <1>4, <1>5, <1>6, Inserted
<1>8. Callbacks'
  BY <1>0, <1>1, <1>7, Statuses, CallbacksKept
<1> QED BY <1>7, <1>8

(* A run outside admission is inserted. *)
LEMMA InsertRow_Core ==
  ASSUME TypeOK, TypeOK', Core, NEW c \in Runs, InsertRow(c)
  PROVE  Core' /\ \A s \in Runs : RowMoves(s)
<1> USE DEF Core
<1>0. /\ UNCHANGED <<calls, queue, admitted, canceller, deleter>>
      /\ creator[c].pc = "insert" /\ c \notin Native
  BY DEF InsertRow, claim, CreatorAt
<1>1. row[c] = "absent" /\ row'[c] = "pending" /\ \A s \in Runs \ {c} : row'[s] = row[s]
  BY <1>0, Shapes DEF InsertRow, Unborn, Creating
<1>2. creator' = [creator EXCEPT ![c] = Created]
  BY DEF InsertRow
<1>3. \A d \in Runs : Creating(d)' => Creating(d) /\ d # c
  BY <1>2, Shapes, Nothing DEF Creating
<1>4. \A d \in Native : creator'[d].pc # "displace"
  BY <1>2, Shapes, Nothing, Statuses DEF Admissions
<1>5. exec' = [exec EXCEPT ![c] = [NoExecution EXCEPT !.pc = "prepared", !.at = creator[c].at]]
  BY DEF InsertRow, Insert
<1>6. \A s \in Runs \ {c} : RowMoves(s) /\ (row'[s] = "absent" <=> row[s] = "absent")
  BY <1>1 DEF RowMoves
<1>7. Unborn' /\ Waiting' /\ Admissions' /\ RecordsKept /\ \A s \in Runs : RowMoves(s)
  BY <1>0, <1>1, <1>3, <1>4, <1>5, <1>6, Inserted
<1>8. Callbacks'
  BY <1>0, <1>1, <1>7, Statuses, CallbacksKept
<1> QED BY <1>7, <1>8

(* The runs an admission displaces are active ones, or there are none.       *)
LEMMA Displaced ==
  ASSUME TypeOK, Core, NEW c \in Runs, Admit(c)
  PROVE  \/ /\ creator' = [creator EXCEPT ![c] = Created]
            /\ UNCHANGED <<row, calls, admitted, exec>>
         \/ /\ creator[c].todo \in {{}, ActiveRuns}
            /\ creator' \in {[creator EXCEPT ![c] = Created], [creator EXCEPT ![c].pc = "stop"]}
            /\ row'[c] = "pending"
            /\ \A s \in Runs \ {c} :
                 row'[s] = IF s \in creator[c].todo THEN DisplacedStatus(c) ELSE row[s]
            /\ \A s \in Runs :
                 calls'[s] = IF /\ s \in creator[c].todo /\ s \in Native /\ s \in Webhook
                                /\ calls[s] = <<>>
                             THEN <<DisplacedStatus(c)>> ELSE calls[s]
            /\ admitted' = admitted \cup creator[c].todo \cup {c}
            /\ exec' = [exec EXCEPT ![c] = [NoExecution EXCEPT !.pc = "prepared", !.at = creator[c].at]]
BY DEF Admit, Insert

(* Admission displaces and inserts at once. *)
LEMMA Admit_Core ==
  ASSUME TypeOK, TypeOK', Core, NEW c \in Runs, Admit(c)
  PROVE  Core' /\ \A s \in Runs : RowMoves(s)
<1> USE DEF Core
<1>0. /\ UNCHANGED <<queue, canceller, deleter>>
      /\ creator[c].pc = "insert" /\ c \in Native
  BY DEF Admit, claim, CreatorAt
<1>1. CASE /\ creator' = [creator EXCEPT ![c] = Created]
           /\ UNCHANGED <<row, calls, admitted, exec>>
  <2>1. CreationsKept
    BY <1>1, Nothing, CreationMoves
  <2>2. ExecutionsKept
    BY <1>1, SameExecutions DEF Core
  <2> QED BY <1>0, <1>1, <2>1, <2>2, SameRows, SameRequests, CoreKept DEF RowsKept
<1> DEFINE gone == creator[c].todo
           st == DisplacedStatus(c)
<1>2. CASE /\ gone \in {{}, ActiveRuns}
           /\ creator' \in {[creator EXCEPT ![c] = Created], [creator EXCEPT ![c].pc = "stop"]}
           /\ row'[c] = "pending"
           /\ \A s \in Runs \ {c} : row'[s] = IF s \in gone THEN st ELSE row[s]
           /\ \A s \in Runs :
                calls'[s] = IF /\ s \in gone /\ s \in Native /\ s \in Webhook
                               /\ calls[s] = <<>>
                            THEN <<st>> ELSE calls[s]
           /\ admitted' = admitted \cup gone \cup {c}
           /\ exec' = [exec EXCEPT ![c] = [NoExecution EXCEPT !.pc = "prepared", !.at = creator[c].at]]
  <2>1. st \in Terminal
    BY StatusNames DEF DisplacedStatus
  <2>2. row[c] = "absent"
    BY <1>0 DEF Unborn, Creating
  <2>3. \A s \in gone : s \in Runs /\ row[s] \in Active
    BY <1>2 DEF ActiveRuns
  <2> HIDE DEF gone, st
  <2>4. creator'[c].pc \in {"done", "stop"} /\ \A d \in Runs \ {c} : creator'[d] = creator[d]
    BY <1>2, Shapes, Nothing DEF Creation
  <2>5. \A d \in Runs : Creating(d)' => Creating(d) /\ d # c
    BY <1>0, <2>4 DEF Creating
  <2>6. \A d \in Native : creator'[d].pc # "displace"
    BY <2>4, Statuses DEF Admissions
  <2>7. \A s \in Runs \ {c} : RowMoves(s) /\ (row'[s] = "absent" <=> row[s] = "absent")
    BY <1>2, <2>1, <2>3, Statuses DEF RowMoves
  <2>8. \A s \in Runs : row[s] = "absent" => calls'[s] = calls[s]
    BY <1>2, <2>3, Statuses
  <2>9. Unborn' /\ Waiting' /\ Admissions' /\ RecordsKept /\ \A s \in Runs : RowMoves(s)
    BY <1>0, <1>2, <2>2, <2>5, <2>6, <2>7, <2>8, Inserted
  <2>10. Callbacks'
    <3>1. Len(<<st>>) = 1 /\ <<st>> # <<>>
      OBVIOUS
    <3>2. \A s \in Runs : s \in gone => row'[s] = st
      BY <1>2, <2>2, <2>3, Statuses
    <3>3. \A s \in Runs : calls'[s] = calls[s] \/ (s \in Native /\ s \in Webhook
            /\ calls[s] = <<>> /\ Len(calls'[s]) = 1 /\ calls'[s] # <<>> /\ row'[s] \notin Active)
      BY <1>2, <2>1, <3>1, <3>2, Statuses
    <3>4. \A s \in Runs : row'[s] \in Active => row[s] \in Active \cup {"absent"}
      BY <1>2, <2>1, <2>2, Statuses
    <3>5. \A s \in Native : row'[s] \in Terminal /\ s \in Webhook =>
            row[s] \in Terminal \/ calls'[s] # <<>>
      BY <1>2, <2>1, <3>1, Statuses
    <3> QED BY <2>9, <3>3, <3>4, <3>5, CallbacksKept
  <2> QED BY <2>9, <2>10
<1> QED BY <1>1, <1>2, Displaced

-----------------------------------------------------------------------------
(* Cancels and deletes.                                                      *)

(* One cancel request moves on; it was not waiting for the claim.            *)
LEMMA CancelMoves ==
  ASSUME TypeOK, Core, NEW r \in Runs, canceller[r].pc # "waiting", row[r] # "absent",
         \A s \in Runs \ {r} : canceller'[s] = canceller[s], UNCHANGED deleter
  PROVE  RequestsKept
BY DEF RequestsKept

(* A run with a cancel or a delete request has a row.                        *)
LEMMA Requested ==
  ASSUME Core, NEW r \in Runs, canceller[r].pc # "none" \/ deleter[r] # "none"
  PROVE  row[r] # "absent"
BY Nothing DEF Core, Unborn

LEMMA CancelGotoMoves ==
  ASSUME TypeOK, NEW r \in Runs, NEW pc, CancelGoto(r, pc)
  PROVE  /\ canceller'[r].pc = pc /\ canceller'[r].at = canceller[r].at
         /\ canceller'[r].mode = canceller[r].mode
         /\ \A s \in Runs \ {r} : canceller'[s] = canceller[s]
BY Shapes DEF CancelGoto, Cancellation

(* A cancel reads the row. *)
LEMMA CancelRead_Core ==
  ASSUME TypeOK, TypeOK', Core, NEW r \in Runs, NEW i \in Instances, NEW m \in CancelModes,
         CancelRead(r, i, m)
  PROVE  Core' /\ RowsKept
<1>0. UNCHANGED <<row, exec, queue, calls, admitted, creator, deleter>>
  BY DEF CancelRead, store, claim
<1>1. /\ canceller[r].pc = "none" /\ row[r] # "absent"
      /\ \A s \in Runs \ {r} : canceller'[s] = canceller[s]
  BY Shapes, Statuses DEF CancelRead, CancelAt
<1>2. RequestsKept
  BY <1>0, <1>1, CancelMoves
<1> QED BY <1>0, <1>2, SameExecutions, SameRows, SameCreations, CoreKept

(* A cancel that rolls back reads the base, *)
LEMMA CancelBase_Core ==
  ASSUME TypeOK, TypeOK', Core, NEW r \in Runs, CancelBase(r) PROVE Core' /\ RowsKept
<1>0. UNCHANGED <<row, exec, queue, calls, admitted, creator, deleter>>
  BY DEF CancelBase, store, claim
<1>1. /\ canceller[r].pc = "base"
      /\ \A s \in Runs \ {r} : canceller'[s] = canceller[s]
  BY Shapes DEF CancelBase, CancelAt
<1>2. RequestsKept
  BY <1>0, <1>1, Requested, CancelMoves
<1> QED BY <1>0, <1>2, SameExecutions, SameRows, SameCreations, CoreKept

(* ... settles or overwrites the row, *)
LEMMA CancelWrite_Core ==
  ASSUME TypeOK, TypeOK', Core, NEW r \in Runs, CancelWrite(r)
  PROVE  Core' /\ \A s \in Runs : RowMoves(s)
<1>0. UNCHANGED <<exec, queue, admitted, creator, deleter>> /\ canceller[r].pc = "write"
  BY DEF CancelWrite, claim, CancelAt
<1>1. /\ canceller'[r].pc \in {"lost", "idle"}
      /\ \A s \in Runs \ {r} : canceller'[s] = canceller[s]
  BY CancelGotoMoves DEF CancelWrite
<1>2. RequestsKept /\ ExecutionsKept /\ CreationsKept
  BY <1>0, <1>1, Requested, CancelMoves, SameExecutions, SameCreations
<1>3. "cancelled" \in Terminal
  BY StatusNames
<1>4. CASE UNCHANGED <<row, calls>>
  BY <1>0, <1>2, <1>4, SameRows, CoreKept DEF RowsKept
<1>5. CASE Exists(r) /\ r \notin Native /\ SetStatus(r, "cancelled")
  <2>1. UNCHANGED calls /\ row'[r] = "cancelled" /\ \A s \in Runs \ {r} : row'[s] = row[s]
    BY <1>5, Shapes DEF SetStatus
  <2>2. row[r] \in Active \cup Terminal
    BY <1>5, Shapes, Statuses DEF Exists
  <2>3. RowsKept
    BY <1>3, <1>5, <2>1, <2>2, Statuses DEF RowsKept, RowMoves
  <2> QED BY <1>0, <1>2, <2>1, <2>3, CoreKept DEF RowsKept
<1>6. CASE Exists(r) /\ r \in Native /\ Settle({r}, "cancelled")
  BY <1>0, <1>2, <1>3, <1>6, SettledCore
<1> QED BY <1>4, <1>5, <1>6 DEF CancelWrite

(* ... marks the thread idle, *)
LEMMA CancelIdle_Core ==
  ASSUME TypeOK, TypeOK', Core, NEW r \in Runs, CancelIdle(r) PROVE Core' /\ RowsKept
<1>0. UNCHANGED <<row, exec, queue, calls, admitted, creator, deleter>>
  BY DEF CancelIdle, store, claim
<1>1. /\ canceller[r].pc = "idle"
      /\ \A s \in Runs \ {r} : canceller'[s] = canceller[s]
  BY CancelGotoMoves DEF CancelIdle, CancelAt
<1>2. RequestsKept
  BY <1>0, <1>1, Requested, CancelMoves
<1> QED BY <1>0, <1>2, SameExecutions, SameRows, SameCreations, CoreKept

(* ... signals the execution and queues on the claim, or is answered, *)
LEMMA CancelAbort_Core ==
  ASSUME TypeOK, TypeOK', Core, NEW r \in Runs, CancelAbort(r) PROVE Core' /\ RowsKept
<1> USE DEF Core
<1> DEFINE i == canceller[r].at
<1>0. UNCHANGED <<row, calls, admitted, creator, deleter>> /\ canceller[r].pc = "abort"
  BY DEF CancelAbort, store, CancelAt
<1>1. /\ canceller'[r].pc = IF Waits(r) THEN "waiting" ELSE "done"
      /\ canceller'[r].at = i
      /\ \A s \in Runs \ {r} : canceller'[s] = canceller[s]
  BY CancelGotoMoves DEF CancelAbort
<1>2. ExecutionsKept
  BY AbortKeeps DEF CancelAbort
<1>3. RowsKept
  BY <1>0, SameRows
<1>4. CASE ~Waits(r)
  <2>1. UNCHANGED queue
    BY <1>4 DEF CancelAbort, claim
  <2>2. RequestsKept
    BY <1>0, <1>1, Requested, CancelMoves
  <2> QED BY <1>0, <1>2, <1>3, <2>1, <2>2, SameCreations, CoreKept
<1>5. CASE Waits(r)
  <2>1. row[r] # "absent"
    BY <1>0, Requested
  <2>2. Unborn'
    BY <1>0, <1>1, <1>2, <2>1 DEF Unborn, Creating, ExecutionsKept
  <2>3. Admissions' /\ Callbacks'
    <3>1. Admissions'
      BY <1>0, <1>2, Statuses DEF Admissions, ExecutionsKept
    <3>2. \A s \in Runs : row'[s] \in Active => row[s] \in Active \cup {"absent"}
      BY <1>0
    <3>3. Callbacks'
      BY <1>0, <1>2, <3>2, Statuses, CallbacksKept DEF ExecutionsKept
    <3> QED BY <3>1, <3>3
  <2>4. Waiting'
    <3>1. Unqueued(<<"cancel", r>>)
      BY <1>0 DEF Waiting, Unqueued
    <3>2. <<"cancel", r>> \in Tasks /\ Await(<<"cancel", r>>, i)
      BY <1>5 DEF Tasks, CancelAbort
    <3>3. Joined(<<"cancel", r>>, i)
      BY <3>1, <3>2, Awaited
    <3>4. \A s \in Runs : <<"cancel", r>> = <<"cancel", s>> => s = r
      OBVIOUS
    <3>5. ASSUME NEW j \in Instances, NEW k \in 1..Len(queue'[j]), NEW s \in Runs
          PROVE  /\ queue'[j][k] = <<"run", s>> => exec'[s].pc = "waiting" /\ exec'[s].at = j
                 /\ queue'[j][k] = <<"cancel", s>> =>
                      canceller'[s].pc = "waiting" /\ canceller'[s].at = j
      <4>1. CASE k \in 1..Len(queue[j]) /\ queue'[j][k] = queue[j][k]
        <5>1. queue[j][k] # <<"cancel", r>>
          BY <3>1, <4>1 DEF Unqueued
        <5>2. /\ queue[j][k] = <<"run", s>> => exec'[s].pc = "waiting" /\ exec'[s].at = j
              /\ queue[j][k] = <<"cancel", s>> => canceller[s].pc = "waiting" /\ canceller[s].at = j
          BY <1>2, <4>1 DEF Waiting, ExecutionsKept
        <5>3. s # r => canceller'[s] = canceller[s]
          BY <1>1
        <5> QED BY <4>1, <5>1, <5>2, <5>3
      <4>2. CASE j = i /\ queue'[j][k] = <<"cancel", r>>
        BY <1>1, <1>5, <3>4, <4>2
      <4> QED BY <3>3, <4>1, <4>2 DEF Joined
    <3> QED BY <3>3, <3>5 DEF Waiting, Joined
  <2> QED BY <1>3, <2>2, <2>3, <2>4
<1> QED BY <1>4, <1>5

(* ... and rolls the thread back under the claim. *)
LEMMA CancelClaimed_Core ==
  ASSUME TypeOK, TypeOK', Core, NEW r \in Runs, CancelClaimed(r) PROVE Core' /\ RowsKept
<1>0. UNCHANGED <<exec, queue, calls, admitted, creator, deleter>>
  BY DEF CancelClaimed, Release
<1>1. /\ canceller[r].pc = "claimed"
      /\ \A s \in Runs \ {r} : canceller'[s] = canceller[s]
  BY CancelGotoMoves DEF CancelClaimed, CancelAt
<1>2. RequestsKept
  BY <1>0, <1>1, Requested, CancelMoves
<1>3. RowsKept
  <2>1. row' \in {row, [row EXCEPT ![r] = "deleted"]} /\ row[r] # "absent"
    BY <1>1, Requested DEF CancelClaimed
  <2> QED BY <2>1, Shapes, Statuses DEF RowsKept, RowMoves
<1> QED BY <1>0, <1>2, <1>3, SameExecutions, SameCreations, CoreKept

(* A delete signals the execution, *)
LEMMA DeleteAbort_Core ==
  ASSUME TypeOK, TypeOK', Core, NEW r \in Runs, NEW i \in Instances, DeleteAbort(r, i)
  PROVE  Core' /\ RowsKept
<1>0. UNCHANGED <<row, queue, calls, admitted, creator, canceller>>
  BY DEF DeleteAbort, store, claim
<1>1. ExecutionsKept
  BY AbortKeeps DEF DeleteAbort
<1>2. RequestsKept
  BY <1>0, Shapes DEF DeleteAbort, Exists, RequestsKept
<1> QED BY <1>0, <1>1, <1>2, SameRows, SameCreations, CoreKept

(* ... then drops the row. *)
LEMMA DeleteRow_Core ==
  ASSUME TypeOK, TypeOK', Core, NEW r \in Runs, DeleteRow(r) PROVE Core' /\ RowsKept
<1>0. UNCHANGED <<exec, queue, calls, admitted, creator, canceller>>
  BY DEF DeleteRow, claim
<1>1. row[r] # "absent"
  BY Requested DEF DeleteRow
<1>2. /\ row'[r] = "deleted" /\ \A s \in Runs \ {r} : row'[s] = row[s] /\ deleter'[s] = deleter[s]
  BY Shapes DEF DeleteRow
<1>3. RequestsKept
  BY <1>0, <1>1, <1>2 DEF RequestsKept
<1>4. RowsKept
  BY <1>1, <1>2, Statuses DEF RowsKept, RowMoves
<1> QED BY <1>0, <1>3, <1>4, SameExecutions, SameCreations, CoreKept

(* The channel delivers an abort. *)
LEMMA DeliverAbort_Core ==
  ASSUME TypeOK, TypeOK', Core, NEW r \in Runs, NEW why \in Reasons, DeliverAbort(r, why)
  PROVE  Core' /\ RowsKept
<1>0. UNCHANGED <<row, queue, calls, admitted, creator, canceller, deleter>>
  BY DEF DeliverAbort, store, claim
<1>1. ExecutionsKept
  BY AbortedKeeps DEF DeliverAbort
<1> QED BY <1>0, <1>1, SameRows, OwnCore

-----------------------------------------------------------------------------
(* The claim and crashes.                                                    *)

LEMMA HeadTail ==
  ASSUME NEW S, NEW s \in Seq(S), s # <<>>
  PROVE  /\ Len(s) \in Nat \ {0} /\ Head(s) = s[1] /\ Head(s) \in S
         /\ Len(Tail(s)) = Len(s) - 1
         /\ \A k \in 1..Len(s) - 1 : Tail(s)[k] = s[k + 1]
<1>1. Len(s) \in Nat /\ Len(s) # 0
  OBVIOUS
<1>2. Head(s) = s[1] /\ s[1] \in S
  BY <1>1
<1>3. Len(Tail(s)) = Len(s) - 1
  OBVIOUS
<1>4. \A k \in 1..Len(s) - 1 : Tail(s)[k] = s[k + 1]
  OBVIOUS
<1> QED BY <1>1, <1>2, <1>3, <1>4

(* What is left of a queue whose head got the claim: neither it nor the      *)
(* others hold that task.                                                    *)
LEMMA Dequeued ==
  ASSUME TypeOK, Waiting, NEW i \in Instances, queue[i] # <<>>,
         queue' = [queue EXCEPT ![i] = Tail(@)]
  PROVE  /\ Head(queue[i]) \in Tasks /\ 1 \in 1..Len(queue[i])
         /\ Head(queue[i]) = queue[i][1]
         /\ \A j \in Instances \ {i} : queue'[j] = queue[j]
         /\ \A k \in 1..Len(queue'[i]) : k + 1 \in 1..Len(queue[i])
              /\ queue'[i][k] = queue[i][k + 1] /\ queue'[i][k] # Head(queue[i])
         /\ \A j \in Instances : \A k, l \in 1..Len(queue'[j]) :
              queue'[j][k] = queue'[j][l] => k = l
<1>1. queue[i] \in Seq(Tasks)
  BY Shapes
<1>2. queue'[i] = Tail(queue[i]) /\ \A j \in Instances \ {i} : queue'[j] = queue[j]
  BY Shapes
<1>3. /\ Len(queue[i]) \in Nat \ {0} /\ Head(queue[i]) = queue[i][1] /\ Head(queue[i]) \in Tasks
      /\ Len(queue'[i]) = Len(queue[i]) - 1
      /\ \A k \in 1..Len(queue[i]) - 1 : queue'[i][k] = queue[i][k + 1]
  <2> DEFINE q == queue[i]
             x == queue'[i]
  <2>1. q \in Seq(Tasks) /\ q # <<>> /\ x = Tail(q)
    BY <1>1, <1>2
  <2> HIDE DEF q, x
  <2>2. /\ Len(q) \in Nat \ {0} /\ Head(q) = q[1] /\ Head(q) \in Tasks
        /\ Len(x) = Len(q) - 1 /\ \A k \in 1..Len(q) - 1 : x[k] = q[k + 1]
    BY <2>1, HeadTail
  <2> QED BY <2>2 DEF q, x
<1>4. 1 \in 1..Len(queue[i])
  BY <1>3
<1>5. ASSUME NEW k \in 1..Len(queue'[i])
      PROVE  /\ k + 1 \in 1..Len(queue[i]) /\ queue'[i][k] = queue[i][k + 1]
             /\ queue'[i][k] # Head(queue[i])
  <2>1. k + 1 \in 1..Len(queue[i]) /\ queue'[i][k] = queue[i][k + 1] /\ k + 1 # 1
    BY <1>3
  <2>2. queue[i][k + 1] # queue[i][1]
    BY <1>4, <2>1 DEF Waiting
  <2> QED BY <1>3, <2>1, <2>2
<1>6. ASSUME NEW j \in Instances, NEW k \in 1..Len(queue'[j]), NEW l \in 1..Len(queue'[j]),
             queue'[j][k] = queue'[j][l]
      PROVE  k = l
  <2>1. CASE j # i
    BY <1>2, <1>6, <2>1 DEF Waiting
  <2>2. CASE j = i
    <3>1. /\ k + 1 \in 1..Len(queue[i]) /\ l + 1 \in 1..Len(queue[i])
          /\ queue[i][k + 1] = queue[i][l + 1]
      BY <1>5, <1>6, <2>2
    <3>2. k + 1 = l + 1
      BY <3>1 DEF Waiting
    <3>3. k \in Int /\ l \in Int
      OBVIOUS
    <3> QED BY <3>2, <3>3
  <2> QED BY <2>1, <2>2
<1> QED BY <1>2, <1>3, <1>4, <1>5, <1>6

(* The claim goes to a waiting task. *)
LEMMA Acquire_Core ==
  ASSUME TypeOK, TypeOK', Core, NEW i \in Instances, Acquire(i) PROVE Core' /\ RowsKept
<1> USE DEF Core
<1> DEFINE task == Head(queue[i])
<1>0. /\ UNCHANGED <<row, calls, admitted, creator, deleter>> /\ queue[i] # <<>>
      /\ queue' = [queue EXCEPT ![i] = Tail(@)]
      /\ exec' = IF task[1] = "run" THEN [exec EXCEPT ![task[2]].pc = "claimed"] ELSE exec
      /\ canceller' = IF task[1] = "cancel"
                      THEN [canceller EXCEPT ![task[2]].pc = "claimed"] ELSE canceller
  BY DEF Acquire, store
<1>1. RowsKept
  BY <1>0, SameRows
<1>2. /\ task \in Tasks /\ 1 \in 1..Len(queue[i]) /\ task = queue[i][1]
      /\ \A j \in Instances \ {i} : queue'[j] = queue[j]
      /\ \A k \in 1..Len(queue'[i]) : k + 1 \in 1..Len(queue[i])
           /\ queue'[i][k] = queue[i][k + 1] /\ queue'[i][k] # task
      /\ \A j \in Instances : \A k, l \in 1..Len(queue'[j]) :
           queue'[j][k] = queue'[j][l] => k = l
  BY <1>0, Dequeued
<1>3. PICK t \in {"run", "cancel"}, r \in Runs : task = <<t, r>>
  BY <1>2 DEF Tasks
<1> HIDE DEF task
<1>4. /\ t = "run" => exec[r].pc = "waiting" /\ exec[r].at = i
      /\ t = "cancel" => canceller[r].pc = "waiting" /\ canceller[r].at = i
  <2>1. /\ t = "run" => queue[i][1] = <<"run", r>>
        /\ t = "cancel" => queue[i][1] = <<"cancel", r>>
    BY <1>2, <1>3
  <2>2. 1 \in 1..Len(queue[i])
    BY <1>2
  <2> QED BY <2>1, <2>2 DEF Waiting
<1>5. ASSUME NEW j \in Instances, NEW k \in 1..Len(queue'[j])
      PROVE  \E l \in 1..Len(queue[j]) : queue'[j][k] = queue[j][l]
  BY <1>2
<1>6. ASSUME NEW j \in Instances, NEW k \in 1..Len(queue'[j]) PROVE queue'[j][k] # <<t, r>>
  <2>1. CASE j = i
    BY <1>2, <1>3, <2>1
  <2>2. CASE j # i
    <3>1. queue'[j] = queue[j]
      BY <1>2, <2>2
    <3> QED BY <1>4, <2>2, <3>1 DEF Waiting
  <2> QED BY <2>1, <2>2
<1>7. ASSUME t = "run" PROVE Core'
  <2>1. /\ exec[r].pc = "waiting" /\ exec'[r].pc = "claimed" /\ exec'[r].recorded = exec[r].recorded
        /\ \A s \in Runs \ {r} : exec'[s] = exec[s]
        /\ UNCHANGED canceller
    <3>1. exec[r].pc = "waiting"
      BY <1>7, <1>4
    <3>2. exec' = [exec EXCEPT ![r].pc = "claimed"] /\ UNCHANGED canceller
      BY <1>0, <1>3, <1>7
    <3> QED BY <3>1, <3>2, Shapes DEF Execution
  <2>2. Unborn'
    BY <1>0, <2>1, Nothing DEF Unborn, Creating
  <2>3. Waiting'
    <3>1. ASSUME NEW j \in Instances, NEW k \in 1..Len(queue'[j]), NEW s \in Runs
          PROVE  /\ queue'[j][k] = <<"run", s>> => exec'[s].pc = "waiting" /\ exec'[s].at = j
                 /\ queue'[j][k] = <<"cancel", s>> =>
                      canceller'[s].pc = "waiting" /\ canceller'[s].at = j
      <4>1. queue'[j][k] # <<"run", r>>
        BY <1>6, <1>7
      <4>2. PICK l \in 1..Len(queue[j]) : queue'[j][k] = queue[j][l]
        BY <1>5
      <4> QED BY <2>1, <4>1, <4>2 DEF Waiting
    <3> QED BY <1>2, <3>1 DEF Waiting
  <2>4. Admissions' /\ Callbacks'
    BY <1>0, <2>1, Statuses DEF Admissions, Callbacks, Answered, Late
  <2> QED BY <2>2, <2>3, <2>4
<1>8. ASSUME t = "cancel" PROVE Core'
  <2>1. /\ canceller[r].pc = "waiting" /\ UNCHANGED exec
        /\ \A s \in Runs \ {r} : canceller'[s] = canceller[s]
    <3>1. canceller[r].pc = "waiting"
      BY <1>8, <1>4
    <3>2. canceller' = [canceller EXCEPT ![r].pc = "claimed"] /\ UNCHANGED exec
      BY <1>0, <1>3, <1>8
    <3> QED BY <3>1, <3>2, Shapes
  <2>2. Unborn'
    BY <1>0, <2>1, Nothing DEF Unborn, Creating
  <2>3. Waiting'
    <3>1. ASSUME NEW j \in Instances, NEW k \in 1..Len(queue'[j]), NEW s \in Runs
          PROVE  /\ queue'[j][k] = <<"run", s>> => exec'[s].pc = "waiting" /\ exec'[s].at = j
                 /\ queue'[j][k] = <<"cancel", s>> =>
                      canceller'[s].pc = "waiting" /\ canceller'[s].at = j
      <4>1. queue'[j][k] # <<"cancel", r>>
        BY <1>6, <1>8
      <4>2. PICK l \in 1..Len(queue[j]) : queue'[j][k] = queue[j][l]
        BY <1>5
      <4> QED BY <2>1, <4>1, <4>2 DEF Waiting
    <3> QED BY <1>2, <3>1 DEF Waiting
  <2>4. Admissions' /\ Callbacks'
    BY <1>0, <2>1, Statuses DEF Admissions, Callbacks, Answered
  <2> QED BY <2>2, <2>3, <2>4
<1> QED BY <1>1, <1>7, <1>8

(* A process dies. *)
LEMMA Crash_Core ==
  ASSUME TypeOK, TypeOK', Core, NEW i \in Instances, Crash(i) PROVE Core' /\ RowsKept
<1> USE DEF Core
<1>0. UNCHANGED <<row, calls, admitted, deleter>> /\ i # "none"
  BY ConstantsAssumption DEF Crash, store, TypeOK, TypeThread
<1>1. RowsKept
  BY <1>0, SameRows
<1>2. \A r \in Runs : IF exec[r].at = i
                     THEN exec'[r].pc \in {"queued", "done"} /\ ~exec'[r].recorded
                     ELSE exec'[r] = exec[r]
  BY Statuses, ConstantsAssumption DEF Crash, NoExecution
<1>3. \A c \in Runs : IF creator[c].at = i THEN creator'[c] = Created ELSE creator'[c] = creator[c]
  BY DEF Crash
<1>4. \A r \in Runs : canceller[r].at # i => canceller'[r] = canceller[r]
  BY DEF Crash
<1>5. queue'[i] = <<>> /\ \A j \in Instances \ {i} : queue'[j] = queue[j]
  BY Shapes DEF Crash
<1>6. Unborn'
  BY <1>0, <1>2, <1>3, <1>4, Nothing DEF Unborn, Creating
<1>7. Waiting'
  BY <1>2, <1>4, <1>5 DEF Waiting
<1>8. Admissions'
  BY <1>0, <1>2, <1>3, Nothing, Statuses DEF Admissions
<1>9. Callbacks'
  <2>1. \A r \in Runs : Answered(r) => Answered(r)'
    BY <1>2 DEF Answered
  <2>2. \A r \in Runs : exec'[r].recorded => exec'[r].pc \in Late
    BY <1>2 DEF Callbacks
  <2> QED BY <1>0, <2>1, <2>2 DEF Callbacks
<1> QED BY <1>1, <1>6, <1>7, <1>8, <1>9

-----------------------------------------------------------------------------
(* Core is inductive, and no step moves a row any other way.                 *)

LEMMA InitCore == Init => Core
<1> SUFFICES ASSUME Init PROVE Core
  OBVIOUS
<1> USE DEF Init
<1>1. Unborn /\ Waiting
  BY DEF Unborn, Waiting
<1>2. Admissions
  BY Nothing, Statuses DEF Admissions, NoCreation
<1>3. Callbacks
  BY Nothing, Statuses DEF Callbacks
<1> QED BY <1>1, <1>2, <1>3 DEF Core

LEMMA NextCore ==
  ASSUME IInv, IInv', Core, [Next]_vars PROVE Core' /\ \A s \in Runs : RowMoves(s)
<1> USE DEF IInv
<1>0. RowsKept => \A s \in Runs : RowMoves(s)
  BY DEF RowsKept
<1>1. ASSUME NEW r \in Runs, EngineStep(r) PROVE Core' /\ \A s \in Runs : RowMoves(s)
  <2>1. CASE \E i \in Instances : Pull(r, i)
    BY <1>0, <2>1, Pull_Core
  <2>2. CASE \/ StartInline(r) \/ Enqueue(r) \/ Reread(r) \/ ApplyPlan(r) \/ Check(r)
             \/ MarkRunning(r) \/ MirrorBusy(r) \/ RecordBase(r) \/ GraphWrite(r)
    BY <1>0, <2>2, StartInline_Core, Enqueue_Core, Reread_Core, ApplyPlan_Core, Check_Core,
       MarkRunning_Core, MirrorBusy_Core, RecordBase_Core, Written_Core
  <2>3. CASE \/ GraphReturn(r) \/ GraphThrow(r) \/ FinalizeRead(r) \/ FinalizeWrite(r)
             \/ FinalizeWithDelivery(r) \/ SettleNative(r) \/ Mirror(r) \/ Close(r)
    BY <1>0, <2>3, GraphReturn_Core, GraphThrow_Core, FinalizeRead_Core, FinalizeWrite_Core,
       FinalizeWithDelivery_Core, SettleNative_Core, Mirror_Core, Close_Core
  <2> QED BY <1>1, <2>1, <2>2, <2>3 DEF EngineStep
<1>2. ASSUME NEW c \in Runs, CreateStep(c) PROVE Core' /\ \A s \in Runs : RowMoves(s)
  BY <1>0, <1>2, ReadBases_Core, DisplaceRow_Core, DisplaceStop_Core, InsertRow_Core,
     Admit_Core DEF CreateStep
<1>3. ASSUME NEW r \in Runs, CancelStep(r) PROVE Core' /\ \A s \in Runs : RowMoves(s)
  BY <1>0, <1>3, CancelBase_Core, CancelWrite_Core, CancelIdle_Core, CancelAbort_Core,
     CancelClaimed_Core DEF CancelStep
<1>4. ASSUME NEW r \in Runs, PersistBase(r) \/ Timeout(r) \/ Observe(r) \/ DeleteRow(r)
      PROVE  Core' /\ \A s \in Runs : RowMoves(s)
  BY <1>0, <1>4, Written_Core, Timeout_Core, Observe_Core, DeleteRow_Core
<1>5. ASSUME NEW r \in Runs, NEW i \in Instances,
             \/ CreateIfIdle(r, i) \/ DeleteAbort(r, i)
             \/ \E s \in Strategies : ListActive(r, i, s)
             \/ \E m \in CancelModes : CancelRead(r, i, m)
      PROVE  Core' /\ \A s \in Runs : RowMoves(s)
  BY <1>0, <1>5, CreateIfIdle_Core, DeleteAbort_Core, ListActive_Core, CancelRead_Core
<1>6. ASSUME NEW r \in Runs, NEW why \in Reasons, DeliverAbort(r, why)
      PROVE  Core' /\ \A s \in Runs : RowMoves(s)
  BY <1>0, <1>6, DeliverAbort_Core
<1>7. ASSUME NEW i \in Instances, Acquire(i) \/ Crash(i)
      PROVE  Core' /\ \A s \in Runs : RowMoves(s)
  BY <1>0, <1>7, Acquire_Core, Crash_Core
<1>8. CASE UNCHANGED vars
  <2>1. UNCHANGED <<row, exec, queue, calls, admitted, creator, canceller, deleter>>
    BY <1>8 DEF vars, store, claim
  <2> QED BY <1>0, <2>1, SameExecutions, SameRows, OwnCore
<1> QED BY <1>1, <1>2, <1>3, <1>4, <1>5, <1>6, <1>7, <1>8 DEF Next

(* The two inductive invariants together hold of every execution.            *)
THEOREM SettlementInvariant == Spec => [](IInv /\ Core)
<1>1. Init => IInv /\ Core
  BY InitInv, InitCore
<1>2. IInv /\ Core /\ [Next]_vars => (IInv /\ Core)'
  BY NextInv, NextCore
<1> QED BY <1>1, <1>2, PTL DEF Spec

(* A deleted row stays deleted: no write that comes late, of an execution, a *)
(* cancel, a displacement or a creation, brings it back, in any deployment.  *)
THEOREM DeletedRowsStay == Spec => DeletedStaysDeleted
<1>1. IInv /\ Core /\ [Next]_vars /\ IInv' => \A r \in Runs : row[r] = "deleted" => row'[r] = "deleted"
  BY NextCore, Statuses DEF RowMoves
<1> QED BY <1>1, SettlementInvariant, PTL DEF Spec, DeletedStaysDeleted

(* A finished run that was created through admission is never reopened or    *)
(* rewritten, whatever its execution, cancels, displacements, timeouts and   *)
(* crashed processes do; the runs outside admission may interleave freely.   *)
THEOREM NativeTerminalStays ==
  Spec => [][\A r \in Native : row[r] \in Terminal => row'[r] \in {row[r], "deleted"}]_vars
<1>1. IInv /\ Core /\ [Next]_vars /\ IInv' =>
        \A r \in Native : row[r] \in Terminal => row'[r] \in {row[r], "deleted"}
  BY NextCore, Statuses DEF RowMoves
<1> QED BY <1>1, SettlementInvariant, PTL DEF Spec

(* So the first terminal status of every run stands where all are admitted.  *)
THEOREM TerminalRowsStay == ASSUME Native = Runs PROVE Spec => FirstTerminalWins
<1>1. IInv /\ Core /\ [Next]_vars /\ IInv' =>
        \A r \in Runs : row[r] \in Terminal => row'[r] \in {row[r], "deleted"}
  BY NextCore, Statuses DEF RowMoves
<1> QED BY <1>1, SettlementInvariant, PTL DEF Spec, FirstTerminalWins

(* A run is notified at most once, although a failing write makes the engine *)
(* settle it again, a crash makes a worker execute it again and late writes  *)
(* reopen its row: in any deployment.                                        *)
THEOREM NotifiedOnce == Spec => []OneCallback
<1>1. Core => OneCallback
  <2> SUFFICES ASSUME Core, NEW r \in Runs PROVE Len(calls[r]) <= 1
    BY DEF OneCallback
  <2>1. CASE r \in Native
    BY <2>1 DEF Core, Callbacks
  <2>2. CASE r \notin Native /\ calls[r] # <<>>
    <3>1. Len(calls[r]) = 1
      BY <2>2 DEF Core, Callbacks
    <3> QED BY <3>1
  <2>3. CASE calls[r] = <<>>
    BY <2>3
  <2> QED BY <2>1, <2>2, <2>3
<1> QED BY <1>1, SettlementInvariant, PTL

-----------------------------------------------------------------------------
(* The refinement of RunContract by the runs that admission creates.         *)

ContractVars == <<row, calls>>

LEMMA ContractSets ==
  Contract!Active = Active /\ Contract!Terminal = Terminal
BY DEF Contract!Active, Contract!Terminal, Active, Terminal

LEMMA ContractInit == Init => Contract!Init
BY DEF Init, Contract!Init

(* What of an execution a client can see: it starts, and it settles.         *)
LEMMA MarkRunning_Contract ==
  ASSUME Native = Runs, IInv, Core, NEW r \in Runs, MarkRunning(r)
  PROVE  [Contract!Next]_ContractVars
<1> USE DEF IInv
<1>1. CASE UNCHANGED <<row, calls>>
  BY <1>1 DEF ContractVars
<1>2. CASE Exists(r) /\ ~RefusesRunning(r) /\ SetStatus(r, "running")
  <2>1. row[r] \in Active
    BY <1>2, Shapes, Statuses DEF Exists, RefusesRunning, Core, Admissions
  <2>2. Contract!Start(r)
    BY <1>2, <2>1, ContractSets DEF SetStatus, Contract!Start
  <2> QED BY <2>2 DEF Contract!Next
<1> QED BY <1>1, <1>2 DEF MarkRunning

(* A settlement of one run by its execution or a cancel.                     *)
LEMMA Settle_Contract ==
  ASSUME Native = Runs, TypeOK, Core, NEW r \in Runs, NEW st \in Terminal, Exists(r),
         Settle({r}, st)
  PROVE  [Contract!Next]_ContractVars
<1> USE DEF Core
<1>1. /\ row' = [s \in Runs |-> IF s = r /\ row[s] \in Active THEN st ELSE row[s]]
      /\ calls' = [s \in Runs |-> IF s = r /\ s \in Webhook /\ calls[s] = <<>>
                                 THEN <<row'[s]>> ELSE calls[s]]
  BY DEF Settle
<1>2. CASE row[r] \in Active
  <2>1. calls[r] = <<>> /\ row'[r] = st
    BY <1>1, <1>2 DEF Callbacks
  <2>2. row' = [row EXCEPT ![r] = st]
    BY <1>1, <1>2, Shapes
  <2>3. calls' = [s \in Runs |-> IF s \in {r} \cap Webhook THEN <<st>> ELSE calls[s]]
    BY <1>1, <2>1
  <2>4. Contract!Settle(r, st)
    BY <1>2, <2>2, <2>3, ContractSets DEF Contract!Settle, Contract!Told
  <2> QED BY <2>4, ContractSets DEF Contract!Next
<1>3. CASE row[r] \notin Active
  <2>1. row[r] \in Terminal
    BY <1>3, Shapes, Statuses DEF Exists
  <2>2. r \in Webhook => calls[r] # <<>>
    BY <2>1 DEF Callbacks
  <2>3. UNCHANGED <<row, calls>>
    BY <1>1, <1>3, <2>2, Shapes
  <2> QED BY <2>3 DEF ContractVars
<1> QED BY <1>2, <1>3

LEMMA SettleNative_Contract ==
  ASSUME Native = Runs, IInv, Core, NEW r \in Runs, SettleNative(r)
  PROVE  [Contract!Next]_ContractVars
<1> USE DEF IInv
<1>1. exec[r].out \in Terminal
  BY DEF SettleNative, Settling
<1>2. CASE Exists(r) /\ Settle({r}, exec[r].out)
  BY <1>1, <1>2, Settle_Contract
<1>3. CASE UNCHANGED <<row, calls>>
  BY <1>3 DEF ContractVars
<1>4. CASE /\ ~Exists(r) /\ UNCHANGED row /\ r \in Webhook /\ calls[r] = <<>>
           /\ calls' = [calls EXCEPT ![r] = <<exec[r].out>>]
  <2>1. row[r] # "absent"
    BY Nothing DEF SettleNative, Core, Unborn
  <2>2. Contract!NotifyDeleted(r, exec[r].out)
    BY <1>4, <2>1 DEF Exists, Contract!NotifyDeleted
  <2> QED BY <1>1, <2>2, ContractSets DEF Contract!Next
<1> QED BY <1>2, <1>3, <1>4 DEF SettleNative

(* The rows a plan may drop are those of runs outside admission.             *)
LEMMA ApplyPlan_Contract ==
  ASSUME Native = Runs, IInv, NEW r \in Runs, ApplyPlan(r) PROVE UNCHANGED <<row, calls>>
<1>1. row \in [Runs -> RowStatus] /\ plan[r].rows \subseteq Runs
  BY Shapes DEF IInv
<1> QED BY <1>1 DEF ApplyPlan

(* The paths of runs outside admission are not taken.                        *)
LEMMA Closed_Contract ==
  ASSUME Native = Runs, Core, NEW r \in Runs
  PROVE  ~FinalizeWrite(r) /\ ~FinalizeWithDelivery(r) /\ ~DisplaceRow(r) /\ ~InsertRow(r)
BY DEF Core, Admissions, FinalizeWrite, FinalizeWithDelivery, DisplaceRow, InsertRow, CreatorAt

LEMMA CreateIfIdle_Contract ==
  ASSUME IInv, Core, NEW c \in Runs, NEW i \in Instances, CreateIfIdle(c, i)
  PROVE  [Contract!Next]_ContractVars
<1>1. row[c] = "absent"
  BY DEF CreateIfIdle, CreatorAt, Core, Unborn, Creating
<1>2. row' = [s \in Runs |-> IF s = c THEN "pending" ELSE IF s \in {} THEN "success" ELSE row[s]]
  BY Shapes DEF CreateIfIdle, IInv
<1>3. calls' = [s \in Runs |-> IF s \in {} \cap Webhook THEN <<"success">> ELSE calls[s]]
  BY Shapes DEF CreateIfIdle, IInv
<1>4. Contract!Admit(c, {}, "success")
  BY <1>1, <1>2, <1>3 DEF Contract!Admit, Contract!Told
<1>5. "success" \in Contract!Terminal /\ {} \in SUBSET Runs
  BY StatusNames, ContractSets
<1> QED BY <1>4, <1>5 DEF Contract!Next

(* Admission displaces all active runs or none.                              *)
LEMMA Admit_Contract ==
  ASSUME Native = Runs, IInv, Core, NEW c \in Runs, Admit(c)
  PROVE  [Contract!Next]_ContractVars
<1> USE DEF IInv, Core
<1> DEFINE gone == creator[c].todo
           st == DisplacedStatus(c)
<1>1. CASE UNCHANGED <<row, calls>>
  BY <1>1 DEF ContractVars
<1>2. CASE /\ gone \in {{}, ActiveRuns}
           /\ row' = [s \in Runs |-> IF s = c THEN "pending" ELSE IF s \in gone THEN st ELSE row[s]]
           /\ calls' = [s \in Runs |-> IF /\ s \in gone /\ s \in Webhook /\ calls[s] = <<>>
                                      THEN <<st>> ELSE calls[s]]
  <2>1. row[c] = "absent"
    BY DEF Admit, CreatorAt, Unborn, Creating
  <2>2. \A s \in gone : s \in Runs /\ calls[s] = <<>>
    BY <1>2 DEF ActiveRuns, Callbacks
  <2>3. gone \in {{}, {s \in Runs : row[s] \in Contract!Active}} /\ gone \in SUBSET Runs
    BY <1>2, <2>2, ContractSets DEF ActiveRuns
  <2>4. st \in Contract!Terminal
    BY StatusNames, ContractSets DEF DisplacedStatus
  <2> HIDE DEF gone, st
  <2>5. calls' = [s \in Runs |-> IF s \in gone \cap Webhook THEN <<st>> ELSE calls[s]]
    BY <1>2, <2>2
  <2>6. Contract!Admit(c, gone, st)
    BY <1>2, <2>1, <2>3, <2>5 DEF Contract!Admit, Contract!Told
  <2> QED BY <2>3, <2>4, <2>6 DEF Contract!Next
<1> QED BY <1>1, <1>2 DEF Admit

LEMMA CancelWrite_Contract ==
  ASSUME Native = Runs, IInv, Core, NEW r \in Runs, CancelWrite(r)
  PROVE  [Contract!Next]_ContractVars
<1>1. CASE UNCHANGED <<row, calls>>
  BY <1>1 DEF ContractVars
<1>2. CASE Exists(r) /\ Settle({r}, "cancelled")
  BY <1>2, StatusNames, Settle_Contract DEF IInv
<1> QED BY <1>1, <1>2 DEF CancelWrite

(* A cancel that rolls back while it holds the claim leaves the row alone.   *)
LEMMA CancelClaimed_Contract ==
  ASSUME Native = Runs, NEW r \in Runs, CancelClaimed(r) PROVE UNCHANGED <<row, calls>>
BY DEF CancelClaimed

LEMMA DeleteRow_Contract ==
  ASSUME IInv, Core, NEW r \in Runs, DeleteRow(r) PROVE [Contract!Next]_ContractVars
<1>1. row[r] # "absent"
  BY Requested DEF DeleteRow
<1>2. Contract!Delete(r)
  BY <1>1 DEF DeleteRow, Contract!Delete
<1> QED BY <1>2 DEF Contract!Next

(* Everything else is invisible to a client.                                 *)
LEMMA Invisible ==
  ASSUME NEW r \in Runs,
         \/ StartInline(r) \/ Enqueue(r) \/ (\E i \in Instances : Pull(r, i)) \/ Reread(r)
         \/ Check(r) \/ MirrorBusy(r) \/ RecordBase(r) \/ GraphWrite(r) \/ GraphReturn(r)
         \/ GraphThrow(r) \/ FinalizeRead(r) \/ Mirror(r) \/ Close(r)
         \/ ReadBases(r) \/ DisplaceStop(r)
         \/ CancelBase(r) \/ CancelIdle(r) \/ CancelAbort(r)
         \/ PersistBase(r) \/ Timeout(r) \/ Observe(r)
         \/ (\E i \in Instances : \/ DeleteAbort(r, i)
                                 \/ (\E s \in Strategies : ListActive(r, i, s))
                                 \/ (\E m \in CancelModes : CancelRead(r, i, m)))
         \/ (\E why \in Reasons : DeliverAbort(r, why))
         \/ (\E i \in Instances : Acquire(i) \/ Crash(i))
  PROVE  UNCHANGED <<row, calls>>
BY DEF StartInline, Enqueue, Pull, Reread, Check, MirrorBusy, RecordBase, GraphWrite, GraphReturn,
       GraphThrow, FinalizeRead, Mirror, Close, ReadBases, DisplaceStop, CancelBase, CancelIdle,
       CancelAbort, PersistBase, Timeout, Observe, DeleteAbort, ListActive, CancelRead,
       DeliverAbort, Acquire, Crash, store

LEMMA ContractNext ==
  ASSUME Native = Runs, IInv, IInv', Core, [Next]_vars PROVE [Contract!Next]_ContractVars
<1> USE DEF IInv
<1>0. (UNCHANGED <<row, calls>>) => [Contract!Next]_ContractVars
  BY DEF ContractVars
<1>1. ASSUME NEW r \in Runs, EngineStep(r) PROVE [Contract!Next]_ContractVars
  <2>1. CASE ApplyPlan(r)
    BY <1>0, <2>1, ApplyPlan_Contract
  <2>2. CASE MarkRunning(r)
    BY <2>2, MarkRunning_Contract
  <2>3. CASE SettleNative(r)
    BY <2>3, SettleNative_Contract
  <2>4. CASE FinalizeWrite(r) \/ FinalizeWithDelivery(r)
    BY <2>4, Closed_Contract
  <2>5. CASE \/ StartInline(r) \/ Enqueue(r) \/ (\E i \in Instances : Pull(r, i)) \/ Reread(r)
             \/ Check(r) \/ MirrorBusy(r) \/ RecordBase(r) \/ GraphWrite(r) \/ GraphReturn(r)
             \/ GraphThrow(r) \/ FinalizeRead(r) \/ Mirror(r) \/ Close(r)
    BY <1>0, <2>5, Invisible
  <2> QED BY <1>1, <2>1, <2>2, <2>3, <2>4, <2>5 DEF EngineStep
<1>2. ASSUME NEW c \in Runs, CreateStep(c) PROVE [Contract!Next]_ContractVars
  <2>1. CASE ReadBases(c) \/ DisplaceStop(c)
    BY <1>0, <2>1, Invisible
  <2>2. CASE DisplaceRow(c) \/ InsertRow(c)
    BY <2>2, Closed_Contract
  <2>3. CASE Admit(c)
    BY <2>3, Admit_Contract
  <2> QED BY <1>2, <2>1, <2>2, <2>3 DEF CreateStep
<1>3. ASSUME NEW r \in Runs, CancelStep(r) PROVE [Contract!Next]_ContractVars
  <2>1. CASE CancelBase(r) \/ CancelIdle(r) \/ CancelAbort(r)
    BY <1>0, <2>1, Invisible
  <2>2. CASE CancelWrite(r)
    BY <2>2, CancelWrite_Contract
  <2>3. CASE CancelClaimed(r)
    BY <1>0, <2>3, CancelClaimed_Contract
  <2> QED BY <1>3, <2>1, <2>2, <2>3 DEF CancelStep
<1>4. ASSUME NEW r \in Runs, PersistBase(r) \/ Timeout(r) \/ Observe(r) \/ DeleteRow(r)
      PROVE  [Contract!Next]_ContractVars
  BY <1>0, <1>4, Invisible, DeleteRow_Contract
<1>5. ASSUME NEW r \in Runs, NEW i \in Instances,
             \/ CreateIfIdle(r, i) \/ DeleteAbort(r, i)
             \/ \E s \in Strategies : ListActive(r, i, s)
             \/ \E m \in CancelModes : CancelRead(r, i, m)
      PROVE  [Contract!Next]_ContractVars
  BY <1>0, <1>5, Invisible, CreateIfIdle_Contract
<1>6. ASSUME NEW r \in Runs, NEW why \in Reasons, DeliverAbort(r, why)
      PROVE  [Contract!Next]_ContractVars
  BY <1>0, <1>6, Invisible
<1>7. ASSUME NEW i \in Instances, Acquire(i) \/ Crash(i) PROVE [Contract!Next]_ContractVars
  BY <1>7 DEF Acquire, Crash, store, ContractVars
<1>8. CASE UNCHANGED vars
  BY <1>8 DEF vars, store, ContractVars
<1> QED BY <1>1, <1>2, <1>3, <1>4, <1>5, <1>6, <1>7, <1>8 DEF Next

(* Where every run is admitted, what a client sees of the rows and callbacks *)
(* of RunLifecycle is a behaviour of RunContract: settled once, and told in  *)
(* that step, through every interleaving, crash and failed write.            *)
THEOREM ContractKept == ASSUME Native = Runs PROVE Spec => KeepsContract
<1>1. IInv /\ Core /\ [Next]_vars /\ IInv' => [Contract!Next]_ContractVars
  BY ContractNext
<1>2. IInv /\ Core /\ [Next]_vars /\ IInv' => [Contract!Next]_<<row, calls>>
  BY <1>1 DEF ContractVars
<1> QED BY <1>2, ContractInit, SettlementInvariant, PTL DEF Spec, KeepsContract, Contract!Spec
=============================================================================
