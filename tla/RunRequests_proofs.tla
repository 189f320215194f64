------------------------- MODULE RunRequests_proofs -------------------------
(***************************************************************************)
(* What the requests of RunService achieve, in the deployments where they   *)
(* do: strategies without enqueue keep one active run (Serial), a cancel    *)
(* that waited finds its run stopped (Sticky), the thread is not left busy  *)
(* (Calm), a rollback discards what it is aimed at (Unfailing) and spares   *)
(* the other turns (Ordered). Each has its own invariant on top of IInv and *)
(* Core.                                                                    *)
(***************************************************************************)
EXTENDS RunLifecycle_proofs

(* Deployments where a creation sees every creation that could race with it: *)
(* all runs are admitted, and they are created by one process, whose thread  *)
(* lock orders them, or by the driver's own check-and-insert.                *)
Serial == /\ "enqueue" \notin Strategies /\ Native = Runs
          /\ (\A i, j \in Instances : i = j) \/ Strategies \subseteq {"reject"}

(* A creation in progress holds its process' thread lock.                    *)
Locked ==
  /\ \A c \in Runs : creator[c].pc \in {"none", "done"} <=> creator[c].at = "none"
  /\ \A c, d \in Runs : creator[c].at = creator[d].at => c = d \/ creator[c].at = "none"
  /\ Strategies \subseteq {"reject"} => \A c \in Runs : creator[c].pc \in {"none", "done"}

(* There is one active run, and none behind the back of a creation that      *)
(* found the thread idle.                                                    *)
Single ==
  /\ \A r, s \in Runs : row[r] \in Active /\ row[s] \in Active => r = s
  /\ \A c \in Runs : creator[c].pc \in {"bases", "insert"} /\ creator[c].todo = {} =>
       \A r \in Runs : row[r] \notin Active

-----------------------------------------------------------------------------
(* No row is inserted by anything but a creation.                            *)
NoneInserted == \A s \in Runs : row[s] = "absent" => row'[s] = "absent"

LEMMA EngineInsertsNone ==
  ASSUME IInv, IInv', Core, NEW r \in Runs, EngineStep(r) PROVE NoneInserted /\ UNCHANGED creator
<1> USE DEF IInv
<1>0. RowsKept => NoneInserted
  BY DEF RowsKept, NoneInserted
<1>1. CASE \E i \in Instances : Pull(r, i)
  BY <1>0, <1>1, Pull_Core DEF Pull, Rest
<1>2. CASE \/ StartInline(r) \/ Enqueue(r) \/ Reread(r) \/ ApplyPlan(r) \/ Check(r)
           \/ MarkRunning(r) \/ MirrorBusy(r) \/ RecordBase(r) \/ GraphWrite(r)
  <2>1. NoneInserted
    BY <1>0, <1>2, StartInline_Core, Enqueue_Core, Reread_Core, ApplyPlan_Core, Check_Core,
       MarkRunning_Core, MirrorBusy_Core, RecordBase_Core, Written_Core
  <2>2. UNCHANGED creator
    BY <1>2 DEF StartInline, Enqueue, Reread, ApplyPlan, Check, MarkRunning, MirrorBusy,
       RecordBase, GraphWrite, Rest
  <2> QED BY <2>1, <2>2
<1>3. CASE \/ GraphReturn(r) \/ GraphThrow(r) \/ FinalizeRead(r) \/ FinalizeWrite(r)
           \/ FinalizeWithDelivery(r) \/ Mirror(r) \/ Close(r)
  <2>1. NoneInserted
    BY <1>0, <1>3, GraphReturn_Core, GraphThrow_Core, FinalizeRead_Core, FinalizeWrite_Core,
       FinalizeWithDelivery_Core, Mirror_Core, Close_Core
  <2>2. UNCHANGED creator
    BY <1>3 DEF GraphReturn, GraphThrow, FinalizeRead, FinalizeWrite, FinalizeWithDelivery,
       Mirror, Close, Rest
  <2> QED BY <2>1, <2>2
<1>4. CASE SettleNative(r)
  <2>1. (UNCHANGED row) \/ Settle({r}, exec[r].out)
    BY <1>4 DEF SettleNative
  <2>2. NoneInserted
    BY <2>1, Statuses DEF Settle, NoneInserted
  <2> QED BY <1>4, <2>2 DEF SettleNative, Rest
<1> QED BY <1>1, <1>2, <1>3, <1>4 DEF EngineStep

LEMMA RequestInsertsNone ==
  ASSUME IInv, IInv', Core, NEW r \in Runs,
         \/ CancelStep(r) \/ PersistBase(r) \/ Timeout(r) \/ Observe(r) \/ DeleteRow(r)
         \/ (\E i \in Instances : DeleteAbort(r, i) \/ \E m \in CancelModes : CancelRead(r, i, m))
         \/ (\E why \in Reasons : DeliverAbort(r, why))
  PROVE  NoneInserted /\ UNCHANGED creator
<1> USE DEF IInv
<1>0. RowsKept => NoneInserted
  BY DEF RowsKept, NoneInserted
<1>1. CASE CancelWrite(r)
  <2>1. NoneInserted
    <3>1. CASE UNCHANGED row
      BY <3>1 DEF NoneInserted
    <3>2. CASE Exists(r) /\ Settle({r}, "cancelled")
      BY <3>2, Statuses DEF Settle, NoneInserted
    <3>3. CASE Exists(r) /\ SetStatus(r, "cancelled")
      BY <3>3, Shapes DEF SetStatus, NoneInserted, Exists
    <3> QED BY <1>1, <3>1, <3>2, <3>3 DEF CancelWrite
  <2> QED BY <1>1, <2>1 DEF CancelWrite
<1>2. CASE CancelBase(r) \/ CancelIdle(r) \/ CancelAbort(r) \/ CancelClaimed(r)
  <2>1. NoneInserted
    BY <1>0, <1>2, CancelBase_Core, CancelIdle_Core, CancelAbort_Core, CancelClaimed_Core
  <2>2. UNCHANGED creator
    BY <1>2 DEF CancelBase, CancelIdle, CancelAbort, CancelClaimed
  <2> QED BY <2>1, <2>2
<1>3. CASE PersistBase(r) \/ Timeout(r) \/ Observe(r) \/ DeleteRow(r)
  <2>1. NoneInserted
    BY <1>0, <1>3, Written_Core, Timeout_Core, Observe_Core, DeleteRow_Core
  <2>2. UNCHANGED creator
    BY <1>3 DEF PersistBase, Timeout, Observe, DeleteRow, Rest
  <2> QED BY <2>1, <2>2
<1>4. CASE \E i \in Instances : DeleteAbort(r, i) \/ \E m \in CancelModes : CancelRead(r, i, m)
  <2>1. NoneInserted
    BY <1>0, <1>4, DeleteAbort_Core, CancelRead_Core
  <2>2. UNCHANGED creator
    BY <1>4 DEF DeleteAbort, CancelRead
  <2> QED BY <2>1, <2>2
<1>5. CASE \E why \in Reasons : DeliverAbort(r, why)
  <2>1. NoneInserted
    BY <1>0, <1>5, DeliverAbort_Core
  <2>2. UNCHANGED creator
    BY <1>5 DEF DeliverAbort
  <2> QED BY <2>1, <2>2
<1> QED BY <1>1, <1>2, <1>3, <1>4, <1>5 DEF CancelStep

-----------------------------------------------------------------------------
(* Locked and Single.                                                        *)

LEMMA SerialKept ==
  ASSUME Serial, Locked, Single, NoneInserted, \A s \in Runs : RowMoves(s), UNCHANGED creator
  PROVE  Locked' /\ Single'
<1>1. \A s \in Runs : row'[s] \in Active => row[s] \in Active
  BY Statuses DEF Serial, NoneInserted, RowMoves
<1> QED BY <1>1 DEF Locked, Single

(* The request of one creation ends, or goes on where it is.                 *)
LEMMA LockedKept ==
  ASSUME TypeOK, TypeOK', Locked, NEW c \in Runs,
         \A d \in Runs \ {c} : creator'[d] = creator[d],
         \/ creator'[c] = Created
         \/ /\ creator'[c].at = creator[c].at
            /\ creator[c].pc \notin {"none", "done"} /\ creator'[c].pc \notin {"none", "done"}
  PROVE  Locked'
BY Nothing DEF Locked

(* No creation is in progress elsewhere in the only process.                 *)
LEMMA Alone ==
  ASSUME TypeOK, Locked, \A i, j \in Instances : i = j, NEW i \in Instances,
         NEW d \in Runs, creator[d].at # i
  PROVE  creator[d].pc \in {"none", "done"}
<1>1. creator[d].at \in Places
  BY Shapes DEF Creation
<1> QED BY <1>1 DEF Locked, Places

LEMMA ListActive_Serial ==
  ASSUME TypeOK, TypeOK', Serial, Locked, Single, NEW c \in Runs, NEW i \in Instances,
         NEW s \in Strategies, ListActive(c, i, s)
  PROVE  Locked' /\ Single'
<1>1. creator \in [Runs -> Creation] /\ i # "none"
  BY Shapes, ConstantsAssumption
<1>2. s \in {"interrupt", "rollback"} /\ \A j, k \in Instances : j = k
  BY ConstantsAssumption DEF ListActive, Serial
<1>3. /\ \A d \in Runs \ {c} : creator'[d] = creator[d]
      /\ creator'[c].at = i /\ creator'[c].todo = ActiveRuns
  BY <1>1, <1>2 DEF ListActive, NoCreation
<1>4. creator'[c].pc \in {"insert", "bases", "displace"}
  BY <1>1, <1>2 DEF ListActive, NoCreation
<1>5. \A d \in Runs : creator[d].at # i
  BY DEF ListActive, LockFree
<1>6. Locked'
  BY <1>1, <1>2, <1>3, <1>4, <1>5 DEF Locked
<1>7. UNCHANGED row
  BY DEF ListActive, store
<1>8. Single'
  BY <1>3, <1>7 DEF Single, ActiveRuns
<1> QED BY <1>6, <1>8

LEMMA ReadBases_Serial ==
  ASSUME TypeOK, TypeOK', Serial, Locked, Single, NEW c \in Runs, ReadBases(c)
  PROVE  Locked' /\ Single'
<1>1. creator \in [Runs -> Creation] /\ c \in Native
  BY Shapes DEF Serial
<1>2. /\ \A d \in Runs \ {c} : creator'[d] = creator[d]
      /\ creator'[c].at = creator[c].at /\ creator'[c].todo = creator[c].todo
      /\ creator'[c].pc = "insert" /\ creator[c].pc = "bases"
  BY <1>1 DEF ReadBases, CreatorAt, Creation
<1>3. UNCHANGED row
  BY DEF ReadBases, store
<1> QED BY <1>2, <1>3, LockedKept DEF Single

LEMMA DisplaceStop_Serial ==
  ASSUME TypeOK, TypeOK', Serial, Locked, Single, NEW c \in Runs, DisplaceStop(c)
  PROVE  Locked' /\ Single'
<1>1. creator \in [Runs -> Creation] /\ c \in Native
  BY Shapes DEF Serial
<1>2. /\ \A d \in Runs \ {c} : creator'[d] = creator[d]
      /\ creator[c].pc = "stop"
      /\ \/ creator'[c] = Created
         \/ creator'[c].at = creator[c].at /\ creator'[c].pc = "stop"
  BY <1>1 DEF DisplaceStop, CreatorAt, Creation
<1>3. UNCHANGED row
  BY DEF DisplaceStop, store
<1>4. creator'[c].pc \notin {"bases", "insert"}
  BY <1>2, Nothing
<1> QED BY <1>2, <1>3, <1>4, LockedKept DEF Single

LEMMA CreateIfIdle_Serial ==
  ASSUME TypeOK, TypeOK', Serial, Locked, Single, NEW c \in Runs, NEW i \in Instances,
         CreateIfIdle(c, i)
  PROVE  Locked' /\ Single'
<1>1. creator \in [Runs -> Creation] /\ row \in [Runs -> RowStatus]
  BY Shapes
<1>2. /\ \A d \in Runs \ {c} : creator'[d] = creator[d]
      /\ creator'[c] = Created
  BY <1>1 DEF CreateIfIdle
<1>3. \A s \in Runs : row'[s] \in Active => s = c
  BY <1>1 DEF CreateIfIdle, ActiveRuns
<1>4. \A d \in Runs : creator[d].pc \in {"none", "done"}
  <2>1. CASE Strategies \subseteq {"reject"}
    BY <2>1 DEF Locked
  <2>2. CASE \A j, k \in Instances : j = k
    BY <2>2, Alone DEF CreateIfIdle, LockFree
  <2> QED BY <2>1, <2>2 DEF Serial
<1>5. \A d \in Runs : creator'[d].pc \in {"none", "done"}
  BY <1>2, <1>4, Nothing
<1>6. Single'
  BY <1>3, <1>5 DEF Single
<1> QED BY <1>2, <1>6, LockedKept

LEMMA Admit_Serial ==
  ASSUME TypeOK, TypeOK', Serial, Locked, Single, NEW c \in Runs, Admit(c)
  PROVE  Locked' /\ Single'
<1>1. creator \in [Runs -> Creation] /\ row \in [Runs -> RowStatus] /\ creator[c].pc = "insert"
  BY Shapes DEF Admit, CreatorAt
<1>2. /\ \A d \in Runs \ {c} : creator'[d] = creator[d]
      /\ \/ creator'[c] = Created
         \/ creator'[c].at = creator[c].at /\ creator'[c].pc = "stop"
  BY <1>1 DEF Admit, Creation
<1>3. Locked'
  BY <1>1, <1>2, LockedKept
<1>4. \A i, j \in Instances : i = j
  BY <1>1 DEF Serial, Locked
<1>5. creator[c].at \in Instances
  BY <1>1 DEF Creation, Places, Locked
<1>6. \A d \in Runs \ {c} : creator[d].pc \in {"none", "done"}
  BY <1>4, <1>5, Alone DEF Locked
<1>7. \A d \in Runs : creator'[d].pc \notin {"bases", "insert"}
  BY <1>2, <1>6, Nothing
<1>8. \A r, s \in Runs : row'[r] \in Active /\ row'[s] \in Active => r = s
  <2>1. CASE UNCHANGED row
    BY <2>1 DEF Single
  <2>2. CASE creator[c].todo = ActiveRuns /\
             row' = [r \in Runs |-> IF r = c THEN "pending"
                          ELSE IF r \in creator[c].todo THEN DisplacedStatus(c) ELSE row[r]]
    <3>1. DisplacedStatus(c) \notin Active
      BY StatusNames, Statuses DEF DisplacedStatus
    <3>2. \A s \in Runs : row'[s] \in Active => s = c
      BY <2>2, <3>1 DEF ActiveRuns
    <3> QED BY <3>2
  <2>3. CASE creator[c].todo = {} /\
             row' = [r \in Runs |-> IF r = c THEN "pending"
                          ELSE IF r \in creator[c].todo THEN DisplacedStatus(c) ELSE row[r]]
    BY <1>1, <2>3 DEF Single
  <2> QED BY <2>1, <2>2, <2>3 DEF Admit
<1>9. Single'
  BY <1>7, <1>8 DEF Single
<1> QED BY <1>3, <1>9

LEMMA Crash_Serial ==
  ASSUME TypeOK, TypeOK', Locked, Single, NEW i \in Instances, Crash(i)
  PROVE  Locked' /\ Single'
<1>1. creator \in [Runs -> Creation] /\ UNCHANGED row
  BY Shapes DEF Crash, store
<1>2. \A d \in Runs : creator'[d] = creator[d] \/ creator'[d] = Created
  BY <1>1 DEF Crash
<1> QED BY <1>1, <1>2, Nothing DEF Locked, Single

LEMMA NextSerial ==
  ASSUME Serial, IInv, IInv', Core, Locked, Single, [Next]_vars PROVE Locked' /\ Single'
<1> USE DEF IInv
<1>0. \A s \in Runs : RowMoves(s)
  BY NextCore
<1>1. ASSUME NEW r \in Runs, EngineStep(r) PROVE Locked' /\ Single'
  BY <1>0, <1>1, EngineInsertsNone, SerialKept
<1>2. ASSUME NEW r \in Runs,
         \/ CancelStep(r) \/ PersistBase(r) \/ Timeout(r) \/ Observe(r) \/ DeleteRow(r)
         \/ (\E i \in Instances : DeleteAbort(r, i) \/ \E m \in CancelModes : CancelRead(r, i, m))
         \/ (\E why \in Reasons : DeliverAbort(r, why))
      PROVE Locked' /\ Single'
  BY <1>0, <1>2, RequestInsertsNone, SerialKept
<1>3. ASSUME NEW c \in Runs, CreateStep(c) PROVE Locked' /\ Single'
  BY <1>3, Closed_Contract, ReadBases_Serial, DisplaceStop_Serial, Admit_Serial
     DEF CreateStep, Serial
<1>4. ASSUME NEW c \in Runs, NEW i \in Instances,
             CreateIfIdle(c, i) \/ \E s \in Strategies : ListActive(c, i, s)
      PROVE Locked' /\ Single'
  BY <1>4, CreateIfIdle_Serial, ListActive_Serial
<1>5. ASSUME NEW i \in Instances, Acquire(i) PROVE Locked' /\ Single'
  <2>1. RowsKept /\ UNCHANGED creator
    BY <1>5, Acquire_Core DEF Acquire
  <2>2. NoneInserted
    BY <2>1 DEF RowsKept, NoneInserted
  <2> QED BY <1>0, <2>1, <2>2, SerialKept
<1>6. ASSUME NEW i \in Instances, Crash(i) PROVE Locked' /\ Single'
  BY <1>6, Crash_Serial
<1>7. CASE UNCHANGED vars
  <2>1. UNCHANGED <<row, creator>>
    BY <1>7 DEF vars, store
  <2> QED BY <1>0, <2>1, SerialKept DEF NoneInserted
<1> QED BY <1>1, <1>2, <1>3, <1>4, <1>5, <1>6, <1>7 DEF Next

(* reject, interrupt and rollback leave at most one active run on the thread,*)
(* whatever interleaves and crashes: a creation that displaces is refused    *)
(* when the active runs are not the ones it listed, and one that found the   *)
(* thread idle holds the thread lock until its row is in.                    *)
THEOREM AtMostOneActive == ASSUME Serial PROVE Spec => []OneActiveRun
<1>1. Init => Locked /\ Single
  <2> SUFFICES ASSUME Init PROVE Locked /\ Single
    OBVIOUS
  <2>1. \A c \in Runs : creator[c].pc = "none" /\ creator[c].at = "none" /\ row[c] = "absent"
    BY DEF Init, NoCreation
  <2> QED BY <2>1, Statuses DEF Locked, Single
<1>2. IInv /\ Core /\ IInv' /\ Locked /\ Single /\ [Next]_vars => (Locked /\ Single)'
  BY NextSerial
<1>3. Single => OneActiveRun
  <2> SUFFICES ASSUME Single PROVE OneActiveRun
    OBVIOUS
  <2>1. CASE ActiveRuns = {}
    BY <2>1, FS_EmptySet DEF OneActiveRun
  <2>2. CASE ActiveRuns # {}
    <3>1. PICK r \in Runs : row[r] \in Active
      BY <2>2 DEF ActiveRuns
    <3>2. ActiveRuns = {r}
      BY <3>1 DEF ActiveRuns, Single
    <3>3. Cardinality({r}) = 1
      BY FS_Singleton
    <3> QED BY <3>2, <3>3 DEF OneActiveRun
  <2> QED BY <2>1, <2>2
<1> QED BY <1>1, <1>2, <1>3, SettlementInvariant, PTL DEF Spec

-----------------------------------------------------------------------------
(* A cancelled run stays cancelled: what is behind the answer of a cancel    *)
(* that waits.                                                               *)

(* Deployments where no execution of a cancelled run starts over: none dies, *)
(* or the queue's runs that can be cancelled were created through admission, *)
(* whose rows refuse to be reopened.                                         *)
Sticky == MaxCrashes = 0 \/ Cancellable \cap Background \subseteq Native

(* A cancel that has written its row.                                        *)
Written == {"idle", "abort", "waiting", "claimed", "done"}
Begun == EngineSteps \ {"check", "set"}     \* past the last look at the row

(* A cancelled row is active again only by an execution that was past its    *)
(* check, of a run outside admission; it never starts another one. Once a    *)
(* cancel that waits has answered, nothing executes the run any more.        *)
Stopped ==
  /\ \A r \in Runs : canceller[r] # NoCancellation => r \in Cancellable
  /\ \A r \in Runs : canceller[r].pc \in Written =>
       row[r] \notin Active \/ (exec[r].pc \in Begun \cup {"done"} /\ r \notin Native)
  /\ \A r \in Runs : canceller[r].pc = "done" /\ canceller[r].mode = "wait" =>
       \/ exec[r].pc = "done"
       \/ row[r] \notin Active /\ exec[r].pc \notin EngineSteps \cup {"revert"}

(* No row becomes active.                                                    *)
NoneActivated == \A s \in Runs : row'[s] \in Active => row[s] \in Active

(* How an execution may move, with its row: it stands still; it comes nearer *)
(* to the engine; it passes the reread of an active row; it is told to stop  *)
(* or goes on before it marks the row; it marks the row running; it is in    *)
(* the engine. Or its run is new.                                            *)
Moves(r) ==
  \/ exec'[r].pc = exec[r].pc /\ (row'[r] \in Active => row[r] \in Active)
  \/ /\ exec[r].pc \notin EngineSteps \cup {"done"} /\ row'[r] = row[r]
     /\ exec'[r].pc \notin EngineSteps \cup {"revert"}
  \/ exec[r].pc = "claimed" /\ row[r] \in Active /\ row'[r] = row[r]
  \/ /\ exec[r].pc \in {"revert", "check", "set"} /\ exec'[r].pc \in EngineSteps
     /\ row'[r] \in Active => row[r] \in Active
  \/ exec[r].pc = "set" /\ exec'[r].pc = "busy" /\ (r \in Native => row[r] \in Active)
  \/ /\ exec[r].pc \in Begun /\ exec'[r].pc \in Begun \cup {"done"}
     /\ row'[r] \in Active => row[r] \in Active
  \/ row[r] = "absent"

(* A cancel that does not answer a waiting caller.                           *)
Asks(r) ==
  \/ canceller'[r] = canceller[r]
  \/ r \in Cancellable /\ canceller'[r].pc \notin Written
  \/ /\ canceller[r].pc \in Written /\ canceller'[r].pc \in Written
     /\ canceller'[r].pc = "done" => canceller'[r].mode # "wait"

LEMMA StoppedKept ==
  ASSUME Core, Core', Stopped, \A r \in Runs : Moves(r) /\ Asks(r)
  PROVE  Stopped'
<1>1. "none" \notin Written /\ "absent" \notin Active
  BY Statuses DEF Written
<1>2. ASSUME NEW r \in Runs, canceller'[r] # NoCancellation PROVE r \in Cancellable
  BY <1>1, <1>2, Nothing DEF Stopped, Asks
<1>3. ASSUME NEW r \in Runs, canceller[r].pc \in Written, canceller'[r].pc \in Written
      PROVE  row'[r] \notin Active \/ (exec'[r].pc \in Begun \cup {"done"} /\ r \notin Native)
  <2>1. row[r] \notin Active \/ (exec[r].pc \in Begun \cup {"done"} /\ r \notin Native)
    BY <1>3 DEF Stopped
  <2>2. row[r] # "absent"
    BY <1>1, <1>3, Nothing DEF Core, Unborn
  <2> QED BY <2>1, <2>2 DEF Moves, Begun, EngineSteps
<1>4. ASSUME NEW r \in Runs, canceller'[r].pc \in Written PROVE canceller[r].pc \in Written
  BY <1>4 DEF Asks
<1>5. ASSUME NEW r \in Runs, canceller'[r].pc = "done", canceller'[r].mode = "wait"
      PROVE  \/ exec'[r].pc = "done"
             \/ row'[r] \notin Active /\ exec'[r].pc \notin EngineSteps \cup {"revert"}
  <2>1. canceller[r].pc = "done" /\ canceller[r].mode = "wait" /\ "done" \in Written
    BY <1>5 DEF Asks, Written
  <2>2. \/ exec[r].pc = "done"
        \/ row[r] \notin Active /\ exec[r].pc \notin EngineSteps \cup {"revert"}
    BY <2>1 DEF Stopped
  <2>3. row[r] # "absent"
    BY <1>1, <2>1, Nothing DEF Core, Unborn
  <2>4. row[r] \notin Active \/ (exec[r].pc \in Begun \cup {"done"} /\ r \notin Native)
    BY <2>1 DEF Stopped
  <2> QED BY <2>2, <2>3, <2>4 DEF Moves, Begun, EngineSteps
<1> QED BY <1>2, <1>3, <1>4, <1>5 DEF Stopped

(* One execution moves, the others and their rows do not.                    *)
LEMMA OneMoves ==
  ASSUME NEW r \in Runs, Moves(r),
         \A s \in Runs \ {r} : exec'[s].pc = exec[s].pc /\ (row'[s] \in Active => row[s] \in Active)
  PROVE  \A s \in Runs : Moves(s)
BY DEF Moves

LEMMA GotoPc ==
  ASSUME TypeOK, NEW r \in Runs, NEW pc, Goto(r, pc)
  PROVE  exec'[r].pc = pc /\ \A s \in Runs \ {r} : exec'[s] = exec[s]
<1>1. exec \in [Runs -> Execution]
  BY Shapes
<1> QED BY <1>1 DEF Goto, Execution

LEMMA ReturnPc ==
  ASSUME TypeOK, NEW r \in Runs, GraphReturn(r)
  PROVE  exec'[r].pc = "settle" /\ \A s \in Runs \ {r} : exec'[s] = exec[s]
BY Shapes DEF GraphReturn, Execution

LEMMA ReachMoves ==
  ASSUME TypeOK, NEW r \in Runs,
         StartInline(r) \/ Enqueue(r) \/ (\E i \in Instances : Pull(r, i)) \/ Reread(r)
  PROVE  \A s \in Runs : Moves(s)
<1>1. exec \in [Runs -> Execution]
  BY Shapes
<1>2. UNCHANGED row
  BY DEF StartInline, Enqueue, Pull, Reread, store
<1>3. ASSUME exec[r].pc \notin EngineSteps \cup {"done"}, exec'[r].pc \notin EngineSteps \cup {"revert"},
             \A s \in Runs \ {r} : exec'[s] = exec[s]
      PROVE  \A s \in Runs : Moves(s)
  BY <1>2, <1>3, OneMoves DEF Moves
<1>4. /\ {"prepared", "queued", "claimed", "waiting"} \cap (EngineSteps \cup {"done"}) = {}
      /\ {"prepared", "queued", "claimed", "waiting", "done"} \cap (EngineSteps \cup {"revert"}) = {}
  BY DEF EngineSteps
<1>5. CASE StartInline(r)
  <2>1. exec[r].pc = "prepared" /\ exec'[r].pc = "waiting" /\ \A s \in Runs \ {r} : exec'[s] = exec[s]
    BY <1>5, GotoPc DEF StartInline
  <2> QED BY <1>3, <1>4, <2>1
<1>6. CASE Enqueue(r)
  <2>1. exec[r].pc = "prepared" /\ exec'[r].pc = "queued" /\ \A s \in Runs \ {r} : exec'[s] = exec[s]
    BY <1>1, <1>6 DEF Enqueue, Execution
  <2> QED BY <1>3, <1>4, <2>1
<1>7. CASE \E i \in Instances : Pull(r, i)
  <2>1. PICK i \in Instances : Pull(r, i)
    BY <1>7
  <2>2. exec[r].pc = "queued"
    BY <2>1 DEF Pull
  <2>3. CASE Goto(r, "done")
    BY <1>3, <1>4, <2>2, <2>3, GotoPc
  <2>4. CASE exec' = [exec EXCEPT ![r].pc = "claimed", ![r].at = i]
    <3>1. exec'[r].pc = "claimed" /\ \A s \in Runs \ {r} : exec'[s] = exec[s]
      BY <1>1, <2>4 DEF Execution
    <3> QED BY <1>3, <1>4, <2>2, <3>1
  <2> QED BY <2>1, <2>3, <2>4 DEF Pull
<1>8. CASE Reread(r)
  <2>1. exec[r].pc = "claimed"
    BY <1>8 DEF Reread
  <2>2. CASE exec' = [exec EXCEPT ![r] = [NoExecution EXCEPT !.pc = "done"]]
    <3>1. exec'[r].pc = "done" /\ \A s \in Runs \ {r} : exec'[s] = exec[s]
      BY <1>1, <2>2 DEF NoExecution
    <3> QED BY <1>3, <1>4, <2>1, <3>1
  <2>3. CASE row[r] \in Active /\ \E pc \in {"revert", "check"} : Goto(r, pc)
    <3>1. \A s \in Runs \ {r} : exec'[s] = exec[s]
      BY <2>3, GotoPc
    <3>2. Moves(r)
      BY <1>2, <2>1, <2>3 DEF Moves
    <3> QED BY <1>2, <3>1, <3>2, OneMoves
  <2> QED BY <1>8, <2>2, <2>3 DEF Reread
<1> QED BY <1>5, <1>6, <1>7, <1>8

(* Inside the engine, up to the write that marks the row.                    *)
LEMMA StartMoves ==
  ASSUME TypeOK, Core, NEW r \in Runs, ApplyPlan(r) \/ Check(r) \/ MarkRunning(r)
  PROVE  \A s \in Runs : Moves(s)
<1>1. exec \in [Runs -> Execution] /\ row \in [Runs -> RowStatus]
  BY Shapes
<1>2. ASSUME exec[r].pc \in {"revert", "check", "set"}, exec'[r].pc \in EngineSteps, NoneActivated,
             \A s \in Runs \ {r} : exec'[s] = exec[s]
      PROVE  \A s \in Runs : Moves(s)
  BY <1>2, OneMoves DEF Moves, NoneActivated
<1>3. {"check", "set", "close", "settle"} \subseteq EngineSteps
  BY DEF EngineSteps
<1>4. CASE ApplyPlan(r)
  <2>1. exec[r].pc = "revert" /\ exec'[r].pc = "check" /\ \A s \in Runs \ {r} : exec'[s] = exec[s]
    BY <1>4, GotoPc DEF ApplyPlan
  <2>2. NoneActivated
    BY <1>4, Statuses DEF ApplyPlan, NoneActivated
  <2> QED BY <1>2, <1>3, <2>1, <2>2
<1>5. CASE Check(r)
  <2>1. /\ exec[r].pc = "check" /\ exec'[r].pc \in {"set", "close"}
        /\ \A s \in Runs \ {r} : exec'[s] = exec[s]
    BY <1>5, GotoPc DEF Check
  <2>2. NoneActivated
    BY <1>5 DEF Check, store, NoneActivated
  <2> QED BY <1>2, <1>3, <2>1, <2>2
<1>6. CASE MarkRunning(r)
  <2>1. exec[r].pc = "set"
    BY <1>6 DEF MarkRunning
  <2>2. CASE (UNCHANGED row) /\ Throw(r)
    <3>1. exec'[r].pc \in {"settle", "close"} /\ \A s \in Runs \ {r} : exec'[s] = exec[s]
      BY <1>1, <2>2 DEF Throw, Caught, Execution
    <3> QED BY <1>2, <1>3, <2>1, <2>2, <3>1 DEF NoneActivated
  <2>3. CASE (UNCHANGED row) /\ Goto(r, "close")
    <3>1. exec'[r].pc = "close" /\ \A s \in Runs \ {r} : exec'[s] = exec[s]
      BY <2>3, GotoPc
    <3> QED BY <1>2, <1>3, <2>1, <2>3, <3>1 DEF NoneActivated
  <2>4. CASE /\ Exists(r) /\ ~RefusesRunning(r) /\ SetStatus(r, "running")
             /\ exec' = [exec EXCEPT ![r].pc = "busy", ![r].started = TRUE]
    <3>1. exec'[r].pc = "busy" /\ \A s \in Runs \ {r} : exec'[s] = exec[s]
      BY <1>1, <2>4 DEF Execution
    <3>2. r \in Native => row[r] \in Active
      BY <1>1, <2>4, Statuses DEF Core, Admissions, RefusesRunning, Exists
    <3>3. \A s \in Runs \ {r} : row'[s] = row[s]
      BY <1>1, <2>4 DEF SetStatus
    <3>4. Moves(r)
      BY <2>1, <3>1, <3>2 DEF Moves
    <3> QED BY <3>1, <3>3, <3>4, OneMoves
  <2> QED BY <1>6, <2>2, <2>3, <2>4 DEF MarkRunning
<1> QED BY <1>4, <1>5, <1>6

(* ... and from there on.                                                    *)
LEMMA EngineMoves ==
  ASSUME IInv, Core, NEW r \in Runs,
         \/ MirrorBusy(r) \/ RecordBase(r) \/ GraphWrite(r) \/ GraphReturn(r) \/ GraphThrow(r)
         \/ FinalizeRead(r) \/ FinalizeWrite(r) \/ FinalizeWithDelivery(r) \/ SettleNative(r)
         \/ Mirror(r) \/ Close(r)
  PROVE  \A s \in Runs : Moves(s)
<1> USE DEF IInv
<1>1. exec \in [Runs -> Execution] /\ row \in [Runs -> RowStatus]
  BY Shapes
<1>2. ASSUME exec[r].pc \in Begun, exec'[r].pc \in Begun \cup {"done"}, NoneActivated,
             \A s \in Runs \ {r} : exec'[s] = exec[s]
      PROVE  \A s \in Runs : Moves(s)
  BY <1>2, OneMoves DEF Moves, NoneActivated
<1>3. Begun = {"busy", "base", "graph", "settle", "write", "mirror", "close"}
  BY DEF Begun, EngineSteps
<1>4. (UNCHANGED row) => NoneActivated
  BY DEF NoneActivated
<1>5. ASSUME Throw(r) PROVE exec'[r].pc \in Begun /\ \A s \in Runs \ {r} : exec'[s] = exec[s]
  <2>1. exec'[r].pc \in {"settle", "close"} /\ \A s \in Runs \ {r} : exec'[s] = exec[s]
    BY <1>1, <1>5 DEF Throw, Caught, Execution
  <2> QED BY <1>3, <2>1
<1>6. ASSUME NEW pc \in Begun, Goto(r, pc)
      PROVE  exec'[r].pc \in Begun /\ \A s \in Runs \ {r} : exec'[s] = exec[s]
  BY <1>6, GotoPc
<1>7. CASE MirrorBusy(r) \/ RecordBase(r) \/ GraphReturn(r)
  <2>1. exec[r].pc \in Begun /\ NoneActivated
    BY <1>3, <1>4, <1>7 DEF MirrorBusy, RecordBase, GraphReturn, store
  <2>2. exec'[r].pc \in Begun /\ \A s \in Runs \ {r} : exec'[s] = exec[s]
    <3>1. CASE MirrorBusy(r)
      BY <1>3, <1>6, <3>1 DEF MirrorBusy
    <3>2. CASE RecordBase(r)
      BY <1>1, <1>3, <3>2 DEF RecordBase, Execution
    <3>3. CASE GraphReturn(r)
      BY <1>3, <3>3, ReturnPc
    <3> QED BY <1>7, <3>1, <3>2, <3>3
  <2> QED BY <1>2, <2>1, <2>2
<1>8. CASE GraphWrite(r)
  BY <1>2, <1>3, <1>4, <1>8 DEF GraphWrite, store
<1>9. CASE GraphThrow(r) \/ Mirror(r)
  <2>1. exec[r].pc \in Begun /\ NoneActivated
    BY <1>3, <1>4, <1>9 DEF GraphThrow, Mirror, store
  <2>2. exec'[r].pc \in Begun /\ \A s \in Runs \ {r} : exec'[s] = exec[s]
    BY <1>3, <1>5, <1>6, <1>9 DEF GraphThrow, Mirror
  <2> QED BY <1>2, <2>1, <2>2
<1>10. CASE FinalizeRead(r)
  <2>1. exec[r].pc \in Begun /\ NoneActivated
    BY <1>3, <1>4, <1>10 DEF FinalizeRead, store
  <2>2. exec'[r].pc \in {"write", "mirror"} /\ \A s \in Runs \ {r} : exec'[s] = exec[s]
    BY <1>1, <1>10 DEF FinalizeRead, Execution
  <2> QED BY <1>2, <1>3, <2>1, <2>2
<1>11. CASE FinalizeWrite(r)
  <2>1. exec[r].pc \in Begun /\ exec[r].out \notin Active
    BY <1>3, <1>11, Statuses DEF FinalizeWrite, Settling
  <2>2. NoneActivated
    BY <1>1, <1>11, <2>1 DEF FinalizeWrite, SetStatus, NoneActivated
  <2>3. exec'[r].pc \in Begun /\ \A s \in Runs \ {r} : exec'[s] = exec[s]
    BY <1>3, <1>5, <1>6, <1>11 DEF FinalizeWrite
  <2> QED BY <1>2, <2>1, <2>2, <2>3
<1>12. CASE FinalizeWithDelivery(r)
  <2>1. exec[r].pc \in Begun /\ exec[r].out \notin Active
    BY <1>3, <1>12, Statuses DEF FinalizeWithDelivery, Settling
  <2>2. NoneActivated
    BY <1>1, <1>12, <2>1 DEF FinalizeWithDelivery, NoneActivated
  <2>3. exec'[r].pc = "mirror" /\ \A s \in Runs \ {r} : exec'[s] = exec[s]
    BY <1>1, <1>12 DEF FinalizeWithDelivery, Execution
  <2> QED BY <1>2, <1>3, <2>1, <2>2, <2>3
<1>13. CASE SettleNative(r)
  <2>1. exec[r].pc \in Begun /\ exec[r].out \notin Active
    BY <1>3, <1>13, Statuses DEF SettleNative, Settling
  <2>2. (UNCHANGED row) \/ Settle({r}, exec[r].out)
    BY <1>13 DEF SettleNative
  <2>3. NoneActivated
    BY <2>1, <2>2 DEF Settle, NoneActivated
  <2>4. exec'[r].pc = "mirror" /\ \A s \in Runs \ {r} : exec'[s] = exec[s]
    <3>1. PICK st : exec' = [exec EXCEPT ![r].pc = "mirror", ![r].eff = st]
      BY <1>13 DEF SettleNative
    <3> QED BY <1>1, <3>1 DEF Execution
  <2> QED BY <1>2, <1>3, <2>1, <2>3, <2>4
<1>14. CASE Close(r)
  <2>1. exec[r].pc \in Begun /\ NoneActivated
    BY <1>3, <1>4, <1>14 DEF Close, store
  <2>2. exec'[r].pc = "done" /\ \A s \in Runs \ {r} : exec'[s] = exec[s]
    BY <1>1, <1>14 DEF Close, NoExecution
  <2> QED BY <1>2, <2>1, <2>2
<1> QED BY <1>7, <1>8, <1>9, <1>10, <1>11, <1>12, <1>13, <1>14

(* No program counter of an execution changes, and no row becomes active.    *)
LEMMA StillMoves ==
  ASSUME NoneActivated, \A s \in Runs : exec'[s].pc = exec[s].pc PROVE \A s \in Runs : Moves(s)
BY DEF Moves, NoneActivated

LEMMA SignalMoves ==
  ASSUME TypeOK, Core, NEW r \in Runs,
         \/ PersistBase(r) \/ Timeout(r) \/ Observe(r) \/ DeleteRow(r)
         \/ (\E why \in Reasons : DeliverAbort(r, why)) \/ (\E i \in Instances : DeleteAbort(r, i))
  PROVE  \A s \in Runs : Moves(s)
<1>1. NoneActivated
  <2>1. (UNCHANGED row) \/ row' = [row EXCEPT ![r] = "deleted"]
    BY DEF PersistBase, Timeout, Observe, DeleteRow, DeliverAbort, DeleteAbort, store
  <2> QED BY <2>1, Shapes, Statuses DEF NoneActivated
<1>2. \A s \in Runs : exec'[s].pc = exec[s].pc
  <2>1. CASE PersistBase(r) \/ DeleteRow(r)
    BY <2>1 DEF PersistBase, DeleteRow
  <2>2. CASE Timeout(r) \/ Observe(r) \/ \E why \in Reasons : DeliverAbort(r, why)
    <3>1. \E why : exec' = Aborted(r, why)
      BY <2>2 DEF Timeout, Observe, DeliverAbort
    <3> QED BY <3>1, AbortedKeeps
  <2>3. CASE \E i \in Instances : DeleteAbort(r, i)
    BY <2>3, AbortKeeps DEF DeleteAbort
  <2> QED BY <2>1, <2>2, <2>3
<1> QED BY <1>1, <1>2, StillMoves

LEMMA CreateMoves ==
  ASSUME IInv, Core, NEW c \in Runs,
         \/ CreateStep(c)
         \/ \E i \in Instances : CreateIfIdle(c, i) \/ \E s \in Strategies : ListActive(c, i, s)
  PROVE  \A s \in Runs : Moves(s)
<1> USE DEF IInv
<1>1. exec \in [Runs -> Execution] /\ row \in [Runs -> RowStatus]
  BY Shapes
<1>2. DisplacedStatus(c) \notin Active
  BY StatusNames, Statuses DEF DisplacedStatus
<1>3. CASE ReadBases(c) \/ \E i \in Instances, s \in Strategies : ListActive(c, i, s)
  BY <1>3, StillMoves DEF ReadBases, ListActive, store, NoneActivated
<1>4. CASE DisplaceStop(c)
  <2>1. PICK d \in Runs : Abort(d, creator[c].by, creator[c].at)
    BY <1>4 DEF DisplaceStop
  <2>2. UNCHANGED row
    BY <1>4 DEF DisplaceStop, store
  <2> QED BY <2>1, <2>2, AbortKeeps, StillMoves DEF NoneActivated
<1>5. CASE DisplaceRow(c)
  <2>1. PICK d \in Runs : \/ UNCHANGED row
                          \/ Settle({d}, DisplacedStatus(c)) \/ SetStatus(d, DisplacedStatus(c))
    BY <1>5 DEF DisplaceRow
  <2>2. NoneActivated
    BY <1>1, <1>2, <2>1 DEF Settle, SetStatus, NoneActivated
  <2> QED BY <1>5, <2>2, StillMoves DEF DisplaceRow
<1>6. ASSUME row[c] = "absent", NEW i, Insert(c, i),
             \A s \in Runs \ {c} : row'[s] \in Active => row[s] \in Active
      PROVE  \A s \in Runs : Moves(s)
  <2>1. Moves(c)
    BY <1>6 DEF Moves
  <2>2. \A s \in Runs \ {c} : exec'[s] = exec[s]
    BY <1>1, <1>6 DEF Insert
  <2> QED BY <1>6, <2>1, <2>2, OneMoves
<1>7. CASE InsertRow(c)
  <2>1. row[c] = "absent" /\ Insert(c, creator[c].at)
    BY <1>7 DEF InsertRow, CreatorAt, Core, Unborn, Creating
  <2>2. \A s \in Runs \ {c} : row'[s] = row[s]
    BY <1>1, <1>7 DEF InsertRow
  <2> QED BY <1>6, <2>1, <2>2
<1>8. CASE \E i \in Instances : CreateIfIdle(c, i)
  <2>1. PICK i \in Instances : CreateIfIdle(c, i)
    BY <1>8
  <2>2. row[c] = "absent" /\ Insert(c, i)
    BY <2>1 DEF CreateIfIdle, CreatorAt, Core, Unborn, Creating
  <2>3. \A s \in Runs \ {c} : row'[s] = row[s]
    BY <1>1, <2>1 DEF CreateIfIdle
  <2> QED BY <1>6, <2>2, <2>3
<1>9. CASE Admit(c)
  <2>1. CASE UNCHANGED <<row, exec>>
    BY <2>1, StillMoves DEF NoneActivated
  <2>2. CASE /\ Insert(c, creator[c].at)
             /\ row' = [r \in Runs |-> IF r = c THEN "pending"
                          ELSE IF r \in creator[c].todo THEN DisplacedStatus(c) ELSE row[r]]
    <3>1. row[c] = "absent"
      BY <1>9 DEF Admit, CreatorAt, Core, Unborn, Creating
    <3>2. \A s \in Runs \ {c} : row'[s] \in Active => row[s] \in Active
      BY <1>2, <2>2
    <3> QED BY <1>6, <2>2, <3>1, <3>2
  <2> QED BY <1>9, <2>1, <2>2 DEF Admit
<1> QED BY <1>3, <1>4, <1>5, <1>7, <1>8, <1>9 DEF CreateStep

(* Whoever heads a queue gets the claim.                                     *)
LEMMA Granted ==
  ASSUME TypeOK, Core, NEW i \in Instances, Acquire(i)
  PROVE  /\ UNCHANGED row
         /\ \E r \in Runs :
              \/ /\ exec[r].pc = "waiting" /\ exec'[r].pc = "claimed" /\ UNCHANGED canceller
                 /\ \A s \in Runs \ {r} : exec'[s] = exec[s]
              \/ /\ canceller[r].pc = "waiting" /\ canceller'[r].pc = "claimed" /\ UNCHANGED exec
                 /\ \A s \in Runs \ {r} : canceller'[s] = canceller[s]
<1> DEFINE task == Head(queue[i])
<1>0. /\ UNCHANGED row /\ queue[i] # <<>> /\ queue[i] \in Seq(Tasks)
      /\ exec' = IF task[1] = "run" THEN [exec EXCEPT ![task[2]].pc = "claimed"] ELSE exec
      /\ canceller' = IF task[1] = "cancel"
                      THEN [canceller EXCEPT ![task[2]].pc = "claimed"] ELSE canceller
  BY Shapes DEF Acquire, store
<1>1. task \in Tasks /\ 1 \in 1..Len(queue[i]) /\ task = queue[i][1]
  BY <1>0
<1>2. PICK t \in {"run", "cancel"}, r \in Runs : task = <<t, r>>
  BY <1>1 DEF Tasks
<1> HIDE DEF task
<1>3. CASE t = "run"
  <2>1. queue[i][1] = <<"run", r>>
    BY <1>1, <1>2, <1>3
  <2>2. exec[r].pc = "waiting"
    BY <1>1, <2>1 DEF Core, Waiting
  <2>3. exec' = [exec EXCEPT ![r].pc = "claimed"] /\ UNCHANGED canceller
    BY <1>0, <1>2, <1>3
  <2>4. exec'[r].pc = "claimed" /\ \A s \in Runs \ {r} : exec'[s] = exec[s]
    BY <2>3, Shapes DEF Execution
  <2> QED BY <1>0, <2>2, <2>3, <2>4
<1>4. CASE t = "cancel"
  <2>1. queue[i][1] = <<"cancel", r>>
    BY <1>1, <1>2, <1>4
  <2>2. canceller[r].pc = "waiting"
    BY <1>1, <2>1 DEF Core, Waiting
  <2>3. canceller' = [canceller EXCEPT ![r].pc = "claimed"] /\ UNCHANGED exec
    BY <1>0, <1>2, <1>4
  <2>4. canceller'[r].pc = "claimed" /\ \A s \in Runs \ {r} : canceller'[s] = canceller[s]
    BY <2>3, Shapes DEF Cancellation
  <2> QED BY <1>0, <2>2, <2>3, <2>4
<1> QED BY <1>2, <1>3, <1>4

LEMMA Acquire_Stopped ==
  ASSUME TypeOK, Core, Core', Stopped, NEW i \in Instances, Acquire(i) PROVE Stopped'
<1>1. PICK r \in Runs :
        \/ /\ exec[r].pc = "waiting" /\ exec'[r].pc = "claimed" /\ UNCHANGED canceller
           /\ \A s \in Runs \ {r} : exec'[s] = exec[s]
        \/ /\ canceller[r].pc = "waiting" /\ canceller'[r].pc = "claimed" /\ UNCHANGED exec
           /\ \A s \in Runs \ {r} : canceller'[s] = canceller[s]
  BY Granted
<1>2. UNCHANGED row
  BY Granted
<1>3. \A s \in Runs : Moves(s)
  <2>1. {"waiting", "claimed"} \cap (EngineSteps \cup {"done", "revert"}) = {}
    BY DEF EngineSteps
  <2> QED BY <1>1, <1>2, <2>1 DEF Moves
<1>4. \A s \in Runs : Asks(s)
  <2>1. {"waiting", "claimed"} \subseteq Written
    BY DEF Written
  <2> QED BY <1>1, <2>1 DEF Asks
<1> QED BY <1>3, <1>4, StoppedKept

LEMMA Crash_Stopped ==
  ASSUME TypeOK, Sticky, Stopped, NEW i \in Instances, Crash(i) PROVE Stopped'
<1>1. UNCHANGED row /\ MaxCrashes # 0
  BY ConstantsAssumption DEF Crash, store, TypeOK, TypeThread
<1>2. \A r \in Runs : IF exec[r].at = i
                     THEN /\ exec'[r].pc \in {"queued", "done"}
                          /\ exec'[r].pc = "queued" => r \in Background
                     ELSE exec'[r] = exec[r]
  BY Statuses, ConstantsAssumption DEF Crash, NoExecution
<1>3. ASSUME NEW r \in Runs, canceller'[r] # canceller[r]
      PROVE  canceller[r] # NoCancellation /\ canceller'[r].pc = "lost"
  <2>1. canceller[r].at = i /\ canceller[r].pc # "done"
    BY <1>3 DEF Crash
  <2>2. canceller'[r] = [canceller[r] EXCEPT !.pc = "lost"]
    BY <2>1 DEF Crash
  <2>3. canceller'[r].pc = "lost"
    BY <2>2, Shapes DEF Cancellation
  <2>4. i # "none"
    BY ConstantsAssumption
  <2> QED BY <2>1, <2>3, <2>4, Nothing
<1>4. "lost" \notin Written /\ "queued" \notin EngineSteps \cup {"revert"}
  BY DEF Written, EngineSteps
<1>5. ASSUME NEW r \in Runs, canceller'[r] # NoCancellation PROVE r \in Cancellable
  BY <1>3, <1>5 DEF Stopped
<1>6. ASSUME NEW r \in Runs, canceller'[r].pc \in Written
      PROVE  canceller'[r] = canceller[r] /\ r \in Cancellable
  BY <1>3, <1>4, <1>6, Nothing DEF Stopped, Written
<1>7. ASSUME NEW r \in Runs, canceller'[r].pc \in Written, exec'[r] # exec[r]
      PROVE  exec'[r].pc = "done" \/ (exec'[r].pc = "queued" /\ row'[r] \notin Active)
  <2>1. CASE exec'[r].pc = "queued"
    <3>1. r \in Native
      BY <1>1, <1>2, <1>6, <1>7, <2>1 DEF Sticky
    <3> QED BY <1>1, <1>6, <1>7, <2>1, <3>1 DEF Stopped
  <2> QED BY <1>2, <1>7, <2>1
<1>8. "done" \in Written
  BY DEF Written
<1> QED BY <1>1, <1>4, <1>5, <1>6, <1>7, <1>8 DEF Stopped

LEMMA Cancel_Stopped ==
  ASSUME IInv, IInv', Core, Core', Stopped, NEW r \in Runs,
         CancelStep(r) \/ \E i \in Instances, m \in CancelModes : CancelRead(r, i, m)
  PROVE  Stopped'
<1> USE DEF IInv
<1>1. exec \in [Runs -> Execution] /\ row \in [Runs -> RowStatus]
      /\ canceller \in [Runs -> Cancellation]
  BY Shapes
<1>2. r \in Cancellable
  BY Nothing DEF CancelStep, CancelBase, CancelWrite, CancelIdle, CancelAbort, CancelClaimed,
     CancelAt, CancelRead, Stopped
<1>3. (UNCHANGED row) => NoneActivated
  BY DEF NoneActivated
<1>4. ASSUME canceller'[r].pc \notin Written, \A s \in Runs \ {r} : canceller'[s] = canceller[s]
      PROVE  \A s \in Runs : Asks(s)
  BY <1>2, <1>4 DEF Asks
<1>5. ASSUME canceller[r].pc \in Written, canceller'[r].pc \in Written,
             canceller'[r].pc = "done" => canceller'[r].mode # "wait",
             \A s \in Runs \ {r} : canceller'[s] = canceller[s]
      PROVE  \A s \in Runs : Asks(s)
  BY <1>5 DEF Asks
<1>6. CASE CancelBase(r) \/ \E i \in Instances, m \in CancelModes : CancelRead(r, i, m)
  <2>1. canceller'[r].pc \in {"base", "write"} /\ \A s \in Runs \ {r} : canceller'[s] = canceller[s]
    BY <1>1, <1>6 DEF CancelBase, CancelRead, Cancellation
  <2>2. UNCHANGED <<row, exec>>
    BY <1>6 DEF CancelBase, CancelRead, store
  <2>3. \A s \in Runs : Moves(s)
    BY <1>3, <2>2, StillMoves
  <2>4. canceller'[r].pc \notin Written
    BY <2>1 DEF Written
  <2> QED BY <1>4, <2>1, <2>3, <2>4, StoppedKept
<1>7. CASE CancelWrite(r)
  <2>1. UNCHANGED exec
    BY <1>7 DEF CancelWrite
  <2>2. CASE CancelGoto(r, "lost") /\ UNCHANGED row
    <3>1. canceller'[r].pc = "lost" /\ \A s \in Runs \ {r} : canceller'[s] = canceller[s]
      BY <2>2, CancelGotoMoves
    <3>2. \A s \in Runs : Moves(s)
      BY <1>3, <2>1, <2>2, StillMoves
    <3>3. "lost" \notin Written
      BY DEF Written
    <3> QED BY <1>4, <3>1, <3>2, <3>3, StoppedKept
  <2>3. CASE /\ CancelGoto(r, "idle")
             /\ Settle({r}, "cancelled") \/ SetStatus(r, "cancelled")
    <3>1. canceller'[r].pc = "idle" /\ \A s \in Runs \ {r} : canceller'[s] = canceller[s]
      BY <2>3, CancelGotoMoves
    <3>2. "cancelled" \notin Active
      BY DEF Active
    <3>3. NoneActivated /\ row'[r] \notin Active
      BY <1>1, <2>3, <3>2 DEF Settle, SetStatus, NoneActivated
    <3>4. canceller'[r] # NoCancellation /\ canceller'[r].pc # "done"
      BY <3>1, Nothing
    <3> QED BY <1>2, <2>1, <3>1, <3>3, <3>4 DEF Stopped, NoneActivated
  <2> QED BY <1>7, <2>2, <2>3 DEF CancelWrite
<1>8. CASE CancelIdle(r)
  <2>1. /\ canceller[r].pc = "idle" /\ canceller'[r].pc = "abort"
        /\ \A s \in Runs \ {r} : canceller'[s] = canceller[s]
    BY <1>8, CancelGotoMoves DEF CancelIdle, CancelAt
  <2>2. \A s \in Runs : Moves(s)
    BY <1>3, <1>8, StillMoves DEF CancelIdle, store
  <2>3. {"idle", "abort"} \subseteq Written
    BY DEF Written
  <2> QED BY <1>5, <2>1, <2>2, <2>3, StoppedKept
<1>9. CASE CancelAbort(r)
  <2>1. /\ canceller[r].pc = "abort"
        /\ canceller'[r].pc = IF Waits(r) THEN "waiting" ELSE "done"
        /\ canceller'[r].mode = canceller[r].mode
        /\ \A s \in Runs \ {r} : canceller'[s] = canceller[s]
    BY <1>9, CancelGotoMoves DEF CancelAbort, CancelAt
  <2>2. ~Waits(r) => canceller'[r].mode # "wait"
    BY <2>1 DEF Waits
  <2>3. UNCHANGED row /\ \A s \in Runs : exec'[s].pc = exec[s].pc
    BY <1>9, AbortKeeps DEF CancelAbort, store
  <2>4. \A s \in Runs : Moves(s)
    BY <1>3, <2>3, StillMoves
  <2>5. {"abort", "waiting", "done"} \subseteq Written
    BY DEF Written
  <2>6. \A s \in Runs : Asks(s)
    BY <1>5, <2>1, <2>2, <2>5
  <2> QED BY <2>4, <2>6, StoppedKept
<1>10. CASE CancelClaimed(r)
  <2>1. /\ canceller[r].pc = "claimed" /\ canceller'[r].pc = "done"
        /\ canceller'[r].mode = canceller[r].mode
        /\ \A s \in Runs \ {r} : canceller'[s] = canceller[s]
    BY <1>10, CancelGotoMoves DEF CancelClaimed, CancelAt
  <2>2. UNCHANGED exec /\ NoneActivated
    <3>1. CASE UNCHANGED row
      BY <1>3, <1>10, <3>1 DEF CancelClaimed
    <3>2. CASE row' = [row EXCEPT ![r] = "deleted"]
      BY <1>1, <1>10, <3>2, Statuses DEF CancelClaimed, NoneActivated
    <3> QED BY <1>10, <3>1, <3>2 DEF CancelClaimed
  <2>3. exec[r].pc \notin Holding
    BY <2>1 DEF Claimed
  <2>4. exec[r].pc \notin EngineSteps \cup {"revert"}
    BY <2>3 DEF Holding
  <2>5. canceller'[r] # NoCancellation /\ canceller[r].pc \in Written
    BY <2>1, Nothing DEF Written
  <2>6. row[r] \notin Active \/ exec[r].pc = "done"
    BY <2>4, <2>5 DEF Stopped, Begun
  <2>7. row'[r] \notin Active \/ (exec[r].pc \in Begun \cup {"done"} /\ r \notin Native)
    BY <2>2, <2>5 DEF Stopped, NoneActivated
  <2>8. row'[r] \notin Active \/ exec[r].pc = "done"
    BY <2>2, <2>6 DEF NoneActivated
  <2> QED BY <1>2, <2>1, <2>2, <2>4, <2>5, <2>7, <2>8 DEF Stopped, NoneActivated
<1> QED BY <1>6, <1>7, <1>8, <1>9, <1>10 DEF CancelStep

LEMMA NextStopped ==
  ASSUME Sticky, IInv, IInv', Core, Stopped, [Next]_vars PROVE Stopped'
<1> USE DEF IInv
<1>0. Core'
  BY NextCore
<1>a. (UNCHANGED canceller) => \A s \in Runs : Asks(s)
  BY DEF Asks
<1>1. ASSUME NEW r \in Runs, EngineStep(r) PROVE Stopped'
  <2>1. \A s \in Runs : Moves(s)
    BY <1>1, ReachMoves, StartMoves, EngineMoves DEF EngineStep
  <2>2. UNCHANGED canceller
    BY <1>1 DEF EngineStep, StartInline, Enqueue, Pull, Reread, ApplyPlan, Check, MarkRunning,
       MirrorBusy, RecordBase, GraphWrite, GraphReturn, GraphThrow, FinalizeRead, FinalizeWrite,
       FinalizeWithDelivery, SettleNative, Mirror, Close, Rest
  <2> QED BY <1>0, <1>a, <2>1, <2>2, StoppedKept
<1>2. ASSUME NEW r \in Runs,
             \/ PersistBase(r) \/ Timeout(r) \/ Observe(r) \/ DeleteRow(r)
             \/ (\E why \in Reasons : DeliverAbort(r, why))
             \/ (\E i \in Instances : DeleteAbort(r, i))
      PROVE  Stopped'
  <2>1. \A s \in Runs : Moves(s)
    BY <1>2, SignalMoves
  <2>2. UNCHANGED canceller
    BY <1>2 DEF PersistBase, Timeout, Observe, DeleteRow, DeliverAbort, DeleteAbort, Rest
  <2> QED BY <1>0, <1>a, <2>1, <2>2, StoppedKept
<1>3. ASSUME NEW c \in Runs,
             \/ CreateStep(c)
             \/ \E i \in Instances : CreateIfIdle(c, i) \/ \E s \in Strategies : ListActive(c, i, s)
      PROVE  Stopped'
  <2>1. \A s \in Runs : Moves(s)
    BY <1>3, CreateMoves
  <2>2. UNCHANGED canceller
    BY <1>3 DEF CreateStep, CreateIfIdle, ListActive, ReadBases, DisplaceRow, DisplaceStop,
       InsertRow, Admit
  <2> QED BY <1>0, <1>a, <2>1, <2>2, StoppedKept
<1>4. ASSUME NEW r \in Runs,
             CancelStep(r) \/ \E i \in Instances : \E m \in CancelModes : CancelRead(r, i, m)
      PROVE  Stopped'
  BY <1>0, <1>4, Cancel_Stopped
<1>5. ASSUME NEW i \in Instances, Acquire(i) \/ Crash(i) PROVE Stopped'
  BY <1>0, <1>5, Acquire_Stopped, Crash_Stopped
<1>6. CASE UNCHANGED vars
  <2>1. UNCHANGED <<row, exec, canceller>>
    BY <1>6 DEF vars, store
  <2> QED BY <1>0, <1>a, <2>1, StillMoves, StoppedKept DEF NoneActivated
<1> QED BY <1>1, <1>2, <1>3, <1>4, <1>5, <1>6 DEF Next

(* A cancel with wait=true answers when its run's execution is over and none *)
(* will begin: not by its abort, which may be lost, but because it held the  *)
(* claim after the row was written.                                          *)
THEOREM WaitedCancelStops == ASSUME Sticky PROVE Spec => []WaitedCancelMeansStopped
<1>1. Init => Stopped
  BY Nothing DEF Init, Stopped, Written
<1>2. IInv /\ Core /\ IInv' /\ Stopped /\ [Next]_vars => Stopped'
  BY NextStopped
<1>3. Stopped => WaitedCancelMeansStopped
  <2>1. "done" \notin EngineSteps
    BY DEF EngineSteps
  <2> QED BY <2>1 DEF Stopped, WaitedCancelMeansStopped
<1> QED BY <1>1, <1>2, <1>3, SettlementInvariant, PTL DEF Spec

-----------------------------------------------------------------------------
(* The thread is not left busy.                                              *)

(* Deployments without deletes, crashes or failing writes. The plan of a     *)
(* rollback outside admission deletes rows too.                              *)
Calm == /\ ~Faulty /\ MaxCrashes = 0 /\ Deletable = {}
        /\ Native = Runs \/ "rollback" \notin Strategies

Uncancelled == \A r \in Runs : canceller[r].pc = "none"
BusySteps == {"busy", "base", "graph", "settle", "write"}

(* The execution is about to write a status of its own to the thread.        *)
WillMirror(r) == /\ exec[r].pc = "mirror"
                 /\ exec[r].eff = exec[r].out \/ exec[r].mode \notin {"failed", "timedout"}

(* A creation outside admission that displaces has its row still to insert.  *)
Replacing(c) == c \notin Native /\ creator[c].pc \in {"displace", "stop", "insert"}
Alive == ActiveRuns # {} \/ \E c \in Runs : Replacing(c)

(* While a run executes some run is active, itself or one that displaced it, *)
(* or is about to be. So whoever leaves the thread without active runs has   *)
(* still to write its own status.                                            *)
Undone == \A r \in Runs : deleter[r] = "none" /\ (Native = Runs \/ plan[r].rows = {})
Listed == \A c \in Runs : \A d \in creator[c].todo : row[d] # "absent"
Busy == Uncancelled =>
  /\ \A r \in Runs : row[r] # "deleted"
  /\ \A r \in Runs : exec[r].pc = "write" => exec[r].eff = exec[r].out
  /\ \A r \in Runs : exec[r].pc \in BusySteps => Alive
  /\ thread = "busy" => Alive \/ \E r \in Runs : WillMirror(r)

(* A creation displaces runs that have rows.                                 *)
LEMMA ListedKept ==
  ASSUME Listed, \A s \in Runs : RowMoves(s), TypeOK,
         \A c \in Runs : creator'[c].todo \subseteq creator[c].todo \cup ActiveRuns
  PROVE  Listed'
<1>1. \A c \in Runs : creator[c].todo \subseteq Runs
  BY Shapes DEF Creation
<1>2. \A d \in Runs : row'[d] = "absent" => row[d] = "absent" /\ d \notin ActiveRuns
  BY Statuses DEF RowMoves, ActiveRuns
<1>3. ActiveRuns \subseteq Runs
  BY DEF ActiveRuns
<1> QED BY <1>1, <1>2, <1>3 DEF Listed

LEMMA CreateLists ==
  ASSUME TypeOK, NEW c \in Runs,
         \/ CreateStep(c)
         \/ \E i \in Instances : CreateIfIdle(c, i) \/ \E s \in Strategies : ListActive(c, i, s)
  PROVE  \A d \in Runs : creator'[d].todo \subseteq creator[d].todo \cup ActiveRuns
<1>1. creator \in [Runs -> Creation]
  BY Shapes
<1>2. ASSUME NEW x, creator' = [creator EXCEPT ![c] = x],
             x.todo \subseteq creator[c].todo \cup ActiveRuns
      PROVE  \A d \in Runs : creator'[d].todo \subseteq creator[d].todo \cup ActiveRuns
  BY <1>1, <1>2
<1>3. CASE InsertRow(c) \/ \E i \in Instances : CreateIfIdle(c, i)
  <2>1. creator' = [creator EXCEPT ![c] = Created]
    BY <1>3 DEF CreateIfIdle, InsertRow
  <2> QED BY <1>2, <2>1, Nothing
<1>4. CASE \E i \in Instances, s \in Strategies : ListActive(c, i, s)
  <2>1. PICK i \in Instances, s \in Strategies : ListActive(c, i, s)
    BY <1>4
  <2> DEFINE pc == CASE ActiveRuns = {} \/ s = "enqueue" -> "insert"
                     [] s = "rollback" -> "bases"
                     [] s = "interrupt" -> IF c \in Native THEN "insert" ELSE "displace"
             x == [NoCreation EXCEPT
                    !.pc = pc, !.at = i, !.by = s,
                    !.todo = IF s = "enqueue" THEN {} ELSE ActiveRuns,
                    !.seen = [r \in Runs |-> IF r \in ActiveRuns THEN row[r] ELSE "none"]]
  <2>2. creator' = [creator EXCEPT ![c] = x]
    BY <2>1 DEF ListActive
  <2>3. x.todo \subseteq creator[c].todo \cup ActiveRuns
    <3> HIDE DEF pc
    <3> QED BY DEF NoCreation
  <2> HIDE DEF pc, x
  <2> QED BY <1>2, <2>2, <2>3
<1>5. CASE ReadBases(c)
  <2>1. PICK base \in Recorded : creator' = [creator EXCEPT
            ![c].revert = base, ![c].pc = IF c \in Native THEN "insert" ELSE "displace"]
    BY <1>5 DEF ReadBases
  <2> DEFINE x == [creator[c] EXCEPT
            !.revert = base, !.pc = IF c \in Native THEN "insert" ELSE "displace"]
  <2>2. creator' = [creator EXCEPT ![c] = x]
    BY <1>1, <2>1
  <2>3. x.todo = creator[c].todo
    BY <1>1 DEF Creation
  <2> HIDE DEF x
  <2> QED BY <1>2, <2>2, <2>3
<1>7. CASE DisplaceRow(c)
  <2>1. creator' \in {[creator EXCEPT ![c] = Created], [creator EXCEPT ![c].pc = "stop"]}
    BY <1>7 DEF DisplaceRow
  <2>2. creator'[c].todo \in {{}, creator[c].todo} /\ \A d \in Runs \ {c} : creator'[d] = creator[d]
    BY <1>1, <2>1, Nothing DEF Creation
  <2> QED BY <2>2
<1>8. CASE Admit(c)
  <2>1. creator' \in {[creator EXCEPT ![c] = Created], [creator EXCEPT ![c].pc = "stop"]}
    BY <1>8 DEF Admit
  <2>2. creator'[c].todo \in {{}, creator[c].todo} /\ \A d \in Runs \ {c} : creator'[d] = creator[d]
    BY <1>1, <2>1, Nothing DEF Creation
  <2> QED BY <2>2
<1>6. CASE DisplaceStop(c)
  <2>1. PICK d \in Runs :
          creator' = [creator EXCEPT ![c] =
             IF c \in Native /\ creator[c].todo \ {d} = {} THEN Created
             ELSE [creator[c] EXCEPT !.todo = creator[c].todo \ {d},
                        !.pc = CASE c \in Native -> "stop"
                                 [] c \notin Native /\ creator[c].todo \ {d} = {} -> "insert"
                                 [] OTHER -> "displace"]]
    BY <1>6 DEF DisplaceStop
  <2>2. /\ creator'[c].todo \in {{}, creator[c].todo \ {d}}
        /\ \A e \in Runs \ {c} : creator'[e] = creator[e]
    BY <1>1, <2>1, Nothing DEF Creation
  <2> QED BY <2>2
<1> QED BY <1>3, <1>4, <1>5, <1>6, <1>7, <1>8 DEF CreateStep

LEMMA NextListed ==
  ASSUME IInv, IInv', Core, Listed, [Next]_vars PROVE Listed'
<1> USE DEF IInv
<1>1. \A s \in Runs : RowMoves(s)
  BY NextCore
<1>2. ASSUME UNCHANGED creator PROVE Listed'
  BY <1>1, <1>2, ListedKept
<1>3. ASSUME NEW r \in Runs,
             \/ EngineStep(r) \/ CancelStep(r) \/ PersistBase(r) \/ Timeout(r) \/ Observe(r)
             \/ DeleteRow(r) \/ (\E why \in Reasons : DeliverAbort(r, why))
             \/ (\E i \in Instances : DeleteAbort(r, i) \/ \E m \in CancelModes : CancelRead(r, i, m))
      PROVE  Listed'
  <2>1. UNCHANGED creator
    BY <1>3, EngineInsertsNone, RequestInsertsNone
  <2> QED BY <1>2, <2>1
<1>4. ASSUME NEW c \in Runs,
             \/ CreateStep(c)
             \/ \E i \in Instances : CreateIfIdle(c, i) \/ \E s \in Strategies : ListActive(c, i, s)
      PROVE  Listed'
  BY <1>1, <1>4, CreateLists, ListedKept
<1>5. ASSUME NEW i \in Instances, Acquire(i) PROVE Listed'
  BY <1>2, <1>5 DEF Acquire
<1>6. ASSUME NEW i \in Instances, Crash(i) PROVE Listed'
  <2>1. \A c \in Runs : creator'[c] \in {Created, creator[c]}
    BY <1>6 DEF Crash
  <2>2. \A c \in Runs : creator'[c].todo \subseteq creator[c].todo \cup ActiveRuns
    BY <2>1, Nothing
  <2> QED BY <1>1, <2>2, ListedKept
<1>7. CASE UNCHANGED vars
  BY <1>2, <1>7 DEF vars
<1> QED BY <1>3, <1>4, <1>5, <1>6, <1>7 DEF Next

(* An execution stands still, or takes a step that Busy does not speak of.   *)
Quiet(s) ==
  \/ /\ exec'[s].pc = exec[s].pc /\ exec'[s].mode = exec[s].mode
     /\ exec'[s].out = exec[s].out /\ exec'[s].eff = exec[s].eff
  \/ /\ exec[s].pc # "mirror" /\ exec'[s].pc # "write"
     /\ exec'[s].pc \in BusySteps => exec[s].pc \in BusySteps

LEMMA BusyKept ==
  ASSUME Busy, Uncancelled' => Uncancelled, UNCHANGED <<row, thread>>,
         \A s \in Runs : Replacing(s) => Replacing(s)', \A s \in Runs : Quiet(s)
  PROVE  Busy'
<1>1. Alive => Alive'
  BY DEF Alive, ActiveRuns
<1>2. \A s \in Runs : WillMirror(s) => WillMirror(s)'
  BY DEF WillMirror, Quiet
<1>3. \A s \in Runs : exec'[s].pc \in BusySteps => exec[s].pc \in BusySteps
  BY DEF Quiet
<1>4. \A s \in Runs : exec'[s].pc = "write" =>
        exec[s].pc = "write" /\ exec'[s].out = exec[s].out /\ exec'[s].eff = exec[s].eff
  BY DEF Quiet
<1> HIDE DEF Alive, Quiet, WillMirror
<1> QED BY <1>1, <1>2, <1>3, <1>4 DEF Busy

(* One execution steps.                                                      *)
LEMMA BusyStep ==
  ASSUME Busy, UNCHANGED <<row, thread, canceller, creator>>, NEW r \in Runs,
         exec[r].pc # "mirror", exec'[r].pc # "write",
         exec'[r].pc \in BusySteps => exec[r].pc \in BusySteps,
         \A s \in Runs \ {r} : exec'[s] = exec[s]
  PROVE  Busy'
<1>1. Uncancelled' => Uncancelled
  BY DEF Uncancelled
<1>2. \A s \in Runs : Quiet(s) /\ (Replacing(s) => Replacing(s)')
  BY DEF Quiet, Replacing
<1> QED BY <1>1, <1>2, BusyKept

(* Some run is active afterwards, or about to be.                            *)
LEMMA BusyAlive ==
  ASSUME Busy, Uncancelled' => Uncancelled, Alive',
         \A s \in Runs : row'[s] # "deleted" \/ row'[s] = row[s],
         \A s \in Runs : exec'[s] = exec[s] \/ exec'[s].pc # "write"
  PROVE  Busy'
BY DEF Busy

LEMMA BusyActive ==
  ASSUME Busy, Uncancelled' => Uncancelled, NEW c \in Runs, row'[c] \in Active,
         \A s \in Runs \ {c} : row'[s] # "deleted" \/ row'[s] = row[s],
         \A s \in Runs : exec'[s] = exec[s] \/ exec'[s].pc # "write"
  PROVE  Busy'
<1>1. row'[c] # "deleted" /\ Alive'
  BY Statuses DEF ActiveRuns, Alive
<1> QED BY <1>1, BusyAlive

LEMMA Reach_Busy ==
  ASSUME TypeOK, Busy, NEW r \in Runs,
         StartInline(r) \/ Enqueue(r) \/ (\E i \in Instances : Pull(r, i)) \/ Reread(r)
  PROVE  Busy'
<1>1. exec \in [Runs -> Execution]
  BY Shapes
<1>2. UNCHANGED <<row, thread, canceller, creator>>
  BY DEF StartInline, Enqueue, Pull, Reread, store, Rest
<1>3. exec[r].pc \in {"prepared", "queued", "claimed"}
  BY DEF StartInline, Enqueue, Pull, Reread
<1>4. ASSUME NEW pc \in {"waiting", "queued", "claimed", "revert", "check", "done"},
             exec'[r].pc = pc, \A s \in Runs \ {r} : exec'[s] = exec[s]
      PROVE  Busy'
  BY <1>2, <1>3, <1>4, BusyStep DEF BusySteps
<1>5. CASE StartInline(r)
  BY <1>4, <1>5, GotoPc DEF StartInline
<1>6. CASE Enqueue(r)
  <2>1. exec'[r].pc = "queued" /\ \A s \in Runs \ {r} : exec'[s] = exec[s]
    BY <1>1, <1>6 DEF Enqueue, Execution
  <2> QED BY <1>4, <2>1
<1>7. CASE \E i \in Instances : Pull(r, i)
  <2>1. PICK i \in Instances : Pull(r, i)
    BY <1>7
  <2>2. CASE Goto(r, "done")
    BY <1>4, <2>2, GotoPc
  <2>3. CASE exec' = [exec EXCEPT ![r].pc = "claimed", ![r].at = i]
    <3>1. exec'[r].pc = "claimed" /\ \A s \in Runs \ {r} : exec'[s] = exec[s]
      BY <1>1, <2>3 DEF Execution
    <3> QED BY <1>4, <3>1
  <2> QED BY <2>1, <2>2, <2>3 DEF Pull
<1>8. CASE Reread(r)
  <2>1. CASE exec' = [exec EXCEPT ![r] = [NoExecution EXCEPT !.pc = "done"]]
    <3>1. exec'[r].pc = "done" /\ \A s \in Runs \ {r} : exec'[s] = exec[s]
      BY <1>1, <2>1 DEF NoExecution
    <3> QED BY <1>4, <3>1
  <2>2. CASE \E pc \in {"revert", "check"} : Goto(r, pc)
    BY <1>4, <2>2, GotoPc
  <2> QED BY <1>8, <2>1, <2>2 DEF Reread
<1> QED BY <1>5, <1>6, <1>7, <1>8

LEMMA Start_Busy ==
  ASSUME TypeOK, Core, Undone, Busy, NEW r \in Runs,
         ApplyPlan(r) \/ Check(r) \/ MarkRunning(r)
  PROVE  Busy'
<1>1. exec \in [Runs -> Execution] /\ row \in [Runs -> RowStatus]
  BY Shapes
<1>2. UNCHANGED <<thread, canceller, creator>>
  BY DEF ApplyPlan, Check, MarkRunning, Rest
<1>3. CASE ApplyPlan(r)
  <2>1. UNCHANGED row
    <3>1. plan[r].rows \subseteq Native
      BY Shapes DEF Undone
    <3> QED BY <1>1, <1>3, <3>1 DEF ApplyPlan
  <2>2. exec[r].pc = "revert" /\ exec'[r].pc = "check" /\ \A s \in Runs \ {r} : exec'[s] = exec[s]
    BY <1>3, GotoPc DEF ApplyPlan
  <2> QED BY <1>2, <2>1, <2>2, BusyStep DEF BusySteps
<1>4. CASE Check(r)
  <2>1. /\ exec[r].pc = "check" /\ exec'[r].pc \in {"set", "close"}
        /\ \A s \in Runs \ {r} : exec'[s] = exec[s]
    BY <1>4, GotoPc DEF Check
  <2>2. UNCHANGED row
    BY <1>4 DEF Check, store
  <2> QED BY <1>2, <2>1, <2>2, BusyStep DEF BusySteps
<1>5. CASE MarkRunning(r)
  <2>1. exec[r].pc = "set" /\ (Uncancelled' => Uncancelled)
    BY <1>2, <1>5 DEF MarkRunning, Uncancelled
  <2>2. CASE ~Exists(r)
    <3>1. row[r] = "deleted"
      BY <2>1, <2>2, Nothing DEF Exists, Core, Unborn
    <3>2. ~Uncancelled
      BY <3>1 DEF Busy
    <3> QED BY <2>1, <3>2 DEF Busy
  <2>3. CASE (UNCHANGED row) /\ Goto(r, "close")
    <3>1. exec'[r].pc = "close" /\ \A s \in Runs \ {r} : exec'[s] = exec[s]
      BY <2>3, GotoPc
    <3> QED BY <1>2, <2>1, <2>3, <3>1, BusyStep DEF BusySteps
  <2>4. CASE /\ SetStatus(r, "running")
             /\ exec' = [exec EXCEPT ![r].pc = "busy", ![r].started = TRUE]
    <3>1. row'[r] \in Active /\ \A s \in Runs \ {r} : row'[s] = row[s]
      BY <1>1, <2>4 DEF SetStatus, Active
    <3>2. exec'[r].pc = "busy" /\ \A s \in Runs \ {r} : exec'[s] = exec[s]
      BY <1>1, <2>4 DEF Execution
    <3> QED BY <2>1, <3>1, <3>2, BusyActive
  <2> QED BY <1>5, <2>2, <2>3, <2>4 DEF MarkRunning
<1> QED BY <1>3, <1>4, <1>5

LEMMA Graph_Busy ==
  ASSUME TypeOK, Busy, NEW r \in Runs,
         MirrorBusy(r) \/ RecordBase(r) \/ GraphWrite(r) \/ GraphReturn(r) \/ GraphThrow(r)
  PROVE  Busy'
<1>1. exec \in [Runs -> Execution]
  BY Shapes
<1>2. UNCHANGED <<row, canceller, creator>> /\ exec[r].pc \in {"busy", "base", "graph"}
  BY DEF MirrorBusy, RecordBase, GraphWrite, GraphReturn, GraphThrow, store, Rest
<1>3. exec'[r].pc # "write" /\ \A s \in Runs \ {r} : exec'[s] = exec[s]
  <2>1. CASE MirrorBusy(r)
    BY <2>1, GotoPc DEF MirrorBusy
  <2>2. CASE RecordBase(r) \/ GraphWrite(r)
    BY <1>1, <2>2 DEF RecordBase, GraphWrite, Execution
  <2>3. CASE GraphReturn(r)
    BY <2>3, ReturnPc
  <2>4. CASE GraphThrow(r)
    <3>1. Caught(exec[r]).pc = "settle" /\ [exec[r] EXCEPT !.pc = "close"].pc = "close"
      BY <1>1 DEF Caught, Execution
    <3> QED BY <1>1, <2>4, <3>1 DEF GraphThrow, Throw
  <2> QED BY <2>1, <2>2, <2>3, <2>4
<1>4. exec[r].pc # "mirror" /\ exec[r].pc \in BusySteps
  BY <1>2 DEF BusySteps
<1>5. CASE MirrorBusy(r)
  <2>1. Uncancelled' => Uncancelled
    BY <1>2 DEF Uncancelled
  <2>2. Uncancelled => Alive
    BY <1>4 DEF Busy
  <2>3. Alive' = Alive
    BY <1>2 DEF Alive, ActiveRuns, Replacing
  <2>4. \A s \in Runs : exec'[s].pc = "write" => exec'[s] = exec[s]
    BY <1>3
  <2> HIDE DEF Alive
  <2> QED BY <1>2, <2>1, <2>2, <2>3, <2>4 DEF Busy
<1>6. CASE ~MirrorBusy(r)
  <2>1. UNCHANGED thread
    BY <1>6 DEF RecordBase, GraphWrite, GraphReturn, GraphThrow
  <2> QED BY <1>2, <1>3, <1>4, <2>1, BusyStep
<1> QED BY <1>5, <1>6

(* The execution settles: it was active and has a status of its own to write,*)
(* or another run is active.                                                 *)
LEMMA Outcome_Busy ==
  ASSUME IInv, Busy, NEW r \in Runs, exec[r].pc \in {"settle", "write"},
         UNCHANGED <<thread, canceller, creator>>,
         exec'[r].pc = "mirror", \A s \in Runs \ {r} : exec'[s] = exec[s] /\ row'[s] = row[s],
         row'[r] # "deleted", row'[r] = row[r] \/ (Uncancelled => exec'[r].eff = exec'[r].out)
  PROVE  Busy'
<1> USE DEF IInv
<1>1. \A s \in Runs : exec'[s].pc \notin BusySteps
  <2>1. \A s \in Runs \ {r} : exec[s].pc \notin BusySteps
    BY DEF Claimed, Holding, EngineSteps, BusySteps
  <2> QED BY <2>1 DEF BusySteps
<1>2. (Uncancelled' => Uncancelled) /\ (Uncancelled => \A s \in Runs : row'[s] # "deleted")
  BY DEF Uncancelled, Busy
<1>3. CASE row'[r] = row[r]
  <2>1. Uncancelled => Alive
    BY DEF Busy, BusySteps
  <2>2. Alive => Alive'
    BY <1>3 DEF Alive, ActiveRuns, Replacing
  <2> HIDE DEF Alive
  <2> QED BY <1>1, <1>2, <2>1, <2>2 DEF Busy, BusySteps
<1>4. CASE Uncancelled => exec'[r].eff = exec'[r].out
  <2>1. Uncancelled => WillMirror(r)'
    BY <1>4 DEF WillMirror
  <2> QED BY <1>1, <1>2, <2>1 DEF Busy, BusySteps
<1> QED BY <1>3, <1>4

(* A run that executes has a row, unless it was deleted.                     *)
LEMMA RowThere ==
  ASSUME TypeOK, Core, Busy, NEW r \in Runs, exec[r].pc # "none", Uncancelled PROVE Exists(r)
BY Nothing DEF Exists, Core, Unborn, Busy

LEMMA SettleNative_Busy ==
  ASSUME IInv, Core, Busy, NEW r \in Runs, SettleNative(r) PROVE Busy'
<1> USE DEF IInv
<1>1. exec \in [Runs -> Execution] /\ row \in [Runs -> RowStatus]
  BY Shapes
<1>2. /\ UNCHANGED <<thread, canceller, creator>> /\ exec[r].pc = "settle"
      /\ Uncancelled' => Uncancelled
  BY DEF SettleNative, Rest, Uncancelled
<1>3. CASE ~Exists(r)
  BY <1>2, <1>3, RowThere DEF Busy
<1>4. CASE /\ Exists(r) /\ Settle({r}, exec[r].out)
           /\ exec' = [exec EXCEPT ![r].pc = "mirror", ![r].eff = row'[r]]
  <2>1. /\ exec'[r].pc = "mirror" /\ exec'[r].eff = row'[r] /\ exec'[r].out = exec[r].out
        /\ \A s \in Runs \ {r} : exec'[s] = exec[s] /\ row'[s] = row[s]
    BY <1>1, <1>4 DEF Settle, Execution
  <2>2. row'[r] = IF row[r] \in Active THEN exec[r].out ELSE row[r]
    BY <1>4 DEF Settle
  <2>3. exec[r].out # "deleted" /\ row[r] # "deleted"
    BY <1>2, <1>4, Statuses DEF Settling, Exists
  <2> QED BY <1>2, <2>1, <2>2, <2>3, Outcome_Busy
<1> QED BY <1>3, <1>4 DEF SettleNative

(* A run outside admission settles in two steps, or with its callback.       *)
LEMMA Finalize_Busy ==
  ASSUME IInv, Core, Busy, NEW r \in Runs,
         FinalizeRead(r) \/ FinalizeWrite(r) \/ FinalizeWithDelivery(r)
  PROVE  Busy'
<1> USE DEF IInv
<1>1. exec \in [Runs -> Execution] /\ row \in [Runs -> RowStatus]
  BY Shapes
<1>2. /\ UNCHANGED <<thread, canceller, creator>> /\ exec[r].pc \in {"settle", "write"}
      /\ Uncancelled' => Uncancelled
  BY DEF FinalizeRead, FinalizeWrite, FinalizeWithDelivery, Rest, Uncancelled
<1>3. CASE ~Exists(r)
  BY <1>2, <1>3, RowThere DEF Busy
<1>4. exec[r].out \in Terminal /\ "deleted" \notin Terminal /\ Active \cap Terminal = {}
  BY <1>2, Statuses DEF Settling
<1>5. Exists(r) => row[r] # "deleted" /\ row[r] \in Active \cup Terminal
  BY <1>1, Statuses DEF Exists
<1>6. CASE FinalizeRead(r) /\ Exists(r)
  <2>1. /\ exec'[r].pc = IF row[r] \in Active THEN "write" ELSE "mirror"
        /\ exec'[r].eff = IF row[r] \in Terminal THEN row[r] ELSE exec[r].out
        /\ exec'[r].out = exec[r].out /\ exec[r].pc = "settle"
        /\ \A s \in Runs \ {r} : exec'[s] = exec[s]
    BY <1>1, <1>6 DEF FinalizeRead, Execution
  <2>2. UNCHANGED row
    BY <1>6 DEF FinalizeRead, store
  <2>3. CASE row[r] \in Active
    <3>1. exec'[r].pc = "write" /\ exec'[r].eff = exec'[r].out
      BY <1>4, <2>1, <2>3
    <3>2. r \in ActiveRuns'
      BY <2>2, <2>3 DEF ActiveRuns
    <3>3. Alive'
      BY <3>2 DEF Alive
    <3> HIDE DEF Alive
    <3> QED BY <1>2, <2>1, <2>2, <3>1, <3>3 DEF Busy
  <2>4. CASE row[r] \notin Active
    BY <1>2, <1>5, <1>6, <2>1, <2>2, <2>4, Outcome_Busy
  <2> QED BY <2>3, <2>4
<1>7. CASE FinalizeWrite(r) /\ Exists(r)
  <2>1. SetStatus(r, exec[r].out) /\ Goto(r, "mirror") /\ exec[r].pc = "write"
    BY <1>7 DEF FinalizeWrite
  <2>2. /\ exec'[r].pc = "mirror" /\ exec'[r].eff = exec[r].eff /\ exec'[r].out = exec[r].out
        /\ row'[r] = exec[r].out
        /\ \A s \in Runs \ {r} : exec'[s] = exec[s] /\ row'[s] = row[s]
    BY <1>1, <2>1 DEF Goto, SetStatus, Execution
  <2>3. Uncancelled => exec'[r].eff = exec'[r].out
    BY <2>1, <2>2 DEF Busy
  <2> QED BY <1>2, <1>4, <2>2, <2>3, Outcome_Busy
<1>8. CASE FinalizeWithDelivery(r) /\ Exists(r)
  <2>1. /\ exec'[r].pc = "mirror" /\ exec'[r].out = exec[r].out
        /\ exec'[r].eff = IF row[r] \in Terminal THEN row[r] ELSE exec[r].out
        /\ row'[r] = IF row[r] \in Active THEN exec[r].out ELSE row[r]
        /\ \A s \in Runs \ {r} : exec'[s] = exec[s] /\ row'[s] = row[s]
    BY <1>1, <1>8 DEF FinalizeWithDelivery, Execution
  <2>2. row'[r] # "deleted" /\ (row'[r] = row[r] \/ exec'[r].eff = exec'[r].out)
    BY <1>4, <1>5, <1>8, <2>1
  <2> QED BY <1>2, <2>1, <2>2, Outcome_Busy
<1> QED BY <1>3, <1>6, <1>7, <1>8

(* ... and writes it. Nobody else is about to write one.                     *)
LEMMA Mirror_Busy ==
  ASSUME Calm, IInv, Busy, NEW r \in Runs, Mirror(r) PROVE Busy'
<1> USE DEF IInv
<1>1. /\ UNCHANGED <<row, canceller, creator>> /\ exec[r].pc = "mirror"
      /\ thread' = Mirrored(r) /\ Goto(r, "close")
  BY DEF Mirror, Calm, store, Rest
<1>2. exec'[r].pc = "close" /\ \A s \in Runs \ {r} : exec'[s] = exec[s]
  BY <1>1, GotoPc
<1>3. \A s \in Runs \ {r} : exec[s].pc \notin BusySteps /\ exec[s].pc # "mirror"
  BY <1>1 DEF Claimed, Holding, EngineSteps, BusySteps
<1>4. Uncancelled' => Uncancelled /\ \A s \in Runs : row'[s] # "deleted"
  BY <1>1 DEF Uncancelled, Busy
<1>5. \A s \in Runs : exec'[s].pc \notin BusySteps
  BY <1>2, <1>3 DEF BusySteps
<1>6. CASE WillMirror(r)
  <2>1. exec[r].mode \in Modes \ {"none"} /\ exec[r].out \in Terminal
    BY <1>1, Shapes DEF Settling, Execution
  <2>2. thread' \in {"idle", "interrupted", "error"}
    <3>1. ThreadStatusFor[exec[r].out] \in {"idle", "interrupted", "error"}
      BY <2>1 DEF ThreadStatusFor, Terminal
    <3>2. exec[r].mode \in {"done", "stopped", "timedout", "aborted", "failed"}
      BY <2>1 DEF Modes
    <3> QED BY <1>1, <1>6, <3>1, <3>2 DEF Mirrored, WillMirror
  <2> QED BY <1>4, <1>5, <2>2 DEF Busy, BusySteps
<1>7. CASE ~WillMirror(r)
  <2>1. exec[r].mode \in {"failed", "timedout"} /\ exec[r].eff # exec[r].out
    BY <1>1, <1>7 DEF WillMirror
  <2>2. UNCHANGED thread
    BY <1>1, <2>1 DEF Mirrored
  <2>3. ~\E s \in Runs : WillMirror(s)
    BY <1>3, <1>7 DEF WillMirror
  <2>4. Uncancelled /\ thread = "busy" => Alive
    BY <2>3 DEF Busy
  <2>5. Alive' = Alive
    BY <1>1 DEF Alive, ActiveRuns, Replacing
  <2> HIDE DEF Alive
  <2> QED BY <1>4, <1>5, <2>2, <2>4, <2>5 DEF Busy, BusySteps
<1> QED BY <1>6, <1>7

LEMMA Signal_Busy ==
  ASSUME Calm, TypeOK, Core, Undone, Busy, NEW r \in Runs,
         \/ PersistBase(r) \/ Timeout(r) \/ Observe(r) \/ DeleteRow(r) \/ Close(r)
         \/ (\E why \in Reasons : DeliverAbort(r, why)) \/ (\E i \in Instances : DeleteAbort(r, i))
  PROVE  Undone' /\ Busy'
<1>1. ~DeleteRow(r) /\ \A i \in Instances : ~DeleteAbort(r, i)
  BY DEF DeleteRow, DeleteAbort, Calm, Undone
<1>2. UNCHANGED <<row, thread, canceller, creator, deleter, plan>>
  BY <1>1 DEF PersistBase, Timeout, Observe, DeliverAbort, Close, store, Rest
<1>3. /\ Undone' /\ (Uncancelled' => Uncancelled)
      /\ \A s \in Runs : Replacing(s) => Replacing(s)'
  BY <1>2 DEF Undone, Uncancelled, Replacing
<1>4. CASE PersistBase(r)
  <2>1. UNCHANGED exec
    BY <1>4 DEF PersistBase
  <2> QED BY <1>2, <1>3, <2>1, BusyKept DEF Quiet
<1>5. CASE Timeout(r) \/ Observe(r) \/ \E why \in Reasons : DeliverAbort(r, why)
  <2>1. \E why : exec' = Aborted(r, why)
    BY <1>5 DEF Timeout, Observe, DeliverAbort
  <2>2. \A s \in Runs : /\ exec'[s].pc = exec[s].pc /\ exec'[s].mode = exec[s].mode
                        /\ exec'[s].out = exec[s].out /\ exec'[s].eff = exec[s].eff
    BY <2>1, AbortedKeeps
  <2> QED BY <1>2, <1>3, <2>2, BusyKept DEF Quiet
<1>6. CASE Close(r)
  <2>1. exec[r].pc = "close" /\ exec'[r].pc = "done" /\ \A s \in Runs \ {r} : exec'[s] = exec[s]
    BY <1>6, Shapes DEF Close, NoExecution
  <2> QED BY <1>2, <1>3, <2>1, BusyStep DEF BusySteps
<1> QED BY <1>1, <1>4, <1>5, <1>6

LEMMA Create_Busy ==
  ASSUME Calm, IInv, Core, Undone, Listed, Busy, NEW c \in Runs,
         \/ CreateStep(c)
         \/ \E i \in Instances : CreateIfIdle(c, i) \/ \E s \in Strategies : ListActive(c, i, s)
  PROVE  Undone' /\ Busy'
<1> USE DEF IInv
<1>1. row \in [Runs -> RowStatus] /\ creator \in [Runs -> Creation] /\ exec \in [Runs -> Execution]
  BY Shapes
<1>2. UNCHANGED <<thread, canceller, deleter>>
  BY DEF CreateStep, ReadBases, DisplaceRow, DisplaceStop, InsertRow, Admit, CreateIfIdle, ListActive
<1>3. Uncancelled' => Uncancelled
  BY <1>2 DEF Uncancelled
<1>9. Undone'
  <2>1. CASE Native = Runs
    BY <1>2, <2>1 DEF Undone
  <2>2. CASE "rollback" \notin Strategies
    <3>1. PlanOf(c).rows = {}
      <4>1. creator[c].by # "rollback"
        BY <1>1, <2>2 DEF Creation
      <4> QED BY <4>1 DEF PlanOf, NoPlan
    <3>2. plan' \in {plan, [plan EXCEPT ![c] = PlanOf(c)]}
      BY DEF CreateStep, ReadBases, DisplaceRow, DisplaceStop, InsertRow, Admit, CreateIfIdle,
         ListActive, store
    <3>3. \A s \in Runs : plan'[s] \in {plan[s], PlanOf(c)}
      BY <3>2, Shapes
    <3> QED BY <1>2, <3>1, <3>3 DEF Undone
  <2> QED BY <2>1, <2>2 DEF Calm
<1>4. CASE ReadBases(c) \/ \E i \in Instances, s \in Strategies : ListActive(c, i, s)
  <2>1. UNCHANGED <<row, exec>>
    BY <1>4 DEF ReadBases, ListActive, store
  <2>2. creator[c].pc \in {"none", "bases"} /\ \A d \in Runs \ {c} : creator'[d] = creator[d]
    BY <1>1, <1>4 DEF ReadBases, ListActive, CreatorAt
  <2>3. \A d \in Runs : Replacing(d) => Replacing(d)'
    BY <2>2 DEF Replacing
  <2> QED BY <1>2, <1>3, <1>9, <2>1, <2>3, BusyKept DEF Quiet
<1>5. CASE DisplaceStop(c)
  <2>1. PICK d \in Runs : Abort(d, creator[c].by, creator[c].at)
    BY <1>5 DEF DisplaceStop
  <2>2. \A s \in Runs : /\ exec'[s].pc = exec[s].pc /\ exec'[s].mode = exec[s].mode
                        /\ exec'[s].out = exec[s].out /\ exec'[s].eff = exec[s].eff
    BY <2>1, AbortedKeeps DEF Abort
  <2>3. UNCHANGED row
    BY <1>5 DEF DisplaceStop, store
  <2>4. /\ \A e \in Runs \ {c} : creator'[e] = creator[e]
        /\ c \notin Native => creator'[c].pc \in {"insert", "displace"}
    BY <1>1, <1>5 DEF DisplaceStop, Creation
  <2>5. \A e \in Runs : Replacing(e) => Replacing(e)'
    BY <2>4 DEF Replacing
  <2> QED BY <1>2, <1>3, <1>9, <2>2, <2>3, <2>5, BusyKept DEF Quiet
<1>6. CASE InsertRow(c) \/ \E i \in Instances : CreateIfIdle(c, i)
  <2>1. PICK i : /\ row' = [row EXCEPT ![c] = "pending"]
                 /\ exec' = [exec EXCEPT ![c] = [NoExecution EXCEPT !.pc = "prepared", !.at = i]]
    BY <1>6 DEF InsertRow, CreateIfIdle, Insert
  <2>2. row'[c] \in Active /\ \A s \in Runs \ {c} : row'[s] = row[s]
    BY <1>1, <2>1 DEF Active
  <2>3. exec'[c].pc = "prepared" /\ \A s \in Runs \ {c} : exec'[s] = exec[s]
    BY <1>1, <2>1 DEF NoExecution
  <2> QED BY <1>3, <1>9, <2>2, <2>3, BusyActive
<1>7. CASE Admit(c)
  <2>1. CASE creator' = [creator EXCEPT ![c] = Created] /\ UNCHANGED <<row, exec>>
    <3>1. \A d \in Runs : Replacing(d) => Replacing(d)'
      BY <1>1, <1>7, <2>1 DEF Replacing, Admit
    <3> QED BY <1>2, <1>3, <1>9, <2>1, <3>1, BusyKept DEF Quiet
  <2>2. CASE /\ row' = [r \in Runs |-> IF r = c THEN "pending"
                          ELSE IF r \in creator[c].todo THEN DisplacedStatus(c) ELSE row[r]]
             /\ exec' = [exec EXCEPT ![c] = [NoExecution EXCEPT !.pc = "prepared",
                                                               !.at = creator[c].at]]
    <3>1. row'[c] \in Active
      BY <2>2 DEF Active
    <3>2. DisplacedStatus(c) # "deleted"
      BY DEF DisplacedStatus
    <3>3. \A s \in Runs \ {c} : row'[s] # "deleted" \/ row'[s] = row[s]
      BY <2>2, <3>2
    <3>4. exec'[c].pc = "prepared" /\ \A s \in Runs \ {c} : exec'[s] = exec[s]
      BY <1>1, <2>2 DEF NoExecution
    <3> QED BY <1>3, <1>9, <3>1, <3>3, <3>4, BusyActive
  <2> QED BY <1>7, <2>1, <2>2 DEF Admit, Insert
<1>8. CASE DisplaceRow(c)
  <2>1. UNCHANGED exec /\ creator[c].pc = "displace" /\ c \notin Native
    BY <1>8 DEF DisplaceRow, CreatorAt, Core, Admissions
  <2>2. PICK d \in Runs :
          /\ d \in creator[c].todo
          /\ \/ ~Exists(d)
             \/ /\ creator' = [creator EXCEPT ![c].pc = "stop"]
                /\ Settle({d}, DisplacedStatus(c)) \/ SetStatus(d, DisplacedStatus(c))
    BY <1>8 DEF DisplaceRow, NextDisplaced
  <2>3. CASE ~Exists(d)
    <3>1. ~Uncancelled
      BY <2>2, <2>3 DEF Exists, Listed, Busy
    <3> QED BY <1>3, <1>9, <3>1 DEF Busy
  <2>4. CASE /\ creator' = [creator EXCEPT ![c].pc = "stop"]
             /\ Settle({d}, DisplacedStatus(c)) \/ SetStatus(d, DisplacedStatus(c))
    <3>1. creator'[c].pc = "stop"
      BY <1>1, <2>4 DEF Creation
    <3>2. Alive'
      BY <2>1, <3>1 DEF Alive, Replacing
    <3>3. DisplacedStatus(c) # "deleted"
      BY DEF DisplacedStatus
    <3>4. \A s \in Runs : row'[s] # "deleted" \/ row'[s] = row[s]
      BY <1>1, <2>4, <3>3 DEF Settle, SetStatus
    <3> HIDE DEF Alive
    <3> QED BY <1>3, <1>9, <2>1, <3>2, <3>4, BusyAlive
  <2> QED BY <2>2, <2>3, <2>4
<1> QED BY <1>4, <1>5, <1>6, <1>7, <1>8 DEF CreateStep

(* Requests to cancel are outside of what Busy speaks of.                    *)
LEMMA Cancel_Busy ==
  ASSUME TypeOK, TypeOK', Undone, NEW r \in Runs,
         CancelStep(r) \/ \E i \in Instances : \E m \in CancelModes : CancelRead(r, i, m)
  PROVE  Undone' /\ Busy'
<1>1. UNCHANGED <<deleter, plan>>
  BY DEF store, CancelStep, CancelBase, CancelWrite, CancelIdle, CancelAbort, CancelClaimed, CancelRead
<1>2. canceller'[r].pc # "none"
  <2>1. CASE CancelBase(r) \/ \E i \in Instances : \E m \in CancelModes : CancelRead(r, i, m)
    BY <2>1, Shapes DEF CancelBase, CancelRead, Cancellation
  <2>2. CASE CancelWrite(r) \/ CancelIdle(r) \/ CancelAbort(r) \/ CancelClaimed(r)
    <3>1. PICK pc \in {"lost", "idle", "abort", "waiting", "done"} : CancelGoto(r, pc)
      BY <2>2 DEF CancelWrite, CancelIdle, CancelAbort, CancelClaimed
    <3> QED BY <3>1, CancelGotoMoves
  <2> QED BY <2>1, <2>2 DEF CancelStep
<1> QED BY <1>1, <1>2 DEF Undone, Busy, Uncancelled

LEMMA Acquire_Busy ==
  ASSUME TypeOK, Core, Undone, Busy, NEW i \in Instances, Acquire(i) PROVE Undone' /\ Busy'
<1>1. PICK r \in Runs :
        \/ /\ exec[r].pc = "waiting" /\ exec'[r].pc = "claimed" /\ UNCHANGED canceller
           /\ \A s \in Runs \ {r} : exec'[s] = exec[s]
        \/ /\ canceller[r].pc = "waiting" /\ canceller'[r].pc = "claimed" /\ UNCHANGED exec
           /\ \A s \in Runs \ {r} : canceller'[s] = canceller[s]
  BY Granted
<1>2. UNCHANGED <<row, thread, creator, deleter, plan>>
  BY DEF Acquire, store
<1>3. Uncancelled' => Uncancelled
  BY <1>1 DEF Uncancelled
<1>4. \A s \in Runs : Quiet(s) /\ (Replacing(s) => Replacing(s)')
  BY <1>1, <1>2 DEF Quiet, BusySteps, Replacing
<1>5. Busy'
  BY <1>2, <1>3, <1>4, BusyKept
<1> QED BY <1>2, <1>5 DEF Undone

LEMMA NextBusy ==
  ASSUME Calm, IInv, IInv', Core, Undone, Listed, Busy, [Next]_vars PROVE Undone' /\ Busy'
<1> USE DEF IInv
<1>1. ASSUME NEW r \in Runs, EngineStep(r) PROVE Undone' /\ Busy'
  <2>1. CASE Close(r)
    BY <2>1, Signal_Busy
  <2>2. CASE ~Close(r)
    <3>1. UNCHANGED <<deleter, plan>>
      BY <1>1, <2>2 DEF EngineStep, StartInline, Enqueue, Pull, Reread, ApplyPlan, Check,
         MarkRunning, MirrorBusy, RecordBase, GraphWrite, GraphReturn, GraphThrow, FinalizeRead,
         FinalizeWrite, FinalizeWithDelivery, SettleNative, Mirror, Rest, store
    <3>2. Busy'
      BY <1>1, <2>2, Reach_Busy, Start_Busy, Graph_Busy, SettleNative_Busy, Finalize_Busy,
         Mirror_Busy DEF EngineStep
    <3> QED BY <3>1, <3>2 DEF Undone
  <2> QED BY <2>1, <2>2
<1>2. ASSUME NEW r \in Runs,
             \/ PersistBase(r) \/ Timeout(r) \/ Observe(r) \/ DeleteRow(r)
             \/ (\E why \in Reasons : DeliverAbort(r, why))
             \/ (\E i \in Instances : DeleteAbort(r, i))
      PROVE  Undone' /\ Busy'
  BY <1>2, Signal_Busy
<1>3. ASSUME NEW c \in Runs,
             \/ CreateStep(c)
             \/ \E i \in Instances : CreateIfIdle(c, i) \/ \E s \in Strategies : ListActive(c, i, s)
      PROVE  Undone' /\ Busy'
  BY <1>3, Create_Busy
<1>4. ASSUME NEW r \in Runs,
             CancelStep(r) \/ \E i \in Instances : \E m \in CancelModes : CancelRead(r, i, m)
      PROVE  Undone' /\ Busy'
  BY <1>4, Cancel_Busy
<1>5. ASSUME NEW i \in Instances, Acquire(i) PROVE Undone' /\ Busy'
  BY <1>5, Acquire_Busy
<1>6. ASSUME NEW i \in Instances, Crash(i) PROVE Undone' /\ Busy'
  <2>1. crashes \in 0..0 /\ crashes < 0
    BY <1>6 DEF Calm, Crash, TypeOK, TypeThread
  <2> QED BY <2>1
<1>7. CASE UNCHANGED vars
  <2>1. UNCHANGED <<row, thread, exec, creator, canceller, deleter, plan>>
    BY <1>7 DEF vars, store
  <2>2. /\ Uncancelled' => Uncancelled
        /\ \A s \in Runs : Quiet(s) /\ (Replacing(s) => Replacing(s)')
    BY <2>1 DEF Uncancelled, Quiet, Replacing
  <2> QED BY <2>1, <2>2, BusyKept DEF Undone
<1> QED BY <1>1, <1>2, <1>3, <1>4, <1>5, <1>6, <1>7 DEF Next

(* A thread whose runs are over is not left busy: the last execution writes  *)
(* a status of its own although displacements settle rows at every step      *)
(* between its settlement and its mirror.                                    *)
THEOREM NotLeftBusy == ASSUME Calm PROVE Spec => []NotBusyAtRest
<1>1. Init => Undone /\ Listed /\ Busy
  <2> SUFFICES ASSUME Init PROVE Undone /\ Listed /\ Busy
    OBVIOUS
  <2>1. /\ \A r \in Runs : /\ deleter[r] = "none" /\ row[r] = "absent" /\ exec[r] = NoExecution
                          /\ plan[r] = NoPlan /\ creator[r] = NoCreation
        /\ thread = "idle"
    BY DEF Init
  <2>2. NoPlan.rows = {} /\ NoCreation.todo = {}
    BY DEF NoPlan, NoCreation
  <2> QED BY <2>1, <2>2, Nothing DEF Undone, Listed, Busy, BusySteps
<1>2. IInv /\ Core /\ IInv' /\ Undone /\ Listed /\ Busy /\ [Next]_vars => (Undone /\ Listed /\ Busy)'
  BY NextBusy, NextListed
<1>3. Busy => NotBusyAtRest
  BY DEF Busy, NotBusyAtRest, IdleAtRest, Resting, Uncancelled, WillMirror, Alive, Replacing
<1> QED BY <1>1, <1>2, <1>3, SettlementInvariant, PTL DEF Spec


-----------------------------------------------------------------------------
(* What rollbacks discard, and what they leave.                              *)

(* An execution is through with the graph; it has come to it.                *)
Through == {"done"} \cup Late
Past == {"graph"} \cup Through

Wrote(r) == \E k \in 1..Len(hist) : hist[k] = r
Distinct == \A j, k \in 1..Len(hist) : hist[j] = hist[k] => j = k

(* What r wrote comes after its base b; what it has still to write would.    *)
After(r, b) == \A k \in 1..Len(hist) :
  hist[k] = r => b = "empty" \/ \E j \in 1..k - 1 : hist[j] = b
Marks(r, b) == After(r, b) /\ (exec[r].pc = "graph" /\ ~Wrote(r) => b = Tip)

(* Whoever knows a base of r knows where r's writes begin: its note, its row,  *)
(* its canceller.                                                            *)
Known(r, b) == b # "none" => exec[r].pc \in Past /\ Marks(r, b)
KnownTo(r) == Known(r, exec[r].note) /\ Known(r, stored[r]) /\ Known(r, canceller[r].base)
Unwritten == \A r \in Runs : Wrote(r) => exec[r].pc \in Past
History == Distinct /\ Unwritten /\ \A r \in Runs : KnownTo(r)

(* What s wrote is no later than b.                                          *)
Covers(s, b) == \A k \in 1..Len(hist) :
  hist[k] = s => b # "empty" /\ \A m \in 1..Len(hist) : hist[m] = b => k <= m

(* A run's execution does not go back behind its base, and nobody learns of  *)
(* one that was not known.                                                   *)
Goes(r) == /\ exec[r].pc \in Past => exec'[r].pc \in Past
           /\ exec'[r].pc = "graph" => exec[r].pc = "graph"
Tells(r) == /\ exec'[r].note \in {exec[r].note, "none"}
            /\ stored'[r] \in {stored[r], exec[r].note}
            /\ canceller'[r].base \in {canceller[r].base, exec[r].note, stored[r], "none"}

Learns(r) == exec[r].pc = "base" /\ exec'[r].note = Tip /\ UNCHANGED <<hist, stored, canceller>>

(* What is known stays so, and only the graph writes.                        *)
Faithful ==
  /\ \A r \in Runs : \A b : Known(r, b) => Known(r, b)'
  /\ \A r \in Runs : Wrote(r)' => Wrote(r) \/ exec[r].pc = "graph"
  /\ \A r \in Runs : exec[r].pc \in Through => exec'[r].pc \in Through
  /\ \A r \in Runs : \A b : exec[r].pc # "graph" /\ Covers(r, b) => Covers(r, b)'
  /\ \A r \in Runs : Tells(r) \/ Learns(r)

LEMMA HistTyped ==
  ASSUME TypeOK
  PROVE  /\ hist \in Seq(Runs) /\ Len(hist) \in Nat
         /\ \A k \in 1..Len(hist) : hist[k] \in Runs
         /\ \A r : Wrote(r) <=> r \in ToSet(hist)
<1>1. hist \in Seq(Runs)
  BY DEF TypeOK, TypeThread
<1>2. DOMAIN hist = 1..Len(hist)
  BY <1>1
<1>3. \A r : Wrote(r) <=> r \in ToSet(hist)
  BY <1>2 DEF Wrote, ToSet
<1> QED BY <1>1, <1>3

LEMMA HistoryKept ==
  ASSUME History, UNCHANGED hist, \A r \in Runs : Goes(r) /\ Tells(r)
  PROVE  History' /\ Faithful
<1>1. /\ \A r : Wrote(r)' <=> Wrote(r)
      /\ \A r, b : After(r, b)' <=> After(r, b)
      /\ \A r, b : Covers(r, b)' <=> Covers(r, b)
      /\ Tip' = Tip /\ Distinct'
  BY DEF Wrote, After, Covers, Tip, Distinct, History
<1>2. Unwritten'
  BY <1>1 DEF Unwritten, History, Goes
<1>3. ASSUME NEW r \in Runs, NEW b, Known(r, b) PROVE Known(r, b)'
  BY <1>1, <1>3 DEF Known, Marks, Goes
<1>4. \A r \in Runs : KnownTo(r)'
  BY <1>3 DEF KnownTo, Tells, History, Known
<1> QED BY <1>1, <1>2, <1>3, <1>4 DEF History, Faithful, Goes, Past, Through, Late

(* The first n checkpoints are kept.                                         *)
Kept(h, n) == /\ h \in Seq(Runs) /\ n \in 0..Len(hist) /\ Len(h) = n
              /\ \A k \in 1..n : h[k] = hist[k]

LEMMA RevertedKeeps ==
  ASSUME TypeOK, NEW b, b \in Recorded
  PROVE  \E n \in 0..Len(hist) : 
           /\ Kept(RevertedTo(b), n)
           /\ b = "empty" => n = 0
           /\ b # "empty" /\ (\A k \in 1..Len(hist) : hist[k] # b) => n = Len(hist)
           /\ b # "empty" /\ (\E k \in 1..Len(hist) : hist[k] = b) => n > 0 /\ hist[n] = b
<1>1. hist \in Seq(Runs) /\ Len(hist) \in Nat /\ DOMAIN hist = 1..Len(hist)
  BY HistTyped
<1>2. CASE b = "empty"
  BY <1>1, <1>2 DEF RevertedTo, Kept
<1>3. CASE b # "empty" /\ \A k \in 1..Len(hist) : hist[k] # b
  <2>1. RevertedTo(b) = hist
    BY <1>1, <1>3 DEF RevertedTo
  <2>2. Kept(hist, Len(hist))
    BY <1>1 DEF Kept
  <2>3. Len(hist) \in 0..Len(hist)
    BY <1>1
  <2>4. ~(\E k \in 1..Len(hist) : hist[k] = b) /\ b # "empty"
    BY <1>3
  <2>5. Kept(RevertedTo(b), Len(hist))
    BY <2>1, <2>2
  <2> HIDE DEF Kept
  <2> WITNESS Len(hist) \in 0..Len(hist)
  <2> QED BY <2>4, <2>5
<1>4. CASE b # "empty" /\ \E k \in 1..Len(hist) : hist[k] = b
  <2> DEFINE m == CHOOSE k \in 1..Len(hist) : hist[k] = b
  <2>1. m \in 1..Len(hist) /\ hist[m] = b
    BY <1>4
  <2>2. RevertedTo(b) = SubSeq(hist, 1, m)
    BY <1>1, <1>4 DEF RevertedTo
  <2> HIDE DEF m
  <2>3. Kept(RevertedTo(b), m)
    BY <1>1, <2>1, <2>2 DEF Kept
  <2>4. m \in 0..Len(hist) /\ m > 0
    BY <1>1, <2>1
  <2>5. ~(\A k \in 1..Len(hist) : hist[k] # b)
    BY <1>4
  <2> QED BY <1>4, <2>1, <2>3, <2>4, <2>5
<1> QED BY <1>2, <1>3, <1>4

(* A rollback to a base of r leaves nothing of r.                            *)
LEMMA RevertedDrops ==
  ASSUME TypeOK, Distinct, NEW r \in Runs, NEW b \in Bases, After(r, b), hist' = RevertedTo(b)
  PROVE  ~Wrote(r)'
<1>1. PICK n \in 0..Len(hist) :
           /\ Kept(hist', n)
           /\ b = "empty" => n = 0
           /\ b # "empty" /\ (\A k \in 1..Len(hist) : hist[k] # b) => n = Len(hist)
           /\ b # "empty" /\ (\E k \in 1..Len(hist) : hist[k] = b) => n > 0 /\ hist[n] = b
  BY RevertedKeeps DEF Recorded
<1> SUFFICES ASSUME NEW k \in 1..n, hist[k] = r PROVE FALSE
  BY <1>1 DEF Wrote, Kept
<1>2. Len(hist) \in Nat /\ k \in 1..Len(hist)
  BY <1>1, HistTyped
<1>3. b # "empty"
  BY <1>1
<1>4. PICK j \in 1..k - 1 : hist[j] = b
  BY <1>2, <1>3 DEF After
<1>5. j \in 1..Len(hist) /\ n \in 1..Len(hist) /\ hist[n] = b
  BY <1>1, <1>2, <1>3, <1>4
<1>6. j = n
  BY <1>4, <1>5 DEF Distinct
<1> QED BY <1>1, <1>2, <1>4, <1>6

(* A rollback, while nobody is in the graph.                                 *)
LEMMA HistoryCut ==
  ASSUME TypeOK, History, NEW n \in 0..Len(hist), Kept(hist', n),
         \A r \in Runs : Goes(r) /\ Tells(r) /\ exec[r].pc # "graph"
  PROVE  History' /\ Faithful
<1>1. Len(hist) \in Nat /\ n \in Nat /\ n <= Len(hist) /\ Len(hist') = n
  BY HistTyped DEF Kept
<1>2. \A k \in 1..n : hist'[k] = hist[k] /\ k \in 1..Len(hist)
  BY <1>1 DEF Kept
<1>3. \A r : Wrote(r)' => Wrote(r)
  BY <1>1, <1>2 DEF Wrote
<1>4. ASSUME NEW r, NEW b, After(r, b) PROVE After(r, b)'
  <2> SUFFICES ASSUME NEW k \in 1..n, hist[k] = r, b # "empty"
               PROVE  \E j \in 1..k - 1 : hist'[j] = b
    BY <1>1, <1>2 DEF After
  <2>1. PICK j \in 1..k - 1 : hist[j] = b
    BY <1>2, <1>4 DEF After
  <2>2. j \in 1..n
    BY <1>1, <2>1
  <2> QED BY <1>2, <2>1, <2>2
<1>5. Distinct'
  BY <1>1, <1>2 DEF Distinct, History
<1>6. Unwritten'
  BY <1>3 DEF Unwritten, History, Goes
<1>7. ASSUME NEW r \in Runs, NEW b, Known(r, b) PROVE Known(r, b)'
  <2>1. exec'[r].pc # "graph"
    BY DEF Goes
  <2> QED BY <1>4, <1>7, <2>1 DEF Known, Marks, Goes
<1>8. \A r \in Runs : KnownTo(r)'
  BY <1>7 DEF KnownTo, Tells, History, Known
<1>9. ASSUME NEW r, NEW b, Covers(r, b) PROVE Covers(r, b)'
  <2> SUFFICES ASSUME NEW k \in 1..n, hist[k] = r
               PROVE  b # "empty" /\ \A m \in 1..n : hist[m] = b => k <= m
    BY <1>1, <1>2 DEF Covers
  <2> QED BY <1>2, <1>9 DEF Covers
<1> QED BY <1>3, <1>5, <1>6, <1>7, <1>8, <1>9 DEF History, Faithful, Goes, Past, Through, Late

(* The graph's checkpoint.                                                   *)
LEMMA GraphWrite_History ==
  ASSUME IInv, History, NEW r \in Runs, GraphWrite(r)
  PROVE  History' /\ Faithful
<1> USE DEF IInv
<1>1. /\ hist \in Seq(Runs) /\ Len(hist) \in Nat
      /\ \A k \in 1..Len(hist) : hist[k] \in Runs
      /\ \A s : Wrote(s) <=> s \in ToSet(hist)
  BY HistTyped
<1>2. /\ exec[r].pc = "graph" /\ ~Wrote(r) /\ hist' = Append(hist, r)
      /\ UNCHANGED <<exec, stored, canceller>>
  BY <1>1 DEF GraphWrite, store, Rest
<1>3. /\ Len(hist') = Len(hist) + 1 /\ hist'[Len(hist) + 1] = r
      /\ \A k \in 1..Len(hist) : hist'[k] = hist[k]
  BY <1>1, <1>2
<1>4. \A s \in Runs \ {r} : exec[s].pc # "graph"
  BY <1>2 DEF Claimed, Holding, EngineSteps
<1>5. \A k \in 1..Len(hist') : k \in 1..Len(hist) \/ k = Len(hist) + 1
  BY <1>1, <1>3
<1>6. \A s \in Runs : (Wrote(s)' => Wrote(s) \/ s = r) /\ (s # r => (Wrote(s) => Wrote(s)'))
  BY <1>1, <1>3, <1>5 DEF Wrote
<1>7. Distinct'
  <2>1. \A k \in 1..Len(hist) : hist[k] # r
    BY <1>2 DEF Wrote
  <2> QED BY <1>3, <1>5, <2>1 DEF Distinct, History
<1>8. Unwritten'
  BY <1>2, <1>6 DEF Unwritten, History, Past
<1>9. ASSUME NEW s \in Runs \ {r}, NEW b, Known(s, b) PROVE Known(s, b)'
  <2>1. After(s, b) => After(s, b)'
    <3> SUFFICES ASSUME After(s, b), NEW k \in 1..Len(hist'), hist'[k] = s, b # "empty"
                 PROVE  \E j \in 1..k - 1 : hist'[j] = b
      BY DEF After
    <3>1. k \in 1..Len(hist) /\ hist[k] = s
      BY <1>3, <1>5
    <3>2. PICK j \in 1..k - 1 : hist[j] = b
      BY <3>1 DEF After
    <3>3. j \in 1..Len(hist)
      BY <1>1, <3>1, <3>2
    <3> QED BY <1>3, <3>2, <3>3
  <2> QED BY <1>2, <1>4, <1>9, <2>1 DEF Known, Marks
<1>10. ASSUME NEW b, Known(r, b) PROVE Known(r, b)'
  <2> SUFFICES ASSUME b # "none" PROVE After(r, b)' /\ Wrote(r)'
    BY <1>2 DEF Known, Marks, Past
  <2>1. b = Tip
    BY <1>2, <1>10 DEF Known, Marks
  <2>2. Wrote(r)'
    BY <1>1, <1>3 DEF Wrote
  <2>3. ASSUME NEW k \in 1..Len(hist'), hist'[k] = r, b # "empty"
        PROVE  \E j \in 1..k - 1 : hist'[j] = b
    <3>1. k = Len(hist) + 1
      BY <1>2, <1>3, <1>5, <2>3 DEF Wrote
    <3>2. hist # <<>> /\ b = hist[Len(hist)] /\ Len(hist) > 0
      BY <1>1, <2>1, <2>3 DEF Tip, Last
    <3>3. Len(hist) \in 1..k - 1 /\ Len(hist) \in 1..Len(hist)
      BY <1>1, <3>1, <3>2
    <3> QED BY <1>3, <3>2, <3>3
  <2> QED BY <2>2, <2>3 DEF After
<1>11. ASSUME NEW s \in Runs PROVE KnownTo(s)'
  <2>1. KnownTo(s)
    BY DEF History
  <2> QED BY <1>2, <1>9, <1>10, <2>1 DEF KnownTo
<1>12. ASSUME NEW s \in Runs, NEW b, s # r, Covers(s, b) PROVE Covers(s, b)'
  <2> SUFFICES ASSUME NEW k \in 1..Len(hist'), hist'[k] = s
               PROVE  b # "empty" /\ \A m \in 1..Len(hist') : hist'[m] = b => k <= m
    BY DEF Covers
  <2>1. k \in 1..Len(hist) /\ hist[k] = s
    BY <1>3, <1>5, <1>12
  <2>2. b # "empty" /\ \A m \in 1..Len(hist) : hist[m] = b => k <= m
    BY <1>12, <2>1 DEF Covers
  <2>3. k <= Len(hist) + 1
    BY <1>1, <2>1
  <2> QED BY <1>3, <1>5, <2>2, <2>3
<1>13. Faithful
  BY <1>2, <1>6, <1>9, <1>10, <1>12 DEF Faithful, Tells
<1> QED BY <1>7, <1>8, <1>11, <1>13 DEF History

(* The base is the tip as long as nothing is written.                        *)
LEMMA RecordBase_History ==
  ASSUME IInv, History, NEW r \in Runs, RecordBase(r) PROVE History' /\ Faithful
<1> USE DEF IInv
<1>1. exec \in [Runs -> Execution]
  BY Shapes
<1>2. /\ exec[r].pc = "base" /\ exec'[r].pc = "graph" /\ exec'[r].note = Tip
      /\ \A s \in Runs \ {r} : exec'[s] = exec[s]
      /\ UNCHANGED <<hist, stored, canceller>>
  BY <1>1 DEF RecordBase, store, Rest, Execution
<1>3. /\ \A s : Wrote(s)' <=> Wrote(s)
      /\ \A s, b : After(s, b)' <=> After(s, b)
      /\ \A s, b : Covers(s, b)' <=> Covers(s, b)
      /\ Tip' = Tip /\ Distinct'
  BY <1>2 DEF Wrote, After, Covers, Tip, Distinct, History
<1>4. "base" \notin Past /\ "graph" \in Past
  BY DEF Past, Through, Late
<1>5. Unwritten'
  BY <1>2, <1>3, <1>4 DEF Unwritten, History
<1>8. ASSUME NEW s \in Runs \ {r}, NEW b, Known(s, b) PROVE Known(s, b)'
  BY <1>2, <1>3, <1>8 DEF Known, Marks
<1>6. ASSUME NEW s \in Runs \ {r} PROVE KnownTo(s)'
  <2>1. KnownTo(s)
    BY DEF History
  <2> QED BY <1>2, <1>8, <2>1 DEF KnownTo
<1>9. ASSUME NEW b, Known(r, b) PROVE Known(r, b)'
  BY <1>2, <1>4, <1>9 DEF Known
<1>7. KnownTo(r)'
  <2>1. stored[r] = "none" /\ canceller[r].base = "none"
    BY <1>2, <1>4 DEF History, KnownTo, Known
  <2>2. ~Wrote(r)
    BY <1>2, <1>4 DEF History, Unwritten
  <2>3. After(r, Tip)
    BY <2>2 DEF After, Wrote
  <2> QED BY <1>2, <1>3, <1>4, <2>1, <2>2, <2>3 DEF KnownTo, Known, Marks
<1>10. Faithful
  BY <1>2, <1>3, <1>4, <1>8, <1>9 DEF Faithful, Past, Tells, Learns
<1> QED BY <1>3, <1>5, <1>6, <1>7, <1>10 DEF History

(* All other steps of an execution.                                          *)
OnlyPasses(r) ==
  /\ \A s \in Runs \ {r} : exec'[s] = exec[s]
  /\ exec'[r].note \in {exec[r].note, "none"} /\ Goes(r)

LEMMA GotoPasses ==
  ASSUME TypeOK, NEW r \in Runs, NEW pc, Goto(r, pc), pc # "graph", exec[r].pc \in Past => pc \in Past
  PROVE  OnlyPasses(r)
<1>1. exec'[r].pc = pc /\ exec'[r].note = exec[r].note /\ \A s \in Runs \ {r} : exec'[s] = exec[s]
  BY Shapes DEF Goto, Execution
<1> QED BY <1>1 DEF OnlyPasses, Goes

LEMMA ThrowPasses ==
  ASSUME TypeOK, NEW r \in Runs, Throw(r)
  PROVE  OnlyPasses(r)
<1>1. exec \in [Runs -> Execution]
  BY Shapes
<1>2. \/ exec'[r] = Caught(exec[r])
      \/ exec'[r] = [exec[r] EXCEPT !.pc = "close"]
  BY <1>1 DEF Throw
<1>3. \A s \in Runs \ {r} : exec'[s] = exec[s]
  BY <1>1 DEF Throw
<1>4. exec'[r].pc \in {"settle", "close"} /\ exec'[r].note = exec[r].note
  BY <1>1, <1>2 DEF Caught, Execution
<1> QED BY <1>3, <1>4 DEF OnlyPasses, Goes, Past, Through, Late

LEMMA ReachPasses ==
  ASSUME TypeOK, NEW r \in Runs,
         \/ StartInline(r) \/ Enqueue(r) \/ (\E i \in Instances : Pull(r, i)) \/ Reread(r)
         \/ ApplyPlan(r) \/ Check(r) \/ MarkRunning(r) \/ MirrorBusy(r)
  PROVE  OnlyPasses(r) /\ UNCHANGED <<stored, canceller>>
<1>1. exec \in [Runs -> Execution]
  BY Shapes
<1>2. UNCHANGED <<stored, canceller>>
  BY DEF StartInline, Enqueue, Pull, Reread, ApplyPlan, Check, MarkRunning, MirrorBusy, store, Rest
<1>3. {"prepared", "queued", "claimed", "revert", "check", "set", "busy"} \cap Past = {}
  BY DEF Past, Through, Late
<1>4. CASE \/ StartInline(r) \/ ApplyPlan(r) \/ Check(r) \/ MirrorBusy(r)
  <2>1. \E pc \in {"waiting", "check", "close", "set", "base"} : Goto(r, pc)
    BY <1>4 DEF StartInline, ApplyPlan, Check, MirrorBusy
  <2>2. exec[r].pc \notin Past
    BY <1>3, <1>4 DEF StartInline, ApplyPlan, Check, MirrorBusy
  <2> QED BY <1>2, <2>1, <2>2, GotoPasses
<1>5. CASE Enqueue(r)
  <2>1. exec[r].pc = "prepared" /\ exec'[r].pc = "queued" /\ exec'[r].note = exec[r].note
        /\ \A s \in Runs \ {r} : exec'[s] = exec[s]
    BY <1>1, <1>5 DEF Enqueue, Execution
  <2> QED BY <1>2, <1>3, <2>1 DEF OnlyPasses, Goes
<1>6. CASE \E i \in Instances : Pull(r, i)
  <2>1. PICK i \in Instances : Pull(r, i)
    BY <1>6
  <2>2. exec[r].pc = "queued"
    BY <2>1 DEF Pull
  <2>3. CASE Goto(r, "done")
    BY <1>2, <1>3, <2>2, <2>3, GotoPasses
  <2>4. CASE exec' = [exec EXCEPT ![r].pc = "claimed", ![r].at = i]
    <3>1. exec'[r].pc = "claimed" /\ exec'[r].note = exec[r].note
          /\ \A s \in Runs \ {r} : exec'[s] = exec[s]
      BY <1>1, <2>4 DEF Execution
    <3> QED BY <1>2, <1>3, <2>2, <3>1 DEF OnlyPasses, Goes
  <2> QED BY <2>1, <2>3, <2>4 DEF Pull
<1>7. CASE Reread(r)
  <2>1. exec[r].pc = "claimed"
    BY <1>7 DEF Reread
  <2>2. CASE exec' = [exec EXCEPT ![r] = [NoExecution EXCEPT !.pc = "done"]]
    <3>1. exec'[r].pc = "done" /\ exec'[r].note = "none" /\ \A s \in Runs \ {r} : exec'[s] = exec[s]
      BY <1>1, <2>2 DEF NoExecution
    <3> QED BY <1>2, <1>3, <2>1, <3>1 DEF OnlyPasses, Goes
  <2>3. CASE \E pc \in {"revert", "check"} : Goto(r, pc)
    BY <1>2, <1>3, <2>1, <2>3, GotoPasses
  <2> QED BY <1>7, <2>2, <2>3 DEF Reread
<1>8. CASE MarkRunning(r)
  <2>1. exec[r].pc = "set"
    BY <1>8 DEF MarkRunning
  <2>2. CASE Throw(r)
    BY <1>2, <2>2, ThrowPasses
  <2>3. CASE Goto(r, "close")
    BY <1>2, <1>3, <2>1, <2>3, GotoPasses
  <2>4. CASE exec' = [exec EXCEPT ![r].pc = "busy", ![r].started = TRUE]
    <3>1. exec'[r].pc = "busy" /\ exec'[r].note = exec[r].note
          /\ \A s \in Runs \ {r} : exec'[s] = exec[s]
      BY <1>1, <2>4 DEF Execution
    <3> QED BY <1>2, <1>3, <2>1, <3>1 DEF OnlyPasses, Goes
  <2> QED BY <1>8, <2>2, <2>3, <2>4 DEF MarkRunning
<1> QED BY <1>4, <1>5, <1>6, <1>7, <1>8

LEMMA SettlePasses ==
  ASSUME TypeOK, NEW r \in Runs,
         \/ GraphReturn(r) \/ GraphThrow(r) \/ FinalizeRead(r) \/ FinalizeWrite(r)
         \/ FinalizeWithDelivery(r) \/ SettleNative(r) \/ Mirror(r) \/ Close(r)
  PROVE  OnlyPasses(r) /\ UNCHANGED <<stored, canceller>>
<1>1. exec \in [Runs -> Execution]
  BY Shapes
<1>2. UNCHANGED <<stored, canceller>>
  BY DEF GraphReturn, GraphThrow, FinalizeRead, FinalizeWrite, FinalizeWithDelivery, SettleNative,
     Mirror, Close, store, Rest
<1>3. {"settle", "write", "mirror", "close", "done"} \subseteq Past \ {"graph"}
  BY DEF Past, Through, Late
<1>4. ASSUME exec'[r].pc \in Past \ {"graph"}, exec'[r].note \in {exec[r].note, "none"},
             \A s \in Runs \ {r} : exec'[s] = exec[s]
      PROVE  OnlyPasses(r)
  BY <1>4 DEF OnlyPasses, Goes
<1>5. CASE GraphReturn(r)
  <2> DEFINE m == IF exec[r].reason = "none" THEN "done" ELSE "stopped"
  <2>2. PICK final : exec' = [exec EXCEPT ![r].pc = "settle", ![r].out = final, ![r].mode = m]
    BY <1>5 DEF GraphReturn
  <2> HIDE DEF m
  <2>1. exec'[r].pc = "settle" /\ exec'[r].note = exec[r].note /\ \A s \in Runs \ {r} : exec'[s] = exec[s]
    BY <1>1, <2>2 DEF Execution
  <2> QED BY <1>2, <1>3, <1>4, <2>1
<1>6. CASE FinalizeRead(r)
  <2>1. exec'[r].pc \in {"write", "mirror"} /\ exec'[r].note = exec[r].note
        /\ \A s \in Runs \ {r} : exec'[s] = exec[s]
    BY <1>1, <1>6 DEF FinalizeRead, Execution
  <2> QED BY <1>2, <1>3, <1>4, <2>1
<1>7. CASE FinalizeWithDelivery(r)
  <2>1. exec'[r].pc = "mirror" /\ exec'[r].note = exec[r].note
        /\ \A s \in Runs \ {r} : exec'[s] = exec[s]
    BY <1>1, <1>7 DEF FinalizeWithDelivery, Execution
  <2> QED BY <1>2, <1>3, <1>4, <2>1
<1>8. CASE SettleNative(r)
  <2>1. PICK st : exec' = [exec EXCEPT ![r].pc = "mirror", ![r].eff = st]
    BY <1>8 DEF SettleNative
  <2>2. exec'[r].pc = "mirror" /\ exec'[r].note = exec[r].note
        /\ \A s \in Runs \ {r} : exec'[s] = exec[s]
    BY <1>1, <2>1 DEF Execution
  <2> QED BY <1>2, <1>3, <1>4, <2>2
<1>9. CASE Close(r)
  <2>1. exec'[r].pc = "done" /\ exec'[r].note = "none" /\ \A s \in Runs \ {r} : exec'[s] = exec[s]
    BY <1>1, <1>9 DEF Close, NoExecution
  <2> QED BY <1>2, <1>3, <1>4, <2>1
<1>10. CASE GraphThrow(r) \/ FinalizeWrite(r) \/ Mirror(r)
  <2>1. Throw(r) \/ Goto(r, "mirror") \/ Goto(r, "close")
    BY <1>10 DEF GraphThrow, FinalizeWrite, Mirror
  <2> QED BY <1>2, <1>3, <2>1, ThrowPasses, GotoPasses
<1> QED BY <1>5, <1>6, <1>7, <1>8, <1>9, <1>10

(* Steps that leave the history alone.                                       *)
LEMMA PassesKeep ==
  ASSUME History, UNCHANGED <<hist, stored, canceller>>, NEW r \in Runs, OnlyPasses(r)
  PROVE  History' /\ Faithful
<1>1. \A s \in Runs : Goes(s) /\ Tells(s)
  BY DEF OnlyPasses, Goes, Tells
<1> QED BY <1>1, HistoryKept

LEMMA StandingKeeps ==
  ASSUME History, UNCHANGED <<hist, stored, canceller>>,
         \A s \in Runs : exec'[s].pc = exec[s].pc /\ exec'[s].note = exec[s].note
  PROVE  History' /\ Faithful
BY HistoryKept DEF Goes, Tells

LEMMA AbortedNotes ==
  ASSUME TypeOK, NEW r \in Runs, NEW why, exec' \in {exec, Aborted(r, why)}
  PROVE  \A s \in Runs : exec'[s].pc = exec[s].pc /\ exec'[s].note = exec[s].note
<1>1. exec \in [Runs -> Execution]
  BY Shapes
<1>2. CASE exec' = [exec EXCEPT ![r].reason = why]
  BY <1>1, <1>2 DEF Execution
<1> QED BY <1>2 DEF Aborted

(* A rollback: its task holds the claim.                                     *)
LEMMA RollbackKeeps ==
  ASSUME TypeOK, History, NEW b \in Recorded, hist' \in {hist, RevertedTo(b)},
         \A s \in Runs : Goes(s) /\ Tells(s) /\ exec[s].pc # "graph"
  PROVE  History' /\ Faithful
<1>1. CASE UNCHANGED hist
  BY <1>1, HistoryKept
<1>2. CASE hist' = RevertedTo(b)
  <2>1. PICK n \in 0..Len(hist) : Kept(hist', n)
    BY <1>2, RevertedKeeps
  <2> QED BY <2>1, HistoryCut
<1> QED BY <1>1, <1>2

LEMMA Engine_History ==
  ASSUME IInv, History, NEW r \in Runs, EngineStep(r) PROVE History' /\ Faithful
<1> USE DEF IInv
<1>1. CASE GraphWrite(r)
  BY <1>1, GraphWrite_History
<1>2. CASE RecordBase(r)
  BY <1>2, RecordBase_History
<1>3. CASE ApplyPlan(r)
  <2>1. OnlyPasses(r) /\ UNCHANGED <<stored, canceller>>
    BY <1>3, ReachPasses
  <2>2. \A s \in Runs : Goes(s) /\ Tells(s)
    BY <2>1 DEF OnlyPasses, Goes, Tells
  <2>3. exec[r].pc = "revert" /\ hist' \in {hist, RevertedTo(plan[r].revert)}
    BY <1>3 DEF ApplyPlan
  <2>4. plan[r].revert \in Recorded
    BY Shapes
  <2>5. \A s \in Runs : exec[s].pc # "graph"
    BY <2>3 DEF Claimed, Holding, EngineSteps
  <2> QED BY <2>2, <2>3, <2>4, <2>5, RollbackKeeps
<1>4. CASE \/ StartInline(r) \/ Enqueue(r) \/ (\E i \in Instances : Pull(r, i)) \/ Reread(r)
           \/ Check(r) \/ MarkRunning(r) \/ MirrorBusy(r)
  <2>1. UNCHANGED hist
    BY <1>4 DEF StartInline, Enqueue, Pull, Reread, Check, MarkRunning, MirrorBusy
  <2> QED BY <1>4, <2>1, ReachPasses, PassesKeep
<1>5. CASE \/ GraphReturn(r) \/ GraphThrow(r) \/ FinalizeRead(r) \/ FinalizeWrite(r)
           \/ FinalizeWithDelivery(r) \/ SettleNative(r) \/ Mirror(r) \/ Close(r)
  <2>1. UNCHANGED hist
    BY <1>5 DEF GraphReturn, GraphThrow, FinalizeRead, FinalizeWrite, FinalizeWithDelivery,
       SettleNative, Mirror, Close
  <2> QED BY <1>5, <2>1, SettlePasses, PassesKeep
<1> QED BY <1>1, <1>2, <1>3, <1>4, <1>5 DEF EngineStep

LEMMA Signal_History ==
  ASSUME IInv, Core, History, NEW r \in Runs,
         \/ PersistBase(r) \/ Timeout(r) \/ Observe(r) \/ DeleteRow(r)
         \/ (\E why \in Reasons : DeliverAbort(r, why)) \/ (\E i \in Instances : DeleteAbort(r, i))
  PROVE  History' /\ Faithful
<1> USE DEF IInv
<1>1. UNCHANGED hist
  BY DEF PersistBase, Timeout, Observe, DeleteRow, DeliverAbort, DeleteAbort
<1>2. CASE PersistBase(r)
  <2>1. UNCHANGED <<exec, canceller>> /\ \A s \in Runs : stored'[s] \in {stored[s], exec[s].note}
    BY <1>2 DEF PersistBase, Rest
  <2>2. \A s \in Runs : Goes(s) /\ Tells(s)
    BY <2>1 DEF Goes, Tells
  <2> QED BY <1>1, <2>2, HistoryKept
<1>3. CASE DeleteRow(r)
  <2>1. UNCHANGED <<exec, stored, canceller>>
    BY <1>3 DEF DeleteRow
  <2> QED BY <1>1, <2>1, StandingKeeps
<1>4. CASE Timeout(r) \/ Observe(r) \/ \E why \in Reasons : DeliverAbort(r, why)
  <2>1. (\E why : exec' = Aborted(r, why)) /\ UNCHANGED <<stored, canceller>>
    BY <1>4 DEF Timeout, Observe, DeliverAbort, store, Rest
  <2> QED BY <1>1, <2>1, AbortedNotes, StandingKeeps
<1>5. CASE \E i \in Instances : DeleteAbort(r, i)
  <2>1. (\E why : exec' \in {exec, Aborted(r, why)}) /\ UNCHANGED <<stored, canceller>>
    BY <1>5 DEF DeleteAbort, Abort, store
  <2> QED BY <1>1, <2>1, AbortedNotes, StandingKeeps
<1> QED BY <1>2, <1>3, <1>4, <1>5

LEMMA Create_History ==
  ASSUME IInv, Core, History, NEW c \in Runs,
         \/ CreateStep(c)
         \/ \E i \in Instances : CreateIfIdle(c, i) \/ \E s \in Strategies : ListActive(c, i, s)
  PROVE  History' /\ Faithful
<1> USE DEF IInv
<1>1. UNCHANGED <<hist, stored, canceller>>
  BY DEF CreateStep, CreateIfIdle, ListActive, ReadBases, DisplaceRow, DisplaceStop, InsertRow,
     Admit, store
<1>2. exec \in [Runs -> Execution]
  BY Shapes
<1>3. ASSUME Creating(c), NEW i, Insert(c, i) PROVE History' /\ Faithful
  <2>1. exec[c] = NoExecution
    BY <1>3 DEF Core, Unborn
  <2>2. exec[c].pc = "none"
    BY <2>1, Nothing
  <2>3. exec'[c].pc = "prepared" /\ exec'[c].note = "none" /\ \A s \in Runs \ {c} : exec'[s] = exec[s]
    BY <1>2, <1>3 DEF Insert, NoExecution
  <2>4. OnlyPasses(c)
    BY <2>2, <2>3 DEF OnlyPasses, Goes, Past, Through, Late
  <2> QED BY <1>1, <2>4, PassesKeep
<1>4. CASE UNCHANGED exec
  BY <1>1, <1>4, StandingKeeps
<1>5. CASE DisplaceStop(c)
  <2>1. PICK d \in Runs : Abort(d, creator[c].by, creator[c].at)
    BY <1>5 DEF DisplaceStop
  <2>2. exec' \in {exec, Aborted(d, creator[c].by)}
    BY <2>1 DEF Abort
  <2> QED BY <1>1, <2>2, AbortedNotes, StandingKeeps
<1>6. CASE InsertRow(c) \/ Admit(c) \/ \E i \in Instances : CreateIfIdle(c, i)
  <2>1. Creating(c)
    BY <1>6 DEF InsertRow, Admit, CreateIfIdle, CreatorAt, Creating
  <2>2. (UNCHANGED exec) \/ \E i : Insert(c, i)
    BY <1>6 DEF InsertRow, Admit, CreateIfIdle
  <2> QED BY <1>3, <1>4, <2>1, <2>2
<1>7. CASE ReadBases(c) \/ DisplaceRow(c) \/ \E i \in Instances, s \in Strategies : ListActive(c, i, s)
  BY <1>4, <1>7 DEF ReadBases, DisplaceRow, ListActive
<1> QED BY <1>5, <1>6, <1>7 DEF CreateStep

(* A cancel keeps the base it read.                                          *)
LEMMA Cancel_History ==
  ASSUME IInv, Core, History, NEW r \in Runs,
         CancelStep(r) \/ \E i \in Instances, m \in CancelModes : CancelRead(r, i, m)
  PROVE  History' /\ Faithful
<1> USE DEF IInv
<1>1. canceller \in [Runs -> Cancellation] /\ exec \in [Runs -> Execution]
  BY Shapes
<1>2. ASSUME NEW pc, CancelGoto(r, pc) PROVE \A s \in Runs : canceller'[s].base = canceller[s].base
  BY <1>1, <1>2 DEF CancelGoto, Cancellation
<1>3. UNCHANGED stored
  BY DEF CancelStep, CancelBase, CancelWrite, CancelIdle, CancelAbort, CancelClaimed, CancelRead, store
<1>4. ASSUME \A s \in Runs : exec'[s].pc = exec[s].pc /\ exec'[s].note = exec[s].note,
             \A s \in Runs : canceller'[s].base \in {canceller[s].base, exec[s].note, stored[s], "none"}
      PROVE  \A s \in Runs : Goes(s) /\ Tells(s)
  BY <1>3, <1>4 DEF Goes, Tells
<1>5. CASE \E i \in Instances, m \in CancelModes : CancelRead(r, i, m)
  <2>1. UNCHANGED <<exec, hist>> /\ \A s \in Runs : canceller'[s].base \in {canceller[s].base, "none"}
    BY <1>1, <1>5 DEF CancelRead
  <2> QED BY <1>4, <2>1, HistoryKept
<1>6. CASE CancelBase(r)
  <2> DEFINE b == ReadBase(r, canceller[r].at)
  <2>1. canceller' = [canceller EXCEPT ![r].pc = "write", ![r].base = b] /\ UNCHANGED <<exec, hist>>
    BY <1>6 DEF CancelBase
  <2>2. b \in {exec[r].note, stored[r], "none"}
    BY DEF ReadBase
  <2> HIDE DEF b
  <2>3. \A s \in Runs : canceller'[s].base = IF s = r THEN b ELSE canceller[s].base
    BY <1>1, <2>1 DEF Cancellation
  <2> QED BY <1>4, <2>1, <2>2, <2>3, HistoryKept
<1>7. CASE CancelWrite(r) \/ CancelIdle(r)
  <2>1. UNCHANGED <<exec, hist>> /\ \E pc : CancelGoto(r, pc)
    BY <1>7 DEF CancelWrite, CancelIdle
  <2> QED BY <1>2, <1>4, <2>1, HistoryKept
<1>8. CASE CancelAbort(r)
  <2>1. /\ UNCHANGED hist /\ \E pc : CancelGoto(r, pc)
        /\ \E why : exec' \in {exec, Aborted(r, why)}
    BY <1>8 DEF CancelAbort, Abort
  <2>2. \A s \in Runs : exec'[s].pc = exec[s].pc /\ exec'[s].note = exec[s].note
    BY <2>1, AbortedNotes
  <2> QED BY <1>2, <1>4, <2>1, <2>2, HistoryKept
<1>9. CASE CancelClaimed(r)
  <2>1. /\ canceller[r].pc = "claimed" /\ UNCHANGED exec /\ CancelGoto(r, "done")
        /\ hist' \in {hist, RevertedTo(canceller[r].base)}
    BY <1>9 DEF CancelClaimed, CancelAt
  <2>2. canceller[r].base \in Recorded
    BY <1>1 DEF Cancellation
  <2>3. \A s \in Runs : exec[s].pc # "graph"
    BY <2>1 DEF Claimed, Holding, EngineSteps
  <2>4. \A s \in Runs : Goes(s) /\ Tells(s)
    BY <1>2, <1>4, <2>1
  <2> QED BY <2>1, <2>2, <2>3, <2>4, RollbackKeeps
<1> QED BY <1>5, <1>6, <1>7, <1>8, <1>9 DEF CancelStep

LEMMA NextHistory ==
  ASSUME MaxCrashes = 0, IInv, Core, History, [Next]_vars PROVE History' /\ Faithful
<1> USE DEF IInv
<1>1. ASSUME NEW i \in Instances, Acquire(i) PROVE History' /\ Faithful
  <2>1. UNCHANGED <<hist, stored>> /\ \A s \in Runs : canceller'[s].base = canceller[s].base
    BY <1>1, Shapes DEF Acquire, store, Cancellation
  <2>2. \A s \in Runs : exec'[s].note = exec[s].note
    BY <1>1, Shapes DEF Acquire, Execution
  <2>3. ASSUME NEW s \in Runs
        PROVE  \/ exec'[s].pc = exec[s].pc
               \/ exec[s].pc = "waiting" /\ exec'[s].pc = "claimed"
    <3>1. \E r \in Runs :
            \/ /\ exec[r].pc = "waiting" /\ exec'[r].pc = "claimed"
               /\ \A t \in Runs \ {r} : exec'[t] = exec[t]
            \/ UNCHANGED exec
      BY <1>1, Granted
    <3> QED BY <3>1
  <2>4. \A s \in Runs : Goes(s) /\ Tells(s)
    BY <2>1, <2>2, <2>3 DEF Goes, Tells, Past, Through, Late
  <2> QED BY <2>1, <2>4, HistoryKept
<1>2. ASSUME NEW i \in Instances, Crash(i) PROVE History' /\ Faithful
  <2>1. crashes \in 0..0 /\ crashes < 0
    BY <1>2 DEF Crash, TypeOK, TypeThread
  <2> QED BY <2>1
<1>3. CASE UNCHANGED vars
  BY <1>3, StandingKeeps DEF vars, store
<1>4. ASSUME NEW r \in Runs,
             EngineStep(r) \/ CreateStep(r) \/ CancelStep(r)
             \/ PersistBase(r) \/ Timeout(r) \/ Observe(r) \/ DeleteRow(r)
             \/ (\E i \in Instances : \/ CreateIfIdle(r, i) \/ DeleteAbort(r, i)
                                      \/ (\E s \in Strategies : ListActive(r, i, s))
                                      \/ (\E m \in CancelModes : CancelRead(r, i, m)))
             \/ (\E why \in Reasons : DeliverAbort(r, why))
      PROVE  History' /\ Faithful
  BY <1>4, Engine_History, Signal_History, Create_History, Cancel_History
<1> QED BY <1>1, <1>2, <1>3, <1>4 DEF Next

-----------------------------------------------------------------------------
(* The cancel that rolls back.                                               *)

(* Nothing crashes and nothing fails.                                        *)
Unfailing == MaxCrashes = 0 /\ ~Faulty

(* Only a cancel in rollback mode has a base; once it has answered, its run   *)
(* has left the graph for good and the history holds nothing of it.           *)
Rollbacks == \A r \in Runs :
  /\ canceller[r].pc = "base" \/ canceller[r].base # "none" => canceller[r].mode = "rollback"
  /\ canceller[r].pc = "done" /\ canceller[r].base # "none" => exec[r].pc \in Through /\ ~Wrote(r)

(* A cancel that is not answered.                                            *)
Goes_on(r) ==
  /\ canceller'[r].pc = "base" \/ canceller'[r].base # "none" => canceller'[r].mode = "rollback"
  /\ \/ canceller'[r].pc # "done" \/ canceller'[r].base = "none"
     \/ canceller[r].pc = "done" /\ canceller[r].base # "none"

LEMMA RollbacksKept ==
  ASSUME Rollbacks, Faithful, NEW r \in Runs, Goes_on(r),
         \A s \in Runs \ {r} : canceller'[s] = canceller[s]
  PROVE  Rollbacks'
<1>1. ASSUME NEW s \in Runs, exec[s].pc \in Through, ~Wrote(s)
      PROVE  exec'[s].pc \in Through /\ ~Wrote(s)'
  <2>1. "graph" \notin Through
    BY DEF Through, Late
  <2> QED BY <1>1, <2>1 DEF Faithful
<1> QED BY <1>1 DEF Rollbacks, Goes_on

LEMMA CancelClaimed_Rollbacks ==
  ASSUME Unfailing, Cancellable \cap Native = {}, IInv, Core, History, Stopped, Rollbacks, Faithful,
         NEW r \in Runs, CancelClaimed(r)
  PROVE  Rollbacks'
<1> USE DEF IInv
<1>1. /\ canceller[r].pc = "claimed" /\ canceller'[r].pc = "done" /\ UNCHANGED exec
      /\ canceller'[r].mode = canceller[r].mode /\ canceller'[r].base = canceller[r].base
      /\ \A s \in Runs \ {r} : canceller'[s] = canceller[s]
  BY Shapes DEF CancelClaimed, CancelAt, CancelGoto, Cancellation
<1>2. CASE canceller[r].base = "none"
  BY <1>1, <1>2, RollbacksKept DEF Goes_on
<1>3. CASE canceller[r].base # "none"
  <2>1. canceller[r].mode = "rollback" /\ canceller[r].base \in Bases
    BY <1>3, Shapes DEF Rollbacks, Cancellation, Recorded
  <2>2. r \in Cancellable
    BY <1>1, Nothing DEF Stopped
  <2>3. r \notin Native
    BY <2>2
  <2>4. hist' = RevertedTo(canceller[r].base)
    BY <2>1, <2>3 DEF CancelClaimed, SafeToRevert, Unfailing
  <2>5. exec[r].pc \in Past /\ After(r, canceller[r].base)
    BY <1>3 DEF History, KnownTo, Known, Marks
  <2>6. ~Wrote(r)'
    BY <2>1, <2>4, <2>5, RevertedDrops DEF History
  <2>7. exec[r].pc \notin Holding
    BY <1>1 DEF Claimed
  <2>8. exec'[r].pc \in Through
    BY <1>1, <2>5, <2>7 DEF Past, Holding, EngineSteps
  <2>9. \A s \in Runs \ {r} : /\ exec[s].pc \in Through => exec'[s].pc \in Through
                             /\ exec[s].pc \in Through /\ ~Wrote(s) => ~Wrote(s)'
    BY DEF Faithful, Through, Late
  <2> QED BY <1>1, <2>1, <2>6, <2>8, <2>9 DEF Rollbacks
<1> QED BY <1>2, <1>3

LEMMA NextRollbacks ==
  ASSUME Unfailing, Cancellable \cap Native = {}, IInv, Core, History, Stopped, Rollbacks,
         [Next]_vars
  PROVE  Rollbacks'
<1> USE DEF IInv
<1>1. canceller \in [Runs -> Cancellation]
  BY Shapes
<1>2. Faithful
  BY NextHistory DEF Unfailing
<1>3. ASSUME UNCHANGED canceller PROVE Rollbacks'
  <2>1. CASE \E r : r \in Runs
    <3>1. PICK r \in Runs : TRUE
      BY <2>1
    <3>2. Goes_on(r)
      BY <1>3 DEF Goes_on, Rollbacks
    <3> QED BY <1>2, <1>3, <3>2, RollbacksKept
  <2>2. CASE ~\E r : r \in Runs
    BY <2>2 DEF Rollbacks
  <2> QED BY <2>1, <2>2
<1>4. ASSUME NEW r \in Runs, NEW pc, CancelGoto(r, pc), pc # "base", pc = "done" => canceller[r].base = "none"
      PROVE  Rollbacks'
  <2>1. /\ canceller'[r].pc = pc /\ canceller'[r].mode = canceller[r].mode
        /\ canceller'[r].base = canceller[r].base
        /\ \A s \in Runs \ {r} : canceller'[s] = canceller[s]
    BY <1>1, <1>4 DEF CancelGoto, Cancellation
  <2>2. Goes_on(r)
    BY <1>4, <2>1 DEF Goes_on, Rollbacks
  <2> QED BY <1>2, <2>1, <2>2, RollbacksKept
<1>5. ASSUME NEW r \in Runs, NEW i \in Instances, NEW m \in CancelModes, CancelRead(r, i, m)
      PROVE  Rollbacks'
  <2>1. /\ canceller'[r].base = "none" /\ canceller'[r].mode = m
        /\ canceller'[r].pc = IF m = "rollback" THEN "base" ELSE "write"
        /\ \A s \in Runs \ {r} : canceller'[s] = canceller[s]
    BY <1>1, <1>5 DEF CancelRead
  <2>2. Goes_on(r)
    BY <2>1 DEF Goes_on
  <2> QED BY <1>2, <2>1, <2>2, RollbacksKept
<1>6. ASSUME NEW r \in Runs, CancelBase(r) PROVE Rollbacks'
  <2> DEFINE b == ReadBase(r, canceller[r].at)
  <2>1. canceller' = [canceller EXCEPT ![r].pc = "write", ![r].base = b] /\ canceller[r].pc = "base"
    BY <1>6 DEF CancelBase, CancelAt
  <2> HIDE DEF b
  <2>2. canceller'[r].pc = "write" /\ canceller'[r].mode = canceller[r].mode
        /\ \A s \in Runs \ {r} : canceller'[s] = canceller[s]
    BY <1>1, <2>1 DEF Cancellation
  <2>3. Goes_on(r)
    BY <2>1, <2>2 DEF Goes_on, Rollbacks
  <2> QED BY <1>2, <2>2, <2>3, RollbacksKept
<1>7. ASSUME NEW r \in Runs, CancelWrite(r) \/ CancelIdle(r) PROVE Rollbacks'
  <2>1. \E pc \in {"lost", "idle", "abort"} : CancelGoto(r, pc)
    BY <1>7 DEF CancelWrite, CancelIdle
  <2> QED BY <1>4, <2>1
<1>8. ASSUME NEW r \in Runs, CancelAbort(r) PROVE Rollbacks'
  <2>1. CancelGoto(r, IF Waits(r) THEN "waiting" ELSE "done")
    BY <1>8 DEF CancelAbort
  <2>2. CASE Waits(r)
    BY <1>4, <2>1, <2>2
  <2>3. CASE ~Waits(r)
    <3>1. canceller[r].base = "none"
      BY <2>3 DEF Waits, Rollbacks
    <3> QED BY <1>4, <2>1, <2>3, <3>1
  <2> QED BY <2>2, <2>3
<1>9. ASSUME NEW i \in Instances, Acquire(i) PROVE Rollbacks'
  <2>1. CASE UNCHANGED canceller
    BY <1>3, <2>1
  <2>2. CASE canceller' # canceller
    <3>1. \A s \in Runs : canceller'[s].base = canceller[s].base /\ canceller'[s].mode = canceller[s].mode
      BY <1>1, <1>9 DEF Acquire, Cancellation
    <3>2. \E r \in Runs : /\ canceller'[r].pc = "claimed"
                          /\ \A s \in Runs \ {r} : canceller'[s] = canceller[s]
      BY <1>9, <2>2, Granted
    <3>3. PICK r \in Runs : /\ canceller'[r].pc = "claimed"
                            /\ \A s \in Runs \ {r} : canceller'[s] = canceller[s]
      BY <3>2
    <3>4. Goes_on(r)
      BY <3>1, <3>3 DEF Goes_on, Rollbacks
    <3> QED BY <1>2, <3>3, <3>4, RollbacksKept
  <2> QED BY <2>1, <2>2
<1>10. ASSUME NEW r \in Runs,
              EngineStep(r) \/ PersistBase(r) \/ Timeout(r) \/ Observe(r) \/ DeleteRow(r)
              \/ (\E i \in Instances : DeleteAbort(r, i)) \/ (\E why \in Reasons : DeliverAbort(r, why))
       PROVE  Rollbacks'
  <2>1. UNCHANGED canceller
    BY <1>10 DEF EngineStep, StartInline, Enqueue, Pull, Reread, ApplyPlan, Check, MarkRunning,
       MirrorBusy, RecordBase, GraphWrite, GraphReturn, GraphThrow, FinalizeRead, FinalizeWrite,
       FinalizeWithDelivery, SettleNative, Mirror, Close, Rest, PersistBase, Timeout, Observe,
       DeleteRow, DeleteAbort, DeliverAbort
  <2> QED BY <1>3, <2>1
<1>11. ASSUME NEW c \in Runs,
              \/ CreateStep(c)
              \/ \E i \in Instances : CreateIfIdle(c, i) \/ \E s \in Strategies : ListActive(c, i, s)
       PROVE  Rollbacks'
  <2>1. UNCHANGED canceller
    BY <1>11 DEF CreateStep, CreateIfIdle, ListActive, ReadBases, DisplaceRow, DisplaceStop,
       InsertRow, Admit
  <2> QED BY <1>3, <2>1
<1>12. ASSUME NEW i \in Instances, Crash(i) PROVE Rollbacks'
  <2>1. crashes \in 0..0 /\ crashes < 0
    BY <1>12 DEF Crash, TypeOK, TypeThread, Unfailing
  <2> QED BY <2>1
<1>13. CASE UNCHANGED vars
  BY <1>3, <1>13 DEF vars
<1>14. ASSUME NEW r \in Runs, CancelClaimed(r) PROVE Rollbacks'
  BY <1>2, <1>14, CancelClaimed_Rollbacks
<1> QED BY <1>5, <1>6, <1>7, <1>8, <1>9, <1>10, <1>11, <1>12, <1>13, <1>14 DEF Next, CancelStep

LEMMA HistoryInit == Init => History /\ Rollbacks
<1> SUFFICES ASSUME Init PROVE History /\ Rollbacks
  OBVIOUS
<1>1. hist = <<>> /\ Len(hist) = 0
  BY DEF Init
<1>2. \A r \in Runs : /\ exec[r].note = "none" /\ stored[r] = "none" /\ canceller[r].base = "none"
                      /\ canceller[r].pc = "none"
  BY DEF Init, NoExecution, NoCancellation
<1> QED BY <1>1, <1>2 DEF History, Distinct, Unwritten, Wrote, KnownTo, Known, Rollbacks

(* A cancel with action=rollback that read a base has the run's writes gone   *)
(* when it answers, and none comes after: it holds the claim once the         *)
(* execution is over, and the base is where that execution's writes begin.    *)
(* An admitted run is only rolled back while it is the latest.                *)
THEOREM CancelsDiscard ==
  ASSUME Unfailing, Cancellable \cap Native = {} PROVE Spec => []CancelRollbackDiscards
<1>1. Init => Stopped /\ History /\ Rollbacks
  BY HistoryInit, Nothing DEF Init, Stopped, Written
<1>2. IInv /\ Core /\ IInv' /\ Stopped /\ History /\ Rollbacks /\ [Next]_vars
        => (Stopped /\ History /\ Rollbacks)'
  BY NextStopped, NextHistory, NextRollbacks DEF Sticky, Unfailing
<1>3. IInv /\ Rollbacks => CancelRollbackDiscards
  BY HistTyped DEF IInv, Rollbacks, CancelRollbackDiscards
<1> QED BY <1>1, <1>2, <1>3, SettlementInvariant, PTL DEF Spec

-----------------------------------------------------------------------------
(* What a rollback strategy displaces is gone when the new run executes.      *)

Over == {"mirror", "close", "done"}       \* the run is settled
Begins == {"revert"} \cup EngineSteps

(* An execution that is over has settled its run, and has an outcome only     *)
(* once it settles.                                                          *)
Finished == \A r \in Runs : /\ exec[r].pc \in Over => row[r] \notin Active
                            /\ exec[r].mode # "none" => exec[r].pc \in Late

(* A creation that rolls back displaces what it listed, and the base it read  *)
(* is one of theirs.                                                         *)
Chosen(c) ==
  /\ creator[c].seen[c] = "none"
  /\ creator[c].by = "rollback" /\ creator[c].pc \in {"bases", "insert"} =>
       creator[c].todo = Snapshot(c)
  /\ creator[c].by = "rollback" /\ creator[c].pc = "insert" /\ creator[c].revert # "none" =>
       \E d \in creator[c].todo : Known(d, creator[c].revert)
Choosing == \A c \in Runs : Chosen(c)

(* What a plan displaces is finished. It wrote after the base of the plan, or *)
(* nothing: it never reaches the engine.                                     *)
Doomed(d, b) == /\ row[d] \notin Active \cup {"absent"}
                /\ Known(d, b) \/ (exec[d].pc \notin Begins /\ ~Wrote(d))
Plans == \A c \in Runs :
  c \notin plan[c].rows /\ (plan[c].revert # "none" => \A d \in plan[c].rows : Doomed(d, plan[c].revert))

Gone == \A r \in Runs :
  exec[r].pc \in EngineSteps /\ plan[r].revert # "none" => \A d \in plan[r].rows : ~Wrote(d)

Planned == Finished /\ Choosing /\ Plans /\ Gone

(* An execution begins with an active row, enters the engine without a plan   *)
(* and is over with its run settled.                                         *)
Orderly(s) ==
  /\ exec'[s].pc \in Begins => exec[s].pc \in Begins \/ row[s] \in Active
  /\ exec'[s].pc \in EngineSteps => exec[s].pc \in EngineSteps \/ plan[s].rows = {}
  /\ exec'[s].pc \in Over => exec[s].pc \in Over \/ row'[s] \notin Active
  /\ exec'[s].mode # "none" => exec'[s].pc \in Late

LEMMA OneOrderly ==
  ASSUME Finished, NEW r \in Runs, Orderly(r),
         \A s \in Runs \ {r} : exec'[s].pc = exec[s].pc /\ exec'[s].mode = exec[s].mode
  PROVE  \A s \in Runs : Orderly(s)
BY DEF Finished, Orderly

LEMMA StillOrderly ==
  ASSUME Finished, \A s \in Runs : exec'[s].pc = exec[s].pc /\ exec'[s].mode = exec[s].mode
  PROVE  \A s \in Runs : Orderly(s)
BY DEF Finished, Orderly

LEMMA FinishedKept ==
  ASSUME Native = Runs, Core, Finished, \A s \in Runs : RowMoves(s),
         \A s \in Runs : /\ exec'[s].pc \in Over => exec[s].pc \in Over \/ row'[s] \notin Active
                         /\ exec'[s].mode # "none" => exec'[s].pc \in Late
  PROVE  Finished'
<1> SUFFICES ASSUME NEW s \in Runs, exec[s].pc \in Over PROVE row'[s] \notin Active
  BY DEF Finished
<1>1. row[s] \notin Active
  BY DEF Finished
<1>2. row[s] # "absent"
  BY Nothing DEF Core, Unborn, Over
<1> QED BY <1>1, <1>2, Statuses DEF RowMoves

LEMMA DoomedKept ==
  ASSUME Native = Runs, Core, Faithful, NEW s \in Runs, NEW b, Doomed(s, b), RowMoves(s),
         exec'[s].pc \in Begins => exec[s].pc \in Begins \/ row[s] \in Active \cup {"absent"}
  PROVE  Doomed(s, b)'
<1>1. row'[s] \notin Active \cup {"absent"}
  BY Statuses DEF Doomed, RowMoves
<1>2. CASE Known(s, b)
  <2>1. Known(s, b)'
    BY <1>2 DEF Faithful
  <2> QED BY <1>1, <2>1 DEF Doomed
<1>3. CASE exec[s].pc \notin Begins /\ ~Wrote(s)
  <2>1. exec'[s].pc \notin Begins
    BY <1>3 DEF Doomed
  <2>2. ~Wrote(s)'
    BY <1>3 DEF Faithful, Begins, EngineSteps
  <2> QED BY <1>1, <2>1, <2>2 DEF Doomed
<1> QED BY <1>2, <1>3 DEF Doomed

LEMMA PlansKept ==
  ASSUME Native = Runs, IInv, Core, Faithful, Plans, \A s \in Runs : RowMoves(s), UNCHANGED plan,
         \A s \in Runs : exec'[s].pc \in Begins => exec[s].pc \in Begins \/ row[s] \in Active
  PROVE  Plans'
<1>1. \A c \in Runs : plan[c].rows \subseteq Runs
  BY Shapes DEF IInv
<1>2. ASSUME NEW c \in Runs, plan[c].revert # "none", NEW d \in plan[c].rows
      PROVE  Doomed(d, plan[c].revert)'
  <2>1. Doomed(d, plan[c].revert) /\ d \in Runs
    BY <1>1, <1>2 DEF Plans
  <2>2. Doomed(d, plan[c].revert)'
    BY <2>1, DoomedKept
  <2> QED BY <2>2
<1> QED BY <1>2 DEF Plans

(* Whoever is in the engine holds the claim: it is the only one to write.     *)
LEMMA GoneKept ==
  ASSUME IInv, Faithful, Plans, Gone,
         \A s \in Runs : exec'[s].pc \in EngineSteps =>
           plan'[s] = plan[s] /\ (exec[s].pc \in EngineSteps \/ plan[s].rows = {})
  PROVE  Gone'
<1> SUFFICES ASSUME NEW s \in Runs, exec'[s].pc \in EngineSteps, plan'[s].revert # "none",
                    NEW d \in plan'[s].rows
             PROVE  ~Wrote(d)'
  BY DEF Gone
<1>1. plan'[s] = plan[s] /\ exec[s].pc \in EngineSteps /\ plan[s].rows \subseteq Runs
  BY Shapes DEF IInv
<1>2. ~Wrote(d) /\ d # s /\ d \in Runs
  BY <1>1 DEF Gone, Plans
<1>3. exec[d].pc # "graph"
  BY <1>1, <1>2 DEF IInv, Claimed, Holding, EngineSteps
<1> QED BY <1>2, <1>3 DEF Faithful

LEMMA OrderlyKeeps ==
  ASSUME Native = Runs, IInv, Core, Faithful, Finished, Plans, Gone,
         \A s \in Runs : RowMoves(s) /\ Orderly(s), UNCHANGED plan
  PROVE  (Finished /\ Plans /\ Gone)'
<1>1. Finished'
  BY FinishedKept DEF Orderly
<1>2. Plans'
  BY PlansKept DEF Orderly
<1>3. Gone'
  BY GoneKept DEF Orderly
<1> QED BY <1>1, <1>2, <1>3


(* The steps of an execution.                                                *)
LEMMA GotoMode ==
  ASSUME TypeOK, NEW r \in Runs, NEW pc, Goto(r, pc)
  PROVE  /\ exec'[r].pc = pc /\ exec'[r].mode = exec[r].mode
         /\ \A s \in Runs \ {r} : exec'[s] = exec[s]
<1>1. exec \in [Runs -> Execution]
  BY Shapes
<1> QED BY <1>1 DEF Goto, Execution

LEMMA ThrowEnds ==
  ASSUME TypeOK, NEW r \in Runs, Throw(r)
  PROVE  /\ exec'[r].pc \in {"settle", "close"}
         /\ exec[r].mode = "none" => exec'[r].pc = "settle"
         /\ \A s \in Runs \ {r} : exec'[s] = exec[s]
<1>1. exec \in [Runs -> Execution]
  BY Shapes
<1>2. exec'[r] = IF exec[r].mode \in {"none", "done", "stopped"}
                 THEN Caught(exec[r]) ELSE [exec[r] EXCEPT !.pc = "close"]
  BY <1>1 DEF Throw
<1>3. \A s \in Runs \ {r} : exec'[s] = exec[s]
  BY <1>1 DEF Throw
<1>4. Caught(exec[r]).pc = "settle"
  BY <1>1 DEF Caught, Execution
<1>5. [exec[r] EXCEPT !.pc = "close"].pc = "close"
  BY <1>1 DEF Execution
<1> QED BY <1>2, <1>3, <1>4, <1>5

LEMMA Reach_Orderly ==
  ASSUME Native = Runs, IInv, Core, Finished, NEW r \in Runs,
         \/ StartInline(r) \/ Enqueue(r) \/ (\E i \in Instances : Pull(r, i)) \/ Reread(r)
         \/ Check(r) \/ MarkRunning(r) \/ MirrorBusy(r)
  PROVE  \A s \in Runs : Orderly(s)
<1> USE DEF IInv
<1>1. exec \in [Runs -> Execution]
  BY Shapes
<1>2. {"prepared", "queued", "waiting", "claimed"} \cap (Begins \cup Over \cup Late) = {}
      /\ "revert" \notin Late \cup Over \cup EngineSteps
      /\ {"check", "set", "busy", "base"} \cap (Over \cup Late) = {}
      /\ {"check", "set", "busy", "base"} \subseteq EngineSteps /\ EngineSteps \subseteq Begins
      /\ "revert" \in Begins /\ "done" \in Over \ (Begins \cup Late)
      /\ {"settle", "close"} \subseteq EngineSteps \cap Late
      /\ "settle" \notin Over
  BY DEF Begins, EngineSteps, Over, Late
<1>3. CASE StartInline(r) \/ Enqueue(r)
  <2>1. exec[r].mode = "none"
    BY <1>2, <1>3 DEF StartInline, Enqueue, Finished
  <2>2. CASE StartInline(r)
    <3>1. Goto(r, "waiting")
      BY <2>2 DEF StartInline
    <3> QED BY <1>2, <2>1, <3>1, GotoMode, OneOrderly DEF Orderly
  <2>3. CASE Enqueue(r)
    <3>1. exec'[r].pc = "queued" /\ exec'[r].mode = "none" /\ \A s \in Runs \ {r} : exec'[s] = exec[s]
      BY <1>1, <2>1, <2>3 DEF Enqueue, Execution
    <3> QED BY <1>2, <3>1, OneOrderly DEF Orderly
  <2> QED BY <1>3, <2>2, <2>3
<1>4. CASE \E i \in Instances : Pull(r, i)
  <2>1. PICK i \in Instances : Pull(r, i)
    BY <1>4
  <2>2. exec[r].mode = "none" /\ UNCHANGED row
    BY <1>2, <2>1 DEF Pull, Finished, store
  <2>3. CASE row[r] \notin Active /\ Goto(r, "done")
    BY <1>2, <2>2, <2>3, GotoMode, OneOrderly DEF Orderly
  <2>4. CASE exec' = [exec EXCEPT ![r].pc = "claimed", ![r].at = i]
    <3>1. exec'[r].pc = "claimed" /\ exec'[r].mode = exec[r].mode
          /\ \A s \in Runs \ {r} : exec'[s] = exec[s]
      BY <1>1, <2>4 DEF Execution
    <3> QED BY <1>2, <2>2, <3>1, OneOrderly DEF Orderly
  <2> QED BY <2>1, <2>3, <2>4 DEF Pull
<1>5. CASE Reread(r)
  <2>1. exec[r].mode = "none" /\ UNCHANGED row
    BY <1>2, <1>5 DEF Reread, Finished, store
  <2>2. CASE row[r] \notin Active /\ exec' = [exec EXCEPT ![r] = [NoExecution EXCEPT !.pc = "done"]]
    <3>1. exec'[r].pc = "done" /\ exec'[r].mode = "none" /\ \A s \in Runs \ {r} : exec'[s] = exec[s]
      BY <1>1, <2>2 DEF NoExecution
    <3> QED BY <1>2, <2>1, <2>2, <3>1, OneOrderly DEF Orderly
  <2>3. CASE row[r] \in Active /\ Goto(r, IF plan[r].rows # {} THEN "revert" ELSE "check")
    <3>1. /\ exec'[r].mode = "none" /\ \A s \in Runs \ {r} : exec'[s] = exec[s]
          /\ exec'[r].pc = "revert" \/ (plan[r].rows = {} /\ exec'[r].pc = "check")
      BY <2>1, <2>3, GotoMode
    <3> QED BY <1>2, <2>3, <3>1, OneOrderly DEF Orderly
  <2> QED BY <1>5, <2>2, <2>3 DEF Reread
<1>6. CASE Check(r)
  <2>1. Goto(r, IF row[r] \in Terminal THEN "close" ELSE "set") /\ UNCHANGED row /\ exec[r].pc = "check"
    BY <1>6 DEF Check, store
  <2>2. /\ exec'[r].mode = "none" /\ \A s \in Runs \ {r} : exec'[s] = exec[s]
        /\ exec'[r].pc = "set" \/ (row'[r] \notin Active /\ exec'[r].pc = "close")
    BY <1>2, <2>1, GotoMode, Statuses DEF Finished
  <2> QED BY <1>2, <2>1, <2>2, OneOrderly DEF Orderly
<1>7. CASE MarkRunning(r)
  <2>1. exec[r].mode = "none" /\ exec[r].pc = "set"
    BY <1>2, <1>7 DEF MarkRunning, Finished
  <2>2. CASE Throw(r)
    BY <1>2, <2>1, <2>2, ThrowEnds, OneOrderly DEF Orderly
  <2>3. CASE RefusesRunning(r) /\ Goto(r, "close") /\ UNCHANGED row
    <3>1. row'[r] \notin Active
      BY <2>3, Statuses DEF RefusesRunning
    <3> QED BY <1>2, <2>1, <2>3, <3>1, GotoMode, OneOrderly DEF Orderly
  <2>4. CASE exec' = [exec EXCEPT ![r].pc = "busy", ![r].started = TRUE]
    <3>1. exec'[r].pc = "busy" /\ exec'[r].mode = exec[r].mode
          /\ \A s \in Runs \ {r} : exec'[s] = exec[s]
      BY <1>1, <2>4 DEF Execution
    <3> QED BY <1>2, <2>1, <3>1, OneOrderly DEF Orderly
  <2> QED BY <1>7, <2>2, <2>3, <2>4 DEF MarkRunning
<1>8. CASE MirrorBusy(r)
  <2>1. Goto(r, "base") /\ exec[r].pc = "busy"
    BY <1>8 DEF MirrorBusy
  <2>2. exec[r].mode = "none"
    BY <1>2, <2>1 DEF Finished
  <2> QED BY <1>2, <2>1, <2>2, GotoMode, OneOrderly DEF Orderly
<1> QED BY <1>3, <1>4, <1>5, <1>6, <1>7, <1>8

LEMMA Settle_Orderly ==
  ASSUME Native = Runs, IInv, Core, Finished, NEW r \in Runs,
         \/ RecordBase(r) \/ GraphWrite(r) \/ GraphReturn(r) \/ GraphThrow(r) \/ FinalizeRead(r)
         \/ FinalizeWrite(r) \/ FinalizeWithDelivery(r) \/ SettleNative(r) \/ Mirror(r) \/ Close(r)
  PROVE  \A s \in Runs : Orderly(s)
<1> USE DEF IInv
<1>1. exec \in [Runs -> Execution]
  BY Shapes
<1>2. /\ {"base", "graph", "settle", "mirror", "close"} \subseteq EngineSteps
      /\ EngineSteps \subseteq Begins
      /\ {"settle", "mirror", "close"} \subseteq Late
      /\ {"base", "graph", "done"} \cap Late = {}
      /\ {"graph", "settle"} \cap Over = {} /\ {"mirror", "close", "done"} \subseteq Over
      /\ "done" \notin Begins
  BY DEF Begins, EngineSteps, Over, Late
<1>3. CASE RecordBase(r)
  <2>1. exec[r].pc = "base" /\ exec'[r].pc = "graph" /\ exec'[r].mode = exec[r].mode
        /\ \A s \in Runs \ {r} : exec'[s] = exec[s]
    BY <1>1, <1>3 DEF RecordBase, Execution
  <2>2. exec[r].mode = "none"
    BY <1>2, <2>1 DEF Finished
  <2> QED BY <1>2, <2>1, <2>2, OneOrderly DEF Orderly
<1>4. CASE GraphWrite(r)
  BY <1>4, StillOrderly DEF GraphWrite
<1>5. CASE GraphReturn(r)
  BY <1>2, <1>5, ReturnPc, OneOrderly DEF Orderly, GraphReturn
<1>6. CASE GraphThrow(r)
  <2>1. exec[r].mode = "none" /\ exec[r].pc = "graph" /\ Throw(r)
    BY <1>2, <1>6 DEF GraphThrow, Finished
  <2> QED BY <1>2, <2>1, ThrowEnds, OneOrderly DEF Orderly
<1>7. ~(FinalizeRead(r) \/ FinalizeWrite(r) \/ FinalizeWithDelivery(r))
  BY DEF FinalizeRead, FinalizeWrite, FinalizeWithDelivery, Core, Admissions
<1>8. CASE SettleNative(r)
  <2>1. PICK st : exec' = [exec EXCEPT ![r].pc = "mirror", ![r].eff = st]
    BY <1>8 DEF SettleNative
  <2>2. exec[r].pc = "settle" /\ exec'[r].pc = "mirror" /\ \A s \in Runs \ {r} : exec'[s] = exec[s]
    BY <1>1, <1>8, <2>1 DEF SettleNative, Execution
  <2>3. row'[r] \notin Active
    <3>1. exec[r].out \in Terminal
      BY <2>2 DEF Settling
    <3>2. CASE Settle({r}, exec[r].out)
      BY <3>1, <3>2, Statuses DEF Settle
    <3>3. CASE ~Exists(r) /\ UNCHANGED row
      BY <3>3, Statuses DEF Exists
    <3> QED BY <1>8, <3>2, <3>3 DEF SettleNative
  <2> QED BY <1>2, <2>2, <2>3, OneOrderly DEF Orderly
<1>9. CASE Mirror(r)
  <2>1. exec[r].pc = "mirror" /\ (Goto(r, "close") \/ Throw(r))
    BY <1>9 DEF Mirror
  <2>2. exec'[r].pc \in {"settle", "close"} /\ \A s \in Runs \ {r} : exec'[s] = exec[s]
    BY <2>1, GotoMode, ThrowEnds
  <2> QED BY <1>2, <2>1, <2>2, OneOrderly DEF Orderly
<1>10. CASE Close(r)
  <2>1. exec[r].pc = "close" /\ exec'[r].pc = "done" /\ exec'[r].mode = "none"
        /\ \A s \in Runs \ {r} : exec'[s] = exec[s]
    BY <1>1, <1>10 DEF Close, NoExecution
  <2> QED BY <1>2, <2>1, OneOrderly DEF Orderly
<1> QED BY <1>3, <1>4, <1>5, <1>6, <1>7, <1>8, <1>9, <1>10

(* The plan is applied: the base lies before everything its runs wrote.       *)
LEMMA ApplyPlan_Planned ==
  ASSUME Native = Runs, Unfailing, IInv, Core, History, Faithful, Finished, Plans,
         \A s \in Runs : RowMoves(s), NEW r \in Runs, ApplyPlan(r)
  PROVE  (Finished /\ Plans /\ Gone)'
<1> USE DEF IInv
<1>1. /\ exec[r].pc = "revert" /\ Goto(r, "check") /\ UNCHANGED plan
      /\ plan[r].revert # "none" => hist' = RevertedTo(plan[r].revert)
  BY DEF ApplyPlan, Unfailing
<1>2. /\ exec'[r].pc = "check" /\ exec'[r].mode = exec[r].mode
      /\ \A s \in Runs \ {r} : exec'[s] = exec[s]
  BY <1>1, GotoMode
<1>3. "revert" \in Begins /\ "check" \notin Over /\ "revert" \notin Late
  BY DEF Begins, Over, Late
<1>4. Finished'
  <2>1. exec'[r].mode = "none"
    BY <1>1, <1>2, <1>3 DEF Finished
  <2>2. \A s \in Runs : /\ exec'[s].pc \in Over => exec[s].pc \in Over \/ row'[s] \notin Active
                        /\ exec'[s].mode # "none" => exec'[s].pc \in Late
    BY <1>2, <1>3, <2>1 DEF Finished
  <2> QED BY <2>2, FinishedKept
<1>5. Plans'
  <2>1. \A s \in Runs : exec'[s].pc \in Begins => exec[s].pc \in Begins \/ row[s] \in Active
    BY <1>1, <1>2, <1>3
  <2> QED BY <1>1, <2>1, PlansKept
<1>6. \A s \in Runs \ {r} : exec'[s].pc \notin EngineSteps
  BY <1>1, <1>2 DEF Claimed, Holding
<1>7. ASSUME plan[r].revert # "none", NEW d \in plan[r].rows PROVE ~Wrote(d)'
  <2>1. plan[r].revert \in Bases /\ d \in Runs
    BY <1>7, Shapes DEF Recorded
  <2>2. Doomed(d, plan[r].revert)
    BY <1>7 DEF Plans
  <2>3. CASE Known(d, plan[r].revert)
    <3>1. After(d, plan[r].revert)
      BY <1>7, <2>3 DEF Known, Marks
    <3> QED BY <1>1, <1>7, <2>1, <3>1, RevertedDrops DEF History
  <2>4. CASE exec[d].pc \notin Begins /\ ~Wrote(d)
    BY <2>1, <2>4 DEF Faithful, Begins, EngineSteps
  <2> QED BY <2>2, <2>3, <2>4 DEF Doomed
<1> QED BY <1>1, <1>4, <1>5, <1>6, <1>7 DEF Gone

(* An abort only leaves its reason.                                          *)
LEMMA AbortedModes ==
  ASSUME TypeOK, NEW r \in Runs, NEW why, exec' \in {exec, Aborted(r, why)}
  PROVE  \A s \in Runs : exec'[s].pc = exec[s].pc /\ exec'[s].mode = exec[s].mode
<1>1. exec \in [Runs -> Execution]
  BY Shapes
<1>2. CASE exec' = [exec EXCEPT ![r].reason = why]
  BY <1>1, <1>2 DEF Execution
<1> QED BY <1>2 DEF Aborted


(* The creations.                                                            *)
LEMMA ChoosingKept ==
  ASSUME Choosing, Faithful, TypeOK, NEW c \in Runs, Chosen(c)',
         \A d \in Runs \ {c} : creator'[d] = creator[d]
  PROVE  Choosing'
<1> SUFFICES ASSUME NEW d \in Runs \ {c} PROVE Chosen(d)'
  BY DEF Choosing
<1>1. creator'[d] = creator[d] /\ Snapshot(d)' = Snapshot(d)
  BY DEF Snapshot
<1>2. creator[d].todo \subseteq Runs
  BY Shapes DEF Creation
<1>3. Chosen(d)
  BY DEF Choosing
<1>4. ASSUME creator[d].by = "rollback", creator[d].pc = "insert", creator[d].revert # "none"
      PROVE  \E e \in creator[d].todo : Known(e, creator[d].revert)'
  <2>1. PICK e \in creator[d].todo : Known(e, creator[d].revert)
    BY <1>3, <1>4 DEF Chosen
  <2>2. Known(e, creator[d].revert)'
    BY <1>2, <2>1 DEF Faithful
  <2> QED BY <2>2
<1>5. (\E e \in creator[d].todo : Known(e, creator[d].revert)')
        => \E e \in creator'[d].todo : Known(e, creator[d].revert)'
  BY <1>1
<1> QED BY <1>1, <1>3, <1>4, <1>5 DEF Chosen

LEMMA ChoosingStands ==
  ASSUME Choosing, Faithful, TypeOK, UNCHANGED creator PROVE Choosing'
<1> SUFFICES ASSUME NEW c \in Runs PROVE Chosen(c)'
  BY DEF Choosing
<1>1. creator'[c] = creator[c] /\ Snapshot(c)' = Snapshot(c)
  BY DEF Snapshot
<1>2. creator[c].todo \subseteq Runs
  BY Shapes DEF Creation
<1>3. Chosen(c)
  BY DEF Choosing
<1>4. \A e \in Runs : Known(e, creator[c].revert) => Known(e, creator[c].revert)'
  BY DEF Faithful
<1> QED BY <1>1, <1>2, <1>3, <1>4 DEF Chosen

(* A creation whose request is answered, or has left the choice behind.       *)
LEMMA ChoiceMade ==
  ASSUME Choosing, TypeOK, NEW c \in Runs,
         \/ creator'[c] = Created
         \/ creator'[c].seen = creator[c].seen /\ creator'[c].pc \notin {"bases", "insert"}
  PROVE  Chosen(c)'
<1>1. Created.by # "rollback" /\ Created.seen[c] = "none"
  BY DEF Created, NoCreation
<1>2. creator[c].seen[c] = "none"
  BY DEF Choosing, Chosen
<1> QED BY <1>1, <1>2 DEF Chosen

LEMMA ListActive_Choosing ==
  ASSUME IInv, Core, Choosing, Faithful, NEW c \in Runs, NEW i \in Instances, NEW s \in Strategies,
         ListActive(c, i, s)
  PROVE  Choosing'
<1> USE DEF IInv
<1> DEFINE pc == CASE ActiveRuns = {} \/ s = "enqueue" -> "insert"
                   [] s = "rollback" -> "bases"
                   [] s = "interrupt" -> IF c \in Native THEN "insert" ELSE "displace"
           seen == [r \in Runs |-> IF r \in ActiveRuns THEN row[r] ELSE "none"]
           x == [NoCreation EXCEPT !.pc = pc, !.at = i, !.by = s,
                    !.todo = IF s = "enqueue" THEN {} ELSE ActiveRuns, !.seen = seen]
<1>1. creator' = [creator EXCEPT ![c] = x]
  BY DEF ListActive
<1>2. /\ x.seen = seen /\ x.by = s /\ x.revert = "none"
      /\ x.todo = IF s = "enqueue" THEN {} ELSE ActiveRuns
  <2> HIDE DEF pc, seen
  <2> QED BY DEF NoCreation
<1>3. row[c] = "absent"
  BY DEF ListActive, CreatorAt, Core, Unborn, Creating
<1>4. seen[c] = "none" /\ {r \in Runs : seen[r] # "none"} = ActiveRuns
  BY <1>3, Statuses DEF ActiveRuns
<1> HIDE DEF x, pc, seen
<1>5. creator'[c] = x /\ \A d \in Runs \ {c} : creator'[d] = creator[d]
  BY <1>1, Shapes
<1>6. Snapshot(c)' = ActiveRuns
  BY <1>2, <1>4, <1>5 DEF Snapshot
<1>7. Chosen(c)'
  BY <1>2, <1>4, <1>5, <1>6 DEF Chosen
<1> QED BY <1>5, <1>7, ChoosingKept

LEMMA ReadBases_Choosing ==
  ASSUME IInv, History, Choosing, Faithful, NEW c \in Runs, ReadBases(c)
  PROVE  Choosing'
<1> USE DEF IInv
<1>1. PICK base \in Recorded :
        /\ LastBase(base, Snapshot(c), creator[c].at)
        /\ creator' = [creator EXCEPT
             ![c].revert = base, ![c].pc = IF c \in Native THEN "insert" ELSE "displace"]
  BY DEF ReadBases
<1>2. /\ creator'[c].revert = base /\ creator'[c].todo = creator[c].todo
      /\ creator'[c].seen = creator[c].seen /\ creator'[c].by = creator[c].by
      /\ creator[c].pc = "bases"
      /\ \A d \in Runs \ {c} : creator'[d] = creator[d]
  BY <1>1, Shapes DEF Creation, ReadBases, CreatorAt
<1>3. Snapshot(c)' = Snapshot(c)
  BY <1>2 DEF Snapshot
<1>4. creator[c].by = "rollback" => creator[c].todo = Snapshot(c)
  BY <1>2 DEF Choosing, Chosen
<1>5. ASSUME base # "none" PROVE \E d \in Snapshot(c) : Known(d, base)'
  <2>1. PICK d \in Snapshot(c) : base = ReadBase(d, creator[c].at)
    BY <1>1, <1>5 DEF LastBase
  <2>2. d \in Runs
    BY DEF Snapshot
  <2>3. base \in {exec[d].note, stored[d]}
    BY <1>5, <2>1 DEF ReadBase
  <2>4. Known(d, base)
    BY <2>2, <2>3 DEF History, KnownTo
  <2>5. Known(d, base)'
    BY <2>2, <2>4 DEF Faithful
  <2> QED BY <2>5
<1>6. ASSUME creator[c].by = "rollback", base # "none" PROVE \E d \in creator'[c].todo : Known(d, base)'
  BY <1>2, <1>4, <1>5, <1>6
<1>7. creator[c].seen[c] = "none"
  BY DEF Choosing, Chosen
<1>8. Chosen(c)'
  BY <1>2, <1>3, <1>4, <1>6, <1>7 DEF Chosen
<1> QED BY <1>2, <1>8, ChoosingKept

LEMMA Create_Choosing ==
  ASSUME Native = Runs, IInv, Core, History, Choosing, Faithful, NEW c \in Runs,
         \/ CreateStep(c)
         \/ \E i \in Instances : CreateIfIdle(c, i) \/ \E s \in Strategies : ListActive(c, i, s)
  PROVE  Choosing'
<1> USE DEF IInv
<1>1. creator \in [Runs -> Creation]
  BY Shapes
<1>2. ASSUME \/ creator'[c] = Created
             \/ creator'[c].seen = creator[c].seen /\ creator'[c].pc \notin {"bases", "insert"},
             \A d \in Runs \ {c} : creator'[d] = creator[d]
      PROVE  Choosing'
  BY <1>2, ChoiceMade, ChoosingKept
<1>3. CASE InsertRow(c) \/ \E i \in Instances : CreateIfIdle(c, i)
  <2>1. creator' = [creator EXCEPT ![c] = Created]
    BY <1>3 DEF CreateIfIdle, InsertRow
  <2> QED BY <1>1, <1>2, <2>1
<1>4. CASE DisplaceRow(c) \/ Admit(c)
  <2>1. creator' \in {[creator EXCEPT ![c] = Created], [creator EXCEPT ![c].pc = "stop"]}
    BY <1>4 DEF DisplaceRow, Admit
  <2>2. /\ creator'[c] = Created \/ (creator'[c].seen = creator[c].seen /\ creator'[c].pc = "stop")
        /\ \A d \in Runs \ {c} : creator'[d] = creator[d]
    BY <1>1, <2>1 DEF Creation
  <2> QED BY <1>2, <2>2
<1>5. CASE DisplaceStop(c)
  <2>1. PICK d \in Runs :
          creator' = [creator EXCEPT ![c] =
             IF c \in Native /\ creator[c].todo \ {d} = {} THEN Created
             ELSE [creator[c] EXCEPT !.todo = creator[c].todo \ {d},
                        !.pc = CASE c \in Native -> "stop"
                                 [] c \notin Native /\ creator[c].todo \ {d} = {} -> "insert"
                                 [] OTHER -> "displace"]]
    BY <1>5 DEF DisplaceStop
  <2> DEFINE pc == CASE c \in Native -> "stop"
                     [] c \notin Native /\ creator[c].todo \ {d} = {} -> "insert"
                     [] OTHER -> "displace"
  <2>2. pc = "stop"
    OBVIOUS
  <2>3. creator' = [creator EXCEPT ![c] =
             IF c \in Native /\ creator[c].todo \ {d} = {} THEN Created
             ELSE [creator[c] EXCEPT !.todo = creator[c].todo \ {d}, !.pc = pc]]
    BY <2>1
  <2> HIDE DEF pc
  <2>4. /\ creator'[c] = Created \/ (creator'[c].seen = creator[c].seen /\ creator'[c].pc = "stop")
        /\ \A e \in Runs \ {c} : creator'[e] = creator[e]
    BY <1>1, <2>2, <2>3 DEF Creation
  <2> QED BY <1>2, <2>4
<1>6. CASE ReadBases(c)
  BY <1>6, ReadBases_Choosing
<1>7. CASE \E i \in Instances, s \in Strategies : ListActive(c, i, s)
  BY <1>7, ListActive_Choosing
<1> QED BY <1>3, <1>4, <1>5, <1>6, <1>7 DEF CreateStep

(* A new row: its execution has not begun, those of the others stand still.   *)
LEMMA Insert_Orderly ==
  ASSUME IInv, Core, Finished, NEW c \in Runs, NEW i, Insert(c, i), Creating(c)
  PROVE  /\ \A s \in Runs : Orderly(s)
         /\ exec'[c].pc = "prepared" /\ \A s \in Runs \ {c} : exec'[s] = exec[s]
<1>1. /\ exec'[c].pc = "prepared" /\ exec'[c].mode = "none"
      /\ \A s \in Runs \ {c} : exec'[s] = exec[s]
  BY Shapes DEF IInv, Insert, NoExecution
<1>2. "prepared" \notin Begins \cup Over
  BY DEF Begins, EngineSteps, Over
<1>3. Orderly(c)
  BY <1>1, <1>2 DEF Orderly, Begins
<1> QED BY <1>1, <1>3, OneOrderly

(* Admission settles the displaced runs and hands over the plan: one of them  *)
(* has come to the graph and marks where they begin, the others have written  *)
(* nothing, for they were active and did not hold the claim.                 *)
LEMMA Admit_Planned ==
  ASSUME Native = Runs, IInv, Core, History, Faithful, Planned,
         \A s \in Runs : RowMoves(s), NEW c \in Runs, Admit(c)
  PROVE  (Finished /\ Plans /\ Gone)'
<1> USE DEF IInv, Planned
<1>1. Creating(c) /\ row[c] = "absent" /\ creator[c].pc = "insert"
  BY DEF Admit, CreatorAt, Core, Unborn, Creating
<1>2. CASE UNCHANGED <<plan, exec>>
  <2>1. \A s \in Runs : Orderly(s)
    BY <1>2, StillOrderly
  <2> QED BY <1>2, <2>1, OrderlyKeeps
<1>3. ASSUME creator[c].todo = {} \/ creator[c].todo = ActiveRuns,
             row' = [r \in Runs |-> IF r = c THEN "pending"
                       ELSE IF r \in creator[c].todo THEN DisplacedStatus(c) ELSE row[r]],
             plan' = [plan EXCEPT ![c] = PlanOf(c)], Insert(c, creator[c].at)
      PROVE  (Finished /\ Plans /\ Gone)'
  <2>1. \A s \in Runs : Orderly(s)
    BY <1>1, <1>3, Insert_Orderly
  <2>2. exec'[c].pc = "prepared" /\ \A s \in Runs \ {c} : exec'[s] = exec[s]
    BY <1>1, <1>3, Insert_Orderly
  <2>3. plan'[c] = PlanOf(c) /\ \A s \in Runs \ {c} : plan'[s] = plan[s]
    BY <1>3, Shapes
  <2>4. Finished'
    BY <2>1, FinishedKept DEF Orderly
  <2>5. Gone'
    <3>1. "prepared" \notin EngineSteps
      BY DEF EngineSteps
    <3> QED BY <2>1, <2>2, <2>3, <3>1, GoneKept DEF Orderly
  <2>6. ASSUME NEW s \in Runs \ {c}, plan[s].revert # "none", NEW d \in plan[s].rows
        PROVE  Doomed(d, plan[s].revert)'
    <3>1. PICK b : b = plan[s].revert
      OBVIOUS
    <3>2. d \in Runs /\ Doomed(d, b)
      BY <2>6, <3>1, Shapes DEF Plans
    <3>3. Doomed(d, b)'
      BY <2>1, <3>2, DoomedKept DEF Orderly
    <3> QED BY <2>3, <3>1, <3>3
  <2>7. c \notin PlanOf(c).rows
    BY DEF PlanOf, NoPlan, Snapshot, Choosing, Chosen
  <2>10. PICK b : b = PlanOf(c).revert
    OBVIOUS
  <2>8. ASSUME b # "none", NEW d \in PlanOf(c).rows PROVE Doomed(d, b)'
    <3>1. creator[c].by = "rollback" /\ b = creator[c].revert /\ PlanOf(c).rows = Snapshot(c)
      BY <2>8, <2>10 DEF PlanOf, NoPlan
    <3>2. d \in creator[c].todo /\ creator[c].todo = ActiveRuns
      BY <1>1, <1>3, <2>8, <3>1 DEF Choosing, Chosen
    <3>3. PICK e \in ActiveRuns : Known(e, b)
      BY <1>1, <2>8, <3>1, <3>2 DEF Choosing, Chosen
    <3>4. d \in Runs /\ e \in Runs /\ row[d] \in Active /\ row[e] \in Active /\ d # c
      BY <1>1, <3>2, Statuses DEF ActiveRuns
    <3>5. exec[e].pc \in {"graph", "settle", "write"}
      BY <2>8, <3>1, <3>3, <3>4 DEF Known, Past, Through, Late, Finished, Over
    <3>6. holder = <<"run", e>>
      BY <3>4, <3>5 DEF Claimed, Holding, EngineSteps
    <3>7. row'[d] \notin Active \cup {"absent"}
      BY <1>3, <3>2, <3>4, Statuses DEF DisplacedStatus, Terminal
    <3>8. CASE d = e
      <4>1. Known(d, b)'
        BY <3>3, <3>4, <3>8 DEF Faithful
      <4> QED BY <3>7, <4>1 DEF Doomed
    <3>9. CASE d # e
      <4>1. exec[d].pc \notin Holding
        BY <3>4, <3>6, <3>9 DEF Claimed
      <4>2. exec[d].pc \notin Begins \cup {"graph"}
        BY <4>1 DEF Holding, Begins, EngineSteps
      <4>3. exec[d].pc \notin Past
        BY <3>4, <4>1 DEF Finished, Past, Through, Late, Over, Holding, EngineSteps
      <4>4. ~Wrote(d)'
        BY <3>4, <4>2, <4>3 DEF History, Unwritten, Faithful
      <4>5. exec'[d].pc \notin Begins
        BY <2>2, <3>4, <4>2
      <4> QED BY <3>7, <4>4, <4>5 DEF Doomed
    <3> QED BY <3>8, <3>9
  <2>9. Plans'
    <3>1. \A s \in Runs \ {c} : s \notin plan'[s].rows
      BY <2>3 DEF Plans
    <3>2. \A s \in Runs \ {c} : plan'[s].revert # "none" =>
            \A d \in plan'[s].rows : Doomed(d, plan[s].revert)'
      BY <2>3, <2>6
    <3>3. plan'[c].revert = b /\ plan'[c].rows = PlanOf(c).rows
      BY <2>3, <2>10
    <3>4. plan'[c].revert # "none" => \A d \in plan'[c].rows : Doomed(d, plan[c].revert)'
      BY <2>8, <3>3
    <3> QED BY <2>3, <2>7, <3>1, <3>2, <3>4 DEF Plans
  <2> QED BY <2>4, <2>5, <2>9
<1> QED BY <1>2, <1>3 DEF Admit


LEMMA Create_Planned ==
  ASSUME Native = Runs, IInv, Core, History, Faithful, Planned,
         \A s \in Runs : RowMoves(s), NEW c \in Runs,
         \/ CreateStep(c)
         \/ \E i \in Instances : CreateIfIdle(c, i) \/ \E s \in Strategies : ListActive(c, i, s)
  PROVE  Planned'
<1> USE DEF IInv
<1>1. Choosing'
  BY Create_Choosing DEF Planned
<1>2. ASSUME UNCHANGED plan, \A s \in Runs : Orderly(s) PROVE Planned'
  BY <1>1, <1>2, OrderlyKeeps DEF Planned
<1>3. CASE ReadBases(c) \/ \E i \in Instances, s \in Strategies : ListActive(c, i, s)
  <2>1. UNCHANGED <<plan, exec>>
    BY <1>3 DEF ReadBases, ListActive, store
  <2> QED BY <1>2, <2>1, StillOrderly DEF Planned
<1>4. CASE DisplaceRow(c)
  BY <1>4 DEF DisplaceRow, CreatorAt, Core, Admissions
<1>5. CASE DisplaceStop(c)
  <2>1. PICK d \in Runs : Abort(d, creator[c].by, creator[c].at)
    BY <1>5 DEF DisplaceStop
  <2>2. exec' \in {exec, Aborted(d, creator[c].by)} /\ UNCHANGED plan
    BY <1>5, <2>1 DEF Abort, DisplaceStop, store
  <2>3. \A s \in Runs : exec'[s].pc = exec[s].pc /\ exec'[s].mode = exec[s].mode
    BY <2>2, AbortedModes
  <2> QED BY <1>2, <2>2, <2>3, StillOrderly DEF Planned
<1>6. CASE InsertRow(c)
  BY <1>6 DEF InsertRow
<1>7. CASE \E i \in Instances : CreateIfIdle(c, i)
  <2>1. PICK i \in Instances : CreateIfIdle(c, i)
    BY <1>7
  <2>2. Insert(c, i) /\ Creating(c) /\ UNCHANGED plan
    BY <2>1 DEF CreateIfIdle, CreatorAt, Creating
  <2> QED BY <1>2, <2>2, Insert_Orderly DEF Planned
<1>8. CASE Admit(c)
  BY <1>1, <1>8, Admit_Planned DEF Planned
<1> QED BY <1>3, <1>4, <1>5, <1>6, <1>7, <1>8 DEF CreateStep

LEMMA Signal_Planned ==
  ASSUME Native = Runs, IInv, Core, Faithful, Planned, \A s \in Runs : RowMoves(s), NEW r \in Runs,
         \/ CancelStep(r) \/ PersistBase(r) \/ Timeout(r) \/ Observe(r) \/ DeleteRow(r)
         \/ (\E i \in Instances : DeleteAbort(r, i) \/ \E m \in CancelModes : CancelRead(r, i, m))
         \/ (\E why \in Reasons : DeliverAbort(r, why))
  PROVE  Planned'
<1> USE DEF IInv
<1>1. UNCHANGED <<plan, creator>>
  BY DEF CancelStep, CancelBase, CancelWrite, CancelIdle, CancelAbort, CancelClaimed, CancelRead,
     PersistBase, Timeout, Observe, DeleteRow, DeleteAbort, DeliverAbort, store, Rest
<1>2. \E why : exec' \in {exec, Aborted(r, why)}
  BY DEF CancelStep, CancelBase, CancelWrite, CancelIdle, CancelAbort, CancelClaimed, CancelRead,
     PersistBase, Timeout, Observe, DeleteRow, DeleteAbort, DeliverAbort, Abort, Rest
<1>3. \A s \in Runs : exec'[s].pc = exec[s].pc /\ exec'[s].mode = exec[s].mode
  BY <1>2, AbortedModes
<1> QED BY <1>1, <1>3, StillOrderly, OrderlyKeeps, ChoosingStands DEF Planned

LEMMA Engine_Planned ==
  ASSUME Native = Runs, Unfailing, IInv, Core, History, Faithful, Planned,
         \A s \in Runs : RowMoves(s), NEW r \in Runs, EngineStep(r)
  PROVE  Planned'
<1> USE DEF IInv
<1>1. UNCHANGED creator
  BY DEF EngineStep, StartInline, Enqueue, Pull, Reread, ApplyPlan, Check, MarkRunning, MirrorBusy,
     RecordBase, GraphWrite, GraphReturn, GraphThrow, FinalizeRead, FinalizeWrite,
     FinalizeWithDelivery, SettleNative, Mirror, Close, Rest
<1>2. UNCHANGED plan
  BY DEF EngineStep, StartInline, Enqueue, Pull, Reread, ApplyPlan, Check, MarkRunning, MirrorBusy,
     RecordBase, GraphWrite, GraphReturn, GraphThrow, FinalizeRead, FinalizeWrite,
     FinalizeWithDelivery, SettleNative, Mirror, Close, Rest, store
<1>3. Choosing'
  BY <1>1, ChoosingStands DEF Planned
<1>4. CASE ApplyPlan(r)
  BY <1>3, <1>4, ApplyPlan_Planned DEF Planned
<1>5. CASE ~ApplyPlan(r)
  <2>1. \A s \in Runs : Orderly(s)
    BY <1>5, Reach_Orderly, Settle_Orderly DEF EngineStep, Planned
  <2> QED BY <1>2, <1>3, <2>1, OrderlyKeeps DEF Planned
<1> QED BY <1>4, <1>5

LEMMA NextPlanned ==
  ASSUME Native = Runs, Unfailing, IInv, IInv', Core, History, Planned, [Next]_vars
  PROVE  Planned'
<1> USE DEF IInv
<1>1. Faithful /\ \A s \in Runs : RowMoves(s)
  BY NextHistory, NextCore DEF Unfailing
<1>2. ASSUME NEW i \in Instances, Acquire(i) PROVE Planned'
  <2>1. UNCHANGED <<creator, plan>>
    BY <1>2 DEF Acquire, store
  <2>2. \A s \in Runs : exec'[s].mode = exec[s].mode
    BY <1>2, Shapes DEF Acquire, Execution
  <2>3. ASSUME NEW s \in Runs PROVE exec'[s].pc \in {exec[s].pc, "claimed"}
    <3>1. \E r \in Runs :
            \/ /\ exec[r].pc = "waiting" /\ exec'[r].pc = "claimed"
               /\ \A t \in Runs \ {r} : exec'[t] = exec[t]
            \/ UNCHANGED exec
      BY <1>2, Granted
    <3> QED BY <3>1
  <2>4. ASSUME NEW s \in Runs PROVE Orderly(s)
    <3>1. CASE exec'[s].pc = exec[s].pc
      BY <2>2, <3>1 DEF Orderly, Planned, Finished
    <3>2. CASE exec'[s].pc = "claimed" /\ exec[s].pc # "claimed"
      <4>1. exec[s].pc = "waiting"
        <5>1. \E r \in Runs :
                \/ /\ exec[r].pc = "waiting" /\ exec'[r].pc = "claimed"
                   /\ \A t \in Runs \ {r} : exec'[t] = exec[t]
                \/ UNCHANGED exec
          BY <1>2, Granted
        <5> QED BY <3>2, <5>1
      <4>2. {"waiting", "claimed"} \cap (Begins \cup EngineSteps \cup Over \cup Late) = {}
        BY DEF Begins, EngineSteps, Over, Late
      <4> QED BY <2>2, <3>2, <4>1, <4>2 DEF Orderly, Planned, Finished
    <3> QED BY <2>3, <3>1, <3>2
  <2> QED BY <1>1, <2>1, <2>4, OrderlyKeeps, ChoosingStands DEF Planned
<1>3. ASSUME NEW i \in Instances, Crash(i) PROVE Planned'
  <2>1. crashes \in 0..0 /\ crashes < 0
    BY <1>3 DEF Crash, TypeOK, TypeThread, Unfailing
  <2> QED BY <2>1
<1>4. CASE UNCHANGED vars
  <2>1. UNCHANGED <<plan, exec, creator>>
    BY <1>4 DEF vars, store
  <2> QED BY <1>1, <2>1, StillOrderly, OrderlyKeeps, ChoosingStands DEF Planned
<1>5. ASSUME NEW r \in Runs, EngineStep(r) PROVE Planned'
  BY <1>1, <1>5, Engine_Planned
<1>6. ASSUME NEW c \in Runs,
             \/ CreateStep(c)
             \/ \E i \in Instances : CreateIfIdle(c, i) \/ \E s \in Strategies : ListActive(c, i, s)
      PROVE  Planned'
  BY <1>1, <1>6, Create_Planned
<1>7. ASSUME NEW r \in Runs,
             \/ CancelStep(r) \/ PersistBase(r) \/ Timeout(r) \/ Observe(r) \/ DeleteRow(r)
             \/ (\E i \in Instances : DeleteAbort(r, i) \/ \E m \in CancelModes : CancelRead(r, i, m))
             \/ (\E why \in Reasons : DeliverAbort(r, why))
      PROVE  Planned'
  BY <1>1, <1>7, Signal_Planned
<1> QED BY <1>2, <1>3, <1>4, <1>5, <1>6, <1>7 DEF Next

(* A run that displaced others by rollback, and knows one of their bases,     *)
(* executes on a history without their writes, and none come later: the plan  *)
(* is applied under the claim, and a displaced run that has not come to the   *)
(* engine by then never does.                                                *)
THEOREM DisplacedWritesDropped ==
  ASSUME Unfailing, Native = Runs PROVE Spec => []DisplacedWritesGone
<1>1. Init => History /\ Planned
  <2> SUFFICES ASSUME Init PROVE Planned
    BY HistoryInit
  <2>1. \A r \in Runs : /\ exec[r].pc = "none" /\ exec[r].mode = "none"
                        /\ plan[r].revert = "none" /\ plan[r].rows = {}
                        /\ creator[r].pc = "none" /\ creator[r].seen[r] = "none"
    BY DEF Init, NoExecution, NoPlan, NoCreation
  <2>2. "none" \notin Over \cup EngineSteps
    BY DEF Over, EngineSteps
  <2> QED BY <2>1, <2>2 DEF Planned, Finished, Choosing, Chosen, Plans, Gone
<1>2. IInv /\ Core /\ IInv' /\ History /\ Planned /\ [Next]_vars => (History /\ Planned)'
  BY NextHistory, NextPlanned DEF Unfailing
<1>3. IInv /\ Planned => DisplacedWritesGone
  BY HistTyped DEF IInv, Planned, Gone, DisplacedWritesGone
<1> QED BY <1>1, <1>2, <1>3, SettlementInvariant, PTL DEF Spec

-----------------------------------------------------------------------------
(* What a rollback leaves: the turns before the one it is aimed at.           *)

(* Serial deployments where nothing crashes and no run is deleted.            *)
Ordered == Serial /\ MaxCrashes = 0 /\ Deletable = {}

(* s was inserted before r; what s wrote is no later than base b, and s has   *)
(* left the engine.                                                          *)
Precedes(s, r) == \E k \in 1..Len(order) : \E j \in 1..k - 1 : order[j] = s /\ order[k] = r
Behind(s, b) == b # "none" => exec[s].pc \notin Begins /\ Covers(s, b)

(* The order lists each row once, and no row goes.                            *)
Placed ==
  /\ \A j, k \in 1..Len(order) : order[j] = order[k] => j = k
  /\ \A k \in 1..Len(order) : row[order[k]] # "absent"
  /\ \A r \in Runs : row[r] # "absent" => \E k \in 1..Len(order) : order[k] = r
  /\ \A r \in Runs : row[r] = "absent" => plan[r].revert = "none"
Undeleted == \A r \in Runs : row[r] # "deleted" /\ deleter[r] = "none"

(* A run succeeds finished ones: while one of them is in the engine it has     *)
(* written nothing, and they are behind whatever base is known of it.         *)
Succeeds(s, r) ==
  /\ row[s] \notin Active /\ (exec[s].pc \in Begins => ~Wrote(r))
  /\ Behind(s, exec[r].note) /\ Behind(s, stored[r]) /\ Behind(s, canceller[r].base)
Succession == \A s, r \in Runs : Precedes(s, r) => Succeeds(s, r)

(* The base of a plan spares whoever precedes the displaced runs.              *)
Spares(c) ==
  creator[c].by = "rollback" /\ creator[c].pc = "insert" /\ creator[c].revert # "none" =>
    \E d \in creator[c].todo :
      row[d] # "absent" /\ \A s \in Runs : Precedes(s, d) => Behind(s, creator[c].revert)
Heeding ==
  /\ \A c \in Runs : Spares(c)
  /\ \A c \in Runs : \A s \in Runs \ plan[c].rows : Precedes(s, c) => Behind(s, plan[c].revert)

LEMMA OrderTyped ==
  ASSUME TypeOK
  PROVE  /\ order \in Seq(Runs) /\ Len(order) \in Nat /\ \A k \in 1..Len(order) : order[k] \in Runs
BY DEF TypeOK, TypeStore

LEMMA PrecedesOthers ==
  ASSUME TypeOK, Placed, NEW s, NEW r, Precedes(s, r)
  PROVE  s # r /\ s \in Runs /\ r \in Runs /\ row[s] # "absent"
<1>1. PICK k \in 1..Len(order) : \E j \in 1..k - 1 : order[j] = s /\ order[k] = r
  BY DEF Precedes
<1>2. PICK j \in 1..k - 1 : order[j] = s /\ order[k] = r
  BY <1>1
<1>3. Len(order) \in Nat /\ j \in 1..Len(order) /\ j # k
  BY <1>1, <1>2, OrderTyped
<1> QED BY <1>1, <1>2, <1>3, OrderTyped DEF Placed

(* Of two rows one is the earlier.                                            *)
LEMMA InOrder ==
  ASSUME TypeOK, Placed, NEW s \in Runs, NEW r \in Runs, s # r, row[s] # "absent", row[r] # "absent"
  PROVE  Precedes(s, r) \/ Precedes(r, s)
<1>1. PICK j \in 1..Len(order) : order[j] = s
  BY DEF Placed
<1>2. PICK k \in 1..Len(order) : order[k] = r
  BY DEF Placed
<1>3. Len(order) \in Nat /\ j # k
  BY <1>1, <1>2, OrderTyped
<1>4. CASE j < k
  <2>1. j \in 1..k - 1
    BY <1>3, <1>4
  <2> QED BY <1>1, <1>2, <2>1 DEF Precedes
<1>5. CASE k < j
  <2>1. k \in 1..j - 1
    BY <1>3, <1>5
  <2> QED BY <1>1, <1>2, <2>1 DEF Precedes
<1> QED BY <1>3, <1>4, <1>5

LEMMA BehindKept ==
  ASSUME Faithful, NEW s \in Runs, NEW b, Moves(s), row[s] \notin Active \cup {"absent"}, Behind(s, b)
  PROVE  Behind(s, b)'
<1> SUFFICES ASSUME b # "none" PROVE Behind(s, b)'
  BY DEF Behind
<1>1. exec[s].pc \notin Begins /\ Covers(s, b)
  BY DEF Behind
<1>2. exec'[s].pc \notin Begins
  BY <1>1 DEF Moves, Begins, Begun, EngineSteps
<1>3. Covers(s, b)'
  BY <1>1 DEF Faithful, Begins, EngineSteps
<1> QED BY <1>2, <1>3 DEF Behind

(* Everything written is behind the tip.                                      *)
LEMMA BehindTip ==
  ASSUME TypeOK, Distinct, NEW s PROVE Covers(s, Tip)
<1>1. hist \in Seq(Runs) /\ Len(hist) \in Nat /\ \A k \in 1..Len(hist) : hist[k] \in Runs
  BY HistTyped
<1> SUFFICES ASSUME NEW k \in 1..Len(hist), hist[k] = s
             PROVE  Tip # "empty" /\ \A m \in 1..Len(hist) : hist[m] = Tip => k <= m
  BY DEF Covers
<1>2. hist # <<>> /\ Len(hist) \in 1..Len(hist)
  BY <1>1
<1>3. Tip = hist[Len(hist)]
  BY <1>2 DEF Tip, Last
<1>4. Tip # "empty"
  BY <1>1, <1>2, <1>3, ConstantsAssumption
<1>5. ASSUME NEW m \in 1..Len(hist), hist[m] = Tip PROVE k <= m
  <2>1. m = Len(hist)
    BY <1>2, <1>3, <1>5 DEF Distinct
  <2> QED BY <1>1, <2>1
<1> QED BY <1>4, <1>5

(* A rollback keeps what is behind its base.                                  *)
LEMMA CoveredStays ==
  ASSUME TypeOK, NEW b \in Recorded, NEW s, b = "none" \/ Covers(s, b), Wrote(s),
         hist' = RevertedTo(b)
  PROVE  Wrote(s)'
<1>1. PICK n \in 0..Len(hist) :
         /\ Kept(hist', n)
         /\ b = "empty" => n = 0
         /\ b # "empty" /\ (\A k \in 1..Len(hist) : hist[k] # b) => n = Len(hist)
         /\ b # "empty" /\ (\E k \in 1..Len(hist) : hist[k] = b) => n > 0 /\ hist[n] = b
  BY RevertedKeeps
<1>2. Len(hist) \in Nat /\ n \in Nat /\ \A k \in 1..Len(hist) : hist[k] \in Runs
  BY HistTyped
<1>3. PICK k \in 1..Len(hist) : hist[k] = s
  BY DEF Wrote
<1>4. k <= n
  <2>1. CASE b = "none"
    <3>1. b # "empty" /\ \A l \in 1..Len(hist) : hist[l] # b
      BY <1>2, <2>1, ConstantsAssumption
    <3> QED BY <1>1, <1>2, <3>1
  <2>2. CASE Covers(s, b)
    <3>1. b # "empty" /\ \A m \in 1..Len(hist) : hist[m] = b => k <= m
      BY <1>3, <2>2 DEF Covers
    <3>2. CASE \A l \in 1..Len(hist) : hist[l] # b
      BY <1>1, <1>2, <3>1, <3>2
    <3>3. CASE \E l \in 1..Len(hist) : hist[l] = b
      <4>1. n > 0 /\ hist[n] = b
        BY <1>1, <3>1, <3>3
      <4>2. n \in 1..Len(hist)
        BY <1>2, <4>1
      <4> QED BY <3>1, <4>1, <4>2
    <3> QED BY <3>2, <3>3
  <2> QED BY <2>1, <2>2
<1>5. k \in 1..n /\ hist'[k] = s /\ Len(hist') = n
  BY <1>1, <1>2, <1>3, <1>4 DEF Kept
<1> QED BY <1>5 DEF Wrote

(* Steps that insert no row.                                                  *)
LEMMA SuccessionKept ==
  ASSUME Native = Runs, IInv, History, Faithful, Placed, Succession,
         UNCHANGED order, \A s \in Runs : Moves(s) /\ RowMoves(s)
  PROVE  Succession'
<1> USE DEF IInv
<1> SUFFICES ASSUME NEW s \in Runs, NEW r \in Runs, Precedes(s, r) PROVE Succeeds(s, r)'
  BY DEF Succession, Precedes
<1>1. Succeeds(s, r) /\ s # r /\ row[s] \notin Active \cup {"absent"}
  BY PrecedesOthers DEF Succession, Succeeds
<1>2. row'[s] \notin Active
  BY <1>1, Statuses DEF RowMoves
<1>3. exec'[s].pc \in Begins => exec[s].pc \in Begins
  BY <1>1 DEF Moves, Begins, Begun, EngineSteps
<1>4. exec'[s].pc \in Begins => ~Wrote(r)'
  <2> SUFFICES ASSUME exec[s].pc \in Begins PROVE ~Wrote(r)'
    BY <1>3
  <2>1. exec[r].pc # "graph"
    BY <1>1 DEF Claimed, Holding, Begins, EngineSteps
  <2> QED BY <1>1, <2>1 DEF Succeeds, Faithful
<1>5. \A b : Behind(s, b) => Behind(s, b)'
  BY <1>1, BehindKept
<1>6. Behind(s, "none")'
  BY DEF Behind
<1>7. CASE Tells(r)
  BY <1>1, <1>2, <1>4, <1>5, <1>6, <1>7 DEF Tells, Succeeds
<1>8. CASE Learns(r)
  <2>1. exec[s].pc \notin Begins
    BY <1>1, <1>8 DEF Learns, Claimed, Holding, Begins, EngineSteps
  <2>2. Behind(s, Tip)
    BY <2>1, BehindTip DEF Behind, History
  <2> QED BY <1>1, <1>2, <1>4, <1>5, <1>8, <2>2 DEF Learns, Succeeds
<1> QED BY <1>7, <1>8 DEF Faithful

LEMMA PlacedKept ==
  ASSUME Placed, NoneInserted, UNCHANGED <<order, plan>>, \A s \in Runs : RowMoves(s), TypeOK
  PROVE  Placed'
<1>1. \A k \in 1..Len(order) : row'[order[k]] # "absent"
  BY OrderTyped, Statuses DEF Placed, RowMoves
<1>2. \A r \in Runs : row'[r] = "absent" <=> row[r] = "absent"
  BY Statuses DEF NoneInserted, RowMoves
<1> QED BY <1>1, <1>2 DEF Placed

LEMMA SparesKept ==
  ASSUME TypeOK, Faithful, Placed, Succession, NEW c \in Runs, Spares(c),
         creator'[c] = creator[c], UNCHANGED order, \A s \in Runs : Moves(s) /\ RowMoves(s)
  PROVE  Spares(c)'
<1> SUFFICES ASSUME creator[c].by = "rollback", creator[c].pc = "insert", creator[c].revert # "none"
             PROVE  \E d \in creator[c].todo :
                      /\ row'[d] # "absent"
                      /\ \A s \in Runs : Precedes(s, d) => Behind(s, creator[c].revert)'
  BY DEF Spares, Precedes
<1>1. PICK b : b = creator[c].revert
  OBVIOUS
<1>2. PICK d \in creator[c].todo :
        row[d] # "absent" /\ \A s \in Runs : Precedes(s, d) => Behind(s, b)
  BY <1>1 DEF Spares
<1>4. d \in Runs
  BY Shapes DEF Creation
<1>5. row'[d] # "absent"
  BY <1>2, <1>4, Statuses DEF RowMoves
<1>3. ASSUME NEW s \in Runs, Precedes(s, d) PROVE Behind(s, b)'
  <2>1. row[s] \notin Active \cup {"absent"} /\ Behind(s, b)
    BY <1>2, <1>3, PrecedesOthers DEF Succession, Succeeds
  <2> QED BY <2>1, BehindKept
<1> QED BY <1>1, <1>3, <1>5

LEMMA HeedingKept ==
  ASSUME TypeOK, Faithful, Placed, Succession, Heeding, \A c \in Runs : Spares(c)',
         UNCHANGED <<order, plan>>, \A s \in Runs : Moves(s)
  PROVE  Heeding'
<1> SUFFICES ASSUME NEW c \in Runs, NEW s \in Runs \ plan[c].rows, Precedes(s, c)
             PROVE  Behind(s, plan[c].revert)'
  BY DEF Heeding, Precedes
<1>1. PICK b : b = plan[c].revert
  OBVIOUS
<1>2. row[s] \notin Active \cup {"absent"} /\ Behind(s, b)
  BY <1>1, PrecedesOthers DEF Succession, Succeeds, Heeding
<1>3. Behind(s, b)'
  BY <1>2, BehindKept
<1> QED BY <1>1, <1>3


(* No native row is deleted but by a client.                                  *)
NoneDeleted == \A s \in Runs : row'[s] = "deleted" => row[s] = "deleted"

LEMMA NextUndeleted ==
  ASSUME Native = Runs, Deletable = {}, IInv, Core, Undeleted, [Next]_vars PROVE Undeleted'
<1> USE DEF IInv
<1>1. row \in [Runs -> RowStatus]
  BY Shapes
<1>2. ASSUME UNCHANGED deleter, NoneDeleted PROVE Undeleted'
  BY <1>2 DEF Undeleted, NoneDeleted
<1>3. ASSUME UNCHANGED <<row, deleter>> PROVE Undeleted'
  BY <1>2, <1>3 DEF NoneDeleted
<1>4. ASSUME NEW S, NEW st, Settle(S, st), st # "deleted" PROVE NoneDeleted
  BY <1>4 DEF Settle, NoneDeleted
<1>5. ASSUME NEW r \in Runs, EngineStep(r) PROVE Undeleted'
  <2>1. UNCHANGED deleter
    BY <1>5 DEF EngineStep, StartInline, Enqueue, Pull, Reread, ApplyPlan, Check, MarkRunning,
       MirrorBusy, RecordBase, GraphWrite, GraphReturn, GraphThrow, FinalizeRead, FinalizeWrite,
       FinalizeWithDelivery, SettleNative, Mirror, Close, Rest
  <2>2. NoneDeleted
    <3>1. CASE ApplyPlan(r)
      BY <3>1 DEF ApplyPlan, NoneDeleted
    <3>2. CASE MarkRunning(r)
      <4>1. (UNCHANGED row) \/ SetStatus(r, "running")
        BY <3>2 DEF MarkRunning
      <4> QED BY <1>1, <4>1 DEF SetStatus, NoneDeleted
    <3>3. CASE SettleNative(r)
      <4>1. (UNCHANGED row) \/ Settle({r}, exec[r].out)
        BY <3>3 DEF SettleNative
      <4>2. exec[r].out # "deleted"
        BY <3>3, Statuses DEF SettleNative, Settling
      <4> QED BY <1>4, <4>1, <4>2 DEF NoneDeleted
    <3>4. ~(FinalizeRead(r) \/ FinalizeWrite(r) \/ FinalizeWithDelivery(r))
      BY DEF FinalizeRead, FinalizeWrite, FinalizeWithDelivery, Core, Admissions
    <3>5. CASE ~(ApplyPlan(r) \/ MarkRunning(r) \/ SettleNative(r))
      <4>1. UNCHANGED row
        BY <1>5, <3>4, <3>5 DEF EngineStep, StartInline, Enqueue, Pull, Reread, Check, MirrorBusy,
           RecordBase, GraphWrite, GraphReturn, GraphThrow, Mirror, Close, store
      <4> QED BY <4>1 DEF NoneDeleted
    <3> QED BY <3>1, <3>2, <3>3, <3>5
  <2> QED BY <1>2, <2>1, <2>2
<1>6. ASSUME NEW c \in Runs,
             \/ CreateStep(c)
             \/ \E i \in Instances : CreateIfIdle(c, i) \/ \E s \in Strategies : ListActive(c, i, s)
      PROVE  Undeleted'
  <2>1. UNCHANGED deleter
    BY <1>6 DEF CreateStep, CreateIfIdle, ListActive, ReadBases, DisplaceRow, DisplaceStop, InsertRow,
       Admit
  <2>2. CASE \E i \in Instances : CreateIfIdle(c, i)
    <3>1. row' = [row EXCEPT ![c] = "pending"]
      BY <2>2 DEF CreateIfIdle
    <3> QED BY <1>1, <1>2, <2>1, <3>1 DEF NoneDeleted
  <2>3. CASE Admit(c)
    <3>1. DisplacedStatus(c) # "deleted"
      BY DEF DisplacedStatus
    <3> QED BY <1>2, <2>1, <2>3, <3>1 DEF Admit, NoneDeleted
  <2>4. ~(InsertRow(c) \/ DisplaceRow(c))
    BY DEF InsertRow, DisplaceRow, CreatorAt, Core, Admissions
  <2>5. CASE ReadBases(c) \/ DisplaceStop(c) \/ \E i \in Instances, s \in Strategies : ListActive(c, i, s)
    BY <1>3, <2>1, <2>5 DEF ReadBases, DisplaceStop, ListActive, store
  <2> QED BY <1>6, <2>2, <2>3, <2>4, <2>5 DEF CreateStep
<1>7. ASSUME NEW r \in Runs,
             CancelStep(r) \/ \E i \in Instances : \E m \in CancelModes : CancelRead(r, i, m)
      PROVE  Undeleted'
  <2>1. UNCHANGED deleter
    BY <1>7 DEF CancelStep, CancelBase, CancelWrite, CancelIdle, CancelAbort, CancelClaimed, CancelRead
  <2>2. (UNCHANGED row) \/ Settle({r}, "cancelled")
    BY <1>7 DEF CancelStep, CancelBase, CancelWrite, CancelIdle, CancelAbort, CancelClaimed, CancelRead,
       store
  <2> QED BY <1>2, <1>3, <1>4, <2>1, <2>2
<1>8. ASSUME NEW r \in Runs,
             \/ PersistBase(r) \/ Timeout(r) \/ Observe(r) \/ DeleteRow(r)
             \/ (\E i \in Instances : DeleteAbort(r, i)) \/ (\E why \in Reasons : DeliverAbort(r, why))
      PROVE  Undeleted'
  <2>1. UNCHANGED <<row, deleter>>
    BY <1>8 DEF PersistBase, Timeout, Observe, DeleteRow, DeleteAbort, DeliverAbort, Rest, store, Undeleted
  <2> QED BY <1>3, <2>1
<1>9. ASSUME NEW i \in Instances, Acquire(i) \/ Crash(i) PROVE Undeleted'
  BY <1>3, <1>9 DEF Acquire, Crash, store
<1>10. CASE UNCHANGED vars
  BY <1>3, <1>10 DEF vars, store
<1> QED BY <1>5, <1>6, <1>7, <1>8, <1>9, <1>10 DEF Next

(* How executions move while nothing crashes.                                 *)
LEMMA NextMoves ==
  ASSUME MaxCrashes = 0, IInv, Core, [Next]_vars PROVE \A s \in Runs : Moves(s)
<1> USE DEF IInv
<1>1. row \in [Runs -> RowStatus] /\ exec \in [Runs -> Execution]
  BY Shapes
<1>2. (UNCHANGED row) => NoneActivated
  BY DEF NoneActivated
<1>3. ASSUME NEW r \in Runs, EngineStep(r) PROVE \A s \in Runs : Moves(s)
  BY <1>3, ReachMoves, StartMoves, EngineMoves DEF EngineStep
<1>4. ASSUME NEW r \in Runs,
             CancelStep(r) \/ \E i \in Instances : \E m \in CancelModes : CancelRead(r, i, m)
      PROVE  \A s \in Runs : Moves(s)
  <2>1. \E why : exec' \in {exec, Aborted(r, why)}
    BY <1>4 DEF CancelStep, CancelBase, CancelWrite, CancelIdle, CancelAbort, CancelClaimed, CancelRead,
       Abort
  <2>2. \A s \in Runs : exec'[s].pc = exec[s].pc
    BY <2>1, AbortedModes
  <2>3. \/ UNCHANGED row
        \/ Settle({r}, "cancelled") \/ SetStatus(r, "cancelled") \/ row' = [row EXCEPT ![r] = "deleted"]
    BY <1>4 DEF CancelStep, CancelBase, CancelWrite, CancelIdle, CancelAbort, CancelClaimed, CancelRead,
       store
  <2>4. {"cancelled", "deleted"} \cap Active = {}
    BY DEF Active
  <2>5. NoneActivated
    BY <1>1, <1>2, <2>3, <2>4 DEF Settle, SetStatus, NoneActivated
  <2> QED BY <2>2, <2>5, StillMoves
<1>5. ASSUME NEW r \in Runs,
             \/ PersistBase(r) \/ Timeout(r) \/ Observe(r) \/ DeleteRow(r)
             \/ (\E why \in Reasons : DeliverAbort(r, why)) \/ (\E i \in Instances : DeleteAbort(r, i))
      PROVE  \A s \in Runs : Moves(s)
  BY <1>5, SignalMoves
<1>6. ASSUME NEW c \in Runs,
             \/ CreateStep(c)
             \/ \E i \in Instances : CreateIfIdle(c, i) \/ \E s \in Strategies : ListActive(c, i, s)
      PROVE  \A s \in Runs : Moves(s)
  BY <1>6, CreateMoves
<1>7. ASSUME NEW i \in Instances, Acquire(i) PROVE \A s \in Runs : Moves(s)
  <2>1. /\ UNCHANGED row
        /\ \E r \in Runs :
              \/ /\ exec[r].pc = "waiting" /\ exec'[r].pc = "claimed"
                 /\ \A s \in Runs \ {r} : exec'[s] = exec[s]
              \/ UNCHANGED exec
    BY <1>7, Granted
  <2>2. {"waiting", "claimed"} \cap (EngineSteps \cup {"done", "revert"}) = {}
    BY DEF EngineSteps
  <2> QED BY <2>1, <2>2 DEF Moves
<1>8. ASSUME NEW i \in Instances, Crash(i) PROVE \A s \in Runs : Moves(s)
  <2>1. crashes \in 0..0 /\ crashes < 0
    BY <1>8 DEF Crash, TypeOK, TypeThread
  <2> QED BY <2>1
<1>9. CASE UNCHANGED vars
  BY <1>2, <1>9, StillMoves DEF vars, store
<1> QED BY <1>3, <1>4, <1>5, <1>6, <1>7, <1>8, <1>9 DEF Next


(* A new row comes last.                                                      *)
LEMMA InsertedLast ==
  ASSUME TypeOK, Placed, NEW c \in Runs, row[c] = "absent", order' = Append(order, c)
  PROVE  /\ \A s, r : Precedes(s, r)' =>
              Precedes(s, r) \/ (r = c /\ s # c /\ s \in Runs /\ row[s] # "absent")
         /\ \A s : ~Precedes(s, c)
<1>1. order \in Seq(Runs) /\ Len(order) \in Nat /\ \A k \in 1..Len(order) : order[k] \in Runs
  BY OrderTyped
<1>2. /\ Len(order') = Len(order) + 1 /\ order'[Len(order) + 1] = c
      /\ \A k \in 1..Len(order) : order'[k] = order[k]
  BY <1>1
<1>3. \A k \in 1..Len(order) : order[k] # c /\ row[order[k]] # "absent"
  BY DEF Placed
<1>4. ASSUME NEW s, NEW r, Precedes(s, r)'
      PROVE  Precedes(s, r) \/ (r = c /\ s # c /\ s \in Runs /\ row[s] # "absent")
  <2>1. PICK k \in 1..Len(order') : \E j \in 1..k - 1 : order'[j] = s /\ order'[k] = r
    BY <1>4 DEF Precedes
  <2>2. PICK j \in 1..k - 1 : order'[j] = s /\ order'[k] = r
    BY <2>1
  <2>3. j \in 1..Len(order) /\ order[j] = s
    BY <1>1, <1>2, <2>1, <2>2
  <2>4. CASE k = Len(order) + 1
    BY <1>1, <1>2, <1>3, <2>2, <2>3, <2>4
  <2>5. CASE k \in 1..Len(order)
    BY <1>2, <2>2, <2>3, <2>5 DEF Precedes
  <2> QED BY <1>1, <1>2, <2>1, <2>4, <2>5
<1>5. \A s : ~Precedes(s, c)
  BY <1>3 DEF Precedes
<1> QED BY <1>4, <1>5

LEMMA Insert_Placed ==
  ASSUME TypeOK, Placed, NEW c \in Runs, row[c] = "absent", order' = Append(order, c),
         row'[c] # "absent",
         \A s \in Runs \ {c} : /\ row'[s] = "absent" <=> row[s] = "absent"
                              /\ plan'[s] = plan[s]
  PROVE  Placed'
<1>1. order \in Seq(Runs) /\ Len(order) \in Nat /\ \A k \in 1..Len(order) : order[k] \in Runs
  BY OrderTyped
<1>2. /\ Len(order') = Len(order) + 1 /\ order'[Len(order) + 1] = c
      /\ \A k \in 1..Len(order) : order'[k] = order[k]
  BY <1>1
<1>3. \A k \in 1..Len(order) : order[k] # c /\ row[order[k]] # "absent"
  BY DEF Placed
<1>4. \A k \in 1..Len(order') : k \in 1..Len(order) \/ k = Len(order) + 1
  BY <1>1, <1>2
<1>5. \A j, k \in 1..Len(order') : order'[j] = order'[k] => j = k
  BY <1>2, <1>3, <1>4 DEF Placed
<1>6. \A k \in 1..Len(order') : row'[order'[k]] # "absent"
  BY <1>1, <1>2, <1>3, <1>4
<1>7. ASSUME NEW r \in Runs, row'[r] # "absent" PROVE \E k \in 1..Len(order') : order'[k] = r
  <2>1. CASE r = c
    <3>1. Len(order) + 1 \in 1..Len(order')
      BY <1>1, <1>2
    <3> QED BY <1>2, <2>1, <3>1
  <2>2. CASE r # c
    <3>1. PICK k \in 1..Len(order) : order[k] = r
      BY <1>7, <2>2 DEF Placed
    <3>2. k \in 1..Len(order') /\ order'[k] = r
      BY <1>1, <1>2, <3>1
    <3> QED BY <3>2
  <2> QED BY <2>1, <2>2
<1>8. \A r \in Runs : row'[r] = "absent" => plan'[r].revert = "none"
  BY DEF Placed
<1> QED BY <1>5, <1>6, <1>7, <1>8 DEF Placed

(* The new run succeeds all others: they are finished, and nothing is known   *)
(* of it yet.                                                                *)
LEMMA Insert_Succession ==
  ASSUME IInv, Core, History, Placed, Succession, NEW c \in Runs, NEW i, Insert(c, i), Creating(c),
         UNCHANGED <<hist, stored, canceller>>,
         \A s \in Runs \ {c} : row'[s] \notin Active
  PROVE  /\ Succession'
         /\ \A s \in Runs \ {c} : \A b : Behind(s, b) => Behind(s, b)'
<1> USE DEF IInv
<1>1. /\ exec'[c].pc = "prepared" /\ exec'[c].note = "none" /\ exec[c] = NoExecution
      /\ \A s \in Runs \ {c} : exec'[s] = exec[s]
      /\ row[c] = "absent" /\ canceller[c] = NoCancellation
  BY Shapes DEF Insert, NoExecution, Core, Unborn
<1>2. ~Wrote(c) /\ stored[c] = "none" /\ canceller[c].base = "none"
  <2>1. exec[c].pc \notin Past
    BY <1>1, Nothing DEF Past, Through, Late
  <2> QED BY <2>1 DEF History, Unwritten, KnownTo, Known
<1>3. \A s, b : (Covers(s, b)' <=> Covers(s, b)) /\ (Wrote(s)' <=> Wrote(s))
  BY DEF Covers, Wrote
<1>4. ASSUME NEW s \in Runs \ {c}, NEW b, Behind(s, b) PROVE Behind(s, b)'
  BY <1>1, <1>3, <1>4 DEF Behind
<1>5. ASSUME NEW s \in Runs, NEW r \in Runs, Precedes(s, r)' PROVE Succeeds(s, r)'
  <2>1. CASE r = c /\ s # c
    <3>1. Behind(s, exec[c].note)' /\ Behind(s, stored[c])' /\ Behind(s, canceller[c].base)'
      BY <1>1, <1>2, <2>1 DEF Behind
    <3> QED BY <1>2, <1>3, <2>1, <3>1 DEF Succeeds
  <2>2. CASE Precedes(s, r)
    <3>1. Succeeds(s, r) /\ s # c /\ r # c
      BY <1>1, <2>2, PrecedesOthers, InsertedLast DEF Succession, Insert
    <3>2. exec'[s] = exec[s] /\ exec'[r] = exec[r]
      BY <1>1, <3>1
    <3> QED BY <1>3, <1>4, <3>1, <3>2 DEF Succeeds
  <2> QED BY <1>1, <1>5, <2>1, <2>2, InsertedLast DEF Insert
<1> QED BY <1>4, <1>5 DEF Succession

(* The new run's plan spares whoever it does not displace.                    *)
LEMMA Insert_Heeding ==
  ASSUME IInv, Core, History, Placed, Succession, Heeding, \A d \in Runs : Spares(d)',
         NEW c \in Runs, NEW i, Insert(c, i), Creating(c), UNCHANGED <<hist, stored, canceller>>,
         \A s \in Runs \ {c} : row'[s] \notin Active /\ plan'[s] = plan[s],
         \A s \in Runs \ {c} : s \notin plan'[c].rows /\ row[s] # "absent" => Behind(s, plan'[c].revert)
  PROVE  Heeding'
<1> USE DEF IInv
<1>1. \A s \in Runs \ {c} : \A b : Behind(s, b) => Behind(s, b)'
  BY Insert_Succession
<1>2. row[c] = "absent" /\ order' = Append(order, c)
  BY DEF Insert, Core, Unborn
<1> SUFFICES ASSUME NEW d \in Runs, NEW s \in Runs \ plan'[d].rows, Precedes(s, d)'
             PROVE  Behind(s, plan[d].revert)'
  BY DEF Heeding
<1>3. PICK b : b = plan'[d].revert
  OBVIOUS
<1>4. Behind(s, b) /\ s # c
  <2>1. CASE d = c /\ s # c /\ row[s] # "absent"
    BY <1>3, <2>1
  <2>2. CASE Precedes(s, d)
    <3>1. s # c /\ d # c
      BY <1>2, <2>2, PrecedesOthers, InsertedLast
    <3> QED BY <1>3, <2>2, <3>1 DEF Heeding
  <2> QED BY <1>2, <2>1, <2>2, InsertedLast
<1>5. Behind(s, b)'
  BY <1>1, <1>4
<1> QED BY <1>3, <1>5

LEMMA ReadBases_Spares ==
  ASSUME IInv, Core, History, Choosing, Faithful, Placed, Succession,
         \A s \in Runs : Moves(s) /\ RowMoves(s), NEW c \in Runs, ReadBases(c)
  PROVE  Spares(c)'
<1> USE DEF IInv
<1>1. PICK base \in Recorded :
        /\ LastBase(base, Snapshot(c), creator[c].at)
        /\ creator' = [creator EXCEPT
             ![c].revert = base, ![c].pc = IF c \in Native THEN "insert" ELSE "displace"]
  BY DEF ReadBases
<1>2. /\ creator'[c].revert = base /\ creator'[c].todo = creator[c].todo
      /\ creator'[c].by = creator[c].by /\ creator[c].pc = "bases" /\ UNCHANGED <<order, exec>>
  BY <1>1, Shapes DEF Creation, ReadBases, CreatorAt, store
<1> SUFFICES ASSUME creator[c].by = "rollback", base # "none"
             PROVE  \E d \in creator[c].todo :
                      /\ row'[d] # "absent"
                      /\ \A s \in Runs : Precedes(s, d) => Behind(s, base)'
  BY <1>2 DEF Spares, Precedes
<1>3. PICK d \in Snapshot(c) : base = ReadBase(d, creator[c].at)
  BY <1>1 DEF LastBase
<1>4. d \in creator[c].todo /\ d \in Runs
  BY <1>2, <1>3 DEF Choosing, Chosen, Snapshot
<1>5. base \in {exec[d].note, stored[d]}
  BY <1>3 DEF ReadBase
<1>6. row[d] # "absent"
  <2>1. exec[d].pc \in Past
    BY <1>4, <1>5 DEF History, KnownTo, Known
  <2> QED BY <1>4, <2>1, Nothing DEF Core, Unborn, Past, Through, Late
<1>7. row'[d] # "absent"
  BY <1>4, <1>6, Statuses DEF RowMoves
<1>8. ASSUME NEW s \in Runs, Precedes(s, d) PROVE Behind(s, base)'
  <2>1. row[s] \notin Active \cup {"absent"} /\ Behind(s, base)
    BY <1>4, <1>5, <1>8, PrecedesOthers DEF Succession, Succeeds
  <2> QED BY <2>1, BehindKept
<1> QED BY <1>4, <1>7, <1>8

(* A creation that lists, reads bases or is answered.                         *)
LEMMA Create_Spares ==
  ASSUME Native = Runs, IInv, Core, History, Choosing, Faithful, Placed, Succession,
         \A s \in Runs : Moves(s) /\ RowMoves(s), NEW c \in Runs,
         \/ CreateStep(c)
         \/ \E i \in Instances : CreateIfIdle(c, i) \/ \E s \in Strategies : ListActive(c, i, s)
  PROVE  /\ Spares(c)'
         /\ \A d \in Runs \ {c} : creator'[d] = creator[d]
<1> USE DEF IInv
<1>1. creator \in [Runs -> Creation]
  BY Shapes
<1>2. Created.by = "none" /\ Created.pc = "done"
  BY DEF Created, NoCreation
<1>3. CASE InsertRow(c) \/ \E i \in Instances : CreateIfIdle(c, i)
  BY <1>1, <1>2, <1>3 DEF CreateIfIdle, InsertRow, Spares
<1>4. CASE DisplaceRow(c) \/ Admit(c)
  <2>1. creator' \in {[creator EXCEPT ![c] = Created], [creator EXCEPT ![c].pc = "stop"]}
    BY <1>4 DEF DisplaceRow, Admit
  <2>2. creator'[c].pc \in {"done", "stop"} /\ \A d \in Runs \ {c} : creator'[d] = creator[d]
    BY <1>1, <1>2, <2>1 DEF Creation
  <2> QED BY <2>2 DEF Spares
<1>5. CASE DisplaceStop(c)
  <2> DEFINE pc(d) == CASE c \in Native -> "stop"
                        [] c \notin Native /\ creator[c].todo \ {d} = {} -> "insert"
                        [] OTHER -> "displace"
  <2>1. PICK d \in Runs :
          creator' = [creator EXCEPT ![c] =
             IF c \in Native /\ creator[c].todo \ {d} = {} THEN Created
             ELSE [creator[c] EXCEPT !.todo = creator[c].todo \ {d}, !.pc = pc(d)]]
    BY <1>5 DEF DisplaceStop
  <2>2. pc(d) = "stop"
    OBVIOUS
  <2> HIDE DEF pc
  <2>3. creator'[c].pc \in {"done", "stop"} /\ \A e \in Runs \ {c} : creator'[e] = creator[e]
    BY <1>1, <1>2, <2>1, <2>2 DEF Creation
  <2> QED BY <2>3 DEF Spares
<1>6. CASE ReadBases(c)
  <2>1. \A d \in Runs \ {c} : creator'[d] = creator[d]
    BY <1>1, <1>6 DEF ReadBases
  <2> QED BY <1>6, <2>1, ReadBases_Spares
<1>7. CASE \E i \in Instances, s \in Strategies : ListActive(c, i, s)
  <2>1. PICK i \in Instances, s \in Strategies : ListActive(c, i, s)
    BY <1>7
  <2> DEFINE pc == CASE ActiveRuns = {} \/ s = "enqueue" -> "insert"
                     [] s = "rollback" -> "bases"
                     [] s = "interrupt" -> IF c \in Native THEN "insert" ELSE "displace"
             x == [NoCreation EXCEPT
                    !.pc = pc, !.at = i, !.by = s,
                    !.todo = IF s = "enqueue" THEN {} ELSE ActiveRuns,
                    !.seen = [r \in Runs |-> IF r \in ActiveRuns THEN row[r] ELSE "none"]]
  <2>2. creator' = [creator EXCEPT ![c] = x]
    BY <2>1 DEF ListActive
  <2>3. x.revert = "none"
    <3> HIDE DEF pc
    <3> QED BY DEF NoCreation
  <2> HIDE DEF pc, x
  <2>4. creator'[c].revert = "none" /\ \A d \in Runs \ {c} : creator'[d] = creator[d]
    BY <1>1, <2>2, <2>3
  <2> QED BY <2>4 DEF Spares
<1> QED BY <1>3, <1>4, <1>5, <1>6, <1>7 DEF CreateStep


LEMMA Insert_Spares ==
  ASSUME IInv, Core, History, Placed, Succession, NEW c \in Runs, NEW i, Insert(c, i), Creating(c),
         UNCHANGED <<hist, stored, canceller>>, \A s \in Runs \ {c} : row'[s] \notin Active,
         \A s \in Runs : RowMoves(s),
         NEW d \in Runs \ {c}, creator'[d] = creator[d], Spares(d)
  PROVE  Spares(d)'
<1> USE DEF IInv
<1>1. \A s \in Runs \ {c} : \A b : Behind(s, b) => Behind(s, b)'
  BY Insert_Succession
<1>2. row[c] = "absent" /\ order' = Append(order, c)
  BY DEF Insert, Core, Unborn
<1> SUFFICES ASSUME creator[d].by = "rollback", creator[d].pc = "insert", creator[d].revert # "none"
             PROVE  \E e \in creator[d].todo :
                      /\ row'[e] # "absent"
                      /\ \A s \in Runs : Precedes(s, e)' => Behind(s, creator[d].revert)'
  BY DEF Spares
<1>3. PICK b : b = creator[d].revert
  OBVIOUS
<1>4. PICK e \in creator[d].todo :
        row[e] # "absent" /\ \A s \in Runs : Precedes(s, e) => Behind(s, b)
  BY <1>3 DEF Spares
<1>5. e \in Runs /\ e # c
  BY <1>2, <1>4, Shapes DEF Creation
<1>6. row'[e] # "absent"
  BY <1>4, <1>5, Statuses DEF RowMoves
<1>7. ASSUME NEW s \in Runs, Precedes(s, e)' PROVE Behind(s, b)'
  <2>1. Precedes(s, e)
    BY <1>2, <1>5, <1>7, InsertedLast
  <2>2. s # c
    BY <1>2, <2>1, PrecedesOthers
  <2> QED BY <1>1, <1>4, <2>1, <2>2
<1> QED BY <1>3, <1>6, <1>7

Ranks == Placed /\ Succession /\ Heeding

(* A new row.                                                                 *)
LEMMA Insert_Ranks ==
  ASSUME Native = Runs, IInv, Core, History, Ranks, Single', NEW c \in Runs, NEW i, Insert(c, i),
         Creating(c), UNCHANGED <<hist, stored, canceller>>, row'[c] = "pending",
         \A s \in Runs \ {c} : creator'[s] = creator[s] /\ plan'[s] = plan[s],
         \A s \in Runs : RowMoves(s),
         \A s \in Runs \ {c} : row'[s] = "absent" <=> row[s] = "absent", Spares(c)',
         \A s \in Runs \ {c} : s \notin plan'[c].rows /\ row[s] # "absent" => Behind(s, plan'[c].revert)
  PROVE  Ranks'
<1> USE DEF Ranks
<1>1. row[c] = "absent" /\ order' = Append(order, c)
  BY DEF Insert, Core, Unborn
<1>2. \A s \in Runs \ {c} : row'[s] \notin Active
  BY DEF Single, Active
<1>3. Placed'
  BY <1>1, Insert_Placed DEF IInv
<1>4. Succession'
  BY <1>2, Insert_Succession
<1>5. \A d \in Runs : Spares(d)'
  BY <1>2, Insert_Spares DEF Heeding
<1>6. Heeding'
  BY <1>2, <1>5, Insert_Heeding
<1> QED BY <1>3, <1>4, <1>6

(* No new row.                                                                *)
LEMMA RanksKept ==
  ASSUME Native = Runs, IInv, History, Faithful, Ranks, NoneInserted, UNCHANGED <<order, plan>>,
         \A s \in Runs : Moves(s) /\ RowMoves(s), \A d \in Runs : Spares(d)'
  PROVE  Ranks'
BY PlacedKept, SuccessionKept, HeedingKept DEF Ranks, IInv

LEMMA SparesStand ==
  ASSUME TypeOK, Faithful, Ranks, UNCHANGED <<creator, order>>,
         \A s \in Runs : Moves(s) /\ RowMoves(s)
  PROVE  \A d \in Runs : Spares(d)'
BY SparesKept DEF Ranks, Heeding

(* Admission inserts after one active run, the one it displaces: whoever else *)
(* is there precedes that one.                                                *)
LEMMA Admit_Ranks ==
  ASSUME Native = Runs, IInv, Core, History, Choosing, Faithful, Ranks, Single',
         \A s \in Runs : Moves(s) /\ RowMoves(s), NEW c \in Runs, Admit(c)
  PROVE  Ranks'
<1> USE DEF IInv
<1>1. Creating(c) /\ row[c] = "absent" /\ creator[c].pc = "insert"
  BY DEF Admit, CreatorAt, Core, Unborn, Creating
<1>2. Spares(c)' /\ \A d \in Runs \ {c} : creator'[d] = creator[d]
  BY Create_Spares DEF CreateStep, Ranks
<1>3. CASE UNCHANGED <<row, plan, order>>
  <2>1. \A d \in Runs : Spares(d)'
    BY <1>2, <1>3, SparesKept DEF Ranks, Heeding
  <2> QED BY <1>3, <2>1, RanksKept DEF NoneInserted
<1>4. ASSUME creator[c].todo = {} \/ creator[c].todo = ActiveRuns,
             row' = [r \in Runs |-> IF r = c THEN "pending"
                       ELSE IF r \in creator[c].todo THEN DisplacedStatus(c) ELSE row[r]],
             plan' = [plan EXCEPT ![c] = PlanOf(c)], Insert(c, creator[c].at)
      PROVE  Ranks'
  <2>1. plan'[c] = PlanOf(c) /\ \A s \in Runs \ {c} : plan'[s] = plan[s]
    BY <1>4, Shapes
  <2>2. row'[c] = "pending" /\ \A s \in Runs \ {c} : row'[s] = "absent" <=> row[s] = "absent"
    <3>1. DisplacedStatus(c) # "absent"
      BY DEF DisplacedStatus
    <3>2. \A s \in creator[c].todo : row[s] # "absent"
      BY <1>4, Statuses DEF ActiveRuns
    <3> QED BY <1>4, <3>1, <3>2
  <2>3. ASSUME NEW s \in Runs \ {c}, s \notin PlanOf(c).rows, row[s] # "absent"
        PROVE  Behind(s, PlanOf(c).revert)
    <3>1. CASE PlanOf(c).revert = "none"
      BY <3>1 DEF Behind
    <3>2. CASE PlanOf(c).revert # "none"
      <4>1. /\ creator[c].by = "rollback" /\ PlanOf(c).revert = creator[c].revert
            /\ PlanOf(c).rows = Snapshot(c)
        BY <3>2 DEF PlanOf, NoPlan
      <4>2. PICK d \in creator[c].todo :
              row[d] # "absent" /\ \A t \in Runs : Precedes(t, d) => Behind(t, creator[c].revert)
        BY <1>1, <3>2, <4>1 DEF Ranks, Heeding, Spares
      <4>3. creator[c].todo = Snapshot(c) /\ creator[c].todo = ActiveRuns
        BY <1>1, <1>4, <4>1, <4>2 DEF Choosing, Chosen
      <4>4. d \in Runs /\ row[d] \in Active /\ d # s
        BY <2>3, <4>1, <4>2, <4>3 DEF ActiveRuns
      <4>5. ~Precedes(d, s)
        BY <4>4 DEF Ranks, Succession, Succeeds
      <4>6. Precedes(s, d)
        BY <2>3, <4>2, <4>4, <4>5, InOrder DEF Ranks
      <4> QED BY <4>1, <4>2, <4>6
    <3> QED BY <3>1, <3>2
  <2>4. UNCHANGED <<hist, stored, canceller>>
    BY DEF Admit
  <2> QED BY <1>1, <1>2, <1>4, <2>1, <2>2, <2>3, <2>4, Insert_Ranks
<1> QED BY <1>3, <1>4 DEF Admit

LEMMA Create_Ranks ==
  ASSUME Native = Runs, IInv, Core, History, Choosing, Faithful, Ranks, Single',
         \A s \in Runs : Moves(s) /\ RowMoves(s), NEW c \in Runs,
         \/ CreateStep(c)
         \/ \E i \in Instances : CreateIfIdle(c, i) \/ \E s \in Strategies : ListActive(c, i, s)
  PROVE  Ranks'
<1> USE DEF IInv
<1>1. Spares(c)' /\ \A d \in Runs \ {c} : creator'[d] = creator[d]
  BY Create_Spares DEF Ranks
<1>2. CASE ReadBases(c) \/ DisplaceStop(c) \/ \E i \in Instances, s \in Strategies : ListActive(c, i, s)
  <2>1. UNCHANGED <<row, order, plan>>
    BY <1>2 DEF ReadBases, DisplaceStop, ListActive, store
  <2>2. \A d \in Runs : Spares(d)'
    BY <1>1, <2>1, SparesKept DEF Ranks, Heeding
  <2> QED BY <2>1, <2>2, RanksKept DEF NoneInserted
<1>3. CASE \E i \in Instances : CreateIfIdle(c, i)
  <2>1. PICK i \in Instances : CreateIfIdle(c, i)
    BY <1>3
  <2>2. Creating(c) /\ Insert(c, i) /\ UNCHANGED <<plan, hist, stored, canceller>>
    BY <2>1 DEF CreateIfIdle, CreatorAt, Creating
  <2>3. row'[c] = "pending" /\ \A s \in Runs \ {c} : row'[s] = row[s]
    BY <2>1, Shapes DEF CreateIfIdle
  <2>4. plan'[c].revert = "none"
    BY <2>2 DEF Core, Unborn, Ranks, Placed
  <2>5. \A s : Behind(s, plan'[c].revert)
    BY <2>4 DEF Behind
  <2> QED BY <1>1, <2>2, <2>3, <2>5, Insert_Ranks
<1>4. CASE Admit(c)
  BY <1>4, Admit_Ranks
<1>5. ~(InsertRow(c) \/ DisplaceRow(c))
  BY DEF InsertRow, DisplaceRow, CreatorAt, Core, Admissions
<1> QED BY <1>2, <1>3, <1>4, <1>5 DEF CreateStep

LEMMA NextRanks ==
  ASSUME Ordered, IInv, IInv', Core, History, Choosing, Single', Ranks, [Next]_vars
  PROVE  Choosing' /\ Ranks'
<1> USE DEF IInv
<1>1. Native = Runs /\ MaxCrashes = 0
  BY DEF Ordered, Serial
<1>2. Faithful /\ \A s \in Runs : Moves(s) /\ RowMoves(s)
  BY <1>1, NextHistory, NextCore, NextMoves
<1>3. ASSUME UNCHANGED <<creator, order, plan>>, NoneInserted PROVE Choosing' /\ Ranks'
  BY <1>1, <1>2, <1>3, ChoosingStands, SparesStand, RanksKept
<1>4. ASSUME NEW r \in Runs, EngineStep(r) PROVE Choosing' /\ Ranks'
  <2>1. NoneInserted /\ UNCHANGED creator
    BY <1>4, EngineInsertsNone
  <2>2. UNCHANGED <<order, plan>>
    BY <1>4 DEF EngineStep, StartInline, Enqueue, Pull, Reread, ApplyPlan, Check, MarkRunning,
       MirrorBusy, RecordBase, GraphWrite, GraphReturn, GraphThrow, FinalizeRead, FinalizeWrite,
       FinalizeWithDelivery, SettleNative, Mirror, Close, store
  <2> QED BY <1>3, <2>1, <2>2
<1>5. ASSUME NEW r \in Runs,
             \/ CancelStep(r) \/ PersistBase(r) \/ Timeout(r) \/ Observe(r) \/ DeleteRow(r)
             \/ (\E i \in Instances : DeleteAbort(r, i) \/ \E m \in CancelModes : CancelRead(r, i, m))
             \/ (\E why \in Reasons : DeliverAbort(r, why))
      PROVE  Choosing' /\ Ranks'
  <2>1. NoneInserted /\ UNCHANGED creator
    BY <1>5, RequestInsertsNone
  <2>2. UNCHANGED <<order, plan>>
    BY <1>5 DEF CancelStep, CancelBase, CancelWrite, CancelIdle, CancelAbort, CancelClaimed, CancelRead,
       PersistBase, Timeout, Observe, DeleteRow, DeleteAbort, DeliverAbort, store
  <2> QED BY <1>3, <2>1, <2>2
<1>6. ASSUME NEW c \in Runs,
             \/ CreateStep(c)
             \/ \E i \in Instances : CreateIfIdle(c, i) \/ \E s \in Strategies : ListActive(c, i, s)
      PROVE  Choosing' /\ Ranks'
  BY <1>1, <1>2, <1>6, Create_Choosing, Create_Ranks
<1>7. ASSUME NEW i \in Instances, Acquire(i) PROVE Choosing' /\ Ranks'
  BY <1>3, <1>7 DEF Acquire, store, NoneInserted
<1>8. ASSUME NEW i \in Instances, Crash(i) PROVE Choosing' /\ Ranks'
  <2>1. crashes \in 0..0 /\ crashes < 0
    BY <1>1, <1>8 DEF Crash, TypeOK, TypeThread
  <2> QED BY <2>1
<1>9. CASE UNCHANGED vars
  BY <1>3, <1>9 DEF vars, store, NoneInserted
<1> QED BY <1>4, <1>5, <1>6, <1>7, <1>8, <1>9 DEF Next


LEMMA HistTyped_next ==
  ASSUME TypeOK' PROVE \A r : Wrote(r)' <=> r \in ToSet(hist')
<1>1. hist' \in Seq(Runs)
  BY DEF TypeOK, TypeThread
<1>2. DOMAIN hist' = 1..Len(hist')
  BY <1>1
<1> QED BY <1>2 DEF Wrote, ToSet

(* A plan: who comes after the new run has written nothing, who precedes it    *)
(* is behind the base or displaced.                                           *)
LEMMA ApplyPlan_Leaves ==
  ASSUME IInv, Core, History, Ranks, NEW c \in Runs, ApplyPlan(c),
         NEW d \in Runs, Wrote(d), ~Wrote(d)'
  PROVE  exec[c].pc = "revert" /\ d \in plan[c].rows
<1> USE DEF IInv
<1>1. exec[c].pc = "revert" /\ hist' \in {hist, RevertedTo(plan[c].revert)}
  BY DEF ApplyPlan
<1>2. hist' = RevertedTo(plan[c].revert) /\ plan[c].revert \in Recorded
  BY <1>1, Shapes DEF Wrote
<1>3. exec[c].pc \notin Past /\ exec[c].pc \in Begins
  BY <1>1 DEF Past, Through, Late, Begins
<1>4. exec[d].pc \in Past /\ d # c
  BY <1>3 DEF History, Unwritten
<1>5. row[c] # "absent" /\ row[d] # "absent"
  BY <1>1, <1>4, Nothing DEF Core, Unborn, Past, Through, Late
<1>6. ~Precedes(c, d)
  BY <1>3 DEF Ranks, Succession, Succeeds
<1>7. Precedes(d, c)
  BY <1>4, <1>5, <1>6, InOrder DEF Ranks
<1>8. SUFFICES ASSUME d \notin plan[c].rows PROVE FALSE
  BY <1>1
<1>9. Behind(d, plan[c].revert)
  BY <1>7, <1>8 DEF Ranks, Heeding
<1> QED BY <1>2, <1>9, CoveredStays DEF Behind

(* A cancel: the run is the latest, all others precede it.                    *)
LEMMA CancelClaimed_Leaves ==
  ASSUME Native = Runs, IInv, Core, History, Ranks, Undeleted, NEW r \in Runs, CancelClaimed(r),
         NEW d \in Runs, Wrote(d), ~Wrote(d)'
  PROVE  d = r /\ canceller[r].pc = "claimed" /\ canceller[r].mode = "rollback"
<1> USE DEF IInv
<1>1. /\ canceller[r].pc = "claimed"
      /\ \/ /\ canceller[r].mode = "rollback" /\ SafeToRevert(r)
            /\ hist' = RevertedTo(canceller[r].base)
         \/ UNCHANGED hist
  BY DEF CancelClaimed, CancelAt
<1>2. /\ canceller[r].mode = "rollback" /\ SafeToRevert(r)
      /\ hist' = RevertedTo(canceller[r].base) /\ canceller[r].base \in Recorded
  BY <1>1, Shapes DEF Wrote, Cancellation
<1>3. row[r] # "absent" /\ row[d] # "absent"
  BY <1>1, Nothing DEF Core, Unborn, History, Unwritten, Past, Through, Late
<1>4. \A s \in Runs : Exists(s) <=> row[s] # "absent"
  BY DEF Exists, Undeleted
<1>5. SUFFICES ASSUME d # r PROVE FALSE
  BY <1>1, <1>2
<1>6. ~Precedes(r, d)
  <2>1. IsLatest(r)
    BY <1>2, <1>3, <1>4 DEF SafeToRevert
  <2>2. PICK k \in DOMAIN order :
          order[k] = r /\ \A j \in (k + 1)..Len(order) : order[j] \notin {s \in Runs : Exists(s)}
    BY <2>1 DEF IsLatest, Newest
  <2>3. Len(order) \in Nat /\ k \in 1..Len(order)
    BY OrderTyped
  <2>4. \A j \in (k + 1)..Len(order) : FALSE
    <3> SUFFICES ASSUME NEW j \in (k + 1)..Len(order) PROVE FALSE
      OBVIOUS
    <3>1. j \in 1..Len(order)
      BY <2>3
    <3>2. order[j] \in Runs /\ row[order[j]] # "absent"
      BY <3>1, OrderTyped DEF Ranks, Placed
    <3> QED BY <1>4, <2>2, <3>2
  <2>5. k = Len(order)
    BY <2>3, <2>4
  <2> SUFFICES ASSUME NEW l \in 1..Len(order), NEW j \in 1..l - 1, order[j] = r PROVE FALSE
    BY DEF Precedes
  <2>6. j \in 1..Len(order) /\ j < Len(order)
    BY <2>3
  <2> QED BY <2>2, <2>3, <2>5, <2>6 DEF Ranks, Placed
<1>7. Precedes(d, r)
  BY <1>3, <1>5, <1>6, InOrder DEF Ranks
<1>8. Behind(d, canceller[r].base)
  BY <1>7 DEF Ranks, Succession, Succeeds
<1> QED BY <1>2, <1>8, CoveredStays DEF Behind

LEMMA NextLeaves ==
  ASSUME Native = Runs, IInv, Core, History, Ranks, Undeleted, [Next]_vars,
         NEW d \in Runs, Wrote(d), ~Wrote(d)'
  PROVE  \/ \E r \in Runs : exec[r].pc = "revert" /\ d \in plan[r].rows
         \/ canceller[d].pc = "claimed" /\ canceller[d].mode = "rollback"
<1> USE DEF IInv
<1>1. hist' # hist
  BY DEF Wrote
<1>2. ASSUME NEW r \in Runs PROVE ~GraphWrite(r)
  <2> SUFFICES ASSUME hist' = Append(hist, r) PROVE FALSE
    BY DEF GraphWrite
  <2>1. hist \in Seq(Runs) /\ Len(hist) \in Nat
    BY HistTyped
  <2>2. PICK k \in 1..Len(hist) : hist[k] = d
    BY DEF Wrote
  <2>3. k \in 1..Len(hist') /\ hist'[k] = d
    BY <2>1, <2>2
  <2> QED BY <2>3 DEF Wrote
<1>3. ASSUME NEW r \in Runs, EngineStep(r) PROVE ApplyPlan(r)
  BY <1>1, <1>2, <1>3 DEF EngineStep, StartInline, Enqueue, Pull, Reread, Check, MarkRunning,
     MirrorBusy, RecordBase, GraphReturn, GraphThrow, FinalizeRead, FinalizeWrite,
     FinalizeWithDelivery, SettleNative, Mirror, Close
<1>4. ASSUME NEW r \in Runs, CancelStep(r) PROVE CancelClaimed(r)
  BY <1>1, <1>4 DEF CancelStep, CancelBase, CancelWrite, CancelIdle, CancelAbort
<1>5. ~\E r \in Runs : \/ CreateStep(r) \/ PersistBase(r) \/ Timeout(r) \/ Observe(r) \/ DeleteRow(r)
                       \/ \E why \in Reasons : DeliverAbort(r, why)
  BY <1>1 DEF CreateStep, ReadBases, DisplaceRow, DisplaceStop, InsertRow, Admit, PersistBase, Timeout,
     Observe, DeleteRow, DeliverAbort
<1>6. ~\E r \in Runs, i \in Instances :
         \/ CreateIfIdle(r, i) \/ DeleteAbort(r, i)
         \/ \E s \in Strategies : ListActive(r, i, s)
         \/ \E m \in CancelModes : CancelRead(r, i, m)
  BY <1>1 DEF CreateIfIdle, DeleteAbort, ListActive, CancelRead
<1>7. ~(\E i \in Instances : Acquire(i) \/ Crash(i)) /\ ~UNCHANGED vars
  BY <1>1 DEF Acquire, Crash, vars
<1>8. \E r \in Runs : ApplyPlan(r) \/ CancelClaimed(r)
  BY <1>3, <1>4, <1>5, <1>6, <1>7 DEF Next
<1>9. PICK r \in Runs : ApplyPlan(r) \/ CancelClaimed(r)
  BY <1>8
<1> QED BY <1>9, ApplyPlan_Leaves, CancelClaimed_Leaves

(* With admitted runs, created one after the other, a checkpoint is dropped   *)
(* only by a rollback aimed at its own run: by then whoever came before is    *)
(* behind the base, and whoever comes after has not written. A plan is        *)
(* applied, and a cancel reverts the latest run, under the claim.             *)
THEOREM RollbacksSpareOthers == ASSUME Ordered PROVE Spec => OnlyRolledBackWritesRemoved
<1> DEFINE I == Locked /\ Single /\ History /\ Choosing /\ Ranks /\ Undeleted
<1>1. Init => I
  <2> SUFFICES ASSUME Init PROVE I
    OBVIOUS
  <2>1. \A r \in Runs : /\ creator[r] = NoCreation /\ row[r] = "absent" /\ deleter[r] = "none"
                        /\ plan[r].revert = "none"
    BY DEF Init, NoPlan
  <2>2. NoCreation.pc = "none" /\ NoCreation.at = "none" /\ \A r \in Runs : NoCreation.seen[r] = "none"
    BY DEF NoCreation
  <2>3. order = <<>> /\ Len(order) = 0
    BY DEF Init
  <2>4. Locked /\ Single
    <3>1. \A c \in Runs : creator[c].pc = "none" /\ creator[c].at = "none" /\ row[c] = "absent"
      BY <2>1, <2>2
    <3> QED BY <3>1, Statuses DEF Locked, Single
  <2>5. Choosing /\ Undeleted
    BY <2>1, <2>2 DEF Choosing, Chosen, Undeleted
  <2>6. Placed
    BY <2>1, <2>3 DEF Placed
  <2>7. \A s, r : ~Precedes(s, r)
    BY <2>3 DEF Precedes
  <2>8. Succession /\ Heeding
    BY <2>1, <2>2, <2>7 DEF Succession, Heeding, Spares
  <2> QED BY <2>4, <2>5, <2>6, <2>8, HistoryInit DEF Ranks
<1>2. IInv /\ Core /\ IInv' /\ I /\ [Next]_vars => I'
  BY NextSerial, NextHistory, NextRanks, NextUndeleted DEF Ordered, Serial
<1>3. IInv /\ Core /\ IInv' /\ I /\ [Next]_vars =>
        \A d \in ToSet(hist) \ ToSet(hist') :
           \/ \E r \in Runs : exec[r].pc = "revert" /\ d \in plan[r].rows
           \/ canceller[d].pc = "claimed" /\ canceller[d].mode = "rollback"
  <2> SUFFICES ASSUME IInv, Core, IInv', I, [Next]_vars, NEW d \in ToSet(hist) \ ToSet(hist')
               PROVE  \/ \E r \in Runs : exec[r].pc = "revert" /\ d \in plan[r].rows
                      \/ canceller[d].pc = "claimed" /\ canceller[d].mode = "rollback"
    OBVIOUS
  <2>1. Wrote(d) /\ ~Wrote(d)'
    <3>1. TypeOK' /\ TypeOK
      BY DEF IInv
    <3>2. \A r : Wrote(r) <=> r \in ToSet(hist)
      BY <3>1, HistTyped
    <3>3. \A r : Wrote(r)' <=> r \in ToSet(hist')
      BY <3>1, HistTyped_next
    <3> QED BY <3>2, <3>3
  <2>2. d \in Runs
    BY <2>1, HistTyped DEF IInv, Wrote
  <2> QED BY <2>1, <2>2, NextLeaves DEF Ordered, Serial
<1> QED BY <1>1, <1>2, <1>3, SettlementInvariant, PTL DEF Spec, OnlyRolledBackWritesRemoved
=============================================================================
