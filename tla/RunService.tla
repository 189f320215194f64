------------------------------ MODULE RunService ------------------------------
(***************************************************************************)
(* The requests of RunService that change runs: create under a multitask    *)
(* strategy, cancel, delete. A request is a process of its own; every       *)
(* awaited store operation is a step, so requests interleave with each      *)
(* other and with executions.                                               *)
(***************************************************************************)
EXTENDS RunState

(* createPendingRun runs under ThreadLocks.run: one creation at a time in a  *)
(* process, which is all the in-process lock gives.                          *)
LockFree_Always(i) == TRUE
LockFree(i) == \A c \in Runs : creator[c].at # i

CreatorAt(c, pc) == creator[c].pc = pc

(* The new row is pending, and its execution is about to be started where    *)
(* the request runs.                                                         *)
Insert(c, i) ==
  /\ order' = Append(order, c)
  /\ exec' = [exec EXCEPT ![c] = [NoExecution EXCEPT !.pc = "prepared", !.at = i]]

(* reject: the driver checks and inserts in one step. A busy thread refuses, *)
(* which leaves no trace.                                                    *)
CreateIfIdle(c, i) ==
  /\ CreatorAt(c, "none") /\ LockFree(i) /\ "reject" \in Strategies
  /\ ActiveRuns = {}
  /\ row' = [row EXCEPT ![c] = "pending"]
  /\ admitted' = IF c \in Native THEN admitted \cup {c} ELSE admitted
  /\ Insert(c, i)
  /\ creator' = [creator EXCEPT ![c] = Created]
  /\ UNCHANGED <<plan, stored, calls, thread, hist, closed, claim, canceller,
                 deleter, mail, crashes>>

(* The other strategies read the active runs first. enqueue and an idle      *)
(* thread go straight to the insert.                                         *)
ListActive(c, i, s) ==
  /\ CreatorAt(c, "none") /\ LockFree(i) /\ s # "reject"
  /\ creator' = [creator EXCEPT ![c] =
       [NoCreation EXCEPT
          !.pc = CASE ActiveRuns = {} \/ s = "enqueue" -> "insert"
                   [] s = "rollback" -> "bases"
                   [] s = "interrupt" -> IF c \in Native THEN "insert" ELSE "displace",
          !.at = i, !.by = s,
          !.todo = IF s = "enqueue" THEN {} ELSE ActiveRuns,
          !.seen = [r \in Runs |-> IF r \in ActiveRuns THEN row[r] ELSE "none"]]]
  /\ UNCHANGED <<store, thread, hist, closed, claim, exec, canceller, deleter, mail, crashes>>

Snapshot(c) == {r \in Runs : creator[c].seen[r] # "none"}

(* rollback reads the bases of the displaced runs before it aborts them. A   *)
(* native creation hands the displacements to the admission transaction.     *)
ReadBases(c) ==
  /\ CreatorAt(c, "bases")
  /\ \E base \in Recorded :
       /\ LastBase(base, Snapshot(c), creator[c].at)
       /\ creator' = [creator EXCEPT
            ![c].revert = base, ![c].pc = IF c \in Native THEN "insert" ELSE "displace"]
  /\ UNCHANGED <<store, thread, hist, closed, claim, exec, canceller, deleter, mail, crashes>>

(* The next run to displace, in the order the list returned them.            *)
NextDisplaced(d, c) == d \in creator[c].todo /\ Oldest(d, creator[c].todo)
DisplacedStatus(c) == IF creator[c].by = "interrupt" THEN "interrupted" ELSE "cancelled"

(* cancelActiveRun, the row: settled for a native run; otherwise overwritten *)
(* with what the snapshot called for. A row deleted meanwhile fails the      *)
(* whole request.                                                            *)
DisplaceRow(c) ==
  /\ CreatorAt(c, "displace")
  /\ \E d \in Runs : NextDisplaced(d, c) /\
     \/ /\ ~Exists(d)
        /\ creator' = [creator EXCEPT ![c] = Created]
        /\ UNCHANGED <<row, calls>>
     \/ /\ Exists(d)
        /\ IF d \in Native THEN Settle({d}, DisplacedStatus(c))
                           ELSE SetStatus(d, DisplacedStatus(c))
        /\ creator' = [creator EXCEPT ![c].pc = "stop"]
  /\ UNCHANGED <<order, plan, stored, admitted, thread, hist, closed, claim, exec,
                 canceller, deleter, mail, crashes>>

(* cancelActiveRun, the signal: a run seen pending has its bus closed here.  *)
DisplaceStop(c) ==
  /\ CreatorAt(c, "stop")
  /\ \E d \in Runs : LET left == creator[c].todo \ {d} IN
     /\ NextDisplaced(d, c)
     /\ IF c \in Native THEN UNCHANGED closed ELSE CloseIfPending(d, creator[c].seen[d])
     /\ Abort(d, creator[c].by, creator[c].at)
     /\ creator' = [creator EXCEPT ![c] =
          IF c \in Native /\ left = {} THEN Created
          ELSE [@ EXCEPT !.todo = left,
                         !.pc = CASE c \in Native -> "stop"
                                  [] c \notin Native /\ left = {} -> "insert"
                                  [] OTHER -> "displace"]]
  /\ UNCHANGED <<store, thread, hist, claim, canceller, deleter, crashes>>

PlanOf(c) == IF creator[c].by = "rollback"
             THEN [revert |-> creator[c].revert, rows |-> Snapshot(c)] ELSE NoPlan

InsertRow(c) ==
  /\ CreatorAt(c, "insert") /\ c \notin Native
  /\ row' = [row EXCEPT ![c] = "pending"]
  /\ plan' = [plan EXCEPT ![c] = PlanOf(c)]
  /\ Insert(c, creator[c].at)
  /\ creator' = [creator EXCEPT ![c] = Created]
  /\ UNCHANGED <<stored, admitted, calls, thread, hist, closed, claim, canceller,
                 deleter, mail, crashes>>

(* admission.admitRun: refuse if the active runs are no longer the displaced *)
(* ones, otherwise settle them and insert in one transaction; signal after.  *)
Admit(c) ==
  /\ CreatorAt(c, "insert") /\ c \in Native
  /\ LET gone == creator[c].todo IN
     \/ /\ gone # {} /\ gone # ActiveRuns
        /\ creator' = [creator EXCEPT ![c] = Created]
        /\ UNCHANGED <<row, calls, admitted, plan, order, exec>>
     \/ /\ gone = {} \/ gone = ActiveRuns
        /\ row' = [r \in Runs |-> IF r = c THEN "pending"
                                  ELSE IF r \in gone THEN DisplacedStatus(c) ELSE row[r]]
        /\ calls' = [r \in Runs |-> IF r \in gone \cap Native \cap Webhook /\ calls[r] = <<>>
                                    THEN <<DisplacedStatus(c)>> ELSE calls[r]]
        /\ admitted' = admitted \cup gone \cup {c}
        /\ plan' = [plan EXCEPT ![c] = PlanOf(c)]
        /\ Insert(c, creator[c].at)
        /\ creator' = [creator EXCEPT ![c] = IF gone = {} THEN Created
                                             ELSE [@ EXCEPT !.pc = "stop"]]
  /\ UNCHANGED <<stored, thread, hist, closed, claim, canceller, deleter, mail, crashes>>

CreateStep(c) == ReadBases(c) \/ DisplaceRow(c) \/ DisplaceStop(c) \/ InsertRow(c) \/ Admit(c)

(* --- cancel -------------------------------------------------------------- *)
CancelAt(r, pc) == canceller[r].pc = pc
CancelGoto(r, pc) == canceller' = [canceller EXCEPT ![r].pc = pc]

(* A finished run is left alone; an unknown one is a 404.                    *)
CancelRead(r, i, m) ==
  /\ r \in Cancellable /\ CancelAt(r, "none") /\ row[r] \in Active
  /\ canceller' = [canceller EXCEPT ![r] =
       [pc |-> IF m = "rollback" THEN "base" ELSE "write", at |-> i, mode |-> m,
        seen |-> row[r], base |-> "none"]]
  /\ UNCHANGED <<store, thread, hist, closed, claim, exec, creator, deleter, mail, crashes>>

CancelBase(r) ==
  /\ CancelAt(r, "base")
  /\ canceller' = [canceller EXCEPT ![r].pc = "write",
                                    ![r].base = ReadBase(r, canceller[r].at)]
  /\ UNCHANGED <<store, thread, hist, closed, claim, exec, creator, deleter, mail, crashes>>

(* The row, from the status read earlier; a row deleted meanwhile is a 404.  *)
CancelWrite(r) ==
  /\ CancelAt(r, "write")
  /\ \/ /\ ~Exists(r)
        /\ CancelGoto(r, "lost") /\ UNCHANGED <<row, calls>>
     \/ /\ Exists(r)
        /\ IF r \in Native THEN Settle({r}, "cancelled") ELSE SetStatus(r, "cancelled")
        /\ CancelGoto(r, "idle")
  /\ UNCHANGED <<order, plan, stored, admitted, thread, hist, closed, claim, exec,
                 creator, deleter, mail, crashes>>

CancelIdle(r) ==
  /\ CancelAt(r, "idle")
  /\ thread' = "idle"
  /\ CancelGoto(r, "abort")
  /\ UNCHANGED <<store, hist, closed, claim, exec, creator, deleter, mail, crashes>>

Waits_NotForRollback(r) == canceller[r].mode = "wait"
Waits_NotForWait(r) == canceller[r].mode = "rollback" /\ canceller[r].base # "none"
Waits(r) == \/ canceller[r].mode = "wait"
            \/ canceller[r].mode = "rollback" /\ canceller[r].base # "none"

(* Close the bus of a run seen pending, abort, then wait for the execution   *)
(* claim if there is something to roll back or the caller asked to wait.     *)
CancelAbort(r) ==
  /\ CancelAt(r, "abort")
  /\ LET x == canceller[r] IN
     /\ CloseIfPending(r, x.seen)
     /\ Abort(r, IF x.mode = "rollback" THEN "rollback" ELSE "cancel", x.at)
     /\ IF Waits(r) THEN Await(<<"cancel", r>>, x.at) ELSE UNCHANGED claim
     /\ CancelGoto(r, IF Waits(r) THEN "waiting" ELSE "done")
  /\ UNCHANGED <<store, thread, hist, creator, deleter, crashes>>

SafeToRevert_Always(r) == TRUE
SafeToRevert(r) == r \in Native /\ Exists(r) => IsLatest(r)

(* Under the claim: revert to the base and drop the row, unless a native     *)
(* run is no longer the thread's latest. A wait has nothing left to do.      *)
CancelClaimed(r) ==
  /\ CancelAt(r, "claimed")
  /\ LET reverts == canceller[r].mode = "rollback" /\ SafeToRevert(r) IN
     \/ /\ reverts
        /\ hist' = RevertedTo(canceller[r].base)
        /\ row' = IF Exists(r) /\ r \notin Native
                  THEN [row EXCEPT ![r] = "deleted"] ELSE row
     \/ /\ ~reverts \/ Faulty
        /\ UNCHANGED <<hist, row>>
  /\ Release
  /\ CancelGoto(r, "done")
  /\ UNCHANGED <<order, plan, stored, admitted, calls, thread, closed, exec, creator,
                 deleter, mail, crashes>>

CancelStep(r) == CancelBase(r) \/ CancelWrite(r) \/ CancelIdle(r) \/ CancelAbort(r)
                 \/ CancelClaimed(r)

(* --- delete ---------------------------------------------------------------- *)
(* Abort first, then the row. Nothing closes the bus.                         *)
DeleteAbort(r, i) ==
  /\ r \in Deletable /\ deleter[r] = "none" /\ Exists(r)
  /\ Abort(r, "cancel", i)
  /\ deleter' = [deleter EXCEPT ![r] = "row"]
  /\ UNCHANGED <<store, thread, hist, closed, claim, creator, canceller, crashes>>

DeleteRow(r) ==
  /\ deleter[r] = "row"
  /\ row' = [row EXCEPT ![r] = "deleted"]
  /\ deleter' = [deleter EXCEPT ![r] = "done"]
  /\ UNCHANGED <<order, plan, stored, admitted, calls, thread, hist, closed, claim,
                 exec, creator, canceller, mail, crashes>>
=============================================================================
