------------------------------ MODULE RunEngine ------------------------------
(***************************************************************************)
(* One run's execution: the worker's claim of a queued run, the claimed     *)
(* prologue of startRunExecution (reread, rollback plan) and executeRun up  *)
(* to the release of the claim. One action per awaited store operation.     *)
(***************************************************************************)
EXTENDS RunState

Rest == <<creator, canceller, deleter, crashes>>     \* what no execution touches

Goto(r, pc) == exec' = [exec EXCEPT ![r].pc = pc]

(* --- reaching the claim --------------------------------------------------- *)
(* The request hands its run over: inline runs register and queue on the     *)
(* claim, background runs go to the run queue.                               *)
StartInline(r) ==
  /\ r \notin Background /\ exec[r].pc = "prepared"
  /\ Goto(r, "waiting")
  /\ Await(<<"run", r>>, exec[r].at)
  /\ UNCHANGED <<store, thread, hist, closed, mail, Rest>>

Enqueue(r) ==
  /\ r \in Background /\ exec[r].pc = "prepared"
  /\ exec' = [exec EXCEPT ![r].pc = "queued", ![r].at = "none"]
  /\ UNCHANGED <<store, thread, hist, closed, claim, mail, Rest>>

ClaimFree_LockOnly(i) == queue[i] = <<>>
ClaimFree(i) == holder = NoTask /\ queue[i] = <<>>

(* A worker pulls a job: a run that is gone or already terminal is dropped,  *)
(* any other is executed only if the thread's claim is free and, in this     *)
(* process, nobody queues for it; otherwise the job stays queued.            *)
Pull(r, i) ==
  /\ exec[r].pc = "queued"
  /\ \/ /\ row[r] \notin Active
        /\ Goto(r, "done")
        /\ UNCHANGED claim
     \/ /\ row[r] \in Active
        /\ ClaimFree(i)
        /\ holder' = <<"run", r>> /\ UNCHANGED queue
        /\ exec' = [exec EXCEPT ![r].pc = "claimed", ![r].at = i]
  /\ UNCHANGED <<store, thread, hist, closed, mail, Rest>>

(* --- holding the claim, before the engine --------------------------------- *)
(* The row is reread under the claim. A finished run leaves at once: it      *)
(* applies no plan and does not close the bus.                               *)
Reread(r) ==
  /\ exec[r].pc = "claimed"
  /\ \/ /\ row[r] \notin Active
        /\ exec' = [exec EXCEPT ![r] = [NoExecution EXCEPT !.pc = "done"]]
        /\ Release
     \/ /\ row[r] \in Active
        /\ Goto(r, IF plan[r].rows # {} THEN "revert" ELSE "check")
        /\ UNCHANGED claim
  /\ UNCHANGED <<store, thread, hist, closed, mail, Rest>>

(* The plan: drop the displaced run's writes (best effort), then the rows of *)
(* the displaced runs that are not native.                                   *)
ApplyPlan(r) ==
  /\ exec[r].pc = "revert"
  /\ \/ /\ plan[r].revert # "none"
        /\ hist' = RevertedTo(plan[r].revert)
     \/ /\ plan[r].revert = "none" \/ Faulty
        /\ UNCHANGED hist
  /\ row' = [d \in Runs |-> IF d \in plan[r].rows \ Native /\ Exists(d)
                            THEN "deleted" ELSE row[d]]
  /\ Goto(r, "check")
  /\ UNCHANGED <<order, plan, stored, admitted, calls, thread, closed, claim, mail, Rest>>

(* --- executeRun: try ------------------------------------------------------- *)
Check(r) ==
  /\ exec[r].pc = "check"
  /\ Goto(r, IF row[r] \in Terminal THEN "close" ELSE "set")
  /\ UNCHANGED <<store, thread, hist, closed, claim, mail, Rest>>

AbortedStatus(why) == CASE why = "timeout" -> "timeout"
                        [] why = "interrupt" -> "interrupted"
                        [] OTHER -> "cancelled"

(* What the catch block decides to settle, from the abort reason it finds.   *)
Caught(e) ==
  [e EXCEPT !.pc = "settle",
            !.mode = CASE e.reason = "timeout" -> "timedout"
                       [] e.reason = "none" -> "failed"
                       [] OTHER -> "aborted",
            !.out = IF e.reason = "none" THEN "error" ELSE AbortedStatus(e.reason)]

(* An exception leaves the try block for the catch block, and the catch      *)
(* block for the finally block.                                              *)
Throw(r) ==
  exec' = [exec EXCEPT ![r] = IF @.mode \in {"none", "done", "stopped"}
                              THEN Caught(@) ELSE [@ EXCEPT !.pc = "close"]]

RefusesRunning_Never(r) == FALSE
RefusesRunning(r) == row[r] \in Terminal /\ r \in admitted

(* setStatus(running): refused for an admitted run that is terminal, an      *)
(* unconditional write for the others, an error once the row is gone.        *)
MarkRunning(r) ==
  /\ exec[r].pc = "set"
  /\ \/ /\ ~Exists(r)
        /\ Throw(r) /\ UNCHANGED <<row, calls>>
     \/ /\ RefusesRunning(r)
        /\ Goto(r, "close") /\ UNCHANGED <<row, calls>>
     \/ /\ Exists(r) /\ ~RefusesRunning(r)
        /\ SetStatus(r, "running")
        /\ exec' = [exec EXCEPT ![r].pc = "busy", ![r].started = TRUE]
  /\ UNCHANGED <<order, plan, stored, admitted, thread, hist, closed, claim, mail, Rest>>

MirrorBusy(r) ==
  /\ exec[r].pc = "busy"
  /\ thread' = "busy"
  /\ Goto(r, "base")
  /\ UNCHANGED <<store, hist, closed, claim, mail, Rest>>

(* The tip before the run writes, noted in process; persisting it is not     *)
(* awaited (PersistBase).                                                    *)
RecordBase(r) ==
  /\ exec[r].pc = "base"
  /\ exec' = [exec EXCEPT ![r].pc = "graph", ![r].note = Tip]
  /\ UNCHANGED <<store, thread, hist, closed, claim, mail, Rest>>

PersistBase(r) ==
  /\ exec[r].note # "none" /\ stored[r] # exec[r].note /\ Exists(r)
  /\ stored' = [stored EXCEPT ![r] = exec[r].note]
  /\ UNCHANGED <<row, order, plan, admitted, calls, thread, hist, closed, claim,
                 exec, mail, Rest>>

(* The graph saves a checkpoint; a superstep that is under way completes     *)
(* even after an abort.                                                      *)
GraphWrite(r) ==
  /\ exec[r].pc = "graph" /\ r \notin ToSet(hist)
  /\ hist' = Append(hist, r)
  /\ UNCHANGED <<store, thread, closed, claim, exec, mail, Rest>>

(* The stream ends. An abort that raced in wins over the graph's own result. *)
GraphReturn(r) ==
  /\ exec[r].pc = "graph"
  /\ LET why == exec[r].reason IN
     \E final \in IF why = "none" THEN {"success", "interrupted"} ELSE {AbortedStatus(why)} :
       exec' = [exec EXCEPT ![r].pc = "settle", ![r].out = final,
                            ![r].mode = IF why = "none" THEN "done" ELSE "stopped"]
  /\ UNCHANGED <<store, thread, hist, closed, claim, mail, Rest>>

(* The graph fails or, once aborted, throws.                                 *)
GraphThrow(r) ==
  /\ exec[r].pc = "graph"
  /\ Throw(r)
  /\ UNCHANGED <<store, thread, hist, closed, claim, mail, Rest>>

(* --- settling --------------------------------------------------------------- *)
OwesCallback_Again(r) == r \in Webhook /\ exec[r].started
OwesCallback(r) == r \in Webhook /\ exec[r].started /\ ~exec[r].recorded

(* finalizeRun, first half: reread the row. A deleted run keeps its outcome, *)
(* a terminal row wins.                                                      *)
FinalizeRead(r) ==
  /\ exec[r].pc = "settle" /\ r \notin Native /\ ~OwesCallback(r)
  /\ exec' = [exec EXCEPT
       ![r].pc = IF row[r] \in Active THEN "write" ELSE "mirror",
       ![r].eff = IF row[r] \in Terminal THEN row[r] ELSE exec[r].out]
  /\ UNCHANGED <<store, thread, hist, closed, claim, mail, Rest>>

(* finalizeRun, second half: the write is not conditional on what was read.  *)
FinalizeWrite(r) ==
  /\ exec[r].pc = "write"
  /\ \/ /\ Exists(r)
        /\ SetStatus(r, exec[r].out)
        /\ Goto(r, "mirror")
     \/ /\ ~Exists(r)
        /\ Throw(r) /\ UNCHANGED <<row, calls>>
  /\ UNCHANGED <<order, plan, stored, admitted, thread, hist, closed, claim, mail, Rest>>

(* finalizeWithDelivery: status if the row is active, callback in any case,  *)
(* in one transaction.                                                       *)
FinalizeWithDelivery(r) ==
  /\ exec[r].pc = "settle" /\ r \notin Native /\ OwesCallback(r)
  /\ row' = [row EXCEPT ![r] = IF @ \in Active THEN exec[r].out ELSE @]
  /\ LET told == IF row[r] \in Terminal THEN row[r] ELSE exec[r].out IN
     /\ calls' = [calls EXCEPT ![r] = Append(@, told)]
     /\ exec' = [exec EXCEPT ![r].pc = "mirror", ![r].recorded = TRUE, ![r].eff = told]
  /\ UNCHANGED <<order, plan, stored, admitted, thread, hist, closed, claim, mail, Rest>>

(* A native run settles row and callback together. The callback's target is  *)
(* read before: a run deleted in between is still notified, one deleted      *)
(* earlier is not.                                                           *)
SettleNative(r) ==
  /\ exec[r].pc = "settle" /\ r \in Native
  /\ \/ /\ Exists(r)
        /\ Settle({r}, exec[r].out)
        /\ exec' = [exec EXCEPT ![r].pc = "mirror", ![r].eff = row'[r]]
     \/ /\ ~Exists(r)
        /\ \/ UNCHANGED calls
           \/ /\ r \in Webhook /\ calls[r] = <<>>
              /\ calls' = [calls EXCEPT ![r] = <<exec[r].out>>]
        /\ exec' = [exec EXCEPT ![r].pc = "mirror", ![r].eff = exec[r].out]
        /\ UNCHANGED row
  /\ UNCHANGED <<order, plan, stored, admitted, thread, hist, closed, claim, mail, Rest>>

(* --- the thread mirror -------------------------------------------------------- *)
ThreadStatusFor_Unmapped == [st \in Terminal |-> st]
ThreadStatusFor == [success |-> "idle", interrupted |-> "interrupted",
                    error |-> "error", timeout |-> "error", cancelled |-> "idle"]

Mirrored_Failure(r) ==
  IF exec[r].mode = "failed" THEN thread ELSE
  IF exec[r].eff \in {"error", "timeout"} THEN "error" ELSE "idle"
Mirrored(r) ==
  LET e == exec[r] IN
  CASE e.mode = "done" /\ e.eff = e.out -> ThreadStatusFor[e.out]
    [] e.mode = "done" /\ e.eff # e.out -> IF e.eff = "error" THEN "error" ELSE "idle"
    [] e.mode = "stopped" -> IF e.eff = "timeout" THEN "error" ELSE "idle"
    [] e.mode = "aborted" -> "idle"
    [] e.mode \in {"timedout", "failed"} -> IF e.eff = e.out THEN "error" ELSE thread

(* The thread write may fail; in the try block the run is then settled again. *)
Mirror(r) ==
  /\ exec[r].pc = "mirror"
  /\ \/ thread' = Mirrored(r) /\ Goto(r, "close")
     \/ Faulty /\ UNCHANGED thread /\ Throw(r)
  /\ UNCHANGED <<store, hist, closed, claim, mail, Rest>>

(* finally: close the bus, leave the claim, drop the registration and note.  *)
Close(r) ==
  /\ exec[r].pc = "close"
  /\ closed' = closed \cup {r}
  /\ exec' = [exec EXCEPT ![r] = [NoExecution EXCEPT !.pc = "done"]]
  /\ Release
  /\ UNCHANGED <<store, thread, hist, mail, Rest>>

(* --- aborts that come from the execution itself ---------------------------- *)
Timeout(r) ==
  /\ r \in Timed /\ exec[r].pc \in EngineSteps \ {"close"} /\ exec[r].reason = "none"
  /\ exec' = Aborted(r, "timeout")
  /\ UNCHANGED <<store, thread, hist, closed, claim, mail, Rest>>

(* observeDurableCancellation: the row, not the lossy channel, is the        *)
(* authority a native or multi-instance execution polls.                     *)
Observe(r) ==
  /\ r \in Native \/ AbortChannel
  /\ exec[r].pc \in EngineSteps \ {"close"} /\ exec[r].reason = "none"
  /\ row[r] \in Terminal \cup {"deleted"}
  /\ exec' = Aborted(r, CASE row[r] = "timeout" -> "timeout"
                          [] row[r] = "interrupted" -> "interrupt"
                          [] OTHER -> "cancel")
  /\ UNCHANGED <<store, thread, hist, closed, claim, mail, Rest>>

EngineStep(r) ==
  \/ StartInline(r) \/ Enqueue(r) \/ (\E i \in Instances : Pull(r, i))
  \/ Reread(r) \/ ApplyPlan(r) \/ Check(r) \/ MarkRunning(r) \/ MirrorBusy(r)
  \/ RecordBase(r) \/ GraphWrite(r) \/ GraphReturn(r) \/ GraphThrow(r)
  \/ FinalizeRead(r) \/ FinalizeWrite(r) \/ FinalizeWithDelivery(r) \/ SettleNative(r)
  \/ Mirror(r) \/ Close(r)
=============================================================================
