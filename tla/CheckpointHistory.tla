--------------------------- MODULE CheckpointHistory ---------------------------
(***************************************************************************)
(* The checkpoints of one thread, which the saver can only list, add to and    *)
(* delete as a whole. Runs add checkpoints while they hold the thread's        *)
(* execution claim; a prune, and a run that displaced another by rollback,     *)
(* rewrite the history under it: into a scratch copy, then over the original.  *)
(* Any of these calls may fail, and the process may die between two of them.   *)
(***************************************************************************)
EXTENDS Integers, SequencesExt

CONSTANTS Runs,      \* the runs created on the thread
          Prunes,    \* the requests to keep only the latest checkpoint
          MaxWrites, \* bound on the checkpoints the runs write
          MaxTrouble \* bound on failing calls, crashes and lost leases

ASSUME HistoryAssumption ==
  /\ Runs \cap Prunes = {} /\ "none" \notin Runs \cup Prunes /\ "past" \notin Runs
  /\ MaxWrites \in Nat /\ MaxTrouble \in Nat

VARIABLES
  exists,  \* the thread has its row
  hist,    \* its checkpoints, oldest first
  author,  \* history: the author of every checkpoint ever written
  claim,   \* who holds the execution claim
  actor,   \* actor[a]: its step, what it keeps, its scratch copy, the calls done
  run,     \* run[r]: its row, the reason it was aborted for, its base, its plan,
           \* and whether (history) a run that displaces it is to undo it
  backup,  \* what abandoned scratch copies hold
  trouble  \* so far

history == <<exists, hist, author, claim, actor, run, backup, trouble>>
Actors == Runs \cup Prunes

Rewriting == {"save", "erase", "replay", "clean"}
Holding == Rewriting \cup {"list", "start", "run", "release"}

(* What turns before the model's runs wrote.                                  *)
Past == <<"past", "past">>

HistoryInit ==
  /\ exists = TRUE /\ hist = <<1, 2>> /\ author = Past
  /\ claim = "none" /\ backup = {} /\ trouble = 0
  /\ actor = [a \in Actors |-> [pc |-> "off", keep |-> <<>>, scratch |-> <<>>, done |-> 0]]
  /\ run = [r \in Runs |-> [row |-> "none", abort |-> "none", base |-> -1, plan |-> -1,
                            undone |-> FALSE]]

Pc(a) == actor[a].pc
At(a, pc) == [actor EXCEPT ![a].pc = pc]
Trouble == trouble < MaxTrouble /\ trouble' = trouble + 1
Active == {r \in Runs : run[r].row = "active"}
Tip == IF hist = <<>> THEN 0 ELSE Last(hist)

(* control.abort: it reaches the runs that are registered; the first reason   *)
(* stays.                                                                   *)
Registered(r) == Pc(r) \notin {"off", "queued", "over"}
Aborted(S, reason) ==
  [r \in Runs |-> IF r \in S /\ Registered(r) /\ run[r].abort = "none"
                  THEN [run[r] EXCEPT !.abort = reason] ELSE run[r]]

-----------------------------------------------------------------------------
(* A run is created; names are given in order. With the rollback strategy it   *)
(* plans to revert to the base of the active run, if that has one (0: it began *)
(* the history; -1: none).                                                  *)
Create(r, strategy) ==
  /\ Pc(r) = "off" /\ r = (CHOOSE q \in Runs : Pc(q) = "off") /\ exists
  /\ LET Bases == {run[a].base : a \in Active} \ {-1}
         plan == IF strategy = "rollback" /\ Bases # {} THEN CHOOSE b \in Bases : TRUE ELSE -1
         displaced == IF strategy = "rollback" THEN Active ELSE {}
     IN run' = [q \in Runs |->
                 IF q = r THEN [run[r] EXCEPT !.row = "active", !.plan = plan]
                 ELSE [Aborted(displaced, "rollback")[q] EXCEPT !.undone = @ \/ q \in displaced]]
  /\ actor' = At(r, "queued")
  /\ UNCHANGED <<exists, hist, author, claim, backup, trouble>>

Register(r) ==
  /\ Pc(r) = "queued"
  /\ actor' = At(r, "waiting")
  /\ UNCHANGED <<exists, hist, author, claim, run, backup, trouble>>

(* withThreadExecution, and the read of the row, or of the active runs, that    *)
(* follows it.                                                              *)
Claimable == claim = "none"

Claim(a) ==
  /\ Pc(a) = "waiting" /\ Claimable
  /\ claim' = a
  /\ actor' = At(a, IF a \in Prunes THEN IF Active = {} THEN "list" ELSE "release"
                    ELSE IF run[a].row # "active" THEN "release"
                    ELSE IF run[a].plan # -1 THEN "list" ELSE "start")
  /\ UNCHANGED <<exists, hist, author, run, backup, trouble>>

Release(a) ==
  /\ Pc(a) = "release"
  /\ claim' = IF claim = a THEN "none" ELSE claim
  /\ actor' = At(a, IF a \in Runs /\ run[a].abort = "cancel" /\ run[a].base # -1
                    THEN "sweep" ELSE "over")
  /\ UNCHANGED <<exists, hist, author, run, backup, trouble>>

-----------------------------------------------------------------------------
(* The engine notes the tip before it runs the graph; it writes, unless it was *)
(* aborted before it began, and may still write once aborted; it settles.      *)
Start(r) ==
  /\ Pc(r) = "start"
  /\ run' = [run EXCEPT ![r].base = Tip]
  /\ actor' = At(r, "run")
  /\ UNCHANGED <<exists, hist, author, claim, backup, trouble>>

Write(r) ==
  /\ Pc(r) = "run" /\ Len(author) < Len(Past) + MaxWrites
  /\ author' = Append(author, r)
  /\ hist' = Append(hist, Len(author'))
  /\ UNCHANGED <<exists, claim, actor, run, backup, trouble>>

Settle(r) ==
  /\ Pc(r) = "run"
  /\ run' = [run EXCEPT ![r].row = "over"]
  /\ actor' = At(r, "release")
  /\ UNCHANGED <<exists, hist, author, claim, backup, trouble>>

(* deleteCheckpointsOfDeletedThread: what a cancelled run wrote meanwhile goes. *)
Swept_Never == FALSE
Swept == ~exists

Sweep(r) ==
  /\ Pc(r) = "sweep"
  /\ hist' = IF Swept THEN <<>> ELSE hist
  /\ actor' = At(r, "over")
  /\ UNCHANGED <<exists, author, claim, run, backup, trouble>>

-----------------------------------------------------------------------------
(* pruneThreadCheckpointsToLatest keeps the newest; rollbackThreadCheckpointsTo *)
(* keeps the base and all before it, wipes a thread that had none, and leaves   *)
(* alone a history without the base.                                        *)
After(a) == IF a \in Prunes THEN "release" ELSE "start"

Kept(a) ==
  IF a \in Prunes THEN <<Last(hist)>> ELSE SubSeq(hist, 1, SelectInSeq(hist, LAMBDA n : n = run[a].plan))

List(a) ==
  /\ Pc(a) = "list"
  /\ LET untouched == IF a \in Prunes THEN Len(hist) <= 1
                      ELSE run[a].plan \notin ToSet(hist) \cup {0}
         wiped == a \in Runs /\ run[a].plan = 0
     IN /\ hist' = IF wiped THEN <<>> ELSE hist
        /\ actor' = IF untouched \/ wiped THEN At(a, After(a))
                    ELSE [actor EXCEPT ![a] = [pc |-> "save", keep |-> Kept(a),
                                               scratch |-> <<>>, done |-> 0]]
  /\ UNCHANGED <<exists, author, claim, run, backup, trouble>>

(* replaceCheckpointHistory: one saver call at a time.                        *)
Next1(a) == actor[a].keep[actor[a].done + 1]
Finished(a) == actor[a].done + 1 = Len(actor[a].keep)
Counted(a, pc) == [actor EXCEPT ![a].done = IF Finished(a) THEN 0 ELSE @ + 1,
                                ![a].pc = IF Finished(a) THEN pc ELSE @]

Save(a) ==
  /\ Pc(a) = "save"
  /\ actor' = [Counted(a, "erase") EXCEPT ![a].scratch = Append(@, Next1(a))]
  /\ UNCHANGED <<exists, hist, author, claim, run, backup, trouble>>

Erase(a) ==
  /\ Pc(a) = "erase"
  /\ hist' = <<>>
  /\ actor' = At(a, "replay")
  /\ UNCHANGED <<exists, author, claim, run, backup, trouble>>

Replay(a) ==
  /\ Pc(a) = "replay"
  /\ hist' = Append(hist, Next1(a))
  /\ actor' = Counted(a, "clean")
  /\ UNCHANGED <<exists, author, claim, run, backup, trouble>>

(* A rewrite is left: what it has not deleted of its scratch copy survives.     *)
Left_Cleans(a) == {}
Left(a) == ToSet(actor[a].scratch)
Leave(a, pc) ==
  actor' = [actor EXCEPT ![a] = [pc |-> pc, keep |-> <<>>, scratch |-> <<>>, done |-> 0]]

(* The scratch copy goes; if that fails it stays.                             *)
Clean(a) ==
  /\ Pc(a) = "clean"
  /\ Leave(a, After(a))
  /\ \/ UNCHANGED <<backup, trouble>>
     \/ Trouble /\ backup' = backup \cup Left(a)
  /\ UNCHANGED <<exists, hist, author, claim, run>>

(* A call fails: a prune reports the error, a run goes on with the history as   *)
(* it is.                                                                   *)
Fail(a) ==
  /\ Pc(a) \in {"save", "erase", "replay"} /\ Trouble
  /\ Leave(a, After(a)) /\ backup' = backup \cup Left(a)
  /\ UNCHANGED <<exists, hist, author, claim, run>>

(* The process dies, or the lease of a prune is lost: the claim is free. A      *)
(* prune ends there; the job of a run is delivered again.                    *)
Dies(a) ==
  /\ Pc(a) \in Rewriting /\ Trouble
  /\ claim' = IF claim = a THEN "none" ELSE claim
  /\ Leave(a, IF a \in Runs THEN "queued" ELSE "over") /\ backup' = backup \cup Left(a)
  /\ run' = [r \in Runs |-> IF r = a THEN [run[r] EXCEPT !.abort = "none"] ELSE run[r]]
  /\ UNCHANGED <<exists, hist, author>>

Rewrite(a) == List(a) \/ Save(a) \/ Erase(a) \/ Replay(a) \/ Clean(a)
=============================================================================
