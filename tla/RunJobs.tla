------------------------------- MODULE RunJobs -------------------------------
(***************************************************************************)
(* The rows of the runs a queue delivers, the execution claims of their      *)
(* threads, and the worker that takes a delivered run through executeOne:    *)
(* skip it if it is over, claim its thread without waiting, reread it, mark   *)
(* it running, run the graph, settle it and give the thread back. A queue    *)
(* driver extends this module with what it hands to the worker and with what *)
(* it does with the answer. Requests execute runs inline, without the queue. *)
(***************************************************************************)
EXTENDS Integers, Sequences, FiniteSets

CONSTANTS Runs,       \* run ids: 1..n, in the order the rows are inserted
          Homes,      \* the threads clients made
          Slots,      \* the executions all workers may have in flight
          Requests,   \* the requests that execute a run inline
          MaxTrouble  \* bound on what disturbs the queue: failing calls, crashes,
                      \* inline requests, edits of crons

ASSUME JobsAssumption ==
  /\ Runs \subseteq Nat \ {0} /\ IsFiniteSet(Runs) /\ MaxTrouble \in Nat
  /\ Slots \cap Requests = {}
  /\ "free" \notin Slots \cup Requests /\ 0 \notin Homes /\ Homes \cap Runs = {}

VARIABLES
  row,      \* row[r]: status, thread, the cron in its metadata, and created_at,
            \* kept while it is pending
  lease,    \* lease[th]: who holds the execution claim of th
  worker,   \* worker[p]: the execution in slot or request p
  started,  \* started[r]: how often the graph of r was started
  trouble   \* so far

jobs == <<row, lease, worker, started, trouble>>

(* A thread made for one run goes by the name of its run.                     *)
Threads == Homes \cup Runs
Processes == Slots \cup Requests
Answers == {"handled", "busy", "thrown"}
WorkerSteps == {"idle", "read", "claim", "reread", "start", "graph", "settled"} \cup Answers
RowStatus == {"absent", "pending", "running", "done", "deleted"}

NoRow == [status |-> "absent", thread |-> 0, cron |-> 0, created |-> 0]
Idle == [pc |-> "idle", run |-> 0]

JobsInit ==
  /\ row = [r \in Runs |-> NoRow]
  /\ lease = [th \in Threads |-> "free"]
  /\ worker = [p \in Processes |-> Idle]
  /\ started = [r \in Runs |-> 0]
  /\ trouble = 0

JobsTypeOK ==
  /\ row \in [Runs -> [status: RowStatus, thread: Threads \cup {0}, cron: Nat, created: Nat]]
  /\ lease \in [Threads -> Processes \cup {"free"}]
  /\ worker \in [Processes -> [pc: WorkerSteps, run: Runs \cup {0}]]
  /\ started \in [Runs -> Nat]
  /\ trouble \in 0..MaxTrouble

Trouble == trouble < MaxTrouble /\ trouble' = trouble + 1

Pending(r) == row[r].status = "pending"
IsNext(r) == \A q \in Runs : q < r <=> row[q].status # "absent"
Inserted(r, th, cron, at) ==
  [row EXCEPT ![r] = [status |-> "pending", thread |-> th, cron |-> cron, created |-> at]]

(* A job whose run vanished or is terminal is dropped.                        *)
Finished_Never(r) == FALSE
Finished(r) == row[r].status \in {"absent", "done", "deleted"}

ThreadAt(p) == row[worker[p].run].thread
Stepped(p, pc) == [worker EXCEPT ![p].pc = pc]
Released(p) == [th \in Threads |-> IF lease[th] = p THEN "free" ELSE lease[th]]

Read(s) ==
  /\ worker[s].pc = "read"
  /\ worker' = Stepped(s, IF Finished(worker[s].run) THEN "handled" ELSE "claim")
  /\ UNCHANGED <<row, lease, started, trouble>>

(* A worker asks once for the claim, a request waits for it.                  *)
Claim(p) ==
  /\ worker[p].pc = "claim"
  /\ \/ /\ lease[ThreadAt(p)] = "free"
        /\ lease' = [lease EXCEPT ![ThreadAt(p)] = p]
        /\ worker' = Stepped(p, "reread")
     \/ /\ lease[ThreadAt(p)] # "free" /\ p \in Slots
        /\ worker' = Stepped(p, "busy")
        /\ UNCHANGED lease
  /\ UNCHANGED <<row, started, trouble>>

(* The rows are read under the claim: by startRunExecution and executeRun.     *)
Over_Never(r) == FALSE
Over(r) == Finished(r)

Reread(p) ==
  /\ worker[p].pc = "reread"
  /\ \/ /\ Over(worker[p].run)
        /\ lease' = Released(p) /\ worker' = Stepped(p, "handled")
     \/ /\ ~Over(worker[p].run)
        /\ worker' = Stepped(p, "start")
        /\ UNCHANGED lease
  /\ UNCHANGED <<row, started, trouble>>

(* setStatus(running) writes whatever the row has become meanwhile, unless it  *)
(* is gone; then, or if the call fails, the engine settles the run as failed.  *)
Settled(r) == [row EXCEPT ![r].status = IF @ = "deleted" THEN @ ELSE "done"]

MarkRunning(p) ==
  /\ worker[p].pc = "start"
  /\ LET r == worker[p].run IN
     \/ /\ row[r].status # "deleted"
        /\ row' = [row EXCEPT ![r].status = "running", ![r].created = 0]
        /\ started' = [started EXCEPT ![r] = @ + 1]
        /\ worker' = Stepped(p, "graph")
        /\ UNCHANGED trouble
     \/ /\ Trouble \/ (row[r].status = "deleted" /\ UNCHANGED trouble)
        /\ row' = Settled(r) /\ worker' = Stepped(p, "settled")
        /\ UNCHANGED started
  /\ UNCHANGED lease

Settle(p) ==
  /\ worker[p].pc = "graph"
  /\ row' = Settled(worker[p].run)
  /\ worker' = Stepped(p, "settled")
  /\ UNCHANGED <<lease, started, trouble>>

Release(p) ==
  /\ worker[p].pc = "settled"
  /\ lease' = Released(p) /\ worker' = Stepped(p, "handled")
  /\ UNCHANGED <<row, started, trouble>>

(* A store call or the claim fails before the engine is entered.               *)
Throw(s) ==
  /\ worker[s].pc \in {"read", "claim", "reread"}
  /\ Trouble
  /\ lease' = Released(s) /\ worker' = Stepped(s, "thrown")
  /\ UNCHANGED <<row, started>>

(* The engine cannot settle the run: it stays as it is.                        *)
SettleFails(s) ==
  /\ worker[s].pc \in {"start", "graph"}
  /\ Trouble
  /\ lease' = Released(s) /\ worker' = Stepped(s, "thrown")
  /\ UNCHANGED <<row, started>>

Execute(p) == Read(p) \/ Claim(p) \/ Reread(p) \/ MarkRunning(p) \/ Settle(p) \/ Release(p)

(* A request inserts its run as pending and waits for the thread.             *)
Request(q, r, th) ==
  /\ worker[q].run = 0 /\ IsNext(r) /\ Trouble
  /\ row' = Inserted(r, th, 0, 0)
  /\ worker' = [worker EXCEPT ![q] = [pc |-> "claim", run |-> r]]
  /\ UNCHANGED <<lease, started>>

(* Processes die with their claims; a request is never taken up again.        *)
Died(P) == [p \in Processes |-> IF p \notin P THEN worker[p]
                                ELSE IF p \in Requests THEN [worker[p] EXCEPT !.pc = "handled"]
                                ELSE Idle]
Abandoned(P) == [th \in Threads |-> IF lease[th] \in P THEN "free" ELSE lease[th]]
=============================================================================
