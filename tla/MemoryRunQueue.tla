---------------------------- MODULE MemoryRunQueue ----------------------------
(***************************************************************************)
(* The in-process run queue and its partitioned consumer: a FIFO of waiting  *)
(* runs, the runs being executed, and the threads that may not be taken.      *)
(***************************************************************************)
EXTENDS RunJobs, SequencesExt

VARIABLES
  items,    \* the runs waiting to be taken
  active,   \* runs taken and not yet answered
  claimedThreads,  \* threads no slot may take from
  deferred  \* the claimed threads that wait out the 50 ms after a busy answer

queue == <<items, active, claimedThreads, deferred>>

QueueInit ==
  /\ items = <<>> /\ active = {}
  /\ claimedThreads = {} /\ deferred = {}

QueueTypeOK ==
  /\ items \in Seq(Runs) /\ active \subseteq Runs
  /\ deferred \subseteq claimedThreads /\ claimedThreads \subseteq Threads

(* enqueue is idempotent over everything the queue still knows of.            *)
Queued(r) == r \in active \/ r \in ToSet(items)

Enqueue(r) ==
  /\ items' = IF Queued(r) THEN items ELSE Append(items, r)
  /\ UNCHANGED <<active, claimedThreads, deferred>>

(* The first waiting run of a thread that is not claimed.                    *)
Eligible(i) == i \in DOMAIN items /\ row[items[i]].thread \notin claimedThreads
Pull(s) ==
  /\ worker[s].pc = "idle"
  /\ \E i \in DOMAIN items :
       /\ Eligible(i) /\ \A j \in 1..i - 1 : ~Eligible(j)
       /\ items' = RemoveAt(items, i)
       /\ active' = active \cup {items[i]}
       /\ claimedThreads' = claimedThreads \cup {row[items[i]].thread}
       /\ worker' = [worker EXCEPT ![s] = [pc |-> "read", run |-> items[i]]]
  /\ UNCHANGED <<deferred, row, lease, started, trouble>>

(* A busy run goes back to the head and its thread rests; anything else frees *)
(* the thread.                                                               *)
Answer(s) ==
  /\ worker[s].pc \in Answers
  /\ LET r == worker[s].run
         th == ThreadAt(s)
         busy == worker[s].pc = "busy"
     IN /\ items' = IF busy THEN <<r>> \o items ELSE items
        /\ deferred' = IF busy THEN deferred \cup {th} ELSE deferred
        /\ claimedThreads' = IF busy THEN claimedThreads ELSE claimedThreads \ {th}
        /\ active' = active \ {r}
  /\ worker' = [worker EXCEPT ![s] = Idle]
  /\ UNCHANGED <<row, lease, started, trouble>>

ReleaseThread(th) ==
  /\ th \in deferred
  /\ deferred' = deferred \ {th} /\ claimedThreads' = claimedThreads \ {th}
  /\ UNCHANGED <<items, active>> /\ UNCHANGED jobs

(* The queue is lost with its process.                                       *)
QueueLost ==
  /\ items' = <<>> /\ active' = {}
  /\ claimedThreads' = {} /\ deferred' = {}
=============================================================================
