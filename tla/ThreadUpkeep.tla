----------------------------- MODULE ThreadUpkeep -----------------------------
(***************************************************************************)
(* What cleans up after a thread: requests to delete or to prune it, and the   *)
(* sweeper that does either to a thread whose time to live is over, composed   *)
(* with the thread's checkpoints and runs.                                    *)
(***************************************************************************)
EXTENDS CheckpointHistory

CONSTANTS Sweeper,    \* the prunes the sweeper makes
          Strategies, \* multitask strategies of the runs
          MaxExpiries \* bound on how often the thread expires

ASSUME UpkeepAssumption == Sweeper \in Prunes /\ MaxExpiries \in Nat

VARIABLES
  del,      \* the deletion: its step
  ttl,      \* the sweeper: its step
  policy,   \* what it does to an expired thread; "never": only clients clean up
  expired,  \* the thread's time to live is over
  expiries, \* so far
  strays    \* history: someone was at the checkpoints unknown to the deletion

upkeep == <<del, ttl, policy, expired, expiries, strays>>
vars == <<history, upkeep>>

Policies == {"never", "delete", "keep_latest"}

Init ==
  /\ HistoryInit
  /\ del = "off" /\ ttl = "off" /\ policy \in Policies
  /\ expired = FALSE /\ expiries = 0 /\ strays = FALSE

-----------------------------------------------------------------------------
(* deleteThread: abort what runs, erase the checkpoints, then the row; if a     *)
(* call fails the rest is left to another request.                           *)
Erasing == del # "off" \/ ~exists

DeleteThread ==
  /\ policy = "never" /\ del = "off" /\ exists
  /\ run' = Aborted(Active, "cancel")
  /\ del' = "erase"
  /\ UNCHANGED <<exists, hist, author, claim, actor, backup, trouble, ttl, policy, expired, expiries, strays>>

(* Rewrites are not aborted, nor runs that are created after the runs were       *)
(* listed, and a run aborted for another reason keeps that one.                *)
Unaware(a) ==
  \/ Pc(a) \in Rewriting \cup {"list"}
  \/ a \in Runs /\ Pc(a) \in {"start", "run"} /\ run[a].abort # "cancel"

DeleteCheckpoints ==
  /\ del = "erase"
  /\ \/ /\ hist' = <<>> /\ del' = "row"
        /\ strays' = (strays \/ \E a \in Actors : Unaware(a))
        /\ UNCHANGED trouble
     \/ Trouble /\ del' = "off" /\ UNCHANGED <<hist, strays>>
  /\ UNCHANGED <<exists, author, claim, actor, run, backup, ttl, policy, expired, expiries>>

DeleteRow ==
  /\ del = "row"
  /\ \/ /\ exists' = FALSE
        /\ run' = [r \in Runs |-> [run[r] EXCEPT !.row = "over"]]
        /\ strays' = (strays \/ hist # <<>> \/ \E a \in Actors : Unaware(a))
        /\ UNCHANGED trouble
     \/ Trouble /\ UNCHANGED <<exists, run, strays>>
  /\ del' = "off"
  /\ UNCHANGED <<hist, author, claim, actor, backup, ttl, policy, expired, expiries>>

Delete == DeleteCheckpoints \/ DeleteRow

-----------------------------------------------------------------------------
(* prune with keep_latest: a busy thread is skipped.                           *)
Prune(p) ==
  /\ policy = "never" /\ Pc(p) = "off" /\ exists
  /\ actor' = At(p, IF Active = {} THEN "waiting" ELSE "over")
  /\ UNCHANGED <<exists, hist, author, claim, run, backup, trouble, upkeep>>

(* The sweeper lists the thread if it has expired, and, to keep its latest     *)
(* state, if no run is active.                                              *)
Scan ==
  /\ ttl = "off" /\ expired /\ exists
  /\ policy = "keep_latest" => Active = {}
  /\ ttl' = policy
  /\ UNCHANGED <<history, del, policy, expired, expiries, strays>>

SweeperDeletes ==
  /\ ttl = "delete"
  /\ IF exists /\ del = "off"
     THEN del' = "erase" /\ run' = Aborted(Active, "cancel")
     ELSE UNCHANGED <<del, run>>
  /\ ttl' = "off"
  /\ UNCHANGED <<exists, hist, author, claim, actor, backup, trouble, policy, expired, expiries, strays>>

(* It prunes, unless a run has become active, and then sets the expiry anew,    *)
(* unless one has by then. A prune that threw leaves the thread expired, for    *)
(* the next scan.                                                            *)
SweeperPrunes ==
  /\ ttl = "keep_latest" /\ Pc(Sweeper) \in {"off", "over"}
  /\ IF exists /\ Active = {}
     THEN /\ actor' = [actor EXCEPT ![Sweeper].pc = "waiting"] /\ ttl' = "prune"
     ELSE ttl' = "off" /\ UNCHANGED actor
  /\ UNCHANGED <<exists, hist, author, claim, run, backup, trouble, del, policy, expired, expiries, strays>>

Rearmed == expired /\ ~(exists /\ Active = {})

Rearm ==
  /\ ttl = "prune" /\ Pc(Sweeper) = "over"
  /\ expired' = Rearmed
  /\ ttl' = "off"
  /\ UNCHANGED <<history, del, policy, expiries, strays>>

Missed ==
  /\ ttl = "failed" /\ Pc(Sweeper) = "over"
  /\ ttl' = "off"
  /\ UNCHANGED <<history, del, policy, expired, expiries, strays>>

Sweeping == Scan \/ SweeperDeletes \/ SweeperPrunes \/ Rearm \/ Missed

(* Time passes; the expiry slides with every state that is to be kept.         *)
Expire ==
  /\ policy # "never" /\ exists /\ ~expired /\ expiries < MaxExpiries
  /\ expired' = TRUE /\ expiries' = expiries + 1
  /\ UNCHANGED <<history, del, ttl, policy, strays>>

Mirror(r) ==
  /\ Settle(r)
  /\ expired' = (expired /\ policy = "delete")
  /\ UNCHANGED <<del, ttl, policy, expiries, strays>>

-----------------------------------------------------------------------------
Unseen(A) == A /\ UNCHANGED upkeep

(* A prune that waited for the claim does not look whether the thread still is. *)
Rewriter(a) ==
  /\ Rewrite(a)
  /\ strays' = (strays \/ (~exists /\ Pc(a) \in Rewriting))
  /\ UNCHANGED <<del, ttl, policy, expired, expiries>>

(* A call of a rewrite fails or its process dies; the sweeper's prune throws.    *)
Thrown_Swallowed == "prune"
Thrown == "failed"

Troubled(a) ==
  /\ Fail(a) \/ Dies(a)
  /\ ttl' = IF a = Sweeper /\ ttl = "prune" THEN Thrown ELSE ttl
  /\ UNCHANGED <<del, policy, expired, expiries, strays>>

Progress(a) ==
  \/ Unseen(Claim(a) \/ Release(a)) \/ Rewriter(a)
  \/ a \in Runs /\ (Unseen(Register(a) \/ Start(a) \/ Sweep(a)) \/ Mirror(a))

Next ==
  \/ \E a \in Actors : Progress(a) \/ Troubled(a)
  \/ \E r \in Runs : Unseen(Write(r) \/ \E s \in Strategies : Create(r, s))
  \/ \E p \in Prunes : Prune(p)
  \/ DeleteThread \/ Delete \/ Sweeping \/ Expire

Spec == Init /\ [][Next]_vars

(* Runs and prunes go on, the sweeper ticks, a deletion is carried through.     *)
FairSpec ==
  /\ Spec /\ WF_vars(Sweeping) /\ WF_vars(Delete)
  /\ \A a \in Actors : WF_vars(Progress(a)) /\ SF_vars(Unseen(Claim(a)))

-----------------------------------------------------------------------------
TypeOK ==
  /\ exists \in BOOLEAN /\ claim \in Actors \cup {"none"} /\ trouble \in 0..MaxTrouble
  /\ author \in Seq(Runs \cup {"past"}) /\ ToSet(hist) \subseteq DOMAIN author
  /\ backup \subseteq DOMAIN author
  /\ \A a \in Actors :
       /\ Pc(a) \in Holding \cup {"off", "queued", "waiting", "sweep", "over"}
       /\ Pc(a) \in Holding <=> claim = a
       /\ actor[a].done \in 0..Len(actor[a].keep)
       /\ ToSet(actor[a].scratch) \subseteq ToSet(actor[a].keep)
  /\ \A r \in Runs : /\ run[r].row \in {"none", "active", "over"}
                     /\ run[r].abort \in {"none", "cancel", "rollback"}
                     /\ {run[r].base, run[r].plan} \subseteq {-1, 0} \cup DOMAIN author
  /\ del \in {"off", "erase", "row"} /\ ttl \in {"off", "delete", "keep_latest", "prune", "failed"}
  /\ policy \in Policies /\ expiries \in 0..MaxExpiries

(* Whatever call fails and whenever a process dies, prunes and rollbacks lose   *)
(* nothing but what they are meant to: a thread's checkpoints are in its        *)
(* history or in a scratch copy (replaceCheckpointHistory; docs/storage.md:     *)
(* "retain that copy until recovery is complete"), and no prune or rollback     *)
(* takes what a run wrote meanwhile (withThreadExecution).                   *)
Saved == ToSet(hist) \cup backup \cup UNION {ToSet(actor[a].scratch) : a \in Actors}
Contract == INSTANCE HistoryContract WITH
  saved <- Saved, author <- author,
  displaced <- {r \in Runs : run[r].undone},
  pruning <- \E p \in Prunes : Pc(p) = "erase",
  deleting <- Erasing \/ strays
KeepsHistoryContract == Contract!Spec

(* Once a thread is deleted and everything has come to rest, no checkpoint is   *)
(* left under its name, if from the erasure on nobody but the runs that the     *)
(* deletion had aborted was at them, and these wrote none before the row was    *)
(* gone (deleteCheckpointsOfDeletedThread).                                  *)
AtRest == \A a \in Actors : Pc(a) \in {"off", "over"}
DeletedLeavesNothing == ~exists /\ AtRest /\ ~strays => hist = <<>>

(* An expired thread is deleted, or pruned and given another term, however many *)
(* sweeps fail or find it busy; a thread that was not pruned gets one only from  *)
(* a run that has settled (the loop of the sweeper, the catch of sweepBatch).   *)
Collected ==
  \/ ~exists
  \/ ~expired /\ (Len(hist) <= 1 \/ \E r \in Runs : run[r].row = "over")
ExpiredCollected == (expired /\ exists) ~> Collected

(* No run that the deletion aborted leaves a checkpoint once it has settled     *)
(* (the comment in deleteThread: it sweeps what it writes after the erasure).  *)
AbortedRunsSweep ==
  ~exists /\ AtRest =>
    \A n \in ToSet(hist) : author[n] \in Runs => run[author[n]].abort # "cancel"
=============================================================================
