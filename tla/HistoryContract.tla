---------------------------- MODULE HistoryContract ----------------------------
(***************************************************************************)
(* What may happen to the checkpoints of a thread, without savers, scratch    *)
(* copies, claims or crashes: runs add them; a prune keeps the newest; a       *)
(* rollback takes only what displaced runs wrote; the deletion of the thread   *)
(* takes any. No other step loses a checkpoint.                              *)
(***************************************************************************)
EXTENDS Integers, Sequences

CONSTANT Runs
VARIABLES saved,     \* the checkpoints that can be read or recovered
          author,    \* author[n]: the run that wrote checkpoint n
          displaced, \* the runs displaced by rollback
          pruning,   \* a prune is about to replace the history
          deleting   \* the thread is being deleted, or was: nothing is promised any more

Init == /\ saved = DOMAIN author /\ displaced = {} /\ pruning = FALSE /\ deleting = FALSE

Write ==
  /\ \E r \in Runs : author' = Append(author, r)
  /\ saved' = saved \cup {Len(author')}

Prune == pruning /\ \A n \in saved \ saved' : \E m \in saved' : m > n
Rollback == \A n \in saved \ saved' : author[n] \in displaced
Lose ==
  /\ saved' \subseteq DOMAIN author /\ UNCHANGED author
  /\ deleting \/ (saved' \subseteq saved /\ (Prune \/ Rollback))

NoPardon == displaced \subseteq displaced'

Next == NoPardon /\ (Write \/ Lose)

Spec == Init /\ [][Next]_<<saved, author, displaced, pruning, deleting>>
=============================================================================
