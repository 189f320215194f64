----------------------------- MODULE RunContract -----------------------------
(***************************************************************************)
(* What a client may rely on for the runs of one thread, without requests,  *)
(* executions, claims or signals: a row moves from pending to running to    *)
(* one terminal status, and the callback a run owes is recorded in the very *)
(* step that makes it terminal. Admission displaces every active run of the *)
(* thread or none.                                                          *)
(***************************************************************************)
EXTENDS Sequences

CONSTANTS Runs, Webhook
VARIABLES row, calls

Active == {"pending", "running"}
Terminal == {"success", "error", "timeout", "interrupted", "cancelled"}

Init == row = [r \in Runs |-> "absent"] /\ calls = [r \in Runs |-> <<>>]

Told(S, st) == [r \in Runs |-> IF r \in S \cap Webhook THEN <<st>> ELSE calls[r]]

(* A new run. The runs it displaces are settled in the same step.            *)
Admit(c, S, st) ==
  /\ row[c] = "absent"
  /\ S \in {{}, {r \in Runs : row[r] \in Active}}
  /\ row' = [r \in Runs |-> IF r = c THEN "pending" ELSE IF r \in S THEN st ELSE row[r]]
  /\ calls' = Told(S, st)

Start(r) ==
  /\ row[r] \in Active
  /\ row' = [row EXCEPT ![r] = "running"]
  /\ UNCHANGED calls

Settle(r, st) ==
  /\ row[r] \in Active
  /\ row' = [row EXCEPT ![r] = st]
  /\ calls' = Told({r}, st)

Delete(r) ==
  /\ row[r] # "absent"
  /\ row' = [row EXCEPT ![r] = "deleted"]
  /\ UNCHANGED calls

(* A run deleted while it settles is still notified, once.                   *)
NotifyDeleted(r, st) ==
  /\ row[r] = "deleted" /\ r \in Webhook /\ calls[r] = <<>>
  /\ calls' = [calls EXCEPT ![r] = <<st>>]
  /\ UNCHANGED row

Next == \E r \in Runs :
  \/ Start(r) \/ Delete(r)
  \/ \E st \in Terminal : \/ Settle(r, st) \/ NotifyDeleted(r, st)
                         \/ \E S \in SUBSET Runs : Admit(r, S, st)

Spec == Init /\ [][Next]_<<row, calls>>
=============================================================================
