---------------------------- MODULE StreamContract ----------------------------
(***************************************************************************)
(* What a client of a run's event stream may rely on, without channels,     *)
(* cursors, mailboxes or connections: the numbers it receives only go up,   *)
(* none is invented, and within a connection none is skipped. Only where a  *)
(* connection starts, and after a loss that a lossy bus owns up to, may the  *)
(* next number lie further ahead.                                           *)
(***************************************************************************)
EXTENDS Integers

CONSTANTS Runs, Clients
VARIABLES top,    \* top[r]: the highest frame number run r has published
          last,   \* last[c]: the last number c received, its Last-Event-ID
          anchor  \* anchor[c]: whether the next number may be any later one

Init == /\ top = [r \in Runs |-> 0]
        /\ last = [c \in Clients |-> 0] /\ anchor = [c \in Clients |-> TRUE]

Publish(r) == top' = [top EXCEPT ![r] = @ + 1] /\ UNCHANGED <<last, anchor>>

(* Streams end, or own up to a loss.                                          *)
Break(S) ==
  /\ anchor' = [c \in Clients |-> anchor[c] \/ c \in S]
  /\ UNCHANGED <<top, last>>

Receive(c) ==
  /\ \E r \in Runs : \E n \in last[c] + 1..top[r] :
       (anchor[c] \/ n = last[c] + 1) /\ last' = [last EXCEPT ![c] = n]
  /\ \E more \in {FALSE, anchor[c]} : anchor' = [anchor EXCEPT ![c] = more]
  /\ UNCHANGED top

Next == \/ \E r \in Runs : Publish(r)
        \/ \E c \in Clients : Receive(c)
        \/ \E S \in SUBSET Clients : Break(S)

Spec == Init /\ [][Next]_<<top, last, anchor>>
=============================================================================
