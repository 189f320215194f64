------------------------------- MODULE RunFeed -------------------------------
(***************************************************************************)
(* Both ends of a run's event stream, whichever bus lies between them: the  *)
(* engine that numbers and publishes frames, settles its run and closes the *)
(* stream, the cancels and deletions that take the row away from under it,  *)
(* and the clients that join a stream, read it and reconnect with the       *)
(* number of the last frame they got.                                       *)
(***************************************************************************)
EXTENDS Integers, Sequences, FiniteSets

CONSTANTS MemoryRuns,  \* the runs of an instance with the memory bus
          RedisRuns,   \* the runs of an instance with the Redis bus
          Clients,     \* numbers, in the order of their first connections
          MaxFrames,   \* bound on the frames published, all together
          MaxJoins,    \* bound on the clients' connections
          MaxTrouble   \* bound on crashes, link failures, expiries, hang-ups, cancels and deletions

ASSUME FeedAssumption ==
  "none" \notin MemoryRuns \cup RedisRuns /\ {MaxFrames, MaxJoins, MaxTrouble} \subseteq Nat

VARIABLES
  driver,  \* the configured bus; never changes
  run,     \* run[r]: its engine; top, the highest number it ever published; its row
  client,  \* client[c]: its stream, and, once exhausted, why
  published, \* frames so far
  joins,   \* connections so far
  trouble  \* so far

feed == <<driver, run, client, published, joins, trouble>>

Runs == MemoryRuns \cup RedisRuns
Drivers == {"memory", "redis"}
Served == IF driver = "memory" THEN MemoryRuns ELSE RedisRuns

(* An engine that is still at it, and what a read of the row says meanwhile.   *)
Executing(r) == run[r].pc \in {"running", "sending"}
Terminal(r) == ~Executing(r) \/ run[r].row \in {"cancelling", "cancelled", "deleted"}

NewRun == [pc |-> "running", seq |-> 0, top |-> 0, attempt |-> 1, row |-> "active"]
NewClient == [pc |-> "off", run |-> "none", last |-> 0, fresh |-> TRUE, left |-> FALSE,
              end |-> "none"]

FeedInit ==
  /\ driver \in Drivers
  /\ run = [r \in Runs |-> IF r \in Served THEN NewRun ELSE [NewRun EXCEPT !.pc = "closed"]]
  /\ client = [c \in Clients |-> NewClient]
  /\ published = 0 /\ joins = 0 /\ trouble = 0

Of(r) == {c \in Clients : client[c].run = r /\ client[c].pc # "off"}
Readers(r) == {c \in Of(r) : client[c].pc = "live"}

Trouble == trouble < MaxTrouble /\ trouble' = trouble + 1

(* --- the engine ------------------------------------------------------------ *)
(* Every attempt at a run numbers its frames from 1.                          *)
NextSeq(r) == run[r].seq + 1
Numbered(r) == LET n == NextSeq(r) IN
  [run[r] EXCEPT !.seq = n, !.top = IF n > @ THEN n ELSE @]

Number(r) ==
  /\ run[r].pc = "running" /\ published < MaxFrames
  /\ published' = published + 1

Settle(r) ==
  /\ run[r].pc = "running"
  /\ run' = [run EXCEPT ![r].pc = "settled"]
  /\ UNCHANGED <<driver, client, published, joins, trouble>>

(* cancelRun writes the row while the engine goes on publishing, until it     *)
(* notices. One that had read the run as pending also closes its stream.      *)
Cancel(r) ==
  /\ ~Terminal(r) /\ run[r].row = "active" /\ Trouble
  /\ \E row \in {"cancelling", "cancelled"} : run' = [run EXCEPT ![r].row = row]
  /\ UNCHANGED <<driver, client, published, joins>>

(* deleteThread aborts an active run and closes its stream before the rows go. *)
DeleteThread(r) ==
  /\ ~Terminal(r) /\ run[r].row = "active" /\ Trouble
  /\ run' = [run EXCEPT ![r].row = "deleting"]
  /\ UNCHANGED <<driver, client, published, joins>>

Withdrawing(r) == run[r].row \in {"cancelling", "deleting"}
Withdrawn(r) == [run EXCEPT ![r].row = IF @ = "cancelling" THEN "cancelled" ELSE "deleted"]

(* A process died: its active runs are executed again, one whose row is       *)
(* terminal only to have its stream closed; a settled one whose stream it had *)
(* not closed stays as it is.                                                *)
Recovered(r) ==
  CASE Executing(r) ->
         [run[r] EXCEPT !.pc = IF Terminal(r) THEN "settled" ELSE "running", !.seq = 0,
                        !.attempt = @ + 1]
    [] run[r].pc \in {"settled", "appended"} -> [run[r] EXCEPT !.pc = "stranded"]
    [] OTHER -> run[r]

(* --- the client ------------------------------------------------------------ *)
(* join reads the row first: it closes the stream of a terminal run, whoever   *)
(* made it terminal, and does not find a deleted one.                         *)
Join(c, r) ==
  /\ r \in Served /\ run[r].row # "deleted" /\ client[c].pc = "off" /\ joins < MaxJoins /\ client[c].end # "done"
  /\ client[c].run \in {"none", r} /\ \A d \in Clients : d < c => client[d].run # "none"
  /\ client' = [client EXCEPT ![c] = [@ EXCEPT !.pc = IF Terminal(r) THEN "close" ELSE "subscribe",
       !.run = r, !.fresh = TRUE]]
  /\ joins' = joins + 1
  /\ UNCHANGED <<driver, run, published, trouble>>

(* The client received frame n.                                              *)
Got(c, n) == [client EXCEPT ![c].last = n, ![c].fresh = FALSE]

(* The iterator is exhausted; a client that is still there hears why.         *)
Ended(c, why) ==
  [client EXCEPT ![c].pc = IF client[c].left THEN "off" ELSE "ending", ![c].left = FALSE,
                 ![c].end = IF client[c].left THEN "none" ELSE why]
Dropped(S) == [c \in Clients |->
  IF c \in S THEN [client[c] EXCEPT !.pc = "off", !.left = FALSE, !.end = "none"] ELSE client[c]]

(* toSseEvents appends an end event with the status the row has by then.     *)
Tell(c) ==
  /\ client[c].pc = "ending"
  /\ client' = [client EXCEPT ![c].pc = "off",
                ![c].end = IF @ \in {"close", "gone"} THEN "done" ELSE "none"]
  /\ UNCHANGED <<driver, run, published, joins, trouble>>

(* The client hangs up while its stream waits for a frame: the iterator's    *)
(* return() is queued behind the pending next().                             *)
HangUp(c) ==
  /\ client[c].pc = "live" /\ ~client[c].left
  /\ Trouble
  /\ client' = [client EXCEPT ![c].left = TRUE]
  /\ UNCHANGED <<driver, run, published, joins>>
=============================================================================
