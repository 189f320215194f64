-------------------------- MODULE MemoryRunEventBus --------------------------
(***************************************************************************)
(* The in-process run event bus: one buffer of frames per run, which is      *)
(* also its replay log, a cursor per reader, and a bounded set of closed     *)
(* channels kept for late joins.                                            *)
(***************************************************************************)
EXTENDS RunFeed

CONSTANTS MaxFramesPerRun,  \* frames one channel buffers
          MaxRetainedRuns   \* closed channels kept for replay

ASSUME MemoryAssumption == {MaxFramesPerRun, MaxRetainedRuns} \subseteq Nat \ {0}

VARIABLES
  channel,      \* channel[r]: its buffer; NoChannel if the map has none
  closedOrder,  \* closed runs in close order: <<s, r>> if s was closed no later than r
  finished,     \* remembered ids of finished runs whose channel is gone
  cursor        \* cursor[c]: position of reader c, and its afterSeq

memoryBus == <<channel, closedOrder, finished, cursor>>

NoChannel == [state |-> "none", frames |-> <<>>]
NoCursor == [at |-> 0, after |-> 0]

MemoryInit ==
  /\ channel = [r \in Runs |-> NoChannel]
  /\ closedOrder = {} /\ finished = {}
  /\ cursor = [c \in Clients |-> NoCursor]

(* #channel creates the channel of a run the bus has not seen.                *)
Channel(r) == IF channel[r].state = "none" THEN [channel[r] EXCEPT !.state = "open"] ELSE channel[r]

OverCap(frames) == IF Len(frames) > MaxFramesPerRun THEN Len(frames) - MaxFramesPerRun ELSE 0

(* Trimming moves the readers with their frames, below zero if need be.       *)
Shift_Clamped(at, over) == IF at > over THEN at - over ELSE 0
Shift(at, over) == at - over

MemoryPublish(r) ==
  /\ driver = "memory" /\ Number(r)
  /\ LET frames == Append(Channel(r).frames, NextSeq(r))
         over == OverCap(frames)
     IN /\ channel' = [channel EXCEPT ![r] =
             [Channel(r) EXCEPT !.frames = SubSeq(frames, over + 1, Len(frames))]]
        /\ cursor' = [c \in Clients |-> IF c \in Readers(r)
                      THEN [cursor[c] EXCEPT !.at = Shift(@, over)] ELSE cursor[c]]
  /\ run' = [run EXCEPT ![r] = Numbered(r)]
  /\ UNCHANGED <<driver, joins, client, trouble, closedOrder, finished>>

(* The closed runs whose channel is kept; a second close keeps the place.     *)
Retained(order) == {r \in Runs : <<r, r>> \in order}
Entered(order, r) ==
  order \cup IF r \in Retained(order) THEN {} ELSE (Retained(order) \cup {r}) \X {r}

(* Those beyond the cap that nobody reads, oldest first.                      *)
EvictClosedBeyondCap(order, busy) ==
  LET free == Retained(order) \ busy
      excess == Cardinality(Retained(order)) - MaxRetainedRuns
  IN {r \in free : Cardinality({s \in free : <<s, r>> \in order}) <= excess}

Busy == {r \in Runs : Readers(r) # {}}

(* close and the teardown of a subscription release a set of channels.        *)
Release(ch, order, gone) ==
  /\ channel' = [r \in Runs |-> IF r \in gone THEN NoChannel ELSE ch[r]]
  /\ closedOrder' = order \cap ((Runs \ gone) \X (Runs \ gone))
  /\ finished' = finished \cup gone

MemoryClose(r) ==
  IF channel[r].state = "none" /\ r \in finished THEN UNCHANGED <<channel, closedOrder, finished>>
  ELSE LET order == Entered(closedOrder, r)
       IN Release([channel EXCEPT ![r].state = "closed"], order,
                  IF channel[r].frames = <<>> /\ Readers(r) = {} THEN {r}
                  ELSE EvictClosedBeyondCap(order, Busy))

MemoryEngineClose(r) ==
  /\ driver = "memory" /\ run[r].pc = "settled"
  /\ MemoryClose(r)
  /\ run' = [run EXCEPT ![r].pc = "closed"]
  /\ UNCHANGED <<driver, published, joins, client, trouble, cursor>>

(* The close of a cancel that read the run as pending, or of a deletion.      *)
MemoryWithdraw(r) ==
  /\ driver = "memory" /\ Withdrawing(r)
  /\ MemoryClose(r)
  /\ run' = Withdrawn(r)
  /\ UNCHANGED <<driver, published, joins, client, trouble, cursor>>

MemoryJoinClose(c) ==
  /\ driver = "memory" /\ client[c].pc = "close"
  /\ MemoryClose(client[c].run)
  /\ client' = [client EXCEPT ![c].pc = "subscribe"]
  /\ UNCHANGED <<driver, published, joins, run, trouble, cursor>>

(* A finished run without a channel has nothing to replay.                    *)
KnownFinished_Forgets(r) == FALSE
KnownFinished(r) == channel[r].state = "none" /\ r \in finished

MemorySubscribe(c) ==
  /\ driver = "memory" /\ client[c].pc = "subscribe"
  /\ LET r == client[c].run IN
     \/ /\ KnownFinished(r)
        /\ client' = Ended(c, "gone")
        /\ UNCHANGED <<channel, cursor>>
     \/ /\ ~KnownFinished(r)
        /\ channel' = [channel EXCEPT ![r] = Channel(r)]
        /\ cursor' = [cursor EXCEPT ![c] = [at |-> 0, after |-> client[c].last]]
        /\ client' = [client EXCEPT ![c].pc = "live"]
  /\ UNCHANGED <<driver, published, joins, run, trouble, closedOrder, finished>>

(* The finally block of subscribe: the last reader's departure drops an empty *)
(* channel, and lets a closed one be evicted.                                 *)
Teardown_KeepsClosed(r, rest) ==
  IF r \notin rest /\ channel[r].frames = <<>> THEN Release(channel, closedOrder, {r})
  ELSE UNCHANGED <<channel, closedOrder, finished>>
Teardown(r, rest) ==
  CASE r \in rest -> UNCHANGED <<channel, closedOrder, finished>>
    [] r \notin rest /\ channel[r].frames = <<>> /\ channel[r].state = "closed" ->
         Release(channel, closedOrder, {r})
    [] r \notin rest /\ channel[r].frames = <<>> /\ channel[r].state # "closed" ->
         channel' = [channel EXCEPT ![r] = NoChannel] /\ UNCHANGED <<closedOrder, finished>>
    [] r \notin rest /\ channel[r].frames # <<>> /\ channel[r].state = "closed" ->
         Release(channel, closedOrder, EvictClosedBeyondCap(closedOrder, rest))
    [] OTHER -> UNCHANGED <<channel, closedOrder, finished>>

Leave(c, next) ==
  LET r == client[c].run IN
  /\ Teardown(r, {s \in Runs : Readers(s) \ {c} # {}})
  /\ client' = next
  /\ cursor' = [cursor EXCEPT ![c] = NoCursor]

(* One turn of the read loop; a waiting reader is woken by what enables it.   *)
MemoryRead(c) ==
  /\ driver = "memory" /\ client[c].pc = "live"
  /\ LET ch == channel[client[c].run]
         at == cursor[c].at
     IN \/ at < 0 /\ Leave(c, Ended(c, "behind"))
        \/ /\ at >= 0 /\ at < Len(ch.frames)
           /\ IF ch.frames[at + 1] > cursor[c].after /\ client[c].left THEN Leave(c, Dropped({c}))
              ELSE /\ cursor' = [cursor EXCEPT ![c].at = at + 1]
                   /\ client' = IF ch.frames[at + 1] > cursor[c].after
                                THEN Got(c, ch.frames[at + 1]) ELSE client
                   /\ UNCHANGED <<channel, closedOrder, finished>>
        \/ at = Len(ch.frames) /\ ch.state = "closed" /\ Leave(c, Ended(c, "close"))
  /\ UNCHANGED <<driver, published, joins, run, trouble>>

(* The client hangs up while the iterator is suspended in a yield.            *)
MemoryReturn(c) ==
  /\ driver = "memory" /\ client[c].pc = "live" /\ ~client[c].left /\ ~client[c].fresh
  /\ Trouble
  /\ Leave(c, Dropped({c}))
  /\ UNCHANGED <<driver, published, joins, run>>

(* A remembered id passes its TTL.                                            *)
MemoryForget(r) ==
  /\ driver = "memory" /\ r \in finished
  /\ \A c \in Of(r) : client[c].pc # "subscribe"
  /\ Trouble
  /\ finished' = finished \ {r}
  /\ UNCHANGED <<driver, published, joins, run, client, channel, closedOrder, cursor>>

(* The bus dies with its process, and so does every stream.                   *)
MemoryCrash ==
  /\ driver = "memory" /\ Trouble
  /\ run' = [r \in Runs |-> Recovered(r)]
  /\ client' = Dropped({c \in Clients : client[c].pc # "off"})
  /\ channel' = [r \in Runs |-> NoChannel] /\ closedOrder' = {} /\ finished' = {}
  /\ cursor' = [c \in Clients |-> NoCursor]
  /\ UNCHANGED <<driver, published, joins>>
=============================================================================
