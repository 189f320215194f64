--------------------------- MODULE RedisRunEventBus ---------------------------
(***************************************************************************)
(* The Redis run event bus: a durable stream per run for replay, a pub/sub   *)
(* channel for live frames with a bounded mailbox per reader, and a marker   *)
(* that outlives the stream. All readers share one pub/sub connection,       *)
(* which may drop. The ids of stream entries are their positions from 1.    *)
(***************************************************************************)
EXTENDS RunFeed

CONSTANTS StreamMaxLen,            \* frames kept when the stream is trimmed
          SubscriberBufferFrames  \* capacity of a mailbox

ASSUME RedisAssumption == {StreamMaxLen, SubscriberBufferFrames} \subseteq Nat \ {0}

VARIABLES
  stream,      \* stream[r]: entries, after as many trimmed or expired ones
  closedKey,   \* runs with a closed marker
  connected,   \* whether the pub/sub connection is up
  subscribed,  \* runs whose SUBSCRIBE has taken effect on it
  mailbox,     \* mailbox[c]: messages waiting for reader c
  reading      \* reading[c]: the page being yielded, lastSeq and lastId

redisBus == <<stream, closedKey, connected, subscribed, mailbox, reading>>

CLOSE == 0
NoStream == [dropped |-> 0, entries |-> <<>>]
NoMailbox == [buffer |-> <<>>, overflowed |-> FALSE, missed |-> FALSE]
NoReading == [page |-> <<>>, lastSeq |-> 0, lastId |-> 0]

RedisInit ==
  /\ stream = [r \in Runs |-> NoStream] /\ closedKey = {}
  /\ connected = TRUE /\ subscribed = {}
  /\ mailbox = [c \in Clients |-> NoMailbox] /\ reading = [c \in Clients |-> NoReading]

(* --- publishing ------------------------------------------------------------- *)
(* XADD; MAXLEN ~ may keep more than the cap, which only helps a replay.        *)
XAdd(r, entry, cap) ==
  LET all == Append(stream[r].entries, entry)
      excess == IF Len(all) > cap THEN Len(all) - cap ELSE 0
  IN stream' = [stream EXCEPT ![r] = [dropped |-> @.dropped + excess,
                                      entries |-> SubSeq(all, excess + 1, Len(all))]]

(* Mailboxes on the run's channel. Those past the replay depend on PUBLISH.    *)
Listening(r) == {c \in Of(r) : client[c].pc \notin {"close", "ending"}}
Tailing(r) == {c \in Of(r) : client[c].pc \in {"paging", "live"}}

(* The shared handler pushes to every mailbox; a full one overflows.          *)
Push(box, message) ==
  IF Len(box.buffer) >= SubscriberBufferFrames THEN [box EXCEPT !.overflowed = TRUE]
  ELSE [box EXCEPT !.buffer = Append(@, message)]

(* PUBLISH reaches nobody while the connection is down. missed is not kept by *)
(* the code, which cannot know.                                              *)
Publish(r, message) ==
  mailbox' = [c \in Clients |->
    IF c \in Listening(r) /\ connected /\ r \in subscribed THEN Push(mailbox[c], message)
    ELSE [mailbox[c] EXCEPT !.missed = @ \/ (c \in Tailing(r) /\ ~connected)]]

(* The pipelines run in order, but other connections come in between.         *)
RedisPublish(r) ==
  /\ driver = "redis" /\ Number(r)
  /\ XAdd(r, NextSeq(r), StreamMaxLen)
  /\ run' = [run EXCEPT ![r] = [Numbered(r) EXCEPT !.pc = "sending"]]
  /\ UNCHANGED <<driver, joins, client, trouble, closedKey, connected, subscribed, mailbox, reading>>

RedisSend(r) ==
  /\ driver = "redis" /\ run[r].pc = "sending"
  /\ Publish(r, run[r].seq)
  /\ run' = [run EXCEPT ![r].pc = "running"]
  /\ UNCHANGED <<driver, published, joins, client, trouble, stream, closedKey, connected, subscribed, reading>>

(* close: a run still marked closed is left alone.                            *)
RedisCloseAppend(r) ==
  /\ driver = "redis" /\ run[r].pc = "settled"
  /\ IF r \in closedKey THEN UNCHANGED stream /\ run' = [run EXCEPT ![r].pc = "closed"]
     ELSE XAdd(r, CLOSE, Len(stream[r].entries) + 1) /\ run' = [run EXCEPT ![r].pc = "appended"]
  /\ UNCHANGED <<driver, published, joins, client, trouble, closedKey, connected, subscribed, mailbox, reading>>

RedisCloseMark(r) ==
  /\ driver = "redis" /\ run[r].pc = "appended"
  /\ closedKey' = closedKey \cup {r}
  /\ Publish(r, CLOSE)
  /\ run' = [run EXCEPT ![r].pc = "closed"]
  /\ UNCHANGED <<driver, published, joins, client, trouble, stream, connected, subscribed, reading>>

(* The close of a request - a join of a terminal run, a cancel that read the   *)
(* run as pending, a deletion - in one step.                                 *)
CloseNow(r) ==
  IF r \in closedKey THEN UNCHANGED <<stream, closedKey, mailbox>>
  ELSE /\ XAdd(r, CLOSE, Len(stream[r].entries) + 1)
       /\ closedKey' = closedKey \cup {r}
       /\ Publish(r, CLOSE)

RedisWithdraw(r) ==
  /\ driver = "redis" /\ Withdrawing(r)
  /\ CloseNow(r)
  /\ run' = Withdrawn(r)
  /\ UNCHANGED <<driver, published, joins, client, trouble, connected, subscribed, reading>>

RedisJoinClose(c) ==
  /\ driver = "redis" /\ client[c].pc = "close"
  /\ CloseNow(client[c].run)
  /\ client' = [client EXCEPT ![c].pc = "subscribe"]
  /\ UNCHANGED <<driver, published, joins, run, trouble, connected, subscribed, reading>>

(* --- subscribing ---------------------------------------------------------- *)
(* #attach: every reader awaits the channel's one SUBSCRIBE.                  *)
SubscribeDone_FirstOnly(r) == r \in subscribed \/ connected \/ Cardinality(Listening(r)) > 1
SubscribeDone(r) == r \in subscribed \/ connected

RedisAttach(c) ==
  /\ driver = "redis" /\ client[c].pc = "subscribe"
  /\ LET r == client[c].run IN
     /\ SubscribeDone(r)
     /\ subscribed' = IF connected THEN subscribed \cup {r} ELSE subscribed
  /\ client' = [client EXCEPT ![c].pc = "replay"]
  /\ reading' = [reading EXCEPT ![c].lastSeq = client[c].last]
  /\ UNCHANGED <<driver, published, joins, run, trouble, stream, closedKey, connected, mailbox>>

(* #replayFrom: XRANGE from after the last id to the end.                     *)
EntriesAfter(r, id) ==
  LET s == stream[r] IN SubSeq(s.entries, IF id > s.dropped THEN id - s.dropped + 1 ELSE 1,
                               Len(s.entries))

Read(c) == LET r == client[c].run IN
  reading' = [reading EXCEPT ![c].page = EntriesAfter(r, reading[c].lastId),
                             ![c].lastId = stream[r].dropped + Len(stream[r].entries)]

RedisReplay(c) ==
  /\ driver = "redis" /\ client[c].pc = "replay"
  /\ Read(c)
  /\ client' = [client EXCEPT ![c].pc = "paging"]
  /\ UNCHANGED <<driver, published, joins, run, trouble, stream, closedKey, connected, subscribed, mailbox>>

(* #detach in the finally block unsubscribes a channel without readers.       *)
RedisLeave(c, next) ==
  LET r == client[c].run IN
  /\ client' = next
  /\ mailbox' = [mailbox EXCEPT ![c] = NoMailbox]
  /\ reading' = [reading EXCEPT ![c] = NoReading]
  /\ subscribed' = IF Listening(r) = {c} THEN subscribed \ {r} ELSE subscribed

SawClose(c) == RedisLeave(c, Ended(c,
  IF mailbox[c].missed \/ mailbox[c].overflowed THEN "holed" ELSE "close"))

(* A frame is yielded only if its number is above every one before it.       *)
Newer(c, n) == n > reading[c].lastSeq

RedisPage(c) ==
  /\ driver = "redis" /\ client[c].pc \in {"paging", "sweeping"}
  /\ LET page == reading[c].page
         n == Head(page)
         rest == [reading[c] EXCEPT !.page = Tail(page)]
     IN \/ page = <<>> /\ client[c].pc = "sweeping" /\ RedisLeave(c, Ended(c, "gone"))
        \/ page # <<>> /\ n = CLOSE /\ SawClose(c)
        \/ /\ page # <<>> /\ n # CLOSE
           /\ IF Newer(c, n)
              THEN client' = Got(c, n) /\ reading' = [reading EXCEPT ![c] = [rest EXCEPT !.lastSeq = n]]
              ELSE reading' = [reading EXCEPT ![c] = rest] /\ UNCHANGED client
           /\ UNCHANGED <<mailbox, subscribed>>
  /\ UNCHANGED <<driver, published, joins, run, trouble, stream, closedKey, connected>>

(* EXISTS on the marker: eagerly after the replay, and on the backstop tick   *)
(* of a quiet wait. A closed run is swept for what was not read yet; its      *)
(* marker outlives the wait, so both are one step, that of the sweep's read.  *)
Quiet(c) ==
  \/ client[c].pc = "paging" /\ reading[c].page = <<>>
  \/ client[c].pc = "live" /\ mailbox[c].buffer = <<>> /\ ~mailbox[c].overflowed
IsClosed(r) == r \in closedKey

RedisCheck(c) ==
  /\ driver = "redis" /\ Quiet(c)
  /\ \/ /\ IsClosed(client[c].run) /\ Read(c)
        /\ client' = [client EXCEPT ![c].pc = "sweeping"]
     \/ /\ ~IsClosed(client[c].run)
        /\ client' = [client EXCEPT ![c].pc = "live"] /\ UNCHANGED reading
  /\ UNCHANGED <<driver, published, joins, run, trouble, stream, closedKey, connected, subscribed, mailbox>>

(* A message of the mailbox; an overflowed one ends the stream once empty.    *)
RedisLive(c) ==
  /\ driver = "redis" /\ client[c].pc = "live"
  /\ LET buffer == mailbox[c].buffer
         n == Head(buffer)
         taken == [mailbox EXCEPT ![c].buffer = Tail(buffer)]
     IN \/ buffer = <<>> /\ mailbox[c].overflowed /\ RedisLeave(c, Ended(c, "behind"))
        \/ buffer # <<>> /\ n = CLOSE /\ SawClose(c)
        \/ buffer # <<>> /\ n # CLOSE /\ Newer(c, n) /\ client[c].left /\ RedisLeave(c, Dropped({c}))
        \/ /\ buffer # <<>> /\ n # CLOSE /\ Newer(c, n) /\ ~client[c].left
           /\ client' = Got(c, n) /\ mailbox' = taken
           /\ reading' = [reading EXCEPT ![c].lastSeq = n] /\ UNCHANGED subscribed
        \/ /\ buffer # <<>> /\ n # CLOSE /\ ~Newer(c, n)
           /\ mailbox' = taken /\ UNCHANGED <<client, reading, subscribed>>
  /\ UNCHANGED <<driver, published, joins, run, trouble, stream, closedKey, connected>>

(* The client hangs up while the iterator is suspended in a yield.            *)
RedisReturn(c) ==
  /\ driver = "redis" /\ client[c].pc \in {"paging", "live"} /\ ~client[c].left /\ ~client[c].fresh
  /\ Trouble
  /\ RedisLeave(c, Dropped({c}))
  /\ UNCHANGED <<driver, published, joins, run, stream, closedKey, connected>>

(* --- failures and time ---------------------------------------------------- *)
Disconnect ==
  /\ driver = "redis" /\ connected /\ Trouble
  /\ connected' = FALSE
  /\ UNCHANGED <<driver, published, joins, run, client, stream, closedKey, subscribed, mailbox, reading>>

(* ready: ioredis subscribes again, and poke wakes every waiting reader. A    *)
(* woken reader finds no message and goes on waiting: it skips the check.     *)
Reconnect ==
  /\ driver = "redis" /\ ~connected
  /\ connected' = TRUE
  /\ UNCHANGED <<driver, published, joins, run, client, trouble, stream, closedKey, subscribed, mailbox, reading>>

(* The stream's hour without a frame is longer than any set-up of a reader,   *)
(* the marker outlives the stream, and a day is longer than any backstop wait. *)
ExpireStream(r) ==
  /\ driver = "redis" /\ stream[r].entries # <<>> /\ run[r].pc \notin {"sending", "appended"}
  /\ \A c \in Listening(r) : client[c].pc = "live"
  /\ Trouble
  /\ stream' = [stream EXCEPT ![r] = [dropped |-> @.dropped + Len(@.entries), entries |-> <<>>]]
  /\ UNCHANGED <<driver, published, joins, run, client, closedKey, connected, subscribed, mailbox, reading>>

ExpireClosedKey(r) ==
  /\ driver = "redis" /\ r \in closedKey /\ stream[r].entries = <<>> /\ Of(r) = {}
  /\ Trouble
  /\ closedKey' = closedKey \ {r}
  /\ UNCHANGED <<driver, published, joins, run, client, stream, connected, subscribed, mailbox, reading>>

(* The process that executes a run dies; the readers are on another one.      *)
RedisCrash(r) ==
  /\ driver = "redis" /\ run[r].pc \notin {"closed", "stranded"} /\ Trouble
  /\ run' = [run EXCEPT ![r] = Recovered(r)]
  /\ UNCHANGED <<driver, published, joins, client, redisBus>>
=============================================================================
