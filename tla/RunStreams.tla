------------------------------ MODULE RunStreams ------------------------------
(***************************************************************************)
(* The event streams of runs over either bus: the buses composed with the    *)
(* engine and the clients of RunFeed, and what they promise.                 *)
(***************************************************************************)
EXTENDS MemoryRunEventBus, RedisRunEventBus

vars == <<feed, memoryBus, redisBus>>

Init == FeedInit /\ MemoryInit /\ RedisInit

MemoryClient(c) == MemoryJoinClose(c) \/ MemorySubscribe(c) \/ MemoryRead(c)
MemoryStep ==
  /\ \/ \E r \in MemoryRuns : \/ MemoryPublish(r) \/ MemoryEngineClose(r)
                             \/ MemoryWithdraw(r) \/ MemoryForget(r)
     \/ \E c \in Clients : MemoryClient(c) \/ MemoryReturn(c)
     \/ MemoryCrash
  /\ UNCHANGED redisBus

RedisClient(c) == \/ RedisJoinClose(c) \/ RedisAttach(c) \/ RedisReplay(c)
                  \/ RedisPage(c) \/ RedisCheck(c) \/ RedisLive(c)
RedisEngine(r) == \/ RedisPublish(r) \/ RedisSend(r) \/ RedisCloseAppend(r)
                  \/ RedisCloseMark(r)
RedisStep ==
  /\ \/ \E r \in RedisRuns : \/ RedisEngine(r) \/ RedisWithdraw(r) \/ RedisCrash(r)
                            \/ ExpireStream(r) \/ ExpireClosedKey(r)
     \/ \E c \in Clients : RedisClient(c) \/ RedisReturn(c)
     \/ Disconnect \/ Reconnect
  /\ UNCHANGED memoryBus

FeedStep ==
  /\ \/ \E r \in Runs : Settle(r) \/ Cancel(r) \/ DeleteThread(r) \/ \E c \in Clients : Join(c, r)
     \/ \E c \in Clients : Tell(c) \/ HangUp(c)
  /\ UNCHANGED <<memoryBus, redisBus>>

Next == MemoryStep \/ RedisStep \/ FeedStep

Spec == Init /\ [][Next]_vars

(* Some reader goes on reading, timers fire, and the link comes back.          *)
ReaderStep ==
  \E c \in Clients : \/ MemoryClient(c) /\ UNCHANGED redisBus
                     \/ RedisClient(c) /\ UNCHANGED memoryBus
                     \/ Tell(c) /\ UNCHANGED <<memoryBus, redisBus>>
FairSpec == Spec /\ WF_vars(ReaderStep) /\ WF_vars(Reconnect /\ UNCHANGED memoryBus)

-----------------------------------------------------------------------------
TypeOK ==
  /\ driver \in Drivers
  /\ run \in [Runs -> [pc: {"running", "sending", "settled", "appended", "closed", "stranded"},
                       seq: 0..MaxFrames, top: 0..MaxFrames, attempt: 1..MaxTrouble + 1,
                       row: {"active", "cancelling", "cancelled", "deleting", "deleted"}]]
  /\ client \in [Clients ->
       [pc: {"off", "close", "subscribe", "replay", "paging", "live", "sweeping", "ending"},
        run: Runs \cup {"none"}, last: 0..MaxFrames, fresh: BOOLEAN, left: BOOLEAN,
        end: {"none", "close", "gone", "holed", "behind", "done"}]]
  /\ published \in 0..MaxFrames /\ joins \in 0..MaxJoins /\ trouble \in 0..MaxTrouble
  /\ \A r \in Runs : /\ channel[r].state \in {"none", "open", "closed"}
                     /\ Len(channel[r].frames) <= MaxFramesPerRun
  /\ \A c \in Clients : Len(mailbox[c].buffer) <= SubscriberBufferFrames

(* Numbers only go up over all of a client's connections, and within one none *)
(* is skipped; the Redis bus may skip after a PUBLISH lost with the link or a  *)
(* mailbox that overflowed (#trim, #attach, #replayFrom, Last-Event-ID).       *)
Contract == INSTANCE StreamContract WITH
  top <- [r \in Runs |-> run[r].top],
  last <- [c \in Clients |-> client[c].last],
  anchor <- [c \in Clients |-> client[c].fresh \/ client[c].pc \in {"off", "ending"} \/ mailbox[c].missed \/ mailbox[c].overflowed]
KeepsStreamContract == Contract!Spec

(* A stream that ended because its run was closed carried the run's last       *)
(* frame, unless the run was cancelled, deleted or executed more than once, or *)
(* its frames had expired before anything could be read. (The engine of a      *)
(* cancelled or deleted run may publish behind the close.)                    *)
ClosedMeansComplete ==
  \A c \in Clients :
    LET r == client[c].run IN
    client[c].end = "close" /\ run[r].row = "active"
      /\ run[r].attempt = 1 /\ (~client[c].fresh \/ trouble = 0)
      => client[c].last = run[r].top

(* The memory bus keeps no more closed channels than it retains, except those  *)
(* still read, and no channel that nobody can ever release (#evictClosedBeyond-*)
(* Cap, the teardown of subscribe).                                          *)
ChannelsBounded ==
  /\ Cardinality(Retained(closedOrder)) > MaxRetainedRuns => Retained(closedOrder) \subseteq Busy
  /\ \A r \in Runs : /\ channel[r].state = "closed" <=> r \in Retained(closedOrder)
                     /\ channel[r].state = "open" /\ Readers(r) = {} =>
                          run[r].pc \in {"running", "settled"}

(* Once the stream of a run is closed every connected client is released,     *)
(* one that hung up included, however late it joined and whatever was lost,   *)
(* unless the engine of a withdrawn run opened its released channel again and *)
(* has yet to close it.                                                      *)
BusClosed(r) ==
  \/ channel[r].state = "closed" \/ r \in closedKey
  \/ r \in finished /\ (channel[r].state = "none" \/ run[r].pc \notin {"running", "settled"})
Lingering(c) == \E r \in Runs : c \in Of(r) /\ BusClosed(r)
StreamsEnd == (\E c \in Clients : Lingering(c)) ~> (\A c \in Clients : ~Lingering(c))
=============================================================================
