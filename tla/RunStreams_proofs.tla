--------------------------- MODULE RunStreams_proofs ---------------------------
(***************************************************************************)
(* The streams of either bus, for any number of runs and clients and any      *)
(* capacities. Over the memory bus a reader's cursor counts from its run's    *)
(* sequence number. Over Redis, whatever a reader has before it - the page    *)
(* in its hands, its mailbox, the entries it has not read - goes on from what *)
(* it has seen, as long as nothing was lost that the bus would own up to.     *)
(***************************************************************************)
EXTENDS RunStreams, FiniteSetTheorems, SequenceTheorems, TLAPS

(* A stream keeps all frames of its run and all closes put between them, or    *)
(* nothing fails and it keeps more frames than a mailbox holds.               *)
Roomy == \/ MaxFrames + MaxTrouble < StreamMaxLen
         \/ MaxTrouble = 0 /\ SubscriberBufferFrames < StreamMaxLen

-----------------------------------------------------------------------------
(* The inductive invariant: types.                                            *)
RunType == [pc: {"running", "sending", "settled", "appended", "closed", "stranded"},
            seq: Nat, top: Nat, attempt: Nat \ {0},
            row: {"active", "cancelling", "cancelled", "deleting", "deleted"}]
ClientType ==
  [pc: {"off", "close", "subscribe", "replay", "paging", "live", "sweeping", "ending"},
   run: Runs \cup {"none"}, last: Nat, fresh: BOOLEAN, left: BOOLEAN,
   end: {"none", "close", "gone", "holed", "behind", "done"}]
ChannelType == [state: {"none", "open", "closed"}, frames: Seq(Nat)]
StreamType == [dropped: Nat, entries: Seq(Nat)]
MailboxType == [buffer: Seq(Nat), overflowed: BOOLEAN, missed: BOOLEAN]
ReadingType == [page: Seq(Nat), lastSeq: Nat, lastId: Nat]

FeedTypes ==
  /\ driver \in Drivers
  /\ run \in [Runs -> RunType] /\ client \in [Clients -> ClientType]
  /\ published \in 0..MaxFrames /\ joins \in 0..MaxJoins /\ trouble \in 0..MaxTrouble
MemoryTypes ==
  /\ channel \in [Runs -> ChannelType]
  /\ closedOrder \in SUBSET (Runs \X Runs) /\ finished \in SUBSET Runs
  /\ cursor \in [Clients -> [at: Int, after: Nat]]
RedisTypes ==
  /\ stream \in [Runs -> StreamType] /\ closedKey \in SUBSET Runs
  /\ connected \in BOOLEAN /\ subscribed \in SUBSET Runs
  /\ mailbox \in [Clients -> MailboxType] /\ reading \in [Clients -> ReadingType]
Types == FeedTypes /\ MemoryTypes /\ RedisTypes

(* A stream is closed once its engine is over, or its row was withdrawn.       *)
Over(engine) == engine.pc \notin {"running", "sending"}
Closable(engine) == Over(engine) \/ engine.row # "active"

(* Both ends. Numbers are behind the frames published; a client has run and    *)
(* number of its connections so far.                                          *)
EngineOK(r) ==
  /\ run[r].seq <= run[r].top /\ run[r].top <= published
  /\ run[r].attempt <= trouble + 1
  /\ run[r].attempt = 1 => run[r].seq = run[r].top
  /\ run[r].row # "active" => trouble > 0
  /\ driver = "memory" => run[r].pc \notin {"sending", "appended"}
Engines == \A r \in Runs : EngineOK(r)
ConnectionOK(c) ==
  /\ client[c].pc # "off" => client[c].run \in Served
  /\ IF client[c].run \in Runs THEN client[c].last <= run[client[c].run].top
                               ELSE client[c].last = 0
  /\ client[c].pc \in {"close", "subscribe", "replay"} => client[c].fresh
  /\ client[c].pc = "close" \/ client[c].end = "close" => Closable(run[client[c].run])
  /\ client[c].end \in {"close", "gone", "holed", "behind"} => client[c].pc = "ending"
  /\ driver = "memory" => client[c].pc \notin {"replay", "paging", "sweeping"}
  /\ driver = "memory" => mailbox[c] = NoMailbox
Connections == \A c \in Clients : ConnectionOK(c)
CompleteOK(c) == LET r == client[c].run IN
  client[c].end = "close" /\ run[r].row = "active"
    /\ run[r].attempt = 1 /\ (~client[c].fresh \/ trouble = 0)
    => client[c].last = run[r].top

-----------------------------------------------------------------------------
(* The memory bus.                                                            *)
Counting(s, n) == \A i \in 1..Len(s) : s[i] = n - Len(s) + i

(* A channel that is retained or not, of a run that is remembered as finished  *)
(* or not, with an engine and readers; calm as long as nothing failed.         *)
ChannelIs(ch, retained, known, engine, readers, calm) ==
  /\ ch.state = "closed" <=> retained
  /\ ch.state = "closed" \/ known => Closable(engine)
  /\ ch.state = "open" /\ ch.frames # <<>> => engine.pc \in {"running", "settled"}
  /\ ch.state = "open" /\ ch.frames = <<>> => readers # {}
  /\ ch.state = "none" => ch.frames = <<>> /\ readers = {}
  /\ known => ch.state = "none" \/ engine.row # "active"
  /\ Len(ch.frames) <= MaxFramesPerRun /\ Len(ch.frames) <= engine.seq
  /\ Counting(ch.frames, engine.seq)
  /\ calm /\ engine.seq > 0 => ch.frames # <<>> \/ known
ChannelOK(r) == ChannelIs(channel[r], r \in Retained(closedOrder), r \in finished, run[r],
                          Readers(r), trouble = 0)
Channels == driver = "memory" => \A r \in Runs : ChannelOK(r)

(* Closed runs are in a total order.                                          *)
TotalOrder(order) ==
  /\ IsFiniteSet(Retained(order))
  /\ order \subseteq Retained(order) \X Retained(order)
  /\ \A r, s \in Retained(order) : <<r, s>> \in order \/ <<s, r>> \in order
  /\ \A r, s \in Retained(order) : <<r, s>> \in order /\ <<s, r>> \in order => r = s
  /\ \A r, s, t \in Retained(order) :
       <<r, s>> \in order /\ <<s, t>> \in order => <<r, t>> \in order
Ordered == TotalOrder(closedOrder)
Capped == driver = "memory" /\ Cardinality(Retained(closedOrder)) > MaxRetainedRuns
            => Retained(closedOrder) \subseteq Busy
Unused == driver = "redis" => closedOrder = {} /\ \A r \in Runs : channel[r] = NoChannel

(* A reader at position at has seen the frame with the number Position.        *)
Position(c) == LET r == client[c].run IN
  run[r].seq - Len(channel[r].frames) + cursor[c].at
CursorOK(c) == client[c].pc = "live" =>
  /\ cursor[c].at <= Len(channel[client[c].run].frames)
  /\ cursor[c].after <= client[c].last
  /\ client[c].fresh => /\ cursor[c].after = client[c].last
                        /\ cursor[c].at > 0 => Position(c) <= client[c].last
  /\ ~client[c].fresh => Position(c) = client[c].last
MemoryReaders == driver = "memory" => \A c \in Clients : CursorOK(c)

-----------------------------------------------------------------------------
(* The Redis bus.                                                             *)
Has(s, m) == \E i \in 1..Len(s) : m <= s[i]
Bare(s) == \A i \in 1..Len(s) : s[i] = CLOSE
Shut(s) == \E i \in 1..Len(s) : s[i] = CLOSE
Leads(x, y) == x = CLOSE \/ y <= x + 1
Smooth(s) == \A i \in 1..Len(s) - 1 : Leads(s[i], s[i + 1])
Ending(s) == \A i, j \in 1..Len(s) : i < j /\ s[i] = CLOSE => s[j] = CLOSE

Unbroken(engine) == engine.attempt = 1 /\ engine.row = "active"
Whole(engine) == Roomy \/ Unbroken(engine)
Sent(engine) == IF engine.pc = "sending" THEN engine.seq - 1 ELSE engine.seq

(* Its numbers were published, and it holds a close only once the run is over  *)
(* or withdrawn.                                                             *)
Bounded(s, engine) ==
  \A i \in 1..Len(s) : s[i] <= engine.top /\ (s[i] = CLOSE => Closable(engine))

(* The stream of a run, with what it has dropped: a running engine goes on     *)
(* from its last entry or behind a close, and whatever the engine reached is   *)
(* still in it, unless it has expired.                                        *)
LogIs(log, engine, closed, frames, failures) ==
  /\ Smooth(log.entries) /\ Bounded(log.entries, engine)
  /\ engine.row = "active" => Ending(log.entries)
  /\ closed => Closable(engine)
  /\ ~Over(engine) =>
       /\ log.entries # <<>> => \/ engine.seq <= log.entries[Len(log.entries)]
                                \/ log.entries[Len(log.entries)] = CLOSE
       /\ log.dropped + Len(log.entries) <= frames + failures + IF closed THEN 1 ELSE 0
  /\ engine.pc = "sending" => engine.seq > 0 /\ Has(log.entries, engine.seq)
  /\ \/ Has(log.entries, engine.seq)
     \/ Bare(log.entries) /\ (engine.seq > 0 => failures > 0)
LogOK(r) == LogIs(stream[r], run[r], r \in closedKey, published, trouble)
Logs == driver = "redis" => \A r \in Runs : LogOK(r)

(* The elements of s go on, one at a time at most, from n, from what p holds   *)
(* and from each other, or are behind a close; the first one is free to lie    *)
(* anywhere.                                                                 *)
Follows(s, free, n, p) == \A j \in 1..Len(s) :
  \/ j = 1 /\ free
  \/ s[j] <= n + 1
  \/ \E i \in 1..Len(p) : Leads(p[i], s[j])
  \/ \E i \in 1..j - 1 : Leads(s[i], s[j])

(* A close in s comes after number t, seen in n, in p or before it; or nothing *)
(* could be read, of a stream that has expired.                              *)
Complete(s, bare, n, p, t) == \A j \in 1..Len(s) : s[j] = CLOSE =>
  \/ t <= n \/ Has(p, t)
  \/ \E i \in 1..j - 1 : t <= s[i]
  \/ bare /\ Bare(p) /\ \A i \in 1..j - 1 : s[i] = CLOSE

Ahead(s, free, n, p, bare, engine) ==
  /\ Roomy => Follows(s, free, n, p)
  /\ Unbroken(engine) => Complete(s, bare, n, p, engine.top)

(* Number m is seen or still to come, in p or s.                               *)
Reached(m, n, p, s, bare) == m <= n \/ Has(p, m) \/ Has(s, m) \/ (bare /\ Bare(p) /\ Bare(s))

(* A client with its mailbox, what it reads, and the log and engine of its run. *)
Attached == {"replay", "paging", "live", "sweeping"}
Intact(box) == ~box.missed /\ ~box.overflowed
Expired(cl, failures) == cl.fresh /\ failures > 0
Left(rd, log) == SubSeq(log.entries, IF rd.lastId > log.dropped THEN rd.lastId - log.dropped + 1 ELSE 1,
                        Len(log.entries))

BoxIs(cl, box, rd, log, engine, listed) ==
  /\ cl.pc \in {"close", "ending"} => box = NoMailbox
  /\ cl.pc \in {"close", "subscribe", "ending"} => rd = NoReading
  /\ cl.pc = "replay" => rd.page = <<>> /\ rd.lastId = 0
  /\ cl.pc \in {"subscribe", "replay"} => ~box.missed
  /\ cl.pc = "live" => rd.page = <<>>
  /\ cl.pc \in Attached => rd.lastSeq = cl.last /\ cl.run \in listed
  /\ rd.lastId <= log.dropped + Len(log.entries)
  /\ Len(box.buffer) <= SubscriberBufferFrames
  /\ Bounded(box.buffer, engine) /\ Bounded(rd.page, engine)

(* Before the replay: what the mailbox holds, the stream still holds too.      *)
Covered(s, log) == \A i \in 1..Len(s) : s[i] = CLOSE \/ Has(log.entries, s[i])
StartIs(cl, box, log, engine) ==
  cl.pc \in {"subscribe", "replay"} /\ Whole(engine) => Covered(box.buffer, log)

PageIs(cl, box, rd, engine, failures) ==
  cl.pc \in {"paging", "sweeping"} /\ Intact(box) =>
    Ahead(rd.page, cl.fresh, rd.lastSeq, <<>>, Expired(cl, failures), engine)

(* What was not read when the page was: a sweep will read it.                  *)
UnreadIs(cl, box, rd, log, engine, failures) ==
  cl.pc = "paging" /\ Intact(box) =>
    /\ Ahead(Left(rd, log), cl.fresh /\ rd.page = <<>>, rd.lastSeq, rd.page, Expired(cl, failures), engine)
    /\ Reached(engine.seq, rd.lastSeq, rd.page, Left(rd, log), Expired(cl, failures))
    /\ MaxTrouble = 0 /\ ~Over(engine) =>
         Len(Left(rd, log)) <= Len(box.buffer) + IF engine.pc = "sending" THEN 1 ELSE 0

(* What is published after the replay waits in the mailbox.                    *)
LiveIs(cl, box, rd, engine, failures, keys) ==
  cl.pc \in {"paging", "live"} /\ Intact(box) =>
    /\ Ahead(box.buffer, cl.fresh /\ rd.page = <<>>, rd.lastSeq, rd.page, Expired(cl, failures), engine)
    /\ Whole(engine) => Reached(Sent(engine), rd.lastSeq, rd.page, box.buffer, Expired(cl, failures))
    /\ cl.pc = "live" /\ cl.run \in keys => \E i \in 1..Len(box.buffer) : box.buffer[i] = CLOSE

ReaderIs(cl, box, rd, log, engine, keys, listed, failures) ==
  /\ BoxIs(cl, box, rd, log, engine, listed) /\ StartIs(cl, box, log, engine)
  /\ PageIs(cl, box, rd, engine, failures) /\ UnreadIs(cl, box, rd, log, engine, failures)
  /\ LiveIs(cl, box, rd, engine, failures, keys)
ReaderOK(c) ==
  IF client[c].pc = "off" THEN mailbox[c] = NoMailbox /\ reading[c] = NoReading
  ELSE ReaderIs(client[c], mailbox[c], reading[c], stream[client[c].run], run[client[c].run],
                closedKey, subscribed, trouble)
RedisReaders == driver = "redis" => \A c \in Clients : ReaderOK(c)

Memory == Channels /\ Ordered /\ Capped /\ Unused /\ MemoryReaders
Redis == Logs /\ RedisReaders
IInv == Types /\ Engines /\ Connections /\ Memory /\ Redis /\ ClosedMeansComplete

-----------------------------------------------------------------------------
(* Sequences of numbers.                                                      *)
LEMMA Appended ==
  ASSUME NEW s \in Seq(Nat), NEW n \in Nat
  PROVE  /\ Append(s, n) \in Seq(Nat) /\ Append(s, n) # <<>>
         /\ Len(Append(s, n)) = Len(s) + 1
         /\ \A i \in 1..Len(s) : Append(s, n)[i] = s[i]
         /\ Append(s, n)[Len(s) + 1] = n
  BY AppendProperties

LEMMA Sequence ==
  ASSUME NEW s \in Seq(Nat)
  PROVE  /\ Len(s) \in Nat /\ (s = <<>> <=> Len(s) = 0)
         /\ \A i \in 1..Len(s) : s[i] \in Nat
<1>1. Len(s) \in Nat /\ \A i \in 1..Len(s) : s[i] \in Nat
  BY LenProperties, ElementOfSeq
<1>2. s = <<>> <=> Len(s) = 0
  BY EmptySeq
<1> QED
  BY <1>1, <1>2

LEMMA Cut ==
  ASSUME NEW s \in Seq(Nat), NEW k \in Nat, k <= Len(s)
  PROVE  /\ SubSeq(s, k + 1, Len(s)) \in Seq(Nat)
         /\ Len(SubSeq(s, k + 1, Len(s))) = Len(s) - k
         /\ \A i \in 1..Len(s) - k : SubSeq(s, k + 1, Len(s))[i] = s[k + i]
<1>1. Len(s) \in Nat /\ \A i \in 1..Len(s) : s[i] \in Nat
  BY Sequence
<1>2. \A i \in k + 1..Len(s) : s[i] \in Nat
  BY <1>1
<1>3. /\ SubSeq(s, k + 1, Len(s)) \in Seq(Nat)
      /\ Len(SubSeq(s, k + 1, Len(s))) = IF k + 1 <= Len(s) THEN Len(s) - (k + 1) + 1 ELSE 0
      /\ \A i \in 1..Len(s) - (k + 1) + 1 : SubSeq(s, k + 1, Len(s))[i] = s[k + 1 + i - 1]
  <2>1. k + 1 \in Int /\ Len(s) \in Int
    BY <1>1
  <2> QED
    BY <1>2, <2>1, SubSeqProperties
<1> QED
  BY <1>1, <1>3

LEMMA Popped ==
  ASSUME NEW s \in Seq(Nat), s # <<>>
  PROVE  /\ Head(s) \in Nat /\ Head(s) = s[1] /\ Tail(s) \in Seq(Nat) /\ Len(s) > 0
         /\ Len(Tail(s)) = Len(s) - 1
         /\ \A i \in 1..Len(s) - 1 : Tail(s)[i] = s[i + 1]
<1>1. Len(s) \in Nat /\ Len(s) # 0
  BY Sequence
<1>2. /\ Head(s) \in Nat /\ Tail(s) \in Seq(Nat) /\ Len(Tail(s)) = Len(s) - 1
      /\ \A i \in 1..Len(Tail(s)) : Tail(s)[i] = s[i + 1]
  BY HeadTailProperties
<1>3. Head(s) = s[1]
  OBVIOUS
<1> QED
  BY <1>1, <1>2, <1>3

-----------------------------------------------------------------------------
(* The order in which runs were closed.                                       *)

Oldest(order, free, k) == {r \in free : Cardinality({s \in free : <<s, r>> \in order}) <= k}

(* Of a finite ordered set, as many elements as wanted are among the first     *)
(* so many.                                                                  *)
LEMMA Ranked ==
  ASSUME NEW order, TotalOrder(order), NEW free \in SUBSET Retained(order), NEW k \in Nat
  PROVE  /\ Cardinality(free) <= k => Oldest(order, free, k) = free
         /\ Cardinality(free) > k => Cardinality(Oldest(order, free, k)) = k
<1> DEFINE Down(r) == {s \in free : <<s, r>> \in order}
           rank == [r \in free |-> Cardinality(Down(r))]
           n == Cardinality(free)
           gone == {r \in free : Cardinality(Down(r)) <= k}
<1>1. IsFiniteSet(free) /\ n \in Nat
  BY FS_Subset, FS_CardinalityType DEF TotalOrder
<1>2. \A r \in free : IsFiniteSet(Down(r)) /\ Cardinality(Down(r)) \in 1..n /\ r \in Down(r)
  <2> TAKE r \in free
  <2>1. r \in Down(r)
    BY DEF TotalOrder
  <2>2. Down(r) \in SUBSET free
    OBVIOUS
  <2>3. IsFiniteSet(Down(r)) /\ Cardinality(Down(r)) \in Nat /\ Cardinality(Down(r)) <= n
    BY <1>1, <2>2, FS_Subset, FS_CardinalityType
  <2>4. Cardinality(Down(r)) # 0
    BY <2>1, <2>3, FS_EmptySet
  <2> HIDE DEF Down, n
  <2> QED
    BY <1>1, <2>1, <2>3, <2>4
<1>3. ASSUME NEW r \in free, NEW q \in free, r # q, <<r, q>> \in order
      PROVE  Cardinality(Down(r)) < Cardinality(Down(q))
  <2>1. q \notin Down(r) /\ q \in Down(q)
    BY <1>2, <1>3 DEF TotalOrder
  <2>2. Down(r) \in SUBSET Down(q)
    <3>1. SUFFICES ASSUME NEW s \in free, <<s, r>> \in order PROVE <<s, q>> \in order
      OBVIOUS
    <3> QED
      BY <1>3, <3>1 DEF TotalOrder
  <2>3. Cardinality(Down(r)) <= Cardinality(Down(q)) /\ Cardinality(Down(r)) # Cardinality(Down(q))
    BY <1>2, <2>1, <2>2, FS_Subset
  <2>4. Cardinality(Down(r)) \in Nat /\ Cardinality(Down(q)) \in Nat
    <3> HIDE DEF Down, n
    <3> QED
      BY <1>1, <1>2
  <2> HIDE DEF Down
  <2> QED
    BY <2>3, <2>4
<1>4. \A r, q \in free : r # q => Cardinality(Down(r)) # Cardinality(Down(q))
  <2> SUFFICES ASSUME NEW r \in free, NEW q \in free, r # q
               PROVE  Cardinality(Down(r)) # Cardinality(Down(q))
    OBVIOUS
  <2>1. <<r, q>> \in order \/ <<q, r>> \in order
    BY DEF TotalOrder
  <2>2. Cardinality(Down(r)) \in Nat /\ Cardinality(Down(q)) \in Nat
    <3> HIDE DEF Down, n
    <3> QED
      BY <1>1, <1>2
  <2> HIDE DEF Down
  <2> QED
    BY <1>3, <2>1, <2>2
<1>5. rank \in Injection(free, 1..n)
  <2> HIDE DEF Down, n
  <2>1. rank \in [free -> 1..n]
    BY <1>2
  <2> QED
    BY <1>4, <2>1 DEF Injection, IsInjective
<1>6. IsFiniteSet(1..n) /\ Cardinality(1..n) = n
  <2> HIDE DEF n
  <2> QED
    BY <1>1, FS_Interval
<1>7. rank \in Surjection(free, 1..n)
  <2>1. Cardinality(free) = Cardinality(1..n)
    BY <1>6
  <2> HIDE DEF rank, n
  <2> QED
    BY <1>5, <1>6, <2>1, FS_Injection
<1>8. n <= k => gone = free
  <2> HIDE DEF Down, n
  <2> QED
    BY <1>1, <1>2
<1>9. ASSUME n > k PROVE Cardinality(gone) = k
  <2> DEFINE f == [r \in gone |-> Cardinality(Down(r))]
  <2> HIDE DEF Down, n
  <2>1. f \in [gone -> 1..k]
    BY <1>1, <1>2
  <2>2. \A r, q \in gone : r # q => f[r] # f[q]
    BY <1>4
  <2>3. \A i \in 1..k : \E r \in gone : f[r] = i
    <3> TAKE i \in 1..k
    <3>1. i \in 1..n
      BY <1>1, <1>9
    <3>2. PICK r \in free : rank[r] = i
      BY <1>7, <3>1 DEF Surjection
    <3>3. r \in gone /\ f[r] = i
      BY <3>2
    <3> QED
      BY <3>3
  <2>4. f \in Bijection(gone, 1..k)
    <3> HIDE DEF gone, f
    <3> QED
      BY <2>1, <2>2, <2>3 DEF Bijection, Injection, Surjection, IsInjective
  <2>5. IsFiniteSet(gone)
    <3>1. gone \in SUBSET free
      OBVIOUS
    <3> QED
      BY <1>1, <3>1, FS_Subset
  <2>6. Cardinality(1..k) = k
    BY FS_Interval
  <2> HIDE DEF gone, f
  <2> QED
    BY <2>4, <2>5, <2>6, FS_Bijection DEF ExistsBijection
<1> HIDE DEF Down, rank, n
<1> QED
  <2>1. gone = Oldest(order, free, k)
    BY DEF Down, Oldest
  <2>2. n = Cardinality(free)
    BY DEF n
  <2> HIDE DEF gone
  <2> QED
    BY <1>8, <1>9, <2>1, <2>2

LEMMA EnteredOrder ==
  ASSUME NEW order \in SUBSET (Runs \X Runs), TotalOrder(order), NEW r \in Runs
  PROVE  /\ TotalOrder(Entered(order, r)) /\ Entered(order, r) \in SUBSET (Runs \X Runs)
         /\ Retained(Entered(order, r)) = Retained(order) \cup {r}
<1>1. CASE r \in Retained(order)
  <2>1. Entered(order, r) = order /\ Retained(order) \cup {r} = Retained(order)
    BY <1>1 DEF Entered
  <2> QED
    BY <2>1
<1>2. CASE r \notin Retained(order)
  <2> DEFINE old == Retained(order)
             new == order \cup ((old \cup {r}) \X {r})
  <2>1. Entered(order, r) = new
    BY <1>2 DEF Entered
  <2>2. old \subseteq Runs /\ r \notin old
    BY <1>2 DEF Retained
  <2>3. /\ IsFiniteSet(old) /\ order \subseteq old \X old
        /\ \A s, u \in old : <<s, u>> \in order \/ <<u, s>> \in order
        /\ \A s, u \in old : <<s, u>> \in order /\ <<u, s>> \in order => s = u
        /\ \A s, u, v \in old : <<s, u>> \in order /\ <<u, v>> \in order => <<s, v>> \in order
    BY DEF TotalOrder
  <2>4. \A s, u : <<s, u>> \in new <=> <<s, u>> \in order \/ (u = r /\ s \in old \cup {r})
    OBVIOUS
  <2>5. \A s \in old : <<s, s>> \in order
    BY DEF Retained
  <2>6. Retained(new) = old \cup {r}
    <3> SUFFICES \A s \in Runs : <<s, s>> \in new <=> s \in old \cup {r}
      BY <2>2 DEF Retained
    <3> HIDE DEF old, new
    <3> TAKE s \in Runs
    <3>1. <<s, s>> \in new <=> <<s, s>> \in order \/ (s = r /\ s \in old \cup {r})
      BY <2>4
    <3>2. ASSUME <<s, s>> \in order PROVE s \in old
      BY <2>3, <3>2
    <3>3. ASSUME s \in old PROVE <<s, s>> \in order
      BY <2>5, <3>3
    <3> QED
      BY <3>1, <3>2, <3>3
  <2>7. new \in SUBSET (Runs \X Runs)
    BY <2>2
  <2>8. IsFiniteSet(old \cup {r})
    BY <2>3, FS_AddElement
  <2>9. \A s, u : <<s, u>> \in order => s # r /\ u # r /\ s \in old /\ u \in old
    BY <2>2, <2>3
  <2>10. TotalOrder(new)
    <3> HIDE DEF old, new
    <3>1. new \subseteq (old \cup {r}) \X (old \cup {r})
      <4>1. \A z \in new : z \in Runs \X Runs
        BY <2>7
      <4> QED
        BY <2>4, <2>9, <4>1
    <3>2. \A s, u \in old \cup {r} : <<s, u>> \in new \/ <<u, s>> \in new
      BY <2>3, <2>4
    <3>3. \A s, u \in old \cup {r} : <<s, u>> \in new /\ <<u, s>> \in new => s = u
      BY <2>3, <2>4, <2>9
    <3>4. \A s, u, v \in old \cup {r} : <<s, u>> \in new /\ <<u, v>> \in new => <<s, v>> \in new
      BY <2>3, <2>4, <2>9
    <3> QED
      BY <2>6, <2>8, <3>1, <3>2, <3>3, <3>4 DEF TotalOrder
  <2> HIDE DEF new
  <2> QED
    BY <2>1, <2>6, <2>7, <2>10
<1> QED
  BY <1>1, <1>2

LEMMA ReleasedOrder ==
  ASSUME NEW order \in SUBSET (Runs \X Runs), TotalOrder(order), NEW gone
  PROVE  LET rest == order \cap ((Runs \ gone) \X (Runs \ gone)) IN
         /\ TotalOrder(rest) /\ rest \in SUBSET (Runs \X Runs)
         /\ Retained(rest) = Retained(order) \ gone
<1> DEFINE rest == order \cap ((Runs \ gone) \X (Runs \ gone))
           kept == Retained(order) \ gone
<1>1. Retained(rest) = kept
  BY DEF Retained
<1>2. \A s, u : <<s, u>> \in rest <=> <<s, u>> \in order /\ s \notin gone /\ u \notin gone
  OBVIOUS
<1>3. /\ IsFiniteSet(Retained(order)) /\ order \subseteq Retained(order) \X Retained(order)
      /\ \A s, u \in Retained(order) : <<s, u>> \in order \/ <<u, s>> \in order
      /\ \A s, u \in Retained(order) : <<s, u>> \in order /\ <<u, s>> \in order => s = u
      /\ \A s, u, v \in Retained(order) :
           <<s, u>> \in order /\ <<u, v>> \in order => <<s, v>> \in order
  BY DEF TotalOrder
<1>4. IsFiniteSet(kept)
  BY <1>3, FS_Difference
<1>5. rest \subseteq kept \X kept
  BY <1>3
<1>6. rest \in SUBSET (Runs \X Runs)
  OBVIOUS
<1>7. TotalOrder(rest)
  <2>1. \A s \in kept : s \in Retained(order) /\ s \notin gone
    OBVIOUS
  <2> HIDE DEF rest, kept
  <2>2. \A s, u \in kept : <<s, u>> \in rest \/ <<u, s>> \in rest
    BY <1>2, <1>3, <2>1
  <2>3. \A s, u \in kept : <<s, u>> \in rest /\ <<u, s>> \in rest => s = u
    BY <1>2, <1>3, <2>1
  <2>4. \A s, u, v \in kept : <<s, u>> \in rest /\ <<u, v>> \in rest => <<s, v>> \in rest
    BY <1>2, <1>3, <2>1
  <2> QED
    BY <1>1, <1>4, <1>5, <2>2, <2>3, <2>4 DEF TotalOrder
<1> QED
  BY <1>1, <1>6, <1>7

(* #evictClosedBeyondCap keeps what is read, and otherwise keeps to the cap.    *)
LEMMA Evicted ==
  ASSUME NEW order, TotalOrder(order), NEW busy
  PROVE  LET gone == EvictClosedBeyondCap(order, busy) IN
         /\ gone \subseteq Retained(order) \ busy
         /\ Cardinality(Retained(order) \ gone) > MaxRetainedRuns => Retained(order) \ gone \subseteq busy
<1> DEFINE kept == Retained(order)
           free == kept \ busy
           excess == Cardinality(kept) - MaxRetainedRuns
           gone == Oldest(order, free, excess)
<1>0. EvictClosedBeyondCap(order, busy) = gone
  BY DEF EvictClosedBeyondCap, Oldest
<1>1. IsFiniteSet(kept) /\ Cardinality(kept) \in Nat /\ MaxRetainedRuns \in Nat \ {0}
  BY FS_CardinalityType, MemoryAssumption DEF TotalOrder
<1>2. free \in SUBSET kept /\ IsFiniteSet(free) /\ Cardinality(free) \in Nat
  BY <1>1, FS_Subset, FS_CardinalityType
<1>3. gone \in SUBSET kept /\ gone \subseteq free
  BY <1>2 DEF Oldest
<1>4. Cardinality(kept \ gone) = Cardinality(kept) - Cardinality(gone)
  <2>1. kept \cap gone = gone
    BY <1>3
  <2> HIDE DEF kept, gone
  <2> QED
    BY <1>1, <2>1, FS_Difference
<1>5. IsFiniteSet(gone) /\ Cardinality(gone) \in Nat
  BY <1>1, <1>3, FS_Subset, FS_CardinalityType
<1>6. ASSUME Cardinality(kept \ gone) > MaxRetainedRuns PROVE kept \ gone \subseteq busy
  <2>1. excess \in Nat
    <3> HIDE DEF kept, gone
    <3> QED
      BY <1>1, <1>4, <1>5, <1>6 DEF excess
  <2>2. /\ Cardinality(free) <= excess => gone = free
        /\ Cardinality(free) > excess => Cardinality(gone) = excess
    <3> HIDE DEF excess, free
    <3>1. free \in SUBSET Retained(order)
      BY <1>2
    <3> QED
      BY <2>1, <3>1, Ranked
  <2>3. Cardinality(gone) # excess
    <3> HIDE DEF kept, gone
    <3> QED
      BY <1>1, <1>4, <1>5, <1>6 DEF excess
  <2>4. gone = free
    <3> HIDE DEF excess, gone, free
    <3> QED
      BY <1>2, <2>1, <2>2, <2>3
  <2> HIDE DEF gone, kept
  <2> QED
    BY <2>4
<1> HIDE DEF gone
<1> QED
  BY <1>0, <1>3, <1>6
-----------------------------------------------------------------------------
(* Runs and clients of the feed.                                              *)
RunPcs == {"running", "sending", "settled", "appended", "closed", "stranded"}
Rows == {"active", "cancelling", "cancelled", "deleting", "deleted"}
ClientPcs == {"off", "close", "subscribe", "replay", "paging", "live", "sweeping", "ending"}

LEMMA RunFields ==
  ASSUME FeedTypes, NEW r \in Runs
  PROVE  /\ run[r] \in RunType /\ run[r].pc \in RunPcs
         /\ run[r].seq \in Nat /\ run[r].top \in Nat /\ run[r].attempt \in Nat \ {0}
         /\ run[r].row \in Rows
  BY DEF FeedTypes, RunType, RunPcs, Rows

LEMMA ClientFields ==
  ASSUME FeedTypes, NEW c \in Clients
  PROVE  /\ client[c] \in ClientType /\ client[c].pc \in ClientPcs
         /\ client[c].run \in Runs \cup {"none"} /\ client[c].last \in Nat
         /\ client[c].fresh \in BOOLEAN /\ client[c].left \in BOOLEAN
         /\ client[c].end \in {"none", "close", "gone", "holed", "behind", "done"}
  BY DEF FeedTypes, ClientType, ClientPcs

LEMMA RunSet ==
  ASSUME FeedTypes, NEW r \in Runs, NEW v \in RunType, run' = [run EXCEPT ![r] = v]
  PROVE  /\ run' \in [Runs -> RunType] /\ run'[r] = v
         /\ \A s \in Runs : s # r => run'[s] = run[s]
  BY DEF FeedTypes

LEMMA RunMoved ==
  ASSUME FeedTypes, NEW r \in Runs, NEW pc \in RunPcs, run' = [run EXCEPT ![r].pc = pc]
  PROVE  /\ run' \in [Runs -> RunType]
         /\ run'[r].pc = pc /\ run'[r].seq = run[r].seq /\ run'[r].top = run[r].top
         /\ run'[r].attempt = run[r].attempt /\ run'[r].row = run[r].row
         /\ \A s \in Runs : s # r => run'[s] = run[s]
<1> DEFINE v == [run[r] EXCEPT !.pc = pc]
<1>1. v \in RunType
  BY RunFields DEF RunType, RunPcs, Rows
<1>2. run' = [run EXCEPT ![r] = v]
  BY DEF FeedTypes
<1>3. /\ v.pc = pc /\ v.seq = run[r].seq /\ v.top = run[r].top /\ v.attempt = run[r].attempt
      /\ v.row = run[r].row
  BY RunFields DEF RunType
<1> HIDE DEF v
<1> QED
  BY <1>1, <1>2, <1>3, RunSet

LEMMA RowMoved ==
  ASSUME FeedTypes, NEW r \in Runs, NEW w \in Rows, run' = [run EXCEPT ![r].row = w]
  PROVE  /\ run' \in [Runs -> RunType]
         /\ run'[r].pc = run[r].pc /\ run'[r].seq = run[r].seq /\ run'[r].top = run[r].top
         /\ run'[r].attempt = run[r].attempt /\ run'[r].row = w
         /\ \A s \in Runs : s # r => run'[s] = run[s]
<1> DEFINE v == [run[r] EXCEPT !.row = w]
<1>1. v \in RunType
  BY RunFields DEF RunType, RunPcs, Rows
<1>2. run' = [run EXCEPT ![r] = v]
  BY DEF FeedTypes
<1>3. /\ v.pc = run[r].pc /\ v.seq = run[r].seq /\ v.top = run[r].top
      /\ v.attempt = run[r].attempt /\ v.row = w
  BY RunFields DEF RunType
<1> HIDE DEF v
<1> QED
  BY <1>1, <1>2, <1>3, RunSet

LEMMA ClientSet ==
  ASSUME FeedTypes, NEW c \in Clients, NEW v \in ClientType, client' = [client EXCEPT ![c] = v]
  PROVE  /\ client' \in [Clients -> ClientType] /\ client'[c] = v
         /\ \A d \in Clients : d # c => client'[d] = client[d]
  BY DEF FeedTypes

LEMMA ClientMoved ==
  ASSUME FeedTypes, NEW c \in Clients, NEW pc \in ClientPcs, client' = [client EXCEPT ![c].pc = pc]
  PROVE  /\ client' \in [Clients -> ClientType]
         /\ client'[c].pc = pc /\ client'[c].run = client[c].run /\ client'[c].last = client[c].last
         /\ client'[c].fresh = client[c].fresh /\ client'[c].left = client[c].left
         /\ client'[c].end = client[c].end
         /\ \A d \in Clients : d # c => client'[d] = client[d]
<1> DEFINE v == [client[c] EXCEPT !.pc = pc]
<1>1. v \in ClientType
  BY ClientFields DEF ClientType, ClientPcs
<1>2. client' = [client EXCEPT ![c] = v]
  BY DEF FeedTypes
<1>3. /\ v.pc = pc /\ v.run = client[c].run /\ v.last = client[c].last
      /\ v.fresh = client[c].fresh /\ v.left = client[c].left /\ v.end = client[c].end
  BY ClientFields DEF ClientType
<1> HIDE DEF v
<1> QED
  BY <1>1, <1>2, <1>3, ClientSet

LEMMA GotMoved ==
  ASSUME FeedTypes, NEW c \in Clients, NEW n \in Nat, client' = Got(c, n)
  PROVE  /\ client' \in [Clients -> ClientType]
         /\ client'[c].pc = client[c].pc /\ client'[c].run = client[c].run /\ client'[c].last = n
         /\ client'[c].fresh = FALSE /\ client'[c].left = client[c].left
         /\ client'[c].end = client[c].end
         /\ \A d \in Clients : d # c => client'[d] = client[d]
<1> DEFINE v == [client[c] EXCEPT !.last = n, !.fresh = FALSE]
<1>1. v \in ClientType
  BY ClientFields DEF ClientType, ClientPcs
<1>2. client' = [client EXCEPT ![c] = v]
  BY DEF FeedTypes, Got
<1>3. /\ v.pc = client[c].pc /\ v.run = client[c].run /\ v.last = n
      /\ v.fresh = FALSE /\ v.left = client[c].left /\ v.end = client[c].end
  BY ClientFields DEF ClientType
<1> HIDE DEF v
<1> QED
  BY <1>1, <1>2, <1>3, ClientSet

Whys == {"close", "gone", "holed", "behind"}

LEMMA EndedMoved ==
  ASSUME FeedTypes, NEW c \in Clients, NEW why \in Whys, client' = Ended(c, why)
  PROVE  /\ client' \in [Clients -> ClientType]
         /\ client'[c].run = client[c].run /\ client'[c].last = client[c].last
         /\ client'[c].fresh = client[c].fresh /\ client'[c].left = FALSE
         /\ client'[c].pc = IF client[c].left THEN "off" ELSE "ending"
         /\ client'[c].end = IF client[c].left THEN "none" ELSE why
         /\ \A d \in Clients : d # c => client'[d] = client[d]
<1> DEFINE v == [client[c] EXCEPT !.pc = IF client[c].left THEN "off" ELSE "ending", !.left = FALSE,
                                  !.end = IF client[c].left THEN "none" ELSE why]
<1>1. v \in ClientType
  BY ZenonT(40), ClientFields DEF ClientType, ClientPcs, Whys
<1>2. client' = [client EXCEPT ![c] = v]
  BY DEF FeedTypes, Ended
<1>3. /\ v.run = client[c].run /\ v.last = client[c].last
      /\ v.fresh = client[c].fresh /\ v.left = FALSE
      /\ v.pc = IF client[c].left THEN "off" ELSE "ending"
      /\ v.end = IF client[c].left THEN "none" ELSE why
  BY ClientFields DEF ClientType
<1> HIDE DEF v
<1> QED
  BY <1>1, <1>2, <1>3, ClientSet

LEMMA DroppedMoved ==
  ASSUME FeedTypes, NEW S, client' = Dropped(S)
  PROVE  /\ client' \in [Clients -> ClientType]
         /\ \A d \in Clients : d \notin S => client'[d] = client[d]
         /\ \A d \in S \cap Clients :
              /\ client'[d].pc = "off" /\ client'[d].left = FALSE /\ client'[d].end = "none"
              /\ client'[d].run = client[d].run /\ client'[d].last = client[d].last
              /\ client'[d].fresh = client[d].fresh
<1> DEFINE v(d) == [client[d] EXCEPT !.pc = "off", !.left = FALSE, !.end = "none"]
<1>1. \A d \in Clients :
        /\ v(d) \in ClientType /\ v(d).pc = "off" /\ v(d).left = FALSE /\ v(d).end = "none"
        /\ v(d).run = client[d].run /\ v(d).last = client[d].last /\ v(d).fresh = client[d].fresh
  BY ClientFields DEF ClientType, ClientPcs
<1>2. \A d \in Clients : client'[d] = IF d \in S THEN v(d) ELSE client[d]
  BY DEF Dropped
<1>3. client' \in [Clients -> ClientType]
  <2>1. \A d \in Clients : (IF d \in S THEN v(d) ELSE client[d]) \in ClientType
    BY <1>1 DEF FeedTypes
  <2>2. client' = [d \in Clients |-> IF d \in S THEN v(d) ELSE client[d]]
    BY DEF Dropped
  <2> HIDE DEF v
  <2> QED
    BY <2>1, <2>2
<1> HIDE DEF v
<1> QED
  BY <1>1, <1>2, <1>3

LEMMA DroppedOne ==
  ASSUME FeedTypes, NEW c \in Clients, client' = Dropped({c})
  PROVE  /\ client' \in [Clients -> ClientType]
         /\ client'[c].pc = "off" /\ client'[c].left = FALSE /\ client'[c].end = "none"
         /\ client'[c].run = client[c].run /\ client'[c].last = client[c].last
         /\ client'[c].fresh = client[c].fresh
         /\ \A d \in Clients : d # c => client'[d] = client[d]
<1>1. /\ client' \in [Clients -> ClientType]
      /\ \A d \in Clients : d \notin {c} => client'[d] = client[d]
      /\ \A d \in {c} \cap Clients :
           /\ client'[d].pc = "off" /\ client'[d].left = FALSE /\ client'[d].end = "none"
           /\ client'[d].run = client[d].run /\ client'[d].last = client[d].last
           /\ client'[d].fresh = client[d].fresh
  BY DroppedMoved
<1>2. c \in {c} \cap Clients
  OBVIOUS
<1> QED
  BY <1>1, <1>2

LEMMA ReadersAre ==
  /\ \A r, d : d \in Readers(r) <=> d \in Clients /\ client[d].pc = "live" /\ client[d].run = r
  /\ \A r, d : d \in Readers(r)' <=> d \in Clients /\ client'[d].pc = "live" /\ client'[d].run = r
<1>1. \A r, d : d \in Readers(r) <=> d \in Clients /\ client[d].pc = "live" /\ client[d].run = r
  BY DEF Readers, Of
<1>2. \A r, d : d \in Readers(r)' <=> d \in Clients /\ client'[d].pc = "live" /\ client'[d].run = r
  BY DEF Readers, Of
<1> QED
  BY <1>1, <1>2

(* Readers before and after, when a client other than a reader moves.          *)
LEMMA SameReaders ==
  ASSUME \A d \in Clients : /\ client'[d].pc = "live" <=> client[d].pc = "live"
                            /\ client[d].pc = "live" => client'[d].run = client[d].run
  PROVE  (\A r : Readers(r)' = Readers(r)) /\ Busy' = Busy
<1>1. \A r : Readers(r)' = Readers(r)
  BY ReadersAre
<1>2. Busy' = Busy
  BY <1>1 DEF Busy
<1> QED
  BY <1>1, <1>2

(* Counters that only go up.                                                  *)
Onward == /\ driver' = driver /\ published' \in Nat /\ published <= published'
          /\ trouble' \in Nat /\ trouble <= trouble'

LEMMA EngineFrame ==
  ASSUME FeedTypes, Onward, NEW r \in Runs, EngineOK(r), run'[r].seq = run[r].seq,
         run'[r].top = run[r].top, run'[r].attempt = run[r].attempt,
         run'[r].row = run[r].row \/ trouble' > 0,
         run'[r].pc = run[r].pc \/ run'[r].pc \notin {"sending", "appended"} \/ driver = "redis"
  PROVE  EngineOK(r)'
<1>1. published \in Nat /\ trouble \in Nat /\ driver \in Drivers
  BY FeedAssumption DEF FeedTypes
<1>2. driver = "redis" => driver # "memory"
  OBVIOUS
<1> QED
  BY <1>1, <1>2, RunFields DEF EngineOK, Onward

LEMMA TerminalIs ==
  ASSUME NEW r
  PROVE  /\ Terminal(r) <=> Over(run[r]) \/ run[r].row \in {"cancelling", "cancelled", "deleted"}
         /\ Terminal(r)' <=> Over(run'[r]) \/ run'[r].row \in {"cancelling", "cancelled", "deleted"}
         /\ Terminal(r) => Closable(run[r])
<1>1. Terminal(r) <=> Over(run[r]) \/ run[r].row \in {"cancelling", "cancelled", "deleted"}
  BY DEF Terminal, Executing, Over
<1>2. Terminal(r)' <=> Over(run'[r]) \/ run'[r].row \in {"cancelling", "cancelled", "deleted"}
  BY DEF Terminal, Executing, Over
<1> QED
  BY <1>1, <1>2 DEF Closable

(* Runs only get further: one that is over stays as it is, and a withdrawn row *)
(* is never active again.                                                    *)
RunsOnward == \A s \in Runs :
  /\ run[s].top <= run'[s].top
  /\ run'[s].row = "active" => run[s].row = "active"
  /\ Over(run[s]) => /\ Over(run'[s])
                     /\ run'[s].top = run[s].top /\ run'[s].attempt = run[s].attempt

LEMMA ServedIsRuns == Served \subseteq Runs
  BY DEF Served, Runs

LEMMA ConnectionFrame ==
  ASSUME FeedTypes, FeedTypes', Onward, RunsOnward,
         NEW c \in Clients, ConnectionOK(c), client'[c] = client[c],
         mailbox'[c] = mailbox[c] \/ driver = "redis"
  PROVE  ConnectionOK(c)'
<1> DEFINE r == client[c].run
<1>1. Served' = Served
  BY DEF Served, Onward
<1>2. r \in Runs => run[r].top \in Nat /\ run'[r].top \in Nat /\ run[r].top <= run'[r].top
  BY RunFields DEF FeedTypes, RunType, RunsOnward
<1>3. client[c].last \in Nat
  BY ClientFields
<1>4. client[c].pc = "close" \/ client[c].end = "close" => r \in Runs
  BY ServedIsRuns DEF ConnectionOK
<1>5. client[c].pc = "close" \/ client[c].end = "close" => Closable(run'[r])
  BY <1>4 DEF ConnectionOK, RunsOnward, Closable
<1>6. driver = "memory" => mailbox'[c] = NoMailbox
  BY DEF ConnectionOK
<1>7. IF r \in Runs THEN client[c].last <= run'[r].top ELSE client[c].last = 0
  BY <1>2, <1>3 DEF ConnectionOK
<1> QED
  BY <1>1, <1>5, <1>6, <1>7 DEF ConnectionOK, Onward

LEMMA CompleteFrame ==
  ASSUME FeedTypes, Onward, RunsOnward, NEW c \in Clients, ConnectionOK(c), CompleteOK(c),
         client'[c].end = "close" => client'[c] = client[c]
  PROVE  CompleteOK(c)'
<1> SUFFICES ASSUME client'[c].end = "close", run'[client'[c].run].row = "active" PROVE CompleteOK(c)'
  BY DEF CompleteOK
<1> DEFINE r == client[c].run
<1>1. client'[c] = client[c] /\ client[c].end = "close"
  OBVIOUS
<1>2. r \in Runs /\ run[r].row = "active" /\ Over(run[r])
  BY <1>1, ServedIsRuns DEF ConnectionOK, RunsOnward, Closable
<1>3. run'[r].top = run[r].top /\ run'[r].attempt = run[r].attempt
  BY <1>2 DEF RunsOnward
<1>4. trouble' = 0 => trouble = 0
  BY DEF Onward, FeedTypes
<1>5. run[r].attempt = 1 /\ (~client[c].fresh \/ trouble = 0) => client[c].last = run[r].top
  BY <1>1, <1>2 DEF CompleteOK
<1> QED
  BY <1>1, <1>3, <1>4, <1>5 DEF CompleteOK

LEMMA ChannelFrame ==
  ASSUME Onward, FeedTypes, NEW r \in Runs, ChannelOK(r), channel'[r] = channel[r],
         r \in Retained(closedOrder') <=> r \in Retained(closedOrder),
         r \in finished' <=> r \in finished,
         run'[r] = run[r], Readers(r)' = Readers(r)
  PROVE  ChannelOK(r)'
<1>1. trouble' = 0 => trouble = 0
  BY DEF Onward, FeedTypes
<1>2. ChannelIs(channel[r], r \in Retained(closedOrder), r \in finished, run[r], Readers(r), trouble' = 0)
  BY <1>1 DEF ChannelOK, ChannelIs
<1>3. r \in Retained(closedOrder)' <=> r \in Retained(closedOrder)
  BY DEF Retained
<1>4. ChannelIs(channel'[r], (r \in Retained(closedOrder))', r \in finished', run'[r], Readers(r)', trouble' = 0)
  BY <1>2, <1>3
<1> QED
  BY <1>4 DEF ChannelOK

LEMMA CursorFrame ==
  ASSUME NEW c \in Clients, CursorOK(c), client'[c].pc = client[c].pc,
         client'[c].run = client[c].run, client'[c].last = client[c].last,
         client'[c].fresh = client[c].fresh, cursor'[c] = cursor[c],
         channel'[client[c].run].frames = channel[client[c].run].frames,
         run'[client[c].run].seq = run[client[c].run].seq
  PROVE  CursorOK(c)'
<1>1. Position(c)' = Position(c)
  BY DEF Position
<1> QED
  BY <1>1 DEF CursorOK

LEMMA RedisUnchanged ==
  ASSUME RedisTypes, UNCHANGED redisBus
  PROVE  RedisTypes'
  BY DEF RedisTypes, redisBus

LEMMA MemoryUnchanged ==
  ASSUME MemoryTypes, Ordered, UNCHANGED memoryBus
  PROVE  MemoryTypes' /\ Ordered'
<1>1. closedOrder' = closedOrder
  BY DEF memoryBus
<1>2. Ordered'
  BY <1>1 DEF Ordered, TotalOrder, Retained
<1> QED
  BY <1>2 DEF MemoryTypes, memoryBus

(* What holds over the memory bus makes the invariant hold.                    *)
LEMMA OverMemory ==
  ASSUME driver = "memory", driver' = driver, Types',
         \A r \in Runs : EngineOK(r)' /\ ChannelOK(r)',
         \A c \in Clients : ConnectionOK(c)' /\ CompleteOK(c)' /\ CursorOK(c)',
         TotalOrder(closedOrder'),
         Cardinality(Retained(closedOrder')) > MaxRetainedRuns => Retained(closedOrder') \subseteq Busy'
  PROVE  IInv'
<1>1. Engines' /\ Connections' /\ Channels' /\ MemoryReaders'
  BY DEF Engines, Connections, Channels, MemoryReaders
<1>2. ClosedMeansComplete'
  BY DEF ClosedMeansComplete, CompleteOK
<1>3. Ordered'
  BY DEF Ordered, TotalOrder, Retained
<1>4. Capped'
  BY DEF Capped, Retained
<1>5. Unused' /\ Redis'
  BY DEF Unused, Redis, Logs, RedisReaders
<1> QED
  BY <1>1, <1>2, <1>3, <1>4, <1>5 DEF IInv, Memory
-----------------------------------------------------------------------------
(* The steps of the memory bus.                                               *)
LEMMA MemoryFacts ==
  ASSUME IInv, driver = "memory"
  PROVE  /\ FeedTypes /\ MemoryTypes /\ RedisTypes
         /\ \A r \in Runs : EngineOK(r) /\ ChannelOK(r)
         /\ \A c \in Clients : ConnectionOK(c) /\ CompleteOK(c) /\ CursorOK(c)
         /\ TotalOrder(closedOrder) /\ closedOrder \in SUBSET (Runs \X Runs)
         /\ Cardinality(Retained(closedOrder)) > MaxRetainedRuns => Retained(closedOrder) \subseteq Busy
<1>1. Types /\ Engines /\ Connections /\ Memory /\ ClosedMeansComplete
  BY DEF IInv
<1>2. \A c \in Clients : CompleteOK(c)
  BY <1>1 DEF ClosedMeansComplete, CompleteOK
<1> QED
  BY <1>1, <1>2
     DEF Types, Engines, Connections, Memory, Channels, Ordered, Capped, MemoryReaders, MemoryTypes

LEMMA ChannelFields ==
  ASSUME MemoryTypes, NEW r \in Runs
  PROVE  /\ channel[r] \in ChannelType /\ channel[r].state \in {"none", "open", "closed"}
         /\ channel[r].frames \in Seq(Nat) /\ Len(channel[r].frames) \in Nat
         /\ channel[r].frames = <<>> <=> Len(channel[r].frames) = 0
  BY Sequence DEF MemoryTypes, ChannelType

LEMMA CursorFields ==
  ASSUME MemoryTypes, NEW c \in Clients
  PROVE  cursor[c].at \in Int /\ cursor[c].after \in Nat /\ cursor[c] \in [at: Int, after: Nat]
  BY DEF MemoryTypes

LEMMA Numbering ==
  ASSUME FeedTypes, NEW r \in Runs, EngineOK(r), run[r].pc = "running", Number(r), trouble' = trouble,
         driver' = driver
  PROVE  /\ Numbered(r) \in RunType /\ Numbered(r).pc = "running"
         /\ Numbered(r).seq = run[r].seq + 1 /\ Numbered(r).attempt = run[r].attempt
         /\ Numbered(r).row = run[r].row
         /\ Numbered(r).top = (IF run[r].seq + 1 > run[r].top THEN run[r].seq + 1 ELSE run[r].top)
         /\ run[r].top <= Numbered(r).top /\ Numbered(r).top <= published'
         /\ published' \in 0..MaxFrames /\ Onward
<1>1. /\ run[r] \in RunType /\ run[r].seq \in Nat /\ run[r].top \in Nat /\ published \in Nat
      /\ MaxFrames \in Nat /\ trouble \in Nat /\ run[r].attempt \in Nat \ {0}
  BY RunFields, FeedAssumption DEF FeedTypes
<1>2. published' = published + 1 /\ published < MaxFrames
  BY DEF Number
<1>3. Onward /\ published' \in 0..MaxFrames
  BY <1>1, <1>2 DEF Onward
<1> DEFINE n == run[r].seq + 1
           m == IF n > run[r].top THEN n ELSE run[r].top
<1>4. Numbered(r) = [run[r] EXCEPT !.seq = n, !.top = m]
  BY <1>1 DEF Numbered, NextSeq, RunType
<1>5. n \in Nat /\ m \in Nat /\ run[r].top <= m /\ m <= published + 1
  BY <1>1 DEF EngineOK
<1> HIDE DEF n, m
<1>6. /\ Numbered(r) \in RunType /\ Numbered(r).pc = "running" /\ Numbered(r).seq = n
      /\ Numbered(r).attempt = run[r].attempt /\ Numbered(r).top = m /\ Numbered(r).row = run[r].row
  BY <1>1, <1>4, <1>5 DEF RunType
<1> QED
  BY <1>2, <1>3, <1>5, <1>6 DEF n, m

LEMMA NumberedOnward ==
  ASSUME FeedTypes, NEW r \in Runs, EngineOK(r), ~Over(run[r]), run' \in [Runs -> RunType],
         run'[r].seq = run[r].seq + 1, run'[r].attempt = run[r].attempt, run'[r].row = run[r].row,
         run'[r].top = (IF run[r].seq + 1 > run[r].top THEN run[r].seq + 1 ELSE run[r].top),
         run[r].top <= run'[r].top, run'[r].top <= published', Onward,
         driver = "memory" => run'[r].pc \notin {"sending", "appended"},
         \A s \in Runs : s # r => run'[s] = run[s]
  PROVE  EngineOK(r)' /\ RunsOnward
<1>1. /\ run[r].seq \in Nat /\ run[r].top \in Nat /\ run[r].attempt \in Nat \ {0}
      /\ trouble \in Nat /\ trouble' \in Nat /\ published' \in Nat
  BY RunFields DEF Onward, FeedTypes
<1>2. EngineOK(r)'
  BY <1>1 DEF EngineOK, Onward
<1>3. RunsOnward
  <2> SUFFICES ASSUME NEW s \in Runs
               PROVE  /\ run[s].top <= run'[s].top
                      /\ run'[s].row = "active" => run[s].row = "active"
                      /\ Over(run[s]) => /\ Over(run'[s])
                                         /\ run'[s].top = run[s].top /\ run'[s].attempt = run[s].attempt
    BY DEF RunsOnward
  <2>1. run[s].top \in Nat
    BY RunFields
  <2>2. CASE s = r
    BY <2>2
  <2>3. CASE s # r
    BY <2>1, <2>3
  <2> QED
    BY <2>2, <2>3
<1> QED
  BY <1>2, <1>3

(* A frame more in the buffer of a channel.                                    *)
Longer(old, n) == Append(old, n)
Trimmed(over, new, old, n) ==
  /\ over = OverCap(Longer(old, n))
  /\ new = SubSeq(Longer(old, n), over + 1, Len(Longer(old, n)))

LEMMA Shifted ==
  ASSUME NEW n \in Int, NEW l \in Nat, NEW over \in Nat, NEW i \in Int, NEW k, k = l + 1 - over
  PROVE  n - l + (over + i) = n + 1 - k + i
  OBVIOUS

LEMMA Buffered ==
  ASSUME NEW old \in Seq(Nat), NEW seq \in Nat, Len(old) <= seq,
         Counting(old, seq), NEW over, NEW new, Trimmed(over, new, old, seq + 1)
  PROVE  /\ over \in Nat /\ new \in Seq(Nat) /\ Len(new) \in Nat
         /\ Len(new) = Len(old) + 1 - over /\ Len(new) <= MaxFramesPerRun
         /\ Len(new) > 0 /\ Len(new) <= seq + 1 /\ new # <<>>
         /\ Counting(new, seq + 1)
<1> DEFINE frames == Longer(old, seq + 1)
           l == Len(old)
           k == Len(new)
<1>0. over = OverCap(frames)
  BY DEF Trimmed
<1>1. l \in Nat /\ l <= seq /\ MaxFramesPerRun \in Nat \ {0}
  BY Sequence, MemoryAssumption
<1>2. (\A i \in 1..l : frames[i] = old[i]) /\ frames[l + 1] = seq + 1
  <2>1. seq + 1 \in Nat
    OBVIOUS
  <2> QED
    BY <2>1, Appended DEF Longer
<1>3. frames \in Seq(Nat) /\ Len(frames) = l + 1
  <2>1. seq + 1 \in Nat
    OBVIOUS
  <2> QED
    BY <2>1, Appended DEF Longer
<1> HIDE DEF l, k, frames
<1>4. over = IF l + 1 > MaxFramesPerRun THEN l + 1 - MaxFramesPerRun ELSE 0
  <2>1. Len(frames) = l + 1
    BY <1>3
  <2> QED
    BY <1>0, <1>1, <2>1 DEF OverCap
<1>5. over \in Nat /\ over <= l + 1 /\ l + 1 - over <= MaxFramesPerRun /\ over < l + 1
  BY <1>1, <1>4
<1>6. over <= Len(frames) /\ new = SubSeq(frames, over + 1, Len(frames))
  BY <1>3, <1>5 DEF Trimmed, frames
<1>7. new \in Seq(Nat) /\ k = l + 1 - over
  <2>1. new \in Seq(Nat) /\ Len(new) = Len(frames) - over
    BY <1>3, <1>5, <1>6, Cut
  <2> QED
    BY <1>1, <1>3, <1>5, <2>1 DEF k
<1>8. \A i \in 1..k : new[i] = frames[over + i]
  <2>1. \A i \in 1..Len(frames) - over : SubSeq(frames, over + 1, Len(frames))[i] = frames[over + i]
    BY <1>3, <1>5, <1>6, Cut
  <2>2. Len(frames) - over = k
    BY <1>1, <1>3, <1>5, <1>7
  <2> QED
    BY <1>6, <2>1, <2>2
<1>9. new # <<>>
  <2>1. k # 0
    BY <1>1, <1>5, <1>7
  <2> QED
    BY <1>7, <2>1, Sequence DEF k
<1>10. \A i \in 1..l : frames[i] = seq - l + i
  BY <1>2 DEF l, Counting
<1>11. \A i \in 1..l + 1 : frames[i] = seq - l + i
  <2> TAKE i \in 1..l + 1
  <2>1. CASE i = l + 1
    <3>1. frames[l + 1] = seq + 1
      BY <1>2
    <3> QED
      BY <1>1, <2>1, <3>1
  <2>2. CASE i # l + 1
    <3>1. i \in 1..l
      BY <1>1, <2>2
    <3> QED
      BY <1>10, <3>1
  <2> QED
    BY <2>1, <2>2
<1>12. \A i \in 1..k : new[i] = seq + 1 - k + i
  <2> TAKE i \in 1..k
  <2>1. over + i \in 1..l + 1
    BY <1>1, <1>5, <1>7
  <2>2. new[i] = seq - l + (over + i)
    BY <1>8, <1>11, <2>1
  <2>3. k = l + 1 - over /\ l \in Nat /\ over \in Nat /\ i \in Nat
    BY <1>1, <1>5, <1>7
  <2>4. seq - l + (over + i) = seq + 1 - k + i
    BY <2>3, Shifted
  <2> QED
    BY <2>2, <2>4, Zenon
<1>13. k \in Nat /\ k <= MaxFramesPerRun /\ k > 0 /\ k <= seq + 1
  BY <1>1, <1>5, <1>7
<1> QED
  BY <1>5, <1>7, <1>9, <1>12, <1>13 DEF k, l, Counting

LEMMA MemoryPublishStep ==
  ASSUME IInv, NEW r \in Runs, MemoryPublish(r), UNCHANGED redisBus
  PROVE  IInv'
<1> DEFINE old == channel[r].frames
           frames == Append(old, run[r].seq + 1)
           over == OverCap(frames)
           new == SubSeq(frames, over + 1, Len(frames))
<1>1. /\ driver = "memory" /\ Number(r) /\ run' = [run EXCEPT ![r] = Numbered(r)]
      /\ UNCHANGED <<driver, joins, client, trouble, closedOrder, finished>>
  BY DEF MemoryPublish
<1>2. /\ FeedTypes /\ MemoryTypes /\ RedisTypes
      /\ \A s \in Runs : EngineOK(s) /\ ChannelOK(s)
      /\ \A c \in Clients : ConnectionOK(c) /\ CompleteOK(c) /\ CursorOK(c)
      /\ TotalOrder(closedOrder)
      /\ Cardinality(Retained(closedOrder)) > MaxRetainedRuns => Retained(closedOrder) \subseteq Busy
  BY <1>1, MemoryFacts
<1>3. run[r].pc = "running" /\ ~Over(run[r])
  BY <1>1 DEF Number, Over
<1>4. /\ Numbered(r) \in RunType /\ Numbered(r).pc = "running"
      /\ Numbered(r).seq = run[r].seq + 1 /\ Numbered(r).attempt = run[r].attempt
      /\ Numbered(r).top = (IF run[r].seq + 1 > run[r].top THEN run[r].seq + 1 ELSE run[r].top)
      /\ run[r].top <= Numbered(r).top /\ Numbered(r).top <= published'
      /\ published' \in 0..MaxFrames /\ Onward /\ Numbered(r).row = run[r].row
  BY <1>1, <1>2, <1>3, Numbering
<1>5. /\ run' \in [Runs -> RunType] /\ run'[r] = Numbered(r)
      /\ \A s \in Runs : s # r => run'[s] = run[s]
  BY <1>1, <1>2, <1>4, RunSet
<1>6. EngineOK(r)' /\ RunsOnward
  BY <1>2, <1>3, <1>4, <1>5, NumberedOnward
<1>7. /\ channel[r].state = "closed" <=> r \in Retained(closedOrder)
      /\ channel[r].state = "closed" \/ r \in finished => run[r].row # "active"
  BY <1>2, <1>3 DEF ChannelOK, ChannelIs, Closable
<1>8. /\ old \in Seq(Nat) /\ Len(old) \in Nat /\ channel[r].state \in {"none", "open", "closed"}
      /\ run[r].seq \in Nat
  BY <1>2, ChannelFields, RunFields
<1>9. /\ Channel(r).frames = old /\ Channel(r) \in ChannelType
      /\ Channel(r).state \in {"open", "closed"} /\ (Channel(r).state = "closed" <=> channel[r].state = "closed")
  BY <1>2, <1>8, ChannelFields DEF Channel, ChannelType
<1>10. /\ over \in Nat /\ new \in Seq(Nat) /\ Len(new) \in Nat
       /\ Len(new) = Len(old) + 1 - over /\ Len(new) <= MaxFramesPerRun
       /\ Len(new) > 0 /\ Len(new) <= run[r].seq + 1 /\ new # <<>>
       /\ Counting(new, run[r].seq + 1)
  <2>1. Len(old) <= run[r].seq /\ Counting(old, run[r].seq)
    BY <1>2 DEF ChannelOK, ChannelIs
  <2> HIDE DEF old, frames, over, new
  <2>2. Trimmed(over, new, old, run[r].seq + 1)
    BY DEF frames, over, new, Longer, Trimmed
  <2> QED
    BY <1>8, <2>1, <2>2, Buffered
<1> HIDE DEF frames, over, new
<1>14. /\ channel' = [channel EXCEPT ![r] = [Channel(r) EXCEPT !.frames = new]]
       /\ cursor' = [c \in Clients |-> IF c \in Readers(r)
                                       THEN [cursor[c] EXCEPT !.at = Shift(@, over)] ELSE cursor[c]]
  <2>1. NextSeq(r) = run[r].seq + 1
    BY DEF NextSeq
  <2> QED
    BY <1>9, <2>1 DEF MemoryPublish, new, over, frames
<1>15. channel'[r].state = Channel(r).state /\ channel'[r].frames = new /\ channel' \in [Runs -> ChannelType]
  <2>1. [Channel(r) EXCEPT !.frames = new] \in ChannelType
    BY <1>9, <1>10 DEF ChannelType
  <2>2. /\ [Channel(r) EXCEPT !.frames = new].state = Channel(r).state
        /\ [Channel(r) EXCEPT !.frames = new].frames = new
    BY <1>9 DEF ChannelType
  <2>3. channel \in [Runs -> ChannelType]
    BY <1>2 DEF MemoryTypes
  <2> QED
    BY <1>14, <2>1, <2>2, <2>3
<1>16. \A s \in Runs : s # r => channel'[s] = channel[s]
  BY <1>2, <1>14 DEF MemoryTypes
<1>17. \A c \in Clients : /\ c \in Readers(r) => /\ cursor'[c].at = cursor[c].at - over
                                                  /\ cursor'[c].after = cursor[c].after
                          /\ c \notin Readers(r) => cursor'[c] = cursor[c]
                          /\ cursor'[c] \in [at: Int, after: Nat]
  <2> TAKE c \in Clients
  <2>1. cursor[c].at \in Int /\ cursor[c].after \in Nat /\ cursor[c] \in [at: Int, after: Nat]
    BY <1>2, CursorFields
  <2>2. CASE c \in Readers(r)
    <3>1. cursor'[c] = [cursor[c] EXCEPT !.at = cursor[c].at - over]
      BY <1>14, <2>1, <2>2 DEF Shift
    <3>2. cursor[c].at - over \in Int
      BY <1>10, <2>1
    <3> QED
      BY <2>1, <2>2, <3>1, <3>2
  <2>3. CASE c \notin Readers(r)
    BY <1>14, <2>1, <2>3
  <2> QED
    BY <2>2, <2>3
<1>18. Types'
  <2>1. FeedTypes'
    BY <1>1, <1>2, <1>4, <1>5 DEF FeedTypes, Drivers
  <2>2. MemoryTypes'
    <3>1. cursor' \in [Clients -> [at: Int, after: Nat]]
      BY <1>14, <1>17
    <3> QED
      BY <1>1, <1>2, <1>15, <3>1 DEF MemoryTypes
  <2> QED
    BY <1>2, <2>1, <2>2, RedisUnchanged DEF Types
<1>19. \A s \in Runs : EngineOK(s)'
  <2> TAKE s \in Runs
  <2>1. CASE s # r
    BY <1>2, <1>4, <1>5, <2>1, EngineFrame
  <2> QED
    BY <1>6, <2>1
<1>20. \A c \in Clients : ConnectionOK(c)' /\ CompleteOK(c)'
  <2>1. mailbox' = mailbox /\ FeedTypes'
    BY <1>18 DEF redisBus, Types
  <2> QED
    BY <1>1, <1>2, <1>4, <1>6, <2>1, ConnectionFrame, CompleteFrame
<1>21. (\A s : Readers(s)' = Readers(s)) /\ Busy' = Busy
  BY <1>1, SameReaders
<1>22. \A s \in Runs : ChannelOK(s)'
  <2> TAKE s \in Runs
  <2>1. CASE s # r
    BY <1>1, <1>2, <1>4, <1>5, <1>16, <1>21, <2>1, ChannelFrame
  <2>2. CASE s = r
    <3>1. Counting(channel'[r].frames, run'[r].seq)
      BY <1>4, <1>5, <1>10, <1>15
    <3>2. r \in Retained(closedOrder)' <=> channel'[r].state = "closed"
      BY <1>1, <1>7, <1>9, <1>15 DEF Retained
    <3>3. Len(new) <= MaxFramesPerRun /\ Len(new) <= run'[r].seq /\ new # <<>>
      BY <1>4, <1>5, <1>10
    <3>5. run'[r].pc = "running" /\ run'[r].row = run[r].row
      BY <1>4, <1>5
    <3> QED
      BY <1>1, <1>7, <1>9, <1>15, <2>2, <3>1, <3>2, <3>3, <3>5 DEF ChannelOK, ChannelIs, Closable
  <2> QED
    BY <2>1, <2>2
<1>23. \A c \in Clients : CursorOK(c)'
  <2> TAKE c \in Clients
  <2>1. CASE client[c].run = r /\ client[c].pc = "live"
    <3>1. c \in Readers(r)
      BY <2>1, ReadersAre
    <3>2. cursor'[c].at = cursor[c].at - over /\ cursor'[c].after = cursor[c].after
      BY <1>17, <3>1
    <3>3. /\ cursor[c].at \in Int /\ cursor[c].after \in Nat /\ client[c].last \in Nat
          /\ client[c].fresh \in BOOLEAN
      BY <1>2, CursorFields, ClientFields
    <3>4. Position(c) = run[r].seq - Len(old) + cursor[c].at
      BY <2>1 DEF Position
    <3>5. Position(c)' = run'[r].seq - Len(channel'[r].frames) + cursor'[c].at
      BY <1>1, <2>1 DEF Position
    <3>6. Position(c)' = Position(c)
      <4> DEFINE l == Len(old)
                 k == Len(new)
                 s == run[r].seq
      <4>1. l \in Nat /\ s \in Nat /\ over \in Nat /\ k = l + 1 - over
        BY <1>8, <1>10
      <4>2. Position(c)' = s + 1 - k + (cursor[c].at - over)
        <5>1. run'[r].seq = s + 1
          BY <1>4, <1>5
        <5>2. Len(channel'[r].frames) = k
          BY <1>15 DEF k
        <5> HIDE DEF k, l, s
        <5> QED
          BY <3>2, <3>3, <3>5, <4>1, <5>1, <5>2
      <4>3. Position(c) = s - l + cursor[c].at
        BY <3>4
      <4> HIDE DEF l, k, s
      <4> QED
        BY <3>3, <4>1, <4>2, <4>3
    <3>7. /\ cursor[c].at <= Len(old) /\ cursor[c].after <= client[c].last
          /\ client[c].fresh => /\ cursor[c].after = client[c].last
                                /\ cursor[c].at > 0 => Position(c) <= client[c].last
          /\ ~client[c].fresh => Position(c) = client[c].last
      BY <1>2, <2>1 DEF CursorOK
    <3>8. cursor'[c].at <= Len(new) /\ (cursor'[c].at > 0 => cursor[c].at > 0)
      <4>1. Len(old) \in Nat /\ over \in Nat /\ Len(new) = Len(old) + 1 - over
        BY <1>8, <1>10
      <4>2. cursor[c].at <= Len(old)
        BY <3>7
      <4> QED
        BY <3>2, <3>3, <4>1, <4>2
    <3> QED
      BY <1>1, <1>15, <2>1, <3>2, <3>6, <3>7, <3>8 DEF CursorOK
  <2>2. CASE client[c].run # r
    <3>1. c \notin Readers(r)
      BY <2>2, ReadersAre
    <3>2. client[c].pc = "live" => client[c].run \in Runs
      BY <1>2, ServedIsRuns DEF ConnectionOK
    <3>3. CASE client[c].pc = "live"
      BY <1>1, <1>2, <1>5, <1>16, <1>17, <2>2, <3>1, <3>2, <3>3, CursorFrame
    <3>4. CASE client[c].pc # "live"
      BY <1>1, <3>4 DEF CursorOK
    <3> QED
      BY <3>3, <3>4
  <2>3. CASE client[c].pc # "live"
    BY <1>1, <2>3 DEF CursorOK
  <2> QED
    BY <2>1, <2>2, <2>3
<1> QED
  BY <1>1, <1>2, <1>18, <1>19, <1>20, <1>21, <1>22, <1>23, OverMemory

LEMMA Releasing ==
  ASSUME NEW ch \in [Runs -> ChannelType], NEW order \in SUBSET (Runs \X Runs), TotalOrder(order),
         NEW gone \in SUBSET Runs, finished \in SUBSET Runs, Release(ch, order, gone)
  PROVE  /\ channel' \in [Runs -> ChannelType] /\ closedOrder' \in SUBSET (Runs \X Runs)
         /\ finished' \in SUBSET Runs /\ TotalOrder(closedOrder')
         /\ Retained(closedOrder') = Retained(order) \ gone
         /\ \A s \in gone : channel'[s] = NoChannel /\ s \in finished'
         /\ \A s \in Runs : s \notin gone => channel'[s] = ch[s] /\ (s \in finished' <=> s \in finished)
<1>1. /\ channel' = [s \in Runs |-> IF s \in gone THEN NoChannel ELSE ch[s]]
      /\ closedOrder' = order \cap ((Runs \ gone) \X (Runs \ gone))
      /\ finished' = finished \cup gone
  BY DEF Release
<1>2. TotalOrder(closedOrder') /\ closedOrder' \in SUBSET (Runs \X Runs)
      /\ Retained(closedOrder') = Retained(order) \ gone
  BY <1>1, ReleasedOrder
<1>3. NoChannel \in ChannelType
  BY DEF NoChannel, ChannelType
<1>4. channel' \in [Runs -> ChannelType]
  BY <1>1, <1>3
<1>5. \A s \in gone : channel'[s] = NoChannel /\ s \in finished'
  BY <1>1
<1>6. \A s \in Runs : s \notin gone => channel'[s] = ch[s] /\ (s \in finished' <=> s \in finished)
  BY <1>1
<1> QED
  BY <1>1, <1>2, <1>4, <1>5, <1>6

LEMMA GoneChannel ==
  ASSUME FeedTypes', NEW r \in Runs, channel'[r] = NoChannel, r \notin Retained(closedOrder'),
         r \in finished' => Closable(run'[r]), Readers(r)' = {},
         trouble' = 0 /\ run'[r].seq > 0 => r \in finished'
  PROVE  ChannelOK(r)'
<1>1. NoChannel.state = "none" /\ NoChannel.frames = <<>> /\ Len(<<>>) = 0
  BY DEF NoChannel
<1>2. run'[r].seq \in Nat /\ MaxFramesPerRun \in Nat
  BY MemoryAssumption DEF FeedTypes, RunType
<1>3. Counting(<<>>, run'[r].seq)
  BY <1>1 DEF Counting
<1>4. r \notin Retained(closedOrder)'
  BY DEF Retained
<1> QED
  BY <1>1, <1>2, <1>3, <1>4 DEF ChannelOK, ChannelIs

(* close leaves the channels of the memory bus in order.                       *)
LEMMA Closing ==
  ASSUME IInv, driver = "memory", NEW r \in Runs, MemoryClose(r), FeedTypes', Onward,
         trouble' = trouble, \A s : Readers(s)' = Readers(s), Busy' = Busy, Closable(run'[r]),
         run'[r].row = "active" => run[r].row = "active", run'[r].seq = run[r].seq, \A s \in Runs : s # r => run'[s] = run[s]
  PROVE  /\ channel' \in [Runs -> ChannelType] /\ closedOrder' \in SUBSET (Runs \X Runs)
         /\ finished' \in SUBSET Runs /\ TotalOrder(closedOrder')
         /\ \A s \in Runs : ChannelOK(s)'
         /\ Cardinality(Retained(closedOrder')) > MaxRetainedRuns => Retained(closedOrder') \subseteq Busy'
         /\ \A s \in Runs : Readers(s) # {} => channel'[s].frames = channel[s].frames
<1>1. /\ FeedTypes /\ MemoryTypes
      /\ \A s \in Runs : ChannelOK(s)
      /\ TotalOrder(closedOrder) /\ closedOrder \in SUBSET (Runs \X Runs)
      /\ Cardinality(Retained(closedOrder)) > MaxRetainedRuns => Retained(closedOrder) \subseteq Busy
  BY MemoryFacts
<1>2. /\ channel[r] \in ChannelType /\ channel[r].state \in {"none", "open", "closed"}
      /\ channel \in [Runs -> ChannelType] /\ finished \in SUBSET Runs
  BY <1>1, ChannelFields DEF MemoryTypes
<1>4. CASE channel[r].state = "none" /\ r \in finished
  <2>1. UNCHANGED <<channel, closedOrder, finished>>
    BY <1>4 DEF MemoryClose
  <2>2. \A s \in Runs : ChannelOK(s)'
    <3> TAKE s \in Runs
    <3>1. CASE s # r
      BY <1>1, <2>1, <3>1, ChannelFrame
    <3>2. CASE s = r
      <4>1. r \in Retained(closedOrder)' <=> r \in Retained(closedOrder)
        BY <2>1 DEF Retained
      <4> QED
        BY <1>1, <1>4, <2>1, <3>2, <4>1 DEF ChannelOK, ChannelIs
    <3> QED
      BY <3>1, <3>2
  <2> QED
    BY <1>1, <1>2, <2>1, <2>2
<1>5. CASE ~(channel[r].state = "none" /\ r \in finished)
  <2> DEFINE ch == [channel EXCEPT ![r].state = "closed"]
             order == Entered(closedOrder, r)
             gone == IF channel[r].frames = <<>> /\ Readers(r) = {} THEN {r}
                     ELSE EvictClosedBeyondCap(order, Busy)
  <2>1. Release(ch, order, gone)
    BY <1>5 DEF MemoryClose
  <2>2. r \in finished => run'[r].row # "active"
    BY <1>1, <1>5 DEF ChannelOK, ChannelIs
  <2>3. /\ TotalOrder(order) /\ order \in SUBSET (Runs \X Runs)
        /\ Retained(order) = Retained(closedOrder) \cup {r}
    BY <1>1, EnteredOrder
  <2>4. /\ ch \in [Runs -> ChannelType] /\ ch[r].state = "closed" /\ ch[r].frames = channel[r].frames
        /\ \A s \in Runs : s # r => ch[s] = channel[s]
    <3> DEFINE v == [channel[r] EXCEPT !.state = "closed"]
    <3>1. v \in ChannelType /\ v.state = "closed" /\ v.frames = channel[r].frames
      BY <1>2 DEF ChannelType
    <3>2. ch = [channel EXCEPT ![r] = v]
      BY <1>2
    <3> HIDE DEF v, ch
    <3> QED
      BY <1>2, <3>1, <3>2
  <2> HIDE DEF ch, order
  <2>5. /\ EvictClosedBeyondCap(order, Busy) \subseteq Retained(order) \ Busy
        /\ Cardinality(Retained(order) \ EvictClosedBeyondCap(order, Busy)) > MaxRetainedRuns
              => Retained(order) \ EvictClosedBeyondCap(order, Busy) \subseteq Busy
    BY <2>3, Evicted
  <2>6. gone \subseteq Retained(order) /\ Retained(order) \subseteq Runs
    BY <2>3, <2>5 DEF Retained
  <2>7. \A s \in gone : Readers(s) = {}
    <3> TAKE s \in gone
    <3>1. CASE channel[r].frames = <<>> /\ Readers(r) = {}
      BY <3>1
    <3>2. CASE ~(channel[r].frames = <<>> /\ Readers(r) = {})
      <4>1. s \notin Busy /\ s \in Runs
        BY <2>5, <2>6, <3>2
      <4> QED
        BY <4>1 DEF Busy
    <3> QED
      BY <3>1, <3>2
  <2>8. \A s \in gone : Closable(run'[s])
    <3> TAKE s \in gone
    <3>1. CASE s # r
      <4>1. s \in Runs /\ s \in Retained(closedOrder)
        BY <2>3, <2>6, <3>1
      <4> QED
        BY <1>1, <3>1, <4>1 DEF ChannelOK, ChannelIs
    <3> QED
      BY <3>1
  <2>9. Cardinality(Retained(order) \ gone) > MaxRetainedRuns => Retained(order) \ gone \subseteq Busy
    <3>1. CASE channel[r].frames = <<>> /\ Readers(r) = {}
      <4>1. gone = {r} /\ Retained(order) \ gone = Retained(closedOrder) \ {r}
        BY <2>3, <3>1
      <4>2. IsFiniteSet(Retained(closedOrder))
        BY <1>1 DEF TotalOrder
      <4>3. Cardinality(Retained(closedOrder) \ {r}) <= Cardinality(Retained(closedOrder))
            /\ Cardinality(Retained(closedOrder)) \in Nat
            /\ Cardinality(Retained(closedOrder) \ {r}) \in Nat
        <5>1. Retained(closedOrder) \ {r} \in SUBSET Retained(closedOrder)
          OBVIOUS
        <5> QED
          BY <4>2, <5>1, FS_Subset, FS_CardinalityType
      <4>4. MaxRetainedRuns \in Nat
        BY MemoryAssumption
      <4> HIDE DEF gone
      <4>5. ASSUME Cardinality(Retained(closedOrder) \ {r}) > MaxRetainedRuns
            PROVE  Retained(closedOrder) \ {r} \subseteq Busy
        <5>1. Cardinality(Retained(closedOrder)) > MaxRetainedRuns
          BY <4>3, <4>4, <4>5
        <5> QED
          BY <1>1, <5>1
      <4> QED
        BY <4>1, <4>5
    <3>2. CASE ~(channel[r].frames = <<>> /\ Readers(r) = {})
      <4>1. gone = EvictClosedBeyondCap(order, Busy)
        BY <3>2
      <4> QED
        BY <2>5, <4>1
    <3> QED
      BY <3>1, <3>2
  <2> HIDE DEF gone
  <2>10. /\ channel' \in [Runs -> ChannelType] /\ closedOrder' \in SUBSET (Runs \X Runs)
         /\ finished' \in SUBSET Runs /\ TotalOrder(closedOrder')
         /\ Retained(closedOrder') = Retained(order) \ gone
         /\ \A s \in gone : channel'[s] = NoChannel /\ s \in finished'
         /\ \A s \in Runs : s \notin gone => channel'[s] = ch[s] /\ (s \in finished' <=> s \in finished)
    <3>1. gone \in SUBSET Runs
      BY <2>6
    <3> QED
      BY <1>2, <2>1, <2>3, <2>4, <3>1, Releasing
  <2>11. \A s \in Runs : ChannelOK(s)'
    <3> TAKE s \in Runs
    <3>1. CASE s \in gone
      <4>1. s \notin Retained(closedOrder')
        BY <2>10, <3>1
      <4> QED
        BY <2>7, <2>8, <2>10, <3>1, <4>1, GoneChannel
    <3>2. CASE s \notin gone /\ s # r
      <4>1. channel'[s] = channel[s] /\ (s \in finished' <=> s \in finished)
        BY <2>4, <2>10, <3>2
      <4>2. s \in Retained(closedOrder') <=> s \in Retained(closedOrder)
        BY <2>3, <2>10, <3>2
      <4> QED
        BY <1>1, <3>2, <4>1, <4>2, ChannelFrame
    <3>3. CASE s \notin gone /\ s = r
      <4>1. /\ channel'[r].state = "closed" /\ channel'[r].frames = channel[r].frames
            /\ r \in finished' <=> r \in finished
        BY <2>4, <2>10, <3>3
      <4>2. (r \in Retained(closedOrder))'
        <5>1. r \in Retained(closedOrder')
          BY <2>3, <2>10, <3>3
        <5> QED
          BY <5>1 DEF Retained
      <4>3. ChannelIs(channel[r], r \in Retained(closedOrder), r \in finished, run[r], Readers(r), trouble = 0)
        BY <1>1 DEF ChannelOK
      <4> QED
        BY <2>2, <3>3, <4>1, <4>2, <4>3 DEF ChannelOK, ChannelIs
    <3> QED
      BY <3>1, <3>2, <3>3
  <2>12. \A s \in Runs : Readers(s) # {} => channel'[s].frames = channel[s].frames
    <3> SUFFICES ASSUME NEW s \in Runs, Readers(s) # {} PROVE channel'[s].frames = channel[s].frames
      OBVIOUS
    <3>1. s \notin gone
      BY <2>7
    <3> QED
      BY <2>4, <2>10, <3>1
  <2>13. Cardinality(Retained(closedOrder')) > MaxRetainedRuns => Retained(closedOrder') \subseteq Busy'
    BY <2>9, <2>10
  <2> QED
    BY <2>10, <2>11, <2>12, <2>13
<1> QED
  BY <1>4, <1>5

(* The last conditions of the teardown of a subscription.                      *)
LEMMA Tearing ==
  ASSUME IInv, driver = "memory", NEW c \in Clients, client[c].pc = "live", FeedTypes', Onward,
         NEW r \in Runs, client[c].run = r,
         run' = run, client'[c].pc # "live", \A d \in Clients : d # c => client'[d] = client[d],
         Teardown(r, {s \in Runs : Readers(s) \ {c} # {}})
  PROVE  /\ channel' \in [Runs -> ChannelType] /\ closedOrder' \in SUBSET (Runs \X Runs)
         /\ finished' \in SUBSET Runs /\ TotalOrder(closedOrder')
         /\ \A s \in Runs : ChannelOK(s)'
         /\ Cardinality(Retained(closedOrder')) > MaxRetainedRuns => Retained(closedOrder') \subseteq Busy'
         /\ \A s \in Runs : Readers(s)' # {} => channel'[s].frames = channel[s].frames
<1> DEFINE rest == {s \in Runs : Readers(s) \ {c} # {}}
<1>1. /\ FeedTypes /\ MemoryTypes
      /\ \A s \in Runs : ChannelOK(s)
      /\ TotalOrder(closedOrder) /\ closedOrder \in SUBSET (Runs \X Runs)
      /\ Cardinality(Retained(closedOrder)) > MaxRetainedRuns => Retained(closedOrder) \subseteq Busy
  BY MemoryFacts
<1>2. c \in Readers(r) /\ \A s : s # r => c \notin Readers(s)
  BY ReadersAre
<1>3. /\ channel[r] \in ChannelType /\ channel[r].state \in {"none", "open", "closed"}
      /\ channel \in [Runs -> ChannelType] /\ finished \in SUBSET Runs
  BY <1>1, <1>2, ChannelFields DEF MemoryTypes
<1>4. \A s : Readers(s)' = Readers(s) \ {c}
  BY ReadersAre
<1>5. rest = Busy' /\ rest \subseteq Busy /\ \A s \in Busy : s # r => s \in rest
  <2>1. \A s : s # r => Readers(s)' = Readers(s)
    BY <1>2, <1>4
  <2>2. Busy' = rest
    BY <1>4 DEF Busy
  <2>3. \A s \in Runs : s \in Busy' <=> Readers(s)' # {}
    BY DEF Busy
  <2>4. \A s \in Runs : s \in Busy <=> Readers(s) # {}
    BY DEF Busy
  <2>5. \A s \in Busy : s \in Runs /\ (s # r => s \in rest)
    BY <2>1, <2>2, <2>3, <2>4 DEF Busy
  <2>6. rest \subseteq Busy
    BY <1>4, <2>2, <2>3, <2>4 DEF Busy
  <2> QED
    BY <2>2, <2>5, <2>6
<1>6. /\ channel[r].state # "none" /\ (channel[r].state = "closed" <=> r \in Retained(closedOrder))
      /\ r \in finished => run[r].row # "active"
  BY <1>1, <1>2 DEF ChannelOK, ChannelIs
<1>7. \A s \in Runs : s # r => Readers(s)' = Readers(s)
  BY <1>2, <1>4
<1> HIDE DEF rest
<1>8. r \in rest <=> Readers(r)' # {}
  BY <1>5 DEF Busy
<1>9. /\ IsFiniteSet(Retained(closedOrder)) /\ Cardinality(Retained(closedOrder)) \in Nat
      /\ MaxRetainedRuns \in Nat
  BY <1>1, FS_CardinalityType, MemoryAssumption DEF TotalOrder
<1>10. ASSUME UNCHANGED <<channel, closedOrder, finished>>,
              r \in rest \/ (channel[r].frames # <<>> /\ channel[r].state = "open")
       PROVE  /\ \A s \in Runs : ChannelOK(s)'
              /\ Cardinality(Retained(closedOrder')) > MaxRetainedRuns
                   => Retained(closedOrder') \subseteq Busy'
  <2>1. \A s \in Runs : ChannelOK(s)'
    <3> TAKE s \in Runs
    <3>1. CASE s # r
      BY <1>1, <1>7, <1>10, <3>1, ChannelFrame
    <3>2. CASE s = r
      <4>1. ChannelIs(channel[r], r \in Retained(closedOrder), r \in finished, run[r], Readers(r), trouble = 0)
        BY <1>1, <1>2 DEF ChannelOK
      <4>2. r \in Retained(closedOrder)' <=> r \in Retained(closedOrder)
        BY <1>10 DEF Retained
      <4>3. trouble' = 0 => trouble = 0
        BY <1>1 DEF Onward, FeedTypes
      <4>4. channel'[r].state = "open" /\ channel'[r].frames = <<>> => Readers(r)' # {}
        BY <1>8, <1>10
      <4>5. channel'[r] = channel[r] /\ (r \in finished' <=> r \in finished) /\ run'[r] = run[r]
        BY <1>10
      <4>6. channel[r].state # "none"
        BY <1>6
      <4> QED
        BY <3>2, <4>1, <4>2, <4>3, <4>4, <4>5, <4>6 DEF ChannelOK, ChannelIs
    <3> QED
      BY <3>1, <3>2
  <2>2. ASSUME Cardinality(Retained(closedOrder)) > MaxRetainedRuns PROVE Retained(closedOrder) \subseteq Busy'
    <3>1. r \in Retained(closedOrder) => r \in rest
      BY <1>6, <1>10
    <3> QED
      BY <1>1, <1>5, <2>2, <3>1
  <2> QED
    BY <1>10, <2>1, <2>2
<1>11. ASSUME NEW gone \in SUBSET Runs, Release(channel, closedOrder, gone), r \in gone \/ channel[r].frames # <<>>,
              gone \subseteq Retained(closedOrder), gone \cap rest = {}, channel[r].state = "closed"
       PROVE  /\ \A s \in Runs : ChannelOK(s)'
              /\ \A s \in Runs : Readers(s)' # {} => channel'[s].frames = channel[s].frames
              /\ channel' \in [Runs -> ChannelType] /\ closedOrder' \in SUBSET (Runs \X Runs)
              /\ finished' \in SUBSET Runs /\ TotalOrder(closedOrder')
              /\ Retained(closedOrder') = Retained(closedOrder) \ gone
  <2>1. /\ channel' \in [Runs -> ChannelType] /\ closedOrder' \in SUBSET (Runs \X Runs)
        /\ finished' \in SUBSET Runs /\ TotalOrder(closedOrder')
        /\ Retained(closedOrder') = Retained(closedOrder) \ gone
        /\ \A s \in gone : channel'[s] = NoChannel /\ s \in finished'
        /\ \A s \in Runs : s \notin gone =>
              channel'[s] = channel[s] /\ (s \in finished' <=> s \in finished)
    BY <1>1, <1>3, <1>11, Releasing
  <2>2. \A s \in gone : Readers(s)' = {}
    <3> TAKE s \in gone
    <3>1. s \notin Busy' /\ s \in Runs
      BY <1>5, <1>11
    <3> QED
      BY <3>1 DEF Busy
  <2>3. \A s \in gone : Closable(run'[s])
    <3> TAKE s \in gone
    <3>1. s \in Runs /\ s \in Retained(closedOrder)
      BY <1>11
    <3> QED
      BY <1>1, <3>1 DEF ChannelOK, ChannelIs
  <2>4. \A s \in Runs : ChannelOK(s)'
    <3> TAKE s \in Runs
    <3>1. CASE s \in gone
      <4>1. s \notin Retained(closedOrder')
        BY <2>1, <3>1
      <4> QED
        BY <2>1, <2>2, <2>3, <3>1, <4>1, GoneChannel
    <3>2. CASE s \notin gone /\ s # r
      <4>1. channel'[s] = channel[s] /\ (s \in finished' <=> s \in finished)
        BY <2>1, <3>2
      <4>2. s \in Retained(closedOrder') <=> s \in Retained(closedOrder)
        BY <2>1, <3>2
      <4> QED
        BY <1>1, <1>7, <3>2, <4>1, <4>2, ChannelFrame
    <3>3. CASE s \notin gone /\ s = r
      <4>1. channel'[r] = channel[r] /\ (r \in finished' <=> r \in finished)
        BY <1>2, <2>1, <3>3
      <4>2. (r \in Retained(closedOrder))'
        <5>1. r \in Retained(closedOrder')
          BY <1>6, <1>11, <2>1, <3>3
        <5> QED
          BY <5>1 DEF Retained
      <4>3. ChannelIs(channel[r], r \in Retained(closedOrder), r \in finished, run[r], Readers(r), trouble = 0)
        BY <1>1, <1>2 DEF ChannelOK
      <4>4. trouble' = 0 => trouble = 0
        BY <1>1 DEF Onward, FeedTypes
      <4>5. channel[r].state = "closed" /\ channel[r].frames # <<>> /\ run'[r] = run[r]
        BY <1>11, <3>3
      <4> QED
        BY <3>3, <4>1, <4>2, <4>3, <4>4, <4>5 DEF ChannelOK, ChannelIs
    <3> QED
      BY <3>1, <3>2, <3>3
  <2>5. \A s \in Runs : Readers(s)' # {} => channel'[s].frames = channel[s].frames
    BY <2>1, <2>2
  <2> QED
    BY <2>1, <2>4, <2>5
<1>12. CASE r \in rest
  <2>1. UNCHANGED <<channel, closedOrder, finished>>
    BY <1>12 DEF Teardown, rest
  <2> QED
    BY <1>1, <1>3, <1>10, <1>12, <2>1
<1>13. CASE r \notin rest /\ channel[r].frames = <<>> /\ channel[r].state = "closed"
  <2>1. Release(channel, closedOrder, {r})
    BY <1>13 DEF Teardown, rest
  <2>2. {r} \in SUBSET Runs /\ {r} \subseteq Retained(closedOrder) /\ {r} \cap rest = {}
    BY <1>2, <1>6, <1>13
  <2>3. /\ \A s \in Runs : ChannelOK(s)'
        /\ \A s \in Runs : Readers(s)' # {} => channel'[s].frames = channel[s].frames
        /\ channel' \in [Runs -> ChannelType] /\ closedOrder' \in SUBSET (Runs \X Runs)
        /\ finished' \in SUBSET Runs /\ TotalOrder(closedOrder')
        /\ Retained(closedOrder') = Retained(closedOrder) \ {r}
    BY <1>11, <1>13, <2>1, <2>2
  <2>4. ASSUME Cardinality(Retained(closedOrder')) > MaxRetainedRuns PROVE Retained(closedOrder') \subseteq Busy'
    <3>1. /\ Cardinality(Retained(closedOrder) \ {r}) <= Cardinality(Retained(closedOrder))
          /\ Cardinality(Retained(closedOrder) \ {r}) \in Nat
      <4>1. Retained(closedOrder) \ {r} \in SUBSET Retained(closedOrder)
        OBVIOUS
      <4> QED
        BY <1>9, <4>1, FS_Subset, FS_CardinalityType
    <3>2. Retained(closedOrder) \subseteq Busy
      <4>1. Cardinality(Retained(closedOrder)) > MaxRetainedRuns
        BY <1>9, <2>3, <2>4, <3>1
      <4> QED
        BY <1>1, <4>1
    <3> QED
      BY <1>5, <2>3, <3>2
  <2> QED
    BY <2>3, <2>4
<1>14. CASE r \notin rest /\ channel[r].frames = <<>> /\ channel[r].state # "closed"
  <2>1. channel' = [channel EXCEPT ![r] = NoChannel] /\ UNCHANGED <<closedOrder, finished>>
    BY <1>14 DEF Teardown, rest
  <2>2. channel' \in [Runs -> ChannelType] /\ channel'[r] = NoChannel
        /\ \A s \in Runs : s # r => channel'[s] = channel[s]
    BY <1>2, <1>3, <2>1 DEF NoChannel, ChannelType
  <2>3. Readers(r)' = {}
    BY <1>8, <1>14
  <2>4. \A s \in Runs : ChannelOK(s)'
    <3> TAKE s \in Runs
    <3>1. CASE s # r
      BY <1>1, <1>7, <2>1, <2>2, <3>1, ChannelFrame
    <3>2. CASE s = r
      <4>1. r \notin Retained(closedOrder') /\ (r \in finished' => Closable(run'[r]))
        BY <1>6, <1>14, <2>1 DEF Closable
      <4>2. ~(trouble' = 0 /\ run'[r].seq > 0)
        <5>1. trouble' = 0 => trouble = 0
          BY <1>1 DEF Onward, FeedTypes
        <5>2. trouble = 0 => r \notin finished
          BY <1>6 DEF IInv, Engines, EngineOK
        <5>3. ~(trouble = 0 /\ run[r].seq > 0)
          BY <1>1, <1>2, <1>14, <5>2 DEF ChannelOK, ChannelIs
        <5> QED
          BY <5>1, <5>3
      <4> QED
        BY <1>2, <2>2, <2>3, <3>2, <4>1, <4>2, GoneChannel
    <3> QED
      BY <3>1, <3>2
  <2>5. ASSUME Cardinality(Retained(closedOrder)) > MaxRetainedRuns PROVE Retained(closedOrder) \subseteq Busy'
    BY <1>1, <1>5, <1>6, <1>14, <2>5
  <2>6. \A s \in Runs : Readers(s)' # {} => channel'[s].frames = channel[s].frames
    BY <2>2, <2>3
  <2> QED
    BY <1>1, <1>3, <2>1, <2>2, <2>4, <2>5, <2>6
<1>15. CASE r \notin rest /\ channel[r].frames # <<>> /\ channel[r].state = "closed"
  <2> DEFINE gone == EvictClosedBeyondCap(closedOrder, rest)
  <2>1. Release(channel, closedOrder, gone)
    BY <1>15 DEF Teardown, rest
  <2>2. /\ gone \subseteq Retained(closedOrder) \ rest
        /\ Cardinality(Retained(closedOrder) \ gone) > MaxRetainedRuns => Retained(closedOrder) \ gone \subseteq rest
    BY <1>1, Evicted
  <2>3. gone \in SUBSET Runs /\ gone \subseteq Retained(closedOrder) /\ gone \cap rest = {}
    BY <2>2 DEF Retained
  <2> HIDE DEF gone
  <2>4. /\ \A s \in Runs : ChannelOK(s)'
        /\ \A s \in Runs : Readers(s)' # {} => channel'[s].frames = channel[s].frames
        /\ channel' \in [Runs -> ChannelType] /\ closedOrder' \in SUBSET (Runs \X Runs)
        /\ finished' \in SUBSET Runs /\ TotalOrder(closedOrder')
        /\ Retained(closedOrder') = Retained(closedOrder) \ gone
    BY <1>11, <1>15, <2>1, <2>3
  <2> QED
    BY <1>5, <2>2, <2>4
<1>16. CASE r \notin rest /\ channel[r].frames # <<>> /\ channel[r].state # "closed"
  <2>1. UNCHANGED <<channel, closedOrder, finished>>
    BY <1>16 DEF Teardown, rest
  <2>2. channel[r].state = "open"
    BY <1>3, <1>6, <1>16
  <2> QED
    BY <1>1, <1>3, <1>10, <1>16, <2>1, <2>2
<1> QED
  BY <1>12, <1>13, <1>14, <1>15, <1>16

LEMMA OnwardSame ==
  ASSUME FeedTypes, driver' = driver, published' = published, trouble' = trouble
  PROVE  Onward
  BY FeedAssumption DEF Onward, FeedTypes

LEMMA RunsSame ==
  ASSUME FeedTypes, run' = run
  PROVE  RunsOnward
<1> SUFFICES ASSUME NEW s \in Runs
             PROVE  /\ run[s].top <= run'[s].top
                    /\ run'[s].row = "active" => run[s].row = "active"
                    /\ Over(run[s]) => /\ Over(run'[s])
                                       /\ run'[s].top = run[s].top /\ run'[s].attempt = run[s].attempt
  BY DEF RunsOnward
<1> QED
  BY RunFields

(* The pc of one run moves, never back once the run is over.                   *)
LEMMA MovedOnward ==
  ASSUME FeedTypes, NEW r \in Runs, NEW pc \in RunPcs, run' = [run EXCEPT ![r].pc = pc],
         Over(run[r]) => pc \notin {"running", "sending"}, Onward,
         pc \notin {"sending", "appended"} \/ driver = "redis", \A s \in Runs : EngineOK(s)
  PROVE  /\ RunsOnward /\ run' \in [Runs -> RunType]
         /\ run'[r].pc = pc /\ run'[r].seq = run[r].seq /\ run'[r].top = run[r].top
         /\ run'[r].attempt = run[r].attempt /\ run'[r].row = run[r].row
         /\ \A s \in Runs : s # r => run'[s] = run[s]
         /\ \A s \in Runs : EngineOK(s)' /\ run'[s].seq = run[s].seq
<1>1. /\ run' \in [Runs -> RunType]
      /\ run'[r].pc = pc /\ run'[r].seq = run[r].seq /\ run'[r].top = run[r].top
      /\ run'[r].attempt = run[r].attempt /\ run'[r].row = run[r].row
      /\ \A s \in Runs : s # r => run'[s] = run[s]
  BY RunMoved
<1>2. \A s \in Runs : EngineOK(s)' /\ run'[s].seq = run[s].seq
  <2> TAKE s \in Runs
  <2>1. run'[s].seq = run[s].seq /\ run'[s].top = run[s].top /\ run'[s].attempt = run[s].attempt
        /\ run'[s].row = run[s].row /\ (run'[s].pc = run[s].pc \/ run'[s].pc \notin {"sending", "appended"} \/ driver = "redis")
    BY <1>1
  <2> QED
    BY <2>1, EngineFrame
<1>3. RunsOnward
  <2> SUFFICES ASSUME NEW s \in Runs
               PROVE  /\ run[s].top <= run'[s].top
                      /\ run'[s].row = "active" => run[s].row = "active"
                      /\ Over(run[s]) => /\ Over(run'[s])
                                         /\ run'[s].top = run[s].top /\ run'[s].attempt = run[s].attempt
    BY DEF RunsOnward
  <2>1. run[s].top \in Nat
    BY RunFields
  <2>2. CASE s = r
    BY <1>1, <2>1, <2>2 DEF Over
  <2>3. CASE s # r
    BY <1>1, <2>1, <2>3
  <2> QED
    BY <2>2, <2>3
<1> QED
  BY <1>1, <1>2, <1>3

(* The row of one run is withdrawn.                                            *)
LEMMA RowOnward ==
  ASSUME FeedTypes, NEW r \in Runs, NEW w \in Rows, run' = [run EXCEPT ![r].row = w],
         w = "active" => run[r].row = "active", Onward, trouble' > 0, \A s \in Runs : EngineOK(s)
  PROVE  /\ RunsOnward /\ run' \in [Runs -> RunType]
         /\ run'[r].pc = run[r].pc /\ run'[r].seq = run[r].seq /\ run'[r].top = run[r].top
         /\ run'[r].attempt = run[r].attempt /\ run'[r].row = w
         /\ \A s \in Runs : s # r => run'[s] = run[s]
         /\ \A s \in Runs : EngineOK(s)' /\ run'[s].seq = run[s].seq
<1>1. /\ run' \in [Runs -> RunType]
      /\ run'[r].pc = run[r].pc /\ run'[r].seq = run[r].seq /\ run'[r].top = run[r].top
      /\ run'[r].attempt = run[r].attempt /\ run'[r].row = w
      /\ \A s \in Runs : s # r => run'[s] = run[s]
  BY RowMoved
<1>2. \A s \in Runs : EngineOK(s)' /\ run'[s].seq = run[s].seq
  <2> TAKE s \in Runs
  <2>1. run'[s].seq = run[s].seq /\ run'[s].top = run[s].top /\ run'[s].attempt = run[s].attempt
        /\ run'[s].pc = run[s].pc
    BY <1>1
  <2> QED
    BY <2>1, EngineFrame
<1>3. RunsOnward
  <2> SUFFICES ASSUME NEW s \in Runs
               PROVE  /\ run[s].top <= run'[s].top
                      /\ run'[s].row = "active" => run[s].row = "active"
                      /\ Over(run[s]) => /\ Over(run'[s])
                                         /\ run'[s].top = run[s].top /\ run'[s].attempt = run[s].attempt
    BY DEF RunsOnward
  <2>1. run[s].top \in Nat
    BY RunFields
  <2>2. CASE s = r
    BY <1>1, <2>1, <2>2 DEF Over
  <2>3. CASE s # r
    BY <1>1, <2>1, <2>3
  <2> QED
    BY <2>2, <2>3
<1> QED
  BY <1>1, <1>2, <1>3

LEMMA WithdrawnOnward ==
  ASSUME FeedTypes, NEW r \in Runs, Withdrawing(r), run' = Withdrawn(r), Onward, trouble' = trouble,
         \A s \in Runs : EngineOK(s)
  PROVE  /\ RunsOnward /\ run' \in [Runs -> RunType] /\ run[r].row # "active" /\ run'[r].row # "active"
         /\ run'[r].pc = run[r].pc /\ run'[r].seq = run[r].seq /\ run'[r].top = run[r].top
         /\ run'[r].attempt = run[r].attempt
         /\ \A s \in Runs : s # r => run'[s] = run[s]
         /\ \A s \in Runs : EngineOK(s)' /\ run'[s].seq = run[s].seq
<1> DEFINE w == IF run[r].row = "cancelling" THEN "cancelled" ELSE "deleted"
<1>1. run' = [run EXCEPT ![r].row = w] /\ w \in Rows /\ w # "active"
  BY DEF Withdrawn, FeedTypes, Rows
<1>2. run[r].row # "active" /\ trouble' > 0
  BY DEF Withdrawing, EngineOK
<1> HIDE DEF w
<1> QED
  BY <1>1, <1>2, RowOnward

LEMMA CursorStays ==
  ASSUME NEW c \in Clients, CursorOK(c), client'[c] = client[c], cursor'[c] = cursor[c],
         client[c].pc = "live" => /\ channel'[client[c].run].frames = channel[client[c].run].frames
                                 /\ run'[client[c].run].seq = run[client[c].run].seq
  PROVE  CursorOK(c)'
<1>1. CASE client[c].pc = "live"
  BY <1>1, CursorFrame
<1>2. CASE client[c].pc # "live"
  BY <1>2 DEF CursorOK
<1> QED
  BY <1>1, <1>2

LEMMA MemoryEngineCloseStep ==
  ASSUME IInv, NEW r \in Runs, MemoryEngineClose(r), UNCHANGED redisBus
  PROVE  IInv'
<1>1. /\ driver = "memory" /\ run[r].pc = "settled" /\ MemoryClose(r)
      /\ run' = [run EXCEPT ![r].pc = "closed"]
      /\ UNCHANGED <<driver, published, joins, client, trouble, cursor>>
  BY DEF MemoryEngineClose
<1>2. /\ FeedTypes /\ MemoryTypes /\ RedisTypes
      /\ \A s \in Runs : EngineOK(s)
      /\ \A c \in Clients : ConnectionOK(c) /\ CompleteOK(c) /\ CursorOK(c)
  BY <1>1, MemoryFacts
<1>3. Onward
  BY <1>1, <1>2, OnwardSame
<1>4. /\ RunsOnward /\ run' \in [Runs -> RunType] /\ run'[r].pc = "closed"
      /\ run'[r].row = run[r].row
      /\ \A s \in Runs : s # r => run'[s] = run[s]
      /\ \A s \in Runs : EngineOK(s)' /\ run'[s].seq = run[s].seq
  <2>1. "closed" \in RunPcs
    BY DEF RunPcs
  <2> QED
    BY <1>1, <1>2, <1>3, <2>1, MovedOnward
<1>5. FeedTypes'
  BY <1>1, <1>2, <1>4 DEF FeedTypes, Drivers
<1>6. (\A s : Readers(s)' = Readers(s)) /\ Busy' = Busy
  BY <1>1, SameReaders
<1>7. Closable(run'[r]) /\ (run'[r].row = "active" => run[r].row = "active")
  BY <1>4 DEF Closable, Over
<1>8. /\ channel' \in [Runs -> ChannelType] /\ closedOrder' \in SUBSET (Runs \X Runs)
      /\ finished' \in SUBSET Runs /\ TotalOrder(closedOrder')
      /\ \A s \in Runs : ChannelOK(s)'
      /\ Cardinality(Retained(closedOrder')) > MaxRetainedRuns => Retained(closedOrder') \subseteq Busy'
      /\ \A s \in Runs : Readers(s) # {} => channel'[s].frames = channel[s].frames
  BY <1>1, <1>3, <1>4, <1>5, <1>6, <1>7, Closing
<1>9. Types'
  BY <1>1, <1>2, <1>5, <1>8, RedisUnchanged DEF Types, MemoryTypes
<1>10. \A c \in Clients : ConnectionOK(c)' /\ CompleteOK(c)'
  <2>1. mailbox' = mailbox
    BY DEF redisBus
  <2> QED
    BY <1>1, <1>2, <1>3, <1>4, <1>5, <2>1, ConnectionFrame, CompleteFrame
<1>11. \A c \in Clients : CursorOK(c)'
  <2> TAKE c \in Clients
  <2>1. client[c].pc = "live" => client[c].run \in Runs /\ Readers(client[c].run) # {}
    BY <1>2, ServedIsRuns, ReadersAre DEF ConnectionOK
  <2> QED
    BY <1>1, <1>2, <1>4, <1>8, <2>1, CursorStays
<1> QED
  BY <1>1, <1>4, <1>8, <1>9, <1>10, <1>11, OverMemory

LEMMA MemoryWithdrawStep ==
  ASSUME IInv, NEW r \in Runs, MemoryWithdraw(r), UNCHANGED redisBus
  PROVE  IInv'
<1>1. /\ driver = "memory" /\ Withdrawing(r) /\ MemoryClose(r)
      /\ run' = Withdrawn(r)
      /\ UNCHANGED <<driver, published, joins, client, trouble, cursor>>
  BY DEF MemoryWithdraw
<1>2. /\ FeedTypes /\ MemoryTypes /\ RedisTypes
      /\ \A s \in Runs : EngineOK(s)
      /\ \A c \in Clients : ConnectionOK(c) /\ CompleteOK(c) /\ CursorOK(c)
  BY <1>1, MemoryFacts
<1>3. Onward
  BY <1>1, <1>2, OnwardSame
<1>4. /\ RunsOnward /\ run' \in [Runs -> RunType] /\ run[r].row # "active" /\ run'[r].row # "active"
      /\ \A s \in Runs : s # r => run'[s] = run[s]
      /\ \A s \in Runs : EngineOK(s)' /\ run'[s].seq = run[s].seq
  BY <1>1, <1>2, <1>3, WithdrawnOnward
<1>5. FeedTypes'
  BY <1>1, <1>2, <1>4 DEF FeedTypes, Drivers
<1>6. (\A s : Readers(s)' = Readers(s)) /\ Busy' = Busy
  BY <1>1, SameReaders
<1>7. Closable(run'[r])
  BY <1>4 DEF Closable
<1>8. /\ channel' \in [Runs -> ChannelType] /\ closedOrder' \in SUBSET (Runs \X Runs)
      /\ finished' \in SUBSET Runs /\ TotalOrder(closedOrder')
      /\ \A s \in Runs : ChannelOK(s)'
      /\ Cardinality(Retained(closedOrder')) > MaxRetainedRuns => Retained(closedOrder') \subseteq Busy'
      /\ \A s \in Runs : Readers(s) # {} => channel'[s].frames = channel[s].frames
  BY <1>1, <1>3, <1>4, <1>5, <1>6, <1>7, Closing
<1>9. Types'
  BY <1>1, <1>2, <1>5, <1>8, RedisUnchanged DEF Types, MemoryTypes
<1>10. \A c \in Clients : ConnectionOK(c)' /\ CompleteOK(c)'
  <2>1. mailbox' = mailbox
    BY DEF redisBus
  <2> QED
    BY <1>1, <1>2, <1>3, <1>4, <1>5, <2>1, ConnectionFrame, CompleteFrame
<1>11. \A c \in Clients : CursorOK(c)'
  <2> TAKE c \in Clients
  <2>1. client[c].pc = "live" => client[c].run \in Runs /\ Readers(client[c].run) # {}
    BY <1>2, ServedIsRuns, ReadersAre DEF ConnectionOK
  <2> QED
    BY <1>1, <1>2, <1>4, <1>8, <2>1, CursorStays
<1> QED
  BY <1>1, <1>4, <1>8, <1>9, <1>10, <1>11, OverMemory

LEMMA MemoryJoinCloseStep ==
  ASSUME IInv, NEW c \in Clients, MemoryJoinClose(c), UNCHANGED redisBus
  PROVE  IInv'
<1>1. /\ driver = "memory" /\ client[c].pc = "close" /\ MemoryClose(client[c].run)
      /\ client' = [client EXCEPT ![c].pc = "subscribe"]
      /\ UNCHANGED <<driver, published, joins, run, trouble, cursor>>
  BY DEF MemoryJoinClose
<1>2. /\ FeedTypes /\ MemoryTypes /\ RedisTypes
      /\ \A s \in Runs : EngineOK(s)
      /\ \A d \in Clients : ConnectionOK(d) /\ CompleteOK(d) /\ CursorOK(d)
  BY <1>1, MemoryFacts
<1>3. Onward /\ RunsOnward
  BY <1>1, <1>2, OnwardSame, RunsSame
<1>4. /\ client' \in [Clients -> ClientType]
      /\ client'[c].pc = "subscribe" /\ client'[c].run = client[c].run
      /\ client'[c].last = client[c].last
      /\ client'[c].fresh = client[c].fresh /\ client'[c].left = client[c].left
      /\ client'[c].end = client[c].end
      /\ \A d \in Clients : d # c => client'[d] = client[d]
  <2>1. "subscribe" \in ClientPcs
    BY DEF ClientPcs
  <2> QED
    BY <1>1, <1>2, <2>1, ClientMoved
<1>5. FeedTypes'
  BY <1>1, <1>2, <1>4 DEF FeedTypes, Drivers
<1>6. (\A s : Readers(s)' = Readers(s)) /\ Busy' = Busy
  BY <1>1, <1>4, SameReaders
<1>7. client[c].run \in Runs /\ Closable(run[client[c].run]) /\ client[c].run \in Served
  BY <1>1, <1>2, ServedIsRuns DEF ConnectionOK
<1>8. /\ channel' \in [Runs -> ChannelType] /\ closedOrder' \in SUBSET (Runs \X Runs)
      /\ finished' \in SUBSET Runs /\ TotalOrder(closedOrder')
      /\ \A s \in Runs : ChannelOK(s)'
      /\ Cardinality(Retained(closedOrder')) > MaxRetainedRuns => Retained(closedOrder') \subseteq Busy'
      /\ \A s \in Runs : Readers(s) # {} => channel'[s].frames = channel[s].frames
  <2>1. PICK r \in Runs : r = client[c].run
    BY <1>7
  <2>2. MemoryClose(r) /\ Closable(run'[r]) /\ (run'[r].row = "active" => run[r].row = "active")
    BY <1>1, <1>7, <2>1
  <2> QED
    BY <1>1, <1>3, <1>5, <1>6, <2>2, Closing
<1>9. Types'
  BY <1>1, <1>2, <1>5, <1>8, RedisUnchanged DEF Types, MemoryTypes
<1>10. \A d \in Clients : ConnectionOK(d)' /\ CompleteOK(d)'
  <2>1. mailbox' = mailbox
    BY DEF redisBus
  <2> TAKE d \in Clients
  <2>2. CASE d # c
    BY <1>2, <1>3, <1>4, <1>5, <2>1, <2>2, ConnectionFrame, CompleteFrame
  <2>3. CASE d = c
    <3>1. client[c].end # "close"
      BY <1>1, <1>2 DEF ConnectionOK
    <3>2. client'[c].run \in Served' /\ client'[c].run \in Runs
      BY <1>1, <1>4, <1>7 DEF Served
    <3>3. client'[c].last <= run'[client'[c].run].top
      BY <1>1, <1>2, <1>4, <1>7 DEF ConnectionOK
    <3>4. client'[c].fresh /\ client'[c].end \notin {"close", "gone", "holed", "behind"}
      BY <1>1, <1>2, <1>4 DEF ConnectionOK
    <3>5. mailbox'[c] = NoMailbox
      BY <1>1, <1>2, <2>1 DEF ConnectionOK
    <3> QED
      BY <1>4, <2>3, <3>1, <3>2, <3>3, <3>4, <3>5 DEF ConnectionOK, CompleteOK
  <2> QED
    BY <2>2, <2>3
<1>11. \A d \in Clients : CursorOK(d)'
  <2> TAKE d \in Clients
  <2>1. client[d].pc = "live" => client[d].run \in Runs /\ Readers(client[d].run) # {}
    BY <1>2, ServedIsRuns, ReadersAre DEF ConnectionOK
  <2>2. CASE d # c
    BY <1>1, <1>2, <1>4, <1>8, <2>1, <2>2, CursorStays
  <2>3. CASE d = c
    BY <1>4, <2>3 DEF CursorOK
  <2> QED
    BY <2>2, <2>3
<1>12. \A s \in Runs : EngineOK(s)'
  BY <1>1, <1>2, <1>3, EngineFrame
<1> QED
  BY <1>1, <1>8, <1>9, <1>10, <1>11, <1>12, OverMemory

LEMMA MemorySubscribeStep ==
  ASSUME IInv, NEW c \in Clients, MemorySubscribe(c), UNCHANGED redisBus
  PROVE  IInv'
<1>1. /\ driver = "memory" /\ client[c].pc = "subscribe"
      /\ UNCHANGED <<driver, published, joins, run, trouble, closedOrder, finished>>
  BY DEF MemorySubscribe
<1>2. /\ FeedTypes /\ MemoryTypes /\ RedisTypes
      /\ \A s \in Runs : EngineOK(s) /\ ChannelOK(s)
      /\ \A d \in Clients : ConnectionOK(d) /\ CompleteOK(d) /\ CursorOK(d)
      /\ TotalOrder(closedOrder)
      /\ Cardinality(Retained(closedOrder)) > MaxRetainedRuns => Retained(closedOrder) \subseteq Busy
  BY <1>1, MemoryFacts
<1>3. Onward /\ RunsOnward /\ mailbox' = mailbox
  BY <1>1, <1>2, OnwardSame, RunsSame DEF redisBus
<1>4. client[c].run \in Runs /\ client[c].run \in Served /\ client[c].end \notin Whys
  BY <1>1, <1>2, ServedIsRuns DEF ConnectionOK, Whys
<1>5. PICK r \in Runs : r = client[c].run
  BY <1>4
<1>6. \A s \in Runs : EngineOK(s)'
  BY <1>1, <1>2, <1>3, EngineFrame
<1>7. client[c].fresh /\ client[c].last <= run[r].top /\ mailbox[c] = NoMailbox
  BY <1>1, <1>2, <1>5 DEF ConnectionOK
<1>8. CASE KnownFinished(r)
  <2>1. client' = Ended(c, "gone") /\ UNCHANGED <<channel, cursor>>
    BY <1>5, <1>8 DEF MemorySubscribe
  <2>2. /\ client' \in [Clients -> ClientType]
        /\ client'[c].run = client[c].run /\ client'[c].last = client[c].last
        /\ client'[c].fresh = client[c].fresh /\ client'[c].left = FALSE
        /\ client'[c].pc = (IF client[c].left THEN "off" ELSE "ending")
        /\ client'[c].end = (IF client[c].left THEN "none" ELSE "gone")
        /\ \A d \in Clients : d # c => client'[d] = client[d]
    <3>1. "gone" \in Whys
      BY DEF Whys
    <3> QED
      BY <1>2, <2>1, <3>1, EndedMoved
  <2>3. Types'
    <3>1. FeedTypes'
      BY <1>1, <1>2, <2>2 DEF FeedTypes, Drivers
    <3> QED
      BY <1>1, <1>2, <2>1, <3>1, RedisUnchanged DEF Types, MemoryTypes
  <2>4. (\A s : Readers(s)' = Readers(s)) /\ Busy' = Busy
    BY <1>1, <2>2, SameReaders
  <2>5. \A s \in Runs : ChannelOK(s)'
    BY <1>1, <1>2, <1>3, <2>1, <2>4, ChannelFrame
  <2>6. \A d \in Clients : ConnectionOK(d)' /\ CompleteOK(d)'
    <3> TAKE d \in Clients
    <3>1. CASE d # c
      BY <1>2, <1>3, <2>2, <2>3, <3>1, ConnectionFrame, CompleteFrame DEF Types
    <3>2. CASE d = c
      <4>1. client'[c].run \in Served' /\ client'[c].run \in Runs
        BY <1>1, <1>4, <2>2 DEF Served
      <4>2. client'[c].last <= run'[client'[c].run].top
        BY <1>1, <1>5, <1>7, <2>2
      <4> QED
        BY <1>3, <1>7, <2>2, <3>2, <4>1, <4>2 DEF ConnectionOK, CompleteOK
    <3> QED
      BY <3>1, <3>2
  <2>7. \A d \in Clients : CursorOK(d)'
    <3> TAKE d \in Clients
    <3>1. CASE d # c
      BY <1>1, <1>2, <2>1, <2>2, <3>1, CursorStays
    <3>2. CASE d = c
      BY <2>2, <3>2 DEF CursorOK
    <3> QED
      BY <3>1, <3>2
  <2> QED
    BY <1>1, <1>2, <1>6, <2>3, <2>4, <2>5, <2>6, <2>7, OverMemory
<1>9. CASE ~KnownFinished(r)
  <2>1. /\ channel' = [channel EXCEPT ![r] = Channel(r)]
        /\ cursor' = [cursor EXCEPT ![c] = [at |-> 0, after |-> client[c].last]]
        /\ client' = [client EXCEPT ![c].pc = "live"]
    BY <1>5, <1>9 DEF MemorySubscribe
  <2>2. /\ client' \in [Clients -> ClientType]
        /\ client'[c].pc = "live" /\ client'[c].run = client[c].run
        /\ client'[c].last = client[c].last
        /\ client'[c].fresh = client[c].fresh /\ client'[c].left = client[c].left
        /\ client'[c].end = client[c].end
        /\ \A d \in Clients : d # c => client'[d] = client[d]
    <3>1. "live" \in ClientPcs
      BY DEF ClientPcs
    <3> QED
      BY <1>2, <2>1, <3>1, ClientMoved
  <2>3. /\ channel' \in [Runs -> ChannelType] /\ channel'[r] = Channel(r)
        /\ channel'[r].frames = channel[r].frames
        /\ channel'[r].state = (IF channel[r].state = "none" THEN "open" ELSE channel[r].state)
        /\ \A s \in Runs : s # r => channel'[s] = channel[s]
    <3>1. /\ Channel(r) \in ChannelType /\ Channel(r).frames = channel[r].frames
          /\ Channel(r).state = (IF channel[r].state = "none" THEN "open" ELSE channel[r].state)
      BY <1>2, ChannelFields DEF Channel, ChannelType
    <3>2. channel \in [Runs -> ChannelType]
      BY <1>2 DEF MemoryTypes
    <3> QED
      BY <2>1, <3>1, <3>2
  <2>4. /\ cursor' \in [Clients -> [at: Int, after: Nat]]
        /\ cursor'[c].at = 0 /\ cursor'[c].after = client[c].last
        /\ \A d \in Clients : d # c => cursor'[d] = cursor[d]
    <3>1. client[c].last \in Nat
      BY <1>2, ClientFields
    <3> QED
      BY <1>2, <2>1, <3>1 DEF MemoryTypes
  <2>5. Types'
    <3>1. FeedTypes'
      BY <1>1, <1>2, <2>2 DEF FeedTypes, Drivers
    <3> QED
      BY <1>1, <1>2, <2>3, <2>4, <3>1, RedisUnchanged DEF Types, MemoryTypes
  <2>6. /\ \A s \in Runs : s # r => Readers(s)' = Readers(s)
        /\ c \in Readers(r)' /\ Busy \subseteq Busy'
    <3>1. \A s \in Runs : s # r => Readers(s)' = Readers(s)
      BY <1>1, <1>5, <2>2, ReadersAre
    <3>2. c \in Readers(r)'
      BY <1>5, <2>2, ReadersAre
    <3>3. Busy \subseteq Busy'
      BY <3>1, <3>2 DEF Busy
    <3> QED
      BY <3>1, <3>2, <3>3
  <2>7. \A s \in Runs : ChannelOK(s)'
    <3> TAKE s \in Runs
    <3>1. CASE s # r
      BY <1>1, <1>2, <1>3, <2>3, <2>6, <3>1, ChannelFrame
    <3>2. CASE s = r
      <4>1. ChannelIs(channel[r], r \in Retained(closedOrder), r \in finished, run[r], Readers(r), trouble = 0)
        BY <1>2 DEF ChannelOK
      <4>2. r \in Retained(closedOrder)' <=> r \in Retained(closedOrder)
        BY <1>1 DEF Retained
      <4>3. Readers(r)' # {} /\ (r \in finished' <=> r \in finished) /\ run'[r] = run[r] /\ trouble' = trouble
        BY <1>1, <2>6
      <4>4. r \in finished => channel[r].state # "none"
        BY <1>9 DEF KnownFinished
      <4>5. channel[r].state = "none" => channel[r].frames = <<>>
        BY <4>1 DEF ChannelIs
      <4> QED
        BY <2>3, <3>2, <4>1, <4>2, <4>3, <4>4, <4>5 DEF ChannelOK, ChannelIs
    <3> QED
      BY <3>1, <3>2
  <2>8. \A d \in Clients : ConnectionOK(d)' /\ CompleteOK(d)'
    <3> TAKE d \in Clients
    <3>1. CASE d # c
      BY <1>2, <1>3, <2>2, <2>5, <3>1, ConnectionFrame, CompleteFrame DEF Types
    <3>2. CASE d = c
      <4>1. client'[c].run \in Served' /\ client'[c].run \in Runs
        BY <1>1, <1>4, <2>2 DEF Served
      <4>2. client'[c].last <= run'[client'[c].run].top
        BY <1>1, <1>5, <1>7, <2>2
      <4>3. client'[c].end \notin {"close", "gone", "holed", "behind"}
        BY <1>4, <2>2 DEF Whys
      <4> QED
        BY <1>3, <1>7, <2>2, <3>2, <4>1, <4>2, <4>3 DEF ConnectionOK, CompleteOK
    <3> QED
      BY <3>1, <3>2
  <2>9. \A d \in Clients : CursorOK(d)'
    <3> TAKE d \in Clients
    <3>1. CASE d # c
      <4>1. client[d].pc = "live" => client[d].run \in Runs
        BY <1>2, ServedIsRuns DEF ConnectionOK
      <4>2. client[d].pc = "live" => /\ channel'[client[d].run].frames = channel[client[d].run].frames
                                    /\ run'[client[d].run].seq = run[client[d].run].seq
        BY <1>1, <2>3, <4>1
      <4> QED
        BY <1>2, <2>2, <2>4, <3>1, <4>2, CursorStays
    <3>2. CASE d = c
      <4>1. Len(channel'[client'[c].run].frames) \in Nat /\ client[c].last \in Nat
        BY <1>2, <1>5, <2>2, <2>3, ChannelFields, ClientFields
      <4>2. client'[c].fresh = TRUE
        BY <1>2, <1>7, <2>2, ClientFields
      <4>3. cursor'[c].at = 0 /\ cursor'[c].after = client'[c].last
        BY <2>2, <2>4
      <4>4. 0 <= Len(channel'[client'[c].run].frames) /\ client'[c].last <= client'[c].last
        BY <2>2, <4>1
      <4> QED
        BY <3>2, <4>2, <4>3, <4>4 DEF CursorOK
    <3> QED
      BY <3>1, <3>2
  <2>10. Cardinality(Retained(closedOrder')) > MaxRetainedRuns => Retained(closedOrder') \subseteq Busy'
    BY <1>1, <1>2, <2>6
  <2> QED
    BY <1>1, <1>2, <1>6, <2>5, <2>7, <2>8, <2>9, <2>10, OverMemory
<1> QED
  BY <1>8, <1>9

(* A client has received all a finished stream can tell it.                    *)
AllSeen(c) == LET r == client[c].run IN
  run[r].attempt = 1 /\ (~client[c].fresh \/ trouble = 0) => client[c].last = run[r].top

(* A reader leaves the memory bus.                                            *)
LEMMA Leaving ==
  ASSUME IInv, driver = "memory", NEW c \in Clients, client[c].pc = "live", NEW next, Leave(c, next),
         UNCHANGED <<driver, published, joins, run>>, trouble' \in 0..MaxTrouble, trouble <= trouble',
         client' \in [Clients -> ClientType], client'[c].pc \in {"off", "ending"},
         client'[c].run = client[c].run, client'[c].last = client[c].last,
         client'[c].fresh = client[c].fresh,
         client'[c].end \in Whys => client'[c].pc = "ending",
         client'[c].end = "close" => Closable(run[client[c].run]) /\ AllSeen(c),
         \A d \in Clients : d # c => client'[d] = client[d], UNCHANGED redisBus
  PROVE  IInv'
<1>1. /\ FeedTypes /\ MemoryTypes /\ RedisTypes
      /\ \A s \in Runs : EngineOK(s)
      /\ \A d \in Clients : ConnectionOK(d) /\ CompleteOK(d) /\ CursorOK(d)
  BY MemoryFacts
<1>2. /\ Teardown(client[c].run, {s \in Runs : Readers(s) \ {c} # {}})
      /\ cursor' = [cursor EXCEPT ![c] = NoCursor]
  BY DEF Leave
<1>3. Onward /\ RunsOnward /\ mailbox' = mailbox
  <2>1. Onward
    BY <1>1, FeedAssumption DEF Onward, FeedTypes
  <2> QED
    BY <1>1, <2>1, RunsSame DEF redisBus
<1>4. client[c].run \in Runs /\ client[c].run \in Served
  BY <1>1, ServedIsRuns DEF ConnectionOK
<1>5. PICK r \in Runs : r = client[c].run
  BY <1>4
<1>6. FeedTypes'
  BY <1>1 DEF FeedTypes, Drivers
<1>7. client'[c].pc # "live"
  OBVIOUS
<1>8. /\ channel' \in [Runs -> ChannelType] /\ closedOrder' \in SUBSET (Runs \X Runs)
      /\ finished' \in SUBSET Runs /\ TotalOrder(closedOrder')
      /\ \A s \in Runs : ChannelOK(s)'
      /\ Cardinality(Retained(closedOrder')) > MaxRetainedRuns => Retained(closedOrder') \subseteq Busy'
      /\ \A s \in Runs : Readers(s)' # {} => channel'[s].frames = channel[s].frames
  <2>1. client[c].run = r /\ Teardown(r, {s \in Runs : Readers(s) \ {c} # {}})
    BY <1>2, <1>5
  <2> QED
    BY <1>3, <1>6, <1>7, <2>1, Tearing
<1>9. /\ cursor' \in [Clients -> [at: Int, after: Nat]]
      /\ \A d \in Clients : d # c => cursor'[d] = cursor[d]
  <2>1. NoCursor \in [at: Int, after: Nat]
    BY DEF NoCursor
  <2> QED
    BY <1>1, <1>2, <2>1 DEF MemoryTypes
<1>10. Types'
  BY <1>1, <1>6, <1>8, <1>9, RedisUnchanged DEF Types, MemoryTypes
<1>11. \A s \in Runs : EngineOK(s)'
  BY <1>1, <1>3, EngineFrame
<1>12. \A d \in Clients : ConnectionOK(d)' /\ CompleteOK(d)'
  <2> TAKE d \in Clients
  <2>1. CASE d # c
    BY <1>1, <1>3, <1>6, <2>1, ConnectionFrame, CompleteFrame
  <2>2. CASE d = c
    <3>1. client'[c].run \in Served' /\ client'[c].run \in Runs
      BY <1>4 DEF Served
    <3>2. client[c].last <= run[r].top /\ mailbox[c] = NoMailbox
      BY <1>1, <1>5 DEF ConnectionOK
    <3>3. client'[c].end = "close" => Closable(run'[client'[c].run])
      BY <1>5
    <3>4. trouble' = 0 => trouble = 0
      BY <1>1 DEF FeedTypes
    <3>5. ConnectionOK(c)'
      <4>1. IF client'[c].run \in Runs THEN client'[c].last <= run'[client'[c].run].top ELSE client'[c].last = 0
        BY <1>5, <3>2
      <4>2. client'[c].pc \notin {"close", "subscribe", "replay", "paging", "sweeping"}
        OBVIOUS
      <4>3. mailbox'[c] = NoMailbox
        BY <1>3, <3>2
      <4> QED
        BY <3>1, <3>3, <4>1, <4>2, <4>3 DEF ConnectionOK, Whys
    <3>6. CompleteOK(c)'
      BY <3>4 DEF CompleteOK, AllSeen
    <3> QED
      BY <2>2, <3>5, <3>6
  <2> QED
    BY <2>1, <2>2
<1>13. \A d \in Clients : CursorOK(d)'
  <2> TAKE d \in Clients
  <2>1. CASE d # c
    <3>1. client[d].pc = "live" => client[d].run \in Runs
      BY <1>1, ServedIsRuns DEF ConnectionOK
    <3>2. client[d].pc = "live" => channel'[client[d].run].frames = channel[client[d].run].frames
      <4> SUFFICES ASSUME client[d].pc = "live"
                   PROVE  channel'[client[d].run].frames = channel[client[d].run].frames
        OBVIOUS
      <4>1. PICK s \in Runs : s = client[d].run
        BY <3>1
      <4>2. d \in Readers(s)'
        <5>1. client'[d].pc = "live" /\ client'[d].run = s
          BY <2>1, <4>1
        <5> QED
          BY <5>1, ReadersAre
      <4> QED
        BY <1>8, <4>1, <4>2
    <3> QED
      BY <1>1, <1>9, <2>1, <3>2, CursorStays
  <2>2. CASE d = c
    BY <1>7, <2>2 DEF CursorOK
  <2> QED
    BY <2>1, <2>2
<1> QED
  BY <1>8, <1>10, <1>11, <1>12, <1>13, OverMemory

LEMMA FrameAt ==
  ASSUME FeedTypes, MemoryTypes, NEW r \in Runs, ChannelOK(r), EngineOK(r), NEW i \in Int, 0 <= i,
         i < Len(channel[r].frames)
  PROVE  /\ channel[r].frames[i + 1] \in Nat
         /\ channel[r].frames[i + 1] = run[r].seq - Len(channel[r].frames) + (i + 1)
         /\ channel[r].frames[i + 1] <= run[r].top
<1>1. /\ channel[r].frames \in Seq(Nat) /\ Len(channel[r].frames) \in Nat
      /\ run[r].seq \in Nat /\ run[r].top \in Nat /\ run[r].seq <= run[r].top
  BY ChannelFields, RunFields DEF EngineOK
<1>2. Counting(channel[r].frames, run[r].seq)
  BY DEF ChannelOK, ChannelIs
<1>3. i + 1 \in 1..Len(channel[r].frames)
  BY <1>1
<1>4. channel[r].frames[i + 1] = run[r].seq - Len(channel[r].frames) + (i + 1)
  BY <1>2, <1>3 DEF Counting
<1>5. channel[r].frames[i + 1] \in Nat
  BY <1>1, <1>3, Sequence
<1>6. run[r].seq - Len(channel[r].frames) + (i + 1) <= run[r].top
  <2> DEFINE l == Len(channel[r].frames)
  <2>1. /\ l \in Nat /\ run[r].seq \in Nat /\ run[r].top \in Nat /\ run[r].seq <= run[r].top
        /\ i + 1 <= l
    BY <1>1, <1>3
  <2> HIDE DEF l
  <2>2. run[r].seq - l + (i + 1) <= run[r].top
    BY <2>1
  <2> QED
    BY <2>2 DEF l
<1> QED
  BY <1>4, <1>5, <1>6

LEMMA MemoryReadStep ==
  ASSUME IInv, NEW c \in Clients, MemoryRead(c), UNCHANGED redisBus
  PROVE  IInv'
<1>1. /\ driver = "memory" /\ client[c].pc = "live"
      /\ UNCHANGED <<driver, published, joins, run, trouble>>
  BY DEF MemoryRead
<1>2. /\ FeedTypes /\ MemoryTypes /\ RedisTypes
      /\ \A s \in Runs : EngineOK(s) /\ ChannelOK(s)
      /\ \A d \in Clients : ConnectionOK(d) /\ CompleteOK(d) /\ CursorOK(d)
      /\ TotalOrder(closedOrder)
      /\ Cardinality(Retained(closedOrder)) > MaxRetainedRuns => Retained(closedOrder) \subseteq Busy
  BY <1>1, MemoryFacts
<1>3. client[c].run \in Runs /\ client[c].run \in Served /\ client[c].end \notin Whys
  BY <1>1, <1>2, ServedIsRuns DEF ConnectionOK, Whys
<1>4. PICK r \in Runs : r = client[c].run
  BY <1>3
<1> DEFINE l == Len(channel[r].frames)
           at == cursor[c].at
           n == channel[r].frames[at + 1]
<1>5. /\ at \in Int /\ cursor[c].after \in Nat /\ l \in Nat /\ run[r].seq \in Nat /\ run[r].top \in Nat
      /\ client[c].last \in Nat /\ client[c].fresh \in BOOLEAN /\ client[c].left \in BOOLEAN
  BY <1>2, CursorFields, ChannelFields, RunFields, ClientFields
<1>6. trouble' \in 0..MaxTrouble /\ trouble <= trouble'
  BY <1>1, <1>2, FeedAssumption DEF FeedTypes
<1>7. /\ at <= l /\ cursor[c].after <= client[c].last
      /\ client[c].fresh => /\ cursor[c].after = client[c].last
                            /\ at > 0 => Position(c) <= client[c].last
      /\ ~client[c].fresh => Position(c) = client[c].last
  BY <1>1, <1>2, <1>4 DEF CursorOK
<1>8. Position(c) = run[r].seq - l + at
  BY <1>4 DEF Position
<1>9. client[c].last <= run[r].top /\ run[r].seq <= run[r].top /\ mailbox[c] = NoMailbox
  BY <1>1, <1>2, <1>4 DEF ConnectionOK, EngineOK
<1>10. CASE at < 0 /\ Leave(c, Ended(c, "behind"))
  <2>1. client' = Ended(c, "behind") /\ "behind" \in Whys
    BY <1>10 DEF Leave, Whys
  <2> QED
    BY <1>1, <1>2, <1>6, <1>10, <2>1, EndedMoved, Leaving DEF Whys
<1>11. CASE at >= 0 /\ at < l /\ n > cursor[c].after /\ client[c].left /\ Leave(c, Dropped({c}))
  <2>1. client' = Dropped({c})
    BY <1>11 DEF Leave
  <2> QED
    BY <1>1, <1>2, <1>6, <1>11, <2>1, DroppedOne, Leaving DEF Whys
<1>12. CASE /\ at >= 0 /\ at < l /\ ~(n > cursor[c].after /\ client[c].left)
            /\ cursor' = [cursor EXCEPT ![c].at = at + 1]
            /\ client' = IF n > cursor[c].after THEN Got(c, n) ELSE client
            /\ UNCHANGED <<channel, closedOrder, finished>>
  <2>1. n \in Nat /\ n = run[r].seq - l + (at + 1) /\ n <= run[r].top
    BY <1>2, <1>5, <1>12, FrameAt
  <2>2. /\ cursor' \in [Clients -> [at: Int, after: Nat]]
        /\ cursor'[c].at = at + 1 /\ cursor'[c].after = cursor[c].after
        /\ \A d \in Clients : d # c => cursor'[d] = cursor[d]
    <3> DEFINE v == [cursor[c] EXCEPT !.at = at + 1]
    <3>1. cursor[c] \in [at: Int, after: Nat] /\ at + 1 \in Int
      BY <1>2, <1>5, CursorFields
    <3>2. v \in [at: Int, after: Nat] /\ v.at = at + 1 /\ v.after = cursor[c].after
      BY <3>1
    <3>3. cursor \in [Clients -> [at: Int, after: Nat]] /\ cursor' = [cursor EXCEPT ![c] = v]
      BY <1>2, <1>12 DEF MemoryTypes
    <3> HIDE DEF v
    <3> QED
      BY <3>2, <3>3
  <2> HIDE DEF n, at, l
  <2>3. /\ client' \in [Clients -> ClientType]
        /\ client'[c].pc = "live" /\ client'[c].run = client[c].run /\ client'[c].left = client[c].left
        /\ client'[c].end = client[c].end
        /\ client'[c].last = IF n > cursor[c].after THEN n ELSE client[c].last
        /\ client'[c].fresh = IF n > cursor[c].after THEN FALSE ELSE client[c].fresh
        /\ \A d \in Clients : d # c => client'[d] = client[d]
    <3>1. CASE n > cursor[c].after
      <4>1. client' = Got(c, n)
        BY <1>12, <3>1
      <4> QED
        BY <1>1, <1>2, <2>1, <3>1, <4>1, GotMoved
    <3>2. CASE ~(n > cursor[c].after)
      <4>1. client' = client
        BY <1>12, <3>2
      <4> QED
        BY <1>1, <1>2, <3>2, <4>1 DEF FeedTypes
    <3> QED
      BY <3>1, <3>2
  <2>4. Onward /\ RunsOnward /\ mailbox' = mailbox
    BY <1>1, <1>2, OnwardSame, RunsSame DEF redisBus
  <2>5. Types'
    <3>1. FeedTypes'
      BY <1>1, <1>2, <2>3 DEF FeedTypes, Drivers
    <3> QED
      BY <1>1, <1>2, <1>12, <2>2, <3>1, RedisUnchanged DEF Types, MemoryTypes
  <2>6. (\A s : Readers(s)' = Readers(s)) /\ Busy' = Busy
    BY <1>1, <2>3, SameReaders
  <2>7. \A s \in Runs : ChannelOK(s)'
    BY <1>1, <1>2, <1>12, <2>4, <2>6, ChannelFrame
  <2>8. \A s \in Runs : EngineOK(s)'
    BY <1>1, <1>2, <2>4, EngineFrame
  <2>9. \A d \in Clients : ConnectionOK(d)' /\ CompleteOK(d)'
    <3> TAKE d \in Clients
    <3>1. CASE d # c
      BY <1>2, <2>3, <2>4, <2>5, <3>1, ConnectionFrame, CompleteFrame DEF Types
    <3>2. CASE d = c
      <4>1. client'[c].run \in Served' /\ client'[c].run \in Runs
        BY <1>1, <1>3, <2>3 DEF Served
      <4>2. client'[c].last <= run'[client'[c].run].top
        BY <1>1, <1>4, <1>9, <2>1, <2>3
      <4>3. client'[c].end \notin {"close", "gone", "holed", "behind"}
        BY <1>3, <2>3 DEF Whys
      <4>4. mailbox'[c] = NoMailbox
        BY <1>9, <2>4
      <4> QED
        BY <2>3, <3>2, <4>1, <4>2, <4>3, <4>4 DEF ConnectionOK, CompleteOK
    <3> QED
      BY <3>1, <3>2
  <2>10. \A d \in Clients : CursorOK(d)'
    <3> TAKE d \in Clients
    <3>1. CASE d # c
      BY <1>1, <1>2, <1>12, <2>2, <2>3, <3>1, CursorStays
    <3>2. CASE d = c
      <4>1. Position(c)' = n
        <5>1. Position(c)' = run[r].seq - l + (at + 1)
          BY <1>1, <1>4, <1>12, <2>2, <2>3 DEF Position, l
        <5> QED
          BY <2>1, <5>1
      <4>2. Len(channel'[client'[c].run].frames) = l
        BY <1>4, <1>12, <2>3 DEF l
      <4>3. cursor'[c].at <= l
        BY <1>5, <1>12, <2>2
      <4>4. CASE n > cursor[c].after
        <5>1. client'[c].last = n /\ client'[c].fresh = FALSE /\ cursor'[c].after <= n
          BY <1>5, <2>1, <2>2, <2>3, <4>4
        <5> QED
          BY <3>2, <4>1, <4>2, <4>3, <5>1 DEF CursorOK
      <4>5. CASE ~(n > cursor[c].after)
        <5>1. client'[c].last = client[c].last /\ client'[c].fresh = client[c].fresh
          BY <2>3, <4>5
        <5>2. client[c].fresh = TRUE
          <6>1. SUFFICES ASSUME ~client[c].fresh PROVE FALSE
            BY <1>5
          <6>2. Position(c) = client[c].last
            BY <1>7, <6>1
          <6>3. n = client[c].last + 1
            BY <1>5, <1>8, <2>1, <6>2
          <6> QED
            BY <1>5, <1>7, <4>5, <6>3
        <5>3. n <= client[c].last /\ cursor'[c].after = client[c].last
          BY <1>5, <1>7, <2>1, <2>2, <4>5, <5>2
        <5>4. client'[c].fresh = TRUE /\ client[c].last <= client[c].last
          BY <1>5, <5>1, <5>2
        <5> QED
          BY <3>2, <4>1, <4>2, <4>3, <5>1, <5>3, <5>4 DEF CursorOK
      <4> QED
        BY <4>4, <4>5
    <3> QED
      BY <3>1, <3>2
  <2>11. Cardinality(Retained(closedOrder')) > MaxRetainedRuns => Retained(closedOrder') \subseteq Busy'
    BY <1>2, <1>12, <2>6
  <2> QED
    BY <1>1, <1>2, <1>12, <2>5, <2>7, <2>8, <2>9, <2>10, <2>11, OverMemory
<1>13. CASE at = l /\ channel[r].state = "closed" /\ Leave(c, Ended(c, "close"))
  <2>1. client' = Ended(c, "close") /\ "close" \in Whys
    BY <1>13 DEF Leave, Whys
  <2>2. Closable(run[r]) /\ (trouble = 0 /\ run[r].seq > 0 => channel[r].frames # <<>>)
    BY <1>2, <1>13 DEF ChannelOK, ChannelIs, EngineOK
  <2>3. l = 0 <=> channel[r].frames = <<>>
    BY <1>2, ChannelFields
  <2>4. run[r].attempt = 1 => run[r].seq = run[r].top
    BY <1>2 DEF EngineOK
  <2> HIDE DEF l
  <2>5. Position(c) = run[r].seq
    BY <1>5, <1>8, <1>13
  <2>6. ASSUME run[r].attempt = 1, ~client[c].fresh \/ trouble = 0 PROVE client[c].last = run[r].top
    <3>1. CASE ~client[c].fresh
      BY <1>7, <2>4, <2>5, <2>6, <3>1
    <3>2. CASE client[c].fresh /\ run[r].seq > 0
      <4>1. at > 0
        BY <1>5, <1>13, <2>2, <2>3, <2>6, <3>2
      <4>2. run[r].seq <= client[c].last
        BY <1>7, <2>5, <3>2, <4>1
      <4> QED
        BY <1>5, <1>9, <2>4, <2>6, <4>2
    <3>3. CASE client[c].fresh /\ ~(run[r].seq > 0)
      BY <1>5, <1>9, <2>4, <2>6, <3>3
    <3> QED
      BY <3>1, <3>2, <3>3
  <2>7. AllSeen(c) /\ Closable(run[client[c].run])
    BY <1>4, <2>2, <2>6 DEF AllSeen
  <2> QED
    BY <1>1, <1>2, <1>6, <1>13, <2>1, <2>7, EndedMoved, Leaving DEF Whys
<1>14. \/ at < 0 /\ Leave(c, Ended(c, "behind"))
       \/ at >= 0 /\ at < l /\ n > cursor[c].after /\ client[c].left /\ Leave(c, Dropped({c}))
       \/ /\ at >= 0 /\ at < l /\ ~(n > cursor[c].after /\ client[c].left)
          /\ cursor' = [cursor EXCEPT ![c].at = at + 1]
          /\ client' = IF n > cursor[c].after THEN Got(c, n) ELSE client
          /\ UNCHANGED <<channel, closedOrder, finished>>
       \/ at = l /\ channel[r].state = "closed" /\ Leave(c, Ended(c, "close"))
  BY <1>4 DEF MemoryRead
<1> QED
  BY <1>10, <1>11, <1>12, <1>13, <1>14

LEMMA MemoryReturnStep ==
  ASSUME IInv, NEW c \in Clients, MemoryReturn(c), UNCHANGED redisBus
  PROVE  IInv'
<1>1. /\ driver = "memory" /\ client[c].pc = "live" /\ Leave(c, Dropped({c})) /\ Trouble
      /\ UNCHANGED <<driver, published, joins, run>>
  BY DEF MemoryReturn
<1>2. FeedTypes
  BY <1>1, MemoryFacts
<1>3. trouble' \in 0..MaxTrouble /\ trouble <= trouble'
  BY <1>1, <1>2, FeedAssumption DEF FeedTypes, Trouble
<1>4. client' = Dropped({c})
  BY <1>1 DEF Leave
<1> QED
  BY <1>1, <1>2, <1>3, <1>4, DroppedOne, Leaving DEF Whys

LEMMA Troubled ==
  ASSUME FeedTypes, Trouble, driver' = driver, published' = published
  PROVE  Onward /\ trouble' \in 0..MaxTrouble /\ trouble' # 0 /\ trouble' = trouble + 1 /\ trouble \in Nat
  BY FeedAssumption DEF Onward, FeedTypes, Trouble

LEMMA MemoryForgetStep ==
  ASSUME IInv, NEW r \in Runs, MemoryForget(r), UNCHANGED redisBus
  PROVE  IInv'
<1>1. /\ driver = "memory" /\ r \in finished /\ Trouble /\ finished' = finished \ {r}
      /\ UNCHANGED <<driver, published, joins, run, client, channel, closedOrder, cursor>>
  BY DEF MemoryForget
<1>2. /\ FeedTypes /\ MemoryTypes /\ RedisTypes
      /\ \A s \in Runs : EngineOK(s) /\ ChannelOK(s)
      /\ \A c \in Clients : ConnectionOK(c) /\ CompleteOK(c) /\ CursorOK(c)
      /\ TotalOrder(closedOrder)
      /\ Cardinality(Retained(closedOrder)) > MaxRetainedRuns => Retained(closedOrder) \subseteq Busy
  BY <1>1, MemoryFacts
<1>3. Onward /\ trouble' \in 0..MaxTrouble /\ trouble' # 0
  BY <1>1, <1>2, Troubled
<1>4. RunsOnward /\ mailbox' = mailbox
  BY <1>1, <1>2, RunsSame DEF redisBus
<1>5. Types'
  <2>1. FeedTypes'
    BY <1>1, <1>2, <1>3 DEF FeedTypes, Drivers
  <2> QED
    BY <1>1, <1>2, <2>1, RedisUnchanged DEF Types, MemoryTypes
<1>6. (\A s : Readers(s)' = Readers(s)) /\ Busy' = Busy
  BY <1>1, SameReaders
<1>7. \A s \in Runs : ChannelOK(s)'
  <2> TAKE s \in Runs
  <2>1. CASE s # r
    <3>1. s \in finished' <=> s \in finished
      BY <1>1, <2>1
    <3> QED
      BY <1>1, <1>2, <1>3, <1>6, <2>1, <3>1, ChannelFrame
  <2>2. CASE s = r
    <3>1. ChannelIs(channel[r], r \in Retained(closedOrder), r \in finished, run[r], Readers(r), trouble = 0)
      BY <1>2 DEF ChannelOK
    <3>2. r \in Retained(closedOrder)' <=> r \in Retained(closedOrder)
      BY <1>1 DEF Retained
    <3>3. Readers(r)' = Readers(r) /\ r \notin finished' /\ run'[r] = run[r] /\ channel'[r] = channel[r]
      BY <1>1, <1>6
    <3> QED
      BY <1>3, <2>2, <3>1, <3>2, <3>3 DEF ChannelOK, ChannelIs
  <2> QED
    BY <2>1, <2>2
<1>8. \A s \in Runs : EngineOK(s)'
  BY <1>1, <1>2, <1>3, EngineFrame
<1>9. \A c \in Clients : ConnectionOK(c)' /\ CompleteOK(c)'
  BY <1>1, <1>2, <1>3, <1>4, <1>5, ConnectionFrame, CompleteFrame DEF Types
<1>10. \A c \in Clients : CursorOK(c)'
  BY <1>1, <1>2, CursorStays
<1> QED
  BY <1>1, <1>2, <1>5, <1>6, <1>7, <1>8, <1>9, <1>10, OverMemory

LEMMA EmptyOrder ==
  TotalOrder({}) /\ Retained({}) = {} /\ Cardinality(Retained({})) = 0
<1>1. Retained({}) = {}
  BY DEF Retained
<1>2. IsFiniteSet({}) /\ Cardinality({}) = 0
  BY FS_EmptySet
<1> QED
  BY <1>1, <1>2 DEF TotalOrder

(* What becomes of a run whose process died.                                   *)
LEMMA Recovering ==
  ASSUME FeedTypes, NEW r \in Runs
  PROVE  /\ Recovered(r) \in RunType /\ Recovered(r).top = run[r].top /\ Recovered(r).row = run[r].row
         /\ Over(run[r]) => /\ Over(Recovered(r))
                           /\ Recovered(r).seq = run[r].seq /\ Recovered(r).attempt = run[r].attempt
         /\ ~Over(run[r]) => /\ Recovered(r).pc \in {"running", "settled"} /\ Recovered(r).seq = 0
                             /\ Recovered(r).attempt = run[r].attempt + 1
         /\ Recovered(r).pc \notin {"sending", "appended"}
<1>1. /\ run[r] \in RunType /\ run[r].pc \in RunPcs /\ run[r].attempt + 1 \in Nat \ {0}
  BY RunFields
<1>2. CASE run[r].pc \in {"running", "sending"}
  <2> DEFINE n == run[r].attempt + 1
             pc == IF Terminal(r) THEN "settled" ELSE "running"
  <2>1. Recovered(r) = [run[r] EXCEPT !.pc = pc, !.seq = 0, !.attempt = n]
    BY <1>1, <1>2 DEF Recovered, Executing, RunType
  <2>2. ~Over(run[r])
    BY <1>2 DEF Over
  <2>3. n \in Nat \ {0} /\ 0 \in Nat /\ pc \in {"running", "settled"}
    BY <1>1
  <2> HIDE DEF n, pc
  <2>4. /\ Recovered(r) \in RunType /\ Recovered(r).top = run[r].top /\ Recovered(r).pc = pc
        /\ Recovered(r).seq = 0 /\ Recovered(r).attempt = n /\ Recovered(r).row = run[r].row
    BY <1>1, <2>1, <2>3 DEF RunType
  <2> QED
    BY <2>2, <2>3, <2>4 DEF n
<1>3. CASE run[r].pc \in {"settled", "appended"}
  <2>1. Recovered(r) = [run[r] EXCEPT !.pc = "stranded"]
    BY <1>1, <1>3 DEF Recovered, Executing
  <2> QED
    BY <1>1, <1>3, <2>1 DEF RunType, Over
<1>4. CASE run[r].pc \notin {"running", "sending", "settled", "appended"}
  <2>1. Recovered(r) = run[r]
    BY <1>4 DEF Recovered, Executing
  <2> QED
    BY <1>1, <1>4, <2>1 DEF RunType, RunPcs, Over
<1> QED
  BY <1>2, <1>3, <1>4

LEMMA RecoveredEngine ==
  ASSUME FeedTypes, NEW r \in Runs, EngineOK(r), run'[r] = Recovered(r), driver' = driver, Trouble,
         published' = published
  PROVE  EngineOK(r)'
<1>1. /\ Recovered(r) \in RunType /\ Recovered(r).top = run[r].top
      /\ Over(run[r]) => /\ Over(Recovered(r))
                        /\ Recovered(r).seq = run[r].seq /\ Recovered(r).attempt = run[r].attempt
      /\ ~Over(run[r]) => /\ Recovered(r).seq = 0
                          /\ Recovered(r).attempt = run[r].attempt + 1
      /\ Recovered(r).pc \notin {"sending", "appended"}
  BY Recovering
<1>2. run[r].seq \in Nat /\ run[r].top \in Nat /\ run[r].attempt \in Nat \ {0}
  BY RunFields
<1>3. trouble' = trouble + 1 /\ trouble \in Nat
  BY FeedAssumption DEF Trouble, FeedTypes
<1>4. CASE Over(run[r])
  BY <1>1, <1>2, <1>3, <1>4 DEF EngineOK
<1>5. CASE ~Over(run[r])
  BY <1>1, <1>2, <1>3, <1>5 DEF EngineOK
<1> QED
  BY <1>4, <1>5

LEMMA MemoryCrashStep ==
  ASSUME IInv, MemoryCrash, UNCHANGED redisBus
  PROVE  IInv'
<1>1. /\ driver = "memory" /\ Trouble /\ run' = [r \in Runs |-> Recovered(r)]
      /\ client' = Dropped({c \in Clients : client[c].pc # "off"})
      /\ channel' = [r \in Runs |-> NoChannel] /\ closedOrder' = {} /\ finished' = {}
      /\ cursor' = [c \in Clients |-> NoCursor]
      /\ UNCHANGED <<driver, published, joins>>
  BY DEF MemoryCrash
<1>2. /\ FeedTypes /\ MemoryTypes /\ RedisTypes
      /\ \A s \in Runs : EngineOK(s)
      /\ \A c \in Clients : ConnectionOK(c)
  BY <1>1, MemoryFacts
<1>3. Onward /\ trouble' \in 0..MaxTrouble /\ trouble' # 0
  BY <1>1, <1>2, Troubled
<1>4. \A r \in Runs : run'[r] = Recovered(r) /\ Recovered(r) \in RunType /\ run'[r].top = run[r].top
  BY <1>1, <1>2, Recovering
<1>5. /\ client' \in [Clients -> ClientType]
      /\ \A c \in Clients : /\ client'[c].pc = "off" /\ client'[c].end \notin Whys
                             /\ client'[c].run = client[c].run /\ client'[c].last = client[c].last
  <2> DEFINE S == {c \in Clients : client[c].pc # "off"}
  <2>1. /\ client' \in [Clients -> ClientType]
        /\ \A d \in Clients : d \notin S => client'[d] = client[d]
        /\ \A d \in S \cap Clients :
             /\ client'[d].pc = "off" /\ client'[d].left = FALSE /\ client'[d].end = "none"
             /\ client'[d].run = client[d].run /\ client'[d].last = client[d].last
             /\ client'[d].fresh = client[d].fresh
    <3> HIDE DEF S
    <3>1. client' = Dropped(S)
      BY <1>1 DEF S
    <3> QED
      BY <1>2, <3>1, DroppedMoved
  <2>2. ASSUME NEW c \in Clients
        PROVE  /\ client'[c].pc = "off" /\ client'[c].end \notin Whys
               /\ client'[c].run = client[c].run /\ client'[c].last = client[c].last
    <3>1. CASE c \in S
      <4> HIDE DEF S
      <4> QED
        BY <2>1, <3>1 DEF Whys
    <3>2. CASE c \notin S
      <4>1. client[c].pc = "off"
        BY <3>2
      <4>2. client[c].end \notin Whys
        BY <1>2, <4>1 DEF ConnectionOK, Whys
      <4> HIDE DEF S
      <4> QED
        BY <2>1, <3>2, <4>1, <4>2
    <3> QED
      BY <3>1, <3>2
  <2> QED
    BY <2>1, <2>2
<1>6. Types'
  <2>1. run' \in [Runs -> RunType]
    BY <1>1, <1>4
  <2>2. FeedTypes'
    BY <1>1, <1>2, <1>3, <1>5, <2>1 DEF FeedTypes, Drivers
  <2>3. NoChannel \in ChannelType /\ NoCursor \in [at: Int, after: Nat]
    BY DEF NoChannel, ChannelType, NoCursor
  <2>4. MemoryTypes'
    BY <1>1, <2>3 DEF MemoryTypes
  <2> QED
    BY <1>2, <2>2, <2>4, RedisUnchanged DEF Types
<1>7. TotalOrder(closedOrder') /\ Retained(closedOrder') = {}
      /\ Cardinality(Retained(closedOrder')) = 0
  BY <1>1, EmptyOrder
<1>8. \A s \in Runs : EngineOK(s)'
  BY <1>1, <1>2, <1>4, RecoveredEngine
<1>9. \A r \in Runs : ChannelOK(r)'
  <2> TAKE r \in Runs
  <2>1. channel'[r] = NoChannel /\ r \notin Retained(closedOrder') /\ r \notin finished'
    BY <1>1, <1>7
  <2>2. Readers(r)' = {}
    BY <1>5, ReadersAre
  <2>3. FeedTypes'
    BY <1>6 DEF Types
  <2> QED
    BY <1>3, <2>1, <2>2, <2>3, GoneChannel
<1>10. \A c \in Clients : ConnectionOK(c)' /\ CompleteOK(c)'
  <2> TAKE c \in Clients
  <2>1. client'[c].end \notin {"close", "gone", "holed", "behind"} /\ client'[c].pc = "off"
    BY <1>5 DEF Whys
  <2>2. mailbox'[c] = NoMailbox
    BY <1>1, <1>2 DEF ConnectionOK, redisBus
  <2>3. IF client'[c].run \in Runs THEN client'[c].last <= run'[client'[c].run].top ELSE client'[c].last = 0
    <3>1. IF client[c].run \in Runs THEN client[c].last <= run[client[c].run].top ELSE client[c].last = 0
      BY <1>2 DEF ConnectionOK
    <3> QED
      BY <1>4, <1>5, <3>1
  <2> QED
    BY <2>1, <2>2, <2>3 DEF ConnectionOK, CompleteOK
<1>11. \A c \in Clients : CursorOK(c)'
  BY <1>5 DEF CursorOK
<1>12. ~(Cardinality(Retained(closedOrder')) > MaxRetainedRuns)
  BY <1>7, MemoryAssumption
<1> QED
  BY <1>1, <1>6, <1>7, <1>8, <1>9, <1>10, <1>11, <1>12, OverMemory

-----------------------------------------------------------------------------
(* What goes on from what: a number appended, and the first one taken.         *)
LEMMA HasAppended ==
  ASSUME NEW s \in Seq(Nat), NEW x \in Nat, NEW m \in Nat
  PROVE  /\ Has(s, m) => Has(Append(s, x), m)
         /\ m <= x => Has(Append(s, x), m)
         /\ Bare(s) /\ x = CLOSE => Bare(Append(s, x))
<1>1. /\ Len(s) \in Nat /\ Len(Append(s, x)) = Len(s) + 1
      /\ \A i \in 1..Len(s) : Append(s, x)[i] = s[i]
      /\ Append(s, x)[Len(s) + 1] = x
  BY Appended, Sequence
<1>2. Has(s, m) => Has(Append(s, x), m)
  BY <1>1 DEF Has
<1>3. m <= x => Has(Append(s, x), m)
  BY <1>1 DEF Has
<1>4. Bare(s) /\ x = CLOSE => Bare(Append(s, x))
  <2> SUFFICES ASSUME Bare(s), x = CLOSE, NEW i \in 1..Len(Append(s, x))
               PROVE  Append(s, x)[i] = CLOSE
    BY DEF Bare
  <2>1. i \in 1..Len(s) \/ i = Len(s) + 1
    BY <1>1
  <2> QED
    BY <1>1, <2>1 DEF Bare
<1> QED
  BY <1>2, <1>3, <1>4

LEMMA FollowsAppended ==
  ASSUME NEW s \in Seq(Nat), NEW p \in Seq(Nat), NEW n \in Nat, NEW x \in Nat, NEW free,
         Follows(s, free, n, p),
         \/ s = <<>> /\ free
         \/ x <= n + 1
         \/ \E i \in 1..Len(p) : Leads(p[i], x)
         \/ \E i \in 1..Len(s) : Leads(s[i], x)
  PROVE  Follows(Append(s, x), free, n, p)
<1> DEFINE a == Append(s, x)
<1>1. /\ Len(s) \in Nat /\ Len(a) = Len(s) + 1 /\ (s = <<>> <=> Len(s) = 0)
      /\ \A i \in 1..Len(s) : a[i] = s[i]
      /\ a[Len(s) + 1] = x
  BY Appended, Sequence
<1> HIDE DEF a
<1>2. SUFFICES ASSUME NEW j \in 1..Len(a)
               PROVE  \/ j = 1 /\ free
                      \/ a[j] <= n + 1
                      \/ \E i \in 1..Len(p) : Leads(p[i], a[j])
                      \/ \E i \in 1..j - 1 : Leads(a[i], a[j])
  BY DEF Follows, a
<1>3. CASE j = Len(s) + 1
  <2>1. CASE s = <<>> /\ free
    BY <1>1, <1>3, <2>1
  <2>2. CASE x <= n + 1
    BY <1>1, <1>3, <2>2
  <2>3. CASE \E i \in 1..Len(p) : Leads(p[i], x)
    BY <1>1, <1>3, <2>3
  <2>4. CASE \E i \in 1..Len(s) : Leads(s[i], x)
    BY <1>1, <1>3, <2>4
  <2> QED
    BY <2>1, <2>2, <2>3, <2>4
<1>4. CASE j \in 1..Len(s)
  <2>1. \/ j = 1 /\ free
        \/ s[j] <= n + 1
        \/ \E i \in 1..Len(p) : Leads(p[i], s[j])
        \/ \E i \in 1..j - 1 : Leads(s[i], s[j])
    BY <1>4 DEF Follows
  <2>2. \A i \in 1..j - 1 : a[i] = s[i]
    BY <1>1, <1>4
  <2> QED
    BY <1>1, <1>4, <2>1, <2>2
<1> QED
  BY <1>1, <1>3, <1>4

LEMMA CompleteAppended ==
  ASSUME NEW s \in Seq(Nat), NEW p \in Seq(Nat), NEW n \in Nat, NEW x \in Nat, NEW t \in Nat,
         NEW bare, Complete(s, bare, n, p, t), x = CLOSE => Reached(t, n, p, s, bare)
  PROVE  Complete(Append(s, x), bare, n, p, t)
<1> DEFINE a == Append(s, x)
<1>1. /\ Len(s) \in Nat /\ Len(a) = Len(s) + 1
      /\ \A i \in 1..Len(s) : a[i] = s[i]
      /\ a[Len(s) + 1] = x
  BY Appended, Sequence
<1> HIDE DEF a
<1>2. SUFFICES ASSUME NEW j \in 1..Len(a), a[j] = CLOSE
               PROVE  \/ t <= n \/ Has(p, t)
                      \/ \E i \in 1..j - 1 : t <= a[i]
                      \/ bare /\ Bare(p) /\ \A i \in 1..j - 1 : a[i] = CLOSE
  BY DEF Complete, a
<1>3. CASE j = Len(s) + 1
  <2>1. Reached(t, n, p, s, bare)
    BY <1>1, <1>2, <1>3
  <2>2. \A i \in 1..j - 1 : a[i] = s[i] /\ i \in 1..Len(s)
    BY <1>1, <1>3
  <2>3. CASE Has(s, t)
    <3>1. PICK i \in 1..Len(s) : t <= s[i]
      BY <2>3 DEF Has
    <3>2. i \in 1..j - 1
      BY <1>1, <1>3
    <3> QED
      BY <1>1, <3>1, <3>2
  <2>4. CASE bare /\ Bare(p) /\ Bare(s)
    BY <2>2, <2>4 DEF Bare
  <2> QED
    BY <2>1, <2>3, <2>4 DEF Reached
<1>4. CASE j \in 1..Len(s)
  <2>1. \/ t <= n \/ Has(p, t)
        \/ \E i \in 1..j - 1 : t <= s[i]
        \/ bare /\ Bare(p) /\ \A i \in 1..j - 1 : s[i] = CLOSE
    BY <1>1, <1>2, <1>4 DEF Complete
  <2>2. \A i \in 1..j - 1 : a[i] = s[i]
    BY <1>1, <1>4
  <2> QED
    BY <2>1, <2>2
<1> QED
  BY <1>1, <1>3, <1>4

LEMMA ReachedAppended ==
  ASSUME NEW s \in Seq(Nat), NEW p, NEW n, NEW x \in Nat, NEW m \in Nat, NEW bare,
         Reached(m, n, p, s, bare), x = CLOSE \/ m <= x
  PROVE  Reached(m, n, p, Append(s, x), bare)
BY HasAppended DEF Reached

(* Taking the first of s, with nothing before it.                             *)
LEMMA Taken ==
  ASSUME NEW s \in Seq(Nat), s # <<>>, NEW n \in Nat, NEW k \in Nat, n <= k, s[1] <= k
  PROVE  /\ \A free, other : s[1] # CLOSE /\ Follows(s, free, n, <<>>) => Follows(Tail(s), other, k, <<>>)
         /\ \A t \in Nat : \A bare, other : s[1] # CLOSE /\ Complete(s, bare, n, <<>>, t)
                                              => Complete(Tail(s), other, k, <<>>, t)
         /\ \A m \in Nat : \A bare, other : s[1] # CLOSE /\ Reached(m, n, <<>>, s, bare)
                                              => Reached(m, k, <<>>, Tail(s), other)
<1> DEFINE z == Tail(s)
<1>1. /\ Len(s) \in Nat \ {0} /\ z \in Seq(Nat) /\ Len(z) = Len(s) - 1
      /\ \A i \in 1..Len(s) - 1 : z[i] = s[i + 1]
      /\ \A i \in 1..Len(s) : s[i] \in Nat
  BY Popped, Sequence
<1>2. Len(<<>>) = 0
  OBVIOUS
<1> HIDE DEF z
<1>6. \A i \in 1..Len(s) : i = 1 \/ (i - 1 \in 1..Len(z) /\ z[i - 1] = s[i])
  BY <1>1
<1>3. ASSUME NEW free, NEW other, s[1] # CLOSE, Follows(s, free, n, <<>>) PROVE Follows(z, other, k, <<>>)
  <2> SUFFICES ASSUME NEW j \in 1..Len(z)
               PROVE  z[j] <= k + 1 \/ \E i \in 1..j - 1 : Leads(z[i], z[j])
    BY DEF Follows
  <2>1. j + 1 \in 1..Len(s) /\ z[j] = s[j + 1] /\ s[j + 1] \in Nat /\ j + 1 # 1
    BY <1>1
  <2>2. s[j + 1] <= n + 1 \/ \E i \in 1..j + 1 - 1 : Leads(s[i], s[j + 1])
    BY <1>2, <1>3, <2>1 DEF Follows
  <2>3. CASE s[j + 1] <= n + 1
    BY <2>1, <2>3
  <2>4. ASSUME NEW i \in 1..j, Leads(s[i], s[j + 1])
        PROVE  z[j] <= k + 1 \/ \E i1 \in 1..j - 1 : Leads(z[i1], z[j])
    <3>1. CASE i = 1
      BY SMTT(40), <1>1, <1>3, <2>1, <2>4, <3>1 DEF Leads
    <3>2. CASE i # 1
      <4>1. i \in 1..Len(s) /\ i - 1 \in 1..j - 1
        BY <1>1, <3>2
      <4>2. z[i - 1] = s[i]
        BY <1>6, <3>2, <4>1
      <4> QED
        BY <2>1, <2>4, <4>1, <4>2
    <3> QED
      BY <3>1, <3>2
  <2> QED
    BY <2>2, <2>3, <2>4
<1>4. ASSUME NEW t \in Nat, NEW bare, NEW other, s[1] # CLOSE, Complete(s, bare, n, <<>>, t)
      PROVE  Complete(z, other, k, <<>>, t)
  <2> SUFFICES ASSUME NEW j \in 1..Len(z), z[j] = CLOSE
               PROVE  t <= k \/ \E i \in 1..j - 1 : t <= z[i]
    BY DEF Complete
  <2>1. j + 1 \in 1..Len(s) /\ z[j] = s[j + 1]
    BY SMTT(40), <1>1
  <2>2. ~Has(<<>>, t)
    BY <1>2 DEF Has
  <2>3. \/ t <= n
        \/ \E i \in 1..j + 1 - 1 : t <= s[i]
        \/ \A i \in 1..j + 1 - 1 : s[i] = CLOSE
    BY SMTT(40), <1>4, <2>1, <2>2 DEF Complete
  <2>4. 1 \in 1..j + 1 - 1
    OBVIOUS
  <2>5. ASSUME NEW i \in 1..j, t <= s[i] PROVE t <= k \/ \E i1 \in 1..j - 1 : t <= z[i1]
    <3>1. CASE i = 1
      BY <1>1, <2>5, <3>1
    <3>2. CASE i # 1
      <4>1. i \in 1..Len(s) /\ i - 1 \in 1..j - 1
        BY <1>1, <3>2
      <4>2. z[i - 1] = s[i]
        BY <1>6, <3>2, <4>1
      <4> QED
        BY <2>5, <4>1, <4>2
    <3> QED
      BY <3>1, <3>2
  <2>6. t <= n => t <= k
    OBVIOUS
  <2> QED
    BY <1>4, <2>3, <2>4, <2>5, <2>6
<1>5. ASSUME NEW m \in Nat, NEW bare, NEW other, s[1] # CLOSE, Reached(m, n, <<>>, s, bare)
      PROVE  Reached(m, k, <<>>, z, other)
  <2>1. ~Has(<<>>, m)
    BY <1>2 DEF Has
  <2>2. ~Bare(s)
    <3>1. 1 \in 1..Len(s)
      BY <1>1
    <3> QED
      BY <1>5, <3>1 DEF Bare
  <2>3. m <= n \/ Has(s, m)
    BY <1>5, <2>1, <2>2 DEF Reached
  <2>4. Has(s, m) => m <= k \/ Has(z, m)
    <3> SUFFICES ASSUME NEW i \in 1..Len(s), m <= s[i] PROVE m <= k \/ Has(z, m)
      BY DEF Has
    <3>1. CASE i = 1
      BY <1>1, <3>1
    <3>2. CASE i # 1
      <4>1. i - 1 \in 1..Len(z) /\ z[i - 1] = s[i]
        BY <1>6, <3>2
      <4> QED
        BY <4>1 DEF Has
    <3> QED
      BY <3>1, <3>2
  <2> QED
    BY <2>3, <2>4 DEF Reached
<1> QED
  BY <1>3, <1>4, <1>5 DEF z

(* Taking the first of p, which lies before s.                                *)
LEMMA TakenBefore ==
  ASSUME NEW p \in Seq(Nat), p # <<>>, NEW n \in Nat, NEW k \in Nat, n <= k, p[1] <= k,
         NEW s \in Seq(Nat)
  PROVE  /\ \A other : p[1] # CLOSE /\ Follows(s, FALSE, n, p) => Follows(s, other, k, Tail(p))
         /\ \A t \in Nat : \A bare, other : p[1] # CLOSE /\ Complete(s, bare, n, p, t)
                                              => Complete(s, other, k, Tail(p), t)
         /\ \A m \in Nat : \A bare, other : p[1] # CLOSE /\ Reached(m, n, p, s, bare)
                                              => Reached(m, k, Tail(p), s, other)
<1> DEFINE z == Tail(p)
<1>1. /\ Len(p) \in Nat \ {0} /\ z \in Seq(Nat) /\ Len(z) = Len(p) - 1
      /\ \A i \in 1..Len(p) - 1 : z[i] = p[i + 1]
      /\ \A i \in 1..Len(p) : p[i] \in Nat
  BY Popped, Sequence
<1>2. Len(s) \in Nat /\ \A i \in 1..Len(s) : s[i] \in Nat
  BY Sequence
<1> HIDE DEF z
<1>3. \A i \in 1..Len(p) : i = 1 \/ (i - 1 \in 1..Len(z) /\ z[i - 1] = p[i])
  BY <1>1
<1>4. ASSUME NEW other, p[1] # CLOSE, Follows(s, FALSE, n, p) PROVE Follows(s, other, k, z)
  <2> SUFFICES ASSUME NEW j \in 1..Len(s)
               PROVE  \/ s[j] <= k + 1
                      \/ \E i \in 1..Len(z) : Leads(z[i], s[j])
                      \/ \E i \in 1..j - 1 : Leads(s[i], s[j])
    BY DEF Follows
  <2>1. \/ s[j] <= n + 1
        \/ \E i \in 1..Len(p) : Leads(p[i], s[j])
        \/ \E i \in 1..j - 1 : Leads(s[i], s[j])
    BY <1>4 DEF Follows
  <2>2. s[j] <= n + 1 => s[j] <= k + 1
    BY <1>2
  <2>3. ASSUME NEW i \in 1..Len(p), Leads(p[i], s[j])
        PROVE  s[j] <= k + 1 \/ \E i1 \in 1..Len(z) : Leads(z[i1], s[j])
    <3>1. CASE i = 1
      BY SMTT(40), <1>1, <1>2, <1>4, <2>3, <3>1 DEF Leads
    <3>2. CASE i # 1
      BY <1>3, <2>3, <3>2
    <3> QED
      BY <3>1, <3>2
  <2> QED
    BY <2>1, <2>2, <2>3
<1>5. ASSUME NEW m \in Nat PROVE Has(p, m) => m <= k \/ Has(z, m)
  <2> SUFFICES ASSUME NEW i \in 1..Len(p), m <= p[i] PROVE m <= k \/ Has(z, m)
    BY DEF Has
  <2>1. CASE i = 1
    BY <1>1, <2>1
  <2>2. CASE i # 1
    BY <1>3, <2>2 DEF Has
  <2> QED
    BY <2>1, <2>2
<1>6. p[1] # CLOSE => ~Bare(p)
  <2>1. 1 \in 1..Len(p)
    BY <1>1
  <2> QED
    BY <2>1 DEF Bare
<1>7. \A m \in Nat : m <= n => m <= k
  OBVIOUS
<1>8. ASSUME NEW t \in Nat, NEW bare, NEW other, p[1] # CLOSE, Complete(s, bare, n, p, t)
      PROVE  Complete(s, other, k, z, t)
  <2> SUFFICES ASSUME NEW j \in 1..Len(s), s[j] = CLOSE
               PROVE  t <= k \/ Has(z, t) \/ \E i \in 1..j - 1 : t <= s[i]
    BY DEF Complete
  <2>1. t <= n \/ Has(p, t) \/ \E i \in 1..j - 1 : t <= s[i]
    BY <1>6, <1>8 DEF Complete
  <2> QED
    BY <1>5, <1>7, <2>1
<1>9. ASSUME NEW m \in Nat, NEW bare, NEW other, p[1] # CLOSE, Reached(m, n, p, s, bare)
      PROVE  Reached(m, k, z, s, other)
  BY <1>5, <1>6, <1>7, <1>9 DEF Reached
<1> QED
  BY <1>4, <1>8, <1>9 DEF z

(* The first of s, with nothing before it.                                    *)
LEMMA First ==
  ASSUME NEW s \in Seq(Nat), s # <<>>, NEW n \in Nat
  PROVE  /\ Follows(s, FALSE, n, <<>>) => s[1] <= n + 1
         /\ \A t \in Nat : s[1] = CLOSE /\ Complete(s, FALSE, n, <<>>, t) => t <= n
<1>1. 1 \in 1..Len(s) /\ Len(<<>>) = 0
  BY Popped
<1>2. \A t \in Nat : ~Has(<<>>, t)
  BY <1>1 DEF Has
<1>3. Follows(s, FALSE, n, <<>>) => s[1] <= n + 1
  BY <1>1 DEF Follows
<1>4. ASSUME NEW t \in Nat, s[1] = CLOSE, Complete(s, FALSE, n, <<>>, t) PROVE t <= n
  BY <1>1, <1>2, <1>4 DEF Complete
<1> QED
  BY <1>3, <1>4

-----------------------------------------------------------------------------
(* The log of a run: an entry is added, and older ones may be trimmed.         *)
LogAfter(log, entry, cap) ==
  LET all == Append(log.entries, entry)
      excess == IF Len(all) > cap THEN Len(all) - cap ELSE 0
  IN [dropped |-> log.dropped + excess, entries |-> SubSeq(all, excess + 1, Len(all))]

Lengthened(new, log, x, cap, k) ==
  /\ new \in StreamType /\ k <= Len(log.entries)
  /\ new.dropped = log.dropped + k /\ Len(new.entries) = Len(log.entries) + 1 - k
  /\ \A i \in 1..Len(log.entries) - k : new.entries[i] = log.entries[k + i]
  /\ new.entries[Len(new.entries)] = x
  /\ k = 0 \/ k = Len(log.entries) + 1 - cap

LEMMA LogLengthened ==
  ASSUME NEW log \in StreamType, NEW x \in Nat, NEW cap \in Nat \ {0}
  PROVE  \E k \in Nat : Lengthened(LogAfter(log, x, cap), log, x, cap, k)
<1> DEFINE s == log.entries
           all == Append(s, x)
           k == IF Len(all) > cap THEN Len(all) - cap ELSE 0
           new == LogAfter(log, x, cap)
<1>1. log.dropped \in Nat /\ s \in Seq(Nat)
  BY DEF StreamType
<1>2. /\ Len(s) \in Nat /\ all \in Seq(Nat) /\ Len(all) = Len(s) + 1
      /\ \A i \in 1..Len(s) : all[i] = s[i]
      /\ all[Len(s) + 1] = x
  BY <1>1, Appended, Sequence
<1>3. new.dropped = log.dropped + k /\ new.entries = SubSeq(all, k + 1, Len(all))
      /\ new = [dropped |-> new.dropped, entries |-> new.entries]
  BY DEF LogAfter
<1> HIDE DEF all, s, new
<1>4. k \in Nat /\ k <= Len(s) /\ (k = 0 \/ k = Len(s) + 1 - cap)
  BY <1>2
<1> HIDE DEF k
<1>5. /\ SubSeq(all, k + 1, Len(all)) \in Seq(Nat)
      /\ Len(SubSeq(all, k + 1, Len(all))) = Len(all) - k
      /\ \A i \in 1..Len(all) - k : SubSeq(all, k + 1, Len(all))[i] = all[k + i]
  <2>1. all \in Seq(Nat) /\ k \in Nat /\ k <= Len(all)
    BY <1>2, <1>4
  <2> HIDE DEF k
  <2> QED
    BY <2>1, Cut
<1>6. new.entries \in Seq(Nat) /\ new.dropped \in Nat
  <2>1. new.entries \in Seq(Nat)
    BY <1>3, <1>5
  <2>2. new.dropped \in Nat
    BY SMTT(40), <1>1, <1>3, <1>4
  <2> QED
    BY <2>1, <2>2
<1>7. new \in StreamType
  BY <1>3, <1>6 DEF StreamType
<1>8. Len(new.entries) = Len(s) + 1 - k
  BY <1>2, <1>3, <1>4, <1>5
<1>9. \A i \in 1..Len(s) - k : new.entries[i] = s[k + i]
  <2> TAKE i \in 1..Len(s) - k
  <2>1. i \in 1..Len(all) - k /\ k + i \in 1..Len(s)
    BY <1>2, <1>4
  <2> QED
    BY <1>2, <1>3, <1>5, <2>1
<1>10. new.entries[Len(new.entries)] = x
  <2>1. Len(new.entries) \in 1..Len(all) - k /\ k + Len(new.entries) = Len(s) + 1
    BY <1>2, <1>4, <1>8
  <2> QED
    BY <1>2, <1>3, <1>5, <2>1
<1> QED
  BY <1>3, <1>4, <1>7, <1>8, <1>9, <1>10 DEF Lengthened, s, new

(* What a reader has not read of a log.                                       *)
Skipped(rd, log) == IF rd.lastId > log.dropped THEN rd.lastId - log.dropped ELSE 0

LEMMA LeftIs ==
  ASSUME NEW log \in StreamType, NEW rd \in ReadingType, rd.lastId <= log.dropped + Len(log.entries)
  PROVE  /\ Skipped(rd, log) \in Nat /\ Skipped(rd, log) <= Len(log.entries)
         /\ Left(rd, log) \in Seq(Nat) /\ Len(Left(rd, log)) = Len(log.entries) - Skipped(rd, log)
         /\ \A i \in 1..Len(log.entries) - Skipped(rd, log) :
              Left(rd, log)[i] = log.entries[Skipped(rd, log) + i]
<1>1. log.dropped \in Nat /\ log.entries \in Seq(Nat) /\ rd.lastId \in Nat /\ Len(log.entries) \in Nat
  BY Sequence DEF StreamType, ReadingType
<1>2. Skipped(rd, log) \in Nat /\ Skipped(rd, log) <= Len(log.entries)
  BY <1>1 DEF Skipped
<1>3. Left(rd, log) = SubSeq(log.entries, Skipped(rd, log) + 1, Len(log.entries))
  <2>1. (IF rd.lastId > log.dropped THEN rd.lastId - log.dropped + 1 ELSE 1) = Skipped(rd, log) + 1
    BY <1>1 DEF Skipped
  <2> QED
    BY <2>1 DEF Left
<1> DEFINE k == Skipped(rd, log)
           s == log.entries
<1> HIDE DEF k, s
<1>4. s \in Seq(Nat) /\ k \in Nat /\ k <= Len(s)
  BY <1>1, <1>2 DEF k, s
<1>5. /\ SubSeq(s, k + 1, Len(s)) \in Seq(Nat) /\ Len(SubSeq(s, k + 1, Len(s))) = Len(s) - k
      /\ \A i \in 1..Len(s) - k : SubSeq(s, k + 1, Len(s))[i] = s[k + i]
  BY <1>4, Cut
<1> QED
  BY <1>2, <1>3, <1>5 DEF k, s

LEMMA LeftLengthened ==
  ASSUME NEW log \in StreamType, NEW rd \in ReadingType, rd.lastId <= log.dropped + Len(log.entries),
         NEW x \in Nat, NEW cap \in Nat, NEW k \in Nat, NEW new, Lengthened(new, log, x, cap, k)
  PROVE  /\ Left(rd, new) \in Seq(Nat) /\ rd.lastId <= new.dropped + Len(new.entries)
         /\ Len(Left(rd, new)) <= Len(Left(rd, log)) + 1
         /\ \A m \in Nat : m <= x => Has(Left(rd, new), m)
         /\ k = 0 \/ Len(Left(rd, log)) < cap => Left(rd, new) = Append(Left(rd, log), x)
<1> DEFINE old == Left(rd, log)
           now == Left(rd, new)
           l == Len(log.entries)
           so == Skipped(rd, log)
           sn == Skipped(rd, new)
<1>1. /\ log.dropped \in Nat /\ rd.lastId \in Nat /\ l \in Nat
  BY Sequence DEF StreamType, ReadingType
<1>2. /\ new \in StreamType /\ new.dropped = log.dropped + k /\ Len(new.entries) = l + 1 - k
      /\ k <= l /\ (k = 0 \/ k = l + 1 - cap)
      /\ new.entries[l + 1 - k] = x
  BY DEF Lengthened
<1>3. \A i \in 1..l - k : new.entries[i] = log.entries[k + i]
  BY DEF Lengthened
<1>10. rd.lastId <= log.dropped + l
  OBVIOUS
<1>4. rd.lastId <= new.dropped + Len(new.entries)
  <2> HIDE DEF l
  <2> QED
    BY SMTT(40), <1>1, <1>2, <1>10
<1>5. so \in Nat /\ so <= l /\ old \in Seq(Nat) /\ Len(old) = l - so
  BY LeftIs
<1>6. \A i \in 1..l - so : old[i] = log.entries[so + i]
  BY LeftIs
<1>7. sn \in Nat /\ sn <= Len(new.entries) /\ now \in Seq(Nat) /\ Len(now) = Len(new.entries) - sn
  BY <1>2, <1>4, LeftIs
<1>15. \A i \in 1..Len(new.entries) - sn : now[i] = new.entries[sn + i]
  BY <1>2, <1>4, LeftIs
<1>9. /\ sn = IF rd.lastId > log.dropped + k THEN rd.lastId - (log.dropped + k) ELSE 0
      /\ so = IF rd.lastId > log.dropped THEN rd.lastId - log.dropped ELSE 0
  BY <1>2 DEF Skipped
<1> HIDE DEF l, so, sn, old, now
<1>8. sn <= l + 1 - k /\ Len(now) = l + 1 - k - sn
  BY <1>1, <1>2, <1>7
<1>16. \A i \in 1..l + 1 - k - sn : now[i] = new.entries[sn + i]
  <2>1. Len(new.entries) - sn = l + 1 - k - sn
    BY <1>1, <1>2, <1>7
  <2> QED
    BY <1>15, <2>1
<1>17. k \in Nat /\ cap \in Nat
  OBVIOUS
<1>18. /\ k <= l /\ (k = 0 \/ k = l + 1 - cap)
       /\ so \in Nat /\ so <= l /\ Len(old) = l - so
  BY <1>2, <1>5
<1> DEFINE id == rd.lastId
           d == log.dropped
<1>19. id \in Nat /\ d \in Nat /\ id <= d + l
       /\ sn = (IF id > d + k THEN id - (d + k) ELSE 0)
       /\ so = (IF id > d THEN id - d ELSE 0)
  BY <1>1, <1>9, <1>10
<1> HIDE DEF id, d
<1>11. sn + k >= so /\ sn + k <= l
  BY <1>1, <1>17, <1>18, <1>19
<1>12. Len(now) <= Len(old) + 1
  BY <1>1, <1>2, <1>5, <1>7, <1>8, <1>11
<1>13. \A m \in Nat : m <= x => Has(now, m)
  <2> DEFINE n == Len(now)
  <2>1. n \in 1..l + 1 - k - sn /\ sn + n = l + 1 - k
    BY <1>1, <1>2, <1>7, <1>8, <1>11
  <2>2. now[n] = x
    BY <1>2, <1>16, <2>1
  <2>3. n \in 1..Len(now)
    BY <1>7, <1>8, <2>1
  <2> QED
    BY <2>2, <2>3 DEF Has
<1>14. ASSUME k = 0 \/ Len(old) < cap PROVE now = Append(old, x)
  <2>1. sn + k = so
    BY <1>1, <1>14, <1>17, <1>18, <1>19
  <2>2. /\ Append(old, x) \in Seq(Nat) /\ Len(Append(old, x)) = Len(old) + 1
        /\ \A i \in 1..Len(old) : Append(old, x)[i] = old[i]
        /\ Append(old, x)[Len(old) + 1] = x
    BY <1>5, Appended
  <2>3. Len(now) = Len(old) + 1
    BY <1>1, <1>2, <1>5, <1>7, <1>8, <2>1
  <2>4. \A i \in 1..Len(now) : now[i] = Append(old, x)[i]
    <3> TAKE j \in 1..Len(now)
    <3>1. j \in 1..l + 1 - k - sn
      BY <1>8
    <3>2. CASE j = Len(old) + 1
      <4>2. l \in Nat /\ sn \in Nat
        BY <1>1, <1>5, <1>7
      <4>3. j = l - so + 1
        BY <1>18, <3>2
      <4>1. sn + j = l + 1 - k
        BY <1>17, <1>18, <2>1, <4>2, <4>3
      <4> QED
        BY <1>2, <1>16, <2>2, <3>1, <3>2, <4>1
    <3>3. CASE j # Len(old) + 1
      <4>1. j \in 1..Len(old) /\ j \in 1..l - so
        BY <1>18, <2>3, <3>3
      <4>5. j \in Nat /\ j >= 1 /\ j <= l - so /\ sn \in Nat /\ sn + k = so
        BY <1>1, <1>7, <1>18, <2>1, <4>1
      <4>6. sn + j \in 1..l - k /\ k + (sn + j) = so + j
        BY <1>1, <1>17, <1>18, <4>5
      <4>2. now[j] = new.entries[sn + j]
        BY <1>16, <3>1
      <4>3. new.entries[sn + j] = log.entries[k + (sn + j)]
        BY <1>3, <4>6
      <4>4. old[j] = log.entries[so + j]
        BY <1>6, <4>1
      <4> QED
        BY <2>2, <4>1, <4>2, <4>3, <4>4, <4>6
    <3> QED
      BY <3>2, <3>3
  <2> HIDE DEF old
  <2> QED
    BY <1>7, <2>2, <2>3, <2>4, SeqEqual
<1> QED
  BY <1>4, <1>7, <1>12, <1>13, <1>14 DEF old, now

LEMMA LogEntries ==
  ASSUME NEW log \in StreamType, NEW x \in Nat, NEW cap \in Nat, NEW k \in Nat, NEW new,
         Lengthened(new, log, x, cap, k), NEW e \in RunType
  PROVE  /\ Smooth(log.entries) /\ (log.entries # <<>> => Leads(log.entries[Len(log.entries)], x))
              => Smooth(new.entries)
         /\ Bounded(log.entries, e) /\ x <= e.top /\ (x = CLOSE => Closable(e)) => Bounded(new.entries, e)
         /\ Bounded(log.entries, e) /\ ~Closable(e) /\ x # CLOSE => Ending(new.entries)
         /\ Ending(log.entries) /\ x = CLOSE => Ending(new.entries)
         /\ \A m \in Nat : m <= x => Has(new.entries, m)
         /\ \A m \in Nat : k = 0 /\ Has(log.entries, m) => Has(new.entries, m)
         /\ Bare(log.entries) /\ x = CLOSE => Bare(new.entries)
         /\ new.dropped + Len(new.entries) = log.dropped + Len(log.entries) + 1
         /\ new.entries # <<>>
<1> DEFINE s == log.entries
           z == new.entries
           l == Len(s)
           h == l + 1 - k
<1>1. /\ s \in Seq(Nat) /\ z \in Seq(Nat) /\ log.dropped \in Nat
      /\ new.dropped = log.dropped + k /\ Len(z) = h /\ k <= l
      /\ z[h] = x
  BY DEF StreamType, Lengthened
<1>2. \A i \in 1..l - k : z[i] = s[k + i]
  BY DEF Lengthened
<1>3. l \in Nat /\ (s = <<>> <=> l = 0) /\ \A i \in 1..l : s[i] \in Nat
  BY <1>1, Sequence
<1>4. z # <<>> <=> h # 0
  BY <1>1, Sequence
<1>5. e.top \in Nat
  BY DEF RunType
<1> HIDE DEF s, z, l
<1>6. h \in Nat \ {0} /\ k + h = l + 1
  BY <1>1, <1>3
<1>7. \A i \in 1..h : (i = h /\ z[i] = x) \/ (i \in 1..l - k /\ k + i \in 1..l /\ z[i] = s[k + i])
  <2> TAKE i \in 1..h
  <2>1. CASE i = h
    BY <1>1, <2>1
  <2>2. CASE i # h
    <3>1. i \in 1..l - k /\ k + i \in 1..l
      BY <1>3, <1>6, <2>2
    <3> QED
      BY <1>2, <3>1
  <2> QED
    BY <2>1, <2>2
<1>8. new.dropped + Len(z) = log.dropped + l + 1
  BY SMTT(40), <1>1, <1>3
<1> HIDE DEF h
<1>9. ASSUME Smooth(s), s # <<>> => Leads(s[l], x) PROVE Smooth(z)
  <2> SUFFICES ASSUME NEW i \in 1..h - 1 PROVE Leads(z[i], z[i + 1])
    BY <1>1 DEF Smooth
  <2>1. i \in 1..h /\ i + 1 \in 1..h /\ i # h
    BY <1>6
  <2>2. z[i] = s[k + i] /\ k + i \in 1..l
    BY <1>7, <2>1
  <2>3. CASE i + 1 = h
    <3>1. k + i = l /\ l # 0
      BY <1>3, <1>6, <2>1, <2>2, <2>3
    <3> QED
      BY <1>1, <1>3, <1>9, <2>2, <2>3, <3>1
  <2>4. CASE i + 1 # h
    <3>1. z[i + 1] = s[k + (i + 1)] /\ k + (i + 1) \in 1..l
      BY <1>7, <2>1, <2>4
    <3>2. k + i \in 1..l - 1 /\ k + (i + 1) = (k + i) + 1
      BY <1>3, <2>2, <3>1
    <3>3. Leads(s[k + i], s[(k + i) + 1])
      BY <1>9, <3>2 DEF Smooth, l
    <3> QED
      BY <2>2, <3>1, <3>2, <3>3
  <2> QED
    BY <2>3, <2>4
<1>10. ASSUME Bounded(s, e), x <= e.top, x = CLOSE => Closable(e) PROVE Bounded(z, e)
  <2>1. \A i \in 1..l : s[i] <= e.top /\ (s[i] = CLOSE => Closable(e))
    BY <1>10 DEF Bounded, l
  <2> SUFFICES ASSUME NEW i \in 1..h PROVE z[i] <= e.top /\ (z[i] = CLOSE => Closable(e))
    BY <1>1 DEF Bounded
  <2> QED
    BY <1>7, <1>10, <2>1
<1>11. ASSUME Bounded(s, e), ~Closable(e), x # CLOSE PROVE Ending(z)
  <2>1. \A i \in 1..l : s[i] # CLOSE
    BY <1>11 DEF Bounded, l
  <2>2. \A i \in 1..h : z[i] # CLOSE
    BY <1>7, <1>11, <2>1
  <2> QED
    BY <1>1, <2>2 DEF Ending
<1>12. ASSUME Ending(s), x = CLOSE PROVE Ending(z)
  <2> SUFFICES ASSUME NEW i \in 1..h, NEW j \in 1..h, i < j, z[i] = CLOSE PROVE z[j] = CLOSE
    BY <1>1 DEF Ending
  <2>1. CASE j = h
    BY <1>7, <1>12, <2>1, <1>1
  <2>2. CASE j # h
    <3>1. i # h
      BY <1>6
    <3>2. z[i] = s[k + i] /\ k + i \in 1..l /\ z[j] = s[k + j] /\ k + j \in 1..l
      BY <1>7, <2>2, <3>1
    <3>3. k + i < k + j
      OBVIOUS
    <3> QED
      BY <1>12, <3>2, <3>3 DEF Ending, l
  <2> QED
    BY <2>1, <2>2
<1>13. \A m \in Nat : m <= x => Has(z, m)
  <2>1. h \in 1..Len(z)
    BY <1>1, <1>6
  <2> QED
    BY <1>1, <2>1 DEF Has
<1>14. ASSUME NEW m \in Nat, k = 0, Has(s, m) PROVE Has(z, m)
  <2>1. PICK i \in 1..l : m <= s[i]
    BY <1>14 DEF Has, l
  <2>2. i \in 1..l - k /\ k + i = i /\ i \in 1..h
    BY <1>3, <1>6, <1>14
  <2>3. z[i] = s[i]
    BY <1>2, <2>2
  <2> QED
    BY <1>1, <2>1, <2>2, <2>3 DEF Has
<1>15. ASSUME Bare(s), x = CLOSE PROVE Bare(z)
  <2>1. \A i \in 1..l : s[i] = CLOSE
    BY <1>15 DEF Bare, l
  <2> QED
    BY <1>1, <1>7, <1>15, <2>1 DEF Bare
<1> QED
  BY <1>4, <1>6, <1>8, <1>9, <1>10, <1>11, <1>12, <1>13, <1>14, <1>15 DEF s, z, l

(* An engine whose numbers stay as they are while it gets over or is withdrawn, *)
(* if not yet.                                                               *)
EngineLater(e, f) ==
  /\ f.seq = e.seq /\ f.top = e.top /\ f.attempt = e.attempt
  /\ f.row = "active" => e.row = "active"
  /\ f.pc = e.pc \/ (e.pc # "sending" /\ Over(f))

LEMMA Later ==
  ASSUME NEW e \in RunType, NEW f \in RunType, EngineLater(e, f)
  PROVE  /\ Over(e) => Over(f)
         /\ Sent(f) = Sent(e) /\ (Whole(f) => Whole(e)) /\ (Unbroken(f) => Unbroken(e))
         /\ f.pc = "sending" <=> e.pc = "sending"
         /\ Closable(e) => Closable(f)
  BY DEF EngineLater, Over, Closable, Sent, Whole, Unbroken

LEMMA BoundedLater ==
  ASSUME NEW e \in RunType, NEW f \in RunType, e.top <= f.top, Closable(e) => Closable(f),
         NEW s \in Seq(Nat), Bounded(s, e)
  PROVE  Bounded(s, f)
<1>1. e.top \in Nat /\ f.top \in Nat
  BY DEF RunType
<1>2. \A i \in 1..Len(s) : s[i] \in Nat
  BY Sequence
<1> QED
  BY <1>1, <1>2 DEF Bounded

(* Nothing in s closes it as long as the engine is neither over nor withdrawn. *)
LEMMA Unclosed ==
  ASSUME NEW e, ~Closable(e), NEW s \in Seq(Nat), Bounded(s, e)
  PROVE  /\ \A i \in 1..Len(s) : s[i] # CLOSE
         /\ Bare(s) => s = <<>>
         /\ \A bare, n, p, t : Complete(s, bare, n, p, t)
<1>1. \A i \in 1..Len(s) : s[i] # CLOSE
  BY DEF Bounded
<1>2. Bare(s) => s = <<>>
  <2>1. Bare(s) /\ Len(s) # 0 => FALSE
    <3>1. Len(s) # 0 => 1 \in 1..Len(s)
      BY Sequence
    <3> QED
      BY <1>1, <3>1 DEF Bare
  <2> QED
    BY <2>1, Sequence
<1>3. ASSUME NEW bare, NEW n, NEW p, NEW t PROVE Complete(s, bare, n, p, t)
  BY <1>1 DEF Complete
<1> QED
  BY <1>1, <1>2, <1>3

LEMMA LogLater ==
  ASSUME NEW e \in RunType, NEW f \in RunType, EngineLater(e, f), NEW log \in StreamType, NEW r,
         NEW keys, NEW keys2, NEW frames \in Nat, NEW frames2 \in Nat, frames <= frames2,
         NEW failures \in Nat, NEW failures2 \in Nat, failures <= failures2,
         r \in keys2 => r \in keys \/ Over(f), r \in keys => r \in keys2 \/ failures < failures2,
         LogIs(log, e, r \in keys, frames, failures)
  PROVE  LogIs(log, f, r \in keys2, frames2, failures2)
<1>1. log.entries \in Seq(Nat) /\ log.dropped \in Nat /\ Len(log.entries) \in Nat
  BY Sequence DEF StreamType
<1>2. /\ e.seq = f.seq /\ e.top = f.top /\ (Over(e) => Over(f)) /\ (Closable(e) => Closable(f))
      /\ e.seq \in Nat /\ e.top \in Nat /\ (f.pc = "sending" <=> e.pc = "sending")
      /\ f.row = "active" => e.row = "active"
  BY Later DEF EngineLater, RunType
<1>3. Bounded(log.entries, f)
  <2>1. Bounded(log.entries, e)
    BY DEF LogIs
  <2>2. e.top <= f.top
    BY <1>2
  <2> QED
    BY <1>1, <1>2, <2>1, <2>2, BoundedLater
<1>4. Smooth(log.entries) /\ (f.row = "active" => Ending(log.entries))
  BY <1>2 DEF LogIs
<1>5. r \in keys2 => Closable(f)
  BY <1>2 DEF LogIs, Closable
<1>6. ASSUME ~Over(f)
      PROVE  /\ log.entries # <<>> => \/ f.seq <= log.entries[Len(log.entries)]
                                      \/ log.entries[Len(log.entries)] = CLOSE
             /\ log.dropped + Len(log.entries) <= frames2 + failures2 + IF r \in keys2 THEN 1 ELSE 0
  <2>1. /\ log.entries # <<>> => \/ e.seq <= log.entries[Len(log.entries)]
                                 \/ log.entries[Len(log.entries)] = CLOSE
        /\ log.dropped + Len(log.entries) <= frames + failures + IF r \in keys THEN 1 ELSE 0
    BY <1>2, <1>6 DEF LogIs
  <2>2. frames + failures + (IF r \in keys THEN 1 ELSE 0) <= frames2 + failures2 + IF r \in keys2 THEN 1 ELSE 0
    BY <1>6
  <2> QED
    BY <1>1, <1>2, <2>1, <2>2
<1>7. f.pc = "sending" => f.seq > 0 /\ Has(log.entries, f.seq)
  BY <1>2 DEF LogIs
<1>8. \/ Has(log.entries, f.seq)
      \/ Bare(log.entries) /\ (f.seq > 0 => failures2 > 0)
  BY <1>2 DEF LogIs
<1> QED
  BY <1>3, <1>4, <1>5, <1>6, <1>7, <1>8 DEF LogIs

LEMMA LogNumbered ==
  ASSUME NEW e \in RunType, NEW f \in RunType, e.pc = "running", f.pc = "sending",
         f.seq = e.seq + 1, f.seq <= f.top, e.top <= f.top, f.row = e.row, NEW log \in StreamType,
         NEW r, NEW keys, NEW frames \in Nat, NEW failures \in Nat,
         LogIs(log, e, r \in keys, frames, failures),
         NEW k \in Nat, NEW new, Lengthened(new, log, f.seq, StreamMaxLen, k)
  PROVE  LogIs(new, f, r \in keys, frames + 1, failures)
<1> DEFINE s == log.entries
           closes == IF r \in keys THEN 1 ELSE 0
<1>1. /\ s \in Seq(Nat) /\ log.dropped \in Nat /\ Len(s) \in Nat /\ \A i \in 1..Len(s) : s[i] \in Nat
      /\ s # <<>> <=> Len(s) # 0
  BY Sequence DEF StreamType
<1>2. /\ e.seq \in Nat /\ e.top \in Nat /\ f.seq \in Nat \ {0} /\ f.top \in Nat
      /\ ~Over(e) /\ ~Over(f) /\ (Closable(e) <=> Closable(f)) /\ (f.row = "active" => ~Closable(e))
  BY DEF RunType, Over, Closable
<1>3. /\ Smooth(s) /\ Bounded(s, e) /\ (r \in keys => Closable(f))
      /\ log.dropped + Len(s) <= frames + failures + closes
      /\ s # <<>> => e.seq <= s[Len(s)] \/ s[Len(s)] = CLOSE
  BY <1>2 DEF LogIs
<1>4. Bounded(s, f)
  BY <1>1, <1>2, <1>3, BoundedLater
<1>5. s # <<>> => Leads(s[Len(s)], f.seq)
  <2>1. s # <<>> => s[Len(s)] \in Nat
    BY <1>1
  <2> QED
    BY <1>2, <1>3, <2>1 DEF Leads
<1> HIDE DEF s
<1>6. StreamMaxLen \in Nat /\ f.seq # CLOSE
  BY <1>2, RedisAssumption DEF CLOSE
<1>7. /\ Smooth(new.entries) /\ Bounded(new.entries, f)
      /\ f.row = "active" => Ending(new.entries)
      /\ Has(new.entries, f.seq) /\ new.entries # <<>>
      /\ new.dropped + Len(new.entries) = log.dropped + Len(s) + 1
  <2>1. f.seq <= f.seq /\ f.seq <= f.top
    BY <1>2
  <2> QED
    BY <1>2, <1>3, <1>4, <1>5, <1>6, <2>1, LogEntries DEF s
<1>8. new.entries[Len(new.entries)] = f.seq
  BY DEF Lengthened
<1>9. new.dropped + Len(new.entries) <= frames + 1 + failures + closes
  BY <1>1, <1>3, <1>7
<1>10. f.seq > 0 /\ f.seq <= new.entries[Len(new.entries)]
  BY <1>2, <1>8
<1> QED
  BY <1>2, <1>3, <1>7, <1>8, <1>9, <1>10 DEF LogIs

LEMMA LogClosed ==
  ASSUME NEW e \in RunType, Closable(e), NEW log \in StreamType,
         NEW r, NEW keys, NEW keys2, NEW frames \in Nat, NEW failures \in Nat,
         Over(e) \/ (r \notin keys /\ r \in keys2),
         LogIs(log, e, r \in keys, frames, failures),
         NEW new, Lengthened(new, log, CLOSE, Len(log.entries) + 1, 0)
  PROVE  LogIs(new, e, r \in keys2, frames, failures)
<1>1. e.seq \in Nat /\ e.top \in Nat /\ CLOSE \in Nat /\ CLOSE <= e.top
  BY DEF RunType, CLOSE
<1>2. Smooth(log.entries) /\ Bounded(log.entries, e) /\ (e.row = "active" => Ending(log.entries))
  BY DEF LogIs
<1>3. log.entries # <<>> => Leads(log.entries[Len(log.entries)], CLOSE)
  <2>1. log.entries # <<>> => log.entries[Len(log.entries)] \in Nat
    <3>1. log.entries \in Seq(Nat)
      BY DEF StreamType
    <3> QED
      BY <3>1, Sequence
  <2> QED
    BY <2>1 DEF CLOSE, Leads
<1>4. Len(log.entries) + 1 \in Nat /\ 0 \in Nat /\ log.dropped \in Nat /\ Len(log.entries) \in Nat
  BY Sequence DEF StreamType
<1>5. /\ Smooth(new.entries) /\ Bounded(new.entries, e)
      /\ e.row = "active" => Ending(new.entries)
      /\ Has(log.entries, e.seq) => Has(new.entries, e.seq)
      /\ Bare(log.entries) => Bare(new.entries)
      /\ new.dropped + Len(new.entries) = log.dropped + Len(log.entries) + 1
  BY SMTT(40), <1>1, <1>2, <1>3, <1>4, LogEntries
<1>6. new.entries[Len(new.entries)] = CLOSE
  BY DEF Lengthened
<1>7. ~Over(e) => new.dropped + Len(new.entries) <= frames + failures + IF r \in keys2 THEN 1 ELSE 0
  <2>1. ~Over(e) => log.dropped + Len(log.entries) <= frames + failures
    BY <1>4 DEF LogIs
  <2> QED
    BY <1>4, <1>5, <2>1
<1>8. e.pc = "sending" => e.seq > 0 /\ Has(new.entries, e.seq)
  BY <1>5 DEF LogIs
<1>9. Has(new.entries, e.seq) \/ (Bare(new.entries) /\ (e.seq > 0 => failures > 0))
  BY <1>5 DEF LogIs
<1> QED
  BY <1>5, <1>6, <1>7, <1>8, <1>9 DEF LogIs

(* A client, its mailbox and what it reads, by their types.                    *)
Reading(cl, box, rd) == cl \in ClientType /\ box \in MailboxType /\ rd \in ReadingType

LEMMA ReadingFields ==
  ASSUME NEW cl, NEW box, NEW rd, Reading(cl, box, rd)
  PROVE  /\ cl.pc \in ClientPcs /\ cl.run \in Runs \cup {"none"} /\ cl.last \in Nat /\ cl.fresh \in BOOLEAN
         /\ box.buffer \in Seq(Nat) /\ box.overflowed \in BOOLEAN /\ box.missed \in BOOLEAN
         /\ box = [buffer |-> box.buffer, overflowed |-> box.overflowed, missed |-> box.missed]
         /\ rd.page \in Seq(Nat) /\ rd.lastSeq \in Nat /\ rd.lastId \in Nat
         /\ rd = [page |-> rd.page, lastSeq |-> rd.lastSeq, lastId |-> rd.lastId]
BY DEF Reading, ClientType, MailboxType, ReadingType, ClientPcs

SameReader(cl, other) ==
  other.pc = cl.pc /\ other.run = cl.run /\ other.last = cl.last /\ other.fresh = cl.fresh

LEMMA AheadLater ==
  ASSUME NEW s \in Seq(Nat), NEW p \in Seq(Nat), NEW n \in Nat, NEW cl, NEW other, SameReader(cl, other),
         NEW e \in RunType, NEW f \in RunType, EngineLater(e, f),
         NEW failures \in Nat, NEW failures2 \in Nat, failures <= failures2, NEW rd
  PROVE  /\ Ahead(s, cl.fresh, n, p, Expired(cl, failures), e)
              => Ahead(s, other.fresh, n, p, Expired(other, failures2), f)
         /\ Ahead(s, cl.fresh /\ rd.page = <<>>, n, p, Expired(cl, failures), e)
              => Ahead(s, other.fresh /\ rd.page = <<>>, n, p, Expired(other, failures2), f)
         /\ \A m : Reached(m, n, p, s, Expired(cl, failures)) => Reached(m, n, p, s, Expired(other, failures2))
<1>1. /\ (Unbroken(f) => Unbroken(e)) /\ f.top = e.top /\ other.fresh = cl.fresh
      /\ Expired(cl, failures) => Expired(other, failures2)
  BY Later DEF EngineLater, SameReader, Expired
<1>2. \A t : Complete(s, Expired(cl, failures), n, p, t) => Complete(s, Expired(other, failures2), n, p, t)
  BY <1>1 DEF Complete
<1>3. Follows(s, cl.fresh, n, p) => Follows(s, other.fresh, n, p)
  BY <1>1
<1>4. Follows(s, cl.fresh /\ rd.page = <<>>, n, p) => Follows(s, other.fresh /\ rd.page = <<>>, n, p)
  BY <1>1 DEF Follows
<1>5. Ahead(s, cl.fresh, n, p, Expired(cl, failures), e)
              => Ahead(s, other.fresh, n, p, Expired(other, failures2), f)
  BY <1>1, <1>2, <1>3 DEF Ahead
<1>6. Ahead(s, cl.fresh /\ rd.page = <<>>, n, p, Expired(cl, failures), e)
              => Ahead(s, other.fresh /\ rd.page = <<>>, n, p, Expired(other, failures2), f)
  BY <1>1, <1>2, <1>4 DEF Ahead
<1>7. \A m : Reached(m, n, p, s, Expired(cl, failures)) => Reached(m, n, p, s, Expired(other, failures2))
  BY <1>1 DEF Reached
<1> QED
  BY <1>5, <1>6, <1>7

(* Nothing but counters, markers and engines that get over.                   *)
LEMMA ReaderLater ==
  ASSUME NEW cl, NEW other, NEW box, NEW rd, Reading(cl, box, rd), SameReader(cl, other),
         NEW log \in StreamType, NEW e \in RunType, NEW f \in RunType, EngineLater(e, f),
         NEW keys, NEW keys2, NEW listed, NEW listed2,
         NEW failures \in Nat, NEW failures2 \in Nat, failures <= failures2,
         ReaderIs(cl, box, rd, log, e, keys, listed, failures),
         cl.run \in keys2 => cl.run \in keys,
         cl.pc \in Attached /\ cl.run \in listed => cl.run \in listed2
  PROVE  ReaderIs(other, box, rd, log, f, keys2, listed2, failures2)
<1>1. /\ f.attempt = e.attempt /\ f.top = e.top /\ f.seq = e.seq /\ Sent(f) = Sent(e)
      /\ (Whole(f) => Whole(e)) /\ (Over(e) => Over(f)) /\ (Closable(e) => Closable(f)) /\ (f.pc = "sending" <=> e.pc = "sending")
      /\ e.top \in Nat /\ e.top <= f.top
  <2>1. e.top \in Nat /\ f.top = e.top
    BY DEF EngineLater, RunType
  <2> QED
    BY <2>1, Later DEF EngineLater
<1>2. other.pc = cl.pc /\ other.run = cl.run /\ other.last = cl.last /\ other.fresh = cl.fresh
  BY DEF SameReader
<1>3. /\ box.buffer \in Seq(Nat) /\ rd.page \in Seq(Nat) /\ rd.lastSeq \in Nat
  BY ReadingFields
<1>4. BoxIs(other, box, rd, log, f, listed2)
  <2>1. BoxIs(cl, box, rd, log, e, listed)
    BY DEF ReaderIs
  <2>2. Bounded(box.buffer, f) /\ Bounded(rd.page, f)
    <3>1. Bounded(box.buffer, e) /\ Bounded(rd.page, e)
      BY <2>1 DEF BoxIs
    <3> QED
      BY <1>1, <1>3, <3>1, BoundedLater
  <2> QED
    BY <1>2, <2>1, <2>2 DEF BoxIs
<1>5. StartIs(other, box, log, f)
  BY <1>1, <1>2 DEF ReaderIs, StartIs
<1>6. PageIs(other, box, rd, f, failures2)
  <2>1. <<>> \in Seq(Nat)
    BY EmptySeq
  <2>2. PageIs(cl, box, rd, e, failures)
    BY DEF ReaderIs
  <2> QED
    BY <1>2, <1>3, <2>1, <2>2, AheadLater DEF PageIs
<1>7. UnreadIs(other, box, rd, log, f, failures2)
  <2>1. UnreadIs(cl, box, rd, log, e, failures) /\ rd.lastId <= log.dropped + Len(log.entries)
    BY DEF ReaderIs, BoxIs
  <2>2. Left(rd, log) \in Seq(Nat)
    BY <2>1, LeftIs DEF Reading
  <2> SUFFICES ASSUME cl.pc = "paging", Intact(box)
               PROVE  /\ Ahead(Left(rd, log), other.fresh /\ rd.page = <<>>, rd.lastSeq, rd.page,
                               Expired(other, failures2), f)
                      /\ Reached(f.seq, rd.lastSeq, rd.page, Left(rd, log), Expired(other, failures2))
                      /\ MaxTrouble = 0 /\ ~Over(f) =>
                           Len(Left(rd, log)) <= Len(box.buffer) + IF f.pc = "sending" THEN 1 ELSE 0
    BY <1>2 DEF UnreadIs
  <2>3. /\ Ahead(Left(rd, log), cl.fresh /\ rd.page = <<>>, rd.lastSeq, rd.page, Expired(cl, failures), e)
        /\ Reached(e.seq, rd.lastSeq, rd.page, Left(rd, log), Expired(cl, failures))
    BY <2>1 DEF UnreadIs
  <2>4. MaxTrouble = 0 /\ ~Over(f) =>
                           Len(Left(rd, log)) <= Len(box.buffer) + IF f.pc = "sending" THEN 1 ELSE 0
    BY <1>1, <2>1 DEF UnreadIs
  <2> QED
    BY ZenonT(40), <1>1, <1>3, <2>2, <2>3, <2>4, AheadLater
<1>8. LiveIs(other, box, rd, f, failures2, keys2)
  <2>1. LiveIs(cl, box, rd, e, failures, keys)
    BY DEF ReaderIs
  <2> SUFFICES ASSUME cl.pc \in {"paging", "live"}, Intact(box)
               PROVE  /\ Ahead(box.buffer, other.fresh /\ rd.page = <<>>, rd.lastSeq, rd.page,
                               Expired(other, failures2), f)
                      /\ Whole(f) => Reached(Sent(f), rd.lastSeq, rd.page, box.buffer, Expired(other, failures2))
                      /\ cl.pc = "live" /\ cl.run \in keys2 => \E i \in 1..Len(box.buffer) : box.buffer[i] = CLOSE
    BY <1>2 DEF LiveIs
  <2>2. /\ Ahead(box.buffer, cl.fresh /\ rd.page = <<>>, rd.lastSeq, rd.page, Expired(cl, failures), e)
        /\ Whole(e) => Reached(Sent(e), rd.lastSeq, rd.page, box.buffer, Expired(cl, failures))
    BY <2>1 DEF LiveIs
  <2>3. cl.pc = "live" /\ cl.run \in keys2 => \E i \in 1..Len(box.buffer) : box.buffer[i] = CLOSE
    BY <2>1 DEF LiveIs
  <2>4. Ahead(box.buffer, other.fresh /\ rd.page = <<>>, rd.lastSeq, rd.page, Expired(other, failures2), f)
    BY <1>3, <2>2, AheadLater
  <2>5. Whole(f) => Reached(Sent(f), rd.lastSeq, rd.page, box.buffer, Expired(other, failures2))
    BY <1>1, <1>3, <2>2, AheadLater
  <2> QED
    BY <2>3, <2>4, <2>5
<1> QED
  BY <1>4, <1>5, <1>6, <1>7, <1>8 DEF ReaderIs

(* The number after one that is seen or still to come goes on from there.      *)
LEMMA NextFollows ==
  ASSUME NEW s \in Seq(Nat), NEW p \in Seq(Nat), NEW n \in Nat, NEW m \in Nat, NEW cl, NEW failures,
         Reached(m, n, p, s, Expired(cl, failures)),
         Follows(s, cl.fresh /\ p = <<>>, n, p)
  PROVE  Follows(Append(s, m + 1), cl.fresh /\ p = <<>>, n, p)
<1> DEFINE x == m + 1
<1>1. x \in Nat
  OBVIOUS
<1>2. /\ \A i \in 1..Len(s) : s[i] \in Nat
      /\ \A i \in 1..Len(p) : p[i] \in Nat
  BY Sequence
<1>3. \/ s = <<>> /\ (cl.fresh /\ p = <<>>)
      \/ x <= n + 1
      \/ \E i \in 1..Len(p) : Leads(p[i], x)
      \/ \E i \in 1..Len(s) : Leads(s[i], x)
  <2>1. CASE m <= n
    BY <2>1
  <2>2. CASE Has(p, m)
    <3>1. PICK i \in 1..Len(p) : m <= p[i]
      BY <2>2 DEF Has
    <3>2. Leads(p[i], x)
      BY <1>2, <3>1 DEF Leads
    <3> QED
      BY <3>2
  <2>3. CASE Has(s, m)
    <3>1. PICK i \in 1..Len(s) : m <= s[i]
      BY <2>3 DEF Has
    <3>2. Leads(s[i], x)
      BY <1>2, <3>1 DEF Leads
    <3> QED
      BY <3>2
  <2>4. CASE Expired(cl, failures) /\ Bare(p) /\ Bare(s)
    <3>1. (p = <<>> \/ 1 \in 1..Len(p)) /\ (s = <<>> \/ 1 \in 1..Len(s))
      BY Sequence
    <3>2. CASE 1 \in 1..Len(p)
      BY <2>4, <3>2 DEF Bare, Leads
    <3>3. CASE 1 \in 1..Len(s)
      BY <2>4, <3>3 DEF Bare, Leads
    <3> QED
      BY <2>4, <3>1, <3>2, <3>3 DEF Expired
  <2> QED
    BY <2>1, <2>2, <2>3, <2>4 DEF Reached
<1> HIDE DEF x
<1>4. Follows(Append(s, x), cl.fresh /\ p = <<>>, n, p)
  BY <1>1, <1>3, FollowsAppended
<1> QED
  BY <1>4 DEF x

LEMMA LeftAppended ==
  ASSUME NEW log \in StreamType, NEW rd \in ReadingType, rd.lastId <= log.dropped + Len(log.entries),
         NEW x \in Nat, NEW cap \in Nat, NEW k \in Nat, NEW new, Lengthened(new, log, x, cap, k),
         k = 0 \/ Len(Left(rd, log)) < cap
  PROVE  Left(rd, new) = Append(Left(rd, log), x)
BY LeftLengthened

LEMMA LeftBounded ==
  ASSUME NEW log \in StreamType, NEW rd \in ReadingType, rd.lastId <= log.dropped + Len(log.entries),
         NEW e, Bounded(log.entries, e)
  PROVE  Left(rd, log) \in Seq(Nat) /\ Bounded(Left(rd, log), e)
<1> DEFINE left == Left(rd, log)
           k == Skipped(rd, log)
           l == Len(log.entries)
<1>1. l \in Nat
  BY Sequence DEF StreamType
<1>2. k \in Nat /\ k <= l /\ left \in Seq(Nat) /\ Len(left) = l - k
  BY LeftIs
<1>3. \A i \in 1..l - k : left[i] = log.entries[k + i]
  BY LeftIs
<1>4. \A i \in 1..l : log.entries[i] <= e.top /\ (log.entries[i] = CLOSE => Closable(e))
  BY DEF Bounded
<1> HIDE DEF left, k, l
<1>5. ASSUME NEW i \in 1..Len(left) PROVE left[i] <= e.top /\ (left[i] = CLOSE => Closable(e))
  <2>1. i \in 1..l - k /\ k + i \in 1..l
    BY <1>1, <1>2
  <2> QED
    BY <1>3, <1>4, <2>1
<1> QED
  BY <1>2, <1>5 DEF Bounded, left

(* A running engine numbers a frame: it is in the log first.                   *)
LEMMA ReaderNumbered ==
  ASSUME NEW cl, NEW box, NEW rd, Reading(cl, box, rd), NEW log \in StreamType,
         NEW e \in RunType, NEW f \in RunType, e.pc = "running", f.pc = "sending", f.seq = e.seq + 1,
         f.attempt = e.attempt, f.row = e.row, f.seq <= f.top, e.top <= f.top, e.attempt = 1 => e.seq = e.top,
         NEW keys, NEW listed, NEW failures \in Nat, e.attempt <= failures + 1, failures <= MaxTrouble,
         NEW frames \in Nat, frames < MaxFrames,
         log.dropped + Len(log.entries) <= frames + failures + 1,
         ReaderIs(cl, box, rd, log, e, keys, listed, failures), Bounded(log.entries, e),
         NEW k \in Nat, NEW new, Lengthened(new, log, f.seq, StreamMaxLen, k)
  PROVE  ReaderIs(cl, box, rd, new, f, keys, listed, failures)
<1> DEFINE left == Left(rd, log)
           now == Left(rd, new)
           x == f.seq
           bare == Expired(cl, failures)
<1>1. /\ e.seq \in Nat /\ e.top \in Nat /\ x \in Nat \ {0} /\ f.top \in Nat /\ e.attempt \in Nat \ {0}
      /\ ~Over(e) /\ ~Over(f) /\ Sent(e) = e.seq /\ Sent(f) = e.seq /\ x = e.seq + 1
      /\ (Closable(e) <=> Closable(f)) /\ (Unbroken(e) <=> Unbroken(f)) /\ (Unbroken(f) => ~Closable(f))
  BY DEF RunType, Over, Closable, Unbroken, Sent
<1>2. /\ box.buffer \in Seq(Nat) /\ rd.page \in Seq(Nat) /\ rd.lastSeq \in Nat /\ rd \in ReadingType
      /\ rd.lastId \in Nat /\ log.entries \in Seq(Nat) /\ log.dropped \in Nat
      /\ Len(box.buffer) \in Nat /\ Len(log.entries) \in Nat
  BY ReadingFields, Sequence DEF Reading, StreamType
<1>3. MaxFrames \in Nat /\ MaxTrouble \in Nat /\ StreamMaxLen \in Nat /\ SubscriberBufferFrames \in Nat
  BY FeedAssumption, RedisAssumption
<1>4. BoxIs(cl, box, rd, log, e, listed) /\ rd.lastId <= log.dropped + Len(log.entries)
  BY DEF ReaderIs, BoxIs
<1>5. left \in Seq(Nat) /\ Bounded(left, e)
  BY <1>2, <1>4, LeftBounded
<1>6. /\ now \in Seq(Nat) /\ rd.lastId <= new.dropped + Len(new.entries)
      /\ Len(now) <= Len(left) + 1
      /\ \A m \in Nat : m <= x => Has(now, m)
  <2>1. x \in Nat
    BY <1>1
  <2> HIDE DEF x
  <2> QED
    BY <1>2, <1>3, <1>4, <2>1, LeftLengthened DEF x
<1>7. ASSUME k = 0 \/ Len(left) < StreamMaxLen PROVE now = Append(left, x)
  <2>1. f.seq \in Nat
    BY <1>1
  <2> QED
    BY SMTT(40), <1>2, <1>3, <1>4, <1>7, <2>1, LeftAppended
<1>8. k = 0 \/ k = Len(log.entries) + 1 - StreamMaxLen
  BY DEF Lengthened
<1>9. MaxFrames + MaxTrouble < StreamMaxLen => k = 0
  BY SMTT(40), <1>2, <1>3, <1>8
<1>10. /\ Bounded(box.buffer, e) /\ Bounded(rd.page, e) /\ Bounded(box.buffer, f) /\ Bounded(rd.page, f)
  <2>1. Bounded(box.buffer, e) /\ Bounded(rd.page, e)
    BY <1>4 DEF BoxIs
  <2> QED
    BY <1>1, <1>2, <2>1, BoundedLater
<1>11. Unbroken(f) => \A s \in Seq(Nat) : Bounded(s, e) => \A b, n, p, t : Complete(s, b, n, p, t)
  BY <1>1, Unclosed
<1>12. BoxIs(cl, box, rd, new, f, listed)
  BY <1>4, <1>6, <1>10 DEF BoxIs
<1>13. StartIs(cl, box, new, f)
  <2> SUFFICES ASSUME cl.pc \in {"subscribe", "replay"}, Whole(f) PROVE Covered(box.buffer, new)
    BY DEF StartIs
  <2>1. Whole(e) /\ Covered(box.buffer, log)
    BY <1>1 DEF ReaderIs, StartIs, Whole
  <2> SUFFICES ASSUME NEW i \in 1..Len(box.buffer) PROVE box.buffer[i] = CLOSE \/ Has(new.entries, box.buffer[i])
    BY DEF Covered
  <2>2. box.buffer[i] \in Nat
    BY <1>2, Sequence
  <2>3. /\ \A m \in Nat : m <= x => Has(new.entries, m)
        /\ \A m \in Nat : k = 0 /\ Has(log.entries, m) => Has(new.entries, m)
    <3>1. x \in Nat
      BY <1>1
    <3>2. \A m \in Nat : m <= x => Has(new.entries, m)
      BY <1>3, <3>1, LogEntries
    <3>3. \A m \in Nat : k = 0 /\ Has(log.entries, m) => Has(new.entries, m)
      BY <1>3, <3>1, LogEntries
    <3> QED
      BY <3>2, <3>3
  <2>4. CASE e.attempt = 1
    <3>1. box.buffer[i] <= x
      BY SMTT(40), <1>1, <1>10, <2>2, <2>4 DEF Bounded
    <3> QED
      BY <2>2, <2>3, <3>1
  <2>5. CASE e.attempt # 1
    <3>1. MaxTrouble # 0
      BY <1>1, <1>3, <2>5
    <3>2. k = 0
      BY <1>9, <2>1, <2>5, <3>1 DEF Whole, Roomy, Unbroken
    <3> QED
      BY <2>1, <2>2, <2>3, <3>2 DEF Covered
  <2> QED
    BY <2>4, <2>5
<1>14. PageIs(cl, box, rd, f, failures)
  <2> SUFFICES ASSUME cl.pc \in {"paging", "sweeping"}, Intact(box)
               PROVE  Ahead(rd.page, cl.fresh, rd.lastSeq, <<>>, bare, f)
    BY DEF PageIs
  <2>1. Ahead(rd.page, cl.fresh, rd.lastSeq, <<>>, bare, e)
    BY DEF ReaderIs, PageIs
  <2> QED
    BY <1>1, <1>2, <1>10, <1>11, <2>1 DEF Ahead
<1>15. UnreadIs(cl, box, rd, new, f, failures)
  <2> SUFFICES ASSUME cl.pc = "paging", Intact(box)
               PROVE  /\ Ahead(now, cl.fresh /\ rd.page = <<>>, rd.lastSeq, rd.page, bare, f)
                      /\ Reached(x, rd.lastSeq, rd.page, now, bare)
                      /\ MaxTrouble = 0 /\ ~Over(f) =>
                           Len(now) <= Len(box.buffer) + IF f.pc = "sending" THEN 1 ELSE 0
    BY DEF UnreadIs
  <2>1. /\ Ahead(left, cl.fresh /\ rd.page = <<>>, rd.lastSeq, rd.page, bare, e)
        /\ Reached(e.seq, rd.lastSeq, rd.page, left, bare)
    BY DEF ReaderIs, UnreadIs
  <2>2. MaxTrouble = 0 => Len(left) <= Len(box.buffer)
    <3>1. MaxTrouble = 0 => Len(left) <= Len(box.buffer) + 0
      BY <1>1 DEF ReaderIs, UnreadIs
    <3> QED
      BY <1>2, <3>1
  <2>3. Len(left) \in Nat /\ Len(now) \in Nat
    BY <1>5, <1>6, Sequence
  <2>4. MaxTrouble = 0 => Len(now) <= Len(box.buffer) + 1
    BY <1>2, <1>6, <2>2, <2>3
  <2>5. Reached(x, rd.lastSeq, rd.page, now, bare)
    BY <1>1, <1>6 DEF Reached
  <2>6. Unbroken(f) => Complete(now, bare, rd.lastSeq, rd.page, f.top)
    <3>1. Bounded(new.entries, f)
      <4>1. Bounded(log.entries, f)
        BY <1>1, <1>2, BoundedLater
      <4> QED
        BY <1>1, <1>3, <4>1, LogEntries DEF CLOSE
    <3>2. new \in StreamType
      BY DEF Lengthened
    <3>3. Bounded(now, f)
      BY <1>2, <1>6, <3>1, <3>2, LeftBounded
    <3> QED
      BY <1>1, <1>6, <3>3, Unclosed
  <2>7. ASSUME Roomy PROVE Follows(now, cl.fresh /\ rd.page = <<>>, rd.lastSeq, rd.page)
    <3>1. now = Append(left, x)
      <4>1. CASE MaxFrames + MaxTrouble < StreamMaxLen
        BY <1>7, <1>9, <4>1
      <4>2. CASE MaxTrouble = 0 /\ SubscriberBufferFrames < StreamMaxLen
        <5>1. Len(box.buffer) <= SubscriberBufferFrames
          BY <1>4 DEF BoxIs
        <5> QED
          BY <1>2, <1>3, <1>7, <2>2, <2>3, <4>2, <5>1
      <4> QED
        BY <2>7, <4>1, <4>2 DEF Roomy
    <3>2. Follows(left, cl.fresh /\ rd.page = <<>>, rd.lastSeq, rd.page)
      BY <2>1, <2>7 DEF Ahead
    <3> HIDE DEF left, now
    <3> QED
      BY ZenonT(40), <1>1, <1>2, <1>5, <2>1, <3>1, <3>2, NextFollows
  <2>8. Ahead(now, cl.fresh /\ rd.page = <<>>, rd.lastSeq, rd.page, bare, f)
    BY <2>6, <2>7 DEF Ahead
  <2> QED
    BY <2>4, <2>5, <2>8
<1>16. LiveIs(cl, box, rd, f, failures, keys)
  <2>1. LiveIs(cl, box, rd, e, failures, keys)
    BY DEF ReaderIs
  <2>2. Ahead(box.buffer, cl.fresh /\ rd.page = <<>>, rd.lastSeq, rd.page, bare, e)
          => Ahead(box.buffer, cl.fresh /\ rd.page = <<>>, rd.lastSeq, rd.page, bare, f)
    BY <1>1, <1>2, <1>10, <1>11 DEF Ahead
  <2>3. Whole(f) <=> Whole(e)
    BY <1>1 DEF Whole
  <2> QED
    BY <1>1, <2>1, <2>2, <2>3 DEF LiveIs
<1> QED
  BY <1>12, <1>13, <1>14, <1>15, <1>16 DEF ReaderIs

LEMMA BoundedAppended ==
  ASSUME NEW s \in Seq(Nat), NEW x \in Nat, NEW e, Bounded(s, e), x <= e.top, x = CLOSE => Closable(e)
  PROVE  Bounded(Append(s, x), e)
<1>1. /\ Len(s) \in Nat /\ Len(Append(s, x)) = Len(s) + 1
      /\ \A i \in 1..Len(s) : Append(s, x)[i] = s[i]
      /\ Append(s, x)[Len(s) + 1] = x
  BY Appended, Sequence
<1>2. \A i \in 1..Len(s) : s[i] <= e.top /\ (s[i] = CLOSE => Closable(e))
  BY DEF Bounded
<1> SUFFICES ASSUME NEW i \in 1..Len(s) + 1
             PROVE  Append(s, x)[i] <= e.top /\ (Append(s, x)[i] = CLOSE => Closable(e))
  BY <1>1 DEF Bounded
<1>3. i = Len(s) + 1 \/ i \in 1..Len(s)
  BY <1>1
<1> QED
  BY <1>1, <1>2, <1>3

LEMMA CoveredAppended ==
  ASSUME NEW s \in Seq(Nat), NEW x \in Nat, NEW log, Covered(s, log), x = CLOSE \/ Has(log.entries, x)
  PROVE  Covered(Append(s, x), log)
<1>1. /\ Len(s) \in Nat /\ Len(Append(s, x)) = Len(s) + 1
      /\ \A i \in 1..Len(s) : Append(s, x)[i] = s[i]
      /\ Append(s, x)[Len(s) + 1] = x
  BY Appended, Sequence
<1>2. \A i \in 1..Len(s) : s[i] = CLOSE \/ Has(log.entries, s[i])
  BY DEF Covered
<1> SUFFICES ASSUME NEW i \in 1..Len(s) + 1
             PROVE  Append(s, x)[i] = CLOSE \/ Has(log.entries, Append(s, x)[i])
  BY <1>1 DEF Covered
<1>3. i = Len(s) + 1 \/ i \in 1..Len(s)
  BY <1>1
<1> QED
  BY <1>1, <1>2, <1>3

(* What a PUBLISH of x does to a mailbox: nothing to one that does not depend  *)
(* on it, a loss that is owned up to, or a message more.                      *)
Given(new, box, cl, x) ==
  /\ new \in MailboxType
  /\ \/ new = box /\ cl.pc \notin {"paging", "live"}
     \/ /\ cl.pc \notin {"off", "close", "ending"}
        /\ new.buffer = box.buffer /\ ~Intact(new)
        /\ cl.pc \in {"subscribe", "replay"} => new.missed = box.missed
     \/ /\ cl.pc \notin {"off", "close", "ending"}
        /\ new = [box EXCEPT !.buffer = Append(@, x)] /\ Len(box.buffer) < SubscriberBufferFrames

LEMMA GivenBuffer ==
  ASSUME NEW cl, NEW box, NEW rd, Reading(cl, box, rd), NEW x \in Nat, NEW new, Given(new, box, cl, x)
  PROVE  /\ Reading(cl, new, rd)
         /\ new.buffer = box.buffer \/ (new.buffer = Append(box.buffer, x)
                                        /\ Len(box.buffer) < SubscriberBufferFrames)
         /\ Intact(new) => Intact(box)
         /\ Intact(new) /\ cl.pc \in {"paging", "live"} => new.buffer = Append(box.buffer, x)
         /\ cl.pc \in {"close", "ending"} => new = box
         /\ cl.pc \in {"subscribe", "replay"} => new.missed = box.missed
<1>1. box \in MailboxType /\ new \in MailboxType
  BY DEF Reading, Given
<1>2. CASE new = box /\ cl.pc \notin {"paging", "live"}
  BY <1>1, <1>2 DEF Reading
<1>3. CASE /\ cl.pc \notin {"off", "close", "ending"}
           /\ new.buffer = box.buffer /\ ~Intact(new)
           /\ cl.pc \in {"subscribe", "replay"} => new.missed = box.missed
  BY <1>1, <1>3 DEF Reading
<1>4. CASE /\ cl.pc \notin {"off", "close", "ending"}
           /\ new = [box EXCEPT !.buffer = Append(@, x)] /\ Len(box.buffer) < SubscriberBufferFrames
  <2>1. new.buffer = Append(box.buffer, x) /\ new.missed = box.missed /\ new.overflowed = box.overflowed
    BY <1>1, <1>4 DEF MailboxType
  <2>2. Intact(new) => Intact(box)
    BY <2>1 DEF Intact
  <2> QED
    BY <1>1, <1>4, <2>1, <2>2 DEF Reading
<1> QED
  BY <1>2, <1>3, <1>4 DEF Given

LEMMA GivenBox ==
  ASSUME NEW cl, NEW box, NEW rd, Reading(cl, box, rd), NEW log, NEW e, NEW f, NEW listed,
         BoxIs(cl, box, rd, log, e, listed), e \in RunType, f \in RunType, e.top <= f.top, Closable(e) => Closable(f),
         NEW x \in Nat, x <= f.top, x = CLOSE => Closable(f), NEW new, Given(new, box, cl, x)
  PROVE  BoxIs(cl, new, rd, log, f, listed) /\ Bounded(new.buffer, f)
<1>1. /\ Reading(cl, new, rd)
      /\ new.buffer = box.buffer \/ (new.buffer = Append(box.buffer, x)
                                     /\ Len(box.buffer) < SubscriberBufferFrames)
      /\ cl.pc \in {"close", "ending"} => new = box
      /\ cl.pc \in {"subscribe", "replay"} => new.missed = box.missed
  BY GivenBuffer
<1>2. box.buffer \in Seq(Nat) /\ rd.page \in Seq(Nat) /\ Len(box.buffer) \in Nat
  BY ReadingFields, Sequence
<1>3. Bounded(box.buffer, f) /\ Bounded(rd.page, f)
  <2>1. Bounded(box.buffer, e) /\ Bounded(rd.page, e)
    BY DEF BoxIs
  <2> QED
    BY <1>2, <2>1, BoundedLater
<1>4. Bounded(new.buffer, f)
  BY <1>1, <1>2, <1>3, BoundedAppended
<1>5. Len(new.buffer) <= SubscriberBufferFrames
  <2>1. CASE new.buffer = box.buffer
    BY <2>1 DEF BoxIs
  <2>2. CASE new.buffer = Append(box.buffer, x) /\ Len(box.buffer) < SubscriberBufferFrames
    <3>1. Len(new.buffer) = Len(box.buffer) + 1
      BY <1>2, <2>2, Appended
    <3>2. SubscriberBufferFrames \in Nat
      BY RedisAssumption
    <3> QED
      BY <1>2, <2>2, <3>1, <3>2
  <2> QED
    BY <1>1, <2>1, <2>2
<1> QED
  BY <1>1, <1>3, <1>4, <1>5 DEF BoxIs

(* The frame that was numbered is published.                                  *)
LEMMA ReaderSent ==
  ASSUME NEW cl, NEW box, NEW rd, Reading(cl, box, rd), NEW log \in StreamType,
         NEW e \in RunType, NEW f \in RunType, e.pc = "sending", f.pc = "running", f.seq = e.seq,
         f.attempt = e.attempt, f.row = e.row, f.top = e.top, e.seq <= e.top, e.seq > 0,
         Has(log.entries, e.seq), NEW keys, NEW listed, NEW failures \in Nat,
         ReaderIs(cl, box, rd, log, e, keys, listed, failures),
         NEW new, Given(new, box, cl, e.seq)
  PROVE  ReaderIs(cl, new, rd, log, f, keys, listed, failures)
<1> DEFINE x == e.seq
           left == Left(rd, log)
           bare == Expired(cl, failures)
<1>1. /\ x \in Nat \ {0} /\ x # CLOSE /\ e.top \in Nat /\ x <= f.top /\ ~Over(e) /\ ~Over(f)
      /\ Sent(e) = x - 1 /\ Sent(f) = x /\ (Whole(f) <=> Whole(e)) /\ e.top <= f.top
      /\ (Closable(e) <=> Closable(f)) /\ (Unbroken(e) <=> Unbroken(f)) /\ (Unbroken(f) => ~Closable(f))
  BY DEF RunType, Over, Closable, Unbroken, Sent, Whole, CLOSE
<1>2. /\ box.buffer \in Seq(Nat) /\ rd.page \in Seq(Nat) /\ rd.lastSeq \in Nat
      /\ Len(box.buffer) \in Nat
  BY ReadingFields, Sequence
<1>3. BoxIs(cl, box, rd, log, e, listed)
  BY DEF ReaderIs
<1>4. /\ new.buffer = box.buffer \/ new.buffer = Append(box.buffer, x)
      /\ Intact(new) => Intact(box)
      /\ Intact(new) /\ cl.pc \in {"paging", "live"} => new.buffer = Append(box.buffer, x)
  BY <1>1, GivenBuffer
<1>5. BoxIs(cl, new, rd, log, f, listed) /\ Bounded(new.buffer, f)
  BY <1>1, <1>3, GivenBox
<1>6. new.buffer \in Seq(Nat)
  <2>1. Reading(cl, new, rd)
    BY <1>1, GivenBuffer
  <2> QED
    BY <2>1, ReadingFields
<1>7. StartIs(cl, new, log, f)
  <2> SUFFICES ASSUME cl.pc \in {"subscribe", "replay"}, Whole(f) PROVE Covered(new.buffer, log)
    BY DEF StartIs
  <2>1. Covered(box.buffer, log)
    BY <1>1 DEF ReaderIs, StartIs
  <2> QED
    BY <1>1, <1>2, <1>4, <2>1, CoveredAppended
<1>8. PageIs(cl, new, rd, f, failures)
  <2>1. PageIs(cl, box, rd, e, failures)
    BY DEF ReaderIs
  <2> QED
    BY <1>1, <1>4, <2>1 DEF PageIs, Ahead
<1>9. UnreadIs(cl, new, rd, log, f, failures)
  <2> SUFFICES ASSUME cl.pc = "paging", Intact(new)
               PROVE  /\ Ahead(left, cl.fresh /\ rd.page = <<>>, rd.lastSeq, rd.page, bare, f)
                      /\ Reached(f.seq, rd.lastSeq, rd.page, left, bare)
                      /\ MaxTrouble = 0 /\ ~Over(f) =>
                           Len(left) <= Len(new.buffer) + IF f.pc = "sending" THEN 1 ELSE 0
    BY DEF UnreadIs
  <2>1. /\ Ahead(left, cl.fresh /\ rd.page = <<>>, rd.lastSeq, rd.page, bare, e)
        /\ Reached(e.seq, rd.lastSeq, rd.page, left, bare)
    BY <1>4 DEF ReaderIs, UnreadIs
  <2>2. MaxTrouble = 0 => Len(left) <= Len(box.buffer) + 1
    BY <1>1, <1>4 DEF ReaderIs, UnreadIs
  <2>3. Len(new.buffer) = Len(box.buffer) + 1
    BY <1>1, <1>2, <1>4, Appended
  <2>4. Len(left) \in Nat
    <3>1. left \in Seq(Nat)
      BY <1>3, LeftIs DEF BoxIs, Reading
    <3> QED
      BY <3>1, Sequence
  <2>5. MaxTrouble = 0 => Len(left) <= Len(new.buffer) + 0
    <3> HIDE DEF left
    <3> QED
      BY <1>2, <2>2, <2>3, <2>4
  <2> QED
    BY <1>1, <2>1, <2>5 DEF Ahead
<1>10. LiveIs(cl, new, rd, f, failures, keys)
  <2> SUFFICES ASSUME cl.pc \in {"paging", "live"}, Intact(new)
               PROVE  /\ Ahead(new.buffer, cl.fresh /\ rd.page = <<>>, rd.lastSeq, rd.page, bare, f)
                      /\ Whole(f) => Reached(Sent(f), rd.lastSeq, rd.page, new.buffer, bare)
                      /\ cl.pc = "live" /\ cl.run \in keys =>
                           \E i \in 1..Len(new.buffer) : new.buffer[i] = CLOSE
    BY DEF LiveIs
  <2>1. /\ Ahead(box.buffer, cl.fresh /\ rd.page = <<>>, rd.lastSeq, rd.page, bare, e)
        /\ Whole(e) => Reached(Sent(e), rd.lastSeq, rd.page, box.buffer, bare)
        /\ cl.pc = "live" /\ cl.run \in keys => \E i \in 1..Len(box.buffer) : box.buffer[i] = CLOSE
    BY <1>4 DEF ReaderIs, LiveIs
  <2>2. new.buffer = Append(box.buffer, x)
    BY <1>4
  <2>3. Unbroken(f) => Complete(new.buffer, bare, rd.lastSeq, rd.page, f.top)
    BY <1>1, <1>5, <1>6, Unclosed
  <2>4. ASSUME Roomy PROVE Follows(new.buffer, cl.fresh /\ rd.page = <<>>, rd.lastSeq, rd.page)
    <3>1. Reached(x - 1, rd.lastSeq, rd.page, box.buffer, bare)
      BY <1>1, <2>1, <2>4 DEF Whole
    <3>2. Follows(box.buffer, cl.fresh /\ rd.page = <<>>, rd.lastSeq, rd.page)
      BY <2>1, <2>4 DEF Ahead
    <3>3. x - 1 \in Nat /\ (x - 1) + 1 = x
      BY <1>1
    <3>4. Follows(Append(box.buffer, (x - 1) + 1), cl.fresh /\ rd.page = <<>>, rd.lastSeq, rd.page)
      <4> HIDE DEF x
      <4> QED
        BY <1>1, <1>2, <3>1, <3>2, <3>3, NextFollows
    <3> QED
      BY <2>2, <3>3, <3>4
  <2>5. Has(new.buffer, x)
    BY <1>1, <1>2, <2>2, HasAppended
  <2>6. cl.pc = "live" /\ cl.run \in keys => \E i \in 1..Len(new.buffer) : new.buffer[i] = CLOSE
    <3> SUFFICES ASSUME NEW i \in 1..Len(box.buffer), box.buffer[i] = CLOSE
                 PROVE  \E j \in 1..Len(new.buffer) : new.buffer[j] = CLOSE
      BY <2>1
    <3>1. i \in 1..Len(new.buffer) /\ new.buffer[i] = box.buffer[i]
      BY <1>1, <1>2, <2>2, Appended
    <3> QED
      BY <3>1
  <2> QED
    BY <1>1, <2>3, <2>4, <2>5, <2>6 DEF Ahead, Reached
<1> QED
  BY <1>5, <1>7, <1>8, <1>9, <1>10 DEF ReaderIs

(* The stream of a run that is over or withdrawn is closed: first its log.      *)
LEMMA ReaderLogClosed ==
  ASSUME NEW cl, NEW box, NEW rd, Reading(cl, box, rd), NEW log \in StreamType,
         NEW e \in RunType, Closable(e), Over(e) \/ MaxTrouble # 0, e.attempt = 1 => e.seq = e.top,
         NEW keys, NEW listed, NEW failures \in Nat,
         ReaderIs(cl, box, rd, log, e, keys, listed, failures),
         NEW new, Lengthened(new, log, CLOSE, Len(log.entries) + 1, 0)
  PROVE  ReaderIs(cl, box, rd, new, e, keys, listed, failures)
<1> DEFINE left == Left(rd, log)
           now == Left(rd, new)
           bare == Expired(cl, failures)
<1>1. /\ e.seq \in Nat /\ e.top \in Nat /\ CLOSE \in Nat /\ 0 \in Nat /\ Len(log.entries) + 1 \in Nat
      /\ log.entries \in Seq(Nat)
  BY Sequence DEF RunType, StreamType, CLOSE
<1>2. /\ box.buffer \in Seq(Nat) /\ rd.page \in Seq(Nat) /\ rd.lastSeq \in Nat /\ rd \in ReadingType
  BY ReadingFields DEF Reading
<1>3. BoxIs(cl, box, rd, log, e, listed) /\ rd.lastId <= log.dropped + Len(log.entries)
  BY DEF ReaderIs, BoxIs
<1>4. now = Append(left, CLOSE) /\ left \in Seq(Nat)
  BY <1>1, <1>2, <1>3, LeftAppended, LeftIs
<1>5. BoxIs(cl, box, rd, new, e, listed)
  <2>1. rd.lastId <= new.dropped + Len(new.entries)
    BY <1>1, <1>2, <1>3, LeftLengthened
  <2> QED
    BY <1>3, <2>1 DEF BoxIs
<1>6. StartIs(cl, box, new, e)
  <2> SUFFICES ASSUME cl.pc \in {"subscribe", "replay"}, Whole(e), NEW i \in 1..Len(box.buffer)
               PROVE  box.buffer[i] = CLOSE \/ Has(new.entries, box.buffer[i])
    BY DEF StartIs, Covered
  <2>1. box.buffer[i] = CLOSE \/ Has(log.entries, box.buffer[i])
    BY DEF ReaderIs, StartIs, Covered
  <2>2. box.buffer[i] \in Nat
    BY <1>2, Sequence
  <2>3. \A m \in Nat : Has(log.entries, m) => Has(new.entries, m)
    BY <1>1, LogEntries
  <2> QED
    BY <2>1, <2>2, <2>3
<1>7. UnreadIs(cl, box, rd, new, e, failures)
  <2> SUFFICES ASSUME cl.pc = "paging", Intact(box)
               PROVE  /\ Ahead(now, cl.fresh /\ rd.page = <<>>, rd.lastSeq, rd.page, bare, e)
                      /\ Reached(e.seq, rd.lastSeq, rd.page, now, bare)
    BY DEF UnreadIs
  <2>1. /\ Ahead(left, cl.fresh /\ rd.page = <<>>, rd.lastSeq, rd.page, bare, e)
        /\ Reached(e.seq, rd.lastSeq, rd.page, left, bare)
    BY DEF ReaderIs, UnreadIs
  <2> HIDE DEF left, now, bare
  <2>2. Reached(e.seq, rd.lastSeq, rd.page, now, bare)
    BY <1>1, <1>4, <2>1, ReachedAppended
  <2>3. ASSUME Roomy PROVE Follows(now, cl.fresh /\ rd.page = <<>>, rd.lastSeq, rd.page)
    <3>1. Follows(left, cl.fresh /\ rd.page = <<>>, rd.lastSeq, rd.page)
      BY <2>1, <2>3 DEF Ahead
    <3>2. CLOSE <= rd.lastSeq + 1
      BY <1>2 DEF CLOSE
    <3> QED
      BY <1>1, <1>2, <1>4, <3>1, <3>2, FollowsAppended
  <2>4. ASSUME Unbroken(e) PROVE Complete(now, bare, rd.lastSeq, rd.page, e.top)
    <3>1. Complete(left, bare, rd.lastSeq, rd.page, e.top) /\ Reached(e.top, rd.lastSeq, rd.page, left, bare)
      BY <2>1, <2>4 DEF Ahead, Unbroken
    <3> QED
      BY <1>1, <1>2, <1>4, <3>1, CompleteAppended
  <2> QED
    BY <2>2, <2>3, <2>4 DEF Ahead
<1> QED
  BY <1>5, <1>6, <1>7 DEF ReaderIs

LEMMA ReaderMarked ==
  ASSUME NEW cl, NEW box, NEW rd, Reading(cl, box, rd), NEW log \in StreamType,
         NEW e \in RunType, Closable(e), Over(e) \/ MaxTrouble # 0,
         e.attempt = 1 => e.seq = e.top, e.pc = "sending" => e.seq > 0,
         NEW keys, NEW keys2, NEW listed, NEW failures \in Nat,
         ReaderIs(cl, box, rd, log, e, keys, listed, failures),
         NEW new, Given(new, box, cl, CLOSE)
  PROVE  ReaderIs(cl, new, rd, log, e, keys2, listed, failures)
<1> DEFINE left == Left(rd, log)
           bare == Expired(cl, failures)
<1>1. /\ e.seq \in Nat /\ e.top \in Nat /\ CLOSE \in Nat /\ CLOSE <= e.top /\ e.top <= e.top
      /\ Sent(e) \in Nat /\ (Unbroken(e) => Sent(e) = e.top)
  BY DEF RunType, CLOSE, Over, Closable, Unbroken, Sent
<1>2. /\ box.buffer \in Seq(Nat) /\ rd.page \in Seq(Nat) /\ rd.lastSeq \in Nat
  BY ReadingFields
<1>3. BoxIs(cl, box, rd, log, e, listed)
  BY DEF ReaderIs
<1>4. /\ new.buffer = box.buffer \/ new.buffer = Append(box.buffer, CLOSE)
      /\ Intact(new) => Intact(box)
      /\ Intact(new) /\ cl.pc \in {"paging", "live"} => new.buffer = Append(box.buffer, CLOSE)
  BY <1>1, GivenBuffer
<1>5. BoxIs(cl, new, rd, log, e, listed)
  BY <1>1, <1>3, GivenBox
<1>6. StartIs(cl, new, log, e)
  <2> SUFFICES ASSUME cl.pc \in {"subscribe", "replay"}, Whole(e) PROVE Covered(new.buffer, log)
    BY DEF StartIs
  <2>1. Covered(box.buffer, log)
    BY DEF ReaderIs, StartIs
  <2> QED
    BY <1>1, <1>2, <1>4, <2>1, CoveredAppended
<1>7. PageIs(cl, new, rd, e, failures)
  BY <1>4 DEF ReaderIs, PageIs
<1>8. UnreadIs(cl, new, rd, log, e, failures)
  <2>1. UnreadIs(cl, box, rd, log, e, failures)
    BY DEF ReaderIs
  <2> QED
    BY <1>4, <2>1 DEF UnreadIs
<1>9. LiveIs(cl, new, rd, e, failures, keys2)
  <2> SUFFICES ASSUME cl.pc \in {"paging", "live"}, Intact(new)
               PROVE  /\ Ahead(new.buffer, cl.fresh /\ rd.page = <<>>, rd.lastSeq, rd.page, bare, e)
                      /\ Whole(e) => Reached(Sent(e), rd.lastSeq, rd.page, new.buffer, bare)
                      /\ \E i \in 1..Len(new.buffer) : new.buffer[i] = CLOSE
    BY DEF LiveIs
  <2>1. /\ Ahead(box.buffer, cl.fresh /\ rd.page = <<>>, rd.lastSeq, rd.page, bare, e)
        /\ Whole(e) => Reached(Sent(e), rd.lastSeq, rd.page, box.buffer, bare)
    BY <1>1, <1>4 DEF ReaderIs, LiveIs
  <2> HIDE DEF bare
  <2>2. new.buffer = Append(box.buffer, CLOSE)
    BY <1>4
  <2>3. Whole(e) => Reached(Sent(e), rd.lastSeq, rd.page, new.buffer, bare)
    BY <1>1, <1>2, <2>1, <2>2, ReachedAppended
  <2>4. ASSUME Roomy PROVE Follows(new.buffer, cl.fresh /\ rd.page = <<>>, rd.lastSeq, rd.page)
    <3>1. Follows(box.buffer, cl.fresh /\ rd.page = <<>>, rd.lastSeq, rd.page)
      BY <2>1, <2>4 DEF Ahead
    <3>2. CLOSE <= rd.lastSeq + 1
      BY <1>2 DEF CLOSE
    <3> QED
      BY <1>1, <1>2, <2>2, <3>1, <3>2, FollowsAppended
  <2>5. ASSUME Unbroken(e) PROVE Complete(new.buffer, bare, rd.lastSeq, rd.page, e.top)
    <3>1. Complete(box.buffer, bare, rd.lastSeq, rd.page, e.top)
      BY <2>1, <2>5 DEF Ahead
    <3>2. Reached(e.top, rd.lastSeq, rd.page, box.buffer, bare)
      BY <1>1, <2>1, <2>5 DEF Whole
    <3> QED
      BY <1>1, <1>2, <2>2, <3>1, <3>2, CompleteAppended
  <2>6. \E i \in 1..Len(new.buffer) : new.buffer[i] = CLOSE
    <3>1. /\ Len(new.buffer) = Len(box.buffer) + 1 /\ Len(box.buffer) \in Nat
          /\ new.buffer[Len(box.buffer) + 1] = CLOSE
      BY <1>1, <1>2, <2>2, Appended, Sequence
    <3> QED
      BY <3>1
  <2> QED
    BY <1>1, <2>3, <2>4, <2>5, <2>6 DEF Ahead
<1> QED
  BY <1>5, <1>6, <1>7, <1>8, <1>9 DEF ReaderIs

(* The process of a running engine died: it starts over, and no longer owes    *)
(* anything to those who read its first attempt.                              *)
LEMMA ReaderCrashed ==
  ASSUME NEW cl, NEW box, NEW rd, Reading(cl, box, rd), NEW log \in StreamType,
         NEW e \in RunType, NEW f \in RunType, ~Over(e), f.pc \in {"running", "settled"}, f.seq = 0, f.top = e.top,
         f.attempt = e.attempt + 1, f.row = e.row, MaxTrouble # 0,
         NEW keys, NEW listed, NEW failures \in Nat,
         ReaderIs(cl, box, rd, log, e, keys, listed, failures)
  PROVE  ReaderIs(cl, box, rd, log, f, keys, listed, failures)
<1>1. /\ e.top \in Nat /\ e.top <= f.top /\ ~Unbroken(f) /\ Sent(f) = 0
      /\ (Closable(e) => Closable(f))
      /\ (Whole(f) => Roomy /\ Whole(e))
  <2>1. e.top \in Nat /\ e.attempt \in Nat \ {0}
    BY DEF RunType
  <2> QED
    BY <2>1 DEF Over, Closable, Unbroken, Sent, Whole
<1>2. /\ box.buffer \in Seq(Nat) /\ rd.page \in Seq(Nat) /\ rd.lastSeq \in Nat
  BY ReadingFields
<1>3. \A s, free, n, p, bare : Ahead(s, free, n, p, bare, e) => Ahead(s, free, n, p, bare, f)
  BY <1>1 DEF Ahead
<1>4. \A p, s, bare : Reached(0, rd.lastSeq, p, s, bare)
  BY <1>2 DEF Reached
<1>5. BoxIs(cl, box, rd, log, f, listed)
  <2>1. BoxIs(cl, box, rd, log, e, listed)
    BY DEF ReaderIs
  <2>2. Bounded(box.buffer, f) /\ Bounded(rd.page, f)
    <3>1. Bounded(box.buffer, e) /\ Bounded(rd.page, e)
      BY <2>1 DEF BoxIs
    <3> QED
      BY <1>1, <1>2, <3>1, BoundedLater
  <2> QED
    BY <2>1, <2>2 DEF BoxIs
<1>6. StartIs(cl, box, log, f)
  BY <1>1 DEF ReaderIs, StartIs
<1>7. PageIs(cl, box, rd, f, failures)
  BY <1>1 DEF ReaderIs, PageIs, Ahead
<1>8. UnreadIs(cl, box, rd, log, f, failures)
  BY <1>1, <1>4 DEF ReaderIs, UnreadIs, Ahead
<1>9. LiveIs(cl, box, rd, f, failures, keys)
  <2>1. LiveIs(cl, box, rd, e, failures, keys)
    BY DEF ReaderIs
  <2> QED
    BY <1>1, <1>4, <2>1 DEF LiveIs, Ahead
<1> QED
  BY <1>5, <1>6, <1>7, <1>8, <1>9 DEF ReaderIs

(* A reader past its replay does not care what becomes of the log.             *)
LEMMA ReaderExpired ==
  ASSUME NEW cl, cl.pc \in {"close", "ending", "live"}, NEW box, NEW rd, NEW log, NEW new,
         new.dropped + Len(new.entries) = log.dropped + Len(log.entries),
         NEW e, NEW keys, NEW listed, NEW failures,
         ReaderIs(cl, box, rd, log, e, keys, listed, failures)
  PROVE  ReaderIs(cl, box, rd, new, e, keys, listed, failures)
<1>1. BoxIs(cl, box, rd, new, e, listed)
  BY DEF ReaderIs, BoxIs
<1>2. StartIs(cl, box, new, e) /\ UnreadIs(cl, box, rd, new, e, failures)
  BY DEF StartIs, UnreadIs
<1> QED
  BY <1>1, <1>2 DEF ReaderIs

(* A client that joins, or that is told the end.                              *)
LEMMA ReaderIdle ==
  ASSUME NEW cl, cl.pc \in {"close", "subscribe", "ending"}, NEW log \in StreamType, NEW e, NEW keys,
         NEW listed, NEW failures
  PROVE  ReaderIs(cl, NoMailbox, NoReading, log, e, keys, listed, failures)
<1>1. /\ NoMailbox.buffer = <<>> /\ NoReading.page = <<>> /\ NoReading.lastId = 0
      /\ NoMailbox.missed = FALSE /\ Len(<<>>) = 0
  BY DEF NoMailbox, NoReading
<1>2. log.dropped \in Nat /\ Len(log.entries) \in Nat /\ SubscriberBufferFrames \in Nat
  BY Sequence, RedisAssumption DEF StreamType
<1>3. BoxIs(cl, NoMailbox, NoReading, log, e, listed)
  <2>1. Bounded(<<>>, e)
    BY <1>1 DEF Bounded
  <2>2. 0 <= log.dropped + Len(log.entries) /\ 0 <= SubscriberBufferFrames
    BY <1>2
  <2> QED
    BY <1>1, <2>1, <2>2 DEF BoxIs, Attached
<1>4. StartIs(cl, NoMailbox, log, e)
  BY <1>1 DEF StartIs, Covered
<1> QED
  BY <1>3, <1>4 DEF ReaderIs, PageIs, UnreadIs, LiveIs

-----------------------------------------------------------------------------
(* What a reader does itself.                                                 *)
Moved(cl, other, pc) ==
  other.pc = pc /\ other.run = cl.run /\ other.last = cl.last /\ other.fresh = cl.fresh

LEMMA ReaderAttached ==
  ASSUME NEW cl, NEW other, NEW box, NEW rd, Reading(cl, box, rd), cl.pc = "subscribe", Moved(cl, other, "replay"),
         NEW rd2, rd2.page = rd.page, rd2.lastId = rd.lastId, rd2.lastSeq = cl.last,
         NEW log, NEW e, NEW keys, NEW listed, NEW listed2, cl.run \in listed2, NEW failures,
         ReaderIs(cl, box, rd, log, e, keys, listed, failures)
  PROVE  ReaderIs(other, box, rd2, log, e, keys, listed2, failures)
<1>1. rd.page = <<>> /\ rd.lastId = 0
  <2>1. rd = NoReading
    BY DEF ReaderIs, BoxIs
  <2> QED
    BY <2>1 DEF NoReading
<1>2. BoxIs(other, box, rd2, log, e, listed2)
  <2>1. BoxIs(cl, box, rd, log, e, listed)
    BY DEF ReaderIs
  <2> QED
    BY <1>1, <2>1 DEF BoxIs, Moved
<1>3. StartIs(other, box, log, e)
  BY DEF ReaderIs, StartIs, Moved
<1> QED
  BY <1>2, <1>3 DEF ReaderIs, PageIs, UnreadIs, LiveIs, Moved

LEMMA LeftNone ==
  ASSUME NEW log \in StreamType, NEW rd \in ReadingType, rd.lastId = log.dropped + Len(log.entries)
  PROVE  Left(rd, log) = <<>>
<1>1. log.dropped \in Nat /\ Len(log.entries) \in Nat
  BY Sequence DEF StreamType
<1>2. Skipped(rd, log) = Len(log.entries)
  BY <1>1 DEF Skipped
<1>3. Left(rd, log) \in Seq(Nat) /\ Len(Left(rd, log)) = Len(log.entries) - Skipped(rd, log)
  <2>1. rd.lastId <= log.dropped + Len(log.entries)
    BY <1>1
  <2> QED
    BY <2>1, LeftIs
<1>4. Len(Left(rd, log)) = 0
  BY <1>1, <1>2, <1>3
<1> QED
  BY <1>3, <1>4, Sequence

LEMMA LeftWhole ==
  ASSUME NEW log \in StreamType, NEW rd \in ReadingType, rd.lastId = 0
  PROVE  Left(rd, log) = log.entries
<1> DEFINE s == log.entries
           left == Left(rd, log)
<1>1. log.dropped \in Nat /\ s \in Seq(Nat) /\ Len(s) \in Nat
  BY Sequence DEF StreamType
<1>2. Skipped(rd, log) = 0
  BY <1>1 DEF Skipped
<1>3. rd.lastId <= log.dropped + Len(s)
  BY <1>1
<1>4. left \in Seq(Nat) /\ Len(left) = Len(s) - Skipped(rd, log)
  BY <1>3, LeftIs
<1>5. \A i \in 1..Len(s) - Skipped(rd, log) : left[i] = s[Skipped(rd, log) + i]
  BY <1>3, LeftIs
<1> HIDE DEF s, left
<1>6. Len(left) = Len(s)
  BY <1>1, <1>2, <1>4
<1>7. \A i \in 1..Len(left) : left[i] = s[i]
  <2> TAKE i \in 1..Len(left)
  <2>1. i \in 1..Len(s) - Skipped(rd, log) /\ Skipped(rd, log) + i = i
    BY <1>1, <1>2, <1>6
  <2> QED
    BY <1>5, <2>1
<1> QED
  BY <1>1, <1>4, <1>6, <1>7, SeqEqual DEF s, left

(* A replay of all that is in the log.                                        *)
LEMMA Replayed ==
  ASSUME NEW log \in StreamType, NEW e \in RunType, NEW closed, NEW frames, NEW failures \in Nat,
         LogIs(log, e, closed, frames, failures), e.attempt = 1 => e.seq = e.top,
         NEW cl, cl.fresh, NEW n \in Nat, NEW s \in Seq(Nat), Whole(e) => Covered(s, log)
  PROVE  /\ Ahead(log.entries, cl.fresh, n, <<>>, Expired(cl, failures), e)
         /\ Ahead(s, FALSE, n, log.entries, Expired(cl, failures), e)
         /\ \A m \in Nat : m <= e.seq => Reached(m, n, log.entries, <<>>, Expired(cl, failures))
         /\ \A m \in Nat : m <= e.seq /\ Whole(e)
              => Reached(m, n, log.entries, s, Expired(cl, failures))
<1> DEFINE p == log.entries
<1>1. /\ p \in Seq(Nat) /\ Len(p) \in Nat /\ \A i \in 1..Len(p) : p[i] \in Nat
      /\ e.seq \in Nat /\ e.top \in Nat
  BY Sequence DEF StreamType, RunType
<1>2. Len(s) \in Nat /\ \A i \in 1..Len(s) : s[i] \in Nat
  BY Sequence
<1>3. /\ Smooth(p) /\ (Unbroken(e) => Ending(p))
      /\ Has(p, e.seq) \/ (Bare(p) /\ (e.seq > 0 => failures > 0))
  BY DEF LogIs, Unbroken
<1> HIDE DEF p
<1>4. Expired(cl, failures) <=> failures > 0
  BY DEF Expired
<1>5. Follows(p, cl.fresh, n, <<>>)
  <2> SUFFICES ASSUME NEW j \in 1..Len(p), j # 1 PROVE \E i \in 1..j - 1 : Leads(p[i], p[j])
    BY DEF Follows
  <2>1. j - 1 \in 1..Len(p) - 1 /\ j - 1 \in 1..j - 1 /\ (j - 1) + 1 = j
    BY <1>1
  <2>2. Leads(p[j - 1], p[(j - 1) + 1])
    BY <1>3, <2>1 DEF Smooth
  <2> QED
    BY <2>1, <2>2
<1>6. ASSUME NEW m \in Nat, m <= e.seq
      PROVE  m <= n \/ Has(p, m) \/ (Expired(cl, failures) /\ Bare(p))
  <2>1. Has(p, e.seq) => Has(p, m)
    <3> SUFFICES ASSUME NEW i \in 1..Len(p), e.seq <= p[i] PROVE m <= p[i]
      BY DEF Has
    <3>1. p[i] \in Nat
      BY <1>1
    <3> QED
      BY <1>1, <1>6, <3>1
  <2>2. CASE e.seq = 0
    BY <1>6, <2>2
  <2>3. CASE e.seq # 0
    <3>1. e.seq > 0
      BY <1>1, <2>3
    <3> QED
      BY <1>3, <1>4, <2>1, <3>1
  <2> QED
    BY <2>2, <2>3
<1>7. ASSUME Unbroken(e) PROVE Complete(p, Expired(cl, failures), n, <<>>, e.top)
  <2> SUFFICES ASSUME NEW j \in 1..Len(p), p[j] = CLOSE
               PROVE  \/ e.top <= n
                      \/ \E i \in 1..j - 1 : e.top <= p[i]
                      \/ Expired(cl, failures) /\ \A i \in 1..j - 1 : p[i] = CLOSE
    <3>1. Bare(<<>>)
      BY DEF Bare
    <3> QED
      BY <3>1 DEF Complete
  <2>1. e.seq = e.top
    BY <1>7 DEF Unbroken
  <2>2. CASE Has(p, e.seq)
    <3>1. PICK i \in 1..Len(p) : e.seq <= p[i]
      BY <2>2 DEF Has
    <3>2. CASE i < j
      <4>1. i \in 1..j - 1
        BY <1>1, <3>2
      <4> QED
        BY <2>1, <3>1, <4>1
    <3>3. CASE ~(i < j)
      <4>1. p[i] = CLOSE
        <5>1. CASE i = j
          BY <5>1
        <5>2. CASE i # j
          <6>1. j < i
            BY <3>3, <5>2
          <6> QED
            BY <1>3, <1>7, <6>1 DEF Ending
        <5> QED
          BY <5>1, <5>2
      <4>2. e.seq <= 0
        BY <3>1, <4>1 DEF CLOSE
      <4> QED
        BY <1>1, <2>1, <4>2
    <3> QED
      BY <3>2, <3>3
  <2>3. CASE Bare(p) /\ (e.seq > 0 => failures > 0)
    <3>1. CASE e.seq = 0
      BY <2>1, <3>1
    <3>2. CASE e.seq # 0
      <4>1. Expired(cl, failures)
        BY <1>1, <1>4, <2>3, <3>2
      <4>2. \A i \in 1..j - 1 : i \in 1..Len(p)
        BY <1>1
      <4> QED
        BY <2>3, <4>1, <4>2 DEF Bare
    <3> QED
      BY <3>1, <3>2
  <2> QED
    BY <1>3, <2>2, <2>3
<1>8. ASSUME Covered(s, log) PROVE Bare(p) => Bare(s)
  <2> SUFFICES ASSUME Bare(p), NEW i \in 1..Len(s) PROVE s[i] = CLOSE
    BY DEF Bare
  <2>1. s[i] = CLOSE \/ Has(p, s[i])
    BY <1>8 DEF Covered, p
  <2>2. Has(p, s[i]) => s[i] <= 0
    BY DEF Has, Bare, CLOSE
  <2>3. s[i] \in Nat
    BY <1>2
  <2> QED
    BY <2>1, <2>2, <2>3 DEF CLOSE
<1>9. ASSUME Roomy PROVE Follows(s, FALSE, n, p)
  <2> SUFFICES ASSUME NEW j \in 1..Len(s)
               PROVE  s[j] <= n + 1 \/ \E i \in 1..Len(p) : Leads(p[i], s[j])
    BY DEF Follows
  <2>1. s[j] = CLOSE \/ Has(p, s[j])
    BY <1>9 DEF Covered, Whole, p
  <2>2. CASE s[j] = CLOSE
    BY <2>2 DEF CLOSE
  <2>3. CASE Has(p, s[j])
    <3>1. PICK i \in 1..Len(p) : s[j] <= p[i]
      BY <2>3 DEF Has
    <3>2. s[j] <= p[i] + 1
      BY SMTT(40), <1>1, <1>2, <3>1
    <3> QED
      BY <3>2 DEF Leads
  <2> QED
    BY <2>1, <2>2, <2>3
<1>10. ASSUME Unbroken(e) PROVE Complete(s, Expired(cl, failures), n, p, e.top)
  <2>1. Covered(s, log) /\ e.top <= e.seq
    BY <1>1, <1>10 DEF Whole, Unbroken
  <2>2. e.top <= n \/ Has(p, e.top) \/ (Expired(cl, failures) /\ Bare(p))
    BY <1>1, <1>6, <2>1
  <2>3. Bare(p) => \A i \in 1..Len(s) : s[i] = CLOSE
    BY <1>8, <2>1 DEF Bare
  <2> SUFFICES ASSUME NEW j \in 1..Len(s)
               PROVE  \/ e.top <= n \/ Has(p, e.top)
                      \/ Expired(cl, failures) /\ Bare(p) /\ \A i \in 1..j - 1 : s[i] = CLOSE
    BY DEF Complete
  <2>4. \A i \in 1..j - 1 : i \in 1..Len(s)
    BY <1>2
  <2> QED
    BY <2>2, <2>3, <2>4
<1>11. Bare(<<>>)
  BY DEF Bare
<1>12. ASSUME NEW m \in Nat, m <= e.seq PROVE Reached(m, n, p, <<>>, Expired(cl, failures))
  BY <1>6, <1>11, <1>12 DEF Reached
<1>13. ASSUME NEW m \in Nat, m <= e.seq, Whole(e) PROVE Reached(m, n, p, s, Expired(cl, failures))
  BY <1>6, <1>8, <1>13 DEF Reached
<1> QED
  BY <1>5, <1>7, <1>9, <1>10, <1>12, <1>13 DEF Ahead, p

LEMMA ReaderReplayed ==
  ASSUME NEW cl, NEW other, NEW box, NEW rd, NEW rd2, Reading(cl, box, rd), Reading(other, box, rd2),
         cl.pc = "replay", cl.fresh, Moved(cl, other, "paging"), NEW log \in StreamType, NEW e \in RunType,
         NEW closed, NEW frames, NEW keys, NEW listed, NEW failures \in Nat,
         rd2.page = Left(rd, log), rd2.lastSeq = rd.lastSeq, rd2.lastId = log.dropped + Len(log.entries),
         LogIs(log, e, closed, frames, failures), e.attempt = 1 => e.seq = e.top,
         ReaderIs(cl, box, rd, log, e, keys, listed, failures)
  PROVE  ReaderIs(other, box, rd2, log, e, keys, listed, failures)
<1> DEFINE bare == Expired(other, failures)
           n == rd2.lastSeq
           p == log.entries
<1>1. BoxIs(cl, box, rd, log, e, listed)
  BY DEF ReaderIs
<1>2. /\ box.buffer \in Seq(Nat) /\ n \in Nat /\ rd2 \in ReadingType /\ rd \in ReadingType
      /\ Len(box.buffer) \in Nat
  BY ReadingFields, Sequence DEF Reading
<1>3. rd2.page = p
  BY <1>1, <1>2, LeftWhole DEF BoxIs
<1>4. Left(rd2, log) = <<>>
  BY <1>2, LeftNone
<1>5. other.pc = "paging" /\ other.run = cl.run /\ other.last = cl.last /\ other.fresh = TRUE
  BY ReadingFields DEF Moved
<1>6. Whole(e) => Covered(box.buffer, log)
  BY DEF ReaderIs, StartIs
<1>7. e.seq \in Nat /\ Sent(e) \in Nat /\ Sent(e) <= e.seq
  <2>1. e.seq \in Nat
    BY DEF RunType
  <2>2. e.pc = "sending" => e.seq > 0
    BY DEF LogIs
  <2> QED
    BY <2>1, <2>2 DEF Sent
<1>8. /\ Ahead(p, other.fresh, n, <<>>, bare, e)
      /\ Ahead(box.buffer, FALSE, n, p, bare, e)
  BY <1>2, <1>5, <1>6, Replayed
<1>9. /\ Reached(e.seq, n, p, <<>>, bare)
      /\ Whole(e) => Reached(Sent(e), n, p, box.buffer, bare)
  <2>1. /\ \A m \in Nat : m <= e.seq => Reached(m, n, p, <<>>, bare)
        /\ \A m \in Nat : m <= e.seq /\ Whole(e) => Reached(m, n, p, box.buffer, bare)
    BY <1>2, <1>5, <1>6, Replayed
  <2>2. e.seq <= e.seq
    BY <1>7
  <2> QED
    BY <1>7, <2>1, <2>2
<1>10. BoxIs(other, box, rd2, log, e, listed)
  <2>1. Bounded(rd2.page, e)
    BY <1>3 DEF LogIs
  <2>2. rd2.lastId <= log.dropped + Len(log.entries)
    <3>1. log.dropped \in Nat /\ Len(log.entries) \in Nat
      BY Sequence DEF StreamType
    <3> QED
      BY <3>1
  <2> QED
    BY <1>1, <1>5, <2>1, <2>2 DEF BoxIs, Attached
<1>11. PageIs(other, box, rd2, e, failures)
  BY <1>3, <1>8 DEF PageIs
<1>12. UnreadIs(other, box, rd2, log, e, failures)
  <2>1. Ahead(<<>>, other.fresh /\ rd2.page = <<>>, n, rd2.page, bare, e)
    BY DEF Ahead, Follows, Complete
  <2>2. Len(<<>>) <= Len(box.buffer) + IF e.pc = "sending" THEN 1 ELSE 0
    <3> DEFINE l == Len(box.buffer)
    <3>1. l \in Nat /\ Len(<<>>) = 0
      BY <1>2
    <3> HIDE DEF l
    <3>2. Len(<<>>) <= l + 1 /\ Len(<<>>) <= l + 0
      BY <3>1
    <3> QED
      BY <3>2 DEF l
  <2> QED
    BY <1>3, <1>4, <1>9, <2>1, <2>2 DEF UnreadIs
<1>13. LiveIs(other, box, rd2, e, failures, keys)
  <2>1. Ahead(box.buffer, other.fresh /\ rd2.page = <<>>, n, rd2.page, bare, e)
    BY <1>3, <1>8 DEF Ahead, Follows
  <2> QED
    BY <1>3, <1>5, <1>9, <2>1 DEF LiveIs
<1>14. StartIs(other, box, log, e)
  BY <1>5 DEF StartIs
<1> QED
  BY <1>10, <1>11, <1>12, <1>13, <1>14 DEF ReaderIs

LEMMA BoundedTail ==
  ASSUME NEW s \in Seq(Nat), s # <<>>, NEW e, Bounded(s, e)
  PROVE  Bounded(Tail(s), e)
<1>1. /\ Len(s) \in Nat /\ Len(Tail(s)) = Len(s) - 1
      /\ \A i \in 1..Len(s) - 1 : Tail(s)[i] = s[i + 1]
  BY Popped, Sequence
<1>2. \A i \in 1..Len(s) : s[i] <= e.top /\ (s[i] = CLOSE => Closable(e))
  BY DEF Bounded
<1> SUFFICES ASSUME NEW i \in 1..Len(s) - 1 PROVE Tail(s)[i] <= e.top /\ (Tail(s)[i] = CLOSE => Closable(e))
  BY <1>1 DEF Bounded
<1>3. i + 1 \in 1..Len(s)
  BY <1>1
<1> QED
  BY <1>1, <1>2, <1>3

(* The next entry of a page.                                                  *)
LEMMA ReaderPaged ==
  ASSUME NEW cl, NEW other, NEW box, NEW rd, NEW rd2, Reading(cl, box, rd), Reading(other, box, rd2),
         cl.pc \in {"paging", "sweeping"}, other.pc = cl.pc, other.run = cl.run,
         rd.page # <<>>, rd.page[1] # CLOSE, rd2.page = Tail(rd.page), rd2.lastId = rd.lastId,
         rd.lastSeq <= rd2.lastSeq, rd.page[1] <= rd2.lastSeq, other.last = rd2.lastSeq,
         NEW log \in StreamType, NEW e \in RunType, NEW keys, NEW listed, NEW failures,
         ReaderIs(cl, box, rd, log, e, keys, listed, failures)
  PROVE  ReaderIs(other, box, rd2, log, e, keys, listed, failures)
<1> DEFINE n == rd.lastSeq
           k == rd2.lastSeq
           p == rd.page
           z == Tail(p)
           old == Expired(cl, failures)
           now == Expired(other, failures)
           left == Left(rd, log)
<1>1. BoxIs(cl, box, rd, log, e, listed)
  BY DEF ReaderIs
<1>2. /\ box.buffer \in Seq(Nat) /\ n \in Nat /\ k \in Nat /\ p \in Seq(Nat) /\ rd \in ReadingType
  BY ReadingFields DEF Reading
<1>3. Left(rd2, log) = left
  BY DEF Left
<1>4. left \in Seq(Nat)
  BY <1>1, <1>2, LeftIs DEF BoxIs
<1>5. e.top \in Nat /\ e.seq \in Nat /\ Sent(e) \in Nat \cup {-1}
  BY DEF RunType, Sent
<1>6. BoxIs(other, box, rd2, log, e, listed)
  <2>1. Bounded(z, e)
    BY <1>1, <1>2, BoundedTail DEF BoxIs
  <2> QED
    BY <1>1, <2>1 DEF BoxIs, Attached
<1>7. /\ \A free, rest : Follows(p, free, n, <<>>) => Follows(z, rest, k, <<>>)
      /\ \A t \in Nat : \A bare, rest : Complete(p, bare, n, <<>>, t) => Complete(z, rest, k, <<>>, t)
  BY <1>2, Taken
<1>8. ASSUME NEW s \in Seq(Nat)
      PROVE  /\ \A rest : Follows(s, FALSE, n, p) => Follows(s, rest, k, z)
             /\ \A t \in Nat : \A bare, rest : Complete(s, bare, n, p, t) => Complete(s, rest, k, z, t)
             /\ \A m \in Nat : \A bare, rest : Reached(m, n, p, s, bare) => Reached(m, k, z, s, rest)
  BY <1>2, TakenBefore
<1>9. ASSUME NEW s \in Seq(Nat), Ahead(s, cl.fresh /\ p = <<>>, n, p, old, e)
      PROVE  Ahead(s, other.fresh /\ z = <<>>, k, z, now, e)
  <2>1. ASSUME Roomy PROVE Follows(s, other.fresh /\ z = <<>>, k, z)
    <3>1. Follows(s, cl.fresh /\ p = <<>>, n, p)
      BY <1>9, <2>1 DEF Ahead
    <3>2. Follows(s, FALSE, n, p)
      BY <3>1 DEF Follows
    <3> HIDE DEF p, n, k, z
    <3> QED
      BY <1>8, <3>2
  <2>2. ASSUME Unbroken(e) PROVE Complete(s, now, k, z, e.top)
    <3>1. Complete(s, old, n, p, e.top)
      BY <1>9, <2>2 DEF Ahead
    <3> HIDE DEF p, n, k, z, old, now
    <3> QED
      BY <1>5, <1>8, <3>1
  <2> QED
    BY <2>1, <2>2 DEF Ahead
<1>10. PageIs(other, box, rd2, e, failures)
  <2> SUFFICES ASSUME Intact(box) PROVE Ahead(z, other.fresh, k, <<>>, now, e)
    BY DEF PageIs
  <2>1. Ahead(p, cl.fresh, n, <<>>, old, e)
    BY DEF ReaderIs, PageIs
  <2>2. ASSUME Roomy PROVE Follows(z, other.fresh, k, <<>>)
    <3>1. Follows(p, cl.fresh, n, <<>>)
      BY <2>1, <2>2 DEF Ahead
    <3> HIDE DEF p, n, k, z
    <3> QED
      BY <1>7, <3>1
  <2>3. ASSUME Unbroken(e) PROVE Complete(z, now, k, <<>>, e.top)
    <3>1. Complete(p, old, n, <<>>, e.top)
      BY <2>1, <2>3 DEF Ahead
    <3> HIDE DEF p, n, k, z, old, now
    <3> QED
      BY <1>5, <1>7, <3>1
  <2> QED
    BY <2>2, <2>3 DEF Ahead
<1>11. UnreadIs(other, box, rd2, log, e, failures)
  <2> SUFFICES ASSUME cl.pc = "paging", Intact(box)
               PROVE  /\ Ahead(left, other.fresh /\ z = <<>>, k, z, now, e)
                      /\ Reached(e.seq, k, z, left, now)
                      /\ MaxTrouble = 0 /\ ~Over(e) =>
                           Len(left) <= Len(box.buffer) + IF e.pc = "sending" THEN 1 ELSE 0
    BY <1>3 DEF UnreadIs
  <2>1. /\ Ahead(left, cl.fresh /\ p = <<>>, n, p, old, e)
        /\ Reached(e.seq, n, p, left, old)
    BY DEF ReaderIs, UnreadIs
  <2>2. MaxTrouble = 0 /\ ~Over(e) => Len(left) <= Len(box.buffer) + IF e.pc = "sending" THEN 1 ELSE 0
    BY DEF ReaderIs, UnreadIs
  <2>3. Reached(e.seq, k, z, left, now)
    <3> HIDE DEF p, n, k, z, old, now, left
    <3> QED
      BY <1>4, <1>5, <1>8, <2>1
  <2>4. Ahead(left, other.fresh /\ z = <<>>, k, z, now, e)
    BY <1>4, <1>9, <2>1
  <2> QED
    BY <2>2, <2>3, <2>4
<1>12. LiveIs(other, box, rd2, e, failures, keys)
  <2> SUFFICES ASSUME cl.pc = "paging", Intact(box)
               PROVE  /\ Ahead(box.buffer, other.fresh /\ z = <<>>, k, z, now, e)
                      /\ Whole(e) => Reached(Sent(e), k, z, box.buffer, now)
    BY DEF LiveIs
  <2>1. /\ Ahead(box.buffer, cl.fresh /\ p = <<>>, n, p, old, e)
        /\ Whole(e) => Reached(Sent(e), n, p, box.buffer, old)
    BY DEF ReaderIs, LiveIs
  <2>2. Whole(e) => Reached(Sent(e), k, z, box.buffer, now)
    <3>1. Sent(e) = -1 => Reached(Sent(e), k, z, box.buffer, now)
      BY <1>2 DEF Reached
    <3>2. Sent(e) \in Nat => (Whole(e) => Reached(Sent(e), k, z, box.buffer, now))
      <4> HIDE DEF p, n, k, z, old, now
      <4> QED
        BY <1>2, <1>8, <2>1
    <3> QED
      BY <1>5, <3>1, <3>2
  <2>3. Ahead(box.buffer, other.fresh /\ z = <<>>, k, z, now, e)
    BY <1>2, <1>9, <2>1
  <2> QED
    BY <2>2, <2>3
<1>13. StartIs(other, box, log, e)
  BY DEF StartIs
<1> QED
  BY <1>6, <1>10, <1>11, <1>12, <1>13 DEF ReaderIs

(* A closed run is swept; a reader of one that is not waits for a message.      *)
LEMMA ReaderSweeping ==
  ASSUME NEW cl, NEW other, NEW box, NEW rd, NEW rd2, Reading(cl, box, rd), Moved(cl, other, "sweeping"),
         \/ cl.pc = "paging" /\ rd.page = <<>>
         \/ cl.pc = "live" /\ box.buffer = <<>>,
         NEW log \in StreamType, NEW e, NEW keys, cl.run \in keys, NEW listed, NEW failures,
         rd2.page = Left(rd, log), rd2.lastSeq = rd.lastSeq, rd2.lastId = log.dropped + Len(log.entries),
         Bounded(log.entries, e), ReaderIs(cl, box, rd, log, e, keys, listed, failures)
  PROVE  ReaderIs(other, box, rd2, log, e, keys, listed, failures)
<1>1. BoxIs(cl, box, rd, log, e, listed)
  BY DEF ReaderIs
<1>2. BoxIs(other, box, rd2, log, e, listed)
  <2>1. Bounded(rd2.page, e)
    BY <1>1, LeftBounded DEF BoxIs, Reading
  <2>2. rd2.lastId <= log.dropped + Len(log.entries)
    <3>1. log.dropped \in Nat /\ Len(log.entries) \in Nat
      BY Sequence DEF StreamType
    <3> QED
      BY <3>1
  <2> QED
    BY <1>1, <2>1, <2>2 DEF BoxIs, Moved, Attached
<1>3. PageIs(other, box, rd2, e, failures)
  <2> SUFFICES ASSUME Intact(box)
               PROVE  Ahead(rd2.page, other.fresh, rd2.lastSeq, <<>>, Expired(other, failures), e)
    BY DEF PageIs
  <2>1. CASE cl.pc = "live" /\ box.buffer = <<>>
    <3>1. \E i \in 1..Len(<<>>) : box.buffer[i] = CLOSE
      BY <2>1 DEF ReaderIs, LiveIs
    <3> QED
      BY <3>1
  <2>2. CASE cl.pc = "paging" /\ rd.page = <<>>
    <3>1. Ahead(Left(rd, log), cl.fresh /\ rd.page = <<>>, rd.lastSeq, <<>>, Expired(cl, failures), e)
      BY <2>2 DEF ReaderIs, UnreadIs
    <3>2. other.fresh = cl.fresh /\ (Expired(other, failures) <=> Expired(cl, failures))
      BY DEF Moved, Expired
    <3>3. cl.fresh \in BOOLEAN
      BY ReadingFields
    <3>4. ASSUME Roomy PROVE Follows(Left(rd, log), other.fresh, rd.lastSeq, <<>>)
      <4>1. Follows(Left(rd, log), cl.fresh /\ rd.page = <<>>, rd.lastSeq, <<>>)
        BY <3>1, <3>4 DEF Ahead
      <4> QED
        BY <3>2, <4>1 DEF Follows
    <3>5. ASSUME Unbroken(e)
          PROVE  Complete(Left(rd, log), Expired(other, failures), rd.lastSeq, <<>>, e.top)
      <4>1. Complete(Left(rd, log), Expired(cl, failures), rd.lastSeq, <<>>, e.top)
        BY <3>1, <3>5 DEF Ahead
      <4> QED
        BY <3>2, <4>1 DEF Complete
    <3> QED
      BY <3>4, <3>5 DEF Ahead
  <2> QED
    BY <2>1, <2>2
<1> QED
  BY <1>2, <1>3 DEF ReaderIs, StartIs, UnreadIs, LiveIs, Moved

LEMMA ReaderWaiting ==
  ASSUME NEW cl, NEW other, NEW box, NEW rd, NEW log, Moved(cl, other, "live"),
         \/ cl.pc = "paging" /\ rd.page = <<>>
         \/ cl.pc = "live",
         NEW e, NEW keys, cl.run \notin keys, NEW listed, NEW failures,
         ReaderIs(cl, box, rd, log, e, keys, listed, failures)
  PROVE  ReaderIs(other, box, rd, log, e, keys, listed, failures)
<1>1. rd.page = <<>> /\ cl.pc \in {"paging", "live"}
  BY DEF ReaderIs, BoxIs
<1>2. BoxIs(other, box, rd, log, e, listed)
  BY <1>1 DEF ReaderIs, BoxIs, Moved, Attached
<1>3. LiveIs(other, box, rd, e, failures, keys)
  <2> SUFFICES ASSUME Intact(box)
               PROVE  /\ Ahead(box.buffer, other.fresh /\ rd.page = <<>>, rd.lastSeq, rd.page,
                               Expired(other, failures), e)
                      /\ Whole(e) => Reached(Sent(e), rd.lastSeq, rd.page, box.buffer, Expired(other, failures))
    BY DEF LiveIs, Moved
  <2>1. /\ Ahead(box.buffer, cl.fresh /\ rd.page = <<>>, rd.lastSeq, rd.page, Expired(cl, failures), e)
        /\ Whole(e) => Reached(Sent(e), rd.lastSeq, rd.page, box.buffer, Expired(cl, failures))
    BY <1>1 DEF ReaderIs, LiveIs
  <2>2. other.fresh = cl.fresh
    BY DEF Moved
  <2>3. Expired(other, failures) = Expired(cl, failures)
    BY <2>2 DEF Expired
  <2>4. (other.fresh /\ rd.page = <<>>) = (cl.fresh /\ rd.page = <<>>)
    BY <2>2
  <2> QED
    BY <2>1, <2>3, <2>4
<1> QED
  BY <1>2, <1>3 DEF ReaderIs, StartIs, PageIs, UnreadIs, Moved

(* The next message of a mailbox.                                             *)
LEMMA ReaderTook ==
  ASSUME NEW cl, NEW other, NEW box, NEW box2, NEW rd, NEW rd2, Reading(cl, box, rd),
         Reading(other, box2, rd2), cl.pc = "live", other.pc = "live", other.run = cl.run,
         box.buffer # <<>>, box.buffer[1] # CLOSE, box2.buffer = Tail(box.buffer),
         box2.missed = box.missed, box2.overflowed = box.overflowed,
         rd2.page = rd.page, rd2.lastId = rd.lastId,
         rd.lastSeq <= rd2.lastSeq, box.buffer[1] <= rd2.lastSeq, other.last = rd2.lastSeq,
         NEW log, NEW e \in RunType, NEW keys, NEW listed, NEW failures,
         ReaderIs(cl, box, rd, log, e, keys, listed, failures)
  PROVE  ReaderIs(other, box2, rd2, log, e, keys, listed, failures)
<1> DEFINE n == rd.lastSeq
           k == rd2.lastSeq
           s == box.buffer
           z == Tail(s)
           old == Expired(cl, failures)
           now == Expired(other, failures)
<1>1. BoxIs(cl, box, rd, log, e, listed) /\ rd.page = <<>>
  BY DEF ReaderIs, BoxIs
<1>2. s \in Seq(Nat) /\ n \in Nat /\ k \in Nat
  BY ReadingFields
<1>3. /\ Len(s) \in Nat \ {0} /\ Len(z) = Len(s) - 1
      /\ \A i \in 1..Len(s) - 1 : z[i] = s[i + 1]
  BY <1>2, Popped, Sequence
<1>4. e.top \in Nat /\ Sent(e) \in Nat \cup {-1}
  BY DEF RunType, Sent
<1>5. BoxIs(other, box2, rd2, log, e, listed)
  <2>1. Bounded(z, e)
    BY <1>1, <1>2, BoundedTail DEF BoxIs
  <2>2. Len(z) <= SubscriberBufferFrames
    <3>1. Len(s) <= SubscriberBufferFrames /\ SubscriberBufferFrames \in Nat
      BY <1>1, RedisAssumption DEF BoxIs
    <3> QED
      BY <1>3, <3>1
  <2> QED
    BY <1>1, <2>1, <2>2 DEF BoxIs, Attached
<1>6. /\ \A free, rest : Follows(s, free, n, <<>>) => Follows(z, rest, k, <<>>)
      /\ \A t \in Nat : \A bare, rest : Complete(s, bare, n, <<>>, t) => Complete(z, rest, k, <<>>, t)
      /\ \A m \in Nat : \A bare, rest : Reached(m, n, <<>>, s, bare) => Reached(m, k, <<>>, z, rest)
  BY <1>2, Taken
<1>7. LiveIs(other, box2, rd2, e, failures, keys)
  <2> SUFFICES ASSUME Intact(box)
               PROVE  /\ Ahead(z, other.fresh /\ rd2.page = <<>>, k, <<>>, now, e)
                      /\ Whole(e) => Reached(Sent(e), k, <<>>, z, now)
                      /\ cl.run \in keys => \E i \in 1..Len(z) : z[i] = CLOSE
    BY <1>1 DEF LiveIs, Intact
  <2>1. /\ Ahead(s, cl.fresh /\ rd.page = <<>>, n, <<>>, old, e)
        /\ Whole(e) => Reached(Sent(e), n, <<>>, s, old)
    BY <1>1 DEF ReaderIs, LiveIs
  <2>2. ASSUME Roomy PROVE Follows(z, other.fresh /\ rd2.page = <<>>, k, <<>>)
    <3>1. Follows(s, cl.fresh /\ rd.page = <<>>, n, <<>>)
      BY <2>1, <2>2 DEF Ahead
    <3> HIDE DEF s, n, k, z
    <3> QED
      BY <1>6, <3>1
  <2>3. ASSUME Unbroken(e) PROVE Complete(z, now, k, <<>>, e.top)
    <3>1. Complete(s, old, n, <<>>, e.top)
      BY <2>1, <2>3 DEF Ahead
    <3> HIDE DEF s, n, k, z, old, now
    <3> QED
      BY <1>4, <1>6, <3>1
  <2>4. Whole(e) => Reached(Sent(e), k, <<>>, z, now)
    <3>1. Sent(e) = -1 => Reached(Sent(e), k, <<>>, z, now)
      BY <1>2 DEF Reached
    <3>2. Sent(e) \in Nat => (Whole(e) => Reached(Sent(e), k, <<>>, z, now))
      <4> HIDE DEF s, n, k, z, old, now
      <4> QED
        BY <1>6, <2>1
    <3> QED
      BY <1>4, <3>1, <3>2
  <2>5. cl.run \in keys => \E i \in 1..Len(z) : z[i] = CLOSE
    <3> SUFFICES ASSUME NEW i \in 1..Len(s), s[i] = CLOSE PROVE \E j \in 1..Len(z) : z[j] = CLOSE
      BY DEF ReaderIs, LiveIs
    <3>1. i # 1
      OBVIOUS
    <3> HIDE DEF s, z
    <3>2. i - 1 \in 1..Len(s) - 1 /\ (i - 1) + 1 = i
      BY <1>3, <3>1
    <3>3. z[i - 1] = s[(i - 1) + 1]
      BY <1>3, <3>2
    <3> QED
      BY <1>3, <3>2, <3>3
  <2> QED
    BY <2>2, <2>3, <2>4, <2>5 DEF Ahead
<1> QED
  BY <1>5, <1>7 DEF ReaderIs, StartIs, PageIs, UnreadIs

-----------------------------------------------------------------------------
(* The steps of the Redis bus.                                                *)
LEMMA RedisFacts ==
  ASSUME IInv, driver = "redis"
  PROVE  /\ FeedTypes /\ MemoryTypes /\ RedisTypes
         /\ \A r \in Runs : EngineOK(r) /\ LogOK(r)
         /\ \A c \in Clients : ConnectionOK(c) /\ CompleteOK(c) /\ ReaderOK(c)
<1>1. Types /\ Engines /\ Connections /\ Redis /\ ClosedMeansComplete
  BY DEF IInv
<1>2. \A c \in Clients : CompleteOK(c)
  BY <1>1 DEF ClosedMeansComplete, CompleteOK
<1> QED
  BY <1>1, <1>2 DEF Types, Engines, Connections, Redis, Logs, RedisReaders

(* What holds over the Redis bus makes the invariant hold.                     *)
LEMMA OverRedis ==
  ASSUME IInv, driver = "redis", driver' = driver, UNCHANGED memoryBus, FeedTypes', RedisTypes',
         \A r \in Runs : EngineOK(r)' /\ LogOK(r)',
         \A c \in Clients : ConnectionOK(c)' /\ CompleteOK(c)' /\ ReaderOK(c)'
  PROVE  IInv'
<1>1. MemoryTypes /\ Ordered /\ Unused
  BY DEF IInv, Types, Memory
<1>2. Types' /\ Ordered'
  BY <1>1, MemoryUnchanged DEF Types
<1>3. Unused'
  BY <1>1 DEF Unused, memoryBus
<1>4. Engines' /\ Connections' /\ Redis'
  BY DEF Engines, Connections, Redis, Logs, RedisReaders
<1>5. ClosedMeansComplete'
  BY DEF ClosedMeansComplete, CompleteOK
<1>6. Channels' /\ Capped' /\ MemoryReaders'
  BY DEF Channels, Capped, MemoryReaders
<1> QED
  BY <1>2, <1>3, <1>4, <1>5, <1>6 DEF IInv, Memory

LEMMA LogFields ==
  ASSUME RedisTypes, NEW r \in Runs
  PROVE  /\ stream[r] \in StreamType /\ stream[r].dropped \in Nat /\ stream[r].entries \in Seq(Nat)
         /\ Len(stream[r].entries) \in Nat
BY Sequence DEF RedisTypes, StreamType

LEMMA ReaderFields ==
  ASSUME FeedTypes, RedisTypes, NEW c \in Clients
  PROVE  Reading(client[c], mailbox[c], reading[c])
BY DEF FeedTypes, RedisTypes, Reading

LEMMA EngineSame ==
  ASSUME NEW e
  PROVE  EngineLater(e, e)
BY DEF EngineLater

LEMMA SameIsSame ==
  ASSUME NEW cl
  PROVE  SameReader(cl, cl)
BY DEF SameReader

(* A log, and a reader, that the step passes by.                               *)
LEMMA LogStays ==
  ASSUME FeedTypes, RedisTypes, Onward, NEW r \in Runs, LogOK(r), stream'[r] = stream[r],
         run'[r] \in RunType, EngineLater(run[r], run'[r]),
         r \in closedKey' => r \in closedKey \/ Over(run'[r]),
         r \in closedKey => r \in closedKey' \/ trouble < trouble'
  PROVE  LogOK(r)'
<1>1. /\ run[r] \in RunType /\ stream[r] \in StreamType
      /\ published \in Nat /\ published' \in Nat /\ published <= published'
      /\ trouble \in Nat /\ trouble' \in Nat /\ trouble <= trouble'
  BY FeedAssumption, RunFields, LogFields DEF FeedTypes, Onward
<1>2. LogIs(stream[r], run[r], r \in closedKey, published, trouble)
  BY DEF LogOK
<1>3. LogIs(stream[r], run'[r], r \in closedKey', published', trouble')
  BY <1>1, <1>2, LogLater
<1> QED
  BY <1>3 DEF LogOK

LEMMA ReaderStays ==
  ASSUME FeedTypes, RedisTypes, driver = "redis", Onward, NEW c \in Clients, ConnectionOK(c), ReaderOK(c),
         SameReader(client[c], client'[c]), mailbox'[c] = mailbox[c], reading'[c] = reading[c],
         client[c].pc # "off" =>
           /\ client[c].run \in Runs /\ stream'[client[c].run] = stream[client[c].run]
           /\ run'[client[c].run] \in RunType /\ EngineLater(run[client[c].run], run'[client[c].run])
           /\ client[c].run \in closedKey' => client[c].run \in closedKey
           /\ client[c].pc \in Attached /\ client[c].run \in subscribed => client[c].run \in subscribed'
  PROVE  ReaderOK(c)'
<1>1. client'[c].pc = client[c].pc /\ client'[c].run = client[c].run
  BY DEF SameReader
<1>2. CASE client[c].pc = "off"
  BY <1>1, <1>2 DEF ReaderOK
<1>3. CASE client[c].pc # "off"
  <2>1. PICK r \in Runs : r = client[c].run
    BY <1>3
  <2>2. /\ stream'[r] = stream[r] /\ run'[r] \in RunType /\ EngineLater(run[r], run'[r])
        /\ client[c].run \in closedKey' => client[c].run \in closedKey
        /\ client[c].pc \in Attached /\ client[c].run \in subscribed => client[c].run \in subscribed'
    BY <1>3, <2>1
  <2>3. /\ run[r] \in RunType /\ stream[r] \in StreamType
        /\ trouble \in Nat /\ trouble' \in Nat /\ trouble <= trouble'
    BY FeedAssumption, RunFields, LogFields DEF FeedTypes, Onward
  <2>4. ReaderIs(client[c], mailbox[c], reading[c], stream[r], run[r], closedKey, subscribed, trouble)
    BY <1>3, <2>1 DEF ReaderOK
  <2>5. ReaderIs(client'[c], mailbox[c], reading[c], stream[r], run'[r], closedKey', subscribed', trouble')
    <3>1. Reading(client[c], mailbox[c], reading[c])
      BY ReaderFields
    <3>2. EngineLater(run[r], run'[r]) /\ run'[r] \in RunType
      BY <2>2
    <3> QED
      BY ZenonT(40), <2>2, <2>3, <2>4, <3>1, <3>2, ReaderLater
  <2>6. ReaderIs(client'[c], mailbox'[c], reading'[c], stream'[r], run'[r], closedKey', subscribed', trouble')
    BY <2>2, <2>5
  <2> QED
    BY <1>1, <1>3, <2>1, <2>6 DEF ReaderOK
<1> QED
  BY <1>2, <1>3

LEMMA ReaderRun ==
  ASSUME NEW c \in Clients, ConnectionOK(c), client[c].pc # "off"
  PROVE  client[c].run \in Runs /\ client[c].run \in Served
BY ServedIsRuns DEF ConnectionOK

-----------------------------------------------------------------------------
(* The steps of the feed, over either bus.                                    *)
LEMMA FeedMoved ==
  ASSUME IInv, NEW c \in Clients, FeedTypes', UNCHANGED <<driver, run, published, memoryBus, redisBus>>,
         trouble' \in Nat, trouble <= trouble', \A d \in Clients : d # c => client'[d] = client[d],
         ConnectionOK(c)', CompleteOK(c)',
         client'[c].pc = "live" <=> client[c].pc = "live",
         client[c].pc = "live" => SameReader(client[c], client'[c]),
         driver = "redis" => ReaderOK(c)'
  PROVE  IInv'
<1>1. /\ driver' = driver /\ run' = run /\ published' = published
      /\ channel' = channel /\ closedOrder' = closedOrder /\ finished' = finished /\ cursor' = cursor
      /\ stream' = stream /\ closedKey' = closedKey /\ subscribed' = subscribed
      /\ mailbox' = mailbox /\ reading' = reading
  BY DEF memoryBus, redisBus
<1>2. Types
  BY DEF IInv
<1>3. FeedTypes /\ MemoryTypes /\ RedisTypes
  BY <1>2 DEF Types
<1>4. Onward /\ RunsOnward
  BY <1>1, <1>3, RunsSame, FeedAssumption DEF Onward, FeedTypes
<1>5. RedisTypes'
  BY <1>3, RedisUnchanged
<1>6. \A r \in Runs : run'[r] \in RunType /\ EngineLater(run[r], run'[r])
  BY <1>1, <1>3, EngineSame, RunFields
<1>7. driver \in Drivers
  BY <1>3 DEF FeedTypes
<1>8. CASE driver = "redis"
  <2>1. /\ \A r \in Runs : EngineOK(r) /\ LogOK(r)
        /\ \A d \in Clients : ConnectionOK(d) /\ CompleteOK(d) /\ ReaderOK(d)
    BY <1>8, RedisFacts
  <2>2. \A r \in Runs : EngineOK(r)' /\ LogOK(r)'
    BY <1>1, <1>3, <1>4, <1>6, <2>1, EngineFrame, LogStays
  <2>3. \A d \in Clients : ConnectionOK(d)' /\ CompleteOK(d)'
    <3> TAKE d \in Clients
    <3>1. CASE d # c
      BY <1>1, <1>3, <1>4, <2>1, <3>1, ConnectionFrame, CompleteFrame
    <3> QED
      BY <3>1
  <2>4. \A d \in Clients : ReaderOK(d)'
    <3> TAKE d \in Clients
    <3>1. CASE d # c
      <4>1. SameReader(client[d], client'[d])
        BY <3>1, SameIsSame
      <4>2. client[d].pc # "off" => client[d].run \in Runs
        BY <2>1, ReaderRun
      <4> QED
        BY <1>1, <1>3, <1>4, <1>6, <1>8, <2>1, <4>1, <4>2, ReaderStays
    <3> QED
      BY <1>8, <3>1
  <2> QED
    BY <1>1, <1>5, <1>8, <2>2, <2>3, <2>4, OverRedis
<1>9. CASE driver = "memory"
  <2>1. /\ \A r \in Runs : EngineOK(r) /\ ChannelOK(r)
        /\ \A d \in Clients : ConnectionOK(d) /\ CompleteOK(d) /\ CursorOK(d)
        /\ TotalOrder(closedOrder)
        /\ Cardinality(Retained(closedOrder)) > MaxRetainedRuns => Retained(closedOrder) \subseteq Busy
    BY <1>9, MemoryFacts
  <2>2. \A d \in Clients : client'[d].pc = "live" <=> client[d].pc = "live"
    OBVIOUS
  <2>3. \A d \in Clients : client[d].pc = "live" => SameReader(client[d], client'[d])
    BY SameIsSame
  <2>4. (\A r : Readers(r)' = Readers(r)) /\ Busy' = Busy
    <3>1. \A d \in Clients : client[d].pc = "live" => client'[d].run = client[d].run
      BY <2>3 DEF SameReader
    <3> QED
      BY <2>2, <3>1, SameReaders
  <2>5. \A r \in Runs : EngineOK(r)' /\ ChannelOK(r)'
    BY <1>1, <1>3, <1>4, <2>1, <2>4, EngineFrame, ChannelFrame
  <2>6. \A d \in Clients : ConnectionOK(d)' /\ CompleteOK(d)'
    <3> TAKE d \in Clients
    <3>1. CASE d # c
      BY <1>1, <1>3, <1>4, <2>1, <3>1, ConnectionFrame, CompleteFrame
    <3> QED
      BY <3>1
  <2>7. \A d \in Clients : CursorOK(d)'
    <3> TAKE d \in Clients
    <3>1. CASE client[d].pc = "live"
      BY <1>1, <2>1, <2>3, <3>1, CursorFrame DEF SameReader
    <3>2. CASE client[d].pc # "live"
      BY <2>2, <3>2 DEF CursorOK
    <3> QED
      BY <3>1, <3>2
  <2>8. Types'
    BY <1>1, <1>3, <1>5 DEF Types, MemoryTypes
  <2> QED
    BY <1>1, <1>9, <2>1, <2>4, <2>5, <2>6, <2>7, <2>8, OverMemory
<1> QED
  BY <1>7, <1>8, <1>9 DEF Drivers

LEMMA JoinStep ==
  ASSUME IInv, NEW c \in Clients, NEW r \in Runs, Join(c, r), UNCHANGED <<memoryBus, redisBus>>
  PROVE  IInv'
<1> DEFINE pc == IF Terminal(r) THEN "close" ELSE "subscribe"
           v == [client[c] EXCEPT !.pc = pc, !.run = r, !.fresh = TRUE]
<1>1. /\ r \in Served /\ client[c].pc = "off" /\ client[c].end # "done" /\ client[c].run \in {"none", r}
      /\ client' = [client EXCEPT ![c] = v]
      /\ joins < MaxJoins /\ joins' = joins + 1
      /\ driver' = driver /\ run' = run /\ published' = published /\ trouble' = trouble
  BY DEF Join
<1>2. Types /\ Connections
  BY DEF IInv
<1>3. FeedTypes /\ RedisTypes /\ ConnectionOK(c)
  BY <1>2 DEF Types, Connections
<1>4. /\ client[c] \in ClientType /\ client[c].run \in Runs \cup {"none"} /\ client[c].last \in Nat
      /\ client[c].end \in {"none", "close", "gone", "holed", "behind", "done"}
  BY <1>3, ClientFields
<1>5. /\ v \in ClientType /\ v.pc = pc /\ v.run = r /\ v.fresh = TRUE /\ v.last = client[c].last
      /\ v.end = client[c].end /\ v.left = client[c].left
  BY <1>4 DEF ClientType
<1>6. pc \in {"close", "subscribe"} /\ (pc = "close" => Closable(run[r]))
  BY TerminalIs
<1> HIDE DEF v, pc
<1>7. /\ client' \in [Clients -> ClientType] /\ client'[c] = v
      /\ \A d \in Clients : d # c => client'[d] = client[d]
  BY <1>1, <1>3, <1>5, ClientSet
<1>8. trouble \in Nat /\ trouble' \in Nat /\ trouble <= trouble'
  BY <1>1, <1>3, FeedAssumption DEF FeedTypes
<1>9. FeedTypes'
  <2>1. joins' \in 0..MaxJoins
    BY <1>1, <1>3, FeedAssumption DEF FeedTypes
  <2> QED
    BY <1>1, <1>3, <1>7, <2>1 DEF FeedTypes, Drivers
<1>10. client[c].last <= run[r].top
  <2>1. "none" \notin Runs /\ run[r].top \in Nat
    BY <1>3, RunFields, FeedAssumption DEF Runs
  <2> QED
    BY <1>1, <1>3, <2>1 DEF ConnectionOK
<1>11. client[c].end \notin {"close", "gone", "holed", "behind"}
  BY <1>1, <1>3 DEF ConnectionOK
<1>12. ConnectionOK(c)'
  <2>1. client'[c].run \in Served' /\ client'[c].run = r /\ client'[c].pc = pc
    BY <1>1, <1>5, <1>7 DEF Served
  <2>2. client'[c].last <= run'[r].top /\ client'[c].fresh /\ client'[c].end = client[c].end
    BY <1>1, <1>5, <1>7, <1>10
  <2>3. mailbox' = mailbox
    BY DEF redisBus
  <2>4. client'[c].pc = "close" => Closable(run'[r])
    BY <1>1, <1>6, <2>1
  <2> QED
    BY <1>1, <1>3, <1>6, <1>11, <2>1, <2>2, <2>3, <2>4 DEF ConnectionOK
<1>13. CompleteOK(c)'
  BY <1>5, <1>7, <1>11 DEF CompleteOK
<1>14. client'[c].pc # "live" /\ client[c].pc # "live"
  BY <1>1, <1>5, <1>6, <1>7
<1>15. ASSUME driver = "redis" PROVE ReaderOK(c)'
  <2>1. mailbox[c] = NoMailbox /\ reading[c] = NoReading
    BY <1>1, <1>15, RedisFacts DEF ReaderOK
  <2>2. mailbox'[c] = NoMailbox /\ reading'[c] = NoReading /\ stream' = stream
    BY <2>1 DEF redisBus
  <2>3. client'[c].pc \in {"close", "subscribe", "ending"} /\ client'[c].run = r
    BY <1>5, <1>6, <1>7
  <2>4. stream[r] \in StreamType
    BY <1>3, LogFields
  <2>5. ReaderIs(client'[c], mailbox'[c], reading'[c], stream'[r], run'[r], closedKey', subscribed', trouble')
    BY <2>2, <2>3, <2>4, ReaderIdle
  <2> QED
    BY <2>2, <2>3, <2>5 DEF ReaderOK
<1>16. UNCHANGED <<driver, run, published, memoryBus, redisBus>>
  BY <1>1
<1> QED
  BY <1>7, <1>8, <1>9, <1>12, <1>13, <1>14, <1>15, <1>16, FeedMoved

LEMMA TellStep ==
  ASSUME IInv, NEW c \in Clients, Tell(c), UNCHANGED <<memoryBus, redisBus>>
  PROVE  IInv'
<1> DEFINE end == IF client[c].end \in {"close", "gone"} THEN "done" ELSE "none"
           v == [client[c] EXCEPT !.pc = "off", !.end = end]
<1>1. /\ client[c].pc = "ending"
      /\ client' = [client EXCEPT ![c].pc = "off",
                    ![c].end = IF @ \in {"close", "gone"} THEN "done" ELSE "none"]
      /\ driver' = driver /\ run' = run /\ published' = published /\ trouble' = trouble /\ joins' = joins
  BY DEF Tell
<1>2. Types /\ Connections
  BY DEF IInv
<1>3. FeedTypes /\ RedisTypes /\ ConnectionOK(c)
  BY <1>2 DEF Types, Connections
<1>4. client[c] \in ClientType /\ client \in [Clients -> ClientType]
  BY <1>3, ClientFields DEF FeedTypes
<1>5. client' = [client EXCEPT ![c] = v]
  BY <1>1, <1>4
<1>6. /\ v \in ClientType /\ v.pc = "off" /\ v.run = client[c].run /\ v.fresh = client[c].fresh
      /\ v.last = client[c].last /\ v.end \in {"done", "none"}
  BY <1>4 DEF ClientType
<1> HIDE DEF v, end
<1>7. /\ client' \in [Clients -> ClientType] /\ client'[c] = v
      /\ \A d \in Clients : d # c => client'[d] = client[d]
  BY <1>3, <1>5, <1>6, ClientSet
<1>8. trouble \in Nat /\ trouble' \in Nat /\ trouble <= trouble'
  BY <1>1, <1>3, FeedAssumption DEF FeedTypes
<1>9. FeedTypes'
  BY <1>1, <1>3, <1>7 DEF FeedTypes, Drivers
<1>10. mailbox' = mailbox /\ reading' = reading
  BY DEF redisBus
<1>11. ConnectionOK(c)'
  <2>1. client'[c].pc = "off" /\ client'[c].run = client[c].run /\ client'[c].last = client[c].last
    BY <1>6, <1>7
  <2>2. client'[c].end \notin {"close", "gone", "holed", "behind"}
    BY <1>6, <1>7
  <2> QED
    BY <1>1, <1>3, <1>10, <2>1, <2>2 DEF ConnectionOK
<1>12. CompleteOK(c)'
  BY <1>6, <1>7 DEF CompleteOK
<1>13. client'[c].pc # "live" /\ client[c].pc # "live"
  BY <1>1, <1>6, <1>7
<1>14. ASSUME driver = "redis" PROVE ReaderOK(c)'
  <2>1. ReaderOK(c) /\ ConnectionOK(c) /\ client[c].run \in Runs
    BY <1>1, <1>14, RedisFacts, ReaderRun
  <2>2. BoxIs(client[c], mailbox[c], reading[c], stream[client[c].run], run[client[c].run], subscribed)
    BY <1>1, <2>1 DEF ReaderOK, ReaderIs
  <2>3. mailbox[c] = NoMailbox /\ reading[c] = NoReading
    BY <1>1, <2>2 DEF BoxIs
  <2> QED
    BY <1>6, <1>7, <1>10, <2>3 DEF ReaderOK
<1>15. UNCHANGED <<driver, run, published, memoryBus, redisBus>>
  BY <1>1
<1> QED
  BY <1>7, <1>8, <1>9, <1>11, <1>12, <1>13, <1>14, <1>15, FeedMoved

LEMMA HangUpStep ==
  ASSUME IInv, NEW c \in Clients, HangUp(c), UNCHANGED <<memoryBus, redisBus>>
  PROVE  IInv'
<1> DEFINE v == [client[c] EXCEPT !.left = TRUE]
<1>1. /\ client[c].pc = "live" /\ Trouble
      /\ client' = [client EXCEPT ![c].left = TRUE]
      /\ driver' = driver /\ run' = run /\ published' = published /\ joins' = joins
  BY DEF HangUp
<1>2. Types /\ Connections
  BY DEF IInv
<1>3. FeedTypes /\ MemoryTypes /\ RedisTypes /\ ConnectionOK(c)
  BY <1>2 DEF Types, Connections
<1>4. client[c] \in ClientType /\ client \in [Clients -> ClientType]
  BY <1>3, ClientFields DEF FeedTypes
<1>5. client' = [client EXCEPT ![c] = v]
  BY <1>1, <1>4
<1>6. /\ v \in ClientType /\ v.pc = client[c].pc /\ v.run = client[c].run /\ v.fresh = client[c].fresh
      /\ v.last = client[c].last /\ v.end = client[c].end
  BY <1>4 DEF ClientType
<1> HIDE DEF v
<1>7. /\ client' \in [Clients -> ClientType] /\ client'[c] = v
      /\ \A d \in Clients : d # c => client'[d] = client[d]
  BY <1>3, <1>5, <1>6, ClientSet
<1>8. Onward /\ trouble' \in 0..MaxTrouble
  BY <1>1, <1>3, Troubled
<1>9. FeedTypes'
  BY <1>1, <1>3, <1>7, <1>8 DEF FeedTypes, Drivers
<1>10. mailbox' = mailbox /\ reading' = reading /\ stream' = stream /\ closedKey' = closedKey
       /\ subscribed' = subscribed
  BY DEF redisBus
<1>11. SameReader(client[c], client'[c]) /\ client'[c].end = client[c].end
  BY <1>6, <1>7 DEF SameReader
<1>12. client[c].end # "close"
  BY <1>1, <1>3 DEF ConnectionOK
<1>13. ConnectionOK(c)'
  <2>1. Served' = Served
    BY <1>1 DEF Served
  <2> QED
    BY <1>1, <1>3, <1>10, <1>11, <1>12, <2>1 DEF ConnectionOK, SameReader
<1>14. CompleteOK(c)'
  BY <1>11, <1>12 DEF CompleteOK
<1>15. ASSUME driver = "redis" PROVE ReaderOK(c)'
  <2>1. ReaderOK(c) /\ client[c].run \in Runs
    BY <1>1, <1>15, RedisFacts, ReaderRun
  <2>2. run'[client[c].run] \in RunType /\ EngineLater(run[client[c].run], run'[client[c].run])
    BY <1>1, <1>3, <2>1, EngineSame, RunFields
  <2> QED
    BY <1>3, <1>8, <1>10, <1>11, <1>15, <2>1, <2>2, ReaderStays
<1>16. UNCHANGED <<driver, run, published, memoryBus, redisBus>>
  BY <1>1
<1>17. client'[c].pc = "live" <=> client[c].pc = "live"
  BY <1>6, <1>7
<1>18. trouble' \in Nat /\ trouble <= trouble'
  BY <1>8 DEF Onward
<1> QED
  BY <1>7, <1>9, <1>11, <1>13, <1>14, <1>15, <1>16, <1>17, <1>18, FeedMoved

LEMMA SettleStep ==
  ASSUME IInv, NEW r \in Runs, Settle(r), UNCHANGED <<memoryBus, redisBus>>
  PROVE  IInv'
<1>1. /\ run[r].pc = "running" /\ run' = [run EXCEPT ![r].pc = "settled"]
      /\ driver' = driver /\ client' = client /\ published' = published /\ trouble' = trouble /\ joins' = joins
  BY DEF Settle
<1>2. Types /\ Engines /\ Connections
  BY DEF IInv
<1>3. /\ FeedTypes /\ MemoryTypes /\ RedisTypes /\ driver \in Drivers
      /\ \A s \in Runs : EngineOK(s)
      /\ \A d \in Clients : ConnectionOK(d)
  BY <1>2 DEF Types, Engines, Connections, FeedTypes
<1>4. Onward
  BY <1>1, <1>3, OnwardSame
<1>5. /\ RunsOnward /\ run' \in [Runs -> RunType] /\ run'[r].pc = "settled" /\ run'[r].seq = run[r].seq
      /\ run'[r].top = run[r].top /\ run'[r].attempt = run[r].attempt
      /\ run'[r].row = run[r].row
      /\ \A s \in Runs : s # r => run'[s] = run[s]
      /\ \A s \in Runs : EngineOK(s)' /\ run'[s].seq = run[s].seq
  <2>1. "settled" \in RunPcs
    BY DEF RunPcs
  <2> QED
    BY <1>1, <1>3, <1>4, <2>1, MovedOnward
<1>6. FeedTypes' /\ RedisTypes'
  <2>1. FeedTypes'
    BY <1>1, <1>3, <1>5 DEF FeedTypes, Drivers
  <2> QED
    BY <1>3, <2>1, RedisUnchanged
<1>7. /\ channel' = channel /\ closedOrder' = closedOrder /\ finished' = finished /\ cursor' = cursor
      /\ stream' = stream /\ closedKey' = closedKey /\ subscribed' = subscribed
      /\ mailbox' = mailbox /\ reading' = reading
  BY DEF memoryBus, redisBus
<1>8. \A s \in Runs : run'[s] \in RunType /\ EngineLater(run[s], run'[s])
  <2> TAKE s \in Runs
  <2>1. CASE s # r
    BY <1>5, <2>1, EngineSame
  <2>2. CASE s = r
    BY <1>1, <1>5, <2>2 DEF EngineLater, Over
  <2> QED
    BY <2>1, <2>2
<1>9. CASE driver = "redis"
  <2>1. /\ \A s \in Runs : LogOK(s)
        /\ \A d \in Clients : CompleteOK(d) /\ ReaderOK(d)
    BY <1>9, RedisFacts
  <2>2. \A s \in Runs : LogOK(s)'
    BY <1>3, <1>4, <1>7, <1>8, <2>1, LogStays
  <2>3. \A d \in Clients : ConnectionOK(d)' /\ CompleteOK(d)'
    BY <1>1, <1>3, <1>4, <1>5, <1>6, <1>7, <2>1, ConnectionFrame, CompleteFrame
  <2>4. \A d \in Clients : ReaderOK(d)'
    <3> TAKE d \in Clients
    <3>1. SameReader(client[d], client'[d])
      BY <1>1, SameIsSame
    <3>2. client[d].pc # "off" => client[d].run \in Runs
      BY <1>3, ReaderRun
    <3> QED
      BY <1>3, <1>4, <1>7, <1>8, <1>9, <2>1, <3>1, <3>2, ReaderStays
  <2> QED
    BY <1>1, <1>5, <1>6, <1>9, <2>2, <2>3, <2>4, OverRedis
<1>10. CASE driver = "memory"
  <2>1. /\ \A s \in Runs : ChannelOK(s)
        /\ \A d \in Clients : CompleteOK(d) /\ CursorOK(d)
        /\ TotalOrder(closedOrder)
        /\ Cardinality(Retained(closedOrder)) > MaxRetainedRuns => Retained(closedOrder) \subseteq Busy
    BY <1>10, MemoryFacts
  <2>2. (\A s : Readers(s)' = Readers(s)) /\ Busy' = Busy
    BY <1>1, SameReaders
  <2>3. \A s \in Runs : ChannelOK(s)'
    <3> TAKE s \in Runs
    <3>1. CASE s # r
      BY <1>3, <1>4, <1>5, <1>7, <2>1, <2>2, <3>1, ChannelFrame
    <3>2. CASE s = r
      <4>1. ChannelIs(channel[r], r \in Retained(closedOrder), r \in finished, run[r], Readers(r), trouble = 0)
        BY <2>1 DEF ChannelOK
      <4>2. ChannelIs(channel[r], r \in Retained(closedOrder), r \in finished, run'[r], Readers(r), trouble = 0)
        BY <1>1, <1>5, <4>1 DEF ChannelIs, Closable, Over
      <4>3. r \in Retained(closedOrder)' <=> r \in Retained(closedOrder)
        BY <1>7 DEF Retained
      <4>4. ChannelIs(channel'[r], (r \in Retained(closedOrder))', r \in finished', run'[r], Readers(r)', trouble' = 0)
        BY <1>1, <1>7, <2>2, <4>2, <4>3
      <4> QED
        BY <3>2, <4>4 DEF ChannelOK
    <3> QED
      BY <3>1, <3>2
  <2>4. \A d \in Clients : ConnectionOK(d)' /\ CompleteOK(d)'
    BY <1>1, <1>3, <1>4, <1>5, <1>6, <1>7, <2>1, ConnectionFrame, CompleteFrame
  <2>5. \A d \in Clients : CursorOK(d)'
    <3> TAKE d \in Clients
    <3>1. client[d].pc = "live" => client[d].run \in Runs
      BY <1>3, ReaderRun
    <3> QED
      BY <1>1, <1>5, <1>7, <2>1, <3>1, CursorStays
  <2>6. Types'
    BY <1>3, <1>6, <1>7 DEF Types, MemoryTypes
  <2> QED
    BY <1>1, <1>5, <1>7, <1>10, <2>1, <2>2, <2>3, <2>4, <2>5, <2>6, OverMemory
<1> QED
  BY <1>3, <1>9, <1>10 DEF Drivers

(* A cancel or a deletion takes the row of a run away.                         *)
LEMMA RowStep ==
  ASSUME IInv, NEW r \in Runs, NEW w \in Rows, w # "active", run' = [run EXCEPT ![r].row = w], Trouble,
         UNCHANGED <<driver, client, published, joins, memoryBus, redisBus>>
  PROVE  IInv'
<1>1. /\ driver' = driver /\ client' = client /\ published' = published /\ joins' = joins
      /\ channel' = channel /\ closedOrder' = closedOrder /\ finished' = finished /\ cursor' = cursor
      /\ stream' = stream /\ closedKey' = closedKey /\ subscribed' = subscribed
      /\ mailbox' = mailbox /\ reading' = reading
  BY DEF memoryBus, redisBus
<1>2. Types /\ Engines /\ Connections
  BY DEF IInv
<1>3. /\ FeedTypes /\ MemoryTypes /\ RedisTypes /\ driver \in Drivers
      /\ \A s \in Runs : EngineOK(s)
      /\ \A d \in Clients : ConnectionOK(d)
  BY <1>2 DEF Types, Engines, Connections, FeedTypes
<1>4. /\ Onward /\ trouble' \in 0..MaxTrouble /\ trouble' > 0
  BY <1>1, <1>3, Troubled
<1>5. /\ RunsOnward /\ run' \in [Runs -> RunType] /\ run'[r].pc = run[r].pc /\ run'[r].seq = run[r].seq
      /\ run'[r].top = run[r].top /\ run'[r].attempt = run[r].attempt /\ run'[r].row = w
      /\ \A s \in Runs : s # r => run'[s] = run[s]
      /\ \A s \in Runs : EngineOK(s)' /\ run'[s].seq = run[s].seq
  BY <1>3, <1>4, RowOnward
<1>6. FeedTypes' /\ RedisTypes'
  <2>1. FeedTypes'
    BY <1>1, <1>3, <1>4, <1>5 DEF FeedTypes, Drivers
  <2> QED
    BY <1>3, <2>1, RedisUnchanged
<1>7. \A s \in Runs : run'[s] \in RunType /\ EngineLater(run[s], run'[s])
  <2> TAKE s \in Runs
  <2>1. CASE s # r
    BY <1>5, <2>1, EngineSame
  <2>2. CASE s = r
    BY <1>5, <2>2 DEF EngineLater
  <2> QED
    BY <2>1, <2>2
<1>8. CASE driver = "redis"
  <2>1. /\ \A s \in Runs : LogOK(s)
        /\ \A d \in Clients : CompleteOK(d) /\ ReaderOK(d)
    BY <1>8, RedisFacts
  <2>2. \A s \in Runs : LogOK(s)'
    BY <1>1, <1>3, <1>4, <1>7, <2>1, LogStays
  <2>3. \A d \in Clients : ConnectionOK(d)' /\ CompleteOK(d)'
    BY <1>1, <1>3, <1>4, <1>5, <1>6, <2>1, ConnectionFrame, CompleteFrame
  <2>4. \A d \in Clients : ReaderOK(d)'
    <3> TAKE d \in Clients
    <3>1. SameReader(client[d], client'[d])
      BY <1>1, SameIsSame
    <3>2. client[d].pc # "off" => client[d].run \in Runs
      BY <1>3, ReaderRun
    <3> QED
      BY <1>1, <1>3, <1>4, <1>7, <1>8, <2>1, <3>1, <3>2, ReaderStays
  <2> QED
    BY <1>1, <1>5, <1>6, <1>8, <2>2, <2>3, <2>4, OverRedis
<1>9. CASE driver = "memory"
  <2>1. /\ \A s \in Runs : ChannelOK(s)
        /\ \A d \in Clients : CompleteOK(d) /\ CursorOK(d)
        /\ TotalOrder(closedOrder)
        /\ Cardinality(Retained(closedOrder)) > MaxRetainedRuns => Retained(closedOrder) \subseteq Busy
    BY <1>9, MemoryFacts
  <2>2. (\A s : Readers(s)' = Readers(s)) /\ Busy' = Busy
    BY <1>1, SameReaders
  <2>3. \A s \in Runs : ChannelOK(s)'
    <3> TAKE s \in Runs
    <3>1. CASE s # r
      BY <1>1, <1>3, <1>4, <1>5, <2>1, <2>2, <3>1, ChannelFrame
    <3>2. CASE s = r
      <4>1. ChannelIs(channel[r], r \in Retained(closedOrder), r \in finished, run[r], Readers(r), trouble = 0)
        BY <2>1 DEF ChannelOK
      <4>2. trouble' # 0
        BY <1>4
      <4>3. ChannelIs(channel[r], r \in Retained(closedOrder), r \in finished, run'[r], Readers(r), trouble' = 0)
        BY <1>5, <4>1, <4>2 DEF ChannelIs, Closable, Over
      <4>4. r \in Retained(closedOrder)' <=> r \in Retained(closedOrder)
        BY <1>1 DEF Retained
      <4>5. ChannelIs(channel'[r], (r \in Retained(closedOrder))', r \in finished', run'[r], Readers(r)', trouble' = 0)
        BY <1>1, <2>2, <4>3, <4>4
      <4> QED
        BY <3>2, <4>5 DEF ChannelOK
    <3> QED
      BY <3>1, <3>2
  <2>4. \A d \in Clients : ConnectionOK(d)' /\ CompleteOK(d)'
    BY <1>1, <1>3, <1>4, <1>5, <1>6, <2>1, ConnectionFrame, CompleteFrame
  <2>5. \A d \in Clients : CursorOK(d)'
    <3> TAKE d \in Clients
    <3>1. client[d].pc = "live" => client[d].run \in Runs
      BY <1>3, ReaderRun
    <3> QED
      BY <1>1, <1>5, <2>1, <3>1, CursorStays
  <2>6. Types'
    BY <1>1, <1>3, <1>6 DEF Types, MemoryTypes
  <2> QED
    BY <1>1, <1>5, <1>9, <2>1, <2>2, <2>3, <2>4, <2>5, <2>6, OverMemory
<1> QED
  BY <1>3, <1>8, <1>9 DEF Drivers

LEMMA CancelStep ==
  ASSUME IInv, NEW r \in Runs, Cancel(r), UNCHANGED <<memoryBus, redisBus>>
  PROVE  IInv'
<1>1. PICK w \in {"cancelling", "cancelled"} : run' = [run EXCEPT ![r].row = w]
  BY DEF Cancel
<1>2. w \in Rows /\ w # "active"
  BY DEF Rows
<1>3. Trouble /\ UNCHANGED <<driver, client, published, joins, memoryBus, redisBus>>
  BY DEF Cancel
<1> QED
  BY <1>1, <1>2, <1>3, RowStep

LEMMA DeleteThreadStep ==
  ASSUME IInv, NEW r \in Runs, DeleteThread(r), UNCHANGED <<memoryBus, redisBus>>
  PROVE  IInv'
<1>1. /\ run' = [run EXCEPT ![r].row = "deleting"] /\ Trouble
      /\ UNCHANGED <<driver, client, published, joins, memoryBus, redisBus>>
  BY DEF DeleteThread
<1>2. "deleting" \in Rows /\ "deleting" # "active"
  BY DEF Rows
<1> QED
  BY <1>1, <1>2, RowStep

-----------------------------------------------------------------------------
(* The engine of one run over Redis: the logs and readers of others stay.      *)
LEMMA RedisEngineStep ==
  ASSUME IInv, driver = "redis", UNCHANGED <<memoryBus, client, reading, subscribed>>,
         NEW r \in Runs, Onward, RunsOnward, FeedTypes', RedisTypes', EngineOK(r)', LogOK(r)',
         \A s \in Runs : s # r => /\ run'[s] = run[s] /\ stream'[s] = stream[s]
                                  /\ s \in closedKey' <=> s \in closedKey,
         \A c \in Clients : client[c].pc = "off" \/ client[c].run # r => mailbox'[c] = mailbox[c],
         \A c \in Clients : client[c].pc # "off" /\ client[c].run = r =>
           ReaderIs(client[c], mailbox'[c], reading[c], stream'[r], run'[r], closedKey', subscribed, trouble')
  PROVE  IInv'
<1>1. Types
  BY DEF IInv
<1>2. /\ FeedTypes /\ RedisTypes
      /\ \A s \in Runs : EngineOK(s) /\ LogOK(s)
      /\ \A c \in Clients : ConnectionOK(c) /\ CompleteOK(c) /\ ReaderOK(c)
  BY <1>1, RedisFacts DEF Types
<1>3. client' = client /\ reading' = reading /\ subscribed' = subscribed /\ driver' = driver
  BY DEF Onward
<1>4. \A s \in Runs : EngineOK(s)' /\ LogOK(s)'
  <2> TAKE s \in Runs
  <2>1. CASE s # r
    <3>1. run'[s] \in RunType /\ EngineLater(run[s], run'[s])
      BY <1>2, <2>1, EngineSame, RunFields
    <3> QED
      BY <1>2, <2>1, <3>1, EngineFrame, LogStays
  <2> QED
    BY <2>1
<1>5. \A c \in Clients : ConnectionOK(c)' /\ CompleteOK(c)'
  BY <1>2, <1>3, ConnectionFrame, CompleteFrame
<1>6. \A c \in Clients : ReaderOK(c)'
  <2> TAKE c \in Clients
  <2>1. client[c].pc # "off" => client[c].run \in Runs
    BY <1>2, ReaderRun
  <2>2. CASE client[c].pc = "off"
    BY <1>2, <1>3, <2>2 DEF ReaderOK
  <2>3. CASE client[c].pc # "off" /\ client[c].run = r
    BY <1>3, <2>3 DEF ReaderOK
  <2>4. CASE client[c].pc # "off" /\ client[c].run # r
    <3>1. SameReader(client[c], client'[c])
      BY <1>3, SameIsSame
    <3>2. run'[client[c].run] \in RunType /\ EngineLater(run[client[c].run], run'[client[c].run])
      BY <1>2, <2>1, <2>4, EngineSame, RunFields
    <3>3. mailbox'[c] = mailbox[c] /\ reading'[c] = reading[c]
      BY <1>3, <2>4
    <3>4. stream'[client[c].run] = stream[client[c].run]
          /\ (client[c].run \in closedKey' => client[c].run \in closedKey)
      BY <2>1, <2>4
    <3> QED
      BY <1>2, <1>3, <2>1, <2>4, <3>1, <3>2, <3>3, <3>4, ReaderStays
  <2> QED
    BY <2>2, <2>3, <2>4
<1>7. UNCHANGED memoryBus
  OBVIOUS
<1> QED
  BY <1>3, <1>4, <1>5, <1>6, <1>7, OverRedis

(* A reader over Redis: the engines, the logs and the other readers stay.      *)
LEMMA RedisReaderStep ==
  ASSUME IInv, driver = "redis", UNCHANGED <<memoryBus, run, stream, closedKey>>, Onward,
         NEW c \in Clients, FeedTypes', RedisTypes',
         \A d \in Clients : d # c =>
           /\ client'[d] = client[d] /\ mailbox'[d] = mailbox[d] /\ reading'[d] = reading[d]
           /\ client[d].pc \in Attached /\ client[d].run \in subscribed => client[d].run \in subscribed',
         ConnectionOK(c)', CompleteOK(c)', ReaderOK(c)'
  PROVE  IInv'
<1>1. Types
  BY DEF IInv
<1>2. /\ FeedTypes /\ RedisTypes
      /\ \A s \in Runs : EngineOK(s) /\ LogOK(s)
      /\ \A d \in Clients : ConnectionOK(d) /\ CompleteOK(d) /\ ReaderOK(d)
  BY <1>1, RedisFacts DEF Types
<1>3. run' = run /\ stream' = stream /\ closedKey' = closedKey /\ driver' = driver
  BY DEF Onward
<1>4. RunsOnward
  BY <1>2, <1>3, RunsSame
<1>5. \A s \in Runs : run'[s] \in RunType /\ EngineLater(run[s], run'[s])
  BY <1>2, <1>3, EngineSame, RunFields
<1>6. \A s \in Runs : EngineOK(s)' /\ LogOK(s)'
  BY <1>2, <1>3, <1>5, EngineFrame, LogStays
<1>7. \A d \in Clients : ConnectionOK(d)' /\ CompleteOK(d)'
  <2> TAKE d \in Clients
  <2>1. CASE d # c
    BY <1>2, <1>4, <2>1, ConnectionFrame, CompleteFrame
  <2> QED
    BY <2>1
<1>8. \A d \in Clients : ReaderOK(d)'
  <2> TAKE d \in Clients
  <2>1. CASE d # c
    <3>1. SameReader(client[d], client'[d])
      BY <2>1, SameIsSame
    <3>2. client[d].pc # "off" => client[d].run \in Runs
      BY <1>2, ReaderRun
    <3> QED
      BY <1>2, <1>3, <1>5, <2>1, <3>1, <3>2, ReaderStays
  <2> QED
    BY <2>1
<1>9. UNCHANGED memoryBus
  OBVIOUS
<1> QED
  BY <1>3, <1>6, <1>7, <1>8, <1>9, OverRedis

-----------------------------------------------------------------------------
(* XADD and PUBLISH.                                                          *)
LEMMA Added ==
  ASSUME RedisTypes, NEW r \in Runs, NEW x \in Nat, NEW cap \in Nat \ {0}, XAdd(r, x, cap)
  PROVE  /\ stream' \in [Runs -> StreamType]
         /\ \A s \in Runs : s # r => stream'[s] = stream[s]
         /\ \E k \in Nat : Lengthened(stream'[r], stream[r], x, cap, k)
<1>1. stream \in [Runs -> StreamType] /\ stream[r] \in StreamType
  BY DEF RedisTypes
<1>2. stream' = [stream EXCEPT ![r] = LogAfter(stream[r], x, cap)]
  BY <1>1 DEF XAdd, LogAfter
<1>3. stream'[r] = LogAfter(stream[r], x, cap)
  BY <1>1, <1>2
<1>4. PICK k \in Nat : Lengthened(stream'[r], stream[r], x, cap, k)
  BY <1>1, <1>3, LogLengthened
<1>5. stream'[r] \in StreamType
  BY <1>4 DEF Lengthened
<1>6. stream' \in [Runs -> StreamType]
  BY <1>1, <1>2, <1>3, <1>5
<1> QED
  BY <1>1, <1>2, <1>4, <1>6

LEMMA AddedClose ==
  ASSUME RedisTypes, NEW r \in Runs, XAdd(r, CLOSE, Len(stream[r].entries) + 1)
  PROVE  /\ stream' \in [Runs -> StreamType]
         /\ \A s \in Runs : s # r => stream'[s] = stream[s]
         /\ Lengthened(stream'[r], stream[r], CLOSE, Len(stream[r].entries) + 1, 0)
<1> DEFINE cap == Len(stream[r].entries) + 1
<1>1. Len(stream[r].entries) \in Nat /\ cap \in Nat \ {0} /\ CLOSE \in Nat
  BY LogFields DEF CLOSE
<1>2. XAdd(r, CLOSE, cap)
  OBVIOUS
<1> HIDE DEF cap
<1>3. PICK k \in Nat : Lengthened(stream'[r], stream[r], CLOSE, cap, k)
  BY <1>1, <1>2, Added
<1>4. cap = Len(stream[r].entries) + 1
  BY DEF cap
<1>5. k = 0
  BY <1>1, <1>3, <1>4 DEF Lengthened
<1> QED
  BY <1>1, <1>2, <1>3, <1>4, <1>5, Added

(* A PUBLISH reaches every mailbox on the channel, or is a loss to those who   *)
(* depend on it: a reader past its replay is on the channel.                   *)
LEMMA Published ==
  ASSUME FeedTypes, RedisTypes, driver = "redis", NEW r \in Runs, NEW x \in Nat, Publish(r, x),
         \A c \in Clients : ReaderOK(c)
  PROVE  /\ mailbox' \in [Clients -> MailboxType]
         /\ \A c \in Clients : client[c].pc = "off" \/ client[c].run # r => mailbox'[c] = mailbox[c]
         /\ \A c \in Clients : client[c].pc # "off" /\ client[c].run = r
              => Given(mailbox'[c], mailbox[c], client[c], x)
<1> DEFINE New(c) == IF c \in Listening(r) /\ connected /\ r \in subscribed THEN Push(mailbox[c], x)
                     ELSE [mailbox[c] EXCEPT !.missed = @ \/ (c \in Tailing(r) /\ ~connected)]
<1>1. mailbox' = [c \in Clients |-> New(c)]
  BY DEF Publish
<1>2. ASSUME NEW c \in Clients
      PROVE  /\ New(c) \in MailboxType
             /\ client[c].pc = "off" \/ client[c].run # r => New(c) = mailbox[c]
             /\ client[c].pc # "off" /\ client[c].run = r => Given(New(c), mailbox[c], client[c], x)
  <2>1. /\ mailbox[c] \in MailboxType /\ mailbox[c].buffer \in Seq(Nat)
        /\ mailbox[c].overflowed \in BOOLEAN /\ mailbox[c].missed \in BOOLEAN
    BY DEF RedisTypes, MailboxType
  <2>2. /\ c \in Listening(r) <=> client[c].run = r /\ client[c].pc \notin {"off", "close", "ending"}
        /\ c \in Tailing(r) <=> client[c].run = r /\ client[c].pc \in {"paging", "live"}
    BY DEF Listening, Tailing, Of
  <2>3. CASE c \in Listening(r) /\ connected /\ r \in subscribed
    <3>1. New(c) = Push(mailbox[c], x) /\ client[c].run = r /\ client[c].pc \notin {"off", "close", "ending"}
      BY <2>2, <2>3
    <3> HIDE DEF New
    <3>2. CASE Len(mailbox[c].buffer) >= SubscriberBufferFrames
      <4>1. New(c) = [mailbox[c] EXCEPT !.overflowed = TRUE]
        BY <3>1, <3>2 DEF Push
      <4>2. /\ New(c) \in MailboxType /\ New(c).buffer = mailbox[c].buffer /\ New(c).overflowed
            /\ New(c).missed = mailbox[c].missed
        BY <2>1, <4>1 DEF MailboxType
      <4> QED
        BY <3>1, <4>2 DEF Given, Intact
    <3>3. CASE ~(Len(mailbox[c].buffer) >= SubscriberBufferFrames)
      <4>1. New(c) = [mailbox[c] EXCEPT !.buffer = Append(@, x)]
        BY <3>1, <3>3 DEF Push
      <4>2. Append(mailbox[c].buffer, x) \in Seq(Nat) /\ Len(mailbox[c].buffer) \in Nat
        BY <2>1, Appended, Sequence
      <4>3. New(c) \in MailboxType
        BY <2>1, <4>1, <4>2 DEF MailboxType
      <4>4. Len(mailbox[c].buffer) < SubscriberBufferFrames
        BY <3>3, <4>2, RedisAssumption
      <4> QED
        BY <3>1, <4>1, <4>3, <4>4 DEF Given
    <3> QED
      BY <3>2, <3>3
  <2>4. CASE ~(c \in Listening(r) /\ connected /\ r \in subscribed)
    <3> DEFINE lost == c \in Tailing(r) /\ ~connected
    <3>1. New(c) = [mailbox[c] EXCEPT !.missed = @ \/ lost]
      BY <2>4
    <3>2. lost \in BOOLEAN
      OBVIOUS
    <3>3. lost => client[c].run = r /\ client[c].pc \in {"paging", "live"}
      BY <2>2
    <3>4. client[c].pc \in {"paging", "live"} /\ client[c].run = r => lost
      <4> SUFFICES ASSUME client[c].pc \in {"paging", "live"}, client[c].run = r PROVE lost
        OBVIOUS
      <4>1. c \in Listening(r) /\ c \in Tailing(r)
        BY <2>2
      <4>2. r \in subscribed
        BY DEF ReaderOK, ReaderIs, BoxIs, Attached
      <4> QED
        BY <2>4, <4>1, <4>2
    <3> HIDE DEF New, lost
    <3>5. CASE lost
      <4>1. New(c) = [mailbox[c] EXCEPT !.missed = TRUE]
        BY <2>1, <3>1, <3>2, <3>5
      <4>2. New(c) \in MailboxType /\ New(c).buffer = mailbox[c].buffer /\ New(c).missed
        BY <2>1, <4>1 DEF MailboxType
      <4> QED
        BY <3>3, <3>5, <4>2 DEF Given, Intact
    <3>6. CASE ~lost
      <4>1. New(c) = mailbox[c]
        BY <2>1, <3>1, <3>2, <3>6 DEF MailboxType
      <4> QED
        BY <2>1, <3>4, <3>6, <4>1 DEF Given
    <3> QED
      BY <3>5, <3>6
  <2> QED
    BY <2>3, <2>4
<1> HIDE DEF New
<1>3. mailbox' \in [Clients -> MailboxType] /\ \A c \in Clients : mailbox'[c] = New(c)
  BY <1>1, <1>2
<1> QED
  BY <1>2, <1>3

-----------------------------------------------------------------------------
(* The steps of the engine over Redis.                                        *)
LEMMA RedisPublishStep ==
  ASSUME IInv, NEW r \in Runs, RedisPublish(r), UNCHANGED memoryBus
  PROVE  IInv'
<1> DEFINE e == run[r]
           f == [Numbered(r) EXCEPT !.pc = "sending"]
<1>1. /\ driver = "redis" /\ Number(r) /\ XAdd(r, NextSeq(r), StreamMaxLen)
      /\ run' = [run EXCEPT ![r] = f] /\ run[r].pc = "running" /\ published < MaxFrames
      /\ driver' = driver /\ joins' = joins /\ client' = client /\ trouble' = trouble
      /\ closedKey' = closedKey /\ connected' = connected /\ subscribed' = subscribed
      /\ mailbox' = mailbox /\ reading' = reading /\ published' = published + 1
  BY DEF RedisPublish, Number
<1>2. Types
  BY DEF IInv
<1>3. /\ FeedTypes /\ RedisTypes
      /\ \A s \in Runs : EngineOK(s) /\ LogOK(s)
      /\ \A c \in Clients : ConnectionOK(c) /\ CompleteOK(c) /\ ReaderOK(c)
  BY <1>1, <1>2, RedisFacts DEF Types
<1>4. /\ Numbered(r) \in RunType /\ Numbered(r).pc = "running"
      /\ Numbered(r).seq = run[r].seq + 1 /\ Numbered(r).attempt = run[r].attempt
      /\ Numbered(r).row = run[r].row
      /\ Numbered(r).top = (IF run[r].seq + 1 > run[r].top THEN run[r].seq + 1 ELSE run[r].top)
      /\ run[r].top <= Numbered(r).top /\ Numbered(r).top <= published'
      /\ published' \in 0..MaxFrames /\ Onward
  BY <1>1, <1>3, Numbering
<1>5. /\ run[r] \in RunType /\ run[r].seq \in Nat /\ run[r].top \in Nat /\ run[r].attempt \in Nat \ {0}
      /\ published \in Nat /\ trouble \in 0..MaxTrouble /\ trouble \in Nat /\ MaxFrames \in Nat
      /\ MaxTrouble \in Nat
  BY <1>3, RunFields, FeedAssumption DEF FeedTypes
<1>6. /\ f \in RunType /\ f.pc = "sending" /\ f.seq = Numbered(r).seq /\ f.top = Numbered(r).top
      /\ f.attempt = Numbered(r).attempt /\ f.row = Numbered(r).row
  BY <1>4 DEF RunType
<1> HIDE DEF f
<1>7. /\ run' \in [Runs -> RunType] /\ run'[r] = f
      /\ \A s \in Runs : s # r => run'[s] = run[s]
  BY <1>1, <1>3, <1>6, RunSet
<1>8. /\ f.seq = e.seq + 1 /\ f.attempt = e.attempt /\ e.top <= f.top /\ f.seq <= f.top
      /\ f.top <= published' /\ e.pc = "running" /\ f.seq \in Nat /\ f.row = e.row
  BY <1>1, <1>4, <1>5, <1>6
<1>9. ~Over(run[r])
  BY <1>1 DEF Over
<1>10. EngineOK(r)' /\ RunsOnward
  <2>1. run'[r].top = (IF run[r].seq + 1 > run[r].top THEN run[r].seq + 1 ELSE run[r].top)
    BY <1>4, <1>6, <1>7
  <2>2. run'[r].seq = run[r].seq + 1 /\ run'[r].attempt = run[r].attempt /\ run[r].top <= run'[r].top
        /\ run'[r].top <= published' /\ run'[r].row = run[r].row
    BY <1>7, <1>8
  <2>3. driver = "memory" => run'[r].pc \notin {"sending", "appended"}
    BY <1>1
  <2> HIDE DEF e
  <2> QED
    BY <1>3, <1>4, <1>7, <1>9, <2>1, <2>2, <2>3, NumberedOnward
<1>11. /\ stream' \in [Runs -> StreamType]
       /\ \A s \in Runs : s # r => stream'[s] = stream[s]
       /\ \E k \in Nat : Lengthened(stream'[r], stream[r], f.seq, StreamMaxLen, k)
  <2>1. NextSeq(r) = f.seq
    BY <1>8 DEF NextSeq
  <2>2. StreamMaxLen \in Nat \ {0}
    BY RedisAssumption
  <2> QED
    BY <1>1, <1>3, <1>8, <2>1, <2>2, Added
<1>12. PICK k \in Nat : Lengthened(stream'[r], stream[r], f.seq, StreamMaxLen, k)
  BY <1>11
<1>13. FeedTypes'
  BY <1>1, <1>3, <1>4, <1>7 DEF FeedTypes, Drivers
<1>14. RedisTypes'
  BY <1>1, <1>3, <1>11 DEF RedisTypes
<1>15. stream[r] \in StreamType /\ LogIs(stream[r], e, r \in closedKey, published, trouble)
  BY <1>3, LogFields DEF LogOK
<1>16. LogOK(r)'
  <2>1. LogIs(stream'[r], f, r \in closedKey, published + 1, trouble)
    <3> HIDE DEF e
    <3> QED
      BY <1>5, <1>6, <1>8, <1>12, <1>15, LogNumbered DEF e
  <2> QED
    BY <1>1, <1>7, <2>1 DEF LogOK
<1>17. ASSUME NEW c \in Clients, client[c].pc # "off", client[c].run = r
       PROVE  ReaderIs(client[c], mailbox[c], reading[c], stream'[r], f, closedKey, subscribed, trouble)
  <2>1. ReaderIs(client[c], mailbox[c], reading[c], stream[r], e, closedKey, subscribed, trouble)
    BY <1>3, <1>17 DEF ReaderOK
  <2>2. Reading(client[c], mailbox[c], reading[c])
    BY <1>3, ReaderFields
  <2>3. e.attempt = 1 => e.seq = e.top
    BY <1>3 DEF EngineOK
  <2>4. e.attempt <= trouble + 1 /\ trouble <= MaxTrouble
    BY <1>3, <1>5 DEF EngineOK
  <2>5. /\ Bounded(stream[r].entries, e)
        /\ stream[r].dropped + Len(stream[r].entries) <= published + trouble + 1
    <3>1. Bounded(stream[r].entries, e) /\ ~Over(e)
      BY <1>8, <1>15 DEF LogIs, Over
    <3>2. stream[r].dropped \in Nat /\ Len(stream[r].entries) \in Nat
      BY <1>3, LogFields
    <3>3. stream[r].dropped + Len(stream[r].entries) <= published + trouble + IF r \in closedKey THEN 1 ELSE 0
      BY <1>15, <3>1 DEF LogIs
    <3> QED
      BY <1>5, <3>1, <3>2, <3>3
  <2> HIDE DEF e
  <2> QED
    BY <1>1, <1>5, <1>6, <1>8, <1>12, <1>15, <2>1, <2>2, <2>3, <2>4, <2>5, ReaderNumbered DEF e
<1>18. \A c \in Clients : client[c].pc # "off" /\ client[c].run = r =>
         ReaderIs(client[c], mailbox'[c], reading[c], stream'[r], run'[r], closedKey', subscribed, trouble')
  BY <1>1, <1>7, <1>17
<1> QED
  BY <1>1, <1>4, <1>7, <1>10, <1>11, <1>13, <1>14, <1>16, <1>18, RedisEngineStep

LEMMA RedisSendStep ==
  ASSUME IInv, NEW r \in Runs, RedisSend(r), UNCHANGED memoryBus
  PROVE  IInv'
<1>1. /\ driver = "redis" /\ run[r].pc = "sending" /\ Publish(r, run[r].seq)
      /\ run' = [run EXCEPT ![r].pc = "running"]
      /\ driver' = driver /\ joins' = joins /\ client' = client /\ trouble' = trouble
      /\ closedKey' = closedKey /\ connected' = connected /\ subscribed' = subscribed
      /\ stream' = stream /\ reading' = reading /\ published' = published
  BY DEF RedisSend
<1>2. Types
  BY DEF IInv
<1>3. /\ FeedTypes /\ RedisTypes
      /\ \A s \in Runs : EngineOK(s) /\ LogOK(s)
      /\ \A c \in Clients : ConnectionOK(c) /\ CompleteOK(c) /\ ReaderOK(c)
  BY <1>1, <1>2, RedisFacts DEF Types
<1>4. /\ run[r] \in RunType /\ run[r].seq \in Nat /\ trouble \in Nat /\ stream[r] \in StreamType
  BY <1>3, RunFields, LogFields, FeedAssumption DEF FeedTypes
<1>5. Onward
  BY <1>1, <1>3, OnwardSame
<1>6. ~Over(run[r]) /\ "running" \in RunPcs
  BY <1>1 DEF Over, RunPcs
<1>7. /\ RunsOnward /\ run' \in [Runs -> RunType]
      /\ run'[r].pc = "running" /\ run'[r].seq = run[r].seq /\ run'[r].top = run[r].top
      /\ run'[r].attempt = run[r].attempt /\ run'[r].row = run[r].row
      /\ \A s \in Runs : s # r => run'[s] = run[s]
      /\ \A s \in Runs : EngineOK(s)'
  BY <1>1, <1>3, <1>5, <1>6, MovedOnward
<1>8. /\ mailbox' \in [Clients -> MailboxType]
      /\ \A c \in Clients : client[c].pc = "off" \/ client[c].run # r => mailbox'[c] = mailbox[c]
      /\ \A c \in Clients : client[c].pc # "off" /\ client[c].run = r
           => Given(mailbox'[c], mailbox[c], client[c], run[r].seq)
  BY <1>1, <1>3, <1>4, Published
<1>9. FeedTypes'
  BY <1>1, <1>3, <1>7 DEF FeedTypes, Drivers
<1>10. RedisTypes'
  BY <1>1, <1>3, <1>8 DEF RedisTypes
<1>11. LogIs(stream[r], run[r], r \in closedKey, published, trouble)
  BY <1>3 DEF LogOK
<1>12. run'[r] \in RunType /\ run[r].seq > 0 /\ Has(stream[r].entries, run[r].seq)
  BY <1>1, <1>7, <1>11 DEF LogIs
<1>13. LogOK(r)'
  <2>1. Bounded(stream[r].entries, run'[r])
    <3>1. Bounded(stream[r].entries, run[r]) /\ ~Over(run[r]) /\ stream[r].entries \in Seq(Nat)
      BY <1>1, <1>3, <1>11, LogFields DEF LogIs, Over
    <3> QED
      <4>1. /\ run[r].top \in Nat /\ run[r].top <= run'[r].top
            /\ Closable(run[r]) => Closable(run'[r])
        BY <1>3, <1>6, <1>7, RunFields DEF Closable
      <4> QED
        BY <1>4, <1>12, <3>1, <4>1, BoundedLater
  <2>2. LogIs(stream[r], run'[r], r \in closedKey, published, trouble)
    BY <1>6, <1>7, <1>11, <1>12, <2>1 DEF LogIs, Closable
  <2> QED
    BY <1>1, <2>2 DEF LogOK
<1>14. ASSUME NEW c \in Clients, client[c].pc # "off", client[c].run = r
       PROVE  ReaderIs(client[c], mailbox'[c], reading[c], stream[r], run'[r], closedKey, subscribed, trouble)
  <2>1. ReaderIs(client[c], mailbox[c], reading[c], stream[r], run[r], closedKey, subscribed, trouble)
    BY <1>3, <1>14 DEF ReaderOK
  <2>2. Reading(client[c], mailbox[c], reading[c])
    BY <1>3, ReaderFields
  <2>3. run[r].seq <= run[r].top
    BY <1>3 DEF EngineOK
  <2>4. Given(mailbox'[c], mailbox[c], client[c], run[r].seq)
    BY <1>8, <1>14
  <2> QED
    BY <1>1, <1>4, <1>7, <1>12, <2>1, <2>2, <2>3, <2>4, ReaderSent
<1>15. \A c \in Clients : client[c].pc # "off" /\ client[c].run = r =>
         ReaderIs(client[c], mailbox'[c], reading[c], stream'[r], run'[r], closedKey', subscribed, trouble')
  BY <1>1, <1>14
<1> QED
  BY <1>1, <1>5, <1>7, <1>8, <1>9, <1>10, <1>13, <1>15, RedisEngineStep

(* A reader stays as it is when the engine of its run gets over.               *)
LEMMA ReaderOver ==
  ASSUME NEW cl, NEW box, NEW rd, Reading(cl, box, rd),
         NEW log \in StreamType, NEW e \in RunType, NEW f \in RunType, EngineLater(e, f),
         NEW keys, NEW listed, NEW failures \in Nat,
         ReaderIs(cl, box, rd, log, e, keys, listed, failures)
  PROVE  ReaderIs(cl, box, rd, log, f, keys, listed, failures)
<1>1. SameReader(cl, cl) /\ failures <= failures
  BY SameIsSame
<1>2. /\ cl.run \in keys => cl.run \in keys
      /\ cl.pc \in Attached /\ cl.run \in listed => cl.run \in listed
  OBVIOUS
<1> QED
  BY <1>1, <1>2, ReaderLater

(* A closed run's log and readers, after the last entry or none.               *)
LEMMA RedisCloseAppendStep ==
  ASSUME IInv, NEW r \in Runs, RedisCloseAppend(r), UNCHANGED memoryBus
  PROVE  IInv'
<1> DEFINE pc == IF r \in closedKey THEN "closed" ELSE "appended"
<1>1. /\ driver = "redis" /\ run[r].pc = "settled"
      /\ run' = [run EXCEPT ![r].pc = pc]
      /\ r \in closedKey => stream' = stream
      /\ r \notin closedKey => XAdd(r, CLOSE, Len(stream[r].entries) + 1)
      /\ driver' = driver /\ joins' = joins /\ client' = client /\ trouble' = trouble
      /\ closedKey' = closedKey /\ connected' = connected /\ subscribed' = subscribed
      /\ mailbox' = mailbox /\ reading' = reading /\ published' = published
  BY DEF RedisCloseAppend
<1>2. Types
  BY DEF IInv
<1>3. /\ FeedTypes /\ RedisTypes
      /\ \A s \in Runs : EngineOK(s) /\ LogOK(s)
      /\ \A c \in Clients : ConnectionOK(c) /\ CompleteOK(c) /\ ReaderOK(c)
  BY <1>1, <1>2, RedisFacts DEF Types
<1>4. /\ run[r] \in RunType /\ trouble \in Nat /\ published \in Nat /\ stream[r] \in StreamType
  BY <1>3, RunFields, LogFields, FeedAssumption DEF FeedTypes
<1>5. Onward
  BY <1>1, <1>3, OnwardSame
<1>6. pc \in RunPcs /\ pc \notin {"running", "sending"}
  BY DEF RunPcs
<1> HIDE DEF pc
<1>7. /\ RunsOnward /\ run' \in [Runs -> RunType]
      /\ run'[r].pc = pc /\ run'[r].seq = run[r].seq /\ run'[r].top = run[r].top
      /\ run'[r].attempt = run[r].attempt /\ run'[r].row = run[r].row
      /\ \A s \in Runs : s # r => run'[s] = run[s]
      /\ \A s \in Runs : EngineOK(s)'
  BY <1>1, <1>3, <1>5, <1>6, MovedOnward
<1>8. EngineLater(run[r], run'[r]) /\ run'[r] \in RunType /\ Over(run[r]) /\ Closable(run[r])
  BY <1>1, <1>6, <1>7 DEF EngineLater, Over, Closable
<1>9. /\ stream' \in [Runs -> StreamType]
      /\ \A s \in Runs : s # r => stream'[s] = stream[s]
      /\ \/ stream'[r] = stream[r]
         \/ Lengthened(stream'[r], stream[r], CLOSE, Len(stream[r].entries) + 1, 0)
  <2>1. CASE r \in closedKey
    BY <1>1, <1>3, <2>1 DEF RedisTypes
  <2>2. CASE r \notin closedKey
    BY <1>1, <1>3, <2>2, AddedClose
  <2> QED
    BY <2>1, <2>2
<1>10. FeedTypes'
  BY <1>1, <1>3, <1>7 DEF FeedTypes, Drivers
<1>11. RedisTypes' /\ stream'[r] \in StreamType
  BY <1>1, <1>3, <1>9 DEF RedisTypes
<1>12. LogIs(stream[r], run[r], r \in closedKey, published, trouble)
  BY <1>3 DEF LogOK
<1>13. LogOK(r)'
  <2>1. LogIs(stream'[r], run[r], r \in closedKey, published, trouble)
    <3>1. CASE stream'[r] = stream[r]
      BY <1>12, <3>1
    <3>2. CASE Lengthened(stream'[r], stream[r], CLOSE, Len(stream[r].entries) + 1, 0)
      BY <1>4, <1>8, <1>12, <3>2, LogClosed
    <3> QED
      BY <1>9, <3>1, <3>2
  <2>2. LogIs(stream'[r], run'[r], r \in closedKey, published, trouble)
    BY <1>4, <1>8, <1>11, <2>1, LogLater
  <2> QED
    BY <1>1, <2>2 DEF LogOK
<1>14. ASSUME NEW c \in Clients, client[c].pc # "off", client[c].run = r
       PROVE  ReaderIs(client[c], mailbox[c], reading[c], stream'[r], run'[r], closedKey, subscribed, trouble)
  <2>1. ReaderIs(client[c], mailbox[c], reading[c], stream[r], run[r], closedKey, subscribed, trouble)
    BY <1>3, <1>14 DEF ReaderOK
  <2>2. Reading(client[c], mailbox[c], reading[c])
    BY <1>3, ReaderFields
  <2>3. run[r].attempt = 1 => run[r].seq = run[r].top
    BY <1>3 DEF EngineOK
  <2>4. ReaderIs(client[c], mailbox[c], reading[c], stream'[r], run[r], closedKey, subscribed, trouble)
    <3>1. CASE stream'[r] = stream[r]
      BY <2>1, <3>1
    <3>2. CASE Lengthened(stream'[r], stream[r], CLOSE, Len(stream[r].entries) + 1, 0)
      BY <1>4, <1>8, <2>1, <2>2, <2>3, <3>2, ReaderLogClosed
    <3> QED
      BY <1>9, <3>1, <3>2
  <2> QED
    BY <1>4, <1>8, <1>11, <2>2, <2>4, ReaderOver
<1>15. \A c \in Clients : client[c].pc # "off" /\ client[c].run = r =>
         ReaderIs(client[c], mailbox'[c], reading[c], stream'[r], run'[r], closedKey', subscribed, trouble')
  BY <1>1, <1>14
<1> QED
  BY <1>1, <1>5, <1>7, <1>9, <1>10, <1>11, <1>13, <1>15, RedisEngineStep

LEMMA RedisCloseMarkStep ==
  ASSUME IInv, NEW r \in Runs, RedisCloseMark(r), UNCHANGED memoryBus
  PROVE  IInv'
<1>1. /\ driver = "redis" /\ run[r].pc = "appended" /\ Publish(r, CLOSE)
      /\ run' = [run EXCEPT ![r].pc = "closed"] /\ closedKey' = closedKey \cup {r}
      /\ driver' = driver /\ joins' = joins /\ client' = client /\ trouble' = trouble
      /\ connected' = connected /\ subscribed' = subscribed
      /\ stream' = stream /\ reading' = reading /\ published' = published
  BY DEF RedisCloseMark
<1>2. Types
  BY DEF IInv
<1>3. /\ FeedTypes /\ RedisTypes
      /\ \A s \in Runs : EngineOK(s) /\ LogOK(s)
      /\ \A c \in Clients : ConnectionOK(c) /\ CompleteOK(c) /\ ReaderOK(c)
  BY <1>1, <1>2, RedisFacts DEF Types
<1>4. /\ run[r] \in RunType /\ trouble \in Nat /\ published \in Nat /\ stream[r] \in StreamType
  BY <1>3, RunFields, LogFields, FeedAssumption DEF FeedTypes
<1>5. Onward
  BY <1>1, <1>3, OnwardSame
<1>6. "closed" \in RunPcs
  BY DEF RunPcs
<1>7. /\ RunsOnward /\ run' \in [Runs -> RunType]
      /\ run'[r].pc = "closed" /\ run'[r].seq = run[r].seq /\ run'[r].top = run[r].top
      /\ run'[r].attempt = run[r].attempt /\ run'[r].row = run[r].row
      /\ \A s \in Runs : s # r => run'[s] = run[s]
      /\ \A s \in Runs : EngineOK(s)'
  BY <1>1, <1>3, <1>5, <1>6, MovedOnward
<1>8. EngineLater(run[r], run'[r]) /\ run'[r] \in RunType /\ Over(run[r]) /\ Over(run'[r])
      /\ Closable(run[r]) /\ run[r].pc # "sending"
  BY <1>1, <1>7 DEF EngineLater, Over, Closable
<1>9. /\ mailbox' \in [Clients -> MailboxType]
      /\ \A c \in Clients : client[c].pc = "off" \/ client[c].run # r => mailbox'[c] = mailbox[c]
      /\ \A c \in Clients : client[c].pc # "off" /\ client[c].run = r
           => Given(mailbox'[c], mailbox[c], client[c], CLOSE)
  <2>1. CLOSE \in Nat
    BY DEF CLOSE
  <2> QED
    BY <1>1, <1>3, <2>1, Published
<1>10. FeedTypes'
  BY <1>1, <1>3, <1>7 DEF FeedTypes, Drivers
<1>11. RedisTypes'
  BY <1>1, <1>3, <1>9 DEF RedisTypes
<1>12. LogOK(r)'
  <2>1. stream'[r] = stream[r] /\ (r \in closedKey => r \in closedKey')
    BY <1>1
  <2> QED
    BY <1>3, <1>5, <1>8, <2>1, LogStays
<1>13. ASSUME NEW c \in Clients, client[c].pc # "off", client[c].run = r
       PROVE  ReaderIs(client[c], mailbox'[c], reading[c], stream[r], run'[r], closedKey', subscribed, trouble)
  <2>1. ReaderIs(client[c], mailbox[c], reading[c], stream[r], run[r], closedKey, subscribed, trouble)
    BY <1>3, <1>13 DEF ReaderOK
  <2>2. Reading(client[c], mailbox[c], reading[c]) /\ Reading(client[c], mailbox'[c], reading[c])
    <3>1. mailbox'[c] \in MailboxType
      BY <1>9
    <3> QED
      BY <1>3, <3>1, ReaderFields DEF Reading
  <2>3. run[r].attempt = 1 => run[r].seq = run[r].top
    BY <1>3 DEF EngineOK
  <2>4. ReaderIs(client[c], mailbox'[c], reading[c], stream[r], run[r], closedKey', subscribed, trouble)
    BY <1>4, <1>8, <1>9, <1>13, <2>1, <2>2, <2>3, ReaderMarked
  <2> QED
    BY <1>4, <1>8, <2>2, <2>4, ReaderOver
<1>14. \A c \in Clients : client[c].pc # "off" /\ client[c].run = r =>
         ReaderIs(client[c], mailbox'[c], reading[c], stream'[r], run'[r], closedKey', subscribed, trouble')
  BY <1>1, <1>13
<1>15. \A s \in Runs : s # r => /\ run'[s] = run[s] /\ stream'[s] = stream[s]
                                /\ s \in closedKey' <=> s \in closedKey
  BY <1>1, <1>7
<1> QED
  BY <1>1, <1>5, <1>7, <1>9, <1>10, <1>11, <1>12, <1>14, <1>15, RedisEngineStep

-----------------------------------------------------------------------------
(* Failures and time.                                                         *)
LEMMA ReaderFailed ==
  ASSUME NEW cl, NEW box, NEW rd, Reading(cl, box, rd),
         NEW log \in StreamType, NEW e \in RunType, NEW f \in RunType, EngineLater(e, f),
         NEW keys, NEW listed, NEW failures \in Nat, NEW failures2 \in Nat, failures <= failures2,
         ReaderIs(cl, box, rd, log, e, keys, listed, failures)
  PROVE  ReaderIs(cl, box, rd, log, f, keys, listed, failures2)
<1>1. SameReader(cl, cl)
  BY SameIsSame
<1>2. /\ cl.run \in keys => cl.run \in keys
      /\ cl.pc \in Attached /\ cl.run \in listed => cl.run \in listed
  OBVIOUS
<1> QED
  BY <1>1, <1>2, ReaderLater

LEMMA LogCrashed ==
  ASSUME NEW log \in StreamType, NEW e \in RunType, NEW f \in RunType, ~Over(e),
         f.pc \in {"running", "settled"}, f.seq = 0, f.top = e.top, f.row = e.row, NEW closed,
         NEW frames \in Nat, NEW failures \in Nat, NEW failures2 \in Nat, failures <= failures2,
         LogIs(log, e, closed, frames, failures)
  PROVE  LogIs(log, f, closed, frames, failures2)
<1>1. (Closable(e) => Closable(f)) /\ log.entries \in Seq(Nat) /\ log.dropped \in Nat
  BY DEF Closable, StreamType
<1>2. Bounded(log.entries, f)
  <2>1. e.top <= f.top
    BY DEF RunType
  <2> QED
    BY <1>1, <2>1, BoundedLater DEF LogIs
<1>3. Len(log.entries) \in Nat /\ (\A i \in 1..Len(log.entries) : log.entries[i] \in Nat)
      /\ (log.entries = <<>> <=> Len(log.entries) = 0)
  BY <1>1, Sequence
<1>4. log.entries # <<>> => 0 <= log.entries[Len(log.entries)] /\ Has(log.entries, 0)
  <2> SUFFICES ASSUME log.entries # <<>> PROVE 0 <= log.entries[Len(log.entries)] /\ Has(log.entries, 0)
    OBVIOUS
  <2>1. Len(log.entries) \in 1..Len(log.entries)
    BY <1>3
  <2>2. log.entries[Len(log.entries)] \in Nat
    BY <1>3, <2>1
  <2>3. 0 <= log.entries[Len(log.entries)]
    BY <2>2
  <2> QED
    BY <2>1, <2>3 DEF Has
<1>5. log.entries = <<>> => Bare(log.entries)
  BY <1>3 DEF Bare
<1>6. log.dropped + Len(log.entries) <= frames + failures2 + IF closed THEN 1 ELSE 0
  <2>1. log.dropped + Len(log.entries) <= frames + failures + IF closed THEN 1 ELSE 0
    BY DEF LogIs
  <2> QED
    BY <1>1, <1>3, <2>1
<1>7. f.pc # "sending"
  OBVIOUS
<1> QED
  BY <1>1, <1>2, <1>4, <1>5, <1>6, <1>7 DEF LogIs

LEMMA RedisCrashStep ==
  ASSUME IInv, NEW r \in Runs, RedisCrash(r), UNCHANGED memoryBus
  PROVE  IInv'
<1>1. /\ driver = "redis" /\ Trouble /\ run' = [run EXCEPT ![r] = Recovered(r)]
      /\ driver' = driver /\ joins' = joins /\ client' = client /\ published' = published
      /\ connected' = connected /\ subscribed' = subscribed /\ closedKey' = closedKey
      /\ stream' = stream /\ reading' = reading /\ mailbox' = mailbox
  BY DEF RedisCrash, redisBus
<1>2. Types
  BY DEF IInv
<1>3. /\ FeedTypes /\ RedisTypes
      /\ \A s \in Runs : EngineOK(s) /\ LogOK(s)
      /\ \A c \in Clients : ConnectionOK(c) /\ CompleteOK(c) /\ ReaderOK(c)
  BY <1>1, <1>2, RedisFacts DEF Types
<1>4. /\ run[r] \in RunType /\ published \in Nat /\ stream[r] \in StreamType
      /\ \A s \in Runs : run[s].top \in Nat
  BY <1>3, RunFields, LogFields, FeedAssumption DEF FeedTypes
<1>5. Onward /\ trouble' \in 0..MaxTrouble /\ trouble' # 0 /\ trouble' = trouble + 1 /\ trouble \in Nat
  BY <1>1, <1>3, Troubled
<1>6. /\ trouble' \in Nat /\ trouble <= trouble' /\ MaxTrouble # 0
  BY <1>5, FeedAssumption
<1>7. /\ Recovered(r) \in RunType /\ Recovered(r).top = run[r].top /\ Recovered(r).row = run[r].row
      /\ Over(run[r]) => /\ Over(Recovered(r))
                         /\ Recovered(r).seq = run[r].seq /\ Recovered(r).attempt = run[r].attempt
      /\ ~Over(run[r]) => /\ Recovered(r).pc \in {"running", "settled"} /\ Recovered(r).seq = 0
                          /\ Recovered(r).attempt = run[r].attempt + 1
      /\ Recovered(r).pc \notin {"sending", "appended"}
  BY <1>3, Recovering
<1>8. /\ run' \in [Runs -> RunType] /\ run'[r] = Recovered(r)
      /\ \A s \in Runs : s # r => run'[s] = run[s]
  BY <1>1, <1>3, <1>7, RunSet
<1>9. RunsOnward
  <2> SUFFICES ASSUME NEW s \in Runs
               PROVE  /\ run[s].top <= run'[s].top
                      /\ run'[s].row = "active" => run[s].row = "active"
                      /\ Over(run[s]) => /\ Over(run'[s])
                                         /\ run'[s].top = run[s].top /\ run'[s].attempt = run[s].attempt
    BY DEF RunsOnward
  <2> QED
    BY <1>4, <1>7, <1>8
<1>10. EngineOK(r)'
  BY <1>1, <1>3, <1>8, RecoveredEngine
<1>11. FeedTypes'
  BY <1>1, <1>3, <1>5, <1>8 DEF FeedTypes, Drivers
<1>12. RedisTypes'
  BY <1>1, <1>3 DEF RedisTypes
<1>13. LogIs(stream[r], run[r], r \in closedKey, published, trouble)
  BY <1>3 DEF LogOK
<1>14. ASSUME NEW c \in Clients, client[c].pc # "off", client[c].run = r
       PROVE  /\ ReaderIs(client[c], mailbox[c], reading[c], stream[r], run[r], closedKey, subscribed, trouble)
              /\ Reading(client[c], mailbox[c], reading[c])
  BY <1>3, <1>14, ReaderFields DEF ReaderOK
<1>15. CASE Over(run[r])
  <2>1. EngineLater(run[r], run'[r]) /\ run'[r] \in RunType
    BY <1>1, <1>7, <1>8, <1>15 DEF EngineLater, Over
  <2>2. LogOK(r)'
    BY <1>1, <1>3, <1>5, <2>1, LogStays
  <2>3. ASSUME NEW c \in Clients, client[c].pc # "off", client[c].run = r
        PROVE  ReaderIs(client[c], mailbox[c], reading[c], stream[r], run'[r], closedKey, subscribed, trouble')
    BY <1>4, <1>5, <1>6, <1>14, <2>1, <2>3, ReaderFailed
  <2>4. \A c \in Clients : client[c].pc # "off" /\ client[c].run = r =>
         ReaderIs(client[c], mailbox'[c], reading[c], stream'[r], run'[r], closedKey', subscribed, trouble')
    BY <1>1, <2>3
  <2> QED
    BY <1>1, <1>5, <1>8, <1>9, <1>10, <1>11, <1>12, <2>2, <2>4, RedisEngineStep
<1>16. CASE ~Over(run[r])
  <2>1. /\ run'[r] \in RunType /\ run'[r].pc \in {"running", "settled"} /\ run'[r].seq = 0 /\ run'[r].top = run[r].top
        /\ run'[r].attempt = run[r].attempt + 1 /\ run'[r].row = run[r].row
    BY <1>7, <1>8, <1>16
  <2>2. LogOK(r)'
    <3>1. LogIs(stream[r], run'[r], r \in closedKey, published, trouble')
      BY <1>4, <1>5, <1>6, <1>13, <1>16, <2>1, LogCrashed
    <3> QED
      BY <1>1, <3>1 DEF LogOK
  <2>3. ASSUME NEW c \in Clients, client[c].pc # "off", client[c].run = r
        PROVE  ReaderIs(client[c], mailbox[c], reading[c], stream[r], run'[r], closedKey, subscribed, trouble')
    <3>1. ReaderIs(client[c], mailbox[c], reading[c], stream[r], run'[r], closedKey, subscribed, trouble)
      BY <1>4, <1>5, <1>6, <1>14, <1>16, <2>1, <2>3, ReaderCrashed
    <3>2. EngineLater(run'[r], run'[r])
      BY EngineSame
    <3> QED
      BY <1>4, <1>5, <1>6, <1>14, <2>1, <2>3, <3>1, <3>2, ReaderFailed
  <2>4. \A c \in Clients : client[c].pc # "off" /\ client[c].run = r =>
         ReaderIs(client[c], mailbox'[c], reading[c], stream'[r], run'[r], closedKey', subscribed, trouble')
    BY <1>1, <2>3
  <2> QED
    BY <1>1, <1>5, <1>8, <1>9, <1>10, <1>11, <1>12, <2>2, <2>4, RedisEngineStep
<1> QED
  BY <1>15, <1>16

LEMMA LogExpired ==
  ASSUME NEW log \in StreamType, NEW new \in StreamType, new.entries = <<>>,
         new.dropped + Len(new.entries) = log.dropped + Len(log.entries),
         NEW e, e.pc # "sending", NEW closed, NEW frames \in Nat,
         NEW failures \in Nat, NEW failures2 \in Nat, failures < failures2,
         LogIs(log, e, closed, frames, failures)
  PROVE  LogIs(new, e, closed, frames, failures2)
<1>1. Len(new.entries) = 0
  OBVIOUS
<1>2. Smooth(new.entries) /\ Bounded(new.entries, e) /\ Ending(new.entries) /\ Bare(new.entries)
  BY <1>1 DEF Smooth, Bounded, Ending, Bare
<1>3. log.dropped \in Nat /\ Len(log.entries) \in Nat
  BY Sequence DEF StreamType
<1>4. ~Over(e) => log.dropped + Len(log.entries) <= frames + failures2 + IF closed THEN 1 ELSE 0
  <2>1. ~Over(e) => log.dropped + Len(log.entries) <= frames + failures + IF closed THEN 1 ELSE 0
    BY DEF LogIs
  <2> QED
    BY <1>3, <2>1
<1>5. failures2 > 0
  OBVIOUS
<1> QED
  BY <1>2, <1>4, <1>5 DEF LogIs

LEMMA ExpireStreamStep ==
  ASSUME IInv, NEW r \in Runs, ExpireStream(r), UNCHANGED memoryBus
  PROVE  IInv'
<1> DEFINE new == [dropped |-> stream[r].dropped + Len(stream[r].entries), entries |-> <<>>]
<1>1. /\ driver = "redis" /\ run[r].pc \notin {"sending", "appended"} /\ Trouble
      /\ \A c \in Listening(r) : client[c].pc = "live"
      /\ stream' = [stream EXCEPT ![r] = [dropped |-> @.dropped + Len(@.entries), entries |-> <<>>]]
      /\ driver' = driver /\ joins' = joins /\ client' = client /\ published' = published /\ run' = run
      /\ connected' = connected /\ subscribed' = subscribed /\ closedKey' = closedKey
      /\ reading' = reading /\ mailbox' = mailbox
  BY DEF ExpireStream
<1>2. Types
  BY DEF IInv
<1>3. /\ FeedTypes /\ RedisTypes
      /\ \A s \in Runs : EngineOK(s) /\ LogOK(s)
      /\ \A c \in Clients : ConnectionOK(c) /\ CompleteOK(c) /\ ReaderOK(c)
  BY <1>1, <1>2, RedisFacts DEF Types
<1>4. /\ run[r] \in RunType /\ stream[r] \in StreamType /\ stream[r].dropped \in Nat
      /\ Len(stream[r].entries) \in Nat /\ published \in Nat
  BY <1>3, RunFields, LogFields, FeedAssumption DEF FeedTypes
<1>5. Onward /\ trouble' \in 0..MaxTrouble /\ trouble' # 0 /\ trouble' = trouble + 1 /\ trouble \in Nat
  BY <1>1, <1>3, Troubled
<1>6. trouble' \in Nat /\ trouble \in Nat /\ trouble <= trouble' /\ trouble < trouble'
  BY <1>5
<1>7. /\ new \in StreamType /\ new.entries = <<>>
      /\ new.dropped + Len(new.entries) = stream[r].dropped + Len(stream[r].entries)
  <2>1. stream[r].dropped + Len(stream[r].entries) \in Nat /\ <<>> \in Seq(Nat) /\ Len(<<>>) = 0
    BY <1>4
  <2> QED
    BY <2>1 DEF StreamType
<1>8. stream \in [Runs -> StreamType] /\ stream' = [stream EXCEPT ![r] = new]
  BY <1>1, <1>3 DEF RedisTypes
<1> HIDE DEF new
<1>9. /\ stream' \in [Runs -> StreamType] /\ stream'[r] = new
      /\ \A s \in Runs : s # r => stream'[s] = stream[s]
  BY <1>7, <1>8
<1>10. FeedTypes'
  BY <1>1, <1>3, <1>5 DEF FeedTypes, Drivers
<1>11. RedisTypes'
  BY <1>1, <1>3, <1>9 DEF RedisTypes
<1>12. RunsOnward /\ EngineOK(r)'
  BY <1>1, <1>3, <1>5, RunsSame, EngineFrame
<1>13. LogOK(r)'
  <2>1. LogIs(stream[r], run[r], r \in closedKey, published, trouble)
    BY <1>3 DEF LogOK
  <2>2. LogIs(new, run[r], r \in closedKey, published, trouble')
    BY <1>1, <1>4, <1>6, <1>7, <2>1, LogExpired
  <2> QED
    BY <1>1, <1>9, <2>2 DEF LogOK
<1>14. ASSUME NEW c \in Clients, client[c].pc # "off", client[c].run = r
       PROVE  ReaderIs(client[c], mailbox[c], reading[c], new, run[r], closedKey, subscribed, trouble')
  <2>1. ReaderIs(client[c], mailbox[c], reading[c], stream[r], run[r], closedKey, subscribed, trouble)
    BY <1>3, <1>14 DEF ReaderOK
  <2>2. Reading(client[c], mailbox[c], reading[c])
    BY <1>3, ReaderFields
  <2>3. client[c].pc \in {"close", "ending", "live"}
    BY <1>1, <1>14 DEF Listening, Of
  <2>4. ReaderIs(client[c], mailbox[c], reading[c], new, run[r], closedKey, subscribed, trouble)
    BY <1>7, <2>1, <2>3, ReaderExpired
  <2>5. EngineLater(run[r], run[r])
    BY EngineSame
  <2> QED
    BY <1>4, <1>5, <1>6, <1>7, <2>2, <2>4, <2>5, ReaderFailed
<1>15. \A c \in Clients : client[c].pc # "off" /\ client[c].run = r =>
         ReaderIs(client[c], mailbox'[c], reading[c], stream'[r], run'[r], closedKey', subscribed, trouble')
  BY <1>1, <1>9, <1>14
<1> QED
  BY <1>1, <1>5, <1>9, <1>10, <1>11, <1>12, <1>13, <1>15, RedisEngineStep

LEMMA ExpireClosedKeyStep ==
  ASSUME IInv, NEW r \in Runs, ExpireClosedKey(r), UNCHANGED memoryBus
  PROVE  IInv'
<1>1. /\ driver = "redis" /\ Of(r) = {} /\ Trouble /\ closedKey' = closedKey \ {r}
      /\ driver' = driver /\ joins' = joins /\ client' = client /\ published' = published /\ run' = run
      /\ connected' = connected /\ subscribed' = subscribed /\ stream' = stream
      /\ reading' = reading /\ mailbox' = mailbox
  BY DEF ExpireClosedKey
<1>2. Types
  BY DEF IInv
<1>3. /\ FeedTypes /\ RedisTypes
      /\ \A s \in Runs : EngineOK(s) /\ LogOK(s)
      /\ \A c \in Clients : ConnectionOK(c) /\ CompleteOK(c) /\ ReaderOK(c)
  BY <1>1, <1>2, RedisFacts DEF Types
<1>4. Onward /\ trouble' \in 0..MaxTrouble /\ trouble' = trouble + 1 /\ trouble \in Nat
  BY <1>1, <1>3, Troubled
<1>5. FeedTypes'
  BY <1>1, <1>3, <1>4 DEF FeedTypes, Drivers
<1>6. RedisTypes'
  BY <1>1, <1>3 DEF RedisTypes
<1>7. RunsOnward /\ EngineOK(r)'
  BY <1>1, <1>3, <1>4, RunsSame, EngineFrame
<1>8. LogOK(r)'
  <2>1. run'[r] \in RunType /\ EngineLater(run[r], run'[r])
    BY <1>1, <1>3, EngineSame, RunFields
  <2>2. /\ stream'[r] = stream[r] /\ (r \in closedKey' => r \in closedKey)
        /\ trouble < trouble'
    BY <1>1, <1>4
  <2> QED
    BY <1>3, <1>4, <2>1, <2>2, LogStays
<1>9. \A c \in Clients : ~(client[c].pc # "off" /\ client[c].run = r)
  BY <1>1 DEF Of
<1> QED
  BY <1>1, <1>4, <1>5, <1>6, <1>7, <1>8, <1>9, RedisEngineStep

(* The link goes, or comes back.                                              *)
LEMMA LinkStep ==
  ASSUME IInv, Disconnect \/ Reconnect, UNCHANGED memoryBus
  PROVE  IInv'
<1>1. /\ driver = "redis" /\ connected' \in BOOLEAN /\ (Trouble \/ trouble' = trouble)
      /\ driver' = driver /\ joins' = joins /\ client' = client /\ published' = published /\ run' = run
      /\ subscribed' = subscribed /\ stream' = stream /\ closedKey' = closedKey
      /\ reading' = reading /\ mailbox' = mailbox
  BY DEF Disconnect, Reconnect
<1>2. Types
  BY DEF IInv
<1>3. /\ FeedTypes /\ RedisTypes
      /\ \A s \in Runs : EngineOK(s) /\ LogOK(s)
      /\ \A c \in Clients : ConnectionOK(c) /\ CompleteOK(c) /\ ReaderOK(c)
  BY <1>1, <1>2, RedisFacts DEF Types
<1>4. Onward /\ trouble' \in 0..MaxTrouble
  <2>1. CASE Trouble
    BY <1>1, <1>3, <2>1, Troubled
  <2>2. CASE trouble' = trouble
    BY <1>1, <1>3, <2>2, OnwardSame DEF FeedTypes
  <2> QED
    BY <1>1, <2>1, <2>2
<1>5. FeedTypes'
  BY <1>1, <1>3, <1>4 DEF FeedTypes, Drivers
<1>6. RedisTypes'
  BY <1>1, <1>3 DEF RedisTypes
<1>7. RunsOnward
  BY <1>1, <1>3, RunsSame
<1>8. \A s \in Runs : run'[s] \in RunType /\ EngineLater(run[s], run'[s])
  BY <1>1, <1>3, EngineSame, RunFields
<1>9. \A s \in Runs : EngineOK(s)' /\ LogOK(s)'
  BY <1>1, <1>3, <1>4, <1>8, EngineFrame, LogStays
<1>10. \A c \in Clients : ConnectionOK(c)' /\ CompleteOK(c)'
  BY <1>1, <1>3, <1>4, <1>5, <1>7, ConnectionFrame, CompleteFrame
<1>11. \A c \in Clients : ReaderOK(c)'
  <2> TAKE c \in Clients
  <2>1. SameReader(client[c], client'[c])
    BY <1>1, SameIsSame
  <2>2. client[c].pc # "off" => client[c].run \in Runs
    BY <1>3, ReaderRun
  <2> QED
    BY <1>1, <1>3, <1>4, <1>8, <2>1, <2>2, ReaderStays
<1> QED
  BY <1>1, <1>5, <1>6, <1>9, <1>10, <1>11, OverRedis

-----------------------------------------------------------------------------
(* The steps of a reader over Redis.                                          *)
LEMMA ConnectionMoved ==
  ASSUME FeedTypes, driver = "redis", driver' = driver, run' = run, NEW c \in Clients, ConnectionOK(c),
         client[c].pc # "off", client'[c].run = client[c].run,
         client'[c].last <= run[client[c].run].top, client'[c].pc # "close",
         client'[c].pc \in {"subscribe", "replay"} => client'[c].fresh,
         client'[c].end = "close" => Closable(run[client[c].run]),
         client'[c].end \in {"close", "gone", "holed", "behind"} => client'[c].pc = "ending"
  PROVE  ConnectionOK(c)'
<1>1. Served' = Served /\ client[c].run \in Served /\ client[c].run \in Runs
  BY ReaderRun DEF Served
<1>2. driver' # "memory"
  OBVIOUS
<1>3. client'[c].end = "close" => Closable(run'[client'[c].run])
  OBVIOUS
<1> QED
  BY <1>1, <1>2, <1>3 DEF ConnectionOK

LEMMA ReaderConnection ==
  ASSUME FeedTypes, NEW c \in Clients, ConnectionOK(c), client[c].pc # "off"
  PROVE  /\ client[c].run \in Runs /\ client[c].last <= run[client[c].run].top
         /\ client[c].pc # "ending" => client[c].end \notin {"close", "gone", "holed", "behind"}
BY ReaderRun DEF ConnectionOK

(* The close of a request: where the run is not marked closed, an entry, the   *)
(* mark and a message.                                                        *)
LEMMA ClosedNow ==
  ASSUME FeedTypes, RedisTypes, driver = "redis", NEW r \in Runs, CloseNow(r), \A c \in Clients : ReaderOK(c)
  PROVE  /\ stream' \in [Runs -> StreamType] /\ closedKey' \in SUBSET Runs
         /\ mailbox' \in [Clients -> MailboxType]
         /\ \A s \in Runs : s # r => stream'[s] = stream[s] /\ (s \in closedKey' <=> s \in closedKey)
         /\ \A c \in Clients : client[c].pc = "off" \/ client[c].run # r => mailbox'[c] = mailbox[c]
         /\ \/ stream' = stream /\ closedKey' = closedKey /\ mailbox' = mailbox
            \/ /\ r \notin closedKey /\ r \in closedKey'
               /\ Lengthened(stream'[r], stream[r], CLOSE, Len(stream[r].entries) + 1, 0)
               /\ \A c \in Clients : client[c].pc # "off" /\ client[c].run = r
                                       => Given(mailbox'[c], mailbox[c], client[c], CLOSE)
<1>1. CASE r \in closedKey
  BY <1>1 DEF CloseNow, RedisTypes
<1>2. CASE r \notin closedKey
  <2>1. /\ XAdd(r, CLOSE, Len(stream[r].entries) + 1)
        /\ closedKey' = closedKey \cup {r}
        /\ Publish(r, CLOSE)
    BY <1>2 DEF CloseNow
  <2>2. /\ stream' \in [Runs -> StreamType]
        /\ \A s \in Runs : s # r => stream'[s] = stream[s]
        /\ Lengthened(stream'[r], stream[r], CLOSE, Len(stream[r].entries) + 1, 0)
    BY <2>1, AddedClose
  <2>3. CLOSE \in Nat
    BY DEF CLOSE
  <2>4. /\ mailbox' \in [Clients -> MailboxType]
        /\ \A c \in Clients : client[c].pc = "off" \/ client[c].run # r => mailbox'[c] = mailbox[c]
        /\ \A c \in Clients : client[c].pc # "off" /\ client[c].run = r
             => Given(mailbox'[c], mailbox[c], client[c], CLOSE)
    BY <2>1, <2>3, Published
  <2>5. closedKey' \in SUBSET Runs /\ \A s \in Runs : s # r => (s \in closedKey' <=> s \in closedKey)
    BY <2>1 DEF RedisTypes
  <2> QED
    BY <1>2, <2>1, <2>2, <2>4, <2>5
<1> QED
  BY <1>1, <1>2

LEMMA ClosedNowIs ==
  ASSUME FeedTypes, RedisTypes, driver = "redis", NEW r \in Runs, CloseNow(r), \A c \in Clients : ReaderOK(c),
         EngineOK(r), LogOK(r), Closable(run[r])
  PROVE  /\ LogIs(stream'[r], run[r], r \in closedKey', published, trouble)
         /\ \A c \in Clients : client[c].pc # "off" /\ client[c].run = r =>
              /\ ReaderIs(client[c], mailbox'[c], reading[c], stream'[r], run[r], closedKey', subscribed, trouble)
              /\ Reading(client[c], mailbox'[c], reading[c])
<1>1. /\ run[r] \in RunType /\ trouble \in Nat /\ published \in Nat /\ stream[r] \in StreamType
      /\ run[r].attempt = 1 => run[r].seq = run[r].top
      /\ Over(run[r]) \/ MaxTrouble # 0
  <2>1. Over(run[r]) \/ trouble > 0
    BY DEF EngineOK, Closable
  <2>2. trouble > 0 => MaxTrouble # 0
    BY FeedAssumption DEF FeedTypes
  <2> QED
    BY <2>1, <2>2, RunFields, LogFields, FeedAssumption DEF FeedTypes, EngineOK
<1>2. LogIs(stream[r], run[r], r \in closedKey, published, trouble)
  BY DEF LogOK
<1>3. run[r].pc = "sending" => run[r].seq > 0
  BY <1>2 DEF LogIs
<1>4. /\ stream' \in [Runs -> StreamType] /\ mailbox' \in [Clients -> MailboxType]
      /\ \/ stream' = stream /\ closedKey' = closedKey /\ mailbox' = mailbox
         \/ /\ r \notin closedKey /\ r \in closedKey'
            /\ Lengthened(stream'[r], stream[r], CLOSE, Len(stream[r].entries) + 1, 0)
            /\ \A c \in Clients : client[c].pc # "off" /\ client[c].run = r
                                    => Given(mailbox'[c], mailbox[c], client[c], CLOSE)
  BY ClosedNow
<1>5. ASSUME NEW c \in Clients, client[c].pc # "off", client[c].run = r
      PROVE  /\ ReaderIs(client[c], mailbox[c], reading[c], stream[r], run[r], closedKey, subscribed, trouble)
             /\ Reading(client[c], mailbox[c], reading[c]) /\ Reading(client[c], mailbox'[c], reading[c])
  BY <1>4, <1>5, ReaderFields DEF ReaderOK, Reading
<1>6. CASE stream' = stream /\ closedKey' = closedKey /\ mailbox' = mailbox
  BY <1>2, <1>5, <1>6
<1>7. CASE /\ r \notin closedKey /\ r \in closedKey'
           /\ Lengthened(stream'[r], stream[r], CLOSE, Len(stream[r].entries) + 1, 0)
           /\ \A c \in Clients : client[c].pc # "off" /\ client[c].run = r
                                   => Given(mailbox'[c], mailbox[c], client[c], CLOSE)
  <2>1. LogIs(stream'[r], run[r], r \in closedKey', published, trouble)
    BY <1>1, <1>2, <1>7, LogClosed
  <2>2. ASSUME NEW c \in Clients, client[c].pc # "off", client[c].run = r
        PROVE  ReaderIs(client[c], mailbox'[c], reading[c], stream'[r], run[r], closedKey', subscribed, trouble)
    <3>1. ReaderIs(client[c], mailbox[c], reading[c], stream'[r], run[r], closedKey, subscribed, trouble)
      BY <1>1, <1>5, <1>7, <2>2, ReaderLogClosed
    <3>2. Given(mailbox'[c], mailbox[c], client[c], CLOSE) /\ stream'[r] \in StreamType
      BY <1>4, <1>7, <2>2
    <3> QED
      BY <1>1, <1>3, <1>5, <2>2, <3>1, <3>2, ReaderMarked
  <2> QED
    BY <1>5, <2>1, <2>2
<1> QED
  BY <1>4, <1>6, <1>7

LEMMA RedisWithdrawStep ==
  ASSUME IInv, NEW r \in Runs, RedisWithdraw(r), UNCHANGED memoryBus
  PROVE  IInv'
<1>1. /\ driver = "redis" /\ Withdrawing(r) /\ CloseNow(r) /\ run' = Withdrawn(r)
      /\ driver' = driver /\ published' = published /\ joins' = joins /\ client' = client /\ trouble' = trouble
      /\ connected' = connected /\ subscribed' = subscribed /\ reading' = reading
  BY DEF RedisWithdraw
<1>2. Types
  BY DEF IInv
<1>3. /\ FeedTypes /\ RedisTypes
      /\ \A s \in Runs : EngineOK(s) /\ LogOK(s)
      /\ \A c \in Clients : ReaderOK(c)
  BY <1>1, <1>2, RedisFacts DEF Types
<1>4. Onward
  BY <1>1, <1>3, OnwardSame
<1>5. /\ RunsOnward /\ run' \in [Runs -> RunType] /\ run[r].row # "active" /\ run'[r].row # "active"
      /\ run'[r].pc = run[r].pc /\ run'[r].seq = run[r].seq /\ run'[r].top = run[r].top
      /\ run'[r].attempt = run[r].attempt
      /\ \A s \in Runs : s # r => run'[s] = run[s]
      /\ \A s \in Runs : EngineOK(s)'
  BY <1>1, <1>3, <1>4, WithdrawnOnward
<1>6. Closable(run[r]) /\ EngineLater(run[r], run'[r]) /\ run'[r] \in RunType
  BY <1>5 DEF Closable, EngineLater
<1>7. /\ stream' \in [Runs -> StreamType] /\ closedKey' \in SUBSET Runs
      /\ mailbox' \in [Clients -> MailboxType]
      /\ \A s \in Runs : s # r => stream'[s] = stream[s] /\ (s \in closedKey' <=> s \in closedKey)
      /\ \A c \in Clients : client[c].pc = "off" \/ client[c].run # r => mailbox'[c] = mailbox[c]
  BY <1>1, <1>3, ClosedNow
<1>8. /\ LogIs(stream'[r], run[r], r \in closedKey', published, trouble)
      /\ \A c \in Clients : client[c].pc # "off" /\ client[c].run = r =>
           /\ ReaderIs(client[c], mailbox'[c], reading[c], stream'[r], run[r], closedKey', subscribed, trouble)
           /\ Reading(client[c], mailbox'[c], reading[c])
  BY <1>1, <1>3, <1>6, ClosedNowIs
<1>9. /\ run[r] \in RunType /\ trouble \in Nat /\ published \in Nat /\ stream'[r] \in StreamType
  BY <1>3, <1>7, RunFields, FeedAssumption DEF FeedTypes
<1>10. FeedTypes'
  BY <1>1, <1>3, <1>5 DEF FeedTypes, Drivers
<1>11. RedisTypes'
  BY <1>1, <1>3, <1>7 DEF RedisTypes
<1>12. LogOK(r)'
  <2>1. LogIs(stream'[r], run'[r], r \in closedKey', published, trouble)
    BY <1>6, <1>8, <1>9, LogLater
  <2> QED
    BY <1>1, <2>1 DEF LogOK
<1>13. \A c \in Clients : client[c].pc # "off" /\ client[c].run = r =>
         ReaderIs(client[c], mailbox'[c], reading[c], stream'[r], run'[r], closedKey', subscribed, trouble')
  <2> SUFFICES ASSUME NEW c \in Clients, client[c].pc # "off", client[c].run = r
               PROVE  ReaderIs(client[c], mailbox'[c], reading[c], stream'[r], run'[r], closedKey', subscribed, trouble)
    BY <1>1
  <2> QED
    BY <1>6, <1>8, <1>9, ReaderOver
<1> QED
  BY <1>1, <1>4, <1>5, <1>7, <1>10, <1>11, <1>12, <1>13, RedisEngineStep

LEMMA RedisJoinCloseStep ==
  ASSUME IInv, NEW c \in Clients, RedisJoinClose(c), UNCHANGED memoryBus
  PROVE  IInv'
<1> DEFINE r == client[c].run
<1>1. /\ driver = "redis" /\ client[c].pc = "close"
      /\ CloseNow(r)
      /\ client' = [client EXCEPT ![c].pc = "subscribe"]
      /\ driver' = driver /\ published' = published /\ joins' = joins /\ run' = run /\ trouble' = trouble
      /\ connected' = connected /\ subscribed' = subscribed /\ reading' = reading
  BY DEF RedisJoinClose
<1>2. Types
  BY DEF IInv
<1>3. /\ FeedTypes /\ RedisTypes
      /\ \A s \in Runs : EngineOK(s) /\ LogOK(s)
      /\ \A d \in Clients : ConnectionOK(d) /\ CompleteOK(d) /\ ReaderOK(d)
  BY <1>1, <1>2, RedisFacts DEF Types
<1>4. r \in Runs /\ client[c].last <= run[r].top /\ client[c].end \notin {"close", "gone", "holed", "behind"}
  BY <1>1, <1>3, ReaderConnection
<1>5. Closable(run[r]) /\ client[c].fresh
  BY <1>1, <1>3 DEF ConnectionOK
<1> HIDE DEF r
<1>6. "subscribe" \in ClientPcs /\ CLOSE \in Nat
  BY DEF ClientPcs, CLOSE
<1>7. /\ client' \in [Clients -> ClientType]
      /\ client'[c].pc = "subscribe" /\ client'[c].run = r /\ client'[c].last = client[c].last
      /\ client'[c].fresh = client[c].fresh /\ client'[c].end = client[c].end
      /\ \A d \in Clients : d # c => client'[d] = client[d]
  BY <1>1, <1>3, <1>6, ClientMoved DEF r
<1>8. /\ run[r] \in RunType /\ trouble \in Nat /\ published \in Nat /\ stream[r] \in StreamType
  BY <1>3, <1>4, RunFields, LogFields, FeedAssumption DEF FeedTypes
<1>9. Onward /\ RunsOnward
  BY <1>1, <1>3, OnwardSame, RunsSame
<1>10. /\ stream' \in [Runs -> StreamType] /\ closedKey' \in SUBSET Runs
       /\ mailbox' \in [Clients -> MailboxType]
       /\ \A s \in Runs : s # r => stream'[s] = stream[s] /\ (s \in closedKey' <=> s \in closedKey)
       /\ \A d \in Clients : client[d].pc = "off" \/ client[d].run # r => mailbox'[d] = mailbox[d]
       /\ \/ stream' = stream /\ closedKey' = closedKey /\ mailbox' = mailbox
          \/ \A d \in Clients : client[d].pc # "off" /\ client[d].run = r
                                  => Given(mailbox'[d], mailbox[d], client[d], CLOSE)
  BY <1>1, <1>3, <1>4, ClosedNow
<1>11. FeedTypes'
  BY <1>1, <1>3, <1>7 DEF FeedTypes, Drivers
<1>12. RedisTypes'
  BY <1>1, <1>3, <1>10 DEF RedisTypes
<1>13. \A s \in Runs : run'[s] \in RunType /\ EngineLater(run[s], run'[s])
  BY <1>1, <1>3, EngineSame, RunFields
<1>14. \A s \in Runs : EngineOK(s)' /\ LogOK(s)'
  <2> TAKE s \in Runs
  <2>1. EngineOK(s)'
    BY <1>1, <1>3, <1>9, EngineFrame
  <2>2. CASE s # r
    BY <1>3, <1>9, <1>10, <1>13, <2>1, <2>2, LogStays
  <2>3. CASE s = r
    <3>1. LogIs(stream'[r], run[r], r \in closedKey', published, trouble)
      BY <1>1, <1>3, <1>4, <1>5, ClosedNowIs
    <3> QED
      BY <1>1, <2>1, <2>3, <3>1 DEF LogOK
  <2> QED
    BY <2>2, <2>3
<1>15. \A d \in Clients : ConnectionOK(d)' /\ CompleteOK(d)'
  <2> TAKE d \in Clients
  <2>1. CASE d # c
    BY <1>1, <1>3, <1>7, <1>9, <1>11, <2>1, ConnectionFrame, CompleteFrame
  <2>2. CASE d = c
    <3>1. ConnectionOK(c)'
      BY <1>1, <1>3, <1>4, <1>5, <1>7, ConnectionMoved DEF r
    <3>2. CompleteOK(c)'
      BY <1>4, <1>7 DEF CompleteOK
    <3> QED
      BY <2>2, <3>1, <3>2
  <2> QED
    BY <2>1, <2>2
<1>16. \A d \in Clients : ReaderOK(d)'
  <2> TAKE d \in Clients
  <2>1. client[d].pc # "off" => client[d].run \in Runs
    BY <1>3, ReaderRun
  <2>2. CASE d = c
    <3>1. ReaderIs(client[c], mailbox[c], reading[c], stream[r], run[r], closedKey, subscribed, trouble)
      BY <1>1, <1>3 DEF ReaderOK, r
    <3>2. mailbox[c] = NoMailbox /\ reading[c] = NoReading
      BY <1>1, <3>1 DEF ReaderIs, BoxIs
    <3>3. mailbox'[c] = mailbox[c]
      <4>1. Reading(client[c], mailbox[c], reading[c])
        BY <1>3, ReaderFields
      <4>2. client[c].pc # "off" /\ client[c].run = r /\ client[c].pc \in {"close", "ending"}
        BY <1>1 DEF r
      <4>3. mailbox' = mailbox \/ Given(mailbox'[c], mailbox[c], client[c], CLOSE)
        BY <1>10, <4>2
      <4>4. Given(mailbox'[c], mailbox[c], client[c], CLOSE) => mailbox'[c] = mailbox[c]
        <5> SUFFICES ASSUME Given(mailbox'[c], mailbox[c], client[c], CLOSE) PROVE mailbox'[c] = mailbox[c]
          OBVIOUS
        <5> DEFINE new == mailbox'[c]
        <5>1. Given(new, mailbox[c], client[c], CLOSE)
          OBVIOUS
        <5> HIDE DEF new
        <5>2. new = mailbox[c]
          BY <1>6, <4>1, <4>2, <5>1, GivenBuffer
        <5> QED
          BY <5>2 DEF new
      <4> QED
        BY <4>3, <4>4
    <3>4. reading'[c] = NoReading /\ mailbox'[c] = NoMailbox /\ stream'[r] \in StreamType
      BY <1>1, <1>4, <1>10, <3>2, <3>3
    <3>5. client'[c].pc \in {"close", "subscribe", "ending"}
      BY <1>7
    <3>6. ReaderIs(client'[c], NoMailbox, NoReading, stream'[r], run'[r], closedKey', subscribed', trouble')
      BY <3>4, <3>5, ReaderIdle
    <3> QED
      BY <1>7, <2>2, <3>4, <3>6 DEF ReaderOK
  <2>3. CASE d # c /\ (client[d].pc = "off" \/ client[d].run # r)
    <3>1. SameReader(client[d], client'[d])
      BY <1>7, <2>3, SameIsSame
    <3>2. mailbox'[d] = mailbox[d] /\ reading'[d] = reading[d]
      BY <1>1, <1>10, <2>3
    <3> QED
      BY <1>1, <1>3, <1>9, <1>10, <1>13, <2>1, <2>3, <3>1, <3>2, ReaderStays
  <2>4. CASE d # c /\ client[d].pc # "off" /\ client[d].run = r
    <3>1. ReaderIs(client[d], mailbox'[d], reading[d], stream'[r], run[r], closedKey', subscribed, trouble)
      BY <1>1, <1>3, <1>4, <1>5, <2>4, ClosedNowIs
    <3>2. client'[d] = client[d] /\ reading' = reading /\ run' = run /\ subscribed' = subscribed /\ trouble' = trouble
      BY <1>1, <1>7, <2>4
    <3> QED
      BY <2>4, <3>1, <3>2 DEF ReaderOK
  <2> QED
    BY <2>2, <2>3, <2>4
<1>17. UNCHANGED memoryBus
  OBVIOUS
<1> QED
  BY <1>1, <1>11, <1>12, <1>14, <1>15, <1>16, <1>17, OverRedis

LEMMA ReadingSet ==
  ASSUME RedisTypes, NEW c \in Clients, NEW v \in ReadingType, reading' = [reading EXCEPT ![c] = v]
  PROVE  /\ reading' \in [Clients -> ReadingType] /\ reading'[c] = v
         /\ \A d \in Clients : d # c => reading'[d] = reading[d]
BY DEF RedisTypes

(* XRANGE from after the last id.                                             *)
LEMMA ReadIs ==
  ASSUME RedisTypes, NEW c \in Clients, NEW r \in Runs, client[c].run = r,
         reading[c].lastId <= stream[r].dropped + Len(stream[r].entries), Read(c)
  PROVE  /\ reading' \in [Clients -> ReadingType]
         /\ reading'[c].page = Left(reading[c], stream[r]) /\ reading'[c].lastSeq = reading[c].lastSeq
         /\ reading'[c].lastId = stream[r].dropped + Len(stream[r].entries)
         /\ \A d \in Clients : d # c => reading'[d] = reading[d]
<1> DEFINE page == Left(reading[c], stream[r])
           id == stream[r].dropped + Len(stream[r].entries)
           v == [reading[c] EXCEPT !.page = page, !.lastId = id]
<1>1. reading[c] \in ReadingType /\ stream[r] \in StreamType /\ reading \in [Clients -> ReadingType]
  BY DEF RedisTypes
<1>2. page \in Seq(Nat)
  BY <1>1, LeftIs
<1>3. id \in Nat
  <2>1. stream[r].dropped \in Nat /\ Len(stream[r].entries) \in Nat
    BY LogFields
  <2> QED
    BY <2>1
<1>4. EntriesAfter(r, reading[c].lastId) = page
  BY DEF EntriesAfter, Left
<1>5. reading' = [reading EXCEPT ![c] = v]
  <2>1. reading' = [reading EXCEPT ![c].page = page, ![c].lastId = id]
    BY <1>4 DEF Read
  <2> HIDE DEF page, id
  <2> QED
    BY <1>1, <2>1
<1> HIDE DEF page, id
<1>6. v \in ReadingType /\ v.page = page /\ v.lastId = id /\ v.lastSeq = reading[c].lastSeq
  BY <1>1, <1>2, <1>3 DEF ReadingType
<1> HIDE DEF v
<1>7. /\ reading' \in [Clients -> ReadingType] /\ reading'[c] = v
      /\ \A d \in Clients : d # c => reading'[d] = reading[d]
  BY <1>5, <1>6, ReadingSet
<1> QED
  BY <1>6, <1>7 DEF page, id

LEMMA RedisAttachStep ==
  ASSUME IInv, NEW c \in Clients, RedisAttach(c), UNCHANGED memoryBus
  PROVE  IInv'
<1> DEFINE r == client[c].run
           v == [reading[c] EXCEPT !.lastSeq = client[c].last]
<1>1. /\ driver = "redis" /\ client[c].pc = "subscribe" /\ SubscribeDone(r)
      /\ subscribed' = IF connected THEN subscribed \cup {r} ELSE subscribed
      /\ client' = [client EXCEPT ![c].pc = "replay"]
      /\ reading' = [reading EXCEPT ![c].lastSeq = client[c].last]
      /\ driver' = driver /\ published' = published /\ joins' = joins /\ run' = run /\ trouble' = trouble
      /\ connected' = connected /\ stream' = stream /\ closedKey' = closedKey /\ mailbox' = mailbox
  BY DEF RedisAttach
<1>2. Types
  BY DEF IInv
<1>3. FeedTypes /\ RedisTypes /\ ConnectionOK(c) /\ ReaderOK(c)
  BY <1>1, <1>2, RedisFacts DEF Types
<1>4. /\ r \in Runs /\ client[c].last <= run[r].top /\ client[c].end \notin {"close", "gone", "holed", "behind"}
      /\ client[c].fresh
  BY <1>1, <1>3, ReaderConnection DEF ConnectionOK
<1>5. subscribed' \in SUBSET Runs /\ subscribed \subseteq subscribed' /\ r \in subscribed'
  BY <1>1, <1>3, <1>4 DEF RedisTypes, SubscribeDone
<1>6. reading[c] \in ReadingType /\ client[c].last \in Nat /\ reading \in [Clients -> ReadingType]
  BY <1>3, ClientFields DEF RedisTypes
<1>7. /\ v \in ReadingType /\ v.page = reading[c].page /\ v.lastId = reading[c].lastId
      /\ v.lastSeq = client[c].last /\ reading' = [reading EXCEPT ![c] = v]
  BY <1>1, <1>6 DEF ReadingType
<1> HIDE DEF v, r
<1>8. /\ reading' \in [Clients -> ReadingType] /\ reading'[c] = v
      /\ \A d \in Clients : d # c => reading'[d] = reading[d]
  BY <1>3, <1>7, ReadingSet
<1>9. /\ client' \in [Clients -> ClientType]
      /\ client'[c].pc = "replay" /\ client'[c].run = r /\ client'[c].last = client[c].last
      /\ client'[c].fresh = client[c].fresh /\ client'[c].end = client[c].end
      /\ \A d \in Clients : d # c => client'[d] = client[d]
  <2>1. "replay" \in ClientPcs
    BY DEF ClientPcs
  <2> QED
    BY <1>1, <1>3, <2>1, ClientMoved DEF r
<1>10. Onward
  BY <1>1, <1>3, OnwardSame
<1>11. FeedTypes'
  BY <1>1, <1>3, <1>9 DEF FeedTypes, Drivers
<1>12. RedisTypes'
  BY <1>1, <1>3, <1>5, <1>8 DEF RedisTypes
<1>13. ConnectionOK(c)'
  BY <1>1, <1>3, <1>4, <1>9, ConnectionMoved DEF r
<1>14. CompleteOK(c)'
  BY <1>4, <1>9 DEF CompleteOK
<1>15. ReaderOK(c)'
  <2>1. ReaderIs(client[c], mailbox[c], reading[c], stream[r], run[r], closedKey, subscribed, trouble)
    BY <1>1, <1>3 DEF ReaderOK, r
  <2>2. Reading(client[c], mailbox[c], reading[c]) /\ client[c].run = r
    BY <1>3, ReaderFields DEF r
  <2>3. Moved(client[c], client'[c], "replay")
    BY <1>9 DEF Moved, r
  <2>4. ReaderIs(client'[c], mailbox[c], v, stream[r], run[r], closedKey, subscribed', trouble)
    BY <1>1, <1>5, <1>7, <2>1, <2>2, <2>3, ReaderAttached
  <2> QED
    BY <1>1, <1>8, <1>9, <2>4 DEF ReaderOK
<1>16. \A d \in Clients : d # c =>
           /\ client'[d] = client[d] /\ mailbox'[d] = mailbox[d] /\ reading'[d] = reading[d]
           /\ client[d].pc \in Attached /\ client[d].run \in subscribed => client[d].run \in subscribed'
  BY <1>1, <1>5, <1>8, <1>9
<1> QED
  BY <1>1, <1>10, <1>11, <1>12, <1>13, <1>14, <1>15, <1>16, RedisReaderStep

(* A reader that reads on, and what it reads or how it waits changes.          *)
LEMMA ReadsOn ==
  ASSUME IInv, driver = "redis", UNCHANGED <<memoryBus, run, stream, closedKey, subscribed>>,
         UNCHANGED <<driver, published, joins, trouble, connected>>,
         NEW c \in Clients, client[c].pc \in Attached,
         client' \in [Clients -> ClientType], mailbox' \in [Clients -> MailboxType],
         reading' \in [Clients -> ReadingType],
         \A d \in Clients : d # c =>
           client'[d] = client[d] /\ mailbox'[d] = mailbox[d] /\ reading'[d] = reading[d],
         client'[c].pc \in Attached \ {"replay"}, client'[c].run = client[c].run,
         client'[c].last <= run[client[c].run].top, client'[c].end = client[c].end,
         ReaderIs(client'[c], mailbox'[c], reading'[c], stream[client[c].run], run[client[c].run],
                  closedKey, subscribed, trouble)
  PROVE  IInv'
<1>1. Types
  BY DEF IInv
<1>2. FeedTypes /\ RedisTypes /\ ConnectionOK(c)
  BY <1>1, RedisFacts DEF Types
<1>3. client[c].pc \notin {"off", "ending"} /\ client'[c].pc \notin {"off", "close", "subscribe", "replay", "ending"}
  BY DEF Attached
<1>4. client'[c].end \notin {"close", "gone", "holed", "behind"}
  BY <1>2, <1>3, ReaderConnection
<1>5. FeedTypes'
  BY <1>2 DEF FeedTypes, Drivers
<1>6. RedisTypes'
  BY <1>2 DEF RedisTypes
<1>7. ConnectionOK(c)'
  BY <1>2, <1>3, <1>4, ConnectionMoved
<1>8. CompleteOK(c)'
  BY <1>4 DEF CompleteOK
<1>9. ReaderOK(c)'
  BY <1>3 DEF ReaderOK
<1>10. Onward
  BY <1>2, OnwardSame
<1>11. \A d \in Clients : d # c =>
           /\ client'[d] = client[d] /\ mailbox'[d] = mailbox[d] /\ reading'[d] = reading[d]
           /\ client[d].pc \in Attached /\ client[d].run \in subscribed => client[d].run \in subscribed'
  OBVIOUS
<1> QED
  BY <1>5, <1>6, <1>7, <1>8, <1>9, <1>10, <1>11, RedisReaderStep

LEMMA RedisReplayStep ==
  ASSUME IInv, NEW c \in Clients, RedisReplay(c), UNCHANGED memoryBus
  PROVE  IInv'
<1> DEFINE r == client[c].run
<1>1. /\ driver = "redis" /\ client[c].pc = "replay" /\ Read(c)
      /\ client' = [client EXCEPT ![c].pc = "paging"]
      /\ driver' = driver /\ published' = published /\ joins' = joins /\ run' = run /\ trouble' = trouble
      /\ connected' = connected /\ stream' = stream /\ closedKey' = closedKey /\ mailbox' = mailbox
      /\ subscribed' = subscribed
  BY DEF RedisReplay
<1>2. Types
  BY DEF IInv
<1>3. /\ FeedTypes /\ RedisTypes /\ ConnectionOK(c) /\ ReaderOK(c)
      /\ \A s \in Runs : EngineOK(s) /\ LogOK(s)
  BY <1>1, <1>2, RedisFacts DEF Types
<1>4. r \in Runs /\ client[c].last <= run[r].top /\ client[c].fresh
  BY <1>1, <1>3, ReaderConnection DEF ConnectionOK
<1>5. ReaderIs(client[c], mailbox[c], reading[c], stream[r], run[r], closedKey, subscribed, trouble)
  BY <1>1, <1>3 DEF ReaderOK, r
<1>6. Reading(client[c], mailbox[c], reading[c]) /\ client[c].run = r
  BY <1>3, ReaderFields DEF r
<1> HIDE DEF r
<1>7. /\ reading' \in [Clients -> ReadingType]
      /\ reading'[c].page = Left(reading[c], stream[r]) /\ reading'[c].lastSeq = reading[c].lastSeq
      /\ reading'[c].lastId = stream[r].dropped + Len(stream[r].entries)
      /\ \A d \in Clients : d # c => reading'[d] = reading[d]
  <2>1. reading[c].lastId <= stream[r].dropped + Len(stream[r].entries)
    BY <1>5 DEF ReaderIs, BoxIs
  <2> QED
    BY <1>1, <1>3, <1>4, <1>6, <2>1, ReadIs
<1>8. /\ client' \in [Clients -> ClientType]
      /\ client'[c].pc = "paging" /\ client'[c].run = client[c].run /\ client'[c].last = client[c].last
      /\ client'[c].fresh = client[c].fresh /\ client'[c].end = client[c].end
      /\ \A d \in Clients : d # c => client'[d] = client[d]
  <2>1. "paging" \in ClientPcs
    BY DEF ClientPcs
  <2> QED
    BY <1>1, <1>3, <2>1, ClientMoved
<1>9. Moved(client[c], client'[c], "paging")
  BY <1>8 DEF Moved
<1>10. /\ run[r] \in RunType /\ stream[r] \in StreamType /\ trouble \in Nat
       /\ LogIs(stream[r], run[r], r \in closedKey, published, trouble)
       /\ run[r].attempt = 1 => run[r].seq = run[r].top
  BY <1>3, <1>4, RunFields, LogFields, FeedAssumption DEF FeedTypes, LogOK, EngineOK
<1>11. Reading(client'[c], mailbox[c], reading'[c])
  BY <1>3, <1>7, <1>8 DEF Reading, RedisTypes
<1>12. ReaderIs(client'[c], mailbox[c], reading'[c], stream[r], run[r], closedKey, subscribed, trouble)
  <2>1. PICK new : new = reading'[c]
    OBVIOUS
  <2>2. PICK other : other = client'[c]
    OBVIOUS
  <2>3. ReaderIs(other, mailbox[c], new, stream[r], run[r], closedKey, subscribed, trouble)
    <3>1. /\ Reading(other, mailbox[c], new) /\ Moved(client[c], other, "paging")
          /\ new.page = Left(reading[c], stream[r]) /\ new.lastSeq = reading[c].lastSeq
          /\ new.lastId = stream[r].dropped + Len(stream[r].entries)
      BY <1>7, <1>9, <1>11, <2>1, <2>2
    <3> QED
      BY <1>1, <1>4, <1>5, <1>6, <1>10, <3>1, ReaderReplayed
  <2> QED
    BY <2>1, <2>2, <2>3
<1>13. client[c].pc \in Attached /\ client'[c].pc \in Attached \ {"replay"} /\ client'[c].last <= run[r].top
  BY <1>1, <1>4, <1>8 DEF Attached
<1>14. mailbox' \in [Clients -> MailboxType] /\ mailbox'[c] = mailbox[c]
  BY <1>1, <1>3 DEF RedisTypes
<1>15. \A d \in Clients : d # c =>
         client'[d] = client[d] /\ mailbox'[d] = mailbox[d] /\ reading'[d] = reading[d]
  BY <1>1, <1>7, <1>8
<1> QED
  BY <1>1, <1>6, <1>7, <1>8, <1>12, <1>13, <1>14, <1>15, ReadsOn

LEMMA RedisCheckStep ==
  ASSUME IInv, NEW c \in Clients, RedisCheck(c), UNCHANGED memoryBus
  PROVE  IInv'
<1> DEFINE r == client[c].run
<1>1. /\ driver = "redis" /\ Quiet(c)
      /\ \/ /\ r \in closedKey /\ Read(c) /\ client' = [client EXCEPT ![c].pc = "sweeping"]
         \/ /\ r \notin closedKey /\ client' = [client EXCEPT ![c].pc = "live"] /\ reading' = reading
      /\ driver' = driver /\ published' = published /\ joins' = joins /\ run' = run /\ trouble' = trouble
      /\ connected' = connected /\ stream' = stream /\ closedKey' = closedKey /\ mailbox' = mailbox
      /\ subscribed' = subscribed
  BY DEF RedisCheck, IsClosed
<1>2. Types
  BY DEF IInv
<1>3. \/ client[c].pc = "paging" /\ reading[c].page = <<>>
      \/ client[c].pc = "live" /\ mailbox[c].buffer = <<>>
  BY <1>1 DEF Quiet
<1>4. /\ FeedTypes /\ RedisTypes /\ ConnectionOK(c) /\ ReaderOK(c)
      /\ \A s \in Runs : LogOK(s)
  BY <1>1, <1>2, RedisFacts DEF Types
<1>5. r \in Runs /\ client[c].last <= run[r].top
  BY <1>3, <1>4, ReaderConnection
<1>6. ReaderIs(client[c], mailbox[c], reading[c], stream[r], run[r], closedKey, subscribed, trouble)
  BY <1>3, <1>4 DEF ReaderOK
<1>7. Reading(client[c], mailbox[c], reading[c]) /\ client[c].run = r
  BY <1>4, ReaderFields
<1> HIDE DEF r
<1>8. client[c].pc \in Attached
  BY <1>3 DEF Attached
<1>9. mailbox' \in [Clients -> MailboxType] /\ mailbox'[c] = mailbox[c] /\ reading \in [Clients -> ReadingType]
  BY <1>1, <1>4 DEF RedisTypes
<1>10. CASE r \in closedKey /\ Read(c) /\ client' = [client EXCEPT ![c].pc = "sweeping"]
  <2>1. /\ reading' \in [Clients -> ReadingType]
        /\ reading'[c].page = Left(reading[c], stream[r]) /\ reading'[c].lastSeq = reading[c].lastSeq
        /\ reading'[c].lastId = stream[r].dropped + Len(stream[r].entries)
        /\ \A d \in Clients : d # c => reading'[d] = reading[d]
    <3>1. reading[c].lastId <= stream[r].dropped + Len(stream[r].entries)
      BY <1>6 DEF ReaderIs, BoxIs
    <3> QED
      BY <1>4, <1>5, <1>7, <1>10, <3>1, ReadIs
  <2>2. /\ client' \in [Clients -> ClientType]
        /\ client'[c].pc = "sweeping" /\ client'[c].run = client[c].run /\ client'[c].last = client[c].last
        /\ client'[c].fresh = client[c].fresh /\ client'[c].end = client[c].end
        /\ \A d \in Clients : d # c => client'[d] = client[d]
    <3>1. "sweeping" \in ClientPcs
      BY DEF ClientPcs
    <3> QED
      BY <1>4, <1>10, <3>1, ClientMoved
  <2>3. stream[r] \in StreamType /\ Bounded(stream[r].entries, run[r])
    BY <1>4, <1>5, LogFields DEF LogOK, LogIs
  <2>4. ReaderIs(client'[c], mailbox[c], reading'[c], stream[r], run[r], closedKey, subscribed, trouble)
    <3>1. PICK new : new = reading'[c]
      OBVIOUS
    <3>2. PICK other : other = client'[c]
      OBVIOUS
    <3>3. /\ Moved(client[c], other, "sweeping")
          /\ new.page = Left(reading[c], stream[r]) /\ new.lastSeq = reading[c].lastSeq
          /\ new.lastId = stream[r].dropped + Len(stream[r].entries)
      BY <2>1, <2>2, <3>1, <3>2 DEF Moved
    <3>4. ReaderIs(other, mailbox[c], new, stream[r], run[r], closedKey, subscribed, trouble)
      BY <1>3, <1>6, <1>7, <1>10, <2>3, <3>3, ReaderSweeping
    <3> QED
      BY <3>1, <3>2, <3>4
  <2>5. client'[c].pc \in Attached \ {"replay"} /\ client'[c].last <= run[r].top
    BY <1>5, <2>2 DEF Attached
  <2>6. \A d \in Clients : d # c =>
         client'[d] = client[d] /\ mailbox'[d] = mailbox[d] /\ reading'[d] = reading[d]
    BY <1>1, <2>1, <2>2
  <2> QED
    BY <1>1, <1>7, <1>8, <1>9, <2>1, <2>2, <2>4, <2>5, <2>6, ReadsOn
<1>11. CASE r \notin closedKey /\ client' = [client EXCEPT ![c].pc = "live"] /\ reading' = reading
  <2>1. /\ client' \in [Clients -> ClientType]
        /\ client'[c].pc = "live" /\ client'[c].run = client[c].run /\ client'[c].last = client[c].last
        /\ client'[c].fresh = client[c].fresh /\ client'[c].end = client[c].end
        /\ \A d \in Clients : d # c => client'[d] = client[d]
    <3>1. "live" \in ClientPcs
      BY DEF ClientPcs
    <3> QED
      BY <1>4, <1>11, <3>1, ClientMoved
  <2>2. ReaderIs(client'[c], mailbox[c], reading[c], stream[r], run[r], closedKey, subscribed, trouble)
    <3>1. PICK other : other = client'[c]
      OBVIOUS
    <3>2. Moved(client[c], other, "live")
      BY <2>1, <3>1 DEF Moved
    <3>3. \/ client[c].pc = "paging" /\ reading[c].page = <<>>
          \/ client[c].pc = "live"
      BY <1>3
    <3>4. ReaderIs(other, mailbox[c], reading[c], stream[r], run[r], closedKey, subscribed, trouble)
      BY <1>6, <1>7, <1>11, <3>2, <3>3, ReaderWaiting
    <3> QED
      BY <3>1, <3>4
  <2>3. client'[c].pc \in Attached \ {"replay"} /\ client'[c].last <= run[r].top
    BY <1>5, <2>1 DEF Attached
  <2>4. \A d \in Clients : d # c =>
         client'[d] = client[d] /\ mailbox'[d] = mailbox[d] /\ reading'[d] = reading[d]
    BY <1>1, <1>11, <2>1
  <2>5. reading' \in [Clients -> ReadingType] /\ reading'[c] = reading[c]
    BY <1>9, <1>11
  <2> QED
    BY <1>1, <1>7, <1>8, <1>9, <2>1, <2>2, <2>3, <2>4, <2>5, ReadsOn
<1> QED
  BY <1>1, <1>10, <1>11 DEF r

(* The end of a stream: detached from the channel, and unsubscribed if last.   *)
LEMMA RedisLeaving ==
  ASSUME IInv, driver = "redis", UNCHANGED <<memoryBus, run, stream, closedKey, driver, published, joins,
                                             connected>>,
         Trouble \/ trouble' = trouble,
         NEW c \in Clients, client[c].pc \in Attached, NEW next, RedisLeave(c, next),
         client' \in [Clients -> ClientType], client'[c].pc \in {"off", "ending"},
         client'[c].run = client[c].run, client'[c].last = client[c].last,
         \A d \in Clients : d # c => client'[d] = client[d],
         client'[c].end # "none" => client'[c].pc = "ending",
         client'[c].end = "close" => Closable(run[client[c].run]), CompleteOK(c)'
  PROVE  IInv'
<1> DEFINE r == client[c].run
<1>1. /\ mailbox' = [mailbox EXCEPT ![c] = NoMailbox]
      /\ reading' = [reading EXCEPT ![c] = NoReading]
      /\ subscribed' = IF Listening(r) = {c} THEN subscribed \ {r} ELSE subscribed
  BY DEF RedisLeave
<1>2. Types
  BY DEF IInv
<1>3. /\ FeedTypes /\ RedisTypes /\ ConnectionOK(c) /\ ReaderOK(c)
  BY <1>2, RedisFacts DEF Types
<1>4. client[c].pc # "off" /\ client[c].pc \notin {"close", "ending"}
  BY DEF Attached
<1>5. r \in Runs /\ client[c].last <= run[r].top
  BY <1>3, <1>4, ReaderConnection
<1>6. Onward /\ trouble' \in 0..MaxTrouble
  <2>1. CASE Trouble
    BY <1>3, <2>1, Troubled
  <2>2. CASE trouble' = trouble
    BY <1>3, <2>2, OnwardSame DEF FeedTypes
  <2> QED
    BY <2>1, <2>2
<1>7. /\ mailbox' \in [Clients -> MailboxType] /\ mailbox'[c] = NoMailbox
      /\ reading' \in [Clients -> ReadingType] /\ reading'[c] = NoReading
      /\ \A d \in Clients : d # c => mailbox'[d] = mailbox[d] /\ reading'[d] = reading[d]
  <2>1. NoMailbox \in MailboxType /\ NoReading \in ReadingType
    BY DEF NoMailbox, NoReading, MailboxType, ReadingType
  <2> QED
    BY <1>1, <1>3, <2>1 DEF RedisTypes
<1>8. FeedTypes'
  BY <1>3, <1>6 DEF FeedTypes, Drivers
<1>9. RedisTypes'
  <2>1. subscribed' \in SUBSET Runs
    BY <1>1, <1>3 DEF RedisTypes
  <2> QED
    BY <1>3, <1>7, <2>1 DEF RedisTypes
<1>10. ConnectionOK(c)'
  <2>1. client'[c].end \in {"close", "gone", "holed", "behind"} => client'[c].pc = "ending"
    OBVIOUS
  <2> QED
    BY <1>3, <1>4, <1>5, <2>1, ConnectionMoved
<1>11. ReaderOK(c)'
  <2>1. CASE client'[c].pc = "off"
    BY <1>7, <2>1 DEF ReaderOK
  <2>2. CASE client'[c].pc = "ending"
    <3>1. stream[r] \in StreamType
      BY <1>3, <1>5, LogFields
    <3>2. PICK other : other = client'[c]
      OBVIOUS
    <3>3. ReaderIs(other, NoMailbox, NoReading, stream[r], run[r], closedKey, subscribed', trouble')
      BY <2>2, <3>1, <3>2, ReaderIdle
    <3> QED
      BY <1>7, <2>2, <3>2, <3>3 DEF ReaderOK
  <2> QED
    BY <2>1, <2>2
<1>12. \A d \in Clients : d # c =>
           /\ client'[d] = client[d] /\ mailbox'[d] = mailbox[d] /\ reading'[d] = reading[d]
           /\ client[d].pc \in Attached /\ client[d].run \in subscribed => client[d].run \in subscribed'
  <2> SUFFICES ASSUME NEW d \in Clients, d # c, client[d].pc \in Attached, client[d].run \in subscribed
               PROVE  client[d].run \in subscribed'
    BY <1>7
  <2>1. client[d].run = r => d \in Listening(r)
    BY DEF Attached, Listening, Of
  <2>2. Listening(r) = {c} => client[d].run # r
    BY <2>1
  <2> HIDE DEF r
  <2> QED
    BY <1>1, <2>2
<1> QED
  BY <1>6, <1>8, <1>9, <1>10, <1>11, <1>12, RedisReaderStep

LEMMA RedisReturnStep ==
  ASSUME IInv, NEW c \in Clients, RedisReturn(c), UNCHANGED memoryBus
  PROVE  IInv'
<1>1. /\ driver = "redis" /\ client[c].pc \in {"paging", "live"} /\ Trouble /\ RedisLeave(c, Dropped({c}))
      /\ UNCHANGED <<driver, published, joins, run, stream, closedKey, connected>>
  BY DEF RedisReturn
<1>2. Types
  BY DEF IInv
<1>3. FeedTypes /\ client' = Dropped({c})
  BY <1>1, <1>2 DEF Types, RedisLeave
<1>4. /\ client' \in [Clients -> ClientType]
      /\ client'[c].pc = "off" /\ client'[c].left = FALSE /\ client'[c].end = "none"
      /\ client'[c].run = client[c].run /\ client'[c].last = client[c].last
      /\ client'[c].fresh = client[c].fresh
      /\ \A d \in Clients : d # c => client'[d] = client[d]
  BY <1>3, DroppedOne
<1>5. CompleteOK(c)'
  BY <1>4 DEF CompleteOK
<1>6. client[c].pc \in Attached
  BY <1>1 DEF Attached
<1> QED
  BY <1>1, <1>4, <1>5, <1>6, RedisLeaving

(* A close that comes first is preceded by everything.                         *)
LEMMA FirstClose ==
  ASSUME NEW s \in Seq(Nat), s # <<>>, s[1] = CLOSE, NEW n \in Nat, NEW e \in RunType, Bounded(s, e)
  PROVE  /\ Closable(e)
         /\ \A free, bare : Ahead(s, free, n, <<>>, bare, e) /\ Unbroken(e) /\ ~bare => e.top <= n
<1>1. Len(s) \in Nat /\ Len(s) # 0 /\ 1 \in 1..Len(s)
  BY Sequence
<1>2. Closable(e)
  BY <1>1 DEF Bounded
<1>3. ASSUME NEW free, NEW bare, Ahead(s, free, n, <<>>, bare, e), Unbroken(e), ~bare PROVE e.top <= n
  <2>1. Complete(s, bare, n, <<>>, e.top)
    BY <1>3 DEF Ahead
  <2>2. \/ e.top <= n \/ Has(<<>>, e.top)
        \/ \E i \in 1..1 - 1 : e.top <= s[i]
        \/ bare
    BY <1>1, <2>1 DEF Complete
  <2>3. ~Has(<<>>, e.top)
    BY DEF Has
  <2> QED
    BY <1>3, <2>2, <2>3
<1> QED
  BY <1>2, <1>3

LEMMA SawCloseStep ==
  ASSUME IInv, driver = "redis", UNCHANGED <<memoryBus, run, stream, closedKey, driver, published, joins,
                                             connected, trouble>>,
         NEW c \in Clients, SawClose(c),
         \/ client[c].pc \in {"paging", "sweeping"} /\ reading[c].page # <<>> /\ Head(reading[c].page) = CLOSE
         \/ client[c].pc = "live" /\ mailbox[c].buffer # <<>> /\ Head(mailbox[c].buffer) = CLOSE
  PROVE  IInv'
<1> DEFINE r == client[c].run
           why == IF mailbox[c].missed \/ mailbox[c].overflowed THEN "holed" ELSE "close"
<1>1. Types
  BY DEF IInv
<1>2. /\ FeedTypes /\ RedisTypes /\ ConnectionOK(c) /\ ReaderOK(c)
  BY <1>1, RedisFacts DEF Types
<1>3. RedisLeave(c, Ended(c, why)) /\ client' = Ended(c, why)
  BY DEF SawClose, RedisLeave
<1>4. why \in Whys /\ (why = "close" => Intact(mailbox[c]))
  BY DEF Whys, Intact
<1> HIDE DEF why
<1>5. /\ client' \in [Clients -> ClientType]
      /\ client'[c].run = client[c].run /\ client'[c].last = client[c].last
      /\ client'[c].fresh = client[c].fresh /\ client'[c].left = FALSE
      /\ client'[c].pc = IF client[c].left THEN "off" ELSE "ending"
      /\ client'[c].end = IF client[c].left THEN "none" ELSE why
      /\ \A d \in Clients : d # c => client'[d] = client[d]
  BY <1>2, <1>3, <1>4, EndedMoved
<1>6. client[c].pc \in Attached /\ client[c].pc # "off"
  BY DEF Attached
<1>7. r \in Runs /\ client[c].last <= run[r].top
  BY <1>2, <1>6, ReaderConnection
<1>8. ReaderIs(client[c], mailbox[c], reading[c], stream[r], run[r], closedKey, subscribed, trouble)
  BY <1>2, <1>6 DEF ReaderOK
<1> HIDE DEF r
<1>9. Reading(client[c], mailbox[c], reading[c]) /\ run[r] \in RunType /\ client[c].run = r
      /\ run[r].top \in Nat /\ client[c].last \in Nat /\ trouble \in Nat
  BY <1>2, <1>7, ReaderFields, RunFields, ClientFields, FeedAssumption DEF r, FeedTypes
<1>10. reading[c].page \in Seq(Nat) /\ mailbox[c].buffer \in Seq(Nat) /\ reading[c].lastSeq \in Nat
       /\ client[c].fresh \in BOOLEAN
  BY <1>9, ReadingFields
<1>11. reading[c].lastSeq = client[c].last /\ Bounded(mailbox[c].buffer, run[r]) /\ Bounded(reading[c].page, run[r])
  BY <1>6, <1>8 DEF ReaderIs, BoxIs
<1>12. /\ Closable(run[r])
       /\ Intact(mailbox[c]) /\ Unbroken(run[r]) /\ ~Expired(client[c], trouble)
            => run[r].top <= client[c].last
  <2>1. CASE client[c].pc \in {"paging", "sweeping"} /\ reading[c].page # <<>> /\ Head(reading[c].page) = CLOSE
    <3>1. Intact(mailbox[c]) => Ahead(reading[c].page, client[c].fresh, reading[c].lastSeq, <<>>,
                                      Expired(client[c], trouble), run[r])
      BY <1>8, <2>1 DEF ReaderIs, PageIs
    <3>2. reading[c].page[1] = CLOSE
      BY <1>10, <2>1, Popped
    <3>3. Closable(run[r]) /\ (Intact(mailbox[c]) /\ Unbroken(run[r]) /\ ~Expired(client[c], trouble)
                              => run[r].top <= reading[c].lastSeq)
      BY <1>9, <1>10, <1>11, <2>1, <3>1, <3>2, FirstClose
    <3> QED
      BY <1>11, <3>3
  <2>2. CASE client[c].pc = "live" /\ mailbox[c].buffer # <<>> /\ Head(mailbox[c].buffer) = CLOSE
    <3>1. Intact(mailbox[c]) => Ahead(mailbox[c].buffer, client[c].fresh /\ reading[c].page = <<>>,
                                      reading[c].lastSeq, reading[c].page, Expired(client[c], trouble), run[r])
      BY <1>8, <2>2 DEF ReaderIs, LiveIs
    <3>2. mailbox[c].buffer[1] = CLOSE /\ reading[c].page = <<>>
      BY <1>8, <1>10, <2>2, Popped DEF ReaderIs, BoxIs
    <3>3. Closable(run[r]) /\ (Intact(mailbox[c]) /\ Unbroken(run[r]) /\ ~Expired(client[c], trouble)
                              => run[r].top <= reading[c].lastSeq)
      BY <1>9, <1>10, <1>11, <2>2, <3>1, <3>2, FirstClose
    <3> QED
      BY <1>11, <3>3
  <2> QED
    BY <2>1, <2>2
<1>13. Closable(run[client[c].run])
  BY <1>9, <1>12
<1>14. CompleteOK(c)'
  <2> SUFFICES ASSUME client'[c].end = "close", run'[client'[c].run].row = "active",
                      run'[client'[c].run].attempt = 1,
                      ~client'[c].fresh \/ trouble' = 0
               PROVE  client'[c].last = run'[client'[c].run].top
    BY DEF CompleteOK
  <2>1. Intact(mailbox[c]) /\ Unbroken(run[r]) /\ (~client[c].fresh \/ trouble = 0)
    BY <1>4, <1>5, <1>9 DEF Unbroken
  <2>2. ~Expired(client[c], trouble)
    BY <2>1 DEF Expired
  <2>3. client[c].last = run[r].top
    BY <1>7, <1>9, <1>12, <2>1, <2>2
  <2> QED
    BY <1>5, <1>9, <2>3
<1>15. /\ client'[c].pc \in {"off", "ending"}
       /\ client'[c].end # "none" => client'[c].pc = "ending"
       /\ client'[c].end = "close" => Closable(run[client[c].run])
  BY <1>5, <1>13
<1>16. UNCHANGED <<memoryBus, run, stream, closedKey, driver, published, joins, connected>> /\ trouble' = trouble
  OBVIOUS
<1> QED
  BY <1>3, <1>5, <1>6, <1>14, <1>15, <1>16, RedisLeaving

LEMMA RedisPageStep ==
  ASSUME IInv, NEW c \in Clients, RedisPage(c), UNCHANGED memoryBus
  PROVE  IInv'
<1> DEFINE r == client[c].run
           page == reading[c].page
           n == Head(page)
           rest == [reading[c] EXCEPT !.page = Tail(page)]
<1>1. /\ driver = "redis" /\ client[c].pc \in {"paging", "sweeping"}
      /\ \/ page = <<>> /\ RedisLeave(c, Ended(c, "gone"))
         \/ page # <<>> /\ n = CLOSE /\ SawClose(c)
         \/ /\ page # <<>> /\ n # CLOSE /\ mailbox' = mailbox /\ subscribed' = subscribed
            /\ IF n > reading[c].lastSeq
               THEN client' = Got(c, n) /\ reading' = [reading EXCEPT ![c] = [rest EXCEPT !.lastSeq = n]]
               ELSE reading' = [reading EXCEPT ![c] = rest] /\ client' = client
      /\ driver' = driver /\ published' = published /\ joins' = joins /\ run' = run /\ trouble' = trouble
      /\ connected' = connected /\ stream' = stream /\ closedKey' = closedKey
  BY DEF RedisPage, Newer
<1>2. Types
  BY DEF IInv
<1>3. /\ FeedTypes /\ RedisTypes /\ ConnectionOK(c) /\ ReaderOK(c)
  BY <1>1, <1>2, RedisFacts DEF Types
<1>4. client[c].pc \in Attached /\ client[c].pc # "off" /\ client[c].pc \in Attached \ {"replay"}
  BY <1>1 DEF Attached
<1>5. r \in Runs /\ client[c].last <= run[r].top
  BY <1>3, <1>4, ReaderConnection
<1>6. ReaderIs(client[c], mailbox[c], reading[c], stream[r], run[r], closedKey, subscribed, trouble)
  BY <1>3, <1>4 DEF ReaderOK
<1>7. Reading(client[c], mailbox[c], reading[c]) /\ client[c].run = r /\ stream[r] \in StreamType
      /\ run[r] \in RunType /\ reading[c] \in ReadingType /\ page \in Seq(Nat) /\ reading[c].lastSeq \in Nat
  BY <1>3, <1>5, ReaderFields, ReadingFields, RunFields, LogFields DEF RedisTypes
<1>8. reading[c].lastSeq = client[c].last /\ Bounded(page, run[r])
  BY <1>4, <1>6 DEF ReaderIs, BoxIs
<1>9. page # <<>> => n \in Nat /\ n = page[1] /\ Tail(page) \in Seq(Nat) /\ n <= run[r].top
  <2> SUFFICES ASSUME page # <<>> PROVE n \in Nat /\ n = page[1] /\ Tail(page) \in Seq(Nat) /\ n <= run[r].top
    OBVIOUS
  <2>1. n \in Nat /\ n = page[1] /\ Tail(page) \in Seq(Nat) /\ Len(page) > 0 /\ Len(page) \in Nat
    BY <1>7, Popped, Sequence
  <2>2. 1 \in 1..Len(page)
    BY <2>1
  <2> QED
    BY <1>8, <2>1, <2>2 DEF Bounded
<1> HIDE DEF r, page, n
<1>10. CASE page = <<>> /\ RedisLeave(c, Ended(c, "gone"))
  <2>1. client' = Ended(c, "gone") /\ "gone" \in Whys
    BY <1>10 DEF RedisLeave, Whys
  <2>2. /\ client' \in [Clients -> ClientType]
        /\ client'[c].run = client[c].run /\ client'[c].last = client[c].last
        /\ client'[c].pc = IF client[c].left THEN "off" ELSE "ending"
        /\ client'[c].end = IF client[c].left THEN "none" ELSE "gone"
        /\ \A d \in Clients : d # c => client'[d] = client[d]
    BY <1>3, <2>1, EndedMoved
  <2>3. CompleteOK(c)'
    BY <2>2 DEF CompleteOK
  <2>4. /\ client'[c].pc \in {"off", "ending"} /\ (client'[c].end # "none" => client'[c].pc = "ending")
        /\ client'[c].end # "close"
    BY <2>2
  <2> QED
    BY <1>1, <1>4, <1>10, <2>2, <2>3, <2>4, RedisLeaving
<1>11. CASE page # <<>> /\ n = CLOSE /\ SawClose(c)
  BY <1>1, <1>11, SawCloseStep DEF page, n
<1>12. CASE /\ page # <<>> /\ n # CLOSE /\ mailbox' = mailbox /\ subscribed' = subscribed
            /\ IF n > reading[c].lastSeq
               THEN client' = Got(c, n) /\ reading' = [reading EXCEPT ![c] = [rest EXCEPT !.lastSeq = n]]
               ELSE reading' = [reading EXCEPT ![c] = rest] /\ client' = client
  <2> DEFINE last == IF n > reading[c].lastSeq THEN n ELSE reading[c].lastSeq
             v == [rest EXCEPT !.lastSeq = last]
  <2>1. n \in Nat /\ n = page[1] /\ Tail(page) \in Seq(Nat) /\ n <= run[r].top
    BY <1>9, <1>12
  <2>2. last \in Nat /\ reading[c].lastSeq <= last /\ n <= last
    BY <1>7, <2>1
  <2>3. /\ v \in ReadingType /\ v.page = Tail(page) /\ v.lastId = reading[c].lastId /\ v.lastSeq = last
    BY <1>7, <2>1, <2>2 DEF ReadingType
  <2>4. reading' = [reading EXCEPT ![c] = v]
    <3>1. CASE n > reading[c].lastSeq
      BY <1>12, <3>1
    <3>2. CASE ~(n > reading[c].lastSeq)
      <4>1. last = reading[c].lastSeq
        BY <3>2
      <4>2. [rest EXCEPT !.lastSeq = last] = rest
        BY <1>7, <4>1 DEF ReadingType
      <4> QED
        BY <1>12, <3>2, <4>2
    <3> QED
      BY <3>1, <3>2
  <2> HIDE DEF v
  <2>5. /\ reading' \in [Clients -> ReadingType] /\ reading'[c] = v
        /\ \A d \in Clients : d # c => reading'[d] = reading[d]
    BY <1>3, <2>3, <2>4, ReadingSet
  <2>6. /\ client' \in [Clients -> ClientType]
        /\ client'[c].pc = client[c].pc /\ client'[c].run = client[c].run /\ client'[c].last = last
        /\ client'[c].end = client[c].end
        /\ \A d \in Clients : d # c => client'[d] = client[d]
    <3>1. CASE n > reading[c].lastSeq
      <4>1. client' = Got(c, n)
        BY <1>12, <3>1
      <4> QED
        BY <1>3, <2>1, <3>1, <4>1, GotMoved
    <3>2. CASE ~(n > reading[c].lastSeq)
      <4>1. client' = client
        BY <1>12, <3>2
      <4> QED
        BY <1>3, <1>8, <3>2, <4>1 DEF FeedTypes
    <3> QED
      BY <3>1, <3>2
  <2>7. last <= run[r].top
    BY <1>5, <1>8, <2>1
  <2> HIDE DEF last
  <2>8. ReaderIs(client'[c], mailbox[c], v, stream[r], run[r], closedKey, subscribed, trouble)
    <3>1. PICK other : other = client'[c]
      OBVIOUS
    <3>2. /\ other \in ClientType /\ other.pc = client[c].pc /\ other.run = client[c].run /\ other.last = v.lastSeq
      BY <2>3, <2>6, <3>1
    <3>3. Reading(other, mailbox[c], v)
      BY <1>7, <2>3, <3>2 DEF Reading
    <3>4. /\ page[1] # CLOSE /\ reading[c].page # <<>> /\ reading[c].page = page
          /\ v.page = Tail(reading[c].page) /\ reading[c].lastSeq <= v.lastSeq /\ page[1] <= v.lastSeq
      BY <1>12, <2>1, <2>2, <2>3 DEF page
    <3>5. ReaderIs(other, mailbox[c], v, stream[r], run[r], closedKey, subscribed, trouble)
      BY <1>1, <1>6, <1>7, <2>3, <3>2, <3>3, <3>4, ReaderPaged
    <3> QED
      BY <3>1, <3>5
  <2>9. mailbox' \in [Clients -> MailboxType] /\ mailbox'[c] = mailbox[c]
    BY <1>3, <1>12 DEF RedisTypes
  <2>10. \A d \in Clients : d # c =>
         client'[d] = client[d] /\ mailbox'[d] = mailbox[d] /\ reading'[d] = reading[d]
    BY <1>12, <2>5, <2>6
  <2>11. client'[c].last <= run[client[c].run].top /\ client'[c].pc \in Attached \ {"replay"}
    BY <1>4, <1>7, <2>6, <2>7
  <2>12. ReaderIs(client'[c], mailbox'[c], reading'[c], stream[client[c].run], run[client[c].run],
                  closedKey, subscribed, trouble)
    BY <1>7, <2>5, <2>8, <2>9
  <2> QED
    BY <1>1, <1>4, <1>12, <2>5, <2>6, <2>9, <2>10, <2>11, <2>12, ReadsOn
<1> QED
  BY <1>1, <1>10, <1>11, <1>12 DEF page, n

LEMMA RedisLiveStep ==
  ASSUME IInv, NEW c \in Clients, RedisLive(c), UNCHANGED memoryBus
  PROVE  IInv'
<1> DEFINE r == client[c].run
           buffer == mailbox[c].buffer
           n == Head(buffer)
<1>1. /\ driver = "redis" /\ client[c].pc = "live"
      /\ \/ buffer = <<>> /\ RedisLeave(c, Ended(c, "behind"))
         \/ buffer # <<>> /\ n = CLOSE /\ SawClose(c)
         \/ RedisLeave(c, Dropped({c}))
         \/ /\ buffer # <<>> /\ n # CLOSE /\ subscribed' = subscribed
            /\ mailbox' = [mailbox EXCEPT ![c].buffer = Tail(buffer)]
            /\ IF n > reading[c].lastSeq
               THEN client' = Got(c, n) /\ reading' = [reading EXCEPT ![c].lastSeq = n]
               ELSE reading' = reading /\ client' = client
      /\ driver' = driver /\ published' = published /\ joins' = joins /\ run' = run /\ trouble' = trouble
      /\ connected' = connected /\ stream' = stream /\ closedKey' = closedKey
  BY DEF RedisLive, Newer
<1>2. Types
  BY DEF IInv
<1>3. /\ FeedTypes /\ RedisTypes /\ ConnectionOK(c) /\ ReaderOK(c)
  BY <1>1, <1>2, RedisFacts DEF Types
<1>4. client[c].pc \in Attached /\ client[c].pc # "off" /\ client[c].pc \in Attached \ {"replay"}
  BY <1>1 DEF Attached
<1>5. r \in Runs /\ client[c].last <= run[r].top
  BY <1>3, <1>4, ReaderConnection
<1>6. ReaderIs(client[c], mailbox[c], reading[c], stream[r], run[r], closedKey, subscribed, trouble)
  BY <1>3, <1>4 DEF ReaderOK
<1>7. Reading(client[c], mailbox[c], reading[c]) /\ client[c].run = r /\ run[r] \in RunType
      /\ reading[c] \in ReadingType /\ mailbox[c] \in MailboxType /\ buffer \in Seq(Nat)
      /\ reading[c].lastSeq \in Nat
  BY <1>3, <1>5, ReaderFields, ReadingFields, RunFields DEF RedisTypes
<1>8. reading[c].lastSeq = client[c].last /\ Bounded(buffer, run[r])
  BY <1>4, <1>6 DEF ReaderIs, BoxIs
<1>9. buffer # <<>> => n \in Nat /\ n = buffer[1] /\ Tail(buffer) \in Seq(Nat) /\ n <= run[r].top
  <2> SUFFICES ASSUME buffer # <<>> PROVE n \in Nat /\ n = buffer[1] /\ Tail(buffer) \in Seq(Nat) /\ n <= run[r].top
    OBVIOUS
  <2>1. n \in Nat /\ n = buffer[1] /\ Tail(buffer) \in Seq(Nat) /\ Len(buffer) > 0 /\ Len(buffer) \in Nat
    BY <1>7, Popped, Sequence
  <2>2. 1 \in 1..Len(buffer)
    BY <2>1
  <2> QED
    BY <1>8, <2>1, <2>2 DEF Bounded
<1> HIDE DEF r, buffer, n
<1>10. CASE buffer = <<>> /\ RedisLeave(c, Ended(c, "behind"))
  <2>1. client' = Ended(c, "behind") /\ "behind" \in Whys
    BY <1>10 DEF RedisLeave, Whys
  <2>2. /\ client' \in [Clients -> ClientType]
        /\ client'[c].run = client[c].run /\ client'[c].last = client[c].last
        /\ client'[c].pc = IF client[c].left THEN "off" ELSE "ending"
        /\ client'[c].end = IF client[c].left THEN "none" ELSE "behind"
        /\ \A d \in Clients : d # c => client'[d] = client[d]
    BY <1>3, <2>1, EndedMoved
  <2>3. CompleteOK(c)'
    BY <2>2 DEF CompleteOK
  <2>4. /\ client'[c].pc \in {"off", "ending"} /\ (client'[c].end # "none" => client'[c].pc = "ending")
        /\ client'[c].end # "close"
    BY <2>2
  <2> QED
    BY <1>1, <1>4, <1>10, <2>2, <2>3, <2>4, RedisLeaving
<1>11. CASE buffer # <<>> /\ n = CLOSE /\ SawClose(c)
  BY <1>1, <1>11, SawCloseStep DEF buffer, n
<1>12. CASE RedisLeave(c, Dropped({c}))
  <2>1. client' = Dropped({c})
    BY <1>12 DEF RedisLeave
  <2>2. /\ client' \in [Clients -> ClientType]
        /\ client'[c].pc = "off" /\ client'[c].end = "none"
        /\ client'[c].run = client[c].run /\ client'[c].last = client[c].last
        /\ \A d \in Clients : d # c => client'[d] = client[d]
    BY <1>3, <2>1, DroppedOne
  <2>3. CompleteOK(c)'
    BY <2>2 DEF CompleteOK
  <2> QED
    BY <1>1, <1>4, <1>12, <2>2, <2>3, RedisLeaving
<1>13. CASE /\ buffer # <<>> /\ n # CLOSE /\ subscribed' = subscribed
            /\ mailbox' = [mailbox EXCEPT ![c].buffer = Tail(buffer)]
            /\ IF n > reading[c].lastSeq
               THEN client' = Got(c, n) /\ reading' = [reading EXCEPT ![c].lastSeq = n]
               ELSE reading' = reading /\ client' = client
  <2> DEFINE last == IF n > reading[c].lastSeq THEN n ELSE reading[c].lastSeq
             v == [reading[c] EXCEPT !.lastSeq = last]
             box == [mailbox[c] EXCEPT !.buffer = Tail(buffer)]
  <2>1. n \in Nat /\ n = buffer[1] /\ Tail(buffer) \in Seq(Nat) /\ n <= run[r].top
    BY <1>9, <1>13
  <2>2. last \in Nat /\ reading[c].lastSeq <= last /\ n <= last
    BY <1>7, <2>1
  <2>3. /\ v \in ReadingType /\ v.page = reading[c].page /\ v.lastId = reading[c].lastId /\ v.lastSeq = last
    BY <1>7, <2>2 DEF ReadingType
  <2>4. reading' = [reading EXCEPT ![c] = v]
    <3>1. CASE n > reading[c].lastSeq
      BY <1>13, <3>1
    <3>2. CASE ~(n > reading[c].lastSeq)
      <4>1. last = reading[c].lastSeq
        BY <3>2
      <4>2. v = reading[c]
        BY <1>7, <4>1 DEF ReadingType
      <4>3. [reading EXCEPT ![c] = v] = reading
        BY <1>3, <4>2 DEF RedisTypes
      <4> QED
        BY <1>13, <3>2, <4>3
    <3> QED
      BY <3>1, <3>2
  <2> HIDE DEF v
  <2>5. /\ reading' \in [Clients -> ReadingType] /\ reading'[c] = v
        /\ \A d \in Clients : d # c => reading'[d] = reading[d]
    BY <1>3, <2>3, <2>4, ReadingSet
  <2>6. /\ client' \in [Clients -> ClientType]
        /\ client'[c].pc = client[c].pc /\ client'[c].run = client[c].run /\ client'[c].last = last
        /\ client'[c].end = client[c].end
        /\ \A d \in Clients : d # c => client'[d] = client[d]
    <3>1. CASE n > reading[c].lastSeq
      <4>1. client' = Got(c, n)
        BY <1>13, <3>1
      <4> QED
        BY <1>3, <2>1, <3>1, <4>1, GotMoved
    <3>2. CASE ~(n > reading[c].lastSeq)
      <4>1. client' = client
        BY <1>13, <3>2
      <4> QED
        BY <1>3, <1>8, <3>2, <4>1 DEF FeedTypes
    <3> QED
      BY <3>1, <3>2
  <2>7. last <= run[r].top
    BY <1>5, <1>8, <2>1
  <2> HIDE DEF last
  <2>8. /\ box \in MailboxType /\ box.buffer = Tail(buffer) /\ box.missed = mailbox[c].missed
        /\ box.overflowed = mailbox[c].overflowed
    BY <1>7, <2>1 DEF MailboxType
  <2>9. /\ mailbox' \in [Clients -> MailboxType] /\ mailbox'[c] = box
        /\ \A d \in Clients : d # c => mailbox'[d] = mailbox[d]
    <3>1. mailbox \in [Clients -> MailboxType] /\ mailbox' = [mailbox EXCEPT ![c] = box]
      BY <1>3, <1>13 DEF RedisTypes
    <3> HIDE DEF box
    <3> QED
      BY <2>8, <3>1
  <2> HIDE DEF box
  <2>10. ReaderIs(client'[c], box, v, stream[r], run[r], closedKey, subscribed, trouble)
    <3>1. PICK other : other = client'[c]
      OBVIOUS
    <3>2. /\ other \in ClientType /\ other.pc = "live" /\ other.run = client[c].run /\ other.last = v.lastSeq
      BY <1>1, <2>3, <2>6, <3>1
    <3>3. Reading(other, box, v)
      BY <2>3, <2>8, <3>2 DEF Reading
    <3>4. /\ mailbox[c].buffer[1] # CLOSE /\ mailbox[c].buffer # <<>> /\ box.buffer = Tail(mailbox[c].buffer)
          /\ reading[c].lastSeq <= v.lastSeq /\ mailbox[c].buffer[1] <= v.lastSeq
      BY <1>13, <2>1, <2>2, <2>3, <2>8 DEF buffer
    <3>5. ReaderIs(other, box, v, stream[r], run[r], closedKey, subscribed, trouble)
      BY <1>1, <1>6, <1>7, <2>3, <2>8, <3>2, <3>3, <3>4, ReaderTook
    <3> QED
      BY <3>1, <3>5
  <2>11. \A d \in Clients : d # c =>
         client'[d] = client[d] /\ mailbox'[d] = mailbox[d] /\ reading'[d] = reading[d]
    BY <2>5, <2>6, <2>9
  <2>12. client'[c].last <= run[client[c].run].top /\ client'[c].pc \in Attached \ {"replay"}
    BY <1>4, <1>7, <2>6, <2>7
  <2>13. ReaderIs(client'[c], mailbox'[c], reading'[c], stream[client[c].run], run[client[c].run],
                  closedKey, subscribed, trouble)
    BY <1>7, <2>5, <2>9, <2>10
  <2> QED
    BY <1>1, <1>4, <1>13, <2>5, <2>6, <2>9, <2>11, <2>12, <2>13, ReadsOn
<1> QED
  BY <1>1, <1>10, <1>11, <1>12, <1>13 DEF buffer, n

-----------------------------------------------------------------------------
(* The invariant.                                                             *)
LEMMA InitInvariant ==
  ASSUME Init
  PROVE  IInv
<1>1. FeedInit /\ MemoryInit /\ RedisInit
  BY DEF Init
<1>2. /\ driver \in Drivers /\ published = 0 /\ joins = 0 /\ trouble = 0
      /\ run = [r \in Runs |-> IF r \in Served THEN NewRun ELSE [NewRun EXCEPT !.pc = "closed"]]
      /\ client = [c \in Clients |-> NewClient]
      /\ channel = [r \in Runs |-> NoChannel] /\ closedOrder = {} /\ finished = {}
      /\ cursor = [c \in Clients |-> NoCursor]
      /\ stream = [r \in Runs |-> NoStream] /\ closedKey = {} /\ connected = TRUE /\ subscribed = {}
      /\ mailbox = [c \in Clients |-> NoMailbox] /\ reading = [c \in Clients |-> NoReading]
  BY <1>1 DEF FeedInit, MemoryInit, RedisInit
<1>3. \A r \in Runs : run[r] \in RunType /\ run[r].pc \in {"running", "closed"} /\ run[r].seq = 0
                      /\ run[r].top = 0 /\ run[r].attempt = 1 /\ run[r].row = "active"
  <2> TAKE r \in Runs
  <2>1. run[r] = NewRun \/ run[r] = [NewRun EXCEPT !.pc = "closed"]
    BY <1>2
  <2> QED
    BY <2>1 DEF NewRun, RunType
<1>4. \A c \in Clients : client[c] \in ClientType /\ client[c] = NewClient
  BY <1>2 DEF NewClient, ClientType
<1>5. \A r \in Runs : channel[r] = NoChannel /\ stream[r] = NoStream
  BY <1>2
<1>6. \A c \in Clients : cursor[c] = NoCursor /\ mailbox[c] = NoMailbox /\ reading[c] = NoReading
  BY <1>2
<1>7. FeedTypes
  <2>1. published \in 0..MaxFrames /\ joins \in 0..MaxJoins /\ trouble \in 0..MaxTrouble
    BY <1>2, FeedAssumption
  <2>2. run \in [Runs -> RunType] /\ client \in [Clients -> ClientType]
    BY <1>2, <1>3, <1>4
  <2> QED
    BY <1>2, <2>1, <2>2 DEF FeedTypes
<1>8. <<>> \in Seq(Nat) /\ Len(<<>>) = 0
  OBVIOUS
<1>9. MemoryTypes
  <2>1. NoChannel \in ChannelType /\ NoCursor \in [at: Int, after: Nat]
    BY <1>8 DEF NoChannel, ChannelType, NoCursor
  <2> QED
    BY <1>2, <2>1 DEF MemoryTypes
<1>10. RedisTypes
  <2>1. NoStream \in StreamType /\ NoMailbox \in MailboxType /\ NoReading \in ReadingType
    BY <1>8 DEF NoStream, StreamType, NoMailbox, MailboxType, NoReading, ReadingType
  <2> QED
    BY <1>2, <2>1 DEF RedisTypes
<1>11. Engines
  BY <1>2, <1>3 DEF Engines, EngineOK
<1>12. Connections
  <2> SUFFICES ASSUME NEW c \in Clients PROVE ConnectionOK(c)
    BY DEF Connections
  <2>1. /\ client[c].pc = "off" /\ client[c].run = "none" /\ client[c].last = 0 /\ client[c].end = "none"
    BY <1>4 DEF NewClient
  <2>2. "none" \notin Runs
    BY FeedAssumption DEF Runs
  <2> QED
    BY <1>6, <2>1, <2>2 DEF ConnectionOK
<1>13. \A r, c : c \notin Readers(r)
  BY <1>4, ReadersAre DEF NewClient
<1>14. Channels
  <2> SUFFICES ASSUME NEW r \in Runs PROVE ChannelOK(r)
    BY DEF Channels
  <2>1. Readers(r) = {}
    BY <1>13
  <2>2. r \notin Retained(closedOrder) /\ r \notin finished
    BY <1>2, EmptyOrder
  <2>3. channel[r].state = "none" /\ channel[r].frames = <<>>
    BY <1>5 DEF NoChannel
  <2>4. Counting(channel[r].frames, run[r].seq)
    BY <1>8, <2>3 DEF Counting
  <2>5. Len(channel[r].frames) <= MaxFramesPerRun /\ Len(channel[r].frames) <= run[r].seq
    BY <1>3, <1>8, <2>3, MemoryAssumption
  <2> QED
    BY <1>3, <2>1, <2>2, <2>3, <2>4, <2>5 DEF ChannelOK, ChannelIs
<1>15. Ordered /\ Capped /\ Unused
  <2>1. TotalOrder(closedOrder) /\ Retained(closedOrder) = {}
    BY <1>2, EmptyOrder
  <2> QED
    BY <1>2, <1>5, <2>1 DEF Ordered, Capped, Unused
<1>16. \A c \in Clients : client[c].pc = "off" /\ client[c].end = "none"
  BY <1>4 DEF NewClient
<1>17. MemoryReaders /\ RedisReaders /\ ClosedMeansComplete
  BY <1>6, <1>16 DEF MemoryReaders, CursorOK, RedisReaders, ReaderOK, ClosedMeansComplete
<1>18. Logs
  <2> SUFFICES ASSUME NEW r \in Runs PROVE LogOK(r)
    BY DEF Logs
  <2>1. stream[r].entries = <<>> /\ stream[r].dropped = 0 /\ Len(stream[r].entries) = 0
    BY <1>5, <1>8 DEF NoStream
  <2>2. Smooth(stream[r].entries) /\ Bounded(stream[r].entries, run[r]) /\ Ending(stream[r].entries)
        /\ Bare(stream[r].entries)
    BY <2>1 DEF Smooth, Bounded, Ending, Bare
  <2>3. run[r].pc # "sending" /\ run[r].seq = 0
    BY <1>3
  <2> QED
    BY <1>2, <2>1, <2>2, <2>3 DEF LogOK, LogIs
<1> QED
  BY <1>7, <1>9, <1>10, <1>11, <1>12, <1>14, <1>15, <1>17, <1>18 DEF IInv, Types, Memory, Redis

LEMMA MemoryInvariant ==
  ASSUME IInv, MemoryStep
  PROVE  IInv'
<1>1. UNCHANGED redisBus
  BY DEF MemoryStep
<1>2. CASE \E r \in MemoryRuns : MemoryPublish(r) \/ MemoryEngineClose(r) \/ MemoryWithdraw(r) \/ MemoryForget(r)
  <2>1. PICK r \in MemoryRuns : MemoryPublish(r) \/ MemoryEngineClose(r) \/ MemoryWithdraw(r) \/ MemoryForget(r)
    BY <1>2
  <2>2. r \in Runs
    BY DEF Runs
  <2> QED
    BY <1>1, <2>1, <2>2, MemoryPublishStep, MemoryEngineCloseStep, MemoryWithdrawStep, MemoryForgetStep
<1>3. CASE \E c \in Clients : MemoryClient(c) \/ MemoryReturn(c)
  <2>1. PICK c \in Clients : MemoryClient(c) \/ MemoryReturn(c)
    BY <1>3
  <2> QED
    BY <1>1, <2>1, MemoryJoinCloseStep, MemorySubscribeStep, MemoryReadStep, MemoryReturnStep DEF MemoryClient
<1>4. CASE MemoryCrash
  BY <1>1, <1>4, MemoryCrashStep
<1> QED
  BY <1>2, <1>3, <1>4 DEF MemoryStep

LEMMA RedisInvariant ==
  ASSUME IInv, RedisStep
  PROVE  IInv'
<1>1. UNCHANGED memoryBus
  BY DEF RedisStep
<1>2. CASE \E r \in RedisRuns : RedisEngine(r) \/ RedisWithdraw(r) \/ RedisCrash(r) \/ ExpireStream(r)
                                   \/ ExpireClosedKey(r)
  <2>1. PICK r \in RedisRuns : RedisEngine(r) \/ RedisWithdraw(r) \/ RedisCrash(r) \/ ExpireStream(r)
                                   \/ ExpireClosedKey(r)
    BY <1>2
  <2>2. r \in Runs
    BY DEF Runs
  <2> QED
    BY <1>1, <2>1, <2>2, RedisPublishStep, RedisSendStep, RedisCloseAppendStep, RedisCloseMarkStep,
       RedisWithdrawStep, ExpireStreamStep, ExpireClosedKeyStep, RedisCrashStep DEF RedisEngine
<1>3. CASE \E c \in Clients : RedisClient(c) \/ RedisReturn(c)
  <2>1. PICK c \in Clients : RedisClient(c) \/ RedisReturn(c)
    BY <1>3
  <2> QED
    BY <1>1, <2>1, RedisJoinCloseStep, RedisAttachStep, RedisReplayStep, RedisPageStep, RedisCheckStep,
       RedisLiveStep, RedisReturnStep DEF RedisClient
<1>4. CASE Disconnect \/ Reconnect
  BY <1>1, <1>4, LinkStep
<1> QED
  BY <1>2, <1>3, <1>4 DEF RedisStep

LEMMA FeedInvariant ==
  ASSUME IInv, FeedStep
  PROVE  IInv'
<1>1. UNCHANGED <<memoryBus, redisBus>>
  BY DEF FeedStep
<1> QED
  BY <1>1, SettleStep, CancelStep, DeleteThreadStep, JoinStep, TellStep, HangUpStep DEF FeedStep

LEMMA StutterInvariant ==
  ASSUME IInv, UNCHANGED vars
  PROVE  IInv'
<1>1. /\ driver' = driver /\ run' = run /\ client' = client /\ published' = published /\ joins' = joins
      /\ trouble' = trouble /\ UNCHANGED memoryBus /\ UNCHANGED redisBus
  BY DEF vars, feed
<1>2. Types
  BY DEF IInv
<1>3. FeedTypes /\ driver \in Drivers
  BY <1>2 DEF Types, FeedTypes
<1>4. /\ channel' = channel /\ closedOrder' = closedOrder /\ finished' = finished /\ cursor' = cursor
      /\ stream' = stream /\ closedKey' = closedKey /\ subscribed' = subscribed /\ connected' = connected
      /\ mailbox' = mailbox /\ reading' = reading
  BY <1>1 DEF memoryBus, redisBus
<1>5. FeedTypes' /\ MemoryTypes' /\ RedisTypes'
  BY <1>1, <1>2, <1>4 DEF Types, FeedTypes, MemoryTypes, RedisTypes, Drivers
<1>6. Engines' /\ Connections' /\ ClosedMeansComplete'
  BY <1>1, <1>4 DEF IInv, Engines, EngineOK, Connections, ConnectionOK, ClosedMeansComplete, Terminal, Served
<1>7. (\A r : Readers(r)' = Readers(r)) /\ Busy' = Busy
  BY <1>1, SameReaders
<1>8. Memory'
  BY <1>1, <1>4, <1>7 DEF IInv, Memory, Channels, ChannelOK, Ordered, Capped, Unused, MemoryReaders, CursorOK,
     Position, Retained
<1>9. Redis'
  BY <1>1, <1>4 DEF IInv, Redis, Logs, LogOK, RedisReaders, ReaderOK
<1> QED
  BY <1>5, <1>6, <1>8, <1>9 DEF IInv, Types

(* The invariant of the streams, for any runs, clients and capacities and over *)
(* either bus: what the channels, logs, mailboxes and readers hold.            *)
THEOREM StreamInvariant == Spec => []IInv
<1>1. Init => IInv
  BY InitInvariant
<1>2. IInv /\ [Next]_vars => IInv'
  BY MemoryInvariant, RedisInvariant, FeedInvariant, StutterInvariant DEF Next
<1> QED
  BY <1>1, <1>2, PTL DEF Spec

(* A stream that ended because its run was closed carried the run's last frame *)
(* unless the run was cancelled, deleted or executed more than once, or its    *)
(* frames had expired before anything could be read (subscribe of either bus). *)
THEOREM ClosedStreamsComplete == Spec => []ClosedMeansComplete
<1>1. IInv => ClosedMeansComplete
  BY DEF IInv
<1> QED
  BY <1>1, StreamInvariant, PTL

(* The memory bus keeps no more closed channels than it retains, those still   *)
(* read excepted, and none that nobody can release (#evictClosedBeyondCap and  *)
(* the teardown of subscribe).                                                *)
THEOREM ChannelsStayBounded == Spec => []ChannelsBounded
<1>1. ASSUME IInv PROVE ChannelsBounded
  <2>1. Types /\ Channels /\ Capped /\ Unused
    BY <1>1 DEF IInv, Memory
  <2>2. driver \in {"memory", "redis"}
    BY <2>1 DEF Types, FeedTypes, Drivers
  <2>3. CASE driver = "memory"
    <3>1. \A r \in Runs : /\ channel[r].state = "closed" <=> r \in Retained(closedOrder)
                          /\ channel[r].state = "open" /\ Readers(r) = {} => run[r].pc \in {"running", "settled"}
      BY <2>1, <2>3 DEF Channels, ChannelOK, ChannelIs
    <3> QED
      BY <2>1, <2>3, <3>1 DEF Capped, ChannelsBounded
  <2>4. CASE driver = "redis"
    <3>1. Retained(closedOrder) = {} /\ Cardinality(Retained(closedOrder)) = 0
      BY <2>1, <2>4, EmptyOrder DEF Unused
    <3>2. \A r \in Runs : channel[r].state = "none"
      BY <2>1, <2>4 DEF Unused, NoChannel
    <3> QED
      BY <3>1, <3>2 DEF ChannelsBounded
  <2> QED
    BY <2>2, <2>3, <2>4
<1>2. IInv => ChannelsBounded
  BY <1>1
<1> QED
  BY <1>2, StreamInvariant, PTL

-----------------------------------------------------------------------------
(* The contract with a client.                                                *)
Anchored(c) ==
  client[c].fresh \/ client[c].pc \in {"off", "ending"} \/ mailbox[c].missed \/ mailbox[c].overflowed
Tops == [r \in Runs |-> run[r].top]
Lasts == [c \in Clients |-> client[c].last]
Anchors == [c \in Clients |-> Anchored(c)]

SameTops == \A r \in Runs : run'[r].top = run[r].top
SameLasts == \A c \in Clients : client'[c].last = client[c].last
SameAnchor(c) == Anchored(c)' <=> Anchored(c)
MoreAnchors == \A c \in Clients : Anchored(c) => Anchored(c)'

(* A step that may only loosen what a client relies on next.                   *)
LEMMA Loosened ==
  ASSUME SameTops, SameLasts, MoreAnchors
  PROVE  Contract!Next
<1>4. PICK S \in SUBSET Clients : S = {c \in Clients : Anchored(c)'}
  OBVIOUS
<1>1. Tops' = Tops /\ Lasts' = Lasts
  BY DEF SameTops, SameLasts, Tops, Lasts
<1>2. \A c \in Clients : Anchored(c)' = (Anchored(c) \/ c \in S)
  <2> TAKE c \in Clients
  <2>1. Anchored(c) \in BOOLEAN /\ Anchored(c)' \in BOOLEAN
    BY DEF Anchored
  <2>2. c \in S <=> Anchored(c)'
    BY <1>4
  <2>3. Anchored(c) => Anchored(c)'
    BY DEF MoreAnchors
  <2> QED
    BY <2>1, <2>2, <2>3
<1>3. Anchors' = [c \in Clients |-> Anchors[c] \/ c \in S]
  <2>1. \A c \in Clients : Anchors[c] = Anchored(c)
    BY DEF Anchors
  <2>2. Anchors' = [c \in Clients |-> Anchored(c)']
    BY DEF Anchors
  <2> QED
    BY <1>2, <2>1, <2>2
<1>5. Contract!Break(S)
  BY <1>1, <1>3 DEF Contract!Break, Tops, Lasts, Anchors, Anchored
<1>6. \E T \in SUBSET Clients : Contract!Break(T)
  BY <1>5
<1> QED
  BY <1>6 DEF Contract!Next

(* A frame more, or one that was published before.                             *)
LEMMA NumberedKeeps ==
  ASSUME NEW r \in Runs, run'[r].top = run[r].top + 1 \/ run'[r].top = run[r].top,
         \A s \in Runs : s # r => run'[s].top = run[s].top, client' = client, mailbox' = mailbox
  PROVE  Contract!Next
<1>1. CASE run'[r].top = run[r].top
  <2>1. SameTops /\ SameLasts /\ MoreAnchors
    BY <1>1 DEF SameTops, SameLasts, MoreAnchors, Anchored
  <2> QED
    BY <2>1, Loosened
<1>2. CASE run'[r].top = run[r].top + 1
  <2>1. Tops' = [Tops EXCEPT ![r] = @ + 1]
    BY <1>2 DEF Tops
  <2>2. Lasts' = Lasts /\ Anchors' = Anchors
    BY DEF Lasts, Anchors, Anchored
  <2>3. Contract!Publish(r)
    BY <2>1, <2>2 DEF Contract!Publish, Tops, Lasts, Anchors, Anchored
  <2> QED
    BY <2>3 DEF Contract!Next
<1> QED
  BY <1>1, <1>2

(* A client receives frame n.                                                 *)
LEMMA ReceivedKeeps ==
  ASSUME NEW c \in Clients, NEW r \in Runs, NEW n \in Nat, client[c].last \in Nat, run[r].top \in Nat,
         client[c].last < n, n <= run[r].top, Anchored(c) \/ n = client[c].last + 1,
         SameTops, client'[c].last = n, Anchored(c)' => Anchored(c),
         \A d \in Clients : d # c => client'[d].last = client[d].last /\ SameAnchor(d)
  PROVE  Contract!Next
<1>1. Tops' = Tops
  BY DEF SameTops, Tops
<1>2. Lasts' = [Lasts EXCEPT ![c] = n]
  BY DEF Lasts
<1>3. \A d \in Clients : Anchored(d) \in BOOLEAN /\ Anchored(d)' \in BOOLEAN
  BY DEF Anchored
<1>4. PICK more \in {FALSE, Anchored(c)} : more = Anchored(c)'
  BY <1>3
<1>5. Anchors' = [Anchors EXCEPT ![c] = more]
  <2>1. \A d \in Clients : d # c => Anchored(d)' = Anchored(d)
    BY <1>3 DEF SameAnchor
  <2>2. Anchors' = [d \in Clients |-> Anchored(d)'] /\ Anchors = [d \in Clients |-> Anchored(d)]
    BY DEF Anchors
  <2> QED
    BY <1>4, <2>1, <2>2
<1>6. Anchors[c] = Anchored(c) /\ Lasts[c] = client[c].last /\ Tops[r] = run[r].top
  BY DEF Anchors, Lasts, Tops
<1>7. n \in Lasts[c] + 1..Tops[r]
  BY <1>6
<1>8. Anchors[c] \/ n = Lasts[c] + 1
  BY <1>6
<1>9. more \in {FALSE, Anchors[c]}
  BY <1>6
<1>10. Contract!Receive(c)
  BY <1>1, <1>2, <1>5, <1>7, <1>8, <1>9 DEF Contract!Receive, Tops, Lasts, Anchors, Anchored
<1> QED
  BY <1>10 DEF Contract!Next

(* What one client does but receive.                                           *)
LEMMA ClientKeeps ==
  ASSUME SameTops, NEW c \in Clients, client'[c].last = client[c].last,
         Anchored(c) => Anchored(c)',
         \A d \in Clients : d # c => client'[d] = client[d] /\ mailbox'[d] = mailbox[d]
  PROVE  Contract!Next
<1>1. SameLasts
  BY DEF SameLasts
<1>2. MoreAnchors
  <2> SUFFICES ASSUME NEW d \in Clients, d # c PROVE Anchored(d) => Anchored(d)'
    BY DEF MoreAnchors
  <2> QED
    BY DEF Anchored
<1> QED
  BY <1>1, <1>2, Loosened

LEMMA EngineKeeps ==
  ASSUME SameTops, client' = client, mailbox' = mailbox
  PROVE  Contract!Next
<1>1. SameLasts /\ MoreAnchors
  BY DEF SameLasts, MoreAnchors, Anchored
<1> QED
  BY <1>1, Loosened

(* A PUBLISH loses nothing without a trace.                                    *)
LEMMA GivenKeeps ==
  ASSUME NEW box \in MailboxType, NEW new, NEW cl, NEW x, Given(new, box, cl, x), box.missed \/ box.overflowed
  PROVE  new.missed \/ new.overflowed
<1>1. CASE new = box
  BY <1>1
<1>2. CASE ~Intact(new)
  BY <1>2 DEF Intact
<1>3. CASE new = [box EXCEPT !.buffer = Append(@, x)]
  <2>1. new.missed = box.missed /\ new.overflowed = box.overflowed
    BY <1>3 DEF MailboxType
  <2> QED
    BY <2>1
<1> QED
  BY <1>1, <1>2, <1>3 DEF Given

LEMMA PublishedKeeps ==
  ASSUME RedisTypes, NEW r, NEW x,
         \A c \in Clients : client[c].pc = "off" \/ client[c].run # r => mailbox'[c] = mailbox[c],
         \A c \in Clients : client[c].pc # "off" /\ client[c].run = r
           => Given(mailbox'[c], mailbox[c], client[c], x),
         NEW c \in Clients, mailbox[c].missed \/ mailbox[c].overflowed
  PROVE  mailbox'[c].missed \/ mailbox'[c].overflowed
<1>1. mailbox[c] \in MailboxType
  BY DEF RedisTypes
<1>2. CASE client[c].pc = "off" \/ client[c].run # r
  BY <1>2
<1>3. CASE client[c].pc # "off" /\ client[c].run = r
  <2>1. Given(mailbox'[c], mailbox[c], client[c], x)
    BY <1>3
  <2>2. PICK new : new = mailbox'[c]
    OBVIOUS
  <2>3. new.missed \/ new.overflowed
    BY <1>1, <2>1, <2>2, GivenKeeps
  <2> QED
    BY <2>2, <2>3
<1> QED
  BY <1>2, <1>3

LEMMA TopsOfMoved ==
  ASSUME FeedTypes, NEW r \in Runs, NEW pc, run' = [run EXCEPT ![r].pc = pc]
  PROVE  SameTops
<1>1. run \in [Runs -> RunType] /\ run[r] \in RunType
  BY RunFields DEF FeedTypes
<1>2. run'[r].top = run[r].top
  BY <1>1 DEF RunType
<1>3. \A s \in Runs : s # r => run'[s] = run[s]
  BY <1>1
<1> QED
  BY <1>2, <1>3 DEF SameTops

LEMMA TopsOfRow ==
  ASSUME FeedTypes, NEW r \in Runs, NEW w \in Rows, run' = [run EXCEPT ![r].row = w]
  PROVE  SameTops
<1>1. run'[r].top = run[r].top /\ \A s \in Runs : s # r => run'[s] = run[s]
  BY RowMoved
<1> QED
  BY <1>1 DEF SameTops

LEMMA TopsOfWithdrawn ==
  ASSUME FeedTypes, NEW r \in Runs, run' = Withdrawn(r)
  PROVE  SameTops
<1> DEFINE w == IF run[r].row = "cancelling" THEN "cancelled" ELSE "deleted"
<1>1. w \in Rows
  BY DEF Rows
<1>2. run' = [run EXCEPT ![r].row = w]
  BY DEF Withdrawn, FeedTypes
<1> HIDE DEF w
<1> QED
  BY <1>1, <1>2, TopsOfRow

LEMMA TopOfNumbered ==
  ASSUME FeedTypes, NEW r \in Runs, EngineOK(r)
  PROVE  /\ Numbered(r).top = run[r].top + 1 \/ Numbered(r).top = run[r].top
         /\ Numbered(r) \in RunType
<1>1. run[r] \in RunType /\ run[r].seq \in Nat /\ run[r].top \in Nat /\ run[r].seq <= run[r].top
  BY RunFields DEF EngineOK
<1> DEFINE n == run[r].seq + 1
           t == IF n > run[r].top THEN n ELSE run[r].top
<1>2. Numbered(r) = [run[r] EXCEPT !.seq = n, !.top = t]
  BY DEF Numbered, NextSeq
<1>3. n \in Nat /\ t \in Nat /\ (t = run[r].top + 1 \/ t = run[r].top)
  BY <1>1
<1> HIDE DEF n, t
<1>4. Numbered(r).top = t /\ Numbered(r) \in RunType
  BY <1>1, <1>2, <1>3 DEF RunType
<1> QED
  BY <1>3, <1>4

-----------------------------------------------------------------------------
(* The steps keep the contract.                                               *)
LEMMA FeedKeeps ==
  ASSUME IInv, FeedStep
  PROVE  Contract!Next
<1>1. Types /\ Connections /\ mailbox' = mailbox
  BY DEF IInv, FeedStep, redisBus
<1>2. FeedTypes /\ \A c \in Clients : client[c] \in ClientType /\ client \in [Clients -> ClientType]
  BY <1>1 DEF Types, FeedTypes
<1>3. ASSUME NEW r \in Runs, Settle(r) PROVE Contract!Next
  BY <1>1, <1>2, <1>3, TopsOfMoved, EngineKeeps DEF Settle
<1>4. ASSUME NEW r \in Runs, NEW c \in Clients, Join(c, r) PROVE Contract!Next
  <2> DEFINE pc == IF Terminal(r) THEN "close" ELSE "subscribe"
             v == [client[c] EXCEPT !.pc = pc, !.run = r, !.fresh = TRUE]
  <2>1. client' = [client EXCEPT ![c] = v] /\ run' = run
    BY <1>4 DEF Join
  <2>2. v.last = client[c].last /\ v.fresh = TRUE
    BY <1>2 DEF ClientType
  <2> HIDE DEF v
  <2>3. client'[c] = v /\ \A d \in Clients : d # c => client'[d] = client[d]
    BY <1>2, <2>1
  <2>4. SameTops
    BY <2>1 DEF SameTops
  <2>5. Anchored(c)'
    BY <2>2, <2>3 DEF Anchored
  <2> QED
    BY <1>1, <2>2, <2>3, <2>4, <2>5, ClientKeeps
<1>5. ASSUME NEW c \in Clients, Tell(c) PROVE Contract!Next
  <2>1. client'[c].pc = "off" /\ client'[c].last = client[c].last /\ run' = run
        /\ \A d \in Clients : d # c => client'[d] = client[d]
    BY <1>2, <1>5 DEF Tell, ClientType
  <2>2. SameTops /\ Anchored(c)'
    BY <2>1 DEF SameTops, Anchored
  <2> QED
    BY <1>1, <2>1, <2>2, ClientKeeps
<1>6. ASSUME NEW c \in Clients, HangUp(c) PROVE Contract!Next
  <2>1. client'[c].pc = client[c].pc /\ client'[c].last = client[c].last /\ client'[c].fresh = client[c].fresh
        /\ run' = run
        /\ \A d \in Clients : d # c => client'[d] = client[d]
    BY <1>2, <1>6 DEF HangUp, ClientType
  <2>2. SameTops /\ (Anchored(c) => Anchored(c)')
    BY <1>1, <2>1 DEF SameTops, Anchored
  <2> QED
    BY <1>1, <2>1, <2>2, ClientKeeps
<1>7. ASSUME NEW r \in Runs, Cancel(r) \/ DeleteThread(r) PROVE Contract!Next
  <2>1. client' = client /\ \E w \in Rows : run' = [run EXCEPT ![r].row = w]
    BY <1>7 DEF Cancel, DeleteThread, Rows
  <2>2. SameTops
    BY <1>2, <2>1, TopsOfRow
  <2> QED
    BY <1>1, <2>1, <2>2, EngineKeeps
<1> QED
  BY <1>3, <1>4, <1>5, <1>6, <1>7 DEF FeedStep

(* A client that leaves, whatever became of its mailbox.                       *)
LEMMA LeavingKeeps ==
  ASSUME FeedTypes, SameTops, NEW c \in Clients,
         (\E why \in Whys : client' = Ended(c, why)) \/ client' = Dropped({c}),
         \A d \in Clients : d # c => mailbox'[d] = mailbox[d]
  PROVE  Contract!Next
<1>1. /\ client'[c].last = client[c].last /\ client'[c].pc \in {"off", "ending"}
      /\ \A d \in Clients : d # c => client'[d] = client[d]
  <2>1. CASE \E why \in Whys : client' = Ended(c, why)
    <3>1. PICK why \in Whys : client' = Ended(c, why)
      BY <2>1
    <3>2. /\ client'[c].last = client[c].last
          /\ client'[c].pc = IF client[c].left THEN "off" ELSE "ending"
          /\ \A d \in Clients : d # c => client'[d] = client[d]
      BY <3>1, EndedMoved
    <3> QED
      BY <3>2
  <2>2. CASE client' = Dropped({c})
    BY <2>2, DroppedOne
  <2> QED
    BY <2>1, <2>2
<1>2. Anchored(c)'
  BY <1>1 DEF Anchored
<1> QED
  BY <1>1, <1>2, ClientKeeps

(* Frame n, newer than all before it, is received: the flags of the mailbox    *)
(* stay.                                                                      *)
LEMMA GotKeeps ==
  ASSUME FeedTypes, SameTops, NEW c \in Clients, NEW r \in Runs, client[c].run = r, NEW n \in Nat,
         client[c].pc \notin {"off", "ending"}, client' = Got(c, n),
         client[c].last < n, n <= run[r].top, Anchored(c) \/ n = client[c].last + 1,
         mailbox'[c].missed = mailbox[c].missed, mailbox'[c].overflowed = mailbox[c].overflowed,
         \A d \in Clients : d # c => mailbox'[d] = mailbox[d]
  PROVE  Contract!Next
<1>1. /\ client'[c].pc = client[c].pc /\ client'[c].last = n /\ client'[c].fresh = FALSE
      /\ \A d \in Clients : d # c => client'[d] = client[d]
  BY GotMoved
<1>2. Anchored(c)' => Anchored(c)
  BY <1>1 DEF Anchored
<1>3. \A d \in Clients : d # c => client'[d].last = client[d].last /\ SameAnchor(d)
  BY <1>1 DEF SameAnchor, Anchored
<1>4. client[c].last \in Nat /\ run[r].top \in Nat
  BY ClientFields, RunFields
<1> QED
  BY <1>1, <1>2, <1>3, <1>4, ReceivedKeeps

LEMMA MemoryKeeps ==
  ASSUME IInv, MemoryStep
  PROVE  Contract!Next
<1>1. mailbox' = mailbox
  BY DEF MemoryStep, redisBus
<1>3. ASSUME NEW r \in Runs, MemoryPublish(r) PROVE Contract!Next
  <2>1. driver = "memory" /\ run' = [run EXCEPT ![r] = Numbered(r)] /\ client' = client
    BY <1>3 DEF MemoryPublish
  <2>2. FeedTypes /\ EngineOK(r)
    BY <2>1, MemoryFacts
  <2>3. run'[r] = Numbered(r) /\ \A s \in Runs : s # r => run'[s] = run[s]
    BY <2>1, <2>2 DEF FeedTypes
  <2> QED
    BY <1>1, <2>1, <2>2, <2>3, TopOfNumbered, NumberedKeeps
<1>4. ASSUME NEW r \in Runs, MemoryEngineClose(r) \/ MemoryWithdraw(r) \/ MemoryForget(r) PROVE Contract!Next
  <2>1. FeedTypes
    BY <1>4, MemoryFacts DEF MemoryEngineClose, MemoryWithdraw, MemoryForget
  <2>2. client' = client /\ SameTops
    BY <1>4, <2>1, TopsOfMoved, TopsOfWithdrawn DEF MemoryEngineClose, MemoryWithdraw, MemoryForget, SameTops
  <2> QED
    BY <1>1, <2>2, EngineKeeps
<1>5. ASSUME NEW c \in Clients, MemoryJoinClose(c) PROVE Contract!Next
  <2>1. driver = "memory" /\ client[c].pc = "close" /\ client' = [client EXCEPT ![c].pc = "subscribe"] /\ run' = run
    BY <1>5 DEF MemoryJoinClose
  <2>2. FeedTypes /\ ConnectionOK(c) /\ "subscribe" \in ClientPcs
    BY <2>1, MemoryFacts DEF ClientPcs
  <2>3. /\ client'[c].last = client[c].last /\ client'[c].fresh = client[c].fresh
        /\ \A d \in Clients : d # c => client'[d] = client[d]
    BY <2>1, <2>2, ClientMoved
  <2>4. SameTops /\ Anchored(c)'
    BY <2>1, <2>2, <2>3 DEF SameTops, Anchored, ConnectionOK
  <2> QED
    BY <1>1, <2>3, <2>4, ClientKeeps
<1>6. ASSUME NEW c \in Clients, MemorySubscribe(c) PROVE Contract!Next
  <2>1. /\ driver = "memory" /\ client[c].pc = "subscribe" /\ run' = run
        /\ client' = Ended(c, "gone") \/ client' = [client EXCEPT ![c].pc = "live"]
    BY <1>6 DEF MemorySubscribe
  <2>2. FeedTypes /\ ConnectionOK(c) /\ "live" \in ClientPcs /\ "gone" \in Whys
    BY <2>1, MemoryFacts DEF ClientPcs, Whys
  <2>3. SameTops
    BY <2>1 DEF SameTops
  <2>4. CASE client' = Ended(c, "gone")
    BY <1>1, <2>2, <2>3, <2>4, LeavingKeeps
  <2>5. CASE client' = [client EXCEPT ![c].pc = "live"]
    <3>1. /\ client'[c].last = client[c].last /\ client'[c].fresh = client[c].fresh
          /\ \A d \in Clients : d # c => client'[d] = client[d]
      BY <2>2, <2>5, ClientMoved
    <3>2. Anchored(c)'
      BY <2>1, <2>2, <3>1 DEF Anchored, ConnectionOK
    <3> QED
      BY <1>1, <2>3, <3>1, <3>2, ClientKeeps
  <2> QED
    BY <2>1, <2>4, <2>5
<1>7. ASSUME NEW c \in Clients, MemoryReturn(c) PROVE Contract!Next
  <2>1. driver = "memory" /\ run' = run /\ client' = Dropped({c})
    BY <1>7 DEF MemoryReturn, Leave
  <2>2. FeedTypes /\ SameTops
    BY <2>1, MemoryFacts DEF SameTops
  <2> QED
    BY <1>1, <2>1, <2>2, LeavingKeeps
<1>8. ASSUME MemoryCrash PROVE Contract!Next
  <2>1. /\ driver = "memory" /\ run' = [r \in Runs |-> Recovered(r)]
        /\ client' = Dropped({c \in Clients : client[c].pc # "off"})
    BY <1>8 DEF MemoryCrash
  <2>2. FeedTypes
    BY <2>1, MemoryFacts
  <2>3. SameTops
    BY <2>1, <2>2, Recovering DEF SameTops
  <2> DEFINE S == {c \in Clients : client[c].pc # "off"}
  <2>4. /\ \A d \in Clients : d \notin S => client'[d] = client[d]
        /\ \A d \in S \cap Clients : client'[d].pc = "off" /\ client'[d].last = client[d].last
    <3>1. client' = Dropped(S)
      BY <2>1
    <3> HIDE DEF S
    <3> QED
      BY <2>2, <3>1, DroppedMoved
  <2>5. \A d \in Clients : client'[d].pc = "off" /\ client'[d].last = client[d].last
    <3> TAKE d \in Clients
    <3>1. CASE client[d].pc = "off"
      <4>1. d \notin S
        BY <3>1
      <4> HIDE DEF S
      <4> QED
        BY <2>4, <3>1, <4>1
    <3>2. CASE client[d].pc # "off"
      <4>1. d \in S \cap Clients
        BY <3>2
      <4> HIDE DEF S
      <4> QED
        BY <2>4, <4>1
    <3> QED
      BY <3>1, <3>2
  <2>6. SameLasts /\ MoreAnchors
    BY <2>5 DEF SameLasts, MoreAnchors, Anchored
  <2> QED
    BY <2>3, <2>6, Loosened
<1>9. ASSUME NEW c \in Clients, MemoryRead(c) PROVE Contract!Next
  <2> DEFINE at == cursor[c].at
  <2>1. driver = "memory" /\ client[c].pc = "live" /\ run' = run
    BY <1>9 DEF MemoryRead
  <2>2. /\ FeedTypes /\ MemoryTypes /\ ConnectionOK(c) /\ CursorOK(c)
        /\ \A s \in Runs : EngineOK(s) /\ ChannelOK(s)
    BY <2>1, MemoryFacts
  <2>3. SameTops /\ client[c].pc # "off"
    BY <2>1 DEF SameTops
  <2>4. PICK r \in Runs : r = client[c].run
    BY <2>2, <2>3, ReaderRun
  <2> DEFINE l == Len(channel[r].frames)
             n == channel[r].frames[at + 1]
  <2>5. \/ client' = Ended(c, "behind") \/ client' = Ended(c, "close") \/ client' = Dropped({c})
        \/ client' = client
        \/ at >= 0 /\ at < l /\ n > cursor[c].after /\ client' = Got(c, n)
    BY <1>9, <2>4 DEF MemoryRead, Leave
  <2>6. CASE client' = Ended(c, "behind") \/ client' = Ended(c, "close") \/ client' = Dropped({c})
    <3>1. "behind" \in Whys /\ "close" \in Whys
      BY DEF Whys
    <3> QED
      BY <1>1, <2>2, <2>3, <2>6, <3>1, LeavingKeeps
  <2>7. CASE client' = client
    BY <1>1, <2>3, <2>7, EngineKeeps
  <2>8. CASE at >= 0 /\ at < l /\ n > cursor[c].after /\ client' = Got(c, n)
    <3>1. /\ at \in Int /\ cursor[c].after \in Nat /\ l \in Nat /\ run[r].seq \in Nat
          /\ client[c].last \in Nat /\ client[c].fresh \in BOOLEAN
      BY <2>2, CursorFields, ChannelFields, RunFields, ClientFields
    <3>2. n \in Nat /\ n = run[r].seq - l + (at + 1) /\ n <= run[r].top
      BY <2>2, <2>8, <3>1, FrameAt
    <3>3. Position(c) = run[r].seq - l + at
      BY <2>4 DEF Position
    <3>4. /\ client[c].fresh => cursor[c].after = client[c].last
          /\ ~client[c].fresh => Position(c) = client[c].last
      BY <2>1, <2>2 DEF CursorOK
    <3> HIDE DEF n, at, l
    <3>5. client[c].last < n /\ (client[c].fresh \/ n = client[c].last + 1)
      BY <2>8, <3>1, <3>2, <3>3, <3>4
    <3>6. Anchored(c) \/ n = client[c].last + 1
      BY <3>5 DEF Anchored
    <3> QED
      BY <1>1, <2>1, <2>2, <2>3, <2>4, <2>8, <3>2, <3>5, <3>6, GotKeeps
  <2> QED
    BY <2>5, <2>6, <2>7, <2>8
<1>10. \A r \in MemoryRuns : r \in Runs
  BY DEF Runs
<1> QED
  BY <1>3, <1>4, <1>5, <1>6, <1>7, <1>8, <1>9, <1>10 DEF MemoryStep, MemoryClient

(* The first of s is next, if nothing comes before it.                         *)
LEMMA NextInLine ==
  ASSUME Roomy, NEW s \in Seq(Nat), s # <<>>, NEW n \in Nat, NEW e
  PROVE  \A free, bare : Ahead(s, free, n, <<>>, bare, e) /\ ~free => s[1] <= n + 1
<1>1. 1 \in 1..Len(s) /\ Len(<<>>) = 0
  BY Popped
<1> SUFFICES ASSUME NEW free, NEW bare, Ahead(s, free, n, <<>>, bare, e), ~free
             PROVE  s[1] <= n + 1
  OBVIOUS
<1>2. Follows(s, free, n, <<>>)
  BY DEF Ahead
<1>3. \/ s[1] <= n + 1
      \/ \E i \in 1..Len(<<>>) : s[1] <= <<>>[i] + 1
      \/ \E i \in 1..1 - 1 : s[1] <= s[i] + 1
  BY <1>1, <1>2 DEF Follows
<1> QED
  BY <1>1, <1>3

(* A PUBLISH, and a client of the run that only moves on.                      *)
LEMMA PublishingKeeps ==
  ASSUME FeedTypes, RedisTypes, driver = "redis", NEW r \in Runs, NEW x \in Nat, Publish(r, x),
         \A c \in Clients : ReaderOK(c), SameTops, client' = client
  PROVE  Contract!Next
<1>1. /\ \A c \in Clients : client[c].pc = "off" \/ client[c].run # r => mailbox'[c] = mailbox[c]
      /\ \A c \in Clients : client[c].pc # "off" /\ client[c].run = r
           => Given(mailbox'[c], mailbox[c], client[c], x)
  BY Published
<1>2. \A c \in Clients :
        mailbox[c].missed \/ mailbox[c].overflowed => mailbox'[c].missed \/ mailbox'[c].overflowed
  BY <1>1, PublishedKeeps
<1>3. SameLasts /\ MoreAnchors
  BY <1>2 DEF SameLasts, MoreAnchors, Anchored
<1> QED
  BY <1>3, Loosened

LEMMA RedisLeaveKeeps ==
  ASSUME FeedTypes, RedisTypes, SameTops, NEW c \in Clients, mailbox' = [mailbox EXCEPT ![c] = NoMailbox],
         (\E why \in Whys : client' = Ended(c, why)) \/ client' = Dropped({c})
  PROVE  Contract!Next
<1>1. \A d \in Clients : d # c => mailbox'[d] = mailbox[d]
  BY DEF RedisTypes
<1> QED
  BY <1>1, LeavingKeeps

LEMMA SawCloseKeeps ==
  ASSUME FeedTypes, RedisTypes, SameTops, NEW c \in Clients, SawClose(c)
  PROVE  Contract!Next
<1> DEFINE why == IF mailbox[c].missed \/ mailbox[c].overflowed THEN "holed" ELSE "close"
<1>1. client' = Ended(c, why) /\ mailbox' = [mailbox EXCEPT ![c] = NoMailbox]
  BY DEF SawClose, RedisLeave
<1>2. why \in Whys
  BY DEF Whys
<1>3. \E w \in Whys : client' = Ended(c, w)
  BY <1>1, <1>2
<1> QED
  BY <1>1, <1>3, RedisLeaveKeeps

(* The engine, and what expires.                                              *)
LEMMA RedisEngineKeeps ==
  ASSUME IInv, NEW r \in Runs,
         RedisEngine(r) \/ RedisWithdraw(r) \/ RedisCrash(r) \/ ExpireStream(r) \/ ExpireClosedKey(r)
  PROVE  Contract!Next
<1>1. driver = "redis"
  BY DEF RedisEngine, RedisPublish, RedisSend, RedisCloseAppend, RedisCloseMark, RedisWithdraw, ExpireStream,
         ExpireClosedKey, RedisCrash
<1>2. FeedTypes /\ RedisTypes /\ EngineOK(r) /\ \A c \in Clients : ReaderOK(c)
  BY <1>1, RedisFacts
<1>3. CASE RedisPublish(r)
  <2> DEFINE f == [Numbered(r) EXCEPT !.pc = "sending"]
  <2>1. run' = [run EXCEPT ![r] = f] /\ client' = client /\ mailbox' = mailbox
    BY <1>3 DEF RedisPublish
  <2>2. /\ Numbered(r).top = run[r].top + 1 \/ Numbered(r).top = run[r].top
        /\ Numbered(r) \in RunType
    BY <1>2, TopOfNumbered
  <2>3. f.top = Numbered(r).top
    BY <2>2 DEF RunType
  <2> HIDE DEF f
  <2>4. run'[r] = f /\ \A s \in Runs : s # r => run'[s] = run[s]
    BY <1>2, <2>1 DEF FeedTypes
  <2> QED
    BY <2>1, <2>2, <2>3, <2>4, NumberedKeeps
<1>4. CASE RedisSend(r)
  <2>1. Publish(r, run[r].seq) /\ client' = client /\ SameTops /\ run[r].seq \in Nat
    BY <1>2, <1>4, TopsOfMoved, RunFields DEF RedisSend
  <2> QED
    BY <1>1, <1>2, <2>1, PublishingKeeps
<1>5. CASE RedisCloseAppend(r)
  <2>1. client' = client /\ mailbox' = mailbox
        /\ \E pc \in RunPcs : run' = [run EXCEPT ![r].pc = pc]
    BY <1>5 DEF RedisCloseAppend, RunPcs
  <2>2. SameTops
    BY <1>2, <2>1, TopsOfMoved
  <2> QED
    BY <2>1, <2>2, EngineKeeps
<1>6. CASE RedisCloseMark(r)
  <2>1. Publish(r, CLOSE) /\ client' = client /\ SameTops /\ CLOSE \in Nat
    BY <1>2, <1>6, TopsOfMoved DEF RedisCloseMark, CLOSE
  <2> QED
    BY <1>1, <1>2, <2>1, PublishingKeeps
<1>7. CASE ExpireStream(r) \/ ExpireClosedKey(r)
  <2>1. client' = client /\ mailbox' = mailbox /\ SameTops
    BY <1>7 DEF ExpireStream, ExpireClosedKey, SameTops
  <2> QED
    BY <2>1, EngineKeeps
<1>8. CASE RedisCrash(r)
  <2>1. run' = [run EXCEPT ![r] = Recovered(r)] /\ client' = client /\ mailbox' = mailbox
    BY <1>8 DEF RedisCrash, redisBus
  <2>2. Recovered(r).top = run[r].top
    BY <1>2, Recovering
  <2>3. run'[r] = Recovered(r) /\ \A s \in Runs : s # r => run'[s] = run[s]
    BY <1>2, <2>1 DEF FeedTypes
  <2>4. SameTops
    BY <2>2, <2>3 DEF SameTops
  <2> QED
    BY <2>1, <2>4, EngineKeeps
<1>9. CASE RedisWithdraw(r)
  <2>1. client' = client /\ SameTops /\ CLOSE \in Nat
    BY <1>2, <1>9, TopsOfWithdrawn DEF RedisWithdraw, CLOSE
  <2>2. mailbox' = mailbox \/ Publish(r, CLOSE)
    BY <1>9 DEF RedisWithdraw, CloseNow
  <2>3. CASE mailbox' = mailbox
    BY <2>1, <2>3, EngineKeeps
  <2>4. CASE Publish(r, CLOSE)
    BY <1>1, <1>2, <2>1, <2>4, PublishingKeeps
  <2> QED
    BY <2>2, <2>3, <2>4
<1> QED
  BY <1>3, <1>4, <1>5, <1>6, <1>7, <1>8, <1>9 DEF RedisEngine

(* Setting up a reader: its connection is fresh.                               *)
LEMMA RedisSetUpKeeps ==
  ASSUME IInv, NEW c \in Clients, RedisJoinClose(c) \/ RedisAttach(c) \/ RedisReplay(c)
  PROVE  Contract!Next
<1>1. /\ driver = "redis" /\ client[c].pc \in {"close", "subscribe", "replay"} /\ run' = run
      /\ \E pc \in ClientPcs : client' = [client EXCEPT ![c].pc = pc]
  BY DEF RedisJoinClose, RedisAttach, RedisReplay, ClientPcs
<1>2. FeedTypes /\ RedisTypes /\ ConnectionOK(c) /\ \A d \in Clients : ReaderOK(d)
  BY <1>1, RedisFacts
<1>3. /\ client'[c].last = client[c].last /\ client'[c].fresh = client[c].fresh
      /\ \A d \in Clients : d # c => client'[d] = client[d]
  BY <1>1, <1>2, ClientMoved
<1>4. SameTops /\ client[c].fresh
  BY <1>1, <1>2 DEF SameTops, ConnectionOK
<1>5. Anchored(c)'
  BY <1>3, <1>4 DEF Anchored
<1>6. CASE mailbox' = mailbox
  BY <1>3, <1>4, <1>5, <1>6, ClientKeeps
<1>7. CASE mailbox' # mailbox
  <2>1. client[c].pc = "close" /\ Publish(client[c].run, CLOSE)
    BY <1>7 DEF RedisJoinClose, RedisAttach, RedisReplay, CloseNow
  <2>2. PICK r \in Runs : r = client[c].run
    BY <1>2, <2>1, ReaderRun
  <2>3. Publish(r, CLOSE) /\ CLOSE \in Nat
    BY <2>1, <2>2 DEF CLOSE
  <2>4. /\ \A d \in Clients : client[d].pc = "off" \/ client[d].run # r => mailbox'[d] = mailbox[d]
        /\ \A d \in Clients : client[d].pc # "off" /\ client[d].run = r
             => Given(mailbox'[d], mailbox[d], client[d], CLOSE)
    BY <1>1, <1>2, <2>3, Published
  <2>5. \A d \in Clients :
          mailbox[d].missed \/ mailbox[d].overflowed => mailbox'[d].missed \/ mailbox'[d].overflowed
    BY <1>2, <2>4, PublishedKeeps
  <2>6. SameLasts
    BY <1>3 DEF SameLasts
  <2>7. MoreAnchors
    <3> SUFFICES ASSUME NEW d \in Clients PROVE Anchored(d) => Anchored(d)'
      BY DEF MoreAnchors
    <3>1. CASE d = c
      BY <1>5, <3>1
    <3>2. CASE d # c
      <4>1. client'[d] = client[d]
        BY <1>3, <3>2
      <4> QED
        BY <2>5, <4>1 DEF Anchored
    <3> QED
      BY <3>1, <3>2
  <2> QED
    BY <1>4, <2>6, <2>7, Loosened
<1> QED
  BY <1>6, <1>7

LEMMA RedisCheckKeeps ==
  ASSUME IInv, NEW c \in Clients, RedisCheck(c)
  PROVE  Contract!Next
<1>1. /\ driver = "redis" /\ client[c].pc \in {"paging", "live"} /\ run' = run /\ mailbox' = mailbox
      /\ \E pc \in {"sweeping", "live"} : client' = [client EXCEPT ![c].pc = pc]
  BY DEF RedisCheck, Quiet
<1>2. FeedTypes
  BY <1>1, RedisFacts
<1>3. PICK pc \in {"sweeping", "live"} : client' = [client EXCEPT ![c].pc = pc]
  BY <1>1
<1>4. pc \in ClientPcs
  BY DEF ClientPcs
<1>5. /\ client'[c].last = client[c].last /\ client'[c].fresh = client[c].fresh
      /\ \A d \in Clients : d # c => client'[d] = client[d]
  BY <1>2, <1>3, <1>4, ClientMoved
<1>6. SameTops /\ (Anchored(c) => Anchored(c)')
  BY <1>1, <1>5 DEF SameTops, Anchored
<1> QED
  BY <1>1, <1>5, <1>6, ClientKeeps

(* Reading: what comes first of s, the page or the mailbox, goes on from the   *)
(* last number seen.                                                          *)
LEMMA ReadingKeeps ==
  ASSUME Roomy, FeedTypes, RedisTypes, SameTops, NEW c \in Clients, ConnectionOK(c),
         client[c].pc \in {"paging", "live", "sweeping"}, reading[c].lastSeq = client[c].last,
         NEW s \in Seq(Nat), s # <<>>, NEW n \in Nat, n = s[1], n > reading[c].lastSeq,
         Bounded(s, run[client[c].run]),
         \E bare \in BOOLEAN : Intact(mailbox[c])
            => Ahead(s, client[c].fresh, reading[c].lastSeq, <<>>, bare, run[client[c].run]),
         client' = Got(c, n),
         mailbox'[c].missed = mailbox[c].missed, mailbox'[c].overflowed = mailbox[c].overflowed,
         \A d \in Clients : d # c => mailbox'[d] = mailbox[d]
  PROVE  Contract!Next
<1>1. PICK r \in Runs : r = client[c].run
  BY ReaderRun
<1>2. reading[c].lastSeq \in Nat /\ client[c].last \in Nat /\ client[c].fresh \in BOOLEAN
  BY ReadingFields, ClientFields DEF RedisTypes
<1>3. n <= run[r].top
  <2>1. 1 \in 1..Len(s)
    BY Popped
  <2> QED
    BY <1>1, <2>1 DEF Bounded
<1>4. ASSUME ~Anchored(c) PROVE n = client[c].last + 1
  <2>1. Intact(mailbox[c]) /\ ~client[c].fresh
    BY <1>4 DEF Anchored, Intact
  <2>2. PICK bare \in BOOLEAN :
          Ahead(s, client[c].fresh, reading[c].lastSeq, <<>>, bare, run[client[c].run])
    BY <2>1
  <2>3. s[1] <= reading[c].lastSeq + 1
    BY <1>2, <2>1, <2>2, NextInLine
  <2> QED
    BY <1>2, <2>3
<1>5. client[c].pc \notin {"off", "ending"} /\ client[c].last < n
  BY <1>2
<1> QED
  BY <1>1, <1>3, <1>4, <1>5, GotKeeps

LEMMA RedisPageKeeps ==
  ASSUME Roomy, IInv, NEW c \in Clients, RedisPage(c)
  PROVE  Contract!Next
<1> DEFINE page == reading[c].page
           m == Head(page)
<1>1. /\ driver = "redis" /\ client[c].pc \in {"paging", "sweeping"} /\ run' = run
      /\ \/ RedisLeave(c, Ended(c, "gone"))
         \/ SawClose(c)
         \/ page # <<>> /\ m > reading[c].lastSeq /\ client' = Got(c, m) /\ mailbox' = mailbox
         \/ client' = client /\ mailbox' = mailbox
  BY DEF RedisPage, Newer
<1>2. FeedTypes /\ RedisTypes /\ ConnectionOK(c) /\ ReaderOK(c)
  BY <1>1, RedisFacts
<1>3. SameTops /\ client[c].pc # "off" /\ client[c].pc \in Attached
  BY <1>1 DEF SameTops, Attached
<1>4. CASE RedisLeave(c, Ended(c, "gone"))
  <2>1. client' = Ended(c, "gone") /\ mailbox' = [mailbox EXCEPT ![c] = NoMailbox] /\ "gone" \in Whys
    BY <1>4 DEF RedisLeave, Whys
  <2> QED
    BY <1>2, <1>3, <2>1, RedisLeaveKeeps
<1>5. CASE SawClose(c)
  BY <1>2, <1>3, <1>5, SawCloseKeeps
<1>6. CASE page # <<>> /\ m > reading[c].lastSeq /\ client' = Got(c, m) /\ mailbox' = mailbox
  <2>1. ReaderIs(client[c], mailbox[c], reading[c], stream[client[c].run], run[client[c].run],
                 closedKey, subscribed, trouble)
    BY <1>2, <1>3 DEF ReaderOK
  <2>2. page \in Seq(Nat)
    BY <1>2 DEF RedisTypes, ReadingType
  <2>3. PICK n \in Nat : n = m
    BY <1>6, <2>2, Popped
  <2>4. n = page[1] /\ n > reading[c].lastSeq /\ client' = Got(c, n)
    BY <1>6, <2>2, <2>3, Popped
  <2>5. reading[c].lastSeq = client[c].last /\ Bounded(page, run[client[c].run])
    BY <1>3, <2>1 DEF ReaderIs, BoxIs
  <2>6. Intact(mailbox[c]) =>
          Ahead(page, client[c].fresh, reading[c].lastSeq, <<>>, Expired(client[c], trouble), run[client[c].run])
    BY <1>1, <2>1 DEF ReaderIs, PageIs
  <2>7. Expired(client[c], trouble) \in BOOLEAN
    BY DEF Expired
  <2>8. \E bare \in BOOLEAN : Intact(mailbox[c]) =>
          Ahead(page, client[c].fresh, reading[c].lastSeq, <<>>, bare, run[client[c].run])
    BY <2>6, <2>7
  <2> HIDE DEF page, m
  <2> QED
    BY <1>1, <1>2, <1>3, <1>6, <2>2, <2>4, <2>5, <2>8, ReadingKeeps
<1>7. CASE client' = client /\ mailbox' = mailbox
  BY <1>3, <1>7, EngineKeeps
<1> QED
  BY <1>1, <1>4, <1>5, <1>6, <1>7

LEMMA RedisLiveKeeps ==
  ASSUME Roomy, IInv, NEW c \in Clients, RedisLive(c)
  PROVE  Contract!Next
<1> DEFINE buffer == mailbox[c].buffer
           m == Head(buffer)
           taken == [mailbox EXCEPT ![c].buffer = Tail(buffer)]
<1>1. /\ driver = "redis" /\ client[c].pc = "live" /\ run' = run
      /\ \/ RedisLeave(c, Ended(c, "behind"))
         \/ SawClose(c)
         \/ RedisLeave(c, Dropped({c}))
         \/ buffer # <<>> /\ m > reading[c].lastSeq /\ client' = Got(c, m) /\ mailbox' = taken
         \/ client' = client /\ mailbox' = taken
  BY DEF RedisLive, Newer
<1>2. FeedTypes /\ RedisTypes /\ ConnectionOK(c) /\ ReaderOK(c)
  BY <1>1, RedisFacts
<1>3. SameTops /\ client[c].pc # "off" /\ client[c].pc \in Attached
  BY <1>1 DEF SameTops, Attached
<1>4. CASE RedisLeave(c, Ended(c, "behind")) \/ RedisLeave(c, Dropped({c}))
  <2>1. /\ client' = Ended(c, "behind") \/ client' = Dropped({c})
        /\ mailbox' = [mailbox EXCEPT ![c] = NoMailbox] /\ "behind" \in Whys
    BY <1>4 DEF RedisLeave, Whys
  <2> QED
    BY <1>2, <1>3, <2>1, RedisLeaveKeeps
<1>5. CASE SawClose(c)
  BY <1>2, <1>3, <1>5, SawCloseKeeps
<1>6. ASSUME mailbox' = taken
      PROVE  /\ mailbox'[c].missed = mailbox[c].missed /\ mailbox'[c].overflowed = mailbox[c].overflowed
             /\ \A d \in Clients : d # c => mailbox'[d] = mailbox[d]
  BY <1>2, <1>6 DEF RedisTypes, MailboxType
<1>7. CASE buffer # <<>> /\ m > reading[c].lastSeq /\ client' = Got(c, m) /\ mailbox' = taken
  <2>1. ReaderIs(client[c], mailbox[c], reading[c], stream[client[c].run], run[client[c].run],
                 closedKey, subscribed, trouble)
    BY <1>2, <1>3 DEF ReaderOK
  <2>2. buffer \in Seq(Nat)
    BY <1>2 DEF RedisTypes, MailboxType
  <2>3. PICK n \in Nat : n = m
    BY <1>7, <2>2, Popped
  <2>4. n = buffer[1] /\ n > reading[c].lastSeq /\ client' = Got(c, n)
    BY <1>7, <2>2, <2>3, Popped
  <2>5. /\ reading[c].lastSeq = client[c].last /\ Bounded(buffer, run[client[c].run])
        /\ reading[c].page = <<>>
    BY <1>1, <1>3, <2>1 DEF ReaderIs, BoxIs
  <2>6. Intact(mailbox[c]) =>
          Ahead(buffer, client[c].fresh, reading[c].lastSeq, <<>>, Expired(client[c], trouble), run[client[c].run])
    <3>1. client[c].fresh /\ reading[c].page = <<>> <=> client[c].fresh
      BY <2>5
    <3>2. client[c].fresh \in BOOLEAN
      BY <1>2, ClientFields
    <3>3. (client[c].fresh /\ reading[c].page = <<>>) = client[c].fresh
      BY <3>1, <3>2
    <3> QED
      BY <1>1, <2>1, <2>5, <3>3 DEF ReaderIs, LiveIs
  <2>7. Expired(client[c], trouble) \in BOOLEAN
    BY DEF Expired
  <2>8. \E bare \in BOOLEAN : Intact(mailbox[c]) =>
          Ahead(buffer, client[c].fresh, reading[c].lastSeq, <<>>, bare, run[client[c].run])
    BY <2>6, <2>7
  <2>9. /\ mailbox'[c].missed = mailbox[c].missed /\ mailbox'[c].overflowed = mailbox[c].overflowed
        /\ \A d \in Clients : d # c => mailbox'[d] = mailbox[d]
    BY <1>6, <1>7
  <2> HIDE DEF buffer, m, taken
  <2> QED
    BY <1>1, <1>2, <1>3, <1>7, <2>2, <2>4, <2>5, <2>8, <2>9, ReadingKeeps
<1>8. CASE client' = client /\ mailbox' = taken
  <2>1. /\ mailbox'[c].missed = mailbox[c].missed /\ mailbox'[c].overflowed = mailbox[c].overflowed
        /\ \A d \in Clients : d # c => mailbox'[d] = mailbox[d]
    BY <1>6, <1>8
  <2>2. Anchored(c) => Anchored(c)'
    BY <1>8, <2>1 DEF Anchored
  <2> QED
    BY <1>3, <1>8, <2>1, <2>2, ClientKeeps
<1> QED
  BY <1>1, <1>4, <1>5, <1>7, <1>8

LEMMA RedisKeeps ==
  ASSUME Roomy, IInv, RedisStep
  PROVE  Contract!Next
<1>1. CASE \E r \in RedisRuns : RedisEngine(r) \/ RedisWithdraw(r) \/ RedisCrash(r) \/ ExpireStream(r)
                                   \/ ExpireClosedKey(r)
  <2>1. PICK r \in RedisRuns : RedisEngine(r) \/ RedisWithdraw(r) \/ RedisCrash(r) \/ ExpireStream(r)
                                   \/ ExpireClosedKey(r)
    BY <1>1
  <2>2. r \in Runs
    BY DEF Runs
  <2> QED
    BY <2>1, <2>2, RedisEngineKeeps
<1>2. CASE \E c \in Clients : RedisReturn(c)
  <2>1. PICK c \in Clients : RedisReturn(c)
    BY <1>2
  <2>2. driver = "redis" /\ run' = run /\ client' = Dropped({c}) /\ mailbox' = [mailbox EXCEPT ![c] = NoMailbox]
    BY <2>1 DEF RedisReturn, RedisLeave
  <2>3. FeedTypes /\ RedisTypes /\ SameTops
    BY <2>2, RedisFacts DEF SameTops
  <2> QED
    BY <2>2, <2>3, RedisLeaveKeeps
<1>3. CASE \E c \in Clients : RedisClient(c)
  BY <1>3, RedisSetUpKeeps, RedisPageKeeps, RedisCheckKeeps, RedisLiveKeeps DEF RedisClient
<1>4. CASE Disconnect \/ Reconnect
  <2>1. client' = client /\ mailbox' = mailbox /\ SameTops
    BY <1>4 DEF Disconnect, Reconnect, SameTops
  <2> QED
    BY <2>1, EngineKeeps
<1> QED
  BY <1>1, <1>2, <1>3, <1>4 DEF RedisStep

-----------------------------------------------------------------------------
LEMMA ContractInit ==
  ASSUME Init
  PROVE  Contract!Init
<1>1. \A r \in Runs : run[r].top = 0
  BY DEF Init, FeedInit, NewRun
<1>2. \A c \in Clients : client[c].last = 0 /\ client[c].fresh = TRUE
  BY DEF Init, FeedInit, NewClient
<1>3. Tops = [r \in Runs |-> 0] /\ Lasts = [c \in Clients |-> 0]
  BY <1>1, <1>2 DEF Tops, Lasts
<1>4. Anchors = [c \in Clients |-> TRUE]
  BY <1>2 DEF Anchors, Anchored
<1> QED
  BY <1>3, <1>4 DEF Contract!Init, Tops, Lasts, Anchors, Anchored

(* On either bus, whatever drops, expires, crashes or overflows, the numbers a *)
(* client receives only go up over all its connections, none is invented, and  *)
(* within a connection none is skipped unless the bus lost a PUBLISH with its   *)
(* link or overflowed the client's mailbox (replay and subscribe of both buses, *)
(* the Last-Event-ID of join).                                                *)
THEOREM StreamContractKept == ASSUME Roomy PROVE Spec => KeepsStreamContract
<1>1. Init => IInv /\ Contract!Init
  BY InitInvariant, ContractInit
<1>2. IInv /\ [Next]_vars => IInv'
  BY MemoryInvariant, RedisInvariant, FeedInvariant, StutterInvariant DEF Next
<1>3. ASSUME IInv, [Next]_vars
      PROVE  [Contract!Next]_<<Tops, Lasts, Anchors>>
  <2>1. CASE Next
    BY <1>3, <2>1, MemoryKeeps, RedisKeeps, FeedKeeps DEF Next
  <2>2. CASE UNCHANGED vars
    BY <2>2 DEF vars, feed, redisBus, Tops, Lasts, Anchors, Anchored
  <2> QED
    BY <1>3, <2>1, <2>2
<1>4. IInv /\ [Next]_vars =>
        [Contract!Next]_<<[r \in Runs |-> run[r].top], [c \in Clients |-> client[c].last],
          [c \in Clients |-> client[c].fresh \/ client[c].pc \in {"off", "ending"}
                               \/ mailbox[c].missed \/ mailbox[c].overflowed]>>
  BY <1>3 DEF Tops, Lasts, Anchors, Anchored
<1> HIDE DEF IInv
<1> QED
  BY <1>1, <1>2, <1>4, PTL DEF Spec, KeepsStreamContract, Contract!Spec
=============================================================================
