-------------------------- MODULE CronDispatch_proofs --------------------------
(***************************************************************************)
(* Crons and the in-process queue, for any number of crons, ticks, slots,     *)
(* requests, edits and crashes. An occurrence is claimed with the token it     *)
(* was read with, so that the date a tick holds is the row's; a run in the     *)
(* queue is there once and belongs to a cron, so that no two executions have   *)
(* it; and a run left running by a crash is in nobody's hands any more.       *)
(***************************************************************************)
EXTENDS CronDispatch, FiniteSetTheorems, SequenceTheorems,
        WellFoundedInduction, TLAPS

-----------------------------------------------------------------------------
(* The inductive invariant.                                                  *)

DueEntries == [cron: Crons, seq: Nat, occ: 1..EndTime]
TickSet == [pc: TickSteps, at: 0..MaxNow, due: SUBSET DueEntries, run: Runs \cup {0},
            just: SUBSET Runs, stale: SUBSET Runs]

(* A tick that fires has a due cron, one that enqueues the run it made.        *)
TickOK ==
  /\ tick \in [Ticks -> TickSet]
  /\ \A t \in Ticks :
       /\ tick[t].pc \in {"fire", "claim", "discard", "enqueue", "advance"} => tick[t].due # {}
       /\ tick[t].pc = "enqueue" => tick[t].run # 0
       /\ tick[t].pc = "requeue" => tick[t].stale # {}

EditorOK == \A e \in Editors : editor[e].kind # "none" => editor[e].cron # 0

Rows == \A r \in Runs : /\ row[r].status = "absent" <=> row[r].thread = 0
                        /\ row[r].status = "absent" => row[r].cron = 0
                        /\ row[r].cron \in Crons \cup {0}

(* The token a tick read stands for the date it read.                        *)
Tokens == \A t \in Ticks : \A d \in tick[t].due :
  /\ d.seq <= cron[d.cron].seq
  /\ d.seq = cron[d.cron].seq => d.occ = cron[d.cron].next
Ahead == \A k \in Crons : cron[k].next # Never => cron[k].next > cron[k].fired.at

(* What the queue and the scheduler hand on are runs of crons.                *)
OfCrons ==
  /\ \A r \in Runs : Queued(r) => Fired(r)
  /\ \A t \in Ticks : /\ tick[t].run # 0 => Fired(tick[t].run)
                      /\ \A r \in tick[t].stale : Fired(r)

(* The queue has a run once.                                                 *)
Once == IsInjective(items) /\ \A r \in active : r \notin ToSet(items)

(* A slot has its run and its thread to itself.                              *)
Pulled ==
  /\ \A s \in Slots : worker[s].pc # "idle" =>
       /\ worker[s].run \in active /\ row[worker[s].run].status # "absent"
       /\ ThreadAt(s) \in claimedThreads \ deferred
  /\ \A s, u \in Slots :
       (worker[s].pc # "idle" /\ worker[u].pc # "idle" /\ ThreadAt(s) = ThreadAt(u)) => s = u

(* A request has a run of its own, which no cron fired.                       *)
Inline ==
  /\ \A q \in Requests :
       /\ worker[q].pc \in {"idle", "claim", "reread", "start", "graph", "settled", "handled"}
       /\ worker[q].pc \notin {"idle", "handled"} => worker[q].run # 0
       /\ worker[q].run # 0 =>
            row[worker[q].run].status # "absent" /\ ~Fired(worker[q].run)
  /\ \A q, p \in Requests : worker[q].run # 0 /\ worker[q].run = worker[p].run => q = p

Executed(r) == \E p \in Processes : worker[p].pc = "graph" /\ worker[p].run = r
Starting(r) == \E p \in Processes : worker[p].pc = "start" /\ worker[p].run = r
Orphaned(r) ==
  /\ r \notin ToSet(items) /\ \A t \in Ticks : r # tick[t].run /\ r \notin tick[t].stale
  /\ \A p \in Processes : worker[p].run = r => worker[p].pc = "handled"

(* A running run is executed, or was when its process died; one that is about  *)
(* to be started was not before, whatever became of its row.                  *)
Started == \A r \in Runs :
  /\ started[r] <= 1 /\ (row[r].status \in {"absent", "pending"} \/ Starting(r) => started[r] = 0)
  /\ row[r].status = "running" => Executed(r) \/ Orphaned(r)

HeldTicks == {t \in Ticks : Held(t)}
Stateless == {r \in Runs : row[r].thread = r}
Made == /\ \A t \in Ticks : tick[t].pc = "discard" => Held(t)
        /\ Cardinality(HeldTicks) <= made
        /\ made <= Cardinality(HeldTicks) + Cardinality(Stateless) + trouble * Cardinality(Ticks)

Core == /\ TypeOK /\ TickOK /\ EditorOK /\ Rows /\ Tokens /\ Ahead /\ OfCrons /\ Once
        /\ Pulled /\ Inline
IInv == Core /\ Started /\ Made

-----------------------------------------------------------------------------
(* Sequences, by their elements.                                             *)

LEMMA Elements ==
  ASSUME NEW S, NEW s \in Seq(S)
  PROVE  /\ Len(s) \in Nat /\ DOMAIN s = 1..Len(s) /\ ToSet(s) \subseteq S
         /\ \A x : x \in ToSet(s) <=> \E i \in 1..Len(s) : s[i] = x
BY LenProperties DEF ToSet

LEMMA Appended ==
  ASSUME NEW S, NEW s \in Seq(S), NEW x \in S
  PROVE  /\ Append(s, x) \in Seq(S) /\ ToSet(Append(s, x)) = ToSet(s) \cup {x}
         /\ IsInjective(s) /\ x \notin ToSet(s) => IsInjective(Append(s, x))
<1> DEFINE a == Append(s, x)
<1>1. /\ a \in Seq(S) /\ Len(a) = Len(s) + 1 /\ a[Len(s) + 1] = x
      /\ \A i \in 1..Len(s) : a[i] = s[i]
  BY AppendProperties
<1>2. Len(s) \in Nat /\ DOMAIN s = 1..Len(s) /\ DOMAIN a = 1..Len(s) + 1
  BY <1>1, LenProperties
<1> HIDE DEF a
<1>3. ToSet(a) = ToSet(s) \cup {x}
  BY <1>1, <1>2 DEF ToSet
<1>4. ASSUME IsInjective(s), x \notin ToSet(s) PROVE IsInjective(a)
  BY <1>1, <1>2, <1>4 DEF IsInjective, ToSet
<1> QED BY <1>1, <1>3, <1>4 DEF a

LEMMA Prepended ==
  ASSUME NEW S, NEW s \in Seq(S), NEW x \in S
  PROVE  /\ <<x>> \o s \in Seq(S) /\ ToSet(<<x>> \o s) = ToSet(s) \cup {x}
         /\ IsInjective(s) /\ x \notin ToSet(s) => IsInjective(<<x>> \o s)
<1> DEFINE a == <<x>> \o s
<1>0. Len(s) \in Nat /\ DOMAIN s = 1..Len(s)
  BY LenProperties
<1>1. /\ a \in Seq(S) /\ Len(a) = Len(s) + 1
      /\ \A i \in 1..Len(s) + 1 : a[i] = IF i <= 1 THEN <<x>>[i] ELSE s[i - 1]
  <2>1. <<x>> \in Seq(S) /\ Len(<<x>>) = 1
    OBVIOUS
  <2> QED BY <1>0, <2>1, ConcatProperties
<1>2. DOMAIN a = 1..Len(s) + 1
  BY <1>1, LenProperties
<1> HIDE DEF a
<1>5. a[1] = x /\ \A i \in 1..Len(s) : a[i + 1] = s[i]
  <2>1. a[1] = x
    BY <1>0, <1>1
  <2>2. ASSUME NEW i \in 1..Len(s) PROVE a[i + 1] = s[i]
    BY <1>0, <1>1
  <2> QED BY <2>1, <2>2
<1>6. \A i \in 2..Len(s) + 1 : i - 1 \in 1..Len(s) /\ a[i] = s[i - 1]
  BY <1>0, <1>1
<1>7. ToSet(s) \cup {x} \subseteq ToSet(a)
  <2>1. ASSUME NEW i \in 1..Len(s) PROVE s[i] \in ToSet(a)
    <3>1. i + 1 \in 1..Len(s) + 1 /\ a[i + 1] = s[i]
      BY <1>0, <1>5
    <3> QED BY <1>2, <3>1 DEF ToSet
  <2>2. x \in ToSet(a)
    BY <1>0, <1>2, <1>5 DEF ToSet
  <2> QED BY <1>0, <2>1, <2>2 DEF ToSet
<1>8. ToSet(a) \subseteq ToSet(s) \cup {x}
  <2>1. ASSUME NEW i \in 1..Len(s) + 1 PROVE a[i] \in ToSet(s) \cup {x}
    <3>1. CASE i = 1
      BY <1>5, <3>1
    <3>2. CASE i # 1
      BY <1>0, <1>6, <3>2 DEF ToSet
    <3> QED BY <3>1, <3>2
  <2> QED BY <1>2, <2>1 DEF ToSet
<1>3. ToSet(a) = ToSet(s) \cup {x}
  BY <1>7, <1>8
<1>4. ASSUME IsInjective(s), x \notin ToSet(s) PROVE IsInjective(a)
  <2>1. SUFFICES ASSUME NEW i \in 1..Len(s) + 1, NEW j \in 1..Len(s) + 1, a[i] = a[j]
                 PROVE  i = j
    BY <1>2 DEF IsInjective
  <2>4. \A m \in 2..Len(s) + 1 : a[m] # x
    BY <1>0, <1>4, <1>6 DEF ToSet
  <2>2. CASE i = 1 \/ j = 1
    BY <1>0, <1>5, <2>1, <2>2, <2>4
  <2>3. CASE i # 1 /\ j # 1
    BY <1>0, <1>4, <1>6, <2>1, <2>3 DEF IsInjective
  <2> QED BY <2>2, <2>3
<1> QED BY <1>1, <1>3, <1>4 DEF a

LEMMA Removed ==
  ASSUME NEW S, NEW s \in Seq(S), NEW i \in 1..Len(s)
  PROVE  /\ RemoveAt(s, i) \in Seq(S) /\ ToSet(RemoveAt(s, i)) \subseteq ToSet(s)
         /\ IsInjective(s) => IsInjective(RemoveAt(s, i)) /\ s[i] \notin ToSet(RemoveAt(s, i))
<1> DEFINE b == SubSeq(s, 1, i - 1) c == SubSeq(s, i + 1, Len(s)) a == b \o c
<1>0. Len(s) \in Nat /\ DOMAIN s = 1..Len(s) /\ \A j \in 1..Len(s) : s[j] \in S
  BY LenProperties, ElementOfSeq
<1>1. b \in Seq(S) /\ Len(b) = i - 1 /\ \A j \in 1..i - 1 : b[j] = s[j]
  <2>1. \A j \in 1..i - 1 : s[j] \in S
    BY <1>0
  <2>2. /\ b \in Seq(S) /\ Len(b) = IF 1 <= i - 1 THEN i - 1 - 1 + 1 ELSE 0
        /\ \A j \in 1..i - 1 - 1 + 1 : b[j] = s[1 + j - 1]
    BY <1>0, <2>1, SubSeqProperties
  <2> HIDE DEF b
  <2> QED BY <1>0, <2>2
<1>2. c \in Seq(S) /\ Len(c) = Len(s) - i /\ \A j \in 1..Len(s) - i : c[j] = s[i + j]
  <2>1. \A j \in i + 1..Len(s) : s[j] \in S
    BY <1>0
  <2>2. /\ c \in Seq(S) /\ Len(c) = IF i + 1 <= Len(s) THEN Len(s) - (i + 1) + 1 ELSE 0
        /\ \A j \in 1..Len(s) - (i + 1) + 1 : c[j] = s[i + 1 + j - 1]
    BY <1>0, <2>1, SubSeqProperties
  <2> HIDE DEF c
  <2>3. ASSUME NEW j \in 1..Len(s) - i PROVE c[j] = s[i + j]
    <3>1. j \in 1..Len(s) - (i + 1) + 1 /\ i + 1 + j - 1 = i + j
      BY <1>0
    <3>2. c[j] = s[i + 1 + j - 1]
      BY <2>2, <3>1
    <3> QED BY <3>1, <3>2
  <2>4. Len(c) = Len(s) - i
    <3>1. Len(s) \in Nat /\ i \in Nat /\ i <= Len(s)
      BY <1>0
    <3>2. Len(c) = IF i + 1 <= Len(s) THEN Len(s) - (i + 1) + 1 ELSE 0
      BY <2>2
    <3> QED BY <3>1, <3>2
  <2> QED BY <2>2, <2>3, <2>4
<1> HIDE DEF b, c
<1>3. /\ a \in Seq(S) /\ Len(a) = Len(b) + Len(c)
      /\ \A j \in 1..Len(b) + Len(c) : a[j] = IF j <= Len(b) THEN b[j] ELSE c[j - Len(b)]
  BY <1>1, <1>2, ConcatProperties
<1>5. RemoveAt(s, i) = a
  BY DEF RemoveAt, a, b, c
<1> HIDE DEF a
<1>11. Len(a) = Len(s) - 1
  BY <1>0, <1>1, <1>2, <1>3
<1>4. DOMAIN a = 1..Len(s) - 1
  BY <1>3, <1>11, LenProperties
<1>6. ASSUME NEW j \in 1..i - 1 PROVE a[j] = s[j]
  <2>1. j \in 1..Len(b) + Len(c) /\ j <= Len(b)
    BY <1>0, <1>1, <1>2
  <2> QED BY <1>1, <1>3, <2>1
<1>7. ASSUME NEW j \in i..Len(s) - 1 PROVE a[j] = s[j + 1]
  <2>1. /\ j \in 1..Len(b) + Len(c) /\ ~(j <= Len(b)) /\ j - Len(b) \in 1..Len(s) - i
        /\ i + (j - Len(b)) = j + 1
    BY <1>0, <1>1, <1>2
  <2>2. a[j] = c[j - Len(b)]
    BY <1>3, <2>1
  <2>3. c[j - Len(b)] = s[i + (j - Len(b))]
    BY <1>2, <2>1
  <2> QED BY <2>1, <2>2, <2>3
<1>8. ToSet(a) \subseteq ToSet(s)
  <2>1. ASSUME NEW j \in 1..Len(s) - 1 PROVE \E k \in 1..Len(s) : a[j] = s[k]
    <3>1. CASE j < i
      BY <1>0, <1>6, <3>1
    <3>2. CASE ~(j < i)
      <4>1. j \in i..Len(s) - 1 /\ j + 1 \in 1..Len(s)
        BY <1>0, <3>2
      <4> QED BY <1>7, <4>1
    <3> QED BY <3>1, <3>2
  <2>2. DOMAIN s = 1..Len(s)
    BY <1>0, LenProperties
  <2> QED BY <1>4, <2>1, <2>2 DEF ToSet
<1>9. ASSUME IsInjective(s) PROVE s[i] \notin ToSet(a)
  <2>1. ASSUME NEW j \in 1..Len(s) - 1 PROVE a[j] # s[i]
    <3>1. CASE j < i
      BY <1>0, <1>6, <1>9, <3>1 DEF IsInjective
    <3>2. CASE j >= i
      BY <1>0, <1>7, <1>9, <3>2 DEF IsInjective
    <3> QED BY <1>0, <3>1, <3>2
  <2> QED BY <1>4, <2>1 DEF ToSet
<1>10. ASSUME IsInjective(s) PROVE IsInjective(a)
  <2>1. SUFFICES ASSUME NEW j \in 1..Len(s) - 1, NEW k \in 1..Len(s) - 1, a[j] = a[k]
                 PROVE  j = k
    BY <1>4 DEF IsInjective
  <2>2. CASE j < i /\ k < i
    BY <1>0, <1>6, <1>10, <2>1, <2>2 DEF IsInjective
  <2>3. CASE j >= i /\ k >= i
    BY <1>0, <1>7, <1>10, <2>1, <2>3 DEF IsInjective
  <2>4. CASE j < i /\ k >= i
    BY <1>0, <1>6, <1>7, <1>10, <2>1, <2>4 DEF IsInjective
  <2>5. CASE j >= i /\ k < i
    BY <1>0, <1>6, <1>7, <1>10, <2>1, <2>5 DEF IsInjective
  <2> QED BY <1>0, <2>2, <2>3, <2>4, <2>5
<1> QED BY <1>3, <1>5, <1>8, <1>9, <1>10

-----------------------------------------------------------------------------
(* Least elements.                                                           *)

LEMMA LeastNat ==
  ASSUME NEW T, T \subseteq Nat, T # {} PROVE \E x \in T : \A y \in T : x <= y
<1> DEFINE R == {ss \in Nat \X Nat : ss[1] < ss[2]}
<1>1. PICK x \in T : \A y \in T : ~(<<y, x>> \in R)
  <2>1. IsWellFoundedOn(R, Nat)
    BY NatLessThanWellFounded DEF OpToRel
  <2> HIDE DEF R
  <2> QED BY <2>1, WFMin, Zenon
<1>2. ASSUME NEW y \in T PROVE x <= y
  <2>1. x \in Nat /\ y \in Nat /\ ~(<<y, x>> \in R)
    BY <1>1
  <2> QED BY <2>1
<1> QED BY <1>2

(* A tick that has due crons is at one of them.                              *)
LEMMA CurrentIsDue ==
  ASSUME NEW t \in Ticks, tick[t].due \subseteq DueEntries, tick[t].due # {}
  PROVE  Current(t) \in tick[t].due
<1> DEFINE D == tick[t].due occs == {d.occ : d \in D}
<1>1. Crons \subseteq Nat /\ 1..EndTime \subseteq Nat
  BY CronsAssumption
<1>2. \A d \in D : d.occ \in Nat /\ d.cron \in Nat
  <2>1. \A d \in DueEntries : d.occ \in 1..EndTime /\ d.cron \in Crons
    BY DEF DueEntries
  <2> QED BY <1>1, <2>1
<1>3. PICK o \in occs : \A p \in occs : o <= p
  BY <1>2, LeastNat
<1> DEFINE E == {d \in D : d.occ = o} ids == {d.cron : d \in E}
<1>4. PICK k \in ids : \A l \in ids : k <= l
  <2>1. ids \subseteq Nat /\ ids # {}
    BY <1>2, <1>3
  <2> HIDE DEF ids
  <2> QED BY <2>1, LeastNat
<1>5. PICK d \in D : d.occ = o /\ d.cron = k
  BY <1>4
<1>6. \A e \in D : d.occ < e.occ \/ (d.occ = e.occ /\ d.cron <= e.cron)
  <2>1. SUFFICES ASSUME NEW e \in D, ~(d.occ < e.occ)
                 PROVE  d.occ = e.occ /\ d.cron <= e.cron
    OBVIOUS
  <2>2. o <= e.occ
    BY <1>3
  <2>3. d.occ = e.occ
    BY <1>2, <1>5, <2>1, <2>2
  <2> QED BY <1>4, <1>5, <2>3
<1> HIDE DEF E, ids
<1> QED BY <1>5, <1>6 DEF Current
-----------------------------------------------------------------------------
(* Types, by name.                                                           *)

RowSet == [status: RowStatus, thread: Threads \cup {0}, cron: Nat, created: Nat]
WorkerSet == [pc: WorkerSteps, run: Runs \cup {0}]
CronSet == [exists: BOOLEAN, enabled: BOOLEAN, next: 0..EndTime, thread: Homes \cup {0}, seq: Nat,
            fired: [occ: 0..EndTime, at: 0..MaxNow]]
PatchSet == [cron: Crons \cup {0}, kind: PatchKinds \cup {"none"}, next: 0..EndTime]
CronTypes == /\ now \in 0..MaxNow /\ cron \in [Crons -> CronSet]
             /\ homes \subseteq Homes /\ made \in Nat
             /\ \A t \in Ticks : tick[t].pc \in TickSteps
             /\ editor \in [Editors -> PatchSet]

LEMMA Types == TypeOK <=> JobsTypeOK /\ QueueTypeOK /\ CronTypes
BY DEF TypeOK, CronTypes, CronSet, PatchSet
LEMMA Types_next == TypeOK' <=> JobsTypeOK' /\ QueueTypeOK' /\ CronTypes'
BY DEF TypeOK, CronTypes, CronSet, PatchSet
LEMMA JobTypes ==
  JobsTypeOK <=> /\ row \in [Runs -> RowSet] /\ lease \in [Threads -> Processes \cup {"free"}]
                 /\ worker \in [Processes -> WorkerSet] /\ started \in [Runs -> Nat]
                 /\ trouble \in 0..MaxTrouble
BY DEF JobsTypeOK, RowSet, WorkerSet
LEMMA JobTypes_next ==
  JobsTypeOK' <=> /\ row' \in [Runs -> RowSet] /\ lease' \in [Threads -> Processes \cup {"free"}]
                  /\ worker' \in [Processes -> WorkerSet] /\ started' \in [Runs -> Nat]
                  /\ trouble' \in 0..MaxTrouble
BY DEF JobsTypeOK, RowSet, WorkerSet

LEMMA Ids ==
  /\ 0 \notin Runs /\ Runs \subseteq Nat /\ 0 \notin Crons /\ Crons \subseteq Nat
  /\ Slots \cap Requests = {} /\ EndTime \in Nat \ {0} /\ MaxNow \in Nat /\ MaxTrouble \in Nat
  /\ 0 \notin Homes /\ 0 \notin Threads /\ Runs \subseteq Threads /\ Homes \subseteq Threads
BY JobsAssumption, CronsAssumption DEF Threads

LEMMA TroubleType ==
  ASSUME TypeOK, Trouble \/ UNCHANGED trouble PROVE trouble' \in 0..MaxTrouble
BY Types, JobTypes, Ids DEF Trouble

-----------------------------------------------------------------------------
(* What the helpers write.                                                   *)

LEMMA SteppedValues ==
  ASSUME TypeOK, NEW p \in Processes, NEW pc \in WorkerSteps
  PROVE  /\ Stepped(p, pc) \in [Processes -> WorkerSet]
         /\ \A q \in Processes \ {p} : Stepped(p, pc)[q] = worker[q]
         /\ Stepped(p, pc)[p].pc = pc /\ Stepped(p, pc)[p].run = worker[p].run
<1>1. worker \in [Processes -> WorkerSet] /\ worker[p] \in WorkerSet
  BY Types, JobTypes
<1> DEFINE w == [worker[p] EXCEPT !.pc = pc]
<1>2. w \in WorkerSet /\ w.pc = pc /\ w.run = worker[p].run
  BY <1>1 DEF WorkerSet
<1>3. Stepped(p, pc) = [worker EXCEPT ![p] = w]
  BY DEF Stepped
<1> HIDE DEF w
<1> QED BY <1>1, <1>2, <1>3

LEMMA InsertedValues ==
  ASSUME TypeOK, NEW r \in Runs, NEW th \in Threads, NEW k \in Nat, NEW at \in Nat
  PROVE  /\ Inserted(r, th, k, at) \in [Runs -> RowSet]
         /\ \A q \in Runs \ {r} : Inserted(r, th, k, at)[q] = row[q]
         /\ Inserted(r, th, k, at)[r].status = "pending"
         /\ Inserted(r, th, k, at)[r].thread = th /\ Inserted(r, th, k, at)[r].cron = k
<1> DEFINE x == [status |-> "pending", thread |-> th, cron |-> k, created |-> at]
<1>1. x \in RowSet /\ x.status = "pending" /\ x.thread = th /\ x.cron = k
  BY DEF RowSet, RowStatus
<1>2. Inserted(r, th, k, at) = [row EXCEPT ![r] = x] /\ row \in [Runs -> RowSet]
  BY Types, JobTypes DEF Inserted
<1> HIDE DEF x
<1> QED BY <1>1, <1>2

LEMMA NextIsAbsent ==
  ASSUME NEW r \in Runs, IsNext(r) PROVE row[r].status = "absent"
<1>1. ~(r < r)
  BY Ids
<1> QED BY <1>1 DEF IsNext

LEMMA ReleasedType ==
  ASSUME TypeOK, NEW p
  PROVE  Released(p) \in [Threads -> Processes \cup {"free"}]
BY Types, JobTypes DEF Released

(* The due cron a tick is at.                                                *)
LEMMA CurrentValues ==
  ASSUME TypeOK, TickOK, NEW t \in Ticks,
         tick[t].pc \in {"fire", "claim", "discard", "enqueue", "advance"}
  PROVE  /\ Current(t) \in tick[t].due /\ Current(t).cron \in Crons
         /\ Current(t).seq \in Nat /\ Current(t).occ \in 1..EndTime
<1>1. tick[t] \in TickSet /\ tick[t].due # {}
  BY DEF TickOK
<1>2. tick[t].due \subseteq DueEntries
  BY <1>1 DEF TickSet
<1>3. Current(t) \in tick[t].due
  BY <1>1, <1>2, CurrentIsDue
<1>4. Current(t) \in DueEntries
  BY <1>2, <1>3
<1> QED BY <1>3, <1>4 DEF DueEntries

LEMMA OnwardValues ==
  ASSUME TypeOK, TickOK, NEW t \in Ticks, NEW just \in SUBSET Runs
  PROVE  /\ Onward(t, just) \in [Ticks -> TickSet]
         /\ \A u \in Ticks \ {t} : Onward(t, just)[u] = tick[u]
         /\ Onward(t, just)[t].due \subseteq tick[t].due
         /\ Onward(t, just)[t].run = 0 /\ Onward(t, just)[t].stale = tick[t].stale
         /\ Onward(t, just)[t].pc \in {"sweep", "fire"}
         /\ Onward(t, just)[t].pc = "fire" => Onward(t, just)[t].due # {}
<1> DEFINE rest == tick[t].due \ {Current(t)}
           x == [tick[t] EXCEPT !.due = rest, !.just = just, !.run = 0,
                                !.pc = IF rest = {} THEN "sweep" ELSE "fire"]
<1>1. tick[t] \in TickSet /\ tick \in [Ticks -> TickSet]
  BY DEF TickOK
<1>2. rest \subseteq tick[t].due /\ rest \in SUBSET DueEntries
  BY <1>1 DEF TickSet
<1>3. Onward(t, just) = [tick EXCEPT ![t] = x]
  BY DEF Onward
<1> HIDE DEF rest
<1>4. /\ x \in TickSet /\ x.due = rest /\ x.run = 0 /\ x.stale = tick[t].stale
      /\ x.pc \in {"sweep", "fire"} /\ (x.pc = "fire" => rest # {})
  BY <1>1, <1>2 DEF TickSet, TickSteps
<1> HIDE DEF x
<1> QED BY <1>1, <1>2, <1>3, <1>4

LEMMA GotoValues ==
  ASSUME TypeOK, TickOK, NEW t \in Ticks, NEW pc \in TickSteps
  PROVE  /\ Goto(t, pc) \in [Ticks -> TickSet]
         /\ \A u \in Ticks \ {t} : Goto(t, pc)[u] = tick[u]
         /\ Goto(t, pc)[t].pc = pc /\ Goto(t, pc)[t].due = tick[t].due
         /\ Goto(t, pc)[t].run = tick[t].run /\ Goto(t, pc)[t].stale = tick[t].stale
         /\ Goto(t, pc)[t].just = tick[t].just /\ Goto(t, pc)[t].at = tick[t].at
<1> DEFINE x == [tick[t] EXCEPT !.pc = pc]
<1>1. tick[t] \in TickSet /\ tick \in [Ticks -> TickSet]
  BY DEF TickOK
<1>2. /\ x \in TickSet /\ x.pc = pc /\ x.due = tick[t].due /\ x.run = tick[t].run
      /\ x.stale = tick[t].stale /\ x.just = tick[t].just /\ x.at = tick[t].at
  BY <1>1 DEF TickSet
<1>3. Goto(t, pc) = [tick EXCEPT ![t] = x]
  BY DEF Goto
<1> HIDE DEF x
<1> QED BY <1>1, <1>2, <1>3

(* An advanced cron's date lies after the occurrence and after the tick.       *)
LEMMA NextDates ==
  ASSUME NEW from \in Nat, NEW at \in Nat
  PROVE  /\ Advance(from, at) \in 0..EndTime
         /\ Advance(from, at) # Never => Advance(from, at) > from /\ Advance(from, at) > at
BY Ids DEF Advance, Later, NextOccurrence, Never

LEMMA AdvancedValues ==
  ASSUME TypeOK, NEW d, d.cron \in Crons, NEW next \in 0..EndTime
  PROVE  /\ Advanced(d, next) \in [Crons -> CronSet]
         /\ \A k \in Crons \ {d.cron} : Advanced(d, next)[k] = cron[k]
         /\ Advanced(d, next)[d.cron].next = next
         /\ Advanced(d, next)[d.cron].seq = cron[d.cron].seq + 1
         /\ Advanced(d, next)[d.cron].fired = cron[d.cron].fired
         /\ Advanced(d, next)[d.cron].thread = cron[d.cron].thread
<1> DEFINE k == d.cron
           x == [cron[k] EXCEPT !.next = next, !.seq = @ + 1]
<1>1. cron \in [Crons -> CronSet] /\ cron[k] \in CronSet
  BY Types DEF CronTypes
<1>2. cron[k].seq + 1 \in Nat
  BY <1>1 DEF CronSet
<1>3. Advanced(d, next) = [cron EXCEPT ![k] = x]
  BY <1>1 DEF Advanced
<1> DEFINE n == cron[k].seq + 1
<1>4. x = [cron[k] EXCEPT !.next = next, !.seq = n]
  OBVIOUS
<1> HIDE DEF n, x
<1>5. /\ x \in CronSet /\ x.next = next /\ x.seq = n
      /\ x.fired = cron[k].fired /\ x.thread = cron[k].thread
  BY <1>1, <1>2, <1>4 DEF CronSet, n
<1> QED BY <1>1, <1>3, <1>5 DEF n

LEMMA PatchedValues ==
  ASSUME TypeOK, EditorOK, NEW e \in Editors, editor[e].kind # "none"
  PROVE  /\ editor[e].cron \in Crons /\ Patched(e) \in [Crons -> CronSet]
         /\ \A k \in Crons \ {editor[e].cron} : Patched(e)[k] = cron[k]
         /\ Patched(e)[editor[e].cron].next = editor[e].next
         /\ Patched(e)[editor[e].cron].seq = cron[editor[e].cron].seq + 1
         /\ Patched(e)[editor[e].cron].fired = NotFired
         /\ Patched(e)[editor[e].cron].thread = cron[editor[e].cron].thread
<1> DEFINE p == editor[e] k == p.cron on == p.kind = "enable" \/ (p.kind = "schedule" /\ cron[k].enabled)
           x == [cron[k] EXCEPT !.enabled = on, !.next = p.next, !.seq = @ + 1, !.fired = NotFired]
<1>1. k \in Crons /\ p \in PatchSet /\ p.next \in 0..EndTime
  BY Types DEF CronTypes, PatchSet, EditorOK
<1>2. cron \in [Crons -> CronSet] /\ cron[k] \in CronSet /\ on \in BOOLEAN
  BY <1>1, Types DEF CronTypes, CronSet
<1>3. NotFired \in [occ: 0..EndTime, at: 0..MaxNow]
  BY Ids DEF NotFired
<1>4. Patched(e) = [cron EXCEPT ![k] = x]
  BY <1>1, <1>2 DEF Patched
<1> DEFINE n == cron[k].seq + 1
<1>5. x = [cron[k] EXCEPT !.enabled = on, !.next = p.next, !.seq = n, !.fired = NotFired]
  OBVIOUS
<1>6. n \in Nat
  BY <1>2 DEF CronSet
<1> HIDE DEF on, n, x, p
<1>7. /\ x \in CronSet /\ x.next = p.next /\ x.seq = n
      /\ x.fired = NotFired /\ x.thread = cron[k].thread
  BY <1>1, <1>2, <1>3, <1>5, <1>6 DEF CronSet
<1> QED BY <1>1, <1>2, <1>4, <1>7 DEF n, p

-----------------------------------------------------------------------------
(* Rows and executions, step by step.                                        *)

(* A row keeps its thread and cron, or is inserted.                           *)
RowMove(r) ==
  \/ /\ row'[r].thread = row[r].thread /\ row'[r].cron = row[r].cron
     /\ row'[r].status = "absent" <=> row[r].status = "absent"
  \/ /\ row[r].status = "absent" /\ row'[r].status = "pending"
     /\ row'[r].thread \in Threads /\ row'[r].cron \in Crons \cup {0}
RowsMove == row' \in [Runs -> RowSet] /\ \A r \in Runs : RowMove(r)

(* Only an idle process, or a request that is over, has no run.               *)
LEMMA AtWork ==
  ASSUME TypeOK, Pulled, Inline, NEW p \in Processes, worker[p].pc # "idle",
         p \in Slots \/ worker[p].pc # "handled"
  PROVE  /\ worker[p].run \in Runs /\ row[worker[p].run].status # "absent"
         /\ ThreadAt(p) \in Threads \cup {0}
<1>1. worker[p] \in WorkerSet /\ row \in [Runs -> RowSet] /\ active \subseteq Runs
  BY Types, JobTypes DEF QueueTypeOK
<1>2. worker[p].run \in Runs /\ row[worker[p].run].status # "absent"
  <2>1. CASE p \in Slots
    BY <1>1, <2>1 DEF Pulled
  <2>2. CASE p \in Requests
    BY <1>1, <2>2, Ids DEF Inline, WorkerSet
  <2> QED BY <2>1, <2>2 DEF Processes
<1>3. row[worker[p].run] \in RowSet
  BY <1>1, <1>2
<1> QED BY <1>2, <1>3 DEF ThreadAt, RowSet

(* A step of an execution moves one process on; it keeps its run.             *)
StepsTo(p, pc) ==
  /\ worker' = Stepped(p, pc)
  /\ worker[p].pc \in {"read", "claim", "reread", "start", "graph", "settled"}
  /\ \/ pc \in {"claim", "reread", "start", "graph", "settled", "handled"}
     \/ p \in Slots /\ pc \in {"busy", "thrown"}

LEMMA SettledRow ==
  ASSUME row \in [Runs -> RowSet], NEW r \in Runs, row' = Settled(r)
  PROVE  /\ row' \in [Runs -> RowSet] /\ \A s \in Runs \ {r} : row'[s] = row[s]
         /\ row'[r].status \in {"done", "deleted"}
         /\ row'[r].thread = row[r].thread /\ row'[r].cron = row[r].cron
<1> DEFINE x == [row[r] EXCEPT !.status = IF @ = "deleted" THEN @ ELSE "done"]
<1>1. row' = [row EXCEPT ![r] = x]
  BY DEF Settled
<1>2. /\ x \in RowSet /\ x.status \in {"done", "deleted"}
      /\ x.thread = row[r].thread /\ x.cron = row[r].cron
  BY DEF RowSet, RowStatus
<1> HIDE DEF x
<1> QED BY <1>1, <1>2

LEMMA RunningRow ==
  ASSUME row \in [Runs -> RowSet], NEW r \in Runs,
         row' = [row EXCEPT ![r].status = "running", ![r].created = 0]
  PROVE  /\ row' \in [Runs -> RowSet] /\ \A s \in Runs \ {r} : row'[s] = row[s]
         /\ row'[r].status = "running"
         /\ row'[r].thread = row[r].thread /\ row'[r].cron = row[r].cron
<1> DEFINE x == [row[r] EXCEPT !.status = "running", !.created = 0]
<1>1. row' = [row EXCEPT ![r] = x]
  OBVIOUS
<1>2. /\ x \in RowSet /\ x.status = "running"
      /\ x.thread = row[r].thread /\ x.cron = row[r].cron
  BY DEF RowSet, RowStatus
<1> HIDE DEF x
<1> QED BY <1>1, <1>2

LEMMA ExecuteMoves ==
  ASSUME TypeOK, Pulled, Inline, NEW p \in Processes,
         Execute(p) \/ (p \in Slots /\ Throw(p))
  PROVE  /\ RowsMove /\ \E pc \in WorkerSteps : StepsTo(p, pc)
         /\ JobsTypeOK'
<1> USE DEF WorkerSteps, Answers
<1>0. /\ row \in [Runs -> RowSet] /\ lease \in [Threads -> Processes \cup {"free"}]
      /\ started \in [Runs -> Nat] /\ trouble \in 0..MaxTrouble
  BY Types, JobTypes
<1>1. UNCHANGED row => RowsMove
  BY <1>0 DEF RowsMove, RowMove
<1>2. ASSUME RowsMove, NEW pc \in WorkerSteps, StepsTo(p, pc),
             lease' \in [Threads -> Processes \cup {"free"}], started' \in [Runs -> Nat],
             Trouble \/ UNCHANGED trouble
      PROVE  /\ RowsMove /\ \E q \in WorkerSteps : StepsTo(p, q)
             /\ JobsTypeOK'
  <2>1. worker' \in [Processes -> WorkerSet]
    BY <1>2, SteppedValues DEF StepsTo
  <2>2. row' \in [Runs -> RowSet] /\ trouble' \in 0..MaxTrouble
    BY <1>2, TroubleType DEF RowsMove
  <2> QED BY <1>2, <2>1, <2>2, JobTypes_next
<1>3. CASE Read(p)
  <2>1. PICK pc \in {"handled", "claim"} : worker' = Stepped(p, pc)
    BY <1>3 DEF Read
  <2>2. StepsTo(p, pc) /\ UNCHANGED <<row, lease, started, trouble>>
    BY <1>3, <2>1 DEF Read, StepsTo
  <2> QED BY <1>0, <1>1, <1>2, <2>2
<1>4. CASE Claim(p)
  <2>1. lease' \in [Threads -> Processes \cup {"free"}]
    BY <1>0, <1>4 DEF Claim
  <2>2. PICK pc \in WorkerSteps : StepsTo(p, pc)
    BY <1>4 DEF Claim, StepsTo
  <2> QED BY <1>0, <1>1, <1>2, <1>4, <2>1, <2>2 DEF Claim
<1>5. CASE Reread(p)
  <2>1. CASE Over(worker[p].run)
    <3>1. StepsTo(p, "handled") /\ lease' = Released(p) /\ UNCHANGED <<row, started, trouble>>
      BY <1>5, <2>1 DEF Reread, StepsTo
    <3> QED BY <1>0, <1>1, <1>2, <3>1, ReleasedType
  <2>2. CASE ~Over(worker[p].run)
    <3>1. StepsTo(p, "start") /\ UNCHANGED <<row, lease, started, trouble>>
      BY <1>5, <2>2 DEF Reread, StepsTo
    <3> QED BY <1>0, <1>1, <1>2, <3>1
  <2> QED BY <2>1, <2>2
<1>6. CASE Settle(p) \/ MarkRunning(p)
  <2>1. PICK r \in Runs : r = worker[p].run /\ row[r].status # "absent"
    BY <1>6, AtWork DEF Settle, MarkRunning
  <2>2. CASE row' = Settled(r) /\ worker' = Stepped(p, "settled") /\ UNCHANGED started
    <3>1. StepsTo(p, "settled") /\ UNCHANGED lease /\ (Trouble \/ UNCHANGED trouble)
      BY <1>6, <2>1, <2>2 DEF Settle, MarkRunning, StepsTo
    <3>2. RowsMove
      BY <1>0, <2>1, <2>2, SettledRow DEF RowsMove, RowMove
    <3> QED BY <1>0, <1>2, <2>2, <3>1, <3>2
  <2>3. CASE /\ row' = [row EXCEPT ![r].status = "running", ![r].created = 0]
             /\ started' = [started EXCEPT ![r] = @ + 1]
             /\ MarkRunning(p) /\ worker' = Stepped(p, "graph") /\ UNCHANGED trouble
    <3>1. StepsTo(p, "graph") /\ UNCHANGED lease
      BY <2>3 DEF MarkRunning, StepsTo
    <3>2. RowsMove
      BY <1>0, <2>1, <2>3, RunningRow DEF RowsMove, RowMove
    <3>3. started' \in [Runs -> Nat]
      BY <1>0, <2>1, <2>3
    <3> QED BY <1>0, <1>2, <2>3, <3>1, <3>2, <3>3
  <2> QED BY <1>6, <2>1, <2>2, <2>3 DEF Settle, MarkRunning
<1>7. CASE Release(p)
  <2>1. StepsTo(p, "handled") /\ lease' = Released(p) /\ UNCHANGED <<row, started, trouble>>
    BY <1>7 DEF Release, StepsTo
  <2> QED BY <1>0, <1>1, <1>2, <2>1, ReleasedType
<1>8. CASE p \in Slots /\ Throw(p)
  <2>1. StepsTo(p, "thrown") /\ lease' = Released(p) /\ UNCHANGED <<row, started>> /\ Trouble
    BY <1>8 DEF Throw, StepsTo
  <2> QED BY <1>0, <1>1, <1>2, <2>1, ReleasedType
<1> QED BY <1>3, <1>4, <1>5, <1>6, <1>7, <1>8 DEF Execute

(* What a step of the rows keeps.                                            *)
LEMMA RowsKept ==
  ASSUME Rows, RowsMove
  PROVE  /\ Rows' /\ \A r \in Runs : Fired(r) => Fired(r)'
         /\ \A r \in Runs : row[r].status # "absent" =>
              /\ row'[r].status # "absent" /\ row'[r].thread = row[r].thread
              /\ Fired(r)' <=> Fired(r)
BY Ids DEF Rows, RowsMove, RowMove, Fired

-----------------------------------------------------------------------------
(* What is kept when a part's own variables hardly move.                      *)

LEMMA CronsFrame ==
  ASSUME TypeOK, TickOK, EditorOK, Tokens, Ahead, UNCHANGED crons
  PROVE  CronTypes' /\ TickOK' /\ EditorOK' /\ Tokens' /\ Ahead'
BY Types DEF CronTypes, TickOK, EditorOK, Tokens, Ahead, crons

LEMMA TicksFrame ==
  ASSUME TypeOK, TickOK, Tokens, Ahead, UNCHANGED <<tick, cron>>
  PROVE  TickOK' /\ Tokens' /\ Ahead'
BY DEF TickOK, Tokens, Ahead

LEMMA QueueFrame ==
  ASSUME TypeOK, Once, UNCHANGED queue
  PROVE  QueueTypeOK' /\ Once' /\ \A r \in Runs : Queued(r)' <=> Queued(r)
BY Types DEF QueueTypeOK, Once, Queued, queue

LEMMA JobsFrame ==
  ASSUME TypeOK, UNCHANGED jobs PROVE JobsTypeOK' /\ RowsMove
BY Types, JobTypes, JobTypes_next DEF jobs, RowsMove, RowMove

LEMMA PulledKept ==
  ASSUME TypeOK, Rows, Pulled, Inline, RowsMove,
         \A s \in Slots : worker'[s].pc # "idle" =>
           /\ worker[s].pc # "idle" /\ worker'[s].run = worker[s].run
           /\ worker[s].run \in active' /\ ThreadAt(s) \in claimedThreads' \ deferred'
  PROVE  Pulled'
<1>1. ASSUME NEW s \in Slots, worker'[s].pc # "idle"
      PROVE  /\ worker[s].pc # "idle" /\ worker'[s].run = worker[s].run
             /\ worker[s].run \in Runs /\ row'[worker[s].run].status # "absent"
             /\ ThreadAt(s)' = ThreadAt(s)
  <2>1. s \in Processes /\ worker[s].pc # "idle" /\ worker'[s].run = worker[s].run
    BY <1>1 DEF Processes
  <2>2. worker[s].run \in Runs /\ row[worker[s].run].status # "absent"
    BY <2>1, AtWork
  <2>3. /\ row'[worker[s].run].status # "absent"
        /\ row'[worker[s].run].thread = row[worker[s].run].thread
    BY <2>2, RowsKept
  <2> QED BY <2>1, <2>2, <2>3 DEF ThreadAt
<1>2. ASSUME NEW s \in Slots, worker'[s].pc # "idle"
      PROVE  /\ worker'[s].run \in active' /\ row'[worker'[s].run].status # "absent"
             /\ ThreadAt(s)' \in claimedThreads' \ deferred'
  BY <1>1, <1>2
<1>3. ASSUME NEW s \in Slots, NEW u \in Slots, worker'[s].pc # "idle", worker'[u].pc # "idle",
             ThreadAt(s)' = ThreadAt(u)'
      PROVE  s = u
  <2>1. worker[s].pc # "idle" /\ worker[u].pc # "idle" /\ ThreadAt(s) = ThreadAt(u)
    BY <1>1, <1>3
  <2> QED BY <2>1 DEF Pulled
<1> QED BY <1>2, <1>3 DEF Pulled

InlineSteps == {"idle", "claim", "reread", "start", "graph", "settled", "handled"}
LEMMA InlineKept ==
  ASSUME TypeOK, Rows, Inline, RowsMove,
         \A q \in Requests :
           /\ worker'[q].run = worker[q].run /\ worker'[q].pc \in InlineSteps
           /\ worker'[q].pc \notin {"idle", "handled"} => worker[q].pc \notin {"idle", "handled"}
  PROVE  Inline'
<1>1. ASSUME NEW q \in Requests, worker[q].run # 0
      PROVE  row'[worker[q].run].status # "absent" /\ ~Fired(worker[q].run)'
  <2>1. /\ worker[q].run \in Runs /\ row[worker[q].run].status # "absent"
        /\ ~Fired(worker[q].run)
    BY <1>1, Types, JobTypes DEF Inline, WorkerSet, Processes
  <2> QED BY <2>1, RowsKept
<1>2. \A q \in Requests :
        /\ worker'[q].pc \in {"idle", "claim", "reread", "start", "graph", "settled", "handled"}
        /\ worker'[q].pc \notin {"idle", "handled"} => worker'[q].run # 0
  BY DEF Inline, InlineSteps
<1>3. \A q \in Requests : worker'[q].run # 0 =>
        row'[worker'[q].run].status # "absent" /\ row'[worker'[q].run].cron = 0
  BY <1>1 DEF Fired
<1>4. \A q, p \in Requests : worker'[q].run # 0 /\ worker'[q].run = worker'[p].run => q = p
  BY DEF Inline
<1> QED BY <1>2, <1>3, <1>4 DEF Inline, Fired

(* What a tick hands on it had before, or a cron fired it.                    *)
TicksMove == \A t \in Ticks :
  /\ tick'[t].run \in {0, tick[t].run} \/ row'[tick'[t].run].cron # 0
  /\ \A r \in tick'[t].stale : r \in tick[t].stale \/ row'[r].cron # 0

LEMMA OfCronsKept ==
  ASSUME TypeOK, Rows, OfCrons, TickOK, RowsMove,
         \A r \in Runs : Queued(r)' => Queued(r) \/ Fired(r),
         TicksMove \/ UNCHANGED tick
  PROVE  OfCrons'
<1>1. \A r \in Runs : Fired(r) => row'[r].cron # 0
  BY RowsKept DEF Fired
<1>2. \A t \in Ticks : tick[t].run \in Runs \cup {0} /\ tick[t].stale \subseteq Runs
  BY DEF TickOK, TickSet
<1>3. ASSUME NEW t \in Ticks
      PROVE  /\ tick'[t].run # 0 => row'[tick'[t].run].cron # 0
             /\ \A r \in tick'[t].stale : row'[r].cron # 0
  <2>1. ASSUME tick'[t].run # 0 PROVE row'[tick'[t].run].cron # 0
    <3>1. CASE tick'[t].run = tick[t].run
      BY <1>1, <1>2, <2>1, <3>1 DEF OfCrons
    <3>2. CASE tick'[t].run # tick[t].run
      BY <2>1, <3>2 DEF TicksMove
    <3> QED BY <3>1, <3>2
  <2>2. ASSUME NEW r \in tick'[t].stale PROVE row'[r].cron # 0
    <3>1. CASE r \in tick[t].stale
      BY <1>1, <1>2, <3>1 DEF OfCrons
    <3>2. CASE r \notin tick[t].stale
      BY <2>2, <3>2 DEF TicksMove
    <3> QED BY <3>1, <3>2
  <2> QED BY <2>1, <2>2
<1>4. \A r \in Runs : Queued(r)' => row'[r].cron # 0
  BY <1>1 DEF OfCrons
<1> QED BY <1>3, <1>4 DEF OfCrons, Fired

-----------------------------------------------------------------------------
(* Every step but the scheduler's keeps the core of the invariant.            *)

LEMMA WorkCore ==
  ASSUME Core, NEW p \in Processes, Execute(p) \/ (p \in Slots /\ Throw(p)),
         UNCHANGED <<queue, crons>>
  PROVE  Core'
<1> USE DEF Core
<1>1. RowsMove /\ JobsTypeOK' /\ \E pc \in WorkerSteps : StepsTo(p, pc)
  BY ExecuteMoves
<1>2. PICK pc \in WorkerSteps : StepsTo(p, pc)
  BY <1>1
<1>3. /\ \A q \in Processes : worker'[q].run = worker[q].run
      /\ \A q \in Processes \ {p} : worker'[q] = worker[q]
      /\ worker'[p].pc = pc
  <2>1. worker' = Stepped(p, pc)
    BY <1>2 DEF StepsTo
  <2> QED BY <2>1, SteppedValues
<1>4. QueueTypeOK' /\ Once' /\ \A r \in Runs : Queued(r)' <=> Queued(r)
  BY QueueFrame
<1>5. CronTypes' /\ TickOK' /\ EditorOK' /\ Tokens' /\ Ahead'
  BY CronsFrame
<1>6. Rows'
  BY <1>1, RowsKept
<1>7. OfCrons'
  <2>1. UNCHANGED tick
    BY DEF crons
  <2> QED BY <1>1, <1>4, <2>1, OfCronsKept
<1>8. Pulled'
  <2>1. UNCHANGED <<active, claimedThreads, deferred>>
    BY DEF queue
  <2>2. ASSUME NEW s \in Slots, worker'[s].pc # "idle"
        PROVE  worker[s].pc # "idle" /\ worker'[s].run = worker[s].run
    BY <1>2, <1>3, <2>2 DEF StepsTo, Processes
  <2>3. ASSUME NEW s \in Slots, worker'[s].pc # "idle"
        PROVE  /\ worker[s].pc # "idle" /\ worker'[s].run = worker[s].run
               /\ worker[s].run \in active' /\ ThreadAt(s) \in claimedThreads' \ deferred'
    BY <2>1, <2>2, <2>3 DEF Pulled
  <2> QED BY <1>1, <2>3, PulledKept
<1>9. Inline'
  <2>1. ASSUME NEW q \in Requests
        PROVE  /\ worker'[q].run = worker[q].run /\ worker'[q].pc \in InlineSteps
               /\ worker'[q].pc \notin {"idle", "handled"} =>
                    worker[q].pc \notin {"idle", "handled"}
    <3>1. CASE q = p
      BY <1>2, <1>3, <3>1, Ids DEF StepsTo, InlineSteps, Processes
    <3>2. CASE q # p
      BY <1>3, <3>2 DEF Inline, InlineSteps, Processes
    <3> QED BY <3>1, <3>2
  <2> QED BY <1>1, <2>1, InlineKept
<1> QED BY <1>1, <1>4, <1>5, <1>6, <1>7, <1>8, <1>9, Types_next

(* A run in the queue has a row and a thread.                                *)
LEMMA QueuedRows ==
  ASSUME Core, NEW r \in Runs, Queued(r)
  PROVE  Fired(r) /\ row[r].status # "absent" /\ row[r].thread \in Threads
<1>1. Fired(r) /\ row[r].status # "absent"
  BY DEF Core, OfCrons, Rows, Fired
<1>2. row[r] \in RowSet
  BY Types, JobTypes DEF Core
<1> QED BY <1>1, <1>2 DEF Core, Rows, RowSet

LEMMA PullCore ==
  ASSUME Core, NEW s \in Slots, Pull(s), UNCHANGED crons
  PROVE  Core'
<1> USE DEF Core
<1>1. PICK i \in DOMAIN items :
        /\ Eligible(i) /\ items' = RemoveAt(items, i) /\ active' = active \cup {items[i]}
        /\ claimedThreads' = claimedThreads \cup {row[items[i]].thread}
        /\ worker' = [worker EXCEPT ![s] = [pc |-> "read", run |-> items[i]]]
  BY DEF Pull
<1>2. /\ items \in Seq(Runs) /\ active \subseteq Runs /\ deferred \subseteq claimedThreads
      /\ claimedThreads \subseteq Threads
  BY Types DEF QueueTypeOK
<1> DEFINE r == items[i] th == row[r].thread
<1>3. UNCHANGED <<deferred, row, lease, started, trouble, tick>> /\ worker[s].pc = "idle"
      /\ s \in Processes
  BY DEF Pull, crons, Processes
<1>4. r \in Runs /\ r \in ToSet(items) /\ i \in 1..Len(items)
  BY <1>2, Elements DEF ToSet
<1>5. Queued(r) /\ Fired(r) /\ row[r].status # "absent" /\ th \in Threads
  BY <1>4, QueuedRows DEF Queued
<1>6. th \notin claimedThreads
  BY <1>1 DEF Eligible
<1>7. /\ items' \in Seq(Runs) /\ ToSet(items') \subseteq ToSet(items)
      /\ IsInjective(items') /\ r \notin ToSet(items')
  BY <1>1, <1>2, <1>4, Removed DEF Once
<1>8. worker' = [worker EXCEPT ![s] = [pc |-> "read", run |-> r]] /\ active' = active \cup {r}
      /\ claimedThreads' = claimedThreads \cup {th}
  BY <1>1
<1> HIDE DEF r, th
<1>9. worker \in [Processes -> WorkerSet]
  BY Types, JobTypes
<1>10. /\ worker' \in [Processes -> WorkerSet] /\ worker'[s].run = r /\ worker'[s].pc = "read"
       /\ \A q \in Processes \ {s} : worker'[q] = worker[q]
  <2> DEFINE w == [pc |-> "read", run |-> r]
  <2>1. w \in WorkerSet /\ w.pc = "read" /\ w.run = r
    BY <1>4 DEF WorkerSet, WorkerSteps
  <2>2. worker' = [worker EXCEPT ![s] = w]
    BY <1>8
  <2> HIDE DEF w
  <2> QED BY <1>3, <1>9, <2>1, <2>2
<1>11. JobsTypeOK'
  BY <1>3, <1>10, JobTypes, JobTypes_next, Types
<1>12. QueueTypeOK' /\ Once' /\ \A q \in Runs : Queued(q)' => Queued(q)
  <2>1. QueueTypeOK'
    BY <1>2, <1>3, <1>4, <1>5, <1>7, <1>8 DEF QueueTypeOK
  <2>2. Once'
    BY <1>7, <1>8 DEF Once
  <2>3. \A q \in Runs : Queued(q)' => Queued(q)
    BY <1>5, <1>7, <1>8 DEF Queued
  <2> QED BY <2>1, <2>2, <2>3
<1>13. CronTypes' /\ TickOK' /\ EditorOK' /\ Tokens' /\ Ahead'
  BY CronsFrame
<1>14. RowsMove
  BY <1>3, Types, JobTypes DEF RowsMove, RowMove
<1>15. Rows' /\ OfCrons'
  BY <1>3, <1>12, <1>14, RowsKept, OfCronsKept
<1>16. Pulled'
  <2>1. ASSUME NEW u \in Slots, u # s
        PROVE  worker'[u] = worker[u] /\ ThreadAt(u)' = ThreadAt(u)
    BY <1>3, <1>10, <2>1 DEF ThreadAt, Processes
  <2>2. ThreadAt(s)' = th
    BY <1>3, <1>10 DEF ThreadAt, th
  <2>3. ASSUME NEW u \in Slots, worker'[u].pc # "idle"
        PROVE  /\ worker'[u].run \in active' /\ row'[worker'[u].run].status # "absent"
               /\ ThreadAt(u)' \in claimedThreads' \ deferred'
    <3>1. CASE u = s
      BY <1>2, <1>3, <1>5, <1>6, <1>8, <1>10, <2>2, <3>1
    <3>2. CASE u # s
      BY <1>3, <1>8, <2>1, <2>3, <3>2 DEF Pulled
    <3> QED BY <3>1, <3>2
  <2>4. ASSUME NEW u \in Slots, NEW v \in Slots, worker'[u].pc # "idle", worker'[v].pc # "idle",
               ThreadAt(u)' = ThreadAt(v)'
        PROVE  u = v
    <3>1. CASE u # s /\ v # s
      BY <2>1, <2>4, <3>1 DEF Pulled
    <3>2. \A x \in Slots \ {s} : worker'[x].pc # "idle" => ThreadAt(x)' # th
      BY <1>6, <2>1 DEF Pulled
    <3> QED BY <2>2, <2>4, <3>1, <3>2
  <2> QED BY <2>3, <2>4 DEF Pulled
<1>17. Inline'
  <2>1. \A q \in Requests : worker'[q] = worker[q]
    BY <1>10, Ids DEF Processes
  <2> QED BY <1>14, <2>1, InlineKept DEF Inline, InlineSteps
<1> QED BY <1>11, <1>12, <1>13, <1>15, <1>16, <1>17, Types_next

LEMMA AnswerCore ==
  ASSUME Core, NEW s \in Slots, Answer(s), UNCHANGED crons
  PROVE  Core'
<1> USE DEF Core
<1> DEFINE r == worker[s].run th == ThreadAt(s)
<1>1. /\ s \in Processes /\ worker[s].pc \in Answers /\ worker[s].pc # "idle"
      /\ UNCHANGED <<row, lease, started, trouble, tick>>
  BY DEF Answer, crons, Processes, Answers
<1>2. /\ items \in Seq(Runs) /\ active \subseteq Runs /\ deferred \subseteq claimedThreads
      /\ claimedThreads \subseteq Threads
  BY Types DEF QueueTypeOK
<1>3. /\ r \in Runs /\ r \in active /\ th \in claimedThreads \ deferred
  BY <1>1, AtWork DEF Pulled
<1>4. r \notin ToSet(items)
  BY <1>3 DEF Once
<1>5. /\ items' = IF worker[s].pc = "busy" THEN <<r>> \o items ELSE items
      /\ deferred' = IF worker[s].pc = "busy" THEN deferred \cup {th} ELSE deferred
      /\ claimedThreads' = IF worker[s].pc = "busy" THEN claimedThreads ELSE claimedThreads \ {th}
      /\ active' = active \ {r} /\ worker' = [worker EXCEPT ![s] = Idle]
  BY DEF Answer
<1>6. /\ worker' \in [Processes -> WorkerSet] /\ worker'[s].pc = "idle"
      /\ \A q \in Processes \ {s} : worker'[q] = worker[q]
  <2>1. Idle \in WorkerSet /\ Idle.pc = "idle"
    BY DEF Idle, WorkerSet, WorkerSteps
  <2> QED BY <1>1, <1>5, <2>1, Types, JobTypes
<1> HIDE DEF r
<1>7. /\ items' \in Seq(Runs) /\ IsInjective(items') /\ ToSet(items') \subseteq ToSet(items) \cup {r}
  BY <1>2, <1>3, <1>4, <1>5, Prepended DEF Once
<1>8. JobsTypeOK'
  BY <1>1, <1>6, JobTypes, JobTypes_next, Types
<1>9. deferred' \subseteq claimedThreads' /\ claimedThreads' \subseteq Threads
  BY <1>2, <1>3, <1>5
<1>10. QueueTypeOK' /\ Once' /\ \A q \in Runs : Queued(q)' => Queued(q)
  <2>1. QueueTypeOK'
    BY <1>2, <1>5, <1>7, <1>9 DEF QueueTypeOK
  <2>2. Once'
    BY <1>5, <1>7 DEF Once
  <2>3. \A q \in Runs : Queued(q)' => Queued(q)
    BY <1>3, <1>5, <1>7 DEF Queued
  <2> QED BY <2>1, <2>2, <2>3
<1>11. CronTypes' /\ TickOK' /\ EditorOK' /\ Tokens' /\ Ahead'
  BY CronsFrame
<1>12. RowsMove
  BY <1>1, Types, JobTypes DEF RowsMove, RowMove
<1>13. Rows' /\ OfCrons'
  BY <1>1, <1>10, <1>12, RowsKept, OfCronsKept
<1>14. Pulled'
  <2>1. ASSUME NEW u \in Slots, worker'[u].pc # "idle"
        PROVE  /\ worker[u].pc # "idle" /\ worker'[u].run = worker[u].run
               /\ worker[u].run \in active' /\ ThreadAt(u) \in claimedThreads' \ deferred'
    <3>1. u # s /\ worker'[u] = worker[u]
      BY <1>6, <2>1 DEF Processes
    <3>2. ThreadAt(u) # th /\ worker[u].run \in active /\ ThreadAt(u) \in claimedThreads \ deferred
      BY <1>1, <2>1, <3>1 DEF Pulled
    <3>3. worker[u].run # r
      BY <3>2 DEF ThreadAt, r
    <3> QED BY <1>5, <2>1, <3>1, <3>2, <3>3
  <2> QED BY <1>12, <2>1, PulledKept
<1>15. Inline'
  <2>1. \A q \in Requests : worker'[q] = worker[q]
    BY <1>6, Ids DEF Processes
  <2> QED BY <1>12, <2>1, InlineKept DEF Inline, InlineSteps
<1> QED BY <1>8, <1>10, <1>11, <1>13, <1>14, <1>15, Types_next

LEMMA RestedCore ==
  ASSUME Core, Rested PROVE Core'
<1> USE DEF Core
<1>1. PICK th \in deferred :
        /\ deferred' = deferred \ {th} /\ claimedThreads' = claimedThreads \ {th}
        /\ UNCHANGED <<items, active>> /\ UNCHANGED jobs /\ UNCHANGED crons
  BY DEF Rested, ReleaseThread
<1>2. JobsTypeOK' /\ RowsMove /\ UNCHANGED <<worker, tick>>
  BY <1>1, JobsFrame DEF jobs, crons
<1>3. QueueTypeOK' /\ Once' /\ \A r \in Runs : Queued(r)' <=> Queued(r)
  BY <1>1, Types DEF QueueTypeOK, Once, Queued
<1>4. CronTypes' /\ TickOK' /\ EditorOK' /\ Tokens' /\ Ahead'
  BY <1>1, CronsFrame
<1>5. Rows' /\ OfCrons'
  BY <1>2, <1>3, RowsKept, OfCronsKept
<1>6. Pulled'
  <2>1. ASSUME NEW s \in Slots, worker'[s].pc # "idle"
        PROVE  /\ worker[s].pc # "idle" /\ worker'[s].run = worker[s].run
               /\ worker[s].run \in active' /\ ThreadAt(s) \in claimedThreads' \ deferred'
    BY <1>1, <1>2, <2>1 DEF Pulled
  <2> QED BY <1>2, <2>1, PulledKept
<1>7. Inline'
  BY <1>2, InlineKept DEF Inline, InlineSteps
<1> QED BY <1>2, <1>3, <1>4, <1>5, <1>6, <1>7, Types_next

(* Steps that leave the executions and the queue alone.                       *)
LEMMA CronsCore ==
  ASSUME Core, RowsMove, UNCHANGED <<lease, worker, started, active, claimedThreads, deferred>>,
         trouble' \in 0..MaxTrouble, QueueTypeOK', Once',
         \A r \in Runs : Queued(r)' => Queued(r) \/ Fired(r),
         CronTypes', TickOK', EditorOK', Tokens', Ahead', TicksMove \/ UNCHANGED tick
  PROVE  Core'
<1> USE DEF Core
<1>1. JobsTypeOK'
  BY Types, JobTypes, JobTypes_next DEF RowsMove
<1>2. Rows' /\ OfCrons'
  BY RowsKept, OfCronsKept
<1>3. Pulled'
  <2>1. ASSUME NEW s \in Slots, worker'[s].pc # "idle"
        PROVE  /\ worker[s].pc # "idle" /\ worker'[s].run = worker[s].run
               /\ worker[s].run \in active' /\ ThreadAt(s) \in claimedThreads' \ deferred'
    BY <2>1 DEF Pulled
  <2> QED BY <2>1, PulledKept
<1>4. Inline'
  BY InlineKept DEF Inline, InlineSteps
<1> QED BY <1>1, <1>2, <1>3, <1>4, Types_next

LEMMA QuietCore ==
  ASSUME Core, RowsMove, UNCHANGED <<lease, worker, started>>, UNCHANGED queue,
         trouble' \in 0..MaxTrouble,
         CronTypes', TickOK', EditorOK', Tokens', Ahead', TicksMove \/ UNCHANGED tick
  PROVE  Core'
<1>1. /\ QueueTypeOK' /\ Once' /\ (\A r \in Runs : Queued(r)' <=> Queued(r))
      /\ UNCHANGED <<active, claimedThreads, deferred>>
  BY QueueFrame DEF queue, Core
<1> QED BY <1>1, CronsCore

(* A cron's token never goes back, and stands for its date.                   *)
CronMove(k) == /\ cron'[k].seq >= cron[k].seq
               /\ cron'[k].seq = cron[k].seq => cron'[k].next = cron[k].next

LEMMA TokensKept ==
  ASSUME TypeOK, TickOK, Tokens, cron' \in [Crons -> CronSet], \A k \in Crons : CronMove(k),
         \A u \in Ticks : tick'[u].due \subseteq tick[u].due
  PROVE  Tokens'
<1>1. ASSUME NEW u \in Ticks, NEW d \in tick'[u].due
      PROVE  d.seq <= cron'[d.cron].seq /\ (d.seq = cron'[d.cron].seq => d.occ = cron'[d.cron].next)
  <2>1. d \in tick[u].due /\ tick[u] \in TickSet
    BY <1>1 DEF TickOK
  <2>2. d \in DueEntries
    BY <2>1 DEF TickSet
  <2>3. d.seq \in Nat /\ d.cron \in Crons
    BY <2>2 DEF DueEntries
  <2>4. cron[d.cron].seq \in Nat /\ cron'[d.cron].seq \in Nat
    BY <2>3, Types DEF CronTypes, CronSet
  <2>5. d.seq <= cron[d.cron].seq /\ (d.seq = cron[d.cron].seq => d.occ = cron[d.cron].next)
    BY <2>1 DEF Tokens
  <2>6. /\ cron'[d.cron].seq >= cron[d.cron].seq
        /\ cron'[d.cron].seq = cron[d.cron].seq => cron'[d.cron].next = cron[d.cron].next
    BY <2>3 DEF CronMove
  <2> QED BY <2>3, <2>4, <2>5, <2>6
<1> QED BY <1>1 DEF Tokens

LEMMA TickOKKept ==
  ASSUME TickOK, NEW t \in Ticks, tick' \in [Ticks -> TickSet],
         \A u \in Ticks \ {t} : tick'[u] = tick[u],
         tick'[t].pc \in {"fire", "claim", "discard", "enqueue", "advance"} => tick'[t].due # {},
         tick'[t].pc = "enqueue" => tick'[t].run # 0,
         tick'[t].pc = "requeue" => tick'[t].stale # {}
  PROVE  TickOK' /\ \A u \in Ticks : tick'[u].pc \in TickSteps
<1>1. ASSUME NEW u \in Ticks
      PROVE  /\ tick'[u].pc \in {"fire", "claim", "discard", "enqueue", "advance"} => tick'[u].due # {}
             /\ tick'[u].pc = "enqueue" => tick'[u].run # 0
             /\ tick'[u].pc = "requeue" => tick'[u].stale # {}
  <2>1. CASE u = t
    BY <2>1
  <2>2. CASE u # t
    BY <2>2 DEF TickOK
  <2> QED BY <2>1, <2>2
<1>2. \A u \in Ticks : tick'[u].pc \in TickSteps
  BY DEF TickSet
<1> QED BY <1>1, <1>2 DEF TickOK

LEMMA ClockCore ==
  ASSUME Core, Clock PROVE Core'
<1> USE DEF Core
<1>1. UNCHANGED <<cron, homes, made, tick, editor>> /\ UNCHANGED jobs /\ UNCHANGED queue
      /\ now' \in 0..MaxNow
  BY Types, Ids DEF Clock, CronTypes
<1>2. UNCHANGED <<row, lease, worker, started, trouble>>
  BY <1>1 DEF jobs
<1>3. CronTypes' /\ TickOK' /\ EditorOK' /\ Tokens' /\ Ahead' /\ RowsMove
  BY <1>1, JobsFrame, TicksFrame, Types DEF CronTypes, EditorOK
<1> QED BY <1>1, <1>2, <1>3, QuietCore, Types, JobTypes

LEMMA EditCore ==
  ASSUME Core, Edit PROVE Core'
<1> USE DEF Core
<1>0. UNCHANGED <<lease, worker, started>> /\ UNCHANGED queue
  BY DEF Edit
<1>1. /\ row \in [Runs -> RowSet] /\ trouble \in 0..MaxTrouble /\ cron \in [Crons -> CronSet]
      /\ editor \in [Editors -> PatchSet] /\ now \in 0..MaxNow /\ homes \subseteq Homes
      /\ made \in Nat
  BY Types, JobTypes DEF CronTypes
<1>2. UNCHANGED row => RowsMove
  BY <1>1 DEF RowsMove, RowMove
<1>3. CASE \E e \in Editors : WritePatch(e)
  <2>1. PICK e \in Editors : WritePatch(e)
    BY <1>3
  <2>2. editor[e].kind # "none" /\ UNCHANGED <<row, trouble, now, homes, made, tick>>
    BY <2>1 DEF WritePatch
  <2>3. editor' \in [Editors -> PatchSet] /\ EditorOK'
    <3>1. NoPatch \in PatchSet /\ NoPatch.kind = "none"
      BY Ids DEF NoPatch, PatchSet, Never
    <3>2. editor' = [editor EXCEPT ![e] = NoPatch]
      BY <2>1 DEF WritePatch
    <3> QED BY <1>1, <3>1, <3>2 DEF EditorOK
  <2>4. CASE cron' = cron
    BY <1>0, <1>1, <1>2, <2>2, <2>3, <2>4, TicksFrame, QuietCore, Types DEF CronTypes
  <2>5. CASE cron' = Patched(e)
    <3> DEFINE k == editor[e].cron
    <3>1. /\ k \in Crons /\ cron' \in [Crons -> CronSet] /\ cron'[k].next = editor[e].next
          /\ \A l \in Crons \ {k} : cron'[l] = cron[l]
          /\ cron'[k].seq = cron[k].seq + 1 /\ cron'[k].fired = NotFired
      BY <2>2, <2>5, PatchedValues
    <3>2. cron[k].seq \in Nat /\ editor[e].next \in Nat
      <4>1. cron[k] \in CronSet /\ editor[e] \in PatchSet
        BY <1>1, <3>1
      <4>2. 0..EndTime \subseteq Nat
        BY Ids
      <4>3. cron[k].seq \in Nat
        BY <4>1 DEF CronSet
      <4>4. editor[e].next \in 0..EndTime
        BY <4>1 DEF PatchSet
      <4> QED BY <4>2, <4>3, <4>4
    <3> HIDE DEF k
    <3>3. ASSUME NEW l \in Crons PROVE CronMove(l)
      <4>1. cron[l].seq \in Nat
        BY <1>1 DEF CronSet
      <4> QED BY <3>1, <3>2, <4>1 DEF CronMove
    <3>4. Tokens'
      BY <2>2, <3>1, <3>3, TokensKept
    <3>5. Ahead'
      <4>1. NotFired.at = 0 /\ Never = 0
        BY DEF NotFired, Never
      <4> QED BY <3>1, <3>2, <4>1 DEF Ahead
    <3>6. TickOK' /\ CronTypes'
      BY <1>1, <2>2, <2>3, <3>1, Types DEF TickOK, CronTypes
    <3> QED BY <1>0, <1>1, <1>2, <2>2, <2>3, <3>4, <3>5, <3>6, QuietCore
  <2> QED BY <2>1, <2>4, <2>5 DEF WritePatch
<1>4. CASE \E e \in Editors, k \in Crons, kind \in PatchKinds : BeginPatch(e, k, kind)
  <2>1. PICK e \in Editors, k \in Crons, kind \in PatchKinds : BeginPatch(e, k, kind)
    BY <1>4
  <2>2. UNCHANGED <<row, now, cron, homes, made, tick>> /\ Trouble
    BY <2>1 DEF BeginPatch
  <2> DEFINE x == [cron |-> k, kind |-> kind,
                   next |-> IF Enabled(k, kind) THEN NextOccurrence(now) ELSE Never]
  <2>3. editor' = [editor EXCEPT ![e] = x]
    BY <2>1 DEF BeginPatch
  <2>4. x \in PatchSet /\ x.cron = k
    BY <1>1, Ids DEF PatchSet, NextOccurrence, Never
  <2> HIDE DEF x
  <2>5. editor' \in [Editors -> PatchSet] /\ EditorOK'
    BY <1>1, <2>3, <2>4, Ids DEF EditorOK
  <2>6. trouble' \in 0..MaxTrouble
    BY <2>2, TroubleType
  <2> QED BY <1>0, <1>1, <1>2, <2>2, <2>5, <2>6, TicksFrame, QuietCore, Types DEF CronTypes
<1>5. CASE \E k \in Crons : DeleteCron(k)
  <2>1. PICK k \in Crons : DeleteCron(k)
    BY <1>5
  <2>2. UNCHANGED <<row, now, homes, made, tick, editor>> /\ Trouble
    BY <2>1 DEF DeleteCron
  <2> DEFINE x == [cron[k] EXCEPT !.exists = FALSE]
  <2>3. cron' = [cron EXCEPT ![k] = x]
    BY <2>1 DEF DeleteCron
  <2>4. x \in CronSet /\ x.next = cron[k].next /\ x.seq = cron[k].seq /\ x.fired = cron[k].fired
    BY <1>1 DEF CronSet
  <2> HIDE DEF x
  <2>5. /\ cron' \in [Crons -> CronSet]
        /\ \A l \in Crons : /\ cron'[l].next = cron[l].next /\ cron'[l].seq = cron[l].seq
                             /\ cron'[l].fired = cron[l].fired
    BY <1>1, <2>3, <2>4
  <2>6. Tokens' /\ Ahead'
    <3>1. ASSUME NEW l \in Crons PROVE CronMove(l)
      <4>1. cron[l].seq \in Nat
        BY <1>1 DEF CronSet
      <4> QED BY <2>5, <4>1 DEF CronMove
    <3> QED BY <2>2, <2>5, <3>1, TokensKept DEF Ahead
  <2>7. TickOK' /\ EditorOK' /\ CronTypes' /\ trouble' \in 0..MaxTrouble
    BY <1>1, <2>2, <2>5, TroubleType, Types DEF TickOK, EditorOK, CronTypes
  <2> QED BY <1>0, <1>2, <2>2, <2>6, <2>7, QuietCore
<1>6. CASE \E th \in Homes : DeleteThread(th)
  <2>1. PICK th \in Homes : DeleteThread(th)
    BY <1>6
  <2>2. UNCHANGED <<now, made, tick, editor>> /\ Trouble /\ homes' \subseteq Homes
    BY <1>1, <2>1 DEF DeleteThread
  <2>3. ASSUME NEW k \in Crons
        PROVE  /\ cron'[k] \in CronSet /\ cron'[k].next = cron[k].next
               /\ cron'[k].seq = cron[k].seq /\ cron'[k].fired = cron[k].fired
    <3> DEFINE b == cron[k].exists /\ cron[k].thread # th
               x == [cron[k] EXCEPT !.exists = b]
    <3>1. cron'[k] = x
      BY <2>1 DEF DeleteThread
    <3>2. cron[k] \in CronSet /\ b \in BOOLEAN
      BY <1>1 DEF CronSet
    <3> HIDE DEF b
    <3> QED BY <3>1, <3>2 DEF CronSet
  <2>4. cron' \in [Crons -> CronSet]
    BY <2>1, <2>3 DEF DeleteThread
  <2>5. Tokens' /\ Ahead'
    <3>1. ASSUME NEW l \in Crons PROVE CronMove(l)
      <4>1. cron[l].seq \in Nat
        BY <1>1 DEF CronSet
      <4> QED BY <2>3, <4>1 DEF CronMove
    <3>2. Tokens'
      BY <2>2, <2>4, <3>1, TokensKept
    <3> QED BY <2>3, <3>2 DEF Ahead
  <2>6. TickOK' /\ EditorOK' /\ CronTypes' /\ trouble' \in 0..MaxTrouble
    BY <1>1, <2>2, <2>4, TroubleType, Types DEF TickOK, EditorOK, CronTypes
  <2>7. ASSUME NEW r \in Runs
        PROVE  row'[r] \in RowSet /\ RowMove(r)
    <3>1. CASE row[r].thread = th
      <4> DEFINE x == [row[r] EXCEPT !.status = "deleted"]
      <4>1. row'[r] = x /\ row[r] \in RowSet
        BY <1>1, <2>1, <3>1 DEF DeleteThread
      <4>2. x \in RowSet /\ x.status = "deleted" /\ x.thread = row[r].thread /\ x.cron = row[r].cron
        BY <4>1 DEF RowSet, RowStatus
      <4>3. row[r].status # "absent"
        BY <3>1, Ids DEF Rows
      <4> HIDE DEF x
      <4> QED BY <4>1, <4>2, <4>3 DEF RowMove
    <3>2. CASE row[r].thread # th
      BY <1>1, <2>1, <3>2 DEF DeleteThread, RowMove
    <3> QED BY <3>1, <3>2
  <2>8. RowsMove
    BY <2>1, <2>7 DEF RowsMove, DeleteThread
  <2> QED BY <1>0, <2>2, <2>5, <2>6, <2>8, QuietCore
<1> QED BY <1>3, <1>4, <1>5, <1>6 DEF Edit

-----------------------------------------------------------------------------
(* The scheduler's steps keep the core of the invariant.                      *)

LEMMA TickStepCore ==
  ASSUME Core, NEW t \in Ticks, tick' \in [Ticks -> TickSet],
         \A u \in Ticks \ {t} : tick'[u] = tick[u],
         tick'[t].pc \in {"fire", "claim", "discard", "enqueue", "advance"} => tick'[t].due # {},
         tick'[t].pc = "enqueue" => tick'[t].run # 0,
         tick'[t].pc = "requeue" => tick'[t].stale # {},
         Tokens', Ahead', cron' \in [Crons -> CronSet], made' \in Nat,
         RowsMove, trouble' \in 0..MaxTrouble,
         UNCHANGED <<lease, worker, started, active, claimedThreads, deferred, now, homes, editor>>,
         QueueTypeOK', Once', \A r \in Runs : Queued(r)' => Queued(r) \/ Fired(r),
         tick'[t].run \in {0, tick[t].run} \/ row'[tick'[t].run].cron # 0,
         \A r \in tick'[t].stale : r \in tick[t].stale \/ row'[r].cron # 0
  PROVE  Core'
<1> USE DEF Core
<1>1. TickOK' /\ \A u \in Ticks : tick'[u].pc \in TickSteps
  BY TickOKKept
<1>2. CronTypes' /\ EditorOK'
  BY <1>1, Types DEF CronTypes, EditorOK
<1>3. TicksMove
  BY DEF TicksMove
<1> QED BY <1>1, <1>2, <1>3, CronsCore

(* Steps that only move a tick on, and perhaps count a thread.                *)
LEMMA TickMovesCore ==
  ASSUME Core, NEW t \in Ticks, tick' \in [Ticks -> TickSet],
         \A u \in Ticks \ {t} : tick'[u] = tick[u],
         tick'[t].pc \in {"fire", "claim", "discard", "enqueue", "advance"} => tick'[t].due # {},
         tick'[t].pc = "enqueue" => tick'[t].run # 0,
         tick'[t].pc = "requeue" => tick'[t].stale # {},
         tick'[t].due \subseteq tick[t].due \/ Tokens', made' \in Nat,
         tick'[t].run \in {0, tick[t].run},
         \A r \in tick'[t].stale : r \in tick[t].stale \/ Fired(r),
         UNCHANGED <<cron, row, lease, worker, started, now, homes, editor>>, UNCHANGED queue,
         trouble' \in 0..MaxTrouble
  PROVE  Core'
<1> USE DEF Core
<1>1. RowsMove
  BY Types, JobTypes DEF RowsMove, RowMove
<1>2. QueueTypeOK' /\ Once' /\ (\A r \in Runs : Queued(r)' <=> Queued(r))
      /\ UNCHANGED <<active, claimedThreads, deferred>>
  BY QueueFrame DEF queue
<1>3. Tokens'
  <2>1. CASE tick'[t].due \subseteq tick[t].due
    BY <2>1 DEF Tokens
  <2> QED BY <2>1
<1>4. Ahead'
  BY DEF Ahead
<1>5. cron' \in [Crons -> CronSet] /\ \A r \in tick'[t].stale : r \in tick[t].stale \/ row'[r].cron # 0
  BY Types DEF CronTypes, Fired
<1> QED BY <1>1, <1>2, <1>3, <1>4, <1>5, TickStepCore

LEMMA TickAt ==
  ASSUME Core, NEW t \in Ticks
  PROVE  /\ tick \in [Ticks -> TickSet] /\ tick[t] \in TickSet
         /\ tick[t].run \in Runs \cup {0} /\ tick[t].stale \subseteq Runs
         /\ tick[t].just \subseteq Runs /\ tick[t].at \in 0..MaxNow
         /\ tick[t].due \subseteq DueEntries
         /\ made \in Nat /\ trouble \in 0..MaxTrouble
BY Types, JobTypes DEF Core, TickOK, TickSet, CronTypes

LEMMA NoTickValue ==
  /\ NoTick \in TickSet /\ NoTick.pc = "idle" /\ NoTick.due = {} /\ NoTick.run = 0
  /\ NoTick.stale = {}
<1>1. 0 \in 0..MaxNow
  BY Ids
<1> QED BY <1>1 DEF NoTick, TickSet, TickSteps

LEMMA ScanCore ==
  ASSUME Core, NEW t \in Ticks, Scan(t)
  PROVE  Core'
<1> USE DEF Core
<1>0. tick \in [Ticks -> TickSet] /\ cron \in [Crons -> CronSet] /\ now \in 0..MaxNow
      /\ made \in Nat /\ trouble \in 0..MaxTrouble
  BY TickAt, Types DEF CronTypes
<1> DEFINE pc == IF Batch = {} THEN "sweep" ELSE "fire"
           due == {[cron |-> k, seq |-> cron[k].seq, occ |-> cron[k].next] : k \in Batch}
           x == [NoTick EXCEPT !.pc = pc, !.at = now, !.due = due]
<1>1. /\ tick' = [tick EXCEPT ![t] = x] /\ UNCHANGED <<now, cron, homes, made, editor>>
      /\ UNCHANGED <<jobs, queue>>
  BY DEF Scan
<1>2. ASSUME NEW d \in due
      PROVE  d \in DueEntries /\ d.seq = cron[d.cron].seq /\ d.occ = cron[d.cron].next
  <2>1. PICK k \in Batch : d = [cron |-> k, seq |-> cron[k].seq, occ |-> cron[k].next]
    BY <1>2
  <2>2. k \in Crons /\ cron[k].next # Never /\ cron[k] \in CronSet
    BY <1>0 DEF Batch, DueCrons, IsDue
  <2>3. cron[k].seq \in Nat /\ cron[k].next \in 0..EndTime
    BY <2>2 DEF CronSet
  <2>4. cron[k].next \in 1..EndTime
    BY <2>2, <2>3, Ids DEF Never
  <2> QED BY <2>1, <2>2, <2>3, <2>4 DEF DueEntries
<1>3. pc = "fire" => due # {}
  OBVIOUS
<1>4. pc \in {"sweep", "fire"} /\ due \subseteq DueEntries
  BY <1>2
<1>5. ASSUME NEW d \in due PROVE cron[d.cron].seq \in Nat
  <2>1. d.seq \in Nat
    BY <1>2 DEF DueEntries
  <2> QED BY <1>2, <2>1
<1> HIDE DEF pc, due
<1>6. /\ x \in TickSet /\ x.pc = pc /\ x.due = due /\ x.run = 0 /\ x.stale = {}
  BY <1>0, <1>4, NoTickValue DEF TickSet, TickSteps
<1> HIDE DEF x
<1>7. /\ tick' \in [Ticks -> TickSet] /\ tick'[t] = x /\ \A u \in Ticks \ {t} : tick'[u] = tick[u]
  BY <1>0, <1>1, <1>6
<1>8. Tokens'
  <2>1. ASSUME NEW u \in Ticks, NEW d \in tick'[u].due
        PROVE  d.seq <= cron[d.cron].seq /\ (d.seq = cron[d.cron].seq => d.occ = cron[d.cron].next)
    <3>1. CASE u = t
      BY <1>2, <1>5, <1>6, <1>7, <2>1, <3>1
    <3>2. CASE u # t
      BY <1>7, <2>1, <3>2 DEF Tokens
    <3> QED BY <3>1, <3>2
  <2> QED BY <1>1, <2>1 DEF Tokens
<1>9. UNCHANGED <<cron, row, lease, worker, started, now, homes, editor, trouble, made>> /\ UNCHANGED queue
  BY <1>1 DEF jobs
<1> QED BY <1>0, <1>3, <1>4, <1>6, <1>7, <1>8, <1>9, TickMovesCore

LEMMA PrepareCore ==
  ASSUME Core, NEW t \in Ticks, PrepareThread(t)
  PROVE  Core'
<1> USE DEF Core
<1>1. PICK pc \in {"claim", "advance"} : tick' = Goto(t, pc)
  BY DEF PrepareThread
<1>2. /\ UNCHANGED <<cron, row, lease, worker, started, now, homes, editor, trouble>>
      /\ UNCHANGED queue /\ tick[t].pc = "fire" /\ made' \in {made, made + 1}
  BY DEF PrepareThread, jobs
<1>3. made' \in Nat /\ tick[t].due # {} /\ trouble' \in 0..MaxTrouble /\ pc \in TickSteps
  BY <1>2, TickAt DEF TickOK, TickSteps
<1> QED BY <1>1, <1>2, <1>3, GotoValues, TickMovesCore

(* A claim moves the cron on and inserts the run it fired.                     *)
LEMMA FireMoves ==
  ASSUME Core, NEW t \in Ticks, NEW r \in Runs, tick[t].pc = "claim", Fire(t, r)
  PROVE  /\ RowsMove /\ row[r].status = "absent" /\ row'[r].status = "pending"
         /\ \A q \in Runs \ {r} : row'[q] = row[q]
         /\ row'[r].cron = Current(t).cron /\ row'[r].cron # 0
         /\ row'[r].thread = (IF cron[Current(t).cron].thread = 0 THEN r
                               ELSE cron[Current(t).cron].thread)
         /\ cron' \in [Crons -> CronSet] /\ (\A k \in Crons : CronMove(k)) /\ Ahead'
         /\ \A k \in Crons : cron'[k].thread = cron[k].thread
         /\ cron'[Current(t).cron].fired = [occ |-> Current(t).occ, at |-> tick[t].at]
         /\ Claimable(Current(t))
<1> USE DEF Core
<1> DEFINE d == Current(t) k == d.cron n == NextDate(t)
           th == IF cron[k].thread = 0 THEN r ELSE cron[k].thread
           a == Advanced(d, n) f == [occ |-> d.occ, at |-> tick[t].at]
<1>1. d \in tick[t].due /\ k \in Crons /\ d.seq \in Nat /\ d.occ \in 1..EndTime /\ tick[t].at \in 0..MaxNow
  BY CurrentValues, TickAt
<1>2. /\ row \in [Runs -> RowSet] /\ cron \in [Crons -> CronSet] /\ cron[k] \in CronSet
      /\ now \in 0..MaxNow
  BY <1>1, Types, JobTypes DEF CronTypes
<1>3. /\ Claimable(d) /\ IsNext(r) /\ row' = Inserted(r, th, k, now)
      /\ cron' = [a EXCEPT ![k].fired = f]
  BY DEF Fire
<1>4. n \in 0..EndTime /\ (n # Never => n > tick[t].at) /\ d.occ \in Nat /\ tick[t].at \in Nat
      /\ 1..EndTime \subseteq 0..EndTime
  <2>1. d.occ \in Nat /\ tick[t].at \in Nat /\ 1..EndTime \subseteq 0..EndTime
    BY <1>1, Ids
  <2> QED BY <2>1, NextDates DEF NextDate
<1>5. row[r].status = "absent"
  BY <1>3, NextIsAbsent
<1>6. th \in Threads /\ k \in Nat /\ now \in Nat /\ k # 0
  <2>1. cron[k].thread \in Homes \cup {0}
    BY <1>2 DEF CronSet
  <2>2. th \in Threads
    BY <2>1, Ids
  <2>3. now \in Nat
    BY <1>2, Ids
  <2> QED BY <1>1, <2>2, <2>3, Ids
<1> HIDE DEF n, th
<1>7. /\ a \in [Crons -> CronSet] /\ \A l \in Crons \ {k} : a[l] = cron[l]
      /\ a[k].next = n /\ a[k].seq = cron[k].seq + 1 /\ a[k].fired = cron[k].fired
      /\ a[k].thread = cron[k].thread
  BY <1>1, <1>4, AdvancedValues
<1> HIDE DEF a
<1>8. f \in [occ: 0..EndTime, at: 0..MaxNow] /\ f.at = tick[t].at
  BY <1>1, <1>4
<1> HIDE DEF f
<1> DEFINE x == [a[k] EXCEPT !.fired = f]
<1>9. cron' = [a EXCEPT ![k] = x]
  BY <1>3
<1>10. /\ x \in CronSet /\ x.next = n /\ x.seq = cron[k].seq + 1 /\ x.fired = f
       /\ x.thread = cron[k].thread
  <2>1. a[k] \in CronSet
    BY <1>1, <1>7
  <2> QED BY <1>7, <1>8, <2>1 DEF CronSet
<1> HIDE DEF x, d, k
<1>11. /\ cron' \in [Crons -> CronSet] /\ cron'[k] = x /\ \A l \in Crons \ {k} : cron'[l] = cron[l]
  BY <1>1, <1>7, <1>9, <1>10
<1>12. ASSUME NEW l \in Crons PROVE CronMove(l) /\ cron'[l].thread = cron[l].thread
  <2>1. cron[l].seq \in Nat
    BY <1>2 DEF CronSet
  <2>2. CASE l = k
    BY <1>10, <1>11, <2>1, <2>2 DEF CronMove
  <2>3. CASE l # k
    BY <1>11, <2>1, <2>3 DEF CronMove
  <2> QED BY <2>2, <2>3
<1>13. Ahead'
  <2>1. ASSUME NEW l \in Crons, cron'[l].next # Never PROVE cron'[l].next > cron'[l].fired.at
    <3>1. CASE l = k
      BY <1>4, <1>8, <1>10, <1>11, <2>1, <3>1
    <3>2. CASE l # k
      BY <1>11, <2>1, <3>2 DEF Ahead
    <3> QED BY <3>1, <3>2
  <2> QED BY <2>1 DEF Ahead
<1>14. /\ row' \in [Runs -> RowSet] /\ \A q \in Runs \ {r} : row'[q] = row[q]
       /\ row'[r].status = "pending" /\ row'[r].thread = th /\ row'[r].cron = k
  BY <1>3, <1>6, InsertedValues
<1>15. RowsMove
  BY <1>1, <1>5, <1>6, <1>14 DEF RowsMove, RowMove
<1>16. cron'[k].fired = f /\ \A l \in Crons : CronMove(l) /\ cron'[l].thread = cron[l].thread
  BY <1>10, <1>11, <1>12
<1> QED BY <1>3, <1>5, <1>6, <1>11, <1>13, <1>14, <1>15, <1>16 DEF d, k, th, f

LEMMA ClaimCore ==
  ASSUME Core, NEW t \in Ticks, ClaimOccurrence(t)
  PROVE  Core'
<1> USE DEF Core
<1>1. /\ UNCHANGED <<now, homes, made, editor, lease, worker, started, trouble>> /\ UNCHANGED queue
      /\ tick[t].pc = "claim" /\ tick[t].due # {}
  BY DEF ClaimOccurrence, TickOK
<1>2. CASE \E r \in Runs : Fire(t, r) /\ tick' = [tick EXCEPT ![t].pc = "enqueue", ![t].run = r]
  <2>1. PICK r \in Runs : Fire(t, r) /\ tick' = [tick EXCEPT ![t].pc = "enqueue", ![t].run = r]
    BY <1>2
  <2> DEFINE x == [tick[t] EXCEPT !.pc = "enqueue", !.run = r]
  <2>2. tick' = [tick EXCEPT ![t] = x]
    BY <2>1, TickAt
  <2>3. /\ x \in TickSet /\ x.pc = "enqueue" /\ x.run = r /\ x.due = tick[t].due
        /\ x.stale = tick[t].stale
    BY TickAt DEF TickSet, TickSteps
  <2> HIDE DEF x
  <2>4. /\ tick' \in [Ticks -> TickSet] /\ tick'[t] = x /\ \A u \in Ticks \ {t} : tick'[u] = tick[u]
    BY <2>2, <2>3, TickAt
  <2>5. /\ RowsMove /\ row'[r].cron # 0 /\ cron' \in [Crons -> CronSet] /\ Ahead'
        /\ \A k \in Crons : CronMove(k)
    BY <1>1, <2>1, FireMoves
  <2>6. Tokens'
    <3>1. \A u \in Ticks : tick'[u].due \subseteq tick[u].due
      BY <2>3, <2>4
    <3> QED BY <2>5, <3>1, TokensKept
  <2>7. QueueTypeOK' /\ Once' /\ (\A q \in Runs : Queued(q)' <=> Queued(q))
        /\ UNCHANGED <<active, claimedThreads, deferred>>
    BY <1>1, QueueFrame DEF queue
  <2> QED BY <1>1, <2>3, <2>4, <2>5, <2>6, <2>7, Ids, TickAt, TickStepCore
<1>3. CASE /\ tick' = IF cron[Current(t).cron].thread = 0 THEN Goto(t, "discard")
                      ELSE Onward(t, tick[t].just)
           /\ UNCHANGED <<cron, row>>
  <2>1. CASE tick' = Goto(t, "discard")
    <3>1. "discard" \in TickSteps
      BY DEF TickSteps
    <3> QED BY <1>1, <1>3, <2>1, <3>1, GotoValues, TickAt, TickMovesCore
  <2>2. CASE tick' = Onward(t, tick[t].just)
    BY <1>1, <1>3, <2>2, OnwardValues, TickAt, TickMovesCore
  <2> QED BY <1>3, <2>1, <2>2
<1> QED BY <1>2, <1>3 DEF ClaimOccurrence

(* A discarded thread was counted.                                           *)
LEMMA HeldCounts ==
  /\ IsFiniteSet(HeldTicks) /\ Cardinality(HeldTicks) \in Nat
  /\ Cardinality(HeldTicks) <= Cardinality(Ticks)
  /\ IsFiniteSet(Stateless) /\ Cardinality(Stateless) \in Nat
  /\ Cardinality(Ticks) \in Nat
<1>1. IsFiniteSet(Ticks) /\ IsFiniteSet(Runs) /\ HeldTicks \in SUBSET Ticks /\ Stateless \in SUBSET Runs
  BY CronsAssumption, JobsAssumption DEF HeldTicks, Stateless
<1> QED BY <1>1, FS_Subset, FS_CardinalityType

LEMMA DiscardCounts ==
  ASSUME Core, Made, NEW t \in Ticks, tick[t].pc = "discard"
  PROVE  t \in HeldTicks /\ made - 1 \in Nat
<1>1. t \in HeldTicks
  BY DEF Made, HeldTicks
<1>2. Cardinality(HeldTicks) # 0
  BY <1>1, HeldCounts, FS_EmptySet
<1>3. made \in Nat
  BY Types DEF Core, CronTypes
<1> QED BY <1>1, <1>2, <1>3, HeldCounts DEF Made

LEMMA DiscardCore ==
  ASSUME Core, Made, NEW t \in Ticks, DiscardThread(t)
  PROVE  Core'
<1> USE DEF Core
<1>1. /\ tick[t].pc = "discard" /\ made' = made - 1 /\ tick' = Onward(t, tick[t].just)
      /\ UNCHANGED <<cron, row, lease, worker, started, now, homes, editor, trouble>>
      /\ UNCHANGED queue
  BY DEF DiscardThread, WithoutThread, jobs
<1>2. made' \in Nat
  BY <1>1, DiscardCounts
<1> QED BY <1>1, <1>2, OnwardValues, TickAt, TickMovesCore

LEMMA AdvanceCore ==
  ASSUME Core, NEW t \in Ticks, AdvanceFailed(t)
  PROVE  Core'
<1> USE DEF Core
<1> DEFINE d == Current(t) n == NextDate(t)
<1>1. /\ tick[t].pc = "advance" /\ tick' = Onward(t, tick[t].just)
      /\ cron' = IF Claimable(d) THEN Advanced(d, n) ELSE cron
      /\ UNCHANGED <<row, lease, worker, started, now, homes, editor, made, trouble>>
      /\ UNCHANGED queue
  BY DEF AdvanceFailed, jobs
<1>2. CASE cron' = cron
  BY <1>1, <1>2, OnwardValues, TickAt, TickMovesCore
<1>3. CASE cron' = Advanced(d, n) /\ Claimable(d)
  <2>1. /\ d \in tick[t].due /\ d.cron \in Crons /\ d.occ \in 1..EndTime
        /\ tick[t].at \in 0..MaxNow
    BY <1>1, CurrentValues, TickAt
  <2>2. d.occ \in Nat /\ tick[t].at \in Nat /\ d.occ # Never
    BY <2>1, Ids DEF Never
  <2>3. n \in 0..EndTime /\ (n # Never => n > d.occ)
    BY <2>2, NextDates DEF NextDate
  <2>4. /\ cron' \in [Crons -> CronSet] /\ \A k \in Crons \ {d.cron} : cron'[k] = cron[k]
        /\ cron'[d.cron].next = n /\ cron'[d.cron].seq = cron[d.cron].seq + 1
        /\ cron'[d.cron].fired = cron[d.cron].fired
    BY <1>3, <2>1, <2>3, AdvancedValues
  <2>5. d.occ > cron[d.cron].fired.at
    <3>1. d.occ = cron[d.cron].next
      BY <1>3, <2>1 DEF Claimable, Tokens
    <3> QED BY <2>1, <2>2, <3>1 DEF Ahead
  <2>6. cron[d.cron].fired.at \in Nat
    <3>1. cron[d.cron] \in CronSet
      BY <2>1, Types DEF CronTypes
    <3>2. cron[d.cron].fired.at \in 0..MaxNow
      BY <3>1 DEF CronSet
    <3> QED BY <3>2, Ids
  <2> HIDE DEF d, n
  <2>7. ASSUME NEW k \in Crons PROVE CronMove(k)
    <3>1. cron[k].seq \in Nat
      BY Types DEF CronTypes, CronSet
    <3> QED BY <2>4, <3>1 DEF CronMove
  <2>8. Ahead'
    <3>1. ASSUME NEW k \in Crons, cron'[k].next # Never PROVE cron'[k].next > cron'[k].fired.at
      <4>1. CASE k = d.cron
        <5>1. 0..EndTime \subseteq Nat
          BY Ids
        <5>2. n \in Nat /\ n > d.occ
          BY <2>3, <2>4, <3>1, <4>1, <5>1
        <5> QED BY <2>2, <2>4, <2>5, <2>6, <4>1, <5>2
      <4>2. CASE k # d.cron
        BY <2>4, <3>1, <4>2 DEF Ahead
      <4> QED BY <4>1, <4>2
    <3> QED BY <3>1 DEF Ahead
  <2>9. /\ tick' \in [Ticks -> TickSet] /\ \A u \in Ticks \ {t} : tick'[u] = tick[u]
        /\ tick'[t].due \subseteq tick[t].due /\ tick'[t].run = 0 /\ tick'[t].stale = tick[t].stale
        /\ tick'[t].pc \in {"sweep", "fire"} /\ (tick'[t].pc = "fire" => tick'[t].due # {})
    BY <1>1, OnwardValues, TickAt
  <2>10. Tokens'
    BY <2>4, <2>7, <2>9, TokensKept
  <2>11. QueueTypeOK' /\ Once' /\ (\A q \in Runs : Queued(q)' <=> Queued(q))
        /\ UNCHANGED <<active, claimedThreads, deferred>>
    BY <1>1, QueueFrame DEF queue
  <2>12. RowsMove
    BY <1>1, Types, JobTypes DEF RowsMove, RowMove
  <2> QED BY <1>1, <2>4, <2>8, <2>9, <2>10, <2>11, <2>12, TickAt, TickStepCore
<1> QED BY <1>1, <1>2, <1>3

(* Enqueueing a run the queue knows of changes nothing.                        *)
LEMMA EnqueueMoves ==
  ASSUME Core, NEW r \in Runs, Enqueue(r)
  PROVE  /\ QueueTypeOK' /\ Once' /\ UNCHANGED <<active, claimedThreads, deferred>>
         /\ ToSet(items') \subseteq ToSet(items) \cup {r}
         /\ \A q \in Runs : Queued(q)' => Queued(q) \/ q = r
<1> USE DEF Core
<1>1. /\ items \in Seq(Runs) /\ active \subseteq Runs /\ deferred \subseteq claimedThreads
      /\ claimedThreads \subseteq Threads /\ UNCHANGED <<active, claimedThreads, deferred>>
  BY Types DEF QueueTypeOK, Enqueue
<1>2. CASE Queued(r)
  <2>1. items' = items
    BY <1>2 DEF Enqueue
  <2> QED BY <1>1, <2>1 DEF QueueTypeOK, Once, Queued
<1>3. CASE ~Queued(r)
  <2>1. items' = Append(items, r) /\ r \notin ToSet(items) /\ r \notin active
    BY <1>3 DEF Enqueue, Queued
  <2>2. items' \in Seq(Runs) /\ ToSet(items') = ToSet(items) \cup {r} /\ IsInjective(items')
    BY <1>1, <2>1, Appended DEF Once
  <2> QED BY <1>1, <2>1, <2>2 DEF QueueTypeOK, Once, Queued
<1> QED BY <1>2, <1>3

LEMMA EnqueueCore ==
  ASSUME Core, NEW t \in Ticks, NEW r \in Runs, Fired(r), Enqueue(r),
         tick' \in [Ticks -> TickSet], \A u \in Ticks \ {t} : tick'[u] = tick[u],
         tick'[t].pc \in {"fire", "claim", "discard", "enqueue", "advance"} => tick'[t].due # {},
         tick'[t].pc # "enqueue", tick'[t].pc = "requeue" => tick'[t].stale # {},
         tick'[t].due \subseteq tick[t].due, tick'[t].run \in {0, tick[t].run},
         tick'[t].stale \subseteq tick[t].stale,
         UNCHANGED <<now, cron, homes, made, editor>>, UNCHANGED jobs
  PROVE  Core'
<1> USE DEF Core
<1>1. /\ QueueTypeOK' /\ Once' /\ UNCHANGED <<active, claimedThreads, deferred>>
      /\ \A q \in Runs : Queued(q)' => Queued(q) \/ Fired(q)
  BY EnqueueMoves
<1>2. RowsMove /\ UNCHANGED <<row, lease, worker, started, trouble>>
  BY JobsFrame DEF jobs
<1>3. Tokens' /\ Ahead'
  BY DEF Tokens, Ahead
<1>4. cron' \in [Crons -> CronSet] /\ made' \in Nat /\ trouble' \in 0..MaxTrouble
  BY <1>2, TickAt, Types DEF CronTypes
<1>5. \A q \in tick'[t].stale : q \in tick[t].stale \/ row'[q].cron # 0
  OBVIOUS
<1> QED BY <1>1, <1>2, <1>3, <1>4, <1>5, TickStepCore

LEMMA EnqueueFiredCore ==
  ASSUME Core, NEW t \in Ticks, EnqueueFired(t)
  PROVE  Core'
<1> USE DEF Core
<1>1. /\ tick[t].pc = "enqueue" /\ Enqueue(tick[t].run)
      /\ tick' = Onward(t, tick[t].just \cup {tick[t].run})
      /\ UNCHANGED <<now, cron, homes, made, editor>> /\ UNCHANGED jobs
  BY DEF EnqueueFired
<1>2. tick[t].run \in Runs /\ Fired(tick[t].run)
  BY <1>1, TickAt DEF TickOK, OfCrons
<1>3. tick[t].just \cup {tick[t].run} \in SUBSET Runs
  BY <1>2, TickAt
<1> QED BY <1>1, <1>2, <1>3, OnwardValues, EnqueueCore

LEMMA SweepCore ==
  ASSUME Core, NEW t \in Ticks, Sweep(t)
  PROVE  Core'
<1> USE DEF Core
<1> DEFINE stale == Stale(tick[t].at, tick[t].just)
           x == IF stale = {} THEN NoTick ELSE [NoTick EXCEPT !.pc = "requeue", !.stale = stale]
<1>1. /\ tick' = [tick EXCEPT ![t] = x]
      /\ UNCHANGED <<cron, row, lease, worker, started, now, homes, editor, trouble, made>>
      /\ UNCHANGED queue
  BY DEF Sweep, jobs
<1>2. stale \subseteq Runs /\ \A r \in stale : Fired(r)
  BY DEF Stale
<1> HIDE DEF stale
<1>3. /\ x \in TickSet /\ x.due = {} /\ x.run = 0 /\ x.pc \in {"idle", "requeue"}
      /\ x.stale \subseteq stale /\ (x.pc = "requeue" => x.stale # {})
  BY <1>2, NoTickValue DEF TickSet, TickSteps
<1> HIDE DEF x
<1>4. /\ tick' \in [Ticks -> TickSet] /\ tick'[t] = x /\ \A u \in Ticks \ {t} : tick'[u] = tick[u]
  BY <1>1, <1>3, TickAt
<1> QED BY <1>1, <1>2, <1>3, <1>4, TickAt, TickMovesCore

(* The run a sweep is at is one of its stale ones.                            *)
LEMMA RequeuedIsStale ==
  ASSUME Core, NEW t \in Ticks, tick[t].pc = "requeue"
  PROVE  (CHOOSE r \in tick[t].stale : \A q \in tick[t].stale : r <= q) \in tick[t].stale
<1>1. tick[t].stale \subseteq Nat /\ tick[t].stale # {}
  BY TickAt, Ids DEF Core, TickOK
<1>2. \E r \in tick[t].stale : \A q \in tick[t].stale : r <= q
  BY <1>1, LeastNat
<1> QED BY <1>2

LEMMA RequeueCore ==
  ASSUME Core, NEW t \in Ticks, Requeue(t)
  PROVE  Core'
<1> USE DEF Core
<1> DEFINE r == CHOOSE r \in tick[t].stale : \A q \in tick[t].stale : r <= q
           rest == tick[t].stale \ {r}
           x == IF rest = {} THEN NoTick ELSE [tick[t] EXCEPT !.stale = rest]
<1>1. /\ tick[t].pc = "requeue" /\ Enqueue(r) /\ tick' = [tick EXCEPT ![t] = x]
      /\ UNCHANGED <<now, cron, homes, made, editor>> /\ UNCHANGED jobs
  BY DEF Requeue
<1>2. r \in tick[t].stale
  BY <1>1, RequeuedIsStale
<1> HIDE DEF r
<1>3. r \in Runs /\ Fired(r) /\ rest \subseteq tick[t].stale /\ rest \subseteq Runs
  BY <1>2, TickAt DEF OfCrons
<1> HIDE DEF rest
<1>4. /\ x \in TickSet /\ x.due \subseteq tick[t].due /\ x.run \in {0, tick[t].run}
      /\ x.pc \in {"idle", "requeue"} /\ x.stale \subseteq tick[t].stale
      /\ (x.pc = "requeue" => x.stale # {})
  BY <1>1, <1>3, NoTickValue, TickAt DEF TickSet, TickSteps
<1> HIDE DEF x
<1>5. /\ tick' \in [Ticks -> TickSet] /\ tick'[t] = x /\ \A u \in Ticks \ {t} : tick'[u] = tick[u]
  BY <1>1, <1>4, TickAt
<1> QED BY <1>1, <1>3, <1>4, <1>5, EnqueueCore

LEMMA TickFailsCore ==
  ASSUME Core, NEW t \in Ticks, TickFails(t)
  PROVE  Core'
<1> USE DEF Core
<1>1. /\ tick' = [tick EXCEPT ![t] = NoTick] /\ Trouble
      /\ UNCHANGED <<cron, row, lease, worker, started, now, homes, editor, made>>
      /\ UNCHANGED queue
  BY DEF TickFails
<1>2. /\ tick' \in [Ticks -> TickSet] /\ tick'[t] = NoTick
      /\ \A u \in Ticks \ {t} : tick'[u] = tick[u]
  BY <1>1, NoTickValue, TickAt
<1>3. trouble' \in 0..MaxTrouble
  BY <1>1, TroubleType
<1> QED BY <1>1, <1>2, <1>3, NoTickValue, TickAt, TickMovesCore

LEMMA FireFailsCore ==
  ASSUME Core, NEW t \in Ticks, FireFails(t)
  PROVE  Core'
<1> USE DEF Core
<1>1. /\ Trouble /\ UNCHANGED <<now, homes, made, editor, lease, worker, started>>
      /\ UNCHANGED queue /\ tick[t].pc \in {"fire", "claim", "discard", "enqueue"}
      /\ tick[t].due # {} /\ trouble' \in 0..MaxTrouble
  BY TroubleType DEF FireFails, TickOK
<1>2. /\ tick' \in [Ticks -> TickSet] /\ \A u \in Ticks \ {t} : tick'[u] = tick[u]
      /\ tick'[t].due \subseteq tick[t].due /\ tick'[t].run \in {0, tick[t].run}
      /\ tick'[t].stale = tick[t].stale /\ tick'[t].pc \in {"sweep", "fire", "advance"}
      /\ (tick'[t].pc \in {"fire", "advance"} => tick'[t].due # {})
  <2>1. CASE tick' = Onward(t, tick[t].just)
    BY <2>1, OnwardValues, TickAt
  <2>2. CASE tick' = Goto(t, "advance")
    <3>1. "advance" \in TickSteps
      BY DEF TickSteps
    <3> QED BY <1>1, <2>2, <3>1, GotoValues
  <2> QED BY <2>1, <2>2 DEF FireFails
<1>3. CASE UNCHANGED <<cron, row>>
  BY <1>1, <1>2, <1>3, TickAt, TickMovesCore
<1>4. CASE tick[t].pc = "claim" /\ \E r \in Runs : Fire(t, r)
  <2>1. RowsMove /\ cron' \in [Crons -> CronSet] /\ Ahead' /\ \A k \in Crons : CronMove(k)
    BY <1>4, FireMoves
  <2>2. Tokens'
    <3>1. \A u \in Ticks : tick'[u].due \subseteq tick[u].due
      BY <1>2
    <3> QED BY <2>1, <3>1, TokensKept
  <2>3. QueueTypeOK' /\ Once' /\ (\A q \in Runs : Queued(q)' <=> Queued(q))
        /\ UNCHANGED <<active, claimedThreads, deferred>>
    BY <1>1, QueueFrame DEF queue
  <2> QED BY <1>1, <1>2, <2>1, <2>2, <2>3, TickAt, TickStepCore
<1> QED BY <1>3, <1>4 DEF FireFails

-----------------------------------------------------------------------------
(* Inline runs and crashes.                                                   *)

LEMMA RequestMoves ==
  ASSUME Core, NEW q \in Requests, NEW r \in Runs, NEW th \in homes, Request(q, r, th)
  PROVE  /\ RowsMove /\ row[r].status = "absent" /\ row'[r].status = "pending"
         /\ \A s \in Runs \ {r} : row'[s] = row[s]
         /\ row'[r].cron = 0 /\ row'[r].thread = th /\ th \in Homes
         /\ worker' \in [Processes -> WorkerSet] /\ q \in Processes /\ worker[q].run = 0
         /\ worker'[q].run = r /\ worker'[q].pc = "claim"
         /\ \A p \in Processes \ {q} : worker'[p] = worker[p]
<1> USE DEF Core
<1>1. /\ worker[q].run = 0 /\ IsNext(r) /\ row' = Inserted(r, th, 0, 0)
      /\ worker' = [worker EXCEPT ![q] = [pc |-> "claim", run |-> r]] /\ q \in Processes
  BY DEF Request, Processes
<1>2. th \in Homes /\ th \in Threads /\ worker \in [Processes -> WorkerSet] /\ 0 \in Nat
  BY Types, JobTypes, Ids DEF CronTypes
<1>3. row[r].status = "absent"
  BY <1>1, NextIsAbsent
<1>4. /\ row' \in [Runs -> RowSet] /\ \A s \in Runs \ {r} : row'[s] = row[s]
      /\ row'[r].status = "pending" /\ row'[r].thread = th /\ row'[r].cron = 0
  BY <1>1, <1>2, InsertedValues
<1>5. RowsMove
  BY <1>2, <1>3, <1>4 DEF RowsMove, RowMove
<1> DEFINE w == [pc |-> "claim", run |-> r]
<1>6. w \in WorkerSet /\ w.pc = "claim" /\ w.run = r /\ worker' = [worker EXCEPT ![q] = w]
  BY <1>1 DEF WorkerSet, WorkerSteps
<1> HIDE DEF w
<1>7. /\ worker' \in [Processes -> WorkerSet] /\ worker'[q] = w
      /\ \A p \in Processes \ {q} : worker'[p] = worker[p]
  BY <1>1, <1>2, <1>6
<1> QED BY <1>1, <1>2, <1>3, <1>4, <1>5, <1>6, <1>7

LEMMA InlineRunCore ==
  ASSUME Core, InlineRun PROVE Core'
<1> USE DEF Core
<1>1. PICK q \in Requests, r \in Runs, th \in homes : Request(q, r, th)
  BY DEF InlineRun
<1>2. UNCHANGED <<lease, started>> /\ Trouble /\ UNCHANGED queue /\ UNCHANGED crons /\ UNCHANGED tick
  BY <1>1 DEF Request, InlineRun, crons
<1>3. /\ RowsMove /\ row[r].status = "absent" /\ row'[r].status = "pending" /\ row'[r].cron = 0
      /\ worker' \in [Processes -> WorkerSet] /\ q \in Processes /\ worker[q].run = 0
      /\ worker'[q].run = r /\ worker'[q].pc = "claim"
      /\ \A p \in Processes \ {q} : worker'[p] = worker[p]
  BY <1>1, RequestMoves
<1>4. JobsTypeOK'
  BY <1>2, <1>3, TroubleType, Types, JobTypes, JobTypes_next DEF RowsMove
<1>5. QueueTypeOK' /\ Once' /\ (\A s \in Runs : Queued(s)' <=> Queued(s))
      /\ UNCHANGED <<active, claimedThreads, deferred>>
  BY <1>2, QueueFrame DEF queue
<1>6. CronTypes' /\ TickOK' /\ EditorOK' /\ Tokens' /\ Ahead'
  BY <1>2, CronsFrame
<1>7. Rows' /\ OfCrons'
  BY <1>2, <1>3, <1>5, RowsKept, OfCronsKept
<1>8. Pulled'
  <2>1. ASSUME NEW s \in Slots, worker'[s].pc # "idle"
        PROVE  /\ worker[s].pc # "idle" /\ worker'[s].run = worker[s].run
               /\ worker[s].run \in active' /\ ThreadAt(s) \in claimedThreads' \ deferred'
    <3>1. s \in Processes \ {q}
      BY Ids DEF Processes
    <3> QED BY <1>3, <1>5, <2>1, <3>1 DEF Pulled
  <2> QED BY <1>3, <2>1, PulledKept
<1>9. Inline'
  <2>1. ASSUME NEW p \in Requests, p # q, worker[p].run # 0
        PROVE  /\ worker[p].run \in Runs /\ worker[p].run # r
               /\ row'[worker[p].run].status # "absent" /\ row'[worker[p].run].cron = 0
    <3>1. /\ worker[p].run \in Runs /\ row[worker[p].run].status # "absent"
          /\ ~Fired(worker[p].run)
      BY <2>1, Types, JobTypes DEF Inline, WorkerSet, Processes
    <3>2. row'[worker[p].run].status # "absent" /\ row'[worker[p].run].cron = row[worker[p].run].cron
      BY <1>3, <3>1 DEF RowsMove, RowMove
    <3> QED BY <1>3, <3>1, <3>2 DEF Fired
  <2>2. ASSUME NEW p \in Requests, p # q PROVE worker'[p] = worker[p]
    BY <1>3, <2>2 DEF Processes
  <2>3. ASSUME NEW p \in Requests
        PROVE  /\ worker'[p].pc \in {"idle", "claim", "reread", "start", "graph", "settled", "handled"}
               /\ worker'[p].pc \notin {"idle", "handled"} => worker'[p].run # 0
               /\ worker'[p].run # 0 =>
                    row'[worker'[p].run].status # "absent" /\ row'[worker'[p].run].cron = 0
    <3>1. CASE p = q
      BY <1>3, <3>1, Ids
    <3>2. CASE p # q
      BY <2>1, <2>2, <3>2 DEF Inline
    <3> QED BY <3>1, <3>2
  <2>4. ASSUME NEW o \in Requests, NEW p \in Requests, worker'[o].run # 0,
               worker'[o].run = worker'[p].run
        PROVE  o = p
    <3>1. CASE o # q /\ p # q
      BY <2>2, <2>4, <3>1 DEF Inline
    <3>2. \A x \in Requests \ {q} : worker'[x].run # r
      BY <1>3, <2>1, <2>2, Ids
    <3> QED BY <1>3, <2>4, <3>1, <3>2
  <2> QED BY <2>3, <2>4 DEF Inline, Fired
<1> QED BY <1>4, <1>5, <1>6, <1>7, <1>8, <1>9, Types_next

(* A process that died holds nothing.                                         *)
LEMMA DiedValues ==
  ASSUME Core
  PROVE  /\ Died(Processes) \in [Processes -> WorkerSet]
         /\ \A s \in Slots : Died(Processes)[s].pc = "idle" /\ Died(Processes)[s].run = 0
         /\ \A q \in Requests : /\ Died(Processes)[q].pc = "handled"
                                 /\ Died(Processes)[q].run = worker[q].run
<1> USE DEF Core
<1>1. worker \in [Processes -> WorkerSet] /\ Slots \cap Requests = {}
  BY Types, JobTypes, Ids
<1>2. Idle \in WorkerSet /\ Idle.pc = "idle" /\ Idle.run = 0
  BY DEF Idle, WorkerSet, WorkerSteps
<1>3. ASSUME NEW p \in Processes
      PROVE  LET w == [worker[p] EXCEPT !.pc = "handled"]
             IN  w \in WorkerSet /\ w.pc = "handled" /\ w.run = worker[p].run
  BY <1>1 DEF WorkerSet, WorkerSteps, Answers
<1>4. ASSUME NEW p \in Processes
      PROVE  Died(Processes)[p] = IF p \in Requests THEN [worker[p] EXCEPT !.pc = "handled"] ELSE Idle
  BY DEF Died
<1>5. \A p \in Processes : Died(Processes)[p] \in WorkerSet
  BY <1>2, <1>3, <1>4
<1>6. Died(Processes) \in [Processes -> WorkerSet]
  BY <1>5 DEF Died
<1>7. \A s \in Slots : Died(Processes)[s] = Idle
  BY <1>1, <1>4 DEF Processes
<1>8. \A q \in Requests : /\ Died(Processes)[q].pc = "handled"
                         /\ Died(Processes)[q].run = worker[q].run
  BY <1>3, <1>4 DEF Processes
<1> QED BY <1>2, <1>6, <1>7, <1>8

LEMMA CrashCore ==
  ASSUME Core, Crash PROVE Core'
<1> USE DEF Core
<1>1. /\ Trouble /\ worker' = Died(Processes) /\ lease' = Abandoned(Processes)
      /\ items' = <<>> /\ active' = {} /\ claimedThreads' = {} /\ deferred' = {}
      /\ tick' = [t \in Ticks |-> NoTick] /\ editor' = [e \in Editors |-> NoPatch]
      /\ UNCHANGED <<row, started, now, cron, homes, made>>
  BY DEF Crash, QueueLost
<1>2. JobsTypeOK'
  <2>1. lease' \in [Threads -> Processes \cup {"free"}]
    BY <1>1, Types, JobTypes DEF Abandoned
  <2> QED BY <1>1, <2>1, DiedValues, TroubleType, Types, JobTypes, JobTypes_next
<1>3. RowsMove
  BY <1>1, Types, JobTypes DEF RowsMove, RowMove
<1>4. ToSet(items') = {} /\ items' \in Seq(Runs) /\ IsInjective(items')
  BY <1>1 DEF ToSet, IsInjective
<1>5. QueueTypeOK' /\ Once' /\ \A r \in Runs : ~Queued(r)'
  BY <1>1, <1>4 DEF QueueTypeOK, Once, Queued
<1>6. tick' \in [Ticks -> TickSet] /\ \A t \in Ticks : tick'[t] = NoTick
  BY <1>1, NoTickValue
<1>7. TickOK' /\ Tokens' /\ Ahead' /\ \A t \in Ticks : tick'[t].pc \in TickSteps
  BY <1>1, <1>6, NoTickValue DEF TickOK, Tokens, Ahead, TickSteps
<1>8. editor' \in [Editors -> PatchSet] /\ EditorOK'
  <2>1. NoPatch \in PatchSet /\ NoPatch.kind = "none"
    BY Ids DEF NoPatch, PatchSet, Never
  <2> QED BY <1>1, <2>1 DEF EditorOK
<1>9. CronTypes'
  BY <1>1, <1>7, <1>8, Types DEF CronTypes
<1>10. Rows' /\ OfCrons'
  <2>1. TicksMove
    BY <1>6, NoTickValue DEF TicksMove
  <2> QED BY <1>3, <1>5, <2>1, RowsKept, OfCronsKept
<1>11. Pulled'
  BY <1>1, DiedValues DEF Pulled
<1>12. Inline'
  BY <1>1, <1>3, DiedValues, InlineKept DEF InlineSteps
<1> QED BY <1>2, <1>5, <1>7, <1>8, <1>9, <1>10, <1>11, <1>12, Types_next

LEMMA CoreStutters ==
  ASSUME Core, UNCHANGED vars PROVE Core'
<1> USE DEF Core, vars
<1>1. JobsTypeOK' /\ RowsMove
  BY JobsFrame
<1>2. UNCHANGED <<lease, worker, started, trouble, tick>>
  BY DEF jobs, crons
<1>3. CronTypes' /\ TickOK' /\ EditorOK' /\ Tokens' /\ Ahead'
  BY CronsFrame
<1> QED BY <1>1, <1>2, <1>3, QuietCore, Types, JobTypes

LEMMA CoreStep ==
  ASSUME Core, Made, [Next]_vars PROVE Core'
<1>1. CASE \E p \in Processes : Work(p)
  BY <1>1, WorkCore DEF Work
<1>2. CASE \E s \in Slots : Consume(s) \/ (Throw(s) /\ UNCHANGED <<queue, crons>>)
  <2>1. PICK s \in Slots : Consume(s) \/ (Throw(s) /\ UNCHANGED <<queue, crons>>)
    BY <1>2
  <2>2. s \in Processes
    BY DEF Processes
  <2> QED BY <2>1, <2>2, WorkCore, PullCore, AnswerCore DEF Consume
<1>3. CASE \E t \in Ticks : TickStep(t) \/ FireFails(t) \/ TickFails(t)
  BY <1>3, ScanCore, PrepareCore, ClaimCore, DiscardCore, EnqueueFiredCore, AdvanceCore, SweepCore,
     RequeueCore, FireFailsCore, TickFailsCore DEF TickStep
<1> QED
  BY <1>1, <1>2, <1>3, RestedCore, ClockCore, EditCore, InlineRunCore, CrashCore, CoreStutters DEF Next

-----------------------------------------------------------------------------
(* No run is started twice: whoever executes a run has it alone, and nobody    *)
(* hands on one that a crash left running.                                   *)

LEMMA SoleExecution ==
  ASSUME Core, NEW p \in Processes, NEW q \in Processes, worker[p].run = worker[q].run,
         worker[p].pc \notin {"idle", "handled"}, worker[q].pc \notin {"idle", "handled"}
  PROVE  p = q
<1> USE DEF Core
<1>1. ASSUME NEW s \in Slots, NEW o \in Requests, worker[s].run = worker[o].run,
             worker[s].pc \notin {"idle", "handled"}, worker[o].pc \notin {"idle", "handled"}
      PROVE  FALSE
  <2>1. worker[s].run \in active /\ active \subseteq Runs
    BY <1>1, Types DEF Pulled, QueueTypeOK
  <2>2. Fired(worker[s].run)
    BY <2>1 DEF OfCrons, Queued
  <2>3. ~Fired(worker[o].run)
    BY <1>1 DEF Inline
  <2> QED BY <1>1, <2>2, <2>3
<1>2. CASE p \in Slots /\ q \in Slots
  BY <1>2 DEF Pulled, ThreadAt
<1>3. CASE p \in Requests /\ q \in Requests
  BY <1>3 DEF Inline
<1> QED BY <1>1, <1>2, <1>3 DEF Processes

(* A row goes on, is finished, or is inserted.                                *)
StatusMoves == \A r \in Runs :
  \/ row'[r].status = row[r].status \/ row'[r].status \in {"done", "deleted"}
  \/ row[r].status = "absent" /\ row'[r].status = "pending"
LooksAfter(r) == Executed(r) \/ Orphaned(r)

LEMMA StaysStarted ==
  ASSUME Started, UNCHANGED started, StatusMoves,
         \A r \in Runs : Starting(r)' => Starting(r),
         \A r \in Runs : row[r].status = "running" /\ row'[r].status = "running" /\ LooksAfter(r)
                          => LooksAfter(r)'
  PROVE  Started'
BY DEF Started, StatusMoves, LooksAfter

LEMMA WorkStarted ==
  ASSUME Core, Started, NEW p \in Processes, Execute(p) \/ (p \in Slots /\ Throw(p)),
         UNCHANGED <<queue, crons>>
  PROVE  Started'
<1> USE DEF Core
<1>1. PICK pc \in WorkerSteps : StepsTo(p, pc)
  BY ExecuteMoves
<1>2. /\ \A q \in Processes : worker'[q].run = worker[q].run
      /\ \A q \in Processes \ {p} : worker'[q] = worker[q]
      /\ worker'[p].pc = pc
  <2>1. worker' = Stepped(p, pc)
    BY <1>1 DEF StepsTo
  <2> QED BY <2>1, SteppedValues
<1>3. UNCHANGED <<items, tick>>
  BY DEF queue, crons
<1>4. ASSUME NEW r \in Runs, Orphaned(r) PROVE Orphaned(r)' /\ worker[p].run # r
  <2>1. worker[p].run # r
    BY <1>1, <1>4 DEF Orphaned, StepsTo
  <2> QED BY <1>2, <1>3, <1>4, <2>1 DEF Orphaned
<1>5. ASSUME NEW r \in Runs, worker[p].pc # "graph" \/ worker[p].run # r, Executed(r)
      PROVE  Executed(r)'
  BY <1>2, <1>5 DEF Executed
<1>6. row \in [Runs -> RowSet] /\ started \in [Runs -> Nat]
  BY Types, JobTypes
<1>7. ASSUME NEW r \in Runs, Starting(r)', pc # "start" \/ worker[p].run # r
      PROVE  Starting(r)
  BY <1>2, <1>7 DEF Starting
<1>8. CASE UNCHANGED <<row, started>> /\ worker[p].pc # "graph" /\ pc # "start"
  <2>1. StatusMoves
    BY <1>8 DEF StatusMoves
  <2> QED BY <1>4, <1>5, <1>7, <1>8, <2>1, StaysStarted DEF LooksAfter
<1>9. ASSUME NEW r \in Runs, worker[p].pc \in {"reread", "start"}, worker[p].run = r
      PROVE  row[r].status # "running"
  <2>1. ~Orphaned(r)
    BY <1>9 DEF Orphaned
  <2>2. ~Executed(r)
    <3>1. SUFFICES ASSUME NEW q \in Processes, worker[q].pc = "graph", worker[q].run = r
                   PROVE  FALSE
      BY DEF Executed
    <3>2. q = p
      BY <1>9, <3>1, SoleExecution
    <3> QED BY <1>9, <3>1, <3>2
  <2> QED BY <2>1, <2>2 DEF Started
<1>10. CASE Reread(p)
  <2>1. PICK r \in Runs : r = worker[p].run /\ worker[p].pc = "reread"
    BY <1>10, AtWork DEF Reread
  <2>2. CASE Over(r)
    <3>1. "handled" \in WorkerSteps
      BY DEF WorkerSteps, Answers
    <3>2. UNCHANGED <<row, started>> /\ pc = "handled"
      BY <1>2, <1>10, <2>1, <2>2, <3>1, SteppedValues DEF Reread
    <3> QED BY <1>8, <2>1, <3>2
  <2>3. CASE ~Over(r)
    <3>1. "start" \in WorkerSteps
      BY DEF WorkerSteps
    <3>2. UNCHANGED <<row, started>> /\ pc = "start"
      BY <1>2, <1>10, <2>1, <2>3, <3>1, SteppedValues DEF Reread
    <3>3. row[r].status = "pending"
      <4>1. row[r].status \in RowStatus
        BY <1>6 DEF RowSet
      <4> QED BY <1>9, <2>1, <2>3, <4>1 DEF Over, Finished, RowStatus
    <3>4. started[r] = 0
      BY <3>3 DEF Started
    <3>5. ASSUME NEW s \in Runs
          PROVE  /\ started'[s] <= 1
                 /\ row'[s].status \in {"absent", "pending"} \/ Starting(s)' => started'[s] = 0
                 /\ row'[s].status = "running" => Executed(s)' \/ Orphaned(s)'
      <4>1. Starting(s)' => Starting(s) \/ s = r
        BY <1>7, <2>1
      <4>2. started[s] <= 1 /\ (row[s].status \in {"absent", "pending"} \/ Starting(s) => started[s] = 0)
        BY DEF Started
      <4>3. row[s].status = "running" => Executed(s) \/ Orphaned(s)
        BY DEF Started
      <4> QED BY <1>4, <1>5, <2>1, <3>2, <3>4, <4>1, <4>2, <4>3
    <3> QED BY <3>5 DEF Started
  <2> QED BY <2>2, <2>3
<1>11. CASE UNCHANGED started /\ row' = Settled(worker[p].run) /\ worker[p].pc \in {"start", "graph"}
            /\ pc = "settled"
  <2>1. PICK r \in Runs : r = worker[p].run
    BY <1>11, AtWork
  <2>2. row'[r].status \in {"done", "deleted"} /\ \A s \in Runs \ {r} : row'[s] = row[s]
    BY <1>6, <1>11, <2>1, SettledRow
  <2>3. StatusMoves
    BY <2>2 DEF StatusMoves
  <2>4. ASSUME NEW s \in Runs, row'[s].status = "running", LooksAfter(s) PROVE LooksAfter(s)'
    BY <1>4, <1>5, <2>1, <2>2, <2>4 DEF LooksAfter
  <2>5. \A s \in Runs : Starting(s)' => Starting(s)
    BY <1>7, <1>11
  <2> QED BY <1>11, <2>3, <2>4, <2>5, StaysStarted
<1>12. CASE Settle(p)
  <2>1. "settled" \in WorkerSteps
    BY DEF WorkerSteps
  <2> QED BY <1>2, <1>11, <1>12, <2>1, SteppedValues DEF Settle
<1>13. CASE MarkRunning(p)
  <2>1. PICK r \in Runs : r = worker[p].run /\ worker[p].pc = "start"
    BY <1>13, AtWork DEF MarkRunning
  <2>2. CASE row' = Settled(r) /\ worker' = Stepped(p, "settled") /\ UNCHANGED started
    <3>1. "settled" \in WorkerSteps
      BY DEF WorkerSteps
    <3> QED BY <1>2, <1>11, <2>1, <2>2, <3>1, SteppedValues
  <2>3. CASE /\ row' = [row EXCEPT ![r].status = "running", ![r].created = 0]
             /\ started' = [started EXCEPT ![r] = @ + 1] /\ worker' = Stepped(p, "graph")
    <3>1. row'[r].status = "running" /\ \A s \in Runs \ {r} : row'[s] = row[s]
      BY <1>6, <2>3, RunningRow
    <3>2. pc = "graph" /\ worker'[p].run = r
      <4>1. "graph" \in WorkerSteps
        BY DEF WorkerSteps
      <4> QED BY <1>2, <2>1, <2>3, <4>1, SteppedValues
    <3>3. started[r] = 0
      BY <2>1 DEF Started, Starting
    <3>4. started'[r] = 1 /\ \A s \in Runs \ {r} : started'[s] = started[s]
      BY <1>6, <2>3, <3>3
    <3>5. Executed(r)' /\ ~Starting(r)'
      <4>1. SUFFICES ASSUME NEW q \in Processes, worker'[q].pc = "start", worker'[q].run = r
                     PROVE  FALSE
        BY <1>2, <3>2 DEF Executed, Starting
      <4>2. q # p /\ worker[q].pc = "start" /\ worker[q].run = r
        BY <1>2, <3>2, <4>1
      <4> QED BY <2>1, <4>2, SoleExecution
    <3>6. ASSUME NEW s \in Runs
          PROVE  /\ started'[s] <= 1
                 /\ row'[s].status \in {"absent", "pending"} \/ Starting(s)' => started'[s] = 0
                 /\ row'[s].status = "running" => Executed(s)' \/ Orphaned(s)'
      <4>1. CASE s = r
        BY <3>1, <3>4, <3>5, <4>1
      <4>2. CASE s # r
        <5>1. /\ started[s] <= 1 /\ (row[s].status \in {"absent", "pending"} \/ Starting(s) => started[s] = 0)
              /\ row[s].status = "running" => Executed(s) \/ Orphaned(s)
          BY DEF Started
        <5>2. Starting(s)' => Starting(s)
          BY <1>7, <2>1, <4>2
        <5> QED BY <1>4, <1>5, <2>1, <3>1, <3>4, <4>2, <5>1, <5>2
      <4> QED BY <4>1, <4>2
    <3> QED BY <3>6 DEF Started
  <2> QED BY <1>13, <2>1, <2>2, <2>3 DEF MarkRunning
<1>14. CASE Read(p) \/ Claim(p) \/ Release(p) \/ (p \in Slots /\ Throw(p))
  <2>1. UNCHANGED <<row, started>> /\ worker[p].pc # "graph"
    BY <1>14 DEF Read, Claim, Release, Throw
  <2>2. \E q \in WorkerSteps \ {"start"} : worker' = Stepped(p, q)
    BY <1>14 DEF Read, Claim, Release, Throw, WorkerSteps, Answers
  <2>3. pc # "start"
    BY <1>2, <2>2, SteppedValues
  <2> QED BY <1>8, <2>1, <2>3
<1> QED BY <1>10, <1>12, <1>13, <1>14 DEF Execute

LEMMA PullStarted ==
  ASSUME Core, Started, NEW s \in Slots, Pull(s), UNCHANGED crons
  PROVE  Started'
<1> USE DEF Core
<1>1. PICK i \in DOMAIN items :
        /\ items' = RemoveAt(items, i)
        /\ worker' = [worker EXCEPT ![s] = [pc |-> "read", run |-> items[i]]]
  BY DEF Pull
<1>2. items \in Seq(Runs) /\ worker \in [Processes -> WorkerSet] /\ s \in Processes
  BY Types, JobTypes DEF QueueTypeOK, Processes
<1>3. items[i] \in ToSet(items) /\ ToSet(items') \subseteq ToSet(items)
  <2>1. DOMAIN items = 1..Len(items)
    BY <1>2, Elements
  <2>2. ToSet(items') \subseteq ToSet(items)
    BY <1>1, <1>2, <2>1, Removed
  <2> QED BY <2>2 DEF ToSet
<1>4. UNCHANGED <<row, started, tick>> /\ worker[s].pc = "idle"
  BY DEF Pull, crons
<1>5. /\ \A q \in Processes \ {s} : worker'[q] = worker[q]
      /\ worker'[s].run = items[i] /\ worker'[s].pc = "read"
  BY <1>1, <1>2
<1>6. ASSUME NEW r \in Runs, LooksAfter(r) PROVE LooksAfter(r)'
  <2>1. CASE Executed(r)
    BY <1>4, <1>5, <2>1 DEF Executed, LooksAfter
  <2>2. CASE Orphaned(r)
    BY <1>3, <1>4, <1>5, <2>2 DEF Orphaned, LooksAfter
  <2> QED BY <1>6, <2>1, <2>2 DEF LooksAfter
<1>7. StatusMoves
  BY <1>4 DEF StatusMoves
<1>8. \A r \in Runs : Starting(r)' => Starting(r)
  BY <1>5 DEF Starting
<1> QED BY <1>4, <1>6, <1>7, <1>8, StaysStarted

LEMMA AnswerStarted ==
  ASSUME Core, Started, NEW s \in Slots, Answer(s), UNCHANGED crons
  PROVE  Started'
<1> USE DEF Core
<1> DEFINE r == worker[s].run
<1>1. /\ s \in Processes /\ worker[s].pc \in Answers /\ worker' = [worker EXCEPT ![s] = Idle]
      /\ items' = IF worker[s].pc = "busy" THEN <<r>> \o items ELSE items
      /\ UNCHANGED <<row, started, tick>>
  BY DEF Answer, crons, Processes
<1>2. items \in Seq(Runs) /\ worker \in [Processes -> WorkerSet] /\ r \in Runs
  BY <1>1, AtWork, Types, JobTypes DEF QueueTypeOK, Answers
<1>3. /\ \A q \in Processes \ {s} : worker'[q] = worker[q]
      /\ worker'[s].run = 0 /\ worker'[s].pc = "idle"
  BY <1>1, <1>2 DEF Idle
<1>4. ASSUME NEW x \in Runs, LooksAfter(x) PROVE LooksAfter(x)'
  <2>1. CASE Executed(x)
    BY <1>1, <1>3, <2>1 DEF Executed, LooksAfter, Answers
  <2>2. CASE Orphaned(x)
    <3>1. x \notin ToSet(items')
      <4>1. CASE worker[s].pc = "busy"
        <5>1. x # r
          BY <1>1, <2>2, <4>1 DEF Orphaned
        <5>2. ToSet(items') = ToSet(items) \cup {r}
          BY <1>1, <1>2, <4>1, Prepended
        <5> QED BY <2>2, <5>1, <5>2 DEF Orphaned
      <4>2. CASE worker[s].pc # "busy"
        BY <1>1, <2>2, <4>2 DEF Orphaned
      <4> QED BY <4>1, <4>2
    <3> QED BY <1>1, <1>3, <2>2, <3>1, Ids DEF Orphaned, LooksAfter
  <2> QED BY <1>4, <2>1, <2>2 DEF LooksAfter
<1>5. StatusMoves
  BY <1>1 DEF StatusMoves
<1>6. \A x \in Runs : Starting(x)' => Starting(x)
  BY <1>3 DEF Starting
<1> QED BY <1>1, <1>4, <1>5, <1>6, StaysStarted

(* A tick never hands on a run that a crash left running.                      *)
LEMMA TickStarted ==
  ASSUME Started, UNCHANGED <<worker, started>>, StatusMoves,
         \A r \in Runs : row[r].status = "running" /\ Orphaned(r) =>
           r \notin ToSet(items') /\ \A t \in Ticks : r # tick'[t].run /\ r \notin tick'[t].stale
  PROVE  Started'
<1>1. ASSUME NEW r \in Runs, row[r].status = "running", LooksAfter(r) PROVE LooksAfter(r)'
  BY <1>1 DEF LooksAfter, Executed, Orphaned
<1>2. \A r \in Runs : Starting(r)' => Starting(r)
  BY DEF Starting
<1> QED BY <1>1, <1>2, StaysStarted

LEMMA OneTickStarted ==
  ASSUME Core, Started, UNCHANGED <<worker, started>>, StatusMoves, NEW t \in Ticks,
         \A u \in Ticks \ {t} : tick'[u] = tick[u],
         \A r \in ToSet(items') : r \in ToSet(items) \/ r = tick[t].run \/ r \in tick[t].stale,
         tick'[t].run \in {0, tick[t].run} \/ row[tick'[t].run].status # "running",
         \A r \in tick'[t].stale : r \in tick[t].stale \/ row[r].status # "running"
  PROVE  Started'
<1>1. ASSUME NEW r \in Runs, row[r].status = "running", Orphaned(r)
      PROVE  r \notin ToSet(items') /\ \A u \in Ticks : r # tick'[u].run /\ r \notin tick'[u].stale
  <2>1. /\ r \notin ToSet(items) /\ r # 0
        /\ \A u \in Ticks : r # tick[u].run /\ r \notin tick[u].stale
    BY <1>1, Ids DEF Orphaned
  <2>2. ASSUME NEW u \in Ticks PROVE r # tick'[u].run /\ r \notin tick'[u].stale
    <3>1. CASE u = t
      BY <1>1, <2>1, <3>1
    <3>2. CASE u # t
      BY <2>1, <3>2
    <3> QED BY <3>1, <3>2
  <2> QED BY <2>1, <2>2
<1> QED BY <1>1, TickStarted

LEMMA TickStepStarted ==
  ASSUME Core, Started, NEW t \in Ticks, TickStep(t) \/ FireFails(t) \/ TickFails(t)
  PROVE  Started'
<1> USE DEF Core
<1>1. tick \in [Ticks -> TickSet] /\ tick[t] \in TickSet
  BY TickAt
<1>2. UNCHANGED row => StatusMoves
  BY DEF StatusMoves
<1>3. CASE Scan(t)
  <2> DEFINE x == [NoTick EXCEPT !.pc = IF Batch = {} THEN "sweep" ELSE "fire", !.at = now,
                     !.due = {[cron |-> k, seq |-> cron[k].seq, occ |-> cron[k].next] : k \in Batch}]
  <2>1. tick' = [tick EXCEPT ![t] = x] /\ UNCHANGED <<row, worker, started, items>>
    BY <1>3 DEF Scan, jobs, queue
  <2>2. x.run = 0 /\ x.stale = {}
    BY DEF NoTick
  <2> HIDE DEF x
  <2>3. tick'[t] = x /\ \A u \in Ticks \ {t} : tick'[u] = tick[u]
    BY <1>1, <2>1
  <2> QED BY <1>2, <2>1, <2>2, <2>3, OneTickStarted
<1>4. CASE PrepareThread(t)
  <2>1. PICK pc \in TickSteps : tick' = Goto(t, pc)
    BY <1>4 DEF PrepareThread, TickSteps
  <2>2. UNCHANGED <<row, worker, started, items>>
    BY <1>4 DEF PrepareThread, jobs, queue
  <2> QED BY <1>2, <2>1, <2>2, GotoValues, OneTickStarted
<1>5. CASE ClaimOccurrence(t)
  <2>1. UNCHANGED <<worker, started, items>> /\ tick[t].pc = "claim"
    BY <1>5 DEF ClaimOccurrence, queue
  <2>2. CASE \E r \in Runs : Fire(t, r) /\ tick' = [tick EXCEPT ![t].pc = "enqueue", ![t].run = r]
    <3>1. PICK r \in Runs : Fire(t, r) /\ tick' = [tick EXCEPT ![t].pc = "enqueue", ![t].run = r]
      BY <2>2
    <3> DEFINE x == [tick[t] EXCEPT !.pc = "enqueue", !.run = r]
    <3>2. tick' = [tick EXCEPT ![t] = x]
      BY <1>1, <3>1
    <3>3. x.run = r /\ x.stale = tick[t].stale
      BY <1>1 DEF TickSet
    <3> HIDE DEF x
    <3>4. tick'[t] = x /\ \A u \in Ticks \ {t} : tick'[u] = tick[u]
      BY <1>1, <3>2
    <3>5. StatusMoves /\ row[r].status # "running"
      BY <2>1, <3>1, FireMoves DEF StatusMoves
    <3> QED BY <2>1, <3>3, <3>4, <3>5, OneTickStarted
  <2>3. CASE /\ tick' = IF cron[Current(t).cron].thread = 0 THEN Goto(t, "discard")
                        ELSE Onward(t, tick[t].just)
             /\ UNCHANGED <<cron, row>>
    <3>1. CASE tick' = Goto(t, "discard")
      <4>1. "discard" \in TickSteps
        BY DEF TickSteps
      <4> QED BY <1>2, <2>1, <2>3, <3>1, <4>1, GotoValues, OneTickStarted
    <3>2. CASE tick' = Onward(t, tick[t].just)
      BY <1>2, <2>1, <2>3, <3>2, TickAt, OnwardValues, OneTickStarted
    <3> QED BY <2>3, <3>1, <3>2
  <2> QED BY <1>5, <2>2, <2>3 DEF ClaimOccurrence
<1>6. CASE DiscardThread(t) \/ AdvanceFailed(t)
  <2>1. UNCHANGED <<row, worker, started, items>> /\ tick' = Onward(t, tick[t].just)
    BY <1>6 DEF DiscardThread, AdvanceFailed, jobs, queue
  <2> QED BY <1>2, <2>1, TickAt, OnwardValues, OneTickStarted
<1>7. CASE EnqueueFired(t)
  <2>1. /\ tick[t].pc = "enqueue" /\ Enqueue(tick[t].run) /\ UNCHANGED <<row, worker, started>>
        /\ tick' = Onward(t, tick[t].just \cup {tick[t].run})
    BY <1>7 DEF EnqueueFired, jobs
  <2>2. tick[t].run \in Runs
    BY <2>1, TickAt DEF TickOK
  <2>3. tick[t].just \cup {tick[t].run} \in SUBSET Runs
    BY <2>2, TickAt
  <2>4. \A r \in ToSet(items') : r \in ToSet(items) \/ r = tick[t].run
    BY <2>1, <2>2, EnqueueMoves
  <2> QED BY <1>2, <2>1, <2>3, <2>4, OnwardValues, OneTickStarted
<1>8. CASE Sweep(t)
  <2> DEFINE stale == Stale(tick[t].at, tick[t].just)
             x == IF stale = {} THEN NoTick ELSE [NoTick EXCEPT !.pc = "requeue", !.stale = stale]
  <2>1. tick' = [tick EXCEPT ![t] = x] /\ UNCHANGED <<row, worker, started, items>>
    BY <1>8 DEF Sweep, jobs, queue
  <2>2. \A r \in stale : row[r].status # "running"
    BY DEF Stale, Pending
  <2> HIDE DEF stale
  <2>3. x.run = 0 /\ x.stale \subseteq stale
    BY DEF NoTick
  <2> HIDE DEF x
  <2>4. tick'[t] = x /\ \A u \in Ticks \ {t} : tick'[u] = tick[u]
    BY <1>1, <2>1
  <2> QED BY <1>2, <2>1, <2>2, <2>3, <2>4, OneTickStarted
<1>9. CASE Requeue(t)
  <2> DEFINE r == CHOOSE r \in tick[t].stale : \A q \in tick[t].stale : r <= q
             rest == tick[t].stale \ {r}
             x == IF rest = {} THEN NoTick ELSE [tick[t] EXCEPT !.stale = rest]
  <2>1. /\ tick[t].pc = "requeue" /\ Enqueue(r) /\ tick' = [tick EXCEPT ![t] = x]
        /\ UNCHANGED <<row, worker, started>>
    BY <1>9 DEF Requeue, jobs
  <2>2. r \in tick[t].stale
    BY <2>1, RequeuedIsStale
  <2>3. \A q \in ToSet(items') : q \in ToSet(items) \/ q = r
    <3> HIDE DEF r
    <3>1. r \in Runs
      BY <2>2, TickAt
    <3> QED BY <2>1, <3>1, EnqueueMoves
  <2> HIDE DEF r
  <2>4. rest \subseteq tick[t].stale
    OBVIOUS
  <2> HIDE DEF rest
  <2>5. x.run \in {0, tick[t].run} /\ x.stale \subseteq tick[t].stale
    BY <1>1, <2>4, NoTickValue DEF TickSet
  <2> HIDE DEF x
  <2>6. tick'[t] = x /\ \A u \in Ticks \ {t} : tick'[u] = tick[u]
    BY <1>1, <2>1
  <2> QED BY <1>2, <2>1, <2>2, <2>3, <2>5, <2>6, OneTickStarted
<1>10. CASE FireFails(t)
  <2>1. UNCHANGED <<worker, started, items>>
    BY <1>10 DEF FireFails, queue
  <2>2. StatusMoves
    BY <1>2, <1>10, FireMoves DEF FireFails, StatusMoves
  <2>3. tick'[t].run \in {0, tick[t].run} /\ tick'[t].stale = tick[t].stale
        /\ \A u \in Ticks \ {t} : tick'[u] = tick[u]
    <3>1. CASE tick' = Onward(t, tick[t].just)
      BY <3>1, OnwardValues, TickAt
    <3>2. CASE tick' = Goto(t, "advance")
      <4>1. "advance" \in TickSteps
        BY DEF TickSteps
      <4> QED BY <3>2, <4>1, GotoValues
    <3> QED BY <1>10, <3>1, <3>2 DEF FireFails
  <2> QED BY <2>1, <2>2, <2>3, OneTickStarted
<1>11. CASE TickFails(t)
  <2>1. tick' = [tick EXCEPT ![t] = NoTick] /\ UNCHANGED <<row, worker, started, items>>
    BY <1>11 DEF TickFails, queue
  <2>2. tick'[t] = NoTick /\ \A u \in Ticks \ {t} : tick'[u] = tick[u]
    BY <1>1, <2>1
  <2> QED BY <1>2, <2>1, <2>2, NoTickValue, OneTickStarted
<1> QED BY <1>3, <1>4, <1>5, <1>6, <1>7, <1>8, <1>9, <1>10, <1>11 DEF TickStep

LEMMA InlineStarted ==
  ASSUME Core, Started, InlineRun PROVE Started'
<1> USE DEF Core
<1>1. PICK q \in Requests, r \in Runs, th \in homes : Request(q, r, th)
  BY DEF InlineRun
<1>2. UNCHANGED <<started, items, tick>>
  BY <1>1 DEF Request, InlineRun, crons, queue
<1>3. /\ row[r].status = "absent" /\ row'[r].status = "pending"
      /\ \A s \in Runs \ {r} : row'[s] = row[s]
      /\ worker[q].run = 0 /\ worker'[q].run = r /\ \A p \in Processes \ {q} : worker'[p] = worker[p]
  BY <1>1, RequestMoves
<1>4. StatusMoves
  BY <1>3 DEF StatusMoves
<1>5. ASSUME NEW x \in Runs, row[x].status = "running", LooksAfter(x) PROVE LooksAfter(x)'
  <2>1. x # r /\ x # 0
    BY <1>3, <1>5, Ids
  <2>2. CASE Executed(x)
    BY <1>3, <2>1, <2>2 DEF Executed, LooksAfter
  <2>3. CASE Orphaned(x)
    BY <1>2, <1>3, <2>1, <2>3 DEF Orphaned, LooksAfter
  <2> QED BY <1>5, <2>2, <2>3 DEF LooksAfter
<1>6. \A x \in Runs : Starting(x)' => Starting(x)
  BY <1>1, <1>3, RequestMoves DEF Starting
<1> QED BY <1>2, <1>4, <1>5, <1>6, StaysStarted

LEMMA CrashStarted ==
  ASSUME Core, Started, Crash PROVE Started'
<1>1. /\ worker' = Died(Processes) /\ items' = <<>> /\ UNCHANGED <<row, started>>
      /\ \A t \in Ticks : tick'[t] = NoTick
  BY DEF Crash, QueueLost
<1>2. ToSet(items') = {}
  BY <1>1 DEF ToSet
<1>3. ASSUME NEW r \in Runs PROVE Orphaned(r)'
  BY <1>1, <1>2, DiedValues, NoTickValue, Ids DEF Orphaned, Processes
<1>4. StatusMoves
  BY <1>1 DEF StatusMoves
<1>5. \A r \in Runs : ~Starting(r)'
  BY <1>1, DiedValues DEF Starting, Processes
<1> QED BY <1>1, <1>3, <1>4, <1>5, StaysStarted DEF LooksAfter

LEMMA EditStatus ==
  ASSUME Core, Edit PROVE StatusMoves
<1>1. CASE UNCHANGED row
  BY <1>1 DEF StatusMoves
<1>2. ASSUME NEW th \in Homes, DeleteThread(th) PROVE StatusMoves
  <2>1. ASSUME NEW r \in Runs PROVE row'[r].status \in {row[r].status, "deleted"}
    <3> DEFINE x == [row[r] EXCEPT !.status = "deleted"]
    <3>1. row[r] \in RowSet
      BY Types, JobTypes DEF Core
    <3>2. x.status = "deleted"
      BY <3>1 DEF RowSet
    <3>3. row'[r] \in {row[r], x}
      BY <1>2 DEF DeleteThread
    <3> HIDE DEF x
    <3> QED BY <3>2, <3>3
  <2> QED BY <2>1 DEF StatusMoves
<1> QED BY <1>1, <1>2 DEF Edit, WritePatch, BeginPatch, DeleteCron

LEMMA StartedStep ==
  ASSUME Core, Started, [Next]_vars PROVE Started'
<1>1. CASE \E p \in Processes : Work(p)
  BY <1>1, WorkStarted DEF Work
<1>2. CASE \E s \in Slots : Consume(s) \/ (Throw(s) /\ UNCHANGED <<queue, crons>>)
  <2>1. PICK s \in Slots : Consume(s) \/ (Throw(s) /\ UNCHANGED <<queue, crons>>)
    BY <1>2
  <2>2. s \in Processes
    BY DEF Processes
  <2> QED BY <2>1, <2>2, WorkStarted, PullStarted, AnswerStarted DEF Consume
<1>3. CASE \E t \in Ticks : TickStep(t) \/ FireFails(t) \/ TickFails(t)
  BY <1>3, TickStepStarted
<1>4. CASE UNCHANGED <<worker, started, items, tick>> /\ StatusMoves
  BY <1>4, TickStarted DEF Orphaned
<1>5. CASE Rested \/ Clock \/ UNCHANGED vars
  <2>1. UNCHANGED <<row, worker, started, items, tick>>
    BY <1>5 DEF Rested, ReleaseThread, Clock, vars, jobs, queue, crons
  <2> QED BY <1>4, <2>1 DEF StatusMoves
<1>6. CASE Edit
  <2>1. UNCHANGED <<worker, started, items, tick>>
    BY <1>6 DEF Edit, WritePatch, BeginPatch, DeleteCron, DeleteThread, queue
  <2> QED BY <1>4, <1>6, <2>1, EditStatus
<1> QED BY <1>1, <1>2, <1>3, <1>5, <1>6, InlineStarted, CrashStarted DEF Next

-----------------------------------------------------------------------------
(* Threads made for stateless fires are accounted for.                         *)

Soonest(D) == CHOOSE d \in D : \A e \in D : d.occ < e.occ \/ (d.occ = e.occ /\ d.cron <= e.cron)
LEMMA CurrentIsSoonest ==
  \A t : Current(t) = Soonest(tick[t].due) /\ Current(t)' = Soonest(tick'[t].due)
BY DEF Current, Soonest

(* No step gives a cron another thread.                                       *)
ThreadsStay == \A k \in Crons : cron'[k].thread = cron[k].thread

LEMMA EditStays ==
  ASSUME Core, Edit
  PROVE  ThreadsStay /\ \A r \in Runs : row'[r].thread = row[r].thread /\ row'[r].cron = row[r].cron
<1> USE DEF Core
<1>1. row \in [Runs -> RowSet] /\ cron \in [Crons -> CronSet]
  BY Types, JobTypes DEF CronTypes
<1>2. ASSUME NEW e \in Editors, WritePatch(e)
      PROVE  ThreadsStay /\ UNCHANGED row
  <2>1. editor[e].kind # "none" /\ UNCHANGED row /\ cron' \in {cron, Patched(e)}
    BY <1>2 DEF WritePatch
  <2>2. CASE cron' = Patched(e)
    <3> DEFINE c == editor[e].cron
    <3>1. cron'[c].thread = cron[c].thread /\ \A k \in Crons \ {c} : cron'[k] = cron[k]
      BY <2>1, <2>2, PatchedValues
    <3> HIDE DEF c
    <3> QED BY <2>1, <3>1 DEF ThreadsStay
  <2> QED BY <2>1, <2>2 DEF ThreadsStay
<1>3. ASSUME NEW k \in Crons, DeleteCron(k)
      PROVE  ThreadsStay /\ UNCHANGED row
  <2> DEFINE x == [cron[k] EXCEPT !.exists = FALSE]
  <2>1. cron' = [cron EXCEPT ![k] = x] /\ UNCHANGED row
    BY <1>3 DEF DeleteCron
  <2>2. x.thread = cron[k].thread
    BY <1>1 DEF CronSet
  <2> HIDE DEF x
  <2> QED BY <1>1, <2>1, <2>2 DEF ThreadsStay
<1>4. ASSUME NEW th \in Homes, DeleteThread(th)
      PROVE  ThreadsStay /\ \A r \in Runs : row'[r].thread = row[r].thread /\ row'[r].cron = row[r].cron
  <2>1. ASSUME NEW k \in Crons PROVE cron'[k].thread = cron[k].thread
    <3> DEFINE b == cron[k].exists /\ cron[k].thread # th
               x == [cron[k] EXCEPT !.exists = b]
    <3>1. cron'[k] = x /\ cron[k] \in CronSet
      BY <1>1, <1>4 DEF DeleteThread
    <3> HIDE DEF b
    <3> QED BY <3>1 DEF CronSet
  <2>2. ASSUME NEW r \in Runs PROVE row'[r].thread = row[r].thread /\ row'[r].cron = row[r].cron
    <3> DEFINE x == [row[r] EXCEPT !.status = "deleted"]
    <3>1. x.thread = row[r].thread /\ x.cron = row[r].cron
      BY <1>1 DEF RowSet
    <3>2. row'[r] \in {row[r], x}
      BY <1>4 DEF DeleteThread
    <3> HIDE DEF x
    <3> QED BY <3>1, <3>2
  <2> QED BY <2>1, <2>2 DEF ThreadsStay
<1> QED BY <1>2, <1>3, <1>4 DEF Edit, BeginPatch, ThreadsStay

LEMMA StatelessGrows ==
  ASSUME Rows, RowsMove PROVE Stateless \subseteq Stateless'
BY Ids DEF Rows, RowsMove, RowMove, Stateless

LEMMA StatelessCounts ==
  ASSUME Stateless \subseteq Stateless'
  PROVE  /\ IsFiniteSet(Stateless') /\ Cardinality(Stateless') \in Nat
         /\ Cardinality(Stateless) <= Cardinality(Stateless')
         /\ \A r \in Stateless' : r \notin Stateless => Cardinality(Stateless) + 1 <= Cardinality(Stateless')
<1>1. IsFiniteSet(Runs) /\ Stateless' \in SUBSET Runs
  BY JobsAssumption DEF Stateless
<1>2. IsFiniteSet(Stateless')
  BY <1>1, FS_Subset
<1>3. Stateless \in SUBSET Stateless'
  OBVIOUS
<1>4. /\ Cardinality(Stateless') \in Nat /\ Cardinality(Stateless) \in Nat
      /\ Cardinality(Stateless) <= Cardinality(Stateless')
      /\ Cardinality(Stateless') = Cardinality(Stateless) => Stateless' = Stateless
  BY <1>2, <1>3, FS_Subset, FS_CardinalityType, HeldCounts
<1> QED BY <1>2, <1>4

(* A tick that is left alone, under crons that keep their threads.            *)
LEMMA HeldStays ==
  ASSUME Core, NEW u \in Ticks, tick'[u] = tick[u], ThreadsStay
  PROVE  (Held(u)' <=> Held(u)) /\ (tick'[u].pc = "discard" <=> tick[u].pc = "discard")
<1> DEFINE k == Soonest(tick[u].due).cron
<1>1. Current(u)' = Soonest(tick[u].due) /\ Current(u) = Soonest(tick[u].due)
  BY CurrentIsSoonest
<1>2. /\ Held(u) <=> tick[u].pc \in {"claim", "discard"} /\ cron[k].thread = 0
      /\ Held(u)' <=> tick[u].pc \in {"claim", "discard"} /\ cron'[k].thread = 0
  BY <1>1 DEF Held
<1>3. tick[u].pc \in {"claim", "discard"} => k \in Crons
  BY <1>1, CurrentValues DEF Core
<1> HIDE DEF k
<1>4. tick[u].pc \in {"claim", "discard"} => cron'[k].thread = cron[k].thread
  BY <1>3 DEF ThreadsStay
<1> QED BY <1>2, <1>4

LEMMA Sums ==
  ASSUME NEW m \in Nat, NEW h \in Nat, NEW s \in Nat, NEW p \in Nat, NEW n \in Nat,
         NEW w \in Int, NEW k \in Nat, NEW z \in Nat, NEW q \in Nat,
         m <= h + s + p, s <= z, p <= q,
         \/ w - k <= m - h
         \/ w - k <= m - h + 1 /\ s + 1 <= z
         \/ w - k <= m - h + n /\ q = p + n
  PROVE  w <= k + z + q
OBVIOUS

(* The bound, once what is held, made and stateless is known.                 *)
LEMMA MadeSums ==
  ASSUME Core, Made, Stateless \subseteq Stateless', trouble' \in Nat, trouble' >= trouble,
         made' \in Int, Cardinality(HeldTicks') \in Nat, Cardinality(HeldTicks') <= made',
         made' - Cardinality(HeldTicks') <= made - Cardinality(HeldTicks)
           \/ (made' - Cardinality(HeldTicks') <= made - Cardinality(HeldTicks) + 1
               /\ \E r \in Stateless' : r \notin Stateless)
           \/ (made' - Cardinality(HeldTicks') <= made - Cardinality(HeldTicks) + Cardinality(Ticks)
               /\ trouble' = trouble + 1),
         \A t \in Ticks : tick'[t].pc = "discard" => Held(t)'
  PROVE  Made'
<1> DEFINE h == Cardinality(HeldTicks) k == Cardinality(HeldTicks') s == Cardinality(Stateless)
           z == Cardinality(Stateless') n == Cardinality(Ticks)
<1>1. h \in Nat /\ k \in Nat /\ s \in Nat /\ z \in Nat /\ n \in Nat /\ s <= z /\ made \in Nat
  BY HeldCounts, StatelessCounts, TickAt, Types DEF Core, CronTypes
<1>2. trouble \in Nat
  BY Types, JobTypes, Ids DEF Core
<1>3. made <= h + s + trouble * n
  BY DEF Made
<1> DEFINE p == trouble * n q == trouble' * n
<1>4. p \in Nat /\ q \in Nat /\ p <= q /\ (trouble' = trouble + 1 => q = p + n)
  <2>1. ASSUME NEW x \in Nat, NEW y \in Nat, NEW m \in Nat, x <= y
        PROVE  /\ x * m \in Nat /\ y * m \in Nat /\ x * m <= y * m
               /\ y = x + 1 => y * m = x * m + m
    BY <2>1
  <2> QED BY <1>1, <1>2, <2>1
<1>5. \/ made' - k <= made - h
      \/ made' - k <= made - h + 1 /\ s + 1 <= z
      \/ made' - k <= made - h + n /\ trouble' = trouble + 1
  BY StatelessCounts
<1>6. k <= made'
  OBVIOUS
<1>8. made <= h + s + p
  BY <1>3
<1> HIDE DEF h, k, s, z, n, p, q
<1>9. /\ made \in Nat /\ h \in Nat /\ s \in Nat /\ p \in Nat /\ n \in Nat /\ made' \in Int
      /\ k \in Nat /\ z \in Nat /\ q \in Nat /\ made <= h + s + p /\ s <= z /\ p <= q
  BY <1>1, <1>4, <1>8
<1>10. \/ made' - k <= made - h
       \/ made' - k <= made - h + 1 /\ s + 1 <= z
       \/ made' - k <= made - h + n /\ q = p + n
  BY <1>4, <1>5
<1>11. ASSUME NEW m \in Int, m = made' PROVE m <= k + z + q
  <2>1. \/ m - k <= made - h
        \/ m - k <= made - h + 1 /\ s + 1 <= z
        \/ m - k <= made - h + n /\ q = p + n
    BY <1>10, <1>11
  <2> QED BY <1>9, <2>1, Sums
<1>7. made' <= k + z + q
  BY <1>9, <1>11
<1> QED BY <1>6, <1>7 DEF Made, h, k, s, z, n, q

(* Steps that leave the ticks and the count alone.                            *)
LEMMA MadeFrame ==
  ASSUME Core, Made, UNCHANGED <<tick, made>>, ThreadsStay, Stateless \subseteq Stateless',
         trouble' \in Nat, trouble' >= trouble
  PROVE  Made'
<1>1. \A t \in Ticks : (Held(t)' <=> Held(t)) /\ (tick'[t].pc = "discard" <=> tick[t].pc = "discard")
  BY HeldStays
<1>2. HeldTicks' = HeldTicks
  BY <1>1 DEF HeldTicks
<1>3. \A t \in Ticks : tick'[t].pc = "discard" => Held(t)'
  BY <1>1 DEF Made
<1>4. /\ made' = made /\ made \in Nat /\ Cardinality(HeldTicks) \in Nat
      /\ Cardinality(HeldTicks) <= made
  BY HeldCounts, TickAt, Types DEF Core, CronTypes, Made
<1>5. /\ made' \in Int /\ Cardinality(HeldTicks') \in Nat /\ Cardinality(HeldTicks') <= made'
      /\ made' - Cardinality(HeldTicks') <= made - Cardinality(HeldTicks)
  BY <1>2, <1>4
<1> QED BY <1>3, <1>5, MadeSums

(* A step of one tick, by what becomes of the thread it holds.                 *)
LEMMA MadeTick ==
  ASSUME Core, Made, NEW t \in Ticks, \A u \in Ticks \ {t} : tick'[u] = tick[u],
         ThreadsStay, Stateless \subseteq Stateless', trouble' \in Nat, trouble' >= trouble,
         tick'[t].pc = "discard" => Held(t)',
         \/ (Held(t)' <=> Held(t)) /\ made' = made
         \/ ~Held(t) /\ Held(t)' /\ made' = made + 1
         \/ Held(t) /\ ~Held(t)' /\ made' = made - 1
         \/ /\ Held(t) /\ ~Held(t)' /\ made' = made
            /\ trouble' = trouble + 1 \/ \E r \in Stateless' : r \notin Stateless
  PROVE  Made'
<1>1. \A u \in Ticks \ {t} : (Held(u)' <=> Held(u)) /\ (tick'[u].pc = "discard" <=> tick[u].pc = "discard")
  BY HeldStays
<1>2. \A u \in Ticks : tick'[u].pc = "discard" => Held(u)'
  BY <1>1 DEF Made
<1> DEFINE h == Cardinality(HeldTicks) n == Cardinality(Ticks)
<1>3. /\ made \in Nat /\ h \in Nat /\ n \in Nat /\ h <= made /\ IsFiniteSet(HeldTicks)
  BY HeldCounts, TickAt, Types DEF Core, CronTypes, Made
<1>4. n >= 1
  BY <1>3, CronsAssumption, FS_EmptySet
<1>5. CASE (Held(t)' <=> Held(t)) /\ made' = made
  <2>1. HeldTicks' = HeldTicks
    BY <1>1, <1>5 DEF HeldTicks
  <2>2. /\ made' \in Int /\ Cardinality(HeldTicks') \in Nat /\ Cardinality(HeldTicks') <= made'
        /\ made' - Cardinality(HeldTicks') <= made - Cardinality(HeldTicks)
    BY <1>3, <1>5, <2>1
  <2> QED BY <1>2, <2>2, MadeSums
<1>6. CASE ~Held(t) /\ Held(t)' /\ made' = made + 1
  <2>1. HeldTicks' = HeldTicks \cup {t} /\ t \notin HeldTicks
    BY <1>1, <1>6 DEF HeldTicks
  <2>2. Cardinality(HeldTicks') = h + 1
    BY <1>3, <2>1, FS_AddElement
  <2>3. /\ made' \in Int /\ Cardinality(HeldTicks') \in Nat /\ Cardinality(HeldTicks') <= made'
        /\ made' - Cardinality(HeldTicks') <= made - Cardinality(HeldTicks)
    BY <1>3, <1>6, <2>2
  <2> QED BY <1>2, <2>3, MadeSums
<1>7. ASSUME Held(t), ~Held(t)' PROVE Cardinality(HeldTicks') = h - 1 /\ h - 1 \in Nat
  <2>1. HeldTicks' = HeldTicks \ {t} /\ t \in HeldTicks
    BY <1>1, <1>7 DEF HeldTicks
  <2>2. h # 0
    BY <1>3, <2>1, FS_EmptySet
  <2>3. Cardinality(HeldTicks') = h - 1
    BY <1>3, <2>1, FS_RemoveElement
  <2> QED BY <1>3, <2>2, <2>3
<1>8. CASE Held(t) /\ ~Held(t)' /\ made' = made - 1
  <2>1. /\ made' \in Int /\ Cardinality(HeldTicks') \in Nat /\ Cardinality(HeldTicks') <= made'
        /\ made' - Cardinality(HeldTicks') <= made - Cardinality(HeldTicks)
    BY <1>3, <1>7, <1>8
  <2> QED BY <1>2, <2>1, MadeSums
<1>9. CASE /\ Held(t) /\ ~Held(t)' /\ made' = made
           /\ trouble' = trouble + 1 \/ \E r \in Stateless' : r \notin Stateless
  <2>1. /\ made' \in Int /\ Cardinality(HeldTicks') \in Nat /\ Cardinality(HeldTicks') <= made'
        /\ made' - Cardinality(HeldTicks') <= made - Cardinality(HeldTicks) + 1
        /\ made' - Cardinality(HeldTicks') <= made - Cardinality(HeldTicks) + Cardinality(Ticks)
    BY <1>3, <1>4, <1>7, <1>9
  <2> QED BY <1>2, <1>9, <2>1, MadeSums
<1> QED BY <1>5, <1>6, <1>8, <1>9

LEMMA TroubleGrows ==
  ASSUME Core, Trouble \/ UNCHANGED trouble
  PROVE  trouble' \in Nat /\ trouble' >= trouble
<1>1. trouble \in Nat
  BY Types, JobTypes, Ids DEF Core
<1> QED BY <1>1 DEF Trouble

LEMMA StatelessFrame ==
  ASSUME UNCHANGED row PROVE Stateless \subseteq Stateless'
BY DEF Stateless

(* Held, by the thread of the due cron.                                       *)
LEMMA HeldAt ==
  ASSUME NEW t \in Ticks
  PROVE  /\ Held(t) <=> tick[t].pc \in {"claim", "discard"} /\ cron[Current(t).cron].thread = 0
         /\ tick'[t].pc \notin {"claim", "discard"} => ~Held(t)'
         /\ tick'[t].due = tick[t].due => Current(t)' = Current(t)
BY CurrentIsSoonest DEF Held

LEMMA PrepareMade ==
  ASSUME Core, Made, NEW t \in Ticks, PrepareThread(t) PROVE Made'
<1> USE DEF Core
<1> DEFINE own == cron[Current(t).cron].thread
<1>1. /\ tick[t].pc = "fire" /\ made' = (IF own = 0 THEN made + 1 ELSE made)
      /\ tick' = Goto(t, IF own \in homes \cup {0} THEN "claim" ELSE "advance")
      /\ UNCHANGED <<cron, row, trouble>>
  BY DEF PrepareThread, jobs
<1>2. PICK pc \in TickSteps :
        tick' = Goto(t, pc) /\ pc = (IF own \in homes \cup {0} THEN "claim" ELSE "advance")
  BY <1>1 DEF TickSteps
<1>3. /\ \A u \in Ticks \ {t} : tick'[u] = tick[u]
      /\ tick'[t].pc = pc /\ tick'[t].due = tick[t].due
  BY <1>2, GotoValues
<1>4. Current(t)' = Current(t)
  BY <1>3, HeldAt
<1>5. ~Held(t) /\ (Held(t)' <=> own = 0)
  BY <1>1, <1>2, <1>3, <1>4 DEF Held
<1>6. ThreadsStay /\ Stateless \subseteq Stateless' /\ trouble' \in Nat /\ trouble' >= trouble
      /\ tick'[t].pc # "discard"
  BY <1>1, <1>2, <1>3, StatelessFrame, TroubleGrows DEF ThreadsStay
<1>7. CASE own = 0
  BY <1>1, <1>3, <1>5, <1>6, <1>7, MadeTick
<1>8. CASE own # 0
  BY <1>1, <1>3, <1>5, <1>6, <1>8, MadeTick
<1> QED BY <1>7, <1>8

LEMMA ClaimMade ==
  ASSUME Core, Made, NEW t \in Ticks, ClaimOccurrence(t) PROVE Made'
<1> USE DEF Core
<1>1. UNCHANGED <<made, trouble>> /\ tick[t].pc = "claim" /\ tick \in [Ticks -> TickSet]
  BY TickAt DEF ClaimOccurrence
<1>2. trouble' \in Nat /\ trouble' >= trouble
  BY <1>1, TroubleGrows
<1> DEFINE own == cron[Current(t).cron].thread
<1>3. Held(t) <=> own = 0
  BY <1>1, HeldAt
<1>4. CASE \E r \in Runs : Fire(t, r) /\ tick' = [tick EXCEPT ![t].pc = "enqueue", ![t].run = r]
  <2>1. PICK r \in Runs : Fire(t, r) /\ tick' = [tick EXCEPT ![t].pc = "enqueue", ![t].run = r]
    BY <1>4
  <2> DEFINE x == [tick[t] EXCEPT !.pc = "enqueue", !.run = r]
  <2>2. tick' = [tick EXCEPT ![t] = x] /\ x.pc = "enqueue"
    BY <1>1, <2>1 DEF TickSet
  <2> HIDE DEF x
  <2>3. tick'[t].pc = "enqueue" /\ \A u \in Ticks \ {t} : tick'[u] = tick[u]
    BY <1>1, <2>2
  <2>4. /\ RowsMove /\ row[r].status = "absent" /\ row'[r].thread = (IF own = 0 THEN r ELSE own)
        /\ ThreadsStay
    <3>1. Fire(t, r)
      BY <2>1
    <3> QED BY <1>1, <3>1, FireMoves DEF ThreadsStay
  <2>5. Stateless \subseteq Stateless' /\ (own = 0 => r \in Stateless' /\ r \notin Stateless)
    BY <2>4, StatelessGrows, Ids DEF Stateless, Rows
  <2>6. ~Held(t)'
    BY <2>3, HeldAt
  <2>7. CASE own = 0
    BY <1>1, <1>2, <1>3, <2>3, <2>4, <2>5, <2>6, <2>7, MadeTick
  <2>8. CASE own # 0
    BY <1>1, <1>2, <1>3, <2>3, <2>4, <2>5, <2>6, <2>8, MadeTick
  <2> QED BY <2>7, <2>8
<1>5. CASE /\ tick' = IF own = 0 THEN Goto(t, "discard") ELSE Onward(t, tick[t].just)
           /\ UNCHANGED <<cron, row>>
  <2>1. ThreadsStay /\ Stateless \subseteq Stateless'
    BY <1>5, StatelessFrame DEF ThreadsStay
  <2>2. CASE own = 0
    <3>1. "discard" \in TickSteps /\ tick' = Goto(t, "discard")
      BY <1>5, <2>2 DEF TickSteps
    <3>2. /\ \A u \in Ticks \ {t} : tick'[u] = tick[u]
          /\ tick'[t].pc = "discard" /\ tick'[t].due = tick[t].due
      BY <3>1, GotoValues
    <3>3. Current(t)' = Current(t)
      BY <3>2, HeldAt
    <3>4. Held(t)' /\ Held(t)
      BY <1>3, <1>5, <2>2, <3>2, <3>3 DEF Held
    <3> QED BY <1>1, <1>2, <2>1, <3>2, <3>4, MadeTick
  <2>3. CASE own # 0
    <3>1. tick' = Onward(t, tick[t].just)
      BY <1>5, <2>3
    <3>2. /\ \A u \in Ticks \ {t} : tick'[u] = tick[u]
          /\ tick'[t].pc \in {"sweep", "fire"}
      BY <3>1, TickAt, OnwardValues
    <3>3. ~Held(t)'
      BY <3>2, HeldAt
    <3> QED BY <1>1, <1>2, <1>3, <2>1, <2>3, <3>2, <3>3, MadeTick
  <2> QED BY <2>2, <2>3
<1> QED BY <1>4, <1>5 DEF ClaimOccurrence

(* The steps of a tick that holds no thread, before and after.                *)
LEMMA UnheldMade ==
  ASSUME Core, Made, NEW t \in Ticks, \A u \in Ticks \ {t} : tick'[u] = tick[u],
         tick[t].pc \notin {"claim", "discard"}, tick'[t].pc \notin {"claim", "discard"},
         ThreadsStay, Stateless \subseteq Stateless', made' = made, Trouble \/ UNCHANGED trouble
  PROVE  Made'
<1>1. ~Held(t) /\ ~Held(t)'
  BY HeldAt
<1>2. trouble' \in Nat /\ trouble' >= trouble /\ tick'[t].pc # "discard"
  BY TroubleGrows
<1> QED BY <1>1, <1>2, MadeTick

LEMMA TickStepMade ==
  ASSUME Core, Made, NEW t \in Ticks, TickStep(t) \/ FireFails(t) \/ TickFails(t)
  PROVE  Made'
<1> USE DEF Core
<1>1. tick \in [Ticks -> TickSet] /\ tick[t] \in TickSet
  BY TickAt
<1>2. UNCHANGED row => Stateless \subseteq Stateless'
  BY StatelessFrame
<1>3. UNCHANGED cron => ThreadsStay
  BY DEF ThreadsStay
<1>4. CASE Scan(t) \/ Sweep(t) \/ Requeue(t) \/ TickFails(t)
  <2>1. PICK x : tick' = [tick EXCEPT ![t] = x] /\ x.pc \notin {"claim", "discard"}
    <3>1. NoTick.pc = "idle"
      BY DEF NoTick
    <3>2. CASE Scan(t)
      <4> DEFINE pc == IF Batch = {} THEN "sweep" ELSE "fire"
                 x == [NoTick EXCEPT !.pc = pc, !.at = now,
                         !.due = {[cron |-> k, seq |-> cron[k].seq, occ |-> cron[k].next] : k \in Batch}]
      <4>1. tick' = [tick EXCEPT ![t] = x]
        BY <3>2 DEF Scan
      <4>2. x.pc = pc
        BY DEF NoTick
      <4>3. pc \notin {"claim", "discard"}
        OBVIOUS
      <4> HIDE DEF pc, x
      <4> QED BY <4>1, <4>2, <4>3
    <3>3. CASE Sweep(t)
      <4> DEFINE stale == Stale(tick[t].at, tick[t].just)
                 x == IF stale = {} THEN NoTick ELSE [NoTick EXCEPT !.pc = "requeue", !.stale = stale]
      <4>1. tick' = [tick EXCEPT ![t] = x]
        BY <3>3 DEF Sweep
      <4> HIDE DEF stale
      <4>2. x.pc \notin {"claim", "discard"}
        BY DEF NoTick
      <4> HIDE DEF x
      <4> QED BY <4>1, <4>2
    <3>4. CASE Requeue(t)
      <4> DEFINE r == CHOOSE r \in tick[t].stale : \A q \in tick[t].stale : r <= q
                 rest == tick[t].stale \ {r}
                 x == IF rest = {} THEN NoTick ELSE [tick[t] EXCEPT !.stale = rest]
      <4>1. tick' = [tick EXCEPT ![t] = x] /\ tick[t].pc = "requeue"
        BY <3>4 DEF Requeue
      <4> HIDE DEF rest
      <4>2. x.pc \notin {"claim", "discard"}
        BY <1>1, <3>1, <4>1 DEF TickSet
      <4> HIDE DEF x
      <4> QED BY <4>1, <4>2
    <3>5. CASE TickFails(t)
      BY <3>1, <3>5 DEF TickFails
    <3> QED BY <1>4, <3>2, <3>3, <3>4, <3>5
  <2>2. tick'[t] = x /\ \A u \in Ticks \ {t} : tick'[u] = tick[u]
    BY <1>1, <2>1
  <2>3. /\ UNCHANGED <<cron, row, made>> /\ (Trouble \/ UNCHANGED trouble)
        /\ tick[t].pc \notin {"claim", "discard"}
    BY <1>4 DEF Scan, Sweep, Requeue, TickFails, jobs
  <2> QED BY <1>2, <1>3, <2>1, <2>2, <2>3, UnheldMade
<1>5. CASE EnqueueFired(t)
  <2>1. /\ tick[t].pc = "enqueue" /\ UNCHANGED <<cron, row, made, trouble>>
        /\ tick' = Onward(t, tick[t].just \cup {tick[t].run})
    BY <1>5 DEF EnqueueFired, jobs
  <2>2. tick[t].just \cup {tick[t].run} \in SUBSET Runs
    BY <2>1, TickAt DEF TickOK
  <2> QED BY <1>2, <1>3, <2>1, <2>2, OnwardValues, UnheldMade
<1>6. CASE AdvanceFailed(t)
  <2>1. /\ tick[t].pc = "advance" /\ UNCHANGED <<row, made, trouble>>
        /\ tick' = Onward(t, tick[t].just)
        /\ cron' \in {cron, Advanced(Current(t), NextDate(t))}
    BY <1>6 DEF AdvanceFailed, jobs
  <2>2. ThreadsStay
    <3>1. CASE cron' = Advanced(Current(t), NextDate(t))
      <4> DEFINE d == Current(t) n == NextDate(t)
      <4>1. d.cron \in Crons /\ d.occ \in 1..EndTime /\ tick[t].at \in 0..MaxNow
        BY <2>1, CurrentValues, TickAt
      <4>2. d.occ \in Nat /\ tick[t].at \in Nat
        BY <4>1, Ids
      <4>3. n \in 0..EndTime
        BY <4>2, NextDates DEF NextDate
      <4> HIDE DEF d, n
      <4>4. /\ \A k \in Crons \ {d.cron} : Advanced(d, n)[k] = cron[k]
            /\ Advanced(d, n)[d.cron].thread = cron[d.cron].thread
        BY <4>1, <4>3, AdvancedValues
      <4>5. cron' = Advanced(d, n)
        BY <3>1 DEF d, n
      <4> QED BY <4>4, <4>5 DEF ThreadsStay
    <3> QED BY <1>3, <2>1, <3>1
  <2> QED BY <1>2, <2>1, <2>2, TickAt, OnwardValues, UnheldMade
<1>7. CASE DiscardThread(t)
  <2>1. /\ tick[t].pc = "discard" /\ UNCHANGED <<cron, row, trouble>> /\ made' = made - 1
        /\ tick' = Onward(t, tick[t].just)
    BY <1>7 DEF DiscardThread, WithoutThread, jobs
  <2>2. /\ \A u \in Ticks \ {t} : tick'[u] = tick[u]
        /\ tick'[t].pc \in {"sweep", "fire"}
    BY <2>1, TickAt, OnwardValues
  <2>3. Held(t) /\ ~Held(t)'
    BY <2>1, <2>2, HeldAt DEF Made
  <2>4. trouble' \in Nat /\ trouble' >= trouble
    BY <2>1, TroubleGrows
  <2> QED BY <1>2, <1>3, <2>1, <2>2, <2>3, <2>4, MadeTick
<1>8. CASE FireFails(t)
  <2>1. Trouble /\ trouble' = trouble + 1 /\ made' = made
    BY <1>8 DEF FireFails, Trouble
  <2>2. trouble' \in Nat /\ trouble' >= trouble
    BY <2>1, TroubleGrows
  <2>3. ThreadsStay /\ Stateless \subseteq Stateless'
    <3>1. CASE UNCHANGED <<cron, row>>
      BY <1>2, <1>3, <3>1
    <3>2. CASE tick[t].pc = "claim" /\ \E r \in Runs : Fire(t, r)
      BY <3>2, FireMoves, StatelessGrows DEF ThreadsStay
    <3> QED BY <1>8, <3>1, <3>2 DEF FireFails
  <2>4. /\ \A u \in Ticks \ {t} : tick'[u] = tick[u]
        /\ tick'[t].pc \in {"sweep", "fire", "advance"}
    <3>1. CASE tick' = Onward(t, tick[t].just)
      BY <3>1, OnwardValues, TickAt
    <3>2. CASE tick' = Goto(t, "advance")
      <4>1. "advance" \in TickSteps
        BY DEF TickSteps
      <4> QED BY <3>2, <4>1, GotoValues
    <3> QED BY <1>8, <3>1, <3>2 DEF FireFails
  <2>5. ~Held(t)'
    BY <2>4, HeldAt
  <2>6. CASE Held(t)
    BY <2>1, <2>2, <2>3, <2>4, <2>5, <2>6, MadeTick
  <2>7. CASE ~Held(t)
    BY <2>1, <2>2, <2>3, <2>4, <2>5, <2>7, MadeTick
  <2> QED BY <2>6, <2>7
<1> QED BY <1>4, <1>5, <1>6, <1>7, <1>8, PrepareMade, ClaimMade DEF TickStep

LEMMA CrashMade ==
  ASSUME Core, Made, Crash PROVE Made'
<1>1. /\ Trouble /\ (\A t \in Ticks : tick'[t] = NoTick) /\ UNCHANGED <<row, made>>
  BY DEF Crash
<1>2. NoTick.pc = "idle"
  BY DEF NoTick
<1>3. \A t \in Ticks : ~Held(t)' /\ tick'[t].pc # "discard"
  BY <1>1, <1>2, HeldAt
<1>4. HeldTicks' = {}
  BY <1>3 DEF HeldTicks
<1>5. /\ made \in Nat /\ Cardinality(HeldTicks) \in Nat /\ Cardinality(Ticks) \in Nat
      /\ Cardinality(HeldTicks) <= Cardinality(Ticks)
  BY HeldCounts, Types DEF Core, CronTypes
<1>6. Cardinality(HeldTicks') = 0
  BY <1>4, FS_EmptySet
<1>7. /\ made' \in Int /\ Cardinality(HeldTicks') \in Nat /\ Cardinality(HeldTicks') <= made'
      /\ made' - Cardinality(HeldTicks') <= made - Cardinality(HeldTicks) + Cardinality(Ticks)
  BY <1>1, <1>5, <1>6
<1>8. trouble' \in Nat /\ trouble' >= trouble /\ trouble' = trouble + 1
  BY <1>1, TroubleGrows DEF Trouble
<1>9. Stateless \subseteq Stateless'
  BY <1>1, StatelessFrame
<1> QED BY <1>3, <1>7, <1>8, <1>9, MadeSums

LEMMA MadeStep ==
  ASSUME Core, Made, [Next]_vars PROVE Made'
<1> USE DEF Core
<1>1. ASSUME RowsMove \/ UNCHANGED row, UNCHANGED <<tick, made, cron>>, Trouble \/ UNCHANGED trouble
      PROVE  Made'
  <2>1. Stateless \subseteq Stateless' /\ ThreadsStay
    BY <1>1, StatelessGrows, StatelessFrame DEF ThreadsStay
  <2> QED BY <1>1, <2>1, TroubleGrows, MadeFrame
<1>2. ASSUME NEW p \in Processes, Execute(p) \/ (p \in Slots /\ Throw(p)), UNCHANGED <<queue, crons>>
      PROVE  Made'
  <2>1. Trouble \/ UNCHANGED trouble
    BY <1>2 DEF Execute, Read, Claim, Reread, MarkRunning, Settle, Release, Throw
  <2>2. UNCHANGED <<tick, made, cron>>
    BY <1>2 DEF crons
  <2> QED BY <1>1, <1>2, <2>1, <2>2, ExecuteMoves
<1>3. CASE \E p \in Processes : Work(p)
  BY <1>2, <1>3 DEF Work
<1>4. CASE \E s \in Slots : Consume(s) \/ (Throw(s) /\ UNCHANGED <<queue, crons>>)
  <2>1. PICK s \in Slots : Consume(s) \/ (Throw(s) /\ UNCHANGED <<queue, crons>>)
    BY <1>4
  <2>2. s \in Processes
    BY DEF Processes
  <2>3. Consume(s) => UNCHANGED <<row, tick, made, cron, trouble>>
    BY DEF Consume, Pull, Answer, crons
  <2> QED BY <1>1, <1>2, <2>1, <2>2, <2>3
<1>5. CASE \E t \in Ticks : TickStep(t) \/ FireFails(t) \/ TickFails(t)
  BY <1>5, TickStepMade
<1>6. CASE Rested \/ Clock \/ UNCHANGED vars
  <2>1. UNCHANGED <<row, tick, made, cron, trouble>>
    BY <1>6 DEF Rested, ReleaseThread, Clock, vars, jobs, crons
  <2> QED BY <1>1, <2>1
<1>7. CASE Edit
  <2>1. ThreadsStay /\ \A r \in Runs : row'[r].thread = row[r].thread
    BY <1>7, EditStays
  <2>2. Stateless \subseteq Stateless'
    BY <2>1 DEF Stateless
  <2>3. UNCHANGED <<tick, made>> /\ (Trouble \/ UNCHANGED trouble)
    BY <1>7 DEF Edit, WritePatch, BeginPatch, DeleteCron, DeleteThread
  <2> QED BY <2>1, <2>2, <2>3, TroubleGrows, MadeFrame
<1>8. CASE InlineRun
  <2>1. PICK q \in Requests, r \in Runs, th \in homes : Request(q, r, th)
    BY <1>8 DEF InlineRun
  <2>2. RowsMove /\ Trouble /\ UNCHANGED <<tick, made, cron>>
    BY <1>8, <2>1, RequestMoves DEF InlineRun, Request, crons
  <2> QED BY <1>1, <2>2
<1> QED BY <1>3, <1>4, <1>5, <1>6, <1>7, <1>8, CrashMade DEF Next

-----------------------------------------------------------------------------
(* The theorems.                                                             *)

LEMMA InitInvariant == Init => IInv
<1> SUFFICES ASSUME Init PROVE IInv
  OBVIOUS
<1> USE DEF Init, JobsInit, QueueInit, CronsInit
<1>1. JobsTypeOK
  <2>1. NoRow \in RowSet /\ Idle \in WorkerSet /\ 0 \in 0..MaxTrouble
    BY Ids DEF NoRow, Idle, RowSet, WorkerSet, RowStatus, WorkerSteps
  <2> QED BY <2>1, JobTypes
<1>2. ToSet(items) = {} /\ items \in Seq(Runs) /\ IsInjective(items)
  BY DEF ToSet, IsInjective
<1>3. QueueTypeOK /\ Once /\ \A r \in Runs : ~Queued(r)
  BY <1>2 DEF QueueTypeOK, Once, Queued
<1>4. tick \in [Ticks -> TickSet] /\ \A t \in Ticks : tick[t] = NoTick
  BY NoTickValue
<1>5. PICK home \in [Crons -> Homes \cup {0}] :
        cron = [k \in Crons |-> [exists |-> TRUE, enabled |-> TRUE, next |-> 1, seq |-> 0,
                                 fired |-> NotFired, thread |-> home[k]]]
  OBVIOUS
<1>6. ASSUME NEW k \in Crons
      PROVE  cron[k] \in CronSet /\ cron[k].next = 1 /\ cron[k].fired.at = 0
  <2>1. NotFired \in [occ: 0..EndTime, at: 0..MaxNow] /\ NotFired.at = 0 /\ 1 \in 0..EndTime
    BY Ids DEF NotFired
  <2>2. cron[k] = [exists |-> TRUE, enabled |-> TRUE, next |-> 1, seq |-> 0,
                   fired |-> NotFired, thread |-> home[k]]
    BY <1>5
  <2> QED BY <2>1, <2>2 DEF CronSet
<1>7. cron \in [Crons -> CronSet] /\ Ahead
  BY <1>5, <1>6 DEF Ahead
<1>8. editor \in [Editors -> PatchSet] /\ EditorOK
  <2>1. NoPatch \in PatchSet /\ NoPatch.kind = "none"
    BY Ids DEF NoPatch, PatchSet, Never
  <2> QED BY <2>1 DEF EditorOK
<1>9. TickOK /\ Tokens /\ \A t \in Ticks : tick[t].pc \in TickSteps
  BY <1>4, NoTickValue DEF TickOK, Tokens, TickSteps
<1>10. CronTypes
  BY <1>7, <1>8, <1>9, Ids DEF CronTypes
<1>11. \A r \in Runs : row[r].status = "absent" /\ row[r].thread = 0 /\ row[r].cron = 0
  BY DEF NoRow
<1>12. \A p \in Processes : worker[p].pc = "idle" /\ worker[p].run = 0
  BY DEF Idle
<1>13. Rows /\ OfCrons
  BY <1>3, <1>4, <1>11, NoTickValue DEF Rows, OfCrons
<1>14. Pulled /\ Inline
  BY <1>12 DEF Pulled, Inline, Processes
<1>15. Started
  BY <1>11, <1>12 DEF Started, Starting
<1>16. Made
  <2>1. \A t \in Ticks : ~Held(t) /\ tick[t].pc # "discard"
    BY <1>4, NoTickValue DEF Held
  <2>2. HeldTicks = {}
    BY <2>1 DEF HeldTicks
  <2>3. Cardinality(HeldTicks) = 0
    BY <2>2, FS_EmptySet
  <2>4. 0 <= Cardinality(HeldTicks) + Cardinality(Stateless) + 0 * Cardinality(Ticks)
    BY <2>3, HeldCounts
  <2> QED BY <2>1, <2>3, <2>4 DEF Made
<1> QED BY <1>1, <1>3, <1>7, <1>8, <1>9, <1>10, <1>13, <1>14, <1>15, <1>16, Types DEF IInv, Core

LEMMA InvariantStep == IInv /\ [Next]_vars => IInv'
BY CoreStep, StartedStep, MadeStep DEF IInv

(* The inductive invariant holds in every reachable state, for any crons,      *)
(* ticks, slots, requests, edits, failures and crashes.                       *)
THEOREM CronInvariant == Spec => []IInv
<1>1. Init => IInv
  BY InitInvariant
<1>2. IInv /\ [Next]_vars => IInv'
  BY InvariantStep
<1> QED BY <1>1, <1>2, PTL DEF Spec

(* Every variable keeps its type; no thread is discarded that was not counted. *)
THEOREM TypesKept == Spec => []TypeOK
<1>1. IInv => TypeOK
  BY DEF IInv, Core
<1> QED BY <1>1, CronInvariant, PTL

(* No execution changes which cron a run came from.                          *)
LEMMA ExecuteRows ==
  ASSUME row \in [Runs -> RowSet], NEW p \in Processes, Execute(p) \/ Throw(p),
         worker[p].pc \in {"start", "graph"} => worker[p].run \in Runs
  PROVE  \A r \in Runs : row'[r].cron = row[r].cron
<1>1. CASE Settle(p) \/ MarkRunning(p)
  <2>1. PICK r \in Runs : r = worker[p].run
    BY <1>1 DEF Settle, MarkRunning
  <2>2. CASE row' = Settled(r)
    BY <2>2, SettledRow
  <2>3. CASE row' = [row EXCEPT ![r].status = "running", ![r].created = 0]
    BY <2>3, RunningRow
  <2> QED BY <1>1, <2>1, <2>2, <2>3 DEF Settle, MarkRunning
<1>2. CASE Read(p) \/ Claim(p) \/ Reread(p) \/ Release(p) \/ Throw(p)
  BY <1>2 DEF Read, Claim, Reread, Release, Throw
<1> QED BY <1>1, <1>2 DEF Execute

(* A run is created for a due occurrence: with its cron's token still valid,   *)
(* and later than the tick that fired the cron before.                       *)
LEMMA OccurrenceAdvances ==
  ASSUME IInv, [Next]_vars, NEW r \in Runs, ~Fired(r), row'[r].cron # 0
  PROVE  cron'[row'[r].cron].fired.occ > cron[row'[r].cron].fired.at
<1> USE DEF IInv, Core
<1>1. row[r].cron = 0 /\ row \in [Runs -> RowSet]
  BY Types, JobTypes DEF Fired
<1>2. ASSUME NEW t \in Ticks, NEW q \in Runs, tick[t].pc = "claim", Fire(t, q)
      PROVE  cron'[row'[r].cron].fired.occ > cron[row'[r].cron].fired.at
  <2> DEFINE d == Current(t)
  <2>1. /\ \A s \in Runs \ {q} : row'[s] = row[s]
        /\ row'[q].cron = d.cron /\ Claimable(d)
        /\ cron'[d.cron].fired = [occ |-> d.occ, at |-> tick[t].at]
    BY <1>2, FireMoves
  <2>2. r = q
    BY <1>1, <2>1
  <2>3. d \in tick[t].due /\ d.cron \in Crons /\ d.occ \in 1..EndTime
    BY <1>2, CurrentValues
  <2> HIDE DEF d
  <2>4. d.occ = cron[d.cron].next /\ d.occ # Never
    BY <2>1, <2>3, Ids DEF Claimable, Tokens, Never
  <2>5. cron'[d.cron].fired.occ = d.occ
    BY <2>1
  <2> QED BY <2>1, <2>2, <2>3, <2>4, <2>5 DEF Ahead
<1>3. ASSUME \A q \in Runs : row'[q].cron = row[q].cron PROVE FALSE
  BY <1>1, <1>3
<1>4. CASE UNCHANGED row
  BY <1>3, <1>4
<1>5. ASSUME NEW p \in Processes, Execute(p) \/ (p \in Slots /\ Throw(p)) PROVE FALSE
  <2>1. worker[p].pc \in {"start", "graph"} => worker[p].run \in Runs
    BY AtWork
  <2> QED BY <1>1, <1>3, <1>5, <2>1, ExecuteRows
<1>6. CASE \E p \in Processes : Work(p)
  BY <1>5, <1>6 DEF Work
<1>7. CASE \E s \in Slots : Consume(s) \/ (Throw(s) /\ UNCHANGED <<queue, crons>>)
  <2>1. PICK s \in Slots : Consume(s) \/ Throw(s)
    BY <1>7
  <2>2. Consume(s) => UNCHANGED row
    BY DEF Consume, Pull, Answer, jobs
  <2> QED BY <1>4, <1>5, <2>1, <2>2 DEF Processes
<1>8. CASE \E t \in Ticks : TickStep(t) \/ FireFails(t) \/ TickFails(t)
  BY <1>2, <1>4, <1>8 DEF TickStep, Scan, PrepareThread, ClaimOccurrence, DiscardThread, EnqueueFired,
     AdvanceFailed, Sweep, Requeue, FireFails, TickFails, jobs
<1>9. CASE Edit
  BY <1>3, <1>9, EditStays
<1>10. CASE InlineRun
  <2>1. PICK q \in Requests, s \in Runs, th \in homes : Request(q, s, th)
    BY <1>10 DEF InlineRun
  <2>2. row'[s].cron = 0 /\ \A x \in Runs \ {s} : row'[x] = row[x]
    BY <2>1, RequestMoves
  <2> QED BY <1>1, <2>1, <2>2
<1>11. CASE Rested \/ Clock \/ Crash \/ UNCHANGED vars
  BY <1>4, <1>11 DEF Rested, ReleaseThread, Clock, Crash, vars, jobs
<1> QED BY <1>6, <1>7, <1>8, <1>9, <1>10, <1>11 DEF Next

(* However many ticks overlap, fail or die, an occurrence fires one run, and   *)
(* one run stands for everything a cron missed (claimAndCreateRun,            *)
(* advanceCronOccurrence).                                                   *)
THEOREM OccurrencesCoalesce == Spec => Coalesced
<1> DEFINE A == \A r \in Runs : ~Fired(r) /\ row'[r].cron # 0 =>
                  cron'[row'[r].cron].fired.occ > cron[row'[r].cron].fired.at
<1>1. IInv /\ [Next]_vars => [A]_vars
  BY OccurrenceAdvances
<1> QED BY <1>1, CronInvariant, PTL DEF Spec, Coalesced

(* A thread made for a stateless fire has its run, or a tick that will claim   *)
(* it a run or discard it, or a failure or crash to blame (fireCron).         *)
THEOREM StraysAreAccountedFor == Spec => []StraysAccounted
<1>1. IInv => StraysAccounted
  BY DEF IInv, Made, StraysAccounted, HeldTicks, Stateless
<1> QED BY <1>1, CronInvariant, PTL

(* A run that a request executes inline is never handed to the worker          *)
(* (sweepUnqueuedRuns).                                                     *)
THEOREM InlineRunsStayOut == Spec => []InlineNotQueued
<1>1. IInv => InlineNotQueued
  BY DEF IInv, Core, OfCrons, InlineNotQueued
<1> QED BY <1>1, CronInvariant, PTL

(* No run's graph is started twice, whoever enqueues it again, also when a     *)
(* crash left it running (enqueue, executeOne, startRunExecution).            *)
THEOREM RunsStartOnce == Spec => []StartedOnce
<1>1. IInv => StartedOnce
  BY DEF IInv, Started, StartedOnce
<1> QED BY <1>1, CronInvariant, PTL

=============================================================================
