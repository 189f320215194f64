---------------------- MODULE RedisDispatch_proofs ----------------------
(***************************************************************************)
(* The runs of a thread over Redis, for any number of slots, sweepers, runs, *)
(* requests and disturbances. A run that may be passed is over, cancelled or  *)
(* given up; until then it keeps its place in the order of its thread, so     *)
(* that the head of that order has nobody to wait for. Whoever executes holds  *)
(* the claim of the thread, so that what it read of the run under the claim    *)
(* still holds when it marks it running, unless it was cancelled since. The     *)
(* number of the start that was parked is taken once and stands for no other    *)
(* start, so that a promotion meets the delay it is meant for, unless that      *)
(* delay has ended by itself.                                               *)
(***************************************************************************)
EXTENDS RedisDispatch, FiniteSetTheorems, SequenceTheorems, TLAPS

-----------------------------------------------------------------------------
(* The inductive invariant.                                                  *)

(* A run nobody is to wait for.                                              *)
Resolved(r) == Finished(r) \/ r \in failed \cup cancelled

(* A run of the queue's: its row is there and no request executes it.         *)
Delivered(r) == /\ row[r].status # "absent" /\ row[r].thread \in Homes
                /\ \A q \in Requests : worker[q].run # r

(* A slot serves a delivered run, and its answer "handled" means that nobody    *)
(* is to wait for it.                                                       *)
ServingAt(s) ==
  /\ disp[s].pc = "idle" => worker[s] = Idle
  /\ disp[s].pc # "idle" => worker[s].run # 0 /\ Delivered(worker[s].run) /\ disp[s].at # 0
  /\ disp[s].pc \notin {"idle", "register"} => Contains(arrived, worker[s].run)
  /\ disp[s].pc # "work" => worker[s].pc \in {"idle", "handled"}
  /\ disp[s].pc = "advance" => worker[s].pc = "handled"
  /\ worker[s].pc \in {"settled", "handled"} => worker[s].run # 0 /\ Resolved(worker[s].run)
Serving == \A s \in Slots : ServingAt(s)

(* Whoever is past the claim holds it, and a run that is about to be marked     *)
(* running is over only if it was cancelled since it was reread.               *)
UnderClaim == {"reread", "start", "graph", "settled"}
ExecutingAt(p) ==
  /\ worker[p].run # 0 =>
       row[worker[p].run].status # "absent" /\ row[worker[p].run].thread \in Homes
  /\ worker[p].pc # "idle" => worker[p].run # 0
  /\ worker[p].pc \in UnderClaim => lease[ThreadAt(p)] = p
  /\ worker[p].pc = "start" /\ Finished(worker[p].run) => worker[p].run \in cancelled
Executing == \A p \in Processes : ExecutingAt(p)

(* A run that has a row and no job is over or was given up.                  *)
BackedAt(r) ==
  /\ job[r].state # "none" \/ r \in failed \/ Contains(arrived, r) => Delivered(r)
  /\ job[r].state = "none" /\ Delivered(r) => Resolved(r)
  /\ job[r].state = "after" => ~Contains(arrived, r) /\ \A s \in Slots : worker[s].run # r
Backed ==
  /\ \A q \in Requests : worker[q].run # 0 => row[worker[q].run].status # "absent"
  /\ \A r \in Runs : BackedAt(r)

(* The order of a thread is of its own runs.                                 *)
Parts == \A th \in Homes, r \in Runs :
  Contains(part[th], r) => row[r].thread = th /\ Contains(arrived, r)

(* Whoever is not resolved keeps its place.                                  *)
Before(s, a, b) == \E i, j \in 1..Len(s) : i < j /\ s[i] = a /\ s[j] = b
Placed == \A q \in Runs : Contains(arrived, q) /\ ~Resolved(q) =>
  /\ Contains(PartOf(q), q)
  /\ \A r \in Runs : Earlier(q, r) => ~Before(PartOf(q), r, q)

(* A slot at work on a run has no earlier one of the thread to wait for.      *)
ClearedAt(s) == disp[s].pc = "work" =>
  \A q \in Runs : Earlier(q, worker[s].run) /\ row[q].thread = ThreadAt(s) => Resolved(q)
Cleared == \A s \in Slots : ClearedAt(s)

(* What an advance is about.                                                 *)
AdvancesAt(c) ==
  /\ recon[c].pc # "idle" => recon[c].thread \in Homes
  /\ recon[c].pc \in {"remove", "take", "promote"} =>
       /\ recon[c].run # 0 /\ Contains(arrived, recon[c].run)
       /\ row[recon[c].run].thread = recon[c].thread
  /\ recon[c].pc = "remove" => Resolved(recon[c].run)
Advances == \A c \in Reconcilers : AdvancesAt(c)

Order == Parts /\ Placed /\ Cleared /\ Advances

(* A start that is not, and will not be, the one recorded as parked.          *)
Dead(r, n) == /\ n # 0 /\ marker[r] # n
              /\ \A s \in Slots : worker[s].run = r => disp[s].at # n

(* Slots serve different starts of a run, none of which is recorded as parked *)
(* before its slot has left.                                                 *)
Apart ==
  /\ \A s, z \in Slots : worker[s].run # 0 /\ worker[s].run = worker[z].run =>
       disp[s].at # disp[z].at \/ s = z
  /\ \A s \in Slots : worker[s].run # 0 => marker[worker[s].run] # disp[s].at

(* A delay of BullMQ's own is of a start that nobody parked.                 *)
Delays == \A r \in Runs :
  /\ job[r].state \in {"busy", "backoff"} => Dead(r, job[r].at)
  /\ job[r].state = "parked" => job[r].at # 0

(* An advance about to take a marker has seen the run parked in that start, or *)
(* will find nothing to take; one about to promote, alone, finds it parked      *)
(* still. The others are overdue.                                           *)
TakingAt(c) == recon[c].pc = "take" /\ c \notin overdue =>
  \/ job[recon[c].run].state = "parked" /\ job[recon[c].run].at = recon[c].at
  \/ Dead(recon[c].run, recon[c].at)
Taking == \A c \in Reconcilers : TakingAt(c)
PromotingAt(c) == recon[c].pc = "promote" /\ c \notin overdue =>
  /\ job[recon[c].run].state = "parked" /\ job[recon[c].run].at = recon[c].at
  /\ Dead(recon[c].run, recon[c].at)
Promoting ==
  /\ \A c \in Reconcilers : PromotingAt(c)
  /\ \A c, d \in Reconcilers :
       /\ recon[c].pc = "promote" /\ c \notin overdue
       /\ recon[d].pc = "promote" /\ d \notin overdue
       => c = d \/ recon[c].run # recon[d].run

Starts == Apart /\ Delays /\ Taking /\ Promoting

IInv == TypeOK /\ Serving /\ Executing /\ Backed /\ Order /\ Starts

-----------------------------------------------------------------------------
(* Sequences without repetitions.                                            *)

LEMMA AppendOrder ==
  ASSUME NEW S, NEW s \in Seq(S), NEW x \in S, IsInjective(s), ~Contains(s, x)
  PROVE  LET t == Append(s, x) IN
         /\ t \in Seq(S) /\ IsInjective(t)
         /\ \A a : Contains(t, a) <=> Contains(s, a) \/ a = x
         /\ \A a, b : Before(t, a, b) => Before(s, a, b) \/ (b = x /\ Contains(s, a))
         /\ \A a, b : Before(s, a, b) => Before(t, a, b)
<1> DEFINE t == Append(s, x)
<1>1. /\ t \in Seq(S) /\ Len(t) = Len(s) + 1 /\ Len(s) \in Nat /\ t[Len(s) + 1] = x
      /\ \A i \in 1..Len(s) : t[i] = s[i]
  OBVIOUS
<1>2. \A i \in 1..Len(t) : i \in 1..Len(s) \/ i = Len(s) + 1
  BY <1>1
<1>3. \A i \in 1..Len(s) : i \in 1..Len(t)
  BY <1>1
<1>4. Len(s) + 1 \in 1..Len(t)
  BY <1>1
<1>5. DOMAIN t = 1..Len(t) /\ DOMAIN s = 1..Len(s)
  BY <1>1
<1> HIDE DEF t
<1>6. \A i \in 1..Len(s) : s[i] # x
  BY DEF Contains
<1>7. IsInjective(t)
  BY <1>1, <1>2, <1>3, <1>4, <1>5, <1>6 DEF IsInjective
<1>8. \A a : Contains(t, a) <=> Contains(s, a) \/ a = x
  BY <1>1, <1>2, <1>3, <1>4 DEF Contains
<1>9. ASSUME NEW a, NEW b, Before(t, a, b) PROVE Before(s, a, b) \/ (b = x /\ Contains(s, a))
  <2>1. PICK i \in 1..Len(t) : \E j \in 1..Len(t) : i < j /\ t[i] = a /\ t[j] = b
    BY <1>9 DEF Before
  <2>2. PICK j \in 1..Len(t) : i < j /\ t[i] = a /\ t[j] = b
    BY <2>1
  <2>3. i \in 1..Len(s)
    BY <1>1, <2>2
  <2>4. CASE j \in 1..Len(s)
    BY <1>1, <2>2, <2>3, <2>4 DEF Before
  <2>5. CASE j = Len(s) + 1
    BY <1>1, <2>2, <2>3, <2>5 DEF Contains
  <2> QED BY <1>2, <2>4, <2>5
<1>10. ASSUME NEW a, NEW b, Before(s, a, b) PROVE Before(t, a, b)
  <2>1. PICK i \in 1..Len(s) : \E j \in 1..Len(s) : i < j /\ s[i] = a /\ s[j] = b
    BY <1>10 DEF Before
  <2>2. PICK j \in 1..Len(s) : i < j /\ s[i] = a /\ s[j] = b
    BY <2>1
  <2>3. i \in 1..Len(t) /\ j \in 1..Len(t) /\ t[i] = a /\ t[j] = b
    BY <1>1, <1>3, <2>2
  <2> QED BY <2>2, <2>3 DEF Before
<1> QED BY <1>1, <1>7, <1>8, <1>9, <1>10 DEF t

LEMMA RemoveFirstOrder ==
  ASSUME NEW S, NEW s \in Seq(S), NEW x, IsInjective(s)
  PROVE  LET t == RemoveFirst(s, x) IN
         /\ t \in Seq(S) /\ IsInjective(t)
         /\ \A a : Contains(t, a) <=> Contains(s, a) /\ a # x
         /\ \A a, b : Before(t, a, b) => Before(s, a, b)
<1> DEFINE t == RemoveFirst(s, x)
<1>1. CASE ~Contains(s, x)
  <2>1. t = s
    BY <1>1 DEF Contains, RemoveFirst
  <2> QED BY <1>1, <2>1
<1>2. CASE Contains(s, x)
  <2>1. PICK k \in 1..Len(s) : s[k] = x
    BY <1>2 DEF Contains
  <2>2. Len(s) \in Nat /\ DOMAIN s = 1..Len(s)
    OBVIOUS
  <2>3. {i \in 1..Len(s) : s[i] = x} = {k}
    BY <2>1, <2>2 DEF IsInjective
  <2>4. {k} # {} /\ k \in {k} /\ \A m \in {k} : k <= m
    BY <2>2
  <2>5. SelectInSeq(s, LAMBDA v : v = x) = k
    BY <2>3, <2>4 DEF SelectInSeq, Min
  <2>6. t = RemoveAt(s, k)
    BY <2>1, <2>5 DEF RemoveFirst
  <2>7. t = SubSeq(s, 1, k - 1) \o SubSeq(s, k + 1, Len(s))
    BY <2>6 DEF RemoveAt
  <2> DEFINE u == SubSeq(s, 1, k - 1)
             v == SubSeq(s, k + 1, Len(s))
  <2>8. u \in Seq(S) /\ Len(u) = k - 1 /\ \A i \in 1..k - 1 : u[i] = s[i]
    <3>1. 1 \in Int /\ k - 1 \in Int /\ \A i \in 1..k - 1 : s[i] \in S
      BY <2>2
    <3>2. /\ u \in Seq(S) /\ Len(u) = (IF 1 <= k - 1 THEN k - 1 - 1 + 1 ELSE 0)
          /\ \A i \in 1..k - 1 - 1 + 1 : u[i] = s[1 + i - 1]
      BY <3>1, SubSeqProperties
    <3> QED BY <2>2, <3>2
  <2>9. v \in Seq(S) /\ Len(v) = Len(s) - k /\ \A i \in 1..Len(s) - k : v[i] = s[k + i]
    <3>1. k + 1 \in Int /\ Len(s) \in Int /\ \A i \in k + 1..Len(s) : s[i] \in S
      BY <2>2
    <3>2. /\ v \in Seq(S) /\ Len(v) = (IF k + 1 <= Len(s) THEN Len(s) - (k + 1) + 1 ELSE 0)
          /\ \A i \in 1..Len(s) - (k + 1) + 1 : v[i] = s[k + 1 + i - 1]
      BY <3>1, SubSeqProperties
    <3> HIDE DEF v
    <3>3. Len(s) - (k + 1) + 1 = Len(s) - k /\ (~(k + 1 <= Len(s)) => Len(s) - k = 0)
      <4>1. \A n \in Nat : \A m \in 1..n : n - (m + 1) + 1 = n - m /\ (~(m + 1 <= n) => n - m = 0)
        OBVIOUS
      <4> QED BY <2>2, <4>1
    <3>4. Len(v) = Len(s) - k
      BY <3>2, <3>3
    <3>5. ASSUME NEW i \in 1..Len(s) - k PROVE v[i] = s[k + i]
      <4>1. k + 1 + i - 1 = k + i
        BY <2>2
      <4> QED BY <3>2, <3>3, <4>1
    <3> QED BY <3>2, <3>4, <3>5
  <2> HIDE DEF u, v
  <2>10. t = u \o v
    BY <2>7 DEF u, v
  <2> HIDE DEF t
  <2>11. /\ t \in Seq(S) /\ Len(t) = Len(u) + Len(v)
         /\ \A i \in 1..Len(u) + Len(v) : t[i] = IF i <= Len(u) THEN u[i] ELSE v[i - Len(u)]
    BY <2>8, <2>9, <2>10, ConcatProperties
  <2>12. /\ Len(t) = Len(s) - 1
         /\ \A i \in 1..Len(t) : t[i] = IF i < k THEN s[i] ELSE s[i + 1]
    <3>1. Len(t) = Len(s) - 1
      BY <2>2, <2>8, <2>9, <2>11
    <3>2. ASSUME NEW i \in 1..Len(t), i < k PROVE t[i] = s[i]
      <4>1. i \in 1..k - 1 /\ i <= Len(u) /\ i \in 1..Len(u) + Len(v)
        BY <2>2, <2>8, <2>9, <3>1, <3>2
      <4>2. t[i] = u[i]
        BY <2>11, <4>1
      <4> QED BY <2>8, <4>1, <4>2
    <3>3. ASSUME NEW i \in 1..Len(t), ~(i < k) PROVE t[i] = s[i + 1]
      <4>1. i - Len(u) \in 1..Len(s) - k /\ k + (i - Len(u)) = i + 1 /\ ~(i <= Len(u))
        BY <2>2, <2>8, <3>1, <3>3
      <4>2. i \in 1..Len(u) + Len(v)
        BY <2>2, <2>8, <2>9, <3>1
      <4>3. t[i] = v[i - Len(u)]
        BY <2>11, <4>1, <4>2
      <4>4. v[i - Len(u)] = s[k + (i - Len(u))]
        BY <2>9, <4>1
      <4> QED BY <4>1, <4>3, <4>4
    <3> QED BY <3>1, <3>2, <3>3
  <2> DEFINE At(i) == IF i < k THEN i ELSE i + 1
  <2>13. /\ \A i \in 1..Len(t) : At(i) \in 1..Len(s) /\ At(i) # k /\ t[i] = s[At(i)]
         /\ \A i, j \in 1..Len(t) : (i < j <=> At(i) < At(j)) /\ (At(i) = At(j) => i = j)
    BY <2>2, <2>11, <2>12
  <2>14. \A j \in 1..Len(s) : j # k => \E i \in 1..Len(t) : At(i) = j
    <3> SUFFICES ASSUME NEW j \in 1..Len(s), j # k PROVE \E i \in 1..Len(t) : At(i) = j
      OBVIOUS
    <3>1. CASE j < k
      <4>1. j \in 1..Len(t) /\ At(j) = j
        BY <2>2, <2>12, <3>1
      <4> QED BY <4>1
    <3>2. CASE j > k
      <4>1. j - 1 \in 1..Len(t) /\ At(j - 1) = j
        BY <2>2, <2>12, <3>2
      <4> QED BY <4>1
    <3> QED BY <2>2, <3>1, <3>2
  <2> HIDE DEF At
  <2>15. DOMAIN t = 1..Len(t)
    BY <2>11
  <2>16. IsInjective(t)
    BY <2>2, <2>13, <2>15 DEF IsInjective
  <2>17. \A j \in 1..Len(s) : s[j] = x => j = k
    BY <2>1, <2>2 DEF IsInjective
  <2>18. ASSUME NEW a, Contains(t, a) PROVE Contains(s, a) /\ a # x
    BY <2>13, <2>17, <2>18 DEF Contains
  <2>19. ASSUME NEW a, Contains(s, a), a # x PROVE Contains(t, a)
    <3>1. PICK j \in 1..Len(s) : s[j] = a
      BY <2>19 DEF Contains
    <3>2. PICK i \in 1..Len(t) : At(i) = j
      BY <2>1, <2>14, <2>19, <3>1
    <3> QED BY <2>13, <3>1, <3>2 DEF Contains
  <2>20. ASSUME NEW a, NEW b, Before(t, a, b) PROVE Before(s, a, b)
    <3>1. PICK i \in 1..Len(t) : \E j \in 1..Len(t) : i < j /\ t[i] = a /\ t[j] = b
      BY <2>20 DEF Before
    <3>2. PICK j \in 1..Len(t) : i < j /\ t[i] = a /\ t[j] = b
      BY <3>1
    <3> QED BY <2>13, <3>2 DEF Before
  <2> QED BY <2>11, <2>16, <2>18, <2>19, <2>20 DEF t
<1> QED BY <1>1, <1>2

(* Whoever is at the head of an order has nobody before it.                   *)
LEMMA HeadFirst ==
  ASSUME NEW S, NEW s \in Seq(S), NEW a, Contains(s, a), Head(s) # a
  PROVE  Before(s, Head(s), a)
<1>1. PICK j \in 1..Len(s) : s[j] = a
  BY DEF Contains
<1>2. Len(s) \in Nat /\ Head(s) = s[1] /\ 1 \in 1..Len(s) /\ 1 < j
  BY <1>1
<1> QED BY <1>1, <1>2 DEF Before

-----------------------------------------------------------------------------
(* Types.                                                                    *)

RowSet == [status: RowStatus, thread: Threads \cup {0}, cron: Nat, created: Nat]
WorkerSet == [pc: WorkerSteps, run: Runs \cup {0}]
JobSet == [state: JobStates, by: Slots \cup {"none", "dead"}, at: Nat,
           failures: 0..Attempts - 1, stalled: BOOLEAN]
DispSet == [pc: {"idle", "register", "work", "park", "mark", "advance"}, at: Nat]
AdvanceSet == [pc: {"idle", "look", "remove", "take", "promote"},
               thread: Homes \cup {0}, run: Runs \cup {0}, at: Nat]
RowTypes == /\ row \in [Runs -> RowSet] /\ lease \in [Threads -> Processes \cup {"free"}]
            /\ worker \in [Processes -> WorkerSet] /\ started \in [Runs -> Nat]
            /\ trouble \in 0..MaxTrouble
JobTypes == /\ job \in [Runs -> JobSet] /\ failed \subseteq Runs
PartTypes == /\ part \in [Homes -> Seq(Runs)] /\ \A th \in Homes : IsInjective(part[th])
             /\ arrived \in Seq(Runs) /\ IsInjective(arrived)
StartTypes == /\ marker \in [Runs -> Nat] /\ disp \in [Slots -> DispSet]
              /\ recon \in [Reconcilers -> AdvanceSet]

HistoryTypes == cancelled \subseteq Runs /\ overdue \subseteq Reconcilers

LEMMA Typed == TypeOK <=> RowTypes /\ JobTypes /\ PartTypes /\ StartTypes /\ HistoryTypes
BY DEF TypeOK, JobsTypeOK, QueueTypeOK, RowTypes, JobTypes, PartTypes, StartTypes, HistoryTypes,
       RowSet, WorkerSet, JobSet, DispSet, AdvanceSet
LEMMA Typed_next == TypeOK' <=> RowTypes' /\ JobTypes' /\ PartTypes' /\ StartTypes' /\ HistoryTypes'
BY DEF TypeOK, JobsTypeOK, QueueTypeOK, RowTypes, JobTypes, PartTypes, StartTypes, HistoryTypes,
       RowSet, WorkerSet, JobSet, DispSet, AdvanceSet

LEMMA Ids ==
  /\ Runs \subseteq Nat \ {0} /\ MaxTrouble \in Nat /\ Attempts \in Nat \ {0}
  /\ Slots \subseteq Processes /\ Requests \subseteq Processes /\ Slots \cap Requests = {}
  /\ Slots \subseteq Reconcilers /\ Sweepers \subseteq Reconcilers
  /\ 0 \notin Runs /\ 0 \notin Homes /\ Homes \subseteq Threads /\ Runs \subseteq Threads
  /\ IsFiniteSet(Slots) /\ IsFiniteSet(Reconcilers)
<1>1. IsFiniteSet(Slots)
  BY QueueAssumption, FS_Subset
<1> QED BY <1>1, JobsAssumption, QueueAssumption DEF Processes, Reconcilers, Threads

-----------------------------------------------------------------------------
(* The numbers of starts: Rank keeps the order of the numbers that are kept.   *)

LEMMA FiniteImage ==
  ASSUME NEW S, IsFiniteSet(S), NEW g
  PROVE  IsFiniteSet({g[x] : x \in S})
<1> DEFINE T == {g[x] : x \in S}
<1>1. PICK n \in Nat : ExistsSurjection(1..n, S)
  BY FS_NatSurjection
<1>2. PICK f \in Surjection(1..n, S) : TRUE
  BY <1>1 DEF ExistsSurjection
<1>3. [i \in 1..n |-> g[f[i]]] \in Surjection(1..n, T)
  BY <1>2 DEF Surjection
<1>4. ExistsSurjection(1..n, T)
  BY <1>3 DEF ExistsSurjection
<1> QED BY <1>1, <1>4, FS_NatSurjection

LEMMA KeptNumbers ==
  ASSUME TypeOK, NEW r \in Runs
  PROVE  /\ Kept(r) \subseteq Nat \ {0} /\ IsFiniteSet(Kept(r))
         /\ marker[r] # 0 => marker[r] \in Kept(r)
         /\ \A s \in Slots : worker[s].run = r /\ disp[s].at # 0 => disp[s].at \in Kept(r)
         /\ \A c \in Reconcilers : recon[c].run = r /\ recon[c].at # 0 => recon[c].at \in Kept(r)
<1> DEFINE Z == {z \in Slots : worker[z].run = r}
           C == {z \in Reconcilers : recon[z].run = r}
           f == [z \in Slots |-> disp[z].at]
           g == [z \in Reconcilers |-> recon[z].at]
           A == {f[x] : x \in Z}
           B == {g[x] : x \in C}
<1>1. RowTypes /\ StartTypes
  BY Typed
<1>2. IsFiniteSet(Z) /\ IsFiniteSet(C)
  BY Ids, FS_Subset
<1>3. IsFiniteSet(A) /\ IsFiniteSet(B)
  <2> HIDE DEF Z, C, f, g
  <2>1. IsFiniteSet(A)
    BY <1>2, FiniteImage
  <2>2. IsFiniteSet(B)
    BY <1>2, FiniteImage
  <2> QED BY <2>1, <2>2
<1>4. IsFiniteSet({marker[r]} \cup A)
  BY <1>3, FS_Singleton, FS_Union
<1>5. IsFiniteSet({marker[r]} \cup A \cup B)
  BY <1>3, <1>4, FS_Union
<1>6. Kept(r) = ({marker[r]} \cup A \cup B) \ {0}
  BY DEF Kept
<1>7. IsFiniteSet(Kept(r))
  BY <1>5, <1>6, FS_Subset
<1>8. A \subseteq Nat /\ B \subseteq Nat /\ marker[r] \in Nat
  BY <1>1 DEF StartTypes, DispSet, AdvanceSet
<1> QED BY <1>6, <1>7, <1>8

LEMMA Ranks ==
  ASSUME TypeOK, NEW r \in Runs
  PROVE  /\ NextStart(r) \in Nat /\ NextStart(r) # 0 /\ Rank(r, 0) = 0
         /\ \A n \in Nat : Rank(r, n) \in Nat /\ Rank(r, n) # NextStart(r)
         /\ \A n \in Kept(r) : Rank(r, n) # 0
         /\ \A m \in Kept(r), n \in Kept(r) : Rank(r, m) = Rank(r, n) => m = n
<1> DEFINE K == Kept(r)
           Low(n) == {k \in K : k <= n}
<1>1. K \subseteq Nat \ {0} /\ IsFiniteSet(K)
  BY KeptNumbers
<1>2. \A n : Rank(r, n) = Cardinality(Low(n))
  BY DEF Rank
<1>3. Cardinality(K) \in Nat /\ NextStart(r) = Cardinality(K) + 1
  BY <1>1, FS_CardinalityType DEF NextStart
<1> HIDE DEF K
<1>4. ASSUME NEW n PROVE /\ IsFiniteSet(Low(n)) /\ Cardinality(Low(n)) \in Nat
                         /\ Cardinality(Low(n)) <= Cardinality(K)
  <2>1. Low(n) \in SUBSET K
    OBVIOUS
  <2> QED BY <1>1, <2>1, FS_Subset, FS_CardinalityType
<1>5. Low(0) = {}
  <2>1. \A k \in K : ~(k <= 0)
    BY <1>1
  <2> QED BY <2>1
<1>6. Rank(r, 0) = 0
  BY <1>2, <1>5, FS_EmptySet
<1>7. ASSUME NEW n \in K PROVE Cardinality(Low(n)) # 0
  <2>1. n \in Low(n)
    <3>1. n <= n
      BY <1>1
    <3> QED BY <3>1
  <2> QED BY <1>4, <2>1, FS_EmptySet
<1>8. ASSUME NEW m \in K, NEW n \in K, m < n PROVE Cardinality(Low(m)) # Cardinality(Low(n))
  <2>1. Low(m) \in SUBSET Low(n)
    <3>1. \A k \in K : k <= m => k <= n
      BY <1>1, <1>8
    <3> QED BY <3>1
  <2>2. n \in Low(n) /\ n \notin Low(m)
    <3>1. n <= n /\ ~(n <= m)
      BY <1>1, <1>8
    <3> QED BY <3>1
  <2>3. Low(m) # Low(n)
    BY <2>2
  <2> HIDE DEF Low
  <2> QED BY <1>4, <2>1, <2>3, FS_Subset
<1>9. \A m \in K, n \in K : m < n \/ n < m \/ m = n
  BY <1>1
<1> HIDE DEF Low
<1>10. \A n \in Nat : Rank(r, n) \in Nat /\ Rank(r, n) # NextStart(r)
  BY <1>2, <1>3, <1>4
<1>11. \A m \in K, n \in K : Rank(r, m) = Rank(r, n) => m = n
  BY <1>2, <1>8, <1>9
<1> QED BY <1>2, <1>3, <1>6, <1>7, <1>10, <1>11 DEF K

-----------------------------------------------------------------------------
(* What a step leaves alone.                                                 *)

(* Rows stay, nobody is ever again to wait for who was resolved, and a request  *)
(* keeps its run.                                                           *)
Onward ==
  /\ \A r \in Runs : row[r].status # "absent" =>
       /\ row'[r].status # "absent" /\ row'[r].thread = row[r].thread
       /\ Resolved(r) => Resolved(r)'
  /\ failed \subseteq failed' /\ cancelled \subseteq cancelled'
  /\ \A q \in Requests :
       /\ worker[q].run # 0 => worker'[q].run = worker[q].run
       /\ worker[q].run = 0 /\ worker'[q].run # 0 => row[worker'[q].run].status = "absent"
  /\ \A r \in Runs : Contains(arrived, r) => Contains(arrived', r)

LEMMA DeliveredKept ==
  ASSUME TypeOK, Onward, NEW r \in Runs, Delivered(r)
  PROVE  Delivered(r)' /\ row'[r].thread = row[r].thread /\ (Resolved(r) => Resolved(r)')
BY Ids DEF Onward, Delivered

LEMMA ServingKept ==
  ASSUME TypeOK, Serving, Onward,
         \A s \in Slots : \/ ServingAt(s)'
                          \/ /\ disp'[s].pc = disp[s].pc /\ worker'[s] = worker[s]
                             /\ disp[s].at # 0 => disp'[s].at # 0
  PROVE  Serving'
<1> SUFFICES ASSUME NEW s \in Slots, disp'[s].pc = disp[s].pc, worker'[s] = worker[s],
                    disp[s].at # 0 => disp'[s].at # 0
             PROVE  ServingAt(s)'
  BY DEF Serving
<1>1. ServingAt(s) /\ worker[s].run \in Runs \cup {0}
  BY Typed, Ids DEF Serving, RowTypes, WorkerSet
<1>2. CASE worker[s].run = 0
  BY <1>1, <1>2 DEF ServingAt
<1>3. CASE worker[s].run \in Runs
  <2>1. disp[s].pc # "idle" /\ Delivered(worker[s].run)
    BY <1>1, <1>3, Ids DEF ServingAt, Idle
  <2>2. Delivered(worker[s].run)' /\ (Resolved(worker[s].run) => Resolved(worker[s].run)')
        /\ (Contains(arrived, worker[s].run) => Contains(arrived', worker[s].run))
    BY <1>3, <2>1, DeliveredKept DEF Onward, Delivered
  <2> QED BY <1>1, <2>2 DEF ServingAt
<1> QED BY <1>1, <1>2, <1>3

(* A process that goes on as it was, or is not past the claim.                *)
LEMMA ExecutingKept ==
  ASSUME TypeOK, Executing, Onward,
         \A p \in Processes :
           \/ ExecutingAt(p)'
           \/ /\ worker'[p] = worker[p] /\ \A th \in Threads : lease[th] = p => lease'[th] = p
              /\ worker[p].pc = "start" /\ Finished(worker[p].run)' =>
                   Finished(worker[p].run) \/ worker[p].run \in cancelled'
  PROVE  Executing'
<1> SUFFICES ASSUME NEW p \in Processes, worker'[p] = worker[p],
                    \A th \in Threads : lease[th] = p => lease'[th] = p,
                    worker[p].pc = "start" /\ Finished(worker[p].run)' =>
                      Finished(worker[p].run) \/ worker[p].run \in cancelled'
             PROVE  ExecutingAt(p)'
  BY DEF Executing
<1>1. ExecutingAt(p) /\ worker[p].run \in Runs \cup {0}
  BY Typed DEF Executing, RowTypes, WorkerSet
<1>2. PICK r : r = worker[p].run
  OBVIOUS
<1>3. CASE r = 0
  BY <1>1, <1>2, <1>3 DEF ExecutingAt, UnderClaim
<1>4. CASE r \in Runs
  <2>1. row[r].status # "absent" /\ row[r].thread \in Homes /\ r # 0
    BY <1>1, <1>2, <1>4, Ids DEF ExecutingAt
  <2>2. row'[r].status # "absent" /\ row'[r].thread = row[r].thread /\ row[r].thread \in Threads
    BY <1>4, <2>1, Ids DEF Onward
  <2>3. cancelled \subseteq cancelled'
    BY DEF Onward
  <2> QED BY <1>1, <1>2, <2>1, <2>2, <2>3 DEF ExecutingAt, ThreadAt
<1> QED BY <1>1, <1>2, <1>3, <1>4

(* The queue does nothing with r.                                            *)
Same(r) ==
  /\ job'[r].state = job[r].state /\ (r \in failed' => r \in failed)
  /\ Contains(arrived', r) => Contains(arrived, r)
  /\ row[r].status # "absent" \/ row'[r] = row[r] \/ \E q \in Requests : worker'[q].run = r
  /\ \A s \in Slots : worker'[s].run = r => worker[s].run = r

LEMMA BackedKept ==
  ASSUME TypeOK, Backed, Onward, \A r \in Runs : BackedAt(r)' \/ Same(r),
         \A q \in Requests : worker'[q].run # 0 => worker'[q].run \in Runs,
         \A q \in Requests : worker[q].run = 0 /\ worker'[q].run # 0 => row'[worker'[q].run].status # "absent"
  PROVE  Backed'
<1>1. ASSUME NEW r \in Runs, Same(r) PROVE BackedAt(r)'
  <2>1. BackedAt(r)
    BY DEF Backed
  <2>2. Delivered(r)' => row[r].status # "absent"
    BY <1>1 DEF Same, Delivered
  <2>3. Delivered(r)' => Delivered(r)
    BY <2>2, Ids DEF Onward, Delivered
  <2>4. Delivered(r) => Delivered(r)' /\ (Resolved(r) => Resolved(r)')
    BY DeliveredKept
  <2> QED BY <1>1, <2>1, <2>3, <2>4 DEF Same, BackedAt
<1>2. ASSUME NEW q \in Requests, worker'[q].run # 0 PROVE row'[worker'[q].run].status # "absent"
  <2>1. CASE worker[q].run = 0
    BY <1>2, <2>1
  <2>2. CASE worker[q].run # 0
    BY <1>2, <2>2 DEF Onward, Backed
  <2> QED BY <2>1, <2>2
<1> QED BY <1>1, <1>2 DEF Backed

LEMMA ArrivedDelivered ==
  ASSUME Backed, NEW r \in Runs, Contains(arrived, r)
  PROVE  Delivered(r) /\ row[r].status # "absent" /\ row[r].thread \in Homes
BY DEF Backed, BackedAt, Delivered

LEMMA EarlierArrived ==
  ASSUME TypeOK, NEW q, NEW r, Earlier(q, r)
  PROVE  Contains(arrived, q) /\ Contains(arrived, r)
<1>1. DOMAIN arrived = 1..Len(arrived)
  BY Typed DEF PartTypes
<1> QED BY <1>1 DEF Earlier, Contains

(* Steps that leave the orders alone and put no slot to work.                 *)
LEMMA OrderKept ==
  ASSUME TypeOK, Backed, Order, Onward, UNCHANGED <<part, arrived>>,
         \A s \in Slots : disp'[s].pc = "work" => disp[s].pc = "work" /\ worker'[s].run = worker[s].run,
         \A s \in Slots : disp[s].pc = "work" => worker[s].run \in Runs /\ Contains(arrived, worker[s].run),
         \A c \in Reconcilers : \/ AdvancesAt(c)'
                                \/ /\ recon'[c].pc = recon[c].pc /\ recon'[c].run = recon[c].run
                                   /\ recon'[c].thread = recon[c].thread
  PROVE  Order'
<1>1. \A r \in Runs : Contains(arrived, r) =>
        row'[r].thread = row[r].thread /\ (Resolved(r) => Resolved(r)')
  BY ArrivedDelivered, DeliveredKept
<1>2. \A q, r : Earlier(q, r)' <=> Earlier(q, r)
  BY DEF Earlier
<1>3. Parts'
  BY <1>1 DEF Order, Parts
<1>4. Placed'
  BY <1>1, <1>2 DEF Order, Placed, PartOf
<1>5. ASSUME NEW s \in Slots PROVE ClearedAt(s)'
  <2> SUFFICES ASSUME disp'[s].pc = "work", NEW q \in Runs, Earlier(q, worker'[s].run),
                      row'[q].thread = row'[worker'[s].run].thread
               PROVE  Resolved(q)'
    BY <1>2 DEF ClearedAt, ThreadAt
  <2>1. disp[s].pc = "work" /\ worker'[s].run = worker[s].run /\ ClearedAt(s)
    BY DEF Order, Cleared
  <2>2. Contains(arrived, q) /\ worker[s].run \in Runs /\ Contains(arrived, worker[s].run)
    BY <2>1, EarlierArrived
  <2> QED BY <1>1, <2>1, <2>2 DEF ClearedAt, ThreadAt
<1>6. ASSUME NEW c \in Reconcilers, recon'[c].pc = recon[c].pc, recon'[c].run = recon[c].run,
             recon'[c].thread = recon[c].thread
      PROVE  AdvancesAt(c)'
  <2>1. AdvancesAt(c) /\ recon[c].run \in Runs \cup {0}
    BY Typed DEF Order, Advances, StartTypes, AdvanceSet
  <2> QED BY <1>1, <1>6, <2>1 DEF AdvancesAt
<1> QED BY <1>3, <1>4, <1>5, <1>6 DEF Order, Cleared, Advances

(* Whoever counts on a parked job that moves is overdue, and stays so.         *)
Late ==
  /\ overdue' \subseteq Reconcilers
  /\ \A c \in overdue :
       recon'[c] = recon[c] /\ recon[c].pc \in {"take", "promote"} => c \in overdue'

LEMMA SameLate == ASSUME TypeOK, UNCHANGED overdue PROVE Late
BY Typed DEF Late, HistoryTypes

LEMMA EndedLate ==
  ASSUME TypeOK, NEW c \in Reconcilers, overdue' = overdue \ {c},
         recon'[c].pc \notin {"take", "promote"}
  PROVE  Late
BY Typed DEF Late, HistoryTypes

JobMoved(r) ==
  /\ job[r].state # "parked" \/ Watching(r) \subseteq overdue'
  /\ job'[r].state = "parked" => job'[r].at # 0
  /\ job'[r].state \in {"busy", "backoff"} => Dead(r, job[r].at)'
JobStill(r) == job'[r].state = job[r].state /\ job'[r].at = job[r].at

(* Steps that give no start a number or a marker, and let no advance go on.   *)
LEMMA StartsKept ==
  ASSUME TypeOK, Serving, Order, Starts, Late,
         \A s \in Slots : worker'[s].run = 0 \/ (worker'[s].run = worker[s].run /\ disp'[s].at = disp[s].at),
         \A r \in Runs : marker'[r] \in {marker[r], 0},
         \A r \in Runs : JobStill(r) \/ JobMoved(r),
         \A c \in Reconcilers : recon'[c] = recon[c] \/ recon'[c].pc \notin {"take", "promote"}
  PROVE  Starts'
<1>1. \A s \in Slots : /\ worker'[s].run # 0 => worker'[s].run = worker[s].run /\ disp'[s].at = disp[s].at
                       /\ worker[s].run # 0 => disp[s].at # 0 /\ worker[s].run \in Runs
  BY Typed, Ids DEF Serving, ServingAt, Idle, RowTypes, WorkerSet
<1>2. ASSUME NEW r \in Runs, NEW n, n # 0, Dead(r, n) PROVE Dead(r, n)'
  BY <1>1, <1>2, Ids DEF Dead
<1>3. Apart'
  BY <1>1 DEF Starts, Apart
<1>4. ASSUME NEW r \in Runs PROVE /\ job'[r].state \in {"busy", "backoff"} => Dead(r, job[r].at)'
                                  /\ job'[r].state = "parked" => job'[r].at # 0
  <2>1. CASE JobMoved(r)
    BY <2>1 DEF JobMoved
  <2>2. CASE JobStill(r)
    <3>1. PICK n : n = job[r].at
      OBVIOUS
    <3>2. job[r].state \in {"busy", "backoff"} => Dead(r, n) /\ n # 0
      BY <3>1 DEF Starts, Delays, Dead
    <3>3. job[r].state \in {"busy", "backoff"} => Dead(r, n)'
      BY <1>2, <3>2
    <3>4. Dead(r, n)' => Dead(r, job[r].at)'
      BY <2>2, <3>1 DEF JobStill, Dead
    <3> QED BY <2>2, <3>1, <3>3, <3>4 DEF JobStill, Starts, Delays
  <2> QED BY <2>1, <2>2
<1>5. ASSUME NEW c \in Reconcilers, recon'[c].pc \in {"take", "promote"}
      PROVE  recon'[c] = recon[c] /\ recon[c].run \in Runs
  BY <1>5, Typed, Ids DEF Order, Advances, AdvancesAt, StartTypes, AdvanceSet
<1>6. ASSUME NEW c \in Reconcilers, recon'[c].pc = "take", c \notin overdue'
      PROVE  \/ job'[recon'[c].run].state = "parked" /\ job'[recon'[c].run].at = recon'[c].at
             \/ Dead(recon[c].run, recon[c].at)'
  <2>1. recon'[c] = recon[c] /\ recon[c].run \in Runs /\ c \notin overdue
    BY <1>5, <1>6 DEF Late
  <2>2. PICK n : n = recon[c].at
    OBVIOUS
  <2>3. PICK r \in Runs : r = recon[c].run
    BY <2>1
  <2>4. CASE Dead(r, n)
    <3>1. Dead(r, n)'
      BY <1>2, <2>4 DEF Dead
    <3> QED BY <2>1, <2>2, <2>3, <3>1 DEF Dead
  <2>5. CASE job[r].state = "parked" /\ job[r].at = n
    <3>1. c \in Watching(r)
      BY <1>6, <2>1, <2>2, <2>3, <2>5 DEF Watching
    <3>2. JobStill(r)
      BY <1>6, <2>5, <3>1 DEF JobMoved
    <3> QED BY <2>1, <2>2, <2>3, <2>5, <3>2 DEF JobStill
  <2> QED BY <1>6, <2>1, <2>2, <2>3, <2>4, <2>5 DEF Starts, Taking, TakingAt
<1>7. ASSUME NEW c \in Reconcilers, recon'[c].pc = "promote", c \notin overdue'
      PROVE  /\ job'[recon'[c].run].state = "parked" /\ job'[recon'[c].run].at = recon'[c].at
             /\ Dead(recon[c].run, recon[c].at)'
  <2>1. recon'[c] = recon[c] /\ recon[c].run \in Runs /\ c \notin overdue
    BY <1>5, <1>7 DEF Late
  <2>2. PICK r \in Runs : r = recon[c].run
    BY <2>1
  <2>3. PICK n : n = recon[c].at
    OBVIOUS
  <2>4. job[r].state = "parked" /\ job[r].at = n /\ Dead(r, n)
    BY <1>7, <2>1, <2>2, <2>3 DEF Starts, Promoting, PromotingAt
  <2>5. c \in Watching(r)
    BY <1>7, <2>1, <2>2, <2>3, <2>4 DEF Watching
  <2>6. JobStill(r)
    BY <1>7, <2>4, <2>5 DEF JobMoved
  <2>7. Dead(r, n)'
    BY <1>2, <2>4 DEF Dead
  <2> QED BY <2>1, <2>2, <2>3, <2>4, <2>6, <2>7 DEF JobStill, Dead
<1>8. Taking'
  BY <1>6 DEF Taking, TakingAt
<1>9. Promoting'
  <2>1. \A c \in Reconcilers : PromotingAt(c)'
    BY <1>7 DEF PromotingAt
  <2>2. \A c \in Reconcilers : recon'[c].pc = "promote" /\ c \notin overdue' =>
          recon'[c] = recon[c] /\ c \notin overdue
    BY <1>5 DEF Late
  <2> QED BY <2>1, <2>2 DEF Starts, Promoting
<1>10. Delays'
  BY <1>4 DEF Delays
<1> QED BY <1>3, <1>8, <1>9, <1>10 DEF Starts

-----------------------------------------------------------------------------
(* What the operators on jobs, slots and executions return.                   *)

LEMMA MovedJob ==
  ASSUME TypeOK, NEW r \in Runs, NEW state \in JobStates, NEW at \in Nat
  PROVE  LET j == Moved(r, state, at) IN
         /\ j \in [Runs -> JobSet] /\ j[r].state = state /\ j[r].at = at
         /\ j[r].failures = job[r].failures
         /\ \A q \in Runs \ {r} : j[q] = job[q]
<1>1. job \in [Runs -> JobSet]
  BY Typed DEF JobTypes
<1> DEFINE j == Moved(r, state, at)
<1>2. /\ DOMAIN j = Runs /\ \A q \in Runs \ {r} : j[q] = job[q]
      /\ j[r] = [job[r] EXCEPT !.state = state, !.by = "none", !.at = at]
  BY <1>1 DEF Moved
<1>3. j = [q \in Runs |-> j[q]]
  BY <1>1 DEF Moved
<1> HIDE DEF j
<1>4. job[r] \in JobSet
  BY <1>1
<1>5. /\ j[r] \in JobSet /\ j[r].state = state /\ j[r].at = at /\ j[r].failures = job[r].failures
  BY <1>2, <1>4 DEF JobSet
<1>6. \A q \in Runs : j[q] \in JobSet
  BY <1>1, <1>2, <1>5
<1>7. j \in [Runs -> JobSet]
  BY <1>3, <1>6
<1> QED BY <1>2, <1>5, <1>7 DEF j

LEMMA NoJobType == NoJob \in JobSet /\ NoJob.state = "none"
BY Ids DEF NoJob, JobSet, JobStates, Native

LEMMA AddedJob ==
  ASSUME TypeOK, NEW r \in Runs, NEW state \in JobStates, Add(r, state)
  PROVE  /\ job' \in [Runs -> JobSet] /\ \A q \in Runs \ {r} : job'[q] = job[q]
         /\ \/ job[r].state = "none" /\ job'[r].state = state
            \/ job[r].state # "none" /\ job'[r] = job[r]
<1>1. job \in [Runs -> JobSet]
  BY Typed DEF JobTypes
<1>2. [NoJob EXCEPT !.state = state] \in JobSet /\ [NoJob EXCEPT !.state = state].state = state
  BY Ids, NoJobType DEF NoJob, JobSet
<1> QED BY <1>1, <1>2 DEF Add

(* A failed job waits, for a while or not, or is given up.                    *)
LEMMA FailedJob ==
  ASSUME TypeOK, NEW r \in Runs, NEW at \in Nat, FailJob(r, at)
  PROVE  /\ job' \in [Runs -> JobSet] /\ \A q \in Runs \ {r} : job'[q] = job[q]
         /\ failed \subseteq failed' /\ failed' \subseteq failed \cup {r}
         /\ \/ job'[r].state = "wait" /\ UNCHANGED failed
            \/ job'[r].state = "backoff" /\ job'[r].at = at /\ UNCHANGED failed
            \/ job'[r].state = "none" /\ r \in failed'
<1>1. job \in [Runs -> JobSet]
  BY Typed DEF JobTypes
<1>2. CASE r \in Retried /\ job[r].failures + 1 < Attempts
  <2>1. PICK state \in {"wait", "backoff"} :
          job' = [Moved(r, state, IF state = "wait" THEN 0 ELSE at) EXCEPT ![r].failures = @ + 1]
    BY <1>2 DEF FailJob
  <2> DEFINE n == IF state = "wait" THEN 0 ELSE at
             j == Moved(r, state, n)
  <2>2. /\ j \in [Runs -> JobSet] /\ j[r].state = state /\ j[r].at = n
        /\ j[r].failures = job[r].failures /\ \A q \in Runs \ {r} : j[q] = job[q]
    <3>1. state \in JobStates /\ n \in Nat
      BY <2>1 DEF JobStates, Native
    <3> HIDE DEF n
    <3> QED BY <3>1, MovedJob
  <2>3. job' = [j EXCEPT ![r].failures = @ + 1]
    BY <2>1
  <2> HIDE DEF j
  <2>4. j[r].failures + 1 \in 0..Attempts - 1
    BY <1>1, <1>2, <2>2, Ids DEF JobSet
  <2>5. /\ job' = [q \in Runs |-> job'[q]] /\ \A q \in Runs \ {r} : job'[q] = j[q]
        /\ job'[r] = [j[r] EXCEPT !.failures = @ + 1]
    BY <2>2, <2>3
  <2>6. job'[r] \in JobSet /\ job'[r].state = state /\ job'[r].at = n
    BY <2>2, <2>4, <2>5 DEF JobSet
  <2>8. job' \in [Runs -> JobSet]
    BY <2>2, <2>5, <2>6
  <2>7. \A q \in Runs \ {r} : job'[q] = job[q]
    BY <2>2, <2>5
  <2> QED BY <1>2, <2>1, <2>6, <2>7, <2>8 DEF FailJob
<1>3. CASE ~(r \in Retried /\ job[r].failures + 1 < Attempts)
  BY <1>1, <1>3, NoJobType DEF FailJob
<1> QED BY <1>2, <1>3

LEMMA WentTo ==
  ASSUME TypeOK, NEW s \in Slots, NEW pc \in {"idle", "register", "work", "park", "mark", "advance"}
  PROVE  /\ Goto(s, pc) \in [Slots -> DispSet] /\ Goto(s, pc)[s].pc = pc /\ Goto(s, pc)[s].at = disp[s].at
         /\ \A z \in Slots \ {s} : Goto(s, pc)[z] = disp[z]
BY Typed DEF Goto, StartTypes, DispSet

LEMMA SteppedTo ==
  ASSUME TypeOK, NEW p \in Processes, NEW pc \in WorkerSteps
  PROVE  /\ Stepped(p, pc) \in [Processes -> WorkerSet] /\ Stepped(p, pc)[p].pc = pc
         /\ Stepped(p, pc)[p].run = worker[p].run
         /\ \A z \in Processes \ {p} : Stepped(p, pc)[z] = worker[z]
BY Typed DEF Stepped, RowTypes, WorkerSet

LEMMA Left ==
  ASSUME TypeOK, NEW s \in Slots, Leave(s)
  PROVE  /\ disp' \in [Slots -> DispSet] /\ worker' \in [Processes -> WorkerSet]
         /\ disp'[s].pc = "idle" /\ worker'[s] = Idle /\ worker'[s].run = 0
         /\ \A z \in Slots \ {s} : disp'[z] = disp[z] /\ worker'[z] = worker[z]
         /\ \A q \in Requests : worker'[q] = worker[q]
         /\ ServingAt(s)'
<1>1. /\ NoDispatch \in DispSet /\ NoDispatch.pc = "idle" /\ Idle \in WorkerSet /\ Idle.run = 0
      /\ Idle.pc = "idle"
  BY DEF NoDispatch, DispSet, Idle, WorkerSet, WorkerSteps
<1>2. /\ disp \in [Slots -> DispSet] /\ worker \in [Processes -> WorkerSet]
  BY Typed DEF StartTypes, RowTypes
<1>3. /\ disp'[s] = NoDispatch /\ worker'[s] = Idle
      /\ disp' \in [Slots -> DispSet] /\ worker' \in [Processes -> WorkerSet]
  BY <1>1, <1>2, Ids DEF Leave
<1>4. ServingAt(s)'
  BY <1>1, <1>3 DEF ServingAt
<1> QED BY <1>1, <1>2, <1>3, <1>4, Ids DEF Leave

(* A slot at work serves a delivered run.                                     *)
LEMMA Served ==
  ASSUME TypeOK, Serving, Backed, NEW s \in Slots, disp[s].pc # "idle" \/ worker[s].run # 0
  PROVE  /\ worker[s].run \in Runs /\ Delivered(worker[s].run) /\ disp[s].at \in Nat \ {0}
         /\ disp[s].pc # "idle" /\ row[worker[s].run].thread \in Homes
         /\ row[worker[s].run].status # "absent"
<1>1. ServingAt(s) /\ worker[s].run \in Runs \cup {0} /\ disp[s].at \in Nat
  BY Typed, Ids DEF Serving, RowTypes, WorkerSet, StartTypes, DispSet
<1>2. disp[s].pc # "idle"
  BY <1>1 DEF ServingAt, Idle
<1> QED BY <1>1, <1>2 DEF ServingAt, Delivered

LEMMA WorkingArrived ==
  ASSUME TypeOK, Serving, Backed
  PROVE  \A s \in Slots : disp[s].pc = "work" => worker[s].run \in Runs /\ Contains(arrived, worker[s].run)
BY Served DEF Serving, ServingAt

LEMMA TroubleType == ASSUME TypeOK, Trouble \/ UNCHANGED trouble PROVE trouble' \in 0..MaxTrouble
BY Typed, Ids DEF Trouble, RowTypes

-----------------------------------------------------------------------------
(* The steps of jobs and rows.                                               *)

(* BullMQ moves a job.                                                       *)
LEMMA JobStep ==
  ASSUME IInv, UNCHANGED <<row, lease, worker, started, part, marker, disp, recon, arrived, cancelled>>,
         trouble' \in 0..MaxTrouble, job' \in [Runs -> JobSet],
         failed \subseteq failed', failed' \subseteq Runs, Late,
         \A r \in Runs : BackedAt(r)' \/ Same(r), \A r \in Runs : JobStill(r) \/ JobMoved(r)
  PROVE  IInv'
<1> USE DEF IInv
<1>1. TypeOK'
  BY Typed, Typed_next DEF RowTypes, JobTypes, PartTypes, StartTypes, HistoryTypes, Late
<1>2. Onward
  BY DEF Onward, Resolved, Finished
<1>3. Serving'
  BY <1>2, ServingKept
<1>4. Backed'
  <2>1. \A q \in Requests : worker'[q].run # 0 => worker'[q].run \in Runs
    BY Typed, Ids DEF RowTypes, WorkerSet
  <2> QED BY <1>2, <2>1, BackedKept DEF Backed
<1>5. Order'
  BY <1>2, OrderKept, WorkingArrived
<1>6. Starts'
  BY StartsKept DEF Starts, Order
<1>7. Executing'
  BY <1>2, ExecutingKept DEF Finished
<1> QED BY <1>1, <1>3, <1>4, <1>5, <1>6, <1>7

(* One job changes its state, from one that is not "none".                    *)
LEMMA OtherJobs ==
  ASSUME TypeOK, NEW r \in Runs, \A q \in Runs \ {r} : job'[q] = job[q],
         failed \subseteq failed', failed' \subseteq failed \cup {r}, UNCHANGED <<arrived, row>>,
         \A s \in Slots : worker'[s].run # 0 => worker'[s].run = worker[s].run
  PROVE  \A q \in Runs \ {r} : Same(q) /\ JobStill(q)
BY Ids DEF Same, JobStill

LEMMA Timer_Kept == ASSUME IInv, NEW r \in Runs, Timer(r) PROVE IInv'
<1> USE DEF IInv
<1>1. /\ job[r].state \in Native \cup {"parked"} /\ job' = Moved(r, "wait", 0)
      /\ UNCHANGED <<part, marker, disp, recon, arrived, failed, row, lease, worker, started, trouble, cancelled>>
  BY DEF Timer, jobs
<1>2. /\ job' \in [Runs -> JobSet] /\ job'[r].state = "wait" /\ \A q \in Runs \ {r} : job'[q] = job[q]
  BY <1>1, MovedJob DEF JobStates, Native
<1>3. \A q \in Runs \ {r} : Same(q) /\ JobStill(q)
  BY <1>1, <1>2, OtherJobs
<1>4. BackedAt(r)'
  BY <1>1, <1>2 DEF Backed, BackedAt, Delivered, Native
<1>5. JobMoved(r) /\ Late
  BY <1>1, <1>2, Typed DEF Timer, JobMoved, Late, Watching, HistoryTypes
<1>6. trouble' \in 0..MaxTrouble /\ failed' \subseteq Runs
  BY <1>1, Typed DEF RowTypes, JobTypes
<1> QED BY <1>1, <1>2, <1>3, <1>4, <1>5, <1>6, JobStep

LEMMA Stalled_Kept == ASSUME IInv, NEW r \in Runs, Stalled(r) PROVE IInv'
<1> USE DEF IInv
<1>1. /\ job[r].state = "active"
      /\ UNCHANGED <<part, marker, disp, recon, arrived, row, lease, worker, started, trouble, cancelled, overdue>>
  BY DEF Stalled, jobs
<1>2. job \in [Runs -> JobSet] /\ failed \subseteq Runs
  BY Typed DEF JobTypes
<1>3. /\ job' \in [Runs -> JobSet] /\ \A q \in Runs \ {r} : job'[q] = job[q]
      /\ \/ job'[r].state = "none" /\ failed' = failed \cup {r}
         \/ job'[r].state = "wait" /\ UNCHANGED failed
  <2>1. CASE job[r].stalled
    BY <1>2, <2>1, NoJobType DEF Stalled
  <2>2. CASE ~job[r].stalled
    <3> DEFINE j == Moved(r, "wait", 0)
    <3>1. /\ j \in [Runs -> JobSet] /\ j[r].state = "wait" /\ \A q \in Runs \ {r} : j[q] = job[q]
      BY MovedJob DEF JobStates
    <3>2. job' = [j EXCEPT ![r].stalled = TRUE] /\ UNCHANGED failed
      BY <2>2 DEF Stalled
    <3> HIDE DEF j
    <3>3. /\ job' = [q \in Runs |-> job'[q]] /\ \A q \in Runs \ {r} : job'[q] = j[q]
          /\ job'[r] = [j[r] EXCEPT !.stalled = TRUE]
      BY <3>1, <3>2
    <3>4. job'[r] \in JobSet /\ job'[r].state = "wait"
      BY <3>1, <3>3 DEF JobSet
    <3> QED BY <3>1, <3>2, <3>3, <3>4
  <2> QED BY <2>1, <2>2
<1>4. \A q \in Runs \ {r} : Same(q) /\ JobStill(q)
  BY <1>1, <1>3, OtherJobs
<1>5. BackedAt(r)'
  BY <1>1, <1>3 DEF Backed, BackedAt, Delivered, Resolved
<1>6. JobMoved(r)
  BY <1>1, <1>3 DEF JobMoved
<1>7. trouble' \in 0..MaxTrouble /\ failed \subseteq failed' /\ failed' \subseteq Runs
  BY <1>1, <1>2, <1>3, Typed DEF RowTypes
<1> QED BY <1>1, <1>3, <1>4, <1>5, <1>6, <1>7, SameLate, JobStep

LEMMA Resubmit_Kept == ASSUME IInv, NEW r \in Runs, Resubmit(r) PROVE IInv'
<1> USE DEF IInv
<1>1. /\ r \in failed /\ Add(r, "wait")
      /\ UNCHANGED <<part, marker, disp, recon, arrived, failed, row, lease, worker, started, trouble, cancelled, overdue>>
  BY DEF Resubmit, jobs
<1>2. /\ job' \in [Runs -> JobSet] /\ \A q \in Runs \ {r} : job'[q] = job[q]
      /\ \/ job[r].state = "none" /\ job'[r].state = "wait"
         \/ job[r].state # "none" /\ job'[r] = job[r]
  BY <1>1, AddedJob DEF JobStates
<1>3. \A q \in Runs \ {r} : Same(q) /\ JobStill(q)
  BY <1>1, <1>2, OtherJobs
<1>4. BackedAt(r)'
  BY <1>1, <1>2 DEF Backed, BackedAt, Delivered
<1>5. JobStill(r) \/ JobMoved(r)
  BY <1>2 DEF JobStill, JobMoved
<1>6. trouble' \in 0..MaxTrouble /\ failed' \subseteq Runs
  BY <1>1, Typed DEF RowTypes, JobTypes
<1> QED BY <1>1, <1>2, <1>3, <1>4, <1>5, <1>6, SameLate, JobStep

LEMMA LoseLock_Kept == ASSUME IInv, NEW s \in Slots, LoseLock(s) PROVE IInv'
<1> USE DEF IInv
<1>1. PICK r \in Runs : r = worker[s].run
  BY Served DEF LoseLock
<1>2. /\ job[r].state = "active" /\ job' = [job EXCEPT ![r].by = "dead"] /\ Trouble
      /\ UNCHANGED <<part, marker, disp, recon, arrived, failed, row, lease, worker, started, cancelled, overdue>>
  BY <1>1 DEF LoseLock, Holds
<1>3. job \in [Runs -> JobSet] /\ failed \subseteq Runs
  BY Typed DEF JobTypes
<1>4. /\ job' \in [Runs -> JobSet] /\ \A q \in Runs \ {r} : job'[q] = job[q]
      /\ job'[r].state = "active"
  <2>1. /\ job' = [q \in Runs |-> job'[q]] /\ \A q \in Runs \ {r} : job'[q] = job[q]
        /\ job'[r] = [job[r] EXCEPT !.by = "dead"]
    BY <1>2, <1>3
  <2>2. job'[r] \in JobSet /\ job'[r].state = "active"
    BY <1>2, <1>3, <2>1 DEF JobSet
  <2> QED BY <1>3, <2>1, <2>2
<1>5. \A q \in Runs \ {r} : Same(q) /\ JobStill(q)
  BY <1>2, <1>4, OtherJobs
<1>6. BackedAt(r)' /\ JobMoved(r)
  BY <1>2, <1>4 DEF Backed, BackedAt, Delivered, JobMoved
<1> QED BY <1>2, <1>3, <1>4, <1>5, <1>6, TroubleType, SameLate, JobStep

(* Rows and executions move, the queue does not.                              *)
LEMMA RowStep ==
  ASSUME IInv, UNCHANGED <<part, marker, disp, recon, arrived, failed, overdue>>, RowTypes', JobTypes',
         Onward, Serving', Executing', cancelled' \subseteq Runs,
         \A s \in Slots : worker'[s].run = worker[s].run,
         \A r \in Runs : BackedAt(r)' \/ Same(r), \A r \in Runs : JobStill(r) \/ JobMoved(r),
         \A q \in Requests : worker[q].run = 0 /\ worker'[q].run # 0 => row'[worker'[q].run].status # "absent"
  PROVE  IInv'
<1> USE DEF IInv
<1>1. TypeOK'
  BY Typed, Typed_next DEF PartTypes, StartTypes, HistoryTypes
<1>2. Backed'
  <2>1. \A q \in Requests : worker'[q].run # 0 => worker'[q].run \in Runs
    BY Ids DEF RowTypes, WorkerSet
  <2> QED BY <2>1, BackedKept
<1>3. Order'
  BY OrderKept, WorkingArrived
<1>4. Starts'
  BY SameLate, StartsKept DEF Starts, Order
<1> QED BY <1>1, <1>2, <1>3, <1>4

LEMMA InsertedRow ==
  ASSUME TypeOK, NEW r \in Runs, NEW th \in Homes
  PROVE  /\ Inserted(r, th, 0, 0) \in [Runs -> RowSet]
         /\ Inserted(r, th, 0, 0)[r].status = "pending" /\ Inserted(r, th, 0, 0)[r].thread = th
         /\ \A q \in Runs \ {r} : Inserted(r, th, 0, 0)[q] = row[q]
BY Typed, Ids DEF Inserted, RowTypes, RowSet, RowStatus

LEMMA NextIsAbsent == ASSUME NEW r \in Runs, IsNext(r) PROVE row[r].status = "absent"
BY Ids DEF IsNext

LEMMA Submit_Kept == ASSUME IInv, NEW r \in Runs, NEW th \in Homes, Submit(r, th) PROVE IInv'
<1> USE DEF IInv
<1>1. PICK state \in {"wait", "after"} : Add(r, state)
  BY DEF Submit
<1>2. /\ row' = Inserted(r, th, 0, 0) /\ row[r].status = "absent"
      /\ UNCHANGED <<part, marker, disp, recon, arrived, failed, lease, worker, started, trouble, cancelled, overdue>>
  BY NextIsAbsent DEF Submit
<1>3. /\ row' \in [Runs -> RowSet] /\ row'[r].status = "pending" /\ row'[r].thread = th
      /\ \A q \in Runs \ {r} : row'[q] = row[q]
  BY <1>2, InsertedRow
<1>4. job[r].state = "none" /\ r \notin failed /\ ~Contains(arrived, r)
  BY <1>2 DEF Backed, BackedAt, Delivered
<1>5. /\ job' \in [Runs -> JobSet] /\ \A q \in Runs \ {r} : job'[q] = job[q]
      /\ job'[r].state \in {"wait", "after"}
  BY <1>1, <1>4, AddedJob DEF JobStates, Native
<1>6. Onward
  BY <1>2, <1>3 DEF Onward, Resolved, Finished
<1>7. \A q \in Runs \ {r} : Same(q) /\ JobStill(q)
  BY <1>2, <1>3, <1>5 DEF Same, JobStill
<1>8. \A s \in Slots : worker[s].run # r
  BY <1>2, Served, Ids
<1>9. \A q \in Requests : worker[q].run # r
  BY <1>2, Ids DEF Backed
<1>10. BackedAt(r)'
  BY <1>2, <1>3, <1>4, <1>5, <1>8, <1>9 DEF BackedAt, Delivered
<1>11. JobMoved(r)
  BY <1>4, <1>5 DEF JobMoved
<1>12. Serving'
  BY <1>2, <1>6, ServingKept
<1>13. RowTypes' /\ JobTypes'
  BY <1>2, <1>3, <1>5, Typed DEF RowTypes, JobTypes
<1>14. Executing'
  <2>1. ASSUME NEW p \in Processes, worker[p].pc = "start", Finished(worker[p].run)'
        PROVE  Finished(worker[p].run)
    <3>1. worker[p].run \in Runs \cup {0} /\ ExecutingAt(p)
      BY Typed DEF RowTypes, WorkerSet, Executing
    <3>2. worker[p].run \in Runs /\ worker[p].run # r
      BY <1>2, <2>1, <3>1 DEF ExecutingAt, UnderClaim
    <3> QED BY <1>2, <1>3, <2>1, <3>2 DEF Finished
  <2> QED BY <1>2, <1>6, <2>1, ExecutingKept
<1>15. cancelled' \subseteq Runs
  BY <1>2, Typed DEF HistoryTypes
<1> QED BY <1>2, <1>6, <1>7, <1>10, <1>11, <1>12, <1>13, <1>14, <1>15, RowStep

LEMMA Request_Kept ==
  ASSUME IInv, NEW q \in Requests, NEW r \in Runs, NEW th \in Homes, Request(q, r, th), UNCHANGED queue
  PROVE  IInv'
<1> USE DEF IInv
<1>1. /\ row' = Inserted(r, th, 0, 0) /\ row[r].status = "absent" /\ worker[q].run = 0 /\ Trouble
      /\ worker' = [worker EXCEPT ![q] = [pc |-> "claim", run |-> r]]
      /\ UNCHANGED <<part, marker, disp, recon, arrived, failed, job, lease, started, cancelled, overdue>>
  BY NextIsAbsent DEF Request, queue
<1>2. /\ row' \in [Runs -> RowSet] /\ row'[r].status = "pending" /\ row'[r].thread = th
      /\ \A x \in Runs \ {r} : row'[x] = row[x]
  BY <1>1, InsertedRow
<1>3. worker \in [Processes -> WorkerSet] /\ [pc |-> "claim", run |-> r] \in WorkerSet
  BY Typed DEF RowTypes, WorkerSet, WorkerSteps
<1>4. /\ worker' \in [Processes -> WorkerSet] /\ worker'[q].run = r
      /\ \A p \in Processes \ {q} : worker'[p] = worker[p]
  BY <1>1, <1>3, Ids
<1>5. \A s \in Slots : worker'[s] = worker[s]
  BY <1>4, Ids
<1>6. job[r].state = "none" /\ r \notin failed /\ ~Contains(arrived, r)
  BY <1>1 DEF Backed, BackedAt, Delivered
<1>7. Onward
  <2>1. \A p \in Requests : p # q => worker'[p] = worker[p]
    BY <1>4, Ids
  <2> QED BY <1>1, <1>2, <1>4, <2>1 DEF Onward, Resolved, Finished
<1>8. \A x \in Runs : Same(x) /\ JobStill(x)
  BY <1>1, <1>2, <1>4, <1>5 DEF Same, JobStill
<1>9. Serving'
  BY <1>1, <1>5, <1>7, ServingKept
<1>10. RowTypes' /\ JobTypes'
  BY <1>1, <1>2, <1>4, Typed, TroubleType DEF RowTypes, JobTypes
<1>11. \A p \in Requests : worker[p].run = 0 /\ worker'[p].run # 0 => row'[worker'[p].run].status # "absent"
  BY <1>2, <1>4, Ids
<1>12. Executing'
  <2>1. ASSUME NEW p \in Processes, worker[p].pc = "start", Finished(worker[p].run)'
        PROVE  Finished(worker[p].run) \/ p = q
    <3>1. worker[p].run \in Runs \cup {0} /\ ExecutingAt(p)
      BY Typed DEF RowTypes, WorkerSet, Executing
    <3>2. worker[p].run \in Runs /\ worker[p].run # r
      BY <1>1, <2>1, <3>1 DEF ExecutingAt, UnderClaim
    <3> QED BY <1>1, <1>2, <1>4, <2>1, <3>2 DEF Finished
  <2>2. ExecutingAt(q)'
    <3>1. worker'[q].pc = "claim" /\ worker'[q].run = r
      BY <1>1, <1>3, Ids
    <3>2. r # 0 /\ row'[r].status # "absent" /\ row'[r].thread \in Homes
      BY <1>2, Ids, JobsAssumption
    <3> QED BY <3>1, <3>2 DEF ExecutingAt, UnderClaim
  <2> QED BY <1>1, <1>4, <1>7, <2>1, <2>2, ExecutingKept
<1>13. cancelled' \subseteq Runs
  BY <1>1, Typed DEF HistoryTypes
<1> QED BY <1>1, <1>5, <1>7, <1>8, <1>9, <1>10, <1>11, <1>12, <1>13, RowStep

LEMMA Cancel_Kept == ASSUME IInv, NEW r \in Runs, Cancel(r) PROVE IInv'
<1> USE DEF IInv
<1>1. /\ row[r].status # "absent" /\ row' = [row EXCEPT ![r].status = "done"] /\ Trouble
      /\ cancelled' = cancelled \cup {r}
      /\ UNCHANGED <<part, marker, disp, recon, arrived, failed, overdue, job, lease, worker, started>>
  BY DEF Cancel, Finished
<1>2. /\ row' \in [Runs -> RowSet] /\ row'[r].status = "done" /\ row'[r].thread = row[r].thread
      /\ \A q \in Runs \ {r} : row'[q] = row[q]
  BY <1>1, Typed DEF RowTypes, RowSet, RowStatus
<1>3. Onward
  BY <1>1, <1>2 DEF Onward, Resolved, Finished
<1>4. \A q \in Runs : Same(q) /\ JobStill(q)
  BY <1>1, <1>2 DEF Same, JobStill
<1>5. Serving'
  BY <1>1, <1>3, ServingKept
<1>6. RowTypes' /\ JobTypes'
  BY <1>1, <1>2, Typed, TroubleType DEF RowTypes, JobTypes
<1>7. Executing'
  <2>1. ASSUME NEW p \in Processes, worker[p].pc = "start", Finished(worker[p].run)'
        PROVE  Finished(worker[p].run) \/ worker[p].run \in cancelled'
    <3>1. worker[p].run \in Runs
      BY <2>1, Typed DEF RowTypes, WorkerSet, Executing, ExecutingAt, UnderClaim
    <3> QED BY <1>1, <1>2, <2>1, <3>1 DEF Finished
  <2> QED BY <1>1, <1>3, <2>1, ExecutingKept
<1>8. cancelled' \subseteq Runs
  BY <1>1, Typed DEF HistoryTypes
<1> QED BY <1>1, <1>3, <1>4, <1>5, <1>6, <1>7, <1>8, RowStep

(* What the engine writes.                                                   *)
LEMMA MarkedRow ==
  ASSUME TypeOK, NEW r \in Runs, row' = [row EXCEPT ![r].status = "running", ![r].created = 0]
  PROVE  /\ row' \in [Runs -> RowSet] /\ \A x \in Runs \ {r} : row'[x] = row[x]
         /\ row'[r].status = "running" /\ row'[r].thread = row[r].thread
<1>1. row \in [Runs -> RowSet]
  BY Typed DEF RowTypes
<1>2. /\ row' = [x \in Runs |-> row'[x]] /\ \A x \in Runs \ {r} : row'[x] = row[x]
      /\ row'[r] = [row[r] EXCEPT !.status = "running", !.created = 0]
  BY <1>1
<1>3. \A x \in RowSet : LET y == [x EXCEPT !.status = "running", !.created = 0] IN
        y \in RowSet /\ y.status = "running" /\ y.thread = x.thread
  BY DEF RowSet, RowStatus
<1>4. row'[r] \in RowSet /\ row'[r].status = "running" /\ row'[r].thread = row[r].thread
  <2>1. row[r] \in RowSet
    BY <1>1
  <2> QED BY <1>2, <1>3, <2>1
<1> QED BY <1>1, <1>2, <1>4

LEMMA SettledRow ==
  ASSUME TypeOK, NEW r \in Runs, row' = Settled(r)
  PROVE  /\ row' \in [Runs -> RowSet] /\ \A x \in Runs \ {r} : row'[x] = row[x]
         /\ row'[r].status \in {"done", "deleted"} /\ row'[r].thread = row[r].thread
<1>1. row \in [Runs -> RowSet]
  BY Typed DEF RowTypes
<1>2. /\ row' = [x \in Runs |-> row'[x]] /\ \A x \in Runs \ {r} : row'[x] = row[x]
      /\ row'[r] = [row[r] EXCEPT !.status = IF @ = "deleted" THEN @ ELSE "done"]
  BY <1>1 DEF Settled
<1>3. \A x \in RowSet : LET y == [x EXCEPT !.status = IF @ = "deleted" THEN @ ELSE "done"] IN
        y \in RowSet /\ y.status \in {"done", "deleted"} /\ y.thread = x.thread
  BY DEF RowSet, RowStatus
<1>4. row'[r] \in RowSet /\ row'[r].status \in {"done", "deleted"} /\ row'[r].thread = row[r].thread
  BY <1>1, <1>2, <1>3
<1> QED BY <1>1, <1>2, <1>4

LEMMA ReleasedBy ==
  ASSUME TypeOK, NEW p \in Processes
  PROVE  /\ Released(p) \in [Threads -> Processes \cup {"free"}]
         /\ \A th \in Threads : lease[th] # p => Released(p)[th] = lease[th]
BY Typed DEF Released, RowTypes

(* What an execution is of.                                                  *)
LEMMA ExecutedRun ==
  ASSUME IInv, NEW p \in Processes, worker[p].pc # "idle", NEW r, r = worker[p].run
  PROVE  /\ r \in Runs /\ row[r].status # "absent" /\ row[r].thread \in Homes
         /\ row[r].thread \in Threads /\ r # 0
         /\ worker[p].pc \in UnderClaim => lease[row[r].thread] = p
BY Typed, Ids DEF IInv, RowTypes, WorkerSet, Executing, ExecutingAt, ThreadAt

(* An execution takes one of its steps: it leaves the rows and the claims of   *)
(* others alone; once it is answered or has settled, its run is over; and a     *)
(* run that was over is so still, unless it was cancelled.                    *)
LEMMA Executed ==
  ASSUME IInv, NEW p \in Processes, Execute(p), NEW r, r = worker[p].run
  PROVE  /\ RowTypes' /\ row'[r].thread = row[r].thread /\ row'[r].status # "absent"
         /\ worker'[p].run = r /\ \A z \in Processes \ {p} : worker'[z] = worker[z]
         /\ worker[p].pc \notin {"idle", "handled"}
         /\ \A z \in Processes \ {p}, th \in Threads : lease[th] = z => lease'[th] = z
         /\ \A x \in Runs \ {r} : row'[x] = row[x]
         /\ row' # row => worker[p].pc \in {"start", "graph"}
         /\ Finished(r) => row'[r].status \in {"done", "deleted"} \/ r \in cancelled
         /\ worker'[p].pc \in {"settled", "handled"} =>
              row'[r].status \in {"done", "deleted"} \/ (worker[p].pc = "settled" /\ UNCHANGED row)
         /\ worker'[p].pc = "start" => UNCHANGED row /\ ~Finished(r)
         /\ worker'[p].pc \in UnderClaim => lease'[row[r].thread] = p
<1> USE DEF IInv
<1>1. /\ row \in [Runs -> RowSet] /\ lease \in [Threads -> Processes \cup {"free"}]
      /\ worker \in [Processes -> WorkerSet] /\ started \in [Runs -> Nat] /\ trouble \in 0..MaxTrouble
  BY Typed DEF RowTypes
<1>2. worker[p].pc \notin {"idle", "handled"}
  BY DEF Execute, Read, Claim, Reread, MarkRunning, Settle, Release
<1>3. /\ r \in Runs /\ row[r].status # "absent" /\ row[r].thread \in Threads /\ ThreadAt(p) = row[r].thread
      /\ worker[p].pc \in UnderClaim => lease[row[r].thread] = p
  BY <1>2, ExecutedRun DEF ThreadAt
<1>4. ASSUME NEW pc \in WorkerSteps, worker' = Stepped(p, pc)
      PROVE  /\ worker' \in [Processes -> WorkerSet] /\ worker'[p].pc = pc /\ worker'[p].run = r
             /\ \A z \in Processes \ {p} : worker'[z] = worker[z]
  BY <1>4, SteppedTo
<1>5. /\ Released(p) \in [Threads -> Processes \cup {"free"}]
      /\ \A th \in Threads : lease[th] # p => Released(p)[th] = lease[th]
  BY ReleasedBy
<1>6. Finished(r) => row[r].status \in {"done", "deleted"}
  BY <1>3 DEF Finished
<1>7. {"handled", "claim", "reread", "busy", "start", "graph", "settled"} \subseteq WorkerSteps
  BY DEF WorkerSteps, Answers
<1>8. CASE Read(p)
  <2>1. PICK pc \in {"handled", "claim"} :
               worker' = Stepped(p, pc) /\ (pc = "handled" => Finished(r))
    BY <1>8 DEF Read
  <2>2. UNCHANGED <<row, lease, started, trouble>> /\ pc \in WorkerSteps
    BY <1>7, <1>8 DEF Read
  <2>3. RowTypes' /\ worker'[p].pc = pc /\ worker'[p].run = r
        /\ \A z \in Processes \ {p} : worker'[z] = worker[z]
    BY <1>1, <1>4, <2>1, <2>2 DEF RowTypes
  <2> QED BY <1>2, <1>3, <1>6, <2>1, <2>2, <2>3 DEF UnderClaim
<1>9. CASE Claim(p)
  <2>1. PICK pc \in {"reread", "busy"} :
          /\ worker' = Stepped(p, pc)
          /\ \/ pc = "reread" /\ lease[row[r].thread] = "free" /\ lease' = [lease EXCEPT ![row[r].thread] = p]
             \/ pc = "busy" /\ UNCHANGED lease
    BY <1>3, <1>9 DEF Claim
  <2>2. UNCHANGED <<row, started, trouble>> /\ pc \in WorkerSteps
    BY <1>7, <1>9 DEF Claim
  <2>3. /\ lease' \in [Threads -> Processes \cup {"free"}] /\ (pc = "reread" => lease'[row[r].thread] = p)
        /\ \A z \in Processes \ {p}, th \in Threads : lease[th] = z => lease'[th] = z
    BY <1>1, <1>3, <2>1, JobsAssumption DEF Processes
  <2>4. RowTypes' /\ worker'[p].pc = pc /\ worker'[p].run = r
        /\ \A z \in Processes \ {p} : worker'[z] = worker[z]
    BY <1>1, <1>4, <2>1, <2>2, <2>3 DEF RowTypes
  <2> QED BY <1>2, <1>3, <1>6, <2>1, <2>2, <2>3, <2>4 DEF UnderClaim
<1>10. CASE Reread(p)
  <2>1. PICK pc \in {"handled", "start"} :
          /\ worker' = Stepped(p, pc) /\ (pc = "handled" <=> Finished(r))
          /\ \/ pc = "handled" /\ lease' = Released(p)
             \/ pc = "start" /\ UNCHANGED lease
    BY <1>10 DEF Reread, Over
  <2>2. UNCHANGED <<row, started, trouble>> /\ worker[p].pc = "reread" /\ pc \in WorkerSteps
    BY <1>7, <1>10 DEF Reread
  <2>3. RowTypes' /\ worker'[p].pc = pc /\ worker'[p].run = r
        /\ \A z \in Processes \ {p} : worker'[z] = worker[z]
    BY <1>1, <1>4, <1>5, <2>1, <2>2 DEF RowTypes
  <2>4. \A z \in Processes \ {p}, th \in Threads : lease[th] = z => lease'[th] = z
    BY <1>5, <2>1
  <2> QED BY <1>2, <1>3, <1>6, <2>1, <2>2, <2>3, <2>4 DEF UnderClaim
<1>11. CASE MarkRunning(p)
  <2>1. worker[p].pc = "start" /\ UNCHANGED lease /\ trouble' \in 0..MaxTrouble
        /\ (Finished(r) => r \in cancelled)
    BY <1>11, TroubleType DEF MarkRunning, Executing, ExecutingAt
  <2>2. CASE /\ row' = [row EXCEPT ![r].status = "running", ![r].created = 0]
             /\ started' = [started EXCEPT ![r] = @ + 1] /\ worker' = Stepped(p, "graph")
    <3>1. started' \in [Runs -> Nat]
      <4>1. started[r] + 1 \in Nat
        BY <1>1, <1>3
      <4> QED BY <1>1, <2>2, <4>1
    <3>2. /\ row' \in [Runs -> RowSet] /\ \A x \in Runs \ {r} : row'[x] = row[x]
          /\ row'[r].status = "running" /\ row'[r].thread = row[r].thread
      BY <1>3, <2>2, MarkedRow
    <3>3. RowTypes' /\ worker'[p].pc = "graph" /\ worker'[p].run = r
          /\ \A z \in Processes \ {p} : worker'[z] = worker[z]
      BY <1>1, <1>4, <1>7, <2>1, <2>2, <3>1, <3>2 DEF RowTypes
    <3> QED BY <1>2, <1>3, <2>1, <3>2, <3>3 DEF UnderClaim
  <2>3. CASE row' = Settled(r) /\ worker' = Stepped(p, "settled") /\ UNCHANGED started
    <3>1. /\ row' \in [Runs -> RowSet] /\ \A x \in Runs \ {r} : row'[x] = row[x]
          /\ row'[r].status \in {"done", "deleted"} /\ row'[r].thread = row[r].thread
      BY <1>3, <2>3, SettledRow
    <3>2. RowTypes' /\ worker'[p].pc = "settled" /\ worker'[p].run = r
          /\ \A z \in Processes \ {p} : worker'[z] = worker[z]
      BY <1>1, <1>4, <1>7, <2>1, <2>3, <3>1 DEF RowTypes
    <3> QED BY <1>2, <1>3, <2>1, <3>1, <3>2 DEF UnderClaim
  <2> QED BY <1>11, <2>2, <2>3 DEF MarkRunning
<1>12. CASE Settle(p)
  <2>1. /\ worker' = Stepped(p, "settled") /\ UNCHANGED <<lease, started, trouble>>
        /\ row' = Settled(r) /\ worker[p].pc = "graph"
    BY <1>12 DEF Settle
  <2>2. /\ row' \in [Runs -> RowSet] /\ \A x \in Runs \ {r} : row'[x] = row[x]
        /\ row'[r].status \in {"done", "deleted"} /\ row'[r].thread = row[r].thread
    BY <1>3, <2>1, SettledRow
  <2>3. RowTypes' /\ worker'[p].pc = "settled" /\ worker'[p].run = r
        /\ \A z \in Processes \ {p} : worker'[z] = worker[z]
    BY <1>1, <1>4, <1>7, <2>1, <2>2 DEF RowTypes
  <2> QED BY <1>2, <1>3, <2>1, <2>2, <2>3 DEF UnderClaim
<1>13. CASE Release(p)
  <2>1. /\ worker' = Stepped(p, "handled") /\ lease' = Released(p) /\ worker[p].pc = "settled"
        /\ UNCHANGED <<row, started, trouble>>
    BY <1>13 DEF Release
  <2>2. RowTypes' /\ worker'[p].pc = "handled" /\ worker'[p].run = r
        /\ \A z \in Processes \ {p} : worker'[z] = worker[z]
    BY <1>1, <1>4, <1>5, <1>7, <2>1 DEF RowTypes
  <2>3. \A z \in Processes \ {p}, th \in Threads : lease[th] = z => lease'[th] = z
    BY <1>5, <2>1
  <2> QED BY <1>2, <1>3, <1>6, <2>1, <2>2, <2>3 DEF UnderClaim
<1> QED BY <1>8, <1>9, <1>10, <1>11, <1>12, <1>13 DEF Execute

LEMMA Work_Kept == ASSUME IInv, NEW p \in Processes, Work(p) PROVE IInv'
<1> USE DEF IInv
<1>1. Execute(p) /\ UNCHANGED <<job, part, marker, disp, recon, arrived, failed, cancelled, overdue>>
  BY DEF Work, queue
<1>2. PICK r : r = worker[p].run
  OBVIOUS
<1>3. /\ RowTypes' /\ row'[r].thread = row[r].thread /\ row'[r].status # "absent"
      /\ worker'[p].run = r /\ \A z \in Processes \ {p} : worker'[z] = worker[z]
      /\ worker[p].pc \notin {"idle", "handled"}
      /\ \A z \in Processes \ {p}, th \in Threads : lease[th] = z => lease'[th] = z
      /\ \A x \in Runs \ {r} : row'[x] = row[x]
      /\ row' # row => worker[p].pc \in {"start", "graph"}
      /\ Finished(r) => row'[r].status \in {"done", "deleted"} \/ r \in cancelled
      /\ worker'[p].pc \in {"settled", "handled"} =>
           row'[r].status \in {"done", "deleted"} \/ (worker[p].pc = "settled" /\ UNCHANGED row)
      /\ worker'[p].pc = "start" => UNCHANGED row /\ ~Finished(r)
      /\ worker'[p].pc \in UnderClaim => lease'[row[r].thread] = p
  BY <1>1, <1>2, Executed
<1>4. /\ r \in Runs /\ r # 0 /\ row[r].status # "absent" /\ row[r].thread \in Homes
      /\ row[r].thread \in Threads
      /\ worker[p].pc \in UnderClaim => lease[row[r].thread] = p
  BY <1>2, <1>3, ExecutedRun
<1>5. Onward
  <2>1. \A q \in Requests : worker'[q].run = worker[q].run
    BY <1>2, <1>3, Ids
  <2>2. ASSUME NEW q \in Runs, row[q].status # "absent"
        PROVE  row'[q].status # "absent" /\ row'[q].thread = row[q].thread /\ (Resolved(q) => Resolved(q)')
    <3>1. CASE q = r
      BY <1>1, <1>3, <3>1 DEF Resolved, Finished
    <3>2. CASE q # r
      BY <1>1, <1>3, <2>2, <3>2 DEF Resolved, Finished
    <3> QED BY <3>1, <3>2
  <2> QED BY <1>1, <2>1, <2>2 DEF Onward
<1>6. \A s \in Slots : worker'[s].run = worker[s].run
  BY <1>2, <1>3, Ids
<1>7. \A q \in Runs : Same(q) /\ JobStill(q)
  BY <1>1, <1>3, <1>4, <1>6 DEF Same, JobStill
<1>8. Serving'
  <2>1. ASSUME p \in Slots PROVE ServingAt(p)'
    <3>1. ServingAt(p) /\ disp[p].pc = "work"
      BY <1>3, <2>1 DEF Serving, ServingAt
    <3>2. Delivered(r) /\ disp[p].at # 0 /\ Contains(arrived, r)
      BY <1>2, <2>1, <3>1, Served DEF ServingAt
    <3>3. Delivered(r)' /\ (Resolved(r) => Resolved(r)')
      BY <1>4, <1>5, <3>2, DeliveredKept
    <3>4. worker[p].pc = "settled" => Resolved(r)
      BY <1>2, <3>1 DEF ServingAt
    <3>5. worker'[p].pc \in {"settled", "handled"} => Resolved(r)'
      BY <1>3, <3>3, <3>4 DEF Resolved, Finished
    <3> QED BY <1>1, <1>3, <1>4, <3>1, <3>2, <3>3, <3>5 DEF ServingAt
  <2>2. \A s \in Slots \ {p} : worker'[s] = worker[s]
    BY <1>3, Ids
  <2> QED BY <1>1, <1>5, <2>1, <2>2, ServingKept
<1>9. Executing'
  <2>1. ExecutingAt(p)'
    BY <1>3, <1>4 DEF ExecutingAt, ThreadAt, Finished
  <2>2. ASSUME NEW z \in Processes \ {p}, worker[z].pc = "start", Finished(worker[z].run)',
               ~Finished(worker[z].run)
        PROVE  FALSE
    <3>1. PICK q : q = worker[z].run
      OBVIOUS
    <3>2. q \in Runs /\ lease[row[q].thread] = z
      BY <2>2, <3>1, ExecutedRun DEF UnderClaim
    <3>3. Finished(q)' /\ ~Finished(q)
      BY <1>3, <2>2, <3>1 DEF Finished
    <3>4. q = r /\ worker[p].pc \in {"start", "graph"}
      BY <1>3, <3>2, <3>3 DEF Finished
    <3> QED BY <1>4, <3>2, <3>4 DEF UnderClaim
  <2> QED BY <1>1, <1>3, <1>5, <2>1, <2>2, ExecutingKept
<1>10. JobTypes' /\ cancelled' \subseteq Runs
  BY <1>1, Typed DEF JobTypes, HistoryTypes
<1>11. \A q \in Requests : worker[q].run = 0 /\ worker'[q].run # 0 => row'[worker'[q].run].status # "absent"
  BY <1>2, <1>3, Ids
<1> QED BY <1>1, <1>3, <1>5, <1>6, <1>7, <1>8, <1>9, <1>10, <1>11, RowStep

LEMMA Throw_Kept ==
  ASSUME IInv, NEW s \in Slots, Throw(s) \/ SettleFails(s), UNCHANGED queue PROVE IInv'
<1> USE DEF IInv
<1>1. /\ worker[s].pc \in {"read", "claim", "reread", "start", "graph"} /\ lease' = Released(s)
      /\ worker' = Stepped(s, "thrown") /\ Trouble
      /\ UNCHANGED <<row, started, job, part, marker, disp, recon, arrived, failed, cancelled, overdue>>
  BY DEF Throw, SettleFails, queue
<1>2. /\ worker' \in [Processes -> WorkerSet] /\ worker'[s].pc = "thrown"
      /\ worker'[s].run = worker[s].run /\ \A z \in Processes \ {s} : worker'[z] = worker[z]
  BY <1>1, SteppedTo, Ids DEF WorkerSteps, Answers
<1>3. /\ lease' \in [Threads -> Processes \cup {"free"}]
      /\ \A th \in Threads : lease[th] # s => lease'[th] = lease[th]
  BY <1>1, ReleasedBy, Ids
<1>4. RowTypes' /\ JobTypes' /\ cancelled' \subseteq Runs
  BY <1>1, <1>2, <1>3, Typed, TroubleType DEF RowTypes, JobTypes, HistoryTypes
<1>5. Onward
  BY <1>1, <1>2, Ids DEF Onward, Resolved, Finished
<1>6. /\ \A z \in Slots : worker'[z].run = worker[z].run
      /\ \A z \in Slots \ {s} : worker'[z] = worker[z]
      /\ \A q \in Requests : worker'[q] = worker[q]
  BY <1>2, Ids
<1>7. \A q \in Runs : Same(q) /\ JobStill(q)
  BY <1>1, <1>6 DEF Same, JobStill
<1>8. ServingAt(s)'
  <2>1. ServingAt(s) /\ disp[s].pc = "work"
    BY <1>1 DEF Serving, ServingAt
  <2>2. PICK x \in Runs : x = worker[s].run /\ Delivered(x)
    BY <2>1, Served
  <2>3. Delivered(x)'
    BY <1>5, <2>2, DeliveredKept
  <2> QED BY <1>1, <1>2, <2>1, <2>2, <2>3 DEF ServingAt
<1>9. Serving'
  BY <1>1, <1>5, <1>6, <1>8, ServingKept
<1>10. Executing'
  <2>1. ExecutingAt(s)'
    BY <1>1, <1>2, Ids DEF Executing, ExecutingAt, UnderClaim
  <2>2. \A z \in Processes \ {s} : worker'[z] = worker[z] /\ \A th \in Threads : lease[th] = z => lease'[th] = z
    BY <1>2, <1>3
  <2> QED BY <1>1, <1>5, <2>1, <2>2, ExecutingKept DEF Finished
<1> QED BY <1>1, <1>4, <1>5, <1>6, <1>7, <1>9, <1>10, RowStep

-----------------------------------------------------------------------------
(* The steps of a slot.                                                      *)

(* A slot goes on without being put to work, with at most one job that moves.  *)
LEMMA SlotStep ==
  ASSUME IInv, NEW s \in Slots, UNCHANGED <<row, started, part, marker, arrived, cancelled>>,
         lease' \in [Threads -> Processes \cup {"free"}], trouble' \in 0..MaxTrouble,
         \A p \in Processes \ {s}, th \in Threads : lease[th] = p => lease'[th] = p, Late,
         disp' \in [Slots -> DispSet], worker' \in [Processes -> WorkerSet],
         recon' \in [Reconcilers -> AdvanceSet],
         \A z \in Slots \ {s} : disp'[z] = disp[z] /\ worker'[z] = worker[z],
         \A q \in Requests : worker'[q] = worker[q],
         ServingAt(s)', disp'[s].pc # "work",
         worker'[s].run = 0 \/ (worker'[s].run = worker[s].run /\ disp'[s].at = disp[s].at),
         \A c \in Reconcilers : recon'[c] = recon[c] \/ recon'[c].pc = "idle",
         JobTypes', failed \subseteq failed',
         \A r \in Runs : BackedAt(r)' \/ Same(r), \A r \in Runs : JobStill(r) \/ JobMoved(r)
  PROVE  IInv'
<1> USE DEF IInv
<1>1. TypeOK'
  BY Typed, Typed_next DEF RowTypes, PartTypes, StartTypes, HistoryTypes, Late
<1>2. Onward
  BY DEF Onward, Resolved, Finished
<1>3. Serving'
  BY <1>2, ServingKept
<1>4. Backed'
  <2>1. \A q \in Requests : worker'[q].run # 0 => worker'[q].run \in Runs
    BY Ids DEF WorkerSet
  <2> QED BY <1>2, <2>1, BackedKept DEF Backed
<1>5. \A c \in Reconcilers : recon'[c] # recon[c] => AdvancesAt(c)'
  BY DEF AdvancesAt
<1>6. Order'
  BY <1>2, <1>5, OrderKept, WorkingArrived
<1>7. Starts'
  BY StartsKept DEF Starts, Order
<1>8. Executing'
  <2>1. worker'[s].pc \in {"idle", "handled"}
    BY DEF ServingAt, Idle
  <2>2. worker'[s].run # 0 =>
          row'[worker'[s].run].status # "absent" /\ row'[worker'[s].run].thread \in Homes
    BY DEF ServingAt, Delivered, Idle
  <2>3. worker'[s].pc # "idle" => worker'[s].run # 0
    BY <2>1 DEF ServingAt
  <2>4. ExecutingAt(s)'
    BY <2>1, <2>2, <2>3 DEF ExecutingAt, UnderClaim
  <2>5. \A p \in Processes \ {s} : worker'[p] = worker[p]
    BY DEF Processes
  <2> QED BY <1>2, <2>4, <2>5, ExecutingKept DEF Finished
<1> QED BY <1>1, <1>3, <1>4, <1>6, <1>7, <1>8

LEMMA SlotSame ==
  ASSUME TypeOK, NEW s \in Slots, NEW r \in Runs, UNCHANGED <<row, arrived>>,
         \A z \in Slots \ {s} : worker'[z] = worker[z], worker'[s].run \in {0, worker[s].run},
         job'[r] = job[r], r \in failed' => r \in failed
  PROVE  Same(r) /\ JobStill(r)
BY Ids DEF Same, JobStill

(* The start a slot served is of no use to anyone once it has left.           *)
LEMMA DeadOnceLeft ==
  ASSUME IInv, NEW s \in Slots, NEW r \in Runs, r = worker[s].run, NEW n, n = disp[s].at,
         worker'[s].run = 0, UNCHANGED marker,
         \A z \in Slots \ {s} : disp'[z] = disp[z] /\ worker'[z] = worker[z]
  PROVE  Dead(r, n)'
<1>1. n # 0 /\ marker[r] # n
  BY Served, Ids DEF IInv, Starts, Apart
<1>2. \A z \in Slots \ {s} : worker[z].run = r => disp[z].at # n
  BY Ids DEF IInv, Starts, Apart
<1> QED BY <1>1, <1>2, Ids DEF Dead

LEMMA Park_Kept == ASSUME IInv, NEW s \in Slots, Park(s) PROVE IInv'
<1> USE DEF IInv
<1>1. PICK r \in Runs : r = worker[s].run
  BY Served DEF Park
<1>2. /\ disp[s].pc = "park" /\ disp[s].at \in Nat \ {0}
      /\ UNCHANGED <<part, marker, recon, arrived, failed, row, lease, started, trouble, cancelled, overdue>>
  BY Served DEF Park
<1>3. RowTypes /\ JobTypes /\ StartTypes
  BY Typed
<1>4. CASE Holds(s)
  <2>1. /\ job' = Moved(r, "parked", disp[s].at) /\ disp' = Goto(s, "mark") /\ UNCHANGED worker
        /\ job[r].state = "active"
    BY <1>1, <1>4 DEF Park, Holds
  <2>2. /\ job' \in [Runs -> JobSet] /\ job'[r].state = "parked" /\ job'[r].at = disp[s].at
        /\ \A q \in Runs \ {r} : job'[q] = job[q]
    <3>1. "parked" \in JobStates /\ disp[s].at \in Nat
      BY <1>2 DEF JobStates
    <3> QED BY <1>1, <2>1, <3>1, MovedJob
  <2>3. /\ disp' \in [Slots -> DispSet] /\ disp'[s].pc = "mark" /\ disp'[s].at = disp[s].at
        /\ \A z \in Slots \ {s} : disp'[z] = disp[z]
    BY <2>1, WentTo
  <2>4. JobMoved(r)
    BY <1>2, <2>1, <2>2 DEF JobMoved
  <2>5. BackedAt(r)'
    BY <1>2, <2>1, <2>2 DEF Backed, BackedAt, Delivered
  <2>6. ServingAt(s)'
    BY <1>2, <2>1, <2>3 DEF Serving, ServingAt, Delivered, Resolved, Finished
  <2>7. \A q \in Runs \ {r} : Same(q) /\ JobStill(q)
    BY <1>2, <2>1, <2>2, SlotSame
  <2> QED BY <1>2, <1>3, <2>1, <2>2, <2>3, <2>4, <2>5, <2>6, <2>7, SameLate, SlotStep
             DEF RowTypes, JobTypes, StartTypes
<1>5. CASE ~Holds(s)
  <2>1. Leave(s) /\ UNCHANGED job
    BY <1>5 DEF Park
  <2>2. \A q \in Runs : Same(q) /\ JobStill(q)
    BY <1>2, <2>1, Left, SlotSame
  <2> QED BY <1>2, <1>3, <2>1, <2>2, Left, SameLate, SlotStep DEF RowTypes, JobTypes, StartTypes
<1> QED BY <1>4, <1>5

LEMMA Defer_Kept == ASSUME IInv, NEW s \in Slots, Defer(s) PROVE IInv'
<1> USE DEF IInv
<1>1. PICK r \in Runs : r = worker[s].run
  BY Served DEF Defer
<1>2. /\ disp[s].at \in Nat \ {0} /\ Leave(s)
      /\ UNCHANGED <<part, marker, recon, arrived, failed, row, lease, started, trouble, cancelled, overdue>>
  BY Served DEF Defer
<1>3. RowTypes /\ JobTypes /\ StartTypes
  BY Typed
<1>4. /\ disp' \in [Slots -> DispSet] /\ worker' \in [Processes -> WorkerSet]
      /\ disp'[s].pc = "idle" /\ worker'[s].run = 0 /\ ServingAt(s)'
      /\ \A z \in Slots \ {s} : disp'[z] = disp[z] /\ worker'[z] = worker[z]
      /\ \A q \in Requests : worker'[q] = worker[q]
  BY <1>2, Left
<1>5. CASE Holds(s)
  <2>1. job' = Moved(r, "busy", disp[s].at) /\ job[r].state = "active"
    BY <1>1, <1>5 DEF Defer, Holds
  <2>2. /\ job' \in [Runs -> JobSet] /\ job'[r].state = "busy" /\ job'[r].at = disp[s].at
        /\ \A q \in Runs \ {r} : job'[q] = job[q]
    BY <1>2, <2>1, MovedJob DEF JobStates, Native
  <2>3. PICK n : n = disp[s].at
    OBVIOUS
  <2>4. Dead(r, n)'
    BY <1>1, <1>2, <1>4, <2>3, DeadOnceLeft
  <2>5. Dead(r, job[r].at)'
    BY <2>2, <2>3, <2>4 DEF Dead
  <2>6. JobMoved(r)
    BY <2>1, <2>2, <2>5 DEF JobMoved
  <2>7. BackedAt(r)'
    BY <1>2, <1>4, <2>1, <2>2 DEF Backed, BackedAt, Delivered
  <2>8. \A q \in Runs \ {r} : Same(q) /\ JobStill(q)
    BY <1>2, <1>4, <2>2, SlotSame
  <2> QED BY <1>2, <1>3, <1>4, <2>2, <2>6, <2>7, <2>8, SameLate, SlotStep DEF RowTypes, JobTypes, StartTypes
<1>6. CASE ~Holds(s)
  <2>1. UNCHANGED job
    BY <1>6 DEF Defer
  <2>2. \A q \in Runs : Same(q) /\ JobStill(q)
    BY <1>2, <1>4, <2>1, SlotSame
  <2> QED BY <1>2, <1>3, <1>4, <2>1, <2>2, SameLate, SlotStep DEF RowTypes, JobTypes, StartTypes
<1> QED BY <1>5, <1>6

LEMMA Fail_Kept == ASSUME IInv, NEW s \in Slots, Fail(s) PROVE IInv'
<1> USE DEF IInv
<1>1. PICK r \in Runs : r = worker[s].run
  BY Served DEF Fail
<1>2. /\ disp[s].at \in Nat \ {0} /\ Leave(s) /\ trouble' \in 0..MaxTrouble
      /\ UNCHANGED <<part, marker, recon, arrived, row, lease, started, cancelled, overdue>>
  BY Served, TroubleType DEF Fail
<1>3. RowTypes /\ JobTypes /\ StartTypes
  BY Typed
<1>4. /\ disp' \in [Slots -> DispSet] /\ worker' \in [Processes -> WorkerSet]
      /\ disp'[s].pc = "idle" /\ worker'[s].run = 0 /\ ServingAt(s)'
      /\ \A z \in Slots \ {s} : disp'[z] = disp[z] /\ worker'[z] = worker[z]
      /\ \A q \in Requests : worker'[q] = worker[q]
  BY <1>2, Left
<1>5. CASE Holds(s)
  <2>1. FailJob(r, disp[s].at) /\ job[r].state = "active"
    BY <1>1, <1>5 DEF Fail, Holds
  <2>2. /\ job' \in [Runs -> JobSet] /\ \A q \in Runs \ {r} : job'[q] = job[q]
        /\ failed \subseteq failed' /\ failed' \subseteq failed \cup {r}
        /\ \/ job'[r].state = "wait" /\ UNCHANGED failed
           \/ job'[r].state = "backoff" /\ job'[r].at = disp[s].at /\ UNCHANGED failed
           \/ job'[r].state = "none" /\ r \in failed'
    BY <1>2, <2>1, FailedJob
  <2>3. PICK n : n = disp[s].at
    OBVIOUS
  <2>4. Dead(r, n)'
    BY <1>1, <1>2, <1>4, <2>3, DeadOnceLeft
  <2>5. job'[r].state = "backoff" => Dead(r, job[r].at)'
    BY <2>2, <2>3, <2>4 DEF Dead
  <2>6. JobMoved(r)
    BY <2>1, <2>2, <2>5 DEF JobMoved
  <2>7. BackedAt(r)'
    BY <1>2, <1>4, <2>1, <2>2 DEF Backed, BackedAt, Delivered, Resolved
  <2>8. \A q \in Runs \ {r} : Same(q) /\ JobStill(q)
    BY <1>2, <1>4, <2>2, SlotSame
  <2>9. JobTypes'
    BY <1>3, <2>2 DEF JobTypes
  <2> QED BY <1>2, <1>3, <1>4, <2>2, <2>6, <2>7, <2>8, <2>9, SameLate, SlotStep DEF RowTypes, StartTypes
<1>6. CASE ~Holds(s)
  <2>1. UNCHANGED <<job, failed>>
    BY <1>6 DEF Fail
  <2>2. \A q \in Runs : Same(q) /\ JobStill(q)
    BY <1>2, <1>4, <2>1, SlotSame
  <2> QED BY <1>2, <1>3, <1>4, <2>1, <2>2, SameLate, SlotStep DEF RowTypes, JobTypes, StartTypes
<1> QED BY <1>5, <1>6

LEMMA Complete_Kept == ASSUME IInv, NEW s \in Slots, Complete(s) PROVE IInv'
<1> USE DEF IInv
<1>1. PICK r \in Runs : r = worker[s].run
  BY Served DEF Complete
<1>2. /\ disp[s].pc = "advance" /\ Leave(s)
      /\ UNCHANGED <<part, marker, recon, arrived, failed, row, lease, started, trouble, cancelled, overdue>>
  BY DEF Complete
<1>3. RowTypes /\ JobTypes /\ StartTypes
  BY Typed
<1>4. /\ disp' \in [Slots -> DispSet] /\ worker' \in [Processes -> WorkerSet]
      /\ disp'[s].pc = "idle" /\ worker'[s].run = 0 /\ ServingAt(s)'
      /\ \A z \in Slots \ {s} : disp'[z] = disp[z] /\ worker'[z] = worker[z]
      /\ \A q \in Requests : worker'[q] = worker[q]
  BY <1>2, Left
<1>5. CASE Holds(s)
  <2>1. job' = [job EXCEPT ![r] = NoJob] /\ job[r].state = "active"
    BY <1>1, <1>5 DEF Complete, Holds
  <2>2. /\ job' \in [Runs -> JobSet] /\ job'[r].state = "none"
        /\ \A q \in Runs \ {r} : job'[q] = job[q]
    BY <1>3, <2>1, NoJobType DEF JobTypes
  <2>3. JobMoved(r)
    BY <2>1, <2>2 DEF JobMoved
  <2>4. Resolved(r)
    BY <1>1, <1>2 DEF Serving, ServingAt
  <2>5. BackedAt(r)'
    BY <1>2, <1>4, <2>1, <2>2, <2>4 DEF Backed, BackedAt, Delivered, Resolved, Finished
  <2>6. \A q \in Runs \ {r} : Same(q) /\ JobStill(q)
    BY <1>2, <1>4, <2>2, SlotSame
  <2> QED BY <1>2, <1>3, <1>4, <2>2, <2>3, <2>5, <2>6, SameLate, SlotStep DEF RowTypes, JobTypes, StartTypes
<1>6. CASE ~Holds(s)
  <2>1. UNCHANGED job
    BY <1>6 DEF Complete
  <2>2. \A q \in Runs : Same(q) /\ JobStill(q)
    BY <1>2, <1>4, <2>1, SlotSame
  <2> QED BY <1>2, <1>3, <1>4, <2>1, <2>2, SameLate, SlotStep DEF RowTypes, JobTypes, StartTypes
<1> QED BY <1>5, <1>6

LEMMA RecordParked_Kept == ASSUME IInv, NEW s \in Slots, RecordParked(s) PROVE IInv'
<1> USE DEF IInv
<1>1. PICK r \in Runs : r = worker[s].run
  BY Served DEF RecordParked
<1>2. PICK m : m = disp[s].at
  OBVIOUS
<1>3. /\ m \in Nat \ {0} /\ Leave(s) /\ trouble' \in 0..MaxTrouble
      /\ marker' \in {marker, [marker EXCEPT ![r] = m]}
      /\ UNCHANGED <<job, part, recon, arrived, failed, row, lease, started, cancelled, overdue>>
  BY <1>1, <1>2, Served, TroubleType DEF RecordParked
<1>4. RowTypes /\ JobTypes /\ StartTypes /\ PartTypes /\ HistoryTypes
  BY Typed
<1>5. /\ disp' \in [Slots -> DispSet] /\ worker' \in [Processes -> WorkerSet]
      /\ disp'[s].pc = "idle" /\ worker'[s].run = 0 /\ ServingAt(s)'
      /\ \A z \in Slots \ {s} : disp'[z] = disp[z] /\ worker'[z] = worker[z]
      /\ \A q \in Requests : worker'[q] = worker[q]
  BY <1>3, Left
<1>6. /\ marker' \in [Runs -> Nat] /\ \A q \in Runs \ {r} : marker'[q] = marker[q]
      /\ marker'[r] \in {marker[r], m}
  BY <1>3, <1>4 DEF StartTypes
<1>7. TypeOK'
  BY <1>3, <1>4, <1>5, <1>6, Typed_next DEF RowTypes, JobTypes, StartTypes, PartTypes, HistoryTypes
<1>8. Onward
  BY <1>3, <1>5 DEF Onward, Resolved, Finished
<1>9. Serving'
  BY <1>5, <1>8, ServingKept
<1>10. Backed'
  <2>1. \A q \in Requests : worker'[q].run # 0 => worker'[q].run \in Runs
    BY <1>5, Ids DEF WorkerSet
  <2>2. \A q \in Runs : Same(q)
    BY <1>3, <1>5, SlotSame
  <2> QED BY <1>5, <1>8, <2>1, <2>2, BackedKept DEF Backed
<1>11. Order'
  BY <1>3, <1>5, <1>8, OrderKept, WorkingArrived
<1>12. \A z \in Slots : worker[z].run = r /\ z # s => disp[z].at # m
  BY <1>1, <1>2, Ids DEF Starts, Apart
<1>13. ASSUME NEW q \in Runs, NEW n, Dead(q, n) PROVE Dead(q, n)'
  <2>1. q = r => n # m
    BY <1>1, <1>2, <1>13 DEF Dead
  <2> QED BY <1>5, <1>6, <1>13, <2>1, Ids DEF Dead
<1>14. Apart'
  <2>1. \A z \in Slots : worker'[z].run # 0 => z # s /\ worker'[z] = worker[z] /\ disp'[z] = disp[z]
    BY <1>5
  <2>2. \A z \in Slots : worker[z].run # 0 => worker[z].run \in Runs
    BY Served
  <2> QED BY <1>6, <1>12, <2>1, <2>2 DEF Starts, Apart
<1>15. Delays'
  <2>1. ASSUME NEW q \in Runs, job[q].state \in {"busy", "backoff"} PROVE Dead(q, job[q].at)'
    <3>1. PICK n : n = job[q].at
      OBVIOUS
    <3>2. Dead(q, n)'
      BY <1>13, <2>1, <3>1 DEF Starts, Delays
    <3> QED BY <1>3, <3>1, <3>2 DEF Dead
  <2> QED BY <1>3, <2>1 DEF Starts, Delays
<1>16. \A c \in Reconcilers : recon[c].pc \in {"take", "promote"} => recon[c].run \in Runs
  BY <1>4 DEF Order, Advances, AdvancesAt, StartTypes, AdvanceSet
<1>17. Taking'
  <2> SUFFICES ASSUME NEW c \in Reconcilers, recon[c].pc = "take", Dead(recon[c].run, recon[c].at)
               PROVE  Dead(recon[c].run, recon[c].at)'
    BY <1>3 DEF Starts, Taking, TakingAt
  <2>1. PICK q \in Runs : q = recon[c].run
    BY <1>16
  <2>2. PICK n : n = recon[c].at
    OBVIOUS
  <2>3. Dead(q, n)'
    BY <1>13, <2>1, <2>2
  <2> QED BY <1>3, <2>1, <2>2, <2>3 DEF Dead
<1>18. Promoting'
  <2>1. ASSUME NEW c \in Reconcilers, recon[c].pc = "promote", c \notin overdue
        PROVE  Dead(recon[c].run, recon[c].at)'
    <3>1. PICK q \in Runs : q = recon[c].run
      BY <1>16, <2>1
    <3>2. PICK n : n = recon[c].at
      OBVIOUS
    <3>3. Dead(q, n)'
      BY <1>13, <2>1, <3>1, <3>2 DEF Starts, Promoting, PromotingAt
    <3> QED BY <1>3, <3>1, <3>2, <3>3 DEF Dead
  <2> QED BY <1>3, <2>1 DEF Starts, Promoting, PromotingAt
<1>19. Executing'
  <2>1. ExecutingAt(s)'
    BY <1>5, Left, <1>3 DEF ExecutingAt, UnderClaim, Idle
  <2>2. \A p \in Processes \ {s} : worker'[p] = worker[p]
    BY <1>5 DEF Processes
  <2> QED BY <1>3, <1>8, <2>1, <2>2, ExecutingKept DEF Finished
<1> QED BY <1>7, <1>9, <1>10, <1>11, <1>14, <1>15, <1>17, <1>18, <1>19 DEF Starts

-----------------------------------------------------------------------------
(* The steps of an advance.                                                  *)

(* An advance begins, ends, or comes to a job that is gone.                   *)
LEMMA AdvanceStep ==
  ASSUME IInv, UNCHANGED <<row, lease, worker, started, job, part, marker, disp, arrived, failed, cancelled>>,
         trouble' \in 0..MaxTrouble, Late, recon' \in [Reconcilers -> AdvanceSet],
         \A c \in Reconcilers : \/ recon'[c] = recon[c]
                                \/ recon'[c].pc \notin {"take", "promote"} /\ AdvancesAt(c)'
  PROVE  IInv'
<1> USE DEF IInv
<1>1. TypeOK'
  BY Typed, Typed_next DEF RowTypes, JobTypes, PartTypes, StartTypes, HistoryTypes, Late
<1>2. Onward
  BY DEF Onward, Resolved, Finished
<1>3. Serving'
  BY <1>2, ServingKept
<1>4. Backed'
  <2>1. \A q \in Requests : worker'[q].run # 0 => worker'[q].run \in Runs
    BY Typed, Ids DEF RowTypes, WorkerSet
  <2>2. \A q \in Runs : Same(q)
    BY DEF Same
  <2> QED BY <1>2, <2>1, <2>2, BackedKept DEF Backed
<1>5. Order'
  BY <1>2, OrderKept, WorkingArrived
<1>6. \A r \in Runs : JobStill(r)
  BY DEF JobStill
<1>7. Starts'
  BY <1>6, StartsKept DEF Starts, Order
<1>8. Executing'
  BY <1>2, ExecutingKept DEF Finished
<1> QED BY <1>1, <1>3, <1>4, <1>5, <1>7, <1>8

LEMMA AdvanceValues ==
  /\ NoAdvance \in AdvanceSet /\ NoAdvance.pc = "idle"
  /\ \A th \in Homes : /\ Advancing(th) \in AdvanceSet /\ Advancing(th).pc = "look"
                       /\ Advancing(th).thread = th
BY DEF NoAdvance, AdvanceSet, Advancing

LEMMA AdvanceFails_Kept == ASSUME IInv, NEW c \in Reconcilers, AdvanceFails(c) PROVE IInv'
<1>1. recon \in [Reconcilers -> AdvanceSet]
  BY Typed DEF IInv, StartTypes
<1>2. /\ recon' \in [Reconcilers -> AdvanceSet] /\ recon'[c].pc = "idle"
      /\ \A d \in Reconcilers \ {c} : recon'[d] = recon[d]
  BY <1>1, AdvanceValues DEF AdvanceFails
<1>3. AdvancesAt(c)'
  BY <1>2 DEF AdvancesAt
<1>4. Late
  BY <1>2, EndedLate DEF IInv, AdvanceFails
<1> QED BY <1>2, <1>3, <1>4, TroubleType, AdvanceStep DEF IInv, AdvanceFails

LEMMA Sweep_Kept == ASSUME IInv, NEW c \in Sweepers, NEW th \in Homes, Sweep(c, th) PROVE IInv'
<1>1. recon \in [Reconcilers -> AdvanceSet] /\ c \in Reconcilers
  BY Typed, Ids DEF IInv, StartTypes
<1>2. /\ recon' \in [Reconcilers -> AdvanceSet] /\ recon'[c].pc = "look" /\ recon'[c].thread = th
      /\ \A d \in Reconcilers \ {c} : recon'[d] = recon[d]
  BY <1>1, AdvanceValues DEF Sweep
<1>3. AdvancesAt(c)'
  BY <1>2 DEF AdvancesAt
<1>4. UNCHANGED trouble /\ trouble' \in 0..MaxTrouble
  BY TroubleType DEF Sweep, jobs, IInv
<1>5. Late
  BY SameLate DEF IInv, Sweep
<1> QED BY <1>1, <1>2, <1>3, <1>4, <1>5, AdvanceStep DEF Sweep, jobs

LEMMA Crash_Kept == ASSUME IInv, NEW c \in Reconcilers, Crash(c) PROVE IInv'
<1> USE DEF IInv
<1>1. RowTypes /\ JobTypes /\ StartTypes
  BY Typed
<1>2. /\ recon' \in [Reconcilers -> AdvanceSet] /\ recon'[c].pc = "idle" /\ trouble' \in 0..MaxTrouble
      /\ \A d \in Reconcilers \ {c} : recon'[d] = recon[d]
      /\ UNCHANGED <<part, marker, arrived, failed, row, started, cancelled>>
  BY <1>1, AdvanceValues, TroubleType DEF Crash, StartTypes
<1>5. Late
  BY <1>2, EndedLate DEF Crash
<1>3. CASE c \in Slots
  <2>1. /\ worker' = Died({c}) /\ lease' = Abandoned({c}) /\ disp' = [disp EXCEPT ![c] = NoDispatch]
        /\ job' = [r \in Runs |-> IF job[r].by = c THEN [job[r] EXCEPT !.by = "dead"] ELSE job[r]]
    BY <1>3 DEF Crash
  <2>2. /\ Idle \in WorkerSet /\ Idle.run = 0 /\ Idle.pc = "idle"
        /\ NoDispatch \in DispSet /\ NoDispatch.pc = "idle"
    BY DEF Idle, WorkerSet, WorkerSteps, NoDispatch, DispSet
  <2>3. c \in Processes /\ c \notin Requests
    BY <1>3, Ids
  <2>4. /\ worker' \in [Processes -> WorkerSet] /\ worker'[c] = Idle
        /\ \A z \in Processes \ {c} : worker'[z] = worker[z]
    <3>1. worker' = [p \in Processes |-> IF p = c THEN Idle ELSE worker[p]]
      BY <2>1, <2>3 DEF Died
    <3> QED BY <1>1, <2>2, <2>3, <3>1 DEF RowTypes
  <2>5. /\ lease' \in [Threads -> Processes \cup {"free"}]
        /\ \A p \in Processes \ {c}, th \in Threads : lease[th] = p => lease'[th] = p
    BY <1>1, <2>1 DEF Abandoned, RowTypes
  <2>6. /\ disp' \in [Slots -> DispSet] /\ disp'[c].pc = "idle"
        /\ \A z \in Slots \ {c} : disp'[z] = disp[z]
    BY <1>1, <1>3, <2>1, <2>2 DEF StartTypes
  <2>7. \A r \in Runs : job'[r] \in JobSet /\ job'[r].state = job[r].state /\ job'[r].at = job[r].at
    <3>1. \A j \in JobSet : LET d == [j EXCEPT !.by = "dead"] IN
            d \in JobSet /\ d.state = j.state /\ d.at = j.at
      BY DEF JobSet
    <3> QED BY <1>1, <2>1, <3>1 DEF JobTypes
  <2>8. JobTypes'
    BY <1>1, <1>2, <2>1, <2>7 DEF JobTypes
  <2>9. /\ \A z \in Slots \ {c} : worker'[z] = worker[z]
        /\ \A q \in Requests : worker'[q] = worker[q]
    BY <2>3, <2>4, Ids
  <2>10. ServingAt(c)'
    BY <2>2, <2>4, <2>6 DEF ServingAt
  <2>11. \A r \in Runs : Same(r) /\ JobStill(r)
    BY <1>2, <2>2, <2>4, <2>7, <2>9, Ids DEF Same, JobStill
  <2> QED BY <1>2, <1>3, <1>5, <2>2, <2>4, <2>5, <2>6, <2>8, <2>9, <2>10, <2>11, SlotStep
<1>4. CASE c \notin Slots
  <2>1. UNCHANGED <<worker, lease, disp, job>>
    BY <1>4 DEF Crash
  <2>2. AdvancesAt(c)'
    BY <1>2 DEF AdvancesAt
  <2> QED BY <1>2, <1>5, <2>1, <2>2, AdvanceStep
<1> QED BY <1>3, <1>4

(* A resolved run leaves the order of its thread, and an advance begins there. *)
LEMMA RemoveStep ==
  ASSUME IInv, NEW r \in Runs, Contains(arrived, r), Resolved(r), NEW c \in Reconcilers,
         part' = Removed(r), marker' = Unmarked(r),
         recon' = [recon EXCEPT ![c] = Advancing(row[r].thread)],
         UNCHANGED <<row, lease, worker, started, trouble, job, arrived, failed, cancelled, overdue>>,
         disp' \in [Slots -> DispSet],
         \A z \in Slots : /\ disp'[z].at = disp[z].at
                          /\ ServingAt(z)' \/ disp'[z].pc = disp[z].pc
                          /\ disp'[z].pc = "work" => disp[z].pc = "work"
  PROVE  IInv'
<1> USE DEF IInv
<1>1. RowTypes /\ JobTypes /\ PartTypes /\ StartTypes /\ HistoryTypes
  BY Typed
<1>2. PICK th \in Homes : th = row[r].thread
  BY ArrivedDelivered
<1>3. ASSUME NEW h \in Homes
      PROVE  /\ part'[h] \in Seq(Runs) /\ IsInjective(part'[h])
             /\ \A a : Contains(part'[h], a) => Contains(part[h], a)
             /\ \A a : Contains(part[h], a) /\ a # r => Contains(part'[h], a)
             /\ \A a, b : Before(part'[h], a, b) => Before(part[h], a, b)
  <2>1. part[h] \in Seq(Runs) /\ IsInjective(part[h])
    BY <1>1 DEF PartTypes
  <2>2. part'[h] = IF h = th THEN RemoveFirst(part[h], r) ELSE part[h]
    BY <1>1, <1>2 DEF Removed, PartTypes
  <2> QED BY <2>1, <2>2, RemoveFirstOrder
<1>4. PartTypes'
  <2>1. part' = [h \in Homes |-> part'[h]]
    BY <1>1 DEF Removed, PartTypes
  <2>2. part' \in [Homes -> Seq(Runs)]
    BY <1>3, <2>1
  <2> QED BY <1>1, <1>3, <2>2 DEF PartTypes
<1>5. /\ recon' \in [Reconcilers -> AdvanceSet] /\ recon'[c].pc = "look" /\ recon'[c].thread = th
      /\ \A d \in Reconcilers \ {c} : recon'[d] = recon[d]
  BY <1>1, <1>2, AdvanceValues DEF StartTypes
<1>6. marker' \in [Runs -> Nat] /\ \A q \in Runs : marker'[q] \in {marker[q], 0}
  BY <1>1 DEF Unmarked, StartTypes
<1>7. TypeOK'
  BY <1>1, <1>4, <1>5, <1>6, Typed_next DEF RowTypes, JobTypes, StartTypes, HistoryTypes
<1>8. Onward
  BY DEF Onward, Resolved, Finished
<1>9. Serving'
  BY <1>8, ServingKept
<1>10. Backed'
  <2>1. \A q \in Requests : worker'[q].run # 0 => worker'[q].run \in Runs
    BY <1>1, Ids DEF RowTypes, WorkerSet
  <2>2. \A q \in Runs : Same(q)
    BY DEF Same
  <2> QED BY <1>8, <2>1, <2>2, BackedKept DEF Backed
<1>11. \A q \in Runs : Contains(arrived, q) => row[q].thread \in Homes
  BY ArrivedDelivered
<1>12. Parts'
  <2> SUFFICES ASSUME NEW h \in Homes, NEW q \in Runs, Contains(part'[h], q)
               PROVE  row[q].thread = h /\ Contains(arrived, q)
    BY DEF Parts
  <2> QED BY <1>3 DEF Order, Parts
<1>13. \A q \in Runs : Resolved(q)' <=> Resolved(q)
  BY DEF Resolved, Finished
<1>14. Placed'
  <2> SUFFICES ASSUME NEW q \in Runs, Contains(arrived, q), ~Resolved(q)
               PROVE  /\ Contains(part'[row[q].thread], q)
                      /\ \A z \in Runs : Earlier(q, z) => ~Before(part'[row[q].thread], z, q)
    BY <1>13 DEF Placed, PartOf, Earlier
  <2>1. PICK h \in Homes : h = row[q].thread
    BY <1>11
  <2>2. /\ Contains(part[h], q) /\ q # r
        /\ \A z \in Runs : Earlier(q, z) => ~Before(part[h], z, q)
    BY <2>1 DEF Order, Placed, PartOf
  <2> QED BY <1>3, <2>1, <2>2
<1>15. Cleared'
  BY <1>13 DEF Order, Cleared, ClearedAt, Earlier, ThreadAt
<1>16. Advances'
  <2>1. AdvancesAt(c)'
    BY <1>5 DEF AdvancesAt
  <2>2. ASSUME NEW d \in Reconcilers \ {c} PROVE AdvancesAt(d)'
    BY <1>1, <1>5, <1>13, Ids DEF Order, Advances, AdvancesAt, StartTypes, AdvanceSet
  <2> QED BY <2>1, <2>2 DEF Advances
<1>17. Starts'
  <2>1. \A q \in Runs : JobStill(q)
    BY DEF JobStill
  <2> QED BY <1>5, <1>6, <2>1, SameLate, StartsKept DEF Starts
<1>18. Executing'
  BY <1>8, ExecutingKept DEF Finished
<1> QED BY <1>7, <1>9, <1>10, <1>12, <1>14, <1>15, <1>16, <1>17, <1>18 DEF Order

LEMMA Handled_Kept == ASSUME IInv, NEW s \in Slots, Handled(s) PROVE IInv'
<1> USE DEF IInv
<1>1. PICK r \in Runs : r = worker[s].run
  BY Served DEF Handled
<1>2. /\ disp[s].pc = "work" /\ worker[s].pc = "handled" /\ disp' = Goto(s, "advance")
      /\ part' = Removed(r) /\ marker' = Unmarked(r)
      /\ recon' = [recon EXCEPT ![s] = Advancing(row[r].thread)]
      /\ UNCHANGED <<row, lease, worker, started, trouble, job, arrived, failed, cancelled, overdue>>
  BY <1>1 DEF Handled, jobs
<1>3. Contains(arrived, r) /\ Resolved(r) /\ ServingAt(s)
  BY <1>1, <1>2 DEF Serving, ServingAt
<1>4. /\ disp' \in [Slots -> DispSet] /\ disp'[s].pc = "advance" /\ disp'[s].at = disp[s].at
      /\ \A z \in Slots \ {s} : disp'[z] = disp[z]
  BY <1>2, WentTo
<1>5. ServingAt(s)'
  BY <1>1, <1>2, <1>3, <1>4 DEF ServingAt, Delivered, Resolved, Finished
<1> QED BY <1>2, <1>3, <1>4, <1>5, RemoveStep, Ids

LEMMA RemoveGone_Kept == ASSUME IInv, NEW c \in Reconcilers, RemoveGone(c) PROVE IInv'
<1> USE DEF IInv
<1>1. /\ recon[c].pc = "remove" /\ recon[c].run \in Runs \cup {0} /\ AdvancesAt(c)
  BY Typed DEF RemoveGone, Order, Advances, StartTypes, AdvanceSet
<1>2. PICK r \in Runs : r = recon[c].run
  BY <1>1 DEF AdvancesAt
<1>3. Contains(arrived, r) /\ Resolved(r) /\ row[r].thread = recon[c].thread
  BY <1>1, <1>2 DEF AdvancesAt
<1>4. /\ part' = Removed(r) /\ marker' = Unmarked(r)
      /\ recon' = [recon EXCEPT ![c] = Advancing(row[r].thread)]
      /\ UNCHANGED <<row, lease, worker, started, trouble, job, disp, arrived, failed, cancelled, overdue>>
  BY <1>2, <1>3 DEF RemoveGone, jobs
<1>5. disp' \in [Slots -> DispSet]
  BY <1>4, Typed DEF StartTypes
<1> QED BY <1>3, <1>4, <1>5, RemoveStep

-----------------------------------------------------------------------------
(* A run registers.                                                          *)

LEMMA EarlierBefore ==
  ASSUME PartTypes
  PROVE  \A a, b : (Earlier(a, b) <=> Before(arrived, a, b)) /\ (Earlier(a, b) => a # b)
<1>1. DOMAIN arrived = 1..Len(arrived) /\ IsInjective(arrived) /\ Len(arrived) \in Nat
  BY DEF PartTypes
<1> QED BY <1>1 DEF Earlier, Before, IsInjective
LEMMA EarlierBefore_next ==
  ASSUME PartTypes'
  PROVE  \A a, b : (Earlier(a, b)' <=> Before(arrived', a, b)) /\ (Earlier(a, b)' => a # b)
<1>1. DOMAIN arrived' = 1..Len(arrived') /\ IsInjective(arrived') /\ Len(arrived') \in Nat
  BY DEF PartTypes
<1> QED BY <1>1 DEF Earlier, Before, IsInjective

(* Whoever is before somebody is there.                                      *)
LEMMA BeforeContains == ASSUME NEW s, NEW a, NEW b, Before(s, a, b) PROVE Contains(s, a) /\ Contains(s, b)
BY DEF Before, Contains

(* The orders after a registration.                                          *)
LEMMA RegisteredOrder ==
  ASSUME TypeOK, NEW r \in Runs, NEW th \in Homes, row[r].thread = th,
         part' = [part EXCEPT ![th] = Registered(r)],
         arrived' = IF Contains(arrived, r) THEN arrived ELSE Append(arrived, r)
  PROVE  /\ PartTypes' /\ part'[th] = Registered(r) /\ part'[th] \in Seq(Runs)
         /\ \A h \in Homes \ {th} : part'[h] = part[h]
         /\ \A a : Contains(part'[th], a) <=> Contains(part[th], a) \/ a = r
         /\ \A a, b : Before(part'[th], a, b) =>
              Before(part[th], a, b) \/ (b = r /\ ~Contains(part[th], r))
         /\ \A a : Contains(arrived', a) <=> Contains(arrived, a) \/ a = r
         /\ \A a, b : Earlier(a, b)' =>
              Earlier(a, b) \/ (b = r /\ Contains(arrived, a) /\ ~Contains(arrived, r))
<1>1. PartTypes
  BY Typed
<1>2. part[th] \in Seq(Runs) /\ IsInjective(part[th]) /\ arrived \in Seq(Runs) /\ IsInjective(arrived)
  BY <1>1 DEF PartTypes
<1>3. /\ part'[th] = Registered(r) /\ \A h \in Homes \ {th} : part'[h] = part[h]
      /\ part' = [h \in Homes |-> part'[h]]
  BY <1>1 DEF PartTypes
<1>4. /\ part'[th] \in Seq(Runs) /\ IsInjective(part'[th])
      /\ \A a : Contains(part'[th], a) <=> Contains(part[th], a) \/ a = r
      /\ \A a, b : Before(part'[th], a, b) =>
           Before(part[th], a, b) \/ (b = r /\ ~Contains(part[th], r))
  <2>1. CASE Contains(part[th], r)
    <3>1. part'[th] = part[th]
      BY <1>3, <2>1 DEF Registered, PartOf
    <3> QED BY <1>2, <2>1, <3>1
  <2>2. CASE ~Contains(part[th], r)
    <3>1. part'[th] = Append(part[th], r)
      BY <1>3, <2>2 DEF Registered, PartOf
    <3>2. /\ part'[th] \in Seq(Runs) /\ IsInjective(part'[th])
          /\ \A a : Contains(part'[th], a) <=> Contains(part[th], a) \/ a = r
          /\ \A a, b : Before(part'[th], a, b) => Before(part[th], a, b) \/ (b = r /\ Contains(part[th], a))
      <4>1. PICK t \in Seq(Runs) : t = part[th]
        BY <1>2
      <4>2. IsInjective(t) /\ ~Contains(t, r)
        BY <1>2, <2>2, <4>1
      <4>3. PICK u : u = Append(t, r)
        OBVIOUS
      <4>4. /\ u \in Seq(Runs) /\ IsInjective(u)
            /\ \A a : Contains(u, a) <=> Contains(t, a) \/ a = r
            /\ \A a, b : Before(u, a, b) => Before(t, a, b) \/ (b = r /\ Contains(t, a))
        BY <4>2, <4>3, AppendOrder
      <4> QED BY <3>1, <4>1, <4>3, <4>4
    <3> QED BY <2>2, <3>2
  <2> QED BY <2>1, <2>2
<1>5. /\ arrived' \in Seq(Runs) /\ IsInjective(arrived')
      /\ \A a : Contains(arrived', a) <=> Contains(arrived, a) \/ a = r
      /\ \A a, b : Before(arrived', a, b) =>
           Before(arrived, a, b) \/ (b = r /\ Contains(arrived, a) /\ ~Contains(arrived, r))
  <2>1. CASE Contains(arrived, r)
    BY <1>2, <2>1
  <2>2. CASE ~Contains(arrived, r)
    <3>1. arrived' = Append(arrived, r)
      BY <2>2
    <3> QED BY <1>2, <2>2, <3>1, AppendOrder
  <2> QED BY <2>1, <2>2
<1>6. PartTypes'
  <2>1. \A h \in Homes : part'[h] \in Seq(Runs) /\ IsInjective(part'[h])
    BY <1>1, <1>3, <1>4 DEF PartTypes
  <2> QED BY <1>3, <1>5, <2>1 DEF PartTypes
<1>7. \A a, b : Earlier(a, b)' =>
        Earlier(a, b) \/ (b = r /\ Contains(arrived, a) /\ ~Contains(arrived, r))
  BY <1>1, <1>5, <1>6, EarlierBefore, EarlierBefore_next
<1> QED BY <1>3, <1>4, <1>5, <1>6, <1>7

LEMMA Register_Kept == ASSUME IInv, NEW s \in Slots, Register(s) PROVE IInv'
<1> USE DEF IInv
<1>1. PICK r \in Runs : r = worker[s].run
  BY Served DEF Register
<1>2. PICK th \in Homes : th = row[r].thread
  BY <1>1, Served DEF Register
<1> DEFINE isHead == Head(Registered(r)) = r
<1>3. /\ disp[s].pc = "register" /\ part' = [part EXCEPT ![th] = Registered(r)]
      /\ marker' = (IF isHead THEN Unmarked(r) ELSE marker)
      /\ arrived' = (IF Contains(arrived, r) THEN arrived ELSE Append(arrived, r))
      /\ disp' = Goto(s, IF isHead THEN "work" ELSE "park")
      /\ worker' = (IF isHead THEN Stepped(s, "read") ELSE worker)
      /\ UNCHANGED <<job, recon, failed, row, lease, started, trouble, cancelled, overdue>>
  BY <1>1, <1>2 DEF Register
<1> HIDE DEF isHead
<1>4. isHead <=> Head(part'[th]) = r
  <2>1. part' = [part EXCEPT ![th] = Registered(r)] /\ part \in [Homes -> Seq(Runs)]
    BY <1>3, Typed DEF PartTypes
  <2>2. part'[th] = Registered(r)
    BY <2>1
  <2> QED BY <2>2 DEF isHead
<1>5. RowTypes /\ JobTypes /\ PartTypes /\ StartTypes /\ HistoryTypes
  BY Typed
<1>6. /\ PartTypes' /\ part'[th] \in Seq(Runs)
      /\ \A h \in Homes \ {th} : part'[h] = part[h]
      /\ \A a : Contains(part'[th], a) <=> Contains(part[th], a) \/ a = r
      /\ \A a, b : Before(part'[th], a, b) =>
           Before(part[th], a, b) \/ (b = r /\ ~Contains(part[th], r))
      /\ \A a : Contains(arrived', a) <=> Contains(arrived, a) \/ a = r
      /\ \A a, b : Earlier(a, b)' =>
           Earlier(a, b) \/ (b = r /\ Contains(arrived, a) /\ ~Contains(arrived, r))
  BY <1>2, <1>3, RegisteredOrder
<1>7. /\ disp' \in [Slots -> DispSet] /\ disp'[s].pc = (IF isHead THEN "work" ELSE "park")
      /\ disp'[s].at = disp[s].at /\ \A z \in Slots \ {s} : disp'[z] = disp[z]
  BY <1>3, WentTo
<1>8. /\ worker' \in [Processes -> WorkerSet] /\ worker'[s].run = r
      /\ worker'[s].pc = IF isHead THEN "read" ELSE worker[s].pc
      /\ \A z \in Processes \ {s} : worker'[z] = worker[z]
  <2>1. "read" \in WorkerSteps /\ s \in Processes
    BY Ids DEF WorkerSteps
  <2> QED BY <1>1, <1>3, <1>5, <2>1, SteppedTo DEF RowTypes
<1>9. /\ \A z \in Slots \ {s} : worker'[z] = worker[z]
      /\ \A q \in Requests : worker'[q] = worker[q]
  BY <1>8, Ids
<1>10. marker' \in [Runs -> Nat] /\ \A q \in Runs : marker'[q] \in {marker[q], 0}
  BY <1>3, <1>5 DEF Unmarked, StartTypes
<1>11. TypeOK'
  BY <1>3, <1>5, <1>6, <1>7, <1>8, <1>10, Typed_next DEF RowTypes, JobTypes, StartTypes, HistoryTypes
<1>12. Onward
  BY <1>3, <1>6, <1>9 DEF Onward, Resolved, Finished
<1>13. Delivered(r) /\ Delivered(r)' /\ disp[s].at # 0
  BY <1>1, <1>3, <1>9, Served DEF Delivered
<1>14. Serving'
  <2>1. ServingAt(s) /\ ServingAt(s)'
    BY <1>1, <1>3, <1>6, <1>7, <1>8, <1>13, Ids DEF Serving, ServingAt, Resolved, Finished
  <2> QED BY <1>7, <1>9, <1>12, <2>1, ServingKept
<1>15. Backed'
  <2>1. \A q \in Requests : worker'[q].run # 0 => worker'[q].run \in Runs
    BY <1>5, <1>9, Ids DEF RowTypes, WorkerSet
  <2>2. \A q \in Runs \ {r} : Same(q)
    BY <1>3, <1>6, <1>8, <1>9 DEF Same
  <2>3. BackedAt(r)'
    BY <1>1, <1>3, <1>13 DEF Backed, BackedAt, Resolved, Finished
  <2> QED BY <1>9, <1>12, <2>1, <2>2, <2>3, BackedKept DEF Backed
<1>16. \A q \in Runs : Resolved(q)' <=> Resolved(q)
  BY <1>3 DEF Resolved, Finished
<1>17. \A q \in Runs : Contains(arrived, q) => row[q].thread \in Homes
  BY ArrivedDelivered
<1>18. Parts'
  <2> SUFFICES ASSUME NEW h \in Homes, NEW q \in Runs, Contains(part'[h], q)
               PROVE  row[q].thread = h /\ Contains(arrived', q)
    BY <1>3 DEF Parts
  <2> QED BY <1>2, <1>6 DEF Order, Parts
<1>19. Placed'
  <2> SUFFICES ASSUME NEW q \in Runs, Contains(arrived', q), ~Resolved(q)
               PROVE  /\ Contains(part'[row[q].thread], q)
                      /\ \A z \in Runs : Earlier(q, z)' => ~Before(part'[row[q].thread], z, q)
    BY <1>3, <1>16 DEF Placed, PartOf
  <2>1. Contains(arrived, q) => /\ Contains(part[row[q].thread], q)
                               /\ \A z \in Runs : Earlier(q, z) => ~Before(part[row[q].thread], z, q)
    BY DEF Order, Placed, PartOf
  <2>2. CASE q = r
    <3> SUFFICES ASSUME NEW z \in Runs, Earlier(r, z)' PROVE ~Before(part'[th], z, r)
      BY <1>2, <1>6, <2>2
    <3>1. Earlier(r, z)
      BY <1>6
    <3>2. Contains(arrived, r)
      BY <1>5, <3>1, EarlierBefore, BeforeContains
    <3> QED BY <1>2, <1>6, <2>1, <2>2, <3>1, <3>2
  <2>3. CASE q # r
    <3>1. PICK h \in Homes : h = row[q].thread
      BY <1>6, <1>17, <2>3
    <3>2. Contains(part[h], q) /\ \A z \in Runs : Earlier(q, z) => ~Before(part[h], z, q)
      BY <1>6, <2>1, <2>3, <3>1
    <3>3. ASSUME NEW z \in Runs, Earlier(q, z)', Before(part'[h], z, q) PROVE FALSE
      <4>1. Before(part[h], z, q)
        BY <1>6, <2>3, <3>3
      <4>2. z = r /\ ~Contains(arrived, r)
        BY <1>6, <3>2, <3>3, <4>1
      <4>3. Contains(part[h], r)
        BY <4>1, <4>2, BeforeContains
      <4> QED BY <4>2, <4>3 DEF Order, Parts
    <3> QED BY <1>6, <3>1, <3>2, <3>3
  <2> QED BY <2>2, <2>3
<1>20. ASSUME isHead, NEW q \in Runs, Earlier(q, r)', row[q].thread = th, ~Resolved(q) PROVE FALSE
  <2>1. q # r /\ Contains(arrived', q)
    BY <1>6, <1>20, EarlierBefore_next, BeforeContains
  <2>2. Contains(arrived, q)
    BY <1>6, <2>1
  <2>3. Contains(part[th], q) /\ (Earlier(q, r) => ~Before(part[th], r, q))
    BY <1>20, <2>2 DEF Order, Placed, PartOf
  <2>4. Before(part'[th], r, q)
    <3>1. Contains(part'[th], q) /\ Head(part'[th]) = r
      BY <1>4, <1>6, <1>20, <2>3
    <3> QED BY <1>6, <2>1, <3>1, HeadFirst
  <2>5. Before(part[th], r, q)
    BY <1>6, <2>1, <2>4
  <2>6. Contains(arrived, r)
    <3>1. Contains(part[th], r)
      BY <2>5, BeforeContains
    <3> QED BY <3>1 DEF Order, Parts
  <2>7. Earlier(q, r)
    BY <1>6, <1>20, <2>6
  <2> QED BY <2>3, <2>5, <2>7
<1>21. Cleared'
  <2>1. ASSUME NEW z \in Slots, z # s PROVE ClearedAt(z)'
    <3> SUFFICES ASSUME disp'[z].pc = "work", NEW q \in Runs, Earlier(q, worker[z].run)',
                        row'[q].thread = row'[worker'[z].run].thread
                 PROVE  Resolved(q)'
      BY DEF ClearedAt, ThreadAt
    <3>1. PICK b \in Runs : b = worker[z].run /\ Contains(arrived, b)
      BY <1>7, <2>1, WorkingArrived
    <3>2. worker'[z].run = b
      BY <1>9, <2>1, <3>1
    <3>3. Earlier(q, b)'
      BY <3>2 DEF Earlier
    <3>4. Earlier(q, b)
      BY <1>6, <3>1, <3>3
    <3>5. ClearedAt(z) /\ disp[z].pc = "work"
      BY <1>7, <2>1 DEF Order, Cleared
    <3>6. Resolved(q)
      BY <1>3, <3>1, <3>2, <3>4, <3>5 DEF ClearedAt, ThreadAt
    <3> QED BY <1>16, <3>6
  <2>2. ClearedAt(s)'
    <3> SUFFICES ASSUME disp'[s].pc = "work", NEW q \in Runs, Earlier(q, worker[s].run)',
                        row'[q].thread = row'[worker'[s].run].thread
                 PROVE  Resolved(q)'
      BY DEF ClearedAt, ThreadAt
    <3>1. isHead /\ row[q].thread = th
      BY <1>2, <1>3, <1>7, <1>8
    <3>2. Earlier(q, r)'
      BY <1>8 DEF Earlier
    <3> QED BY <1>16, <1>20, <3>1, <3>2
  <2> QED BY <2>1, <2>2 DEF Cleared
<1>22. Advances'
  <2> SUFFICES ASSUME NEW c \in Reconcilers PROVE AdvancesAt(c)'
    BY DEF Advances
  <2>1. AdvancesAt(c) /\ recon[c].run \in Runs \cup {0} /\ recon' = recon /\ row' = row
    BY <1>3, <1>5 DEF Order, Advances, StartTypes, AdvanceSet
  <2> QED BY <1>6, <1>16, <2>1 DEF AdvancesAt
<1>23. Starts'
  <2>1. \A q \in Runs : JobStill(q)
    BY <1>3 DEF JobStill
  <2> QED BY <1>1, <1>3, <1>7, <1>8, <1>9, <1>10, <2>1, SameLate, StartsKept
<1>24. Executing'
  <2>1. CASE isHead
    <3>1. worker'[s].pc = "read" /\ worker'[s].run = r /\ r # 0
      BY <1>8, <2>1, Ids
    <3>2. ExecutingAt(s)'
      BY <1>3, <1>13, <3>1 DEF ExecutingAt, UnderClaim, Delivered
    <3> QED BY <1>3, <1>8, <1>12, <3>2, ExecutingKept DEF Finished
  <2>2. CASE ~isHead
    <3>1. worker' = worker
      BY <1>3, <2>2
    <3> QED BY <1>3, <1>12, <3>1, ExecutingKept DEF Finished
  <2> QED BY <2>1, <2>2
<1> QED BY <1>11, <1>14, <1>15, <1>18, <1>19, <1>21, <1>22, <1>23, <1>24 DEF Order

-----------------------------------------------------------------------------
(* An advance looks at a head, takes its marker and promotes it.              *)

LEMMA QuietStep ==
  ASSUME IInv, UNCHANGED <<row, lease, worker, started, trouble, part, disp, arrived, failed, cancelled>>,
         recon' \in [Reconcilers -> AdvanceSet], marker' \in [Runs -> Nat], job' \in [Runs -> JobSet],
         \A r \in Runs : BackedAt(r)' \/ Same(r),
         \A c \in Reconcilers : recon'[c] = recon[c] \/ AdvancesAt(c)',
         Late, Starts'
  PROVE  IInv'
<1> USE DEF IInv
<1>1. TypeOK'
  BY Typed, Typed_next DEF RowTypes, JobTypes, PartTypes, StartTypes, HistoryTypes, Late
<1>2. Onward
  BY DEF Onward, Resolved, Finished
<1>3. Serving'
  BY <1>2, ServingKept
<1>4. Backed'
  <2>1. \A q \in Requests : worker'[q].run # 0 => worker'[q].run \in Runs
    BY Typed, Ids DEF RowTypes, WorkerSet
  <2> QED BY <1>2, <2>1, BackedKept DEF Backed
<1>5. Order'
  BY <1>2, OrderKept, WorkingArrived
<1>6. Executing'
  BY <1>2, ExecutingKept DEF Finished
<1> QED BY <1>1, <1>3, <1>4, <1>5, <1>6

(* What an advance about to take or to promote is about.                      *)
LEMMA AdvanceRun ==
  ASSUME IInv, NEW c \in Reconcilers, recon[c].pc \in {"remove", "take", "promote"}
  PROVE  /\ recon[c].run \in Runs /\ Contains(arrived, recon[c].run)
         /\ Delivered(recon[c].run)
         /\ AdvancesAt(c) /\ recon[c] \in AdvanceSet
<1>1. AdvancesAt(c) /\ recon[c] \in AdvanceSet
  BY Typed DEF IInv, Order, Advances, StartTypes
<1>2. recon[c].run \in Runs /\ Contains(arrived, recon[c].run)
  BY <1>1 DEF AdvancesAt, AdvanceSet
<1> QED BY <1>1, <1>2, ArrivedDelivered DEF IInv

LEMMA Look_Kept == ASSUME IInv, NEW c \in Reconcilers, Look(c) PROVE IInv'
<1> USE DEF IInv
<1>1. RowTypes /\ JobTypes /\ PartTypes /\ StartTypes /\ Late
  BY Typed, SameLate DEF Look
<1>2. PICK th \in Homes : th = recon[c].thread
  BY DEF Look, Order, Advances, AdvancesAt
<1>3. /\ recon[c].pc = "look" /\ recon[c] \in AdvanceSet
      /\ UNCHANGED <<row, lease, worker, started, trouble, job, part, marker, disp, arrived, failed, cancelled, overdue>>
      /\ trouble' \in 0..MaxTrouble
  BY <1>1 DEF Look, jobs, RowTypes, StartTypes
<1>4. PICK h : h = HeadOf(th)
  OBVIOUS
<1>5. recon' = [recon EXCEPT ![c] =
                  IF h = 0 THEN NoAdvance
                  ELSE IF Gone(h) THEN [@ EXCEPT !.pc = "remove", !.run = h]
                  ELSE IF Delayed(h) THEN [@ EXCEPT !.pc = "take", !.run = h, !.at = job[h].at]
                  ELSE NoAdvance]
  BY <1>2, <1>4 DEF Look
<1>6. \A d \in Reconcilers \ {c} : recon'[d] = recon[d]
  BY <1>1, <1>5 DEF StartTypes
<1>7. h # 0 => h \in Runs /\ row[h].thread = th /\ Contains(arrived, h)
  <2> SUFFICES ASSUME h # 0 PROVE h \in Runs /\ row[h].thread = th /\ Contains(arrived, h)
    OBVIOUS
  <2>1. part[th] \in Seq(Runs) /\ part[th] # <<>> /\ h = Head(part[th])
    BY <1>1, <1>4 DEF HeadOf, PartTypes
  <2>2. 1 \in 1..Len(part[th]) /\ part[th][1] = h /\ h \in Runs
    BY <2>1
  <2>3. Contains(part[th], h)
    BY <2>2 DEF Contains
  <2> QED BY <2>2, <2>3 DEF Order, Parts
<1>8. ASSUME recon'[c] = NoAdvance PROVE IInv'
  <2>1. recon' \in [Reconcilers -> AdvanceSet] /\ recon'[c].pc = "idle"
    BY <1>1, <1>5, <1>8, AdvanceValues DEF StartTypes
  <2>2. AdvancesAt(c)'
    BY <2>1 DEF AdvancesAt
  <2> QED BY <1>1, <1>3, <1>6, <2>1, <2>2, AdvanceStep
<1>9. CASE h # 0 /\ Gone(h)
  <2>1. recon'[c] = [recon[c] EXCEPT !.pc = "remove", !.run = h]
    BY <1>1, <1>5, <1>9 DEF StartTypes
  <2>2. /\ recon'[c] \in AdvanceSet /\ recon'[c].pc = "remove" /\ recon'[c].run = h
        /\ recon'[c].thread = th
    BY <1>2, <1>3, <1>7, <1>9, <2>1 DEF AdvanceSet
  <2>3. recon' \in [Reconcilers -> AdvanceSet]
    BY <1>1, <1>5, <2>2 DEF StartTypes
  <2>4. Resolved(h)
    BY <1>7, <1>9 DEF Gone, Backed, BackedAt
  <2>5. AdvancesAt(c)'
    BY <1>3, <1>7, <1>9, <2>2, <2>4, Ids DEF AdvancesAt, Resolved, Finished
  <2> QED BY <1>1, <1>3, <1>6, <2>2, <2>3, <2>5, AdvanceStep
<1>10. CASE h # 0 /\ ~Gone(h) /\ Delayed(h)
  <2>1. recon'[c] = [recon[c] EXCEPT !.pc = "take", !.run = h, !.at = job[h].at]
    BY <1>1, <1>5, <1>10 DEF StartTypes
  <2>2. job[h].at \in Nat
    BY <1>1, <1>7, <1>10 DEF JobTypes, JobSet
  <2>3. /\ recon'[c] \in AdvanceSet /\ recon'[c].pc = "take" /\ recon'[c].run = h
        /\ recon'[c].thread = th /\ recon'[c].at = job[h].at
    BY <1>2, <1>3, <1>7, <1>10, <2>1, <2>2 DEF AdvanceSet
  <2>4. recon' \in [Reconcilers -> AdvanceSet]
    BY <1>1, <1>5, <2>3 DEF StartTypes
  <2>5. AdvancesAt(c)'
    BY <1>3, <1>7, <1>10, <2>3, Ids DEF AdvancesAt
  <2>6. PICK n : n = job[h].at
    OBVIOUS
  <2>7. job[h].state = "parked" \/ Dead(h, n)
    BY <1>7, <1>10, <2>6 DEF Delayed, Native, Backed, BackedAt, Starts, Delays
  <2>8. Dead(h, n) => Dead(recon[c].run, recon[c].at)'
    BY <1>3, <2>3, <2>6 DEF Dead
  <2>9. Taking'
    <3>1. ASSUME NEW d \in Reconcilers \ {c}, recon'[d].pc = "take", d \notin overdue'
          PROVE  \/ job'[recon'[d].run].state = "parked" /\ job'[recon'[d].run].at = recon'[d].at
                 \/ Dead(recon[d].run, recon[d].at)'
      BY <1>3, <1>6, <3>1 DEF Starts, Taking, TakingAt, Dead
    <3> QED BY <1>3, <2>3, <2>6, <2>7, <2>8, <3>1 DEF Taking, TakingAt
  <2>10. Promoting'
    <3>1. \A d \in Reconcilers : recon'[d].pc = "promote" => recon'[d] = recon[d]
      BY <1>6, <2>3
    <3> QED BY <1>3, <3>1 DEF Starts, Promoting, PromotingAt, Dead
  <2>11. Apart' /\ Delays'
    BY <1>3 DEF Starts, Apart, Delays, Dead
  <2>12. \A r \in Runs : Same(r)
    BY <1>3 DEF Same
  <2> QED BY <1>1, <1>3, <1>6, <2>4, <2>5, <2>9, <2>10, <2>11, <2>12, QuietStep
          DEF Starts, StartTypes, JobTypes
<1>11. CASE h = 0 \/ (~Gone(h) /\ ~Delayed(h))
  <2>1. recon'[c] = NoAdvance
    BY <1>1, <1>5, <1>11 DEF StartTypes
  <2> QED BY <1>8, <2>1
<1> QED BY <1>9, <1>10, <1>11

LEMMA TakeParked_Kept == ASSUME IInv, NEW c \in Reconcilers, TakeParked(c) PROVE IInv'
<1> USE DEF IInv
<1>1. RowTypes /\ JobTypes /\ StartTypes
  BY Typed
<1>2. PICK r \in Runs : r = recon[c].run
  BY AdvanceRun DEF TakeParked
<1>3. PICK n : n = recon[c].at
  OBVIOUS
<1>4. /\ recon[c].pc = "take" /\ recon[c] \in AdvanceSet /\ AdvancesAt(c)
      /\ UNCHANGED <<row, lease, worker, started, trouble, job, part, disp, arrived, failed, cancelled>>
      /\ trouble' \in 0..MaxTrouble /\ Late
  <2>1. Late
    BY SameLate, EndedLate, AdvanceValues, <1>1 DEF TakeParked, StartTypes
  <2> QED BY <1>1, <2>1, AdvanceRun DEF TakeParked, jobs, RowTypes
<1>5. CASE Parked(c)
  <2>1. /\ marker' = Unmarked(r) /\ recon' = [recon EXCEPT ![c].pc = "promote"] /\ marker[r] = n
    BY <1>2, <1>3, <1>5 DEF TakeParked, Parked
  <2>2. c \notin overdue => job[r].state = "parked" /\ job[r].at = n /\ n # 0
    BY <1>2, <1>3, <1>4, <2>1 DEF Starts, Taking, TakingAt, Dead, Delays
  <2>3. /\ marker' \in [Runs -> Nat] /\ marker'[r] = 0 /\ \A q \in Runs : marker'[q] \in {marker[q], 0}
    BY <1>1, <2>1 DEF Unmarked, StartTypes
  <2>4. /\ recon'[c] = [recon[c] EXCEPT !.pc = "promote"]
        /\ \A d \in Reconcilers \ {c} : recon'[d] = recon[d]
    BY <1>1, <2>1 DEF StartTypes
  <2>5. recon'[c] \in AdvanceSet /\ recon'[c].pc = "promote" /\ recon'[c].run = r
        /\ recon'[c].thread = recon[c].thread
    BY <1>2, <1>4, <2>4 DEF AdvanceSet
  <2>6. recon' \in [Reconcilers -> AdvanceSet]
    BY <1>1, <2>1, <2>5 DEF StartTypes
  <2>7. AdvancesAt(c)'
    BY <1>2, <1>4, <2>5 DEF AdvancesAt
  <2>8. ASSUME NEW q \in Runs, NEW k, Dead(q, k) PROVE Dead(q, k)'
    BY <1>4, <2>3, <2>8 DEF Dead
  <2>9. Apart'
    <3>1. \A z \in Slots : worker[z].run # 0 => worker[z].run \in Runs /\ disp[z].at # 0
      BY Served
    <3> QED BY <1>4, <2>3, <3>1 DEF Starts, Apart
  <2>10. Delays'
    <3>1. ASSUME NEW q \in Runs, job[q].state \in {"busy", "backoff"} PROVE Dead(q, job[q].at)'
      <4>1. PICK k : k = job[q].at
        OBVIOUS
      <4>2. Dead(q, k)'
        BY <2>8, <3>1, <4>1 DEF Starts, Delays
      <4> QED BY <1>4, <4>1, <4>2 DEF Dead
    <3> QED BY <1>4, <3>1 DEF Starts, Delays
  <2>11. Taking'
    <3> SUFFICES ASSUME NEW d \in Reconcilers \ {c}, recon[d].pc = "take", Dead(recon[d].run, recon[d].at)
                 PROVE  Dead(recon[d].run, recon[d].at)'
      BY <1>4, <1>5, <2>4, <2>5 DEF Starts, Taking, TakingAt, TakeParked
    <3>1. PICK q \in Runs : q = recon[d].run
      BY AdvanceRun
    <3>2. PICK k : k = recon[d].at
      OBVIOUS
    <3>3. Dead(q, k)'
      BY <2>8, <3>1, <3>2
    <3> QED BY <2>4, <3>1, <3>2, <3>3 DEF Dead
  <2>12. c \notin overdue => \A d \in Reconcilers \ {c} :
           recon[d].pc = "promote" /\ d \notin overdue => recon[d].run # r
    BY <2>1, <2>2 DEF Starts, Promoting, PromotingAt, Dead
  <2>13. n # 0 => Dead(r, n)'
    <3>1. \A z \in Slots : worker[z].run = r => disp[z].at # n
      BY <2>1, Ids DEF Starts, Apart
    <3> QED BY <1>4, <2>3, <3>1 DEF Dead
  <2>16. UNCHANGED overdue
    BY <1>5 DEF TakeParked
  <2>14. Promoting'
    <3>1. ASSUME NEW d \in Reconcilers, recon'[d].pc = "promote", d \notin overdue
          PROVE  /\ job'[recon'[d].run].state = "parked" /\ job'[recon'[d].run].at = recon'[d].at
                 /\ Dead(recon[d].run, recon[d].at)'
      <4>1. CASE d = c
        <5>1. recon'[c].at = n
          BY <1>3, <1>4, <2>4 DEF AdvanceSet
        <5> QED BY <1>4, <2>2, <2>5, <2>13, <3>1, <4>1, <5>1 DEF Dead
      <4>2. CASE d # c
        <5>1. PICK q \in Runs : q = recon[d].run
          BY <2>4, <3>1, <4>2, AdvanceRun
        <5>2. PICK k : k = recon[d].at
          OBVIOUS
        <5>3. job[q].state = "parked" /\ job[q].at = k /\ Dead(q, k)'
          BY <2>4, <2>8, <3>1, <4>2, <5>1, <5>2 DEF Starts, Promoting, PromotingAt
        <5> QED BY <1>4, <2>4, <4>2, <5>1, <5>2, <5>3 DEF Dead
      <4> QED BY <4>1, <4>2
    <3>2. ASSUME NEW d \in Reconcilers, NEW e \in Reconcilers, d # e,
                 recon'[d].pc = "promote", d \notin overdue, recon'[e].pc = "promote", e \notin overdue
          PROVE  recon'[d].run # recon'[e].run
      <4>1. CASE d # c /\ e # c
        BY <2>4, <3>2, <4>1 DEF Starts, Promoting
      <4>2. CASE d = c \/ e = c
        <5>1. c \notin overdue => \A z \in Reconcilers \ {c} :
                recon'[z].pc = "promote" /\ z \notin overdue => recon'[z].run # r
          BY <2>4, <2>12
        <5> QED BY <2>5, <3>2, <4>2, <5>1
      <4> QED BY <4>1, <4>2
    <3> QED BY <2>16, <3>1, <3>2 DEF Promoting, PromotingAt
  <2>15. \A q \in Runs : Same(q)
    BY <1>4 DEF Same
  <2> QED BY <1>1, <1>4, <2>3, <2>4, <2>6, <2>7, <2>9, <2>10, <2>11, <2>14, <2>15, QuietStep
          DEF Starts, JobTypes
<1>6. CASE ~Parked(c)
  <2>1. recon' = [recon EXCEPT ![c] = NoAdvance] /\ UNCHANGED marker
    BY <1>6 DEF TakeParked
  <2>2. /\ recon' \in [Reconcilers -> AdvanceSet] /\ recon'[c].pc = "idle"
        /\ \A d \in Reconcilers \ {c} : recon'[d] = recon[d]
    BY <1>1, <2>1, AdvanceValues DEF StartTypes
  <2>3. AdvancesAt(c)'
    BY <2>2 DEF AdvancesAt
  <2> QED BY <1>4, <2>1, <2>2, <2>3, AdvanceStep
<1> QED BY <1>5, <1>6

(* A promotion that is not overdue finds the run parked.                       *)
LEMMA Promoted ==
  ASSUME IInv, NEW c \in Reconcilers, Promote(c), NEW r, r = recon[c].run
  PROVE  /\ r \in Runs
         /\ c \notin overdue => /\ job[r].state = "parked" /\ job[r].at = recon[c].at
                               /\ Dead(r, job[r].at)
         /\ job' \in {job, Moved(r, "wait", 0)}
         /\ job[r].state \in {"parked", "busy", "backoff", "after"} \/ UNCHANGED job
<1>1. r \in Runs /\ recon[c].pc = "promote"
  BY AdvanceRun DEF Promote
<1>2. c \notin overdue => /\ job[r].state = "parked" /\ job[r].at = recon[c].at /\ Dead(r, job[r].at)
  BY <1>1 DEF IInv, Starts, Promoting, PromotingAt, Dead
<1> QED BY <1>1, <1>2 DEF Promote, Delayed, Native

LEMMA Promote_Kept == ASSUME IInv, NEW c \in Reconcilers, Promote(c) PROVE IInv'
<1> USE DEF IInv
<1>1. RowTypes /\ JobTypes /\ StartTypes /\ HistoryTypes
  BY Typed
<1>2. PICK r \in Runs : r = recon[c].run
  BY Promoted
<1>3. /\ recon[c].pc = "promote" /\ recon' = [recon EXCEPT ![c] = NoAdvance]
      /\ overdue' = (IF c \in overdue THEN overdue \cup Watching(r) ELSE overdue) \ {c}
      /\ UNCHANGED <<row, lease, worker, started, trouble, part, marker, disp, arrived, failed, cancelled>>
  BY <1>2 DEF Promote, jobs
<1>4. /\ recon' \in [Reconcilers -> AdvanceSet] /\ recon'[c].pc = "idle"
      /\ \A d \in Reconcilers \ {c} : recon'[d] = recon[d]
  BY <1>1, <1>3, AdvanceValues DEF StartTypes
<1>5. Late
  BY <1>1, <1>3, <1>4 DEF Late, HistoryTypes, Watching
<1>6. AdvancesAt(c)'
  BY <1>4 DEF AdvancesAt
<1>7. /\ job' \in [Runs -> JobSet] /\ \A q \in Runs \ {r} : job'[q] = job[q]
      /\ job'[r].state = "wait" \/ job'[r] = job[r]
      /\ job[r].state \in {"parked", "busy", "backoff", "after"} \/ job'[r] = job[r]
  <2>1. /\ job' \in {job, Moved(r, "wait", 0)}
        /\ job[r].state \in {"parked", "busy", "backoff", "after"} \/ UNCHANGED job
    BY <1>2, Promoted
  <2>2. CASE UNCHANGED job
    BY <1>1, <2>2 DEF JobTypes
  <2>3. CASE job' = Moved(r, "wait", 0)
    BY <2>1, <2>3, MovedJob DEF JobStates
  <2> QED BY <2>1, <2>2, <2>3
<1>8. \A d \in Reconcilers : recon'[d].pc \in {"take", "promote"} =>
        d # c /\ recon'[d] = recon[d] /\ recon[d].run \in Runs /\ (d \notin overdue' => d \notin overdue)
  <2>1. \A d \in Reconcilers : recon[d].pc \in {"take", "promote"} => recon[d].run \in Runs
    BY AdvanceRun
  <2> QED BY <1>3, <1>4, <2>1
<1>9. PICK n : n = job[r].at
  OBVIOUS
<1>10. c \notin overdue => job[r].state = "parked" /\ recon[c].at = n /\ Dead(r, n)
  BY <1>2, <1>9, Promoted DEF Dead
(* Whoever else counts on the job being parked is overdue now, or finds nothing. *)
<1>11. ASSUME NEW d \in Reconcilers \ {c}, recon[d].pc \in {"take", "promote"}, recon[d].run = r,
              d \notin overdue', job[r].state = "parked", recon[d].at = n
       PROVE  Dead(r, n)
  <2>1. d \in Watching(r)
    BY <1>9, <1>11 DEF Watching
  <2> QED BY <1>3, <1>10, <1>11, <2>1
<1>12. Apart'
  BY <1>3 DEF Starts, Apart
<1>13. Delays'
  <2>1. ASSUME NEW q \in Runs
        PROVE  /\ job'[q].state \in {"busy", "backoff"} => Dead(q, job[q].at)'
               /\ job'[q].state = "parked" => job'[q].at # 0
    <3>1. job'[q] = job[q] \/ job'[q].state = "wait"
      BY <1>7
    <3> QED BY <1>3, <3>1 DEF Starts, Delays, Dead
  <2> QED BY <2>1 DEF Delays
<1>14. Taking'
  <2> SUFFICES ASSUME NEW d \in Reconcilers \ {c}, recon[d].pc = "take", d \notin overdue', d \notin overdue
               PROVE  \/ job'[recon[d].run].state = "parked" /\ job'[recon[d].run].at = recon[d].at
                      \/ Dead(recon[d].run, recon[d].at)
    BY <1>3, <1>4, <1>8 DEF Taking, TakingAt, Dead
  <2>1. recon[d].run \in Runs
    BY AdvanceRun
  <2>2. \/ job[recon[d].run].state = "parked" /\ job[recon[d].run].at = recon[d].at
        \/ Dead(recon[d].run, recon[d].at)
    BY DEF Starts, Taking, TakingAt
  <2> QED BY <1>7, <1>9, <1>11, <2>1, <2>2
<1>15. Promoting'
  <2>1. ASSUME NEW d \in Reconcilers, recon'[d].pc = "promote", d \notin overdue'
        PROVE  PromotingAt(d)'
    <3>1. d # c /\ recon'[d] = recon[d] /\ recon[d].run \in Runs /\ d \notin overdue
      BY <1>8, <2>1
    <3>2. /\ job[recon[d].run].state = "parked" /\ job[recon[d].run].at = recon[d].at
          /\ Dead(recon[d].run, recon[d].at)
      BY <2>1, <3>1 DEF Starts, Promoting, PromotingAt
    <3>3. CASE recon[d].run # r
      <4>1. job'[recon[d].run] = job[recon[d].run]
        BY <1>7, <3>1, <3>3
      <4> QED BY <1>3, <3>1, <3>2, <4>1 DEF PromotingAt, Dead
    <3>4. CASE recon[d].run = r
      <4>1. c \in overdue
        BY <1>2, <1>3, <2>1, <3>1, <3>4 DEF Starts, Promoting
      <4>2. d \in Watching(r)
        BY <2>1, <3>1, <3>2, <3>4 DEF Watching
      <4> QED BY <1>3, <2>1, <3>1, <4>1, <4>2
    <3> QED BY <3>3, <3>4
  <2>2. \A d \in Reconcilers : PromotingAt(d)'
    BY <2>1 DEF PromotingAt
  <2> QED BY <1>8, <2>2 DEF Starts, Promoting
<1>16. \A q \in Runs : BackedAt(q)' \/ Same(q)
  <2>1. ASSUME NEW q \in Runs, job'[q] = job[q] PROVE Same(q)
    BY <1>3, <2>1 DEF Same
  <2>2. CASE job'[r].state = "wait" /\ job[r].state \in {"parked", "busy", "backoff", "after"}
    <3>1. BackedAt(r)'
      BY <1>3, <2>2 DEF Backed, BackedAt, Delivered
    <3> QED BY <1>7, <2>1, <3>1
  <2> QED BY <1>7, <2>1, <2>2
<1> QED BY <1>1, <1>3, <1>4, <1>5, <1>6, <1>7, <1>12, <1>13, <1>14, <1>15, <1>16, QuietStep DEF Starts, StartTypes

-----------------------------------------------------------------------------
(* A slot takes a job: the numbers of starts that are kept keep their order.   *)

LEMMA Take_Kept == ASSUME IInv, NEW s \in Slots, NEW r \in Runs, Take(s, r) PROVE IInv'
<1> USE DEF IInv
<1>1. RowTypes /\ JobTypes /\ PartTypes /\ StartTypes /\ HistoryTypes
  BY Typed
<1> DEFINE top == NextStart(r)
           R(n) == Rank(r, n)
           K == Kept(r)
<1>2. /\ disp[s].pc = "idle" /\ job[r].state = "wait"
      /\ job' = [job EXCEPT ![r].state = "active", ![r].by = s]
      /\ worker' = [worker EXCEPT ![s].run = r]
      /\ disp' = [z \in Slots |-> IF z = s THEN [pc |-> "register", at |-> top]
                                 ELSE IF worker[z].run = r THEN [disp[z] EXCEPT !.at = R(@)]
                                 ELSE disp[z]]
      /\ recon' = [c \in Reconcilers |-> IF recon[c].run = r THEN [recon[c] EXCEPT !.at = R(@)]
                                        ELSE recon[c]]
      /\ marker' = [marker EXCEPT ![r] = R(@)]
      /\ UNCHANGED <<part, arrived, failed, row, lease, started, trouble, cancelled, overdue>>
  BY DEF Take
<1>3. /\ K \subseteq Nat \ {0} /\ (marker[r] # 0 => marker[r] \in K)
      /\ \A z \in Slots : worker[z].run = r /\ disp[z].at # 0 => disp[z].at \in K
      /\ \A c \in Reconcilers : recon[c].run = r /\ recon[c].at # 0 => recon[c].at \in K
  BY KeptNumbers
<1>4. /\ top \in Nat /\ top # 0 /\ R(0) = 0
      /\ \A n \in Nat : R(n) \in Nat /\ R(n) # top
      /\ \A n \in K : R(n) # 0
      /\ \A m \in K, n \in K : R(m) = R(n) => m = n
  BY Ranks
<1> HIDE DEF top, R, K
<1>5. worker[s] = Idle /\ Idle.pc = "idle" /\ Idle.run = 0 /\ r # 0
  BY <1>2, Ids DEF Serving, ServingAt, Idle
<1>6. \A z \in Slots : worker[z].run # 0 =>
        z # s /\ worker[z].run \in Runs /\ disp[z].at # 0 /\ disp[z].at \in Nat
  BY <1>5, Served
<1>7. /\ job' \in [Runs -> JobSet] /\ job'[r].state = "active"
      /\ \A q \in Runs \ {r} : job'[q] = job[q]
  <2>1. \A j \in JobSet : LET d == [j EXCEPT !.state = "active", !.by = s] IN
          d \in JobSet /\ d.state = "active"
    BY DEF JobSet, JobStates
  <2>2. /\ job'[r] = [job[r] EXCEPT !.state = "active", !.by = s]
        /\ \A q \in Runs \ {r} : job'[q] = job[q]
        /\ job' = [q \in Runs |-> job'[q]]
    <3>1. job' = [job EXCEPT ![r].state = "active", ![r].by = s]
      BY <1>2
    <3>2. DOMAIN job = Runs /\ job = [q \in Runs |-> job[q]]
      BY <1>1 DEF JobTypes
    <3> QED BY <3>1, <3>2
  <2>3. job'[r] \in JobSet /\ job'[r].state = "active"
    <3>1. job[r] \in JobSet
      BY <1>1 DEF JobTypes
    <3> QED BY <2>1, <2>2, <3>1
  <2>4. \A q \in Runs : job'[q] \in JobSet
    BY <1>1, <2>2, <2>3 DEF JobTypes
  <2> QED BY <2>2, <2>3, <2>4
<1>8. /\ worker' \in [Processes -> WorkerSet] /\ worker'[s].run = r /\ worker'[s].pc = "idle"
      /\ \A z \in Processes \ {s} : worker'[z] = worker[z]
  BY <1>1, <1>2, <1>5, Ids DEF RowTypes, WorkerSet
<1>9. /\ \A z \in Slots \ {s} : worker'[z] = worker[z]
      /\ \A q \in Requests : worker'[q] = worker[q]
  BY <1>8, Ids
<1>10. disp'[s].pc = "register" /\ disp'[s].at = top
  BY <1>2
<1>11. ASSUME NEW z \in Slots \ {s}
       PROVE  /\ disp'[z] \in DispSet /\ disp'[z].pc = disp[z].pc
              /\ disp'[z].at = IF worker[z].run = r THEN R(disp[z].at) ELSE disp[z].at
  <2>1. disp[z] \in DispSet
    BY <1>1 DEF StartTypes
  <2>2. disp'[z] = IF worker[z].run = r THEN [disp[z] EXCEPT !.at = R(disp[z].at)] ELSE disp[z]
    BY <1>2, <1>11
  <2> QED BY <1>4, <2>1, <2>2 DEF DispSet
<1>12. disp' \in [Slots -> DispSet]
  <2>1. disp'[s] \in DispSet
    BY <1>2, <1>4 DEF DispSet
  <2>2. disp' = [z \in Slots |-> disp'[z]]
    BY <1>2
  <2>3. \A z \in Slots : disp'[z] \in DispSet
    BY <1>11, <2>1
  <2> QED BY <2>2, <2>3
<1>13. ASSUME NEW c \in Reconcilers
       PROVE  /\ recon'[c] \in AdvanceSet /\ recon'[c].pc = recon[c].pc
              /\ recon'[c].run = recon[c].run /\ recon'[c].thread = recon[c].thread
              /\ recon'[c].at = IF recon[c].run = r THEN R(recon[c].at) ELSE recon[c].at
  <2>1. recon[c] \in AdvanceSet
    BY <1>1 DEF StartTypes
  <2>2. recon'[c] = IF recon[c].run = r THEN [recon[c] EXCEPT !.at = R(recon[c].at)] ELSE recon[c]
    BY <1>2
  <2> QED BY <1>4, <2>1, <2>2 DEF AdvanceSet
<1>14. recon' \in [Reconcilers -> AdvanceSet]
  <2>1. recon' = [c \in Reconcilers |-> recon'[c]]
    BY <1>2
  <2> QED BY <1>13, <2>1
<1>15. /\ marker' \in [Runs -> Nat] /\ marker'[r] = R(marker[r]) /\ marker[r] \in Nat
       /\ \A q \in Runs \ {r} : marker'[q] = marker[q]
  BY <1>1, <1>2, <1>4 DEF StartTypes
<1>16. TypeOK'
  BY <1>1, <1>2, <1>7, <1>8, <1>12, <1>14, <1>15, Typed_next
     DEF RowTypes, JobTypes, PartTypes, StartTypes, HistoryTypes
<1>17. Onward
  BY <1>2, <1>9 DEF Onward, Resolved, Finished
<1>18. Delivered(r) /\ Delivered(r)'
  <2>1. Delivered(r)
    BY <1>2 DEF Backed, BackedAt
  <2> QED BY <1>17, <2>1, DeliveredKept
<1>19. Serving'
  <2>1. ServingAt(s)'
    BY <1>4, <1>5, <1>8, <1>10, <1>18 DEF ServingAt
  <2>2. \A z \in Slots \ {s} : disp[z].at # 0 => disp'[z].at # 0
    BY <1>3, <1>4, <1>11
  <2> QED BY <1>9, <1>11, <1>17, <2>1, <2>2, ServingKept
<1>20. Backed'
  <2>1. \A q \in Requests : worker'[q].run # 0 => worker'[q].run \in Runs
    BY <1>1, <1>9, Ids DEF RowTypes, WorkerSet
  <2>2. \A q \in Runs \ {r} : Same(q)
    BY <1>2, <1>7, <1>8, <1>9 DEF Same
  <2>3. BackedAt(r)'
    BY <1>7, <1>18 DEF BackedAt
  <2> QED BY <1>9, <1>17, <2>1, <2>2, <2>3, BackedKept DEF Backed
<1>21. Order'
  <2>1. \A z \in Slots : disp'[z].pc = "work" => disp[z].pc = "work" /\ worker'[z].run = worker[z].run
    BY <1>9, <1>10, <1>11
  <2> QED BY <1>2, <1>13, <1>17, <2>1, OrderKept, WorkingArrived
<1>22. ASSUME NEW q \in Runs \ {r}, NEW n, Dead(q, n) PROVE Dead(q, n)'
  <2>1. \A z \in Slots : worker'[z].run = q => z # s /\ worker[z].run = q /\ disp'[z].at = disp[z].at
    BY <1>8, <1>9, <1>11
  <2> QED BY <1>15, <1>22, <2>1 DEF Dead
<1>23. ASSUME NEW n \in K, Dead(r, n), NEW m, m = R(n) PROVE Dead(r, m)'
  <2>2. n \in Nat /\ n # 0 /\ m # 0 /\ m # top
    BY <1>3, <1>4, <1>23
  <2>3. marker'[r] # m
    BY <1>3, <1>4, <1>15, <1>23, <2>2 DEF Dead
  <2>4. ASSUME NEW z \in Slots, worker'[z].run = r PROVE disp'[z].at # m
    <3>1. CASE z = s
      BY <1>10, <2>2, <3>1
    <3>2. CASE z # s
      <4>1. worker[z].run = r /\ disp[z].at # n /\ disp'[z].at = R(disp[z].at)
        BY <1>9, <1>11, <1>23, <2>4, <3>2 DEF Dead
      <4>2. disp[z].at \in K
        BY <1>3, <1>5, <1>6, <4>1
      <4> QED BY <1>4, <1>23, <4>1, <4>2
    <3> QED BY <3>1, <3>2
  <2> QED BY <2>2, <2>3, <2>4 DEF Dead
<1>24. ASSUME NEW z \in Slots, worker'[z].run = r
       PROVE  \/ z = s /\ disp'[z].at = top
              \/ z # s /\ worker[z].run = r /\ disp[z].at \in K /\ disp'[z].at = R(disp[z].at)
  BY <1>3, <1>5, <1>6, <1>9, <1>10, <1>11, <1>24
<1>25. Apart'
  <2>1. ASSUME NEW y \in Slots, NEW z \in Slots, worker'[y].run # 0, worker'[y].run = worker'[z].run,
               y # z
        PROVE  disp'[y].at # disp'[z].at
    <3>1. CASE worker'[y].run = r
      <4>1. CASE y # s /\ z # s
        <5>1. disp[y].at # disp[z].at
          BY <1>5, <1>24, <2>1, <3>1, <4>1 DEF Starts, Apart
        <5>2. disp[y].at \in K /\ disp'[y].at = R(disp[y].at)
          BY <1>24, <3>1, <4>1
        <5>3. disp[z].at \in K /\ disp'[z].at = R(disp[z].at)
          BY <1>24, <2>1, <3>1, <4>1
        <5> QED BY <1>4, <5>1, <5>2, <5>3
      <4>2. CASE y = s \/ z = s
        <5>1. \A x \in K : R(x) # top
          BY <1>3, <1>4
        <5> QED BY <1>24, <2>1, <3>1, <4>2, <5>1
      <4> QED BY <4>1, <4>2
    <3>2. CASE worker'[y].run # r
      BY <1>8, <1>9, <1>11, <2>1, <3>2 DEF Starts, Apart
    <3> QED BY <3>1, <3>2
  <2>2. ASSUME NEW z \in Slots, worker'[z].run # 0 PROVE marker'[worker'[z].run] # disp'[z].at
    <3>1. CASE worker'[z].run = r
      <4>1. CASE z = s
        BY <1>4, <1>15, <1>24, <3>1, <4>1
      <4>2. CASE z # s
        <5>1. worker[z].run = r /\ disp[z].at \in K /\ disp'[z].at = R(disp[z].at)
          BY <1>24, <3>1, <4>2
        <5>2. marker[r] # disp[z].at
          BY <1>5, <5>1 DEF Starts, Apart
        <5> QED BY <1>3, <1>4, <1>15, <3>1, <5>1, <5>2
      <4> QED BY <4>1, <4>2
    <3>2. CASE worker'[z].run # r
      <4>1. z # s /\ worker'[z] = worker[z] /\ disp'[z].at = disp[z].at /\ worker[z].run \in Runs \ {r}
        BY <1>6, <1>8, <1>9, <1>11, <2>2, <3>2
      <4> QED BY <1>15, <2>2, <4>1 DEF Starts, Apart
    <3> QED BY <3>1, <3>2
  <2> QED BY <2>1, <2>2 DEF Apart
<1>26. Delays'
  <2>1. ASSUME NEW q \in Runs \ {r}, job[q].state \in {"busy", "backoff"} PROVE Dead(q, job[q].at)'
    <3>1. PICK n : n = job[q].at
      OBVIOUS
    <3>2. Dead(q, n)'
      BY <1>22, <2>1, <3>1 DEF Starts, Delays
    <3> QED BY <1>7, <3>1, <3>2 DEF Dead
  <2> QED BY <1>7, <2>1 DEF Starts, Delays
<1>27. Taking'
  <2> SUFFICES ASSUME NEW c \in Reconcilers, recon'[c].pc = "take", c \notin overdue
               PROVE  \/ job'[recon'[c].run].state = "parked" /\ job'[recon'[c].run].at = recon'[c].at
                      \/ Dead(recon[c].run, recon[c].at)'
    BY <1>2 DEF Taking, TakingAt
  <2>1. recon[c].pc = "take" /\ recon[c].run \in Runs /\ recon'[c].run = recon[c].run
    BY <1>13, AdvanceRun
  <2>2. \/ job[recon[c].run].state = "parked" /\ job[recon[c].run].at = recon[c].at
        \/ Dead(recon[c].run, recon[c].at)
    BY <2>1 DEF Starts, Taking, TakingAt
  <2>3. PICK n : n = recon[c].at
    OBVIOUS
  <2>4. CASE recon[c].run = r
    <3>1. Dead(r, n) /\ n # 0
      BY <1>2, <2>2, <2>3, <2>4 DEF Dead
    <3>2. n \in K
      BY <1>3, <2>3, <2>4, <3>1
    <3>3. PICK m : m = R(n)
      OBVIOUS
    <3>4. Dead(r, m)'
      BY <1>23, <3>1, <3>2, <3>3
    <3>5. recon'[c].run = r /\ recon'[c].at = m
      BY <1>13, <2>3, <2>4, <3>3
    <3> QED BY <3>4, <3>5 DEF Dead
  <2>5. CASE recon[c].run # r
    <3>1. PICK q \in Runs \ {r} : q = recon[c].run
      BY <2>1, <2>5
    <3>2. recon'[c].run = q /\ recon'[c].at = n
      BY <1>13, <2>3, <2>5, <3>1
    <3>3. Dead(q, n) => Dead(q, n)'
      BY <1>22
    <3> QED BY <1>7, <2>2, <2>3, <3>1, <3>2, <3>3 DEF Dead
  <2> QED BY <2>4, <2>5
<1>28. \A c \in Reconcilers : recon'[c].pc = "promote" /\ c \notin overdue =>
         /\ recon[c].pc = "promote" /\ recon[c].run \in Runs \ {r} /\ recon'[c].run = recon[c].run
         /\ recon'[c].at = recon[c].at
  <2> SUFFICES ASSUME NEW c \in Reconcilers, recon'[c].pc = "promote", c \notin overdue
               PROVE  recon[c].pc = "promote" /\ recon[c].run \in Runs \ {r}
    BY <1>13
  <2>1. recon[c].pc = "promote" /\ recon[c].run \in Runs
    BY <1>13, AdvanceRun
  <2> QED BY <1>2, <2>1 DEF Starts, Promoting, PromotingAt
<1>29. Promoting'
  <2>1. ASSUME NEW c \in Reconcilers, recon'[c].pc = "promote", c \notin overdue
        PROVE  /\ job'[recon'[c].run].state = "parked" /\ job'[recon'[c].run].at = recon'[c].at
               /\ Dead(recon[c].run, recon[c].at)'
    <3>1. PICK q \in Runs \ {r} : q = recon[c].run
      BY <1>28, <2>1
    <3>2. PICK n : n = recon[c].at
      OBVIOUS
    <3>3. recon[c].pc = "promote" /\ recon'[c].run = q /\ recon'[c].at = n
      BY <1>28, <2>1, <3>1, <3>2
    <3>4. job[q].state = "parked" /\ job[q].at = n /\ Dead(q, n)'
      BY <1>22, <2>1, <3>1, <3>2, <3>3 DEF Starts, Promoting, PromotingAt
    <3> QED BY <1>7, <3>1, <3>3, <3>4 DEF Dead
  <2>2. \A c, d \in Reconcilers :
          /\ recon'[c].pc = "promote" /\ c \notin overdue
          /\ recon'[d].pc = "promote" /\ d \notin overdue
          => c = d \/ recon'[c].run # recon'[d].run
    BY <1>28 DEF Starts, Promoting
  <2> QED BY <1>2, <2>1, <2>2 DEF Promoting, PromotingAt
<1>30. Executing'
  <2>1. worker'[s].run = r /\ worker'[s].pc = "idle" /\ r # 0
    BY <1>5, <1>8
  <2>2. ExecutingAt(s)'
    BY <1>18, <2>1 DEF ExecutingAt, UnderClaim, Delivered
  <2> QED BY <1>2, <1>8, <1>17, <2>2, ExecutingKept DEF Finished
<1> QED BY <1>16, <1>19, <1>20, <1>21, <1>25, <1>26, <1>27, <1>29, <1>30 DEF Starts

-----------------------------------------------------------------------------
(* Every state.                                                              *)

LEMMA Init_IInv == Init => IInv
<1> SUFFICES ASSUME Init PROVE IInv
  OBVIOUS
<1>1. /\ row = [r \in Runs |-> NoRow] /\ lease = [th \in Threads |-> "free"]
      /\ worker = [p \in Processes |-> Idle] /\ started = [r \in Runs |-> 0] /\ trouble = 0
      /\ job = [r \in Runs |-> NoJob] /\ part = [th \in Homes |-> <<>>]
      /\ marker = [r \in Runs |-> 0] /\ disp = [s \in Slots |-> NoDispatch]
      /\ recon = [c \in Reconcilers |-> NoAdvance] /\ arrived = <<>> /\ failed = {}
      /\ cancelled = {} /\ overdue = {}
  BY DEF Init, JobsInit, QueueInit
<1>2. /\ NoRow \in RowSet /\ NoRow.status = "absent" /\ Idle \in WorkerSet /\ Idle.run = 0
      /\ Idle.pc = "idle" /\ NoDispatch \in DispSet /\ NoDispatch.pc = "idle"
  BY DEF NoRow, RowSet, RowStatus, Idle, WorkerSet, WorkerSteps, NoDispatch, DispSet
<1>3. /\ <<>> \in Seq(Runs) /\ IsInjective(<<>>)
      /\ \A a : ~Contains(<<>>, a)
  BY DEF IsInjective, Contains
<1>4. RowTypes /\ JobTypes /\ PartTypes /\ StartTypes /\ HistoryTypes
  BY <1>1, <1>2, <1>3, NoJobType, AdvanceValues, Ids
     DEF RowTypes, JobTypes, PartTypes, StartTypes, HistoryTypes
<1>5. TypeOK
  BY <1>4, Typed
<1>6. Serving
  BY <1>1, <1>2, Ids DEF Serving, ServingAt
<1>7. Backed
  BY <1>1, <1>2, <1>3, NoJobType, Ids DEF Backed, BackedAt, Delivered
<1>8. Order
  <2>1. Parts /\ Placed
    BY <1>1, <1>3 DEF Parts, Placed
  <2>2. Cleared
    BY <1>1, <1>2 DEF Cleared, ClearedAt
  <2>3. Advances
    BY <1>1, AdvanceValues DEF Advances, AdvancesAt
  <2> QED BY <2>1, <2>2, <2>3 DEF Order
<1>9. Starts
  <2>1. Apart
    BY <1>1, <1>2, Ids DEF Apart
  <2>2. Delays
    BY <1>1, NoJobType DEF Delays
  <2>3. Taking /\ Promoting
    BY <1>1, AdvanceValues DEF Taking, TakingAt, Promoting, PromotingAt
  <2> QED BY <2>1, <2>2, <2>3 DEF Starts
<1>10. Executing
  BY <1>1, <1>2 DEF Executing, ExecutingAt, UnderClaim
<1> QED BY <1>5, <1>6, <1>7, <1>8, <1>9, <1>10 DEF IInv

LEMMA Stutter_Kept == ASSUME IInv, UNCHANGED vars PROVE IInv'
<1>1. UNCHANGED <<row, lease, worker, started, trouble, job, part, marker, disp, recon, arrived, failed, cancelled, overdue>>
  BY DEF vars, jobs, queue
<1>2. TypeOK'
  BY <1>1 DEF IInv, TypeOK, JobsTypeOK, QueueTypeOK
<1>3. Serving' /\ Backed'
  BY <1>1 DEF IInv, Serving, ServingAt, Backed, BackedAt, Delivered, Resolved, Finished
<1>4. Parts' /\ Placed' /\ Cleared'
  BY <1>1 DEF IInv, Order, Parts, Placed, PartOf, Earlier, Resolved, Finished, Cleared, ClearedAt,
              ThreadAt
<1>5. Advances'
  BY <1>1 DEF IInv, Order, Advances, AdvancesAt, Resolved, Finished
<1>6. Apart' /\ Delays'
  BY <1>1 DEF IInv, Starts, Apart, Delays, Dead
<1>7. Taking' /\ Promoting'
  BY <1>1 DEF IInv, Starts, Taking, TakingAt, Promoting, PromotingAt, Dead
<1>8. Executing'
  BY <1>1 DEF IInv, Executing, ExecutingAt, ThreadAt, Finished
<1> QED BY <1>2, <1>3, <1>4, <1>5, <1>6, <1>7, <1>8 DEF IInv, Order, Starts

LEMMA Next_Kept == ASSUME IInv, Next PROVE IInv'
<1>1. ASSUME NEW s \in Slots, NEW r \in Runs, Take(s, r) PROVE IInv'
  BY <1>1, Take_Kept
<1>2. ASSUME NEW r \in Runs, Timer(r) \/ Stalled(r) \/ Resubmit(r) \/ Cancel(r) PROVE IInv'
  BY <1>2, Timer_Kept, Stalled_Kept, Resubmit_Kept, Cancel_Kept
<1>3. ASSUME NEW r \in Runs, NEW th \in Homes, Submit(r, th) PROVE IInv'
  BY <1>3, Submit_Kept
<1>4. ASSUME NEW r \in Runs, NEW th \in Homes, NEW q \in Requests, Request(q, r, th), UNCHANGED queue
      PROVE  IInv'
  BY <1>4, Request_Kept
<1>5. ASSUME NEW p \in Processes, Work(p) PROVE IInv'
  BY <1>5, Work_Kept
<1>6. ASSUME NEW s \in Slots, Dispatch(s) PROVE IInv'
  BY <1>6, Register_Kept, Park_Kept, RecordParked_Kept, Defer_Kept, Fail_Kept, Handled_Kept,
     Complete_Kept DEF Dispatch
<1>7. ASSUME NEW s \in Slots, LoseLock(s) \/ ((Throw(s) \/ SettleFails(s)) /\ UNCHANGED queue) PROVE IInv'
  BY <1>7, LoseLock_Kept, Throw_Kept
<1>8. ASSUME NEW c \in Reconcilers, Advance(c) PROVE IInv'
  BY <1>8, Look_Kept, RemoveGone_Kept, TakeParked_Kept, Promote_Kept DEF Advance
<1>9. ASSUME NEW c \in Reconcilers, AdvanceFails(c) \/ Crash(c) PROVE IInv'
  BY <1>9, AdvanceFails_Kept, Crash_Kept
<1>10. ASSUME NEW c \in Sweepers, NEW th \in Homes, Sweep(c, th) PROVE IInv'
  BY <1>10, Sweep_Kept
<1> QED BY <1>1, <1>2, <1>3, <1>4, <1>5, <1>6, <1>7, <1>8, <1>9, <1>10 DEF Next

(* Every reachable state satisfies the inductive invariant: a run that nobody  *)
(* may pass keeps its place in the order of its thread, and a start recorded   *)
(* as parked is no other start (redis-run-partitions.ts, dispatchRun).       *)
THEOREM DispatchInvariant == Spec => []IInv
<1>1. IInv /\ [Next]_vars => IInv'
  BY Next_Kept, Stutter_Kept
<1> QED BY <1>1, Init_IInv, PTL DEF Spec

(* The queue's state is of its types: among them, a thread's order holds a run *)
(* once, and a job fails fewer times than it has attempts (REGISTER, BullMQ). *)
THEOREM QueueTypes == Spec => []TypeOK
<1>1. IInv => TypeOK
  BY DEF IInv
<1> QED BY <1>1, DispatchInvariant, PTL

-----------------------------------------------------------------------------
(* What a step may not do.                                                   *)

(* A step that starts the graph of a run is made by whoever marks it running.  *)
LEMMA WhoStarts ==
  ASSUME IInv, Next, NEW r \in Runs, started'[r] # started[r]
  PROVE  \E p \in Processes : worker[p].pc = "start" /\ worker[p].run = r
<1>1. PICK p \in Processes : MarkRunning(p)
  BY DEF Next, Take, Timer, Stalled, Resubmit, Cancel, Submit, Request, Work, Execute, Read,
         Claim, Reread, Settle, Release, Dispatch, Register, Park, RecordParked, Defer, Fail, Handled,
         Complete, LoseLock, Throw, SettleFails, Advance, Look, RemoveGone, TakeParked, Promote,
         AdvanceFails, Crash, Sweep, jobs, queue
<1>2. started \in [Runs -> Nat] /\ worker[p].run \in Runs \cup {0}
  BY Typed DEF IInv, RowTypes, WorkerSet
<1>3. worker[p].run = r
  BY <1>1, <1>2 DEF MarkRunning
<1> QED BY <1>1, <1>3 DEF MarkRunning

(* The runs of a thread start in the order of their registration, unless a run *)
(* that is passed is over, cancelled or was given up, whoever dies, is late or  *)
(* loses a lock: whoever is at work had nobody to wait for (dispatchRun).      *)
THEOREM RunsStartInOrder == Spec => StartsInOrder
<1>1. ASSUME IInv, Next, NEW r \in Runs, NEW q \in Runs, started'[r] # started[r], Earlier(q, r),
             row[q].thread = row[r].thread
      PROVE  Finished(q) \/ q \in failed \cup cancelled
  <2>1. PICK p \in Processes : worker[p].pc = "start" /\ worker[p].run = r
    BY <1>1, WhoStarts
  <2>2. Contains(arrived, r) /\ r # 0
    BY <1>1, EarlierArrived, Ids DEF IInv
  <2>3. p \in Slots
    <3>1. Delivered(r)
      BY <1>1, <2>2, ArrivedDelivered DEF IInv
    <3> QED BY <2>1, <3>1 DEF Delivered, Processes
  <2>4. disp[p].pc = "work"
    BY <1>1, <2>1, <2>3 DEF IInv, Serving, ServingAt
  <2> QED BY <1>1, <2>1, <2>3, <2>4 DEF IInv, Order, Cleared, ClearedAt, ThreadAt, Resolved
<1>2. IInv /\ [Next]_vars =>
        [\A r, q \in Runs :
           started'[r] # started[r] /\ Earlier(q, r) /\ row[q].thread = row[r].thread
             => Finished(q) \/ q \in failed \cup cancelled]_vars
  BY <1>1
<1> QED BY <1>2, DispatchInvariant, PTL DEF Spec, StartsInOrder

(* No promotion ends a delay of BullMQ's own, unless the parked start it is     *)
(* meant for has ended by itself while the advance was at it: a marker is       *)
(* taken once and only for the start that was parked (advance, TAKE_PARKED).   *)
THEOREM DelaysOfOthersKept == Spec => NativeDelaysKept
<1>1. ASSUME IInv, Next, NEW r \in Runs, NEW c \in Reconcilers, job[r].state \in Native,
             job'[r].state = "wait", recon'[c] # recon[c], c \notin overdue
      PROVE  FALSE
  <2>1. job' # job /\ job[r].state # "wait" /\ recon' # recon
    BY <1>1 DEF Native
  <2>2. (\E s \in Slots, q \in Runs : Take(s, q)) \/ (\E d \in Reconcilers : Promote(d) \/ Crash(d))
    BY <1>1, <2>1 DEF Next, Timer, Stalled, Resubmit, Cancel, Submit, Request, Work, Dispatch,
       Register, Park, RecordParked, Defer, Fail, Handled, Complete, LoseLock, Throw, SettleFails,
       Advance, Look, RemoveGone, TakeParked, AdvanceFails, Sweep, jobs, queue
  <2>3. job \in [Runs -> JobSet]
    BY <1>1, Typed DEF IInv, JobTypes
  <2>4. ASSUME NEW s \in Slots, NEW q \in Runs, Take(s, q) PROVE FALSE
    <3>1. job' = [job EXCEPT ![q].state = "active", ![q].by = s]
      BY <2>4 DEF Take
    <3>2. \A j \in JobSet : [j EXCEPT !.state = "active", !.by = s].state = "active"
      BY DEF JobSet
    <3>3. job'[r].state \in {"active", job[r].state}
      BY <2>3, <3>1, <3>2
    <3> QED BY <1>1, <2>1, <3>3
  <2>5. ASSUME NEW d \in Reconcilers, Promote(d) PROVE FALSE
    <3>1. d = c
      BY <1>1, <2>5, Typed DEF Promote, IInv, StartTypes
    <3>2. PICK q \in Runs : q = recon[c].run
      BY <1>1, <2>5, <3>1, Promoted
    <3>3. job[q].state = "parked" /\ job' \in {job, Moved(q, "wait", 0)}
      BY <1>1, <2>5, <3>1, <3>2, Promoted
    <3>4. \A z \in Runs \ {q} : job'[z] = job[z]
      BY <1>1, <2>1, <3>3, MovedJob DEF IInv, JobStates
    <3> QED BY <1>1, <2>1, <3>3, <3>4 DEF Native
  <2>6. ASSUME NEW d \in Reconcilers, Crash(d) PROVE FALSE
    <3>1. job' = [q \in Runs |-> IF job[q].by = d THEN [job[q] EXCEPT !.by = "dead"] ELSE job[q]]
      BY <2>1, <2>6 DEF Crash
    <3>2. \A j \in JobSet : [j EXCEPT !.by = "dead"].state = j.state
      BY DEF JobSet
    <3>3. job'[r].state = job[r].state
      BY <2>3, <3>1, <3>2
    <3> QED BY <1>1, <2>1, <3>3
  <2> QED BY <2>2, <2>4, <2>5, <2>6
<1>2. IInv /\ [Next]_vars =>
        [\A r \in Runs, c \in Reconcilers :
           job[r].state \in Native /\ job'[r].state = "wait" /\ recon'[c] # recon[c]
             => c \in overdue]_vars
  BY <1>1
<1> QED BY <1>2, DispatchInvariant, PTL DEF Spec, NativeDelaysKept

(* A run that was executed to its end is never executed again, although the     *)
(* write of running looks at nothing: whoever is about to make it has read the  *)
(* row under the claim, which nobody else held since, so that only a cancel     *)
(* can have written it meanwhile (executeOne, startRunExecution, executeRun).   *)
THEOREM NotStartedAgain == Spec => NotReexecuted
<1>1. ASSUME IInv, Next, NEW r \in Runs, started'[r] # started[r]
      PROVE  row[r].status # "done" \/ r \in cancelled
  <2>1. PICK p \in Processes : worker[p].pc = "start" /\ worker[p].run = r
    BY <1>1, WhoStarts
  <2> QED BY <1>1, <2>1 DEF IInv, Executing, ExecutingAt, Finished
<1>2. IInv /\ [Next]_vars =>
        [\A r \in Runs : started'[r] # started[r] => row[r].status # "done" \/ r \in cancelled]_vars
  BY <1>1
<1> QED BY <1>2, DispatchInvariant, PTL DEF Spec, NotReexecuted
=============================================================================
