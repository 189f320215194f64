----------------------------- MODULE CronScheduler -----------------------------
(***************************************************************************)
(* Crons: their rows and claim tokens, the patches of the cron service, and   *)
(* the scheduler's ticks, which scan for due crons, claim each occurrence     *)
(* together with the run it creates, enqueue that run, and sweep up runs     *)
(* that were committed but never queued. A tick that outlasts its timeout     *)
(* goes on beside the next one, so that several ticks may be under way.       *)
(*                                                                         *)
(* Time is counted in occurrences: every schedule fires at every instant.    *)
(***************************************************************************)
EXTENDS MemoryRunQueue

CONSTANTS Crons,      \* cron ids: numbers, which also break ties
          Ticks,      \* the ticks that may be under way together, numbered
          BatchSize,  \* due crons one tick takes
          Grace,      \* instants before a pending run counts as never queued
          EndTime,    \* the last instant a cron fires, itself included
          Editors,    \* clients that patch a cron
          PatchKinds, \* "enable", "disable" or "schedule": the patches they make
          MaxNow      \* bound on the clock

ASSUME CronsAssumption ==
  /\ Crons \subseteq Nat \ {0} /\ Ticks \subseteq Nat /\ IsFiniteSet(Ticks) /\ MaxNow \in Nat
  /\ BatchSize \in Nat \ {0} /\ Grace \in Nat /\ EndTime \in Nat \ {0}
  /\ PatchKinds \subseteq {"enable", "disable", "schedule"}

VARIABLES
  now,     \* the clock
  cron,    \* cron[k]: its row, with its next date, its claim token, and
           \* since its last patch the last occurrence fired, and the tick's time
  homes,   \* the clients' threads that still exist
  made,    \* how many threads made for stateless fires exist
  tick,    \* tick[t]: where tick t is, with the due and stale lists it read
  editor   \* editor[e]: the patch e is about to write

crons == <<now, cron, homes, made, tick, editor>>

Never == 0
NotFired == [occ |-> 0, at |-> 0]
NoTick == [pc |-> "idle", at |-> 0, due |-> {}, run |-> 0,
           just |-> {}, stale |-> {}]
NoPatch == [cron |-> 0, kind |-> "none", next |-> Never]

CronsInit ==
  /\ now = 0
  /\ \E home \in [Crons -> Homes \cup {0}] :
       cron = [k \in Crons |-> [exists |-> TRUE, enabled |-> TRUE, next |-> 1, seq |-> 0,
                                fired |-> NotFired, thread |-> home[k]]]
  /\ homes = Homes /\ made = 0
  /\ tick = [t \in Ticks |-> NoTick]
  /\ editor = [e \in Editors |-> NoPatch]

Fired(r) == row[r].cron # 0

(* The first occurrence after an instant; none past the end makes it dormant. *)
NextOccurrence(after) == IF after + 1 <= EndTime THEN after + 1 ELSE Never
Later(a, b) == IF a > b THEN a ELSE b
Advance_FromStored(from, at) == NextOccurrence(from)
Advance(from, at) == NextOccurrence(Later(from, at))

-----------------------------------------------------------------------------
(* The cron service. A patch reads the row and the clock, then writes.        *)
Enabled(k, kind) == kind = "enable" \/ (kind = "schedule" /\ cron[k].enabled)

BeginPatch(e, k, kind) ==
  /\ editor[e].kind = "none" /\ cron[k].exists /\ Trouble
  /\ editor' = [editor EXCEPT ![e] = [cron |-> k, kind |-> kind,
       next |-> IF Enabled(k, kind) THEN NextOccurrence(now) ELSE Never]]
  /\ UNCHANGED <<row, now, cron, homes, made, tick>>

Patched(e) ==
  LET p == editor[e] IN
  [cron EXCEPT ![p.cron].enabled = p.kind = "enable" \/ (p.kind = "schedule" /\ @),
               ![p.cron].next = p.next, ![p.cron].seq = @ + 1, ![p.cron].fired = NotFired]

WritePatch(e) ==
  /\ editor[e].kind # "none"
  /\ cron' = IF cron[editor[e].cron].exists THEN Patched(e) ELSE cron
  /\ editor' = [editor EXCEPT ![e] = NoPatch]
  /\ UNCHANGED <<row, trouble, now, homes, made, tick>>

DeleteCron(k) ==
  /\ cron[k].exists /\ Trouble
  /\ cron' = [cron EXCEPT ![k].exists = FALSE]
  /\ UNCHANGED <<row, now, homes, made, tick, editor>>

(* Deleting a thread takes its runs and its crons along.                     *)
DeleteThread(th) ==
  /\ th \in homes /\ Trouble
  /\ homes' = homes \ {th}
  /\ row' = [r \in Runs |-> IF row[r].thread = th THEN [row[r] EXCEPT !.status = "deleted"] ELSE row[r]]
  /\ cron' = [k \in Crons |-> [cron[k] EXCEPT !.exists = @ /\ cron[k].thread # th]]
  /\ UNCHANGED <<now, made, tick, editor>>

-----------------------------------------------------------------------------
(* The scheduler.                                                           *)
IsDue(k) == cron[k].exists /\ cron[k].enabled /\ cron[k].next # Never /\ cron[k].next <= now
DueCrons == {k \in Crons : IsDue(k)}
Sooner(k, l) == cron[k].next < cron[l].next \/ (cron[k].next = cron[l].next /\ k < l)

(* listDue: the soonest due crons, up to the batch size.                     *)
Batch == {k \in DueCrons : Cardinality({l \in DueCrons : Sooner(l, k)}) < BatchSize}

(* listActiveRuns, filtered by the sweep: pending, fired by a cron, not       *)
(* enqueued by this very tick, and older than the grace period.              *)
Stale_Inline(at, just) == {r \in Runs : Pending(r) /\ r \notin just /\ row[r].created <= at - Grace}
Stale_Never(at, just) == {}
Stale(at, just) == {r \in Runs : Pending(r) /\ Fired(r) /\ r \notin just /\ row[r].created <= at - Grace}

(* A tick with nothing to do changes nothing.                                *)
Scan(t) ==
  /\ tick[t].pc = "idle" /\ \A u \in Ticks : u < t => tick[u].pc # "idle"
  /\ (DueCrons # {} \/ Stale(now, {}) # {})
  /\ tick' = [tick EXCEPT ![t] = [NoTick EXCEPT !.pc = IF Batch = {} THEN "sweep" ELSE "fire",
       !.at = now,
       !.due = {[cron |-> k, seq |-> cron[k].seq, occ |-> cron[k].next] : k \in Batch}]]
  /\ UNCHANGED <<now, cron, homes, made, editor>> /\ UNCHANGED <<jobs, queue>>

(* The due cron a tick is at: the soonest left.                              *)
Current(t) == CHOOSE d \in tick[t].due : \A e \in tick[t].due :
                d.occ < e.occ \/ (d.occ = e.occ /\ d.cron <= e.cron)
NextDate(t) == Advance(Current(t).occ, tick[t].at)

(* The tick turns to its next due cron, or to the sweep.                     *)
Onward(t, just) ==
  LET rest == tick[t].due \ {Current(t)} IN
  [tick EXCEPT ![t] = [@ EXCEPT !.due = rest, !.just = just, !.run = 0,
                                !.pc = IF rest = {} THEN "sweep" ELSE "fire"]]
Goto(t, pc) == [tick EXCEPT ![t].pc = pc]


(* A stateless fire makes its thread before the claim.                       *)
PrepareThread(t) ==
  /\ tick[t].pc = "fire"
  /\ LET own == cron[Current(t).cron].thread IN
     /\ made' = IF own = 0 THEN made + 1 ELSE made
     /\ tick' = Goto(t, IF own \in homes \cup {0} THEN "claim" ELSE "advance")
  /\ UNCHANGED <<now, cron, homes, editor>> /\ UNCHANGED <<jobs, queue>>

(* #claimCron: compare the token, advance the date and the token.            *)
Claimable(d) == cron[d.cron].exists /\ cron[d.cron].enabled /\ cron[d.cron].seq = d.seq
Advanced(d, next) == [cron EXCEPT ![d.cron].next = next, ![d.cron].seq = @ + 1]

(* claimAndCreateRun: the claim and its pending run in one transaction.       *)
Fire(t, r) ==
  LET d == Current(t) IN
  /\ Claimable(d) /\ IsNext(r)
  /\ cron' = [Advanced(d, NextDate(t)) EXCEPT ![d.cron].fired = [occ |-> d.occ, at |-> tick[t].at]]
  /\ row' = Inserted(r, IF cron[d.cron].thread = 0 THEN r ELSE cron[d.cron].thread, d.cron, now)

ClaimOccurrence(t) ==
  /\ tick[t].pc = "claim"
  /\ \/ \E r \in Runs : Fire(t, r) /\ tick' = [tick EXCEPT ![t].pc = "enqueue", ![t].run = r]
     \/ /\ ~Claimable(Current(t))
        /\ tick' = IF cron[Current(t).cron].thread = 0 THEN Goto(t, "discard")
                   ELSE Onward(t, tick[t].just)
        /\ UNCHANGED <<cron, row>>
  /\ UNCHANGED <<now, homes, made, editor, lease, worker, started, trouble>> /\ UNCHANGED queue

(* A lost claim takes back the thread made for it.                           *)
WithoutThread_Kept(n) == n
WithoutThread(n) == n - 1
DiscardThread(t) ==
  /\ tick[t].pc = "discard"
  /\ made' = WithoutThread(made)
  /\ tick' = Onward(t, tick[t].just)
  /\ UNCHANGED <<now, cron, homes, editor>> /\ UNCHANGED <<jobs, queue>>

EnqueueFired(t) ==
  /\ tick[t].pc = "enqueue"
  /\ Enqueue(tick[t].run)
  /\ tick' = Onward(t, tick[t].just \cup {tick[t].run})
  /\ UNCHANGED <<now, cron, homes, made, editor>> /\ UNCHANGED jobs

(* fireCron throws: before the claim, after a claim that was committed all    *)
(* the same, or when the queue refuses the run.                             *)
FireFails(t) ==
  /\ Trouble
  /\ \/ tick[t].pc \in {"fire", "claim", "discard", "enqueue"} /\ UNCHANGED <<cron, row>>
     \/ tick[t].pc = "claim" /\ \E r \in Runs : Fire(t, r)
  /\ tick' = IF tick[t].pc = "discard" THEN Onward(t, tick[t].just) ELSE Goto(t, "advance")
  /\ UNCHANGED <<now, homes, made, editor, lease, worker, started>> /\ UNCHANGED queue

(* A failed fire still moves the cron on (claimNextRun).                     *)
AdvanceFailed(t) ==
  /\ tick[t].pc = "advance"
  /\ cron' = IF Claimable(Current(t)) THEN Advanced(Current(t), NextDate(t)) ELSE cron
  /\ tick' = Onward(t, tick[t].just)
  /\ UNCHANGED <<now, homes, made, editor>> /\ UNCHANGED <<jobs, queue>>

Sweep(t) ==
  /\ tick[t].pc = "sweep"
  /\ LET stale == Stale(tick[t].at, tick[t].just) IN
     tick' = [tick EXCEPT ![t] = IF stale = {} THEN NoTick
                                 ELSE [NoTick EXCEPT !.pc = "requeue", !.stale = stale]]
  /\ UNCHANGED <<now, cron, homes, made, editor>> /\ UNCHANGED <<jobs, queue>>

Requeue(t) ==
  /\ tick[t].pc = "requeue"
  /\ LET r == CHOOSE r \in tick[t].stale : \A q \in tick[t].stale : r <= q
         rest == tick[t].stale \ {r}
     IN /\ Enqueue(r)
        /\ tick' = [tick EXCEPT ![t] = IF rest = {} THEN NoTick ELSE [@ EXCEPT !.stale = rest]]
  /\ UNCHANGED <<now, cron, homes, made, editor>> /\ UNCHANGED jobs

(* A failing scan or sweep ends the tick; the loop schedules the next one.   *)
TickFails(t) ==
  /\ tick[t].pc \in {"sweep", "requeue"}
  /\ Trouble
  /\ tick' = [tick EXCEPT ![t] = NoTick]
  /\ UNCHANGED <<now, cron, homes, made, editor, row, lease, worker, started>>
  /\ UNCHANGED queue

TickStep(t) ==
  \/ Scan(t) \/ PrepareThread(t) \/ ClaimOccurrence(t) \/ DiscardThread(t)
  \/ EnqueueFired(t) \/ AdvanceFailed(t) \/ Sweep(t) \/ Requeue(t)

Clock ==
  /\ now < MaxNow /\ now' = now + 1
  /\ UNCHANGED <<cron, homes, made, tick, editor>> /\ UNCHANGED <<jobs, queue>>
=============================================================================
