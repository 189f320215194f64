---------------------------- MODULE IdempotencyKeys ----------------------------
(***************************************************************************)
(* Requests that create a run under one idempotency key: the claim that       *)
(* decides who executes, the handler that creates the run, the response that  *)
(* is recorded for replay or the key that is released, on instances that     *)
(* share a store. Claims and records expire; a slow request may outlive its   *)
(* claim. Background creates on a store with native admission also keep an   *)
(* admission record, written together with the run.                          *)
(***************************************************************************)
EXTENDS Integers, FiniteSets

CONSTANTS Requests,   \* the requests sent with the key
          Bodies,     \* their bodies, as fingerprints
          Natives,    \* whether admission is used: the cases to be checked
          InFlight,   \* how long a claim holds
          Retention,  \* how long a recorded response or an admission is kept
          LastSent,   \* bound on the time at which a request is sent
          MaxNow,     \* bound on the clock
          MaxTrouble  \* bound on failing calls, crashes and deletions

ASSUME KeysAssumption ==
  /\ InFlight \in Nat \ {0} /\ Retention \in Nat /\ InFlight <= Retention
  /\ LastSent \in Nat /\ LastSent + InFlight <= MaxNow /\ MaxNow \in Nat
  /\ "none" \notin Requests \cup Bodies /\ Natives \subseteq BOOLEAN /\ MaxTrouble \in Nat

VARIABLES
  now,      \* the clock
  native,   \* whether creates are admitted natively
  record,   \* the key's record: its claimant, its body, its response
  admitted, \* the admission record of the key
  req,      \* req[q]: its step, the time it read, its body, the run it answers
            \* with, and whose claim it replays
  runs,     \* the runs that exist; a run has the name of the request that made it
  erasing,  \* deleted runs whose records are still to be erased
  made,     \* history: the runs ever made
  cover,    \* history: cover[q]: until when the key is promised to be q's
  late,     \* history: the requests whose key another request has claimed since
  trouble   \* so far

vars == <<now, native, record, admitted, req, runs, erasing, made, cover, late, trouble>>

NoRecord == [status |-> "none", by |-> "none", body |-> "none", run |-> "none", expires |-> 0]
NoAdmission == [body |-> "none", run |-> "none", expires |-> 0]
NotSent == [pc |-> "unsent", at |-> 0, body |-> "none", run |-> "none", from |-> "none"]
Steps == {"unsent", "claim", "handle", "recover", "record", "release"}
Answers == {"ran", "replayed", "failed", "in_flight", "reused", "dead"}

Init ==
  /\ now = 0 /\ native \in Natives
  /\ record = NoRecord /\ admitted = NoAdmission
  /\ req = [q \in Requests |-> NotSent]
  /\ runs = {} /\ erasing = {} /\ made = {}
  /\ cover = [q \in Requests |-> 0] /\ late = {} /\ trouble = 0

Trouble == trouble < MaxTrouble /\ trouble' = trouble + 1
At(q) == req[q].at
Goto(q, pc) == [req EXCEPT ![q].pc = pc]
Answering(q, run, pc) == [req EXCEPT ![q].run = run, ![q].pc = pc]

-----------------------------------------------------------------------------
(* A request comes in, or comes again after an answer that the key is in use.  *)
Send(q, body) ==
  /\ \/ req[q].pc = "unsent" /\ now <= LastSent
     \/ req[q].pc = "in_flight" /\ body = req[q].body
  /\ req' = [req EXCEPT ![q] = [NotSent EXCEPT !.pc = "claim", !.at = now, !.body = body]]
  /\ UNCHANGED <<now, native, record, admitted, runs, erasing, made, cover, late, trouble>>

(* claim: an expired claim or response is taken over, in one step.            *)
Free_Dead(q) == record.status = "none"
Free(q) == record.status = "none" \/ record.expires <= At(q)

Claimed(q) ==
  [status |-> "in_flight", by |-> q, body |-> req[q].body, run |-> "none",
   expires |-> At(q) + InFlight]

Claim(q) ==
  /\ req[q].pc = "claim" /\ Free(q)
  /\ record' = Claimed(q)
  /\ cover' = [cover EXCEPT ![q] = At(q) + InFlight]
  /\ late' = late \cup {p \in Requests \ {q} : req[p].pc = "handle"}
  /\ req' = Goto(q, "handle")
  /\ UNCHANGED <<now, native, admitted, runs, erasing, made, trouble>>

(* A key that is held answers by itself.                                     *)
SameBody_Any(q) == TRUE
SameBody(q) == record.body = req[q].body

Held(q) ==
  /\ req[q].pc = "claim" /\ ~Free(q)
  /\ req' = IF ~SameBody(q) THEN Goto(q, "reused")
            ELSE IF record.status = "in_flight" THEN Goto(q, "in_flight")
            ELSE [Answering(q, record.run, "replayed") EXCEPT ![q].from = record.by]
  /\ UNCHANGED <<now, native, record, admitted, runs, erasing, made, cover, late, trouble>>

-----------------------------------------------------------------------------
(* The handler, which may refuse before it has done anything. An error goes    *)
(* to recovery.                                                             *)
Refuse(q) ==
  /\ req[q].pc = "handle"
  /\ req' = Goto(q, "recover")
  /\ UNCHANGED <<now, native, record, admitted, runs, erasing, made, cover, late, trouble>>

(* A run is made; the call that made it, or a later one, may still fail.       *)
Make(q) ==
  /\ runs' = runs \cup {q} /\ made' = made \cup {q}
  /\ \/ req' = Answering(q, q, "record") /\ UNCHANGED trouble
     \/ req' = Goto(q, "recover") /\ Trouble

Create(q) ==
  /\ req[q].pc = "handle" /\ ~native
  /\ Make(q)
  /\ UNCHANGED <<now, native, record, admitted, erasing, cover, late>>

(* admitRun: an admission still kept is given back, unless it was for another  *)
(* body; else it is written in one step with the run.                        *)
Kept(q) == admitted.run # "none" /\ admitted.expires > At(q)

Admit(q) ==
  /\ req[q].pc = "handle" /\ native
  /\ IF Kept(q)
     THEN /\ req' = IF admitted.body = req[q].body /\ admitted.run \in runs
                    THEN Answering(q, admitted.run, "record") ELSE Goto(q, "recover")
          /\ UNCHANGED <<admitted, runs, made, cover, late, trouble>>
     ELSE /\ admitted' = [body |-> req[q].body, run |-> q, expires |-> At(q) + Retention]
          /\ cover' = [cover EXCEPT ![q] = At(q) + Retention]
          /\ Make(q)
  /\ UNCHANGED <<now, native, record, erasing, late>>

(* After an error the admission record is asked whether a run was accepted.    *)
Accepted == IF native /\ admitted.run \in runs THEN admitted.run ELSE "none"

Recover(q) ==
  /\ req[q].pc = "recover"
  /\ req' = IF Accepted # "none" THEN Answering(q, Accepted, "record") ELSE Goto(q, "release")
  /\ UNCHANGED <<now, native, record, admitted, runs, erasing, made, cover, late, trouble>>

-----------------------------------------------------------------------------
(* record and release: nothing happens to a key that is another's by now.      *)
Owns_Any(q) == record.status # "none"
Owns(q) == record.by = q

Record(q) ==
  /\ req[q].pc = "record"
  /\ record' = IF Owns(q) THEN [record EXCEPT !.status = "done", !.run = req[q].run,
                                              !.expires = now + Retention]
               ELSE record
  /\ cover' = IF Owns(q) /\ req[q].run \in runs
              THEN [cover EXCEPT ![req[q].run] = now + Retention] ELSE cover
  /\ req' = Goto(q, "ran")
  /\ UNCHANGED <<now, native, admitted, runs, erasing, made, late, trouble>>

(* The response is returned even if it cannot be recorded.                    *)
RecordFails(q) ==
  /\ req[q].pc = "record" /\ Trouble
  /\ req' = Goto(q, "release")
  /\ UNCHANGED <<now, native, record, admitted, runs, erasing, made, cover, late>>

(* The key is given up, unless the store fails again; natively made runs stay  *)
(* admitted.                                                                *)
Release(q) ==
  /\ req[q].pc = "release"
  /\ \/ /\ record' = IF Owns(q) THEN NoRecord ELSE record
        /\ cover' = IF native THEN cover ELSE [cover EXCEPT ![q] = 0]
        /\ UNCHANGED trouble
     \/ Trouble /\ UNCHANGED <<record, cover>>
  /\ req' = Goto(q, IF req[q].run # "none" THEN "ran" ELSE "failed")
  /\ UNCHANGED <<now, native, admitted, runs, erasing, made, late>>

(* An instance dies with its request; the claim stays until it expires.       *)
Crash(q) ==
  /\ req[q].pc \in {"handle", "recover", "record", "release"} /\ At(q) <= LastSent /\ Trouble
  /\ req' = Goto(q, "dead")
  /\ UNCHANGED <<now, native, record, admitted, runs, erasing, made, cover, late>>

-----------------------------------------------------------------------------
(* Deleting a run, or its thread, takes the recorded responses along after it. *)
DeleteRun(r) ==
  /\ r \in runs /\ Trouble
  /\ runs' = runs \ {r} /\ erasing' = erasing \cup {r}
  /\ cover' = [cover EXCEPT ![r] = 0]
  /\ UNCHANGED <<now, native, record, admitted, req, made, late>>

EraseRecords(r) ==
  /\ r \in erasing
  /\ erasing' = erasing \ {r}
  /\ \/ /\ record' = IF record.run = r THEN NoRecord ELSE record
        /\ admitted' = IF admitted.run = r THEN NoAdmission ELSE admitted
        /\ UNCHANGED trouble
     \/ Trouble /\ UNCHANGED <<record, admitted>>
  /\ UNCHANGED <<now, native, req, runs, made, cover, late>>

(* The sweeper reclaims what has expired.                                    *)
Expired(r) == r.expires <= now
SweepExpired ==
  /\ \/ record.status # "none" /\ Expired(record)
     \/ admitted.run # "none" /\ Expired(admitted)
  /\ record' = IF Expired(record) THEN NoRecord ELSE record
  /\ admitted' = IF Expired(admitted) THEN NoAdmission ELSE admitted
  /\ UNCHANGED <<now, native, req, runs, erasing, made, cover, late, trouble>>

Clock ==
  /\ now < MaxNow /\ now' = now + 1
  /\ UNCHANGED <<native, record, admitted, req, runs, erasing, made, cover, late, trouble>>

Serve(q) ==
  \/ Claim(q) \/ Held(q) \/ Refuse(q) \/ Create(q) \/ Admit(q) \/ Recover(q)
  \/ Record(q) \/ Release(q)
Resend(q) == req[q].pc = "in_flight" /\ Send(q, req[q].body)

Next ==
  \/ \E q \in Requests : \/ Serve(q) \/ RecordFails(q) \/ Crash(q)
                         \/ \E body \in Bodies : Send(q, body)
  \/ \E r \in Requests : DeleteRun(r) \/ EraseRecords(r)
  \/ SweepExpired \/ Clock

Spec == Init /\ [][Next]_vars

(* Requests are served, clients told to retry do so, time passes.             *)
FairSpec ==
  /\ Spec /\ WF_vars(Clock)
  /\ \A q \in Requests : WF_vars(Serve(q)) /\ SF_vars(Resend(q))

-----------------------------------------------------------------------------
TypeOK ==
  /\ now \in 0..MaxNow /\ native \in Natives
  /\ record \in [status: {"none", "in_flight", "done"}, by: Requests \cup {"none"},
                 body: Bodies \cup {"none"}, run: Requests \cup {"none"}, expires: Nat]
  /\ record.status = "done" <=> record.run # "none"
  /\ admitted \in [body: Bodies \cup {"none"}, run: Requests \cup {"none"}, expires: Nat]
  /\ req \in [Requests -> [pc: Steps \cup Answers, at: 0..MaxNow, body: Bodies \cup {"none"},
                           run: Requests \cup {"none"}, from: Requests \cup {"none"}]]
  /\ runs \subseteq made /\ made \subseteq Requests /\ erasing \subseteq made
  /\ cover \in [Requests -> Nat] /\ late \subseteq Requests /\ trouble \in 0..MaxTrouble

(* While a key is promised to the run a request made, no later request makes   *)
(* another: until the claim expires, the request fails, or a response that was *)
(* recorded, or an admission, has been kept its time; also when claims are     *)
(* taken over from requests that still work (claim, record, release, admitRun; *)
(* docs/agent-protocol.md: a retry does not create a second run). An earlier   *)
(* request that outlived its claim may, unless the admission is still kept.    *)
NoSecondRun ==
  [][\A q \in made' \ made : \A p \in made :
       \/ now >= cover[p]
       \/ q \in late /\ (native /\ p \in runs => now >= At(p) + Retention)]_vars

(* A replay gives what the request that holds the record answered itself, to   *)
(* a request with the same body (claim, record).                             *)
ReplaysOriginal ==
  \A q \in Requests : req[q].pc = "replayed" =>
    LET p == req[q].from IN req[q].run = req[p].run /\ req[q].body = req[p].body

(* A client that comes again as long as it is told the key is in flight gets    *)
(* an answer: a claim never outlives its time, whoever died (claim).          *)
Waiting(q) == req[q].pc \in {"claim", "handle", "recover", "record", "release", "in_flight"}
RetriesAnswered == \A q \in Requests : Waiting(q) ~> ~Waiting(q)

(* A request is answered with a run made for its own body                     *)
(* (docs/agent-protocol.md: a key seen with a different body is a 422).        *)
AnswersOwnBody ==
  \A q \in Requests : req[q].pc = "ran" => req[req[q].run].body = req[q].body
=============================================================================
