------------------------- MODULE IdempotencyKeys_proofs -------------------------
(***************************************************************************)
(* Idempotency keys, for any requests, bodies, times and failures: what a      *)
(* replay gives, and that no second run is made while the key is promised to   *)
(* another. The argument is about who holds the record: its claimant is still *)
(* at work or has answered with what is recorded; a promise that has not run   *)
(* out is kept by the record or, with native admission, by the admission.     *)
(***************************************************************************)
EXTENDS IdempotencyKeys, TLAPS

-----------------------------------------------------------------------------
(* The inductive invariant.                                                  *)

Pending == {"handle", "recover", "record", "release"}
Ended == {"ran", "failed", "dead"}

Answered == \A q \in Requests : /\ At(q) <= now
                                /\ req[q].pc = "record" => req[q].run # "none"

(* The record is its claimant's: its body, and once done, its answer.          *)
Holding ==
  /\ record.status = "none" <=> record.by = "none"
  /\ record.status # "none" =>
       /\ req[record.by].pc \in Pending \cup Ended
       /\ record.body = req[record.by].body
  /\ record.status = "done" =>
       req[record.by].pc = "ran" /\ req[record.by].run = record.run

Replaying == \A q \in Requests : req[q].pc = "replayed" =>
  /\ req[q].from \in Requests /\ req[req[q].from].pc = "ran"
  /\ req[q].run = req[req[q].from].run /\ req[q].body = req[req[q].from].body

(* A handler still has the key unless it was told late, or nobody has it.      *)
Handling == \A q \in Requests : req[q].pc = "handle" => q \in late \/ record.by \in {q, "none"}

Making == \A q \in made : req[q].pc \in {"recover", "record", "release"} \cup Ended

Erasing == \A r \in erasing : r \notin runs /\ cover[r] = 0

(* Without admission a run answers only the request that made it.              *)
OwnRuns == ~native =>
  /\ record.run \in {"none", record.by}
  /\ \A q \in Requests : req[q].pc = "record" => req[q].run = q

Covering ==
  /\ \A p \in Requests : cover[p] <= now + Retention
  /\ ~native => \A p \in Requests : now < cover[p] =>
       record.by = p /\ record.expires >= cover[p]
  /\ native => \A p \in made : now < cover[p] =>
       \/ record.run = p /\ record.expires >= cover[p]
       \/ admitted.run = p /\ admitted.expires >= cover[p]

Admissions == native => \A p \in runs :
  \/ now >= At(p) + Retention
  \/ admitted.run = p /\ admitted.expires = At(p) + Retention

IInv == /\ TypeOK /\ Answered /\ Holding /\ Replaying /\ Handling /\ Making /\ Erasing
        /\ OwnRuns /\ Covering /\ Admissions

-----------------------------------------------------------------------------
(* Types.                                                                    *)

RecordSet == [status: {"none", "in_flight", "done"}, by: Requests \cup {"none"},
              body: Bodies \cup {"none"}, run: Requests \cup {"none"}, expires: Nat]
AdmissionSet == [body: Bodies \cup {"none"}, run: Requests \cup {"none"}, expires: Nat]
ReqSet == [pc: Steps \cup Answers, at: 0..MaxNow, body: Bodies \cup {"none"},
           run: Requests \cup {"none"}, from: Requests \cup {"none"}]
Sets == /\ runs \subseteq made /\ made \subseteq Requests /\ erasing \subseteq made
        /\ late \subseteq Requests

(* TypeOK, with its record types by name.                                    *)
LEMMA Types ==
  TypeOK <=>
    /\ now \in 0..MaxNow /\ native \in Natives
    /\ record \in RecordSet /\ (record.status = "done" <=> record.run # "none")
    /\ admitted \in AdmissionSet /\ req \in [Requests -> ReqSet]
    /\ Sets /\ cover \in [Requests -> Nat] /\ trouble \in 0..MaxTrouble
BY DEF TypeOK, RecordSet, AdmissionSet, ReqSet, Sets

LEMMA Types_next ==
  TypeOK' <=>
    /\ now' \in 0..MaxNow /\ native' \in Natives
    /\ record' \in RecordSet /\ (record'.status = "done" <=> record'.run # "none")
    /\ admitted' \in AdmissionSet /\ req' \in [Requests -> ReqSet]
    /\ Sets' /\ cover' \in [Requests -> Nat] /\ trouble' \in 0..MaxTrouble
BY DEF TypeOK, RecordSet, AdmissionSet, ReqSet, Sets

(* Times are natural numbers.                                                *)
LEMMA Times ==
  ASSUME TypeOK
  PROVE  /\ now \in Nat /\ Retention \in Nat /\ InFlight \in Nat /\ InFlight <= Retention
         /\ record.expires \in Nat /\ admitted.expires \in Nat
         /\ \A q \in Requests : At(q) \in Nat /\ cover[q] \in Nat
BY Types, KeysAssumption DEF RecordSet, AdmissionSet, ReqSet, At

LEMMA NoName == "none" \notin Requests /\ "none" \notin Bodies
BY KeysAssumption

LEMMA TroubleType ==
  ASSUME TypeOK, Trouble \/ UNCHANGED trouble PROVE trouble' \in 0..MaxTrouble
BY Types, KeysAssumption DEF Trouble

(* What Goto and Answering write.                                            *)
LEMMA GotoValues ==
  ASSUME TypeOK, NEW q \in Requests, NEW pc \in Steps \cup Answers
  PROVE  /\ Goto(q, pc) \in [Requests -> ReqSet]
         /\ \A p \in Requests \ {q} : Goto(q, pc)[p] = req[p]
         /\ Goto(q, pc)[q].pc = pc /\ Goto(q, pc)[q].at = req[q].at
         /\ Goto(q, pc)[q].body = req[q].body /\ Goto(q, pc)[q].run = req[q].run
         /\ Goto(q, pc)[q].from = req[q].from
<1>1. req[q] \in ReqSet /\ req \in [Requests -> ReqSet]
  BY Types
<1> DEFINE x == [req[q] EXCEPT !.pc = pc]
<1>2. x \in ReqSet /\ x.pc = pc /\ x.at = req[q].at /\ x.body = req[q].body
      /\ x.run = req[q].run /\ x.from = req[q].from
  BY <1>1 DEF ReqSet
<1>3. Goto(q, pc) = [req EXCEPT ![q] = x]
  BY DEF Goto
<1> HIDE DEF x
<1> QED BY <1>1, <1>2, <1>3

LEMMA AnsweringValues ==
  ASSUME TypeOK, NEW q \in Requests, NEW pc \in Steps \cup Answers,
         NEW run \in Requests \cup {"none"}
  PROVE  /\ Answering(q, run, pc) \in [Requests -> ReqSet]
         /\ \A p \in Requests \ {q} : Answering(q, run, pc)[p] = req[p]
         /\ Answering(q, run, pc)[q].pc = pc /\ Answering(q, run, pc)[q].at = req[q].at
         /\ Answering(q, run, pc)[q].body = req[q].body /\ Answering(q, run, pc)[q].run = run
<1>1. req[q] \in ReqSet /\ req \in [Requests -> ReqSet]
  BY Types
<1> DEFINE x == [req[q] EXCEPT !.run = run, !.pc = pc]
<1>2. x \in ReqSet /\ x.pc = pc /\ x.at = req[q].at /\ x.body = req[q].body /\ x.run = run
  BY <1>1 DEF ReqSet
<1>3. Answering(q, run, pc) = [req EXCEPT ![q] = x]
  BY <1>1 DEF Answering
<1> HIDE DEF x
<1> QED BY <1>1, <1>2, <1>3

-----------------------------------------------------------------------------
(* A request moves on, and nothing else changes.                             *)
LEMMA Moves ==
  ASSUME IInv, NEW q \in Requests,
         UNCHANGED <<now, native, record, admitted, runs, erasing, made, cover, late>>,
         trouble' \in 0..MaxTrouble, req' \in [Requests -> ReqSet],
         \A p \in Requests \ {q} : req'[p] = req[p],
         req[q].pc # "ran", req'[q].pc # "handle", req'[q].at <= now,
         req[q].pc \in Pending \cup Ended =>
           /\ req'[q].pc \in {"recover", "record", "release"} \cup Ended
           /\ req'[q].body = req[q].body /\ req'[q].at = req[q].at,
         req'[q].pc = "record" => req'[q].run # "none" /\ (~native => req'[q].run = q),
         req'[q].pc = "replayed" =>
           /\ req'[q].from \in Requests /\ req[req'[q].from].pc = "ran"
           /\ req'[q].run = req[req'[q].from].run /\ req'[q].body = req[req'[q].from].body
  PROVE  IInv'
<1> USE DEF IInv
<1>1. TypeOK'
  BY Types, Types_next DEF Sets
<1>2. Answered'
  BY DEF Answered, At
<1>3. Holding'
  <2>1. record.status # "none" => record.by \in Requests
    BY Types, NoName DEF Holding, RecordSet
  <2> QED BY <2>1 DEF Holding, Pending, Ended
<1>4. Replaying'
  <2>1. ASSUME NEW p \in Requests, req'[p].pc = "replayed"
        PROVE  /\ req'[p].from \in Requests /\ req'[req'[p].from].pc = "ran"
               /\ req'[p].run = req'[req'[p].from].run /\ req'[p].body = req'[req'[p].from].body
    <3>1. CASE p = q
      <4>1. req'[q].from # q
        BY <2>1, <3>1
      <4> QED BY <2>1, <3>1, <4>1
    <3>2. CASE p # q
      <4>1. req'[p] = req[p] /\ req[p].from # q /\ req[p].from \in Requests
        BY <2>1, <3>2 DEF Replaying
      <4> QED BY <2>1, <4>1 DEF Replaying
    <3> QED BY <3>1, <3>2
  <2> QED BY <2>1 DEF Replaying
<1>5. Handling'
  BY DEF Handling
<1>6. Making'
  BY Types DEF Making, Pending, Ended, Sets
<1>7. Erasing' /\ Covering'
  BY DEF Erasing, Covering
<1>8. OwnRuns'
  BY DEF OwnRuns
<1>9. Admissions'
  <2>1. \A p \in runs : At(p)' = At(p)
    BY Types DEF Making, Sets, Pending, Ended, At
  <2> QED BY <2>1 DEF Admissions
<1> QED BY <1>1, <1>2, <1>3, <1>4, <1>5, <1>6, <1>7, <1>8, <1>9

LEMMA Send_Inv ==
  ASSUME IInv, NEW q \in Requests, NEW body \in Bodies, Send(q, body) PROVE IInv'
<1> USE DEF IInv
<1>1. [NotSent EXCEPT !.pc = "claim", !.at = now, !.body = body] \in ReqSet
  BY Types DEF NotSent, ReqSet, Steps
<1>2. req'[q] = [NotSent EXCEPT !.pc = "claim", !.at = now, !.body = body]
      /\ req' \in [Requests -> ReqSet] /\ \A p \in Requests \ {q} : req'[p] = req[p]
  BY <1>1, Types DEF Send
<1>3. req'[q].pc = "claim" /\ req'[q].at = now
  BY <1>2 DEF NotSent
<1>4. req[q].pc \in {"unsent", "in_flight"}
  BY DEF Send
<1>5. now <= now
  BY Times
<1> QED BY <1>2, <1>3, <1>4, <1>5, Moves, Types DEF Send, Pending, Ended

LEMMA Held_Inv ==
  ASSUME IInv, NEW q \in Requests, Held(q) PROVE IInv'
<1> USE DEF IInv
<1>0. req[q].pc = "claim" /\ ~Free(q) /\ At(q) <= now
  BY DEF Held, Answered
<1>1. ASSUME NEW pc \in {"reused", "in_flight"}, req' = Goto(q, pc) PROVE IInv'
  <2>1. pc \in Steps \cup Answers
    BY DEF Answers
  <2>2. /\ req' \in [Requests -> ReqSet] /\ \A p \in Requests \ {q} : req'[p] = req[p]
        /\ req'[q].pc = pc /\ req'[q].at = req[q].at
    BY <1>1, <2>1, GotoValues
  <2>3. req'[q].pc \notin {"handle", "record", "replayed"}
    BY <2>2
  <2>4. UNCHANGED <<now, native, record, admitted, runs, erasing, made, cover, late, trouble>>
    BY DEF Held
  <2> QED BY <1>0, <2>2, <2>3, <2>4, Moves, Types DEF Pending, Ended, At
<1>2. ASSUME SameBody(q), record.status # "in_flight",
             req' = [Answering(q, record.run, "replayed") EXCEPT ![q].from = record.by]
      PROVE  IInv'
  <2>1. record.status = "done" /\ record.by \in Requests /\ record.run \in Requests
    <3>1. record.status = "done"
      BY <1>0, <1>2, Types DEF Free, RecordSet
    <3> QED BY <3>1, Types, NoName DEF RecordSet, Holding
  <2> DEFINE f == Answering(q, record.run, "replayed")
  <2> DEFINE x == [f[q] EXCEPT !.from = record.by]
  <2>2. /\ f \in [Requests -> ReqSet] /\ \A p \in Requests \ {q} : f[p] = req[p]
        /\ f[q].pc = "replayed" /\ f[q].at = req[q].at /\ f[q].body = req[q].body
        /\ f[q].run = record.run
    <3>1. "replayed" \in Steps \cup Answers /\ record.run \in Requests \cup {"none"}
      BY <2>1 DEF Answers
    <3> QED BY <3>1, AnsweringValues
  <2>3. req' = [f EXCEPT ![q] = x]
    BY <1>2
  <2> HIDE DEF f
  <2>4. /\ x \in ReqSet /\ x.pc = "replayed" /\ x.at = req[q].at /\ x.body = req[q].body
        /\ x.run = record.run /\ x.from = record.by
    BY <2>1, <2>2 DEF ReqSet
  <2> HIDE DEF x
  <2>5. req' \in [Requests -> ReqSet] /\ req'[q] = x /\ \A p \in Requests \ {q} : req'[p] = req[p]
    BY <2>2, <2>3, <2>4
  <2>6. /\ req[record.by].pc = "ran" /\ req[record.by].run = record.run
        /\ req[record.by].body = req[q].body
    BY <1>2, <2>1 DEF Holding, SameBody
  <2>7. UNCHANGED <<now, native, record, admitted, runs, erasing, made, cover, late, trouble>>
    BY DEF Held
  <2> QED BY <1>0, <2>1, <2>4, <2>5, <2>6, <2>7, Moves, Types DEF Pending, Ended, At
<1> QED BY <1>1, <1>2 DEF Held

LEMMA Refuse_Inv ==
  ASSUME IInv, NEW q \in Requests, Refuse(q) PROVE IInv'
<1>1. req[q].pc = "handle" /\ At(q) <= now
  BY DEF Refuse, IInv, Answered
<1>2. "recover" \in Steps \cup Answers /\ TypeOK
  BY DEF Steps, IInv
<1> QED BY <1>1, <1>2, GotoValues, Moves, Types DEF Refuse, At

(* The admission record is asked only where there is one.                      *)
LEMMA Recover_Inv ==
  ASSUME IInv, NEW q \in Requests, Recover(q) PROVE IInv'
<1>1. req[q].pc = "recover" /\ At(q) <= now /\ TypeOK
  BY DEF Recover, IInv, Answered
<1>2. CASE Accepted # "none"
  <2>1. native /\ Accepted \in Requests /\ "record" \in Steps \cup Answers
    BY <1>1, <1>2, Types DEF Accepted, Sets, Steps
  <2>2. req' = Answering(q, Accepted, "record")
    BY <1>2 DEF Recover
  <2>3. Accepted \in Requests \cup {"none"}
    BY <2>1
  <2>4. /\ req' \in [Requests -> ReqSet] /\ \A p \in Requests \ {q} : req'[p] = req[p]
        /\ req'[q].pc = "record" /\ req'[q].at = req[q].at /\ req'[q].body = req[q].body
        /\ req'[q].run = Accepted
    BY <1>1, <2>1, <2>2, <2>3, AnsweringValues
  <2>5. UNCHANGED <<now, native, record, admitted, runs, erasing, made, cover, late, trouble>>
    BY DEF Recover
  <2> QED BY <1>1, <1>2, <2>1, <2>4, <2>5, Moves, Types DEF At
<1>3. CASE Accepted = "none"
  <2>1. "release" \in Steps \cup Answers /\ req' = Goto(q, "release")
    BY <1>3 DEF Recover, Steps
  <2> QED BY <1>1, <2>1, GotoValues, Moves, Types DEF Recover, At
<1> QED BY <1>2, <1>3

LEMMA RecordFails_Inv ==
  ASSUME IInv, NEW q \in Requests, RecordFails(q) PROVE IInv'
<1>1. req[q].pc = "record" /\ At(q) <= now /\ TypeOK
  BY DEF RecordFails, IInv, Answered
<1>2. "release" \in Steps \cup Answers
  BY DEF Steps
<1> QED BY <1>1, <1>2, GotoValues, TroubleType, Moves DEF RecordFails, At

LEMMA Crash_Inv ==
  ASSUME IInv, NEW q \in Requests, Crash(q) PROVE IInv'
<1>1. req[q].pc \in {"handle", "recover", "record", "release"} /\ At(q) <= now /\ TypeOK
  BY DEF Crash, IInv, Answered
<1>2. "dead" \in Steps \cup Answers /\ "dead" \in Ended
  BY DEF Answers, Ended
<1> QED BY <1>1, <1>2, GotoValues, TroubleType, Moves DEF Crash, At

-----------------------------------------------------------------------------
(* A claim: what the record promised before has run out by now.               *)
LEMMA Claim_Inv ==
  ASSUME IInv, NEW q \in Requests, Claim(q) PROVE IInv'
<1> USE DEF IInv
<1>0. UNCHANGED <<now, native, admitted, runs, erasing, made, trouble>> /\ req[q].pc = "claim"
  BY DEF Claim
<1>1. At(q) <= now /\ At(q) \in Nat /\ InFlight \in Nat /\ now \in Nat /\ Retention \in Nat
      /\ InFlight <= Retention
  BY Times DEF Answered
<1>2. /\ record' \in RecordSet /\ record'.status = "in_flight" /\ record'.by = q
      /\ record'.body = req[q].body /\ record'.run = "none" /\ record'.expires = At(q) + InFlight
  <2>1. record' = Claimed(q) /\ req[q] \in ReqSet
    BY Types DEF Claim
  <2>2. Claimed(q) \in RecordSet
    BY <1>1, <2>1 DEF Claimed, RecordSet, ReqSet
  <2> QED BY <2>1, <2>2 DEF Claimed
<1>3. /\ cover' \in [Requests -> Nat] /\ cover'[q] = At(q) + InFlight
      /\ \A p \in Requests \ {q} : cover'[p] = cover[p]
  BY <1>1, Types DEF Claim
<1>4. /\ req' \in [Requests -> ReqSet] /\ \A p \in Requests \ {q} : req'[p] = req[p]
      /\ req'[q].pc = "handle" /\ req'[q].at = req[q].at /\ req'[q].body = req[q].body
  <2>1. "handle" \in Steps \cup Answers
    BY DEF Steps
  <2> QED BY <2>1, GotoValues DEF Claim
<1>5. record.status = "none" \/ record.expires <= now
  BY <1>1, Times DEF Claim, Free
<1>6. q \notin made /\ q \notin runs /\ q \notin erasing
  BY <1>0, Types DEF Making, Ended, Sets
<1>7. TypeOK'
  BY <1>0, <1>2, <1>3, <1>4, Types, Types_next, NoName DEF Sets, Claim
<1>8. Answered'
  BY <1>0, <1>1, <1>4 DEF Answered, At
<1>9. Holding'
  BY <1>2, <1>4, NoName DEF Holding, Pending
<1>10. Replaying'
  <2>1. \A p \in Requests : req'[p].pc = "replayed" => req'[p] = req[p] /\ req[p].from # q
    BY <1>0, <1>4 DEF Replaying
  <2> QED BY <1>4, <2>1 DEF Replaying
<1>11. Handling'
  <2>1. \A p \in Requests \ {q} : req[p].pc = "handle" => p \in late'
    BY DEF Claim
  <2> QED BY <1>2, <1>4, <2>1 DEF Handling
<1>12. Making'
  BY <1>0, <1>4, <1>6, Types DEF Making, Sets
<1>13. Erasing'
  BY <1>0, <1>3, <1>6, Types DEF Erasing, Sets
<1>14. OwnRuns'
  BY <1>0, <1>2, <1>4 DEF OwnRuns
<1>15. Covering'
  <2>1. ASSUME NEW p \in Requests PROVE cover'[p] <= now' + Retention
    <3>1. cover[p] <= now + Retention
      BY DEF Covering
    <3> QED BY <1>0, <1>1, <1>3, <3>1
  <2>2. ASSUME ~native, NEW p \in Requests, now < cover'[p]
        PROVE  record'.by = p /\ record'.expires >= cover'[p]
    <3>1. CASE p = q
      BY <1>1, <1>2, <1>3, <3>1
    <3>2. CASE p # q
      <4>1. now < cover[p] /\ record.by = p /\ record.expires >= cover[p]
        BY <1>3, <2>2, <3>2 DEF Covering
      <4>2. record.status # "none"
        BY <4>1, NoName DEF Holding
      <4> QED BY <1>1, <1>5, <4>1, <4>2, Times
    <3> QED BY <3>1, <3>2
  <2>3. ASSUME native, NEW p \in made, now < cover'[p]
        PROVE  admitted'.run = p /\ admitted'.expires >= cover'[p]
    <3>1. p \in Requests \ {q}
      BY <1>6, Types DEF Sets
    <3>2. CASE record.run = p /\ record.expires >= cover[p]
      <4>1. record.status # "none"
        BY <3>1, <3>2, Types, NoName DEF RecordSet
      <4> QED BY <1>1, <1>3, <1>5, <2>3, <3>1, <3>2, <4>1, Times
    <3>3. CASE admitted.run = p /\ admitted.expires >= cover[p]
      BY <1>0, <1>3, <3>1, <3>3
    <3> QED BY <1>3, <2>3, <3>1, <3>2, <3>3 DEF Covering
  <2> QED BY <1>0, <2>1, <2>2, <2>3 DEF Covering
<1>16. Admissions'
  <2>1. \A p \in runs : At(p)' = At(p)
    BY <1>4, <1>6, Types DEF Sets, At
  <2> QED BY <1>0, <2>1 DEF Admissions
<1> QED BY <1>7, <1>8, <1>9, <1>10, <1>11, <1>12, <1>13, <1>14, <1>15, <1>16

(* What Make writes: the run, and the step of the request that made it.        *)
LEMMA Make_Facts ==
  ASSUME IInv, NEW q \in Requests, req[q].pc = "handle", Make(q)
  PROVE  /\ runs' = runs \cup {q} /\ made' = made \cup {q} /\ trouble' \in 0..MaxTrouble
         /\ req' \in [Requests -> ReqSet] /\ \A p \in Requests \ {q} : req'[p] = req[p]
         /\ req'[q].pc \in {"record", "recover"} /\ req'[q].at = req[q].at
         /\ req'[q].body = req[q].body
         /\ req'[q].pc = "record" => req'[q].run = q
         /\ q \notin made /\ q \notin runs /\ q \notin erasing
<1> USE DEF IInv
<1>1. "record" \in Steps \cup Answers /\ "recover" \in Steps \cup Answers
  BY DEF Steps
<1>2. runs' = runs \cup {q} /\ made' = made \cup {q} /\ trouble' \in 0..MaxTrouble
  <2>1. Trouble \/ UNCHANGED trouble
    BY DEF Make
  <2> QED BY <2>1, TroubleType DEF Make
<1>3. q \notin made /\ q \notin runs /\ q \notin erasing
  BY Types DEF Making, Ended, Sets
<1>4. CASE req' = Answering(q, q, "record")
  <2>1. q \in Requests \cup {"none"}
    OBVIOUS
  <2> QED BY <1>1, <1>2, <1>3, <1>4, <2>1, AnsweringValues
<1>5. CASE req' = Goto(q, "recover")
  BY <1>1, <1>2, <1>3, <1>5, GotoValues
<1> QED BY <1>4, <1>5 DEF Make

(* A run made: its request was the handler, and answers nobody else.           *)
LEMMA MakeKeeps ==
  ASSUME IInv, NEW q \in Requests, req[q].pc = "handle", Make(q),
         UNCHANGED <<now, native, record, erasing, late>>
  PROVE  Answered' /\ Holding' /\ Replaying' /\ Handling' /\ Making' /\ OwnRuns'
<1> USE DEF IInv
<1>1. /\ made' = made \cup {q} /\ \A p \in Requests \ {q} : req'[p] = req[p]
      /\ req'[q].pc \in {"record", "recover"} /\ req'[q].at = req[q].at
      /\ req'[q].body = req[q].body
      /\ req'[q].pc = "record" => req'[q].run = q
  BY Make_Facts
<1>2. Answered'
  BY <1>1, NoName DEF Answered, At
<1>3. Holding'
  <2>1. record.status # "none" => record.by \in Requests
    BY Types, NoName DEF Holding, RecordSet
  <2> QED BY <1>1, <2>1 DEF Holding, Pending, Ended
<1>4. Replaying'
  <2>1. \A p \in Requests : req'[p].pc = "replayed" => req'[p] = req[p] /\ req[p].from # q
    BY <1>1 DEF Replaying
  <2> QED BY <1>1, <2>1 DEF Replaying
<1>5. Handling'
  BY <1>1 DEF Handling
<1>6. Making'
  BY <1>1, Types DEF Making, Sets
<1>7. OwnRuns'
  BY <1>1 DEF OwnRuns
<1> QED BY <1>2, <1>3, <1>4, <1>5, <1>6, <1>7

LEMMA Create_Inv ==
  ASSUME IInv, NEW q \in Requests, Create(q) PROVE IInv'
<1> USE DEF IInv
<1>0. UNCHANGED <<now, native, record, admitted, erasing, cover, late>> /\ req[q].pc = "handle"
      /\ ~native /\ Make(q)
  BY DEF Create
<1>1. /\ runs' = runs \cup {q} /\ made' = made \cup {q} /\ trouble' \in 0..MaxTrouble
      /\ req' \in [Requests -> ReqSet] /\ q \notin erasing
  BY <1>0, Make_Facts
<1>2. TypeOK'
  BY <1>0, <1>1, Types, Types_next DEF Sets
<1>3. Answered' /\ Holding' /\ Replaying' /\ Handling' /\ Making' /\ OwnRuns'
  BY <1>0, MakeKeeps
<1>4. Erasing'
  BY <1>0, <1>1 DEF Erasing
<1>5. Covering' /\ Admissions'
  BY <1>0 DEF Covering, Admissions
<1> QED BY <1>2, <1>3, <1>4, <1>5

(* An admission replaces one that has run out.                               *)
LEMMA Admit_Inv ==
  ASSUME IInv, NEW q \in Requests, Admit(q) PROVE IInv'
<1> USE DEF IInv
<1>0. UNCHANGED <<now, native, record, erasing, late>> /\ req[q].pc = "handle" /\ native
  BY DEF Admit
<1>1. At(q) <= now /\ At(q) \in Nat /\ now \in Nat /\ Retention \in Nat
      /\ admitted.expires \in Nat
  BY Times DEF Answered
<1>2. CASE Kept(q)
  <2>0. UNCHANGED <<admitted, runs, made, cover, trouble>>
        /\ req' = IF admitted.body = req[q].body /\ admitted.run \in runs
                  THEN Answering(q, admitted.run, "record") ELSE Goto(q, "recover")
    BY <1>2 DEF Admit
  <2>1. "record" \in Steps \cup Answers /\ "recover" \in Steps \cup Answers
    BY DEF Steps
  <2>2. CASE admitted.run \in runs /\ req' = Answering(q, admitted.run, "record")
    <3>1. admitted.run \in Requests /\ admitted.run \in Requests \cup {"none"}
          /\ admitted.run # "none"
      BY <2>2, Types, NoName DEF Sets
    <3>2. /\ req' \in [Requests -> ReqSet] /\ \A p \in Requests \ {q} : req'[p] = req[p]
          /\ req'[q].pc = "record" /\ req'[q].at = req[q].at /\ req'[q].body = req[q].body
          /\ req'[q].run = admitted.run
      BY <2>1, <2>2, <3>1, AnsweringValues
    <3> QED BY <1>0, <1>1, <2>0, <3>1, <3>2, Moves, Types DEF At
  <2>3. CASE req' = Goto(q, "recover")
    BY <1>0, <1>1, <2>0, <2>1, <2>3, GotoValues, Moves, Types DEF At
  <2> QED BY <2>0, <2>2, <2>3
<1>3. CASE ~Kept(q)
  <2>0. admitted' = [body |-> req[q].body, run |-> q, expires |-> At(q) + Retention]
        /\ cover' = [cover EXCEPT ![q] = At(q) + Retention] /\ Make(q)
    BY <1>3 DEF Admit
  <2>1. admitted.run = "none" \/ admitted.expires <= now
    BY <1>1, <1>3 DEF Kept
  <2>2. /\ runs' = runs \cup {q} /\ made' = made \cup {q} /\ trouble' \in 0..MaxTrouble
        /\ req' \in [Requests -> ReqSet] /\ q \notin erasing /\ q \notin made /\ q \notin runs
        /\ \A p \in Requests : req'[p].at = req[p].at
    BY <1>0, <2>0, Make_Facts
  <2>3. /\ admitted' \in AdmissionSet /\ admitted'.run = q
        /\ admitted'.expires = At(q) + Retention
    <3>1. req[q].body \in Bodies \cup {"none"}
      BY Types DEF ReqSet
    <3> QED BY <1>1, <2>0, <3>1 DEF AdmissionSet
  <2>4. /\ cover' \in [Requests -> Nat] /\ cover'[q] = At(q) + Retention
        /\ \A p \in Requests \ {q} : cover'[p] = cover[p]
    BY <1>1, <2>0, Types
  <2>5. TypeOK'
    BY <1>0, <2>2, <2>3, <2>4, Types, Types_next DEF Sets
  <2>6. Answered' /\ Holding' /\ Replaying' /\ Handling' /\ Making' /\ OwnRuns'
    BY <1>0, <2>0, MakeKeeps
  <2>7. Erasing'
    BY <1>0, <2>2, <2>4, Types DEF Erasing, Sets
  <2>8. Covering'
    <3>1. ASSUME NEW p \in Requests PROVE cover'[p] <= now' + Retention
      <4>1. cover[p] <= now + Retention
        BY DEF Covering
      <4> QED BY <1>0, <1>1, <2>4, <4>1
    <3>2. ASSUME NEW p \in made', now < cover'[p]
          PROVE  \/ record'.run = p /\ record'.expires >= cover'[p]
                 \/ admitted'.run = p /\ admitted'.expires >= cover'[p]
      <4>1. CASE p = q
        BY <1>1, <2>3, <2>4, <4>1
      <4>2. CASE p # q
        <5>1. p \in made /\ p \in Requests /\ cover'[p] = cover[p]
          BY <2>2, <2>4, <4>2, Types DEF Sets
        <5>2. ~(admitted.run = p /\ admitted.expires >= cover[p])
          BY <1>1, <2>1, <3>2, <5>1, NoName, Times
        <5> QED BY <1>0, <3>2, <5>1, <5>2 DEF Covering
      <4> QED BY <4>1, <4>2
    <3> QED BY <1>0, <3>1, <3>2 DEF Covering
  <2>9. Admissions'
    <3>1. ASSUME NEW p \in runs, p # q PROVE now >= At(p) + Retention
      <4>1. p \in Requests /\ At(p) \in Nat
        BY <3>1, Types, Times DEF Sets
      <4> QED BY <1>0, <1>1, <2>1, <4>1, NoName DEF Admissions
    <3>2. \A p \in runs' : At(p)' = At(p)
      BY <2>2, Types DEF Sets, At
    <3> QED BY <1>0, <2>2, <2>3, <3>1, <3>2 DEF Admissions
  <2> QED BY <2>5, <2>6, <2>7, <2>8, <2>9
<1> QED BY <1>2, <1>3

(* An answer is recorded only by the claimant, whose record is still open.     *)
LEMMA Record_Inv ==
  ASSUME IInv, NEW q \in Requests, Record(q) PROVE IInv'
<1> USE DEF IInv
<1>0. UNCHANGED <<now, native, admitted, runs, erasing, made, late, trouble>>
      /\ req[q].pc = "record" /\ req' = Goto(q, "ran")
  BY DEF Record
<1>1. now \in Nat /\ Retention \in Nat /\ record.expires \in Nat
      /\ req[q].run \in Requests
  BY <1>0, Types, Times DEF Answered, ReqSet
<1>2. /\ req' \in [Requests -> ReqSet] /\ \A p \in Requests \ {q} : req'[p] = req[p]
      /\ req'[q].pc = "ran" /\ req'[q].at = req[q].at /\ req'[q].body = req[q].body
      /\ req'[q].run = req[q].run
  <2>1. "ran" \in Steps \cup Answers
    BY DEF Answers
  <2> QED BY <1>0, <2>1, GotoValues
<1>3. CASE ~Owns(q)
  <2>1. record' = record /\ cover' = cover
    BY <1>3 DEF Record
  <2> QED BY <1>0, <1>2, <2>1, Moves, Types DEF Pending, Ended, Answered, At
<1>4. CASE Owns(q)
  <2>0. /\ record' = [record EXCEPT !.status = "done", !.run = req[q].run, !.expires = now + Retention]
        /\ cover' = IF req[q].run \in runs
                    THEN [cover EXCEPT ![req[q].run] = now + Retention] ELSE cover
        /\ record.by = q
    BY <1>4 DEF Record, Owns
  <2>1. /\ record' \in RecordSet /\ record'.status = "done" /\ record'.by = q
        /\ record'.body = record.body /\ record'.run = req[q].run
        /\ record'.expires = now + Retention
    <3>1. now + Retention \in Nat /\ record \in RecordSet
      BY <1>1, Types
    <3> QED BY <1>1, <2>0, <3>1 DEF RecordSet
  <2>2. record.status = "in_flight" /\ record.run = "none" /\ record.body = req[q].body
    <3>1. record.status # "done" /\ record.status # "none" /\ record.body = req[q].body
      BY <1>0, <2>0, NoName DEF Holding
    <3> QED BY <3>1, Types DEF RecordSet
  <2>3. /\ cover' \in [Requests -> Nat]
        /\ \A p \in Requests : cover'[p] = cover[p]
                               \/ (p = req[q].run /\ p \in runs /\ cover'[p] = now + Retention)
    BY <1>1, <2>0, Types
  <2>4. TypeOK'
    BY <1>0, <1>1, <1>2, <2>1, <2>3, Types, Types_next, NoName DEF Sets
  <2>5. Answered'
    BY <1>0, <1>2 DEF Answered, At
  <2>6. Holding'
    BY <1>2, <2>1, <2>2, NoName DEF Holding, Ended
  <2>7. Replaying'
    <3>1. \A p \in Requests : req'[p].pc = "replayed" =>
            req'[p] = req[p] /\ req[p].from # q /\ req[p].from \in Requests
      BY <1>0, <1>2 DEF Replaying
    <3> QED BY <1>2, <3>1 DEF Replaying
  <2>8. Handling'
    BY <1>0, <1>2, <2>0, <2>1 DEF Handling
  <2>9. Making'
    BY <1>0, <1>2, Types DEF Making, Ended, Sets
  <2>10. Erasing'
    BY <1>0, <2>3, Types DEF Erasing, Sets
  <2>11. OwnRuns'
    BY <1>0, <1>2, <2>1 DEF OwnRuns
  <2>12. Covering'
    <3>1. \A p \in Requests : cover[p] \in Nat /\ cover[p] <= now + Retention
      BY Times DEF Covering
    <3>2. \A p \in Requests : cover'[p] <= now' + Retention
      BY <1>0, <1>1, <2>3, <3>1
    <3>3. ASSUME ~native, NEW p \in Requests, now < cover'[p]
          PROVE  record'.by = p /\ record'.expires >= cover'[p]
      <4>1. req[q].run = q
        BY <1>0, <3>3 DEF OwnRuns
      <4>2. p = q
        BY <2>0, <2>3, <3>3, <4>1 DEF Covering
      <4> QED BY <1>0, <2>1, <3>2, <4>2
    <3>4. ASSUME native, NEW p \in made, now < cover'[p]
          PROVE  \/ record'.run = p /\ record'.expires >= cover'[p]
                 \/ admitted'.run = p /\ admitted'.expires >= cover'[p]
      <4>1. p \in Requests
        BY Types DEF Sets
      <4>2. CASE cover'[p] = cover[p]
        BY <1>0, <2>2, <3>4, <4>1, <4>2, NoName DEF Covering
      <4>3. CASE p = req[q].run
        BY <1>0, <2>1, <3>2, <4>1, <4>3
      <4> QED BY <2>3, <4>1, <4>2, <4>3
    <3> QED BY <1>0, <3>2, <3>3, <3>4 DEF Covering
  <2>13. Admissions'
    <3>1. \A p \in runs : At(p)' = At(p)
      BY <1>2, Types DEF Sets, At
    <3> QED BY <1>0, <3>1 DEF Admissions
  <2> QED BY <2>4, <2>5, <2>6, <2>7, <2>8, <2>9, <2>10, <2>11, <2>12, <2>13
<1> QED BY <1>3, <1>4

(* A key given up promises nothing: an open record has no run yet.             *)
LEMMA Release_Inv ==
  ASSUME IInv, NEW q \in Requests, Release(q) PROVE IInv'
<1> USE DEF IInv
<1>0. UNCHANGED <<now, native, admitted, runs, erasing, made, late>> /\ req[q].pc = "release"
      /\ req' = Goto(q, IF req[q].run # "none" THEN "ran" ELSE "failed")
  BY DEF Release
<1>1. /\ req' \in [Requests -> ReqSet] /\ \A p \in Requests \ {q} : req'[p] = req[p]
      /\ req'[q].pc \in {"ran", "failed"} /\ req'[q].at = req[q].at /\ req'[q].body = req[q].body
  <2>1. (IF req[q].run # "none" THEN "ran" ELSE "failed") \in Steps \cup Answers
    BY DEF Answers
  <2>2. (IF req[q].run # "none" THEN "ran" ELSE "failed") \in {"ran", "failed"}
    OBVIOUS
  <2> QED BY <1>0, <2>1, <2>2, GotoValues
<1>2. trouble' \in 0..MaxTrouble
  <2>1. Trouble \/ UNCHANGED trouble
    BY DEF Release
  <2> QED BY <2>1, TroubleType
<1>3. CASE UNCHANGED <<record, cover>>
  BY <1>0, <1>1, <1>2, <1>3, Moves DEF Pending, Ended, Answered, At
<1>4. CASE /\ record' = IF Owns(q) THEN NoRecord ELSE record
           /\ cover' = IF native THEN cover ELSE [cover EXCEPT ![q] = 0]
  <2>1. /\ cover' \in [Requests -> Nat]
        /\ \A p \in Requests : cover'[p] = cover[p] \/ (p = q /\ ~native /\ cover'[p] = 0)
        /\ ~native => cover'[q] = 0
    BY <1>4, Types
  <2>2. \/ record' = record /\ record.by # q
        \/ /\ record.by = q /\ record.run = "none"
           /\ record' \in RecordSet /\ record'.status = "none" /\ record'.by = "none"
           /\ record'.run = "none"
    <3>1. CASE ~Owns(q)
      BY <1>4, <3>1 DEF Owns
    <3>2. CASE Owns(q)
      <4>1. record.by = q /\ record.status # "done"
        BY <1>0, <3>2 DEF Owns, Holding
      <4>2. NoRecord \in RecordSet
        BY DEF NoRecord, RecordSet
      <4> QED BY <1>4, <3>2, <4>1, <4>2, Types DEF NoRecord
    <3> QED BY <3>1, <3>2
  <2>3. TypeOK'
    BY <1>0, <1>1, <1>2, <2>1, <2>2, Types, Types_next DEF Sets
  <2>4. Answered'
    BY <1>0, <1>1 DEF Answered, At
  <2>5. Holding'
    <3>1. record.status # "none" => record.by \in Requests
      BY Types, NoName DEF Holding, RecordSet
    <3> QED BY <1>1, <2>2, <3>1 DEF Holding, Ended
  <2>6. Replaying'
    <3>1. \A p \in Requests : req'[p].pc = "replayed" =>
            req'[p] = req[p] /\ req[p].from # q /\ req[p].from \in Requests
      BY <1>0, <1>1 DEF Replaying
    <3> QED BY <1>1, <3>1 DEF Replaying
  <2>7. Handling'
    BY <1>0, <1>1, <2>2 DEF Handling
  <2>8. Making'
    BY <1>0, <1>1, Types DEF Making, Ended, Sets
  <2>9. Erasing'
    BY <1>0, <2>1, Types DEF Erasing, Sets
  <2>10. OwnRuns'
    BY <1>0, <1>1, <2>2 DEF OwnRuns
  <2>11. Covering'
    <3>1. \A p \in Requests : cover'[p] <= now' + Retention
      BY <1>0, <2>1, Times DEF Covering
    <3>2. ASSUME ~native, NEW p \in Requests, now < cover'[p]
          PROVE  record'.by = p /\ record'.expires >= cover'[p]
      <4>1. p # q /\ now < cover[p] /\ cover'[p] = cover[p]
        BY <2>1, <3>2, Times
      <4> QED BY <2>2, <3>2, <4>1 DEF Covering
    <3>3. ASSUME native, NEW p \in made, now < cover'[p]
          PROVE  \/ record'.run = p /\ record'.expires >= cover'[p]
                 \/ admitted'.run = p /\ admitted'.expires >= cover'[p]
      <4>1. p \in Requests /\ cover'[p] = cover[p]
        BY <2>1, <3>3, Types DEF Sets
      <4> QED BY <1>0, <2>2, <3>3, <4>1, NoName DEF Covering
    <3> QED BY <1>0, <3>1, <3>2, <3>3 DEF Covering
  <2>12. Admissions'
    <3>1. \A p \in runs : At(p)' = At(p)
      BY <1>1, Types DEF Sets, At
    <3> QED BY <1>0, <3>1 DEF Admissions
  <2> QED BY <2>3, <2>4, <2>5, <2>6, <2>7, <2>8, <2>9, <2>10, <2>11, <2>12
<1> QED BY <1>3, <1>4 DEF Release

LEMMA DeleteRun_Inv ==
  ASSUME IInv, NEW r \in Requests, DeleteRun(r) PROVE IInv'
<1> USE DEF IInv
<1>0. UNCHANGED <<now, native, record, admitted, req, made, late>> /\ r \in runs
      /\ runs' = runs \ {r} /\ erasing' = erasing \cup {r}
  BY DEF DeleteRun
<1>1. cover' \in [Requests -> Nat] /\ cover'[r] = 0 /\ \A p \in Requests \ {r} : cover'[p] = cover[p]
  BY Types DEF DeleteRun
<1>2. TypeOK'
  <2>1. trouble' \in 0..MaxTrouble
    BY TroubleType DEF DeleteRun
  <2> QED BY <1>0, <1>1, <2>1, Types, Types_next DEF Sets
<1>3. Answered' /\ Holding' /\ Replaying' /\ Handling' /\ Making' /\ OwnRuns'
  BY <1>0 DEF Answered, At, Holding, Replaying, Handling, Making, OwnRuns
<1>4. Erasing'
  BY <1>0, <1>1, Types DEF Erasing, Sets
<1>5. Covering'
  <2>1. \A p \in Requests : cover'[p] = cover[p] \/ cover'[p] = 0
    BY <1>1
  <2>2. \A p \in Requests : now < cover'[p] => cover'[p] = cover[p]
    BY <2>1, Times
  <2>3. \A p \in Requests : cover'[p] <= now + Retention
    BY <2>1, Times DEF Covering
  <2> QED BY <1>0, <2>2, <2>3, Types DEF Covering, Sets
<1>6. Admissions'
  BY <1>0 DEF Admissions, At
<1> QED BY <1>2, <1>3, <1>4, <1>5, <1>6

(* Only records of runs that are gone are erased.                            *)
LEMMA EraseRecords_Inv ==
  ASSUME IInv, NEW r \in Requests, EraseRecords(r) PROVE IInv'
<1> USE DEF IInv
<1>0. UNCHANGED <<now, native, req, runs, made, cover, late>> /\ r \in erasing
      /\ erasing' = erasing \ {r}
  BY DEF EraseRecords
<1>1. NoRecord \in RecordSet /\ NoAdmission \in AdmissionSet
  BY DEF NoRecord, NoAdmission, RecordSet, AdmissionSet
<1>2. /\ record' \in RecordSet
      /\ \/ record' = record
         \/ record.run = r /\ record'.status = "none" /\ record'.by = "none" /\ record'.run = "none"
  BY <1>1, Types DEF EraseRecords, NoRecord
<1>3. admitted' \in AdmissionSet /\ (admitted' = admitted \/ admitted.run = r)
  BY <1>1, Types DEF EraseRecords
<1>4. TypeOK'
  <2>1. trouble' \in 0..MaxTrouble
    BY TroubleType DEF EraseRecords
  <2> QED BY <1>0, <1>2, <1>3, <2>1, Types, Types_next DEF Sets
<1>5. Answered' /\ Replaying' /\ Making' /\ Erasing'
  BY <1>0 DEF Answered, At, Replaying, Making, Erasing
<1>6. Holding'
  BY <1>0, <1>2 DEF Holding
<1>7. Handling' /\ OwnRuns'
  BY <1>0, <1>2 DEF Handling, OwnRuns
<1>8. Covering'
  <2>1. r \notin runs /\ cover[r] = 0 /\ now \in Nat
    BY <1>0, Times DEF Erasing
  <2>2. ASSUME ~native, NEW p \in Requests, now < cover[p]
        PROVE  record'.by = p /\ record'.expires >= cover[p]
    <3>1. record.by = p /\ record.expires >= cover[p] /\ p # r
      BY <2>1, <2>2 DEF Covering
    <3>2. record.run # r
      BY <2>2, <3>1, NoName DEF OwnRuns
    <3> QED BY <1>2, <3>1, <3>2
  <2>3. ASSUME native, NEW p \in made, now < cover[p]
        PROVE  \/ record'.run = p /\ record'.expires >= cover[p]
               \/ admitted'.run = p /\ admitted'.expires >= cover[p]
    <3>1. p # r
      BY <2>1, <2>3
    <3> QED BY <1>2, <1>3, <2>3, <3>1 DEF Covering
  <2>4. \A p \in Requests : cover[p] <= now + Retention
    BY DEF Covering
  <2> QED BY <1>0, <2>2, <2>3, <2>4 DEF Covering
<1>9. Admissions'
  BY <1>0, <1>3 DEF Admissions, Erasing, At
<1> QED BY <1>4, <1>5, <1>6, <1>7, <1>8, <1>9

LEMMA SweepExpired_Inv ==
  ASSUME IInv, SweepExpired PROVE IInv'
<1> USE DEF IInv
<1>0. UNCHANGED <<now, native, req, runs, erasing, made, cover, late, trouble>>
  BY DEF SweepExpired
<1>1. NoRecord \in RecordSet /\ NoAdmission \in AdmissionSet
  BY DEF NoRecord, NoAdmission, RecordSet, AdmissionSet
<1>2. /\ record' \in RecordSet
      /\ \/ record' = record
         \/ /\ record.expires <= now
            /\ record'.status = "none" /\ record'.by = "none" /\ record'.run = "none"
  BY <1>1, Types DEF SweepExpired, NoRecord, Expired
<1>3. admitted' \in AdmissionSet /\ (admitted' = admitted \/ admitted.expires <= now)
  BY <1>1, Types DEF SweepExpired, Expired
<1>4. TypeOK'
  BY <1>0, <1>2, <1>3, Types, Types_next DEF Sets
<1>5. Answered' /\ Replaying' /\ Making' /\ Erasing'
  BY <1>0 DEF Answered, At, Replaying, Making, Erasing
<1>6. Holding'
  BY <1>0, <1>2 DEF Holding
<1>7. Handling' /\ OwnRuns'
  BY <1>0, <1>2 DEF Handling, OwnRuns
<1>8. Covering'
  <2>1. ASSUME ~native, NEW p \in Requests, now < cover[p]
        PROVE  record'.by = p /\ record'.expires >= cover[p]
    <3>1. record.by = p /\ record.expires >= cover[p]
      BY <2>1 DEF Covering
    <3>2. ~(record.expires <= now)
      BY <2>1, <3>1, Times
    <3> QED BY <1>2, <3>1, <3>2
  <2>2. ASSUME native, NEW p \in made, now < cover[p]
        PROVE  \/ record'.run = p /\ record'.expires >= cover[p]
               \/ admitted'.run = p /\ admitted'.expires >= cover[p]
    <3>1. cover[p] \in Nat
      BY Types, Times DEF Sets
    <3>2. CASE record.run = p /\ record.expires >= cover[p]
      <4>1. ~(record.expires <= now)
        BY <2>2, <3>1, <3>2, Times
      <4> QED BY <1>2, <3>2, <4>1
    <3>3. CASE admitted.run = p /\ admitted.expires >= cover[p]
      <4>1. ~(admitted.expires <= now)
        BY <2>2, <3>1, <3>3, Times
      <4> QED BY <1>3, <3>3, <4>1
    <3> QED BY <2>2, <3>2, <3>3 DEF Covering
  <2>3. \A p \in Requests : cover[p] <= now + Retention
    BY DEF Covering
  <2> QED BY <1>0, <2>1, <2>2, <2>3 DEF Covering
<1>9. Admissions'
  <2>1. ASSUME native, NEW p \in runs, ~(now >= At(p) + Retention)
        PROVE  admitted'.run = p /\ admitted'.expires = At(p) + Retention
    <3>1. admitted.run = p /\ admitted.expires = At(p) + Retention
      BY <2>1 DEF Admissions
    <3>2. ~(admitted.expires <= now)
      BY <2>1, <3>1, Times
    <3> QED BY <1>3, <3>1, <3>2
  <2> QED BY <1>0, <2>1 DEF Admissions, At
<1> QED BY <1>4, <1>5, <1>6, <1>7, <1>8, <1>9

LEMMA Clock_Inv ==
  ASSUME IInv, Clock PROVE IInv'
<1> USE DEF IInv
<1>0. UNCHANGED <<native, record, admitted, req, runs, erasing, made, cover, late, trouble>>
      /\ now' = now + 1 /\ now < MaxNow
  BY DEF Clock
<1>1. now \in Nat /\ Retention \in Nat /\ now' \in Nat /\ now' \in 0..MaxNow
      /\ \A p \in Requests : cover[p] \in Nat /\ At(p) \in Nat
  BY <1>0, Times, Types, KeysAssumption
<1>2. TypeOK'
  BY <1>0, <1>1, Types, Types_next DEF Sets
<1>3. Answered'
  BY <1>0, <1>1 DEF Answered, At
<1>4. Holding' /\ Replaying' /\ Handling' /\ Making' /\ Erasing' /\ OwnRuns'
  BY <1>0 DEF Holding, Replaying, Handling, Making, Erasing, OwnRuns
<1>5. Covering'
  <2>1. \A p \in Requests : (now' < cover[p] => now < cover[p]) /\ cover[p] <= now' + Retention
    BY <1>0, <1>1 DEF Covering
  <2> QED BY <1>0, <2>1, Types DEF Covering, Sets
<1>6. Admissions'
  <2>1. \A p \in Requests : now >= At(p) + Retention => now' >= At(p) + Retention
    BY <1>0, <1>1
  <2> QED BY <1>0, <2>1, Types DEF Admissions, At, Sets
<1> QED BY <1>2, <1>3, <1>4, <1>5, <1>6

-----------------------------------------------------------------------------
LEMMA InitInv ==
  ASSUME Init PROVE IInv
<1> USE DEF Init, NoRecord, NoAdmission, NotSent
<1>1. TypeOK
  BY Types, KeysAssumption DEF RecordSet, AdmissionSet, ReqSet, Sets, Steps
<1>2. Answered /\ Holding /\ Replaying /\ Handling /\ Making /\ Erasing
  BY DEF Answered, At, Holding, Replaying, Handling, Making, Erasing
<1>3. OwnRuns /\ Covering /\ Admissions
  BY KeysAssumption DEF OwnRuns, Covering, Admissions
<1> QED BY <1>1, <1>2, <1>3 DEF IInv

LEMMA NextInv ==
  ASSUME IInv, [Next]_vars PROVE IInv'
<1>1. ASSUME NEW q \in Requests,
             \/ Serve(q) \/ RecordFails(q) \/ Crash(q) \/ \E body \in Bodies : Send(q, body)
      PROVE  IInv'
  BY <1>1, Claim_Inv, Held_Inv, Refuse_Inv, Create_Inv, Admit_Inv, Recover_Inv, Record_Inv,
     Release_Inv, RecordFails_Inv, Crash_Inv, Send_Inv DEF Serve
<1>2. ASSUME NEW r \in Requests, DeleteRun(r) \/ EraseRecords(r) PROVE IInv'
  BY <1>2, DeleteRun_Inv, EraseRecords_Inv
<1>3. CASE UNCHANGED vars
  <2> USE DEF IInv
  <2>1. UNCHANGED <<now, native, record, admitted, req, runs, erasing, made, cover, late, trouble>>
    BY <1>3 DEF vars
  <2>2. TypeOK'
    BY <2>1, Types, Types_next DEF Sets
  <2>3. Answered' /\ Holding' /\ Replaying' /\ Handling' /\ Making' /\ Erasing'
    BY <2>1 DEF Answered, At, Holding, Replaying, Handling, Making, Erasing
  <2>4. OwnRuns' /\ Covering' /\ Admissions'
    BY <2>1 DEF OwnRuns, Covering, Admissions, At
  <2> QED BY <2>2, <2>3, <2>4
<1>4. CASE Next
  <2>1. CASE \E q \in Requests : \/ Serve(q) \/ RecordFails(q) \/ Crash(q)
                                 \/ \E body \in Bodies : Send(q, body)
    BY <1>1, <2>1
  <2>2. CASE \E r \in Requests : DeleteRun(r) \/ EraseRecords(r)
    BY <1>2, <2>2
  <2> QED BY <1>4, <2>1, <2>2, SweepExpired_Inv, Clock_Inv DEF Next
<1> QED BY <1>3, <1>4

(* A request that makes a run has the key, or was told late: what another run   *)
(* is promised has run out, or it was made behind the request's back.           *)
LEMMA SecondRunIsLate ==
  ASSUME IInv, [Next]_vars, NEW q \in made' \ made, NEW p \in made
  PROVE  \/ now >= cover[p]
         \/ q \in late /\ (native /\ p \in runs => now >= At(p) + Retention)
<1> USE DEF IInv
<1>1. /\ q \in Requests /\ req[q].pc = "handle"
      /\ native => ~Kept(q)
  <2>1. ASSUME NEW x \in Requests, Make(x) PROVE q = x
    BY <2>1 DEF Make
  <2>2. ASSUME NEW x \in Requests, Serve(x)
        PROVE  q \in Requests /\ req[q].pc = "handle" /\ (native => ~Kept(q))
    BY <2>1, <2>2 DEF Serve, Claim, Held, Refuse, Create, Admit, Recover, Record, Release
  <2>3. ASSUME NEW x \in Requests,
               RecordFails(x) \/ Crash(x) \/ \E body \in Bodies : Send(x, body)
        PROVE  FALSE
    BY <2>3 DEF RecordFails, Crash, Send
  <2>4. ASSUME NEW x \in Requests, DeleteRun(x) \/ EraseRecords(x) PROVE FALSE
    BY <2>4 DEF DeleteRun, EraseRecords
  <2>5. ~SweepExpired /\ ~Clock /\ ~UNCHANGED vars
    BY DEF SweepExpired, Clock, vars
  <2> QED BY <2>2, <2>3, <2>4, <2>5 DEF Next
<1>2. p \in Requests /\ p # q /\ cover[p] \in Nat /\ now \in Nat
  BY Types, Times DEF Sets
<1>3. native /\ p \in runs => now >= At(p) + Retention
  <2> SUFFICES ASSUME native, p \in runs, ~(now >= At(p) + Retention) PROVE FALSE
    OBVIOUS
  <2>1. admitted.run = p /\ admitted.expires = At(p) + Retention
    BY DEF Admissions
  <2>2. admitted.expires <= At(q) /\ At(q) <= now
    BY <1>1, <1>2, <2>1, NoName, Times DEF Kept, Answered
  <2> QED BY <1>1, <1>2, <2>1, <2>2, Times
<1>4. now < cover[p] => q \in late
  <2> SUFFICES ASSUME now < cover[p], q \notin late PROVE FALSE
    OBVIOUS
  <2>1. record.by \in {q, "none"}
    BY <1>1 DEF Handling
  <2>2. CASE ~native
    BY <1>2, <2>1, <2>2, NoName DEF Covering
  <2>3. CASE native
    <3>1. record.run = "none"
      <4>1. record.by = q => record.status # "done"
        BY <1>1 DEF Holding
      <4>2. record.by = "none" => record.status = "none"
        BY DEF Holding
      <4> QED BY <2>1, <4>1, <4>2, Types
    <3>2. admitted.run = p /\ admitted.expires >= cover[p]
      BY <1>2, <2>3, <3>1, NoName DEF Covering
    <3>3. admitted.expires <= At(q) /\ At(q) <= now
      BY <1>1, <1>2, <2>3, <3>2, NoName, Times DEF Kept, Answered
    <3> QED BY <1>1, <1>2, <3>2, <3>3, Times
  <2> QED BY <2>2, <2>3
<1> QED BY <1>2, <1>3, <1>4

-----------------------------------------------------------------------------
(* The inductive invariant: the record is its claimant's, and what is promised  *)
(* is kept by the record or by the admission until it runs out (claim, record,  *)
(* release, admitRun, the sweeper).                                          *)
THEOREM KeyInvariant == Spec => []IInv
<1>1. IInv /\ [Next]_vars => IInv'
  BY NextInv
<1>2. Init => IInv
  BY InitInv
<1> QED BY <1>1, <1>2, PTL DEF Spec

(* Records, admissions, requests and runs keep their shapes, and only a record  *)
(* that is done has a run (claim, record, release, admitRun).                 *)
THEOREM TypesKept == Spec => []TypeOK
<1>1. IInv => TypeOK
  BY DEF IInv
<1> QED BY <1>1, KeyInvariant, PTL

(* However claims expire, are taken over, released or swept, a replay gives    *)
(* what the claimant itself answered, to the same body (claim, record).        *)
THEOREM ReplaysAreOriginal == Spec => []ReplaysOriginal
<1>1. IInv => ReplaysOriginal
  BY DEF IInv, Replaying, ReplaysOriginal
<1> QED BY <1>1, KeyInvariant, PTL

(* No step makes a second run while the key is promised to another, but the     *)
(* late handler of an earlier claim, and not even that one while an admission   *)
(* is kept (claim, admitRun).                                                *)
THEOREM OneRunPerKey == Spec => NoSecondRun
<1>1. IInv /\ [Next]_vars =>
        [\A q \in made' \ made : \A p \in made :
           \/ now >= cover[p]
           \/ q \in late /\ (native /\ p \in runs => now >= At(p) + Retention)]_vars
  BY SecondRunIsLate
<1> QED BY <1>1, KeyInvariant, PTL DEF Spec, NoSecondRun
=============================================================================
