-------------------------- MODULE ThreadUpkeep_proofs --------------------------
(***************************************************************************)
(* The checkpoints of a thread, for any runs, prunes, failing calls, crashes   *)
(* and deletions: a deletion leaves nothing behind, and no prune or rollback   *)
(* loses a checkpoint it is not meant to. The argument is about the one        *)
(* process that rewrites the history: whatever it has taken from the history    *)
(* is in its scratch copy, and whatever it will not put back is older than     *)
(* what it keeps, or newer than what it reverts to.                            *)
(***************************************************************************)
EXTENDS ThreadUpkeep, SequenceTheorems, TLAPS

-----------------------------------------------------------------------------
(* The inductive invariant.                                                  *)

Steps == Holding \cup {"off", "queued", "waiting", "sweep", "over"}
ActorSet == [pc: Steps, keep: Seq(Nat), scratch: Seq(Nat), done: Nat]
RunSet == [row: {"none", "active", "over"}, abort: {"none", "cancel", "rollback"},
           base: Int, plan: Int, undone: BOOLEAN]

Shape ==
  /\ exists \in BOOLEAN /\ claim \in Actors \cup {"none"} /\ trouble \in 0..MaxTrouble
  /\ hist \in Seq(Nat) /\ author \in Seq(Runs \cup {"past"}) /\ backup \subseteq DOMAIN author
  /\ actor \in [Actors -> ActorSet] /\ run \in [Runs -> RunSet]

UpkeepShape ==
  /\ del \in {"off", "erase", "row"} /\ ttl \in {"off", "delete", "keep_latest", "prune", "failed"}
  /\ policy \in Policies /\ expiries \in 0..MaxExpiries /\ strays \in BOOLEAN
  /\ expired \in BOOLEAN /\ (expired => policy # "never")

Increasing(s) == \A i, j \in 1..Len(s) : i < j => s[i] < s[j]

Ordered == ToSet(hist) \subseteq DOMAIN author /\ Increasing(hist)

(* One process at a time holds the claim.                                     *)
Claims == \A a \in Actors : Pc(a) \in Holding <=> claim = a

(* What a rewrite keeps, has copied and has put back.                          *)
CopyOK(a) ==
  /\ ToSet(actor[a].keep) \subseteq DOMAIN author /\ Increasing(actor[a].keep)
  /\ ToSet(actor[a].scratch) \subseteq ToSet(actor[a].keep)
  /\ actor[a].done <= Len(actor[a].keep)
  /\ Pc(a) \notin Rewriting => ToSet(actor[a].keep) = {}
  /\ Pc(a) \in {"save", "erase", "replay"} => actor[a].done < Len(actor[a].keep)
  /\ Pc(a) \in {"erase", "clean"} => actor[a].done = 0
  /\ Pc(a) = "save" => \A i \in 1..actor[a].done : actor[a].keep[i] \in ToSet(actor[a].scratch)
  /\ Pc(a) \in {"erase", "replay", "clean"} => ToSet(actor[a].keep) \subseteq ToSet(actor[a].scratch)
  /\ Pc(a) = "replay" => \A n \in ToSet(hist) : \E i \in 1..actor[a].done : actor[a].keep[i] = n

(* What it does not keep.                                                    *)
Spared(a, n) ==
  \/ n \in ToSet(actor[a].keep)
  \/ a \in Prunes /\ \E m \in ToSet(actor[a].keep) : m > n
  \/ a \in Runs /\ n > run[a].plan
Aimed(a) == Pc(a) \in {"save", "erase"} => \A n \in ToSet(hist) : Spared(a, n)

(* Unless the thread was deleted meanwhile it has put back what it should.     *)
Undisturbed(a) == exists /\ ~strays =>
  /\ Pc(a) \in {"save", "erase", "clean"} => ToSet(actor[a].keep) \subseteq ToSet(hist)
  /\ Pc(a) = "replay" => \A i \in 1..actor[a].done : actor[a].keep[i] \in ToSet(hist)

(* A run begins once, and writes only then.                                   *)
Early == {"off", "queued", "waiting", "list", "start"} \cup Rewriting
TurnOK(r) ==
  /\ Pc(r) = "off" => run[r].row # "active"
  /\ Pc(r) \in Early => run[r].base = -1 /\ \A n \in DOMAIN author : author[n] # r
  /\ Pc(r) \in {"list"} \cup Rewriting => run[r].plan # -1
  /\ Pc(r) = "run" => run[r].base # -1

(* Past turns come before every base, and so before every plan.               *)
Held(n) == n \in ToSet(hist) \/ \E a \in Actors : n \in ToSet(actor[a].keep)
Before(b) == \A n \in DOMAIN author : Held(n) /\ author[n] = "past" => n <= b
Mark(b) == b = -1 \/ (b \in {0} \cup DOMAIN author /\ Before(b))
MarksOK(r) == Mark(run[r].base) /\ Mark(run[r].plan)

(* After the deletion only runs it aborted write, and these will sweep.       *)
Sweeps(r) == Pc(r) \in {"run", "release", "sweep"} /\ run[r].abort = "cancel" /\ run[r].base # -1
Deserted ==
  /\ \A r \in Runs : /\ run[r].row # "active" /\ Pc(r) \notin {"list"} \cup Rewriting
                     /\ Pc(r) \in {"start", "run"} => run[r].abort = "cancel"
  /\ \A p \in Prunes : Pc(p) \notin {"erase", "replay", "clean"}
  /\ hist = <<>> \/ \E r \in Runs : Sweeps(r)
Erased == ~exists /\ ~strays => Deserted

Copies == \A a \in Actors : CopyOK(a) /\ Aimed(a) /\ Undisturbed(a)
Turns == \A r \in Runs : TurnOK(r) /\ MarksOK(r)

Core == Shape /\ Ordered /\ Claims /\ Copies /\ Turns
IInv == Core /\ UpkeepShape /\ Erased

-----------------------------------------------------------------------------
(* Sequences of checkpoints.                                                  *)

LEMMA Elements ==
  ASSUME NEW S, NEW s \in Seq(S)
  PROVE  /\ Len(s) \in Nat /\ DOMAIN s = 1..Len(s) /\ ToSet(s) \subseteq S
         /\ \A x : x \in ToSet(s) <=> \E i \in 1..Len(s) : s[i] = x
BY LenProperties DEF ToSet

LEMMA None ==
  ASSUME NEW S
  PROVE  <<>> \in Seq(S) /\ ToSet(<<>>) = {} /\ Len(<<>>) = 0 /\ Increasing(<<>>)
BY EmptySeq DEF ToSet, Increasing

LEMMA Appended ==
  ASSUME NEW s \in Seq(Nat), NEW x \in Nat
  PROVE  /\ Append(s, x) \in Seq(Nat) /\ ToSet(Append(s, x)) = ToSet(s) \cup {x}
         /\ Len(Append(s, x)) = Len(s) + 1 /\ Append(s, x)[Len(s) + 1] = x
         /\ \A i \in 1..Len(s) : Append(s, x)[i] = s[i]
         /\ Increasing(s) /\ (\A n \in ToSet(s) : n < x) => Increasing(Append(s, x))
<1> DEFINE a == Append(s, x)
<1>1. /\ a \in Seq(Nat) /\ Len(a) = Len(s) + 1 /\ a[Len(s) + 1] = x
      /\ \A i \in 1..Len(s) : a[i] = s[i]
  BY AppendProperties
<1>2. Len(s) \in Nat /\ DOMAIN s = 1..Len(s) /\ DOMAIN a = 1..Len(s) + 1
  BY <1>1, LenProperties
<1> HIDE DEF a
<1>3. ToSet(a) = ToSet(s) \cup {x}
  <2>1. ToSet(a) \subseteq ToSet(s) \cup {x}
    <3>1. \A i \in 1..Len(s) + 1 : i \in 1..Len(s) \/ i = Len(s) + 1
      BY <1>2
    <3> QED BY <1>1, <1>2, <3>1 DEF ToSet
  <2>2. ToSet(s) \cup {x} \subseteq ToSet(a)
    <3>1. 1..Len(s) \subseteq 1..Len(s) + 1 /\ Len(s) + 1 \in 1..Len(s) + 1
      BY <1>2
    <3> QED BY <1>1, <1>2, <3>1 DEF ToSet
  <2> QED BY <2>1, <2>2
<1>4. ASSUME Increasing(s), \A n \in ToSet(s) : n < x PROVE Increasing(a)
  <2>1. \A i \in 1..Len(s) : s[i] \in ToSet(s)
    BY Elements
  <2>2. ASSUME NEW i \in 1..Len(a), NEW j \in 1..Len(a), i < j PROVE a[i] < a[j]
    <3>1. i \in 1..Len(s) /\ (j \in 1..Len(s) \/ j = Len(s) + 1)
      BY <1>1, <1>2, <2>2
    <3>2. CASE j \in 1..Len(s)
      BY <1>1, <1>4, <2>2, <3>1, <3>2 DEF Increasing
    <3>3. CASE j = Len(s) + 1
      BY <1>1, <1>4, <2>1, <3>1, <3>3
    <3> QED BY <3>1, <3>2, <3>3
  <2> QED BY <2>2 DEF Increasing
<1> QED BY <1>1, <1>3, <1>4 DEF a

(* The last of an increasing sequence is its greatest.                        *)
LEMMA LastIsGreatest ==
  ASSUME NEW s \in Seq(Nat), s # <<>>, Increasing(s)
  PROVE  /\ Last(s) \in ToSet(s) /\ \A n \in ToSet(s) : n <= Last(s)
         /\ <<Last(s)>> \in Seq(Nat) /\ ToSet(<<Last(s)>>) = {Last(s)}
         /\ Len(<<Last(s)>>) = 1 /\ Increasing(<<Last(s)>>)
<1>1. Len(s) \in Nat /\ Len(s) # 0
  BY EmptySeq, LenProperties
<1>2. Len(s) \in 1..Len(s) /\ s[Len(s)] \in Nat
  BY <1>1, ElementOfSeq
<1>3. Last(s) \in ToSet(s)
  BY <1>2, Elements DEF Last
<1>4. ASSUME NEW n \in ToSet(s) PROVE n <= Last(s)
  <2>1. PICK i \in 1..Len(s) : s[i] = n
    BY <1>4, Elements
  <2> QED BY <1>1, <1>2, <2>1 DEF Last, Increasing
<1>5. Last(s) \in Nat
  BY <1>2 DEF Last
<1> HIDE DEF Last
<1>6. <<Last(s)>> \in Seq(Nat) /\ Len(<<Last(s)>>) = 1 /\ ToSet(<<Last(s)>>) = {Last(s)}
  BY <1>5 DEF ToSet
<1>7. Increasing(<<Last(s)>>)
  BY <1>6 DEF Increasing
<1> QED BY <1>3, <1>4, <1>6, <1>7

(* Reverting to a checkpoint keeps it and all before it.                       *)
Upto(s, b) == SubSeq(s, 1, SelectInSeq(s, LAMBDA n : n = b))
LEMMA Reverted ==
  ASSUME NEW s \in Seq(Nat), Increasing(s), NEW b \in ToSet(s)
  PROVE  /\ Upto(s, b) \in Seq(Nat) /\ ToSet(Upto(s, b)) \subseteq ToSet(s)
         /\ Increasing(Upto(s, b)) /\ Len(Upto(s, b)) > 0
         /\ \A n \in ToSet(s) \ ToSet(Upto(s, b)) : n > b
<1>1. Len(s) \in Nat /\ DOMAIN s = 1..Len(s) /\ \A i \in 1..Len(s) : s[i] \in Nat
  BY Elements, ElementOfSeq
<1>2. PICK k \in 1..Len(s) : s[k] = b
  BY Elements
<1>3. {i \in 1..Len(s) : s[i] = b} = {k}
  BY <1>1, <1>2 DEF Increasing
<1>4. Min({k}) = k
  BY <1>2 DEF Min
<1>5. SelectInSeq(s, LAMBDA n : n = b) = k
  BY <1>3, <1>4 DEF SelectInSeq
<1>6. Upto(s, b) = SubSeq(s, 1, k)
  BY <1>5 DEF Upto
<1> DEFINE u == SubSeq(s, 1, k)
<1>7. u \in Seq(Nat) /\ Len(u) = k /\ \A i \in 1..k : u[i] = s[i]
  BY <1>1, <1>2, SubSeqProperties
<1> HIDE DEF u
<1>8. ToSet(u) \subseteq ToSet(s)
  BY <1>1, <1>2, <1>7, Elements
<1>9. Increasing(u)
  BY <1>1, <1>2, <1>7 DEF Increasing
<1>10. ASSUME NEW n \in ToSet(s) \ ToSet(u) PROVE n > b
  <2>1. PICK i \in 1..Len(s) : s[i] = n
    BY <1>10, Elements
  <2>2. i \notin 1..k
    BY <1>7, <1>10, <2>1, Elements
  <2> QED BY <1>1, <1>2, <2>1, <2>2 DEF Increasing
<1> QED BY <1>1, <1>2, <1>6, <1>7, <1>8, <1>9, <1>10 DEF u

-----------------------------------------------------------------------------
(* What a step does to an actor and to the runs.                              *)

ActorMove(a, pc) ==
  /\ actor' \in [Actors -> ActorSet] /\ \A b \in Actors \ {a} : actor'[b] = actor[b]
  /\ actor'[a].pc = pc
SameCopy(a) ==
  /\ actor'[a].keep = actor[a].keep /\ actor'[a].scratch = actor[a].scratch
  /\ actor'[a].done = actor[a].done
SamePlace(a) == Pc(a)' = Pc(a) \/ (Pc(a) \notin Rewriting /\ Pc(a)' \notin Rewriting)

LEMMA AtMoves ==
  ASSUME actor \in [Actors -> ActorSet], NEW a \in Actors, NEW pc \in Steps, actor' = At(a, pc)
  PROVE  ActorMove(a, pc) /\ SameCopy(a)
<1> DEFINE x == [actor[a] EXCEPT !.pc = pc]
<1>1. actor' = [actor EXCEPT ![a] = x] /\ actor[a] \in ActorSet
  BY DEF At
<1>2. x \in ActorSet /\ x.pc = pc /\ x.keep = actor[a].keep /\ x.scratch = actor[a].scratch
      /\ x.done = actor[a].done
  BY <1>1 DEF ActorSet
<1> HIDE DEF x
<1> QED BY <1>1, <1>2 DEF ActorMove, SameCopy

LEMMA LeaveMoves ==
  ASSUME actor \in [Actors -> ActorSet], NEW a \in Actors, NEW pc \in Steps, Leave(a, pc)
  PROVE  /\ ActorMove(a, pc) /\ actor'[a].keep = <<>> /\ actor'[a].scratch = <<>>
         /\ actor'[a].done = 0
<1> DEFINE x == [pc |-> pc, keep |-> <<>>, scratch |-> <<>>, done |-> 0]
<1>1. actor' = [actor EXCEPT ![a] = x]
  BY DEF Leave
<1>2. x \in ActorSet
  BY None DEF ActorSet
<1> QED BY <1>1, <1>2 DEF ActorMove

(* One saver call more.                                                      *)
Count(a, pc) ==
  /\ actor'[a].keep = actor[a].keep
  /\ Finished(a) => actor'[a].pc = pc /\ actor'[a].done = 0
  /\ ~Finished(a) => actor'[a].pc = Pc(a) /\ actor'[a].done = actor[a].done + 1

LEMMA ReplayMoves ==
  ASSUME actor \in [Actors -> ActorSet], NEW a \in Actors, actor' = Counted(a, "clean")
  PROVE  /\ ActorMove(a, IF Finished(a) THEN "clean" ELSE Pc(a)) /\ Count(a, "clean")
         /\ actor'[a].scratch = actor[a].scratch
<1> DEFINE d == IF Finished(a) THEN 0 ELSE actor[a].done + 1
           pc == IF Finished(a) THEN "clean" ELSE Pc(a)
           x == [actor[a] EXCEPT !.done = d, !.pc = pc]
<1>1. actor[a] \in ActorSet
  OBVIOUS
<1>2. d \in Nat /\ pc \in Steps
  BY <1>1 DEF ActorSet, Pc, Steps, Holding, Rewriting
<1>3. actor' = [actor EXCEPT ![a] = x]
  BY <1>1 DEF Counted, Pc, ActorSet
<1>4. x \in ActorSet /\ x.pc = pc /\ x.done = d /\ x.keep = actor[a].keep
      /\ x.scratch = actor[a].scratch
  <2> HIDE DEF d, pc
  <2> QED BY <1>1, <1>2 DEF ActorSet
<1> HIDE DEF x
<1> QED BY <1>3, <1>4 DEF ActorMove, Count

LEMMA SaveMoves ==
  ASSUME actor \in [Actors -> ActorSet], NEW a \in Actors, NEW n \in Nat,
         actor' = [Counted(a, "erase") EXCEPT ![a].scratch = Append(@, n)]
  PROVE  /\ ActorMove(a, IF Finished(a) THEN "erase" ELSE Pc(a)) /\ Count(a, "erase")
         /\ actor'[a].scratch = Append(actor[a].scratch, n)
<1> DEFINE d == IF Finished(a) THEN 0 ELSE actor[a].done + 1
           pc == IF Finished(a) THEN "erase" ELSE Pc(a)
           s == Append(actor[a].scratch, n)
           y == [actor[a] EXCEPT !.done = d, !.pc = pc]
           x == [y EXCEPT !.scratch = s]
<1>1. actor[a] \in ActorSet
  OBVIOUS
<1>2. d \in Nat /\ pc \in Steps /\ s \in Seq(Nat)
  BY <1>1, Appended DEF ActorSet, Pc, Steps, Holding, Rewriting
<1>3. Counted(a, "erase") = [actor EXCEPT ![a] = y]
  BY <1>1 DEF Counted, Pc, ActorSet
<1>4. /\ y \in ActorSet /\ y.pc = pc /\ y.done = d /\ y.keep = actor[a].keep
      /\ y.scratch = actor[a].scratch
  <2> HIDE DEF d, pc
  <2> QED BY <1>1, <1>2 DEF ActorSet
<1>5. actor' = [actor EXCEPT ![a] = x]
  <2> HIDE DEF y, d, pc
  <2>1. Counted(a, "erase")[a] = y /\ Counted(a, "erase") \in [Actors -> ActorSet]
    BY <1>3, <1>4
  <2> QED BY <1>3, <1>4, <2>1
<1>6. x \in ActorSet /\ x.pc = pc /\ x.done = d /\ x.keep = actor[a].keep /\ x.scratch = s
  <2> HIDE DEF y, d, pc, s
  <2> QED BY <1>2, <1>4 DEF ActorSet
<1> HIDE DEF x
<1> QED BY <1>5, <1>6 DEF ActorMove, Count

(* No step but a creation and a start changes a run's plan or base.            *)
RunsKept ==
  /\ run' \in [Runs -> RunSet]
  /\ \A r \in Runs : run'[r].base = run[r].base /\ run'[r].plan = run[r].plan
  /\ \A r \in Runs : run'[r].row = run[r].row \/ run'[r].row = "over"
  /\ \A r \in Runs : run[r].undone => run'[r].undone

LEMMA AbortedValues ==
  ASSUME run \in [Runs -> RunSet], NEW S, NEW reason \in {"cancel", "rollback"}
  PROVE  /\ Aborted(S, reason) \in [Runs -> RunSet]
         /\ \A r \in Runs :
              /\ Aborted(S, reason)[r].base = run[r].base /\ Aborted(S, reason)[r].plan = run[r].plan
              /\ Aborted(S, reason)[r].undone = run[r].undone
              /\ Aborted(S, reason)[r].row = run[r].row
              /\ run[r].abort # "none" => Aborted(S, reason)[r].abort = run[r].abort
<1>1. ASSUME NEW r \in Runs
      PROVE  /\ Aborted(S, reason)[r] \in RunSet
             /\ Aborted(S, reason)[r].base = run[r].base /\ Aborted(S, reason)[r].plan = run[r].plan
             /\ Aborted(S, reason)[r].undone = run[r].undone
             /\ Aborted(S, reason)[r].row = run[r].row
             /\ run[r].abort # "none" => Aborted(S, reason)[r].abort = run[r].abort
  <2> DEFINE x == [run[r] EXCEPT !.abort = reason]
  <2>1. run[r] \in RunSet
    OBVIOUS
  <2>2. /\ x \in RunSet /\ x.base = run[r].base /\ x.plan = run[r].plan
        /\ x.undone = run[r].undone /\ x.row = run[r].row
    BY <2>1 DEF RunSet
  <2>3. /\ Aborted(S, reason)[r] \in {run[r], x}
        /\ run[r].abort # "none" => Aborted(S, reason)[r] = run[r]
    BY DEF Aborted
  <2> HIDE DEF x
  <2> QED BY <2>1, <2>2, <2>3
<1>2. Aborted(S, reason) = [r \in Runs |-> Aborted(S, reason)[r]]
  BY DEF Aborted
<1> QED BY <1>1, <1>2

-----------------------------------------------------------------------------
(* What a step leaves alone.                                                  *)

LEMMA Framed ==
  ASSUME Shape, NEW a \in Actors, CopyOK(a), Aimed(a), Undisturbed(a), SameCopy(a), SamePlace(a),
         DOMAIN author \subseteq DOMAIN author', exists' => exists, strays => strays',
         Pc(a) \in Rewriting =>
           /\ hist' = hist \/ (hist' = <<>> /\ (~exists' \/ strays'))
           /\ a \in Runs => run'[a].plan = run[a].plan
  PROVE  CopyOK(a)' /\ Aimed(a)' /\ Undisturbed(a)'
<1>1. CASE Pc(a) \notin Rewriting
  <2>1. Pc(a)' \notin Rewriting
    BY <1>1 DEF SamePlace
  <2>2. Pc(a)' \notin {"save", "erase", "replay", "clean"}
    BY <2>1 DEF Rewriting
  <2>3. CopyOK(a)'
    BY <1>1, <2>1, <2>2 DEF CopyOK, SameCopy
  <2> QED BY <2>2, <2>3 DEF Aimed, Undisturbed
<1>2. CASE Pc(a) \in Rewriting
  <2>1. Pc(a)' = Pc(a)
    BY <1>2 DEF SamePlace
  <2>2. hist' = hist \/ ToSet(hist') = {}
    BY <1>2, None
  <2>3. CopyOK(a)'
    BY <2>1, <2>2 DEF CopyOK, SameCopy
  <2>4. Aimed(a)'
    BY <1>2, <2>1, <2>2 DEF Aimed, Spared, SameCopy
  <2>5. Undisturbed(a)'
    BY <1>2, <2>1 DEF Undisturbed, SameCopy
  <2> QED BY <2>3, <2>4, <2>5
<1> QED BY <1>1, <1>2

HeldMoves ==
  \A n \in DOMAIN author' : Held(n)' =>
    author'[n] # "past" \/ (n \in DOMAIN author /\ author'[n] = author[n] /\ Held(n))

LEMMA HeldShrinks ==
  ASSUME UNCHANGED author, \A n \in ToSet(hist') : Held(n),
         \A a \in Actors : \A n \in ToSet(actor'[a].keep) : Held(n)
  PROVE  HeldMoves
BY DEF HeldMoves, Held

LEMMA MarkFrame ==
  ASSUME NEW b \in Int, Mark(b), HeldMoves, DOMAIN author \subseteq DOMAIN author'
  PROVE  Mark(b)'
BY DEF Mark, Before, HeldMoves

LEMMA TurnFrame ==
  ASSUME NEW r \in Runs, TurnOK(r), Pc(r)' = Pc(r), run'[r].base = run[r].base,
         run'[r].plan = run[r].plan, run'[r].row \in {run[r].row, "over"}, UNCHANGED author
  PROVE  TurnOK(r)'
<1>1. run'[r].row # "active" \/ run'[r].row = run[r].row
  OBVIOUS
<1> QED BY <1>1 DEF TurnOK

(* A step that neither writes nor rewrites, and may empty the history.         *)
SameMarks == \A r \in Runs : run'[r].plan = run[r].plan /\ run'[r].base = run[r].base
NewMarks ==
  \A r \in Runs :
    /\ \/ run'[r].plan = run[r].plan
       \/ Pc(r) \notin Rewriting /\ \E b \in Int : b = run'[r].plan /\ Mark(b)
    /\ run'[r].base = run[r].base \/ \E b \in Int : b = run'[r].base /\ Mark(b)'

LEMMA CoreMoves ==
  ASSUME Core, Shape', Claims', UNCHANGED author, exists' => exists, strays => strays',
         \A b \in Actors : SameCopy(b) /\ SamePlace(b),
         hist' \in {hist, <<>>},
         (\E b \in Actors : Pc(b) \in Rewriting) => hist' = hist \/ ~exists' \/ strays',
         \A r \in Runs : TurnOK(r)', NewMarks
  PROVE  Core'
<1> USE DEF Core, NewMarks
<1>1. Copies'
  <2>1. ASSUME NEW a \in Actors PROVE CopyOK(a)' /\ Aimed(a)' /\ Undisturbed(a)'
    BY Framed DEF Copies
  <2> QED BY <2>1 DEF Copies
<1>2. Ordered'
  BY None DEF Ordered
<1>3. HeldMoves
  <2>1. \A n \in ToSet(hist') : Held(n)
    BY None DEF Held
  <2>2. \A a \in Actors : \A n \in ToSet(actor'[a].keep) : Held(n)
    BY DEF Held, SameCopy
  <2> QED BY <2>1, <2>2, HeldShrinks
<1>4. ASSUME NEW r \in Runs PROVE MarksOK(r)'
  <2>1. PICK b \in Int, p \in Int : b = run[r].base /\ p = run[r].plan
    BY DEF Shape, RunSet
  <2>2. Mark(b)' /\ Mark(p)'
    BY <1>3, <2>1, MarkFrame DEF Turns, MarksOK
  <2>3. PICK c \in Int : c = run'[r].base /\ Mark(c)'
    BY <2>1, <2>2
  <2>4. PICK e \in Int : e = run'[r].plan /\ Mark(e)'
    BY <1>3, <2>1, <2>2, MarkFrame
  <2> QED BY <2>3, <2>4 DEF MarksOK
<1> QED BY <1>1, <1>2, <1>4 DEF Turns

LEMMA CoreFrame ==
  ASSUME Core, Shape', Claims', UNCHANGED author, exists' => exists, strays => strays',
         \A b \in Actors : SameCopy(b) /\ SamePlace(b),
         hist' \in {hist, <<>>},
         (\E b \in Actors : Pc(b) \in Rewriting) => hist' = hist \/ ~exists' \/ strays',
         \A r \in Runs : TurnOK(r)', SameMarks
  PROVE  Core'
<1>1. NewMarks
  BY DEF SameMarks, NewMarks
<1> QED BY <1>1, CoreMoves

-----------------------------------------------------------------------------
(* The steps of a run or prune that leave the history to itself.               *)

LEMMA QuietMove ==
  ASSUME Shape, NEW a \in Actors, NEW pc \in Steps \ Rewriting, actor' = At(a, pc),
         Pc(a) \notin Rewriting
  PROVE  /\ actor' \in [Actors -> ActorSet] /\ Pc(a)' = pc
         /\ \A b \in Actors \ {a} : actor'[b] = actor[b] /\ Pc(b)' = Pc(b)
         /\ \A b \in Actors : SameCopy(b) /\ SamePlace(b)
<1>1. ActorMove(a, pc) /\ SameCopy(a)
  BY AtMoves DEF Shape
<1> QED BY <1>1 DEF ActorMove, SameCopy, SamePlace, Pc

LEMMA RegisterCore ==
  ASSUME Core, NEW r \in Runs, Register(r), UNCHANGED strays PROVE Core'
<1> USE DEF Core
<1>1. /\ Pc(r) = "queued" /\ actor' = At(r, "waiting") /\ r \in Actors
      /\ UNCHANGED <<exists, hist, author, claim, run, backup, trouble>>
  BY DEF Register, Actors
<1>2. /\ actor' \in [Actors -> ActorSet] /\ Pc(r)' = "waiting"
      /\ \A b \in Actors \ {r} : actor'[b] = actor[b] /\ Pc(b)' = Pc(b)
      /\ \A b \in Actors : SameCopy(b) /\ SamePlace(b)
  BY <1>1, QuietMove DEF Steps, Rewriting, Holding
<1>3. Shape'
  BY <1>1, <1>2 DEF Shape
<1>4. Claims'
  BY <1>1, <1>2 DEF Claims, Holding, Rewriting
<1>5. ASSUME NEW q \in Runs PROVE TurnOK(q)'
  <2>1. CASE q = r
    BY <1>1, <1>2, <2>1 DEF Turns, TurnOK, Early, Rewriting
  <2>2. CASE q # r
    BY <1>1, <1>2, <2>2, TurnFrame DEF Turns, Actors
  <2> QED BY <2>1, <2>2
<1>7. SameMarks
  BY <1>1 DEF SameMarks
<1> QED BY <1>1, <1>2, <1>3, <1>4, <1>5, <1>7, CoreFrame

LEMMA ClaimCore ==
  ASSUME Core, NEW a \in Actors, Claim(a), UNCHANGED strays PROVE Core'
<1> USE DEF Core
<1>1. PICK pc \in {"list", "release", "start"} :
        /\ actor' = At(a, pc) /\ (a \in Runs /\ pc = "list" => run[a].plan # -1)
  <2> DEFINE pc == IF a \in Prunes THEN IF Active = {} THEN "list" ELSE "release"
                   ELSE IF run[a].row # "active" THEN "release"
                   ELSE IF run[a].plan # -1 THEN "list" ELSE "start"
  <2>1. actor' = At(a, pc)
    BY DEF Claim
  <2>2. pc \in {"list", "release", "start"} /\ (a \in Runs /\ pc = "list" => run[a].plan # -1)
    BY HistoryAssumption
  <2> HIDE DEF pc
  <2> QED BY <2>1, <2>2
<1>2. /\ Pc(a) = "waiting" /\ claim = "none" /\ claim' = a
      /\ UNCHANGED <<exists, hist, author, run, backup, trouble>>
  BY DEF Claim, Claimable
<1>3. /\ actor' \in [Actors -> ActorSet] /\ Pc(a)' = pc
      /\ \A b \in Actors \ {a} : actor'[b] = actor[b] /\ Pc(b)' = Pc(b)
      /\ \A b \in Actors : SameCopy(b) /\ SamePlace(b)
  BY <1>1, <1>2, QuietMove DEF Steps, Rewriting, Holding
<1>4. Shape'
  BY <1>2, <1>3 DEF Shape
<1>5. Claims'
  <2>1. \A b \in Actors : b # "none"
    BY HistoryAssumption DEF Actors
  <2>2. pc \in Holding
    BY DEF Holding
  <2> QED BY <1>2, <1>3, <2>1, <2>2 DEF Claims
<1>6. ASSUME NEW q \in Runs PROVE TurnOK(q)'
  <2>1. CASE q = a
    BY <1>1, <1>2, <1>3, <2>1 DEF Turns, TurnOK, Early, Rewriting
  <2>2. CASE q # a
    BY <1>2, <1>3, <2>2, TurnFrame DEF Turns, Actors
  <2> QED BY <2>1, <2>2
<1>7. SameMarks
  BY <1>2 DEF SameMarks
<1> QED BY <1>2, <1>3, <1>4, <1>5, <1>6, <1>7, CoreFrame

LEMMA ReleaseFacts ==
  ASSUME Core, NEW a \in Actors, Release(a)
  PROVE  /\ Pc(a) = "release" /\ claim = a /\ claim' = "none"
         /\ UNCHANGED <<exists, hist, author, run, backup, trouble>>
         /\ actor' \in [Actors -> ActorSet] /\ Pc(a)' \in {"sweep", "over"}
         /\ (a \in Runs /\ run[a].abort = "cancel" /\ run[a].base # -1) => Pc(a)' = "sweep"
         /\ \A b \in Actors \ {a} : actor'[b] = actor[b] /\ Pc(b)' = Pc(b)
         /\ \A b \in Actors : SameCopy(b) /\ SamePlace(b)
<1> USE DEF Core
<1> DEFINE pc == IF a \in Runs /\ run[a].abort = "cancel" /\ run[a].base # -1 THEN "sweep" ELSE "over"
<1>1. /\ Pc(a) = "release" /\ actor' = At(a, pc)
      /\ UNCHANGED <<exists, hist, author, run, backup, trouble>>
  BY DEF Release
<1>2. claim = a /\ claim' = "none"
  BY <1>1 DEF Release, Claims, Holding
<1>3. pc \in Steps \ Rewriting
  BY DEF Steps, Rewriting, Holding
<1>4. Pc(a) \notin Rewriting
  BY <1>1 DEF Rewriting
<1>5. /\ pc \in {"sweep", "over"}
      /\ (a \in Runs /\ run[a].abort = "cancel" /\ run[a].base # -1) => pc = "sweep"
  OBVIOUS
<1> HIDE DEF pc
<1> QED BY <1>1, <1>2, <1>3, <1>4, <1>5, QuietMove

LEMMA ReleaseCore ==
  ASSUME Core, NEW a \in Actors, Release(a), UNCHANGED strays PROVE Core'
<1> USE DEF Core
<1>1. /\ Pc(a) = "release" /\ claim = a /\ claim' = "none"
      /\ UNCHANGED <<exists, hist, author, run, backup, trouble>>
      /\ actor' \in [Actors -> ActorSet] /\ Pc(a)' \in {"sweep", "over"}
      /\ \A b \in Actors \ {a} : actor'[b] = actor[b] /\ Pc(b)' = Pc(b)
      /\ \A b \in Actors : SameCopy(b) /\ SamePlace(b)
  BY ReleaseFacts
<1>2. Shape'
  BY <1>1 DEF Shape
<1>3. Claims'
  <2>1. \A b \in Actors : b # "none"
    BY HistoryAssumption DEF Actors
  <2> QED BY <1>1, <2>1 DEF Claims, Holding, Rewriting
<1>4. ASSUME NEW q \in Runs PROVE TurnOK(q)'
  <2>1. CASE q = a
    BY <1>1, <2>1 DEF Turns, TurnOK, Early, Rewriting
  <2>2. CASE q # a
    BY <1>1, <2>2, TurnFrame DEF Turns, Actors
  <2> QED BY <2>1, <2>2
<1>7. SameMarks
  BY <1>1 DEF SameMarks
<1> QED BY <1>1, <1>2, <1>3, <1>4, <1>7, CoreFrame

(* The base of a run is the newest checkpoint.                                *)
LEMMA StartFacts ==
  ASSUME Core, NEW r \in Runs, Start(r)
  PROVE  /\ Pc(r) = "start" /\ r \in Actors
         /\ UNCHANGED <<exists, hist, author, claim, backup, trouble>>
         /\ actor' \in [Actors -> ActorSet] /\ Pc(r)' = "run"
         /\ \A b \in Actors \ {r} : actor'[b] = actor[b] /\ Pc(b)' = Pc(b)
         /\ \A b \in Actors : SameCopy(b) /\ SamePlace(b)
         /\ run' \in [Runs -> RunSet] /\ \A q \in Runs \ {r} : run'[q] = run[q]
         /\ run'[r].base = Tip /\ Tip \in Nat /\ run'[r].plan = run[r].plan
         /\ run'[r].row = run[r].row /\ run'[r].abort = run[r].abort
         /\ run'[r].undone = run[r].undone
         /\ \A n \in ToSet(hist) : n <= Tip
         /\ Tip \in {0} \cup ToSet(hist)
<1> USE DEF Core
<1>1. /\ Pc(r) = "start" /\ actor' = At(r, "run") /\ r \in Actors
      /\ UNCHANGED <<exists, hist, author, claim, backup, trouble>>
      /\ run' = [run EXCEPT ![r].base = Tip]
  BY DEF Start, Actors
<1>2. Tip \in Nat /\ (\A n \in ToSet(hist) : n <= Tip) /\ Tip \in {0} \cup ToSet(hist)
  <2>1. CASE hist = <<>>
    BY <2>1, None DEF Tip
  <2>2. CASE hist # <<>>
    <3>1. hist \in Seq(Nat) /\ Increasing(hist) /\ ToSet(hist) \subseteq Nat
      BY Elements DEF Shape, Ordered
    <3> QED BY <2>2, <3>1, LastIsGreatest DEF Tip
  <2> QED BY <2>1, <2>2
<1> DEFINE t == Tip
           x == [run[r] EXCEPT !.base = t]
<1>3. run' = [run EXCEPT ![r] = x] /\ run \in [Runs -> RunSet]
  BY <1>1 DEF Shape
<1>4. t \in Nat
  BY <1>2
<1>5. /\ x \in RunSet /\ x.base = t /\ x.plan = run[r].plan /\ x.row = run[r].row
      /\ x.abort = run[r].abort /\ x.undone = run[r].undone
  <2> HIDE DEF t
  <2> QED BY <1>3, <1>4 DEF RunSet
<1>6. /\ run' \in [Runs -> RunSet] /\ run'[r] = x /\ \A q \in Runs \ {r} : run'[q] = run[q]
  <2> HIDE DEF x
  <2> QED BY <1>3, <1>5
<1>7. "run" \in Steps \ Rewriting /\ Pc(r) \notin Rewriting
  BY <1>1 DEF Steps, Rewriting, Holding
<1> QED BY <1>1, <1>2, <1>5, <1>6, <1>7, QuietMove

LEMMA StartCore ==
  ASSUME Core, NEW r \in Runs, Start(r), UNCHANGED strays PROVE Core'
<1> USE DEF Core
<1>1. PICK t \in Nat : t = Tip
  BY StartFacts
<1>2. /\ Pc(r) = "start" /\ r \in Actors
      /\ UNCHANGED <<exists, hist, author, claim, backup, trouble>>
      /\ actor' \in [Actors -> ActorSet] /\ Pc(r)' = "run"
      /\ \A b \in Actors \ {r} : actor'[b] = actor[b] /\ Pc(b)' = Pc(b)
      /\ \A b \in Actors : SameCopy(b) /\ SamePlace(b)
      /\ run' \in [Runs -> RunSet] /\ \A q \in Runs \ {r} : run'[q] = run[q]
      /\ run'[r].base = t /\ run'[r].plan = run[r].plan /\ run'[r].row = run[r].row
      /\ \A n \in ToSet(hist) : n <= t
      /\ t \in {0} \cup ToSet(hist)
  BY <1>1, StartFacts
<1>3. Shape'
  BY <1>2 DEF Shape
<1>4. Claims'
  BY <1>2 DEF Claims, Holding, Rewriting
<1>5. ASSUME NEW q \in Runs PROVE TurnOK(q)'
  <2>1. CASE q = r
    <3>1. run'[r].base # -1
      BY <1>2
    <3> QED BY <1>2, <2>1, <3>1 DEF TurnOK, Early, Rewriting
  <2>2. CASE q # r
    BY <1>2, <2>2, TurnFrame DEF Turns, Actors
  <2> QED BY <2>1, <2>2
<1>6. Mark(t)'
  <2>1. t \in {0} \cup DOMAIN author'
    BY <1>2 DEF Ordered
  <2>2. ASSUME NEW n \in DOMAIN author', Held(n)' PROVE n <= t
    <3>1. \A a \in Actors \ {r} : Pc(a) \notin Rewriting
      BY <1>2 DEF Claims, Holding
    <3>2. \A a \in Actors : Pc(a) \notin Rewriting
      BY <1>2, <3>1 DEF Rewriting
    <3>3. \A a \in Actors : ToSet(actor'[a].keep) = {}
      BY <1>2, <3>2 DEF Copies, CopyOK, SameCopy
    <3> QED BY <1>2, <2>2, <3>3 DEF Held
  <2> QED BY <2>1, <2>2 DEF Mark, Before
<1>7. NewMarks
  BY <1>1, <1>2, <1>6 DEF NewMarks
<1> QED BY <1>2, <1>3, <1>4, <1>5, <1>7, CoreMoves

LEMMA KeptAt ==
  ASSUME RunsKept, NEW r \in Runs
  PROVE  /\ run'[r].base = run[r].base /\ run'[r].plan = run[r].plan
         /\ run'[r].row \in {run[r].row, "over"}
BY DEF RunsKept

LEMMA TurnKept ==
  ASSUME Core, RunsKept, NEW r \in Runs, Pc(r)' = Pc(r), UNCHANGED author
  PROVE  TurnOK(r)'
<1>1. TurnOK(r)
  BY DEF Core, Turns
<1> QED BY <1>1, KeptAt, TurnFrame

LEMMA SettleFacts ==
  ASSUME Core, NEW r \in Runs, Settle(r)
  PROVE  /\ Pc(r) = "run" /\ r \in Actors
         /\ UNCHANGED <<exists, hist, author, claim, backup, trouble>>
         /\ actor' \in [Actors -> ActorSet] /\ Pc(r)' = "release"
         /\ \A b \in Actors \ {r} : actor'[b] = actor[b] /\ Pc(b)' = Pc(b)
         /\ \A b \in Actors : SameCopy(b) /\ SamePlace(b)
         /\ RunsKept /\ \A q \in Runs : run'[q].abort = run[q].abort /\ run'[q].undone = run[q].undone
<1> USE DEF Core
<1>1. /\ Pc(r) = "run" /\ actor' = At(r, "release") /\ r \in Actors
      /\ UNCHANGED <<exists, hist, author, claim, backup, trouble>>
      /\ run' = [run EXCEPT ![r].row = "over"]
  BY DEF Settle, Actors
<1> DEFINE x == [run[r] EXCEPT !.row = "over"]
<1>2. run' = [run EXCEPT ![r] = x] /\ run \in [Runs -> RunSet]
  BY <1>1 DEF Shape
<1>3. /\ x \in RunSet /\ x.base = run[r].base /\ x.plan = run[r].plan /\ x.row = "over"
      /\ x.abort = run[r].abort /\ x.undone = run[r].undone
  BY <1>2 DEF RunSet
<1>4. run' \in [Runs -> RunSet] /\ run'[r] = x /\ \A q \in Runs \ {r} : run'[q] = run[q]
  <2> HIDE DEF x
  <2> QED BY <1>2, <1>3
<1>5. RunsKept /\ \A q \in Runs : run'[q].abort = run[q].abort /\ run'[q].undone = run[q].undone
  <2> HIDE DEF x
  <2> QED BY <1>3, <1>4 DEF RunsKept
<1>6. "release" \in Steps \ Rewriting /\ Pc(r) \notin Rewriting
  BY <1>1 DEF Steps, Rewriting, Holding
<1> QED BY <1>1, <1>5, <1>6, QuietMove

LEMMA SettleCore ==
  ASSUME Core, NEW r \in Runs, Settle(r), UNCHANGED strays PROVE Core'
<1> USE DEF Core
<1>1. /\ Pc(r) = "run" /\ r \in Actors
      /\ UNCHANGED <<exists, hist, author, claim, backup, trouble>>
      /\ actor' \in [Actors -> ActorSet] /\ Pc(r)' = "release"
      /\ \A b \in Actors \ {r} : actor'[b] = actor[b] /\ Pc(b)' = Pc(b)
      /\ \A b \in Actors : SameCopy(b) /\ SamePlace(b)
      /\ RunsKept
  BY SettleFacts
<1>2. Shape'
  BY <1>1 DEF Shape, RunsKept
<1>3. Claims'
  BY <1>1 DEF Claims, Holding, Rewriting
<1>4. ASSUME NEW q \in Runs PROVE TurnOK(q)'
  <2>1. CASE q = r
    BY <1>1, <2>1 DEF TurnOK, Early, Rewriting
  <2>2. CASE q # r
    BY <1>1, <2>2, TurnKept DEF Actors
  <2> QED BY <2>1, <2>2
<1>5. SameMarks
  BY <1>1, KeptAt DEF SameMarks
<1> QED BY <1>1, <1>2, <1>3, <1>4, <1>5, CoreFrame

(* A run that was cancelled empties the history of a thread that is gone.      *)
LEMMA SweepCore ==
  ASSUME Core, NEW r \in Runs, Sweep(r), UNCHANGED strays PROVE Core'
<1> USE DEF Core
<1>1. /\ Pc(r) = "sweep" /\ actor' = At(r, "over") /\ r \in Actors
      /\ UNCHANGED <<exists, author, claim, run, backup, trouble>>
      /\ hist' \in {hist, <<>>} /\ (hist' = hist \/ ~exists')
  BY DEF Sweep, Swept, Actors
<1>2. /\ actor' \in [Actors -> ActorSet] /\ Pc(r)' = "over"
      /\ \A b \in Actors \ {r} : actor'[b] = actor[b] /\ Pc(b)' = Pc(b)
      /\ \A b \in Actors : SameCopy(b) /\ SamePlace(b)
  BY <1>1, QuietMove DEF Steps, Rewriting, Holding
<1>3. Shape'
  BY <1>1, <1>2, None DEF Shape
<1>4. Claims'
  BY <1>1, <1>2 DEF Claims, Holding, Rewriting
<1>5. ASSUME NEW q \in Runs PROVE TurnOK(q)'
  <2>1. CASE q = r
    BY <1>1, <1>2, <2>1 DEF TurnOK, Early, Rewriting
  <2>2. CASE q # r
    BY <1>1, <1>2, <2>2, TurnFrame DEF Turns, Actors
  <2> QED BY <2>1, <2>2
<1>7. SameMarks
  BY <1>1 DEF SameMarks
<1> QED BY <1>1, <1>2, <1>3, <1>4, <1>5, <1>7, CoreFrame

(* A prune begins, or is skipped.                                            *)
LEMMA PruneCore ==
  ASSUME Core, NEW p \in Prunes, NEW pc \in {"waiting", "over"}, actor' = At(p, pc),
         Pc(p) \in {"off", "over"}, UNCHANGED <<exists, hist, author, claim, run, backup, trouble, strays>>
  PROVE  Core'
<1> USE DEF Core
<1>1. p \in Actors /\ p \notin Runs
  BY HistoryAssumption DEF Actors
<1>2. /\ actor' \in [Actors -> ActorSet] /\ Pc(p)' = pc
      /\ \A b \in Actors \ {p} : actor'[b] = actor[b] /\ Pc(b)' = Pc(b)
      /\ \A b \in Actors : SameCopy(b) /\ SamePlace(b)
  BY <1>1, QuietMove DEF Steps, Rewriting, Holding
<1>3. Shape'
  BY <1>2 DEF Shape
<1>4. Claims'
  BY <1>1, <1>2 DEF Claims, Holding, Rewriting
<1>5. ASSUME NEW q \in Runs PROVE TurnOK(q)'
  BY <1>1, <1>2, TurnFrame DEF Turns, Actors
<1>7. SameMarks
  BY DEF SameMarks
<1> QED BY <1>2, <1>3, <1>4, <1>5, <1>7, CoreFrame

(* A deletion aborts runs, empties the history and drops the rows.            *)
LEMMA DeletionCore ==
  ASSUME Core, UNCHANGED <<actor, author, claim, backup>>, RunsKept,
         exists' \in BOOLEAN, exists' => exists, strays => strays', trouble' \in 0..MaxTrouble,
         hist' \in {hist, <<>>},
         (\E b \in Actors : Pc(b) \in Rewriting) => hist' = hist \/ ~exists' \/ strays'
  PROVE  Core'
<1> USE DEF Core
<1>1. Shape'
  BY None DEF Shape, RunsKept
<1>2. Claims'
  BY DEF Claims, Pc
<1>3. \A b \in Actors : SameCopy(b) /\ SamePlace(b)
  BY DEF SameCopy, SamePlace, Pc
<1>4. ASSUME NEW r \in Runs PROVE TurnOK(r)'
  BY TurnKept DEF Pc
<1>5. SameMarks
  BY KeptAt DEF SameMarks
<1> QED BY <1>1, <1>2, <1>3, <1>4, <1>5, CoreFrame

LEMMA AbortKeeps ==
  ASSUME Core, run' = Aborted(Active, "cancel") \/ UNCHANGED run
  PROVE  RunsKept
<1>1. run \in [Runs -> RunSet]
  BY DEF Core, Shape
<1> QED BY <1>1, AbortedValues DEF RunsKept

LEMMA DeleteCore ==
  ASSUME Core, UpkeepShape, DeleteThread \/ Delete \/ SweeperDeletes PROVE Core'
<1> USE DEF Core
<1>1. exists \in BOOLEAN /\ trouble \in 0..MaxTrouble
  BY DEF Shape
<1>2. Trouble => trouble' \in 0..MaxTrouble
  BY <1>1, HistoryAssumption DEF Trouble
<1>3. CASE DeleteThread \/ SweeperDeletes
  <2>1. /\ UNCHANGED <<actor, author, claim, backup, exists, strays, trouble, hist>>
        /\ run' = Aborted(Active, "cancel") \/ UNCHANGED run
    BY <1>3 DEF DeleteThread, SweeperDeletes
  <2> QED BY <1>1, <2>1, AbortKeeps, DeletionCore
<1>4. CASE DeleteCheckpoints
  <2>1. /\ UNCHANGED <<actor, author, claim, backup, exists, run>>
        /\ \/ hist' = <<>> /\ strays' = (strays \/ \E a \in Actors : Unaware(a)) /\ UNCHANGED trouble
           \/ Trouble /\ UNCHANGED <<hist, strays>>
    BY <1>4 DEF DeleteCheckpoints
  <2>2. (\E b \in Actors : Pc(b) \in Rewriting) => hist' = hist \/ strays'
    BY <2>1 DEF Unaware
  <2>3. RunsKept
    BY <2>1, AbortKeeps
  <2>4. trouble' \in 0..MaxTrouble /\ hist' \in {hist, <<>>}
    BY <1>1, <1>2, <2>1
  <2>5. strays => strays'
    BY <2>1
  <2>6. exists' \in BOOLEAN /\ (exists' => exists)
    BY <1>1, <2>1
  <2> QED BY <2>1, <2>2, <2>3, <2>4, <2>5, <2>6, DeletionCore
<1>5. CASE DeleteRow
  <2>1. /\ UNCHANGED <<actor, author, claim, backup, hist>>
        /\ \/ /\ exists' = FALSE /\ run' = [r \in Runs |-> [run[r] EXCEPT !.row = "over"]]
              /\ strays' = (strays \/ hist # <<>> \/ \E a \in Actors : Unaware(a)) /\ UNCHANGED trouble
           \/ Trouble /\ UNCHANGED <<exists, run, strays>>
    BY <1>5 DEF DeleteRow
  <2>2. ASSUME NEW r \in Runs
        PROVE  LET x == [run[r] EXCEPT !.row = "over"] IN
               /\ x \in RunSet /\ x.base = run[r].base /\ x.plan = run[r].plan
               /\ x.row = "over" /\ x.undone = run[r].undone
    <3>1. run[r] \in RunSet
      BY DEF Shape
    <3> QED BY <3>1 DEF RunSet
  <2>3. run' = [r \in Runs |-> [run[r] EXCEPT !.row = "over"]] => RunsKept
    <3> DEFINE X(r) == [run[r] EXCEPT !.row = "over"]
    <3>1. \A r \in Runs : /\ X(r) \in RunSet /\ X(r).base = run[r].base
                          /\ X(r).plan = run[r].plan
                          /\ X(r).row = "over" /\ X(r).undone = run[r].undone
      BY <2>2
    <3> HIDE DEF X
    <3>2. run' = [r \in Runs |-> X(r)] => RunsKept
      BY <3>1 DEF RunsKept
    <3> QED BY <3>2 DEF X
  <2>4. RunsKept
    BY <2>1, <2>3, AbortKeeps
  <2>5. trouble' \in 0..MaxTrouble /\ hist' \in {hist, <<>>}
    BY <1>1, <1>2, <2>1
  <2>6. strays => strays'
    BY <2>1
  <2>7. exists' \in BOOLEAN /\ (exists' => exists)
    <3>1. exists' = FALSE \/ exists' = exists
      BY <2>1
    <3>2. CASE exists' = FALSE
      BY <3>2
    <3>3. CASE exists' = exists
      BY <1>1, <3>3
    <3> QED BY <3>1, <3>2, <3>3
  <2> QED BY <2>1, <2>4, <2>5, <2>6, <2>7, DeletionCore
<1> QED BY <1>3, <1>4, <1>5 DEF Delete

LEMMA UpkeepCore ==
  ASSUME Core, UNCHANGED <<history, strays>> PROVE Core'
<1>1. RunsKept
  BY AbortKeeps DEF history
<1>2. exists \in BOOLEAN /\ trouble \in 0..MaxTrouble
  BY DEF Core, Shape
<1> QED BY <1>1, <1>2, DeletionCore DEF history

-----------------------------------------------------------------------------
(* A run is created, and a run writes.                                        *)

LEMMA CreateFacts ==
  ASSUME Core, NEW r \in Runs, NEW strategy, Create(r, strategy)
  PROVE  /\ Pc(r) = "off" /\ exists /\ r \in Actors /\ actor' = At(r, "queued")
         /\ UNCHANGED <<exists, hist, author, claim, backup, trouble>>
         /\ run' \in [Runs -> RunSet] /\ run'[r].base = run[r].base
         /\ \A q \in Runs \ {r} : run'[q].base = run[q].base /\ run'[q].plan = run[q].plan
                                   /\ run'[q].row = run[q].row
         /\ \A q \in Runs : run[q].undone => run'[q].undone
         /\ \/ run'[r].plan = -1
            \/ /\ strategy = "rollback"
               /\ \E q \in Runs : /\ q # r /\ run'[q].undone /\ run[q].base # -1
                                  /\ run'[r].plan = run[q].base
<1> USE DEF Core
<1> DEFINE Bases == {run[a].base : a \in Active} \ {-1}
           plan == IF strategy = "rollback" /\ Bases # {} THEN CHOOSE b \in Bases : TRUE ELSE -1
           displaced == IF strategy = "rollback" THEN Active ELSE {}
           x == [run[r] EXCEPT !.row = "active", !.plan = plan]
           A == Aborted(displaced, "rollback")
           y(q) == [A[q] EXCEPT !.undone = @ \/ q \in displaced]
<1>1. /\ Pc(r) = "off" /\ exists /\ actor' = At(r, "queued") /\ r \in Actors
      /\ UNCHANGED <<exists, hist, author, claim, backup, trouble>>
      /\ run' = [q \in Runs |-> IF q = r THEN x ELSE y(q)]
  BY DEF Create, Actors
<1>2. run \in [Runs -> RunSet]
  BY DEF Shape
<1>3. \/ plan = -1
      \/ /\ strategy = "rollback"
         /\ \E q \in Active : run[q].base # -1 /\ plan = run[q].base
  OBVIOUS
<1>4. plan \in Int
  BY <1>2, <1>3 DEF RunSet, Active
<1>5. /\ x \in RunSet /\ x.base = run[r].base /\ x.plan = plan /\ x.undone = run[r].undone
  <2>1. run[r] \in RunSet
    BY <1>2
  <2> HIDE DEF plan
  <2> QED BY <1>4, <2>1 DEF RunSet
<1>6. ASSUME NEW q \in Runs
      PROVE  /\ y(q) \in RunSet /\ y(q).base = run[q].base /\ y(q).plan = run[q].plan
             /\ y(q).row = run[q].row
             /\ (run[q].undone \/ q \in displaced => y(q).undone)
  <2>1. /\ A[q] \in RunSet /\ A[q].base = run[q].base /\ A[q].plan = run[q].plan
        /\ A[q].row = run[q].row /\ A[q].undone = run[q].undone
    BY <1>2, AbortedValues
  <2> DEFINE u == A[q].undone \/ q \in displaced
             z == [A[q] EXCEPT !.undone = u]
  <2>2. y(q) = z /\ u \in BOOLEAN
    BY <2>1
  <2> HIDE DEF A
  <2>3. z \in RunSet /\ z.base = A[q].base /\ z.plan = A[q].plan /\ z.row = A[q].row /\ z.undone = u
    <3> HIDE DEF u
    <3> QED BY <2>1, <2>2 DEF RunSet
  <2>4. run[q].undone \/ q \in displaced => u
    BY <2>1
  <2> HIDE DEF y, z, u
  <2> QED BY <2>1, <2>2, <2>3, <2>4
<1>7. \A q \in Runs : q # r => run'[q] = y(q)
  BY <1>1
<1>8. run'[r] = x
  BY <1>1
<1> HIDE DEF x, y, A
<1>9. run' \in [Runs -> RunSet]
  BY <1>1, <1>5, <1>6
<1>10. \A q \in Runs : run[q].undone => run'[q].undone
  <2>1. ASSUME NEW q \in Runs, run[q].undone PROVE run'[q].undone
    BY <1>5, <1>6, <1>7, <1>8, <2>1
  <2> QED BY <2>1
<1>11. \/ plan = -1
       \/ /\ strategy = "rollback"
          /\ \E q \in Runs : /\ q # r /\ run'[q].undone /\ run[q].base # -1 /\ plan = run[q].base
  <2>1. r \notin Active
    BY <1>1 DEF Turns, TurnOK, Active
  <2>2. ASSUME strategy = "rollback", NEW q \in Active, run[q].base # -1, plan = run[q].base
        PROVE  q \in Runs /\ q # r /\ run'[q].undone
    <3>1. q \in Runs /\ q # r /\ q \in displaced
      BY <2>1, <2>2 DEF Active
    <3> HIDE DEF displaced
    <3> QED BY <1>6, <1>7, <3>1
  <2> HIDE DEF plan
  <2> QED BY <1>3, <2>2
<1> HIDE DEF plan, displaced
<1> QED BY <1>1, <1>5, <1>6, <1>7, <1>8, <1>9, <1>10, <1>11

LEMMA CreateCore ==
  ASSUME Core, NEW r \in Runs, NEW strategy, Create(r, strategy), UNCHANGED strays PROVE Core'
<1> USE DEF Core
<1>1. /\ Pc(r) = "off" /\ exists /\ r \in Actors /\ actor' = At(r, "queued")
      /\ UNCHANGED <<exists, hist, author, claim, backup, trouble>>
      /\ run' \in [Runs -> RunSet] /\ run'[r].base = run[r].base
      /\ \A q \in Runs \ {r} : run'[q].base = run[q].base /\ run'[q].plan = run[q].plan
                                /\ run'[q].row = run[q].row
      /\ run'[r].plan = -1 \/ \E q \in Runs : run'[r].plan = run[q].base
  BY CreateFacts
<1>2. /\ actor' \in [Actors -> ActorSet] /\ Pc(r)' = "queued"
      /\ \A b \in Actors \ {r} : actor'[b] = actor[b] /\ Pc(b)' = Pc(b)
      /\ \A b \in Actors : SameCopy(b) /\ SamePlace(b)
  BY <1>1, QuietMove DEF Steps, Rewriting, Holding
<1>3. Shape'
  BY <1>1, <1>2 DEF Shape
<1>4. Claims'
  BY <1>1, <1>2 DEF Claims, Holding, Rewriting
<1>5. ASSUME NEW q \in Runs PROVE TurnOK(q)'
  <2>1. CASE q = r
    BY <1>1, <1>2, <2>1 DEF Turns, TurnOK, Early, Rewriting
  <2>2. CASE q # r
    BY <1>1, <1>2, <2>2, TurnFrame DEF Turns, Actors
  <2> QED BY <2>1, <2>2
<1>6. \E b \in Int : b = run'[r].plan /\ Mark(b)
  <2>1. CASE run'[r].plan = -1
    BY <2>1 DEF Mark
  <2>2. ASSUME NEW q \in Runs, run'[r].plan = run[q].base PROVE \E b \in Int : b = run'[r].plan /\ Mark(b)
    <3>1. PICK b \in Int : b = run[q].base
      BY DEF Shape, RunSet
    <3>2. Mark(b)
      BY <3>1 DEF Turns, MarksOK
    <3> QED BY <2>2, <3>1, <3>2
  <2> QED BY <1>1, <2>1, <2>2
<1>7. NewMarks
  BY <1>1, <1>6 DEF NewMarks, Rewriting
<1> QED BY <1>1, <1>2, <1>3, <1>4, <1>5, <1>7, CoreMoves

LEMMA OneHolder ==
  ASSUME Core, NEW a \in Actors, Pc(a) \in Holding, NEW b \in Actors \ {a}
  PROVE  Pc(b) \notin Rewriting /\ ToSet(actor[b].keep) = {}
<1>1. Pc(b) \notin Rewriting
  BY DEF Core, Claims, Holding
<1> QED BY <1>1 DEF Core, Copies, CopyOK

LEMMA WriteFacts ==
  ASSUME Core, NEW r \in Runs, Write(r)
  PROVE  /\ Pc(r) = "run" /\ UNCHANGED <<exists, claim, actor, run, backup, trouble>>
         /\ Len(author) \in Nat /\ DOMAIN author = 1..Len(author)
         /\ DOMAIN author' = 1..Len(author) + 1 /\ Len(author') = Len(author) + 1
         /\ author' \in Seq(Runs \cup {"past"}) /\ author'[Len(author) + 1] = r
         /\ \A n \in DOMAIN author : author'[n] = author[n]
         /\ hist' \in Seq(Nat) /\ ToSet(hist') = ToSet(hist) \cup {Len(author) + 1}
         /\ Increasing(hist')
<1>1. /\ Pc(r) = "run" /\ UNCHANGED <<exists, claim, actor, run, backup, trouble>>
      /\ author' = Append(author, r) /\ hist' = Append(hist, Len(author'))
  BY DEF Write
<1>2. author \in Seq(Runs \cup {"past"}) /\ hist \in Seq(Nat)
  BY DEF Core, Shape
<1>3. Len(author) \in Nat /\ DOMAIN author = 1..Len(author)
  BY <1>2, LenProperties
<1>4. /\ author' \in Seq(Runs \cup {"past"}) /\ Len(author') = Len(author) + 1
      /\ author'[Len(author) + 1] = r /\ \A n \in 1..Len(author) : author'[n] = author[n]
  BY <1>1, <1>2, AppendProperties
<1>5. DOMAIN author' = 1..Len(author) + 1
  BY <1>3, <1>4, LenProperties
<1>6. PICK m \in Nat : m = Len(author) + 1
  BY <1>3
<1>7. hist' = Append(hist, m)
  BY <1>1, <1>4, <1>6
<1>8. Increasing(hist) /\ \A n \in ToSet(hist) : n < m
  BY <1>3, <1>6 DEF Core, Ordered
<1> QED BY <1>1, <1>2, <1>3, <1>4, <1>5, <1>6, <1>7, <1>8, Appended

LEMMA WriteCore ==
  ASSUME Core, NEW r \in Runs, Write(r), UNCHANGED strays PROVE Core'
<1> USE DEF Core
<1>1. PICK m \in Nat : m = Len(author) + 1
  BY WriteFacts
<1>a. /\ Len(author) \in Nat /\ DOMAIN author = 1..Len(author)
      /\ DOMAIN author' = 1..Len(author) + 1
  BY WriteFacts
<1>b. m \notin DOMAIN author /\ DOMAIN author' = DOMAIN author \cup {m}
  BY <1>1, <1>a
<1>2. /\ Pc(r) = "run" /\ UNCHANGED <<exists, claim, actor, run, backup, trouble>>
      /\ author' \in Seq(Runs \cup {"past"}) /\ author'[m] = r
      /\ \A n \in DOMAIN author : author'[n] = author[n]
      /\ hist' \in Seq(Nat) /\ ToSet(hist') = ToSet(hist) \cup {m} /\ Increasing(hist')
  BY <1>1, <1>a, WriteFacts
<1>3. r \in Actors /\ r # "past" /\ Pc(r) \in Holding /\ Pc(r) \notin Rewriting \cup Early
  BY <1>2, HistoryAssumption DEF Actors, Holding, Rewriting, Early
<1>4. Shape'
  BY <1>2, <1>b DEF Shape
<1>5. Claims' /\ Ordered'
  BY <1>2, <1>b DEF Claims, Ordered, Pc
<1>6. Copies'
  <2>1. ASSUME NEW a \in Actors PROVE CopyOK(a)' /\ Aimed(a)' /\ Undisturbed(a)'
    <3>1. Pc(a) \notin Rewriting
      BY <1>3, OneHolder
    <3>2. SameCopy(a) /\ SamePlace(a) /\ CopyOK(a) /\ Aimed(a) /\ Undisturbed(a)
      BY <1>2 DEF SameCopy, SamePlace, Pc, Copies
    <3> QED BY <1>2, <1>b, <3>1, <3>2, Framed
  <2> QED BY <2>1 DEF Copies
<1>7. HeldMoves
  <2>1. ASSUME NEW n \in DOMAIN author, Held(n)' PROVE Held(n)
    BY <1>2, <1>b, <2>1 DEF Held
  <2> QED BY <1>2, <1>b, <1>3, <2>1 DEF HeldMoves
<1>8. ASSUME NEW q \in Runs PROVE TurnOK(q)'
  <2>1. TurnOK(q) /\ Pc(q)' = Pc(q) /\ run' = run
    BY <1>2 DEF Turns, Pc
  <2>2. Pc(q) \in Early => q # r
    BY <1>3
  <2>3. Pc(q) \in Early => \A n \in DOMAIN author' : author'[n] # q
    BY <1>2, <1>b, <2>1, <2>2 DEF TurnOK
  <2> QED BY <2>1, <2>3 DEF TurnOK
<1>9. ASSUME NEW q \in Runs PROVE MarksOK(q)'
  <2>1. PICK b \in Int, p \in Int : b = run[q].base /\ p = run[q].plan
    BY DEF Shape, RunSet
  <2>2. Mark(b)' /\ Mark(p)'
    BY <1>2, <1>b, <1>7, <2>1, MarkFrame DEF Turns, MarksOK
  <2> QED BY <1>2, <2>1, <2>2 DEF MarksOK
<1> QED BY <1>4, <1>5, <1>6, <1>8, <1>9 DEF Turns

-----------------------------------------------------------------------------
(* Rewriting the history.                                                    *)

(* What the rewriting process holds comes from what was held.                  *)
LEMMA RewriteCore ==
  ASSUME Core, NEW a \in Actors, Pc(a) \in {"list"} \cup Rewriting,
         NEW pc \in {"release", "start", "queued", "over"} \cup Rewriting,
         ActorMove(a, pc), a \in Runs => pc \in Early,
         UNCHANGED author, SameMarks, strays => strays',
         Shape', Claims', Ordered', CopyOK(a)', Aimed(a)', Undisturbed(a)', exists' => exists,
         \A r \in Runs : run'[r].row = run[r].row,
         \A n \in ToSet(hist') : Held(n), \A n \in ToSet(actor'[a].keep) : Held(n)
  PROVE  Core'
<1> USE DEF Core
<1>1. Pc(a) \in Holding
  BY DEF Holding, Rewriting
<1>2. \A b \in Actors \ {a} : /\ actor'[b] = actor[b] /\ Pc(b)' = Pc(b)
                              /\ Pc(b) \notin Rewriting /\ ToSet(actor[b].keep) = {}
  BY <1>1, OneHolder DEF ActorMove, Pc
<1>3. Pc(a)' = pc
  BY DEF ActorMove, Pc
<1>4. Copies'
  <2>1. ASSUME NEW b \in Actors \ {a} PROVE CopyOK(b)' /\ Aimed(b)' /\ Undisturbed(b)'
    <3>1. SameCopy(b) /\ SamePlace(b) /\ CopyOK(b) /\ Aimed(b) /\ Undisturbed(b)
      BY <1>2 DEF SameCopy, SamePlace, Copies
    <3> QED BY <1>2, <3>1, Framed
  <2> QED BY <2>1 DEF Copies
<1>5. HeldMoves
  <2>1. \A b \in Actors : \A n \in ToSet(actor'[b].keep) : Held(n)
    BY <1>2
  <2> QED BY <2>1, HeldShrinks
<1>6. ASSUME NEW q \in Runs PROVE TurnOK(q)'
  <2>1. CASE q = a
    <3>1. /\ run[q].base = -1 /\ (\A n \in DOMAIN author : author[n] # q) /\ run[q].plan # -1
      <4>1. Pc(q) \in Early /\ Pc(q) \in {"list"} \cup Rewriting
        BY <2>1 DEF Early
      <4> QED BY <4>1 DEF Turns, TurnOK
    <3>2. pc \in Early /\ pc # "off" /\ pc # "run"
      BY <2>1 DEF Rewriting
    <3> QED BY <1>3, <2>1, <3>1, <3>2 DEF TurnOK, SameMarks
  <2>2. CASE q # a
    BY <1>2, <2>2, TurnFrame DEF Turns, Actors, SameMarks
  <2> QED BY <2>1, <2>2
<1>7. ASSUME NEW q \in Runs PROVE MarksOK(q)'
  <2>1. PICK b \in Int, p \in Int : b = run[q].base /\ p = run[q].plan
    BY DEF Shape, RunSet
  <2>2. Mark(b)' /\ Mark(p)'
    BY <1>5, <2>1, MarkFrame DEF Turns, MarksOK
  <2> QED BY <2>1, <2>2 DEF MarksOK, SameMarks
<1> QED BY <1>4, <1>6, <1>7 DEF Turns

(* A step that keeps the claim and the runs as they are.                       *)
LEMMA HistoryCore ==
  ASSUME Core, NEW a \in Actors, Pc(a) \in {"list"} \cup Rewriting,
         NEW pc \in Rewriting, ActorMove(a, pc),
         UNCHANGED <<exists, author, claim, run, backup, trouble>>, strays => strays',
         hist' \in Seq(Nat), Ordered', CopyOK(a)', Aimed(a)', Undisturbed(a)',
         \A n \in ToSet(hist') : Held(n), \A n \in ToSet(actor'[a].keep) : Held(n)
  PROVE  Core'
<1> USE DEF Core
<1>1. Shape'
  BY DEF Shape, ActorMove
<1>2. Claims'
  BY DEF Claims, ActorMove, Pc, Holding
<1>3. SameMarks /\ \A r \in Runs : run'[r].row = run[r].row
  BY DEF SameMarks
<1>4. pc \in Early
  BY DEF Early
<1> QED BY <1>1, <1>2, <1>3, <1>4, RewriteCore

LEMMA Afterwards ==
  ASSUME NEW a \in Actors
  PROVE  After(a) \in {"release", "start"} /\ (a \in Runs => After(a) = "start")
BY HistoryAssumption DEF After, Actors

(* What a rewrite is to keep is in the history, and what it is not is older    *)
(* than the kept checkpoint, or newer than the base.                          *)
LEMMA ListFacts ==
  ASSUME Core, NEW a \in Actors, List(a)
  PROVE  /\ Pc(a) = "list" /\ UNCHANGED <<exists, author, claim, run, backup, trouble>>
         /\ \/ actor' = At(a, After(a)) /\ hist' \in {hist, <<>>}
               /\ (hist' # hist => a \in Runs /\ run[a].plan = 0)
            \/ /\ hist' = hist /\ Kept(a) \in Seq(Nat) /\ Len(Kept(a)) > 0
               /\ actor' = [actor EXCEPT ![a] = [pc |-> "save", keep |-> Kept(a),
                                                 scratch |-> <<>>, done |-> 0]]
               /\ ToSet(Kept(a)) \subseteq ToSet(hist) /\ Increasing(Kept(a))
               /\ \A n \in ToSet(hist) :
                    \/ n \in ToSet(Kept(a))
                    \/ a \in Prunes /\ \E m \in ToSet(Kept(a)) : m > n
                    \/ a \in Runs /\ n > run[a].plan
<1> DEFINE untouched == IF a \in Prunes THEN Len(hist) <= 1
                        ELSE run[a].plan \notin ToSet(hist) \cup {0}
           wiped == a \in Runs /\ run[a].plan = 0
<1>1. /\ Pc(a) = "list" /\ UNCHANGED <<exists, author, claim, run, backup, trouble>>
      /\ hist' = IF wiped THEN <<>> ELSE hist
      /\ actor' = IF untouched \/ wiped THEN At(a, After(a))
                  ELSE [actor EXCEPT ![a] = [pc |-> "save", keep |-> Kept(a),
                                             scratch |-> <<>>, done |-> 0]]
  BY DEF List
<1>2. hist \in Seq(Nat) /\ Increasing(hist)
  BY DEF Core, Shape, Ordered
<1>3. CASE untouched \/ wiped
  BY <1>1, <1>3
<1>4. CASE ~untouched /\ ~wiped
  <2>1. CASE a \in Prunes
    <3>1. hist # <<>>
      BY <1>4, <2>1, None
    <3>2. Kept(a) = <<Last(hist)>>
      BY <2>1 DEF Kept
    <3>3. /\ Last(hist) \in ToSet(hist) /\ \A n \in ToSet(hist) : n <= Last(hist)
          /\ <<Last(hist)>> \in Seq(Nat) /\ ToSet(<<Last(hist)>>) = {Last(hist)}
          /\ Len(<<Last(hist)>>) = 1 /\ Increasing(<<Last(hist)>>)
      BY <1>2, <3>1, LastIsGreatest
    <3>4. ToSet(hist) \subseteq Nat
      BY <1>2, Elements
    <3>5. \A n \in ToSet(hist) : n \in ToSet(Kept(a)) \/ \E m \in ToSet(Kept(a)) : m > n
      BY <3>2, <3>3, <3>4
    <3>6. /\ Kept(a) \in Seq(Nat) /\ Len(Kept(a)) > 0 /\ Increasing(Kept(a))
          /\ ToSet(Kept(a)) \subseteq ToSet(hist)
      BY <3>2, <3>3
    <3> QED BY <1>1, <1>4, <2>1, <3>5, <3>6
  <2>2. CASE a \notin Prunes
    <3>1. a \in Runs /\ run[a].plan \in ToSet(hist)
      BY <1>4, <2>2 DEF Actors
    <3>2. Kept(a) = Upto(hist, run[a].plan)
      BY <2>2 DEF Kept, Upto
    <3>3. /\ Kept(a) \in Seq(Nat) /\ Len(Kept(a)) > 0 /\ Increasing(Kept(a))
          /\ ToSet(Kept(a)) \subseteq ToSet(hist)
          /\ \A n \in ToSet(hist) \ ToSet(Kept(a)) : n > run[a].plan
      BY <1>2, <3>1, <3>2, Reverted
    <3> QED BY <1>1, <1>4, <3>1, <3>3
  <2> QED BY <2>1, <2>2
<1> QED BY <1>1, <1>3, <1>4

LEMMA ListCore ==
  ASSUME Core, NEW a \in Actors, List(a), strays => strays' PROVE Core'
<1> USE DEF Core
<1>1. /\ Pc(a) = "list" /\ UNCHANGED <<exists, author, claim, run, backup, trouble>>
      /\ Pc(a) \in Holding /\ Pc(a) \notin Rewriting
  BY ListFacts DEF Holding, Rewriting
<1>2. CASE actor' = At(a, After(a)) /\ hist' \in {hist, <<>>}
  <2>1. PICK pc \in {"release", "start"} : pc = After(a)
    BY Afterwards
  <2>2. /\ actor' \in [Actors -> ActorSet] /\ Pc(a)' = pc
        /\ \A b \in Actors \ {a} : actor'[b] = actor[b] /\ Pc(b)' = Pc(b)
        /\ \A b \in Actors : SameCopy(b) /\ SamePlace(b)
    BY <1>1, <1>2, <2>1, QuietMove DEF Steps, Holding, Rewriting
  <2>3. Shape'
    BY <1>1, <1>2, <2>2, None DEF Shape
  <2>4. Claims'
    BY <1>1, <2>2 DEF Claims, Holding
  <2>5. \A b \in Actors : Pc(b) \notin Rewriting
    BY <1>1, OneHolder
  <2>6. ASSUME NEW q \in Runs PROVE TurnOK(q)'
    <3>1. CASE q = a
      <4>1. pc = "start"
        BY <2>1, <3>1, Afterwards
      <4> QED BY <1>1, <2>2, <3>1, <4>1 DEF Turns, TurnOK, Early, Rewriting
    <3>2. CASE q # a
      BY <1>1, <2>2, <3>2, TurnFrame DEF Turns, Actors
    <3> QED BY <3>1, <3>2
  <2>7. SameMarks
    BY <1>1 DEF SameMarks
  <2>8. exists' => exists
    BY <1>1
  <2> QED BY <1>1, <1>2, <2>2, <2>3, <2>4, <2>5, <2>6, <2>7, <2>8, CoreFrame
<1>3. CASE ~(actor' = At(a, After(a)) /\ hist' \in {hist, <<>>})
  <2> DEFINE x == [pc |-> "save", keep |-> Kept(a), scratch |-> <<>>, done |-> 0]
  <2>1. /\ hist' = hist /\ Kept(a) \in Seq(Nat) /\ Len(Kept(a)) > 0
        /\ actor' = [actor EXCEPT ![a] = x]
        /\ ToSet(Kept(a)) \subseteq ToSet(hist) /\ Increasing(Kept(a))
        /\ \A n \in ToSet(hist) : \/ n \in ToSet(Kept(a))
                                  \/ a \in Prunes /\ \E m \in ToSet(Kept(a)) : m > n
                                  \/ a \in Runs /\ n > run[a].plan
    BY <1>3, ListFacts
  <2>2. /\ x \in ActorSet /\ x.pc = "save" /\ x.keep = Kept(a) /\ x.scratch = <<>> /\ x.done = 0
    BY <2>1, None DEF ActorSet, Steps, Holding, Rewriting
  <2> HIDE DEF x
  <2>3. actor \in [Actors -> ActorSet] /\ hist \in Seq(Nat)
    BY DEF Shape
  <2>4. /\ ActorMove(a, "save") /\ actor'[a].keep = Kept(a) /\ actor'[a].scratch = <<>>
        /\ actor'[a].done = 0 /\ Pc(a)' = "save"
    BY <2>1, <2>2, <2>3 DEF ActorMove, Pc
  <2>5. ToSet(<<>>) = {} /\ 1..0 = {} /\ Len(Kept(a)) \in Nat
    BY <2>1, None, LenProperties
  <2>6. CopyOK(a)'
    BY <1>1, <2>1, <2>4, <2>5 DEF CopyOK, Ordered, Rewriting
  <2>7. Aimed(a)'
    BY <1>1, <2>1, <2>4 DEF Aimed, Spared
  <2>8. Undisturbed(a)'
    BY <2>1, <2>4 DEF Undisturbed
  <2>9. Ordered'
    BY <1>1, <2>1 DEF Ordered
  <2>10. (\A n \in ToSet(hist') : Held(n)) /\ (\A n \in ToSet(actor'[a].keep) : Held(n))
    BY <2>1, <2>4 DEF Held
  <2>11. "save" \in Rewriting
    BY DEF Rewriting
  <2> QED BY <1>1, <2>1, <2>3, <2>4, <2>6, <2>7, <2>8, <2>9, <2>10, <2>11, HistoryCore
<1> QED BY <1>2, <1>3

LEMMA KeepFacts ==
  ASSUME Core, NEW a \in Actors, Pc(a) \in Rewriting
  PROVE  /\ actor[a].keep \in Seq(Nat) /\ actor[a].scratch \in Seq(Nat)
         /\ actor[a].done \in Nat /\ Len(actor[a].keep) \in Nat /\ Increasing(actor[a].keep)
         /\ ToSet(actor[a].keep) \subseteq DOMAIN author
         /\ \A i \in 1..Len(actor[a].keep) : actor[a].keep[i] \in ToSet(actor[a].keep) /\ actor[a].keep[i] \in Nat
         /\ \A n \in ToSet(actor[a].keep) : \E i \in 1..Len(actor[a].keep) : actor[a].keep[i] = n
         /\ \A n \in ToSet(actor[a].keep) : Held(n)
<1>1. actor[a] \in ActorSet /\ CopyOK(a)
  BY DEF Core, Shape, Copies
<1>2. actor[a].keep \in Seq(Nat) /\ actor[a].scratch \in Seq(Nat) /\ actor[a].done \in Nat
  BY <1>1 DEF ActorSet
<1>3. Increasing(actor[a].keep) /\ ToSet(actor[a].keep) \subseteq DOMAIN author
  BY <1>1 DEF CopyOK
<1>4. \A n \in ToSet(actor[a].keep) : Held(n)
  BY DEF Held
<1> DEFINE k == actor[a].keep
<1>5. k \in Seq(Nat)
  BY <1>2
<1>6. /\ Len(k) \in Nat /\ \A i \in 1..Len(k) : k[i] \in ToSet(k) /\ k[i] \in Nat
      /\ \A n \in ToSet(k) : \E i \in 1..Len(k) : k[i] = n
  <2> HIDE DEF k
  <2> QED BY <1>5, Elements, ElementOfSeq
<1> QED BY <1>2, <1>3, <1>4, <1>6

LEMMA SaveFacts ==
  ASSUME Core, NEW a \in Actors, Save(a)
  PROVE  /\ Pc(a) = "save" /\ UNCHANGED <<exists, hist, author, claim, run, backup, trouble>>
         /\ ActorMove(a, IF Finished(a) THEN "erase" ELSE "save") /\ Count(a, "erase")
         /\ Pc(a)' = IF Finished(a) THEN "erase" ELSE "save"
         /\ actor[a].done + 1 \in 1..Len(actor[a].keep)
         /\ ToSet(actor'[a].scratch) = ToSet(actor[a].scratch) \cup {Next1(a)}
         /\ Next1(a) \in ToSet(actor[a].keep)
<1>1. /\ Pc(a) = "save" /\ UNCHANGED <<exists, hist, author, claim, run, backup, trouble>>
      /\ actor' = [Counted(a, "erase") EXCEPT ![a].scratch = Append(@, Next1(a))]
  BY DEF Save
<1>2. Pc(a) \in Rewriting /\ CopyOK(a) /\ actor \in [Actors -> ActorSet]
  BY <1>1 DEF Rewriting, Core, Copies, Shape
<1>3. actor[a].done < Len(actor[a].keep)
  BY <1>1, <1>2 DEF CopyOK
<1>4. actor[a].done + 1 \in 1..Len(actor[a].keep)
  BY <1>2, <1>3, KeepFacts
<1>5. Next1(a) \in ToSet(actor[a].keep) /\ Next1(a) \in Nat
  BY <1>2, <1>4, KeepFacts DEF Next1
<1>6. /\ ActorMove(a, IF Finished(a) THEN "erase" ELSE Pc(a)) /\ Count(a, "erase")
      /\ actor'[a].scratch = Append(actor[a].scratch, Next1(a))
  BY <1>1, <1>2, <1>5, SaveMoves
<1>7. ToSet(actor'[a].scratch) = ToSet(actor[a].scratch) \cup {Next1(a)}
  BY <1>2, <1>5, <1>6, KeepFacts, Appended
<1> QED BY <1>1, <1>4, <1>5, <1>6, <1>7 DEF ActorMove, Pc

LEMMA SaveCore ==
  ASSUME Core, NEW a \in Actors, Save(a), strays => strays' PROVE Core'
<1> USE DEF Core
<1>1. /\ Pc(a) = "save" /\ UNCHANGED <<exists, hist, author, claim, run, backup, trouble>>
      /\ ActorMove(a, IF Finished(a) THEN "erase" ELSE "save") /\ Count(a, "erase")
      /\ Pc(a)' = IF Finished(a) THEN "erase" ELSE "save"
      /\ actor[a].done + 1 \in 1..Len(actor[a].keep)
      /\ ToSet(actor'[a].scratch) = ToSet(actor[a].scratch) \cup {actor[a].keep[actor[a].done + 1]}
      /\ actor[a].keep[actor[a].done + 1] \in ToSet(actor[a].keep)
  BY SaveFacts DEF Next1
<1>2. Pc(a) \in Rewriting /\ CopyOK(a) /\ Aimed(a) /\ Undisturbed(a)
  BY <1>1 DEF Rewriting, Copies
<1>3. /\ actor'[a].keep = actor[a].keep /\ actor[a].done \in Nat /\ Len(actor[a].keep) \in Nat
      /\ \A n \in ToSet(actor[a].keep) : \E i \in 1..Len(actor[a].keep) : actor[a].keep[i] = n
      /\ \A i \in 1..actor[a].done : actor[a].keep[i] \in ToSet(actor[a].scratch)
  BY <1>1, <1>2, KeepFacts DEF Count, CopyOK
<1>4. \A i \in 1..actor[a].done + 1 : actor[a].keep[i] \in ToSet(actor'[a].scratch)
  <2>1. ASSUME NEW i \in 1..actor[a].done + 1 PROVE actor[a].keep[i] \in ToSet(actor'[a].scratch)
    <3>1. i \in 1..actor[a].done \/ i = actor[a].done + 1
      BY <1>3
    <3> QED BY <1>1, <1>3, <3>1
  <2> QED BY <2>1
<1>5. CopyOK(a)'
  <2>1. CASE Finished(a)
    <3>1. actor'[a].done = 0 /\ Pc(a)' = "erase" /\ actor[a].done + 1 = Len(actor[a].keep)
      BY <1>1, <2>1 DEF Count, Finished
    <3>2. ToSet(actor[a].keep) \subseteq ToSet(actor'[a].scratch)
      BY <1>3, <1>4, <3>1
    <3> QED BY <1>1, <1>2, <1>3, <3>1, <3>2 DEF CopyOK, Rewriting
  <2>2. CASE ~Finished(a)
    <3>1. actor'[a].done = actor[a].done + 1 /\ Pc(a)' = "save" /\ actor[a].done + 1 < Len(actor[a].keep)
      BY <1>1, <2>2, <1>3 DEF Count, Finished
    <3> QED BY <1>1, <1>2, <1>3, <1>4, <3>1 DEF CopyOK, Rewriting
  <2> QED BY <2>1, <2>2
<1>6. Aimed(a)'
  BY <1>1, <1>2, <1>3 DEF Aimed, Spared
<1>7. Undisturbed(a)'
  BY <1>1, <1>2, <1>3 DEF Undisturbed
<1>8. Ordered' /\ hist' \in Seq(Nat)
  BY <1>1 DEF Ordered, Shape
<1>9. (\A n \in ToSet(hist') : Held(n)) /\ (\A n \in ToSet(actor'[a].keep) : Held(n))
  BY <1>1, <1>3 DEF Held
<1>10. PICK pc \in {"erase", "save"} : pc = IF Finished(a) THEN "erase" ELSE "save"
  OBVIOUS
<1>11. pc \in Rewriting /\ ActorMove(a, pc)
  BY <1>1, <1>10 DEF Rewriting
<1> QED BY <1>1, <1>2, <1>5, <1>6, <1>7, <1>8, <1>9, <1>11, HistoryCore

LEMMA EraseFacts ==
  ASSUME Core, NEW a \in Actors, Erase(a)
  PROVE  /\ Pc(a) = "erase" /\ UNCHANGED <<exists, author, claim, run, backup, trouble>>
         /\ hist' = <<>> /\ ActorMove(a, "replay") /\ SameCopy(a)
<1>1. "replay" \in Steps /\ actor \in [Actors -> ActorSet]
  BY DEF Steps, Holding, Rewriting, Core, Shape
<1> QED BY <1>1, AtMoves DEF Erase

LEMMA EraseCore ==
  ASSUME Core, NEW a \in Actors, Erase(a), strays => strays' PROVE Core'
<1> USE DEF Core
<1>1. /\ Pc(a) = "erase" /\ UNCHANGED <<exists, author, claim, run, backup, trouble>>
      /\ hist' = <<>> /\ ActorMove(a, "replay") /\ SameCopy(a)
  BY EraseFacts
<1>2. /\ Pc(a) \in Rewriting /\ CopyOK(a) /\ Pc(a)' = "replay" /\ "replay" \in Rewriting
      /\ hist' \in Seq(Nat) /\ ToSet(hist') = {} /\ Increasing(hist')
  BY <1>1, None DEF Rewriting, Copies, ActorMove, Pc
<1>3. actor[a].done = 0 /\ actor'[a].done = 0 /\ 1..0 = {}
  BY <1>1, <1>2 DEF CopyOK, SameCopy
<1>4. CopyOK(a)'
  BY <1>1, <1>2 DEF CopyOK, SameCopy, Rewriting
<1>5. Aimed(a)' /\ Undisturbed(a)' /\ Ordered'
  BY <1>2, <1>3 DEF Aimed, Undisturbed, Ordered
<1>6. (\A n \in ToSet(hist') : Held(n)) /\ (\A n \in ToSet(actor'[a].keep) : Held(n))
  BY <1>1, <1>2, KeepFacts DEF SameCopy
<1> QED BY <1>1, <1>2, <1>4, <1>5, <1>6, HistoryCore

LEMMA ReplayFacts ==
  ASSUME Core, NEW a \in Actors, Replay(a)
  PROVE  /\ Pc(a) = "replay" /\ UNCHANGED <<exists, author, claim, run, backup, trouble>>
         /\ ActorMove(a, IF Finished(a) THEN "clean" ELSE "replay") /\ Count(a, "clean")
         /\ Pc(a)' = IF Finished(a) THEN "clean" ELSE "replay"
         /\ actor'[a].scratch = actor[a].scratch
         /\ actor[a].done + 1 \in 1..Len(actor[a].keep)
         /\ hist' \in Seq(Nat) /\ ToSet(hist') = ToSet(hist) \cup {Next1(a)}
         /\ Next1(a) \in ToSet(actor[a].keep) /\ Increasing(hist')
<1>1. /\ Pc(a) = "replay" /\ UNCHANGED <<exists, author, claim, run, backup, trouble>>
      /\ actor' = Counted(a, "clean") /\ hist' = Append(hist, Next1(a))
  BY DEF Replay
<1>2. /\ Pc(a) \in Rewriting /\ CopyOK(a) /\ actor \in [Actors -> ActorSet]
      /\ hist \in Seq(Nat) /\ Increasing(hist)
  BY <1>1 DEF Rewriting, Core, Copies, Shape, Ordered
<1>3. actor[a].done < Len(actor[a].keep)
  BY <1>1, <1>2 DEF CopyOK
<1>4. actor[a].done + 1 \in 1..Len(actor[a].keep)
  BY <1>2, <1>3, KeepFacts
<1>5. Next1(a) \in ToSet(actor[a].keep) /\ Next1(a) \in Nat
  BY <1>2, <1>4, KeepFacts DEF Next1
<1>6. /\ ActorMove(a, IF Finished(a) THEN "clean" ELSE Pc(a)) /\ Count(a, "clean")
      /\ actor'[a].scratch = actor[a].scratch
  BY <1>1, <1>2, ReplayMoves
<1>7. \A n \in ToSet(hist) : n < Next1(a)
  <2>1. ASSUME NEW n \in ToSet(hist) PROVE n < Next1(a)
    <3>1. PICK i \in 1..actor[a].done : actor[a].keep[i] = n
      BY <1>1, <1>2 DEF CopyOK
    <3>2. i \in 1..Len(actor[a].keep) /\ i < actor[a].done + 1
      BY <1>2, <1>3, KeepFacts
    <3>3. Increasing(actor[a].keep)
      BY <1>2 DEF CopyOK
    <3> QED BY <1>4, <3>1, <3>2, <3>3 DEF Increasing, Next1
  <2> QED BY <2>1
<1>8. /\ hist' \in Seq(Nat) /\ ToSet(hist') = ToSet(hist) \cup {Next1(a)} /\ Increasing(hist')
  BY <1>1, <1>2, <1>5, <1>7, Appended
<1> QED BY <1>1, <1>4, <1>5, <1>6, <1>8 DEF ActorMove, Pc

LEMMA ReplayCore ==
  ASSUME Core, NEW a \in Actors, Replay(a), strays => strays' PROVE Core'
<1> USE DEF Core
<1>1. /\ Pc(a) = "replay" /\ UNCHANGED <<exists, author, claim, run, backup, trouble>>
      /\ ActorMove(a, IF Finished(a) THEN "clean" ELSE "replay") /\ Count(a, "clean")
      /\ Pc(a)' = IF Finished(a) THEN "clean" ELSE "replay"
      /\ actor'[a].scratch = actor[a].scratch
      /\ actor[a].done + 1 \in 1..Len(actor[a].keep)
      /\ hist' \in Seq(Nat) /\ Increasing(hist')
      /\ ToSet(hist') = ToSet(hist) \cup {actor[a].keep[actor[a].done + 1]}
      /\ actor[a].keep[actor[a].done + 1] \in ToSet(actor[a].keep)
  BY ReplayFacts DEF Next1
<1>2. Pc(a) \in Rewriting /\ CopyOK(a) /\ Undisturbed(a)
  BY <1>1 DEF Rewriting, Copies
<1>3. /\ actor'[a].keep = actor[a].keep /\ actor[a].done \in Nat /\ Len(actor[a].keep) \in Nat
      /\ \A n \in ToSet(actor[a].keep) : \E i \in 1..Len(actor[a].keep) : actor[a].keep[i] = n
      /\ ToSet(actor[a].keep) \subseteq DOMAIN author
      /\ \A n \in ToSet(actor[a].keep) : Held(n)
      /\ \A n \in ToSet(hist) : \E i \in 1..actor[a].done : actor[a].keep[i] = n
  BY <1>1, <1>2, KeepFacts DEF Count, CopyOK
<1>4. \A n \in ToSet(hist') : \E i \in 1..actor[a].done + 1 : actor[a].keep[i] = n
  <2>1. ASSUME NEW n \in ToSet(hist') PROVE \E i \in 1..actor[a].done + 1 : actor[a].keep[i] = n
    <3>1. CASE n \in ToSet(hist)
      <4>1. PICK i \in 1..actor[a].done : actor[a].keep[i] = n
        BY <1>3, <3>1
      <4>2. i \in 1..actor[a].done + 1
        BY <1>3
      <4> QED BY <4>1, <4>2
    <3>2. CASE n = actor[a].keep[actor[a].done + 1]
      BY <1>3, <3>2
    <3> QED BY <1>1, <3>1, <3>2
  <2> QED BY <2>1
<1>5. ASSUME exists, ~strays, NEW i \in 1..actor[a].done + 1 PROVE actor[a].keep[i] \in ToSet(hist')
  <2>1. i \in 1..actor[a].done \/ i = actor[a].done + 1
    BY <1>3
  <2>2. \A j \in 1..actor[a].done : actor[a].keep[j] \in ToSet(hist)
    BY <1>1, <1>2, <1>5 DEF Undisturbed
  <2> QED BY <1>1, <2>1, <2>2
<1>6. CASE Finished(a)
  <2>1. actor'[a].done = 0 /\ Pc(a)' = "clean" /\ actor[a].done + 1 = Len(actor[a].keep)
    BY <1>1, <1>6 DEF Count, Finished
  <2>2. CopyOK(a)' /\ Aimed(a)'
    BY <1>1, <1>2, <1>3, <2>1 DEF CopyOK, Aimed, Rewriting
  <2>3. exists /\ ~strays => ToSet(actor[a].keep) \subseteq ToSet(hist')
    BY <1>3, <1>5, <2>1
  <2>4. Undisturbed(a)'
    BY <1>1, <1>3, <2>1, <2>3 DEF Undisturbed
  <2>5. Ordered'
    BY <1>1, <1>2, <1>3 DEF Ordered
  <2>6. \A n \in ToSet(hist') : Held(n)
    BY <1>1, <1>3 DEF Held
  <2>7. "clean" \in Rewriting /\ ActorMove(a, "clean")
    BY <1>1, <1>6 DEF Rewriting
  <2> QED BY <1>1, <1>2, <1>3, <2>2, <2>4, <2>5, <2>6, <2>7, HistoryCore
<1>7. CASE ~Finished(a)
  <2>1. actor'[a].done = actor[a].done + 1 /\ Pc(a)' = "replay" /\ actor[a].done + 1 < Len(actor[a].keep)
    BY <1>1, <1>3, <1>7 DEF Count, Finished
  <2>2. CopyOK(a)' /\ Aimed(a)'
    BY <1>1, <1>2, <1>3, <1>4, <2>1 DEF CopyOK, Aimed, Rewriting
  <2>4. Undisturbed(a)'
    BY <1>1, <1>3, <1>5, <2>1 DEF Undisturbed
  <2>5. Ordered'
    BY <1>1, <1>2, <1>3 DEF Ordered
  <2>6. \A n \in ToSet(hist') : Held(n)
    BY <1>1, <1>3 DEF Held
  <2>7. "replay" \in Rewriting /\ ActorMove(a, "replay")
    BY <1>1, <1>7 DEF Rewriting
  <2> QED BY <1>1, <1>2, <1>3, <2>2, <2>4, <2>5, <2>6, <2>7, HistoryCore
<1> QED BY <1>6, <1>7

(* A rewrite is left, whatever it has done.                                   *)
LEMMA LeaveCore ==
  ASSUME Core, NEW a \in Actors, Pc(a) \in Rewriting,
         NEW pc \in {"release", "start", "queued", "over"}, a \in Runs => pc \in {"start", "queued"},
         Leave(a, pc), backup' \in {backup, backup \cup Left(a)}, trouble' \in 0..MaxTrouble,
         claim' = IF pc \in {"release", "start"} THEN claim ELSE "none",
         UNCHANGED <<exists, hist, author>>, strays => strays',
         run' \in [Runs -> RunSet], SameMarks, \A r \in Runs : run'[r].row = run[r].row
  PROVE  Core'
<1> USE DEF Core
<1>1. pc \in Steps /\ pc \notin Rewriting /\ pc \notin {"save", "erase", "replay", "clean"}
  BY DEF Steps, Holding, Rewriting
<1>2. actor \in [Actors -> ActorSet]
  BY DEF Shape
<1>3. /\ ActorMove(a, pc) /\ actor'[a].keep = <<>> /\ actor'[a].scratch = <<>>
      /\ actor'[a].done = 0 /\ Pc(a)' = pc
  BY <1>1, <1>2, LeaveMoves DEF ActorMove, Pc
<1>4. CopyOK(a) /\ Left(a) \subseteq DOMAIN author
  BY DEF Copies, CopyOK, Left
<1>5. Shape'
  BY <1>3, <1>4 DEF Shape, ActorMove
<1>6. claim = a /\ a # "none" /\ \A b \in Actors : b # "none"
  BY HistoryAssumption DEF Claims, Holding, Actors
<1>7. Claims'
  BY <1>3, <1>6 DEF Claims, ActorMove, Pc, Holding, Rewriting
<1>8. Ordered'
  BY DEF Ordered
<1>9. CopyOK(a)' /\ Aimed(a)' /\ Undisturbed(a)'
  BY <1>1, <1>3, None DEF CopyOK, Aimed, Undisturbed
<1>10. (\A n \in ToSet(hist') : Held(n)) /\ (\A n \in ToSet(actor'[a].keep) : Held(n))
  BY <1>3, None DEF Held
<1>11. a \in Runs => pc \in Early
  BY DEF Early
<1>12. exists' => exists
  OBVIOUS
<1> QED BY <1>3, <1>5, <1>7, <1>8, <1>9, <1>10, <1>11, <1>12, RewriteCore

LEMMA TroubleBound ==
  ASSUME Core, Trouble PROVE trouble' \in 0..MaxTrouble
BY HistoryAssumption DEF Core, Shape, Trouble

LEMMA CleanCore ==
  ASSUME Core, NEW a \in Actors, Clean(a) \/ Fail(a), strays => strays' PROVE Core'
<1>1. /\ Pc(a) \in Rewriting /\ Leave(a, After(a)) /\ UNCHANGED <<exists, hist, author, claim, run>>
      /\ backup' \in {backup, backup \cup Left(a)} /\ (UNCHANGED trouble \/ Trouble)
  BY DEF Clean, Fail, Rewriting
<1>2. PICK pc \in {"release", "start"} : pc = After(a) /\ (a \in Runs => pc = "start")
  BY Afterwards
<1>3. trouble' \in 0..MaxTrouble /\ run' \in [Runs -> RunSet]
  BY <1>1, TroubleBound DEF Core, Shape
<1>4. SameMarks /\ \A r \in Runs : run'[r].row = run[r].row
  BY <1>1 DEF SameMarks
<1>5. Leave(a, pc)
  BY <1>1, <1>2
<1> QED BY <1>1, <1>2, <1>3, <1>4, <1>5, LeaveCore

LEMMA DiesFacts ==
  ASSUME Core, NEW a \in Actors, Dies(a)
  PROVE  /\ Pc(a) \in Rewriting /\ claim' = "none" /\ UNCHANGED <<exists, hist, author>>
         /\ Leave(a, IF a \in Runs THEN "queued" ELSE "over") /\ backup' = backup \cup Left(a)
         /\ trouble' \in 0..MaxTrouble /\ RunsKept
         /\ \A r \in Runs : /\ run'[r].row = run[r].row /\ run'[r].undone = run[r].undone
                            /\ r # a => run'[r] = run[r]
<1>1. /\ Pc(a) \in Rewriting /\ UNCHANGED <<exists, hist, author>> /\ Trouble
      /\ Leave(a, IF a \in Runs THEN "queued" ELSE "over") /\ backup' = backup \cup Left(a)
      /\ claim' = IF claim = a THEN "none" ELSE claim
      /\ run' = [r \in Runs |-> IF r = a THEN [run[r] EXCEPT !.abort = "none"] ELSE run[r]]
  BY DEF Dies
<1>2. claim' = "none"
  BY <1>1 DEF Core, Claims, Holding
<1>3. ASSUME NEW r \in Runs
      PROVE  /\ run'[r] \in RunSet /\ run'[r].base = run[r].base /\ run'[r].plan = run[r].plan
             /\ run'[r].row = run[r].row /\ run'[r].undone = run[r].undone /\ (r # a => run'[r] = run[r])
  <2>1. run[r] \in RunSet
    BY DEF Core, Shape
  <2> DEFINE x == [run[r] EXCEPT !.abort = "none"]
  <2>2. /\ x \in RunSet /\ x.base = run[r].base /\ x.plan = run[r].plan /\ x.row = run[r].row
        /\ x.undone = run[r].undone
    BY <2>1 DEF RunSet
  <2>3. run'[r] = x \/ run'[r] = run[r]
    BY <1>1
  <2>4. r # a => run'[r] = run[r]
    BY <1>1
  <2> HIDE DEF x
  <2> QED BY <2>1, <2>2, <2>3, <2>4
<1>4. RunsKept
  BY <1>1, <1>3 DEF RunsKept
<1> QED BY <1>1, <1>2, <1>3, <1>4, TroubleBound

LEMMA DiesCore ==
  ASSUME Core, NEW a \in Actors, Dies(a), strays => strays' PROVE Core'
<1>1. /\ Pc(a) \in Rewriting /\ claim' = "none" /\ UNCHANGED <<exists, hist, author>>
      /\ Leave(a, IF a \in Runs THEN "queued" ELSE "over") /\ backup' = backup \cup Left(a)
      /\ trouble' \in 0..MaxTrouble /\ RunsKept
      /\ \A r \in Runs : run'[r].row = run[r].row
  BY DiesFacts
<1>2. PICK pc \in {"queued", "over"} : pc = IF a \in Runs THEN "queued" ELSE "over"
  OBVIOUS
<1>3. Leave(a, pc) /\ (a \in Runs => pc = "queued")
  BY <1>1, <1>2
<1>4. SameMarks /\ run' \in [Runs -> RunSet]
  BY <1>1, KeptAt DEF SameMarks, RunsKept
<1> QED BY <1>1, <1>2, <1>3, <1>4, LeaveCore

-----------------------------------------------------------------------------
(* Every step keeps the part of the invariant about the history.               *)

LEMMA RewriterCore ==
  ASSUME Core, NEW a \in Actors, Rewriter(a) PROVE Core'
<1>1. strays => strays'
  BY DEF Rewriter
<1> QED BY <1>1, ListCore, SaveCore, EraseCore, ReplayCore, CleanCore DEF Rewriter, Rewrite

LEMMA ProgressCore ==
  ASSUME Core, NEW a \in Actors, Progress(a) PROVE Core'
<1>1. CASE Unseen(Claim(a) \/ Release(a))
  BY <1>1, ClaimCore, ReleaseCore DEF Unseen, upkeep
<1>2. CASE Rewriter(a)
  BY <1>2, RewriterCore
<1>3. CASE a \in Runs /\ Unseen(Register(a) \/ Start(a) \/ Sweep(a))
  BY <1>3, RegisterCore, StartCore, SweepCore DEF Unseen, upkeep
<1>4. CASE a \in Runs /\ Mirror(a)
  BY <1>4, SettleCore DEF Mirror
<1> QED BY <1>1, <1>2, <1>3, <1>4 DEF Progress

LEMMA SweepingCore ==
  ASSUME Core, UpkeepShape, Sweeping \/ Expire PROVE Core'
<1>1. CASE Scan \/ Rearm \/ Missed \/ Expire
  BY <1>1, UpkeepCore DEF Scan, Rearm, Missed, Expire
<1>2. CASE SweeperDeletes
  BY <1>2, DeleteCore
<1>3. CASE SweeperPrunes
  <2>1. CASE exists /\ Active = {}
    <3>1. /\ Sweeper \in Prunes /\ Pc(Sweeper) \in {"off", "over"} /\ actor' = At(Sweeper, "waiting")
          /\ UNCHANGED <<exists, hist, author, claim, run, backup, trouble, strays>>
      BY <1>3, <2>1, UpkeepAssumption DEF SweeperPrunes, At
    <3> QED BY <3>1, PruneCore
  <2>2. CASE ~(exists /\ Active = {})
    BY <1>3, <2>2, UpkeepCore DEF SweeperPrunes, history
  <2> QED BY <2>1, <2>2
<1> QED BY <1>1, <1>2, <1>3 DEF Sweeping

LEMMA CoreStep ==
  ASSUME Core, UpkeepShape, [Next]_vars PROVE Core'
<1>1. ASSUME NEW a \in Actors, Progress(a) PROVE Core'
  BY <1>1, ProgressCore
<1>2. ASSUME NEW a \in Actors, Troubled(a) PROVE Core'
  BY <1>2, CleanCore, DiesCore DEF Troubled
<1>3. ASSUME NEW r \in Runs, Unseen(Write(r)) PROVE Core'
  BY <1>3, WriteCore DEF Unseen, upkeep
<1>4. ASSUME NEW r \in Runs, NEW s \in Strategies, Unseen(Create(r, s)) PROVE Core'
  BY <1>4, CreateCore DEF Unseen, upkeep
<1>5. ASSUME NEW p \in Prunes, Prune(p) PROVE Core'
  <2>1. PICK pc \in {"waiting", "over"} : actor' = At(p, pc)
    BY <1>5 DEF Prune
  <2>2. Pc(p) \in {"off", "over"} /\ UNCHANGED <<exists, hist, author, claim, run, backup, trouble, strays>>
    BY <1>5 DEF Prune, upkeep
  <2> QED BY <2>1, <2>2, PruneCore
<1>6. CASE DeleteThread \/ Delete
  BY <1>6, DeleteCore
<1>7. CASE Sweeping \/ Expire
  BY <1>7, SweepingCore
<1>8. CASE UNCHANGED vars
  BY <1>8, UpkeepCore DEF vars, upkeep
<1>9. ASSUME NEW r \in Runs, Unseen(Write(r) \/ \E s \in Strategies : Create(r, s)) PROVE Core'
  BY <1>3, <1>4, <1>9 DEF Unseen
<1> QED BY <1>1, <1>2, <1>5, <1>6, <1>7, <1>8, <1>9 DEF Next

LEMMA UpkeepShapeStep ==
  ASSUME UpkeepShape, Shape, [Next]_vars PROVE UpkeepShape'
<1> USE DEF UpkeepShape
<1>1. CASE UNCHANGED upkeep
  BY <1>1 DEF upkeep
<1>2. ASSUME NEW a \in Actors, Rewriter(a) PROVE UpkeepShape'
  BY <1>2 DEF Rewriter
<1>3. ASSUME NEW r \in Runs, Mirror(r) PROVE UpkeepShape'
  <2>1. UNCHANGED <<del, ttl, policy, expiries, strays>> /\ expired' = (expired /\ policy = "delete")
    BY <1>3 DEF Mirror
  <2>2. expired' \in BOOLEAN /\ (expired' => expired)
    BY <2>1
  <2> QED BY <2>1, <2>2
<1>4. CASE DeleteThread \/ Delete
  <2>1. strays' \in BOOLEAN /\ UNCHANGED <<ttl, policy, expired, expiries>>
    <3>1. CASE UNCHANGED strays
      BY <1>4, <3>1 DEF DeleteThread, Delete, DeleteCheckpoints, DeleteRow
    <3>2. CASE ~UNCHANGED strays
      BY <1>4, <3>2 DEF DeleteThread, Delete, DeleteCheckpoints, DeleteRow
    <3> QED BY <3>1, <3>2
  <2>2. del' \in {"off", "erase", "row"}
    BY <1>4 DEF DeleteThread, Delete, DeleteCheckpoints, DeleteRow
  <2> QED BY <2>1, <2>2
<1>5. CASE Sweeping
  <2>1. CASE Scan
    BY <2>1 DEF Scan, Policies
  <2>2. CASE Rearm
    <3>1. UNCHANGED <<del, policy, expiries, strays>> /\ expired' = Rearmed /\ ttl' = "off"
      BY <2>2 DEF Rearm
    <3>2. expired' \in BOOLEAN /\ (expired' => expired)
      BY <3>1 DEF Rearmed
    <3> QED BY <3>1, <3>2
  <2> QED BY <1>5, <2>1, <2>2 DEF Sweeping, SweeperDeletes, SweeperPrunes, Missed
<1>6. CASE Expire
  <2>1. expiries' \in 0..MaxExpiries
    BY <1>6, UpkeepAssumption DEF Expire
  <2> QED BY <1>6, <2>1 DEF Expire
<1>7. ASSUME NEW a \in Actors, Progress(a) PROVE UpkeepShape'
  BY <1>1, <1>2, <1>3, <1>7 DEF Progress, Unseen
<1>8. ASSUME NEW p \in Prunes, Prune(p) PROVE UpkeepShape'
  BY <1>1, <1>8 DEF Prune
<1>9. ASSUME NEW a \in Actors, Troubled(a) PROVE UpkeepShape'
  BY <1>9 DEF Troubled, Thrown
<1> QED BY <1>1, <1>4, <1>5, <1>6, <1>7, <1>8, <1>9 DEF Next, Unseen, vars

-----------------------------------------------------------------------------
(* After the deletion.                                                       *)

LEMMA DesertedFrame ==
  ASSUME Deserted, hist' = hist, \A r \in Runs : Sweeps(r) => Sweeps(r)',
         \A r \in Runs : /\ run'[r].row = run[r].row /\ run'[r].abort = run[r].abort
                         /\ Pc(r)' = Pc(r) \/ Pc(r)' \in {"release", "sweep", "over"},
         \A p \in Prunes : Pc(p)' = Pc(p) \/ Pc(p)' \in {"list", "save", "release", "start", "sweep", "over"}
  PROVE  Deserted'
<1>1. hist' = <<>> \/ \E r \in Runs : Sweeps(r)'
  BY DEF Deserted
<1>2. \A p \in Prunes : Pc(p)' \notin {"erase", "replay", "clean"}
  BY DEF Deserted
<1>3. ASSUME NEW r \in Runs
      PROVE  /\ run'[r].row # "active" /\ Pc(r)' \notin {"list"} \cup Rewriting
             /\ Pc(r)' \in {"start", "run"} => run'[r].abort = "cancel"
  BY DEF Deserted, Rewriting
<1> QED BY <1>1, <1>2, <1>3 DEF Deserted

LEMMA DesertedProgress ==
  ASSUME Core, Deserted, ~exists, ~strays, NEW a \in Actors, Progress(a), ~strays'
  PROVE  Deserted'
<1> USE DEF Core
<1>1. \A r \in Runs : r \in Actors /\ \A p \in Prunes : p \in Actors /\ r # p
  BY HistoryAssumption DEF Actors
<1>2. CASE Claim(a)
  <2>1. /\ Pc(a) = "waiting" /\ UNCHANGED <<hist, run>>
        /\ actor' = At(a, IF a \in Prunes THEN IF Active = {} THEN "list" ELSE "release"
                          ELSE IF run[a].row # "active" THEN "release"
                          ELSE IF run[a].plan # -1 THEN "list" ELSE "start")
    BY <1>2 DEF Claim
  <2>2. PICK pc \in {"list", "release"} : actor' = At(a, pc) /\ (a \in Runs => pc = "release")
    <3>1. a \notin Prunes => run[a].row # "active" /\ a \in Runs
      BY DEF Deserted, Actors
    <3> QED BY <1>1, <2>1, <3>1
  <2>3. Pc(a)' = pc /\ \A b \in Actors \ {a} : Pc(b)' = Pc(b)
    BY <2>1, <2>2, QuietMove DEF Steps, Holding, Rewriting
  <2>4. \A r \in Runs : Sweeps(r) => Sweeps(r)'
    BY <1>1, <2>1, <2>3 DEF Sweeps
  <2> QED BY <1>1, <2>1, <2>2, <2>3, <2>4, DesertedFrame DEF Actors
<1>3. CASE Release(a)
  <2>1. /\ Pc(a) = "release" /\ UNCHANGED <<hist, run>> /\ Pc(a)' \in {"sweep", "over"}
        /\ (a \in Runs /\ run[a].abort = "cancel" /\ run[a].base # -1) => Pc(a)' = "sweep"
        /\ \A b \in Actors \ {a} : Pc(b)' = Pc(b)
    BY <1>3, ReleaseFacts
  <2>2. \A r \in Runs : Sweeps(r) => Sweeps(r)'
    BY <1>1, <2>1 DEF Sweeps
  <2> QED BY <1>1, <2>1, <2>2, DesertedFrame DEF Actors
<1>4. CASE Rewriter(a)
  <2>1. Pc(a) \notin Rewriting
    BY <1>4 DEF Rewriter
  <2>2. List(a)
    BY <1>4, <2>1 DEF Rewriter, Rewrite, Save, Erase, Replay, Clean, Rewriting
  <2>3. Pc(a) = "list" /\ a \notin Runs /\ run' = run /\ hist' = hist
    BY <2>2, ListFacts DEF Deserted
  <2>4. Pc(a)' \in {"release", "start", "save"} /\ \A b \in Actors \ {a} : Pc(b)' = Pc(b)
    <3>1. actor \in [Actors -> ActorSet]
      BY DEF Shape
    <3>2. CASE actor' = At(a, After(a))
      <4>1. PICK pc \in {"release", "start"} : actor' = At(a, pc)
        BY <3>2, Afterwards
      <4> QED BY <2>1, <4>1, QuietMove DEF Steps, Holding, Rewriting
    <3>3. CASE actor' = [actor EXCEPT ![a] = [pc |-> "save", keep |-> Kept(a),
                                               scratch |-> <<>>, done |-> 0]]
      BY <3>1, <3>3 DEF Pc
    <3> QED BY <2>2, <3>2, <3>3, ListFacts
  <2>5. \A r \in Runs : r # a /\ (Sweeps(r) => Sweeps(r)')
    BY <1>1, <2>3, <2>4 DEF Sweeps
  <2> QED BY <1>1, <2>3, <2>4, <2>5, DesertedFrame DEF Actors
<1>5. CASE a \in Runs /\ Register(a)
  <2>1. Pc(a) = "queued" /\ actor' = At(a, "waiting") /\ UNCHANGED <<hist, run>>
    BY <1>5 DEF Register
  <2>2. Pc(a)' = "waiting" /\ \A b \in Actors \ {a} : Pc(b)' = Pc(b)
    BY <2>1, QuietMove DEF Steps, Holding, Rewriting
  <2>3. \A r \in Runs : Sweeps(r) => Sweeps(r)'
    BY <1>1, <2>1, <2>2 DEF Sweeps
  <2> QED BY <1>1, <1>5, <2>1, <2>2, <2>3 DEF Deserted, Rewriting
<1>6. CASE a \in Runs /\ Start(a)
  <2>1. /\ Pc(a) = "start" /\ UNCHANGED hist /\ Pc(a)' = "run"
        /\ \A b \in Actors \ {a} : Pc(b)' = Pc(b)
        /\ \A q \in Runs \ {a} : run'[q] = run[q]
        /\ run'[a].row = run[a].row /\ run'[a].abort = run[a].abort
    BY <1>6, StartFacts
  <2>2. \A r \in Runs : Sweeps(r) => Sweeps(r)'
    BY <1>1, <2>1 DEF Sweeps
  <2> QED BY <1>1, <1>6, <2>1, <2>2 DEF Deserted, Rewriting
<1>7. CASE a \in Runs /\ Sweep(a)
  <2>1. Pc(a) = "sweep" /\ actor' = At(a, "over") /\ run' = run /\ hist' = <<>>
    BY <1>7 DEF Sweep, Swept
  <2>2. Pc(a)' = "over" /\ \A b \in Actors \ {a} : Pc(b)' = Pc(b)
    BY <2>1, QuietMove DEF Steps, Holding, Rewriting
  <2> QED BY <1>1, <1>7, <2>1, <2>2 DEF Deserted, Rewriting
<1>8. CASE a \in Runs /\ Mirror(a)
  <2>1. /\ Pc(a) = "run" /\ UNCHANGED hist /\ Pc(a)' = "release"
        /\ \A b \in Actors \ {a} : Pc(b)' = Pc(b) /\ RunsKept
        /\ \A q \in Runs : run'[q].abort = run[q].abort
    BY <1>8, SettleFacts DEF Mirror
  <2>2. RunsKept
    BY <1>8, SettleFacts DEF Mirror
  <2>3. \A r \in Runs : run'[r].row # "active" /\ run'[r].base = run[r].base
    BY <2>2, KeptAt DEF Deserted
  <2>4. \A r \in Runs : Sweeps(r) => Sweeps(r)'
    BY <1>1, <2>1, <2>3 DEF Sweeps
  <2> QED BY <1>1, <1>8, <2>1, <2>3, <2>4 DEF Deserted, Rewriting
<1> QED BY <1>2, <1>3, <1>4, <1>5, <1>6, <1>7, <1>8 DEF Progress, Unseen

LEMMA DesertedLeave ==
  ASSUME Core, Deserted, NEW a \in Actors, Fail(a) \/ Dies(a) PROVE Deserted'
<1> USE DEF Core
<1>1. \A r \in Runs : r \in Actors /\ \A p \in Prunes : p \in Actors /\ r # p
  BY HistoryAssumption DEF Actors
<1>2. Pc(a) \in Rewriting /\ hist' = hist
  BY DEF Fail, Dies, Rewriting
<1>3. a \notin Runs
  BY <1>2 DEF Deserted
<1>4. PICK pc \in {"release", "start", "over"} : Leave(a, pc)
  <2>1. CASE Fail(a)
    BY <2>1, Afterwards DEF Fail
  <2>2. CASE Dies(a)
    BY <1>3, <2>2 DEF Dies
  <2> QED BY <2>1, <2>2
<1>5. Pc(a)' = pc /\ \A b \in Actors \ {a} : Pc(b)' = Pc(b)
  <2>1. actor \in [Actors -> ActorSet] /\ pc \in Steps
    BY DEF Shape, Steps, Holding
  <2> QED BY <1>4, <2>1, LeaveMoves DEF ActorMove, Pc
<1>6. \A r \in Runs : run'[r] = run[r]
  <2>1. CASE Fail(a)
    BY <2>1 DEF Fail
  <2>2. CASE Dies(a)
    BY <1>3, <2>2, DiesFacts
  <2> QED BY <2>1, <2>2
<1>7. \A r \in Runs : r # a /\ (Sweeps(r) => Sweeps(r)')
  BY <1>1, <1>3, <1>5, <1>6 DEF Sweeps
<1> QED BY <1>1, <1>2, <1>3, <1>5, <1>6, <1>7, DesertedFrame DEF Actors

LEMMA DesertedWrite ==
  ASSUME Core, Deserted, NEW r \in Runs, Write(r) PROVE Deserted'
<1>1. Pc(r) = "run" /\ UNCHANGED <<actor, run>>
  BY DEF Write
<1>2. run[r].base # -1
  BY <1>1 DEF Core, Turns, TurnOK
<1>3. Sweeps(r)'
  BY <1>1, <1>2 DEF Deserted, Sweeps, Pc
<1> QED BY <1>1, <1>3 DEF Deserted, Pc

(* The row goes only from an empty history, with no one at it unaware.         *)
LEMMA ErasedByRow ==
  ASSUME Core, Erased, DeleteRow PROVE Erased'
<1>1. CASE UNCHANGED <<exists, run, strays>>
  <2>1. UNCHANGED <<exists, run, strays, hist, actor>>
    BY <1>1 DEF DeleteRow
  <2> QED BY <2>1 DEF Erased, Deserted, Sweeps, Pc
<1>2. CASE ~UNCHANGED <<exists, run, strays>>
  <2>1. /\ run' = [r \in Runs |-> [run[r] EXCEPT !.row = "over"]] /\ UNCHANGED <<hist, actor>>
        /\ strays' = (strays \/ hist # <<>> \/ \E a \in Actors : Unaware(a))
    BY <1>2 DEF DeleteRow
  <2>2. SUFFICES ASSUME ~strays' PROVE Deserted'
    BY DEF Erased
  <2>3. hist = <<>> /\ \A a \in Actors : ~Unaware(a)
    BY <2>1, <2>2
  <2>4. \A r \in Runs : run'[r].row = "over" /\ run'[r].abort = run[r].abort
    <3>1. ASSUME NEW r \in Runs PROVE run'[r].row = "over" /\ run'[r].abort = run[r].abort
      <4>1. run[r] \in RunSet
        BY DEF Core, Shape
      <4> QED BY <2>1, <4>1 DEF RunSet
    <3> QED BY <3>1
  <2> QED BY <2>1, <2>3, <2>4 DEF Deserted, Unaware, Rewriting, Actors, Pc
<1> QED BY <1>1, <1>2

LEMMA ErasedStep ==
  ASSUME Core, UpkeepShape, Erased, [Next]_vars PROVE Erased'
<1>1. ASSUME NEW a \in Actors, Progress(a) PROVE Erased'
  <2>1. exists' = exists
    BY <1>1 DEF Progress, Unseen, Claim, Release, Rewriter, Rewrite, List, Save, Erase, Replay,
                Clean, Register, Start, Sweep, Mirror, Settle
  <2>2. strays => strays'
    <3>1. strays' = strays \/ strays' = (strays \/ (~exists /\ Pc(a) \in Rewriting))
      BY <1>1 DEF Progress, Unseen, upkeep, Rewriter, Mirror
    <3> QED BY <3>1
  <2> QED BY <1>1, <2>1, <2>2, DesertedProgress DEF Erased
<1>2. ASSUME NEW a \in Actors, Troubled(a) PROVE Erased'
  <2>1. UNCHANGED <<exists, strays>>
    BY <1>2 DEF Troubled, Fail, Dies
  <2> QED BY <1>2, <2>1, DesertedLeave DEF Erased, Troubled
<1>3. ASSUME NEW r \in Runs, Unseen(Write(r)) PROVE Erased'
  <2>1. UNCHANGED <<exists, strays>>
    BY <1>3 DEF Unseen, upkeep, Write
  <2> QED BY <1>3, <2>1, DesertedWrite DEF Erased, Unseen
<1>4. CASE /\ exists' = exists /\ (exists => strays' = strays)
           /\ (~exists => UNCHANGED <<hist, run, actor, strays>>)
  BY <1>4 DEF Erased, Deserted, Sweeps, Pc
<1>5. ASSUME NEW r \in Runs, NEW s \in Strategies, Unseen(Create(r, s)) PROVE Erased'
  BY <1>4, <1>5 DEF Unseen, upkeep, Create
<1>6. ASSUME NEW p \in Prunes, Prune(p) PROVE Erased'
  BY <1>4, <1>6 DEF Prune, upkeep
<1>7. CASE DeleteThread
  BY <1>4, <1>7 DEF DeleteThread
<1>8. CASE DeleteCheckpoints
  <2>1. UNCHANGED <<exists, run, actor>>
    BY <1>8 DEF DeleteCheckpoints
  <2>2. CASE UNCHANGED <<hist, strays>>
    BY <2>1, <2>2 DEF Erased, Deserted, Sweeps, Pc
  <2>3. CASE hist' = <<>> /\ strays' = (strays \/ \E a \in Actors : Unaware(a))
    BY <2>1, <2>3 DEF Erased, Deserted, Sweeps, Pc
  <2> QED BY <1>8, <2>2, <2>3 DEF DeleteCheckpoints
<1>9. CASE DeleteRow
  BY <1>9, ErasedByRow
<1>10. CASE Sweeping \/ Expire
  BY <1>4, <1>10 DEF Sweeping, Scan, SweeperDeletes, SweeperPrunes, Rearm, Missed, Expire, history
<1>11. CASE UNCHANGED vars
  BY <1>4, <1>11 DEF vars, history, upkeep
<1>12. ASSUME NEW r \in Runs, Unseen(Write(r) \/ \E s \in Strategies : Create(r, s)) PROVE Erased'
  BY <1>3, <1>5, <1>12 DEF Unseen
<1> QED BY <1>1, <1>2, <1>6, <1>7, <1>8, <1>9, <1>10, <1>11, <1>12 DEF Next, Delete

-----------------------------------------------------------------------------
(* The invariant of every reachable state.                                    *)

LEMMA InitIInv == Init => IInv
<1> SUFFICES ASSUME Init PROVE IInv
  OBVIOUS
<1> USE DEF Init, HistoryInit, Past
<1>1. /\ author \in Seq(Runs \cup {"past"}) /\ Len(author) = 2 /\ DOMAIN author = 1..2
      /\ \A n \in DOMAIN author : author[n] = "past"
  OBVIOUS
<1>2. hist \in Seq(Nat) /\ Len(hist) = 2 /\ ToSet(hist) = {1, 2} /\ hist[1] = 1 /\ hist[2] = 2
  BY DEF ToSet
<1>3. \A a \in Actors : /\ actor[a] \in ActorSet /\ Pc(a) = "off" /\ ToSet(actor[a].keep) = {}
                        /\ Increasing(actor[a].keep) /\ ToSet(actor[a].scratch) = {}
                        /\ actor[a].done = 0 /\ Len(actor[a].keep) = 0
  BY None DEF ActorSet, Steps, Holding, Rewriting, Pc
<1>4. \A r \in Runs : /\ run[r] \in RunSet /\ run[r].row = "none" /\ run[r].base = -1
                      /\ run[r].plan = -1
  BY DEF RunSet
<1>5. Shape
  BY <1>1, <1>2, <1>3, <1>4, HistoryAssumption DEF Shape
<1>6. Ordered
  BY <1>1, <1>2 DEF Ordered, Increasing
<1>7. Claims
  BY <1>3, HistoryAssumption DEF Claims, Holding, Rewriting, Actors
<1>8. Copies
  BY <1>1, <1>3 DEF Copies, CopyOK, Aimed, Undisturbed, Rewriting
<1>9. Turns
  <2>1. ASSUME NEW r \in Runs PROVE TurnOK(r) /\ MarksOK(r)
    <3>1. Pc(r) = "off"
      BY <1>3 DEF Actors
    <3>2. r # "past"
      BY HistoryAssumption
    <3>3. \A n \in DOMAIN author : author[n] # r
      BY <1>1, <3>2
    <3> QED BY <1>4, <3>1, <3>3 DEF TurnOK, MarksOK, Mark, Rewriting
  <2> QED BY <2>1 DEF Turns
<1>10. UpkeepShape
  <2>1. /\ del = "off" /\ ttl = "off" /\ policy \in Policies /\ expired = FALSE
        /\ expiries = 0 /\ strays = FALSE
    OBVIOUS
  <2>2. 0 \in 0..MaxExpiries
    BY UpkeepAssumption
  <2> HIDE DEF Init, HistoryInit
  <2> QED BY <2>1, <2>2 DEF UpkeepShape
<1>11. Erased
  BY DEF Erased
<1> QED BY <1>5, <1>6, <1>7, <1>8, <1>9, <1>10, <1>11 DEF IInv, Core

LEMMA IInvStep == IInv /\ [Next]_vars => IInv'
<1> SUFFICES ASSUME IInv, [Next]_vars PROVE IInv'
  OBVIOUS
<1>1. Core /\ UpkeepShape /\ Erased /\ Shape
  BY DEF IInv, Core
<1> QED BY <1>1, CoreStep, UpkeepShapeStep, ErasedStep DEF IInv

(* What holds of the history, the claim, the copies and the turns in every      *)
(* reachable state.                                                          *)
THEOREM UpkeepInvariant == Spec => []IInv
BY InitIInv, IInvStep, PTL DEF Spec

(* Every variable has its type, one process at most holds the claim, and no     *)
(* checkpoint is read, kept or reverted to that was never written              *)
(* (pruneThreadCheckpointsToLatest, rollbackThreadCheckpointsTo).              *)
THEOREM TypesKept == Spec => []TypeOK
<1>1. IInv => TypeOK
  <2> SUFFICES ASSUME IInv PROVE TypeOK
    OBVIOUS
  <2>1. Core /\ Shape /\ Ordered /\ Claims /\ Copies /\ Turns /\ UpkeepShape
    BY DEF IInv, Core
  <2>2. ASSUME NEW a \in Actors
        PROVE  /\ Pc(a) \in Holding \cup {"off", "queued", "waiting", "sweep", "over"}
               /\ Pc(a) \in Holding <=> claim = a
               /\ actor[a].done \in 0..Len(actor[a].keep)
               /\ ToSet(actor[a].scratch) \subseteq ToSet(actor[a].keep)
    <3>1. actor[a] \in ActorSet /\ CopyOK(a)
      BY <2>1 DEF Shape, Copies
    <3>2. Pc(a) \in Steps /\ actor[a].done \in Nat /\ Len(actor[a].keep) \in Nat
      BY <3>1, LenProperties DEF ActorSet, Pc
    <3> QED BY <2>1, <3>1, <3>2 DEF Steps, Claims, CopyOK
  <2>3. ASSUME NEW r \in Runs
        PROVE  /\ run[r].row \in {"none", "active", "over"}
               /\ run[r].abort \in {"none", "cancel", "rollback"}
               /\ {run[r].base, run[r].plan} \subseteq {-1, 0} \cup DOMAIN author
    <3>1. run[r] \in RunSet /\ MarksOK(r)
      BY <2>1 DEF Shape, Turns
    <3> QED BY <3>1 DEF RunSet, MarksOK, Mark
  <2> QED BY <2>1, <2>2, <2>3 DEF TypeOK, Shape, Ordered, UpkeepShape
<1> QED BY <1>1, UpkeepInvariant, PTL

(* A deleted thread leaves no checkpoint once everything has come to rest,      *)
(* whatever runs, fails or dies meanwhile, if nobody who did not know of the    *)
(* deletion was at them: what its runs write after the erasure they sweep      *)
(* themselves (deleteThread, deleteCheckpointsOfDeletedThread).                *)
THEOREM NothingLeftOfDeleted == Spec => []DeletedLeavesNothing
<1>1. IInv => DeletedLeavesNothing
  <2> SUFFICES ASSUME IInv, ~exists, AtRest, ~strays PROVE hist = <<>>
    BY DEF DeletedLeavesNothing
  <2>1. hist = <<>> \/ \E r \in Runs : Sweeps(r)
    BY DEF IInv, Erased, Deserted
  <2>2. \A r \in Runs : ~Sweeps(r)
    BY DEF AtRest, Sweeps, Actors
  <2> QED BY <2>1, <2>2
<1> QED BY <1>1, UpkeepInvariant, PTL

-----------------------------------------------------------------------------
(* The contract of the history.                                              *)

(* With two turns, the one that plans a rollback displaces the other.           *)
TwoTurns == "rollback" \notin Strategies \/ \E A, B : Runs \subseteq {A, B}
Displacing == \A r \in Runs : run[r].plan # -1 => \A q \in Runs \ {r} : run[q].undone

Deleting == Erasing \/ strays
Undone == {r \in Runs : run[r].undone}

LEMMA InSaved ==
  \A n : n \in Saved <=> \/ n \in ToSet(hist) \/ n \in backup
                         \/ \E a \in Actors : n \in ToSet(actor[a].scratch)
BY DEF Saved

LEMMA SavedRange == Core => Saved \subseteq DOMAIN author
<1> SUFFICES ASSUME Core PROVE Saved \subseteq DOMAIN author
  OBVIOUS
<1>1. \A a \in Actors : ToSet(actor[a].scratch) \subseteq DOMAIN author
  BY DEF Core, Copies, CopyOK
<1>2. ToSet(hist) \subseteq DOMAIN author /\ backup \subseteq DOMAIN author
  BY DEF Core, Ordered, Shape
<1> QED BY <1>1, <1>2, InSaved

LEMMA SavedRangeNext == Core' => (Saved \subseteq DOMAIN author)'
BY SavedRange, PTL

(* A step that loses what it may.                                             *)
LEMMA MayLose ==
  ASSUME Core', UNCHANGED author, Undone \subseteq Undone',
         \/ Deleting
         \/ Saved' \subseteq Saved /\ \A n \in Saved \ Saved' : author[n] \in Undone
         \/ Saved' \subseteq Saved /\ (\E p \in Prunes : Pc(p) = "erase")
            /\ \A n \in Saved \ Saved' : \E m \in Saved' : m > n
  PROVE  Contract!Next
<1>1. Saved' \subseteq DOMAIN author
  <2>1. Saved' \subseteq DOMAIN author'
    BY SavedRangeNext
  <2> QED BY <2>1
<1>2. Contract!NoPardon
  BY DEF Contract!NoPardon, Undone
<1>3. Contract!Lose
  BY <1>1 DEF Contract!Lose, Contract!Prune, Contract!Rollback, Undone, Deleting
<1> QED BY <1>2, <1>3 DEF Contract!Next

(* A step that loses none.                                                   *)
LEMMA LosesNone ==
  ASSUME Core', UNCHANGED author, \A r \in Runs : run[r].undone => run'[r].undone, Saved' = Saved
  PROVE  Contract!Next
<1>1. Undone \subseteq Undone'
  BY DEF Undone
<1> QED BY <1>1, MayLose

LEMMA QuietLosesNone ==
  ASSUME Core', UNCHANGED <<author, hist, backup>>, \A b \in Actors : SameCopy(b),
         \A r \in Runs : run[r].undone => run'[r].undone
  PROVE  Contract!Next
<1>1. Saved' = Saved
  BY DEF Saved, SameCopy
<1> QED BY <1>1, LosesNone

LEMMA WriteKeeps ==
  ASSUME Core, NEW r \in Runs, Write(r) PROVE Contract!Next
<1>1. /\ UNCHANGED <<actor, run, backup>> /\ Len(author') = Len(author) + 1
      /\ ToSet(hist') = ToSet(hist) \cup {Len(author) + 1}
  BY WriteFacts
<1>2. author' = Append(author, r)
  BY DEF Write
<1>3. Saved' = Saved \cup {Len(author')}
  BY <1>1 DEF Saved
<1>4. Contract!NoPardon
  BY <1>1 DEF Contract!NoPardon
<1>5. Contract!Write
  BY <1>2, <1>3 DEF Contract!Write
<1> QED BY <1>4, <1>5 DEF Contract!Next

(* A turn that reverts the history takes only what displaced turns wrote.       *)
LEMMA RevertedAreUndone ==
  ASSUME Core, Displacing, NEW r \in Runs, Pc(r) \in {"list"} \cup Rewriting,
         NEW n \in ToSet(hist), n > run[r].plan
  PROVE  author[n] \in Undone
<1>1. run[r].plan # -1 /\ Pc(r) \in Early /\ \A k \in DOMAIN author : author[k] # r
  BY DEF Core, Turns, TurnOK, Early
<1>2. n \in DOMAIN author /\ author[n] \in Runs \cup {"past"} /\ n \in Nat /\ run[r].plan \in Int
  <2>1. n \in DOMAIN author /\ author \in Seq(Runs \cup {"past"}) /\ run[r] \in RunSet
    BY DEF Core, Ordered, Shape
  <2>2. n \in 1..Len(author) /\ Len(author) \in Nat
    BY <2>1, LenProperties
  <2> QED BY <2>1, <2>2, ElementOfSeq DEF RunSet
<1>3. author[n] # "past"
  <2>1. PICK p \in Int : p = run[r].plan /\ p # -1 /\ Mark(p) /\ n > p
    BY <1>1, <1>2 DEF Core, Turns, MarksOK
  <2> QED BY <1>2, <2>1 DEF Mark, Before, Held
<1> QED BY <1>1, <1>2, <1>3 DEF Displacing, Undone

LEMMA ListKeeps ==
  ASSUME Core, Core', Displacing, NEW a \in Actors, List(a) PROVE Contract!Next
<1>1. /\ Pc(a) = "list" /\ UNCHANGED <<exists, author, claim, run, backup, trouble>>
      /\ actor \in [Actors -> ActorSet] /\ ToSet(actor[a].scratch) = {} /\ Undone' = Undone
  <2>1. ToSet(actor[a].keep) = {}
    BY ListFacts DEF Rewriting, Core, Copies, CopyOK
  <2> QED BY <2>1, ListFacts DEF Core, Copies, CopyOK, Shape, Undone
<1>2. CASE actor' = At(a, After(a)) /\ hist' \in {hist, <<>>}
           /\ (hist' # hist => a \in Runs /\ run[a].plan = 0)
  <2>1. \A b \in Actors : actor'[b].scratch = actor[b].scratch
    <3>1. PICK pc \in {"release", "start"} : actor' = At(a, pc)
      BY <1>2, Afterwards
    <3> QED BY <1>1, <3>1, AtMoves DEF Steps, Holding, Rewriting, ActorMove, SameCopy
  <2>2. CASE hist' = hist
    <3>1. Saved' = Saved
      BY <1>1, <2>1, <2>2 DEF Saved
    <3> QED BY <1>1, <3>1, LosesNone
  <2>3. CASE hist' # hist
    <3>1. hist' = <<>> /\ ToSet(hist') = {}
      BY <1>2, <2>3, None
    <3>2. Saved' \subseteq Saved /\ \A n \in Saved \ Saved' : n \in ToSet(hist)
      BY <1>1, <2>1, <3>1 DEF Saved
    <3>3. ASSUME NEW n \in ToSet(hist) PROVE author[n] \in Undone
      <4>1. n > run[a].plan
        <5>1. n \in 1..Len(author) /\ Len(author) \in Nat
          BY LenProperties DEF Core, Ordered, Shape
        <5> QED BY <1>2, <2>3, <5>1
      <4> QED BY <1>1, <1>2, <2>3, <4>1, RevertedAreUndone
    <3> QED BY <1>1, <3>2, <3>3, MayLose
  <2> QED BY <2>2, <2>3
<1>3. CASE hist' = hist /\ actor' = [actor EXCEPT ![a] = [pc |-> "save", keep |-> Kept(a),
                                                          scratch |-> <<>>, done |-> 0]]
  <2>1. /\ actor'[a].scratch = <<>> /\ \A b \in Actors \ {a} : actor'[b] = actor[b]
    BY <1>1, <1>3
  <2>2. \A b \in Actors : ToSet(actor'[b].scratch) = ToSet(actor[b].scratch)
    BY <1>1, <2>1, None
  <2>3. Saved' = Saved
    BY <1>1, <1>3, <2>2 DEF Saved
  <2> QED BY <1>1, <2>3, LosesNone
<1> QED BY <1>2, <1>3, ListFacts

LEMMA SaveKeeps ==
  ASSUME Core, Core', NEW a \in Actors, Save(a) PROVE Contract!Next
<1>1. /\ Pc(a) = "save" /\ UNCHANGED <<exists, hist, author, run, backup>> /\ Undone' = Undone
      /\ ToSet(actor'[a].scratch) = ToSet(actor[a].scratch) \cup {Next1(a)}
      /\ Next1(a) \in ToSet(actor[a].keep) /\ \A b \in Actors \ {a} : actor'[b] = actor[b]
  BY SaveFacts DEF ActorMove, Undone
<1>2. exists /\ ~strays => Next1(a) \in ToSet(hist)
  <2>1. Undisturbed(a)
    BY DEF Core, Copies
  <2> QED BY <1>1, <2>1 DEF Undisturbed
<1>3. CASE Deleting
  BY <1>1, <1>3, MayLose
<1>4. CASE ~Deleting
  <2>1. Next1(a) \in ToSet(hist)
    BY <1>2, <1>4 DEF Deleting, Erasing
  <2>2. \A n : n \in Saved' <=> n \in Saved
    BY <1>1, <2>1 DEF Saved
  <2>3. Saved' = Saved
    BY <2>2
  <2> QED BY <1>1, <2>3, LosesNone
<1> QED BY <1>3, <1>4

(* The one call that empties the history: a prune keeps the newest.             *)
LEMMA EraseKeeps ==
  ASSUME Core, Core', Displacing, NEW a \in Actors, Erase(a) PROVE Contract!Next
<1>1. /\ Pc(a) = "erase" /\ UNCHANGED <<author, run, backup>> /\ Undone' = Undone
      /\ ToSet(hist') = {} /\ \A b \in Actors : actor'[b].scratch = actor[b].scratch
  BY EraseFacts, None DEF ActorMove, SameCopy, Undone
<1>2. Aimed(a) /\ ToSet(actor[a].keep) \subseteq ToSet(actor[a].scratch)
  BY <1>1 DEF Core, Copies, CopyOK
<1>3. Saved' \subseteq Saved /\ ToSet(actor[a].scratch) \subseteq Saved'
      /\ \A n \in Saved \ Saved' : n \in ToSet(hist)
  BY <1>1 DEF Saved
<1>4. \A n \in Saved \ Saved' : Spared(a, n) /\ n \notin ToSet(actor[a].keep)
  BY <1>1, <1>2, <1>3 DEF Aimed
<1>5. CASE a \in Prunes
  <2>1. \A n \in Saved \ Saved' : \E m \in Saved' : m > n
    <3>1. a \notin Runs
      BY <1>5, HistoryAssumption
    <3> QED BY <1>2, <1>3, <1>4, <3>1 DEF Spared
  <2> QED BY <1>1, <1>3, <1>5, <2>1, MayLose
<1>6. CASE a \notin Prunes
  <2>1. a \in Runs /\ Pc(a) \in {"list"} \cup Rewriting
    BY <1>1, <1>6 DEF Actors, Rewriting
  <2>2. \A n \in Saved \ Saved' : author[n] \in Undone
    <3>1. ASSUME NEW n \in Saved \ Saved' PROVE author[n] \in Undone
      <4>1. n \in ToSet(hist) /\ n > run[a].plan
        BY <1>3, <1>4, <1>6 DEF Spared
      <4> QED BY <2>1, <4>1, RevertedAreUndone
    <3> QED BY <3>1
  <2> QED BY <1>1, <1>3, <2>2, MayLose
<1> QED BY <1>5, <1>6

LEMMA ReplayKeeps ==
  ASSUME Core, Core', NEW a \in Actors, Replay(a) PROVE Contract!Next
<1>1. /\ Pc(a) = "replay" /\ UNCHANGED <<author, run, backup>>
      /\ ToSet(hist') = ToSet(hist) \cup {Next1(a)} /\ Next1(a) \in ToSet(actor[a].keep)
      /\ \A b \in Actors : actor'[b].scratch = actor[b].scratch
  BY ReplayFacts DEF ActorMove
<1>2. Next1(a) \in ToSet(actor[a].scratch)
  BY <1>1 DEF Core, Copies, CopyOK
<1>3. \A n : n \in Saved' <=> n \in Saved
  BY <1>1, <1>2 DEF Saved
<1>4. Saved' = Saved
  BY <1>3
<1> QED BY <1>1, <1>4, LosesNone

(* A rewrite that is left has put back what it kept, or leaves its copy.        *)
LEMMA LeaveKeeps ==
  ASSUME Core, Core', NEW a \in Actors, NEW pc \in Steps, Pc(a) \in Rewriting, Leave(a, pc),
         UNCHANGED <<author, hist>>, \A r \in Runs : run[r].undone => run'[r].undone,
         backup' = backup \cup Left(a) \/ (backup' = backup /\ Pc(a) = "clean")
  PROVE  Contract!Next
<1>1. /\ ToSet(actor'[a].scratch) = {} /\ \A b \in Actors \ {a} : actor'[b] = actor[b]
  <2>1. actor \in [Actors -> ActorSet]
    BY DEF Core, Shape
  <2> QED BY <2>1, LeaveMoves, None DEF ActorMove
<1>2. CASE backup' = backup \cup Left(a)
  <2>1. \A n : n \in Saved' <=> n \in Saved
    BY <1>1, <1>2 DEF Saved, Left
  <2>2. Saved' = Saved
    BY <2>1
  <2> QED BY <2>2, LosesNone
<1>3. CASE backup' = backup /\ Pc(a) = "clean"
  <2>1. Undone \subseteq Undone'
    BY DEF Undone
  <2>2. CASE Deleting
    BY <2>1, <2>2, MayLose
  <2>3. CASE ~Deleting
    <3>1. exists /\ ~strays /\ CopyOK(a) /\ Undisturbed(a)
      BY <2>3 DEF Deleting, Erasing, Core, Copies
    <3>2. ToSet(actor[a].scratch) \subseteq ToSet(hist)
      BY <1>3, <3>1 DEF CopyOK, Undisturbed
    <3>3. \A n : n \in Saved' <=> n \in Saved
      BY <1>1, <1>3, <3>2 DEF Saved
    <3>4. Saved' = Saved
      BY <3>3
    <3> QED BY <3>4, LosesNone
  <2> QED BY <2>2, <2>3
<1> QED BY <1>2, <1>3

LEMMA CleanKeeps ==
  ASSUME Core, Core', NEW a \in Actors, Clean(a) \/ Fail(a) \/ Dies(a) PROVE Contract!Next
<1>1. /\ Pc(a) \in Rewriting /\ UNCHANGED <<author, hist>>
      /\ backup' = backup \cup Left(a) \/ (backup' = backup /\ Pc(a) = "clean")
  BY DEF Clean, Fail, Dies, Rewriting
<1>2. PICK pc \in {"release", "start", "queued", "over"} : Leave(a, pc)
  <2>1. CASE Clean(a) \/ Fail(a)
    BY <2>1, Afterwards DEF Clean, Fail
  <2>2. CASE Dies(a)
    BY <2>2 DEF Dies
  <2> QED BY <2>1, <2>2
<1>3. \A r \in Runs : run[r].undone => run'[r].undone
  <2>1. CASE Clean(a) \/ Fail(a)
    BY <2>1 DEF Clean, Fail
  <2>2. CASE Dies(a)
    BY <2>2, DiesFacts
  <2> QED BY <2>1, <2>2
<1>4. pc \in Steps
  BY DEF Steps, Holding
<1> QED BY <1>1, <1>2, <1>3, <1>4, LeaveKeeps

LEMMA ProgressKeeps ==
  ASSUME Core, Core', Displacing, NEW a \in Actors, Progress(a) PROVE Contract!Next
<1>1. CASE Claim(a)
  <2>1. PICK pc \in {"list", "release", "start"} : actor' = At(a, pc)
    <3>1. \E pc \in {"list", "release", "start"} : actor' = At(a, pc)
      BY <1>1 DEF Claim
    <3> QED BY <3>1
  <2>2. UNCHANGED <<author, hist, backup, run>> /\ Pc(a) = "waiting" /\ Shape
    BY <1>1 DEF Claim, Core
  <2> QED BY <2>1, <2>2, QuietMove, QuietLosesNone DEF Steps, Holding, Rewriting
<1>2. CASE Release(a)
  BY <1>2, ReleaseFacts, QuietLosesNone
<1>3. CASE Rewriter(a)
  BY <1>3, ListKeeps, SaveKeeps, EraseKeeps, ReplayKeeps, CleanKeeps DEF Rewriter, Rewrite
<1>4. CASE a \in Runs /\ Register(a)
  <2>1. /\ UNCHANGED <<author, hist, backup, run>> /\ Pc(a) = "queued" /\ Shape
        /\ actor' = At(a, "waiting")
    BY <1>4 DEF Register, Core
  <2> QED BY <2>1, QuietMove, QuietLosesNone DEF Steps, Holding, Rewriting
<1>5. CASE a \in Runs /\ Start(a)
  <2>1. /\ UNCHANGED <<author, hist, backup>> /\ \A b \in Actors : SameCopy(b)
        /\ \A r \in Runs : run'[r].undone = run[r].undone
    BY <1>5, StartFacts
  <2> QED BY <2>1, QuietLosesNone
<1>6. CASE a \in Runs /\ Sweep(a)
  <2>1. /\ UNCHANGED <<author, backup, run>> /\ Pc(a) = "sweep" /\ Shape
        /\ actor' = At(a, "over") /\ (hist' = hist \/ ~exists)
    BY <1>6 DEF Sweep, Swept, Core
  <2>2. CASE hist' = hist
    BY <2>1, <2>2, QuietMove, QuietLosesNone DEF Steps, Holding, Rewriting
  <2>3. CASE ~exists
    <3>1. Deleting /\ Undone' = Undone
      BY <2>1, <2>3 DEF Deleting, Erasing, Undone
    <3> QED BY <2>1, <3>1, MayLose
  <2> QED BY <2>1, <2>2, <2>3
<1>7. CASE a \in Runs /\ Mirror(a)
  <2>1. /\ UNCHANGED <<author, hist, backup>> /\ \A b \in Actors : SameCopy(b)
        /\ \A r \in Runs : run'[r].undone = run[r].undone
    BY <1>7, SettleFacts DEF Mirror
  <2> QED BY <2>1, QuietLosesNone
<1> QED BY <1>1, <1>2, <1>3, <1>4, <1>5, <1>6, <1>7 DEF Progress, Unseen

LEMMA DeleteKeeps ==
  ASSUME Core, Core', DeleteThread \/ Delete \/ SweeperDeletes PROVE Contract!Next
<1>1. run \in [Runs -> RunSet]
  BY DEF Core, Shape
<1>2. CASE DeleteThread \/ SweeperDeletes
  <2>1. /\ UNCHANGED <<actor, author, hist, backup>>
        /\ run' = Aborted(Active, "cancel") \/ UNCHANGED run
    BY <1>2 DEF DeleteThread, SweeperDeletes
  <2>2. \A r \in Runs : run[r].undone => run'[r].undone
    BY <1>1, <2>1, AbortedValues
  <2>3. Saved' = Saved
    BY <2>1 DEF Saved
  <2> QED BY <2>1, <2>2, <2>3, LosesNone
<1>3. CASE Delete
  <2>1. Deleting /\ UNCHANGED author
    BY <1>3 DEF Delete, DeleteCheckpoints, DeleteRow, Deleting, Erasing
  <2>2. ASSUME NEW r \in Runs, run[r].undone PROVE run'[r].undone
    <3>1. run'[r] \in {run[r], [run[r] EXCEPT !.row = "over"]}
      BY <1>3 DEF Delete, DeleteCheckpoints, DeleteRow
    <3>2. run[r] \in RunSet
      BY <1>1
    <3> QED BY <2>2, <3>1, <3>2 DEF RunSet
  <2>3. Undone \subseteq Undone'
    BY <2>2 DEF Undone
  <2> QED BY <2>1, <2>3, MayLose
<1> QED BY <1>2, <1>3

LEMMA NextKeeps ==
  ASSUME Core, Core', Displacing, [Next]_vars PROVE Contract!Next
<1>1. ASSUME NEW a \in Actors, Progress(a) PROVE Contract!Next
  BY <1>1, ProgressKeeps
<1>2. ASSUME NEW a \in Actors, Troubled(a) PROVE Contract!Next
  BY <1>2, CleanKeeps DEF Troubled
<1>3. ASSUME NEW r \in Runs, Unseen(Write(r)) PROVE Contract!Next
  BY <1>3, WriteKeeps DEF Unseen
<1>4. ASSUME NEW r \in Runs, NEW s \in Strategies, Unseen(Create(r, s)) PROVE Contract!Next
  <2>1. /\ Pc(r) = "off" /\ r \in Actors /\ actor' = At(r, "queued")
        /\ UNCHANGED <<exists, hist, author, claim, backup, trouble>>
        /\ \A q \in Runs : run[q].undone => run'[q].undone
    BY <1>4, CreateFacts DEF Unseen
  <2>2. \A b \in Actors : SameCopy(b)
    BY <2>1, QuietMove DEF Core, Steps, Holding, Rewriting
  <2> QED BY <2>1, <2>2, QuietLosesNone
<1>5. CASE UNCHANGED <<author, hist, backup, run>> /\ \A b \in Actors : actor'[b].scratch = actor[b].scratch
  <2>1. Saved' = Saved
    BY <1>5 DEF Saved
  <2> QED BY <1>5, <2>1, LosesNone
<1>6. ASSUME NEW p \in Prunes, Prune(p) PROVE Contract!Next
  <2>1. PICK pc \in {"waiting", "over"} : actor' = At(p, pc)
    BY <1>6 DEF Prune
  <2>2. /\ UNCHANGED <<author, hist, backup, run>> /\ Pc(p) = "off" /\ p \in Actors /\ Shape
    BY <1>6 DEF Prune, Actors, Core
  <2> QED BY <2>1, <2>2, QuietMove, QuietLosesNone DEF Steps, Holding, Rewriting
<1>7. CASE DeleteThread \/ Delete \/ SweeperDeletes
  BY <1>7, DeleteKeeps
<1>8. CASE Scan \/ Rearm \/ Missed \/ Expire \/ UNCHANGED vars
  BY <1>5, <1>8 DEF Scan, Rearm, Missed, Expire, vars, history
<1>9. CASE SweeperPrunes
  <2>1. UNCHANGED <<author, hist, backup, run>>
    BY <1>9 DEF SweeperPrunes
  <2>2. CASE exists /\ Active = {}
    <3>1. Sweeper \in Actors /\ Pc(Sweeper) \in {"off", "over"} /\ actor' = At(Sweeper, "waiting") /\ Shape
      BY <1>9, <2>2, UpkeepAssumption DEF SweeperPrunes, At, Actors, Core
    <3> QED BY <2>1, <3>1, QuietMove, QuietLosesNone DEF Steps, Holding, Rewriting
  <2>3. CASE ~(exists /\ Active = {})
    BY <1>5, <1>9, <2>1, <2>3 DEF SweeperPrunes
  <2> QED BY <2>2, <2>3
<1>10. ASSUME NEW r \in Runs, Unseen(Write(r) \/ \E s \in Strategies : Create(r, s)) PROVE Contract!Next
  BY <1>3, <1>4, <1>10 DEF Unseen
<1> QED BY <1>1, <1>2, <1>6, <1>7, <1>8, <1>9, <1>10 DEF Next, Sweeping

LEMMA DisplacingInit == Init => Displacing
BY DEF Init, HistoryInit, Displacing

LEMMA DisplacingFrame ==
  ASSUME Displacing, \A r \in Runs : run'[r].plan = run[r].plan,
         \A r \in Runs : run[r].undone => run'[r].undone
  PROVE  Displacing'
BY DEF Displacing

LEMMA ProgressPlans ==
  ASSUME Core, NEW a \in Actors, Progress(a)
  PROVE  /\ \A r \in Runs : run'[r].plan = run[r].plan
         /\ \A r \in Runs : run[r].undone => run'[r].undone
<1>1. CASE Start(a) /\ a \in Runs
  BY <1>1, StartFacts
<1>2. CASE Mirror(a) /\ a \in Runs
  BY <1>2, SettleFacts DEF Mirror, RunsKept
<1>3. CASE run' = run
  BY <1>3
<1> QED BY <1>1, <1>2, <1>3 DEF Progress, Unseen, Claim, Release, Rewriter, Rewrite, List, Save,
                                Erase, Replay, Clean, Register, Sweep

LEMMA DisplacingStep ==
  ASSUME TwoTurns, Core, Displacing, [Next]_vars PROVE Displacing'
<1>1. ASSUME NEW a \in Actors, Progress(a) PROVE Displacing'
  BY <1>1, ProgressPlans, DisplacingFrame
<1>2. ASSUME NEW a \in Actors, Troubled(a) PROVE Displacing'
  <2>1. CASE Fail(a)
    BY <2>1, DisplacingFrame DEF Fail
  <2>2. CASE Dies(a)
    BY <2>2, DiesFacts, DisplacingFrame DEF RunsKept
  <2> QED BY <1>2, <2>1, <2>2 DEF Troubled
<1>3. CASE run' = run
  BY <1>3, DisplacingFrame
<1>4. ASSUME NEW r \in Runs, NEW s \in Strategies, Unseen(Create(r, s)) PROVE Displacing'
  <2>1. /\ \A q \in Runs \ {r} : run'[q].plan = run[q].plan
        /\ \A q \in Runs : run[q].undone => run'[q].undone
        /\ \/ run'[r].plan = -1
           \/ s = "rollback" /\ \E q \in Runs : q # r /\ run'[q].undone
    BY <1>4, CreateFacts DEF Unseen
  <2>2. CASE run'[r].plan = -1
    BY <2>1, <2>2 DEF Displacing
  <2>3. ASSUME s = "rollback", NEW q \in Runs, q # r, run'[q].undone PROVE Displacing'
    <3>1. PICK A, B : Runs \subseteq {A, B}
      BY <2>3 DEF TwoTurns
    <3>2. \A p \in Runs \ {r} : p = q
      BY <2>3, <3>1
    <3> QED BY <2>1, <2>3, <3>2 DEF Displacing
  <2> QED BY <2>1, <2>2, <2>3
<1>5. CASE DeleteThread \/ Delete \/ SweeperDeletes
  <2>1. RunsKept
    <3>1. CASE run' = Aborted(Active, "cancel") \/ UNCHANGED run
      BY <3>1, AbortKeeps
    <3>2. CASE run' = [r \in Runs |-> [run[r] EXCEPT !.row = "over"]]
      <4>1. ASSUME NEW r \in Runs
            PROVE  LET x == [run[r] EXCEPT !.row = "over"] IN
                   /\ x \in RunSet /\ x.base = run[r].base /\ x.plan = run[r].plan
                   /\ x.row = "over" /\ x.undone = run[r].undone
        <5>1. run[r] \in RunSet
          BY DEF Core, Shape
        <5> QED BY <5>1 DEF RunSet
      <4> QED BY <3>2, <4>1 DEF RunsKept
    <3> QED BY <1>5, <3>1, <3>2 DEF DeleteThread, Delete, DeleteCheckpoints, DeleteRow, SweeperDeletes
  <2> QED BY <2>1, DisplacingFrame DEF RunsKept
<1>6. ASSUME NEW p \in Prunes, Prune(p) PROVE Displacing'
  BY <1>3, <1>6 DEF Prune
<1>7. CASE Scan \/ SweeperPrunes \/ Rearm \/ Missed \/ Expire \/ UNCHANGED vars
  BY <1>3, <1>7 DEF Scan, SweeperPrunes, Rearm, Missed, Expire, vars, history
<1>8. ASSUME NEW r \in Runs, Unseen(Write(r) \/ \E s \in Strategies : Create(r, s)) PROVE Displacing'
  BY <1>3, <1>4, <1>8 DEF Unseen, Write
<1> QED BY <1>1, <1>2, <1>5, <1>6, <1>7, <1>8 DEF Next, Sweeping

LEMMA ContractInit == Init => Contract!Init
<1> SUFFICES ASSUME Init PROVE Contract!Init
  OBVIOUS
<1>1. DOMAIN author = {1, 2} /\ ToSet(hist) = {1, 2} /\ backup = {}
  BY DEF Init, HistoryInit, Past, ToSet
<1>2. \A a \in Actors : ToSet(actor[a].scratch) = {} /\ Pc(a) = "off"
  BY None DEF Init, HistoryInit, Pc
<1>3. Saved = DOMAIN author
  BY <1>1, <1>2 DEF Saved
<1>4. {r \in Runs : run[r].undone} = {}
  BY DEF Init, HistoryInit
<1>5. (\E p \in Prunes : Pc(p) = "erase") = FALSE
  BY <1>2 DEF Actors
<1>6. (Erasing \/ strays) = FALSE
  BY DEF Init, HistoryInit, Erasing
<1> QED BY <1>3, <1>4, <1>5, <1>6 DEF Contract!Init

(* Whatever call fails, whenever a process dies or a lease is lost, prunes and  *)
(* rollbacks lose nothing but what they are meant to: every other checkpoint is *)
(* in the history or in a scratch copy until the thread is deleted              *)
(* (replaceCheckpointHistory, withThreadExecution).                           *)
THEOREM HistoryContractKept == ASSUME TwoTurns PROVE Spec => KeepsHistoryContract
<1> DEFINE Inv == IInv /\ Displacing
<1>1. Init => Inv /\ Contract!Init
  BY InitIInv, DisplacingInit, ContractInit
<1>2. Inv /\ [Next]_vars => Inv'
  BY IInvStep, DisplacingStep DEF IInv
<1>3. Inv /\ Inv' /\ [Next]_vars =>
        [Contract!Next]_<<Saved, author, {r \in Runs : run[r].undone},
                          \E p \in Prunes : Pc(p) = "erase", Erasing \/ strays>>
  BY NextKeeps DEF IInv
<1> HIDE DEF Inv
<1> QED BY <1>1, <1>2, <1>3, PTL DEF Spec, KeepsHistoryContract, Contract!Spec

=============================================================================
