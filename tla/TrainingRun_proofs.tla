-------------------------- MODULE TrainingRun_proofs --------------------------
(***************************************************************************)
(* Proofs about Training and TrainingRun: what is stored, whom a hand      *)
(* meets and what the pool keeps, for any number of environments, steps    *)
(* and updates, any rewards and any settings of the pool.                  *)
(***************************************************************************)
EXTENDS TrainingRun, SharedLemmas

Decisions(s, p) == s.stored[p] \o s.pending[p]

(* The decisions of seat p in s and in t are of the same steps.            *)
SameSteps(s, t, p) ==
    /\ Len(Decisions(t, p)) = Len(Decisions(s, p))
    /\ \A i \in 1 .. Len(Decisions(s, p)) :
          Decisions(t, p)[i].step = Decisions(s, p)[i].step

(* The decisions of p in t are those in s and one more, of step n.         *)
OneMore(s, t, p, n) ==
    /\ Len(Decisions(t, p)) = Len(Decisions(s, p)) + 1
    /\ \A i \in 1 .. Len(Decisions(s, p)) :
          Decisions(t, p)[i].step = Decisions(s, p)[i].step
    /\ Decisions(t, p)[Len(Decisions(t, p))].step = n

Wellformed(s) == s \in States /\ \A p \in Seats : Len(s.pending[p]) <= 1

LEMMA StatesAre ==
    States = [pending : [Seats -> Seq(Open)], accumulated : [Seats -> Int],
              nextDone : [Seats -> {0, 1}], tailWasTerminal : [Seats -> BOOLEAN],
              stored : [Seats -> Seq(Stored)]]
  BY DEF States, ColumnsAt, Open, Stored, Seats

(* What the decisions of a seat are.                                       *)
LEMMA DecisionsFacts ==
    ASSUME NEW s, Wellformed(s), NEW p \in Seats
    PROVE  /\ Decisions(s, p) \in Seq(Stored \cup Open)
           /\ Len(Decisions(s, p)) = Len(s.stored[p]) + Len(s.pending[p])
           /\ Len(Decisions(s, p)) \in Nat
           /\ \A i \in 1 .. Len(Decisions(s, p)) :
                 Decisions(s, p)[i].step \in 0 .. NumSteps - 1
<1>1. s.stored[p] \in Seq(Stored) /\ s.pending[p] \in Seq(Open)
  BY StatesAre DEF Wellformed
<1>2. s.stored[p] \in Seq(Stored \cup Open) /\ s.pending[p] \in Seq(Stored \cup Open)
  BY <1>1
<1>3. Decisions(s, p) \in Seq(Stored \cup Open)
  BY <1>2 DEF Decisions
<1>4. Len(Decisions(s, p)) = Len(s.stored[p]) + Len(s.pending[p])
  BY <1>2 DEF Decisions
<1>5. ASSUME NEW x \in Stored \cup Open PROVE x.step \in 0 .. NumSteps - 1
  BY DEF Stored, Open, OpenAt, StoredAt
<1>6. ASSUME NEW i \in 1 .. Len(Decisions(s, p))
      PROVE  Decisions(s, p)[i] \in Stored \cup Open
  <2> HIDE DEF Stored, Open
  <2>1. QED
    BY <1>3
<1>7. Len(Decisions(s, p)) \in Nat
  <2> HIDE DEF Stored, Open
  <2>1. QED
    BY <1>3
<1>8. QED
  BY <1>3, <1>4, <1>5, <1>6, <1>7

(* push() moves a decision and loses none.                                 *)
LEMMA PushFacts ==
    ASSUME NEW s, Wellformed(s), NEW p \in Seats, NEW tail \in BOOLEAN
    PROVE  /\ Wellformed(Columns!Push(s, p, tail))
           /\ \A q \in Seats : SameSteps(s, Columns!Push(s, p, tail), q)
           /\ Columns!Push(s, p, tail).pending[p] = <<>>
           /\ \A q \in Seats \ {p} :
                 /\ Columns!Push(s, p, tail).pending[q] = s.pending[q]
                 /\ Columns!Push(s, p, tail).stored[q] = s.stored[q]
<1> DEFINE t == Columns!Push(s, p, tail)
           D == 0 .. NumSteps - 1
<1>1. /\ s \in ColumnsAt(D) /\ p \in {0, 1} /\ States = ColumnsAt(D)
      /\ Stored = StoredAt(D) /\ Open = OpenAt(D)
  BY DEF Wellformed, States, Seats, Stored, Open
<1>2. t \in ColumnsAt(D) /\ Pushed(s, t, p, tail)
  BY <1>1, PushShape
<1> HIDE DEF t, D
<1>3. s.pending \in [Seats -> Seq(Open)] /\ s.stored \in [Seats -> Seq(Stored)]
  BY <1>1, Fields DEF Seats
<1>4. /\ t.pending[p] = <<>>
      /\ t.stored[p] = Closed(s.pending[p], s.stored[p], s.accumulated[p])
      /\ \A q \in Seats \ {p} : t.pending[q] = s.pending[q] /\ t.stored[q] = s.stored[q]
  BY <1>2, <1>3 DEF Pushed
<1>5. Wellformed(t)
  <2>1. Len(<<>>) <= 1 /\ \A q \in Seats : Len(s.pending[q]) <= 1
    BY DEF Wellformed
  <2>2. ASSUME NEW q \in Seats PROVE Len(t.pending[q]) <= 1
    BY <1>4, <2>1
  <2>3. QED
    BY <1>1, <1>2, <2>2 DEF Wellformed
<1>6. ASSUME NEW q \in Seats \ {p} PROVE SameSteps(s, t, q)
  BY <1>4 DEF SameSteps, Decisions
<1>7. SameSteps(s, t, p)
  <2> DEFINE x == s.pending[p][1]
             r == [step |-> x.step, value |-> x.value, done |-> x.done,
                   reward |-> s.accumulated[p]]
  <2>1. /\ s.pending[p] \in Seq(Open) /\ s.stored[p] \in Seq(Stored)
        /\ t.stored[p] \in Seq(Stored) /\ Len(s.pending[p]) <= 1
    BY <1>1, <1>2, <1>3, Fields DEF Wellformed
  <2>2. Decisions(t, p) = t.stored[p]
    <3> HIDE DEF Stored
    <3>1. QED
      BY <1>4, <2>1 DEF Decisions
  <2>3. CASE s.pending[p] = <<>>
    <3>1. t.stored[p] = s.stored[p]
      BY <1>4, <2>3 DEF Closed
    <3>2. Decisions(s, p) = s.stored[p]
      BY <2>1, <2>3 DEF Decisions
    <3>3. QED
      BY <2>2, <3>1, <3>2 DEF SameSteps
  <2>4. CASE s.pending[p] # <<>>
    <3>1. t.stored[p] = Append(s.stored[p], r) /\ r.step = x.step
      BY <1>4, <2>4 DEF Closed
    <3>2. s.pending[p] = <<x>> /\ x \in Open
      <4> HIDE DEF Open
      <4>1. Len(s.pending[p]) = 1
        <5>1. Len(s.pending[p]) # 0
          BY <2>1, <2>4
        <5>2. Len(s.pending[p]) \in Nat
          BY <2>1
        <5>3. \A n \in Nat : n <= 1 /\ n # 0 => n = 1
          OBVIOUS
        <5>4. QED
          BY <2>1, <5>1, <5>2, <5>3, Zenon
      <4>2. QED
        BY <2>1, <4>1
    <3> HIDE DEF x, r
    <3>3. Decisions(s, p) = Append(s.stored[p], x)
      <4>1. s.stored[p] \in Seq(Stored \cup Open) /\ x \in Stored \cup Open
        BY <2>1, <3>2
      <4>2. QED
        BY <3>2, <4>1 DEF Decisions
    <3>4. QED
      BY <2>1, <2>2, <3>1, <3>3 DEF SameSteps
  <2>5. QED
    BY <2>3, <2>4
<1>8. QED
  BY <1>4, <1>5, <1>6, <1>7 DEF t

(* The end of a hand and the end of a rollout close both seats' decisions. *)
LEMMA BothPushes ==
    ASSUME NEW s, Wellformed(s), NEW tail \in BOOLEAN
    PROVE  /\ Wellformed(Columns!Push(Columns!Push(s, 0, tail), 1, tail))
           /\ \A q \in Seats :
                 /\ SameSteps(s, Columns!Push(Columns!Push(s, 0, tail), 1, tail), q)
                 /\ Columns!Push(Columns!Push(s, 0, tail), 1, tail).pending[q] = <<>>
<1>1. 0 \in Seats /\ 1 \in Seats /\ \A q \in Seats : q = 0 \/ q = 1
  BY DEF Seats
<1> DEFINE t == Columns!Push(s, 0, tail)
           u == Columns!Push(t, 1, tail)
<1>2. /\ Wellformed(t) /\ \A q \in Seats : SameSteps(s, t, q)
      /\ t.pending[0] = <<>>
  BY <1>1, PushFacts
<1> HIDE DEF t
<1>3. /\ Wellformed(u) /\ \A q \in Seats : SameSteps(t, u, q)
      /\ u.pending[1] = <<>> /\ u.pending[0] = t.pending[0]
  BY <1>1, <1>2, PushFacts
<1> HIDE DEF u
<1>4. ASSUME NEW q \in Seats PROVE SameSteps(s, u, q)
  BY <1>2, <1>3 DEF SameSteps
<1>5. \A q \in Seats : u.pending[q] = <<>>
  BY <1>1, <1>2, <1>3
<1>6. QED
  BY <1>3, <1>4, <1>5 DEF u, t

(* What leaves the decisions alone, whatever it does to rewards and flags. *)
LEMMA RelabelFacts ==
    ASSUME NEW s, Wellformed(s), NEW t,
           NEW accumulated \in [Seats -> Int], NEW nextDone \in [Seats -> {0, 1}],
           t = Relabel(s, accumulated, nextDone)
    PROVE  Wellformed(t) /\ \A q \in Seats : SameSteps(s, t, q)
<1>1. /\ s \in ColumnsAt(0 .. NumSteps - 1)
      /\ accumulated \in [{0, 1} -> Int] /\ nextDone \in [{0, 1} -> {0, 1}]
  BY DEF Wellformed, States, Seats
<1>2. /\ t \in ColumnsAt(0 .. NumSteps - 1)
      /\ t.pending = s.pending /\ t.stored = s.stored
  BY <1>1, Relabelled
<1>3. QED
  BY <1>2 DEF Wellformed, States, SameSteps, Decisions

(* step_reward.                                                            *)
LEMMA StepRewardFacts ==
    ASSUME NEW s, Wellformed(s), NEW r \in Int
    PROVE  /\ Wellformed(Columns!StepReward(s, r))
           /\ \A q \in Seats : SameSteps(s, Columns!StepReward(s, r), q)
<1>1. s \in States
  BY DEF Wellformed
<1>2. s.accumulated \in [Seats -> Int] /\ s.nextDone \in [Seats -> {0, 1}]
  BY <1>1, StatesAre
<1> DEFINE a == [s.accumulated EXCEPT ![0] = @ + r, ![1] = @ - r]
<1>3. a \in [Seats -> Int]
  BY <1>2 DEF Seats
<1>4. Columns!StepReward(s, r) = Relabel(s, a, s.nextDone)
  BY <1>1 DEF Columns!StepReward, States, ColumnsAt, Relabel
<1> HIDE DEF a
<1>5. QED
  BY <1>2, <1>3, <1>4, RelabelFacts

(* flush_on_terminal.                                                      *)
LEMMA FlushOnTerminalFacts ==
    ASSUME NEW s, Wellformed(s)
    PROVE  /\ Wellformed(Columns!FlushOnTerminal(s))
           /\ \A q \in Seats : SameSteps(s, Columns!FlushOnTerminal(s), q)
<1> DEFINE u == Columns!Push(Columns!Push(s, 0, TRUE), 1, TRUE)
           a == [p \in Seats |-> 0]
           d == [p \in Seats |-> 1]
<1>1. Wellformed(u) /\ \A q \in Seats : SameSteps(s, u, q)
  BY BothPushes
<1>2. a \in [Seats -> Int] /\ d \in [Seats -> {0, 1}]
  OBVIOUS
<1>3. Columns!FlushOnTerminal(s) = Relabel(u, a, d)
  BY DEF Columns!FlushOnTerminal, Columns!Seats, Seats, Relabel
<1> DEFINE t == Columns!FlushOnTerminal(s)
<1> HIDE DEF u, a, d, t
<1>4. Wellformed(t) /\ \A q \in Seats : SameSteps(u, t, q)
  BY <1>1, <1>2, <1>3, RelabelFacts DEF t
<1>5. \A q \in Seats : SameSteps(s, t, q)
  BY <1>1, <1>4 DEF SameSteps
<1>6. QED
  BY <1>4, <1>5 DEF t

(* flush_on_rollout_end.                                                   *)
LEMMA FlushOnRolloutEndFacts ==
    ASSUME NEW s, Wellformed(s)
    PROVE  /\ Wellformed(Columns!FlushOnRolloutEnd(s))
           /\ \A q \in Seats : SameSteps(s, Columns!FlushOnRolloutEnd(s), q)
<1> DEFINE u == Columns!Push(Columns!Push(s, 0, FALSE), 1, FALSE)
           a == [p \in Seats |-> IF s.pending[p] = <<>> THEN u.accumulated[p] ELSE 0]
           t == Columns!FlushOnRolloutEnd(s)
<1>1. Wellformed(u) /\ \A q \in Seats : SameSteps(s, u, q)
  BY BothPushes
<1>2. t = [u EXCEPT !.accumulated = a]
  BY DEF Columns!FlushOnRolloutEnd, Columns!Seats, Seats
<1> HIDE DEF u, t
<1>3. u \in States
  BY <1>1 DEF Wellformed
<1>4. u.accumulated \in [Seats -> Int] /\ u.nextDone \in [Seats -> {0, 1}]
  BY <1>3, StatesAre
<1>5. a \in [Seats -> Int]
  BY <1>4
<1> HIDE DEF a
<1>6. t = Relabel(u, a, u.nextDone)
  BY <1>2, <1>3, StatesAre DEF Relabel
<1>7. Wellformed(t) /\ \A q \in Seats : SameSteps(u, t, q)
  BY <1>1, <1>4, <1>5, <1>6, RelabelFacts
<1>8. \A q \in Seats : SameSteps(s, t, q)
  BY <1>1, <1>7 DEF SameSteps
<1>9. QED
  BY <1>7, <1>8 DEF t

(* record_step: one more decision of the seat, of this step.               *)
LEMMA RecordStepFacts ==
    ASSUME NEW s, Wellformed(s), NEW p \in Seats,
           NEW n \in 0 .. NumSteps - 1, NEW value \in Int
    PROVE  /\ Wellformed(Columns!RecordStep(s, p, n, value))
           /\ OneMore(s, Columns!RecordStep(s, p, n, value), p, n)
           /\ \A q \in Seats \ {p} : SameSteps(s, Columns!RecordStep(s, p, n, value), q)
<1> DEFINE c == Columns!Push(s, p, FALSE)
           o == [step |-> n, value |-> value, done |-> s.nextDone[p]]
           k == IF s.pending[p] = <<>> THEN c.accumulated[p] ELSE 0
           t == Columns!RecordStep(s, p, n, value)
<1>1. /\ Wellformed(c) /\ \A q \in Seats : SameSteps(s, c, q)
      /\ c.pending[p] = <<>>
  BY PushFacts
<1>2. t = [c EXCEPT !.pending[p] = <<o>>, !.accumulated[p] = k, !.nextDone[p] = 0]
  BY DEF Columns!RecordStep
<1>3. s.nextDone[p] \in {0, 1}
  BY StatesAre DEF Wellformed, Seats
<1>4. o \in Open /\ o.step = n
  BY <1>3 DEF Open, OpenAt
<1> HIDE DEF c, o, t
<1>5. /\ c \in States
      /\ c.pending \in [Seats -> Seq(Open)] /\ c.accumulated \in [Seats -> Int]
      /\ c.nextDone \in [Seats -> {0, 1}]
      /\ c.tailWasTerminal \in [Seats -> BOOLEAN]
      /\ c.stored \in [Seats -> Seq(Stored)]
      /\ \A q \in Seats : Len(c.pending[q]) <= 1
  BY <1>1, StatesAre DEF Wellformed
<1>6. k \in Int
  BY <1>5
<1> HIDE DEF k
<1>7. /\ t.pending = [c.pending EXCEPT ![p] = <<o>>]
      /\ t.accumulated = [c.accumulated EXCEPT ![p] = k]
      /\ t.nextDone = [c.nextDone EXCEPT ![p] = 0]
      /\ t.tailWasTerminal = c.tailWasTerminal /\ t.stored = c.stored
  BY <1>2, <1>5, StatesAre
<1>8. t = [pending |-> t.pending, accumulated |-> t.accumulated,
           nextDone |-> t.nextDone, tailWasTerminal |-> t.tailWasTerminal,
           stored |-> t.stored]
  BY <1>2, <1>5, StatesAre
<1>9. <<o>> \in Seq(Open) /\ Len(<<o>>) = 1 /\ <<o>>[1] = o
  BY <1>4
<1>10. /\ t.pending \in [Seats -> Seq(Open)] /\ t.accumulated \in [Seats -> Int]
       /\ t.nextDone \in [Seats -> {0, 1}]
  BY <1>5, <1>6, <1>7, <1>9
<1>11. t \in States
  BY <1>5, <1>7, <1>8, <1>10, StatesAre
<1>12. /\ t.pending[p] = <<o>>
       /\ \A q \in Seats \ {p} : t.pending[q] = c.pending[q]
  BY <1>5, <1>7
<1>13. Wellformed(t)
  <2>1. ASSUME NEW q \in Seats PROVE Len(t.pending[q]) <= 1
    <3>1. Len(<<o>>) <= 1
      BY <1>9
    <3>2. QED
      BY <3>1, <1>5, <1>12, Zenon
  <2>2. QED
    BY <2>1, <1>11 DEF Wellformed
<1>14. ASSUME NEW q \in Seats \ {p} PROVE SameSteps(s, t, q)
  <2>1. Decisions(t, q) = Decisions(c, q)
    BY <1>7, <1>12 DEF Decisions
  <2>2. SameSteps(s, c, q)
    BY <1>1
  <2>3. QED
    BY <2>1, <2>2 DEF SameSteps
<1>15. OneMore(s, t, p, n)
  <2>1. c.stored[p] \in Seq(Stored)
    BY <1>5
  <2>2. c.stored[p] \in Seq(Stored \cup Open) /\ o \in Stored \cup Open
    BY <2>1, <1>4
  <2>3. Decisions(c, p) = c.stored[p]
    BY <1>1, <2>1 DEF Decisions
  <2>4. Decisions(t, p) = Append(c.stored[p], o)
    <3>1. Decisions(t, p) = c.stored[p] \o <<o>>
      BY <1>7, <1>12 DEF Decisions
    <3>2. QED
      BY <3>1, <2>2
  <2>5. /\ Len(Decisions(t, p)) = Len(c.stored[p]) + 1
        /\ \A i \in 1 .. Len(c.stored[p]) : Decisions(t, p)[i] = c.stored[p][i]
        /\ Decisions(t, p)[Len(c.stored[p]) + 1] = o
    BY <2>2, <2>4
  <2>6. /\ Len(c.stored[p]) = Len(Decisions(s, p))
        /\ \A i \in 1 .. Len(Decisions(s, p)) :
              c.stored[p][i].step = Decisions(s, p)[i].step
    BY <1>1, <2>3 DEF SameSteps
  <2>7. QED
    BY <2>5, <2>6, <1>4 DEF OneMore
<1>16. QED
  BY <1>13, <1>14, <1>15 DEF t
-----------------------------------------------------------------------------
(* EveryDecisionStored and OnlyLiveActionsStored for one seat: its         *)
(* decisions in s are those the learner took in T, in their order.         *)
LearnersOf(T, p) ==
    {q \in 0 .. Len(T) - 1 : T[q + 1].seat = p /\ LearnerDecided(T[q + 1])}

Told(s, T, p) ==
    /\ \A i \in 1 .. Len(Decisions(s, p)) :
          LET q == Decisions(s, p)[i].step
          IN  q \in LearnersOf(T, p) /\ T[q + 1].policy = Live
    /\ \A q \in LearnersOf(T, p) :
          \E i \in 1 .. Len(Decisions(s, p)) : Decisions(s, p)[i].step = q
    /\ \A i, j \in 1 .. Len(Decisions(s, p)) :
          i < j => Decisions(s, p)[i].step < Decisions(s, p)[j].step

LEMMA ToldOfTheSame ==
    ASSUME NEW s, NEW t, NEW T, NEW p \in Seats, Told(s, T, p), SameSteps(s, t, p)
    PROVE  Told(t, T, p)
  BY DEF Told, SameSteps

(* A turn that is not the seat's own, or not the learner's, adds nothing.  *)
LEMMA ToldOfNothingNew ==
    ASSUME NEW s, NEW T \in Seq(Turns), NEW turn \in Turns, NEW p \in Seats,
           Told(s, T, p), turn.seat # p \/ ~LearnerDecided(turn)
    PROVE  Told(s, Append(T, turn), p)
<1> DEFINE U == Append(T, turn)
<1> HIDE DEF Turns
<1>1. /\ Len(U) = Len(T) + 1 /\ Len(T) \in Nat
      /\ \A q \in 0 .. Len(T) - 1 : U[q + 1] = T[q + 1]
      /\ U[Len(T) + 1] = turn
  OBVIOUS
<1> HIDE DEF U
<1>2. LearnersOf(U, p) = LearnersOf(T, p)
  BY <1>1 DEF LearnersOf
<1>3. \A q \in LearnersOf(T, p) : U[q + 1] = T[q + 1]
  BY <1>1 DEF LearnersOf
<1>4. QED
  BY <1>2, <1>3 DEF Told, U

(* The learner's turn adds the decision that is recorded.                  *)
LEMMA ToldOfOneMore ==
    ASSUME NEW s, NEW t, NEW T \in Seq(Turns), NEW turn \in Turns, NEW p \in Seats,
           Wellformed(s), Told(s, T, p), OneMore(s, t, p, Len(T)),
           turn.seat = p, LearnerDecided(turn), turn.policy = Live
    PROVE  Told(t, Append(T, turn), p)
<1> DEFINE U == Append(T, turn)
           n == Len(Decisions(s, p))
<1> HIDE DEF Turns
<1>1. /\ Len(U) = Len(T) + 1 /\ Len(T) \in Nat
      /\ \A q \in 0 .. Len(T) - 1 : U[q + 1] = T[q + 1]
      /\ U[Len(T) + 1] = turn
  OBVIOUS
<1>2. n \in Nat
  BY DecisionsFacts
<1>3. /\ Len(Decisions(t, p)) = n + 1
      /\ \A i \in 1 .. n : Decisions(t, p)[i].step = Decisions(s, p)[i].step
      /\ Decisions(t, p)[n + 1].step = Len(T)
  BY DEF OneMore
<1> HIDE DEF U, n
<1>4. LearnersOf(U, p) = LearnersOf(T, p) \cup {Len(T)}
  BY <1>1 DEF LearnersOf
<1>5. /\ \A q \in LearnersOf(T, p) : U[q + 1] = T[q + 1]
      /\ LearnersOf(T, p) \subseteq 0 .. Len(T) - 1
  BY <1>1 DEF LearnersOf
<1>6. ASSUME NEW i \in 1 .. n + 1
      PROVE  LET q == Decisions(t, p)[i].step
             IN  q \in LearnersOf(U, p) /\ U[q + 1].policy = Live
  <2>1. CASE i = n + 1
    BY <2>1, <1>1, <1>3, <1>4
  <2>2. CASE i # n + 1
    <3>1. i \in 1 .. n
      BY <2>2, <1>2
    <3>2. Decisions(s, p)[i].step \in LearnersOf(T, p)
          /\ T[Decisions(s, p)[i].step + 1].policy = Live
      BY <3>1 DEF Told, n
    <3>3. QED
      BY <3>1, <3>2, <1>3, <1>4, <1>5
  <2>3. QED
    BY <2>1, <2>2
<1>7. ASSUME NEW q \in LearnersOf(U, p)
      PROVE  \E i \in 1 .. n + 1 : Decisions(t, p)[i].step = q
  <2>1. CASE q = Len(T)
    BY <2>1, <1>2, <1>3
  <2>2. CASE q # Len(T)
    <3>1. PICK i \in 1 .. n : Decisions(s, p)[i].step = q
      BY <2>2, <1>4 DEF Told, n
    <3>2. i \in 1 .. n + 1
      BY <1>2
    <3>3. QED
      BY <3>1, <3>2, <1>3
  <2>3. QED
    BY <2>1, <2>2
<1>8. ASSUME NEW i \in 1 .. n + 1, NEW j \in 1 .. n + 1, i < j
      PROVE  Decisions(t, p)[i].step < Decisions(t, p)[j].step
  <2>1. i \in 1 .. n
    BY <1>2, <1>8
  <2>2. CASE j = n + 1
    <3>1. Decisions(s, p)[i].step \in LearnersOf(T, p)
      BY <2>1 DEF Told, n
    <3>2. Decisions(s, p)[i].step \in 0 .. Len(T) - 1
      BY <3>1, <1>5
    <3>3. QED
      BY <2>1, <2>2, <3>2, <1>1, <1>3
  <2>3. CASE j # n + 1
    <3>1. j \in 1 .. n
      BY <2>3, <1>2
    <3>2. Decisions(s, p)[i].step < Decisions(s, p)[j].step
      BY <2>1, <3>1, <1>8 DEF Told, n
    <3>3. QED
      BY <2>1, <3>1, <3>2, <1>3
  <2>4. QED
    BY <2>2, <2>3
<1>9. QED
  BY <1>3, <1>6, <1>7, <1>8 DEF Told, U
-----------------------------------------------------------------------------
(* What step_body makes of an environment's record: one more decision of   *)
(* the actor if it is to be recorded, and nothing else.                    *)
Grown(e, s) ==
    /\ Wellformed(s)
    /\ \A p \in Seats :
          IF p = player[e] /\ ShouldRecord(e, p) THEN OneMore(rollout[e], s, p, step)
                                                ELSE SameSteps(rollout[e], s, p)

(* step_body for one environment, with what follows it forgotten.          *)
Stepped(e) ==
    /\ BeginStep(e)
    /\ player' \in [Envs -> Seats]
    /\ \E s : Grown(e, s) /\ rollout' = [rollout EXCEPT ![e] = s]
    /\ \/ UNCHANGED <<hand, didReset>>
       \/ /\ hand' = [hand EXCEPT ![e] = @ + 1]
          /\ didReset' = didReset \cup {e}

LEMMA OneMoreAndTheSame ==
    ASSUME NEW s, Wellformed(s), NEW c, NEW t, NEW p \in Seats, NEW n,
           OneMore(s, c, p, n), SameSteps(c, t, p)
    PROVE  OneMore(s, t, p, n)
<1> DEFINE k == Len(Decisions(s, p))
<1>1. k \in Nat
  BY DecisionsFacts
<1>2. k + 1 \in 1 .. k + 1 /\ \A i \in 1 .. k : i \in 1 .. k + 1
  BY <1>1
<1> HIDE DEF k
<1>3. /\ Len(Decisions(c, p)) = k + 1 /\ Len(Decisions(t, p)) = k + 1
      /\ \A i \in 1 .. k + 1 : Decisions(t, p)[i].step = Decisions(c, p)[i].step
      /\ \A i \in 1 .. k : Decisions(c, p)[i].step = Decisions(s, p)[i].step
      /\ Decisions(c, p)[k + 1].step = n
  BY DEF OneMore, SameSteps, k
<1>4. QED
  BY <1>2, <1>3 DEF OneMore, k

LEMMA GrownAndTheSame ==
    ASSUME NEW e, Wellformed(rollout[e]), NEW s, Grown(e, s), NEW t, Wellformed(t),
           \A q \in Seats : SameSteps(s, t, q)
    PROVE  Grown(e, t)
<1>1. ASSUME NEW p \in Seats
      PROVE  IF p = player[e] /\ ShouldRecord(e, p) THEN OneMore(rollout[e], t, p, step)
                                                    ELSE SameSteps(rollout[e], t, p)
  <2>1. CASE p = player[e] /\ ShouldRecord(e, p)
    BY <2>1, OneMoreAndTheSame DEF Grown
  <2>2. CASE ~(p = player[e] /\ ShouldRecord(e, p))
    <3>1. SameSteps(rollout[e], s, p) /\ SameSteps(s, t, p)
      BY <2>2 DEF Grown
    <3>2. SameSteps(rollout[e], t, p)
      BY <3>1 DEF SameSteps
    <3>3. QED
      BY <2>2, <3>2
  <2>3. QED
    BY <2>1, <2>2
<1>2. QED
  BY <1>1 DEF Grown

LEMMA RecordedGrows ==
    ASSUME TypeOK, step < NumSteps, NEW e \in Envs
    PROVE  Wellformed(rollout[e]) /\ Grown(e, Recorded(e))
<1>1. Wellformed(rollout[e]) /\ player[e] \in Seats
  BY DEF TypeOK, Wellformed
<1>2. step \in 0 .. NumSteps - 1 /\ step \in 0 .. NumSteps
  BY TrainingAssumption DEF TypeOK
<1>3. Critic[step] \in Int
  BY <1>2, TrainingAssumption
<1>4. CASE ShouldRecord(e, player[e])
  <2>1. Recorded(e) = Columns!RecordStep(rollout[e], player[e], step, Critic[step])
    BY <1>4 DEF Recorded
  <2>2. /\ Wellformed(Recorded(e))
        /\ OneMore(rollout[e], Recorded(e), player[e], step)
        /\ \A q \in Seats \ {player[e]} : SameSteps(rollout[e], Recorded(e), q)
    BY <2>1, <1>1, <1>2, <1>3, RecordStepFacts
  <2>3. QED
    BY <2>2, <1>1, <1>4 DEF Grown
<1>5. CASE ~ShouldRecord(e, player[e])
  <2>1. Recorded(e) = rollout[e]
    BY <1>5 DEF Recorded
  <2>2. \A q \in Seats : SameSteps(rollout[e], rollout[e], q)
    BY DEF SameSteps
  <2>3. QED
    BY <2>1, <2>2, <1>1, <1>5 DEF Grown
<1>6. QED
  BY <1>1, <1>4, <1>5

LEMMA GoesOnSteps ==
    ASSUME TypeOK, TurnsInStep, NEW e \in Envs, NEW next \in NextActors(player[e]),
           HandGoesOn(e, next)
    PROVE  Stepped(e)
<1>1. step < NumSteps
  BY DEF HandGoesOn, BeginStep, TurnsInStep
<1>2. Wellformed(rollout[e]) /\ Grown(e, Recorded(e))
  BY <1>1, RecordedGrows
<1>3. Wellformed(Recorded(e))
  BY <1>2 DEF Grown
<1>4. Grown(e, Columns!StepReward(Recorded(e), 0))
  BY <1>2, <1>3, StepRewardFacts, GrownAndTheSame
<1>5. player' \in [Envs -> Seats]
  BY DEF HandGoesOn, TypeOK, NextActors, Seats
<1>6. QED
  BY <1>4, <1>5 DEF HandGoesOn, Stepped

LEMMA EndsSteps ==
    ASSUME TypeOK, TurnsInStep, NEW e \in Envs, NEW r \in Rewards, HandEnds(e, r)
    PROVE  Stepped(e)
<1>1. step < NumSteps
  BY DEF HandEnds, BeginStep, TurnsInStep
<1>2. Wellformed(rollout[e]) /\ Grown(e, Recorded(e))
  BY <1>1, RecordedGrows
<1>3. Wellformed(Recorded(e))
  BY <1>2 DEF Grown
<1>4. r \in Int
  BY TrainingAssumption
<1> DEFINE s == Columns!StepReward(Recorded(e), r)
<1>5. Wellformed(s) /\ Grown(e, s)
  BY <1>2, <1>3, <1>4, StepRewardFacts, GrownAndTheSame
<1> HIDE DEF s
<1>6. Grown(e, Columns!FlushOnTerminal(s))
  BY <1>2, <1>5, FlushOnTerminalFacts, GrownAndTheSame
<1>7. player' \in [Envs -> Seats]
  BY DEF HandEnds, TypeOK, Seats
<1>8. QED
  BY <1>6, <1>7 DEF HandEnds, Stepped, s

(* A step adds one turn to its environment, and touches no other one.      *)
LEMMA TurnFacts ==
    ASSUME TypeOK, TurnsInStep, NEW e \in Envs, Stepped(e)
    PROVE  /\ Turn(e) \in Turns
           /\ turns' \in [Envs -> Seq(Turns)]
           /\ turns'[e] = Append(turns[e], Turn(e))
           /\ Len(turns'[e]) = Len(turns[e]) + 1 /\ Len(turns[e]) = step
           /\ \A i \in DOMAIN turns'[e] :
                 \/ turns'[e][i] = Turn(e)
                 \/ i \in DOMAIN turns[e] /\ turns'[e][i] = turns[e][i]
           /\ \A f \in Envs \ {e} : turns'[f] = turns[f]
<1>1. turns \in [Envs -> Seq(Turns)] /\ turns[e] \in Seq(Turns)
  BY DEF TypeOK
<1>2. assigned[e] \in Assignment /\ player[e] \in Seats /\ hand[e] \in Nat
  BY DEF TypeOK
<1>3. ActingPolicy(e, player[e]) \in Nat
  BY <1>2 DEF ActingPolicy, Assignment, Live
<1>4. Turn(e) \in Turns
  BY <1>2, <1>3 DEF Turn, Turns
<1>5. turns' = [turns EXCEPT ![e] = Append(@, Turn(e))]
  BY DEF Stepped, BeginStep
<1>6. Len(turns[e]) = step
  <2>1. phase = "sweep" /\ e \notin stepped
    BY DEF Stepped, BeginStep
  <2>2. Len(turns[e]) = step + 0
    BY <2>1 DEF TurnsInStep
  <2>3. step \in Int
    BY DEF TypeOK
  <2>4. QED
    BY <2>2, <2>3
<1> DEFINE turn == Turn(e)
<1> HIDE DEF turn, Turns
<1>7. turn \in Turns /\ turns' = [turns EXCEPT ![e] = Append(@, turn)]
  BY <1>4, <1>5 DEF turn
<1>8. /\ turns' \in [Envs -> Seq(Turns)]
      /\ turns'[e] = Append(turns[e], turn)
      /\ \A f \in Envs \ {e} : turns'[f] = turns[f]
  BY <1>1, <1>7
<1>9. Len(turns'[e]) = Len(turns[e]) + 1
  BY <1>1, <1>7, <1>8
<1>10. \A i \in DOMAIN turns'[e] :
          \/ turns'[e][i] = turn
          \/ i \in DOMAIN turns[e] /\ turns'[e][i] = turns[e][i]
  BY <1>1, <1>7, <1>8
<1>11. QED
  BY <1>6, <1>7, <1>8, <1>9, <1>10 DEF turn

LEMMA TurnsInStepStepped ==
    ASSUME TypeOK, TurnsInStep, NEW e \in Envs, Stepped(e)
    PROVE  TurnsInStep'
<1>1. /\ phase = "sweep" /\ phase' = phase /\ step' = step /\ update' = update
      /\ stepped' = stepped \cup {e} /\ e \notin stepped
      /\ step \in Nat /\ NumSteps \in Nat
  BY TrainingAssumption DEF Stepped, BeginStep, TypeOK
<1>2. step < NumSteps /\ update < MaxUpdates
  BY <1>1 DEF TurnsInStep
<1>3. PICK s : Grown(e, s) /\ rollout' = [rollout EXCEPT ![e] = s]
  BY DEF Stepped
<1>4. rollout'[e] = s /\ \A f \in Envs \ {e} : rollout'[f] = rollout[f]
  BY <1>3 DEF TypeOK
<1>5. ASSUME NEW p \in Seats
      PROVE  Len(rollout'[e].stored[p]) + Len(rollout'[e].pending[p]) <= Len(turns'[e])
  <2>1. Wellformed(rollout[e]) /\ Wellformed(s)
    BY <1>3 DEF TypeOK, Wellformed, Grown
  <2>2. /\ Len(Decisions(s, p)) = Len(s.stored[p]) + Len(s.pending[p])
        /\ Len(Decisions(rollout[e], p))
               = Len(rollout[e].stored[p]) + Len(rollout[e].pending[p])
        /\ Len(Decisions(rollout[e], p)) \in Nat
    BY <2>1, DecisionsFacts
  <2>3. \/ Len(Decisions(s, p)) = Len(Decisions(rollout[e], p)) + 1
        \/ Len(Decisions(s, p)) = Len(Decisions(rollout[e], p))
    BY <1>3 DEF Grown, OneMore, SameSteps
  <2>4. Len(Decisions(rollout[e], p)) <= Len(turns[e])
    BY <2>2 DEF TurnsInStep
  <2>5. Len(turns[e]) = step /\ Len(turns'[e]) = step + 1
    BY TurnFacts
  <2>6. Len(Decisions(s, p)) <= Len(turns'[e])
    <3> DEFINE m == Len(Decisions(rollout[e], p))
               n == Len(Decisions(s, p))
    <3>1. m \in Nat /\ (n = m + 1 \/ n = m) /\ m <= step /\ Len(turns'[e]) = step + 1
      BY <2>2, <2>3, <2>4, <2>5
    <3> HIDE DEF m, n
    <3>2. n <= Len(turns'[e])
      BY <3>1, <1>1
    <3>3. QED
      BY <3>2 DEF n
  <2>7. QED
    BY <2>2, <2>6, <1>4
<1>6. ASSUME NEW f \in Envs \ {e}
      PROVE  /\ Len(turns'[f]) <= NumSteps
             /\ Len(turns'[f]) = step + (IF f \in stepped' THEN 1 ELSE 0)
             /\ \A p \in Seats : Len(rollout'[f].stored[p]) + Len(rollout'[f].pending[p])
                                     <= Len(turns'[f])
  <2>1. turns'[f] = turns[f] /\ rollout'[f] = rollout[f]
    BY <1>4, TurnFacts
  <2>2. f \in stepped' <=> f \in stepped
    BY <1>1
  <2>3. QED
    BY <2>1, <2>2, <1>1 DEF TurnsInStep
<1>7. Len(turns'[e]) = step + 1 /\ Len(turns'[e]) <= NumSteps
  BY <1>1, <1>2, TurnFacts
<1>8. ASSUME NEW f \in Envs
      PROVE  /\ Len(turns'[f]) <= NumSteps
             /\ Len(turns'[f]) = step' + (IF f \in stepped' THEN 1 ELSE 0)
             /\ \A p \in Seats : Len(rollout'[f].stored[p]) + Len(rollout'[f].pending[p])
                                     <= Len(turns'[f])
  <2>1. CASE f = e
    BY <2>1, <1>1, <1>5, <1>7
  <2>2. CASE f # e
    BY <2>2, <1>1, <1>6
  <2>3. QED
    BY <2>1, <2>2
<1>9. QED
  BY <1>1, <1>2, <1>8 DEF TurnsInStep

LEMMA TypeStepped ==
    ASSUME TypeOK, TurnsInStep, NEW e \in Envs, Stepped(e)
    PROVE  TypeOK'
<1>1. TurnsInStep'
  BY TurnsInStepStepped
<1>2. PICK s : Grown(e, s) /\ rollout' = [rollout EXCEPT ![e] = s]
  BY DEF Stepped
<1>3. s \in States /\ \A p \in Seats : Len(s.pending[p]) <= 1
  BY <1>2 DEF Grown, Wellformed
<1>4. /\ rollout' \in [Envs -> States]
      /\ \A f \in Envs, p \in Seats : Len(rollout'[f].pending[p]) <= 1
  BY <1>2, <1>3 DEF TypeOK
<1>5. ASSUME NEW f \in Envs, NEW p \in Seats
      PROVE  Len(rollout'[f].stored[p]) <= NumSteps
  <2>1. rollout'[f].stored[p] \in Seq(Stored) /\ rollout'[f].pending[p] \in Seq(Open)
    BY <1>4, StatesAre
  <2>2. turns'[f] \in Seq(Turns)
    BY TurnFacts
  <2> HIDE DEF Stored, Open, Turns
  <2>3. /\ Len(rollout'[f].stored[p]) \in Nat /\ Len(rollout'[f].pending[p]) \in Nat
        /\ Len(turns'[f]) \in Nat
    BY <2>1, <2>2, SMTT(30)
  <2>4. /\ Len(rollout'[f].stored[p]) + Len(rollout'[f].pending[p]) <= Len(turns'[f])
        /\ Len(turns'[f]) <= NumSteps
    BY <1>1 DEF TurnsInStep
  <2>5. \A a, b, c, n \in Nat : a + b <= c /\ c <= n => a <= n
    OBVIOUS
  <2>6. NumSteps \in Nat
    BY TrainingAssumption
  <2>7. QED
    BY <2>3, <2>4, <2>5, <2>6, Zenon
<1>6. /\ hand' \in [Envs -> Nat] /\ didReset' \subseteq stepped' /\ stepped' \subseteq Envs
  BY DEF Stepped, BeginStep, TypeOK
<1>7. turns' \in [Envs -> Seq(Turns)]
  BY TurnFacts
<1>8. player' \in [Envs -> Seats]
  BY DEF Stepped
<1>9. UNCHANGED <<managerVars, phase, update, step, advantages>>
  BY DEF Stepped, BeginStep
<1>10. QED
  BY <1>4, <1>5, <1>6, <1>7, <1>8, <1>9 DEF TypeOK, managerVars, poolVars

(* What a step leaves alone, and how hands are counted.                    *)
LEMMA SteppedFrame ==
    ASSUME TypeOK, NEW e \in Envs, Stepped(e)
    PROVE  /\ UNCHANGED <<managerVars, phase, update, step>>
           /\ phase = "sweep" /\ e \notin didReset
           /\ hand[e] \in Nat
           /\ \A f \in Envs \ {e} :
                 hand'[f] = hand[f] /\ (f \in didReset' <=> f \in didReset)
           /\ \/ hand'[e] = hand[e] /\ didReset' = didReset
              \/ hand'[e] = hand[e] + 1 /\ e \in didReset'
<1>1. /\ UNCHANGED <<managerVars, phase, update, step>>
      /\ phase = "sweep" /\ e \notin didReset
  BY DEF Stepped, BeginStep, TypeOK
<1>2. hand \in [Envs -> Nat]
  BY DEF TypeOK
<1>3. CASE UNCHANGED <<hand, didReset>>
  BY <1>1, <1>2, <1>3
<1>4. CASE hand' = [hand EXCEPT ![e] = @ + 1] /\ didReset' = didReset \cup {e}
  BY <1>1, <1>2, <1>4
<1>5. QED
  BY <1>3, <1>4 DEF Stepped

LEMMA TurnsOfThisHandStepped ==
    ASSUME TypeOK, TurnsInStep, TurnsOfThisHand, NEW e \in Envs, Stepped(e)
    PROVE  TurnsOfThisHand'
<1>1. /\ assigned' = assigned /\ e \notin didReset /\ hand[e] \in Nat
      /\ \A f \in Envs \ {e} :
            hand'[f] = hand[f] /\ (f \in didReset' <=> f \in didReset)
      /\ \/ hand'[e] = hand[e] /\ didReset' = didReset
         \/ hand'[e] = hand[e] + 1 /\ e \in didReset'
  BY SteppedFrame DEF managerVars
<1>2. Turn(e).hand = hand[e] /\ Turn(e).against = assigned[e]
  BY DEF Turn
<1>3. ASSUME NEW i \in DOMAIN turns'[e]
      PROVE  /\ turns'[e][i].hand <= hand'[e]
             /\ turns'[e][i].hand = hand'[e] =>
                   turns'[e][i].against = assigned'[e] /\ e \notin didReset'
  <2>1. turns'[e][i] \in Turns
    <3>1. turns'[e] \in Seq(Turns)
      BY TurnFacts
    <3> HIDE DEF Turns
    <3>2. QED
      BY <3>1
  <2>2. turns'[e][i].hand \in Nat
    BY <2>1 DEF Turns
  <2>3. /\ turns'[e][i].hand <= hand[e]
        /\ turns'[e][i].hand = hand[e] => turns'[e][i].against = assigned[e]
    <3>1. CASE turns'[e][i] = Turn(e)
      BY <3>1, <1>1, <1>2
    <3>2. CASE i \in DOMAIN turns[e] /\ turns'[e][i] = turns[e][i]
      BY <3>2 DEF TurnsOfThisHand
    <3>3. QED
      BY <3>1, <3>2, TurnFacts
  <2>4. QED
    BY <2>2, <2>3, <1>1
<1>4. ASSUME NEW f \in Envs \ {e}, NEW i \in DOMAIN turns'[f]
      PROVE  /\ turns'[f][i].hand <= hand'[f]
             /\ turns'[f][i].hand = hand'[f] =>
                   turns'[f][i].against = assigned'[f] /\ f \notin didReset'
  <2>1. turns'[f] = turns[f]
    BY TurnFacts
  <2>2. QED
    BY <2>1, <1>1 DEF TurnsOfThisHand
<1>5. QED
  BY <1>3, <1>4 DEF TurnsOfThisHand

LEMMA OneOpponentStepped ==
    ASSUME TypeOK, TurnsInStep, TurnsOfThisHand, OneOpponentPerHand,
           NEW e \in Envs, Stepped(e)
    PROVE  OneOpponentPerHand'
<1>1. Turn(e).hand = hand[e] /\ Turn(e).against = assigned[e]
  BY DEF Turn
<1>2. ASSUME NEW i \in DOMAIN turns[e], turns[e][i].hand = hand[e]
      PROVE  turns[e][i].against = assigned[e]
  BY <1>2 DEF TurnsOfThisHand
<1>3. ASSUME NEW i \in DOMAIN turns'[e], NEW j \in DOMAIN turns'[e],
             turns'[e][i].hand = turns'[e][j].hand
      PROVE  turns'[e][i].against = turns'[e][j].against
  <2>1. /\ \/ turns'[e][i] = Turn(e)
           \/ i \in DOMAIN turns[e] /\ turns'[e][i] = turns[e][i]
        /\ \/ turns'[e][j] = Turn(e)
           \/ j \in DOMAIN turns[e] /\ turns'[e][j] = turns[e][j]
    BY TurnFacts
  <2>2. CASE turns'[e][i] = Turn(e)
    BY <2>1, <2>2, <1>1, <1>2, <1>3
  <2>3. CASE turns'[e][j] = Turn(e)
    BY <2>1, <2>3, <1>1, <1>2, <1>3
  <2>4. CASE /\ i \in DOMAIN turns[e] /\ turns'[e][i] = turns[e][i]
             /\ j \in DOMAIN turns[e] /\ turns'[e][j] = turns[e][j]
    BY <2>4, <1>3 DEF OneOpponentPerHand
  <2>5. QED
    BY <2>1, <2>2, <2>3, <2>4
<1>4. ASSUME NEW f \in Envs \ {e} PROVE turns'[f] = turns[f]
  BY TurnFacts
<1>5. QED
  BY <1>3, <1>4 DEF OneOpponentPerHand

LEMMA IdsAreOldStepped ==
    ASSUME TypeOK, TurnsInStep, IdsAreOld, NEW e \in Envs, Stepped(e)
    PROVE  IdsAreOld'
<1>1. assigned' = assigned /\ nextId' = nextId
  BY SteppedFrame DEF managerVars, poolVars
<1>2. Turn(e).against = assigned[e]
  BY DEF Turn
<1>3. ASSUME NEW i \in DOMAIN turns'[e] PROVE turns'[e][i].against.id < nextId
  <2>1. CASE turns'[e][i] = Turn(e)
    BY <2>1, <1>2 DEF IdsAreOld
  <2>2. CASE i \in DOMAIN turns[e] /\ turns'[e][i] = turns[e][i]
    BY <2>2 DEF IdsAreOld
  <2>3. QED
    BY <2>1, <2>2, TurnFacts
<1>4. ASSUME NEW f \in Envs \ {e} PROVE turns'[f] = turns[f]
  BY TurnFacts
<1>5. QED
  BY <1>1, <1>3, <1>4 DEF IdsAreOld

LEMMA FreshHandsStepped ==
    ASSUME TypeOK, TurnsInStep, FreshHandsAreSampled, NEW e \in Envs, Stepped(e)
    PROVE  FreshHandsAreSampled'
<1>1. /\ UNCHANGED <<managerVars, phase, update, step>>
      /\ phase = "sweep" /\ e \notin didReset
      /\ \A f \in Envs \ {e} :
            hand'[f] = hand[f] /\ (f \in didReset' <=> f \in didReset)
      /\ \/ hand'[e] = hand[e] /\ didReset' = didReset
         \/ hand'[e] = hand[e] + 1 /\ e \in didReset'
  BY SteppedFrame
<1>2. /\ assigned' = assigned /\ rolloutIds' = rolloutIds
      /\ snapshots' = snapshots /\ update' = update
  BY <1>1 DEF managerVars, poolVars
<1>3. Turn(e).hand = hand[e] /\ Turn(e).against = assigned[e]
  BY DEF Turn
<1>4. hand[e] > 0 => Sampled(assigned[e])
  BY <1>1 DEF FreshHandsAreSampled
<1>5. ASSUME NEW i \in DOMAIN turns'[e], turns'[e][i].hand > 0
      PROVE  Sampled(turns'[e][i].against)
  <2>1. CASE turns'[e][i] = Turn(e)
    BY <2>1, <1>3, <1>4, <1>5
  <2>2. CASE i \in DOMAIN turns[e] /\ turns'[e][i] = turns[e][i]
    BY <2>2, <1>5 DEF FreshHandsAreSampled
  <2>3. QED
    BY <2>1, <2>2, TurnFacts
<1>6. ASSUME NEW f \in Envs \ {e} PROVE turns'[f] = turns[f]
  BY TurnFacts
<1>7. ASSUME NEW f \in Envs \ didReset', hand'[f] > 0 PROVE Sampled(assigned[f])
  <2>1. CASE f = e
    BY <2>1, <1>1, <1>4, <1>7
  <2>2. CASE f # e
    BY <2>2, <1>1, <1>7 DEF FreshHandsAreSampled
  <2>3. QED
    BY <2>1, <2>2
<1>8. ASSUME NEW f \in Envs, NEW i \in DOMAIN turns'[f], turns'[f][i].hand > 0
      PROVE  Sampled(turns'[f][i].against)
  BY <1>5, <1>6, <1>8 DEF FreshHandsAreSampled
<1>9. /\ Cardinality(rolloutIds) <= Cap /\ rolloutIds \subseteq snapshots
      /\ PoolInUse(update) => rolloutIds # {}
  BY <1>1 DEF FreshHandsAreSampled
<1>10. PoolInUse(update)' = PoolInUse(update)
  BY <1>2 DEF PoolInUse
<1>11. \A a : Sampled(a)' <=> Sampled(a)
  BY <1>2 DEF Sampled
<1>12. QED
  BY <1>1, <1>2, <1>7, <1>8, <1>9, <1>10, <1>11 DEF FreshHandsAreSampled

LEMMA StaleStepped ==
    ASSUME TypeOK, TurnsInStep, FreshHandsAreSampled, StaleOnlyIfCarried,
           NEW e \in Envs, Stepped(e)
    PROVE  StaleOnlyIfCarried'
<1>1. phase = "sweep" /\ e \notin didReset /\ hand[e] \in Nat
  BY SteppedFrame
<1>2. ASSUME ~LearnerDecided(Turn(e)), Turn(e).policy = Live
      PROVE  Turn(e).hand = 0
  <2>1. assigned[e].id # Live /\ player[e] # assigned[e].seat
    BY <1>2 DEF LearnerDecided, Turn
  <2>2. assigned[e].id \notin snapshots
    BY <2>1, <1>2 DEF Turn, ActingPolicy, Overridden
  <2>3. ~Sampled(assigned[e])
    BY <2>1, <2>2, <1>1 DEF Sampled, FreshHandsAreSampled
  <2>4. ~(hand[e] > 0)
    BY <2>3, <1>1 DEF FreshHandsAreSampled
  <2>5. QED
    BY <2>4, <1>1 DEF Turn
<1>3. ASSUME NEW i \in DOMAIN turns'[e],
             ~LearnerDecided(turns'[e][i]), turns'[e][i].policy = Live
      PROVE  turns'[e][i].hand = 0
  <2>1. CASE turns'[e][i] = Turn(e)
    BY <2>1, <1>2, <1>3
  <2>2. CASE i \in DOMAIN turns[e] /\ turns'[e][i] = turns[e][i]
    BY <2>2, <1>3 DEF StaleOnlyIfCarried
  <2>3. QED
    BY <2>1, <2>2, TurnFacts
<1>4. ASSUME NEW f \in Envs \ {e} PROVE turns'[f] = turns[f]
  BY TurnFacts
<1>5. QED
  BY <1>3, <1>4 DEF StaleOnlyIfCarried

LEMMA EnvStep ==
    ASSUME Orderly, NEW e \in Envs, Stepped(e)
    PROVE  Orderly'
<1>1. /\ TypeOK /\ TurnsInStep /\ TurnsOfThisHand /\ OneOpponentPerHand
      /\ IdsAreOld /\ FreshHandsAreSampled /\ StaleOnlyIfCarried
  BY DEF Orderly
<1>2. TypeOK' /\ TurnsInStep' /\ TurnsOfThisHand'
  BY <1>1, TypeStepped, TurnsInStepStepped, TurnsOfThisHandStepped
<1>3. OneOpponentPerHand' /\ IdsAreOld' /\ FreshHandsAreSampled' /\ StaleOnlyIfCarried'
  BY <1>1, OneOpponentStepped, IdsAreOldStepped, FreshHandsStepped, StaleStepped
<1>4. QED
  BY <1>2, <1>3 DEF Orderly
-----------------------------------------------------------------------------
(* Max and Min of two numbers.                                             *)
LEMMA MaxOfTwo ==
    ASSUME NEW a \in Int, NEW b \in Int
    PROVE  Max({a, b}) = IF a >= b THEN a ELSE b
<1>1. \A x : (x \in {a, b} /\ \A y \in {a, b} : x >= y)
               <=> x = (IF a >= b THEN a ELSE b)
  OBVIOUS
<1>2. QED
  BY <1>1 DEF Max

LEMMA MinOfTwo ==
    ASSUME NEW a \in Int, NEW b \in Int
    PROVE  Min({a, b}) = IF a <= b THEN a ELSE b
<1>1. \A x : (x \in {a, b} /\ \A y \in {a, b} : x =< y)
               <=> x = (IF a <= b THEN a ELSE b)
  OBVIOUS
<1>2. QED
  BY <1>1 DEF Min

LEMMA CapFacts == Cap \in Nat \ {0} /\ Cap = Max({1, MaxUniquePerRollout})
  BY PoolAssumption, MaxOfTwo DEF Cap

LEMMA PoolIsFinite ==
    ASSUME TypeOK
    PROVE  IsFiniteSet(snapshots) /\ Cardinality(snapshots) \in Nat
<1>1. IsFiniteSet(1 .. nextId - 1)
  BY FS_Interval DEF TypeOK
<1>2. snapshots \subseteq 1 .. nextId - 1
  BY DEF TypeOK
<1>3. QED
  BY <1>1, <1>2, FS_Subset, FS_CardinalityType

(* prepare_rollout draws from the pool, no more than the cap and at least  *)
(* one if the pool is in use.                                              *)
LEMMA SampleFacts ==
    ASSUME TypeOK, PrepareRollout(update)
    PROVE  /\ rolloutIds' \subseteq snapshots
           /\ Cardinality(rolloutIds') <= Cap
           /\ PoolInUse(update) => rolloutIds' # {}
<1>1. IsFiniteSet(snapshots) /\ Cardinality(snapshots) \in Nat
  BY PoolIsFinite
<1>2. Cap \in Nat \ {0} /\ Cap = Max({1, MaxUniquePerRollout})
  BY CapFacts
<1>3. IsFiniteSet({}) /\ Cardinality({}) = 0
  BY FS_EmptySet
<1>4. CASE PoolInUse(update)
  <2>1. snapshots # {}
    BY <1>4 DEF PoolInUse
  <2>2. Cardinality(snapshots) # 0
    BY <2>1, <1>1, FS_EmptySet
  <2>3. SampleSize = IF Cap <= Cardinality(snapshots) THEN Cap ELSE Cardinality(snapshots)
    BY <1>1, <1>2, MinOfTwo DEF SampleSize
  <2>4. SampleSize <= Cap /\ SampleSize # 0
    BY <2>2, <2>3, <1>1, <1>2
  <2>5. rolloutIds' \in SUBSET snapshots /\ Cardinality(rolloutIds') = SampleSize
    BY <1>4 DEF PrepareRollout, kSubset
  <2>6. QED
    BY <2>4, <2>5, <1>3
<1>5. CASE ~PoolInUse(update)
  <2>1. rolloutIds' = {}
    BY <1>5 DEF PrepareRollout
  <2>2. QED
    BY <2>1, <1>5, <1>3, <1>2
<1>6. QED
  BY <1>4, <1>5

LEMMA FreshIsWellformed ==
    ASSUME NEW d \in {0, 1}
    PROVE  /\ Columns!Fresh(d) \in States
           /\ \A p \in Seats : /\ Columns!Fresh(d).stored[p] = <<>>
                              /\ Columns!Fresh(d).pending[p] = <<>>
  BY DEF Columns!Fresh, Columns!Seats, Seats, States, ColumnsAt

LEMMA StartRolloutStep == ASSUME Orderly, StartRollout PROVE Orderly'
<1>1. TypeOK /\ FreshHandsAreSampled /\ IdsAreOld /\ phase = "idle" /\ update < MaxUpdates
  BY DEF Orderly, StartRollout
<1>2. /\ phase' = "sweep" /\ step' = 0 /\ stepped' = {} /\ didReset' = {}
      /\ update' = update /\ player' = player
      /\ UNCHANGED <<poolVars, assigned>>
      /\ rollout' = [e \in Envs |-> Columns!Fresh(0)]
      /\ advantages' = NoAdvantages
      /\ hand' = [e \in Envs |-> 0] /\ turns' = [e \in Envs |-> <<>>]
  BY DEF StartRollout, PrepareRollout, CarryDone
<1>3. /\ rolloutIds' \subseteq snapshots
      /\ Cardinality(rolloutIds') <= Cap
      /\ PoolInUse(update) => rolloutIds' # {}
  BY <1>1, SampleFacts DEF StartRollout
<1>4. /\ rollout' \in [Envs -> States]
      /\ \A e \in Envs, p \in Seats :
            /\ Len(rollout'[e].stored[p]) = 0 /\ Len(rollout'[e].pending[p]) = 0
            /\ DOMAIN advantages'[e][p] = {}
  BY <1>2, FreshIsWellformed DEF NoAdvantages
<1>5. \A e \in Envs : turns'[e] = <<>> /\ Len(turns'[e]) = 0 /\ DOMAIN turns'[e] = {}
  BY <1>2
<1>6. TypeOK'
  <2>1. turns' \in [Envs -> Seq(Turns)] /\ hand' \in [Envs -> Nat]
    BY <1>2
  <2>2. /\ nextId' \in Nat \ {0} /\ snapshots' \subseteq 1 .. nextId' - 1
        /\ snapshots' # {} => Cardinality(snapshots') <= MaxSize
        /\ seenCount' \in Nat /\ Cardinality(snapshots') <= seenCount'
        /\ rolloutIds' \subseteq 1 .. nextId' - 1
        /\ assigned' \in [Envs -> Assignment]
    BY <1>1, <1>2, <1>3 DEF TypeOK, poolVars
  <2>3. update' \in 0 .. MaxUpdates /\ step' \in 0 .. NumSteps /\ player' \in [Envs -> Seats]
    BY <1>1, <1>2, TrainingAssumption DEF TypeOK
  <2>4. \A e \in Envs, p \in Seats :
          /\ Len(rollout'[e].pending[p]) <= 1
          /\ Len(rollout'[e].stored[p]) <= NumSteps
          /\ DOMAIN advantages'[e][p] \subseteq 1 .. NumSteps
    BY <1>4, TrainingAssumption
  <2>5. QED
    BY <1>2, <1>4, <2>1, <2>2, <2>3, <2>4 DEF TypeOK
<1>7. TurnsInStep'
  <2>1. NumSteps \in Nat /\ NumSteps > 0
    BY TrainingAssumption
  <2>2. update' < MaxUpdates /\ step' < NumSteps
    BY <1>1, <1>2, <2>1
  <2>3. ASSUME NEW e \in Envs
        PROVE  /\ Len(turns'[e]) <= NumSteps
               /\ Len(turns'[e]) = step' + (IF e \in stepped' THEN 1 ELSE 0)
               /\ \A p \in Seats : Len(rollout'[e].stored[p]) + Len(rollout'[e].pending[p])
                                       <= Len(turns'[e])
    <3>1. Len(turns'[e]) = 0 /\ step' = 0 /\ e \notin stepped'
      BY <1>2, <1>5
    <3>2. \A p \in Seats : Len(rollout'[e].stored[p]) = 0 /\ Len(rollout'[e].pending[p]) = 0
      BY <1>4
    <3>3. Len(turns'[e]) <= NumSteps
      BY <3>1, <2>1
    <3>4. Len(turns'[e]) = step' + (IF e \in stepped' THEN 1 ELSE 0)
      BY <3>1
    <3>5. \A p \in Seats : Len(rollout'[e].stored[p]) + Len(rollout'[e].pending[p])
                             <= Len(turns'[e])
      <4>1. \A x, y, z : x = 0 /\ y = 0 /\ z = 0 => x + y <= z
        OBVIOUS
      <4>2. QED
        BY <3>1, <3>2, <4>1, Zenon
    <3>6. QED
      BY <3>3, <3>4, <3>5
  <2>4. QED
    BY <2>2, <2>3 DEF TurnsInStep
<1>8. TurnsOfThisHand' /\ OneOpponentPerHand' /\ StaleOnlyIfCarried'
  BY <1>5 DEF TurnsOfThisHand, OneOpponentPerHand, StaleOnlyIfCarried
<1>9. IdsAreOld'
  BY <1>1, <1>2, <1>5 DEF IdsAreOld, poolVars
<1>10. FreshHandsAreSampled'
  <2>1. PoolInUse(update)' = PoolInUse(update) /\ snapshots' = snapshots
    BY <1>2 DEF PoolInUse, poolVars
  <2>2. QED
    BY <2>1, <1>2, <1>3, <1>5 DEF FreshHandsAreSampled
<1>11. QED
  BY <1>6, <1>7, <1>8, <1>9, <1>10 DEF Orderly

(* on_episode_terminal assigns ids that are known, and of the sample if    *)
(* there is one.                                                           *)
LEMMA AssignedFacts ==
    ASSUME TypeOK, OnEpisodeTerminal(didReset, update), didReset \subseteq Envs
    PROVE  /\ assigned' \in [Envs -> Assignment]
           /\ UNCHANGED <<poolVars, rolloutIds>>
           /\ \A e \in Envs \ didReset : assigned'[e] = assigned[e]
           /\ \A e \in didReset :
                 /\ assigned'[e].id < nextId
                 /\ (PoolInUse(update) => rolloutIds # {}) => Sampled(assigned'[e])
<1>1. PICK drawn \in [didReset -> Assignments(update)] :
          assigned' = [e \in Envs |-> IF e \in didReset THEN drawn[e] ELSE assigned[e]]
  BY DEF OnEpisodeTerminal
<1>2. /\ nextId \in Nat \ {0} /\ snapshots \subseteq 1 .. nextId - 1
      /\ rolloutIds \subseteq 1 .. nextId - 1
      /\ assigned \in [Envs -> Assignment]
  BY DEF TypeOK
<1>3. ASSUME NEW a \in Assignments(update)
      PROVE  /\ a \in Assignment /\ a.id < nextId
             /\ (PoolInUse(update) => rolloutIds # {}) => Sampled(a)
  <2>1. CASE a = SelfPlay
    BY <2>1, <1>2 DEF SelfPlay, Assignment, Live, Seats, Sampled
  <2>2. CASE PoolInUse(update) /\ a \in
               [seat : {0, 1}, id : IF rolloutIds # {} THEN rolloutIds ELSE snapshots]
    <3> DEFINE ids == IF rolloutIds # {} THEN rolloutIds ELSE snapshots
    <3>1. ids \subseteq 1 .. nextId - 1
      BY <1>2
    <3>2. (PoolInUse(update) => rolloutIds # {}) => ids = rolloutIds
      BY <2>2
    <3> HIDE DEF ids
    <3>3. a \in [seat : {0, 1}, id : ids]
      BY <2>2 DEF ids
    <3>a. ids \subseteq Nat
      BY <3>1, <1>2
    <3>4. a \in [seat : {0, 1}, id : Nat] /\ a.id \in ids
      BY <3>a, <3>3
    <3>5. QED
      BY <3>1, <3>2, <3>4, <1>2 DEF Assignment, Seats, Sampled
  <2>3. QED
    BY <2>1, <2>2 DEF Assignments
<1>4. \A e \in didReset : drawn[e] \in Assignments(update) /\ assigned'[e] = drawn[e]
  BY <1>1
<1>5. \A e \in Envs \ didReset : assigned'[e] = assigned[e]
  BY <1>1
<1>6. assigned' \in [Envs -> Assignment]
  BY <1>1, <1>2, <1>3, <1>4
<1>7. UNCHANGED <<poolVars, rolloutIds>>
  BY DEF OnEpisodeTerminal
<1>8. QED
  BY <1>3, <1>4, <1>5, <1>6, <1>7

LEMMA EndSweepStep == ASSUME Orderly, EndSweep PROVE Orderly'
<1>1. /\ TypeOK /\ TurnsInStep /\ TurnsOfThisHand /\ OneOpponentPerHand
      /\ IdsAreOld /\ FreshHandsAreSampled /\ StaleOnlyIfCarried
  BY DEF Orderly
<1>2. /\ phase = "sweep" /\ stepped = Envs /\ step' = step + 1
      /\ UNCHANGED <<update, player, rollout, advantages, hand, turns>>
      /\ OnEpisodeTerminal(didReset, update)
      /\ \/ /\ step' = NumSteps /\ phase' = "flush"
            /\ stepped' = stepped /\ didReset' = didReset
         \/ /\ step' # NumSteps /\ phase' = "sweep"
            /\ stepped' = {} /\ didReset' = {}
  BY DEF EndSweep, historyVars
<1>3. didReset \subseteq Envs
  BY <1>1 DEF TypeOK
<1>4. /\ assigned' \in [Envs -> Assignment]
      /\ UNCHANGED <<poolVars, rolloutIds>>
      /\ \A e \in Envs \ didReset : assigned'[e] = assigned[e]
      /\ \A e \in didReset :
            /\ assigned'[e].id < nextId
            /\ (PoolInUse(update) => rolloutIds # {}) => Sampled(assigned'[e])
  BY <1>1, <1>2, <1>3, AssignedFacts
<1>5. /\ NumSteps \in Nat /\ step \in Nat /\ step < NumSteps /\ update < MaxUpdates
      /\ didReset' \subseteq didReset
  BY <1>1, <1>2, TrainingAssumption DEF TypeOK, TurnsInStep
<1>6. TypeOK'
  <2>1. /\ step' \in 0 .. NumSteps /\ phase' \in {"idle", "sweep", "flush", "update"}
        /\ stepped' \subseteq Envs /\ didReset' \subseteq stepped'
    BY <1>2, <1>3, <1>5
  <2>2. QED
    BY <1>1, <1>2, <1>4, <2>1 DEF TypeOK, poolVars
<1>7. TurnsInStep'
  <2>1. ASSUME NEW e \in Envs
        PROVE  /\ Len(turns'[e]) <= NumSteps
               /\ phase' = "sweep" =>
                     Len(turns'[e]) = step' + (IF e \in stepped' THEN 1 ELSE 0)
               /\ \A p \in Seats : Len(rollout'[e].stored[p]) + Len(rollout'[e].pending[p])
                                       <= Len(turns'[e])
    <3>1. Len(turns[e]) = step + 1 /\ Len(turns[e]) <= NumSteps
      BY <1>1, <1>2 DEF TurnsInStep
    <3>2. phase' = "sweep" => Len(turns'[e]) = step' + (IF e \in stepped' THEN 1 ELSE 0)
      BY <3>1, <1>2, <1>5
    <3>3. \A p \in Seats : Len(rollout[e].stored[p]) + Len(rollout[e].pending[p])
                             <= Len(turns[e])
      BY <1>1 DEF TurnsInStep
    <3>4. QED
      BY <3>1, <3>2, <3>3, <1>2
  <2>2. /\ update' < MaxUpdates
        /\ phase' = "sweep" => step' < NumSteps
    BY <1>2, <1>5
  <2>3. QED
    BY <2>1, <2>2 DEF TurnsInStep
<1>8. TurnsOfThisHand'
  <2>1. ASSUME NEW e \in Envs, NEW i \in DOMAIN turns[e]
        PROVE  /\ turns[e][i].hand <= hand[e]
               /\ turns[e][i].hand = hand[e] =>
                     turns[e][i].against = assigned'[e] /\ e \notin didReset'
    BY <1>1, <1>4, <1>5 DEF TurnsOfThisHand
  <2>2. QED
    BY <2>1, <1>2 DEF TurnsOfThisHand
<1>9. OneOpponentPerHand' /\ StaleOnlyIfCarried'
  BY <1>1, <1>2 DEF OneOpponentPerHand, StaleOnlyIfCarried
<1>10. IdsAreOld'
  <2>1. nextId' = nextId
    BY <1>4 DEF poolVars
  <2>2. \A e \in Envs : assigned'[e].id < nextId
    BY <1>1, <1>4 DEF IdsAreOld
  <2>3. QED
    BY <2>1, <2>2, <1>1, <1>2 DEF IdsAreOld
<1>11. FreshHandsAreSampled'
  <2>1. /\ Cardinality(rolloutIds) <= Cap /\ rolloutIds \subseteq snapshots
        /\ PoolInUse(update) => rolloutIds # {}
        /\ \A e \in Envs \ didReset : hand[e] > 0 => Sampled(assigned[e])
        /\ \A e \in Envs : \A i \in DOMAIN turns[e] :
              turns[e][i].hand > 0 => Sampled(turns[e][i].against)
    BY <1>1, <1>2 DEF FreshHandsAreSampled
  <2>2. \A e \in Envs : hand[e] > 0 => Sampled(assigned'[e])
    BY <2>1, <1>4
  <2>3. rolloutIds' = rolloutIds /\ snapshots' = snapshots
    BY <1>4 DEF poolVars
  <2>4. \A a : Sampled(a)' <=> Sampled(a)
    BY <2>3 DEF Sampled
  <2>5. PoolInUse(update)' = PoolInUse(update)
    BY <2>3, <1>2 DEF PoolInUse
  <2>6. \A e \in Envs : hand'[e] > 0 => (Sampled(assigned[e]))'
    BY <2>2, <2>3, <1>2 DEF Sampled
  <2>7. \A e \in Envs : \A i \in DOMAIN turns'[e] :
              turns'[e][i].hand > 0 => (Sampled(turns[e][i].against))'
    BY <2>1, <2>3, <1>2 DEF Sampled
  <2>8. QED
    BY <2>1, <2>3, <2>5, <2>6, <2>7 DEF FreshHandsAreSampled
<1>12. QED
  BY <1>6, <1>7, <1>8, <1>9, <1>10, <1>11 DEF Orderly

(* The estimate has one number for every stored transition.                *)
LEMMA AdvantagesDomain ==
    ASSUME NEW column, NEW terminal, NEW bootstrap
    PROVE  DOMAIN Columns!Advantages(Gamma, Lambda, column, terminal, bootstrap)
               = 1 .. Len(column)
  BY DEF Columns!Advantages

LEMMA FinishRolloutStep == ASSUME Orderly, FinishRollout PROVE Orderly'
<1>1. /\ TypeOK /\ TurnsInStep /\ TurnsOfThisHand /\ OneOpponentPerHand
      /\ IdsAreOld /\ FreshHandsAreSampled /\ StaleOnlyIfCarried
  BY DEF Orderly
<1> DEFINE flushed == [e \in Envs |-> Columns!FlushOnRolloutEnd(rollout[e])]
<1>2. /\ phase = "flush" /\ phase' = "update"
      /\ UNCHANGED <<managerVars, update, step, stepped, didReset, player, hand, turns>>
      /\ rollout' = flushed
      /\ advantages' = [e \in Envs |-> [p \in Seats |->
              Columns!Advantages(Gamma, Lambda, flushed[e].stored[p],
                                 flushed[e].tailWasTerminal[p], Bootstrap(e, p))]]
  BY DEF FinishRollout, historyVars
<1>3. ASSUME NEW e \in Envs
      PROVE  /\ Wellformed(rollout[e]) /\ Wellformed(flushed[e])
             /\ \A q \in Seats : SameSteps(rollout[e], flushed[e], q)
  <2>1. Wellformed(rollout[e])
    BY <1>1 DEF TypeOK, Wellformed
  <2>2. QED
    BY <2>1, FlushOnRolloutEndFacts
<1> HIDE DEF flushed
<1>4. rollout' \in [Envs -> States]
  <2>1. \A e \in Envs : flushed[e] \in States
    BY <1>3 DEF Wellformed
  <2>2. QED
    BY <1>2, <2>1 DEF flushed
<1>5. ASSUME NEW e \in Envs, NEW p \in Seats
      PROVE  /\ Len(flushed[e].pending[p]) <= 1
             /\ Len(flushed[e].stored[p]) + Len(flushed[e].pending[p]) <= Len(turns[e])
             /\ Len(flushed[e].stored[p]) \in Nat
             /\ Len(flushed[e].stored[p]) <= NumSteps
  <2>1. /\ Len(Decisions(flushed[e], p)) = Len(Decisions(rollout[e], p))
        /\ Len(Decisions(flushed[e], p))
               = Len(flushed[e].stored[p]) + Len(flushed[e].pending[p])
        /\ Len(Decisions(rollout[e], p))
               = Len(rollout[e].stored[p]) + Len(rollout[e].pending[p])
    BY <1>3, DecisionsFacts DEF SameSteps
  <2>2. Len(rollout[e].stored[p]) + Len(rollout[e].pending[p]) <= Len(turns[e])
    BY <1>1 DEF TurnsInStep
  <2>3. Len(flushed[e].stored[p]) + Len(flushed[e].pending[p]) <= Len(turns[e])
    BY <2>1, <2>2
  <2>4. /\ flushed[e].stored[p] \in Seq(Stored) /\ flushed[e].pending[p] \in Seq(Open)
        /\ turns[e] \in Seq(Turns)
    BY <1>1, <1>3, StatesAre DEF Wellformed, TypeOK
  <2>5. /\ Len(flushed[e].stored[p]) \in Nat /\ Len(flushed[e].pending[p]) \in Nat
        /\ Len(turns[e]) \in Nat
    <3> HIDE DEF Stored, Open, Turns
    <3>1. QED
      BY <2>4, SMTT(30)
  <2>6. Len(turns[e]) <= NumSteps /\ NumSteps \in Nat
    BY <1>1, TrainingAssumption DEF TurnsInStep
  <2>7. \A a, b, c, n \in Nat : a + b <= c /\ c <= n => a <= n
    OBVIOUS
  <2>8. Len(flushed[e].stored[p]) <= NumSteps
    BY <2>3, <2>5, <2>6, <2>7, Zenon
  <2>9. Len(flushed[e].pending[p]) <= 1
    BY <1>3 DEF Wellformed
  <2>10. QED
    BY <2>3, <2>5, <2>8, <2>9
<1>6. ASSUME NEW e \in Envs, NEW p \in Seats
      PROVE  DOMAIN advantages'[e][p] \subseteq 1 .. NumSteps
  <2>1. advantages'[e][p] = Columns!Advantages(Gamma, Lambda, flushed[e].stored[p],
                                flushed[e].tailWasTerminal[p], Bootstrap(e, p))
    BY <1>2
  <2>2. DOMAIN advantages'[e][p] = 1 .. Len(flushed[e].stored[p])
    BY <2>1, AdvantagesDomain
  <2>3. \A a, n \in Nat : a <= n => 1 .. a \subseteq 1 .. n
    OBVIOUS
  <2>4. /\ Len(flushed[e].stored[p]) \in Nat /\ NumSteps \in Nat
        /\ Len(flushed[e].stored[p]) <= NumSteps
    BY <1>5, TrainingAssumption
  <2>5. QED
    BY <2>2, <2>3, <2>4, Zenon
<1>7. TypeOK'
  BY <1>1, <1>2, <1>4, <1>5, <1>6 DEF TypeOK, managerVars, poolVars
<1>8. TurnsInStep'
  BY <1>1, <1>2, <1>5 DEF TurnsInStep
<1>9. /\ TurnsOfThisHand' /\ OneOpponentPerHand' /\ StaleOnlyIfCarried'
      /\ IdsAreOld'
  BY <1>1, <1>2 DEF TurnsOfThisHand, OneOpponentPerHand, StaleOnlyIfCarried,
                    IdsAreOld, managerVars, poolVars
<1>10. FreshHandsAreSampled'
  BY <1>1, <1>2 DEF FreshHandsAreSampled, Sampled, managerVars, poolVars
<1>11. QED
  BY <1>7, <1>8, <1>9, <1>10 DEF Orderly

(* add_snapshot: the pool never exceeds max_size, and what enters is new.  *)
LEMMA PoolFacts ==
    ASSUME TypeOK, MaybeSnapshot(update)
    PROVE  /\ UNCHANGED <<rolloutIds, assigned>>
           /\ nextId' \in Nat \ {0} /\ nextId <= nextId'
           /\ snapshots' \subseteq 1 .. nextId' - 1
           /\ snapshots' \subseteq snapshots \cup {nextId}
           /\ snapshots' # {} => Cardinality(snapshots') <= MaxSize
           /\ seenCount' \in Nat /\ Cardinality(snapshots') <= seenCount'
<1>1. /\ nextId \in Nat \ {0} /\ snapshots \subseteq 1 .. nextId - 1
      /\ snapshots # {} => Cardinality(snapshots) <= MaxSize
      /\ seenCount \in Nat /\ Cardinality(snapshots) <= seenCount
      /\ MaxSize \in Int
  BY PoolAssumption DEF TypeOK
<1>2. IsFiniteSet(snapshots) /\ Cardinality(snapshots) \in Nat
  BY PoolIsFinite
<1>3. nextId \notin snapshots
  BY <1>1
<1>4. /\ IsFiniteSet(snapshots \cup {nextId})
      /\ Cardinality(snapshots \cup {nextId}) = Cardinality(snapshots) + 1
  BY <1>2, <1>3, FS_AddElement
<1>5. UNCHANGED <<rolloutIds, assigned>>
  BY DEF MaybeSnapshot
<1>6. CASE UNCHANGED poolVars
  BY <1>1, <1>5, <1>6 DEF poolVars
<1>7. CASE /\ MaxSize > 0 /\ seenCount' = seenCount + 1
           /\ Cardinality(snapshots) < MaxSize
           /\ snapshots' = snapshots \cup {nextId} /\ nextId' = nextId + 1
  <2>1. Cardinality(snapshots') <= MaxSize /\ Cardinality(snapshots') <= seenCount'
    BY <1>1, <1>2, <1>4, <1>7
  <2>2. snapshots' \subseteq 1 .. nextId' - 1
    BY <1>1, <1>7
  <2>3. QED
    BY <2>1, <2>2, <1>1, <1>5, <1>7
<1>8. CASE /\ MaxSize > 0 /\ seenCount' = seenCount + 1
           /\ Cardinality(snapshots) >= MaxSize
           /\ \E retired \in snapshots :
                 snapshots' = (snapshots \ {retired}) \cup {nextId}
           /\ nextId' = nextId + 1
  <2>1. PICK retired \in snapshots : snapshots' = (snapshots \ {retired}) \cup {nextId}
    BY <1>8
  <2> DEFINE rest == snapshots \ {retired}
  <2>2. IsFiniteSet(rest) /\ Cardinality(rest) = Cardinality(snapshots) - 1
    BY <1>2, FS_RemoveElement
  <2>3. nextId \notin rest
    BY <1>3
  <2>4. Cardinality(rest \cup {nextId}) = Cardinality(rest) + 1
    BY <2>2, <2>3, FS_AddElement
  <2>5. Cardinality(snapshots') = Cardinality(snapshots)
    BY <2>1, <2>2, <2>4, <1>2
  <2>6. Cardinality(snapshots') <= MaxSize /\ Cardinality(snapshots') <= seenCount'
    BY <2>1, <2>5, <1>1, <1>2, <1>8
  <2>7. snapshots' \subseteq 1 .. nextId' - 1 /\ snapshots' \subseteq snapshots \cup {nextId}
    BY <2>1, <1>1, <1>8
  <2>8. QED
    BY <2>6, <2>7, <1>1, <1>5, <1>8
<1>9. CASE /\ MaxSize > 0 /\ seenCount' = seenCount + 1
           /\ UNCHANGED <<snapshots, nextId>>
  BY <1>1, <1>2, <1>5, <1>9
<1>10. QED
  BY <1>1, <1>6, <1>7, <1>8, <1>9 DEF MaybeSnapshot, AddSnapshot

LEMMA UpdateStep == ASSUME Orderly, Update PROVE Orderly'
<1>1. /\ TypeOK /\ TurnsInStep /\ TurnsOfThisHand /\ OneOpponentPerHand
      /\ IdsAreOld /\ FreshHandsAreSampled /\ StaleOnlyIfCarried
  BY DEF Orderly
<1>2. /\ phase = "update" /\ phase' = "idle" /\ update' = update + 1
      /\ UNCHANGED <<step, stepped, didReset, player, rollout, advantages, hand, turns>>
      /\ MaybeSnapshot(update)
  BY DEF Update, historyVars
<1>3. /\ UNCHANGED <<rolloutIds, assigned>>
      /\ nextId' \in Nat \ {0} /\ nextId <= nextId'
      /\ snapshots' \subseteq 1 .. nextId' - 1
      /\ snapshots' # {} => Cardinality(snapshots') <= MaxSize
      /\ seenCount' \in Nat /\ Cardinality(snapshots') <= seenCount'
  BY <1>1, <1>2, PoolFacts
<1>4. TypeOK'
  <2>1. update' \in 0 .. MaxUpdates
    BY <1>1, <1>2, TrainingAssumption DEF TypeOK, TurnsInStep
  <2>2. rolloutIds' \subseteq 1 .. nextId' - 1
    BY <1>1, <1>3 DEF TypeOK
  <2>3. QED
    BY <1>1, <1>2, <1>3, <2>1, <2>2 DEF TypeOK
<1>5. TurnsInStep'
  BY <1>1, <1>2 DEF TurnsInStep
<1>6. TurnsOfThisHand' /\ OneOpponentPerHand' /\ StaleOnlyIfCarried'
  BY <1>1, <1>2, <1>3 DEF TurnsOfThisHand, OneOpponentPerHand, StaleOnlyIfCarried
<1>7. IdsAreOld'
  <2>1. ASSUME NEW e \in Envs
        PROVE  /\ assigned[e].id \in Nat
               /\ \A i \in DOMAIN turns[e] : turns[e][i].against.id \in Nat
    <3>1. turns[e] \in Seq(Turns) /\ assigned[e] \in Assignment
      BY <1>1 DEF TypeOK
    <3>2. \A i \in DOMAIN turns[e] : turns[e][i] \in Turns
      <4> HIDE DEF Turns
      <4>1. QED
        BY <3>1
    <3>3. QED
      BY <3>1, <3>2 DEF Turns, Assignment
  <2>2. \A id \in Nat : id < nextId => id < nextId'
    BY <1>1, <1>3 DEF TypeOK
  <2>3. QED
    BY <2>1, <2>2, <1>1, <1>2, <1>3 DEF IdsAreOld
<1>8. FreshHandsAreSampled'
  BY <1>1, <1>2, <1>3 DEF FreshHandsAreSampled, Sampled
<1>9. QED
  BY <1>4, <1>5, <1>6, <1>7, <1>8 DEF Orderly

LEMMA InitOrderly == ASSUME Init PROVE Orderly
<1>1. /\ phase = "idle" /\ update = 0 /\ step = 0 /\ stepped = {} /\ didReset = {}
      /\ player = [e \in Envs |-> 1]
      /\ rollout = [e \in Envs |-> Columns!Fresh(0)]
      /\ advantages = NoAdvantages
      /\ hand = [e \in Envs |-> 0] /\ turns = [e \in Envs |-> <<>>]
      /\ snapshots = {} /\ nextId = 1 /\ seenCount = 0 /\ rolloutIds = {}
      /\ assigned = [e \in Envs |-> SelfPlay]
  BY DEF Init, ManagerInit
<1>2. Cardinality({}) = 0
  BY FS_EmptySet
<1>3. /\ rollout \in [Envs -> States]
      /\ \A e \in Envs, p \in Seats :
            /\ Len(rollout[e].stored[p]) = 0 /\ Len(rollout[e].pending[p]) = 0
            /\ DOMAIN advantages[e][p] = {}
  BY <1>1, FreshIsWellformed DEF NoAdvantages
<1>4. \A e \in Envs : turns[e] = <<>> /\ Len(turns[e]) = 0 /\ DOMAIN turns[e] = {}
  BY <1>1
<1>5. NumSteps \in Nat /\ MaxUpdates \in Nat
  BY TrainingAssumption
<1>6. TypeOK
  <2>1. turns \in [Envs -> Seq(Turns)] /\ hand \in [Envs -> Nat] /\ player \in [Envs -> Seats]
    BY <1>1 DEF Seats
  <2>2. assigned \in [Envs -> Assignment]
    BY <1>1 DEF SelfPlay, Assignment, Live, Seats
  <2>3. /\ update \in 0 .. MaxUpdates /\ step \in 0 .. NumSteps
        /\ \A e \in Envs, p \in Seats :
              /\ Len(rollout[e].pending[p]) <= 1
              /\ Len(rollout[e].stored[p]) <= NumSteps
              /\ DOMAIN advantages[e][p] \subseteq 1 .. NumSteps
    BY <1>1, <1>3, <1>5
  <2>4. QED
    BY <1>1, <1>2, <1>3, <2>1, <2>2, <2>3 DEF TypeOK
<1>7. TurnsInStep
  <2>1. \A x, y, z : x = 0 /\ y = 0 /\ z = 0 => x + y <= z
    OBVIOUS
  <2>2. ASSUME NEW e \in Envs, NEW p \in Seats
        PROVE  Len(rollout[e].stored[p]) + Len(rollout[e].pending[p]) <= Len(turns[e])
    BY <2>1, <1>3, <1>4, Zenon
  <2>3. \A e \in Envs : Len(turns[e]) <= NumSteps
    BY <1>4, <1>5
  <2>4. QED
    BY <2>2, <2>3, <1>1 DEF TurnsInStep
<1>8. TurnsOfThisHand /\ OneOpponentPerHand /\ StaleOnlyIfCarried
  BY <1>4 DEF TurnsOfThisHand, OneOpponentPerHand, StaleOnlyIfCarried
<1>9. IdsAreOld
  BY <1>1, <1>4 DEF IdsAreOld, SelfPlay, Live
<1>10. FreshHandsAreSampled
  BY <1>1, <1>2, <1>4, CapFacts DEF FreshHandsAreSampled
<1>11. QED
  BY <1>6, <1>7, <1>8, <1>9, <1>10 DEF Orderly
-----------------------------------------------------------------------------
(* What a step of the run does to the rollouts.                            *)
LEMMA RunSteps ==
    ASSUME TypeOK, TurnsInStep, [RunNext]_allVars
    PROVE  \/ StartRollout
           \/ \E e \in Envs : Stepped(e)
           \/ EndSweep
           \/ FinishRollout
           \/ Update
           \/ UNCHANGED vars
<1>1. ASSUME RolloutStep
      PROVE  \/ StartRollout \/ \E e \in Envs : Stepped(e)
             \/ EndSweep \/ FinishRollout
  BY <1>1, GoesOnSteps, EndsSteps DEF RolloutStep
<1>2. CASE Rollout
  BY <1>1, <1>2 DEF Rollout
<1>3. CASE UpdateNetwork
  BY <1>3 DEF UpdateNetwork
<1>4. CASE SaveModel \/ RunDone \/ UNCHANGED allVars
  BY <1>4 DEF SaveModel, RunDone, allVars
<1>5. QED
  BY <1>2, <1>3, <1>4 DEF RunNext

LEMMA StutterStep == ASSUME Orderly, UNCHANGED vars PROVE Orderly'
<1>1. /\ UNCHANGED <<snapshots, nextId, seenCount, rolloutIds, assigned, phase, update,
                     step, stepped, didReset, player, rollout, advantages>>
      /\ UNCHANGED <<hand, turns>>
  BY DEF vars, managerVars, poolVars, historyVars
<1>2. TypeOK'
  BY <1>1 DEF Orderly, TypeOK
<1>3. TurnsInStep'
  BY <1>1 DEF Orderly, TurnsInStep
<1>4. TurnsOfThisHand' /\ OneOpponentPerHand' /\ IdsAreOld' /\ StaleOnlyIfCarried'
  BY <1>1 DEF Orderly, TurnsOfThisHand, OneOpponentPerHand, IdsAreOld, StaleOnlyIfCarried
<1>5. FreshHandsAreSampled'
  BY <1>1 DEF Orderly, FreshHandsAreSampled, Sampled, PoolInUse
<1>6. QED
  BY <1>2, <1>3, <1>4, <1>5 DEF Orderly

(* The invariant of training runs of any size.                             *)
LEMMA OrderlyAlways == RunSpec => []Orderly
<1>1. RunInit => Orderly
  BY InitOrderly DEF RunInit
<1>2. Orderly /\ [RunNext]_allVars => Orderly'
  <2> SUFFICES ASSUME Orderly, [RunNext]_allVars PROVE Orderly'
    OBVIOUS
  <2>1. TypeOK /\ TurnsInStep
    BY DEF Orderly
  <2>2. QED
    BY <2>1, RunSteps, StartRolloutStep, EnvStep, EndSweepStep, FinishRolloutStep,
       UpdateStep, StutterStep
<1>3. QED
  BY <1>1, <1>2, PTL DEF RunSpec

(* The types, with the capacities: no column of the buffer gets more       *)
(* transitions than a rollout has steps, and the pool keeps its size.      *)
THEOREM TypeCorrect == RunSpec => []TypeOK
<1>1. Orderly => TypeOK
  BY DEF Orderly
<1>2. QED
  BY <1>1, OrderlyAlways, PTL

(* Within a hand neither the opponent nor the learner's seat changes.      *)
THEOREM OpponentStays == RunSpec => []OneOpponentPerHand
<1>1. Orderly => OneOpponentPerHand
  BY DEF Orderly
<1>2. QED
  BY <1>1, OrderlyAlways, PTL

(* The live policy stands in for a retired snapshot only in carried hands. *)
THEOREM StandInOnlyWhenCarried == RunSpec => []StaleOnlyIfCarried
<1>1. Orderly => StaleOnlyIfCarried
  BY DEF Orderly
<1>2. QED
  BY <1>1, OrderlyAlways, PTL

(* Hands dealt in a rollout meet no more snapshots than the cap, for any   *)
(* number of environments.                                                 *)
THEOREM FreshHandsAreCapped == RunSpec => []FreshHandsMeetFewSnapshots
<1>1. ASSUME Orderly PROVE FreshHandsMeetFewSnapshots
  <2> DEFINE met == {id \in snapshots : \E e \in Envs : \E i \in DOMAIN turns[e] :
                        turns[e][i].hand > 0 /\ turns[e][i].against.id = id}
  <2>1. TypeOK /\ FreshHandsAreSampled
    BY <1>1 DEF Orderly
  <2>2. 0 \notin snapshots
    BY <2>1 DEF TypeOK
  <2>3. met \subseteq rolloutIds
    BY <2>1, <2>2 DEF FreshHandsAreSampled, Sampled, Live
  <2>4. IsFiniteSet(rolloutIds)
    <3>1. IsFiniteSet(1 .. nextId - 1) /\ rolloutIds \subseteq 1 .. nextId - 1
      BY <2>1, FS_Interval DEF TypeOK
    <3>2. QED
      BY <3>1, FS_Subset
  <2> HIDE DEF met
  <2>5. Cardinality(met) <= Cardinality(rolloutIds) /\ IsFiniteSet(met)
    BY <2>3, <2>4, FS_Subset
  <2>6. Cardinality(met) \in Nat /\ Cardinality(rolloutIds) \in Nat
    BY <2>4, <2>5, FS_CardinalityType
  <2>7. Cardinality(met) <= Cap
    BY <2>1, <2>5, <2>6, CapFacts DEF FreshHandsAreSampled
  <2>8. QED
    BY <2>7 DEF FreshHandsMeetFewSnapshots, met
<1>2. QED
  BY <1>1, OrderlyAlways, PTL

(* What the steps that are not an update leave of the pool.                *)
LEMMA PoolOnlyInUpdates ==
    ASSUME TypeOK, StartRollout \/ (\E e \in Envs : Stepped(e)) \/ EndSweep
                     \/ FinishRollout \/ UNCHANGED vars
    PROVE  UNCHANGED <<poolVars, update>>
<1>1. CASE StartRollout
  BY <1>1 DEF StartRollout, PrepareRollout
<1>2. CASE \E e \in Envs : Stepped(e)
  BY <1>2 DEF Stepped, BeginStep, managerVars
<1>3. CASE EndSweep
  BY <1>3 DEF EndSweep, OnEpisodeTerminal
<1>4. CASE FinishRollout
  BY <1>4 DEF FinishRollout, managerVars
<1>5. CASE UNCHANGED vars
  BY <1>5 DEF vars, managerVars
<1>6. QED
  BY <1>1, <1>2, <1>3, <1>4, <1>5

(* Ids are given once: what enters the pool was never in it.               *)
THEOREM IdsAreGivenOnce == RunSpec => RetiredIdsNeverReturn
<1>1. ASSUME Orderly, [RunNext]_allVars
      PROVE  [snapshots' \subseteq snapshots \cup {i \in Nat : i >= nextId}]_vars
  <2>1. TypeOK /\ TurnsInStep /\ nextId \in Nat
    BY <1>1 DEF Orderly, TypeOK
  <2>2. CASE Update
    <3>1. snapshots' \subseteq snapshots \cup {nextId}
      BY <2>1, <2>2, PoolFacts DEF Update
    <3>2. nextId \in {i \in Nat : i >= nextId}
      BY <2>1
    <3>3. QED
      BY <3>1, <3>2
  <2>3. CASE StartRollout \/ (\E e \in Envs : Stepped(e)) \/ EndSweep
                \/ FinishRollout \/ UNCHANGED vars
    BY <2>1, <2>3, PoolOnlyInUpdates DEF poolVars
  <2>4. QED
    BY <1>1, <2>1, <2>2, <2>3, RunSteps
<1>2. QED
  BY <1>1, OrderlyAlways, PTL DEF RunSpec, RetiredIdsNeverReturn
-----------------------------------------------------------------------------
(* What both seats' columns hold, or will, is what the learner decided.    *)
AllTold == \A e \in Envs, p \in Seats : Told(rollout[e], turns[e], p)

LEMMA ToldMeans ==
    ASSUME AllTold
    PROVE  EveryDecisionStored /\ OnlyLiveActionsStored
<1>1. ASSUME NEW e \in Envs, NEW p \in Seats
      PROVE  /\ Column(e, p) = Decisions(rollout[e], p)
             /\ Told(rollout[e], turns[e], p)
             /\ \A q : TurnAt(e, q) = turns[e][q + 1]
  BY DEF AllTold, Column, Decisions, TurnAt
<1>2. ASSUME NEW e \in Envs, NEW p \in Seats
      PROVE  DOMAIN Column(e, p) = 1 .. Len(Column(e, p))
  BY DEF Column
<1>3. ASSUME NEW e \in Envs, NEW p \in Seats
      PROVE  /\ {Column(e, p)[i].step : i \in DOMAIN Column(e, p)} =
                   {q \in 0 .. Len(turns[e]) - 1 :
                        TurnAt(e, q).seat = p /\ LearnerDecided(TurnAt(e, q))}
             /\ \A i, j \in DOMAIN Column(e, p) :
                   i < j => Column(e, p)[i].step < Column(e, p)[j].step
             /\ \A i \in DOMAIN Column(e, p) :
                   TurnAt(e, Column(e, p)[i].step).policy = Live
  <2> DEFINE column == Column(e, p)
  <2>1. DOMAIN column = 1 .. Len(Decisions(rollout[e], p)) /\ column = Decisions(rollout[e], p)
    BY <1>1, <1>2
  <2> HIDE DEF column
  <2>2. LearnersOf(turns[e], p) = {q \in 0 .. Len(turns[e]) - 1 :
                        TurnAt(e, q).seat = p /\ LearnerDecided(TurnAt(e, q))}
    BY <1>1 DEF LearnersOf
  <2>3. {column[i].step : i \in DOMAIN column} = LearnersOf(turns[e], p)
    BY <1>1, <2>1 DEF Told
  <2>4. \A i, j \in DOMAIN column : i < j => column[i].step < column[j].step
    BY <1>1, <2>1 DEF Told
  <2>5. \A i \in DOMAIN column : TurnAt(e, column[i].step).policy = Live
    BY <1>1, <2>1 DEF Told
  <2>6. QED
    BY <2>2, <2>3, <2>4, <2>5 DEF column
<1>4. EveryDecisionStored
  BY <1>3 DEF EveryDecisionStored
<1>5. OnlyLiveActionsStored
  BY <1>3 DEF OnlyLiveActionsStored
<1>6. QED
  BY <1>4, <1>5

LEMMA ToldOfNothing ==
    ASSUME NEW d \in {0, 1}, NEW p \in Seats
    PROVE  Told(Columns!Fresh(d), <<>>, p)
<1>1. Columns!Fresh(d).stored[p] = <<>> /\ Columns!Fresh(d).pending[p] = <<>>
  BY FreshIsWellformed
<1>2. Len(Decisions(Columns!Fresh(d), p)) = 0
  BY <1>1 DEF Decisions
<1>3. LearnersOf(<<>>, p) = {}
  BY DEF LearnersOf
<1>4. QED
  BY <1>2, <1>3 DEF Told

LEMMA ToldStepped ==
    ASSUME Orderly, AllTold, NEW e \in Envs, Stepped(e)
    PROVE  AllTold'
<1>1. TypeOK /\ TurnsInStep
  BY DEF Orderly
<1>2. PICK s : Grown(e, s) /\ rollout' = [rollout EXCEPT ![e] = s]
  BY DEF Stepped
<1>3. rollout'[e] = s /\ \A f \in Envs \ {e} : rollout'[f] = rollout[f]
  BY <1>1, <1>2 DEF TypeOK
<1>4. /\ Turn(e) \in Turns /\ turns[e] \in Seq(Turns)
      /\ turns'[e] = Append(turns[e], Turn(e)) /\ Len(turns[e]) = step
      /\ \A f \in Envs \ {e} : turns'[f] = turns[f]
  BY <1>1, TurnFacts DEF TypeOK
<1>5. Wellformed(rollout[e])
  BY <1>1 DEF TypeOK, Wellformed
<1>6. /\ Turn(e).seat = player[e]
      /\ LearnerDecided(Turn(e)) <=> ShouldRecord(e, player[e])
      /\ ShouldRecord(e, player[e]) => Turn(e).policy = Live
  BY DEF Turn, LearnerDecided, ShouldRecord, ActingPolicy, Overridden
<1>7. ASSUME NEW p \in Seats
      PROVE  Told(rollout'[e], turns'[e], p)
  <2>1. Told(rollout[e], turns[e], p)
    BY DEF AllTold
  <2>2. CASE p = player[e] /\ ShouldRecord(e, p)
    <3>1. OneMore(rollout[e], s, p, Len(turns[e]))
      BY <2>2, <1>2, <1>4 DEF Grown
    <3>2. Turn(e).seat = p /\ LearnerDecided(Turn(e)) /\ Turn(e).policy = Live
      BY <2>2, <1>6
    <3>3. Told(s, Append(turns[e], Turn(e)), p)
      BY <2>1, <3>1, <3>2, <1>4, <1>5, ToldOfOneMore
    <3>4. QED
      BY <3>3, <1>3, <1>4
  <2>3. CASE ~(p = player[e] /\ ShouldRecord(e, p))
    <3>1. SameSteps(rollout[e], s, p)
      BY <2>3, <1>2 DEF Grown
    <3>2. Turn(e).seat # p \/ ~LearnerDecided(Turn(e))
      BY <2>3, <1>6
    <3>3. Told(rollout[e], Append(turns[e], Turn(e)), p)
      BY <2>1, <3>2, <1>4, ToldOfNothingNew
    <3>4. Told(s, Append(turns[e], Turn(e)), p)
      BY <3>1, <3>3, ToldOfTheSame
    <3>5. QED
      BY <3>4, <1>3, <1>4
  <2>4. QED
    BY <2>2, <2>3
<1>8. ASSUME NEW f \in Envs \ {e}, NEW p \in Seats
      PROVE  Told(rollout'[f], turns'[f], p)
  BY <1>3, <1>4 DEF AllTold
<1>9. \A f \in Envs, p \in Seats : Told(rollout'[f], turns'[f], p)
  BY <1>7, <1>8
<1>10. QED
  BY <1>9 DEF AllTold

(* The flush at the end of a rollout moves what is pending, and no more.   *)
LEMMA ToldFlushed ==
    ASSUME Orderly, AllTold, FinishRollout
    PROVE  AllTold'
<1>1. \A e \in Envs : Wellformed(rollout[e])
  BY DEF Orderly, TypeOK, Wellformed
<1>2. /\ \A e \in Envs : rollout'[e] = Columns!FlushOnRolloutEnd(rollout[e])
      /\ turns' = turns
  BY DEF FinishRollout, historyVars
<1>3. ASSUME NEW e \in Envs, NEW p \in Seats
      PROVE  Told(rollout'[e], turns'[e], p)
  <2>1. SameSteps(rollout[e], Columns!FlushOnRolloutEnd(rollout[e]), p)
    BY <1>1, FlushOnRolloutEndFacts
  <2>2. Told(rollout[e], turns[e], p)
    BY DEF AllTold
  <2>3. Told(Columns!FlushOnRolloutEnd(rollout[e]), turns[e], p)
    BY <2>1, <2>2, ToldOfTheSame
  <2>4. QED
    BY <2>3, <1>2
<1>4. QED
  BY <1>3 DEF AllTold

LEMMA ToldNext ==
    ASSUME Orderly, AllTold, [RunNext]_allVars
    PROVE  AllTold'
<1>1. TypeOK /\ TurnsInStep
  BY DEF Orderly
<1>2. CASE StartRollout
  <2>1. /\ rollout' = [e \in Envs |-> Columns!Fresh(0)]
        /\ turns' = [e \in Envs |-> <<>>]
    BY <1>2 DEF StartRollout, CarryDone
  <2>2. \A e \in Envs, p \in Seats : Told(rollout'[e], turns'[e], p)
    BY <2>1, ToldOfNothing
  <2>3. QED
    BY <2>2 DEF AllTold
<1>3. CASE \E e \in Envs : Stepped(e)
  BY <1>3, ToldStepped
<1>4. CASE EndSweep \/ Update \/ UNCHANGED vars
  <2>1. rollout' = rollout /\ turns' = turns
    BY <1>4 DEF EndSweep, Update, vars, historyVars
  <2>2. QED
    BY <2>1 DEF AllTold
<1>5. CASE FinishRollout
  BY <1>5, ToldFlushed
<1>6. QED
  BY <1>1, <1>2, <1>3, <1>4, <1>5, RunSteps

LEMMA ToldAlways == RunSpec => [](EveryDecisionStored /\ OnlyLiveActionsStored)
<1>1. RunInit => AllTold
  BY ToldOfNothing DEF RunInit, Init, AllTold
<1>2. Orderly /\ AllTold /\ [RunNext]_allVars => AllTold'
  BY ToldNext
<1>3. AllTold => EveryDecisionStored /\ OnlyLiveActionsStored
  BY ToldMeans
<1>4. QED
  BY <1>1, <1>2, <1>3, OrderlyAlways, PTL DEF RunSpec

(* No decision of the learner is lost, stored twice, out of order or for   *)
(* the other seat, in rollouts of any length with hands ending anywhere.   *)
THEOREM DecisionsAreStored == RunSpec => []EveryDecisionStored
  BY ToldAlways, PTL

(* No stored action is one that a snapshot of the pool chose.              *)
THEOREM StoredActionsAreLive == RunSpec => []OnlyLiveActionsStored
  BY ToldAlways, PTL
-----------------------------------------------------------------------------
(* What is appended to a sequence is its last element.                     *)
LEMMA AppendRow ==
    ASSUME NEW S, NEW s \in Seq(S), NEW row \in S
    PROVE  /\ Append(s, row) \in Seq(S) /\ Len(s) \in Nat
           /\ DOMAIN Append(s, row) = 1 .. Len(s) + 1
           /\ DOMAIN s = 1 .. Len(s)
           /\ \A i \in 1 .. Len(s) : Append(s, row)[i] = s[i]
           /\ Append(s, row)[Len(s) + 1] = row
  OBVIOUS

(* The decisions of seat p that the record s holds, with the hands that    *)
(* the turns T tell of them.                                               *)
DecisionsFrom(s, T, p) ==
    [k \in 1 .. Len(Decisions(s, p)) |->
        [step |-> Decisions(s, p)[k].step,
         hand |-> T[Decisions(s, p)[k].step + 1].hand]]
MineFrom(s, T) == [p \in {0, 1} |-> DecisionsFrom(s, T, p)]

LEMMA DecisionsOfAre ==
    ASSUME NEW e \in Envs
    PROVE  [p \in Seats |-> DecisionsOf(e, p)] = MineFrom(rollout[e], turns[e])
<1>1. ASSUME NEW p \in Seats
      PROVE  DecisionsOf(e, p) = DecisionsFrom(rollout[e], turns[e], p)
  BY DEF DecisionsOf, DecisionsFrom, Decisions, Column, HandOf, TurnAt
<1>2. QED
  BY <1>1 DEF MineFrom, Seats

(* The hands of decisions that are still to be told of another turn, or    *)
(* are moved from pending to stored, stay what they are.                   *)
LEMMA FromTheSame ==
    ASSUME NEW s, NEW t, NEW T, NEW p, SameSteps(s, t, p)
    PROVE  DecisionsFrom(t, T, p) = DecisionsFrom(s, T, p)
  BY DEF DecisionsFrom, SameSteps

LEMMA FromLonger ==
    ASSUME NEW s, NEW T \in Seq(Turns), NEW turn \in Turns, NEW p \in Seats,
           Told(s, T, p)
    PROVE  DecisionsFrom(s, Append(T, turn), p) = DecisionsFrom(s, T, p)
<1>1. \A i \in 1 .. Len(Decisions(s, p)) : Decisions(s, p)[i].step \in 0 .. Len(T) - 1
  BY DEF Told, LearnersOf
<1> HIDE DEF Turns
<1>2. \A q \in 0 .. Len(T) - 1 : Append(T, turn)[q + 1] = T[q + 1]
  OBVIOUS
<1>3. \A i \in 1 .. Len(Decisions(s, p)) :
         Append(T, turn)[Decisions(s, p)[i].step + 1] = T[Decisions(s, p)[i].step + 1]
  BY <1>1, <1>2
<1>4. QED
  BY <1>3 DEF DecisionsFrom

LEMMA FromOneMore ==
    ASSUME NEW s, NEW t, NEW T \in Seq(Turns), NEW turn \in Turns, NEW p \in Seats,
           Wellformed(s), Told(s, T, p), OneMore(s, t, p, Len(T))
    PROVE  DecisionsFrom(t, Append(T, turn), p) =
              Append(DecisionsFrom(s, T, p), [step |-> Len(T), hand |-> turn.hand])
<1> DEFINE n == Len(Decisions(s, p))
           U == Append(T, turn)
           a == DecisionsFrom(s, T, p)
           b == DecisionsFrom(t, U, p)
           x == [step |-> Len(T), hand |-> turn.hand]
           c == Append(a, x)
<1>1. n \in Nat /\ \A i \in 1 .. n : i \in 1 .. n + 1
  BY DecisionsFacts
<1>2. /\ Len(Decisions(t, p)) = n + 1
      /\ \A i \in 1 .. n : Decisions(t, p)[i].step = Decisions(s, p)[i].step
      /\ Decisions(t, p)[n + 1].step = Len(T)
  BY DEF OneMore
<1>3. \A i \in 1 .. n : Decisions(s, p)[i].step \in 0 .. Len(T) - 1
  BY DEF Told, LearnersOf
<1>4. \A q \in 0 .. Len(T) - 1 : U[q + 1] = T[q + 1] /\ T[q + 1] \in Turns
  <2> HIDE DEF Turns
  <2>1. QED
    OBVIOUS
<1>5. U[Len(T) + 1] = turn
  <2> HIDE DEF Turns
  <2>1. QED
    OBVIOUS
<1>6. Len(T) \in Nat
  OBVIOUS
<1> HIDE DEF n, U, x
<1>7. /\ DOMAIN a = 1 .. n
      /\ \A k \in 1 .. n : a[k] = [step |-> Decisions(s, p)[k].step,
                                   hand |-> T[Decisions(s, p)[k].step + 1].hand]
  BY DEF DecisionsFrom, n
<1>8. /\ DOMAIN b = 1 .. n + 1
      /\ \A k \in 1 .. n + 1 : b[k] = [step |-> Decisions(t, p)[k].step,
                                       hand |-> U[Decisions(t, p)[k].step + 1].hand]
      /\ b = [k \in 1 .. n + 1 |-> b[k]]
  BY <1>2 DEF DecisionsFrom
<1>9. ASSUME NEW k \in 1 .. n PROVE b[k] = a[k]
  <2>1. k \in 1 .. n + 1
    BY <1>1
  <2>2. Decisions(t, p)[k].step = Decisions(s, p)[k].step
        /\ Decisions(s, p)[k].step \in 0 .. Len(T) - 1
    BY <1>2, <1>3
  <2>3. U[Decisions(s, p)[k].step + 1] = T[Decisions(s, p)[k].step + 1]
    BY <2>2, <1>4
  <2>4. QED
    BY <2>1, <2>2, <2>3, <1>7, <1>8
<1>10. b[n + 1] = x
  BY <1>1, <1>2, <1>5, <1>8 DEF x
<1>11. a = [k \in 1 .. n |-> a[k]]
  BY <1>7 DEF DecisionsFrom, n
<1> HIDE DEF a, b
<1> DEFINE E == {a[k] : k \in 1 .. n} \cup {x}
<1>12. a \in Seq(E) /\ Len(a) = n /\ x \in E
  BY <1>1, <1>11
<1> HIDE DEF E
<1>13. /\ DOMAIN c = 1 .. n + 1 /\ c[n + 1] = x
       /\ \A k \in 1 .. n : c[k] = a[k]
       /\ c = [k \in 1 .. n + 1 |-> c[k]]
  <2>1. c \in Seq(E) /\ DOMAIN c = 1 .. n + 1
    BY <1>12, AppendRow
  <2>2. c = [k \in DOMAIN c |-> c[k]]
    <3> HIDE DEF c
    <3>1. QED
      BY <2>1
  <2>3. c[n + 1] = x /\ \A k \in 1 .. n : c[k] = a[k]
    BY <1>12, AppendRow
  <2>4. QED
    BY <2>1, <2>2, <2>3
<1>14. \A k \in 1 .. n + 1 : b[k] = c[k]
  <2>1. \A k \in 1 .. n + 1 : k \in 1 .. n \/ k = n + 1
    BY <1>1
  <2>2. QED
    BY <2>1, <1>9, <1>10, <1>13
<1> HIDE DEF c
<1>15. b = c
  BY <1>8, <1>13, <1>14
<1>16. QED
  BY <1>15 DEF a, b, c, x, U

(* What the decisions of an environment are after one of its steps.        *)
NewMine(e) ==
    IF ShouldRecord(e, player[e])
    THEN [MineFrom(rollout[e], turns[e]) EXCEPT
             ![player[e]] = Append(@, [step |-> step, hand |-> hand[e]])]
    ELSE MineFrom(rollout[e], turns[e])

LEMMA MineStepped ==
    ASSUME Orderly, AllTold, NEW e \in Envs, Stepped(e)
    PROVE  /\ MineFrom(rollout'[e], turns'[e]) = NewMine(e)
           /\ \A f \in Envs \ {e} : rollout'[f] = rollout[f] /\ turns'[f] = turns[f]
<1>1. TypeOK /\ TurnsInStep
  BY DEF Orderly
<1>2. PICK s : Grown(e, s) /\ rollout' = [rollout EXCEPT ![e] = s]
  BY DEF Stepped
<1>3. rollout'[e] = s /\ \A f \in Envs \ {e} : rollout'[f] = rollout[f]
  BY <1>1, <1>2 DEF TypeOK
<1> DEFINE T == turns[e]
           turn == Turn(e)
           m == MineFrom(rollout[e], T)
           x == [step |-> step, hand |-> hand[e]]
<1>4. /\ turn \in Turns /\ T \in Seq(Turns)
      /\ turns'[e] = Append(T, turn) /\ Len(T) = step
      /\ \A f \in Envs \ {e} : turns'[f] = turns[f]
  BY <1>1, TurnFacts DEF TypeOK
<1>5. Wellformed(rollout[e]) /\ player[e] \in {0, 1}
  BY <1>1 DEF TypeOK, Wellformed, Seats
<1>6. turn.hand = hand[e]
  BY DEF Turn
<1> HIDE DEF T, turn
<1>7. ASSUME NEW p \in {0, 1}
      PROVE  DecisionsFrom(s, Append(T, turn), p) =
                IF p = player[e] /\ ShouldRecord(e, p)
                THEN Append(DecisionsFrom(rollout[e], T, p), x)
                ELSE DecisionsFrom(rollout[e], T, p)
  <2>1. Told(rollout[e], T, p) /\ p \in Seats
    BY DEF AllTold, T, Seats
  <2>2. CASE p = player[e] /\ ShouldRecord(e, p)
    <3>1. OneMore(rollout[e], s, p, Len(T))
      BY <2>1, <2>2, <1>2, <1>4 DEF Grown
    <3>2. DecisionsFrom(s, Append(T, turn), p) =
             Append(DecisionsFrom(rollout[e], T, p), [step |-> Len(T), hand |-> turn.hand])
      BY <2>1, <3>1, <1>4, <1>5, FromOneMore
    <3>3. QED
      BY <2>2, <3>2, <1>4, <1>6
  <2>3. CASE ~(p = player[e] /\ ShouldRecord(e, p))
    <3>1. SameSteps(rollout[e], s, p)
      BY <2>1, <2>3, <1>2 DEF Grown
    <3>2. DecisionsFrom(s, Append(T, turn), p) =
             DecisionsFrom(rollout[e], Append(T, turn), p)
      BY <3>1, FromTheSame
    <3>3. DecisionsFrom(rollout[e], Append(T, turn), p) = DecisionsFrom(rollout[e], T, p)
      BY <2>1, <1>4, FromLonger
    <3>4. QED
      BY <2>3, <3>2, <3>3
  <2>4. QED
    BY <2>2, <2>3
<1>8. MineFrom(s, Append(T, turn)) =
         IF ShouldRecord(e, player[e]) THEN [m EXCEPT ![player[e]] = Append(@, x)] ELSE m
  <2>1. m = [p \in {0, 1} |-> DecisionsFrom(rollout[e], T, p)]
    BY DEF MineFrom
  <2> HIDE DEF m, x
  <2>2. CASE ShouldRecord(e, player[e])
    BY <2>1, <2>2, <1>5, <1>7 DEF MineFrom
  <2>3. CASE ~ShouldRecord(e, player[e])
    BY <2>1, <2>3, <1>7 DEF MineFrom
  <2>4. QED
    BY <2>2, <2>3
<1>9. QED
  BY <1>3, <1>4, <1>8 DEF NewMine, T, m

(* The record of an environment that is being stepped fits its decisions,  *)
(* before the reward comes.                                                *)
Steps == 0 .. NumSteps - 1

Fits(e) == Running(Steps, rollout[e], MineFrom(rollout[e], turns[e]), results[e])

LEMMA RecordedRuns ==
    ASSUME TypeOK, step < NumSteps, NEW e \in Envs, Fits(e), hand[e] = Len(results[e])
    PROVE  Running(Steps, Recorded(e), NewMine(e), results[e])
<1>1. step \in Steps /\ step \in 0 .. NumSteps /\ player[e] \in {0, 1}
  BY TrainingAssumption DEF TypeOK, Steps, Seats
<1>2. Critic[step] \in Int
  BY <1>1, TrainingAssumption
<1>3. CASE ShouldRecord(e, player[e])
  <2> DEFINE mine == MineFrom(rollout[e], turns[e])
             new == [mine EXCEPT ![player[e]] =
                        Append(@, [step |-> step, hand |-> Len(results[e])])]
  <2>1. /\ Recorded(e) = Columns!RecordStep(rollout[e], player[e], step, Critic[step])
        /\ NewMine(e) = new
    BY <1>3 DEF Recorded, NewMine
  <2>2. Running(Steps, rollout[e], mine, results[e])
    BY DEF Fits
  <2> HIDE DEF mine
  <2>3. Running(Steps, Columns!RecordStep(rollout[e], player[e], step, Critic[step]), new,
                results[e])
    BY <2>2, <1>1, <1>2, RecordRuns
  <2>4. QED
    BY <2>1, <2>3
<1>4. CASE ~ShouldRecord(e, player[e])
  BY <1>4 DEF Recorded, NewMine, Fits
<1>5. QED
  BY <1>3, <1>4

(* CreditFits in the terms of an environment's record and turns, which are *)
(* what the steps change.                                                  *)
CreditFrom(e) ==
    /\ hand[e] = Len(results[e])
    /\ phase \in {"sweep", "flush"} => Fits(e)
    /\ phase = "update" =>
          /\ Cut(Steps, rollout[e], MineFrom(rollout[e], turns[e]), results[e])
          /\ \A p \in Seats : advantages[e][p] =
                Columns!Advantages(Gamma, Lambda, rollout[e].stored[p],
                    rollout[e].tailWasTerminal[p], Bootstrap(e, p))

Credited == results \in [Envs -> Seq(Int)] /\ \A e \in Envs : CreditFrom(e)

LEMMA CreditIs == CreditFits <=> Credited
<1>1. \A e \in Envs : [p \in Seats |-> DecisionsOf(e, p)] = MineFrom(rollout[e], turns[e])
  BY DecisionsOfAre
<1>2. QED
  BY <1>1 DEF CreditFits, CreditOf, Credited, CreditFrom, Fits, Steps

(* An environment that is stepped keeps its credit, and so do the others.  *)
LEMMA CreditStepped ==
    ASSUME Orderly, AllTold, CreditFits, NEW e \in Envs, Stepped(e),
           results' \in [Envs -> Seq(Int)],
           \A f \in Envs \ {e} : results'[f] = results[f] /\ hand'[f] = hand[f],
           hand'[e] = Len(results'[e]),
           Running(Steps, Recorded(e), NewMine(e), results[e])
              => Running(Steps, rollout'[e], NewMine(e), results'[e])
    PROVE  CreditFits'
<1>1. TypeOK /\ TurnsInStep
  BY DEF Orderly
<1>2. phase = "sweep" /\ phase' = phase /\ step < NumSteps
  BY <1>1 DEF Stepped, BeginStep, TurnsInStep
<1>3. /\ MineFrom(rollout'[e], turns'[e]) = NewMine(e)
      /\ \A f \in Envs \ {e} : rollout'[f] = rollout[f] /\ turns'[f] = turns[f]
  BY MineStepped
<1>4. \A f \in Envs : hand[f] = Len(results[f]) /\ Fits(f)
  BY <1>2, CreditIs DEF Credited, CreditFrom
<1>5. Running(Steps, Recorded(e), NewMine(e), results[e])
  BY <1>1, <1>2, <1>4, RecordedRuns
<1>6. Running(Steps, rollout'[e], NewMine(e), results'[e])
  BY <1>5
<1>7. ASSUME NEW f \in Envs
      PROVE  /\ hand'[f] = Len(results'[f])
             /\ Running(Steps, rollout'[f], MineFrom(rollout'[f], turns'[f]), results'[f])
  <2>1. CASE f = e
    BY <2>1, <1>3, <1>6
  <2>2. CASE f # e
    BY <2>2, <1>3, <1>4 DEF Fits
  <2>3. QED
    BY <2>1, <2>2
<1>8. \A f \in Envs : CreditFrom(f)'
  BY <1>2, <1>7 DEF CreditFrom, Fits, Steps
<1>9. Credited'
  BY <1>8 DEF Credited
<1>10. QED
  BY <1>9, CreditIs, PTL

LEMMA CreditGoesOn ==
    ASSUME Orderly, AllTold, CreditFits, NEW e \in Envs, NEW next \in NextActors(player[e]),
           HandGoesOn(e, next)
    PROVE  CreditFits'
<1>1. Stepped(e)
  BY GoesOnSteps DEF Orderly
<1>2. results \in [Envs -> Seq(Int)] /\ hand[e] = Len(results[e])
  BY CreditIs DEF Credited, CreditFrom
<1>3. results' = results /\ hand' = hand
  BY DEF HandGoesOn
<1>4. rollout'[e] = Columns!StepReward(Recorded(e), 0)
  BY DEF HandGoesOn, Orderly, TypeOK
<1>5. Running(Steps, Recorded(e), NewMine(e), results[e])
         => Running(Steps, rollout'[e], NewMine(e), results'[e])
  BY <1>3, <1>4, NoRewardRuns
<1>6. QED
  BY <1>1, <1>2, <1>3, <1>5, CreditStepped

LEMMA CreditEnds ==
    ASSUME Orderly, AllTold, CreditFits, NEW e \in Envs, NEW r \in Rewards, HandEnds(e, r)
    PROVE  CreditFits'
<1>1. Stepped(e)
  BY EndsSteps DEF Orderly
<1>2. results \in [Envs -> Seq(Int)] /\ hand[e] = Len(results[e]) /\ r \in Int
  BY TrainingAssumption, CreditIs DEF Credited, CreditFrom
<1>3. /\ results' = [results EXCEPT ![e] = Append(@, r)]
      /\ hand' = [hand EXCEPT ![e] = @ + 1] /\ hand \in [Envs -> Nat]
  BY DEF HandEnds, Orderly, TypeOK
<1>4. rollout'[e] = Columns!FlushOnTerminal(Columns!StepReward(Recorded(e), r))
  BY DEF HandEnds, Orderly, TypeOK
<1>5. /\ results' \in [Envs -> Seq(Int)] /\ results'[e] = Append(results[e], r)
      /\ hand'[e] = Len(results'[e])
      /\ \A f \in Envs \ {e} : results'[f] = results[f] /\ hand'[f] = hand[f]
  BY <1>2, <1>3
<1>6. Running(Steps, Recorded(e), NewMine(e), results[e])
         => Running(Steps, rollout'[e], NewMine(e), results'[e])
  BY <1>2, <1>4, <1>5, ResultRuns
<1>7. QED
  BY <1>1, <1>5, <1>6, CreditStepped

LEMMA CreditStarts ==
    ASSUME StartRollout
    PROVE  CreditFits'
<1>1. /\ phase' = "sweep"
      /\ rollout' = [e \in Envs |-> Columns!Fresh(0)]
      /\ hand' = [e \in Envs |-> 0] /\ results' = [e \in Envs |-> <<>>]
      /\ turns' = [e \in Envs |-> <<>>]
  BY DEF StartRollout, CarryDone
<1>2. ASSUME NEW p \in {0, 1} PROVE DecisionsFrom(Columns!Fresh(0), <<>>, p) = <<>>
  <2>1. Columns!Fresh(0).stored[p] = <<>> /\ Columns!Fresh(0).pending[p] = <<>>
    BY FreshIsWellformed DEF Seats
  <2>2. Len(Decisions(Columns!Fresh(0), p)) = 0
    <3>1. Len(<<>> \o <<>>) = 0
      OBVIOUS
    <3>2. QED
      BY <2>1, <3>1, Zenon DEF Decisions
  <2>3. QED
    BY <2>2 DEF DecisionsFrom
<1>3. MineFrom(Columns!Fresh(0), <<>>) = [p \in {0, 1} |-> <<>>]
  BY <1>2 DEF MineFrom
<1>4. Running(Steps, Columns!Fresh(0), MineFrom(Columns!Fresh(0), <<>>), <<>>)
  BY <1>3, FreshRuns
<1>5. ASSUME NEW e \in Envs PROVE CreditFrom(e)'
  <2>1. Running(Steps, rollout'[e], MineFrom(rollout'[e], turns'[e]), results'[e])
    BY <1>1, <1>4
  <2>2. hand'[e] = Len(results'[e])
    BY <1>1
  <2>3. QED
    BY <2>1, <2>2, <1>1 DEF CreditFrom, Fits, Steps
<1>6. results' \in [Envs -> Seq(Int)]
  BY <1>1
<1>7. Credited'
  BY <1>5, <1>6 DEF Credited
<1>8. QED
  BY <1>7, CreditIs, PTL

LEMMA CreditFinishes ==
    ASSUME Orderly, CreditFits, FinishRollout
    PROVE  CreditFits'
<1>1. /\ phase = "flush" /\ phase' = "update"
      /\ \A e \in Envs : rollout'[e] = Columns!FlushOnRolloutEnd(rollout[e])
      /\ hand' = hand /\ results' = results /\ turns' = turns /\ player' = player
  BY DEF FinishRollout, historyVars
<1>2. /\ results \in [Envs -> Seq(Int)]
      /\ \A e \in Envs : hand[e] = Len(results[e]) /\ Fits(e)
  BY <1>1, CreditIs DEF Credited, CreditFrom
<1>3. ASSUME NEW e \in Envs PROVE CreditFrom(e)'
  <2> DEFINE s == rollout[e]
             t == Columns!FlushOnRolloutEnd(s)
  <2>1. Wellformed(s) /\ \A p \in Seats : SameSteps(s, t, p)
    BY FlushOnRolloutEndFacts DEF Orderly, TypeOK, Wellformed
  <2>2. MineFrom(t, turns[e]) = MineFrom(s, turns[e])
    BY <2>1, FromTheSame DEF MineFrom, Seats
  <2>3. Cut(Steps, t, MineFrom(t, turns[e]), results[e])
    BY <2>2, <1>2, EndCuts DEF Fits
  <2>4. Cut(Steps, rollout'[e], MineFrom(rollout'[e], turns'[e]), results'[e])
    BY <2>3, <1>1
  <2>5. \A p \in Seats : advantages'[e][p] =
           Columns!Advantages(Gamma, Lambda, rollout'[e].stored[p],
               rollout'[e].tailWasTerminal[p], Bootstrap(e, p))
    BY <1>1 DEF FinishRollout
  <2>6. \A p \in Seats : Bootstrap(e, p)' = Bootstrap(e, p)
    BY <1>1 DEF Bootstrap
  <2>7. QED
    BY <2>4, <2>5, <2>6, <1>1, <1>2 DEF CreditFrom, Steps
<1>4. Credited'
  BY <1>1, <1>2, <1>3 DEF Credited
<1>5. QED
  BY <1>4, CreditIs, PTL

LEMMA CreditNext ==
    ASSUME Orderly, AllTold, CreditFits, [RunNext]_allVars
    PROVE  CreditFits'
<1>1. CASE EndSweep \/ Update \/ UNCHANGED vars
  <2>1. /\ UNCHANGED <<player, rollout, turns, results, hand>>
        /\ phase' = "update" => phase = "update" /\ advantages' = advantages
        /\ phase' \in {"sweep", "flush"} => phase \in {"sweep", "flush"}
    BY <1>1 DEF EndSweep, Update, vars, historyVars
  <2>2. /\ results \in [Envs -> Seq(Int)]
        /\ \A e \in Envs : CreditFrom(e)
    BY CreditIs DEF Credited
  <2>3. ASSUME NEW e \in Envs PROVE CreditFrom(e)'
    BY <2>1, <2>2 DEF CreditFrom, Fits, Bootstrap, Steps
  <2>4. Credited'
    BY <2>1, <2>2, <2>3 DEF Credited
  <2>5. QED
    BY <2>4, CreditIs, PTL
<1>2. CASE RolloutStep
  BY <1>1, <1>2, CreditStarts, CreditGoesOn, CreditEnds, CreditFinishes DEF RolloutStep
<1>3. CASE Rollout
  BY <1>2, <1>3 DEF Rollout
<1>4. CASE UpdateNetwork
  BY <1>1, <1>4 DEF UpdateNetwork
<1>5. CASE SaveModel \/ RunDone \/ UNCHANGED allVars
  BY <1>1, <1>5 DEF SaveModel, RunDone, allVars
<1>6. QED
  BY <1>3, <1>4, <1>5 DEF RunNext

LEMMA CreditFirst == ASSUME Init PROVE CreditFits
<1>1. /\ phase = "idle" /\ results = [e \in Envs |-> <<>>]
      /\ hand = [e \in Envs |-> 0]
  BY DEF Init
<1>2. results \in [Envs -> Seq(Int)] /\ \A e \in Envs : hand[e] = Len(results[e])
  BY <1>1
<1>3. QED
  BY <1>1, <1>2, CreditIs DEF Credited, CreditFrom
-----------------------------------------------------------------------------
(* The error of a transition, told from the hands: its successor's value   *)
(* within the hand, the result where the hand ended, the bootstrap where   *)
(* the rollout cut it off.                                                 *)
LEMMA ErrorOfTheHand ==
    ASSUME NEW steps, NEW c \in Seq(StoredAt(steps)), NEW gamma \in Int,
           NEW terminal \in BOOLEAN, NEW bootstrap \in Int,
           NEW mine \in Seq(DecisionAt(steps)), NEW rewards \in Seq(Int),
           NEW p \in {0, 1}, NEW next, Tells(<<>>, c, next, mine, rewards, p),
           mine # <<>> => (terminal <=> ~InHand(mine, rewards)),
           NEW t \in 1 .. Len(c)
    PROVE  /\ Columns!Delta(gamma, c, t, terminal, bootstrap) =
                 (IF t < Len(c) /\ mine[t + 1].hand = mine[t].hand
                  THEN gamma * c[t + 1].value
                  ELSE IF mine[t].hand < Len(rewards)
                       THEN Paid(rewards, p, mine[t].hand + 1)
                       ELSE gamma * bootstrap) - c[t].value
           /\ t < Len(c) => Columns!NextNonterminal(c, t, terminal) =
                               IF mine[t + 1].hand = mine[t].hand THEN 1 ELSE 0
<1> DEFINE n == Len(c)
           N == Columns!NextNonterminal(c, t, terminal)
           V == Columns!NextValue(c, t, terminal, bootstrap)
           h == mine[t].hand
           k == Len(rewards)
           due == Paid(rewards, p, h + 1)
<1>1. n \in Nat /\ k \in Nat /\ Len(mine) = n /\ mine # <<>>
  <2>1. n \in Nat /\ k \in Nat /\ Len(<<>>) = 0
    OBVIOUS
  <2>2. Len(mine) = n + 0
    BY <2>1 DEF Tells
  <2>3. Len(mine) = n
    BY <2>1, <2>2
  <2>4. mine # <<>>
    BY <2>1, <2>3
  <2>5. QED
    BY <2>1, <2>3, <2>4
<1>2. \A j \in 1 .. n : c[j].value \in Int /\ mine[j].hand \in Nat
  <2>1. \A j \in 1 .. n : c[j] \in StoredAt(steps)
    <3> HIDE DEF StoredAt
    <3>1. QED
      OBVIOUS
  <2>2. \A j \in 1 .. n : mine[j] \in DecisionAt(steps)
    <3> HIDE DEF DecisionAt, n
    <3>1. QED
      BY <1>1
  <2>3. QED
    BY <2>1, <2>2 DEF StoredAt, DecisionAt
<1>3. /\ h <= k
      /\ c[t].reward = Due(mine, rewards, p, t)
      /\ t # n => /\ h <= mine[t + 1].hand
                  /\ At(<<>>, c, t + 1).done = IF h = mine[t + 1].hand THEN 0 ELSE 1
  BY <1>1 DEF Tells
<1>4. t # n => t + 1 \in 1 .. n /\ t < n
  BY <1>1
<1>5. t # n => /\ c[t + 1].done = IF h = mine[t + 1].hand THEN 0 ELSE 1
               /\ mine[t + 1].hand <= k
  <2>1. CASE t # n
    <3>1. t + 1 \in 1 .. n /\ t + 1 <= n
      BY <2>1, <1>4
    <3>2. At(<<>>, c, t + 1) = c[t + 1]
      BY <3>1 DEF At
    <3>3. mine[t + 1].hand <= k
      BY <3>1, <1>1 DEF Tells
    <3>4. QED
      BY <2>1, <3>2, <3>3, <1>3
  <2>2. QED
    BY <2>1
<1>6. Columns!Delta(gamma, c, t, terminal, bootstrap) = c[t].reward + gamma * V * N - c[t].value
  BY DEF Columns!Delta
<1>7. /\ \A z, v \in Int : 0 + z * 1 - v = z - v /\ z + 0 - v = z - v
      /\ \A z \in Int : z * 0 = 0
  OBVIOUS
<1>8. due \in Int
  <2>1. \A j \in DOMAIN rewards : rewards[j] \in Int
    OBVIOUS
  <2>2. QED
    BY <2>1 DEF Paid
<1> HIDE DEF n, N, V, h, k, due
<1>9. CASE t # n /\ mine[t + 1].hand = h
  <2>1. t < n /\ t + 1 \in 1 .. n /\ c[t + 1].done = 0
    BY <1>9, <1>4, <1>5
  <2>2. c[t].reward = 0
    BY <1>1, <1>3, <1>9, <2>1 DEF Due, h, n
  <2>3. V = c[t + 1].value /\ N = 1
    BY <1>9, <2>1 DEF V, N, n, Columns!NextNonterminal, Columns!NextValue
  <2>4. gamma * V \in Int
    BY <1>2, <2>1, <2>3
  <2>5. c[t].reward + gamma * V * N - c[t].value = gamma * c[t + 1].value - c[t].value
    <3>1. c[t].value \in Int
      BY <1>2 DEF n
    <3>2. 0 + gamma * V * 1 - c[t].value = gamma * V - c[t].value
      BY <2>4, <3>1, <1>7, Zenon
    <3>3. QED
      BY <2>2, <2>3, <3>2, Zenon
  <2>6. QED
    BY <1>6, <1>9, <2>1, <2>3, <2>5 DEF h, n, N
<1>10. CASE t # n /\ mine[t + 1].hand # h
  <2>1. t < n /\ t + 1 \in 1 .. n /\ c[t + 1].done = 1
    BY <1>10, <1>4, <1>5
  <2>2. c[t].reward = due
    BY <1>1, <1>3, <1>10, <2>1 DEF Due, h, n, due
  <2>3. V = c[t + 1].value /\ N = 0
    BY <1>10, <2>1 DEF V, N, n, Columns!NextNonterminal, Columns!NextValue
  <2>4. gamma * V \in Int
    BY <1>2, <2>1, <2>3
  <2>5. h < k
    BY <1>1, <1>2, <1>3, <1>5, <1>10, <2>1 DEF h
  <2>6. c[t].reward + gamma * V * N - c[t].value = due - c[t].value
    <3>1. gamma * V * N = 0
      BY <2>3, <2>4, <1>7
    <3>2. c[t].value \in Int
      BY <1>2 DEF n
    <3>3. due + 0 - c[t].value = due - c[t].value
      BY <3>2, <1>7, <1>8, Zenon
    <3>4. QED
      BY <2>2, <3>1, <3>3, Zenon
  <2>7. QED
    BY <1>6, <1>10, <2>1, <2>3, <2>5, <2>6 DEF h, n, N, k, due
<1>11. CASE t = n
  <2>1. ~(t < n)
    BY <1>1, <1>11
  <2>2. c[t].reward = due
    BY <1>1, <1>3, <1>11, <2>1 DEF Due, h, n, due
  <2>3. terminal <=> h # k
    BY <1>1, <1>11 DEF InHand, h, k
  <2>4. CASE h # k
    <3>1. terminal
      BY <2>3, <2>4
    <3>2. V = 0 /\ N = 0
      BY <1>11, <3>1 DEF V, N, n, Columns!NextNonterminal, Columns!NextValue
    <3>3. h < k
      <4>1. h \in Nat
        BY <1>2 DEF h, n
      <4>2. QED
        BY <4>1, <1>1, <1>3, <2>4
    <3>4. gamma * V * N = 0
      <4>1. gamma * 0 \in Int
        OBVIOUS
      <4>2. gamma * 0 * 0 = 0
        BY <4>1, <1>7, Zenon
      <4>3. QED
        BY <3>2, <4>2, Zenon
    <3>5. c[t].reward + gamma * V * N - c[t].value = due - c[t].value
      <4>1. c[t].value \in Int
        BY <1>2 DEF n
      <4>2. due + 0 - c[t].value = due - c[t].value
        BY <4>1, <1>7, <1>8, Zenon
      <4>3. QED
        BY <2>2, <3>4, <4>2, Zenon
    <3>6. QED
      BY <1>6, <2>1, <3>3, <3>5 DEF h, n, k, due
  <2>5. CASE h = k
    <3>1. ~terminal
      BY <2>3, <2>5
    <3>2. V = bootstrap /\ N = 1
      BY <1>11, <3>1 DEF V, N, n, Columns!NextNonterminal, Columns!NextValue
    <3>3. due = 0
      <4>1. k + 1 \notin DOMAIN rewards
        BY <1>1 DEF k
      <4>2. QED
        BY <2>5, <4>1 DEF due, Paid
    <3>4. gamma * bootstrap \in Int
      OBVIOUS
    <3>5. c[t].reward + gamma * V * N - c[t].value = gamma * bootstrap - c[t].value
      <4>1. c[t].value \in Int
        BY <1>2 DEF n
      <4>2. 0 + gamma * bootstrap * 1 - c[t].value = gamma * bootstrap - c[t].value
        BY <4>1, <3>4, <1>7, Zenon
      <4>3. QED
        BY <2>2, <3>2, <3>3, <4>2, Zenon
    <3>6. ~(h < k)
      BY <1>1, <2>5
    <3>7. QED
      BY <1>6, <2>1, <3>5, <3>6 DEF h, n, k
  <2>6. QED
    BY <2>4, <2>5
<1>12. QED
  BY <1>9, <1>10, <1>11

(* The discounts.                                                          *)
LEMMA FadeIs == Fade \in [0 .. NumSteps -> Int] /\ Powers(Fade, NumSteps, Gamma * Lambda)
<1> DEFINE Rec(f) == [n \in 0 .. NumSteps |-> IF n = 0 THEN 1 ELSE Gamma * Lambda * f[n - 1]]
<1>1. NumSteps \in Nat /\ Gamma * Lambda \in Int
  BY TrainingAssumption
<1>2. PICK w \in [0 .. NumSteps -> Int] : Powers(w, NumSteps, Gamma * Lambda)
  BY <1>1, PowersExist
<1>3. w = Rec(w)
  BY <1>2 DEF Powers
<1>4. Fade = CHOOSE f : f = Rec(f)
  BY DEF Fade
<1>5. Fade = Rec(Fade)
  BY <1>3, <1>4
<1>6. \A k \in 0 .. NumSteps : Fade[k] = IF k = 0 THEN 1 ELSE Gamma * Lambda * Fade[k - 1]
  BY <1>5
<1> DEFINE P == {n \in Nat : n <= NumSteps => Fade[n] \in Int}
<1>7. 0 \in P
  BY <1>1, <1>6
<1>8. ASSUME NEW n \in P PROVE n + 1 \in P
  <2>1. CASE n + 1 <= NumSteps
    <3>1. n \in Nat /\ n + 1 \in 0 .. NumSteps /\ n + 1 # 0 /\ n + 1 - 1 = n
      BY <2>1
    <3>2. Fade[n] \in Int
      BY <1>1, <2>1, <3>1
    <3>3. Fade[n + 1] = Gamma * Lambda * Fade[n]
      BY <1>6, <3>1
    <3>4. QED
      BY <1>1, <3>1, <3>2, <3>3
  <2>2. CASE ~(n + 1 <= NumSteps)
    BY <2>2
  <2>3. QED
    BY <2>1, <2>2
<1>9. P \in SUBSET Nat
  OBVIOUS
<1> HIDE DEF P
<1>10. \A n \in Nat : n \in P
  BY <1>7, <1>8, <1>9, Induction
<1>11. \A n \in 0 .. NumSteps : Fade[n] \in Int
  BY <1>1, <1>10 DEF P
<1>12. DOMAIN Fade = 0 .. NumSteps /\ Fade = [n \in 0 .. NumSteps |-> Fade[n]]
  BY <1>5
<1>13. QED
  BY <1>6, <1>11, <1>12 DEF Powers

(* At the end of a rollout the invariant says what the advantages are.     *)
LEMMA ColumnsWhenCut ==
    ASSUME Orderly, CreditFits, phase = "update", NEW e \in Envs, NEW p \in Seats
    PROVE  LET c == rollout[e].stored[p]
               mine == MineFrom(rollout[e], turns[e])[p]
               B == CarriedValue(e, p)
               terminal == rollout[e].tailWasTerminal[p]
           IN  /\ c \in Seq(StoredAt(Steps)) /\ Len(c) <= NumSteps
               /\ terminal \in BOOLEAN /\ B \in Int
               /\ mine \in Seq(DecisionAt(Steps)) /\ results[e] \in Seq(Int)
               /\ hand[e] = Len(results[e])
               /\ Tells(<<>>, c, rollout[e].nextDone[p], mine, results[e], p)
               /\ mine # <<>> => (terminal <=> ~InHand(mine, results[e]))
               /\ Len(mine) = Len(c)
               /\ \A t \in 1 .. Len(c) : mine[t].hand = HandOf(e, c[t])
               /\ advantages[e][p] = Columns!Advantages(Gamma, Lambda, c, terminal, B)
<1> DEFINE s == rollout[e]
           c == s.stored[p]
           T == turns[e]
           mine == MineFrom(s, T)
           terminal == s.tailWasTerminal[p]
<1>1. /\ Cut(Steps, s, mine, results[e]) /\ hand[e] = Len(results[e])
      /\ advantages[e][p] = Columns!Advantages(Gamma, Lambda, c, terminal, Bootstrap(e, p))
      /\ p \in {0, 1}
  BY CreditIs DEF Credited, CreditFrom, Seats
<1>2. Bootstrap(e, p) = CarriedValue(e, p)
  BY DEF Bootstrap, CarriedValue
<1>3. CarriedValue(e, p) \in Int
  <2>1. Critic[NumSteps] \in Int
    BY TrainingAssumption
  <2>2. QED
    BY <2>1 DEF CarriedValue
<1>4. Len(c) <= NumSteps
  BY DEF Orderly, TypeOK
<1> HIDE DEF s, mine
<1>5. /\ s \in ColumnsAt(Steps) /\ DecisionHistories(Steps, mine, results[e])
      /\ s.pending[p] = <<>>
      /\ Tells(<<>>, c, s.nextDone[p], mine[p], results[e], p)
      /\ mine[p] # <<>> => (terminal <=> ~InHand(mine[p], results[e]))
  BY <1>1 DEF Cut
<1>6. c \in Seq(StoredAt(Steps)) /\ terminal \in BOOLEAN
  BY <1>1, <1>5 DEF ColumnsAt
<1>7. mine[p] \in Seq(DecisionAt(Steps)) /\ results[e] \in Seq(Int)
  BY <1>1, <1>5 DEF DecisionHistories
<1>8. Decisions(s, p) = c
  <2>1. Decisions(s, p) = c \o <<>>
    BY <1>5 DEF Decisions
  <2> HIDE DEF c, StoredAt
  <2>2. c \o <<>> = c
    BY <1>6
  <2>3. QED
    BY <2>1, <2>2
<1>9. mine[p] = [t \in 1 .. Len(c) |-> [step |-> c[t].step, hand |-> T[c[t].step + 1].hand]]
  BY <1>1, <1>8 DEF mine, MineFrom, DecisionsFrom
<1>10. \A t \in 1 .. Len(c) : mine[p][t].hand = HandOf(e, c[t])
  <2>1. \A t \in 1 .. Len(c) : HandOf(e, c[t]) = T[c[t].step + 1].hand
    BY DEF HandOf, TurnAt
  <2> HIDE DEF c, T
  <2>2. QED
    BY <2>1, <1>9
<1>11. Len(mine[p]) = Len(c)
  <2>1. Len(c) \in Nat
    BY <1>6
  <2>2. DOMAIN mine[p] = 1 .. Len(c)
    BY <1>9
  <2>3. Len(mine[p]) \in Nat /\ DOMAIN mine[p] = 1 .. Len(mine[p])
    BY <1>7
  <2> HIDE DEF c
  <2>4. \A a, b \in Nat : 1 .. a = 1 .. b => a = b
    OBVIOUS
  <2>5. QED
    BY ONLY <2>1, <2>2, <2>3, <2>4, Zenon
<1>12. QED
  BY <1>1, <1>2, <1>3, <1>4, <1>5, <1>6, <1>7, <1>10, <1>11 DEF s, mine

LEMMA CreditMeans ==
    ASSUME Orderly, CreditFits
    PROVE  AdvantagesStayInTheHand
<1> SUFFICES ASSUME phase = "update", NEW e \in Envs, NEW p \in Seats,
                    NEW t \in DOMAIN rollout[e].stored[p]
             PROVE  advantages[e][p][t] = SumFunction(
                        [k \in RestOfHand(e, rollout[e].stored[p], t) |->
                            Fade[k - t] * HandDelta(e, p, k)])
  BY DEF AdvantagesStayInTheHand
<1> DEFINE c == rollout[e].stored[p]
           n == Len(c)
           mine == MineFrom(rollout[e], turns[e])[p]
           rewards == results[e]
           B == CarriedValue(e, p)
           terminal == rollout[e].tailWasTerminal[p]
           next == rollout[e].nextDone[p]
           h == [k \in 1 .. n |-> mine[k].hand]
           D == Errors(Gamma, c, terminal, B)
           G == Decay(Gamma, Lambda, c, terminal)
           x == Gamma * Lambda
           R == SameLabel(h, t, n)
<1>1. /\ c \in Seq(StoredAt(Steps)) /\ Len(c) <= NumSteps
      /\ terminal \in BOOLEAN /\ B \in Int
      /\ mine \in Seq(DecisionAt(Steps)) /\ rewards \in Seq(Int)
      /\ hand[e] = Len(rewards)
      /\ Tells(<<>>, c, next, mine, rewards, p)
      /\ mine # <<>> => (terminal <=> ~InHand(mine, rewards))
      /\ Len(mine) = Len(c)
      /\ \A k \in 1 .. Len(c) : mine[k].hand = HandOf(e, c[k])
      /\ advantages[e][p] = Columns!Advantages(Gamma, Lambda, c, terminal, B)
  BY ColumnsWhenCut
<1>2. /\ p \in {0, 1} /\ Gamma \in Int /\ Lambda \in Int /\ NumSteps \in Nat /\ x \in Int
  BY TrainingAssumption DEF Seats
<1>3. n \in Nat /\ t \in 1 .. n /\ n <= NumSteps
  BY <1>1
<1>4. ASSUME NEW k \in 1 .. n
      PROVE  Columns!Delta(Gamma, c, k, terminal, B) = HandDelta(e, p, k)
  <2>1. Columns!Delta(Gamma, c, k, terminal, B) =
           (IF k < n /\ mine[k + 1].hand = mine[k].hand THEN Gamma * c[k + 1].value
            ELSE IF mine[k].hand < Len(rewards) THEN Paid(rewards, p, mine[k].hand + 1)
                 ELSE Gamma * B) - c[k].value
    <3> HIDE DEF c, mine, rewards, B, terminal, next
    <3>1. QED
      BY <1>1, <1>2, ErrorOfTheHand, SMTT(30) DEF n
  <2>2. mine[k].hand = HandOf(e, c[k]) /\ k < n => mine[k + 1].hand = HandOf(e, c[k + 1])
    BY <1>1, <1>3
  <2>3. mine[k].hand = HandOf(e, c[k])
    BY <1>1
  <2>4. QED
    BY <2>1, <2>2, <2>3, <1>1 DEF HandDelta, Finished
<1>5. ASSUME NEW k \in 1 .. n, k < n
      PROVE  Columns!NextNonterminal(c, k, terminal) = IF h[k] = h[k + 1] THEN 1 ELSE 0
  <2> k + 1 \in 1 .. n
    BY <1>3, <1>5
  <2> HIDE DEF c, mine, rewards, B, terminal, next
  <2>1. Columns!NextNonterminal(c, k, terminal) =
           IF mine[k + 1].hand = mine[k].hand THEN 1 ELSE 0
    BY <1>1, <1>2, <1>5, ErrorOfTheHand DEF n
  <2>2. h[k] = mine[k].hand /\ h[k + 1] = mine[k + 1].hand
    OBVIOUS
  <2>3. QED
    BY <2>1, <2>2
<1>6. /\ \A k \in 1 .. n : h[k] \in Nat
      /\ \A k \in 1 .. n : k < n => h[k] <= h[k + 1]
  <2> HIDE DEF c, mine
  <2>1. \A k \in 1 .. n : mine[k] \in DecisionAt(Steps)
    <3> HIDE DEF DecisionAt
    <3>1. QED
      BY <1>1
  <2>2. \A k \in 1 .. n : h[k] = mine[k].hand /\ h[k] \in Nat
    BY <2>1 DEF DecisionAt
  <2>3. ASSUME NEW k \in 1 .. n, k < n PROVE h[k] <= h[k + 1]
    <3>1. k + 1 \in 1 .. n /\ k \in 1 .. Len(mine) /\ k # Len(mine)
      BY <1>1, <1>3, <2>3
    <3>2. mine[k].hand <= mine[k + 1].hand
      BY <3>1, <1>1 DEF Tells
    <3>3. QED
      BY <3>1, <3>2, <2>2
  <2>4. QED
    BY <2>2, <2>3
<1> HIDE DEF c, mine, rewards, B, terminal, next, h, x
<1>7. PICK f \in [1 .. n + 1 -> Int] :
         /\ RunsBackward(f, 1, n, D, G)
         /\ D \in [1 .. n -> Int] /\ G \in [1 .. n -> Int]
         /\ \A k \in 1 .. n : Columns!Advantages(Gamma, Lambda, c, terminal, B)[k] = f[k]
  <2>1. AreBackward(Gamma, Lambda, c, terminal, B)
    BY <1>1, <1>2, AdvantagesRunBackward
  <2>2. QED
    BY <2>1 DEF AreBackward, n
<1>8. D \in [1 .. n -> Int] /\ \A k \in 1 .. n : G[k] \in Int
  <2> HIDE DEF D, G
  <2>1. QED
    BY <1>7
<1>9. \A k \in 1 .. n : k < n => G[k] = IF h[k] = h[k + 1] THEN x ELSE 0
  <2>1. \A k \in 1 .. n : G[k] = x * Columns!NextNonterminal(c, k, terminal)
    BY DEF Decay, n, x
  <2>2. x * 1 = x /\ x * 0 = 0
    BY <1>2
  <2>3. QED
    BY <2>1, <2>2, <1>5
<1>10. \A k \in 1 .. n : D[k] = HandDelta(e, p, k)
  BY <1>4 DEF Errors, n
<1> HIDE DEF D, G
<1>11. f[t] = SumFunctionOnSet([k \in R |-> Fade[k - t] * D[k]], R)
  <2>1. Fade \in [0 .. NumSteps -> Int] /\ Powers(Fade, NumSteps, x)
    BY FadeIs DEF x
  <2> HIDE DEF n, R
  <2>2. SumsByLabel(f, D, Fade, h, n)
    BY <2>1, <1>2, <1>3, <1>6, <1>7, <1>8, <1>9, BackwardSums
  <2>3. QED
    BY <2>2, <1>3 DEF R, SumsByLabel
<1>12. RestOfHand(e, c, t) = R
  <2>1. \A k \in t .. n : k \in 1 .. n
    BY <1>3
  <2>2. \A k \in 1 .. n : h[k] = HandOf(e, c[k])
    BY <1>1 DEF h, n
  <2>3. QED
    BY <2>1, <2>2, <1>3 DEF RestOfHand, SameLabel, n
<1>13. [k \in R |-> Fade[k - t] * D[k]] = [k \in R |-> Fade[k - t] * HandDelta(e, p, k)]
  <2>1. \A k \in R : k \in 1 .. n
    BY <1>3 DEF SameLabel
  <2> HIDE DEF R
  <2>2. QED
    BY <2>1, <1>10
<1>14. advantages[e][p][t] = f[t]
  BY <1>1, <1>3, <1>7
<1>15. SumFunction([k \in R |-> Fade[k - t] * HandDelta(e, p, k)]) =
          SumFunctionOnSet([k \in R |-> Fade[k - t] * HandDelta(e, p, k)], R)
  BY DEF SumFunction
<1>16. QED
  BY <1>11, <1>12, <1>13, <1>14, <1>15 DEF c

(* The whole invariant, with what the rewards and flags of the records     *)
(* mean, of training runs of any size.                                     *)
THEOREM Invariance == RunSpec => []IInv
<1>1. RunInit => AllTold /\ CreditFits
  BY ToldOfNothing, CreditFirst DEF RunInit, Init, AllTold
<1>2. Orderly /\ AllTold /\ CreditFits /\ [RunNext]_allVars => AllTold' /\ CreditFits'
  BY ToldNext, CreditNext
<1>3. Orderly /\ CreditFits => IInv
  BY DEF IInv
<1>4. QED
  BY <1>1, <1>2, <1>3, OrderlyAlways, PTL DEF RunSpec

(* The advantage of a stored decision is the discounted sum of the errors  *)
(* of its own hand, whichever hands end in the rollout, however many       *)
(* decisions are skipped, and wherever the rollout cuts a hand off.        *)
THEOREM CreditStaysInTheHand == RunSpec => []AdvantagesStayInTheHand
<1>1. IInv => AdvantagesStayInTheHand
  BY CreditMeans DEF IInv
<1>2. QED
  BY <1>1, Invariance, PTL
-----------------------------------------------------------------------------
(* Snapshots, magnet and files: what an update does to them, and that      *)
(* nothing else does.                                                      *)
LEMMA TrainedFacts ==
    ASSUME weights \in Nat
    PROVE  Trained \in Nat /\ weights <= Trained /\ Trained <= weights + 1
  BY DEF Trained

LEMMA OnlyUpdates ==
    ASSUME TypeOK, TurnsInStep, [RunNext]_allVars, ~UpdateNetwork
    PROVE  /\ UNCHANGED <<update, snapshots, weights, magnet, frozen, metrics>>
           /\ UNCHANGED <<evaluations, saved>> \/ SaveModel
<1>1. ASSUME RolloutStep PROVE UNCHANGED <<update, snapshots>>
  <2>1. StartRollout \/ (\E e \in Envs : Stepped(e)) \/ EndSweep \/ FinishRollout
    BY <1>1, GoesOnSteps, EndsSteps DEF RolloutStep
  <2>2. QED
    BY <2>1, PoolOnlyInUpdates DEF poolVars
<1>2. CASE Rollout
  BY <1>1, <1>2 DEF Rollout, runVars
<1>3. CASE SaveModel
  BY <1>3 DEF SaveModel, vars, managerVars, poolVars
<1>4. CASE RunDone \/ UNCHANGED allVars
  BY <1>4 DEF RunDone, allVars, vars, runVars, managerVars, poolVars
<1>5. QED
  BY <1>2, <1>3, <1>4 DEF RunNext

LEMMA UpdateFacts ==
    ASSUME Orderly, UpdateNetwork
    PROVE  /\ phase = "update" /\ update' = update + 1
           /\ update \in Nat /\ update < MaxUpdates /\ MaxUpdates \in Nat
           /\ nextId \in Nat /\ snapshots \subseteq 1 .. nextId - 1
           /\ snapshots' \subseteq snapshots \cup {nextId}
<1>1. TypeOK /\ TurnsInStep
  BY DEF Orderly
<1>2. Update
  BY DEF UpdateNetwork
<1>3. QED
  BY <1>1, <1>2, PoolFacts, TrainingAssumption DEF Update, TypeOK, TurnsInStep

LEMMA SnapshotsAreOldNext ==
    ASSUME Orderly, SnapshotsAreOld, [RunNext]_allVars
    PROVE  SnapshotsAreOld'
<1>1. CASE UpdateNetwork
  <2> DEFINE new == [update |-> update, weights |-> Trained]
  <2>1. /\ update' = update + 1 /\ update \in Nat
        /\ nextId \in Nat /\ snapshots \subseteq 1 .. nextId - 1
        /\ snapshots' \subseteq snapshots \cup {nextId}
    BY <1>1, UpdateFacts
  <2>2. /\ weights \in Nat /\ DOMAIN frozen = snapshots
        /\ \A i \in snapshots : /\ frozen[i].update \in 0 .. update - 1
                                /\ frozen[i].weights \in Nat
                                /\ frozen[i].weights <= weights
        /\ \A i, j \in snapshots :
              i < j => /\ frozen[i].update < frozen[j].update
                       /\ frozen[i].weights <= frozen[j].weights
    BY DEF SnapshotsAreOld, SnapshotsArePastSelves
  <2>3. weights' = Trained /\ weights' \in Nat /\ weights <= weights'
    BY <1>1, <2>2, TrainedFacts DEF UpdateNetwork
  <2>4. /\ DOMAIN frozen' = snapshots'
        /\ \A i \in snapshots' : i \in snapshots => frozen'[i] = frozen[i]
        /\ \A i \in snapshots' : i \notin snapshots => frozen'[i] = new
    BY <1>1 DEF UpdateNetwork, Frozen
  <2>5. new.update = update /\ new.weights = weights'
    BY <2>3
  <2> HIDE DEF new
  <2>6. ASSUME NEW i \in snapshots'
        PROVE  /\ frozen'[i].update \in 0 .. update' - 1
               /\ frozen'[i].weights \in Nat /\ frozen'[i].weights <= weights'
    <3>1. CASE i \in snapshots
      BY <3>1, <2>1, <2>2, <2>3, <2>4
    <3>2. CASE i \notin snapshots
      BY <3>2, <2>1, <2>3, <2>4, <2>5
    <3>3. QED
      BY <3>1, <3>2
  <2>7. ASSUME NEW i \in snapshots', NEW j \in snapshots', i < j
        PROVE  /\ frozen'[i].update < frozen'[j].update
               /\ frozen'[i].weights <= frozen'[j].weights
    <3>1. i \in snapshots
      BY <2>1, <2>7
    <3>2. frozen'[i] = frozen[i]
      BY <3>1, <2>4
    <3>3. CASE j \in snapshots
      BY <3>1, <3>2, <3>3, <2>2, <2>4, <2>7
    <3>4. CASE j \notin snapshots
      <4>1. frozen'[j].update = update /\ frozen'[j].weights = weights'
        BY <3>4, <2>4, <2>5
      <4>2. QED
        BY <4>1, <3>1, <3>2, <2>1, <2>2, <2>3
    <3>5. QED
      BY <3>3, <3>4
  <2>8. QED
    BY <2>3, <2>4, <2>6, <2>7 DEF SnapshotsAreOld, SnapshotsArePastSelves
<1>2. CASE ~UpdateNetwork
  <2>1. UNCHANGED <<update, snapshots, weights, frozen>>
    BY <1>2, OnlyUpdates DEF Orderly
  <2>2. QED
    BY <2>1 DEF SnapshotsAreOld, SnapshotsArePastSelves
<1>3. QED
  BY <1>1, <1>2

LEMMA SnapshotsAreOldFirst == ASSUME RunInit PROVE SnapshotsAreOld
<1>1. snapshots = {} /\ weights = 0 /\ frozen = [id \in {} |-> 0]
  BY DEF RunInit, Init, ManagerInit
<1>2. QED
  BY <1>1 DEF SnapshotsAreOld, SnapshotsArePastSelves

(* The opponents are past selves, a younger id never the older network.    *)
THEOREM OpponentsArePastSelves == RunSpec => []SnapshotsArePastSelves
<1>1. RunInit => SnapshotsAreOld
  BY SnapshotsAreOldFirst
<1>2. Orderly /\ SnapshotsAreOld /\ [RunNext]_allVars => SnapshotsAreOld'
  BY SnapshotsAreOldNext
<1>3. SnapshotsAreOld => SnapshotsArePastSelves
  BY DEF SnapshotsAreOld
<1>4. QED
  BY <1>1, <1>2, <1>3, OrderlyAlways, PTL DEF RunSpec
-----------------------------------------------------------------------------
LEMMA PeriodFacts == MagnetPeriod \in Nat \ {0} /\ MagnetPeriod = Max({1, MagnetEvery})
  BY MaxOfTwo, RunAssumption DEF MagnetPeriod

LEMMA MagnetFollowsNext ==
    ASSUME Orderly, weights \in Nat, MagnetFollows, [RunNext]_allVars
    PROVE  MagnetFollows'
<1>1. CASE UpdateNetwork
  <2> DEFINE M == MagnetPeriod
  <2>1. update' = update + 1 /\ update \in Nat /\ M \in Nat \ {0}
    BY <1>1, UpdateFacts, PeriodFacts
  <2>2. /\ magnet \in Nat /\ magnet <= weights
        /\ update = 0 => magnet = weights
        /\ update > 0 => \E q \in 0 .. update, d \in 1 .. M :
                            update = q * M + d /\ weights - magnet <= d
    BY DEF MagnetFollows
  <2>3. /\ weights' \in Nat /\ weights <= weights' /\ weights' <= weights + 1
        /\ magnet' = IF update > 0 /\ update % M = 0 THEN weights' ELSE magnet
    BY <1>1, TrainedFacts, PeriodFacts DEF UpdateNetwork, MagnetDue
  <2> HIDE DEF M
  <2>4. magnet' = weights' \/ magnet' = magnet
    BY <2>3, Zenon
  <2>5. \A n \in Nat : weights - magnet <= n => weights' - magnet' <= n + 1
    <3>1. \A w, v, m, n \in Nat : v <= w + 1 /\ w - m <= n => v - m <= n + 1
      OBVIOUS
    <3>2. \A v, n \in Nat : v - v <= n + 1
      OBVIOUS
    <3>3. QED
      BY <3>1, <3>2, <2>2, <2>3, <2>4
  <2>6. \E q \in 0 .. update', d \in 1 .. M :
           update' = q * M + d /\ weights' - magnet' <= d
    <3>1. CASE update = 0
      <4>1. 0 \in 0 .. update' /\ 1 \in 1 .. M /\ update' = 0 * M + 1
        BY <3>1, <2>1
      <4>2. weights - magnet <= 0
        BY <3>1, <2>2
      <4>3. weights' - magnet' <= 1
        BY <4>2, <2>5
      <4>4. QED
        BY <4>1, <4>3
    <3>2. CASE update > 0
      <4>1. PICK q \in 0 .. update, d \in 1 .. M :
               update = q * M + d /\ weights - magnet <= d
        BY <3>2, <2>2
      <4>2. q * M \in Nat
        BY <4>1, <2>1
      <4>3. CASE d < M
        <5>1. d + 1 \in 1 .. M /\ q \in 0 .. update'
          BY <4>1, <4>3, <2>1
        <5>2. update' = q * M + (d + 1)
          BY <4>1, <4>2, <2>1
        <5>3. weights' - magnet' <= d + 1
          BY <4>1, <2>1, <2>5
        <5>4. QED
          BY <5>1, <5>2, <5>3
      <4>4. CASE d = M
        <5>1. update = (q + 1) * M
          BY <4>1, <4>4, <2>1
        <5>2. update % M = 0
          BY <5>1, <4>1, <2>1
        <5>3. magnet' = weights'
          BY <5>2, <3>2, <2>3
        <5>4. q + 1 \in 0 .. update' /\ 1 \in 1 .. M
          BY <4>1, <2>1
        <5>5. update' = (q + 1) * M + 1
          BY <5>1, <2>1
        <5>6. weights' - magnet' <= 1
          <6>1. \A v \in Nat : v - v <= 1
            OBVIOUS
          <6>2. QED
            BY <6>1, <5>3, <2>3
        <5>7. QED
          BY <5>4, <5>5, <5>6
      <4>5. QED
        BY <4>1, <4>3, <4>4, <2>1
    <3>3. QED
      BY <3>1, <3>2, <2>1
  <2>7. update' # 0
    BY <2>1
  <2>8. magnet' \in Nat /\ magnet' <= weights'
    <3>1. \A w, v, m \in Nat : m <= w /\ w <= v => m <= v
      OBVIOUS
    <3>2. QED
      BY <3>1, <2>2, <2>3, <2>4
  <2>9. QED
    BY <2>6, <2>7, <2>8 DEF MagnetFollows, M
<1>2. CASE ~UpdateNetwork
  <2>1. UNCHANGED <<update, weights, magnet>>
    BY <1>2, OnlyUpdates DEF Orderly
  <2>2. QED
    BY <2>1 DEF MagnetFollows, MagnetPeriod
<1>3. QED
  BY <1>1, <1>2

(* The magnet is never further behind than its period, for any period and  *)
(* any updates that change nothing.                                        *)
THEOREM MagnetStaysClose == RunSpec => []MagnetIsARecentSelf
<1>1. RunInit => SnapshotsAreOld /\ MagnetFollows
  BY SnapshotsAreOldFirst DEF RunInit, Init, MagnetFollows
<1>2. Orderly /\ SnapshotsAreOld /\ [RunNext]_allVars => SnapshotsAreOld'
  BY SnapshotsAreOldNext
<1>3. Orderly /\ SnapshotsAreOld /\ MagnetFollows /\ [RunNext]_allVars => MagnetFollows'
  BY MagnetFollowsNext DEF SnapshotsAreOld
<1>4. Orderly /\ SnapshotsAreOld /\ MagnetFollows => MagnetIsARecentSelf
  <2> SUFFICES ASSUME Orderly, SnapshotsAreOld, MagnetFollows, phase = "update"
               PROVE  weights - magnet \in 0 .. MagnetPeriod
    BY DEF MagnetIsARecentSelf, MagnetPeriod
  <2>1. MagnetPeriod \in Nat \ {0} /\ weights \in Nat /\ magnet \in Nat /\ magnet <= weights
    BY PeriodFacts DEF SnapshotsAreOld, MagnetFollows
  <2>2. update \in Nat
    BY TrainingAssumption DEF Orderly, TypeOK
  <2>3. CASE update = 0
    BY <2>1, <2>3 DEF MagnetFollows
  <2>4. CASE update > 0
    <3>1. PICK d \in 1 .. MagnetPeriod : weights - magnet <= d
      BY <2>4 DEF MagnetFollows
    <3>2. QED
      BY <3>1, <2>1
  <2>5. QED
    BY <2>2, <2>3, <2>4
<1>5. QED
  BY <1>1, <1>2, <1>3, <1>4, OrderlyAlways, PTL DEF RunSpec
-----------------------------------------------------------------------------
(* A batch has samples, so GlobalStep grows with every update.             *)
LEMMA BatchFacts ==
    ASSUME NEW n \in Nat
    PROVE  /\ BatchSize \in Nat \ {0} /\ n * BatchSize \in Nat
           /\ (n + 1) * BatchSize = n * BatchSize + BatchSize
<1>1. Cardinality(Envs) \in Nat \ {0}
  <2>1. Cardinality(Envs) \in Nat /\ (Cardinality(Envs) = 0 <=> Envs = {})
    BY EnvsAssumption, FS_CardinalityType, FS_EmptySet
  <2>2. QED
    BY <2>1, EnvsAssumption
<1>2. BatchSize \in Nat \ {0}
  BY <1>1, TrainingAssumption DEF BatchSize
<1>3. QED
  BY <1>2

MetricsRows == [update : Nat, step : Nat, weights : Nat]
EvaluationRow == [kind : {"league", "br"}, update : Nat \cup {-1},
                  step : Nat \cup {-1}, weights : Nat]

LEMMA JoinRows ==
    ASSUME NEW S, NEW s \in Seq(S), NEW r \in Seq(S)
    PROVE  /\ s \o r \in Seq(S)
           /\ \A i \in DOMAIN (s \o r) :
                 \/ i \in DOMAIN s /\ (s \o r)[i] = s[i]
                 \/ \E k \in DOMAIN r : (s \o r)[i] = r[k]
<1>1. s \o r \in Seq(S)
  OBVIOUS
<1>2. ASSUME NEW i \in DOMAIN (s \o r)
      PROVE  \/ i \in DOMAIN s /\ (s \o r)[i] = s[i]
             \/ \E k \in DOMAIN r : (s \o r)[i] = r[k]
  <2>1. /\ Len(s) \in Nat /\ Len(r) \in Nat /\ i \in 1 .. Len(s) + Len(r)
        /\ DOMAIN s = 1 .. Len(s) /\ DOMAIN r = 1 .. Len(r)
    OBVIOUS
  <2>2. CASE i <= Len(s)
    BY <2>1, <2>2
  <2>3. CASE i > Len(s)
    <3>1. i - Len(s) \in DOMAIN r /\ (s \o r)[i] = r[i - Len(s)]
      BY <2>1, <2>3
    <3>2. QED
      BY <3>1
  <2>4. QED
    BY <2>1, <2>2, <2>3
<1>3. QED
  BY <1>1, <1>2

(* The rows of the callback are those of this update.                      *)
LEMMA EvaluationFacts ==
    ASSUME update \in Nat, weights \in Nat
    PROVE  /\ EvaluationRows \in Seq(EvaluationRow)
           /\ \A k \in DOMAIN EvaluationRows :
                 /\ EvaluationRows[k].update = update
                 /\ EvaluationRows[k].step = GlobalStep
                 /\ EvaluationRows[k].weights = Trained
<1>1. GlobalStep \in Nat /\ Trained \in Nat
  <2>1. update + 1 \in Nat
    OBVIOUS
  <2>2. QED
    BY <2>1, BatchFacts, TrainedFacts DEF GlobalStep
<1> DEFINE row(kind) == Evaluated(kind)
<1>2. \A kind \in {"league", "br"} :
         /\ row(kind) \in EvaluationRow
         /\ row(kind).update = update /\ row(kind).step = GlobalStep
         /\ row(kind).weights = Trained
  BY <1>1 DEF Evaluated, EvaluationRow
<1> HIDE DEF row
<1> DEFINE league == IF EvaluationDue(LeagueEvery) THEN <<row("league")>> ELSE <<>>
           br == IF EvaluationDue(BestResponseEvery) THEN <<row("br")>> ELSE <<>>
<1>3. /\ league \in Seq(EvaluationRow) /\ br \in Seq(EvaluationRow)
      /\ \A k \in DOMAIN league : league[k] = row("league")
      /\ \A k \in DOMAIN br : br[k] = row("br")
  <2> HIDE DEF EvaluationRow
  <2>1. QED
    BY <1>2
<1>4. EvaluationRows = league \o br
  BY DEF EvaluationRows, row
<1> HIDE DEF league, br, EvaluationRow
<1>5. /\ league \o br \in Seq(EvaluationRow)
      /\ \A k \in DOMAIN (league \o br) :
            (league \o br)[k] \in {row("league"), row("br")}
  BY <1>3, JoinRows
<1>6. QED
  BY <1>2, <1>4, <1>5
(* FilesInStep, with the last of its parts spelled out.                    *)
LEMMA FilesFacts ==
    ASSUME FilesInStep
    PROVE  /\ metrics \in Seq(MetricsRows) /\ evaluations \in Seq(EvaluationRow)
           /\ \A i \in DOMAIN metrics : /\ metrics[i].update \in 0 .. update - 1
                                       /\ metrics[i].step \in 1 .. update * BatchSize
           /\ \A i \in DOMAIN evaluations :
                 evaluations[i].update = -1 => saved # -1
           /\ saved # -1 => update = MaxUpdates
           /\ \A i, j \in DOMAIN metrics :
                 i < j => /\ metrics[i].update < metrics[j].update
                          /\ metrics[i].step < metrics[j].step
  BY DEF FilesInStep, FilesTellOneRun, MetricsRows, EvaluationRow

(* A row of an evaluation agrees with a row of metrics.csv and with the    *)
(* snapshots.                                                              *)
Agrees(row) ==
    /\ \E j \in DOMAIN metrics : /\ metrics[j].update = row.update
                                /\ metrics[j].step = row.step
                                /\ metrics[j].weights = row.weights
    /\ \A id \in snapshots :
          frozen[id].update = row.update => frozen[id].weights = row.weights

LEMMA AgreesFacts ==
    ASSUME FilesInStep, NEW i \in DOMAIN evaluations
    PROVE  IF evaluations[i].update = -1
           THEN i = Len(evaluations) /\ evaluations[i].weights = saved
           ELSE Agrees(evaluations[i])
  BY DEF FilesInStep, FilesTellOneRun, Agrees

LEMMA MetricsGrow ==
    ASSUME Orderly, weights \in Nat, FilesInStep, UpdateNetwork
    PROVE  /\ metrics' \in Seq(MetricsRows)
           /\ \A i \in DOMAIN metrics' :
                 /\ metrics'[i].update \in 0 .. update' - 1
                 /\ metrics'[i].step \in 1 .. update' * BatchSize
           /\ \A i, j \in DOMAIN metrics' :
                 i < j => /\ metrics'[i].update < metrics'[j].update
                          /\ metrics'[i].step < metrics'[j].step
           /\ \A i \in DOMAIN metrics : i \in DOMAIN metrics' /\ metrics'[i] = metrics[i]
           /\ \E j \in DOMAIN metrics' : /\ metrics'[j].update = update
                                        /\ metrics'[j].step = GlobalStep
                                        /\ metrics'[j].weights = Trained
<1> DEFINE B == BatchSize
           row == MetricsRow
           n == Len(metrics)
<1>1. update' = update + 1 /\ update \in Nat
  BY UpdateFacts
<1>2. /\ B \in Nat \ {0} /\ update * B \in Nat
      /\ GlobalStep = update * B + B /\ update' * B = GlobalStep
  BY <1>1, BatchFacts DEF GlobalStep
<1>3. Trained \in Nat
  BY TrainedFacts
<1>4. /\ row \in MetricsRows /\ row.update = update /\ row.step = GlobalStep
      /\ row.weights = Trained
  BY <1>1, <1>2, <1>3 DEF MetricsRow, MetricsRows
<1> HIDE DEF B, row, MetricsRows
<1>5. metrics' = Append(metrics, row) /\ metrics \in Seq(MetricsRows)
  BY FilesFacts DEF UpdateNetwork, row
<1>6. /\ metrics' \in Seq(MetricsRows) /\ n \in Nat
      /\ DOMAIN metrics' = 1 .. n + 1 /\ DOMAIN metrics = 1 .. n
      /\ \A i \in 1 .. n : metrics'[i] = metrics[i]
      /\ metrics'[n + 1] = row
  BY <1>4, <1>5, AppendRow
<1> HIDE DEF n
<1>7. \A i \in 1 .. n : /\ metrics[i].update \in 0 .. update - 1
                        /\ metrics[i].step \in 1 .. update * B
  BY <1>6, FilesFacts DEF B
<1>8. ASSUME NEW i \in 1 .. n + 1
      PROVE  /\ metrics'[i].update \in 0 .. update' - 1
             /\ metrics'[i].step \in 1 .. update' * B
  <2>1. CASE i \in 1 .. n
    BY <2>1, <1>1, <1>2, <1>6, <1>7
  <2>2. CASE i = n + 1
    BY <2>2, <1>1, <1>2, <1>4, <1>6
  <2>3. QED
    BY <2>1, <2>2, <1>6
<1>9. ASSUME NEW i \in 1 .. n + 1, NEW j \in 1 .. n + 1, i < j
      PROVE  /\ metrics'[i].update < metrics'[j].update
             /\ metrics'[i].step < metrics'[j].step
  <2>1. i \in 1 .. n
    BY <1>6, <1>9
  <2>2. CASE j \in 1 .. n
    BY <2>1, <2>2, <1>6, <1>9, FilesFacts
  <2>3. CASE j = n + 1
    BY <2>1, <2>3, <1>1, <1>2, <1>4, <1>6, <1>7
  <2>4. QED
    BY <2>2, <2>3, <1>6
<1>10. n + 1 \in DOMAIN metrics' /\ \A i \in DOMAIN metrics : i \in DOMAIN metrics'
  BY <1>6
<1>11. QED
  BY <1>4, <1>6, <1>8, <1>9, <1>10 DEF B
LEMMA FilesUpdated ==
    ASSUME Orderly, SnapshotsAreOld, FilesInStep, UpdateNetwork
    PROVE  FilesInStep'
<1> DEFINE AgreesAfter(row) ==
             /\ \E j \in DOMAIN metrics' : /\ metrics'[j].update = row.update
                                          /\ metrics'[j].step = row.step
                                          /\ metrics'[j].weights = row.weights
             /\ \A id \in snapshots' : frozen'[id].update = row.update
                                         => frozen'[id].weights = row.weights
<1>1. /\ update' = update + 1 /\ update \in Nat
      /\ update < MaxUpdates /\ MaxUpdates \in Nat
  BY UpdateFacts
<1>2. saved = -1 /\ saved' = -1 /\ weights \in Nat
  BY <1>1, FilesFacts DEF UpdateNetwork, SnapshotsAreOld
<1>3. \A i \in DOMAIN evaluations :
         evaluations[i].update # -1 /\ Agrees(evaluations[i])
  BY <1>2, FilesFacts, AgreesFacts
<1>4. /\ metrics' \in Seq(MetricsRows)
      /\ \A i \in DOMAIN metrics' :
            /\ metrics'[i].update \in 0 .. update' - 1
            /\ metrics'[i].step \in 1 .. update' * BatchSize
      /\ \A i, j \in DOMAIN metrics' :
            i < j => /\ metrics'[i].update < metrics'[j].update
                     /\ metrics'[i].step < metrics'[j].step
      /\ \A i \in DOMAIN metrics : i \in DOMAIN metrics' /\ metrics'[i] = metrics[i]
      /\ \E j \in DOMAIN metrics' : /\ metrics'[j].update = update
                                   /\ metrics'[j].step = GlobalStep
                                   /\ metrics'[j].weights = Trained
  BY <1>2, MetricsGrow
<1>5. /\ \A id \in snapshots' : id \in snapshots => frozen'[id] = frozen[id]
      /\ \A id \in snapshots' : id \notin snapshots =>
            frozen'[id].update = update /\ frozen'[id].weights = Trained
      /\ \A id \in snapshots : frozen[id].update \in 0 .. update - 1
  BY DEF UpdateNetwork, Frozen, SnapshotsAreOld
<1>6. ASSUME NEW row, Agrees(row)
      PROVE  AgreesAfter(row)
  <2>1. PICK j \in DOMAIN metrics : /\ metrics[j].update = row.update
                                   /\ metrics[j].step = row.step
                                   /\ metrics[j].weights = row.weights
    BY <1>6 DEF Agrees
  <2>2. j \in DOMAIN metrics' /\ metrics'[j] = metrics[j]
    BY <1>4
  <2>3. row.update \in 0 .. update - 1
    BY <2>1, FilesFacts
  <2>4. ASSUME NEW id \in snapshots', frozen'[id].update = row.update
        PROVE  frozen'[id].weights = row.weights
    <3>1. id \in snapshots
      BY <2>3, <2>4, <1>1, <1>5
    <3>2. QED
      BY <3>1, <2>4, <1>5, <1>6 DEF Agrees
  <2>5. QED
    BY <2>1, <2>2, <2>4
<1>7. ASSUME NEW row, row.update = update, row.step = GlobalStep, row.weights = Trained
      PROVE  AgreesAfter(row)
  <2>1. ASSUME NEW id \in snapshots', frozen'[id].update = row.update
        PROVE  frozen'[id].weights = row.weights
    BY <2>1, <1>1, <1>5, <1>7
  <2>2. QED
    BY <2>1, <1>4, <1>7
<1>8. /\ evaluations' = evaluations \o EvaluationRows
      /\ evaluations \in Seq(EvaluationRow) /\ EvaluationRows \in Seq(EvaluationRow)
      /\ \A k \in DOMAIN EvaluationRows :
            /\ EvaluationRows[k].update = update
            /\ EvaluationRows[k].step = GlobalStep
            /\ EvaluationRows[k].weights = Trained
  BY <1>1, <1>2, FilesFacts, EvaluationFacts DEF UpdateNetwork
<1>9. /\ evaluations' \in Seq(EvaluationRow)
      /\ \A i \in DOMAIN evaluations' :
            \/ \E k \in DOMAIN evaluations : evaluations'[i] = evaluations[k]
            \/ \E k \in DOMAIN EvaluationRows : evaluations'[i] = EvaluationRows[k]
  <2> DEFINE joined == evaluations \o EvaluationRows
  <2>1. /\ joined \in Seq(EvaluationRow)
        /\ \A i \in DOMAIN joined :
              \/ i \in DOMAIN evaluations /\ joined[i] = evaluations[i]
              \/ \E k \in DOMAIN EvaluationRows : joined[i] = EvaluationRows[k]
    BY <1>8, JoinRows
  <2>2. evaluations' = joined
    BY <1>8
  <2> HIDE DEF joined
  <2>3. QED
    BY <2>1, <2>2
<1> HIDE DEF AgreesAfter
<1>10. ASSUME NEW i \in DOMAIN evaluations'
       PROVE  evaluations'[i].update # -1 /\ AgreesAfter(evaluations'[i])
  <2>1. CASE \E k \in DOMAIN evaluations : evaluations'[i] = evaluations[k]
    <3>1. PICK k \in DOMAIN evaluations : evaluations'[i] = evaluations[k]
      BY <2>1
    <3>2. evaluations[k].update # -1 /\ AgreesAfter(evaluations[k])
      BY <1>3, <1>6
    <3>3. QED
      BY <3>1, <3>2
  <2>2. CASE \E k \in DOMAIN EvaluationRows : evaluations'[i] = EvaluationRows[k]
    <3>1. PICK k \in DOMAIN EvaluationRows : evaluations'[i] = EvaluationRows[k]
      BY <2>2
    <3>2. AgreesAfter(EvaluationRows[k]) /\ EvaluationRows[k].update # -1
      BY <1>1, <1>7, <1>8
    <3>3. QED
      BY <3>1, <3>2
  <2>3. QED
    BY <2>1, <2>2, <1>9
<1>11. FilesTellOneRun'
  <2>1. \A i \in DOMAIN evaluations' : AgreesAfter(evaluations'[i])
    BY <1>10
  <2>2. \A i \in DOMAIN evaluations' : evaluations'[i].update # -1
    BY <1>10
  <2>3. QED
    BY <2>1, <2>2, <1>4 DEF FilesTellOneRun, AgreesAfter
<1>12. QED
  BY <1>2, <1>4, <1>9, <1>10, <1>11 DEF FilesInStep, MetricsRows, EvaluationRow

(* The model is saved once, and the last league row played with it.        *)
LEMMA FilesSaved ==
    ASSUME Orderly, SnapshotsAreOld, FilesInStep, SaveModel
    PROVE  FilesInStep'
<1> DEFINE row == [kind |-> "league", update |-> -1, step |-> -1, weights |-> weights]
           n == Len(evaluations)
           AgreesAfter(r) ==
             /\ \E j \in DOMAIN metrics' : /\ metrics'[j].update = r.update
                                          /\ metrics'[j].step = r.step
                                          /\ metrics'[j].weights = r.weights
             /\ \A id \in snapshots' : frozen'[id].update = r.update
                                         => frozen'[id].weights = r.weights
<1>1. /\ saved = -1 /\ saved' = weights /\ update = MaxUpdates
      /\ UNCHANGED <<update, snapshots, weights, frozen, metrics>>
      /\ evaluations' = Append(evaluations, row)
  BY DEF SaveModel, vars, managerVars, poolVars
<1>2. weights \in Nat /\ saved' # -1
  BY <1>1 DEF SnapshotsAreOld
<1>3. row \in EvaluationRow /\ row.update = -1 /\ row.weights = weights
  BY <1>2 DEF EvaluationRow
<1> HIDE DEF row, EvaluationRow
<1>4. /\ evaluations' \in Seq(EvaluationRow) /\ n \in Nat
      /\ DOMAIN evaluations' = 1 .. n + 1 /\ DOMAIN evaluations = 1 .. n
      /\ \A i \in 1 .. n : evaluations'[i] = evaluations[i]
      /\ evaluations'[n + 1] = row
  BY <1>1, <1>3, FilesFacts, AppendRow
<1>5. n + 1 = Len(evaluations')
  BY <1>4
<1> HIDE DEF n
<1>6. \A i \in 1 .. n : evaluations[i].update # -1 /\ Agrees(evaluations[i])
  BY <1>1, <1>4, FilesFacts, AgreesFacts
<1>7. ASSUME NEW i \in DOMAIN evaluations'
      PROVE  IF evaluations'[i].update = -1
             THEN i = Len(evaluations') /\ evaluations'[i].weights = saved'
             ELSE Agrees(evaluations'[i])
  <2>1. CASE i \in 1 .. n
    BY <2>1, <1>4, <1>6
  <2>2. CASE i = n + 1
    BY <2>2, <1>1, <1>3, <1>4, <1>5
  <2>3. QED
    BY <2>1, <2>2, <1>4
<1>8. FilesTellOneRun'
  <2>1. \A i, j \in DOMAIN metrics' :
           i < j => /\ metrics'[i].update < metrics'[j].update
                    /\ metrics'[i].step < metrics'[j].step
    BY <1>1, FilesFacts
  <2>2. \A i \in DOMAIN evaluations' :
           IF evaluations'[i].update = -1
           THEN i = Len(evaluations') /\ evaluations'[i].weights = saved'
           ELSE AgreesAfter(evaluations'[i])
    <3>1. ASSUME NEW i \in DOMAIN evaluations', Agrees(evaluations'[i])
          PROVE  AgreesAfter(evaluations'[i])
      BY <1>1, <3>1 DEF Agrees
    <3> HIDE DEF AgreesAfter
    <3>2. QED
      BY <1>7, <3>1, Zenon
  <2>3. QED
    BY <2>1, <2>2, Zenon DEF FilesTellOneRun, AgreesAfter
<1>9. QED
  BY <1>1, <1>2, <1>4, <1>8, FilesFacts DEF FilesInStep, MetricsRows, EvaluationRow

LEMMA FilesNext ==
    ASSUME Orderly, SnapshotsAreOld, FilesInStep, [RunNext]_allVars
    PROVE  FilesInStep'
<1>1. CASE UpdateNetwork
  BY <1>1, FilesUpdated
<1>2. CASE SaveModel
  BY <1>2, FilesSaved
<1>3. CASE ~UpdateNetwork /\ ~SaveModel
  <2>1. UNCHANGED <<update, snapshots, weights, frozen, metrics, evaluations, saved>>
    BY <1>3, OnlyUpdates DEF Orderly
  <2>2. QED
    BY <2>1 DEF FilesInStep, FilesTellOneRun
<1>4. QED
  BY <1>1, <1>2, <1>3

LEMMA FilesFirst == ASSUME RunInit PROVE FilesInStep
<1>1. /\ metrics = <<>> /\ evaluations = <<>> /\ saved = -1
      /\ DOMAIN metrics = {} /\ DOMAIN evaluations = {}
  BY DEF RunInit
<1>2. \A S : <<>> \in Seq(S)
  OBVIOUS
<1>3. FilesTellOneRun
  BY <1>1 DEF FilesTellOneRun
<1>4. QED
  BY <1>1, <1>2, <1>3 DEF FilesInStep

(* metrics.csv, league.csv, br.csv, the snapshots and the saved model tell *)
(* one run, whatever the cadences.                                         *)
THEOREM FilesAgree == RunSpec => []FilesTellOneRun
<1>1. RunInit => SnapshotsAreOld /\ FilesInStep
  BY SnapshotsAreOldFirst, FilesFirst
<1>2. Orderly /\ SnapshotsAreOld /\ [RunNext]_allVars => SnapshotsAreOld'
  BY SnapshotsAreOldNext
<1>3. Orderly /\ SnapshotsAreOld /\ FilesInStep /\ [RunNext]_allVars => FilesInStep'
  BY FilesNext
<1>4. FilesInStep => FilesTellOneRun
  BY DEF FilesInStep
<1>5. QED
  BY <1>1, <1>2, <1>3, <1>4, OrderlyAlways, PTL DEF RunSpec
-----------------------------------------------------------------------------
(* The slices of an epoch, by where they start.                            *)
Starts(n) == {s \in 0 .. n - 1 : s % MinibatchSize = 0}
SliceFrom(s, n) == s .. Min({s + MinibatchSize, n}) - 1

LEMMA SlicesAre ==
    ASSUME NEW n \in Nat
    PROVE  /\ Minibatches(n) = {SliceFrom(s, n) : s \in Starts(n)}
           /\ BatchSize \in Nat /\ MinibatchSize \in Nat \ {0}
           /\ \A s \in Starts(n) :
                 /\ s \in 0 .. n - 1 /\ s % MinibatchSize = 0
                 /\ s \in SliceFrom(s, n) /\ SliceFrom(s, n) \subseteq 0 .. n - 1
                 /\ \A i \in SliceFrom(s, n) : s <= i /\ i < s + MinibatchSize
                 /\ \A i \in 0 .. n - 1 :
                       s <= i /\ i < s + MinibatchSize => i \in SliceFrom(s, n)
                 /\ IsFiniteSet(SliceFrom(s, n))
                 /\ Cardinality(SliceFrom(s, n)) \in 1 .. MinibatchSize
<1> DEFINE M == MinibatchSize
<1>1. BatchSize \in Nat
  <2>1. Cardinality(Envs) \in Nat /\ NumSteps \in Nat
    BY EnvsAssumption, TrainingAssumption, FS_CardinalityType
  <2>2. QED
    BY <2>1 DEF BatchSize
<1>2. M \in Nat \ {0}
  <2>1. NumMinibatches \in Nat \ {0} /\ NumMinibatches <= BatchSize
    BY <1>1, RunAssumption
  <2> HIDE DEF M
  <2>2. BatchSize % NumMinibatches \in 0 .. NumMinibatches - 1
    BY <1>1, <2>1, DividedBy
  <2>3. PICK q \in Nat : BatchSize = q * NumMinibatches + (BatchSize % NumMinibatches)
    BY <1>1, <2>1, DividedBy, Zenon
  <2>4. q # 0
    BY <1>1, <2>1, <2>2, <2>3
  <2>5. \A a \in Nat, b \in Nat \ {0} : \A r \in 0 .. b - 1 : (a * b + r) \div b = a
    OBVIOUS
  <2>6. BatchSize \div NumMinibatches = q
    BY <2>1, <2>2, <2>3, <2>5, Zenon
  <2>7. QED
    BY <2>4, <2>6 DEF M, MinibatchSize
<1>3. Minibatches(n) = {SliceFrom(s, n) : s \in Starts(n)}
  BY DEF Minibatches, SliceFrom, Starts
<1>4. ASSUME NEW s \in Starts(n)
      PROVE  /\ s \in 0 .. n - 1 /\ s % M = 0
             /\ SliceFrom(s, n) = s .. (IF s + M <= n THEN s + M ELSE n) - 1
  <2>1. s \in 0 .. n - 1 /\ s % M = 0
    BY DEF Starts
  <2> HIDE DEF M
  <2>2. s + M \in Nat
    BY <1>2, <2>1
  <2>3. Min({s + M, n}) = IF s + M <= n THEN s + M ELSE n
    BY <2>2, MinOfTwo
  <2>4. QED
    BY <2>1, <2>3 DEF M, SliceFrom
<1> HIDE DEF M
<1>5. ASSUME NEW s \in Starts(n)
      PROVE  /\ s \in SliceFrom(s, n) /\ SliceFrom(s, n) \subseteq 0 .. n - 1
             /\ \A i \in SliceFrom(s, n) : s <= i /\ i < s + M
             /\ \A i \in 0 .. n - 1 : s <= i /\ i < s + M => i \in SliceFrom(s, n)
  BY <1>2, <1>4
<1>6. ASSUME NEW s \in Starts(n)
      PROVE  IsFiniteSet(SliceFrom(s, n)) /\ Cardinality(SliceFrom(s, n)) \in 1 .. M
  <2> DEFINE last == (IF s + M <= n THEN s + M ELSE n) - 1
  <2>1. last \in Int /\ s \in Int /\ s <= last /\ last <= s + M - 1
    BY <1>2, <1>4
  <2>2. SliceFrom(s, n) = s .. last
    BY <1>4
  <2> HIDE DEF last
  <2>3. IsFiniteSet(s .. last) /\ Cardinality(s .. last) = last - s + 1
    BY <2>1, FS_Interval
  <2>4. QED
    BY <1>2, <2>1, <2>2, <2>3
<1>7. QED
  BY <1>1, <1>2, <1>3, <1>4, <1>5, <1>6 DEF M

(* The slices of an epoch partition the samples.                           *)
LEMMA SlicesPartition ==
    ASSUME NEW n \in Nat
    PROVE  /\ UNION Minibatches(n) = 0 .. n - 1
           /\ SumFunction([slice \in Minibatches(n) |-> Cardinality(slice)]) = n
           /\ \A slice \in Minibatches(n) : Cardinality(slice) \in 1 .. MinibatchSize
<1> DEFINE S == Minibatches(n)
           T == 0 .. n - 1
           M == MinibatchSize
           sizes == [slice \in S |-> Cardinality(slice)]
           Of(i) == CHOOSE slice \in S : i \in slice
           label == [i \in T |-> Of(i)]
<1>1. M \in Nat \ {0}
  BY SlicesAre
<1>2. S = {SliceFrom(s, n) : s \in Starts(n)}
  BY SlicesAre
<1>3. ASSUME NEW slice \in S
      PROVE  slice \subseteq T /\ Cardinality(slice) \in 1 .. M
  BY <1>2, SlicesAre
<1>4. ASSUME NEW i \in T PROVE \E slice \in S : i \in slice
  <2>1. PICK s \in 0 .. i : s % M = 0 /\ i < s + M
    <3>1. i \in Nat
      OBVIOUS
    <3> HIDE DEF M
    <3>2. QED
      BY <1>1, <3>1, MultipleBelow
  <2>2. s \in Starts(n)
    BY <2>1 DEF Starts
  <2>3. i \in SliceFrom(s, n)
    BY <2>1, <2>2, SlicesAre
  <2>4. QED
    BY <1>2, <2>2, <2>3
<1>5. ASSUME NEW i \in T, NEW a \in S, NEW b \in S, i \in a, i \in b PROVE a = b
  <2>1. PICK s \in Starts(n), t \in Starts(n) : a = SliceFrom(s, n) /\ b = SliceFrom(t, n)
    BY <1>2
  <2>2. /\ s \in Nat /\ s % M = 0 /\ s <= i /\ i < s + M
        /\ t \in Nat /\ t % M = 0 /\ t <= i /\ i < t + M
    BY <1>5, <2>1, SlicesAre
  <2>3. ~(s < t) /\ ~(t < s)
    <3>1. s < t => s + M <= t
      BY <1>1, <2>2, MultiplesApart
    <3>2. t < s => t + M <= s
      BY <1>1, <2>2, MultiplesApart
    <3> HIDE DEF M
    <3>3. QED
      BY <1>1, <2>2, <3>1, <3>2
  <2>4. s = t
    BY <2>2, <2>3
  <2>5. QED
    BY <2>1, <2>4
<1>6. UNION S = T
  BY <1>3, <1>4
<1>7. ASSUME NEW i \in T PROVE label[i] \in S /\ i \in label[i]
  BY <1>4
<1>8. IsFiniteSet(T) /\ Cardinality(T) = n
  <2>1. 0 \in Int /\ n - 1 \in Int
    OBVIOUS
  <2>2. IsFiniteSet(T) /\ Cardinality(T) = IF 0 > n - 1 THEN 0 ELSE n - 1 - 0 + 1
    BY <2>1, FS_Interval
  <2>3. QED
    BY <2>2
<1> HIDE DEF S, T, M, label
<1>9. IsFiniteSet(S)
  <2>1. S \subseteq SUBSET T
    BY <1>3
  <2>2. IsFiniteSet(SUBSET T)
    BY <1>8, FS_SUBSET
  <2>3. QED
    BY <2>1, <2>2, FS_Subset
<1>10. Counts(sizes, S, T, label)
  <2> SUFFICES ASSUME NEW slice \in S
               PROVE  Cardinality(slice) = Cardinality({i \in T : label[i] = slice})
    BY DEF Counts
  <2>1. slice = {i \in T : label[i] = slice}
    BY <1>3, <1>5, <1>7
  <2>2. QED
    BY <2>1
<1>11. Labelled(T, label, S) = T
  BY <1>7 DEF Labelled
<1>12. DOMAIN sizes = S
  OBVIOUS
<1> HIDE DEF sizes
<1>13. SumFunctionOnSet(sizes, S) = n
  BY <1>8, <1>9, <1>10, <1>11, CountsAddUp
<1>14. SumFunction(sizes) = n
  BY <1>12, <1>13 DEF SumFunction
<1>15. QED
  BY <1>3, <1>6, <1>14 DEF S, T, M, sizes

(* More samples never make fewer slices.                                   *)
LEMMA SlicesGrow ==
    ASSUME NEW n \in Nat, NEW m \in Nat, n <= m
    PROVE  Cardinality(Minibatches(n)) <= Cardinality(Minibatches(m))
<1> DEFINE S == Minibatches(n)
           R == Minibatches(m)
           StartOf(slice) == CHOOSE s \in Starts(n) : slice = SliceFrom(s, n)
           f == [slice \in S |-> SliceFrom(StartOf(slice), m)]
<1>1. ASSUME NEW slice \in S
      PROVE  StartOf(slice) \in Starts(n) /\ slice = SliceFrom(StartOf(slice), n)
  <2>1. \E s \in Starts(n) : slice = SliceFrom(s, n)
    BY SlicesAre
  <2>2. QED
    BY <2>1
<1>2. Starts(n) \subseteq Starts(m)
  BY DEF Starts
<1>3. ASSUME NEW s \in Starts(m), NEW t \in Starts(m), SliceFrom(s, m) = SliceFrom(t, m)
      PROVE  s = t
  <2>1. s \in SliceFrom(t, m) /\ t \in SliceFrom(s, m) /\ s \in Nat /\ t \in Nat
    BY <1>3, SlicesAre
  <2>2. t <= s /\ s <= t
    BY <2>1, SlicesAre
  <2>3. QED
    BY <2>1, <2>2
<1>4. R = {SliceFrom(s, m) : s \in Starts(m)}
  BY SlicesAre
<1>5. IsFiniteSet(R)
  <2>1. 0 \in Int /\ m - 1 \in Int
    OBVIOUS
  <2>2. IsFiniteSet(0 .. m - 1)
    BY <2>1, FS_Interval
  <2>3. R \in SUBSET (SUBSET (0 .. m - 1))
    BY SlicesPartition
  <2>4. IsFiniteSet(SUBSET (0 .. m - 1))
    BY <2>2, FS_SUBSET
  <2>5. QED
    BY <2>3, <2>4, FS_Subset
<1> HIDE DEF StartOf
<1>6. f \in Injection(S, R)
  <2>1. f \in [S -> R]
    BY <1>1, <1>2, <1>4
  <2>2. ASSUME NEW a \in S, NEW b \in S, f[a] = f[b] PROVE a = b
    <3>1. StartOf(a) \in Starts(m) /\ StartOf(b) \in Starts(m)
      BY <1>1, <1>2
    <3>2. SliceFrom(StartOf(a), m) = SliceFrom(StartOf(b), m)
      BY <2>2
    <3>3. StartOf(a) = StartOf(b)
      BY <1>3, <3>1, <3>2
    <3>4. QED
      BY <1>1, <3>3
  <2>3. QED
    <3> HIDE DEF f
    <3>1. QED
      BY <2>1, <2>2 DEF Injection, IsInjective
<1> HIDE DEF f
<1>7. QED
  BY <1>5, <1>6, FS_Injection

(* A column holds decisions of its seat, one for each of its steps.        *)
LEMMA ColumnsHold ==
    ASSUME TypeOK, TurnsInStep, EveryDecisionStored, NEW e \in Envs, NEW p \in Seats
    PROVE  LET c == rollout[e].stored[p]
           IN  /\ Len(c) \in 0 .. NumSteps
               /\ \A i \in 1 .. Len(c) : /\ c[i].step \in 0 .. NumSteps - 1
                                         /\ TurnAt(e, c[i].step).seat = p
               /\ \A i, j \in 1 .. Len(c) : i < j => c[i].step < c[j].step
<1> DEFINE c == rollout[e].stored[p]
           rest == rollout[e].pending[p]
           column == c \o rest
<1>1. c \in Seq(Stored) /\ rest \in Seq(Open) /\ Len(c) <= NumSteps
  BY StatesAre DEF TypeOK
<1>2. turns[e] \in Seq(Turns) /\ Len(turns[e]) <= NumSteps /\ NumSteps \in Nat
  BY TrainingAssumption DEF TypeOK, TurnsInStep
<1>3. /\ {column[i].step : i \in DOMAIN column} \subseteq
             {s \in 0 .. Len(turns[e]) - 1 : TurnAt(e, s).seat = p}
      /\ \A i, j \in DOMAIN column : i < j => column[i].step < column[j].step
  BY DEF EveryDecisionStored, Column
<1> HIDE DEF c, rest, Stored, Open, Turns
<1>4. Len(c) \in Nat /\ Len(turns[e]) \in Nat
  BY <1>1, <1>2
<1>5. \A i \in 1 .. Len(c) : i \in DOMAIN column /\ column[i] = c[i]
  BY <1>1
<1> HIDE DEF column
<1>6. ASSUME NEW i \in 1 .. Len(c)
      PROVE  c[i].step \in 0 .. NumSteps - 1 /\ TurnAt(e, c[i].step).seat = p
  <2>1. c[i].step \in {s \in 0 .. Len(turns[e]) - 1 : TurnAt(e, s).seat = p}
    BY <1>3, <1>5
  <2>2. QED
    BY <1>2, <1>4, <2>1
<1>7. \A i, j \in 1 .. Len(c) : i < j => c[i].step < c[j].step
  BY <1>3, <1>5
<1>8. QED
  BY <1>1, <1>4, <1>6, <1>7, <1>2 DEF c

(* No batch has more samples than its rollouts had steps: of the decisions *)
(* of an environment at most one is of any step.                           *)
LEMMA SamplesFit ==
    ASSUME TypeOK, TurnsInStep, EveryDecisionStored
    PROVE  Samples \in Nat /\ Samples <= BatchSize
<1> DEFINE column(x) == rollout[x[1]].stored[x[2]]
           S == Envs \X Seats
           T == {x \in Envs \X Seats \X (1 .. NumSteps) : x[3] <= Len(column(x))}
           Places == Envs \X (0 .. NumSteps - 1)
           f == [x \in T |-> <<x[1], column(x)[x[3]].step>>]
           label == [x \in T |-> <<x[1], x[2]>>]
           sizes == [y \in S |-> Len(rollout[y[1]].stored[y[2]])]
<1>1. /\ NumSteps \in Nat /\ IsFiniteSet(Envs) /\ Cardinality(Envs) \in Nat
      /\ Seats = {0, 1}
  BY TrainingAssumption, EnvsAssumption, FS_CardinalityType DEF Seats
<1>2. IsFiniteSet(Places) /\ Cardinality(Places) = BatchSize
  <2>1. IsFiniteSet(0 .. NumSteps - 1) /\ Cardinality(0 .. NumSteps - 1) = NumSteps
    <3>1. 0 \in Int /\ NumSteps - 1 \in Int
      BY <1>1
    <3>2. /\ IsFiniteSet(0 .. NumSteps - 1)
          /\ Cardinality(0 .. NumSteps - 1) =
                IF 0 > NumSteps - 1 THEN 0 ELSE NumSteps - 1 - 0 + 1
      BY <3>1, FS_Interval
    <3>3. QED
      BY <1>1, <3>2
  <2>2. QED
    BY <1>1, <2>1, FS_Product DEF BatchSize
<1>3. IsFiniteSet(S)
  <2>1. Seats = {0} \cup {1}
    BY <1>1
  <2>2. IsFiniteSet({0} \cup {1})
    BY FS_Singleton, FS_AddElement
  <2>3. QED
    BY <1>1, <2>1, <2>2, FS_Product
<1>4. ASSUME NEW x \in T
      PROVE  /\ x[1] \in Envs /\ x[2] \in Seats /\ x[3] \in 1 .. Len(column(x))
             /\ x = <<x[1], x[2], x[3]>>
             /\ column(x)[x[3]].step \in 0 .. NumSteps - 1
             /\ TurnAt(x[1], column(x)[x[3]].step).seat = x[2]
  <2>1. x[1] \in Envs /\ x[2] \in Seats /\ x = <<x[1], x[2], x[3]>>
    OBVIOUS
  <2>2. Len(column(x)) \in 0 .. NumSteps
    BY <2>1, ColumnsHold
  <2>3. x[3] \in 1 .. Len(column(x))
    BY <1>1, <2>2
  <2>4. QED
    BY <2>1, <2>3, ColumnsHold
<1>5. f \in Injection(T, Places)
  <2>1. f \in [T -> Places]
    BY <1>4
  <2>2. ASSUME NEW x \in T, NEW y \in T, f[x] = f[y] PROVE x = y
    <3> DEFINE e == x[1]
               p == x[2]
               c == column(x)
    <3>1. y[1] = e /\ column(y)[y[3]].step = c[x[3]].step
      BY <2>2
    <3>2. /\ e \in Envs /\ p \in Seats /\ x[3] \in 1 .. Len(c) /\ x = <<e, p, x[3]>>
          /\ TurnAt(e, c[x[3]].step).seat = p
      BY <1>4
    <3>3. /\ y[3] \in 1 .. Len(column(y)) /\ y = <<y[1], y[2], y[3]>>
          /\ TurnAt(y[1], column(y)[y[3]].step).seat = y[2]
      BY <1>4
    <3>4. y[2] = p
      BY <3>1, <3>2, <3>3, Zenon
    <3>5. column(y) = c
      BY <3>1, <3>4
    <3>6. /\ Len(c) \in 0 .. NumSteps
          /\ \A i \in 1 .. Len(c) : c[i].step \in 0 .. NumSteps - 1
          /\ \A i, j \in 1 .. Len(c) : i < j => c[i].step < c[j].step
      BY <3>2, ColumnsHold
    <3> HIDE DEF e, p, c, T, column
    <3>7. y[3] \in 1 .. Len(c) /\ c[y[3]].step = c[x[3]].step
      BY <3>1, <3>3, <3>5, Zenon
    <3>8. x[3] = y[3]
      <4>1. \A i, j \in 1 .. Len(c) : c[i].step = c[j].step => i = j
        BY <1>1, <3>6
      <4>2. QED
        BY <3>2, <3>7, <4>1, Zenon
    <3>9. QED
      BY <3>1, <3>2, <3>3, <3>4, <3>8, Zenon
  <2> HIDE DEF f
  <2>3. QED
    BY <2>1, <2>2 DEF Injection, IsInjective
<1>6. IsFiniteSet(T) /\ Cardinality(T) <= BatchSize /\ Cardinality(T) \in Nat
  <2> HIDE DEF T, Places, f
  <2>1. QED
    BY <1>2, <1>5, FS_Injection, FS_CardinalityType
<1>7. Counts(sizes, S, T, label)
  <2> SUFFICES ASSUME NEW e \in Envs, NEW p \in Seats
               PROVE  Len(rollout[e].stored[p])
                         = Cardinality({x \in T : label[x] = <<e, p>>})
    <3> HIDE DEF T, label
    <3>1. ASSUME NEW y \in S
          PROVE  sizes[y] = Cardinality({x \in T : label[x] = y})
      <4>1. PICK e \in Envs, p \in Seats : y = <<e, p>>
        OBVIOUS
      <4>2. sizes[y] = Len(rollout[e].stored[p])
        BY <4>1
      <4> HIDE DEF sizes
      <4>3. QED
        BY <4>1, <4>2
    <3> HIDE DEF S, sizes
    <3>2. QED
      BY <3>1 DEF Counts
  <2> DEFINE n == Len(rollout[e].stored[p])
             U == {x \in T : label[x] = <<e, p>>}
             g == [i \in 1 .. n |-> <<e, p, i>>]
  <2>1. n \in 0 .. NumSteps
    BY ColumnsHold
  <2>2. U = {<<e, p, i>> : i \in 1 .. n}
    <3>1. ASSUME NEW x \in U PROVE x \in {<<e, p, i>> : i \in 1 .. n}
      <4>1. x \in T /\ x[1] = e /\ x[2] = p
        OBVIOUS
      <4>2. x = <<e, p, x[3]>> /\ x[3] \in 1 .. n
        BY <1>4, <4>1
      <4>3. QED
        BY <4>2
    <3>2. ASSUME NEW i \in 1 .. n PROVE <<e, p, i>> \in U
      <4>1. i \in 1 .. NumSteps /\ i <= n
        BY <1>1, <2>1
      <4>2. <<e, p, i>> \in T
        BY <4>1
      <4>3. label[<<e, p, i>>] = <<e, p>>
        BY <4>2
      <4>4. QED
        BY <4>2, <4>3
    <3>3. QED
      BY <3>1, <3>2
  <2>3. g \in Bijection(1 .. n, U)
    <3> HIDE DEF U, n
    <3>1. g \in [1 .. n -> U]
      BY <2>2
    <3>2. \A i, j \in 1 .. n : g[i] = g[j] => i = j
      OBVIOUS
    <3>3. \A x \in U : \E i \in 1 .. n : g[i] = x
      BY <2>2
    <3> HIDE DEF g
    <3>4. QED
      BY <3>1, <3>2, <3>3 DEF Bijection, Injection, Surjection, IsInjective
  <2>4. Cardinality(1 .. n) = n /\ IsFiniteSet(1 .. n)
    <3> HIDE DEF n
    <3>1. 1 \in Int /\ n \in Int /\ n >= 0
      BY <2>1
    <3>2. IsFiniteSet(1 .. n) /\ Cardinality(1 .. n) = IF 1 > n THEN 0 ELSE n - 1 + 1
      BY <3>1, FS_Interval
    <3>3. QED
      BY <3>1, <3>2
  <2> HIDE DEF U, g
  <2>5. ExistsBijection(1 .. n, U)
    BY <2>3 DEF ExistsBijection
  <2>6. Cardinality(U) = Cardinality(1 .. n)
    BY <2>4, <2>5, FS_Bijection
  <2>7. QED
    BY <2>4, <2>6 DEF U, n
<1>8. Labelled(T, label, S) = T
  <2>1. \A x \in T : label[x] \in S
    BY <1>4
  <2>2. QED
    BY <2>1 DEF Labelled
<1>9. DOMAIN sizes = S
  OBVIOUS
<1>10. Samples = SumFunction(sizes)
  BY DEF Samples
<1> HIDE DEF S, T, sizes, label
<1>11. SumFunctionOnSet(sizes, S) = Cardinality(T)
  BY <1>3, <1>6, <1>7, <1>8, CountsAddUp
<1>12. QED
  BY <1>6, <1>9, <1>10, <1>11 DEF SumFunction

(* An epoch uses every sample of the buffer exactly once, for any number   *)
(* of environments, steps and minibatches, and however many of a rollout's *)
(* decisions were the learner's.                                           *)
THEOREM EpochsAreWhole == RunSpec => []EverySampleOncePerEpoch
<1>1. Orderly /\ EveryDecisionStored => EverySampleOncePerEpoch
  <2> SUFFICES ASSUME Orderly, EveryDecisionStored PROVE EverySampleOncePerEpoch
    OBVIOUS
  <2>1. Samples \in Nat /\ Samples <= BatchSize /\ BatchSize \in Nat
    BY SamplesFit, SlicesAre DEF Orderly
  <2>2. QED
    BY <2>1, SlicesPartition, SlicesGrow DEF EverySampleOncePerEpoch
<1>2. RunSpec => []EveryDecisionStored
  BY ToldAlways, PTL
<1>3. QED
  BY <1>1, <1>2, OrderlyAlways, PTL
=============================================================================
