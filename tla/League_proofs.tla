---------------------------- MODULE League_proofs ----------------------------
(***************************************************************************)
(* Proofs about League for any number of environments and hands, any       *)
(* anchors, masks and rewards.                                             *)
(***************************************************************************)
EXTENDS League, SharedLemmas

(* The fallback of first_legal is legal too.                               *)
LEMMA FirstLegalIsLegal ==
    ASSUME NEW mask \in Masks, NEW priority, DOMAIN priority \subseteq Nat
    PROVE  FirstLegal(mask, priority) \in mask
<1> DEFINE legal == {j \in DOMAIN priority : priority[j] \in mask}
<1>1. mask \in SUBSET Nat /\ mask # {}
  BY MatchAssumption
<1>2. CASE legal # {}
  <2>1. Min(legal) \in legal
    BY <1>2, MinIsMember
  <2>2. QED
    BY <1>2, <2>1 DEF FirstLegal
<1>3. CASE legal = {}
  BY <1>1, <1>3, MinIsMember DEF FirstLegal
<1>4. QED
  BY <1>2, <1>3

(* Whatever policy is asked, and whatever it sees, it chooses what is      *)
(* legal there.                                                            *)
LEMMA ChoicesAreLegal ==
    ASSUME NEW name, NEW view \in Views
    PROVE  PolicyChoices(name, view) \subseteq view.mask
<1>1. view.mask \in Masks
  BY DEF Views
<1>2. AlwaysCall(view) \in view.mask
  <2>1. DOMAIN <<CheckCall, Fold>> \subseteq Nat
    OBVIOUS
  <2>2. QED
    BY <1>1, <2>1, FirstLegalIsLegal DEF AlwaysCall
<1>3. AlwaysRaise(view) \in view.mask
  <2>1. DOMAIN <<SmallestRaise(view.mask), CheckCall, Fold>> \subseteq Nat
    OBVIOUS
  <2>2. QED
    BY <1>1, <2>1, FirstLegalIsLegal DEF AlwaysRaise
<1>4. PairAllIn(view) \in view.mask
  <2> DEFINE priority == IF view.hole = "pair"
                         THEN <<BiggestRaise(view.mask), CheckCall, Fold>>
                         ELSE <<Fold, CheckCall>>
  <2>1. DOMAIN priority \subseteq Nat
    OBVIOUS
  <2> HIDE DEF priority
  <2>2. FirstLegal(view.mask, priority) \in view.mask
    BY <1>1, <2>1, FirstLegalIsLegal
  <2>3. QED
    BY <2>2 DEF PairAllIn, priority
<1>5. QED
  BY <1>2, <1>3, <1>4 DEF PolicyChoices
-----------------------------------------------------------------------------
(* What is dealt is a hand, and so is what a step leaves of one.           *)
LEMMA HandsAreHands ==
    /\ NewHands \subseteq Hands
    /\ \A h \in Hands : Successors(h) \subseteq Hands
    /\ \A h \in Hands : View(h) \in Views /\ View(h).mask = h.mask
  BY DEF NewHands, Hands, Successors, View, Views, Seats

LEMMA TableTyped == NoTable \in [Envs -> NewHands]
<1>1. PICK m \in Masks, o \in Holes : TRUE
  BY MatchAssumption
<1>2. [player |-> 1, mask |-> m, hole |-> o, taken |-> 0] \in NewHands
  BY <1>1 DEF NewHands
<1>3. QED
  BY <1>2 DEF NoTable

LEMMA PlanTyped == NoPlan \in [Envs -> Plans]
<1>1. PICK m \in Masks : m # {}
  BY MatchAssumption
<1>2. PICK s \in m : TRUE
  BY <1>1
<1>3. [action |-> s, by |-> "a"] \in Plans
  BY <1>1, <1>2 DEF Plans, Slots
<1>4. QED
  BY <1>3 DEF NoPlan

LEMMA SeatTyped == FirstSeats \in [Envs -> Seats]
  BY MatchAssumption DEF FirstSeats, FirstSeat, Envs, Seats

LEMMA ZeroIsAnEnv == 0 \in Envs /\ 0 \in 0 .. NumEnvs /\ Envs \subseteq Nat
  BY MatchAssumption DEF Envs

LEMMA NoTallyTyped ==
    NoTally \in Tallies /\ NoTally.hands = NoTally.wins + NoTally.losses + NoTally.ties
  BY MatchAssumption DEF NoTally, Tallies

LEMMA WhoTyped == NobodyActed \in [Envs -> [Seats -> SUBSET {"a", "b"}]]
  BY DEF NobodyActed

LEMMA ZeroesTyped == NoCounts \in [Slots -> Nat] /\ NoHands \in [Envs -> [Seats -> Nat]]
  BY DEF NoCounts, NoHands

(* One more hand is credited to one outcome and in one frame.              *)
LEMMA CreditTyped ==
    ASSUME NEW t \in Tallies, t.hands < Target, NEW r \in Rewards, NEW s \in Seats,
           t.hands = t.wins + t.losses + t.ties
    PROVE  LET c == Credit(t, Mine(r, s))
           IN  /\ c \in Tallies
               /\ c.hands = c.wins + c.losses + c.ties
               /\ c.hands = t.hands + 1
               /\ c.total - t.total = (IF s = 0 THEN r ELSE -r)
               /\ c.wins - t.wins = (IF c.total > t.total THEN 1 ELSE 0)
<1> DEFINE mine == Mine(r, s)
<1>1. mine \in Int /\ mine = (IF s = 0 THEN r ELSE -r)
  BY MatchAssumption DEF Mine
<1>2. /\ t.hands \in Nat /\ t.hands + 1 \in 0 .. Target
      /\ t.wins \in Nat /\ t.losses \in Nat /\ t.ties \in Nat /\ t.total \in Int
  BY MatchAssumption DEF Tallies
<1> HIDE DEF mine
<1> DEFINE c == Credit(t, mine)
<1>3. /\ c = [hands |-> c.hands, wins |-> c.wins, losses |-> c.losses,
              ties |-> c.ties, total |-> c.total]
      /\ c.hands = t.hands + 1 /\ c.total = t.total + mine
      /\ c.wins = t.wins + (IF mine > 0 THEN 1 ELSE 0)
      /\ c.losses = t.losses + (IF mine < 0 THEN 1 ELSE 0)
      /\ c.ties = t.ties + (IF mine = 0 THEN 1 ELSE 0)
  BY DEF Credit
<1> HIDE DEF c
<1>4. /\ c.hands \in 0 .. Target /\ c.total \in Int
      /\ c.wins \in Nat /\ c.losses \in Nat /\ c.ties \in Nat
  BY <1>1, <1>2, <1>3
<1>5. c \in Tallies
  BY <1>3, <1>4 DEF Tallies
<1>6. c.hands = c.wins + c.losses + c.ties
  BY <1>1, <1>2, <1>3
<1>7. c.wins - t.wins = (IF c.total > t.total THEN 1 ELSE 0)
  BY <1>1, <1>2, <1>3
<1>8. c.total - t.total = mine
  BY <1>1, <1>2, <1>3
<1>9. QED
  BY <1>1, <1>3, <1>5, <1>6, <1>7, <1>8 DEF mine, c

LEMMA CountedTyped == ASSUME NEW p, NEW s PROVE Counted(p, s) \in Nat
<1>1. IsFiniteSet(Envs)
  BY FS_Interval, MatchAssumption DEF Envs
<1>2. QED
  BY <1>1, FS_Subset, FS_CardinalityType DEF Counted
-----------------------------------------------------------------------------
LEMMA InitIInv == Init => IInv
<1> SUFFICES ASSUME Init PROVE IInv
  OBVIOUS
<1>1. env \in [Envs -> Hands]
  BY TableTyped, HandsAreHands DEF Init, MatchInit
<1>2. seen \in [Envs -> Views] /\ SeenIsCurrent
  BY <1>1, HandsAreHands DEF Init, MatchInit, SeenIsCurrent
<1>3. /\ seat \in [Envs -> Seats] /\ plan \in [Envs -> Plans] /\ cursor \in 0 .. NumEnvs
      /\ tally \in Tallies /\ tally.hands = tally.wins + tally.losses + tally.ties
      /\ who \in [Envs -> [Seats -> SUBSET {"a", "b"}]]
      /\ counts \in [Slots -> Nat] /\ played \in [Slots -> Nat]
      /\ sat \in [Envs -> [Seats -> Nat]]
  BY SeatTyped, PlanTyped, ZeroIsAnEnv, NoTallyTyped, WhoTyped, ZeroesTyped
     DEF Init, MatchInit
<1>4. phase = "idle" /\ cursor = 0
  BY DEF Init, MatchInit
<1>5. OnePolicyPerSeat
  BY <1>3 DEF Init, MatchInit, NobodyActed, OnePolicyPerSeat, Seats
<1>6. QED
  BY <1>1, <1>2, <1>3, <1>4, <1>5 DEF IInv, TypeOK, PlanFits

(* A match that begins, and a table that is cleared.                       *)
LEMMA FreshTable ==
    ASSUME env' \in [Envs -> NewHands], seen' = [i \in Envs |-> View(env'[i])],
           seat' = FirstSeats, plan' = NoPlan, cursor' = 0, tally' = NoTally,
           who' = NobodyActed, phase' \in {"idle", "select"},
           counts' = NoCounts, played' = NoCounts, sat' = NoHands
    PROVE  IInv'
<1>1. env' \in [Envs -> Hands]
  BY HandsAreHands
<1>2. seen' \in [Envs -> Views] /\ SeenIsCurrent'
  BY <1>1, HandsAreHands DEF SeenIsCurrent
<1>3. /\ seat' \in [Envs -> Seats] /\ plan' \in [Envs -> Plans]
      /\ cursor' \in 0 .. NumEnvs
      /\ tally' \in Tallies /\ tally'.hands = tally'.wins + tally'.losses + tally'.ties
      /\ who' \in [Envs -> [Seats -> SUBSET {"a", "b"}]]
      /\ counts' \in [Slots -> Nat] /\ played' \in [Slots -> Nat]
      /\ sat' \in [Envs -> [Seats -> Nat]]
  BY SeatTyped, PlanTyped, ZeroIsAnEnv, NoTallyTyped, WhoTyped, ZeroesTyped
<1>4. OnePolicyPerSeat'
  BY <1>3 DEF NobodyActed, OnePolicyPerSeat, Seats
<1>5. QED
  BY <1>1, <1>2, <1>3, <1>4 DEF IInv, TypeOK, PlanFits

LEMMA StartMatchStep == ASSUME IInv, StartMatch PROVE IInv'
  BY FreshTable DEF StartMatch, Deal

LEMMA EndMatchStep == ASSUME IInv, EndMatch PROVE IInv'
  BY FreshTable, TableTyped DEF EndMatch, Leave, ClearTable

(* The plan of a sweep fits because what the policies see is current.      *)
LEMMA StartSweepStep == ASSUME IInv, StartSweep PROVE IInv'
<1> DEFINE Chosen(by, view) ==
             PolicyChoices(IF by = "a" THEN "trained" ELSE Anchor, view)
<1>1. /\ phase = "select" /\ tally.hands < Target
      /\ plan' \in [Envs -> Plans]
      /\ \A i \in Envs : /\ plan'[i].by = Acting(i)
                         /\ plan'[i].action \in Chosen(Acting(i), seen[i])
      /\ phase' = "step"
      /\ UNCHANGED <<env, seen, seat, cursor, tally, who>>
      /\ counts' = [s \in Slots |-> counts[s] + Counted(plan', s)]
      /\ UNCHANGED <<played, sat, results>>
  BY DEF StartSweep, Select
<1>2. ASSUME NEW i \in Envs PROVE plan'[i].action \in env[i].mask
  <2>1. seen[i] \in Views /\ seen[i].mask = env[i].mask
    BY HandsAreHands DEF IInv, TypeOK, SeenIsCurrent
  <2>2. QED
    BY <1>1, <2>1, ChoicesAreLegal
<1> HIDE DEF Chosen
<1>3. counts' \in [Slots -> Nat]
  BY <1>1, CountedTyped DEF IInv, TypeOK
<1>4. cursor' \in Envs
  BY <1>1, ZeroIsAnEnv DEF IInv, PlanFits
<1>5. PlanFits'
  BY <1>1, <1>2, <1>4 DEF PlanFits, Acting
<1>6. TypeOK'
  BY <1>1, <1>3 DEF IInv, TypeOK
<1>7. SeenIsCurrent' /\ OnePolicyPerSeat'
  BY <1>1 DEF IInv, SeenIsCurrent, OnePolicyPerSeat
<1>8. QED
  BY <1>5, <1>6, <1>7 DEF IInv
-----------------------------------------------------------------------------
(* The loop variables after an environment was stepped.                    *)
LEMMA AdvanceFits ==
    ASSUME IInv, NEW i \in Envs, Stepping(i), Advance(i),
           tally' \in Tallies,
           \A j \in Envs \ {i} : env'[j] = env[j] /\ seat'[j] = seat[j]
    PROVE  /\ PlanFits' /\ phase' \in {"select", "step"}
           /\ cursor' \in 0 .. NumEnvs /\ plan' \in [Envs -> Plans]
<1>1. /\ phase = "step" /\ cursor = i /\ plan \in [Envs -> Plans]
      /\ \A j \in Envs : j >= i =>
            plan[j].action \in env[j].mask /\ plan[j].by = Acting(j)
  BY DEF IInv, TypeOK, PlanFits, Stepping
<1>2. /\ i \in Nat /\ NumEnvs \in Nat /\ tally'.hands \in Int /\ Target \in Nat
      /\ \A j \in Envs : j \in Nat
  BY MatchAssumption DEF Envs, Tallies
<1>3. CASE i + 1 = NumEnvs \/ tally'.hands >= Target
  BY <1>3, ZeroIsAnEnv, PlanTyped DEF Advance, PlanFits
<1>4. CASE ~(i + 1 = NumEnvs \/ tally'.hands >= Target)
  <2>1. cursor' = i + 1 /\ phase' = "step" /\ plan' = plan
    BY <1>1, <1>4 DEF Advance
  <2>2. i + 1 \in Envs /\ tally'.hands < Target
    BY <1>2, <1>4 DEF Envs
  <2>3. ASSUME NEW j \in Envs, j >= i + 1
        PROVE  plan[j].action \in env'[j].mask /\ plan[j].by = Acting(j)'
    <3>1. j >= i /\ j # i
      BY <1>2, <2>3
    <3>2. Acting(j)' = Acting(j) /\ env'[j] = env[j]
      BY <3>1 DEF Acting
    <3>3. QED
      BY <1>1, <3>1, <3>2
  <2>4. QED
    BY <1>1, <1>2, <2>1, <2>2, <2>3 DEF PlanFits, Envs
<1>5. QED
  BY <1>3, <1>4

(* What Stepping and the invariant say of the decision that is played.     *)
LEMMA TheDecision ==
    ASSUME IInv, NEW i \in Envs, Stepping(i)
    PROVE  /\ plan[i].by = Acting(i) /\ plan[i].by \in {"a", "b"}
           /\ plan[i].action \in Slots
           /\ env[i] \in Hands /\ env[i].player \in Seats /\ seat[i] \in Seats
           /\ tally \in Tallies /\ tally.hands < Target
           /\ tally.hands = tally.wins + tally.losses + tally.ties
           /\ phase = "step" /\ cursor = i
<1>1. phase = "step" /\ cursor = i /\ i >= i
  BY ZeroIsAnEnv DEF Stepping
<1>2. plan[i].by = Acting(i) /\ tally.hands < Target
  BY <1>1 DEF IInv, PlanFits
<1>3. plan[i] \in Plans /\ env[i] \in Hands
  BY DEF IInv, TypeOK
<1>4. QED
  BY <1>1, <1>2, <1>3 DEF IInv, TypeOK, Plans, Hands

LEMMA HandGoesOnStep ==
    ASSUME IInv, NEW i \in Envs, HandGoesOn(i)
    PROVE  /\ env' \in [Envs -> Hands] /\ seen' \in [Envs -> Views] /\ SeenIsCurrent'
           /\ tally' = tally /\ seat' = seat
           /\ who' \in [Envs -> [Seats -> SUBSET {"a", "b"}]]
           /\ OnePolicyPerSeat' /\ PlanFits' /\ phase' \in {"select", "step"}
           /\ cursor' \in 0 .. NumEnvs /\ plan' \in [Envs -> Plans]
<1>1. Stepping(i) /\ tally' = tally /\ seat' = seat /\ Advance(i)
  BY DEF HandGoesOn
<1>2. PICK h \in Successors(env[i]) : /\ env' = [env EXCEPT ![i] = h]
                                     /\ seen' = [seen EXCEPT ![i] = View(h)]
  BY DEF HandGoesOn
<1>3. h \in Hands /\ View(h) \in Views
  BY <1>2, HandsAreHands DEF IInv, TypeOK
<1>4. env' \in [Envs -> Hands] /\ seen' \in [Envs -> Views] /\ SeenIsCurrent'
  BY <1>2, <1>3 DEF IInv, TypeOK, SeenIsCurrent
<1>5. /\ plan[i].by = Acting(i) /\ plan[i].by \in {"a", "b"}
      /\ env[i].player \in Seats /\ seat[i] \in Seats /\ tally \in Tallies
  BY <1>1, TheDecision
<1>6. who' = [who EXCEPT ![i][env[i].player] = @ \cup {plan[i].by}]
  BY DEF HandGoesOn
<1>7. who' \in [Envs -> [Seats -> SUBSET {"a", "b"}]]
  BY <1>5, <1>6 DEF IInv, TypeOK
<1>8. OnePolicyPerSeat'
  <2> SUFFICES ASSUME NEW j \in Envs
               PROVE  /\ who'[j][seat[j]] \subseteq {"a"}
                      /\ who'[j][1 - seat[j]] \subseteq {"b"}
    BY <1>1 DEF OnePolicyPerSeat
  <2>1. /\ who[j][seat[j]] \subseteq {"a"} /\ who[j][1 - seat[j]] \subseteq {"b"}
        /\ seat[j] \in {0, 1} /\ DOMAIN who[j] = {0, 1} /\ j \in DOMAIN who
    BY DEF IInv, TypeOK, OnePolicyPerSeat, Seats
  <2>2. CASE j # i
    BY <1>6, <2>1, <2>2
  <2>3. CASE j = i
    <3>1. who'[i] = [who[i] EXCEPT ![env[i].player] = @ \cup {plan[i].by}]
      BY <1>6, <2>1, <2>3
    <3>2. plan[i].by = IF env[i].player = seat[i] THEN "a" ELSE "b"
      BY <1>5 DEF Acting, IsMine
    <3>3. QED
      BY <1>5, <2>1, <2>3, <3>1, <3>2 DEF Seats
  <2>4. QED
    BY <2>2, <2>3
<1>9. /\ PlanFits' /\ phase' \in {"select", "step"}
      /\ cursor' \in 0 .. NumEnvs /\ plan' \in [Envs -> Plans]
  <2>1. \A j \in Envs \ {i} : env'[j] = env[j] /\ seat'[j] = seat[j]
    BY <1>1, <1>2 DEF IInv, TypeOK
  <2>2. QED
    BY <1>1, <1>5, <2>1, AdvanceFits
<1>10. QED
  BY <1>1, <1>4, <1>7, <1>8, <1>9

LEMMA HandEndsStep ==
    ASSUME IInv, NEW i \in Envs, HandEnds(i)
    PROVE  /\ env' \in [Envs -> Hands] /\ seen' \in [Envs -> Views] /\ SeenIsCurrent'
           /\ tally' \in Tallies /\ tally'.hands = tally'.wins + tally'.losses + tally'.ties
           /\ seat' \in [Envs -> Seats]
           /\ who' \in [Envs -> [Seats -> SUBSET {"a", "b"}]]
           /\ OnePolicyPerSeat' /\ PlanFits' /\ phase' \in {"select", "step"}
           /\ cursor' \in 0 .. NumEnvs /\ plan' \in [Envs -> Plans]
<1>1. /\ Stepping(i) /\ Advance(i)
      /\ seat' = [seat EXCEPT ![i] = NextSeat(@)]
      /\ who' = [who EXCEPT ![i] = NobodyActed[i]]
  BY DEF HandEnds
<1>2. PICK h \in NewHands : /\ env' = [env EXCEPT ![i] = h]
                            /\ seen' = [seen EXCEPT ![i] = ViewOfNewHand(@, h)]
  BY DEF HandEnds
<1>3. h \in Hands /\ View(h) \in Views
  BY <1>2, HandsAreHands
<1>4. env' \in [Envs -> Hands] /\ seen' \in [Envs -> Views] /\ SeenIsCurrent'
  BY <1>2, <1>3 DEF IInv, TypeOK, SeenIsCurrent, ViewOfNewHand
<1>5. /\ seat[i] \in Seats /\ tally \in Tallies /\ tally.hands < Target
      /\ tally.hands = tally.wins + tally.losses + tally.ties
  BY <1>1, TheDecision
<1>6. tally' \in Tallies /\ tally'.hands = tally'.wins + tally'.losses + tally'.ties
  BY <1>5, CreditTyped DEF HandEnds
<1>7. seat' \in [Envs -> Seats]
  BY <1>1, <1>5 DEF IInv, TypeOK, NextSeat, Seats
<1>8. who' \in [Envs -> [Seats -> SUBSET {"a", "b"}]]
  BY <1>1, WhoTyped DEF IInv, TypeOK
<1>9. OnePolicyPerSeat'
  <2> SUFFICES ASSUME NEW j \in Envs
               PROVE  /\ who'[j][seat'[j]] \subseteq {"a"}
                      /\ who'[j][1 - seat'[j]] \subseteq {"b"}
    BY DEF OnePolicyPerSeat
  <2>1. CASE j # i
    BY <1>1, <2>1 DEF IInv, TypeOK, OnePolicyPerSeat
  <2>2. CASE j = i
    <3>1. who'[j] = [s \in Seats |-> {}] /\ seat'[j] \in {0, 1}
      BY <1>1, <1>7, <2>2 DEF IInv, TypeOK, NobodyActed, Seats
    <3>2. QED
      BY <3>1 DEF Seats
  <2>3. QED
    BY <2>1, <2>2
<1>10. /\ PlanFits' /\ phase' \in {"select", "step"}
       /\ cursor' \in 0 .. NumEnvs /\ plan' \in [Envs -> Plans]
  <2>1. \A j \in Envs \ {i} : env'[j] = env[j] /\ seat'[j] = seat[j]
    BY <1>1, <1>2 DEF IInv, TypeOK
  <2>2. QED
    BY <1>1, <1>6, <2>1, AdvanceFits
<1>11. QED
  BY <1>4, <1>6, <1>7, <1>8, <1>9, <1>10

LEMMA StepEnvStep == ASSUME IInv, NEW i \in Envs, StepEnv(i) PROVE IInv'
<1>1. counts' \in [Slots -> Nat] /\ played' \in [Slots -> Nat]
  <2>1. played \in [Slots -> Nat] /\ counts \in [Slots -> Nat] /\ counts' = counts
    BY DEF StepEnv, IInv, TypeOK
  <2>2. plan[i].action \in Slots
    BY TheDecision DEF StepEnv, HandGoesOn, HandEnds
  <2>3. played' \in {played, [played EXCEPT ![plan[i].action] = @ + 1]}
    BY DEF StepEnv
  <2>4. QED
    BY <2>1, <2>2, <2>3
<1>2. CASE HandGoesOn(i) /\ UNCHANGED sat
  <2>1. TypeOK'
    BY <1>1, <1>2, HandGoesOnStep DEF IInv, TypeOK
  <2>2. QED
    BY <1>2, <2>1, HandGoesOnStep DEF IInv
<1>3. CASE HandEnds(i) /\ sat' = [sat EXCEPT ![i][seat[i]] = @ + 1]
  <2>1. sat' \in [Envs -> [Seats -> Nat]]
    BY <1>3 DEF IInv, TypeOK
  <2>2. TypeOK'
    BY <1>1, <1>3, <2>1, HandEndsStep DEF IInv, TypeOK
  <2>3. QED
    BY <1>3, <2>2, HandEndsStep DEF IInv
<1>4. QED
  BY <1>2, <1>3 DEF StepEnv

LEMMA StutterKeepsIInv == ASSUME IInv, UNCHANGED vars PROVE IInv'
  BY DEF IInv, TypeOK, SeenIsCurrent, PlanFits, Acting, OnePolicyPerSeat,
         vars, historyVars

(* The invariant of matches of any size.                                   *)
THEOREM Invariance == Spec => []IInv
<1>1. IInv /\ [Next]_vars => IInv'
  BY StartMatchStep, StartSweepStep, StepEnvStep, EndMatchStep,
     StutterKeepsIInv DEF Next, Evaluated
<1>2. QED
  BY <1>1, InitIInv, PTL DEF Spec

(* The types, with every hand counted once as won, lost or tied.           *)
THEOREM TypeCorrect == Spec => []TypeOK
<1>1. IInv => TypeOK
  BY DEF IInv
<1>2. QED
  BY <1>1, Invariance, PTL

(* No policy's choice is illegal when the sweep comes to play it.          *)
THEOREM ChoicesStayLegal == Spec => []LegalWhenPlayed
<1>1. IInv => LegalWhenPlayed
  <2> SUFFICES ASSUME IInv, phase = "step"
               PROVE  plan[cursor].action \in env[cursor].mask
    BY DEF LegalWhenPlayed
  <2>1. cursor \in Envs /\ cursor >= cursor
    BY ZeroIsAnEnv DEF IInv, PlanFits
  <2>2. QED
    BY <2>1 DEF IInv, PlanFits
<1>2. QED
  BY <1>1, Invariance, PTL

(* Within a hand no seat changes hands.                                    *)
THEOREM SeatsKeepTheirPolicy == Spec => []OnePolicyPerSeat
<1>1. IInv => OnePolicyPerSeat
  BY DEF IInv
<1>2. QED
  BY <1>1, Invariance, PTL

(* A hand that is counted was the stepped environment's, and its reward    *)
(* goes to the seat that the trained policy held when the last decision    *)
(* was taken.                                                              *)
LEMMA CreditStep ==
    ASSUME IInv, [Next]_vars, tally'.hands = tally.hands + 1
    PROVE  \E r \in Rewards :
              /\ tally'.total - tally.total
                     = (IF SeatPlayed(cursor) = 0 THEN r ELSE -r)
              /\ tally'.wins - tally.wins
                     = (IF tally'.total > tally.total THEN 1 ELSE 0)
<1>0. tally.hands \in Nat
  BY MatchAssumption DEF IInv, TypeOK, Tallies
<1>1. CASE UNCHANGED tally
  BY <1>0, <1>1
<1>2. CASE tally' = NoTally
  BY <1>0, <1>2 DEF NoTally
<1>3. ASSUME NEW i \in Envs, HandEnds(i)
      PROVE  \E r \in Rewards :
                /\ tally'.total - tally.total
                       = (IF SeatPlayed(cursor) = 0 THEN r ELSE -r)
                /\ tally'.wins - tally.wins
                       = (IF tally'.total > tally.total THEN 1 ELSE 0)
  <2>1. Stepping(i)
    BY <1>3 DEF HandEnds
  <2>2. /\ plan[i].by = Acting(i) /\ env[i].player \in Seats /\ seat[i] \in Seats
        /\ cursor = i /\ tally \in Tallies /\ tally.hands < Target
        /\ tally.hands = tally.wins + tally.losses + tally.ties
    BY <2>1, TheDecision
  <2>3. SeatPlayed(cursor) = seat[i]
    BY <2>2 DEF SeatPlayed, Acting, IsMine, Seats
  <2>4. PICK r \in Rewards : tally' = Credit(tally, Mine(r, seat[i]))
    BY <1>3 DEF HandEnds
  <2>5. QED
    BY <2>2, <2>3, <2>4, CreditTyped
<1>4. QED
  BY <1>1, <1>2, <1>3
     DEF Next, StartMatch, Deal, StartSweep, Select, StepEnv, HandGoesOn,
         EndMatch, Leave, ClearTable, Evaluated, vars

(* The reward of a hand follows the seat, in matches of any size.          *)
THEOREM CreditIsSeated == Spec => CreditFollowsTheSeat
<1>1. IInv /\ [Next]_vars =>
        [tally'.hands = tally.hands + 1 =>
            \E r \in Rewards :
              /\ tally'.total - tally.total
                     = (IF SeatPlayed(cursor) = 0 THEN r ELSE -r)
              /\ tally'.wins - tally.wins
                     = (IF tally'.total > tally.total THEN 1 ELSE 0)]_vars
  BY CreditStep
<1>2. QED
  BY <1>1, Invariance, PTL DEF Spec, CreditFollowsTheSeat
-----------------------------------------------------------------------------
(***************************************************************************)
(* The histories.                                                          *)
(***************************************************************************)
LEMMA EnvsAreFinite == IsFiniteSet(Envs) /\ Cardinality(Envs) = NumEnvs
<1>1. NumEnvs \in Nat /\ NumEnvs > 0
  BY MatchAssumption
<1>2. IsFiniteSet(0 .. NumEnvs - 1)
  BY <1>1, FS_Interval
<1>3. Cardinality(0 .. NumEnvs - 1) = NumEnvs
  BY <1>1, FS_Interval
<1>4. QED
  BY <1>2, <1>3 DEF Envs

(* The sum of a histogram.                                                 *)
LEMMA HistogramSum ==
    ASSUME NEW f \in [Slots -> Nat]
    PROVE  SumFunction(f) = SumFunctionOnSet(f, Slots) /\ SumFunction(f) \in Nat
<1>1. SumFunction(f) = SumFunctionOnSet(f, Slots)
  BY DEF SumFunction
<1>2. \A s \in Slots : f[s] \in Nat
  OBVIOUS
<1>3. QED
  BY <1>1, <1>2, SlotsAssumption, SumOfNaturals

LEMMA SeatFacts ==
    ASSUME NEW i \in Envs
    PROVE  FirstSeat(i) \in {0, 1} /\ FirstSeats[i] = FirstSeat(i)
  BY SeatTyped DEF FirstSeats, Seats

(* Nothing is played yet, or any more.                                     *)
LEMMA NothingCounted ==
    /\ SumFunction([i \in Envs |-> NoHands[i][0] + NoHands[i][1]]) = 0
    /\ SumFunction(NoCounts) - SumFunction(NoCounts) \in 0 .. NumEnvs - 1
<1> DEFINE d == [i \in Envs |-> NoHands[i][0] + NoHands[i][1]]
<1>1. \A i \in Envs : d[i] = 0
  BY DEF NoHands, Seats
<1>2. SumFunction(d) = SumFunctionOnSet(d, Envs)
  BY DEF SumFunction
<1> HIDE DEF d
<1>3. SumFunction(d) = 0
  BY <1>1, <1>2, EnvsAreFinite, SumOfZeros
<1>4. SumFunction(NoCounts) \in Nat
  BY HistogramSum, ZeroesTyped
<1>5. SumFunction(NoCounts) - SumFunction(NoCounts) \in 0 .. NumEnvs - 1
  BY <1>4, MatchAssumption
<1>6. QED
  BY <1>3, <1>5 DEF d

LEMMA FreshHistories ==
    ASSUME seat' = FirstSeats, tally' = NoTally, phase' \in {"idle", "select"},
           counts' = NoCounts, played' = NoCounts, sat' = NoHands
    PROVE  Histories'
<1>1. SeatsAlternate'
  BY SeatFacts DEF SeatsAlternate, Lead, NoHands, Seats
<1>2. HandsAreCounted'
  BY NothingCounted DEF HandsAreCounted, NoTally
<1>3. CountsRunAhead'
  BY NothingCounted DEF CountsRunAhead, HistogramIsPlayed
<1>4. QED
  BY <1>1, <1>2, <1>3 DEF Histories

LEMMA InitHistories == Init => Histories
<1> SUFFICES ASSUME Init PROVE Histories
  OBVIOUS
<1>1. /\ seat = FirstSeats /\ tally = NoTally /\ phase = "idle"
      /\ counts = NoCounts /\ played = NoCounts /\ sat = NoHands
  BY DEF Init, MatchInit
<1>2. SeatsAlternate
  BY <1>1, SeatFacts DEF SeatsAlternate, Lead, NoHands, Seats
<1>3. HandsAreCounted
  BY <1>1, NothingCounted DEF HandsAreCounted, NoTally
<1>4. CountsRunAhead
  BY <1>1, NothingCounted DEF CountsRunAhead, HistogramIsPlayed
<1>5. QED
  BY <1>2, <1>3, <1>4 DEF Histories

(* A sweep's plan is counted when it is made.                              *)
LEMMA StartSweepHistories == ASSUME IInv, Histories, StartSweep PROVE Histories'
<1>1. /\ phase = "select" /\ tally.hands < Target /\ phase' = "step"
      /\ UNCHANGED <<seat, cursor, tally, played, sat>>
      /\ counts' = [s \in Slots |-> counts[s] + Counted(plan', s)]
  BY DEF StartSweep, Select
<1>2. SeatsAlternate' /\ HandsAreCounted'
  BY <1>1 DEF Histories, SeatsAlternate, Lead, HandsAreCounted
<1>3. ASSUME NEW s \in Slots
      PROVE  counts'[s] = played'[s] + Cardinality(ToPlay(s)')
  <2>1. counts = played /\ cursor' = 0
    BY <1>1 DEF Histories, CountsRunAhead, HistogramIsPlayed, IInv, PlanFits
  <2>2. ToPlay(s)' = {i \in Envs : plan'[i] = [action |-> s, by |-> "a"]}
    <3>1. \A i \in Envs : i >= cursor'
      BY <2>1, ZeroIsAnEnv
    <3>2. QED
      BY <3>1 DEF ToPlay
  <2>3. counts'[s] = counts[s] + Counted(plan', s)
    BY <1>1
  <2>4. QED
    BY <1>1, <2>1, <2>2, <2>3 DEF Counted
<1>4. CountsRunAhead'
  BY <1>1, <1>3 DEF CountsRunAhead
<1>5. QED
  BY <1>2, <1>4 DEF Histories

(* The two seats' hands: the step of one environment.                      *)
LEMMA StepEnvSeats ==
    ASSUME IInv, Histories, NEW i \in Envs, StepEnv(i)
    PROVE  SeatsAlternate' /\ HandsAreCounted'
<1>1. CASE HandGoesOn(i) /\ UNCHANGED sat
  BY <1>1 DEF HandGoesOn, Histories, SeatsAlternate, Lead, HandsAreCounted
<1>2. CASE HandEnds(i) /\ sat' = [sat EXCEPT ![i][seat[i]] = @ + 1]
  <2> DEFINE d == [j \in Envs |-> sat[j][0] + sat[j][1]]
             e == [j \in Envs |-> sat'[j][0] + sat'[j][1]]
  <2>1. /\ seat \in [Envs -> {0, 1}] /\ sat \in [Envs -> [{0, 1} -> Nat]]
        /\ FirstSeat(i) \in {0, 1} /\ seat[i] \in {0, 1}
    BY SeatFacts DEF IInv, TypeOK, Seats
  <2>2. seat'[i] = 1 - seat[i] /\ \A j \in Envs \ {i} : seat'[j] = seat[j]
    BY <1>2, <2>1 DEF HandEnds, NextSeat
  <2>3. /\ sat'[i][seat[i]] = sat[i][seat[i]] + 1
        /\ sat'[i][1 - seat[i]] = sat[i][1 - seat[i]]
        /\ \A j \in Envs \ {i} : sat'[j] = sat[j]
    BY <1>2, <2>1
  <2>4. sat[i][0] \in Nat /\ sat[i][1] \in Nat
    BY <2>1
  <2>5. SeatsAlternate'
    <3> SUFFICES ASSUME NEW j \in Envs PROVE sat'[j][0] - sat'[j][1] = Lead(j)'
      BY DEF SeatsAlternate
    <3>1. CASE j # i
      BY <2>2, <2>3, <3>1 DEF Histories, SeatsAlternate, Lead
    <3>2. CASE j = i
      <4>1. sat[i][0] - sat[i][1]
                = IF seat[i] = FirstSeat(i) THEN 0 ELSE 1 - 2 * FirstSeat(i)
        BY DEF Histories, SeatsAlternate, Lead
      <4>2. CASE seat[i] = 0
        BY <2>1, <2>2, <2>3, <2>4, <3>2, <4>1, <4>2 DEF Lead
      <4>3. CASE seat[i] = 1
        BY <2>1, <2>2, <2>3, <2>4, <3>2, <4>1, <4>3 DEF Lead
      <4>4. QED
        BY <2>1, <4>2, <4>3
    <3>3. QED
      BY <3>1, <3>2
  <2>6. \A j \in Envs : d[j] \in Int
    BY <2>1
  <2>7. e[i] = d[i] + 1 /\ d[i] \in Int /\ \A j \in Envs \ {i} : e[j] = d[j]
    <3>1. e[i] = d[i] + 1
      <4>1. CASE seat[i] = 0
        BY <2>3, <2>4, <4>1
      <4>2. CASE seat[i] = 1
        BY <2>3, <2>4, <4>2
      <4>3. QED
        BY <2>1, <4>1, <4>2
    <3>2. QED
      BY <2>3, <2>4, <3>1
  <2>8. SumFunction(d) = SumFunctionOnSet(d, Envs) /\ SumFunction(e) = SumFunctionOnSet(e, Envs)
    BY DEF SumFunction
  <2>9. SumFunction(d) = tally.hands
    BY DEF Histories, HandsAreCounted
  <2>10. tally'.hands = tally.hands + 1 /\ tally.hands \in Int
    <3>1. Stepping(i) /\ \E r \in Rewards : tally' = Credit(tally, Mine(r, seat[i]))
      BY <1>2 DEF HandEnds
    <3>2. tally \in Tallies /\ tally.hands < Target
      BY <3>1, TheDecision
    <3>3. QED
      BY <3>1, <3>2, MatchAssumption DEF Credit, Tallies
  <2> HIDE DEF d, e
  <2>11. SumFunctionOnSet(e, Envs) = SumFunctionOnSet(d, Envs) + (e[i] - d[i])
    BY <2>6, <2>7, EnvsAreFinite, SumUpdated
  <2>12. SumFunction(e) = tally'.hands
    <3>1. e[i] - d[i] = 1
      BY <2>7
    <3>2. QED
      BY <2>8, <2>9, <2>10, <2>11, <3>1
  <2>13. HandsAreCounted'
    BY <2>12 DEF HandsAreCounted, e
  <2>14. QED
    BY <2>5, <2>13
<1>3. QED
  BY <1>1, <1>2 DEF StepEnv

(* The histogram: what a step leaves of the plan.                          *)
Rest(i, s) == {j \in Envs : j >= i + 1 /\ plan[j] = [action |-> s, by |-> "a"]}

LEMMA RestFinite ==
    ASSUME NEW i, NEW s
    PROVE  IsFiniteSet(Rest(i, s)) /\ Cardinality(Rest(i, s)) \in Nat
<1>1. IsFiniteSet(Rest(i, s))
  BY EnvsAreFinite, FS_Subset DEF Rest
<1>2. QED
  BY <1>1, FS_CardinalityType

LEMMA StepPlaysOne ==
    ASSUME IInv, Histories, NEW i \in Envs, StepEnv(i), NEW s \in Slots
    PROVE  counts'[s] = played'[s] + Cardinality(Rest(i, s))
<1> DEFINE card == Cardinality(Rest(i, s))
<1>0. Stepping(i)
  BY DEF StepEnv, HandGoesOn, HandEnds
<1>1. /\ phase = "step" /\ cursor = i /\ plan[i].by \in {"a", "b"}
      /\ plan[i].action \in Slots
  BY <1>0, TheDecision
<1>2. /\ counts' = counts /\ counts[s] = played[s] + Cardinality(ToPlay(s))
      /\ counts[s] \in Nat /\ played[s] \in Nat /\ played \in [Slots -> Nat]
  BY <1>1 DEF StepEnv, Histories, CountsRunAhead, IInv, TypeOK
<1>3. card \in Nat /\ IsFiniteSet(Rest(i, s))
  BY RestFinite
<1>4. plan[i] \in Plans /\ i \in Nat /\ \A j \in Envs : j \in Nat
  BY ZeroIsAnEnv DEF IInv, TypeOK
<1>5. ASSUME NEW j \in Envs PROVE j >= i <=> j = i \/ j >= i + 1
  BY <1>4
<1>6. CASE plan[i] = [action |-> s, by |-> "a"]
  <2>1. ToPlay(s) = Rest(i, s) \cup {i}
    <3>1. \A j : j \in ToPlay(s) <=> j \in Rest(i, s) \cup {i}
      BY <1>1, <1>6, <1>5 DEF ToPlay, Rest
    <3>2. QED
      BY <3>1
  <2>2. i \notin Rest(i, s)
    BY <1>4 DEF Rest
  <2>3. Cardinality(ToPlay(s)) = card + 1
    BY <1>3, <2>1, <2>2, FS_AddElement
  <2>4. played'[s] = played[s] + 1
    BY <1>2, <1>6 DEF StepEnv
  <2> HIDE DEF card
  <2>5. counts'[s] = played'[s] + card
    BY <1>2, <1>3, <2>3, <2>4
  <2>6. QED
    BY <2>5 DEF card
<1>7. CASE plan[i] # [action |-> s, by |-> "a"]
  <2>1. ToPlay(s) = Rest(i, s)
    <3>1. \A j : j \in ToPlay(s) <=> j \in Rest(i, s)
      BY <1>1, <1>7, <1>5 DEF ToPlay, Rest
    <3>2. QED
      BY <3>1 DEF ToPlay, Rest
  <2>2. played'[s] = played[s]
    <3>1. plan[i].by = "b" \/ plan[i].action # s
      BY <1>1, <1>4, <1>7 DEF Plans
    <3>2. QED
      BY <1>1, <1>2, <3>1 DEF StepEnv
  <2>3. QED
    BY <1>2, <2>1, <2>2
<1>8. QED
  BY <1>6, <1>7

(* What is left of it is less than an environment each.                    *)
LEMMA RestIsShort ==
    ASSUME IInv, NEW i \in Envs
    PROVE  LET c == [s \in Slots |-> Cardinality(Rest(i, s))]
           IN  c \in [Slots -> Nat] /\ SumFunction(c) \in 0 .. NumEnvs - 1
<1> DEFINE c == [s \in Slots |-> Cardinality(Rest(i, s))]
           T == {j \in Envs : j >= i + 1 /\ plan[j].by = "a"}
           label == [j \in T |-> plan[j].action]
<1>1. c \in [Slots -> Nat]
  BY RestFinite
<1>2. \A j \in Envs : plan[j] \in Plans /\ j \in Nat
  BY ZeroIsAnEnv DEF IInv, TypeOK
<1>3. ASSUME NEW s \in Slots PROVE c[s] = Cardinality({t \in T : label[t] = s})
  <2>1. \A p \in Plans : p = [action |-> s, by |-> "a"] <=> p.action = s /\ p.by = "a"
    BY DEF Plans
  <2>2. Rest(i, s) = {t \in T : label[t] = s}
    BY <1>2, <2>1 DEF Rest
  <2>3. QED
    BY <2>2
<1>4. T \subseteq Envs \ {0} /\ Labelled(T, label, Slots) \subseteq Envs \ {0}
  BY <1>2 DEF Labelled
<1>5. IsFiniteSet(Envs \ {0}) /\ Cardinality(Envs \ {0}) = NumEnvs - 1
  BY EnvsAreFinite, ZeroIsAnEnv, FS_RemoveElement, MatchAssumption
<1>6. IsFiniteSet(T)
  BY <1>4, <1>5, FS_Subset
<1>7. Cardinality(Labelled(T, label, Slots)) <= Cardinality(Envs \ {0})
  BY <1>4, <1>5, FS_Subset
<1>8. SumFunctionOnSet(c, Slots) = Cardinality(Labelled(T, label, Slots))
  <2>1. Counts(c, Slots, T, label)
    BY <1>3 DEF Counts
  <2> HIDE DEF c, T, label
  <2>2. QED
    BY <1>6, <2>1, SlotsAssumption, CountsAddUp
<1> HIDE DEF c, T, label
<1>9. SumFunction(c) \in 0 .. NumEnvs - 1
  <2>1. SumFunction(c) = SumFunctionOnSet(c, Slots) /\ SumFunction(c) \in Nat
    BY <1>1, HistogramSum
  <2>2. QED
    BY <1>5, <1>7, <1>8, <2>1, MatchAssumption
<1>10. QED
  BY <1>1, <1>9 DEF c

LEMMA StepEnvCounts ==
    ASSUME IInv, IInv', Histories, NEW i \in Envs, StepEnv(i)
    PROVE  CountsRunAhead'
<1> DEFINE c == [s \in Slots |-> Cardinality(Rest(i, s))]
<1>1. \A s \in Slots : counts'[s] = played'[s] + c[s]
  BY StepPlaysOne
<1>2. c \in [Slots -> Nat] /\ SumFunction(c) \in 0 .. NumEnvs - 1
  BY RestIsShort
<1>3. Stepping(i) /\ Advance(i)
  BY DEF StepEnv, HandGoesOn, HandEnds
<1>4. phase = "step" /\ counts' \in [Slots -> Nat] /\ played' \in [Slots -> Nat]
  BY <1>3 DEF Stepping, IInv, TypeOK
<1>5. CASE i + 1 = NumEnvs \/ tally'.hands >= Target
  <2>1. phase' = "select"
    BY <1>3, <1>5 DEF Advance
  <2>2. SumFunction(counts') - SumFunction(played') \in 0 .. NumEnvs - 1
    <3>1. /\ SumFunction(counts') = SumFunctionOnSet(counts', Slots)
          /\ SumFunction(played') = SumFunctionOnSet(played', Slots)
          /\ SumFunction(c) = SumFunctionOnSet(c, Slots)
          /\ SumFunction(played') \in Nat
      BY <1>2, <1>4, HistogramSum
    <3> HIDE DEF c
    <3>2. /\ \A s \in Slots : played'[s] \in Int
          /\ \A s \in Slots : c[s] \in Int
      BY <1>2, <1>4
    <3>3. SumFunctionOnSet(counts', Slots)
              = SumFunctionOnSet(played', Slots) + SumFunctionOnSet(c, Slots)
      BY <1>1, <3>2, SlotsAssumption, SumsAddUp
    <3>4. QED
      BY <1>2, <3>1, <3>3, MatchAssumption
  <2>3. ASSUME tally'.hands < Target PROVE counts' = played'
    <3>1. i + 1 = NumEnvs
      BY <1>5, <2>3, MatchAssumption DEF IInv, TypeOK, Tallies
    <3>2. ASSUME NEW s \in Slots PROVE c[s] = 0
      <4>1. Rest(i, s) = {}
        BY <3>1, MatchAssumption DEF Rest, Envs
      <4>2. QED
        BY <4>1, FS_EmptySet
    <3> HIDE DEF c
    <3>3. ASSUME NEW s \in Slots PROVE counts'[s] = played'[s]
      BY <1>1, <1>4, <3>2
    <3>4. QED
      BY <1>4, <3>3
  <2>4. QED
    BY <2>1, <2>2, <2>3 DEF CountsRunAhead, HistogramIsPlayed
<1>6. CASE ~(i + 1 = NumEnvs \/ tally'.hands >= Target)
  <2>1. phase' = "step" /\ cursor' = i + 1 /\ plan' = plan
    BY <1>3, <1>4, <1>6 DEF Advance
  <2>2. \A s \in Slots : ToPlay(s)' = Rest(i, s)
    BY <2>1 DEF ToPlay, Rest
  <2>3. QED
    BY <1>1, <2>1, <2>2 DEF CountsRunAhead
<1>7. QED
  BY <1>5, <1>6

LEMMA StutterKeepsHistories == ASSUME Histories, UNCHANGED vars PROVE Histories'
  BY DEF Histories, SeatsAlternate, Lead, HandsAreCounted, CountsRunAhead, ToPlay,
         HistogramIsPlayed, vars, historyVars

(* The histories of matches of any size.                                   *)
THEOREM HistoriesHold == Spec => []Histories
<1>1. IInv /\ IInv' /\ Histories /\ [Next]_vars => Histories'
  <2> SUFFICES ASSUME IInv, IInv', Histories, [Next]_vars PROVE Histories'
    OBVIOUS
  <2>1. CASE StartMatch
    BY <2>1, FreshHistories DEF StartMatch, Deal
  <2>2. CASE StartSweep
    BY <2>2, StartSweepHistories
  <2>3. ASSUME NEW i \in Envs, StepEnv(i) PROVE Histories'
    BY <2>3, StepEnvSeats, StepEnvCounts DEF Histories
  <2>4. CASE EndMatch
    BY <2>4, FreshHistories DEF EndMatch, Leave, ClearTable
  <2>5. CASE UNCHANGED vars
    BY <2>5, StutterKeepsHistories
  <2>6. QED
    BY <2>1, <2>2, <2>3, <2>4, <2>5 DEF Next, Evaluated
<1>2. QED
  BY <1>1, InitHistories, Invariance, PTL DEF Spec

(* The action histogram is what the trained policy played, up to the rest  *)
(* of the sweep in which the match stops.                                  *)
THEOREM HistogramIsWhatWasPlayed == Spec => []HistogramIsPlayed
<1>1. Histories => HistogramIsPlayed
  BY DEF Histories, CountsRunAhead, HistogramIsPlayed
<1>2. QED
  BY <1>1, HistoriesHold, PTL
-----------------------------------------------------------------------------
(* A lead of one hand in some of the environments, for the seat that is    *)
(* first there: the seats take turns at being first, so that the leads     *)
(* nearly cancel.                                                          *)
LEMMA LeadsCancel ==
    ASSUME NEW d, \A i \in Envs : d[i] \in {0, 1 - 2 * (i % 2)}
    PROVE  SumFunctionOnSet(d, Envs) \in -(NumEnvs \div 2) .. (NumEnvs + 1) \div 2
<1> DEFINE Near(n) == SumFunctionOnSet(d, 0 .. n - 1) \in -(n \div 2) .. (n + 1) \div 2
           P == {n \in Nat : n =< NumEnvs => Near(n)}
<1>1. 0 \in P
  <2>1. 0 .. 0 - 1 = {}
    OBVIOUS
  <2>2. SumFunctionOnSet(d, 0 .. 0 - 1) = 0
    BY <2>1, SumOfNothing
  <2>3. QED
    BY <2>2
<1>2. ASSUME NEW n \in P PROVE n + 1 \in P
  <2> SUFFICES ASSUME n + 1 =< NumEnvs PROVE Near(n + 1)
    OBVIOUS
  <2>1. n \in Nat /\ n \in Envs /\ NumEnvs \in Nat
    BY MatchAssumption DEF Envs
  <2>2. Near(n)
    BY <2>1
  <2>3. /\ 0 .. (n + 1) - 1 = 0 .. n /\ (0 .. n) \ {n} = 0 .. n - 1 /\ n \in 0 .. n
        /\ 0 .. n \subseteq Envs
    BY <2>1 DEF Envs
  <2>4. d[n] \in {0, 1 - 2 * (n % 2)}
    BY <2>1
  <2>5. ASSUME NEW i \in 0 .. n PROVE d[i] \in Int
    <3>1. i \in Int /\ i % 2 \in {0, 1} /\ d[i] \in {0, 1 - 2 * (i % 2)}
      BY <2>1, <2>3
    <3>2. QED
      BY <3>1
  <2>6. IsFiniteSet(0 .. n)
    BY <2>1, FS_Interval
  <2>7. SumFunctionOnSet(d, 0 .. n) = d[n] + SumFunctionOnSet(d, 0 .. n - 1)
    <3> DEFINE S == 0 .. n
    <3>1. IsFiniteSet(S) /\ n \in S /\ \A x \in S : d[x] \in Int
      BY <2>3, <2>5, <2>6
    <3> HIDE DEF S
    <3>2. SumFunctionOnSet(d, S) = d[n] + SumFunctionOnSet(d, S \ {n})
      BY <3>1, SumSplits
    <3>3. QED
      BY <2>3, <3>2 DEF S
  <2>8. /\ SumFunctionOnSet(d, 0 .. (n + 1) - 1) = d[n] + SumFunctionOnSet(d, 0 .. n - 1)
        /\ SumFunctionOnSet(d, 0 .. n - 1) \in -(n \div 2) .. (n + 1) \div 2
    BY <2>2, <2>3, <2>7
  <2>9. ASSUME NEW x, x \in -(n \div 2) .. (n + 1) \div 2
        PROVE  d[n] + x \in -((n + 1) \div 2) .. ((n + 1) + 1) \div 2
    <3>1. CASE n % 2 = 0
      BY <2>1, <2>4, <2>9, <3>1
    <3>2. CASE n % 2 = 1
      BY <2>1, <2>4, <2>9, <3>2
    <3>3. QED
      BY <2>1, <3>1, <3>2
  <2>10. QED
    BY <2>8, <2>9
<1>3. \A n \in P : n + 1 \in P
  BY <1>2
<1>4. P \in SUBSET Nat
  OBVIOUS
<1>5. \A n \in P : n =< NumEnvs => Near(n)
  OBVIOUS
<1> HIDE DEF P
<1>6. \A n \in Nat : n \in P
  BY <1>1, <1>3, <1>4, Induction
<1>7. NumEnvs \in P /\ NumEnvs =< NumEnvs
  BY <1>6, MatchAssumption
<1>8. QED
  BY <1>5, <1>7 DEF Envs

(* The hands in the two seats, all environments together.                  *)
LEMMA BalanceFollows == ASSUME IInv, Histories PROVE SeatsBalanced
<1> DEFINE first == [i \in Envs |-> sat[i][0]]
           second == [i \in Envs |-> sat[i][1]]
           both == [i \in Envs |-> sat[i][0] + sat[i][1]]
           lead == [i \in Envs |-> Lead(i)]
<1>1. \A i \in Envs : sat[i][0] \in Nat /\ sat[i][1] \in Nat
  BY SeatFacts DEF IInv, TypeOK, Seats
<1>2. \A i \in Envs : Lead(i) \in {0, 1 - 2 * (i % 2)}
  BY DEF Lead, FirstSeat
<1>3. /\ \A i \in Envs : first[i] \in Int
      /\ \A i \in Envs : second[i] \in Int
      /\ \A i \in Envs : both[i] = first[i] + second[i]
  BY <1>1
<1>4. ASSUME NEW i \in Envs PROVE lead[i] \in Int /\ first[i] = second[i] + lead[i]
  <2>1. lead[i] = sat[i][0] - sat[i][1]
    BY DEF Histories, SeatsAlternate
  <2>2. QED
    BY <1>1, <2>1
<1>5. \A i \in Envs : lead[i] \in {0, 1 - 2 * (i % 2)}
  BY <1>2
<1>6. /\ HandsIn(0) = SumFunctionOnSet(first, Envs)
      /\ HandsIn(1) = SumFunctionOnSet(second, Envs)
      /\ tally.hands = SumFunctionOnSet(both, Envs)
  BY DEF HandsIn, SumFunction, Histories, HandsAreCounted
<1> HIDE DEF first, second, both, lead
<1>7. SumFunctionOnSet(both, Envs)
          = SumFunctionOnSet(first, Envs) + SumFunctionOnSet(second, Envs)
  BY <1>3, EnvsAreFinite, SumsAddUp
<1>8. SumFunctionOnSet(first, Envs)
          = SumFunctionOnSet(second, Envs) + SumFunctionOnSet(lead, Envs)
  BY <1>3, <1>4, EnvsAreFinite, SumsAddUp
<1>9. /\ SumFunctionOnSet(first, Envs) \in Int
      /\ SumFunctionOnSet(second, Envs) \in Int
  BY <1>3, EnvsAreFinite, SumSplits
<1>10. SumFunctionOnSet(lead, Envs) \in -(NumEnvs \div 2) .. (NumEnvs + 1) \div 2
  BY <1>5, LeadsCancel
<1>11. QED
  BY <1>6, <1>7, <1>8, <1>9, <1>10, MatchAssumption DEF SeatsBalanced

(* Up to half the environments, position bias cancels.                     *)
THEOREM SeatsStayBalanced == Spec => []SeatsBalanced
<1>1. IInv /\ Histories => SeatsBalanced
  BY BalanceFollows
<1>2. QED
  BY <1>1, Invariance, HistoriesHold, PTL
===============================================================================
