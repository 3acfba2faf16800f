-------------------------- MODULE BestResponse_proofs --------------------------
(***************************************************************************)
(* Proofs about BestResponse for any number of environments, hands, seeds  *)
(* and steps, any rewards and value estimates.                             *)
(***************************************************************************)
EXTENDS BestResponse, SharedLemmas

(* The averages are fractions, and comparing them is comparing numbers.    *)
LEMMA ScoreTyped == ASSUME NEW t \in Tallies PROVE ScoreOf(t) \in Scores
<1>1. t.hands \in Nat /\ t.total \in Int
  BY DEF Tallies
<1>2. CASE t.hands = 0
  BY <1>2 DEF ScoreOf, Scores
<1>3. CASE t.hands # 0
  BY <1>1, <1>3 DEF ScoreOf, Scores
<1>4. QED
  BY <1>2, <1>3

LEMMA ProductsKeepOrder ==
    ASSUME NEW a \in Int, NEW b \in Int, NEW k \in Nat \ {0}
    PROVE  /\ a <= b => a * k <= b * k
           /\ a > b => a * k > b * k
<1> DEFINE d == b - a
<1>1. d \in Int /\ b = a + d
  OBVIOUS
<1> HIDE DEF d
<1>2. b * k = a * k + d * k
  BY <1>1
<1>3. d >= 0 => d * k >= 0
  BY <1>1
<1>4. d < 0 => d * k < 0
  BY <1>1
<1>5. d * k \in Int /\ a * k \in Int /\ b * k \in Int
  BY <1>1
<1>6. a <= b => d >= 0
  BY <1>1
<1>7. a > b => d < 0
  BY <1>1
<1>8. QED
  BY <1>2, <1>3, <1>4, <1>5, <1>6, <1>7

LEMMA NothingBeatsItself == ASSUME NEW x \in Scores PROVE ~Higher(x, x)
  BY DEF Higher, Scores

LEMMA HigherStays ==
    ASSUME NEW x \in Scores, NEW y \in Scores, NEW z \in Scores,
           ~Higher(x, y), Higher(z, y)
    PROVE  ~Higher(x, z)
<1> DEFINE xn == x.num
           xd == x.den
           yn == y.num
           yd == y.den
           zn == z.num
           zd == z.den
<1>1. /\ xn \in Int /\ yn \in Int /\ zn \in Int
      /\ xd \in Nat \ {0} /\ yd \in Nat \ {0} /\ zd \in Nat \ {0}
  BY DEF Scores
<1>2. ~(xn * yd > yn * xd) /\ zn * yd > yn * zd
  BY DEF Higher
<1>3. Higher(x, z) => xn * zd > zn * xd
  BY DEF Higher
<1> HIDE DEF xn, xd, yn, yd, zn, zd
<1> SUFFICES ASSUME xn * zd > zn * xd PROVE FALSE
  BY <1>3
<1>4. xn * yd <= yn * xd
  <2>1. xn * yd \in Int /\ yn * xd \in Int
    BY <1>1
  <2>2. QED
    BY <1>2, <2>1
<1>5. /\ xn * yd \in Int /\ yn * xd \in Int /\ zn * yd \in Int /\ yn * zd \in Int
      /\ xn * zd \in Int /\ zn * xd \in Int
  BY <1>1
<1>6. (xn * yd) * zd <= (yn * xd) * zd
  BY <1>1, <1>4, <1>5, ProductsKeepOrder
<1>7. (zn * yd) * xd > (yn * zd) * xd
  BY <1>1, <1>2, <1>5, ProductsKeepOrder
<1>8. (xn * zd) * yd > (zn * xd) * yd
  BY <1>1, <1>5, ProductsKeepOrder
<1>9. /\ (xn * yd) * zd = (xn * zd) * yd
      /\ (yn * xd) * zd = (yn * zd) * xd
      /\ (zn * yd) * xd = (zn * xd) * yd
  BY <1>1
<1>10. /\ (xn * zd) * yd \in Int /\ (yn * zd) * xd \in Int /\ (zn * xd) * yd \in Int
  BY <1>1
<1> DEFINE A == (xn * zd) * yd
           B == (yn * zd) * xd
           C == (zn * xd) * yd
<1>11. A \in Int /\ B \in Int /\ C \in Int /\ A <= B /\ C > B /\ A > C
  BY <1>6, <1>7, <1>8, <1>9, <1>10
<1> HIDE DEF A, B, C
<1>12. QED
  BY <1>11

(* The seeds of an evaluation, and the tables before the first hand.       *)
LEMMA NumSeedsFacts == ASSUME cfg \in Configs PROVE NumSeeds \in Nat \ {0}
<1>1. cfg.seeds \in Nat
  BY BestResponseAssumption
<1> DEFINE S == {1, cfg.seeds}
           n == cfg.seeds + 1
<1>2. S \in SUBSET Nat /\ S # {} /\ n \in Nat /\ \A y \in S : y =< n
  BY <1>1
<1>3. 1 \in S /\ NumSeeds = Max(S)
  BY DEF NumSeeds
<1> HIDE DEF S, n
<1>4. Max(S) \in S /\ \A y \in S : y =< Max(S)
  BY <1>2, MaxIsMember
<1>5. Max(S) \in Nat /\ 1 =< Max(S)
  BY <1>2, <1>3, <1>4
<1>6. QED
  BY <1>3, <1>5

LEMMA HandsAreHands ==
    /\ NewHands \subseteq Hands
    /\ \A h \in Hands : Successors(h) \subseteq Hands
    /\ \A h \in Hands : View(h) \in Views
  BY DEF NewHands, Hands, Successors, View, Views, Seats

LEMMA TablesTyped ==
    /\ NoTable \in [Envs -> NewHands] /\ NoPlan \in [Envs -> Plans]
    /\ FirstSeats \in [Envs -> Seats] /\ NoTally \in Tallies /\ 0 \in Envs
    /\ NobodyActed \in [Envs -> [Seats -> SUBSET {"a", "b"}]]
<1>1. PICK m \in Masks, o \in Holes : TRUE
  BY MatchAssumption
<1>2. [player |-> 1, mask |-> m, hole |-> o, taken |-> 0] \in NewHands
  BY <1>1 DEF NewHands
<1>3. NoTable \in [Envs -> NewHands]
  BY <1>2 DEF NoTable
<1>4. m # {}
  BY <1>1, MatchAssumption
<1>5. PICK s \in m : TRUE
  BY <1>4
<1>6. [action |-> s, by |-> "a"] \in Plans
  BY <1>1, <1>5 DEF Plans, Slots
<1>7. NoPlan \in [Envs -> Plans]
  BY <1>6 DEF NoPlan
<1>8. FirstSeats \in [Envs -> Seats]
  BY MatchAssumption DEF FirstSeats, FirstSeat, Envs, Seats
<1>9. NoTally \in Tallies
  BY DEF NoTally, Tallies
<1>10. 0 \in Envs
  BY MatchAssumption DEF Envs
<1>11. NobodyActed \in [Envs -> [Seats -> SUBSET {"a", "b"}]]
  BY DEF NobodyActed
<1>12. QED
  BY <1>3, <1>7, <1>8, <1>9, <1>10, <1>11

LEMMA CreditTyped ==
    ASSUME NEW t \in Tallies, NEW r \in Rewards, NEW s
    PROVE  /\ Credit(t, Mine(r, s)) \in Tallies
           /\ Credit(t, Mine(r, s)).hands = t.hands + 1
<1> DEFINE mine == Mine(r, s)
<1>1. mine \in Int
  BY MatchAssumption DEF Mine
<1> HIDE DEF mine
<1>2. /\ t.hands \in Nat /\ t.wins \in Nat /\ t.losses \in Nat
      /\ t.ties \in Nat /\ t.total \in Int
  BY DEF Tallies
<1>3. QED
  BY <1>1, <1>2 DEF Credit, Tallies, mine

-----------------------------------------------------------------------------
(* What a step does to the columns that begins a rollout or leaves it.     *)
LEMMA FreshFits ==
    /\ \A i \in Envs : Running(Steps, Columns!Fresh(0), Nothing[i], <<>>)
    /\ Columns!Fresh(0) \in ColumnsAt(Steps) /\ <<>> \in Seq(Int)
    /\ Nothing \in [Envs -> [Seats -> Seq(DecisionAt(Steps))]]
<1>1. Running(Steps, Columns!Fresh(0), [p \in {0, 1} |-> <<>>], <<>>)
  BY FreshRuns
<1>2. \A i \in Envs : Nothing[i] = [p \in {0, 1} |-> <<>>]
  BY DEF Nothing, Seats
<1>3. Nothing = [i \in Envs |-> [p \in {0, 1} |-> <<>>]]
  BY DEF Nothing, Seats
<1>4. [p \in {0, 1} |-> <<>>] \in [Seats -> Seq(DecisionAt(Steps))]
  BY <1>1 DEF Running, DecisionHistories, Seats
<1>5. QED
  BY <1>1, <1>2, <1>3, <1>4 DEF Running, DecisionHistories

LEMMA ColumnsCleared ==
    ASSUME ClearRollout, phase' # "learn"
    PROVE  /\ rollout' \in [Envs -> ColumnsAt(Steps)] /\ step' \in 0 .. NumSteps
           /\ own' \in [Envs -> [Seats -> Seq(DecisionAt(Steps))]]
           /\ paid' \in [Envs -> Seq(Int)] /\ ColumnsFit'
<1>1. /\ rollout' = [i \in Envs |-> Columns!Fresh(0)] /\ own' = Nothing
      /\ paid' = [i \in Envs |-> <<>>] /\ step' = 0
  BY DEF ClearRollout
<1>2. 0 \in 0 .. NumSteps
  BY BestResponseAssumption
<1>3. ASSUME NEW i \in Envs PROVE Running(Steps, rollout'[i], own'[i], paid'[i])
  BY <1>1, FreshFits
<1>4. ColumnsFit'
  BY <1>3 DEF ColumnsFit, Steps
<1>5. QED
  BY <1>1, <1>2, <1>4, FreshFits

LEMMA ColumnsStay ==
    ASSUME ColumnsFit, UNCHANGED <<rollout, own, paid>>,
           phase' \notin {"rollout", "learn"}
    PROVE  ColumnsFit'
  BY DEF ColumnsFit

(* Nobody has acted at a table where a hand begins.                        *)
LEMMA OnePolicyAtFirst ==
    ASSUME who' = NobodyActed, seat' \in [Envs -> Seats] PROVE OnePolicyPerSeat'
  BY DEF OnePolicyPerSeat, NobodyActed, Seats

LEMMA InitIInv == Init => IInv
<1> SUFFICES ASSUME Init PROVE IInv
  OBVIOUS
<1>1. /\ phase = "idle" /\ env = NoTable /\ seen = [i \in Envs |-> View(env[i])]
      /\ seat = FirstSeats /\ plan = NoPlan /\ cursor = 0
      /\ tally = NoTally /\ who = NobodyActed
      /\ cfg \in Configs /\ calls = 0 /\ scores = <<>> /\ best = <<>>
      /\ warmStarted = FALSE /\ exploiter = {} /\ update = 0 /\ step = 0
      /\ rollout = [i \in Envs |-> Columns!Fresh(0)] /\ own = Nothing
      /\ paid = [i \in Envs |-> <<>>]
  BY DEF Init, MatchInit
<1>2. <<>> \in Seq(Int) /\ Len(<<>>) = 0 /\ <<>> \in Seq(Scores)
  OBVIOUS
<1>3. 0 \in 0 .. NumSteps
  BY BestResponseAssumption
<1>4. env \in [Envs -> Hands]
  BY <1>1, TablesTyped, HandsAreHands
<1>5. seen \in [Envs -> Views]
  BY <1>1, <1>4, HandsAreHands
<1>6. rollout \in [Envs -> ColumnsAt(Steps)] /\ paid \in [Envs -> Seq(Int)]
  BY <1>1, <1>2, FreshFits
<1>7. TypeOK
  BY <1>1, <1>3, <1>4, <1>5, <1>6, TablesTyped, FreshFits DEF TypeOK, Phases
<1>8. ColumnsFit
  BY <1>1 DEF ColumnsFit
<1>9. MatchFits /\ OnePolicyPerSeat
  BY <1>1, TablesTyped DEF MatchFits, OnePolicyPerSeat, NobodyActed, Seats
<1>10. SeedsFit
  BY <1>1, <1>2, NumSeedsFacts DEF SeedsFit, Seed
<1>11. BestFits
  BY <1>1, <1>2 DEF BestFits
<1>12. QED
  BY <1>7, <1>8, <1>9, <1>10, <1>11 DEF IInv

LEMMA StartSeedStep == ASSUME IInv, StartSeed PROVE IInv'
<1>1. /\ phase = "idle" /\ Seed < NumSeeds
      /\ exploiter' = IF Reinit THEN {} ELSE exploiter
      /\ warmStarted' = TRUE
      /\ env' \in [Envs -> NewHands] /\ seen' = [i \in Envs |-> View(env'[i])]
      /\ seat' = FirstSeats /\ tally' = NoTally /\ who' = NobodyActed
      /\ update' = 0 /\ ClearRollout /\ phase' = "rollout"
      /\ UNCHANGED <<plan, cursor, cfg, calls, scores, best>>
  BY DEF StartSeed
<1>2. env' \in [Envs -> Hands]
  BY <1>1, HandsAreHands
<1>3. seen' \in [Envs -> Views]
  BY <1>1, <1>2, HandsAreHands
<1>4. TypeOK'
  BY <1>1, <1>2, <1>3, TablesTyped, ColumnsCleared DEF IInv, TypeOK, Phases
<1>5. MatchFits' /\ OnePolicyPerSeat' /\ ColumnsFit'
  BY <1>1, TablesTyped, OnePolicyAtFirst, ColumnsCleared DEF MatchFits
<1>6. SeedsFit'
  <2>1. CASE Reinit
    BY <1>1, <2>1 DEF IInv, SeedsFit, Seed, NumSeeds, MultiSeed
  <2>2. CASE ~Reinit
    BY <1>1, <2>2 DEF IInv, SeedsFit, Seed, NumSeeds, MultiSeed, Reinit
  <2>3. QED
    BY <2>1, <2>2
<1>7. BestFits'
  BY <1>1 DEF IInv, BestFits
<1>8. QED
  BY <1>4, <1>5, <1>6, <1>7 DEF IInv
-----------------------------------------------------------------------------
(* A decision is taken by the policy of its seat.                          *)
LEMMA OnePolicyGoesOn ==
    ASSUME IInv, NEW i \in Envs, seat' = seat,
           who' = [who EXCEPT ![i][env[i].player] = @ \cup {Acting(i)}]
    PROVE  /\ who' \in [Envs -> [Seats -> SUBSET {"a", "b"}]]
           /\ OnePolicyPerSeat'
<1>1. /\ who \in [Envs -> [Seats -> SUBSET {"a", "b"}]]
      /\ env[i].player \in Seats /\ seat \in [Envs -> Seats]
  BY DEF IInv, TypeOK, Hands
<1>2. Acting(i) = IF env[i].player = seat[i] THEN "a" ELSE "b"
  BY DEF Acting, IsMine
<1>3. who' \in [Envs -> [Seats -> SUBSET {"a", "b"}]]
  BY <1>1, <1>2
<1>4. ASSUME NEW j \in Envs
      PROVE  /\ who'[j][seat[j]] \subseteq {"a"}
             /\ who'[j][1 - seat[j]] \subseteq {"b"}
  <2>1. /\ who[j][seat[j]] \subseteq {"a"} /\ who[j][1 - seat[j]] \subseteq {"b"}
        /\ seat[j] \in {0, 1} /\ DOMAIN who[j] = {0, 1} /\ j \in DOMAIN who
    BY <1>1 DEF IInv, OnePolicyPerSeat, Seats
  <2>2. CASE j # i
    BY <2>1, <2>2
  <2>3. CASE j = i
    <3>1. who'[i] = [who[i] EXCEPT ![env[i].player] = @ \cup {Acting(i)}]
      BY <2>1, <2>3
    <3>2. QED
      BY <1>1, <1>2, <2>1, <2>3, <3>1 DEF Seats
  <2>4. QED
    BY <2>2, <2>3
<1>5. QED
  BY <1>3, <1>4 DEF OnePolicyPerSeat

(* A hand is over: its seats change, and nobody has acted in the new one.  *)
LEMMA OnePolicyChanges ==
    ASSUME IInv, NEW i \in Envs, seat' = [seat EXCEPT ![i] = NextSeat(@)],
           who' = [who EXCEPT ![i] = NobodyActed[i]]
    PROVE  /\ who' \in [Envs -> [Seats -> SUBSET {"a", "b"}]]
           /\ seat' \in [Envs -> Seats] /\ OnePolicyPerSeat'
<1>1. who \in [Envs -> [Seats -> SUBSET {"a", "b"}]] /\ seat \in [Envs -> Seats]
  BY DEF IInv, TypeOK
<1>2. NobodyActed[i] = [s \in Seats |-> {}]
  BY DEF NobodyActed
<1>3. NextSeat(seat[i]) \in Seats
  BY <1>1 DEF NextSeat, Seats
<1>4. seat' \in [Envs -> Seats]
  BY <1>1, <1>3
<1>5. who' \in [Envs -> [Seats -> SUBSET {"a", "b"}]]
  BY <1>1, <1>2
<1>6. ASSUME NEW j \in Envs
      PROVE  /\ who'[j][seat'[j]] \subseteq {"a"}
             /\ who'[j][1 - seat'[j]] \subseteq {"b"}
  <2>1. CASE j # i
    <3>1. who'[j] = who[j] /\ seat'[j] = seat[j]
      BY <1>1, <2>1
    <3>2. QED
      BY <3>1 DEF IInv, OnePolicyPerSeat
  <2>2. CASE j = i
    <3>1. who'[j] = [s \in Seats |-> {}]
      BY <1>1, <1>2, <2>2
    <3>2. seat'[j] \in Seats /\ 1 - seat'[j] \in Seats
      BY <1>4 DEF Seats
    <3>3. QED
      BY <3>1, <3>2
  <2>3. QED
    BY <2>1, <2>2
<1>7. QED
  BY <1>4, <1>5, <1>6 DEF OnePolicyPerSeat

(* record_step, if the decision is the exploiter's.                        *)
LEMMA RecordedFits ==
    ASSUME IInv, NEW i \in Envs, phase = "rollout", step < NumSteps
    PROVE  Running(Steps, Recorded(i), Decided(i), paid[i])
<1> DEFINE r == rollout[i]
           o == own[i]
           s == seat[i]
<1>1. s \in {0, 1} /\ step \in Steps
  BY BestResponseAssumption DEF IInv, TypeOK, Steps, Seats
<1>2. Running(Steps, r, o, paid[i])
  BY DEF IInv, ColumnsFit
<1>3. CASE env[i].player # s
  BY <1>2, <1>3 DEF Recorded, Decided, IsMine
<1>4. CASE env[i].player = s
  <2> DEFINE v == Critic[step]
  <2>1. v \in Int
    BY <1>1, BestResponseAssumption DEF Steps
  <2>2. /\ Recorded(i) = Columns!RecordStep(r, s, step, v)
        /\ Decided(i) = [o EXCEPT ![s] = Append(@, [step |-> step, hand |-> Len(paid[i])])]
    BY <1>4 DEF Recorded, Decided, IsMine
  <2> HIDE DEF r, o, s, v
  <2>3. Running(Steps, Columns!RecordStep(r, s, step, v),
                [o EXCEPT ![s] = Append(@, [step |-> step, hand |-> Len(paid[i])])],
                paid[i])
    BY <1>1, <1>2, <2>1, RecordRuns
  <2>4. QED
    BY <2>2, <2>3
<1>5. QED
  BY <1>3, <1>4
-----------------------------------------------------------------------------
(* The frame of a step of a rollout.                                       *)
LEMMA TrainFrame ==
    ASSUME IInv, NEW i \in Envs, TrainStep(i)
    PROVE  /\ phase = "rollout" /\ phase' = "rollout" /\ step < NumSteps
           /\ own' = [own EXCEPT ![i] = Decided(i)]
           /\ cursor' \in Envs /\ step' \in 0 .. NumSteps
           /\ UNCHANGED <<plan, update, evalVars>>
           /\ MatchFits' /\ SeedsFit' /\ BestFits'
<1>1. /\ phase = "rollout" /\ step < NumSteps /\ cursor = i
      /\ own' = [own EXCEPT ![i] = Decided(i)] /\ NextEnv(i)
      /\ UNCHANGED <<phase, plan, update, evalVars>>
  BY DEF TrainStep
<1>2. cursor' \in Envs /\ step' \in 0 .. NumSteps
  <2>1. i \in Nat /\ NumEnvs \in Nat \ {0} /\ NumSteps \in Nat /\ step \in 0 .. NumSteps
    BY MatchAssumption, BestResponseAssumption DEF Envs, IInv, TypeOK
  <2>2. CASE i + 1 < NumEnvs
    BY <1>1, <2>1, <2>2 DEF NextEnv, Envs
  <2>3. CASE ~(i + 1 < NumEnvs)
    BY <1>1, <2>1, <2>3 DEF NextEnv, Envs
  <2>4. QED
    BY <2>2, <2>3
<1>3. MatchFits'
  BY <1>1 DEF MatchFits
<1>4. SeedsFit' /\ BestFits'
  BY <1>1 DEF IInv, SeedsFit, BestFits, Seed, NumSeeds, MultiSeed, evalVars
<1>5. QED
  BY <1>1, <1>2, <1>3, <1>4

(* Where one environment's column fits, the others' still do.              *)
LEMMA OneColumn ==
    ASSUME IInv, NEW i \in Envs, phase = "rollout", phase' = "rollout",
           NEW r, NEW o, NEW w, Running(Steps, r, o, w),
           rollout' = [rollout EXCEPT ![i] = r], own' = [own EXCEPT ![i] = o],
           paid' = [paid EXCEPT ![i] = w]
    PROVE  /\ rollout' \in [Envs -> ColumnsAt(Steps)]
           /\ own' \in [Envs -> [Seats -> Seq(DecisionAt(Steps))]]
           /\ paid' \in [Envs -> Seq(Int)] /\ ColumnsFit'
<1>1. /\ rollout \in [Envs -> ColumnsAt(Steps)]
      /\ own \in [Envs -> [Seats -> Seq(DecisionAt(Steps))]] /\ paid \in [Envs -> Seq(Int)]
  BY DEF IInv, TypeOK
<1>2. /\ r \in ColumnsAt(Steps) /\ o \in [Seats -> Seq(DecisionAt(Steps))]
      /\ w \in Seq(Int)
  BY DEF Running, DecisionHistories, Seats
<1>3. /\ rollout' \in [Envs -> ColumnsAt(Steps)]
      /\ own' \in [Envs -> [Seats -> Seq(DecisionAt(Steps))]]
      /\ paid' \in [Envs -> Seq(Int)]
  BY <1>1, <1>2
<1>4. ASSUME NEW j \in Envs PROVE Running(Steps, rollout'[j], own'[j], paid'[j])
  <2>1. CASE j = i
    <3>1. rollout'[j] = r /\ own'[j] = o /\ paid'[j] = w
      BY <1>1, <2>1
    <3>2. QED
      BY <3>1
  <2>2. CASE j # i
    <3>1. rollout'[j] = rollout[j] /\ own'[j] = own[j] /\ paid'[j] = paid[j]
      BY <1>1, <2>2
    <3>2. Running(Steps, rollout[j], own[j], paid[j])
      BY DEF IInv, ColumnsFit
    <3>3. QED
      BY <3>1, <3>2
  <2>3. QED
    BY <2>1, <2>2
<1>5. ColumnsFit'
  BY <1>4 DEF ColumnsFit, Steps
<1>6. QED
  BY <1>3, <1>5

LEMMA TrainHandGoesOnStep ==
    ASSUME IInv, NEW i \in Envs, TrainHandGoesOn(i) PROVE IInv'
<1>1. /\ TrainStep(i)
      /\ rollout' = [rollout EXCEPT ![i] = Columns!StepReward(Recorded(i), 0)]
      /\ who' = [who EXCEPT ![i][env[i].player] = @ \cup {Acting(i)}]
      /\ UNCHANGED <<seat, tally, paid>>
  BY DEF TrainHandGoesOn
<1>2. PICK h \in Successors(env[i]) : /\ env' = [env EXCEPT ![i] = h]
                                     /\ seen' = [seen EXCEPT ![i] = View(h)]
  BY DEF TrainHandGoesOn
<1>3. /\ phase = "rollout" /\ phase' = "rollout" /\ step < NumSteps
      /\ own' = [own EXCEPT ![i] = Decided(i)]
      /\ cursor' \in Envs /\ step' \in 0 .. NumSteps
      /\ UNCHANGED <<plan, update, evalVars>>
      /\ MatchFits' /\ SeedsFit' /\ BestFits'
  BY <1>1, TrainFrame
<1>4. env[i] \in Hands
  BY DEF IInv, TypeOK
<1>5. h \in Hands /\ View(h) \in Views
  BY <1>2, <1>4, HandsAreHands
<1>6. env' \in [Envs -> Hands] /\ seen' \in [Envs -> Views]
  BY <1>2, <1>5 DEF IInv, TypeOK
<1>7. who' \in [Envs -> [Seats -> SUBSET {"a", "b"}]] /\ OnePolicyPerSeat'
  BY <1>1, OnePolicyGoesOn
<1>10. /\ rollout' \in [Envs -> ColumnsAt(Steps)]
       /\ own' \in [Envs -> [Seats -> Seq(DecisionAt(Steps))]]
       /\ paid' \in [Envs -> Seq(Int)] /\ ColumnsFit'
  <2> DEFINE t == Columns!StepReward(Recorded(i), 0)
             o == Decided(i)
  <2>1. Running(Steps, Recorded(i), o, paid[i])
    BY <1>3, RecordedFits
  <2>2. Running(Steps, t, o, paid[i])
    BY <2>1, NoRewardRuns
  <2>3. /\ rollout' = [rollout EXCEPT ![i] = t] /\ own' = [own EXCEPT ![i] = o]
        /\ paid' = [paid EXCEPT ![i] = paid[i]]
    BY <1>1, <1>3 DEF IInv, TypeOK
  <2> HIDE DEF t, o
  <2>4. QED
    BY <1>3, <2>2, <2>3, OneColumn
<1>11. TypeOK'
  BY <1>1, <1>3, <1>6, <1>7, <1>10 DEF IInv, TypeOK, evalVars
<1>12. QED
  BY <1>3, <1>7, <1>10, <1>11 DEF IInv

LEMMA TrainHandEndsStep ==
    ASSUME IInv, NEW i \in Envs, TrainHandEnds(i) PROVE IInv'
<1>1. /\ TrainStep(i) /\ seat' = [seat EXCEPT ![i] = NextSeat(@)]
      /\ who' = [who EXCEPT ![i] = NobodyActed[i]]
  BY DEF TrainHandEnds
<1>2. PICK h \in NewHands : /\ env' = [env EXCEPT ![i] = h]
                            /\ seen' = [seen EXCEPT ![i] = ViewOfNewHand(@, h)]
  BY DEF TrainHandEnds
<1>3. /\ phase = "rollout" /\ phase' = "rollout" /\ step < NumSteps
      /\ own' = [own EXCEPT ![i] = Decided(i)]
      /\ cursor' \in Envs /\ step' \in 0 .. NumSteps
      /\ UNCHANGED <<plan, update, evalVars>>
      /\ MatchFits' /\ SeedsFit' /\ BestFits'
  BY <1>1, TrainFrame
<1>5. h \in Hands /\ View(h) \in Views
  BY <1>2, HandsAreHands
<1>6. env' \in [Envs -> Hands] /\ seen' \in [Envs -> Views]
  BY <1>2, <1>5 DEF IInv, TypeOK, ViewOfNewHand
<1>7. /\ who' \in [Envs -> [Seats -> SUBSET {"a", "b"}]]
      /\ seat' \in [Envs -> Seats] /\ OnePolicyPerSeat'
  BY <1>1, OnePolicyChanges
<1>a. PICK x \in Rewards :
         /\ rollout' = [rollout EXCEPT
               ![i] = Columns!FlushOnTerminal(Columns!StepReward(Recorded(i), x))]
         /\ tally' = IF cfg.match THEN tally ELSE Credit(tally, Mine(x, seat[i]))
         /\ paid' = [paid EXCEPT ![i] = Append(@, x)]
  BY DEF TrainHandEnds
<1>b. x \in Int
  BY MatchAssumption
<1>c. tally' \in Tallies
  <2>1. tally \in Tallies
    BY DEF IInv, TypeOK
  <2>2. Credit(tally, Mine(x, seat[i])) \in Tallies
    BY <2>1, CreditTyped
  <2>3. QED
    BY <1>a, <2>1, <2>2
<1>13. /\ rollout' \in [Envs -> ColumnsAt(Steps)]
       /\ own' \in [Envs -> [Seats -> Seq(DecisionAt(Steps))]]
       /\ paid' \in [Envs -> Seq(Int)] /\ ColumnsFit'
  <2> DEFINE t == Columns!FlushOnTerminal(Columns!StepReward(Recorded(i), x))
             o == Decided(i)
             w == Append(paid[i], x)
  <2>1. Running(Steps, Recorded(i), o, paid[i])
    BY <1>3, RecordedFits
  <2>2. Running(Steps, t, o, w)
    BY <1>b, <2>1, ResultRuns
  <2>3. /\ rollout' = [rollout EXCEPT ![i] = t] /\ own' = [own EXCEPT ![i] = o]
        /\ paid' = [paid EXCEPT ![i] = w]
    BY <1>3, <1>a
  <2> HIDE DEF t, o, w
  <2>4. QED
    BY <1>3, <2>2, <2>3, OneColumn
<1>14. TypeOK'
  BY <1>3, <1>6, <1>7, <1>13, <1>c DEF IInv, TypeOK, evalVars
<1>15. QED
  BY <1>3, <1>7, <1>13, <1>14 DEF IInv

LEMMA FinishRolloutStep == ASSUME IInv, FinishRollout PROVE IInv'
<1>1. /\ phase = "rollout" /\ phase' = "learn"
      /\ rollout' = [i \in Envs |-> Columns!FlushOnRolloutEnd(rollout[i])]
      /\ UNCHANGED <<env, seen, seat, plan, cursor, tally, who, update, step,
                     own, paid, evalVars>>
  BY DEF FinishRollout
<1>2. ASSUME NEW i \in Envs PROVE Cut(Steps, rollout'[i], own'[i], paid'[i])
  <2>1. Running(Steps, rollout[i], own[i], paid[i])
    BY <1>1 DEF IInv, ColumnsFit
  <2>2. Cut(Steps, Columns!FlushOnRolloutEnd(rollout[i]), own[i], paid[i])
    BY <2>1, EndCuts
  <2>3. QED
    BY <1>1, <2>2
<1>3. rollout' \in [Envs -> ColumnsAt(Steps)]
  BY <1>1, <1>2 DEF Cut
<1>4. ColumnsFit'
  BY <1>1, <1>2 DEF ColumnsFit, Steps
<1>5. TypeOK'
  BY <1>1, <1>3 DEF IInv, TypeOK, Phases, evalVars
<1>6. MatchFits' /\ OnePolicyPerSeat' /\ SeedsFit' /\ BestFits'
  BY <1>1 DEF IInv, MatchFits, OnePolicyPerSeat, SeedsFit, BestFits, Seed,
              NumSeeds, MultiSeed, evalVars
<1>7. QED
  BY <1>4, <1>5, <1>6 DEF IInv

LEMMA LearnStep == ASSUME IInv, Learn PROVE IInv'
<1>1. /\ phase = "learn" /\ phase' \in {"rollout", "trained"}
      /\ exploiter' \in {exploiter, exploiter \cup {<<calls, Seed>>}}
      /\ seat' = seat /\ ClearRollout /\ update' \in {0, update + 1}
      /\ UNCHANGED <<env, seen, plan, cursor, tally, who, cfg, calls, scores,
                     best, warmStarted>>
  BY DEF Learn, SeatsCarried
<1>2. update' \in Nat
  BY <1>1 DEF IInv, TypeOK
<1>3. TypeOK'
  BY <1>1, <1>2, ColumnsCleared DEF IInv, TypeOK, Phases
<1>4. MatchFits' /\ OnePolicyPerSeat' /\ ColumnsFit' /\ BestFits'
  BY <1>1, ColumnsCleared DEF IInv, MatchFits, OnePolicyPerSeat, BestFits
<1>5. SeedsFit'
  <2>1. /\ Seed' = Seed /\ NumSeeds' = NumSeeds /\ MultiSeed' = MultiSeed
        /\ cfg' = cfg /\ calls' = calls /\ warmStarted' = warmStarted
        /\ Seed < NumSeeds /\ warmStarted /\ Seed <= NumSeeds
    BY <1>1 DEF Seed, NumSeeds, MultiSeed, IInv, SeedsFit
  <2>2. ~(MultiSeed \/ ~cfg.warm) => exploiter' \subseteq (0 .. calls) \X {0}
    <3> SUFFICES ASSUME ~(MultiSeed \/ ~cfg.warm)
                 PROVE  exploiter' \subseteq (0 .. calls) \X {0}
      OBVIOUS
    <3>1. exploiter \subseteq (0 .. calls) \X {0}
      BY DEF IInv, SeedsFit
    <3>2. Seed = 0
      <4>1. NumSeeds \in Nat \ {0} /\ ~(NumSeeds > 1)
        BY NumSeedsFacts DEF IInv, TypeOK, MultiSeed
      <4>2. Seed \in Nat
        BY DEF IInv, BestFits, Seed
      <4> DEFINE s == Seed
                 n == NumSeeds
      <4>3. s \in Nat /\ n \in Nat /\ ~(n > 1) /\ s < n
        BY <2>1, <4>1, <4>2
      <4> HIDE DEF s, n
      <4>4. s = 0
        BY <4>3
      <4>5. QED
        BY <4>4 DEF s
    <3>3. <<calls, Seed>> \in (0 .. calls) \X {0}
      BY <3>2 DEF IInv, TypeOK
    <3>4. QED
      BY <1>1, <3>1, <3>3
  <2>3. (MultiSeed \/ ~cfg.warm) => exploiter' \subseteq {<<calls, Seed>>}
    BY <1>1 DEF IInv, SeedsFit
  <2>4. QED
    BY <2>1, <2>2, <2>3 DEF SeedsFit
<1>6. QED
  BY <1>3, <1>4, <1>5 DEF IInv

(* What a step of a match leaves alone.                                    *)
LEMMA MatchFrame ==
    ASSUME IInv, UNCHANGED <<trainVars, evalVars>>, phase # "idle",
           phase' \in {"select", "step"}
    PROVE  ColumnsFit' /\ SeedsFit' /\ BestFits'
<1>1. ColumnsFit'
  BY ColumnsStay DEF IInv, trainVars
<1>2. SeedsFit' /\ BestFits'
  BY DEF IInv, SeedsFit, BestFits, Seed, NumSeeds, MultiSeed, evalVars
<1>3. QED
  BY <1>1, <1>2

LEMMA StartMatchStep == ASSUME IInv, StartMatch PROVE IInv'
<1>1. /\ phase = "trained" /\ phase' = "select"
      /\ env' \in [Envs -> NewHands] /\ seen' = [i \in Envs |-> View(env'[i])]
      /\ seat' = FirstSeats /\ plan' = NoPlan /\ cursor' = 0
      /\ tally' = NoTally /\ who' = NobodyActed
      /\ UNCHANGED <<trainVars, evalVars>>
  BY DEF StartMatch, Deal
<1>2. env' \in [Envs -> Hands]
  BY <1>1, HandsAreHands
<1>3. seen' \in [Envs -> Views]
  BY <1>1, <1>2, HandsAreHands
<1>4. TypeOK'
  BY <1>1, <1>2, <1>3, TablesTyped DEF IInv, TypeOK, Phases, trainVars, evalVars
<1>5. MatchFits' /\ OnePolicyPerSeat'
  <2>1. tally'.hands = 0 /\ Target \in Nat
    BY <1>1, MatchAssumption DEF NoTally
  <2>2. QED
    BY <1>1, <2>1, TablesTyped, OnePolicyAtFirst DEF MatchFits
<1>6. QED
  BY <1>1, <1>4, <1>5, MatchFrame DEF IInv

LEMMA StartSweepStep == ASSUME IInv, StartSweep PROVE IInv'
<1>1. /\ phase = "select" /\ tally.hands < Target
      /\ plan' \in [Envs -> Plans]
      /\ \A i \in Envs : plan'[i].by = Acting(i)
      /\ phase' = "step"
      /\ UNCHANGED <<env, seen, seat, cursor, tally, who>>
      /\ UNCHANGED <<trainVars, evalVars>>
  BY DEF StartSweep, Select
<1>2. TypeOK'
  BY <1>1 DEF IInv, TypeOK, Phases, trainVars, evalVars
<1>3. MatchFits' /\ OnePolicyPerSeat'
  BY <1>1 DEF IInv, MatchFits, OnePolicyPerSeat, Acting
<1>4. QED
  BY <1>1, <1>2, <1>3, MatchFrame DEF IInv

(* The loop variables of a match after an environment was stepped.         *)
LEMMA AdvanceFits ==
    ASSUME IInv, NEW i \in Envs, Stepping(i), Advance(i), tally' \in Tallies,
           tally'.hands <= Target,
           \A j \in Envs \ {i} : env'[j] = env[j] /\ seat'[j] = seat[j]
    PROVE  /\ MatchFits' /\ phase' \in {"select", "step"}
           /\ cursor' \in Envs /\ plan' \in [Envs -> Plans]
<1>1. /\ phase = "step" /\ cursor = i /\ plan \in [Envs -> Plans]
      /\ \A j \in Envs : j >= i => plan[j].by = Acting(j)
  BY DEF IInv, TypeOK, MatchFits, Stepping
<1>2. /\ i \in Nat /\ NumEnvs \in Nat /\ tally'.hands \in Nat /\ Target \in Nat
      /\ \A j \in Envs : j \in Nat
  BY MatchAssumption DEF Envs, Tallies
<1>3. CASE i + 1 = NumEnvs \/ tally'.hands >= Target
  BY <1>3, TablesTyped DEF Advance, MatchFits
<1>4. CASE ~(i + 1 = NumEnvs \/ tally'.hands >= Target)
  <2>1. cursor' = i + 1 /\ phase' = "step" /\ plan' = plan
    BY <1>1, <1>4 DEF Advance
  <2>2. i + 1 \in Envs /\ tally'.hands < Target
    BY <1>2, <1>4 DEF Envs
  <2>3. ASSUME NEW j \in Envs, j >= i + 1 PROVE plan[j].by = Acting(j)'
    <3>1. j >= i /\ j # i
      BY <1>2, <2>3
    <3>2. Acting(j)' = Acting(j)
      BY <3>1 DEF Acting
    <3>3. QED
      BY <1>1, <3>1, <3>2
  <2>4. QED
    BY <1>1, <2>1, <2>2, <2>3 DEF MatchFits
<1>5. QED
  BY <1>3, <1>4

LEMMA StepEnvStep == ASSUME IInv, NEW i \in Envs, StepEnv(i) PROVE IInv'
<1>1. UNCHANGED <<trainVars, evalVars>>
  BY DEF StepEnv
<1>2. /\ Stepping(i) /\ Advance(i)
      /\ tally' \in Tallies /\ tally'.hands <= Target
      /\ env' \in [Envs -> Hands] /\ seen' \in [Envs -> Views]
      /\ seat' \in [Envs -> Seats]
      /\ who' \in [Envs -> [Seats -> SUBSET {"a", "b"}]] /\ OnePolicyPerSeat'
      /\ \A j \in Envs \ {i} : env'[j] = env[j] /\ seat'[j] = seat[j]
  <2>1. tally \in Tallies /\ (Stepping(i) => tally.hands < Target)
    BY DEF IInv, TypeOK, MatchFits, Stepping
  <2>2. tally.hands \in Nat /\ Target \in Nat
    BY <2>1, MatchAssumption DEF Tallies
  <2>3. CASE HandGoesOn(i)
    <3>1. Stepping(i) /\ Advance(i) /\ tally' = tally /\ seat' = seat
      BY <2>3 DEF HandGoesOn
    <3>2. PICK h \in Successors(env[i]) : /\ env' = [env EXCEPT ![i] = h]
                                         /\ seen' = [seen EXCEPT ![i] = View(h)]
      BY <2>3 DEF HandGoesOn
    <3>3. h \in Hands /\ View(h) \in Views
      BY <3>2, HandsAreHands DEF IInv, TypeOK
    <3>4. /\ env' \in [Envs -> Hands] /\ seen' \in [Envs -> Views]
          /\ \A j \in Envs \ {i} : env'[j] = env[j]
      BY <3>2, <3>3 DEF IInv, TypeOK
    <3>5. plan[i].by = Acting(i)
      <4>1. i >= i
        BY MatchAssumption DEF Envs
      <4>2. QED
        BY <3>1, <4>1 DEF Stepping, IInv, MatchFits
    <3>6. who' = [who EXCEPT ![i][env[i].player] = @ \cup {Acting(i)}]
      BY <2>3, <3>5 DEF HandGoesOn
    <3>7. who' \in [Envs -> [Seats -> SUBSET {"a", "b"}]] /\ OnePolicyPerSeat'
      BY <3>1, <3>6, OnePolicyGoesOn
    <3>8. seat' \in [Envs -> Seats]
      BY <3>1 DEF IInv, TypeOK
    <3>9. tally'.hands <= Target
      BY <2>1, <2>2, <3>1
    <3>10. QED
      BY <2>1, <3>1, <3>4, <3>7, <3>8, <3>9
  <2>4. CASE HandEnds(i)
    <3>1. /\ Stepping(i) /\ Advance(i)
          /\ seat' = [seat EXCEPT ![i] = NextSeat(@)]
          /\ who' = [who EXCEPT ![i] = NobodyActed[i]]
      BY <2>4 DEF HandEnds
    <3>2. PICK h \in NewHands : /\ env' = [env EXCEPT ![i] = h]
                                /\ seen' = [seen EXCEPT ![i] = ViewOfNewHand(@, h)]
      BY <2>4 DEF HandEnds
    <3>3. h \in Hands /\ View(h) \in Views
      BY <3>2, HandsAreHands
    <3>4. /\ env' \in [Envs -> Hands] /\ seen' \in [Envs -> Views]
          /\ \A j \in Envs \ {i} : env'[j] = env[j] /\ seat'[j] = seat[j]
      BY <3>1, <3>2, <3>3 DEF IInv, TypeOK, ViewOfNewHand
    <3>5. /\ who' \in [Envs -> [Seats -> SUBSET {"a", "b"}]]
          /\ seat' \in [Envs -> Seats] /\ OnePolicyPerSeat'
      BY <3>1, OnePolicyChanges
    <3>6. PICK r \in Rewards : tally' = Credit(tally, Mine(r, seat[i]))
      BY <2>4 DEF HandEnds
    <3>7. tally' \in Tallies /\ tally'.hands = tally.hands + 1
      BY <2>1, <3>6, CreditTyped
    <3>8. tally'.hands <= Target
      BY <2>1, <2>2, <3>1, <3>7
    <3>9. QED
      BY <3>1, <3>4, <3>5, <3>7, <3>8
  <2>5. QED
    BY <2>3, <2>4 DEF StepEnv
<1>3. /\ MatchFits' /\ phase' \in {"select", "step"}
      /\ cursor' \in Envs /\ plan' \in [Envs -> Plans]
  BY <1>2, AdvanceFits
<1>4. phase # "idle"
  BY <1>2 DEF Stepping
<1>5. TypeOK'
  BY <1>1, <1>2, <1>3 DEF IInv, TypeOK, Phases, trainVars, evalVars
<1>6. QED
  BY <1>1, <1>2, <1>3, <1>4, <1>5, MatchFrame DEF IInv

(* A seed's average joins the others, and the best of them stays the best. *)
LEMMA BetterFits ==
    ASSUME IInv, scores' = Append(scores, ScoreOf(tally)), best' = Better(best, tally),
           cfg' = cfg, cfg.match => tally.hands = Target
    PROVE  BestFits'
<1> DEFINE x == ScoreOf(tally)
           n == Len(scores)
<1>1. scores \in Seq(Scores) /\ tally \in Tallies
  BY DEF IInv, BestFits, TypeOK
<1>2. x \in Scores /\ n \in Nat
  BY <1>1, ScoreTyped
<1>3. scores' = Append(scores, x)
  OBVIOUS
<1> HIDE DEF x, Scores
<1>4. /\ scores' \in Seq(Scores) /\ Len(scores') = n + 1 /\ scores'[n + 1] = x
      /\ DOMAIN scores' = 1 .. n + 1 /\ DOMAIN scores = 1 .. n
      /\ \A s \in 1 .. n : scores'[s] = scores[s] /\ scores[s] \in Scores
  BY <1>1, <1>2, <1>3
<1>5. scores' # <<>>
  BY <1>2, <1>4
<1> HIDE DEF n
<1>6. \A s \in 1 .. n + 1 : s \in 1 .. n \/ s = n + 1
  BY <1>2
<1>7. n + 1 \in 1 .. n + 1 /\ \A s \in 1 .. n : s \in 1 .. n + 1
  BY <1>2
<1>8. ASSUME best' = <<tally>>, \A s \in 1 .. n : ~Higher(scores[s], x)
      PROVE  BestFits'
  <2>1. Len(best') = 1 /\ best'[1] = tally
    BY <1>8
  <2>2. \A s \in 1 .. n + 1 : ~Higher(scores'[s], ScoreOf(best'[1]))
    BY <1>2, <1>4, <1>6, <1>8, <2>1, NothingBeatsItself DEF x
  <2>3. \E s \in 1 .. n + 1 : scores'[s] = ScoreOf(best'[1])
    BY <1>4, <1>7, <2>1 DEF x
  <2>4. cfg'.match => best'[1].hands = Target
    BY <2>1
  <2>5. \A s \in DOMAIN scores' : ~Higher(scores'[s], ScoreOf(best'[1]))
    BY <1>4, <2>2
  <2>6. \E s \in DOMAIN scores' : scores'[s] = ScoreOf(best'[1])
    BY <1>4, <2>3
  <2>7. QED
    BY <1>1, <1>4, <1>5, <2>1, <2>4, <2>5, <2>6 DEF BestFits
<1>9. CASE scores = <<>>
  <2>1. best = <<>> /\ n = 0
    BY <1>9 DEF IInv, BestFits, n
  <2>2. best' = <<tally>>
    BY <2>1 DEF Better
  <2>3. QED
    BY <1>8, <2>1, <2>2
<1>10. CASE scores # <<>>
  <2>1. /\ Len(best) = 1 /\ best[1] \in Tallies
        /\ \A s \in 1 .. n : ~Higher(scores[s], ScoreOf(best[1]))
        /\ \E s \in 1 .. n : scores[s] = ScoreOf(best[1])
        /\ cfg.match => best[1].hands = Target
    BY <1>4, <1>10 DEF IInv, BestFits
  <2>2. best # <<>> /\ ScoreOf(best[1]) \in Scores
    BY <2>1, ScoreTyped
  <2>3. CASE Higher(x, ScoreOf(best[1]))
    <3>1. best' = <<tally>>
      BY <2>3 DEF Better, x
    <3>2. \A s \in 1 .. n : ~Higher(scores[s], x)
      BY <1>2, <1>4, <2>1, <2>2, <2>3, HigherStays
    <3>3. QED
      BY <1>8, <3>1, <3>2
  <2>4. CASE ~Higher(x, ScoreOf(best[1]))
    <3>1. best' = best
      BY <2>2, <2>4 DEF Better, x
    <3>2. \A s \in DOMAIN scores' : ~Higher(scores'[s], ScoreOf(best'[1]))
      BY <1>4, <1>6, <2>1, <2>4, <3>1
    <3>3. \E s \in DOMAIN scores' : scores'[s] = ScoreOf(best'[1])
      BY <1>4, <1>7, <2>1, <3>1
    <3>4. QED
      BY <1>4, <1>5, <2>1, <3>1, <3>2, <3>3 DEF BestFits
  <2>5. QED
    BY <2>3, <2>4
<1>11. QED
  BY <1>9, <1>10

LEMMA EndSeedStep == ASSUME IInv, EndSeed PROVE IInv'
<1>1. /\ scores' = Append(scores, ScoreOf(tally)) /\ best' = Better(best, tally)
      /\ UNCHANGED <<trainVars, cfg, calls, warmStarted, exploiter>>
      /\ \/ cfg.match /\ phase = "select" /\ tally.hands >= Target
         \/ ~cfg.match /\ phase = "trained"
      /\ phase' = "idle" /\ env' = NoTable
      /\ seen' = [i \in Envs |-> View(NoTable[i])]
      /\ seat' = FirstSeats /\ plan' = NoPlan /\ cursor' = 0
      /\ tally' = NoTally /\ who' = NobodyActed
  BY DEF EndSeed, Leave, ClearTable
<1>2. cfg.match => tally.hands = Target
  <2>1. tally.hands \in Nat /\ Target \in Nat
    BY MatchAssumption DEF IInv, TypeOK, Tallies
  <2>2. phase = "select" => tally.hands <= Target
    BY DEF IInv, MatchFits
  <2>3. QED
    BY <1>1, <2>1, <2>2
<1>3. BestFits'
  BY <1>1, <1>2, BetterFits
<1>4. env' \in [Envs -> Hands]
  BY <1>1, TablesTyped, HandsAreHands
<1>5. seen' \in [Envs -> Views]
  BY <1>1, TablesTyped, HandsAreHands
<1>6. TypeOK'
  BY <1>1, <1>4, <1>5, TablesTyped DEF IInv, TypeOK, Phases, trainVars
<1>7. MatchFits' /\ OnePolicyPerSeat' /\ ColumnsFit'
  BY <1>1, TablesTyped, OnePolicyAtFirst, ColumnsStay DEF IInv, MatchFits, trainVars
<1>8. SeedsFit'
  <2>1. Seed' = Seed + 1
    BY DEF IInv, BestFits, Seed, EndSeed
  <2>2. Seed < NumSeeds /\ warmStarted /\ NumSeeds' = NumSeeds /\ MultiSeed' = MultiSeed
    BY <1>1 DEF IInv, SeedsFit, NumSeeds, MultiSeed
  <2>3. Seed \in Nat /\ NumSeeds \in Nat
    BY NumSeedsFacts DEF IInv, BestFits, TypeOK, Seed
  <2> DEFINE s == Seed
             n == NumSeeds
  <2>4. s \in Nat /\ n \in Nat /\ s < n
    BY <2>2, <2>3
  <2> HIDE DEF s, n
  <2>5. s + 1 <= n
    BY <2>4
  <2>6. (Seed <= NumSeeds)'
    BY <2>1, <2>2, <2>5 DEF s, n
  <2>7. QED
    BY <1>1, <2>2, <2>6 DEF IInv, SeedsFit
<1>9. QED
  BY <1>3, <1>6, <1>7, <1>8 DEF IInv

LEMMA ReportStep == ASSUME IInv, Report PROVE IInv'
<1>1. /\ phase = "idle" /\ calls' = calls + 1 /\ scores' = <<>> /\ best' = <<>>
      /\ UNCHANGED <<matchVars, trainVars, cfg, warmStarted, exploiter>>
  BY DEF Report
<1>2. phase' = "idle" /\ calls \in Nat /\ calls' \in Nat
  BY <1>1 DEF IInv, TypeOK, matchVars
<1>3. TypeOK'
  BY <1>1, <1>2 DEF IInv, TypeOK, matchVars, trainVars
<1>4. MatchFits' /\ OnePolicyPerSeat'
  BY <1>1, <1>2 DEF IInv, MatchFits, OnePolicyPerSeat, matchVars
<1>5. ColumnsFit'
  BY <1>1, <1>2, ColumnsStay DEF IInv, trainVars
<1>6. <<>> \in Seq(Scores) /\ Len(<<>>) = 0
  OBVIOUS
<1>7. BestFits'
  BY <1>1, <1>6 DEF BestFits
<1>8. SeedsFit'
  <2>1. NumSeeds' = NumSeeds /\ MultiSeed' = MultiSeed /\ Seed' = 0
    BY <1>1, <1>6 DEF NumSeeds, MultiSeed, Seed
  <2>2. (Seed <= NumSeeds)'
    BY <2>1, NumSeedsFacts DEF IInv, TypeOK
  <2>3. (0 .. calls) \X {0} \subseteq (0 .. calls') \X {0}
    BY <1>1, <1>2
  <2>4. QED
    BY <1>1, <1>2, <2>1, <2>2, <2>3 DEF IInv, SeedsFit
<1>9. QED
  BY <1>3, <1>4, <1>5, <1>7, <1>8 DEF IInv

LEMMA StutterStep == ASSUME IInv, UNCHANGED vars PROVE IInv'
<1>1. UNCHANGED <<matchVars, trainVars, evalVars>>
  BY DEF vars
<1>2. TypeOK'
  BY <1>1 DEF IInv, TypeOK, matchVars, trainVars, evalVars
<1>3. MatchFits' /\ OnePolicyPerSeat'
  BY <1>1 DEF IInv, MatchFits, OnePolicyPerSeat, Acting, matchVars
<1>4. SeedsFit' /\ BestFits'
  BY <1>1 DEF IInv, SeedsFit, BestFits, Seed, NumSeeds, MultiSeed, matchVars, evalVars
<1>5. ColumnsFit'
  BY <1>1 DEF IInv, ColumnsFit, matchVars, trainVars
<1>6. QED
  BY <1>2, <1>3, <1>4, <1>5 DEF IInv

(* Tables, seeds, scores and columns fit one another throughout the        *)
(* evaluations of a training run.                                          *)
THEOREM Invariance == Spec => []IInv
<1>1. IInv /\ [Next]_vars => IInv'
  BY StartSeedStep, TrainHandGoesOnStep, TrainHandEndsStep, FinishRolloutStep,
     LearnStep, StartMatchStep, StartSweepStep, StepEnvStep, EndSeedStep,
     ReportStep, StutterStep DEF Next, AllReported
<1>2. QED
  BY <1>1, InitIInv, PTL DEF Spec

(* The types, with the columns of the rollout.                             *)
THEOREM TypeCorrect == Spec => []TypeOK
<1>1. IInv => TypeOK
  BY DEF IInv
<1>2. QED
  BY <1>1, Invariance, PTL

(* An exploiter knows what it may know, for any number of seeds.           *)
THEOREM SeedsStayIndependent == Spec => []SeedsIndependent
<1>1. IInv => SeedsIndependent
  BY DEF IInv, SeedsFit, SeedsIndependent
<1>2. QED
  BY <1>1, Invariance, PTL

(* The report is the best seed's, for any rewards and any number of hands. *)
THEOREM TheBestIsReported == Spec => []BestIsReported
<1>1. IInv => BestIsReported
  <2> SUFFICES ASSUME IInv, phase = "idle", Seed = NumSeeds PROVE BestIsReported
    BY DEF BestIsReported
  <2>1. NumSeeds \in Nat \ {0}
    BY NumSeedsFacts DEF IInv, TypeOK
  <2>2. Len(<<>>) = 0
    OBVIOUS
  <2>3. scores # <<>>
    BY <2>1, <2>2 DEF Seed
  <2>4. QED
    BY <2>3 DEF IInv, BestFits, BestIsReported
<1>2. QED
  BY <1>1, Invariance, PTL

(* Every decision of the exploiter is stored once, in order, and in the    *)
(* seat it was taken in, however hands and rollouts overlap.               *)
THEOREM ItsOwnAreLearned == Spec => []LearnsFromItsOwn
<1>1. IInv => LearnsFromItsOwn
  <2> SUFFICES ASSUME IInv PROVE LearnsFromItsOwn
    OBVIOUS
  <2>1. ASSUME phase = "learn", NEW i \in Envs, NEW p \in Seats
        PROVE  /\ Len(rollout[i].stored[p]) = Len(own[i][p])
               /\ \A t \in DOMAIN rollout[i].stored[p] :
                     rollout[i].stored[p][t].step = own[i][p][t].step
    <3> DEFINE c == rollout[i].stored[p]
               m == own[i][p]
    <3>1. c \in Seq(StoredAt(Steps)) /\ m \in Seq(DecisionAt(Steps))
      <4>1. /\ rollout[i] \in ColumnsAt(Steps) /\ p \in {0, 1}
            /\ own[i] \in [Seats -> Seq(DecisionAt(Steps))]
        BY DEF IInv, TypeOK, Seats
      <4>2. c \in Seq(StoredAt(Steps))
        BY <4>1, Fields
      <4>3. QED
        BY <4>1, <4>2
    <3>2. Tells(<<>>, c, rollout[i].nextDone[p], m, paid[i], p)
      BY <2>1 DEF IInv, ColumnsFit, Cut, Seats
    <3>3. Len(c) \in Nat /\ DOMAIN c = 1 .. Len(c) /\ Len(<<>>) = 0
      <4> HIDE DEF c, StoredAt
      <4>1. QED
        BY <3>1
    <3> HIDE DEF c, m
    <3>4. Len(m) = Len(c)
      <4>1. Len(m) = Len(c) + Len(<<>>)
        BY <3>2 DEF Tells
      <4>2. \A k \in Nat : k + 0 = k
        OBVIOUS
      <4>3. QED
        BY <3>3, <4>1, <4>2
    <3>5. \A t \in 1 .. Len(c) : At(<<>>, c, t) = c[t]
      BY <3>3 DEF At
    <3>6. \A t \in 1 .. Len(c) : c[t].step = m[t].step
      BY <3>2, <3>4, <3>5 DEF Tells
    <3>7. QED
      BY <3>3, <3>4, <3>6 DEF c, m
  <2>2. QED
    BY <2>1 DEF LearnsFromItsOwn, IInv
<1>2. QED
  BY <1>1, Invariance, PTL
-----------------------------------------------------------------------------
(* Undiscounted, a target is the reward of its own transition and, while   *)
(* the hand goes on, the target of the next one.                           *)
LEMMA TargetsAddUp ==
    ASSUME Gamma = 1, Lambda = 1, NEW c \in Seq(StoredAt(Steps))
    PROVE  LET A == Columns!Advantages(Gamma, Lambda, c, TRUE, 0)
           IN  \A t \in 1 .. Len(c) :
                  /\ A[t] + c[t].value \in Int
                  /\ t = Len(c) => A[t] + c[t].value = c[t].reward
                  /\ t < Len(c) =>
                        A[t] + c[t].value = c[t].reward
                            + (1 - c[t + 1].done) * (A[t + 1] + c[t + 1].value)
<1> DEFINE A == Columns!Advantages(Gamma, Lambda, c, TRUE, 0)
           n == Len(c)
           D == Errors(Gamma, c, TRUE, 0)
           G == Decay(Gamma, Lambda, c, TRUE)
<1>1. n \in Nat
  OBVIOUS
<1>2. PICK f \in [1 .. n + 1 -> Int] : /\ RunsBackward(f, 1, n, D, G)
                                     /\ \A t \in 1 .. n : A[t] = f[t]
  <2>1. TRUE \in BOOLEAN /\ 0 \in Int /\ Gamma \in Int /\ Lambda \in Int
    OBVIOUS
  <2> DEFINE g == Gamma
             l == Lambda
             on == TRUE
             z == 0
  <2>2. g \in Int /\ l \in Int /\ on \in BOOLEAN /\ z \in Int
    BY <2>1
  <2> HIDE DEF g, l, on, z
  <2>3. AreBackward(g, l, c, on, z)
    BY <2>2, AdvantagesRunBackward
  <2>4. QED
    BY <2>3 DEF g, l, on, z, AreBackward
<1>3. ASSUME NEW t \in 1 .. n
      PROVE  c[t].value \in Int /\ c[t].reward \in Int /\ c[t].done \in {0, 1}
  <2>1. c[t] \in StoredAt(Steps)
    <3> HIDE DEF StoredAt
    <3>1. QED
      OBVIOUS
  <2>2. QED
    BY <2>1 DEF StoredAt
<1> HIDE DEF A
<1>4. ASSUME NEW t \in 1 .. n
      PROVE  /\ D[t] = Columns!Delta(Gamma, c, t, TRUE, 0)
             /\ G[t] = Gamma * Lambda * Columns!NextNonterminal(c, t, TRUE)
  BY DEF Errors, Decay
<1>5. ASSUME NEW t \in 1 .. n, t = n
      PROVE  D[t] = c[t].reward - c[t].value /\ G[t] = 0
  <2>1. Columns!NextNonterminal(c, t, TRUE) = 0 /\ Columns!NextValue(c, t, TRUE, 0) = 0
    BY <1>5 DEF Columns!NextNonterminal, Columns!NextValue
  <2>2. D[t] = c[t].reward + 1 * 0 * 0 - c[t].value /\ G[t] = 1 * 1 * 0
    BY <1>4, <2>1 DEF Columns!Delta
  <2>3. 1 * 1 * 0 = 0 /\ \A x, y \in Int : x + 1 * 0 * 0 - y = x - y
    OBVIOUS
  <2>4. QED
    BY <1>3, <2>2, <2>3, Zenon
<1>6. ASSUME NEW t \in 1 .. n, t < n
      PROVE  LET m == 1 - c[t + 1].done
             IN  D[t] = c[t].reward + c[t + 1].value * m - c[t].value /\ G[t] = m
  <2> DEFINE m == 1 - c[t + 1].done
             v == c[t + 1].value
  <2>1. t # n /\ t + 1 \in 1 .. n
    BY <1>1, <1>6
  <2>2. v \in Int /\ m \in Int
    BY <1>3, <2>1
  <2>3. Columns!NextNonterminal(c, t, TRUE) = m /\ Columns!NextValue(c, t, TRUE, 0) = v
    BY <2>1 DEF Columns!NextNonterminal, Columns!NextValue
  <2> HIDE DEF m, v
  <2>4. D[t] = c[t].reward + 1 * v * m - c[t].value /\ G[t] = 1 * 1 * m
    BY <1>4, <2>3 DEF Columns!Delta
  <2>5. 1 * v * m = v * m /\ 1 * 1 * m = m
    BY <2>2
  <2>6. QED
    BY <2>4, <2>5 DEF m, v
<1> HIDE DEF D, G, n
<1>7. \A t \in 1 .. n + 1 : f[t] = IF t > n THEN 0 ELSE D[t] + G[t] * f[t + 1]
  BY <1>2 DEF RunsBackward
<1>8. ASSUME NEW t \in 1 .. n
      PROVE  /\ A[t] + c[t].value \in Int
             /\ t = n => A[t] + c[t].value = c[t].reward
             /\ t < n => A[t] + c[t].value = c[t].reward
                            + (1 - c[t + 1].done) * (A[t + 1] + c[t + 1].value)
  <2>1. /\ t \in 1 .. n + 1 /\ ~(t > n) /\ t + 1 \in 1 .. n + 1
        /\ f[t] \in Int /\ f[t + 1] \in Int /\ A[t] = f[t]
    BY <1>1, <1>2
  <2>2. f[t] = D[t] + G[t] * f[t + 1]
    BY <1>7, <2>1
  <2>3. c[t].value \in Int /\ c[t].reward \in Int
    BY <1>3
  <2>4. CASE t = n
    <3>1. f[t] = c[t].reward - c[t].value + 0 * f[t + 1]
      BY <1>5, <2>2, <2>4
    <3>2. \A x, y, z \in Int : x - y + 0 * z + y = x
      OBVIOUS
    <3>3. f[t] + c[t].value = c[t].reward
      BY <2>1, <2>3, <3>1, <3>2
    <3>4. ~(t < n)
      BY <1>1, <2>4
    <3>5. QED
      BY <2>1, <2>3, <3>3, <3>4
  <2>5. CASE t # n
    <3> DEFINE m == 1 - c[t + 1].done
               v == c[t + 1].value
               g == f[t + 1]
    <3>1. t < n /\ t + 1 \in 1 .. n
      BY <1>1, <2>5
    <3>2. m \in Int /\ v \in Int /\ g \in Int
      BY <1>3, <2>1, <3>1
    <3>3. A[t + 1] = g
      BY <1>2, <3>1
    <3>4. f[t] = c[t].reward + v * m - c[t].value + m * g
      BY <1>6, <2>2, <3>1
    <3> HIDE DEF m, v, g
    <3>5. \A x, y \in Int : x + v * m - y + m * g + y = x + m * (g + v)
      BY <3>2
    <3>6. f[t] + c[t].value = c[t].reward + m * (g + v)
      BY <2>3, <3>4, <3>5
    <3>7. QED
      BY <2>1, <2>3, <2>5, <3>3, <3>6 DEF m, v
  <2>6. QED
    BY <2>4, <2>5
<1>9. QED
  BY <1>8 DEF n, A

(* Such a column's targets are what its hands have paid.                   *)
LEMMA TargetsFollow ==
    ASSUME Gamma = 1, Lambda = 1, NEW c \in Seq(StoredAt(Steps)), NEW d,
           NEW p \in Seats, NEW mine \in Seq(DecisionAt(Steps)), NEW results \in Seq(Int),
           Tells(<<>>, c, d, mine, results, p)
    PROVE  /\ Len(mine) = Len(c)
           /\ \A t \in 1 .. Len(c) :
                 Columns!Advantages(Gamma, Lambda, c, TRUE, 0)[t] + c[t].value =
                     Paid(results, p, mine[t].hand + 1)
<1> DEFINE A == Columns!Advantages(Gamma, Lambda, c, TRUE, 0)
           n == Len(c)
           T(t) == A[t] + c[t].value
           P == {k \in Nat : k < n => T(n - k) = Paid(results, p, mine[n - k].hand + 1)}
<1>1. n \in Nat /\ Len(<<>>) = 0
  OBVIOUS
<1>2. Len(mine) = n
  <2>1. Len(mine) = n + Len(<<>>)
    BY DEF Tells
  <2>2. QED
    BY <1>1, <2>1
<1>3. \A t \in 1 .. n :
         /\ T(t) \in Int
         /\ t = n => T(t) = c[t].reward
         /\ t < n => T(t) = c[t].reward + (1 - c[t + 1].done) * T(t + 1)
  BY TargetsAddUp
<1> HIDE DEF n, T
<1>4. \A t \in 1 .. n : At(<<>>, c, t) = c[t]
  BY <1>1 DEF At, n
<1>5. \A t \in 1 .. n : c[t].reward = Due(mine, results, p, t)
  BY DEF Tells, n
<1>6. ASSUME NEW t \in 1 .. n, t < n
      PROVE  c[t + 1].done = IF mine[t].hand = mine[t + 1].hand THEN 0 ELSE 1
  <2>1. t # Len(mine) /\ t \in 1 .. Len(mine) /\ t + 1 \in 1 .. n
    BY <1>1, <1>2, <1>6
  <2>2. QED
    BY <1>4, <2>1 DEF Tells
<1>7. 0 \in P
  <2> SUFFICES ASSUME 0 < n PROVE T(n) = Paid(results, p, mine[n].hand + 1)
    <3>1. n - 0 = n
      BY <1>1
    <3>2. QED
      BY <3>1
  <2>1. n \in 1 .. n /\ ~(n < Len(mine))
    BY <1>1, <1>2
  <2>2. QED
    BY <1>3, <1>5, <2>1 DEF Due
<1>8. ASSUME NEW k \in P PROVE k + 1 \in P
  <2> SUFFICES ASSUME k + 1 < n
               PROVE  T(n - (k + 1)) = Paid(results, p, mine[n - (k + 1)].hand + 1)
    OBVIOUS
  <2> DEFINE t == n - (k + 1)
  <2>1. k \in Nat /\ k < n /\ t \in 1 .. n /\ t < n /\ t + 1 = n - k /\ t + 1 \in 1 .. n
    BY <1>1
  <2>2. T(t + 1) = Paid(results, p, mine[t + 1].hand + 1) /\ T(t + 1) \in Int
    BY <1>3, <2>1
  <2> HIDE DEF t
  <2>3. T(t) = c[t].reward + (1 - c[t + 1].done) * T(t + 1) /\ T(t) \in Int
    BY <1>3, <2>1
  <2>4. CASE mine[t].hand = mine[t + 1].hand
    <3>1. c[t].reward = 0 /\ c[t + 1].done = 0
      BY <1>2, <1>5, <1>6, <2>1, <2>4 DEF Due
    <3>2. \A x \in Int : 0 + (1 - 0) * x = x
      OBVIOUS
    <3>3. T(t) = 0 + (1 - 0) * T(t + 1)
      BY <2>3, <3>1
    <3>4. T(t) = T(t + 1)
      BY <2>2, <3>2, <3>3
    <3>5. QED
      BY <2>2, <2>4, <3>4 DEF t
  <2>5. CASE mine[t].hand # mine[t + 1].hand
    <3>1. /\ c[t].reward = Paid(results, p, mine[t].hand + 1)
          /\ c[t + 1].done = 1
      BY <1>2, <1>5, <1>6, <2>1, <2>5 DEF Due
    <3>2. \A x, y \in Int : y + (1 - 1) * x = y
      OBVIOUS
    <3>3. c[t].reward \in Int
      <4>1. c[t] \in StoredAt(Steps)
        <5> HIDE DEF StoredAt
        <5>1. QED
          BY <2>1 DEF n
      <4>2. QED
        BY <4>1 DEF StoredAt
    <3>4. T(t) = c[t].reward + (1 - 1) * T(t + 1)
      BY <2>3, <3>1
    <3>5. T(t) = c[t].reward
      BY <2>2, <3>2, <3>3, <3>4
    <3>6. QED
      BY <3>1, <3>5 DEF t
  <2>6. QED
    BY <2>4, <2>5
<1>9. P \in SUBSET Nat
  OBVIOUS
<1>10. ASSUME NEW t \in 1 .. n PROVE T(t) = Paid(results, p, mine[t].hand + 1)
  <2> DEFINE k == n - t
  <2>1. k \in Nat /\ k < n /\ n - k = t
    BY <1>1
  <2> HIDE DEF P, k
  <2>2. \A j \in Nat : j \in P
    BY <1>7, <1>8, <1>9, Induction
  <2>3. T(n - k) = Paid(results, p, mine[n - k].hand + 1)
    BY <2>1, <2>2 DEF P
  <2>4. QED
    BY <2>1, <2>3
<1>11. QED
  BY <1>2, <1>10 DEF n, T

(* Undiscounted, every target of an exploiter is what its hand paid it,    *)
(* for any value estimates, rewards and lengths of rollouts and hands.     *)
THEOREM TargetsTellTheHands ==
    Gamma = 1 /\ Lambda = 1 => (Spec => []TargetsAreHandResults)
<1> SUFFICES ASSUME Gamma = 1, Lambda = 1 PROVE Spec => []TargetsAreHandResults
  OBVIOUS
<1>1. IInv => TargetsAreHandResults
  <2> SUFFICES ASSUME IInv, phase = "learn", NEW i \in Envs, NEW p \in Seats,
                      NEW t \in DOMAIN own[i][p]
               PROVE  Advantages(i, p)[t] + rollout[i].stored[p][t].value =
                          Paid(paid[i], p, own[i][p][t].hand + 1)
    BY DEF TargetsAreHandResults
  <2> DEFINE c == rollout[i].stored[p]
             m == own[i][p]
  <2>1. /\ c \in Seq(StoredAt(Steps)) /\ m \in Seq(DecisionAt(Steps))
        /\ paid[i] \in Seq(Int)
    BY SMTT(30) DEF IInv, TypeOK, ColumnsAt, Seats
  <2>2. Tells(<<>>, c, rollout[i].nextDone[p], m, paid[i], p)
    BY DEF IInv, ColumnsFit, Cut, Seats
  <2>3. Advantages(i, p) = Columns!Advantages(Gamma, Lambda, c, TRUE, 0)
    BY DEF Advantages, TailOf
  <2>4. DOMAIN m = 1 .. Len(m)
    BY <2>1
  <2> HIDE DEF c, m
  <2>5. /\ Len(m) = Len(c)
        /\ \A j \in 1 .. Len(c) : Columns!Advantages(Gamma, Lambda, c, TRUE, 0)[j] + c[j].value =
                                      Paid(paid[i], p, m[j].hand + 1)
    BY <2>1, <2>2, TargetsFollow
  <2>6. t \in 1 .. Len(c)
    BY <2>4, <2>5 DEF m
  <2>7. QED
    BY <2>3, <2>5, <2>6 DEF c, m
<1>2. QED
  BY <1>1, Invariance, PTL
=============================================================================
