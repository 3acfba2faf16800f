---------------------------- MODULE BestResponse ----------------------------
(***************************************************************************)
(* src/best_response.cpp: how much can be won against the trained policy?  *)
(* evaluate() trains one or more exploiters ("a") against a frozen copy of *)
(* it ("b"), one after the other, and measures each in a match; the best   *)
(* one is reported.                                                        *)
(*                                                                         *)
(* Here an exploiter is what it has learned from: the set of evaluations   *)
(* and seeds it was trained in.  Of a rollout the model keeps whose turn   *)
(* it is, the bookkeeping of RolloutState, and the rewards.                *)
(***************************************************************************)
EXTENDS Match, Credit, FiniteSetsExt

CONSTANTS Configs,              \* the BestResponseConfigs considered
          NumSteps, UpdatesPerEval,
          Critic,               \* value estimate at each step of a rollout
          Gamma, Lambda,
          MaxCalls              \* bound: evaluations in a training run

ASSUME BestResponseAssumption ==
    /\ Configs \subseteq [seeds : Nat, warm : BOOLEAN, match : BOOLEAN]
    /\ NumSteps \in Nat \ {0} /\ UpdatesPerEval \in Nat \ {0}
    /\ Critic \in [0 .. NumSteps -> Int] /\ {Gamma, Lambda} \subseteq Int

VARIABLES cfg,          \* num_exploiter_seeds, warm_start, eval_hands > 0
          calls,        \* evaluations finished
          scores,       \* bb_per_seed
          best,         \* the best seed's statistics; <<>> before the first
          warmStarted,
          exploiter,    \* what the exploiter has learned from
          update, step,
          rollout,      \* player_state and the buffer's columns
          own,          \* history: the exploiter's decisions of a rollout, by
                        \* the seat it took them in
          paid          \* history: the rewards of its finished hands

trainVars == <<update, step, rollout, own, paid>>
evalVars == <<cfg, calls, scores, best, warmStarted, exploiter>>
matchVars == <<phase, env, seen, seat, plan, cursor, tally, who>>
vars == <<matchVars, trainVars, evalVars>>

NumSeeds == Max({1, cfg.seeds})
MultiSeed == NumSeeds > 1
Seed == Len(scores)             \* the loop variable of evaluate()
-----------------------------------------------------------------------------
Nothing == [i \in Envs |-> [p \in Seats |-> <<>>]]

ClearRollout ==
    /\ rollout' = [i \in Envs |-> Columns!Fresh(0)]
    /\ own' = Nothing /\ paid' = [i \in Envs |-> <<>>]
    /\ step' = 0

Init == /\ MatchInit
        /\ cfg \in Configs
        /\ calls = 0 /\ scores = <<>> /\ best = <<>>
        /\ warmStarted = FALSE /\ exploiter = {}
        /\ update = 0 /\ step = 0
        /\ rollout = [i \in Envs |-> Columns!Fresh(0)]
        /\ own = Nothing /\ paid = [i \in Envs |-> <<>>]

(* Whether a seed starts from an untrained network.                        *)
ReinitOnce == ~warmStarted      \* Faulty: seeds build on one another.
Reinit == MultiSeed \/ ~cfg.warm \/ ~warmStarted

StartSeed ==
    /\ phase = "idle" /\ calls < MaxCalls /\ Seed < NumSeeds
    /\ exploiter' = IF Reinit THEN {} ELSE exploiter
    /\ warmStarted' = TRUE
    /\ env' \in [Envs -> NewHands] /\ seen' = [i \in Envs |-> View(env'[i])]
    /\ seat' = FirstSeats /\ tally' = NoTally /\ who' = NobodyActed
    /\ update' = 0 /\ ClearRollout
    /\ phase' = "rollout"
    /\ UNCHANGED <<plan, cursor, cfg, calls, scores, best>>
-----------------------------------------------------------------------------
(* One environment in a sweep of a rollout.  Only the exploiter's own      *)
(* decisions are recorded.  (The totals of the rollouts are read only if   *)
(* no match follows, and kept only then.)                                  *)
RecordEveryone(i) ==            \* Faulty: the opponent's as well.
    Columns!RecordStep(rollout[i], env[i].player, step, Critic[step])
Recorded(i) ==
    IF IsMine(env[i].player, seat[i])
    THEN Columns!RecordStep(rollout[i], env[i].player, step, Critic[step])
    ELSE rollout[i]

Decided(i) ==
    IF env[i].player = seat[i]
    THEN [own[i] EXCEPT ![seat[i]] =
             Append(@, [step |-> step, hand |-> Len(paid[i])])]
    ELSE own[i]

NextEnv(i) ==
    IF i + 1 < NumEnvs THEN cursor' = i + 1 /\ UNCHANGED step
                       ELSE cursor' = 0 /\ step' = step + 1

TrainStep(i) ==
    /\ phase = "rollout" /\ step < NumSteps /\ cursor = i
    /\ own' = [own EXCEPT ![i] = Decided(i)]
    /\ NextEnv(i)
    /\ UNCHANGED <<phase, plan, update, evalVars>>

TrainHandGoesOn(i) ==
    /\ TrainStep(i)
    /\ env[i].taken < MaxDecisions - 1
    /\ \E h \in Successors(env[i]) : /\ env' = [env EXCEPT ![i] = h]
                                     /\ seen' = [seen EXCEPT ![i] = View(h)]
    /\ rollout' = [rollout EXCEPT ![i] = Columns!StepReward(Recorded(i), 0)]
    /\ who' = [who EXCEPT ![i][env[i].player] = @ \cup {Acting(i)}]
    /\ UNCHANGED <<seat, tally, paid>>

TrainHandEnds(i) ==
    /\ TrainStep(i)
    /\ \E r \in Rewards :
          /\ rollout' = [rollout EXCEPT
                ![i] = Columns!FlushOnTerminal(Columns!StepReward(Recorded(i), r))]
          /\ tally' = IF cfg.match THEN tally ELSE Credit(tally, Mine(r, seat[i]))
          /\ paid' = [paid EXCEPT ![i] = Append(@, r)]
    /\ seat' = [seat EXCEPT ![i] = NextSeat(@)]
    /\ \E h \in NewHands : /\ env' = [env EXCEPT ![i] = h]
                           /\ seen' = [seen EXCEPT ![i] = ViewOfNewHand(@, h)]
    /\ who' = [who EXCEPT ![i] = NobodyActed[i]]

FinishRollout ==
    /\ phase = "rollout" /\ step = NumSteps
    /\ rollout' = [i \in Envs |-> Columns!FlushOnRolloutEnd(rollout[i])]
    /\ phase' = "learn"
    /\ UNCHANGED <<env, seen, seat, plan, cursor, tally, who, update, step,
                   own, paid, evalVars>>

(* compute_returns, with every tail marked as the end of its episode.      *)
Bootstrapped(i, p) ==           \* Faulty: the tail flags are used.
    [terminal |-> rollout[i].tailWasTerminal[p], value |-> Critic[NumSteps]]
TailOf(i, p) == [terminal |-> TRUE, value |-> 0]

Advantages(i, p) ==
    Columns!Advantages(Gamma, Lambda, rollout[i].stored[p], TailOf(i, p).terminal,
                       TailOf(i, p).value)

(* The carried seats of a rollout: exploiter_seat lives as long as a seed. *)
SeatsCarried == seat

(* The PPO update, skipped when nothing was stored, and on to the next     *)
(* rollout: the tables are carried over.                                   *)
Learn ==
    /\ phase = "learn"
    /\ exploiter' = IF \A i \in Envs, p \in Seats : rollout[i].stored[p] = <<>>
                    THEN exploiter ELSE exploiter \cup {<<calls, Seed>>}
    /\ seat' = SeatsCarried
    /\ ClearRollout
    /\ IF update + 1 < UpdatesPerEval
       THEN phase' = "rollout" /\ update' = update + 1
       ELSE phase' = "trained" /\ update' = 0
    /\ UNCHANGED <<env, seen, plan, cursor, tally, who, cfg, calls, scores,
                   best, warmStarted>>
-----------------------------------------------------------------------------
(* eval_match, on the same environments.                                   *)
StartMatch == /\ phase = "trained" /\ cfg.match
              /\ Deal
              /\ UNCHANGED <<trainVars, evalVars>>

StartSweep == /\ Select(LAMBDA by, view : view.mask)
              /\ UNCHANGED <<trainVars, evalVars>>

StepEnv(i) == /\ HandGoesOn(i) \/ HandEnds(i)
              /\ UNCHANGED <<trainVars, evalVars>>

(* The score of a seed is its average, kept as a fraction; no hand, no     *)
(* gain.                                                                   *)
ScoreOf(t) == IF t.hands = 0 THEN [num |-> 0, den |-> 1]
                             ELSE [num |-> t.total, den |-> t.hands]
Higher(x, y) == x.num * y.den > y.num * x.den

BetterTotal(b, t) ==            \* Faulty: totals, not averages, compared.
    IF b = <<>> \/ t.total > b[1].total THEN <<t>> ELSE b
Better(b, t) ==
    IF b = <<>> \/ Higher(ScoreOf(t), ScoreOf(b[1])) THEN <<t>> ELSE b

EndSeed ==
    /\ scores' = Append(scores, ScoreOf(tally))
    /\ best' = Better(best, tally)
    /\ \/ cfg.match /\ Leave
       \/ ~cfg.match /\ phase = "trained" /\ ClearTable
    /\ UNCHANGED <<trainVars, cfg, calls, warmStarted, exploiter>>

(* evaluate() returns.                                                     *)
Report == /\ phase = "idle" /\ Seed = NumSeeds
          /\ calls' = calls + 1
          /\ scores' = <<>> /\ best' = <<>>
          /\ UNCHANGED <<matchVars, trainVars, cfg, warmStarted, exploiter>>

AllReported == calls = MaxCalls /\ UNCHANGED vars

Next == \/ StartSeed
        \/ \E i \in Envs : TrainHandGoesOn(i) \/ TrainHandEnds(i)
        \/ FinishRollout \/ Learn
        \/ StartMatch \/ StartSweep \/ (\E i \in Envs : StepEnv(i))
        \/ EndSeed \/ Report
        \/ AllReported

Spec == Init /\ [][Next]_vars
-----------------------------------------------------------------------------
(***************************************************************************)
(* Properties.                                                             *)
(***************************************************************************)
(* The exploiter learns from all its decisions, in order, from nobody      *)
(* else's, and each in the seat it was taken in; within a hand each seat   *)
(* is played by one side, also when the hand goes on over the end of a     *)
(* rollout.                                                                *)
OnePolicyPerSeat ==
    \A i \in Envs : /\ who[i][seat[i]] \subseteq {"a"}
                    /\ who[i][1 - seat[i]] \subseteq {"b"}

LearnsFromItsOwn ==
    /\ OnePolicyPerSeat
    /\ phase = "learn" =>
        \A i \in Envs, p \in Seats :
            LET column == rollout[i].stored[p]
            IN  /\ Len(column) = Len(own[i][p])
                /\ \A t \in DOMAIN column : column[t].step = own[i][p][t].step

(* With Gamma = Lambda = 1, the target of a decision is what its hand paid *)
(* the exploiter, also if the hand began in an earlier rollout; it is 0 in *)
(* the hand that the rollout cut off, and in no other.                     *)
TargetsAreHandResults ==
    phase = "learn" =>
        \A i \in Envs, p \in Seats : \A t \in DOMAIN own[i][p] :
            Advantages(i, p)[t] + rollout[i].stored[p][t].value =
                Paid(paid[i], p, own[i][p][t].hand + 1)

(* Independent seeds: an exploiter of several, or without a warm start,    *)
(* knows its own seed only.  A warm-started one knows nothing else than    *)
(* the evaluations up to this one.                                         *)
SeedsIndependent ==
    phase \in {"learn", "trained", "select", "step"} =>
        exploiter \subseteq
            IF MultiSeed \/ ~cfg.warm THEN {<<calls, Seed>>}
                                      ELSE (0 .. calls) \X {0}

(* What is reported is the highest of the seeds' averages, with the hands  *)
(* and the total of one and the same seed, measured in a match of exactly  *)
(* the hands asked for.                                                    *)
BestIsReported ==
    (phase = "idle" /\ Seed = NumSeeds) =>
        /\ \A s \in DOMAIN scores : ~Higher(scores[s], ScoreOf(best[1]))
        /\ \E s \in DOMAIN scores : scores[s] = ScoreOf(best[1])
        /\ cfg.match => best[1].hands = Target
-----------------------------------------------------------------------------
(***************************************************************************)
(* The inductive invariant: the types;                                     *)
(***************************************************************************)
Phases == {"idle", "rollout", "learn", "trained", "select", "step"}
Tallies == [hands : Nat, wins : Nat, losses : Nat, ties : Nat, total : Int]
Steps == 0 .. NumSteps - 1

TypeOK ==
    /\ phase \in Phases /\ cursor \in Envs /\ plan \in [Envs -> Plans]
    /\ env \in [Envs -> Hands] /\ seen \in [Envs -> Views]
    /\ seat \in [Envs -> Seats] /\ tally \in Tallies
    /\ who \in [Envs -> [Seats -> SUBSET {"a", "b"}]]
    /\ cfg \in Configs /\ calls \in Nat /\ warmStarted \in BOOLEAN
    /\ update \in Nat /\ step \in 0 .. NumSteps
    /\ rollout \in [Envs -> ColumnsAt(Steps)]
    /\ own \in [Envs -> [Seats -> Seq(DecisionAt(Steps))]]
    /\ paid \in [Envs -> Seq(Int)]

(* the policy that was asked is the one whose turn it is, and a match ends *)
(* with its Target-th hand;                                                *)
MatchFits ==
    /\ phase = "select" => tally.hands <= Target
    /\ phase = "step" => /\ tally.hands < Target
                         /\ \A i \in Envs : i >= cursor => plan[i].by = Acting(i)

(* a seed knows itself, and without a fresh start its predecessors;        *)
SeedsFit ==
    /\ Seed <= NumSeeds /\ (phase # "idle" => Seed < NumSeeds /\ warmStarted)
    /\ ~warmStarted => exploiter = {}
    /\ ~(MultiSeed \/ ~cfg.warm) => exploiter \subseteq (0 .. calls) \X {0}
    /\ (MultiSeed \/ ~cfg.warm) /\ phase # "idle" =>
           exploiter \subseteq {<<calls, Seed>>}

(* the best so far is one of the seeds so far;                             *)
Scores == [num : Int, den : Nat \ {0}]
BestFits ==
    /\ scores \in Seq(Scores)
    /\ IF scores = <<>> THEN best = <<>>
       ELSE /\ Len(best) = 1 /\ best[1] \in Tallies
            /\ \A s \in DOMAIN scores : ~Higher(scores[s], ScoreOf(best[1]))
            /\ \E s \in DOMAIN scores : scores[s] = ScoreOf(best[1])
            /\ cfg.match => best[1].hands = Target

(* and the columns tell the exploiter's decisions in either seat, what     *)
(* their hands have paid so far, and where a new hand began.               *)
ColumnsFit ==
    \A i \in Envs :
        /\ phase = "rollout" => Running(Steps, rollout[i], own[i], paid[i])
        /\ phase = "learn" => Cut(Steps, rollout[i], own[i], paid[i])

IInv == /\ TypeOK /\ MatchFits /\ OnePolicyPerSeat
        /\ SeedsFit /\ BestFits /\ ColumnsFit
=============================================================================
