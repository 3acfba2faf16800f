-------------------------------- MODULE League --------------------------------
(***************************************************************************)
(* src/league.cpp: the trained policy ("a") plays a match against every    *)
(* anchor ("b") in turn.  The policies are those of include/policy.h.      *)
(*                                                                         *)
(* A slot is its index: 0 folds, 1 checks or calls, the others raise, the  *)
(* bigger the higher.                                                      *)
(***************************************************************************)
EXTENDS Match, Sequences, Functions, FiniteSetsExt

CONSTANT Anchors                \* names of policies, in registration order

ASSUME SlotsAssumption == IsFiniteSet(Slots)    \* an array has them

VARIABLES results,              \* the MatchResults so far: anchors and hands
          counts,               \* action_counts_a
          played,               \* history: the actions of "a" that were played
          sat                   \* history: hands "a" finished in each seat

historyVars == <<who, played, sat>>
vars == <<phase, env, seen, seat, plan, cursor, tally, results, counts,
          historyVars>>

Fold == 0
CheckCall == 1
None == -1
Raises(mask) == {k \in mask : k >= 2}
-----------------------------------------------------------------------------
(* first_legal: the first of the priorities that is legal, or any slot     *)
(* that is.                                                                *)
FirstLegal(mask, priority) ==
    LET legal == {j \in DOMAIN priority : priority[j] \in mask}
    IN  IF legal # {} THEN priority[Min(legal)]
        ELSE IF mask # {} THEN Min(mask) ELSE 0

AlwaysCall(view) == FirstLegal(view.mask, <<CheckCall, Fold>>)

SmallestRaise(mask) == IF Raises(mask) = {} THEN None ELSE Min(Raises(mask))
AlwaysRaise(view) ==
    FirstLegal(view.mask, <<SmallestRaise(view.mask), CheckCall, Fold>>)

BiggestRaise(mask) == IF Raises(mask) = {} THEN None ELSE Max(Raises(mask))

(* Faulty: a hand that is no pair folds, legal or not.                     *)
PairAllInOrFold(view) ==
    IF view.hole = "pair"
    THEN FirstLegal(view.mask, <<BiggestRaise(view.mask), CheckCall, Fold>>)
    ELSE Fold

PairAllIn(view) ==
    FirstLegal(view.mask, IF view.hole = "pair"
                          THEN <<BiggestRaise(view.mask), CheckCall, Fold>>
                          ELSE <<Fold, CheckCall>>)

(* What a policy may choose.  A network samples from a distribution that   *)
(* gives illegal slots no weight.                                          *)
PolicyChoices(name, view) ==
    CASE name = "always_call"  -> {AlwaysCall(view)}
      [] name = "always_raise" -> {AlwaysRaise(view)}
      [] name = "pair_all_in"  -> {PairAllIn(view)}
      [] OTHER                 -> view.mask
-----------------------------------------------------------------------------
NoCounts == [s \in Slots |-> 0]
NoHands == [i \in Envs |-> [s \in Seats |-> 0]]

Init == /\ MatchInit
        /\ results = <<>>
        /\ counts = NoCounts
        /\ played = NoCounts /\ sat = NoHands

(* The head of play_match, for the next anchor of evaluate().              *)
StartMatch ==
    /\ phase = "idle" /\ Len(results) < Len(Anchors)
    /\ Deal
    /\ counts' = NoCounts /\ played' = NoCounts /\ sat' = NoHands
    /\ UNCHANGED results

(* The choices counted in a sweep.                                         *)
CountedOfBoth(p, s) ==          \* Faulty: the anchor's as well.
    Cardinality({i \in Envs : p[i].action = s})
Counted(p, s) == Cardinality({i \in Envs : p[i] = [action |-> s, by |-> "a"]})

Anchor == Anchors[Len(results) + 1]

StartSweep ==
    /\ Select(LAMBDA by, view : PolicyChoices(IF by = "a" THEN "trained" ELSE Anchor, view))
    /\ counts' = [s \in Slots |-> counts[s] + Counted(plan', s)]
    /\ UNCHANGED <<played, sat, results>>

StepEnv(i) ==
    /\ \/ HandGoesOn(i) /\ UNCHANGED sat
       \/ HandEnds(i) /\ sat' = [sat EXCEPT ![i][seat[i]] = @ + 1]
    /\ played' = IF plan[i].by = "a" THEN [played EXCEPT ![plan[i].action] = @ + 1]
                                     ELSE played
    /\ UNCHANGED <<results, counts>>

(* The tail of play_match.                                                 *)
EndMatch ==
    /\ Leave
    /\ results' = Append(results, [anchor |-> Anchor, hands |-> tally.hands])
    /\ counts' = NoCounts /\ played' = NoCounts /\ sat' = NoHands

Evaluated == phase = "idle" /\ Len(results) = Len(Anchors) /\ UNCHANGED vars

Next == \/ StartMatch
        \/ StartSweep
        \/ \E i \in Envs : StepEnv(i)
        \/ EndMatch
        \/ Evaluated

Spec == Init /\ [][Next]_vars
-----------------------------------------------------------------------------
(***************************************************************************)
(* Properties.                                                             *)
(***************************************************************************)
Tallies == [hands : 0 .. Target, wins : Nat, losses : Nat, ties : Nat, total : Int]

(* The types of the loop's variables and of the histories.                 *)
TypeOK == /\ phase \in {"idle", "select", "step"}
          /\ env \in [Envs -> Hands] /\ seen \in [Envs -> Views]
          /\ seat \in [Envs -> Seats]
          /\ plan \in [Envs -> Plans]
          /\ cursor \in 0 .. NumEnvs
          /\ tally \in Tallies
          /\ tally.hands = tally.wins + tally.losses + tally.ties
          /\ who \in [Envs -> [Seats -> SUBSET {"a", "b"}]]
          /\ counts \in [Slots -> Nat] /\ played \in [Slots -> Nat]
          /\ sat \in [Envs -> [Seats -> Nat]]

(* Every index handed to step() is legal in the environment it goes to,    *)
(* whichever policy chose it and whatever was dealt since: no match stops  *)
(* in an exception.                                                        *)
LegalWhenPlayed ==
    phase = "step" => plan[cursor].action \in env[cursor].mask

(* Within a hand each seat is played by one policy.                        *)
OnePolicyPerSeat ==
    \A i \in Envs : /\ who[i][seat[i]] \subseteq {"a"}
                    /\ who[i][1 - seat[i]] \subseteq {"b"}

(* The result of a hand is credited in the frame of the seat that the      *)
(* trained policy played in it, told from who took the last decision.      *)
SeatPlayed(i) == IF plan[i].by = "a" THEN env[i].player ELSE 1 - env[i].player

CreditFollowsTheSeat ==
    [][tally'.hands = tally.hands + 1 =>
          \E r \in Rewards :
              /\ tally'.total - tally.total
                     = (IF SeatPlayed(cursor) = 0 THEN r ELSE -r)
              /\ tally'.wins - tally.wins
                     = (IF tally'.total > tally.total THEN 1 ELSE 0)]_vars

(* Position bias cancels up to half the environments, however hands of     *)
(* different lengths interleave and wherever the match stops.              *)
HandsIn(s) == SumFunction([i \in Envs |-> sat[i][s]])
SeatsBalanced ==
    /\ HandsIn(0) - HandsIn(1) <= (NumEnvs + 1) \div 2
    /\ HandsIn(1) - HandsIn(0) <= NumEnvs \div 2
    /\ HandsIn(0) + HandsIn(1) = tally.hands

(* The action histogram is what the trained policy played; only the sweep  *)
(* in which the match stops may add choices that no environment saw, fewer *)
(* than there are environments.                                            *)
HistogramIsPlayed ==
    /\ (phase = "select" /\ tally.hands < Target) => counts = played
    /\ phase # "step" =>
           SumFunction(counts) - SumFunction(played) \in 0 .. NumEnvs - 1
-----------------------------------------------------------------------------
(***************************************************************************)
(* The inductive invariant of the match loop.                              *)
(***************************************************************************)
(* The arrays hold the environments as they are, between any two steps;    *)
SeenIsCurrent == seen = [i \in Envs |-> View(env[i])]

(* so that what was chosen before the sweep still fits every environment   *)
(* that the sweep has not reached.                                         *)
PlanFits ==
    IF phase = "step"
    THEN /\ cursor \in Envs /\ tally.hands < Target
         /\ \A j \in Envs : j >= cursor =>
               plan[j].action \in env[j].mask /\ plan[j].by = Acting(j)
    ELSE cursor = 0

IInv == TypeOK /\ SeenIsCurrent /\ PlanFits /\ OnePolicyPerSeat

(* What the histories say: the hands of one environment are dealt to the   *)
(* seats in turn, beginning with the first, and every hand is in the tally;*)
Lead(i) == IF seat[i] = FirstSeat(i) THEN 0 ELSE 1 - 2 * FirstSeat(i)
SeatsAlternate == \A i \in Envs : sat[i][0] - sat[i][1] = Lead(i)
HandsAreCounted ==
    SumFunction([i \in Envs |-> sat[i][0] + sat[i][1]]) = tally.hands

(* what was counted but not yet played is the rest of the sweep's plan.    *)
ToPlay(s) == {j \in Envs : j >= cursor /\ plan[j] = [action |-> s, by |-> "a"]}
CountsRunAhead ==
    IF phase = "step"
    THEN \A s \in Slots : counts[s] = played[s] + Cardinality(ToPlay(s))
    ELSE HistogramIsPlayed

Histories == SeatsAlternate /\ HandsAreCounted /\ CountsRunAhead
=============================================================================
