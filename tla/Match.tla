-------------------------------- MODULE Match --------------------------------
(***************************************************************************)
(* Two policies, "a" and "b", playing hands on NumEnvs environments: the   *)
(* loop that League::play_match and BestResponseEvaluator::eval_match      *)
(* share.  A sweep selects an action for every environment, then steps     *)
(* the environments in order, and stops as soon as Target hands are done;  *)
(* "a" changes seats with every hand of an environment.                    *)
(*                                                                         *)
(* Of an environment the loop sees whose turn it is (as in HandView), the  *)
(* mask of legal slots and the hole cards of the actor.                    *)
(***************************************************************************)
EXTENDS Integers

CONSTANTS NumEnvs,
          Target,               \* hands of a match
          Masks,                \* the sets of slots that may be legal
          Holes,                \* hole cards: "pair" or "other"
          Rewards,              \* of a hand, in seat 0's frame
          MaxDecisions          \* bound: decisions of a hand

ASSUME MatchAssumption ==
    /\ NumEnvs \in Nat \ {0} /\ Target \in Nat \ {0} /\ MaxDecisions \in Nat \ {0}
    /\ Masks \subseteq SUBSET Nat /\ Masks # {} /\ {} \notin Masks
    /\ Holes # {}
    /\ Rewards \subseteq Int

VARIABLES phase,        \* "idle", "select", "step", and the users' own
          env,          \* the environments
          seen,         \* obs[i] and masks[i], as the loop last stored them
          seat,         \* a_seat
          plan,         \* actions[i], and the policy that was asked for it
          cursor,       \* the next environment of the sweep
          tally,        \* hands_done, wins_a, losses_a, ties_a, total_reward_a
          who           \* history: the policies that acted in each seat of
                        \* the hand being played

Envs == 0 .. NumEnvs - 1
Seats == {0, 1}
Slots == UNION Masks

Hands == [player : Seats, mask : Masks, hole : Holes, taken : Nat]
Views == [mask : Masks, hole : Holes]
Plans == [action : Slots, by : {"a", "b"}]

NewHands == [player : {1}, mask : Masks, hole : Holes, taken : {0}]
Successors(h) == [player : IF h.player = 1 THEN {0} ELSE Seats,
                  mask : Masks, hole : Holes, taken : {h.taken + 1}]
View(h) == [mask |-> h.mask, hole |-> h.hole]
NoPlan == [i \in Envs |-> CHOOSE p \in Plans : TRUE]
NobodyActed == [i \in Envs |-> [s \in Seats |-> {}]]
-----------------------------------------------------------------------------
(* The seats "a" starts in, and the one it takes after a hand.             *)
FirstSeat(i) == i % 2

SeatStays(s) == s               \* Faulty: the seats never change.
NextSeat(s) == 1 - s

(* What the loop knows of an environment that was just reset.              *)
ViewOfNewHand(old, h) == View(h)

(* The partition into a_idxs and b_idxs.                                   *)
IsMine(player, s) == player = s
Acting(i) == IF IsMine(env[i].player, seat[i]) THEN "a" ELSE "b"

(* The reward of a finished hand, turned into the frame of "a".            *)
UnsignedReward(r, s) == r       \* Faulty: left in seat 0's frame.
Mine(r, s) == IF s = 0 THEN r ELSE -r

Credit(t, mine) == [hands  |-> t.hands + 1,
                    wins   |-> t.wins + (IF mine > 0 THEN 1 ELSE 0),
                    losses |-> t.losses + (IF mine < 0 THEN 1 ELSE 0),
                    ties   |-> t.ties + (IF mine = 0 THEN 1 ELSE 0),
                    total  |-> t.total + mine]
NoTally == [hands |-> 0, wins |-> 0, losses |-> 0, ties |-> 0, total |-> 0]
-----------------------------------------------------------------------------
(* No match is being played.                                               *)
NoTable == [i \in Envs |-> CHOOSE h \in NewHands : TRUE]
FirstSeats == [i \in Envs |-> FirstSeat(i)]

MatchInit ==
    /\ phase = "idle"
    /\ env = NoTable /\ seen = [i \in Envs |-> View(env[i])]
    /\ seat = FirstSeats /\ plan = NoPlan /\ cursor = 0
    /\ tally = NoTally /\ who = NobodyActed

(* The environments are reset and the seats dealt out.                     *)
Deal ==
    /\ env' \in [Envs -> NewHands]
    /\ seen' = [i \in Envs |-> View(env'[i])]
    /\ seat' = FirstSeats /\ plan' = NoPlan /\ cursor' = 0
    /\ tally' = NoTally /\ who' = NobodyActed
    /\ phase' = "select"

(* The match is over and its locals are gone.                              *)
ClearTable ==
    /\ phase' = "idle"
    /\ env' = NoTable /\ seen' = [i \in Envs |-> View(NoTable[i])]
    /\ seat' = FirstSeats /\ plan' = NoPlan /\ cursor' = 0
    /\ tally' = NoTally /\ who' = NobodyActed

Leave == phase = "select" /\ tally.hands >= Target /\ ClearTable

(* Each policy chooses for its own environments, from what is seen there.  *)
Select(Chosen(_, _)) ==
    /\ phase = "select" /\ tally.hands < Target
    /\ plan' \in [Envs -> Plans]
    /\ \A i \in Envs : /\ plan'[i].by = Acting(i)
                       /\ plan'[i].action \in Chosen(Acting(i), seen[i])
    /\ phase' = "step"
    /\ UNCHANGED <<env, seen, seat, cursor, tally, who>>

Stepping(i) == phase = "step" /\ cursor = i

(* On to the next environment, unless the match or the sweep is over: the  *)
(* choices are made anew in every sweep.                                   *)
Advance(i) ==
    IF i + 1 = NumEnvs \/ tally'.hands >= Target
    THEN phase' = "select" /\ cursor' = 0 /\ plan' = NoPlan
    ELSE cursor' = i + 1 /\ UNCHANGED <<phase, plan>>

(* step() of environment i, and the hand goes on ...  (An illegal action   *)
(* throws, and as nobody catches it the program would end here.)           *)
HandGoesOn(i) ==
    /\ Stepping(i) /\ plan[i].action \in env[i].mask
    /\ env[i].taken < MaxDecisions - 1
    /\ \E h \in Successors(env[i]) : /\ env' = [env EXCEPT ![i] = h]
                                     /\ seen' = [seen EXCEPT ![i] = View(h)]
    /\ who' = [who EXCEPT ![i][env[i].player] = @ \cup {plan[i].by}]
    /\ UNCHANGED <<seat, tally>>
    /\ Advance(i)

(* ... or is over: it is counted, the seats change, a new hand is dealt.   *)
HandEnds(i) ==
    /\ Stepping(i) /\ plan[i].action \in env[i].mask
    /\ \E r \in Rewards : tally' = Credit(tally, Mine(r, seat[i]))
    /\ seat' = [seat EXCEPT ![i] = NextSeat(@)]
    /\ \E h \in NewHands :
           /\ env' = [env EXCEPT ![i] = h]
           /\ seen' = [seen EXCEPT ![i] = ViewOfNewHand(@, h)]
    /\ who' = [who EXCEPT ![i] = NobodyActed[i]]
    /\ Advance(i)
=============================================================================
