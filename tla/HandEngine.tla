----------------------------- MODULE HandEngine -----------------------------
(***************************************************************************)
(* One heads-up hand as Game::transition plays it: the betting state of    *)
(* GameContext, the state variant of GameState.hpp (chance, action or      *)
(* terminal), the legal actions of DiscreteActionPolicy and the steps of   *)
(* Transitioner.  Seat 1 is the small blind and button, seat 0 the big     *)
(* blind.  Amounts are chips; an action's amount is what it adds to the    *)
(* pot (Game/GameBase.hpp).  The cards are abstracted: a showdown may have *)
(* any result.                                                             *)
(***************************************************************************)
EXTENDS Integers

CONSTANTS InitialStack, SmallBlind, BigBlind,
          MinBet,          \* smallest pot-fraction bet that is offered
          MaxRaises,       \* raises allowed on one street
          Percents,        \* the pot fractions of the bet menu, in percent
          AllInSlot,       \* include_all_in_slot
          LostInProduct,   \* <<fraction, pot>> whose product, in doubles,
                           \* stays below the whole number it should be
          FoundInSum,      \* <<fraction, pot, bet>> where adding the bet
                           \* rounds it up to that number again
          NegativeCast     \* what the build makes of uint32_t(-x), x > 0

ASSUME ConfigAssumption ==
    /\ InitialStack \in Nat /\ SmallBlind \in Nat /\ BigBlind \in Nat
    /\ SmallBlind <= InitialStack /\ BigBlind <= InitialStack
    /\ MinBet \in Nat /\ MaxRaises \in Nat
    /\ Percents \subseteq Nat
    /\ AllInSlot \in BOOLEAN
    /\ NegativeCast \subseteq {"wrap", "saturate"}

ASSUME RoundingAssumption ==
    /\ LostInProduct \subseteq {x \in Percents \X Nat :
                                   x[1] * x[2] > 0 /\ (x[1] * x[2]) % 100 = 0}
    /\ FoundInSum \subseteq {x \in Percents \X Nat \X Nat :
                                <<x[1], x[2]>> \in LostInProduct}

VARIABLES phase,           \* which alternative m_current_state holds
          bet,             \* the ActionState, or its defaults
          result,          \* the TerminalState, or its defaults
          round, player,   \* RoundData::number, PlayerData::currentPlayer
          stacks, pot,
          raiseNum,        \* BettingData::raiseNum: raises of the whole hand
          visibleRounds,   \* InfoSetData: streets whose cards were shown,
          actionsIn,       \* and how many actions each street recorded
          reraised         \* history: some street saw a second raise

money == <<stacks, pot, raiseNum>>
vars == <<phase, bet, result, round, player, money, visibleRounds, actionsIn,
          reraised>>

Seats == {0, 1}
Other(p) == 1 - p
NoPlayer == 255
Tie == 2
River == 3
Streets == 0 .. River

(* ActionState's defaults, but for the current bet.                        *)
OpenWith(chips) ==
    [firstActionTaken |-> FALSE, checksCount |-> 0, currentBet |-> chips,
     raiseCount |-> 0, lastRaiser |-> NoPlayer]
FreshBet == OpenWith(0)
NoResult == [winner |-> NoPlayer, pot |-> 0, reason |-> "SHOWDOWN"]

Preflop == round = 0
Blind(p) == IF p = 1 THEN SmallBlind ELSE BigBlind
-----------------------------------------------------------------------------
(***************************************************************************)
(* The legal actions.                                                      *)
(***************************************************************************)
Check == [kind |-> "check", amount |-> 0]
Fold == [kind |-> "fold", amount |-> 0]
Call(n) == [kind |-> "call", amount |-> n]
Raise(n) == [kind |-> "raise", amount |-> n]

(* The menu: each pot fraction on top of the current bet, cut to what the  *)
(* stack allows, and the stack itself.  (The code lists them in the order  *)
(* of the fractions, which every configuration gives ascending, and stops  *)
(* at the first that equals the stack: the set is this one.)  A size is    *)
(* the sum of doubles, cut down to a whole number: a fraction of the pot   *)
(* that is no whole number is far from one, and the product of one that is *)
(* may be a little too small.                                              *)
Lost(pct) == <<pct, pot>> \in LostInProduct
Found(pct) == <<pct, pot, bet.currentBet>> \in FoundInSum

PotSize(pct) == bet.currentBet + (pct * pot) \div 100
                - (IF Lost(pct) /\ ~Found(pct) THEN 1 ELSE 0)

BetSizes ==
    IF bet.raiseCount >= MaxRaises THEN {}
    ELSE {s \in {PotSize(pct) : pct \in Percents} :
              MinBet <= s /\ s <= stacks[player]}
         \cup {s \in {stacks[player]} : AllInSlot /\ s > bet.currentBet}

(* Faulty: the caller of the small blind's raise pays all of it.           *)
OwedInFull == bet.currentBet

(* The small blind's half blind counts once, when its own first raise is   *)
(* called.                                                                 *)
Owed == IF Preflop /\ bet.raiseCount = 1 /\ bet.lastRaiser = 1
        THEN bet.currentBet - SmallBlind
        ELSE bet.currentBet

FacingBet == (Preflop /\ ~bet.firstActionTaken) \/ bet.raiseCount > 0

CallAmount == IF Owed <= stacks[player] THEN Owed ELSE stacks[player]

Available ==
    IF phase # "action" THEN {}
    ELSE {Raise(s) : s \in BetSizes}
         \cup (IF FacingBet THEN {Call(CallAmount), Fold} ELSE {Check})
-----------------------------------------------------------------------------
(***************************************************************************)
(* The context's money operations.                                         *)
(***************************************************************************)
AddMoney(amount, isCall) ==
    /\ stacks' = [stacks EXCEPT ![player] = @ - amount]
    /\ pot' = pot + amount
    /\ raiseNum' = IF isCall THEN raiseNum ELSE raiseNum + 1

(* Faulty: the refund leaves the pot as it was.                            *)
PotKeepsRefund(p, x, cast) == p

(* updatePot(-x) converts a negative double to uint32_t.  Where the        *)
(* conversion wraps, adding the result to the 32-bit pot subtracts x;      *)
(* where it saturates, it adds nothing.                                    *)
PotAfterRefund(p, x, cast) == IF cast = "wrap" THEN p - x ELSE p

(* What updateInfoSets records, on the street the action is taken.         *)
RecordAction == actionsIn' = [actionsIn EXCEPT ![round] = @ + 1]

(* A new street: advanceRound, then the next chance node.                  *)
NextStreet == /\ phase' = "chance"
              /\ bet' = FreshBet
              /\ round' = round + 1
              /\ player' = 1
              /\ UNCHANGED result

Terminal(winner, finalPot, reason) ==
    /\ phase' = "terminal"
    /\ bet' = FreshBet
    /\ result' = [winner |-> winner, pot |-> finalPot, reason |-> reason]
    /\ UNCHANGED <<round, player>>

Showdown(finalPot) ==
    \E winner \in Seats \cup {Tie} : Terminal(winner, finalPot, "SHOWDOWN")

(* Faulty: the turn does not pass.                                         *)
StayOnSeat(newBet) == /\ bet' = newBet
                      /\ UNCHANGED <<phase, result, round, player>>

StayOnStreet(newBet) == /\ bet' = newBet
                        /\ player' = Other(player)
                        /\ UNCHANGED <<phase, result, round>>
-----------------------------------------------------------------------------
(* A hand about to be dealt, blinds posted.                                *)
Init == /\ phase = "chance" /\ bet = FreshBet /\ result = NoResult
        /\ round = 0 /\ player = 0
        /\ stacks = [p \in Seats |-> InitialStack - Blind(p)]
        /\ pot = SmallBlind + BigBlind
        /\ raiseNum = 0
        /\ visibleRounds = 0 /\ actionsIn = [r \in Streets |-> 0]
        /\ reraised = FALSE

(* reInitialize, which the environment's reset() may call at any time.     *)
ReInitialize ==
    /\ phase' = "chance" /\ bet' = FreshBet /\ result' = NoResult
    /\ round' = 0 /\ player' = 0
    /\ stacks' = [p \in Seats |-> InitialStack - Blind(p)]
    /\ pot' = SmallBlind + BigBlind
    /\ raiseNum' = 0
    /\ visibleRounds' = 0 /\ actionsIn' = [r \in Streets |-> 0]
    /\ reraised' = FALSE

(* The chance node.  Every ChanceState is built with type DEAL_HOLE, so    *)
(* every street opens with the small blind as current bet.                 *)
DealChance ==
    /\ phase = "chance"
    /\ phase' = "action"
    /\ bet' = OpenWith(SmallBlind)
    /\ player' = IF Preflop THEN 1 ELSE 0
    /\ visibleRounds' = IF visibleRounds > round THEN visibleRounds
                                                 ELSE round + 1
    /\ UNCHANGED <<result, round, money, actionsIn, reraised>>

(* Faulty: one check closes a street.                                      *)
CheckCloses ==
    /\ Check \in Available
    /\ IF round # River THEN NextStreet ELSE Showdown(pot)
    /\ RecordAction
    /\ UNCHANGED <<money, visibleRounds, reraised>>

DoCheck ==
    /\ Check \in Available
    /\ IF Preflop \/ bet.checksCount = 1
       THEN IF round # River THEN NextStreet ELSE Showdown(pot)
       ELSE StayOnStreet([bet EXCEPT !.checksCount = @ + 1,
                                     !.firstActionTaken = TRUE])
    /\ RecordAction
    /\ UNCHANGED <<money, visibleRounds, reraised>>

(* Faulty: every raise is counted as the first of its street.              *)
RaiseUncounted(amount) ==
    /\ Raise(amount) \in Available
    /\ StayOnStreet([firstActionTaken |-> TRUE, checksCount |-> 0,
                     currentBet |-> amount,
                     raiseCount |-> 1,
                     lastRaiser |-> player])
    /\ AddMoney(amount, FALSE)
    /\ RecordAction
    /\ reraised' = (reraised \/ bet.raiseCount > 0)
    /\ UNCHANGED visibleRounds

DoRaise(amount) ==
    /\ Raise(amount) \in Available
    /\ StayOnStreet([firstActionTaken |-> TRUE, checksCount |-> 0,
                     currentBet |-> amount,
                     raiseCount |-> bet.raiseCount + 1,
                     lastRaiser |-> player])
    /\ AddMoney(amount, FALSE)
    /\ RecordAction
    /\ reraised' = (reraised \/ bet.raiseCount > 0)
    /\ UNCHANGED visibleRounds

DoFold ==
    /\ Fold \in Available
    /\ Terminal(Other(player), pot, "FOLD")
    /\ UNCHANGED <<money, visibleRounds, actionsIn, reraised>>

(* The small blind completes: the big blind still has its option.          *)
Limp(amount) ==
    /\ Call(amount) \in Available
    /\ ~bet.firstActionTaken
    /\ StayOnStreet([bet EXCEPT !.firstActionTaken = TRUE])
    /\ AddMoney(amount, TRUE)
    /\ RecordAction
    /\ UNCHANGED <<visibleRounds, reraised>>

IsAllIn(amount) == amount >= stacks[player] \/ amount < Owed

(* A call for less than what is owed gives the difference back to the      *)
(* raiser, unless the raiser has nothing left behind.                      *)
AmountToReturn(amount) ==
    IF stacks[Other(player)] = 0 THEN 0 ELSE Owed - amount

CallAllIn(amount) ==
    /\ Call(amount) \in Available
    /\ bet.firstActionTaken
    /\ IsAllIn(amount)
    /\ LET refund == AmountToReturn(amount)
       IN  /\ stacks' = [stacks EXCEPT ![player] = @ - amount,
                                       ![Other(player)] = @ + refund]
           /\ IF refund > 0
              THEN \E cast \in NegativeCast :
                       pot' = PotAfterRefund(pot + amount, refund, cast)
              ELSE pot' = pot + amount
    /\ Showdown(pot + amount)
    /\ RecordAction
    /\ UNCHANGED <<raiseNum, visibleRounds, reraised>>

CallClosesStreet(amount) ==
    /\ Call(amount) \in Available
    /\ bet.firstActionTaken
    /\ ~IsAllIn(amount)
    /\ IF round # River THEN NextStreet ELSE Showdown(pot + amount)
    /\ AddMoney(amount, TRUE)
    /\ RecordAction
    /\ UNCHANGED <<visibleRounds, reraised>>

Amounts == 0 .. 2 * InitialStack

Transition ==
    \/ DealChance
    \/ DoCheck
    \/ DoFold
    \/ \E n \in Amounts : DoRaise(n) \/ Limp(n) \/ CallAllIn(n)
                          \/ CallClosesStreet(n)

Next == Transition \/ ReInitialize

Spec == Init /\ [][Next]_vars
-----------------------------------------------------------------------------
(***************************************************************************)
(* Properties.                                                             *)
(***************************************************************************)
TypeOK ==
    /\ phase \in {"chance", "action", "terminal"}
    /\ bet \in [firstActionTaken : BOOLEAN, checksCount : 0 .. 1,
                currentBet : Nat, raiseCount : 0 .. MaxRaises,
                lastRaiser : Seats \cup {NoPlayer}]
    /\ result \in [winner : Seats \cup {Tie, NoPlayer}, pot : Nat,
                   reason : {"SHOWDOWN", "FOLD"}]
    /\ round \in Streets
    /\ player \in Seats
    /\ stacks \in [Seats -> Nat]
    /\ pot \in Nat
    /\ raiseNum \in Nat
    /\ visibleRounds \in 0 .. River + 1
    /\ actionsIn \in [Streets -> Nat]
    /\ reraised \in BOOLEAN

(* getUtility: what the hand was worth to a seat, the tie halved in        *)
(* integers.                                                               *)
Contribution(p) == InitialStack - stacks[p]
Utility(p) == CASE result.winner = p -> pot - Contribution(p)
                [] result.winner = Tie -> pot \div 2 - Contribution(p)
                [] OTHER -> -Contribution(p)
UtilitySum == Utility(0) + Utility(1)

(* No chip appears or disappears between the stacks and the pot, refunds   *)
(* of uncalled bets included (where the cast in updatePot wraps).          *)
ChipsConserved == stacks[0] + stacks[1] + pot = 2 * InitialStack

(* The two rewards of a hand cancel, but for the odd chip of a tied pot.   *)
OnlyTheOddChipIsLost ==
    phase = "terminal" =>
        UtilitySum = IF result.winner = Tie THEN -(pot % 2) ELSE 0

(* As long as no street sees a second raise, both seats have paid the same *)
(* whenever a street or the hand ends in a call or a check.                *)
MatchedUnlessReraised ==
    (/\ ~reraised
     /\ \/ phase = "chance" /\ round > 0
        \/ phase = "terminal" /\ result.reason = "SHOWDOWN")
        => stacks[0] = stacks[1]

(* ... and nobody who has no chips left is asked to act.                   *)
NobodyBrokeActsUnlessReraised ==
    (~reraised /\ phase = "action") => stacks[player] > 0

(* The seat that answers a raise is never the seat that made it: the       *)
(* refund, the fold's winner and the blind's discount depend on it.        *)
RaiserIsTheOther ==
    phase = "action" =>
        IF bet.raiseCount > 0 THEN bet.lastRaiser = Other(player)
                              ELSE bet.lastRaiser = NoPlayer

(* The streets whose cards a seat was shown are those reached: a street is *)
(* dealt before it is played and never before its chance node.             *)
CardsShownInTime ==
    CASE phase = "chance" -> visibleRounds = round
      [] OTHER -> visibleRounds = round + 1

(* A street is left, other than by a fold, only when both seats have acted *)
(* on it.                                                                  *)
BothActed ==
    [][(phase = "action" /\ phase' # "action" /\ ~ReInitialize)
         => \/ phase' = "terminal" /\ result'.reason = "FOLD"
            \/ actionsIn'[round] >= 2]_vars

(* What is left of a hand, in transitions: every accepted action uses some *)
(* of it up, so a hand ends after at most 4 * (MaxRaises + 4) of them.     *)
StreetLength == MaxRaises + 4
Remaining ==
    CASE phase = "terminal" -> 0
      [] phase = "chance" -> (River - round) * StreetLength + MaxRaises + 4
      [] OTHER -> (River - round) * StreetLength
                  + (MaxRaises - bet.raiseCount)
                  + (IF bet.firstActionTaken THEN 0 ELSE 1) + 1
HandMakesProgress ==
    [][ReInitialize \/ (Remaining' < Remaining /\ Remaining' >= 0)]_vars
-----------------------------------------------------------------------------
(***************************************************************************)
(* What a test of the repository says, and the code does not do.           *)
(***************************************************************************)
(* Game/tests/showdown_test.cpp: "Tie: both players' contributions         *)
(* returned, so net 0 each" (of pots that can be halved).                  *)
TieReturnsContributions ==
    (phase = "terminal" /\ result.winner = Tie /\ pot % 2 = 0)
        => Utility(0) = 0 /\ Utility(1) = 0
-----------------------------------------------------------------------------
(***************************************************************************)
(* The inductive strengthening the proofs rest on.                         *)
(***************************************************************************)
(* A street opens with the small blind as current bet, which never falls;  *)
(* a raise has put at least its amount into the pot, so that a refund      *)
(* never exceeds the pot; and a raise is an action.                        *)
BetCovered ==
    phase = "action" =>
        /\ bet.currentBet >= SmallBlind
        /\ bet.raiseCount > 0 => bet.currentBet <= pot /\ bet.firstActionTaken

(* What the flags of a street say of the actions recorded on it, and that  *)
(* without a raise the first action after the flop was a check.            *)
ActedOnce ==
    phase = "action" =>
        /\ bet.firstActionTaken \/ bet.checksCount = 1 => actionsIn[round] >= 1
        /\ bet.firstActionTaken /\ ~Preflop /\ bet.raiseCount = 0
               => bet.checksCount = 1

IInv == TypeOK /\ BetCovered /\ RaiserIsTheOther /\ ActedOnce

(* What updatePot(-x) must do for the ledger to balance, and the ledger.   *)
CastWraps == NegativeCast = {"wrap"}

Ledger == /\ ChipsConserved
          /\ phase = "terminal" => result.winner \in Seats \cup {Tie}

(* Who has paid what while no street saw a second raise.  The discount of  *)
(* Owed is the big blind's lead over the small one only if the big blind   *)
(* is twice the small.                                                     *)
BlindsDoubled == BigBlind = 2 * SmallBlind /\ BigBlind < InitialStack

Even == stacks[0] = stacks[1] /\ stacks[0] > 0
OnlyBlindsPaid == \A p \in Seats : stacks[p] = InitialStack - Blind(p)

Level ==
    ~reraised =>
        /\ phase = "chance" => IF Preflop THEN OnlyBlindsPaid ELSE Even
        /\ phase = "action" /\ bet.raiseCount = 0 =>
               IF Preflop /\ ~bet.firstActionTaken
               THEN OnlyBlindsPaid /\ player = 1 /\ bet.currentBet = SmallBlind
               ELSE Even /\ (Preflop => player = 0)
        /\ phase = "action" /\ bet.raiseCount > 0 =>
               /\ bet.raiseCount = 1
               /\ stacks[player] = stacks[Other(player)] + Owed
               /\ stacks[player] > 0
        /\ phase = "terminal" /\ result.reason = "SHOWDOWN" =>
               stacks[0] = stacks[1]
=============================================================================
