----------------------- MODULE PokerEnvironment_proofs -----------------------
(***************************************************************************)
(* Proofs about one hand: the engine (HandEngine), the environment around  *)
(* it (PokerEnvironment) and the row of numbers built from it              *)
(* (Observation), for every stack, blind, bet menu and raise limit.        *)
(***************************************************************************)
EXTENDS Observation, SharedLemmas

(***************************************************************************)
(* HandEngine.  IInv is preserved by each action of Transitioner (one      *)
(* lemma per action); chip conservation needs the cast of updatePot to     *)
(* wrap, and the matching of the two seats' payments a big blind of two    *)
(* small blinds.                                                           *)
(***************************************************************************)
(* A product that is cut too low is a whole number, and not 0; and what    *)
(* the sum gives back was lost.                                            *)
LEMMA SizeFacts ==
    ASSUME IInv, NEW pct \in Percents
    PROVE  /\ (pct * pot) \div 100 \in Nat
           /\ Lost(pct) => (pct * pot) \div 100 >= 1
           /\ Found(pct) => Lost(pct)
<1>1. pct \in Nat /\ pot \in Nat
  BY ConfigAssumption DEF IInv, TypeOK
<1>2. pct * pot \in Nat
  BY <1>1
<1>3. \A k \in Nat : k \div 100 \in Nat
                    /\ (k > 0 /\ k % 100 = 0 => k \div 100 >= 1)
  OBVIOUS
<1>4. Lost(pct) => pct * pot > 0 /\ (pct * pot) % 100 = 0
  BY RoundingAssumption DEF Lost
<1>5. Found(pct) => Lost(pct)
  <2>1. ASSUME Found(pct) PROVE Lost(pct)
    <3> DEFINE x == <<pct, pot, bet.currentBet>>
    <3>1. <<x[1], x[2]>> \in LostInProduct
      BY <2>1, RoundingAssumption DEF Found
    <3> QED
      BY <3>1 DEF Lost
  <2> QED
    BY <2>1
<1> HIDE DEF Lost, Found
<1> QED
  BY <1>2, <1>3, <1>4, <1>5

LEMMA MenuFacts ==
    ASSUME IInv, phase = "action",
           NEW n, Raise(n) \in Available
    PROVE  /\ n \in Nat
           /\ n <= stacks[player]
           /\ n >= bet.currentBet
           /\ bet.raiseCount < MaxRaises
<1>1. n \in BetSizes
  BY DEF Available, Raise, Call, Fold, Check
<1>2. bet.raiseCount \in Nat /\ MaxRaises \in Nat /\ bet.raiseCount < MaxRaises
  BY <1>1, ConfigAssumption DEF BetSizes, IInv, TypeOK
<1>3. bet.currentBet \in Nat /\ stacks[player] \in Nat /\ pot \in Nat
  BY DEF IInv, TypeOK
<1>4. CASE \E pct \in Percents : n = PotSize(pct) /\ n <= stacks[player]
  <2>1. PICK pct \in Percents : n = PotSize(pct) /\ n <= stacks[player]
    BY <1>4
  <2>2. /\ (pct * pot) \div 100 \in Nat
        /\ Lost(pct) => (pct * pot) \div 100 >= 1
    BY SizeFacts
  <2> QED
    BY <2>1, <2>2, <1>2, <1>3 DEF PotSize
<1>5. CASE n = stacks[player] /\ n > bet.currentBet
  BY <1>5, <1>2, <1>3
<1> QED
  BY <1>1, <1>2, <1>4, <1>5 DEF BetSizes

LEMMA CallFacts ==
    ASSUME IInv, phase = "action",
           NEW n, Call(n) \in Available
    PROVE  /\ n = CallAmount
           /\ n \in Nat
           /\ Owed \in Nat
           /\ Owed <= bet.currentBet
           /\ n <= stacks[player]
           /\ n <= Owed
           /\ n < Owed => n = stacks[player]
           /\ FacingBet
<1>1. n = CallAmount /\ FacingBet
  BY DEF Available, Raise, Call, Fold, Check
<1>2. bet.currentBet \in Nat /\ stacks[player] \in Nat /\ SmallBlind \in Nat
  BY ConfigAssumption DEF IInv, TypeOK
<1>3. bet.currentBet >= SmallBlind
  BY DEF IInv, BetCovered
<1>4. Owed \in Nat /\ Owed <= bet.currentBet
  BY <1>2, <1>3 DEF Owed
<1> QED
  BY <1>1, <1>2, <1>4 DEF CallAmount

(* A call after the first action answers a raise that is in the pot.       *)
LEMMA CallAnswersRaise ==
    ASSUME IInv, phase = "action", FacingBet, bet.firstActionTaken
    PROVE  bet.raiseCount > 0 /\ bet.currentBet <= pot
<1>1. bet.raiseCount > 0
  BY DEF FacingBet
<1> QED
  BY <1>1 DEF IInv, BetCovered

LEMMA InitIInv == Init => IInv
<1> SUFFICES ASSUME Init PROVE IInv
  OBVIOUS
<1>1. stacks \in [Seats -> Nat]
  <2>1. \A p \in Seats : InitialStack - Blind(p) \in Nat
    BY ConfigAssumption DEF Blind
  <2> QED
    BY <2>1 DEF Init
<1>2. bet \in [firstActionTaken : BOOLEAN, checksCount : 0 .. 1,
               currentBet : Nat, raiseCount : 0 .. MaxRaises,
               lastRaiser : Seats \cup {NoPlayer}]
  BY ConfigAssumption DEF Init, FreshBet, OpenWith
<1>3. pot \in Nat /\ raiseNum \in Nat /\ visibleRounds \in 0 .. River + 1
      /\ round \in Streets /\ player \in Seats
  BY ConfigAssumption DEF Init, River, Streets, Seats
<1>4. actionsIn \in [Streets -> Nat]
  BY DEF Init
<1>5. result \in [winner : Seats \cup {Tie, NoPlayer}, pot : Nat,
                  reason : {"SHOWDOWN", "FOLD"}]
  BY DEF Init, NoResult
<1>6. phase = "chance" /\ reraised \in BOOLEAN
  BY DEF Init
<1> QED
  BY <1>1, <1>2, <1>3, <1>4, <1>5, <1>6
  DEF IInv, TypeOK, BetCovered, RaiserIsTheOther, ActedOnce

LEMMA ReInitializeIInv == ReInitialize => IInv'
<1> SUFFICES ASSUME ReInitialize PROVE IInv'
  OBVIOUS
<1>1. stacks' \in [Seats -> Nat]
  <2>1. \A p \in Seats : InitialStack - Blind(p) \in Nat
    BY ConfigAssumption DEF Blind
  <2> QED
    BY <2>1 DEF ReInitialize
<1>2. bet' \in [firstActionTaken : BOOLEAN, checksCount : 0 .. 1,
                currentBet : Nat, raiseCount : 0 .. MaxRaises,
                lastRaiser : Seats \cup {NoPlayer}]
  BY ConfigAssumption DEF ReInitialize, FreshBet, OpenWith
<1>3. pot' \in Nat /\ raiseNum' \in Nat /\ visibleRounds' \in 0 .. River + 1
      /\ round' \in Streets /\ player' \in Seats
  BY ConfigAssumption DEF ReInitialize, River, Streets, Seats
<1>4. actionsIn' \in [Streets -> Nat]
  BY DEF ReInitialize
<1>5. result' \in [winner : Seats \cup {Tie, NoPlayer}, pot : Nat,
                   reason : {"SHOWDOWN", "FOLD"}]
  BY DEF ReInitialize, NoResult
<1>6. phase' = "chance" /\ reraised' \in BOOLEAN
  BY DEF ReInitialize
<1> QED
  BY <1>1, <1>2, <1>3, <1>4, <1>5, <1>6
  DEF IInv, TypeOK, BetCovered, RaiserIsTheOther, ActedOnce

(* What the common parts of the actions give.                              *)
LEMMA RecordFacts ==
    ASSUME IInv, RecordAction
    PROVE  /\ actionsIn' \in [Streets -> Nat]
           /\ actionsIn'[round] >= 1
           /\ actionsIn'[round] = actionsIn[round] + 1
           /\ actionsIn[round] \in Nat
<1>1. round \in Streets /\ actionsIn \in [Streets -> Nat]
  BY DEF IInv, TypeOK
<1> QED
  BY <1>1 DEF RecordAction

LEMMA NextStreetFacts ==
    ASSUME IInv, round # River, NextStreet
    PROVE  /\ phase' = "chance"
           /\ bet' \in [firstActionTaken : BOOLEAN, checksCount : 0 .. 1,
                        currentBet : Nat, raiseCount : 0 .. MaxRaises,
                        lastRaiser : Seats \cup {NoPlayer}]
           /\ result' \in [winner : Seats \cup {Tie, NoPlayer}, pot : Nat,
                           reason : {"SHOWDOWN", "FOLD"}]
           /\ round' \in Streets
           /\ player' \in Seats
<1>1. bet' \in [firstActionTaken : BOOLEAN, checksCount : 0 .. 1,
                currentBet : Nat, raiseCount : 0 .. MaxRaises,
                lastRaiser : Seats \cup {NoPlayer}]
  BY ConfigAssumption DEF NextStreet, FreshBet, OpenWith
<1>2. round' \in Streets
  BY DEF NextStreet, IInv, TypeOK, Streets, River
<1> QED
  BY <1>1, <1>2 DEF NextStreet, IInv, TypeOK, Seats

LEMMA ShowdownFacts ==
    ASSUME IInv, NEW p \in Nat, Showdown(p)
    PROVE  /\ phase' = "terminal"
           /\ bet' \in [firstActionTaken : BOOLEAN, checksCount : 0 .. 1,
                        currentBet : Nat, raiseCount : 0 .. MaxRaises,
                        lastRaiser : Seats \cup {NoPlayer}]
           /\ result' \in [winner : Seats \cup {Tie, NoPlayer}, pot : Nat,
                           reason : {"SHOWDOWN", "FOLD"}]
           /\ result'.reason = "SHOWDOWN"
           /\ round' = round
           /\ round' \in Streets
           /\ player' \in Seats
<1>1. PICK winner \in Seats \cup {Tie} : Terminal(winner, p, "SHOWDOWN")
  BY DEF Showdown
<1>2. bet' \in [firstActionTaken : BOOLEAN, checksCount : 0 .. 1,
                currentBet : Nat, raiseCount : 0 .. MaxRaises,
                lastRaiser : Seats \cup {NoPlayer}]
  BY <1>1, ConfigAssumption DEF Terminal, FreshBet, OpenWith
<1> QED
  BY <1>1, <1>2 DEF Terminal, IInv, TypeOK
-----------------------------------------------------------------------------
(***************************************************************************)
(* Each action preserves IInv.                                             *)
(***************************************************************************)
LEMMA DealChanceIInv == IInv /\ DealChance => IInv'
<1> SUFFICES ASSUME IInv, DealChance PROVE IInv'
  OBVIOUS
<1>1. /\ bet' = [firstActionTaken |-> FALSE, checksCount |-> 0,
                 currentBet |-> SmallBlind, raiseCount |-> 0,
                 lastRaiser |-> NoPlayer]
      /\ bet' \in [firstActionTaken : BOOLEAN, checksCount : 0 .. 1,
                   currentBet : Nat, raiseCount : 0 .. MaxRaises,
                   lastRaiser : Seats \cup {NoPlayer}]
  BY ConfigAssumption DEF DealChance, FreshBet, OpenWith
<1>2. visibleRounds' \in 0 .. River + 1
  BY DEF DealChance, IInv, TypeOK, River, Streets
<1>3. TypeOK'
  BY <1>1, <1>2 DEF DealChance, IInv, TypeOK, money, Seats
<1>4. BetCovered'
  BY <1>1, ConfigAssumption DEF BetCovered
<1>5. RaiserIsTheOther' /\ ActedOnce'
  BY <1>1 DEF RaiserIsTheOther, ActedOnce
<1> QED
  BY <1>3, <1>4, <1>5 DEF IInv

LEMMA DoCheckIInv == IInv /\ DoCheck => IInv'
<1> SUFFICES ASSUME IInv, DoCheck PROVE IInv'
  OBVIOUS
<1>1. /\ phase = "action"
      /\ pot \in Nat
      /\ UNCHANGED <<stacks, pot, raiseNum, visibleRounds, reraised>>
  BY DEF DoCheck, Available, money, IInv, TypeOK
<1>2. ~FacingBet
  BY DEF DoCheck, Available, Check, Fold, Call, Raise
<1>3. /\ actionsIn' \in [Streets -> Nat]
      /\ actionsIn'[round] >= 1
  BY RecordFacts DEF DoCheck
<1>4. CASE Preflop \/ bet.checksCount = 1
  <2>1. CASE round # River
    <3>1. NextStreet
      BY <1>4, <2>1 DEF DoCheck
    <3> QED
      BY <3>1, <2>1, <1>1, <1>3, NextStreetFacts
      DEF IInv, TypeOK, BetCovered, RaiserIsTheOther, ActedOnce
  <2>2. CASE round = River
    <3>1. Showdown(pot)
      BY <1>4, <2>2 DEF DoCheck
    <3> QED
      BY <3>1, <1>1, <1>3, ShowdownFacts
      DEF IInv, TypeOK, BetCovered, RaiserIsTheOther, ActedOnce
  <2> QED
    BY <2>1, <2>2
<1>5. CASE ~(Preflop \/ bet.checksCount = 1)
  <2>1. StayOnStreet([bet EXCEPT !.checksCount = @ + 1,
                                 !.firstActionTaken = TRUE])
    BY <1>5 DEF DoCheck
  <2>2. bet.checksCount = 0
    BY <1>5 DEF IInv, TypeOK
  <2>3. /\ bet' \in [firstActionTaken : BOOLEAN, checksCount : 0 .. 1,
                     currentBet : Nat, raiseCount : 0 .. MaxRaises,
                     lastRaiser : Seats \cup {NoPlayer}]
        /\ bet'.checksCount = 1
        /\ bet'.currentBet = bet.currentBet
        /\ bet'.raiseCount = bet.raiseCount
        /\ bet'.lastRaiser = bet.lastRaiser
    <3> DEFINE counted == [bet EXCEPT !.checksCount = @ + 1]
    <3>1. /\ counted \in [firstActionTaken : BOOLEAN, checksCount : 0 .. 1,
                          currentBet : Nat, raiseCount : 0 .. MaxRaises,
                          lastRaiser : Seats \cup {NoPlayer}]
          /\ counted.checksCount = 1
          /\ counted.currentBet = bet.currentBet
          /\ counted.raiseCount = bet.raiseCount
          /\ counted.lastRaiser = bet.lastRaiser
      BY <2>2 DEF IInv, TypeOK
    <3>2. bet' = [counted EXCEPT !.firstActionTaken = TRUE]
      BY <2>1 DEF StayOnStreet
    <3> HIDE DEF counted
    <3> QED
      BY <3>1, <3>2
  <2>4. TypeOK'
    BY <2>1, <2>3, <1>1, <1>3 DEF StayOnStreet, IInv, TypeOK, Seats, Other
  <2>5. bet.raiseCount \in Nat /\ ~(bet.raiseCount > 0)
    BY <1>2, ConfigAssumption DEF FacingBet, IInv, TypeOK
  <2> QED
    BY <2>1, <2>3, <2>4, <2>5, <1>1, <1>3
    DEF StayOnStreet, IInv, BetCovered, RaiserIsTheOther, ActedOnce
<1> QED
  BY <1>4, <1>5

LEMMA DoRaiseIInv == \A n : IInv /\ DoRaise(n) => IInv'
<1> SUFFICES ASSUME NEW n, IInv, DoRaise(n) PROVE IInv'
  OBVIOUS
<1>1. phase = "action"
  BY DEF DoRaise, Available
<1>2. /\ n \in Nat
      /\ n <= stacks[player]
      /\ n >= bet.currentBet
      /\ bet.raiseCount < MaxRaises
  BY <1>1, MenuFacts DEF DoRaise
<1>3. /\ bet.raiseCount \in Nat
      /\ bet.currentBet \in Nat
      /\ player \in Seats
      /\ stacks \in [Seats -> Nat]
      /\ pot \in Nat
      /\ raiseNum \in Nat
  BY ConfigAssumption DEF IInv, TypeOK
<1>4. /\ bet' = [firstActionTaken |-> TRUE, checksCount |-> 0,
                 currentBet |-> n, raiseCount |-> bet.raiseCount + 1,
                 lastRaiser |-> player]
      /\ player' = Other(player)
      /\ UNCHANGED <<phase, result, round>>
  BY DEF DoRaise, StayOnStreet
<1>5. bet' \in [firstActionTaken : BOOLEAN, checksCount : 0 .. 1,
                currentBet : Nat, raiseCount : 0 .. MaxRaises,
                lastRaiser : Seats \cup {NoPlayer}]
  BY <1>2, <1>3, <1>4, ConfigAssumption
<1>6. /\ stacks' \in [Seats -> Nat]
      /\ pot' = pot + n
      /\ raiseNum' \in Nat
  BY <1>2, <1>3 DEF DoRaise, AddMoney
<1>7. /\ actionsIn' \in [Streets -> Nat]
      /\ actionsIn'[round] >= 1
  BY RecordFacts DEF DoRaise
<1>8. reraised' \in BOOLEAN /\ visibleRounds' = visibleRounds
  BY DEF DoRaise
<1>9. TypeOK'
  BY <1>2, <1>3, <1>4, <1>5, <1>6, <1>7, <1>8
  DEF IInv, TypeOK, Seats, Other
<1>10. BetCovered'
  <2>1. n >= SmallBlind
    BY <1>1, <1>2, <1>3, ConfigAssumption DEF IInv, BetCovered
  <2> QED
    BY <2>1, <1>2, <1>3, <1>4, <1>6 DEF BetCovered
<1>11. RaiserIsTheOther'
  BY <1>3, <1>4 DEF RaiserIsTheOther, Other, Seats
<1> QED
  BY <1>3, <1>4, <1>7, <1>9, <1>10, <1>11 DEF IInv, ActedOnce

LEMMA DoFoldIInv == IInv /\ DoFold => IInv'
<1> SUFFICES ASSUME IInv, DoFold PROVE IInv'
  OBVIOUS
<1>1. Terminal(Other(player), pot, "FOLD")
      /\ UNCHANGED <<money, visibleRounds, actionsIn, reraised>>
  BY DEF DoFold
<1>2. bet' \in [firstActionTaken : BOOLEAN, checksCount : 0 .. 1,
                currentBet : Nat, raiseCount : 0 .. MaxRaises,
                lastRaiser : Seats \cup {NoPlayer}]
  BY <1>1, ConfigAssumption DEF Terminal, FreshBet, OpenWith
<1>3. result' \in [winner : Seats \cup {Tie, NoPlayer}, pot : Nat,
                   reason : {"SHOWDOWN", "FOLD"}]
  BY <1>1 DEF Terminal, IInv, TypeOK, Seats, Other
<1> QED
  BY <1>1, <1>2, <1>3
  DEF Terminal, money, IInv, TypeOK, BetCovered, RaiserIsTheOther, ActedOnce

LEMMA LimpIInv == \A n : IInv /\ Limp(n) => IInv'
<1> SUFFICES ASSUME NEW n, IInv, Limp(n) PROVE IInv'
  OBVIOUS
<1>1. phase = "action" /\ bet.firstActionTaken = FALSE
  BY DEF Limp, Available, IInv, TypeOK
<1>2. n \in Nat /\ n <= stacks[player] /\ FacingBet
  BY <1>1, CallFacts DEF Limp
<1>3. /\ bet.raiseCount = 0
      /\ bet.currentBet \in Nat
      /\ player \in Seats
      /\ stacks \in [Seats -> Nat]
      /\ pot \in Nat
      /\ raiseNum \in Nat
  BY <1>1, ConfigAssumption DEF IInv, TypeOK, BetCovered
<1>4. /\ bet' = [bet EXCEPT !.firstActionTaken = TRUE]
      /\ player' = Other(player)
      /\ UNCHANGED <<phase, result, round>>
  BY DEF Limp, StayOnStreet
<1>5. /\ bet' \in [firstActionTaken : BOOLEAN, checksCount : 0 .. 1,
                   currentBet : Nat, raiseCount : 0 .. MaxRaises,
                   lastRaiser : Seats \cup {NoPlayer}]
      /\ bet'.currentBet = bet.currentBet
      /\ bet'.raiseCount = bet.raiseCount
      /\ bet'.lastRaiser = bet.lastRaiser
  BY <1>4 DEF IInv, TypeOK
<1>6. /\ stacks' \in [Seats -> Nat]
      /\ pot' \in Nat
      /\ raiseNum' = raiseNum
  BY <1>2, <1>3 DEF Limp, AddMoney
<1>7. /\ actionsIn' \in [Streets -> Nat]
      /\ actionsIn'[round] >= 1
  BY RecordFacts DEF Limp
<1>8. TypeOK'
  BY <1>3, <1>4, <1>5, <1>6, <1>7 DEF Limp, IInv, TypeOK, Seats, Other
<1>9. Preflop'
  BY <1>1, <1>2, <1>3, <1>4 DEF FacingBet, Preflop
<1> QED
  BY <1>1, <1>3, <1>4, <1>5, <1>7, <1>8, <1>9
  DEF IInv, BetCovered, RaiserIsTheOther, ActedOnce

LEMMA CallAllInIInv == \A n : IInv /\ CallAllIn(n) => IInv'
<1> SUFFICES ASSUME NEW n, IInv, CallAllIn(n) PROVE IInv'
  OBVIOUS
<1>1. phase = "action" /\ bet.firstActionTaken
  BY DEF CallAllIn, Available
<1>2. /\ n \in Nat
      /\ n <= stacks[player]
      /\ n <= Owed
      /\ Owed \in Nat
      /\ Owed <= bet.currentBet
      /\ FacingBet
  BY <1>1, CallFacts DEF CallAllIn
<1>3. bet.currentBet <= pot
  BY <1>1, <1>2, CallAnswersRaise
<1>4. /\ bet.currentBet \in Nat
      /\ player \in Seats
      /\ stacks \in [Seats -> Nat]
      /\ pot \in Nat
  BY DEF IInv, TypeOK
<1> DEFINE refund == AmountToReturn(n)
<1>5. refund \in Nat /\ refund <= pot
  BY <1>2, <1>3, <1>4 DEF AmountToReturn
<1>6. stacks' \in [Seats -> Nat]
  <2>1. stacks' = [stacks EXCEPT ![player] = @ - n,
                                 ![Other(player)] = @ + refund]
    BY DEF CallAllIn
  <2> HIDE DEF refund
  <2>2. Other(player) \in Seats /\ Other(player) # player
    BY <1>4 DEF Other, Seats
  <2> QED
    BY <2>1, <2>2, <1>2, <1>4, <1>5
<1>7. pot' \in Nat
  <2>1. IF refund > 0
        THEN \E cast \in NegativeCast :
                 pot' = PotAfterRefund(pot + n, refund, cast)
        ELSE pot' = pot + n
    BY DEF CallAllIn
  <2> HIDE DEF refund
  <2> QED
    BY <2>1, <1>2, <1>4, <1>5 DEF PotAfterRefund
<1>8. actionsIn' \in [Streets -> Nat]
  BY RecordFacts DEF CallAllIn
<1>9. /\ Showdown(pot + n)
      /\ pot + n \in Nat
      /\ UNCHANGED <<raiseNum, visibleRounds, reraised>>
  BY <1>2, <1>4 DEF CallAllIn
<1> QED
  BY <1>6, <1>7, <1>8, <1>9, ShowdownFacts
  DEF IInv, TypeOK, BetCovered, RaiserIsTheOther, ActedOnce

LEMMA CallClosesStreetIInv == \A n : IInv /\ CallClosesStreet(n) => IInv'
<1> SUFFICES ASSUME NEW n, IInv, CallClosesStreet(n) PROVE IInv'
  OBVIOUS
<1>1. phase = "action"
  BY DEF CallClosesStreet, Available
<1>2. n \in Nat /\ n <= stacks[player]
  BY <1>1, CallFacts DEF CallClosesStreet
<1>3. /\ player \in Seats
      /\ stacks \in [Seats -> Nat]
      /\ pot \in Nat
      /\ raiseNum \in Nat
  BY DEF IInv, TypeOK
<1>4. /\ stacks' \in [Seats -> Nat]
      /\ pot' \in Nat
      /\ raiseNum' \in Nat
      /\ UNCHANGED <<visibleRounds, reraised>>
  BY <1>2, <1>3 DEF CallClosesStreet, AddMoney
<1>5. actionsIn' \in [Streets -> Nat]
  BY RecordFacts DEF CallClosesStreet
<1>6. CASE round # River
  <2>1. NextStreet
    BY <1>6 DEF CallClosesStreet
  <2> QED
    BY <2>1, <1>4, <1>5, <1>6, NextStreetFacts
    DEF IInv, TypeOK, BetCovered, RaiserIsTheOther, ActedOnce
<1>7. CASE round = River
  <2>1. Showdown(pot + n) /\ pot + n \in Nat
    BY <1>2, <1>3, <1>7 DEF CallClosesStreet
  <2> QED
    BY <2>1, <1>4, <1>5, ShowdownFacts
    DEF IInv, TypeOK, BetCovered, RaiserIsTheOther, ActedOnce
<1> QED
  BY <1>6, <1>7

LEMMA StutterIInv == IInv /\ UNCHANGED vars => IInv'
  BY DEF vars, money, IInv, TypeOK, BetCovered, RaiserIsTheOther, ActedOnce,
         Other, Seats, Preflop

LEMMA NextIInv == IInv /\ [Next]_vars => IInv'
  BY DealChanceIInv, DoCheckIInv, DoRaiseIInv, DoFoldIInv, LimpIInv,
     CallAllInIInv, CallClosesStreetIInv, ReInitializeIInv, StutterIInv
  DEF Next, Transition

(* IInv holds in every reachable state.                                    *)
THEOREM Invariance == Spec => []IInv
  BY InitIInv, NextIInv, PTL DEF Spec

(* The variables keep their types whatever the conversion of a negative    *)
(* refund yields: no stack and no pot goes below zero, and no street sees  *)
(* more than MaxRaises raises.                                             *)
THEOREM TypeCorrect == Spec => []TypeOK
<1>1. IInv => TypeOK
  BY DEF IInv
<1> QED
  BY Invariance, <1>1, PTL

(* The seat asked to answer a raise is never the raiser.                   *)
THEOREM RaiserNeverAnswersItself == Spec => []RaiserIsTheOther
<1>1. IInv => RaiserIsTheOther
  BY DEF IInv
<1> QED
  BY Invariance, <1>1, PTL

(* A street's cards are shown by its chance node, neither earlier nor      *)
(* later.                                                                  *)
THEOREM CardsInTime == Spec => []CardsShownInTime
<1>1. Init => CardsShownInTime
  BY DEF Init, CardsShownInTime
<1>2. IInv /\ CardsShownInTime /\ [Next]_vars => CardsShownInTime'
  <2> SUFFICES ASSUME IInv, CardsShownInTime, [Next]_vars
               PROVE  CardsShownInTime'
    OBVIOUS
  <2> USE DEF CardsShownInTime
  <2>0. round \in 0 .. 3
    BY DEF IInv, TypeOK, Streets, River
  <2>1. CASE DealChance
    BY <2>0, <2>1 DEF DealChance
  <2>2. CASE DoCheck
    BY <2>0, <2>2 DEF DoCheck, Available, NextStreet, Showdown, Terminal,
                      StayOnStreet
  <2>3. CASE DoFold
    BY <2>0, <2>3 DEF DoFold, Available, Terminal
  <2>4. CASE \E n \in Amounts : DoRaise(n)
    BY <2>0, <2>4 DEF DoRaise, Available, StayOnStreet
  <2>5. CASE \E n \in Amounts : Limp(n)
    BY <2>0, <2>5 DEF Limp, Available, StayOnStreet
  <2>6. CASE \E n \in Amounts : CallAllIn(n)
    BY <2>0, <2>6 DEF CallAllIn, Available, Showdown, Terminal
  <2>7. CASE \E n \in Amounts : CallClosesStreet(n)
    BY <2>0, <2>7 DEF CallClosesStreet, Available, NextStreet, Showdown,
                      Terminal
  <2>8. CASE ReInitialize
    BY <2>8 DEF ReInitialize
  <2>9. CASE UNCHANGED vars
    BY <2>9 DEF vars
  <2> QED
    BY <2>1, <2>2, <2>3, <2>4, <2>5, <2>6, <2>7, <2>8, <2>9
    DEF Next, Transition
<1> QED
  BY Invariance, <1>1, <1>2, PTL DEF Spec

(* Other than by a fold, a street is left only after two actions on it: a  *)
(* check or a call that closes it is never the first action.               *)
THEOREM StreetsNeedBothSeats == Spec => BothActed
<1>1. IInv /\ [Next]_vars =>
         [(phase = "action" /\ phase' # "action" /\ ~ReInitialize)
           => \/ phase' = "terminal" /\ result'.reason = "FOLD"
              \/ actionsIn'[round] >= 2]_vars
  <2> SUFFICES ASSUME IInv, Next, phase = "action", phase' # "action",
                      ~ReInitialize
               PROVE  \/ phase' = "terminal" /\ result'.reason = "FOLD"
                      \/ actionsIn'[round] >= 2
    OBVIOUS
  <2>1. ASSUME bet.firstActionTaken \/ bet.checksCount = 1, RecordAction
        PROVE  actionsIn'[round] >= 2
    BY <2>1, RecordFacts DEF IInv, ActedOnce
  <2>2. CASE DoCheck
    <3>1. ~FacingBet /\ RecordAction
      BY <2>2 DEF DoCheck, Available, Check, Fold, Call, Raise
    <3>2. Preflop \/ bet.checksCount = 1
      BY <2>2 DEF DoCheck, StayOnStreet
    <3> QED
      BY <2>1, <3>1, <3>2 DEF FacingBet
  <2>3. CASE DoFold
    BY <2>3 DEF DoFold, Terminal
  <2>4. CASE \E n \in Amounts : CallAllIn(n) \/ CallClosesStreet(n)
    BY <2>1, <2>4 DEF CallAllIn, CallClosesStreet
  <2>5. ~DealChance /\ \A n \in Amounts : ~DoRaise(n) /\ ~Limp(n)
    BY DEF DealChance, DoRaise, Limp, StayOnStreet
  <2> QED
    BY <2>2, <2>3, <2>4, <2>5 DEF Next, Transition
<1> QED
  BY Invariance, <1>1, PTL DEF Spec, BothActed

-----------------------------------------------------------------------------
(***************************************************************************)
(* Chips.                                                                  *)
(***************************************************************************)
(* An AddMoney of chips the seat has leaves the total unchanged.           *)
LEMMA AddMoneyConserves ==
    ASSUME IInv, ChipsConserved, NEW n \in Nat, NEW isCall,
           AddMoney(n, isCall)
    PROVE  ChipsConserved'
  BY DEF AddMoney, ChipsConserved, IInv, TypeOK, Seats

LEMMA AllInConserves ==
    ASSUME IInv, ChipsConserved, CastWraps, NEW n, CallAllIn(n)
    PROVE  ChipsConserved'
<1>1. phase = "action"
  BY DEF CallAllIn, Available
<1>2. n \in Nat /\ Owed \in Nat /\ n <= Owed
  BY <1>1, CallFacts DEF CallAllIn
<1>3. /\ player \in {0, 1}
      /\ stacks \in [{0, 1} -> Nat]
      /\ pot \in Nat
  BY DEF IInv, TypeOK, Seats
<1> DEFINE refund == AmountToReturn(n)
<1>4. refund \in Nat
  BY <1>2 DEF AmountToReturn
<1>5. stacks' = [stacks EXCEPT ![player] = @ - n,
                               ![Other(player)] = @ + refund]
  BY DEF CallAllIn
<1>6. pot' = pot + n - refund
  <2>1. IF refund > 0
        THEN \E cast \in NegativeCast :
                 pot' = PotAfterRefund(pot + n, refund, cast)
        ELSE pot' = pot + n
    BY DEF CallAllIn
  <2> HIDE DEF refund
  <2> QED
    BY <2>1, <1>2, <1>3, <1>4 DEF PotAfterRefund, CastWraps
<1> HIDE DEF refund
<1>7. CASE player = 0
  BY <1>2, <1>3, <1>4, <1>5, <1>6, <1>7 DEF ChipsConserved, Other
<1>8. CASE player = 1
  BY <1>2, <1>3, <1>4, <1>5, <1>6, <1>8 DEF ChipsConserved, Other
<1> QED
  BY <1>3, <1>7, <1>8

LEMMA InitialDealConserves ==
    ASSUME NEW s, NEW p,
           s = [q \in Seats |-> InitialStack - Blind(q)],
           p = SmallBlind + BigBlind
    PROVE  s[0] + s[1] + p = 2 * InitialStack
  BY ConfigAssumption DEF Blind, Seats

LEMMA LedgerStep ==
    ASSUME CastWraps, IInv, Ledger, [Next]_vars
    PROVE  Ledger'
<1>1. ChipsConserved
  BY DEF Ledger
<1>2. CASE DealChance
  BY <1>1, <1>2 DEF DealChance, money, Ledger, ChipsConserved
<1>3. CASE DoCheck
  BY <1>1, <1>3 DEF DoCheck, Available, money, Ledger, ChipsConserved,
                    NextStreet, Showdown, Terminal, StayOnStreet
<1>4. CASE DoFold
  BY <1>1, <1>4 DEF DoFold, money, Ledger, ChipsConserved, Terminal, IInv,
                    TypeOK, Seats, Other
<1>5. ASSUME NEW n \in Amounts, DoRaise(n)
      PROVE  Ledger'
  <2>1. phase = "action"
    BY <1>5 DEF DoRaise, Available
  <2>2. n \in Nat
    BY <1>5, <2>1, MenuFacts DEF DoRaise
  <2>3. ChipsConserved'
    BY <1>1, <1>5, <2>2, AddMoneyConserves DEF DoRaise
  <2> QED
    BY <1>5, <2>1, <2>3 DEF DoRaise, StayOnStreet, Ledger
<1>6. ASSUME NEW n \in Amounts, Limp(n)
      PROVE  Ledger'
  <2>1. phase = "action"
    BY <1>6 DEF Limp, Available
  <2>2. n \in Nat
    BY <1>6, <2>1, CallFacts DEF Limp
  <2>3. ChipsConserved'
    BY <1>1, <1>6, <2>2, AddMoneyConserves DEF Limp
  <2> QED
    BY <1>6, <2>1, <2>3 DEF Limp, StayOnStreet, Ledger
<1>7. ASSUME NEW n \in Amounts, CallAllIn(n)
      PROVE  Ledger'
  <2>1. ChipsConserved'
    BY <1>1, <1>7, AllInConserves
  <2> QED
    BY <1>7, <2>1 DEF CallAllIn, Showdown, Terminal, Ledger
<1>8. ASSUME NEW n \in Amounts, CallClosesStreet(n)
      PROVE  Ledger'
  <2>1. phase = "action"
    BY <1>8 DEF CallClosesStreet, Available
  <2>2. n \in Nat
    BY <1>8, <2>1, CallFacts DEF CallClosesStreet
  <2>3. ChipsConserved'
    BY <1>1, <1>8, <2>2, AddMoneyConserves DEF CallClosesStreet
  <2> QED
    BY <1>8, <2>3
    DEF CallClosesStreet, NextStreet, Showdown, Terminal, Ledger
<1>9. CASE ReInitialize
  <2>1. stacks'[0] + stacks'[1] + pot' = 2 * InitialStack
    BY <1>9, InitialDealConserves DEF ReInitialize
  <2> QED
    BY <1>9, <2>1 DEF ReInitialize, Ledger, ChipsConserved
<1>10. CASE UNCHANGED vars
  BY <1>10 DEF vars, money, Ledger, ChipsConserved
<1> QED
  BY <1>2, <1>3, <1>4, <1>5, <1>6, <1>7, <1>8, <1>9, <1>10
  DEF Next, Transition

LEMMA LedgerAlways == CastWraps => (Spec => []Ledger)
<1> SUFFICES ASSUME CastWraps PROVE Spec => []Ledger
  OBVIOUS
<1>1. Init => Ledger
  <2> SUFFICES ASSUME Init PROVE Ledger
    OBVIOUS
  <2>1. stacks[0] + stacks[1] + pot = 2 * InitialStack
    BY InitialDealConserves DEF Init
  <2> QED
    BY <2>1 DEF Init, Ledger, ChipsConserved
<1>2. IInv /\ Ledger /\ [Next]_vars => Ledger'
  BY LedgerStep
<1> QED
  BY Invariance, <1>1, <1>2, PTL DEF Spec

LEMMA Halves ==
    ASSUME NEW p \in Nat
    PROVE  /\ p \div 2 \in Nat
           /\ p % 2 \in Nat
           /\ 2 * (p \div 2) + (p % 2) = p
  OBVIOUS

(* Where the conversion wraps, no chip is created or destroyed.            *)
THEOREM NoChipLost == CastWraps => (Spec => []ChipsConserved)
<1>1. Ledger => ChipsConserved
  BY DEF Ledger
<1> QED
  BY LedgerAlways, <1>1, PTL

(* ... so the two utilities of a hand cancel, but for the odd chip of a    *)
(* tie.                                                                    *)
THEOREM ZeroSumButForTheOddChip == CastWraps => (Spec => []OnlyTheOddChipIsLost)
<1>1. IInv /\ Ledger => OnlyTheOddChipIsLost
  <2> SUFFICES ASSUME IInv, Ledger, phase = "terminal"
               PROVE  UtilitySum = IF result.winner = Tie THEN -(pot % 2)
                                                          ELSE 0
    BY DEF OnlyTheOddChipIsLost
  <2>1. /\ stacks[0] \in Nat /\ stacks[1] \in Nat /\ pot \in Nat
        /\ InitialStack \in Nat
        /\ stacks[0] + stacks[1] + pot = 2 * InitialStack
    BY ConfigAssumption DEF IInv, TypeOK, Seats, Ledger, ChipsConserved
  <2>2. CASE result.winner = Tie
    <3>1. Utility(0) = pot \div 2 - (InitialStack - stacks[0])
          /\ Utility(1) = pot \div 2 - (InitialStack - stacks[1])
      BY <2>2 DEF Utility, Contribution, Tie
    <3>2. 2 * (pot \div 2) + (pot % 2) = pot /\ pot \div 2 \in Nat
          /\ pot % 2 \in Nat
      BY <2>1, Halves
    <3> QED
      BY <2>1, <2>2, <3>1, <3>2 DEF UtilitySum
  <2>3. CASE result.winner = 0
    BY <2>1, <2>3 DEF UtilitySum, Utility, Contribution, Tie
  <2>4. CASE result.winner = 1
    BY <2>1, <2>4 DEF UtilitySum, Utility, Contribution, Tie
  <2> QED
    BY <2>2, <2>3, <2>4 DEF Ledger, Seats
<1> QED
  BY Invariance, LedgerAlways, <1>1, PTL

-----------------------------------------------------------------------------
(***************************************************************************)
(* What the seats have paid, while no street saw a second raise.           *)
(***************************************************************************)
LEMMA LevelDealt ==
    ASSUME NEW s, s = [q \in Seats |-> InitialStack - Blind(q)]
    PROVE  /\ \A q \in Seats : s[q] = InitialStack - Blind(q)
           /\ s[0] = InitialStack - BigBlind
           /\ s[1] = InitialStack - SmallBlind
  BY DEF Seats, Blind

LEMMA LevelCheck ==
    ASSUME BlindsDoubled, IInv, Level, DoCheck
    PROVE  Level'
<1>1. /\ phase = "action"
      /\ UNCHANGED <<stacks, reraised>>
      /\ ~FacingBet
  BY DEF DoCheck, Available, money, Check, Fold, Call, Raise
<1>2. bet.raiseCount \in Nat /\ bet.raiseCount = 0
  BY <1>1, ConfigAssumption DEF FacingBet, IInv, TypeOK
<1>3. ~reraised => Even
  BY <1>1, <1>2 DEF Level, FacingBet
<1>4. ~reraised' => Even'
  BY <1>1, <1>3 DEF Even
<1>5. CASE NextStreet
  <2>1. phase' = "chance" /\ round' = round + 1 /\ round \in 0 .. 3
    BY <1>5 DEF NextStreet, IInv, TypeOK, Streets, River
  <2> QED
    BY <1>4, <2>1 DEF Level, Preflop
<1>6. CASE Showdown(pot)
  BY <1>4, <1>6 DEF Showdown, Terminal, Level, Even
<1>7. CASE StayOnStreet([bet EXCEPT !.checksCount = @ + 1,
                                    !.firstActionTaken = TRUE])
         /\ ~Preflop
  <2>1. phase' = "action" /\ round' = round /\ round # 0
    BY <1>1, <1>7 DEF StayOnStreet, Preflop
  <2>2. bet'.raiseCount = 0
    BY <1>2, <1>7 DEF StayOnStreet, IInv, TypeOK
  <2> QED
    BY <1>4, <2>1, <2>2 DEF Level, Preflop
<1> QED
  BY <1>5, <1>6, <1>7 DEF DoCheck

LEMMA LevelRaise ==
    ASSUME BlindsDoubled, IInv, Level, NEW n, DoRaise(n)
    PROVE  Level'
<1>1. phase = "action"
  BY DEF DoRaise, Available
<1>2. n \in Nat /\ n <= stacks[player] /\ n >= bet.currentBet
  BY <1>1, MenuFacts DEF DoRaise
<1>3. /\ bet.raiseCount \in Nat
      /\ player \in {0, 1}
      /\ stacks \in [{0, 1} -> Nat]
      /\ InitialStack \in Nat /\ SmallBlind \in Nat /\ BigBlind \in Nat
      /\ BigBlind = 2 * SmallBlind /\ BigBlind < InitialStack
      /\ bet.currentBet \in Nat /\ bet.currentBet >= SmallBlind
      /\ reraised \in BOOLEAN
      /\ round \in 0 .. 3
  BY <1>1, ConfigAssumption
  DEF IInv, TypeOK, BetCovered, BlindsDoubled, Seats, Streets, River
<1>4. /\ bet' = [firstActionTaken |-> TRUE, checksCount |-> 0,
                 currentBet |-> n, raiseCount |-> bet.raiseCount + 1,
                 lastRaiser |-> player]
      /\ player' = 1 - player
      /\ phase' = "action"
      /\ round' = round
      /\ stacks' = [stacks EXCEPT ![player] = @ - n]
      /\ reraised' = (reraised \/ bet.raiseCount > 0)
  BY <1>1 DEF DoRaise, StayOnStreet, AddMoney, Other
<1>5. bet'.raiseCount > 0
  BY <1>3, <1>4
<1> SUFFICES ASSUME ~reraised'
             PROVE  /\ bet'.raiseCount = 1
                    /\ stacks'[player'] = stacks'[Other(player')] + Owed'
                    /\ stacks'[player'] > 0
  BY <1>4, <1>5 DEF Level, Other
<1>6. ~reraised /\ bet.raiseCount = 0
  <2>1. ~(reraised \/ bet.raiseCount > 0)
    BY <1>4, Zenon
  <2> QED
    BY <1>3, <2>1
<1>7. /\ stacks'[player] = stacks[player] - n
      /\ stacks'[1 - player] = stacks[1 - player]
  BY <1>3, <1>4
<1>8. Other(player') = player
  BY <1>3, <1>4 DEF Other
<1>9. Owed' = IF round = 0 /\ player = 1 THEN n - SmallBlind ELSE n
  BY <1>3, <1>4, <1>6 DEF Owed, Preflop
<1>10. CASE round = 0 /\ ~bet.firstActionTaken
  <2>1. OnlyBlindsPaid /\ player = 1
    BY <1>1, <1>6, <1>10 DEF Level, Preflop
  <2>2. stacks[0] = InitialStack - BigBlind
        /\ stacks[1] = InitialStack - SmallBlind
    BY <2>1 DEF OnlyBlindsPaid, Blind, Seats
  <2> QED
    BY <2>1, <2>2, <1>2, <1>3, <1>4, <1>6, <1>7, <1>8, <1>9, <1>10
<1>11. CASE ~(round = 0 /\ ~bet.firstActionTaken)
  <2>1. stacks[0] = stacks[1] /\ stacks[0] > 0
    BY <1>1, <1>6, <1>11 DEF Level, Preflop, Even
  <2>2. ~(round = 0 /\ player = 1)
    BY <1>1, <1>6, <1>11 DEF Level, Preflop
  <2> QED
    BY <2>1, <2>2, <1>2, <1>3, <1>4, <1>6, <1>7, <1>8, <1>9
<1> QED
  BY <1>10, <1>11

LEMMA LevelLimp ==
    ASSUME BlindsDoubled, IInv, Level, NEW n, Limp(n)
    PROVE  Level'
<1>1. phase = "action" /\ ~bet.firstActionTaken
  BY DEF Limp, Available
<1>2. n = CallAmount /\ FacingBet
  BY <1>1, CallFacts DEF Limp
<1>3. /\ bet.raiseCount = 0
      /\ InitialStack \in Nat /\ SmallBlind \in Nat /\ BigBlind \in Nat
      /\ BigBlind = 2 * SmallBlind /\ BigBlind < InitialStack
      /\ stacks \in [{0, 1} -> Nat]
  BY <1>1, ConfigAssumption
  DEF IInv, TypeOK, BetCovered, BlindsDoubled, Seats
<1>4. round = 0
  BY <1>1, <1>2, <1>3 DEF FacingBet, Preflop
<1>5. /\ phase' = "action" /\ round' = 0 /\ reraised' = reraised
      /\ player' = Other(player)
      /\ stacks' = [stacks EXCEPT ![player] = @ - n]
  BY <1>1, <1>4 DEF Limp, StayOnStreet, AddMoney
<1>6. bet'.raiseCount = 0 /\ bet'.firstActionTaken = TRUE
  <2>1. bet' = [bet EXCEPT !.firstActionTaken = TRUE]
    BY DEF Limp, StayOnStreet
  <2> QED
    BY <1>3, <2>1 DEF IInv, TypeOK
<1>7. ASSUME ~reraised PROVE Even' /\ player' = 0
  <2>1. OnlyBlindsPaid /\ player = 1 /\ bet.currentBet = SmallBlind
    BY <1>1, <1>3, <1>4, <1>7 DEF Level, Preflop
  <2>2. stacks[0] = InitialStack - BigBlind
        /\ stacks[1] = InitialStack - SmallBlind
    BY <2>1 DEF OnlyBlindsPaid, Blind, Seats
  <2>3. n = SmallBlind
    BY <1>2, <1>3, <2>1, <2>2 DEF CallAmount, Owed
  <2> QED
    BY <1>3, <1>5, <2>1, <2>2, <2>3 DEF Even, Other
<1> QED
  BY <1>5, <1>6, <1>7 DEF Level, Preflop

(* A single raise can be covered: no refund is due, and what the caller    *)
(* has left is what the raiser has left.                                   *)
LEMMA LevelCalled ==
    ASSUME IInv, Level, ~reraised, phase = "action",
           NEW n, Call(n) \in Available, bet.firstActionTaken
    PROVE  /\ n = Owed
           /\ stacks[player] - n = stacks[Other(player)]
           /\ player \in {0, 1}
           /\ stacks \in [{0, 1} -> Nat]
           /\ n \in Nat
           /\ ~IsAllIn(n) => stacks[player] - n > 0
           /\ AmountToReturn(n) = 0
<1>1. /\ player \in {0, 1}
      /\ stacks \in [{0, 1} -> Nat]
  BY DEF IInv, TypeOK, Seats
<1>2. n = CallAmount /\ n \in Nat /\ Owed \in Nat /\ FacingBet
  BY CallFacts
<1>3. stacks[player] = stacks[Other(player)] + Owed
  BY <1>2, CallAnswersRaise DEF Level
<1>4. Other(player) \in {0, 1}
  BY <1>1 DEF Other
<1>5. n = Owed
  BY <1>1, <1>2, <1>3, <1>4 DEF CallAmount
<1>6. stacks[player] - n = stacks[Other(player)]
  BY <1>1, <1>2, <1>3, <1>4, <1>5
<1>7. ~IsAllIn(n) => stacks[player] - n > 0
  BY <1>1, <1>2, <1>4 DEF IsAllIn
<1>8. AmountToReturn(n) = 0
  BY <1>2, <1>5 DEF AmountToReturn
<1> QED
  BY <1>1, <1>2, <1>5, <1>6, <1>7, <1>8

LEMMA LevelAllIn ==
    ASSUME IInv, Level, NEW n, CallAllIn(n)
    PROVE  Level'
<1>1. phase' = "terminal" /\ reraised' = reraised
  BY DEF CallAllIn, Showdown, Terminal
<1>2. ASSUME ~reraised PROVE stacks'[0] = stacks'[1]
  <2>1. /\ phase = "action" /\ bet.firstActionTaken
        /\ Call(n) \in Available
    BY DEF CallAllIn, Available
  <2>2. /\ stacks[player] - n = stacks[Other(player)]
        /\ player \in {0, 1}
        /\ stacks \in [{0, 1} -> Nat]
        /\ AmountToReturn(n) = 0
    BY <1>2, <2>1, LevelCalled
  <2>3. stacks' = [stacks EXCEPT ![player] = @ - n,
                                 ![Other(player)] = @ + AmountToReturn(n)]
    BY DEF CallAllIn
  <2>4. CASE player = 0
    BY <2>2, <2>3, <2>4 DEF Other
  <2>5. CASE player = 1
    BY <2>2, <2>3, <2>5 DEF Other
  <2> QED
    BY <2>2, <2>4, <2>5
<1> QED
  BY <1>1, <1>2 DEF Level

LEMMA LevelClosed ==
    ASSUME IInv, Level, NEW n, CallClosesStreet(n)
    PROVE  Level'
<1>1. reraised' = reraised
  BY DEF CallClosesStreet
<1>2. ASSUME ~reraised PROVE Even'
  <2>1. /\ phase = "action" /\ bet.firstActionTaken
        /\ Call(n) \in Available /\ ~IsAllIn(n)
    BY DEF CallClosesStreet, Available
  <2>2. /\ stacks[player] - n = stacks[Other(player)]
        /\ stacks[player] - n > 0
        /\ player \in {0, 1}
        /\ stacks \in [{0, 1} -> Nat]
    BY <1>2, <2>1, LevelCalled
  <2>3. stacks' = [stacks EXCEPT ![player] = @ - n]
    BY DEF CallClosesStreet, AddMoney
  <2>4. CASE player = 0
    BY <2>2, <2>3, <2>4 DEF Other, Even
  <2>5. CASE player = 1
    BY <2>2, <2>3, <2>5 DEF Other, Even
  <2> QED
    BY <2>2, <2>4, <2>5
<1>3. CASE NextStreet
  <2>1. phase' = "chance" /\ round' = round + 1 /\ round \in 0 .. 3
    BY <1>3 DEF NextStreet, IInv, TypeOK, Streets, River
  <2> QED
    BY <1>1, <1>2, <2>1 DEF Level, Preflop
<1>4. CASE Showdown(pot + n)
  BY <1>1, <1>2, <1>4 DEF Showdown, Terminal, Level, Even
<1> QED
  BY <1>3, <1>4 DEF CallClosesStreet

LEMMA LevelStep ==
    ASSUME BlindsDoubled, IInv, Level, [Next]_vars
    PROVE  Level'
<1>1. CASE DealChance
  <2>1. /\ phase = "chance" /\ phase' = "action"
        /\ bet'.raiseCount = 0 /\ bet'.firstActionTaken = FALSE
        /\ bet'.currentBet = SmallBlind
        /\ UNCHANGED <<round, stacks, reraised>>
        /\ player' = IF Preflop THEN 1 ELSE 0
    BY <1>1 DEF DealChance, OpenWith, money
  <2>2. ~reraised => IF Preflop THEN OnlyBlindsPaid ELSE Even
    BY <2>1 DEF Level
  <2> QED
    BY <2>1, <2>2 DEF Level, Preflop, OnlyBlindsPaid, Even
<1>2. CASE DoCheck
  BY <1>2, LevelCheck
<1>3. CASE DoFold
  BY <1>3 DEF DoFold, Terminal, Level
<1>4. CASE \E n \in Amounts : DoRaise(n)
  BY <1>4, LevelRaise
<1>5. CASE \E n \in Amounts : Limp(n)
  BY <1>5, LevelLimp
<1>6. CASE \E n \in Amounts : CallAllIn(n)
  BY <1>6, LevelAllIn
<1>7. CASE \E n \in Amounts : CallClosesStreet(n)
  BY <1>7, LevelClosed
<1>8. CASE ReInitialize
  <2>1. OnlyBlindsPaid'
    BY <1>8, LevelDealt DEF ReInitialize, OnlyBlindsPaid
  <2> QED
    BY <1>8, <2>1 DEF ReInitialize, Level, Preflop
<1>9. CASE UNCHANGED vars
  BY <1>9 DEF vars, money, Level, Preflop, Even, OnlyBlindsPaid, Owed
<1> QED
  BY <1>1, <1>2, <1>3, <1>4, <1>5, <1>6, <1>7, <1>8, <1>9
  DEF Next, Transition

(* Where the big blind is twice the small: the seats are even when a street *)
(* opens, and apart by what is owed while a bet stands, until a re-raise.  *)
THEOREM LevelAlways == BlindsDoubled => (Spec => []Level)
<1> SUFFICES ASSUME BlindsDoubled PROVE Spec => []Level
  OBVIOUS
<1>1. Init => Level
  BY LevelDealt DEF Init, Level, Preflop, OnlyBlindsPaid
<1>2. IInv /\ Level /\ [Next]_vars => Level'
  BY LevelStep
<1> QED
  BY Invariance, <1>1, <1>2, PTL DEF Spec

(* With a big blind of two small ones, a street that saw at most one raise *)
(* ends with both seats having paid the same.                              *)
THEOREM PaidTheSame == BlindsDoubled => (Spec => []MatchedUnlessReraised)
<1>1. IInv /\ Level => MatchedUnlessReraised
  BY DEF IInv, TypeOK, Streets, River, Level, Preflop, Even,
         MatchedUnlessReraised
<1> QED
  BY Invariance, LevelAlways, <1>1, PTL

(* ... and nobody is asked to act with an empty stack.                     *)
THEOREM ActorHasChips == BlindsDoubled => (Spec => []NobodyBrokeActsUnlessReraised)
<1> SUFFICES ASSUME BlindsDoubled
             PROVE  Spec => []NobodyBrokeActsUnlessReraised
  OBVIOUS
<1>1. IInv /\ Level => NobodyBrokeActsUnlessReraised
  <2> SUFFICES ASSUME IInv, Level, ~reraised, phase = "action"
               PROVE  stacks[player] > 0
    BY DEF NobodyBrokeActsUnlessReraised
  <2>1. bet.raiseCount \in Nat /\ player \in {0, 1}
    BY ConfigAssumption DEF IInv, TypeOK, Seats
  <2>2. CASE bet.raiseCount > 0
    BY <2>2 DEF Level
  <2>3. CASE bet.raiseCount = 0
    <3>1. CASE OnlyBlindsPaid /\ player = 1
      BY <3>1, ConfigAssumption DEF BlindsDoubled, OnlyBlindsPaid, Blind, Seats
    <3>2. CASE Even
      BY <2>1, <3>2 DEF Even
    <3> QED
      BY <2>3, <3>1, <3>2 DEF Level
  <2> QED
    BY <2>1, <2>2, <2>3
<1> QED
  BY Invariance, LevelAlways, <1>1, PTL

-----------------------------------------------------------------------------
(***************************************************************************)
(* Progress of a hand.                                                     *)
(***************************************************************************)
LEMMA StreetsLeft ==
    ASSUME NEW r \in 0 .. 3, NEW len \in Nat
    PROVE  /\ (3 - r) * len \in Nat
           /\ r # 3 => (3 - (r + 1)) * len = (3 - r) * len - len
<1>1. CASE r = 0
  BY <1>1
<1>2. CASE r = 1
  BY <1>2
<1>3. CASE r = 2
  BY <1>3
<1>4. CASE r = 3
  BY <1>4
<1> QED
  BY <1>1, <1>2, <1>3, <1>4

(* The measure in the three phases.                                        *)
LEMMA RemainingFacts ==
    ASSUME IInv
    PROVE  /\ phase = "terminal" => Remaining = 0
           /\ phase = "chance" =>
                 Remaining = (3 - round) * StreetLength + MaxRaises + 4
           /\ phase = "action" =>
                 Remaining = (3 - round) * StreetLength
                             + (MaxRaises - bet.raiseCount)
                             + (IF bet.firstActionTaken THEN 0 ELSE 1) + 1
           /\ MaxRaises - bet.raiseCount \in Nat
           /\ (3 - round) * StreetLength \in Nat
           /\ bet.raiseCount \in Nat
           /\ StreetLength \in Nat
           /\ StreetLength = MaxRaises + 4
           /\ round \in 0 .. 3
           /\ MaxRaises \in Nat
<1>1. /\ round \in 0 .. 3
      /\ MaxRaises \in Nat
      /\ StreetLength \in Nat
      /\ StreetLength = MaxRaises + 4
      /\ bet.raiseCount \in Nat
      /\ MaxRaises - bet.raiseCount \in Nat
  BY ConfigAssumption DEF IInv, TypeOK, Streets, River, StreetLength
<1>2. (3 - round) * StreetLength \in Nat
  BY <1>1, StreetsLeft
<1> QED
  BY <1>1, <1>2 DEF Remaining, River

LEMMA RemainingFactsNext ==
    ASSUME IInv'
    PROVE  /\ phase' = "terminal" => Remaining' = 0
           /\ phase' = "chance" =>
                 Remaining' = (3 - round') * StreetLength + MaxRaises + 4
           /\ phase' = "action" =>
                 Remaining' = (3 - round') * StreetLength
                              + (MaxRaises - bet'.raiseCount)
                              + (IF bet'.firstActionTaken THEN 0 ELSE 1) + 1
           /\ MaxRaises - bet'.raiseCount \in Nat
           /\ (3 - round') * StreetLength \in Nat
<1>1. /\ round' \in 0 .. 3
      /\ MaxRaises \in Nat
      /\ StreetLength \in Nat
      /\ MaxRaises - bet'.raiseCount \in Nat
  BY ConfigAssumption DEF IInv, TypeOK, Streets, River, StreetLength
<1>2. (3 - round') * StreetLength \in Nat
  BY <1>1, StreetsLeft
<1> QED
  BY <1>1, <1>2 DEF Remaining, River, StreetLength

(* An action that ends the hand, opens the next street, or uses up part of *)
(* this one.                                                               *)
LEMMA EndIsProgress ==
    ASSUME IInv, IInv', phase = "action", phase' = "terminal"
    PROVE  Remaining' < Remaining /\ Remaining' >= 0
  BY RemainingFacts, RemainingFactsNext

LEMMA NextStreetIsProgress ==
    ASSUME IInv, IInv', phase = "action", NextStreet, round # River
    PROVE  Remaining' < Remaining /\ Remaining' >= 0
<1> DEFINE left == (3 - round) * StreetLength
<1>1. (3 - round') * StreetLength = left - StreetLength
  BY RemainingFacts, StreetsLeft DEF NextStreet, River
<1>2. Remaining' = left - StreetLength + MaxRaises + 4
  BY <1>1, RemainingFactsNext DEF NextStreet
<1>3. left - StreetLength \in Nat
  BY <1>1, RemainingFactsNext
<1> QED
  BY <1>2, <1>3, RemainingFacts

LEMMA StayIsProgress ==
    ASSUME IInv, IInv', phase = "action", phase' = "action", round' = round,
           bet.firstActionTaken => bet'.firstActionTaken,
           \/ /\ bet'.raiseCount = bet.raiseCount
              /\ ~bet.firstActionTaken /\ bet'.firstActionTaken
           \/ bet'.raiseCount = bet.raiseCount + 1
    PROVE  Remaining' < Remaining /\ Remaining' >= 0
  BY RemainingFacts, RemainingFactsNext

(* Every transition of a hand uses up part of a measure bounded by the     *)
(* raise limit: there is no infinite hand.                                 *)
THEOREM EveryActionIsProgress == Spec => HandMakesProgress
<1>1. ASSUME IInv, IInv', Transition
      PROVE  Remaining' < Remaining /\ Remaining' >= 0
  <2>1. CASE DealChance
    <3>1. /\ phase = "chance" /\ phase' = "action" /\ round' = round
          /\ bet'.raiseCount = 0 /\ bet'.firstActionTaken = FALSE
      BY <2>1 DEF DealChance, OpenWith
    <3> QED
      BY <1>1, <3>1, RemainingFacts, RemainingFactsNext
  <2>2. CASE DoCheck
    <3>1. phase = "action" /\ ~FacingBet
      BY <2>2 DEF DoCheck, Available, Check, Fold, Call, Raise
    <3>2. CASE NextStreet /\ round # River
      BY <1>1, <3>1, <3>2, NextStreetIsProgress
    <3>3. CASE Showdown(pot)
      BY <1>1, <3>1, <3>3, EndIsProgress DEF Showdown, Terminal
    <3>4. CASE /\ StayOnStreet([bet EXCEPT !.checksCount = @ + 1,
                                           !.firstActionTaken = TRUE])
               /\ ~(Preflop \/ bet.checksCount = 1)
      <4>1. ~bet.firstActionTaken
        <5>1. bet.raiseCount \in Nat /\ ~(bet.raiseCount > 0)
          BY <1>1, <3>1, ConfigAssumption DEF FacingBet, IInv, TypeOK
        <5> QED
          BY <1>1, <3>1, <3>4, <5>1 DEF IInv, ActedOnce
      <4>2. /\ phase' = "action" /\ round' = round
            /\ bet'.raiseCount = bet.raiseCount
            /\ bet'.firstActionTaken = TRUE
        BY <1>1, <3>1, <3>4 DEF StayOnStreet, IInv, TypeOK
      <4> QED
        BY <1>1, <3>1, <4>1, <4>2, StayIsProgress
    <3> QED
      BY <2>2, <3>2, <3>3, <3>4 DEF DoCheck
  <2>3. CASE DoFold
    BY <1>1, <2>3, EndIsProgress DEF DoFold, Available, Terminal
  <2>4. ASSUME NEW n \in Amounts, DoRaise(n)
        PROVE  Remaining' < Remaining /\ Remaining' >= 0
    <3>1. /\ phase = "action" /\ phase' = "action" /\ round' = round
          /\ bet'.firstActionTaken = TRUE
          /\ bet'.raiseCount = bet.raiseCount + 1
      BY <2>4 DEF DoRaise, Available, StayOnStreet
    <3> QED
      BY <1>1, <3>1, StayIsProgress
  <2>5. ASSUME NEW n \in Amounts, Limp(n)
        PROVE  Remaining' < Remaining /\ Remaining' >= 0
    <3>1. /\ phase = "action" /\ phase' = "action" /\ round' = round
          /\ ~bet.firstActionTaken
          /\ bet' = [bet EXCEPT !.firstActionTaken = TRUE]
      BY <2>5 DEF Limp, Available, StayOnStreet
    <3>2. bet'.raiseCount = bet.raiseCount /\ bet'.firstActionTaken = TRUE
      BY <1>1, <3>1 DEF IInv, TypeOK
    <3> QED
      BY <1>1, <3>1, <3>2, StayIsProgress
  <2>6. ASSUME NEW n \in Amounts, CallAllIn(n)
        PROVE  Remaining' < Remaining /\ Remaining' >= 0
    <3>1. phase = "action" /\ phase' = "terminal"
      BY <2>6 DEF CallAllIn, Available, Showdown, Terminal
    <3> QED
      BY <1>1, <3>1, EndIsProgress
  <2>7. ASSUME NEW n \in Amounts, CallClosesStreet(n)
        PROVE  Remaining' < Remaining /\ Remaining' >= 0
    <3>1. phase = "action"
      BY <2>7 DEF CallClosesStreet, Available
    <3>2. CASE NextStreet /\ round # River
      BY <1>1, <3>1, <3>2, NextStreetIsProgress
    <3>3. CASE Showdown(pot + n)
      BY <1>1, <3>1, <3>3, EndIsProgress DEF Showdown, Terminal
    <3> QED
      BY <2>7, <3>2, <3>3 DEF CallClosesStreet
  <2> QED
    BY <1>1, <2>1, <2>2, <2>3, <2>4, <2>5, <2>6, <2>7 DEF Transition
<1>2. IInv /\ IInv' /\ [Next]_vars =>
         [ReInitialize \/ (Remaining' < Remaining /\ Remaining' >= 0)]_vars
  BY <1>1 DEF Next
<1> QED
  BY Invariance, <1>2, PTL DEF Spec, HandMakesProgress
-----------------------------------------------------------------------------
(***************************************************************************)
(* PokerEnvironment.  The engine's invariant IInv holds of the engine      *)
(* inside an environment, because each of its calls is made of actions     *)
(* that preserve it; with it, the table and the history are well formed,   *)
(* and the environment implements HandView.                                *)
(***************************************************************************)
LEMMA AvailableTyped == IInv => Available \subseteq GameAction
<1> SUFFICES ASSUME IInv, phase = "action",
                    NEW a \in Available
             PROVE  a \in GameAction
  BY DEF Available
<1>1. CASE \E n \in BetSizes : a = Raise(n)
  <2>1. PICK n \in BetSizes : a = Raise(n)
    BY <1>1
  <2>2. n \in Nat
    BY <2>1, MenuFacts
  <2> QED
    BY <2>1, <2>2 DEF Raise, GameAction
<1>2. CASE a = Call(CallAmount)
  <2>1. CallAmount \in Nat
    BY <1>2, CallFacts
  <2> QED
    BY <1>2, <2>1 DEF Call, GameAction
<1>3. CASE a = Check \/ a = Fold
  BY <1>3 DEF Check, Fold, GameAction
<1> QED
  BY <1>1, <1>2, <1>3 DEF Available

(* Every action that goes to a slot is there, or a larger one is.          *)
LEMMA LastStored ==
    ASSUME IInv, NEW s \in Slots, NEW a \in Available, s \in SlotsOf(a)
    PROVE  /\ ActionTable[s] \in Available
           /\ s \in SlotsOf(ActionTable[s])
           /\ a.amount <= ActionTable[s].amount
<1> DEFINE stored == {b \in Available : s \in SlotsOf(b)}
           amounts == {b.amount : b \in stored}
           last == CHOOSE b \in stored : \A c \in stored : c.amount <= b.amount
<1>1. phase = "action"
  BY DEF Available
<1>2. bet.currentBet \in Nat /\ stacks[player] \in Nat
  BY DEF IInv, TypeOK
<1>3. ASSUME NEW b \in stored
      PROVE  b.amount \in Nat /\ b.amount <= stacks[player]
  <2>1. b \in Available
    OBVIOUS
  <2>2. CASE \E n \in BetSizes : b = Raise(n)
    <3>1. PICK n \in BetSizes : b = Raise(n)
      BY <2>2
    <3>2. n \in Nat /\ n <= stacks[player]
      BY <1>1, <2>1, <3>1, MenuFacts
    <3> QED
      BY <3>1, <3>2 DEF Raise
  <2>3. CASE b = Call(CallAmount)
    <3>1. CallAmount \in Nat /\ CallAmount <= stacks[player]
      BY <1>1, <2>1, <2>3, CallFacts
    <3> QED
      BY <2>3, <3>1 DEF Call
  <2>4. CASE b = Check \/ b = Fold
    BY <2>4, <1>2 DEF Check, Fold
  <2> QED
    BY <2>1, <2>2, <2>3, <2>4 DEF Available
<1>4. a \in stored
  OBVIOUS
<1>5. amounts \in SUBSET Nat /\ amounts # {}
      /\ \A y \in amounts : y <= stacks[player]
  BY <1>3, <1>4
<1>6. Max(amounts) \in amounts /\ \A y \in amounts : y <= Max(amounts)
  BY <1>2, <1>5, MaxIsMember
<1>7. PICK b \in stored : b.amount = Max(amounts)
  BY <1>6
<1>8. \A c \in stored : c.amount <= b.amount
  BY <1>6, <1>7
<1>9. last \in stored /\ \A c \in stored : c.amount <= last.amount
  BY <1>8
<1>10. ActionTable[s] = last
  BY <1>4 DEF ActionTable
<1> QED
  BY <1>4, <1>9, <1>10

TableTypeOK == ActionTable \in [Slots -> GameAction]

LEMMA TableTyped == IInv => TableTypeOK
<1> SUFFICES ASSUME IInv, NEW s \in Slots
             PROVE  ActionTable[s] \in GameAction
  BY DEF ActionTable, TableTypeOK
<1>1. CASE \E a \in Available : s \in SlotsOf(a)
  <2>1. ActionTable[s] \in Available
    BY <1>1, LastStored
  <2> QED
    BY <2>1, AvailableTyped
<1>2. CASE ~\E a \in Available : s \in SlotsOf(a)
  <2>1. {a \in Available : s \in SlotsOf(a)} = {}
    BY <1>2
  <2>2. ActionTable[s] = Empty
    BY <2>1 DEF ActionTable
  <2> QED
    BY <2>2 DEF Empty, GameAction
<1> QED
  BY <1>1, <1>2

LEMMA TableTypedNext == IInv' => TableTypeOK'
  BY TableTyped, PTL

(* What a player's action does to the turn, whichever it is.               *)
LEMMA PlayFacts ==
    ASSUME IInv, NEW a, Play(a)
    PROVE  /\ IInv'
           /\ phase = "action"
           /\ \/ phase' = "action" /\ player' = Other(player)
              \/ phase' = "chance" /\ round' = round + 1
              \/ phase' = "terminal" /\ player' = player
<1> DEFINE Turn == /\ phase = "action"
                   /\ \/ phase' = "action" /\ player' = Other(player)
                      \/ phase' = "chance" /\ round' = round + 1
                      \/ phase' = "terminal" /\ player' = player
<1>1. CASE DoCheck
  <2>1. IInv'
    BY <1>1, DoCheckIInv
  <2>2. Turn
    BY <1>1 DEF DoCheck, Available, NextStreet, Showdown, Terminal,
                StayOnStreet
  <2> QED
    BY <2>1, <2>2
<1>2. CASE DoFold
  <2>1. IInv'
    BY <1>2, DoFoldIInv
  <2>2. Turn
    BY <1>2 DEF DoFold, Available, Terminal
  <2> QED
    BY <2>1, <2>2
<1>3. ASSUME NEW n, DoRaise(n) \/ Limp(n) PROVE IInv' /\ Turn
  <2>1. IInv'
    BY <1>3, DoRaiseIInv, LimpIInv
  <2>2. Turn
    BY <1>3 DEF DoRaise, Limp, Available, StayOnStreet
  <2> QED
    BY <2>1, <2>2
<1>4. ASSUME NEW n, CallAllIn(n) PROVE IInv' /\ Turn
  <2>1. IInv'
    BY <1>4, CallAllInIInv
  <2>2. Turn
    BY <1>4 DEF CallAllIn, Available, Showdown, Terminal
  <2> QED
    BY <2>1, <2>2
<1>5. ASSUME NEW n, CallClosesStreet(n) PROVE IInv' /\ Turn
  <2>1. IInv'
    BY <1>5, CallClosesStreetIInv
  <2>2. Turn
    BY <1>5 DEF CallClosesStreet, Available, NextStreet, Showdown, Terminal
  <2> QED
    BY <2>1, <2>2
<1> QED
  BY <1>1, <1>2, <1>3, <1>4, <1>5 DEF Play

LEMMA EntryTyped ==
    ASSUME EnvInv, NEW s \in Slots
    PROVE  Append(betHistory, Entry(actionTable[s])) \in Seq(HistoryEntry)
<1>1. actionTable[s].amount \in Nat
  BY DEF EnvInv, GameAction
<1>2. player \in Seats /\ round \in Streets
  BY DEF EnvInv, IInv, TypeOK
<1>3. Entry(actionTable[s]) \in HistoryEntry
  BY <1>1, <1>2 DEF Entry, HistoryEntry
<1> QED
  BY <1>3 DEF EnvInv

LEMMA RebuildKeepsType ==
    ASSUME EnvInv, IInv', RebuildIfPlaying
    PROVE  actionTable' \in [Slots -> GameAction]
  BY TableTypedNext DEF EnvInv, RebuildIfPlaying, TableTypeOK

LEMMA NoHistory == <<>> \in Seq(HistoryEntry)
  OBVIOUS

LEMMA EnvInitInv == EnvInit => EnvInv
<1> SUFFICES ASSUME EnvInit PROVE EnvInv
  OBVIOUS
<1>1. IInv
  BY InitIInv DEF EnvInit
<1>2. actionTable \in [Slots -> GameAction]
  BY DEF EnvInit, NoTable, Empty, GameAction
<1>3. betHistory \in Seq(HistoryEntry) /\ thrown = FALSE
  BY NoHistory DEF EnvInit
<1> QED
  BY <1>1, <1>2, <1>3 DEF EnvInv

LEMMA EnvNextInv == EnvInv /\ [EnvNext]_envVars => EnvInv'
<1> SUFFICES ASSUME EnvInv, [EnvNext]_envVars PROVE EnvInv'
  OBVIOUS
<1>0. IInv
  BY DEF EnvInv
<1>1. CASE Reset
  <2>1. IInv'
    BY <1>1, ReInitializeIInv DEF Reset
  <2>2. betHistory' \in Seq(HistoryEntry) /\ thrown' = FALSE
    BY <1>1, NoHistory DEF Reset
  <2>3. actionTable' \in [Slots -> GameAction]
    BY <1>1 DEF Reset, EnvInv
  <2> QED
    BY <2>1, <2>2, <2>3 DEF EnvInv
<1>2. ASSUME NEW s \in Slots, Step(s) PROVE EnvInv'
  <2>1. IInv'
    BY <1>0, <1>2, PlayFacts DEF Step
  <2>2. actionTable' \in [Slots -> GameAction]
    BY <1>2, <2>1, RebuildKeepsType DEF Step
  <2>3. betHistory' \in Seq(HistoryEntry)
    BY <1>2, EntryTyped DEF Step
  <2> QED
    BY <1>2, <2>1, <2>2, <2>3 DEF Step, EnvInv
<1>3. ASSUME NEW s \in Slots, StepThrows(s) PROVE EnvInv'
  <2>1. IInv'
    BY <1>0, <1>3, StutterIInv DEF StepThrows
  <2>2. betHistory' \in Seq(HistoryEntry)
    BY <1>3, EntryTyped DEF StepThrows
  <2> QED
    BY <1>3, <2>1, <2>2 DEF StepThrows, EnvInv
<1>4. CASE AutoAdvance
  <2>1. IInv'
    BY <1>0, <1>4, DealChanceIInv DEF AutoAdvance
  <2>2. actionTable' \in [Slots -> GameAction]
    BY <1>4, <2>1, RebuildKeepsType DEF AutoAdvance
  <2> QED
    BY <1>4, <2>1, <2>2 DEF AutoAdvance, EnvInv
<1>5. CASE UNCHANGED envVars
  <2>1. IInv'
    BY <1>0, <1>5, StutterIInv DEF envVars
  <2> QED
    BY <1>5, <2>1 DEF envVars, EnvInv
<1> QED
  BY <1>1, <1>2, <1>3, <1>4, <1>5 DEF EnvNext

LEMMA EnvInvariance == EnvSpec => []EnvInv
  BY EnvInitInv, EnvNextInv, PTL DEF EnvSpec

(* Whatever is asked of an environment, calls that throw included, its     *)
(* engine stays within its types and the table and history are well        *)
(* formed.                                                                 *)
THEOREM EnvTypeCorrect == EnvSpec => []EnvTypeOK
<1>1. EnvInv => EnvTypeOK
  BY DEF EnvInv, IInv, EnvTypeOK
<1> QED
  BY EnvInvariance, <1>1, PTL
-----------------------------------------------------------------------------
(***************************************************************************)
(* The refinement of HandView.                                             *)
(***************************************************************************)
LEMMA OneMore ==
    ASSUME EnvInv, NEW e \in HistoryEntry
    PROVE  /\ Len(betHistory) \in Nat
           /\ Len(Append(betHistory, e)) = Len(betHistory) + 1
  BY DEF EnvInv

(* step() is one decision: a street that ends hands the turn to seat 0,    *)
(* and a street that goes on, to the other seat.                           *)
LEMMA StepIsDecision ==
    ASSUME EnvInv, NEW s \in Slots, Step(s)
    PROVE  View!Next
<1>0. IInv /\ player \in Seats /\ round \in Nat
  BY DEF EnvInv, IInv, TypeOK, Streets, River
<1>1. /\ phase = "action"
      /\ \/ phase' = "action" /\ player' = Other(player)
         \/ phase' = "chance" /\ round' = round + 1
         \/ phase' = "terminal" /\ player' = player
  BY <1>0, PlayFacts DEF Step
<1>2. /\ Len(betHistory) \in Nat
      /\ Len(betHistory') = Len(betHistory) + 1
  <2>1. Entry(actionTable[s]) \in HistoryEntry
    <3>1. actionTable[s].amount \in Nat /\ round \in Streets
      BY DEF EnvInv, IInv, TypeOK, GameAction
    <3> QED
      BY <1>0, <3>1 DEF Entry, HistoryEntry
  <2> QED
    BY <2>1, OneMore DEF Step
<1>3. thrown' = thrown
  BY DEF Step
<1>4. CASE phase' = "terminal"
  BY <1>1, <1>2, <1>3, <1>4 DEF View!Next, View!LastDecision
<1>5. CASE phase' = "action"
  BY <1>0, <1>1, <1>2, <1>3, <1>5
  DEF View!Next, View!Decision, View!NextActors, View!Seats, Seats, Other
<1>6. CASE phase' = "chance"
  BY <1>0, <1>1, <1>2, <1>3, <1>6
  DEF View!Next, View!Decision, View!NextActors, View!Seats, Seats, Preflop
<1> QED
  BY <1>1, <1>4, <1>5, <1>6

LEMMA ViewStep == EnvInv /\ [EnvNext]_envVars => [View!Next]_(View!vars)
<1> SUFFICES ASSUME EnvInv, [EnvNext]_envVars
             PROVE  [View!Next]_(View!vars)
  OBVIOUS
<1>1. CASE Reset
  BY <1>1 DEF Reset, ReInitialize, Preflop, View!Next, View!NewHand
<1>2. ASSUME NEW s \in Slots, Step(s) PROVE View!Next
  BY <1>2, StepIsDecision
<1>3. ASSUME NEW s \in Slots, StepThrows(s) PROVE UNCHANGED View!vars
  <2>1. Len(betHistory) \in Nat /\ Len(betHistory') = Len(betHistory) + 1
    BY <1>3, EntryTyped DEF StepThrows, EnvInv
  <2> QED
    BY <1>3, <2>1 DEF StepThrows, vars, View!vars, Preflop
<1>4. CASE AutoAdvance
  BY <1>4 DEF AutoAdvance, DealChance, View!vars, Preflop
<1>5. CASE UNCHANGED envVars
  BY <1>5 DEF envVars, vars, View!vars, Preflop
<1> QED
  BY <1>1, <1>2, <1>3, <1>4, <1>5 DEF EnvNext

(* What the collector relies on: seat 1 opens, a decision is counted once, *)
(* and seat 1 never takes two in a row.                                    *)
THEOREM EnvironmentImplementsHandView == EnvSpec => ImplementsHandView
<1>1. EnvInit => View!Init
  BY DEF EnvInit, Init, Preflop, View!Init
<1> QED
  BY <1>1, ViewStep, EnvInvariance, PTL
  DEF EnvSpec, ImplementsHandView, View!Spec
-----------------------------------------------------------------------------
(***************************************************************************)
(* The length of the history: each street takes at most MaxRaises raises,  *)
(* one action before them and one that ends it.                            *)
(***************************************************************************)
Spent == bet.raiseCount + (IF bet.firstActionTaken THEN 1 ELSE 0)
Quota(r) == r * (MaxRaises + 2)

LengthInv ==
    ~thrown =>
        /\ phase = "chance" => Len(betHistory) <= Quota(round)
        /\ phase = "action" => Len(betHistory) <= Quota(round) + Spent
        /\ phase = "terminal" => Len(betHistory) <= Quota(round + 1)

LEMMA QuotaGrows ==
    ASSUME NEW r \in Streets
    PROVE  /\ Quota(r) \in Nat
           /\ Quota(r + 1) = Quota(r) + MaxRaises + 2
           /\ Quota(r + 1) <= Quota(River + 1)
<1>1. MaxRaises \in Nat
  BY ConfigAssumption
<1>2. r = 0 \/ r = 1 \/ r = 2 \/ r = 3
  BY DEF Streets, River
<1> QED
  BY <1>1, <1>2 DEF Quota, River

LEMMA SpentFacts ==
    IInv /\ phase = "action" => Spent \in Nat /\ Spent <= MaxRaises + 1
  BY ConfigAssumption DEF IInv, TypeOK, Spent

LEMMA PlaySpends ==
    ASSUME IInv, NEW a, Play(a)
    PROVE  /\ phase' = "action" => round' = round /\ Spent' >= Spent + 1
           /\ phase' = "chance" => round' = round + 1
           /\ phase' = "terminal" => round' = round
<1>0. /\ bet.raiseCount \in Nat /\ bet.checksCount \in 0 .. 1
      /\ bet.firstActionTaken \in BOOLEAN
  BY ConfigAssumption DEF IInv, TypeOK
<1>1. CASE DoCheck
  <2>1. phase = "action" /\ ~FacingBet
    BY <1>1 DEF DoCheck, Available, Check, Call, Raise, Fold
  <2>2. CASE ~(Preflop \/ bet.checksCount = 1)
    <3>1. ~bet.firstActionTaken
      BY <1>0, <2>1, <2>2 DEF FacingBet, IInv, ActedOnce
    <3>2. /\ bet' = [bet EXCEPT !.checksCount = @ + 1, !.firstActionTaken = TRUE]
          /\ phase' = phase /\ round' = round
      BY <1>1, <2>2 DEF DoCheck, StayOnStreet
    <3>3. bet'.firstActionTaken /\ bet'.raiseCount = bet.raiseCount
      BY <3>2 DEF IInv, TypeOK
    <3> QED
      BY <1>0, <2>1, <3>1, <3>2, <3>3 DEF Spent
  <2>3. CASE Preflop \/ bet.checksCount = 1
    BY <1>1, <2>3 DEF DoCheck, NextStreet, Showdown, Terminal
  <2> QED
    BY <2>2, <2>3
<1>2. CASE DoFold
  BY <1>2 DEF DoFold, Terminal
<1>3. ASSUME NEW n, DoRaise(n)
      PROVE  phase' = "action" /\ round' = round /\ Spent' >= Spent + 1
  <2>1. /\ bet'.firstActionTaken /\ bet'.raiseCount = bet.raiseCount + 1
        /\ phase' = "action" /\ round' = round
    BY <1>3 DEF DoRaise, StayOnStreet, Available
  <2> QED
    BY <1>0, <2>1 DEF Spent
<1>4. ASSUME NEW n, Limp(n)
      PROVE  phase' = "action" /\ round' = round /\ Spent' >= Spent + 1
  <2>1. /\ bet' = [bet EXCEPT !.firstActionTaken = TRUE]
        /\ ~bet.firstActionTaken
        /\ phase' = "action" /\ round' = round
    BY <1>4 DEF Limp, StayOnStreet, Available
  <2>2. bet'.firstActionTaken /\ bet'.raiseCount = bet.raiseCount
    BY <2>1 DEF IInv, TypeOK
  <2> QED
    BY <1>0, <2>1, <2>2 DEF Spent
<1>5. ASSUME NEW n, CallAllIn(n) PROVE phase' = "terminal" /\ round' = round
  BY <1>5 DEF CallAllIn, Showdown, Terminal
<1>6. ASSUME NEW n, CallClosesStreet(n)
      PROVE  \/ phase' = "terminal" /\ round' = round
             \/ phase' = "chance" /\ round' = round + 1
  BY <1>6 DEF CallClosesStreet, NextStreet, Showdown, Terminal
<1> QED
  BY <1>1, <1>2, <1>3, <1>4, <1>5, <1>6 DEF Play

LEMMA StepLengthens ==
    ASSUME EnvInv, LengthInv, NEW s \in Slots, Step(s)
    PROVE  LengthInv'
<1> SUFFICES ASSUME ~thrown PROVE LengthInv'
  BY DEF LengthInv, Step
<1>0. IInv /\ IInv' /\ phase = "action" /\ round \in Streets
  BY PlayFacts DEF EnvInv, Step, IInv, TypeOK
<1>1. Len(betHistory) \in Nat /\ Len(betHistory') = Len(betHistory) + 1
  BY EntryTyped DEF Step, EnvInv
<1>2. Len(betHistory) <= Quota(round) + Spent
  BY <1>0 DEF LengthInv
<1>3. Spent \in Nat /\ Spent <= MaxRaises + 1 /\ MaxRaises \in Nat
  BY <1>0, SpentFacts, ConfigAssumption
<1>4. Quota(round) \in Nat /\ Quota(round + 1) = Quota(round) + MaxRaises + 2
  BY <1>0, QuotaGrows
<1>5. /\ phase' = "action" => round' = round /\ Spent' >= Spent + 1
      /\ phase' = "chance" => round' = round + 1
      /\ phase' = "terminal" => round' = round
  BY <1>0, PlaySpends DEF Step
<1>6. Len(betHistory') <= Quota(round + 1)
  BY <1>1, <1>2, <1>3, <1>4
<1>7. CASE phase' = "action"
  <2>1. Spent' \in Int
    BY <1>0, ConfigAssumption DEF Spent, IInv, TypeOK
  <2>2. Len(betHistory') <= Quota(round') + Spent'
    BY <1>1, <1>2, <1>3, <1>4, <1>5, <1>7, <2>1
  <2> QED
    BY <1>7, <2>2 DEF LengthInv
<1>8. CASE phase' = "chance"
  BY <1>5, <1>6, <1>8 DEF LengthInv
<1>9. CASE phase' = "terminal"
  BY <1>5, <1>6, <1>9 DEF LengthInv
<1> QED
  BY <1>0, <1>7, <1>8, <1>9 DEF IInv, TypeOK

LEMMA LengthStep == EnvInv /\ LengthInv /\ [EnvNext]_envVars => LengthInv'
<1> SUFFICES ASSUME EnvInv, LengthInv, [EnvNext]_envVars PROVE LengthInv'
  OBVIOUS
<1>1. CASE Reset
  BY <1>1, ConfigAssumption DEF Reset, ReInitialize, LengthInv, Quota
<1>2. ASSUME NEW s \in Slots, Step(s) PROVE LengthInv'
  BY <1>2, StepLengthens
<1>3. ASSUME NEW s \in Slots, StepThrows(s) PROVE LengthInv'
  BY <1>3 DEF StepThrows, LengthInv
<1>4. CASE AutoAdvance
  <2>1. /\ phase = "chance" /\ phase' = "action" /\ round' = round
        /\ bet'.raiseCount = 0 /\ ~bet'.firstActionTaken
        /\ betHistory' = betHistory /\ thrown' = thrown
    BY <1>4 DEF AutoAdvance, DealChance, OpenWith
  <2>2. Quota(round) \in Nat
    BY QuotaGrows DEF EnvInv, IInv, TypeOK
  <2>3. Spent' = 0
    BY <2>1 DEF Spent
  <2> QED
    BY <2>1, <2>2, <2>3 DEF LengthInv
<1>5. CASE UNCHANGED envVars
  BY <1>5 DEF envVars, vars, LengthInv, Spent
<1> QED
  BY <1>1, <1>2, <1>3, <1>4, <1>5 DEF EnvNext

(* No hand puts more than 4 * (MaxRaises + 2) entries into the history,    *)
(* however it is played.                                                   *)
THEOREM HistoryStaysBounded == EnvSpec => []HistoryIsBounded
<1>1. EnvInit => LengthInv
  BY ConfigAssumption DEF EnvInit, Init, LengthInv, Quota
<1>2. EnvInv /\ LengthInv => HistoryIsBounded
  <2> SUFFICES ASSUME EnvInv, LengthInv, ~thrown
               PROVE  Len(betHistory) <= Quota(River + 1)
    BY DEF HistoryIsBounded, Quota
  <2>1. /\ Quota(round) \in Nat
        /\ Quota(round + 1) = Quota(round) + MaxRaises + 2
        /\ Quota(round + 1) <= Quota(River + 1)
    BY QuotaGrows DEF EnvInv, IInv, TypeOK
  <2>2. Len(betHistory) \in Nat /\ MaxRaises \in Nat /\ Quota(River + 1) \in Nat
    BY ConfigAssumption DEF EnvInv, Quota, River
  <2>3. phase = "action" => Spent \in Nat /\ Spent <= MaxRaises + 1
    BY SpentFacts DEF EnvInv
  <2> QED
    BY <2>1, <2>2, <2>3, SMTT(30) DEF LengthInv, EnvInv, IInv, TypeOK
<1> QED
  BY <1>1, <1>2, LengthStep, EnvInvariance, PTL DEF EnvSpec
-----------------------------------------------------------------------------
(***************************************************************************)
(* The action table holds the engine's menu, one action a slot.            *)
(***************************************************************************)
(* Every action of the menu has one slot.                                  *)
LEMMA FirstFit ==
    ASSUME NEW a, Fits(a) # {}
    PROVE  Min(Fits(a)) \in Percents /\ Expected(Min(Fits(a))) = a.amount
<1>1. Fits(a) \in SUBSET Nat
  BY ConfigAssumption DEF Fits
<1>2. Min(Fits(a)) \in Fits(a)
  BY <1>1, MinIsMember
<1>3. QED
  BY <1>2 DEF Fits

SlotOf(a) == CASE a.kind = "fold" -> FoldSlot
               [] a.kind \in {"check", "call"} -> PassiveSlot
               [] a.kind = "raise" /\ Fits(a) # {} -> Min(Fits(a))
               [] OTHER -> ShoveSlot

LEMMA OneSlot == ASSUME NEW a PROVE SlotsOf(a) = {SlotOf(a)}
  BY DEF SlotsOf, SlotOf

(* Unless the sum gives back what the product lost, engine and environment *)
(* agree on the size of a fraction.                                        *)
LEMMA SameSize ==
    ASSUME IInv, NEW pct \in Percents, ~Found(pct)
    PROVE  PotSize(pct) = Expected(pct)
<1>1. bet.currentBet \in Nat /\ (pct * pot) \div 100 \in Nat
  BY SizeFacts DEF IInv, TypeOK
<1>2. QED
  BY <1>1 DEF PotSize, Expected

(* A raise that fits no pot fraction is the whole stack, where the menu    *)
(* offers it, or misread.                                                  *)
Shoved(n) == \/ AllInSlot /\ n = stacks[player]
             \/ Raise(n) \in Misread

LEMMA RaiseSlot ==
    ASSUME IInv, NEW n \in BetSizes
    PROVE  \/ /\ SlotOf(Raise(n)) \in Percents
              /\ Expected(SlotOf(Raise(n))) = n
           \/ SlotOf(Raise(n)) = ShoveSlot /\ Shoved(n)
<1>1. Raise(n).kind = "raise" /\ Raise(n).amount = n
  BY DEF Raise
<1>2. CASE Fits(Raise(n)) # {}
  <2>1. SlotOf(Raise(n)) = Min(Fits(Raise(n)))
    BY <1>1, <1>2 DEF SlotOf
  <2>2. QED
    BY <1>1, <1>2, <2>1, FirstFit
<1>3. CASE Fits(Raise(n)) = {}
  <2>1. SlotOf(Raise(n)) = ShoveSlot
    BY <1>1, <1>3 DEF SlotOf
  <2>2. \A pct \in Percents : Expected(pct) # n
    BY <1>1, <1>3 DEF Fits
  <2>3. ASSUME NEW pct \in Percents, n = PotSize(pct) PROVE Shoved(n)
    <3>1. Found(pct)
      BY <2>2, <2>3, SameSize
    <3>2. QED
      BY <2>3, <3>1 DEF Misread, Shoved
  <2>4. QED
    BY <2>1, <2>3 DEF BetSizes, Shoved
<1>4. QED
  BY <1>2, <1>3

(* Where the actions of the menu go.                                       *)
LEMMA MenuSlots ==
    ASSUME IInv, NEW a \in Available
    PROVE  \/ a = Fold /\ SlotOf(a) = FoldSlot
           \/ a = (IF FacingBet THEN Call(CallAmount) ELSE Check)
              /\ SlotOf(a) = PassiveSlot
           \/ \E n \in BetSizes :
                 /\ a = Raise(n)
                 /\ \/ SlotOf(a) \in Percents /\ Expected(SlotOf(a)) = n
                    \/ SlotOf(a) = ShoveSlot /\ Shoved(n)
<1>1. \/ \E n \in BetSizes : a = Raise(n)
      \/ a = Fold
      \/ a = (IF FacingBet THEN Call(CallAmount) ELSE Check)
  BY DEF Available
<1>2. CASE a = Fold
  BY <1>2 DEF Fold, SlotOf
<1>3. CASE a = (IF FacingBet THEN Call(CallAmount) ELSE Check)
  BY <1>3 DEF Call, Check, SlotOf
<1>4. CASE \E n \in BetSizes : a = Raise(n)
  BY <1>4, RaiseSlot
<1>5. QED
  BY <1>1, <1>2, <1>3, <1>4

LEMMA SlotsAreDistinct ==
    /\ FoldSlot \notin Percents /\ PassiveSlot \notin Percents
    /\ ShoveSlot \notin Percents
    /\ FoldSlot # PassiveSlot /\ FoldSlot # ShoveSlot /\ PassiveSlot # ShoveSlot
  BY SlotAssumption DEF FoldSlot, PassiveSlot, ShoveSlot

(* Only the all-in slot, or where there is none none at all, can be the    *)
(* slot of two.                                                            *)
LEMMA MenuIsTold ==
    ASSUME IInv, NEW a \in Available
    PROVE  /\ a # Empty
           /\ SlotOf(a) \in Slots \cup {ShoveSlot}
           /\ \A b \in Available :
                 SlotOf(a) = SlotOf(b) /\ SlotOf(a) # ShoveSlot => a = b
<1>1. SlotOf(a) \in Slots \cup {ShoveSlot}
  BY MenuSlots DEF Slots, RaiseSlots
<1>2. a # Empty
  BY MenuSlots DEF Empty, Raise, Call, Check, Fold
<1>3. ASSUME NEW b \in Available, SlotOf(a) = SlotOf(b), SlotOf(a) # ShoveSlot
      PROVE  a = b
  BY <1>3, MenuSlots, SlotsAreDistinct
<1>4. QED
  BY <1>1, <1>2, <1>3

(* The rebuilt table, slot by slot.                                        *)
LEMMA TableSlots ==
    ASSUME IInv
    PROVE  /\ \A a \in Available :
                 SlotOf(a) # ShoveSlot => /\ SlotOf(a) \in Slots
                                          /\ ActionTable[SlotOf(a)] = a
           /\ \A s \in Slots : ActionTable[s] # Empty =>
                 ActionTable[s] \in Available /\ SlotOf(ActionTable[s]) = s
<1>1. ASSUME NEW s \in Slots, ActionTable[s] # Empty
      PROVE  \E a \in Available : s \in SlotsOf(a)
  BY <1>1 DEF ActionTable
<1>2. ASSUME NEW a \in Available, SlotOf(a) # ShoveSlot
      PROVE  SlotOf(a) \in Slots /\ ActionTable[SlotOf(a)] = a
  <2>1. SlotOf(a) \in Slots /\ SlotOf(a) \in SlotsOf(a)
    BY <1>2, OneSlot, MenuIsTold
  <2>2. /\ ActionTable[SlotOf(a)] \in Available
        /\ SlotOf(a) \in SlotsOf(ActionTable[SlotOf(a)])
    BY <2>1, LastStored
  <2>3. SlotOf(a) = SlotOf(ActionTable[SlotOf(a)])
    BY <2>2, OneSlot
  <2>4. QED
    BY <1>2, <2>1, <2>2, <2>3, MenuIsTold
<1>3. ASSUME NEW s \in Slots, ActionTable[s] # Empty
      PROVE  ActionTable[s] \in Available /\ SlotOf(ActionTable[s]) = s
  <2>1. ActionTable[s] \in Available /\ s \in SlotsOf(ActionTable[s])
    BY <1>1, <1>3, LastStored
  <2>2. QED
    BY <2>1, OneSlot
<1>4. QED
  BY <1>2, <1>3

(* The all-in slot: of the actions that go there the largest stays, which  *)
(* is the stack if that is one of them.                                    *)
LEMMA ShoveSlotFacts ==
    ASSUME IInv, AllInSlot, NEW a \in Available, SlotOf(a) = ShoveSlot
    PROVE  /\ ActionTable[ShoveSlot] \in Available
           /\ SlotOf(ActionTable[ShoveSlot]) = ShoveSlot
           /\ ActionTable[ShoveSlot] # Empty
           /\ a.amount <= ActionTable[ShoveSlot].amount
<1>1. ShoveSlot \in Slots /\ ShoveSlot \in SlotsOf(a)
  BY OneSlot DEF Slots, RaiseSlots
<1>2. /\ ActionTable[ShoveSlot] \in Available
      /\ ShoveSlot \in SlotsOf(ActionTable[ShoveSlot])
      /\ a.amount <= ActionTable[ShoveSlot].amount
  BY <1>1, LastStored
<1>3. QED
  BY <1>2, OneSlot, MenuIsTold

(* A misread raise is more than the bet, so that beside one that is less   *)
(* than the stack the stack is offered too.                                *)
LEMMA MisreadFacts ==
    ASSUME IInv, phase = "action", AllInSlot,
           NEW n \in BetSizes, Raise(n) \in Misread, n # stacks[player]
    PROVE  n < stacks[player] /\ Raise(stacks[player]) \in Available
<1>1. PICK pct \in Percents : Found(pct) /\ Raise(n) = Raise(PotSize(pct))
  BY DEF Misread
<1>2. n = PotSize(pct)
  BY <1>1 DEF Raise
<1>3. bet.currentBet \in Nat /\ stacks[player] \in Nat
  BY DEF IInv, TypeOK
<1>4. /\ (pct * pot) \div 100 \in Nat /\ (pct * pot) \div 100 >= 1
      /\ n = bet.currentBet + (pct * pot) \div 100
  <2>1. (pct * pot) \div 100 \in Nat /\ (pct * pot) \div 100 >= 1
    BY <1>1, SizeFacts
  <2>2. QED
    BY <1>1, <1>2, <1>3, <2>1 DEF PotSize
<1>5. n \in Nat /\ n <= stacks[player]
  BY MenuFacts DEF Available
<1>6. n < stacks[player] /\ stacks[player] > bet.currentBet
  BY <1>3, <1>4, <1>5
<1>7. QED
  BY <1>6 DEF BetSizes, Available

TableIsCurrent == phase = "action" /\ actionTable = ActionTable

LEMMA CurrentTable == IInv /\ TableIsCurrent => TableIsTheMenu
<1> SUFFICES ASSUME IInv, TableIsCurrent PROVE TableIsTheMenu
  OBVIOUS
<1>0. phase = "action" /\ actionTable = ActionTable
  BY DEF TableIsCurrent
<1>1. Offered \subseteq Available
  BY <1>0, TableSlots DEF Legal, Offered
<1>2. ASSUME NEW s \in Slots, NEW t \in Slots,
             Legal(s), actionTable[s] = actionTable[t]
      PROVE  s = t
  BY <1>0, <1>2, TableSlots DEF Legal
<1>3. ASSUME NEW a \in Available, a \notin Offered
      PROVE  a \in Misread \ {r \in {Raise(stacks[player])} : AllInSlot}
  <2>1. SlotOf(a) = ShoveSlot
    BY <1>0, <1>3, TableSlots, MenuIsTold DEF Legal, Offered
  <2>2. PICK n \in BetSizes : a = Raise(n) /\ Shoved(n)
    BY <2>1, MenuSlots, SlotsAreDistinct
  <2>3. CASE ~AllInSlot
    BY <2>2, <2>3 DEF Shoved
  <2>4. CASE AllInSlot
    <3>1. /\ ActionTable[ShoveSlot] \in Available
          /\ SlotOf(ActionTable[ShoveSlot]) = ShoveSlot
          /\ ActionTable[ShoveSlot] # Empty
          /\ a.amount <= ActionTable[ShoveSlot].amount
      BY <2>1, <2>4, ShoveSlotFacts
    <3>2. ShoveSlot \in Slots
      BY <2>4 DEF Slots, RaiseSlots
    <3>3. a # ActionTable[ShoveSlot]
      BY <1>0, <1>3, <3>1, <3>2 DEF Offered, Legal
    <3>4. PICK m \in BetSizes : ActionTable[ShoveSlot] = Raise(m)
      BY <3>1, MenuSlots, SlotsAreDistinct
    <3>5. n <= m /\ n # m
      BY <2>2, <3>1, <3>3, <3>4 DEF Raise
    <3>6. n \in Nat /\ m \in Nat /\ m <= stacks[player] /\ stacks[player] \in Nat
      BY <1>0, <2>2, <3>1, <3>4, MenuFacts DEF IInv, TypeOK
    <3>7. n # stacks[player]
      BY <3>5, <3>6
    <3>8. a # Raise(stacks[player])
      BY <2>2, <3>7 DEF Raise
    <3>9. QED
      BY <2>2, <3>7, <3>8 DEF Shoved
  <2>5. QED
    BY <2>3, <2>4
<1>4. ASSUME AllInSlot, Legal(ShoveSlot),
             actionTable[ShoveSlot] # Raise(stacks[player])
      PROVE  /\ actionTable[ShoveSlot] \in Misread
             /\ \E pct \in Percents : actionTable[pct] = Raise(stacks[player])
  <2>1. ShoveSlot \in Slots
    BY <1>4 DEF Slots, RaiseSlots
  <2>2. /\ actionTable[ShoveSlot] \in Available
        /\ SlotOf(actionTable[ShoveSlot]) = ShoveSlot
    BY <1>0, <1>4, <2>1, TableSlots DEF Legal
  <2>3. PICK n \in BetSizes : actionTable[ShoveSlot] = Raise(n) /\ Shoved(n)
    BY <2>2, MenuSlots, SlotsAreDistinct
  <2>4. n # stacks[player] /\ Raise(n) \in Misread
    BY <1>4, <2>3 DEF Shoved
  <2>5. n < stacks[player] /\ Raise(stacks[player]) \in Available
    BY <1>0, <1>4, <2>4, MisreadFacts
  <2>6. n \in Nat /\ stacks[player] \in Nat
    BY <1>0, <2>2, <2>3, MenuFacts DEF IInv, TypeOK
  <2>7. SlotOf(Raise(stacks[player])) # ShoveSlot
    <3>1. ASSUME SlotOf(Raise(stacks[player])) = ShoveSlot PROVE FALSE
      <4>1. Raise(stacks[player]).amount <= Raise(n).amount
        BY <1>0, <1>4, <2>3, <2>5, <3>1, ShoveSlotFacts
      <4>2. QED
        BY <2>5, <2>6, <4>1 DEF Raise
    <3>2. QED
      BY <3>1
  <2>8. SlotOf(Raise(stacks[player])) \in Percents
    BY <2>5, <2>7, MenuSlots DEF Raise, Fold, Call, Check
  <2>9. QED
    BY <1>0, <2>3, <2>4, <2>5, <2>7, <2>8, TableSlots
<1>5. QED
  BY <1>1, <1>2, <1>3, <1>4
  DEF TableIsTheMenu, OneSlotPerAction, ShoveIsAllIn

LEMMA CurrentTableNext == IInv' /\ TableIsCurrent' => TableIsTheMenu'
  BY CurrentTable, PTL

(* The table is rebuilt before any call returns to a player's turn.        *)
LEMMA TableStep == EnvInv' /\ TableIsTheMenu /\ [EnvNext]_envVars => TableIsTheMenu'
<1> SUFFICES ASSUME EnvInv', TableIsTheMenu, [EnvNext]_envVars
             PROVE  TableIsTheMenu'
  OBVIOUS
<1>1. CASE phase' # "action"
  BY <1>1 DEF TableIsTheMenu, OneSlotPerAction, ShoveIsAllIn
<1>2. CASE phase' = "action" /\ RebuildIfPlaying
  <2>1. TableIsCurrent'
    BY <1>2 DEF RebuildIfPlaying, TableIsCurrent
  <2>2. QED
    BY <2>1, CurrentTableNext DEF EnvInv
<1>3. CASE UNCHANGED <<vars, actionTable>>
  <2>1. /\ Available' = Available /\ Misread' = Misread
        /\ stacks' = stacks /\ player' = player
    BY <1>3 DEF vars, money, Available, BetSizes, PotSize, Lost, Found,
                FacingBet, CallAmount, Owed, Preflop, Misread
  <2>2. /\ \A s \in Slots : Legal(s)' <=> Legal(s)
        /\ Offered' = Offered
    BY <1>3 DEF Legal, Offered
  <2>3. QED
    BY <1>3, <2>1, <2>2
    DEF TableIsTheMenu, OneSlotPerAction, ShoveIsAllIn, vars, Legal
<1>4. QED
  BY <1>1, <1>2, <1>3 DEF EnvNext, Reset, ReInitialize, Step, StepThrows,
                          AutoAdvance, envVars

(* For any menu of pot fractions, blinds and stacks, and whatever products *)
(* and sums lose or win in rounding: the table holds the legal actions of  *)
(* the engine, one in a slot, and the all-in slot the stack, but for       *)
(* raises that the environment computes to be one chip smaller.            *)
THEOREM MenuIsInTheTable == EnvSpec => []TableIsTheMenu
<1>1. EnvInit => TableIsTheMenu
  BY DEF EnvInit, Init, TableIsTheMenu, OneSlotPerAction, ShoveIsAllIn
<1>2. QED
  BY <1>1, TableStep, EnvInvariance, PTL DEF EnvSpec

LEMMA EachHasOneSlot == EnvSpec => []OneSlotPerAction
<1>1. TableIsTheMenu => OneSlotPerAction
  BY DEF TableIsTheMenu
<1>2. QED
  BY <1>1, MenuIsInTheTable, PTL

(* Where no sum wins back what a product lost, as with every fraction that *)
(* a double holds exactly, that is the whole menu, and nothing but the     *)
(* stack is in the all-in slot.                                            *)
WholeMenu ==
    phase = "action" =>
        /\ Offered = Available
        /\ AllInSlot /\ Legal(ShoveSlot) =>
               actionTable[ShoveSlot] = Raise(stacks[player])

THEOREM ExactFractionsGiveTheMenu ==
    FoundInSum = {} => (EnvSpec => []WholeMenu)
<1> SUFFICES ASSUME FoundInSum = {} PROVE EnvSpec => []WholeMenu
  OBVIOUS
<1>1. TableIsTheMenu => WholeMenu
  <2>1. Misread = {}
    BY DEF Misread, Found
  <2>2. QED
    BY <2>1 DEF TableIsTheMenu, OneSlotPerAction, ShoveIsAllIn, WholeMenu
<1>2. QED
  BY <1>1, MenuIsInTheTable, PTL
-----------------------------------------------------------------------------
(***************************************************************************)
(* The history tells the betting of the hand.                              *)
(***************************************************************************)
(* One more entry at the end.                                              *)
LEMMA Appended ==
    ASSUME EnvInv, NEW e \in HistoryEntry, betHistory' = Append(betHistory, e)
    PROVE  LET n == Len(betHistory)
           IN  /\ n \in Nat /\ DOMAIN betHistory = 1 .. n
               /\ DOMAIN betHistory' = 1 .. n + 1
               /\ \A k \in 1 .. n : betHistory'[k] = betHistory[k]
               /\ betHistory'[n + 1] = e
               /\ \A k \in 1 .. n : betHistory[k] \in HistoryEntry
<1> DEFINE n == Len(betHistory)
<1> HIDE DEF HistoryEntry
<1>1. betHistory \in Seq(HistoryEntry)
  BY DEF EnvInv
<1>2. n \in Nat /\ DOMAIN betHistory = 1 .. n
  BY <1>1
<1>3. \A k \in 1 .. n : betHistory[k] \in HistoryEntry
  BY <1>1
<1>4. /\ DOMAIN betHistory' = 1 .. n + 1
      /\ \A k \in 1 .. n : betHistory'[k] = betHistory[k]
      /\ betHistory'[n + 1] = e
  BY <1>1
<1>5. QED
  BY <1>2, <1>3, <1>4

(* What an entry adds to what was paid,                                    *)
LEMMA PaidGrows ==
    ASSUME EnvInv, NEW e \in HistoryEntry, betHistory' = Append(betHistory, e),
           NEW p \in Seats
    PROVE  /\ PaidBy(p) \in Int
           /\ PaidBy(p)' = PaidBy(p) + (IF e.player = p THEN e.amount ELSE 0)
<1> DEFINE n == Len(betHistory)
           d == [k \in DOMAIN betHistory |->
                    IF betHistory[k].player = p THEN betHistory[k].amount ELSE 0]
           f == [k \in DOMAIN betHistory' |->
                    IF betHistory'[k].player = p THEN betHistory'[k].amount ELSE 0]
<1>1. /\ n \in Nat /\ DOMAIN betHistory = 1 .. n
      /\ DOMAIN betHistory' = 1 .. n + 1
      /\ \A k \in 1 .. n : betHistory'[k] = betHistory[k]
      /\ betHistory'[n + 1] = e
      /\ \A k \in 1 .. n : betHistory[k] \in HistoryEntry
  BY Appended
<1>2. PaidBy(p) = SumFunctionOnSet(d, 1 .. n)
  BY <1>1 DEF PaidBy, SumFunction
<1>3. PaidBy(p)' = SumFunctionOnSet(f, 1 .. n + 1)
  BY <1>1 DEF PaidBy, SumFunction
<1>4. \A k \in 1 .. n : d[k] \in Int
  BY <1>1 DEF HistoryEntry
<1>5. f[n + 1] = (IF e.player = p THEN e.amount ELSE 0) /\ f[n + 1] \in Int
  BY <1>1 DEF HistoryEntry
<1>6. \A k \in 1 .. n : f[k] = d[k]
  BY <1>1
<1> HIDE DEF d, f, n
<1>7. /\ SumFunctionOnSet(d, 1 .. n) \in Int
      /\ SumFunctionOnSet(f, 1 .. n + 1) = SumFunctionOnSet(d, 1 .. n) + f[n + 1]
  BY <1>1, <1>4, <1>5, <1>6, SumOneMore
<1>8. QED
  BY <1>2, <1>3, <1>5, <1>7

(* and to the raises of its street.                                        *)
LEMMA RaisesGrow ==
    ASSUME EnvInv, NEW e \in HistoryEntry, betHistory' = Append(betHistory, e),
           NEW r
    PROVE  IF e.round = r /\ e.aggressive
           THEN /\ Cardinality(RaisesOf(r)') = Cardinality(RaisesOf(r)) + 1
                /\ LastAggressor(r)' = e.player
           ELSE /\ Cardinality(RaisesOf(r)') = Cardinality(RaisesOf(r))
                /\ LastAggressor(r)' = LastAggressor(r)
<1> DEFINE n == Len(betHistory)
<1>1. /\ n \in Nat /\ DOMAIN betHistory = 1 .. n
      /\ DOMAIN betHistory' = 1 .. n + 1
      /\ \A k \in 1 .. n : betHistory'[k] = betHistory[k]
      /\ betHistory'[n + 1] = e
  BY Appended
<1>2. RaisesOf(r) \subseteq 1 .. n /\ IsFiniteSet(RaisesOf(r)) /\ RaisesOf(r) \in SUBSET Nat
  <2>1. RaisesOf(r) \subseteq 1 .. n
    BY <1>1 DEF RaisesOf
  <2>2. IsFiniteSet(1 .. n)
    BY <1>1, FS_Interval
  <2>3. IsFiniteSet(RaisesOf(r))
    BY <2>1, <2>2, FS_Subset
  <2>4. 1 .. n \subseteq Nat
    BY <1>1
  <2>5. QED
    BY <2>1, <2>3, <2>4
<1>3. CASE e.round = r /\ e.aggressive
  <2>1. RaisesOf(r)' = RaisesOf(r) \cup {n + 1} /\ n + 1 \notin RaisesOf(r)
    BY <1>1, <1>3 DEF RaisesOf
  <2>2. Cardinality(RaisesOf(r)') = Cardinality(RaisesOf(r)) + 1
    BY <1>2, <2>1, FS_AddElement
  <2>3. Max(RaisesOf(r)') = n + 1
    <3>1. /\ RaisesOf(r)' \in SUBSET Nat /\ RaisesOf(r)' # {}
          /\ n + 1 \in Nat /\ \A y \in RaisesOf(r)' : y =< n + 1
      BY <1>1, <1>2, <2>1
    <3>2. Max(RaisesOf(r)') \in RaisesOf(r)' /\ \A y \in RaisesOf(r)' : y =< Max(RaisesOf(r)')
      BY <3>1, MaxIsMember
    <3>3. Max(RaisesOf(r)') \in Nat /\ n + 1 =< Max(RaisesOf(r)') /\ Max(RaisesOf(r)') =< n + 1
      BY <2>1, <3>1, <3>2
    <3>4. QED
      BY <1>1, <3>3
  <2>4. LastAggressor(r)' = e.player
    BY <1>1, <2>1, <2>3 DEF LastAggressor
  <2>5. QED
    BY <1>3, <2>2, <2>4
<1>4. CASE ~(e.round = r /\ e.aggressive)
  <2>1. RaisesOf(r)' = RaisesOf(r)
    <3>1. \A k : k \in RaisesOf(r)' <=> k \in RaisesOf(r)
      BY <1>1, <1>4 DEF RaisesOf
    <3>2. QED
      BY <3>1
  <2>2. LastAggressor(r)' = LastAggressor(r)
    <3>1. CASE RaisesOf(r) = {}
      BY <2>1, <3>1 DEF LastAggressor
    <3>2. CASE RaisesOf(r) # {}
      <4>1. \A y \in RaisesOf(r) : y =< n
        BY <1>2
      <4>2. Max(RaisesOf(r)) \in RaisesOf(r)
        BY <1>1, <1>2, <3>2, <4>1, MaxIsMember
      <4>3. QED
        BY <1>1, <1>2, <2>1, <3>2, <4>2 DEF LastAggressor
    <3>3. QED
      BY <3>1, <3>2
  <2>3. QED
    BY <1>4, <2>1, <2>2
<1>5. QED
  BY <1>3, <1>4

(* What an action pays, and what it does to the raises of the street.      *)
LEMMA PlayPays ==
    ASSUME IInv, NEW a, Play(a)
    PROVE  /\ phase' # "terminal" =>
                  stacks' = [stacks EXCEPT ![player] = @ - a.amount]
           /\ phase' = "action" =>
                  IF a.kind = "raise"
                  THEN bet'.raiseCount = bet.raiseCount + 1 /\ bet'.lastRaiser = player
                  ELSE bet'.raiseCount = bet.raiseCount /\ bet'.lastRaiser = bet.lastRaiser
<1> DEFINE Pays == phase' # "terminal" => stacks' = [stacks EXCEPT ![player] = @ - a.amount]
           Same == bet'.raiseCount = bet.raiseCount /\ bet'.lastRaiser = bet.lastRaiser
<1>1. /\ stacks \in [Seats -> Nat] /\ player \in Seats
      /\ bet \in [firstActionTaken : BOOLEAN, checksCount : 0 .. 1, currentBet : Nat,
                  raiseCount : 0 .. MaxRaises, lastRaiser : Seats \cup {NoPlayer}]
  BY DEF IInv, TypeOK
<1>2. CASE a = Check /\ DoCheck
  <2>1. a.amount = 0 /\ a.kind # "raise" /\ stacks' = stacks
    BY <1>2 DEF Check, DoCheck, money
  <2>2. stacks' = [stacks EXCEPT ![player] = @ - a.amount]
    BY <1>1, <2>1
  <2>3. phase' = "action" => Same
    BY <1>1, <1>2 DEF DoCheck, StayOnStreet, NextStreet, Showdown, Terminal
  <2>4. QED
    BY <2>1, <2>2, <2>3
<1>3. CASE a = Fold /\ DoFold
  BY <1>3 DEF DoFold, Terminal
<1>4. CASE a = Raise(a.amount) /\ DoRaise(a.amount)
  <2>1. /\ a.kind = "raise" /\ bet'.raiseCount = bet.raiseCount + 1 /\ bet'.lastRaiser = player
    BY <1>4 DEF Raise, DoRaise, StayOnStreet
  <2>2. Pays
    BY <1>4 DEF DoRaise, AddMoney
  <2>3. QED
    BY <2>1, <2>2
<1>5. CASE a = Call(a.amount) /\ (Limp(a.amount) \/ CallClosesStreet(a.amount))
  <2>1. a.kind # "raise"
    BY <1>5 DEF Call
  <2>2. Pays
    BY <1>5 DEF Limp, CallClosesStreet, AddMoney
  <2>3. phase' = "action" => Same
    BY <1>1, <1>5 DEF Limp, CallClosesStreet, StayOnStreet, NextStreet, Showdown, Terminal
  <2>4. QED
    BY <2>1, <2>2, <2>3
<1>6. CASE CallAllIn(a.amount)
  BY <1>6 DEF CallAllIn, Showdown, Terminal
<1>7. QED
  BY <1>2, <1>3, <1>4, <1>5, <1>6 DEF Play

(* Without a history nothing was paid.                                     *)
NothingPaid == betHistory = <<>> => \A p \in Seats : PaidBy(p) = 0

LEMMA EmptyPaysNothing == NothingPaid
<1> SUFFICES ASSUME betHistory = <<>>, NEW p \in Seats PROVE PaidBy(p) = 0
  BY DEF NothingPaid
<1> DEFINE d == [k \in DOMAIN betHistory |->
                    IF betHistory[k].player = p THEN betHistory[k].amount ELSE 0]
<1>1. PaidBy(p) = SumFunctionOnSet(d, {})
  BY DEF PaidBy, SumFunction
<1> HIDE DEF d
<1>2. QED
  BY <1>1, SumOfNothing

LEMMA NothingPaidNext == NothingPaid'
  BY EmptyPaysNothing, PTL

(* A street without entries has no raises.                                 *)
LEMMA NoRaisesYet ==
    ASSUME NEW r, \A k \in DOMAIN betHistory : betHistory[k].round # r
    PROVE  Cardinality(RaisesOf(r)) = 0 /\ LastAggressor(r) = NoPlayer
<1>1. RaisesOf(r) = {}
  BY DEF RaisesOf
<1>2. QED
  BY <1>1, FS_EmptySet DEF LastAggressor

LEMMA StepTellsTheChips ==
    ASSUME EnvInv, HistoryInv, NEW s \in Slots, Step(s)
    PROVE  ChipsAreTold'
<1> DEFINE a == actionTable[s]
<1>1. IInv /\ Play(a) /\ phase = "action"
  BY PlayFacts DEF Step, EnvInv
<1>2. Entry(a) \in HistoryEntry /\ betHistory' = Append(betHistory, Entry(a))
      /\ Entry(a).amount = a.amount /\ Entry(a).player = player /\ a.amount \in Nat
  <2>1. a.amount \in Nat /\ player \in Seats /\ round \in Streets
    BY DEF EnvInv, IInv, TypeOK, GameAction
  <2>2. QED
    BY <2>1 DEF Step, Entry, HistoryEntry
<1> HIDE DEF a
<1>3. SUFFICES ASSUME phase' # "terminal", NEW p \in Seats
               PROVE  stacks'[p] = InitialStack - Blind(p) - PaidBy(p)'
  BY DEF ChipsAreTold, Blind
<1>4. stacks' = [stacks EXCEPT ![player] = @ - a.amount]
  BY <1>1, <1>3, PlayPays
<1>5. /\ PaidBy(p) \in Int
      /\ PaidBy(p)' = PaidBy(p) + (IF player = p THEN a.amount ELSE 0)
  BY <1>2, PaidGrows
<1>6. stacks[p] = InitialStack - Blind(p) - PaidBy(p)
  BY <1>1 DEF HistoryInv, ChipsAreTold
<1>7. /\ stacks \in [Seats -> Nat] /\ Blind(p) \in Nat /\ InitialStack \in Nat
  BY ConfigAssumption DEF EnvInv, IInv, TypeOK, Blind
<1>8. CASE player = p
  <2>1. stacks'[p] = stacks[p] - a.amount /\ PaidBy(p)' = PaidBy(p) + a.amount
    BY <1>4, <1>5, <1>7, <1>8
  <2>2. QED
    BY <1>2, <1>5, <1>6, <1>7, <2>1
<1>9. CASE player # p
  <2>1. stacks'[p] = stacks[p] /\ PaidBy(p)' = PaidBy(p) + 0
    BY <1>4, <1>5, <1>7, <1>9
  <2>2. QED
    BY <1>5, <1>6, <2>1
<1>10. QED
  BY <1>8, <1>9

LEMMA StepTellsTheStreets ==
    ASSUME EnvInv, HistoryInv, NEW s \in Slots, Step(s)
    PROVE  StreetsAreTold'
<1> DEFINE a == actionTable[s]
           n == Len(betHistory)
<1>1. /\ IInv /\ IInv' /\ Play(a) /\ phase = "action"
      /\ phase' = "action" => round' = round
      /\ phase' = "chance" => round' = round + 1
  BY PlayFacts, PlaySpends DEF Step, EnvInv
<1>2. /\ Entry(a) \in HistoryEntry /\ betHistory' = Append(betHistory, Entry(a))
      /\ Entry(a).round = round /\ Entry(a).player = player
      /\ Entry(a).aggressive = (a.kind = "raise")
      /\ round \in Nat
  <2>1. a.amount \in Nat /\ player \in Seats /\ round \in Streets
    BY DEF EnvInv, IInv, TypeOK, GameAction
  <2>2. QED
    BY <2>1 DEF Step, Entry, HistoryEntry, Streets, River
<1> HIDE DEF a
<1>3. /\ n \in Nat /\ DOMAIN betHistory = 1 .. n
      /\ DOMAIN betHistory' = 1 .. n + 1
      /\ \A k \in 1 .. n : betHistory'[k] = betHistory[k]
      /\ betHistory'[n + 1] = Entry(a)
      /\ \A k \in 1 .. n : betHistory[k] \in HistoryEntry
  BY <1>2, Appended
<1>4. \A k \in DOMAIN betHistory' : betHistory'[k].round \in Nat /\ betHistory'[k].round =< round
  <2>1. \A k \in 1 .. n : betHistory[k].round \in Nat /\ betHistory[k].round =< round
    BY <1>1, <1>3 DEF HistoryInv, StreetsAreTold, HistoryEntry, Streets, River
  <2>2. QED
    BY <1>2, <1>3, <2>1
<1>5. CASE phase' = "chance"
  <2>1. \A k \in DOMAIN betHistory' : betHistory'[k].round < round'
    BY <1>1, <1>2, <1>4, <1>5
  <2>2. QED
    BY <1>5, <2>1 DEF StreetsAreTold, HistoryTellsTheStreet
<1>6. CASE phase' = "action"
  <2>1. Cardinality(RaisesOf(round)) = bet.raiseCount /\ LastAggressor(round) = bet.lastRaiser
    BY <1>1 DEF HistoryInv, StreetsAreTold, HistoryTellsTheStreet
  <2>2. IF a.kind = "raise"
        THEN bet'.raiseCount = bet.raiseCount + 1 /\ bet'.lastRaiser = player
        ELSE bet'.raiseCount = bet.raiseCount /\ bet'.lastRaiser = bet.lastRaiser
    BY <1>1, <1>6, PlayPays
  <2>3. IF Entry(a).round = round /\ Entry(a).aggressive
        THEN /\ Cardinality(RaisesOf(round)') = Cardinality(RaisesOf(round)) + 1
             /\ LastAggressor(round)' = Entry(a).player
        ELSE /\ Cardinality(RaisesOf(round)') = Cardinality(RaisesOf(round))
             /\ LastAggressor(round)' = LastAggressor(round)
    <3>1. round' = round
      BY <1>1, <1>6
    <3>2. QED
      BY <1>2, <3>1, RaisesGrow
  <2>4. QED
    BY <1>1, <1>2, <1>4, <1>6, <2>1, <2>2, <2>3
    DEF StreetsAreTold, HistoryTellsTheStreet
<1>7. CASE phase' = "terminal"
  BY <1>7 DEF StreetsAreTold, HistoryTellsTheStreet
<1>8. QED
  BY <1>1, <1>5, <1>6, <1>7 DEF IInv, TypeOK

LEMMA HistoryStep ==
    EnvInv /\ OneSlotPerAction /\ HistoryInv /\ [EnvNext]_envVars => HistoryInv'
<1> SUFFICES ASSUME EnvInv, OneSlotPerAction, HistoryInv, [EnvNext]_envVars
             PROVE  HistoryInv'
  OBVIOUS
<1>1. CASE Reset
  <2>1. /\ betHistory' = <<>> /\ phase' = "chance"
        /\ stacks' = [p \in Seats |-> InitialStack - Blind(p)]
    BY <1>1 DEF Reset, ReInitialize
  <2>2. ASSUME NEW p \in Seats PROVE stacks'[p] = InitialStack - Blind(p) - PaidBy(p)'
    <3>1. PaidBy(p)' = 0
      BY <2>1, NothingPaidNext DEF NothingPaid
    <3>2. InitialStack \in Nat /\ Blind(p) \in Nat
      BY ConfigAssumption DEF Blind
    <3>3. QED
      BY <2>1, <3>1, <3>2
  <2>3. ChipsAreTold'
    BY <2>2 DEF ChipsAreTold, Blind
  <2>4. StreetsAreTold'
    BY <2>1 DEF StreetsAreTold, HistoryTellsTheStreet
  <2>5. QED
    BY <2>3, <2>4 DEF HistoryInv
<1>2. ASSUME NEW s \in Slots, Step(s) PROVE HistoryInv'
  BY <1>2, StepTellsTheChips, StepTellsTheStreets DEF HistoryInv
<1>3. ASSUME NEW s \in Slots, StepThrows(s) PROVE HistoryInv'
  <2>1. phase # "action"
    BY <1>3 DEF StepThrows, OneSlotPerAction, Offered
  <2>2. phase' = "terminal"
    BY <1>3, <2>1 DEF StepThrows, vars, EnvInv, IInv, TypeOK
  <2>3. QED
    BY <2>2 DEF HistoryInv, ChipsAreTold, StreetsAreTold, HistoryTellsTheStreet
<1>4. CASE AutoAdvance
  <2>1. /\ phase = "chance" /\ phase' = "action" /\ round' = round
        /\ bet'.raiseCount = 0 /\ bet'.lastRaiser = NoPlayer
        /\ stacks' = stacks /\ betHistory' = betHistory
    BY <1>4 DEF AutoAdvance, DealChance, OpenWith, money
  <2>2. ChipsAreTold'
    BY <2>1 DEF HistoryInv, ChipsAreTold, Blind, PaidBy
  <2>3. /\ \A k \in DOMAIN betHistory : betHistory[k].round < round
        /\ \A k \in DOMAIN betHistory : betHistory[k].round \in Nat
        /\ round \in Nat
    <3> HIDE DEF HistoryEntry
    <3>1. \A k \in DOMAIN betHistory : betHistory[k] \in HistoryEntry
      BY DEF EnvInv
    <3>2. \A k \in DOMAIN betHistory : betHistory[k].round \in Nat
      BY <3>1 DEF HistoryEntry, Streets, River
    <3>3. round \in Nat
      BY DEF EnvInv, IInv, TypeOK, Streets, River
    <3>4. QED
      BY <2>1, <3>2, <3>3 DEF HistoryInv, StreetsAreTold
  <2>4. /\ \A k \in DOMAIN betHistory : betHistory[k].round =< round
        /\ \A k \in DOMAIN betHistory : betHistory[k].round # round
    BY <2>3
  <2>5. Cardinality(RaisesOf(round)) = 0 /\ LastAggressor(round) = NoPlayer
    BY <2>4, NoRaisesYet
  <2>6. RaisesOf(round)' = RaisesOf(round) /\ LastAggressor(round)' = LastAggressor(round)
    BY <2>1 DEF RaisesOf, LastAggressor
  <2>7. StreetsAreTold'
    BY <2>1, <2>4, <2>5, <2>6 DEF StreetsAreTold, HistoryTellsTheStreet
  <2>8. QED
    BY <2>2, <2>7 DEF HistoryInv
<1>5. CASE UNCHANGED envVars
  BY <1>5 DEF envVars, vars, money, HistoryInv, ChipsAreTold, Blind, PaidBy, StreetsAreTold,
              HistoryTellsTheStreet, RaisesOf, LastAggressor
<1>6. QED
  BY <1>1, <1>2, <1>3, <1>4, <1>5 DEF EnvNext

LEMMA HistoryInvariance == EnvSpec => []HistoryInv
<1>1. EnvInit => HistoryInv
  <2> SUFFICES ASSUME EnvInit PROVE HistoryInv
    OBVIOUS
  <2>1. /\ betHistory = <<>> /\ phase = "chance"
        /\ stacks = [p \in Seats |-> InitialStack - Blind(p)]
    BY DEF EnvInit, Init
  <2>2. ASSUME NEW p \in Seats PROVE stacks[p] = InitialStack - Blind(p) - PaidBy(p)
    <3>1. PaidBy(p) = 0
      BY <2>1, EmptyPaysNothing DEF NothingPaid
    <3>2. InitialStack \in Nat /\ Blind(p) \in Nat
      BY ConfigAssumption DEF Blind
    <3>3. QED
      BY <2>1, <3>1, <3>2
  <2>3. QED
    BY <2>1, <2>2 DEF HistoryInv, ChipsAreTold, StreetsAreTold, HistoryTellsTheStreet
<1>2. QED
  BY <1>1, HistoryStep, EnvInvariance, EachHasOneSlot, PTL DEF EnvSpec

(* What the network is told of the betting is the betting of this hand:    *)
(* each seat's chips and the raises of the street.                         *)
THEOREM HistoryIsTheBetting == EnvSpec => []HistoryTellsTheHand
<1>1. HistoryInv => HistoryTellsTheHand
  BY DEF HistoryInv, ChipsAreTold, StreetsAreTold, HistoryTellsTheHand, HistoryPaysTheStacks
<1>2. QED
  BY <1>1, HistoryInvariance, PTL
-----------------------------------------------------------------------------
(***************************************************************************)
(* Observation: the layout of a row, for any history lengths and any       *)
(* namespace of cards.                                                     *)
(***************************************************************************)
(* The parts of a row follow one another and fill it.                      *)
LEMMA LayoutFacts ==
    ASSUME NEW c \in Configs
    PROVE  /\ SummaryDim(c) = (IF c.summary THEN 16 ELSE 0)
           /\ HistoryBlockDim(c) = (IF c.history THEN c.length * 9 ELSE 0)
           /\ TotalDim(c) = SummaryOffset + SummaryDim(c) + HistoryBlockDim(c)
           /\ c.length \in Nat /\ c.length # 0
           /\ c.history \in BOOLEAN /\ c.summary \in BOOLEAN
<1>1. c.length \in Nat /\ c.length # 0
  BY LengthsAssumption DEF Configs
<1>2. c.history \in BOOLEAN /\ c.summary \in BOOLEAN
  BY DEF Configs
<1>3. SummaryOffset \in Nat
  BY CardsAssumption DEF SummaryOffset, StaticOffset, FeatStatic, FeatBasic,
                         FeatHandStrength
<1>4. SummaryDim(c) = (IF c.summary THEN 16 ELSE 0)
  BY DEF SummaryDim, FeatPerRound
<1>5. HistoryBlockDim(c) = (IF c.history THEN c.length * 9 ELSE 0)
  BY DEF HistoryBlockDim, FeatPerAction
<1>6. QED
  BY <1>1, <1>2, <1>3, <1>4, <1>5 DEF TotalDim, HistoryOffset

(* A round summary is 16 numbers and a token with its mask bit is 9: no    *)
(* number of tokens makes up for a summary.                                *)
LEMMA DimensionTellsTheCuts ==
    ASSUME NEW c \in Configs, NEW d \in Configs, TotalDim(c) = TotalDim(d)
    PROVE  SameCuts(c, d)
<1>1. SummaryOffset \in Nat
  BY CardsAssumption DEF SummaryOffset, StaticOffset, FeatStatic, FeatBasic,
                         FeatHandStrength
<1> DEFINE summary(x) == IF x.summary THEN 16 ELSE 0
           tokens(x) == IF x.history THEN x.length ELSE 0
<1>2. summary(c) + 9 * tokens(c) = summary(d) + 9 * tokens(d)
  BY <1>1, LayoutFacts
<1>3. /\ tokens(c) \in Nat /\ tokens(d) \in Nat
      /\ summary(c) \in {0, 16} /\ summary(d) \in {0, 16}
  BY LayoutFacts
<1> HIDE DEF summary, tokens
<1>4. summary(c) = summary(d) /\ tokens(c) = tokens(d)
  BY <1>2, <1>3
<1>5. c.summary = d.summary
  BY <1>4, LayoutFacts DEF summary
<1>6. c.history = d.history /\ (c.history => c.length = d.length)
  BY <1>4, LayoutFacts DEF tokens
<1>7. QED
  BY <1>5, <1>6 DEF SameCuts

(* So a network that takes a builder's rows reads them as one with the     *)
(* builder's own settings would.                                           *)
LEMMA ReadAlike ==
    ASSUME NEW d \in Configs, NEW c \in Readers(d), NEW obs
    PROVE  /\ TrunkInput(c, obs) = TrunkInput(d, obs)
           /\ d.history => Attended(c, obs) = Attended(d, obs)
<1>1. c \in Configs /\ SameCuts(c, d)
  BY DimensionTellsTheCuts DEF Readers, Accepts
<1>2. c.summary = d.summary /\ SummaryDim(c) = SummaryDim(d)
  BY <1>1 DEF SameCuts, SummaryDim
<1>3. TrunkInput(c, obs) = TrunkInput(d, obs)
  BY <1>2 DEF TrunkInput
<1>4. d.history => c = d
  <2>1. \A x \in Configs : x = [history |-> x.history, length |-> x.length,
                                summary |-> x.summary]
    BY DEF Configs
  <2>2. QED
    BY <1>1, <2>1, Zenon DEF SameCuts
<1>5. QED
  BY <1>3, <1>4

(* A model that accepts a row's dimension cuts the row where it was built, *)
(* for any two history lengths: comparing one number is enough.            *)
THEOREM DimensionIsEnough == EnvSpec => []OneNumberTellsTheLayout
<1>1. OneNumberTellsTheLayout
  BY DimensionTellsTheCuts DEF OneNumberTellsTheLayout, Accepts
<1>2. QED
  BY <1>1, PTL
-----------------------------------------------------------------------------
(***************************************************************************)
(* Observation, read back.  The row is built by writing block after block  *)
(* over zeroes; each block is shown to keep to its own part of the row, so *)
(* that what the network cuts out of it is what was written there.         *)
(***************************************************************************)
(* Rows of one width, one after the other.                                 *)
Flattens(f, n, rows) ==
    \A i \in 1 .. n : f[i] = IF i = 1 THEN rows[i] ELSE f[i - 1] \o rows[i]

(* The recursion FlattenSeq is made of has a solution.                     *)
LEMMA FlatExists ==
    ASSUME NEW S, NEW n \in Nat, NEW rows \in [1 .. n -> Seq(S)]
    PROVE  \E f \in [1 .. n -> Seq(S)] : Flattens(f, n, rows)
<1> DEFINE P == {k \in Nat : k <= n => \E f \in [1 .. k -> Seq(S)] : Flattens(f, k, rows)}
<1>1. 0 \in P
  <2>1. [i \in 1 .. 0 |-> <<>>] \in [1 .. 0 -> Seq(S)]
    OBVIOUS
  <2>2. Flattens([i \in 1 .. 0 |-> <<>>], 0, rows)
    BY DEF Flattens
  <2>3. QED
    BY <2>1, <2>2
<1>2. ASSUME NEW k \in P PROVE k + 1 \in P
  <2> SUFFICES ASSUME k + 1 <= n
               PROVE  \E f \in [1 .. k + 1 -> Seq(S)] : Flattens(f, k + 1, rows)
    OBVIOUS
  <2>1. k \in Nat /\ k <= n
    OBVIOUS
  <2>2. PICK f \in [1 .. k -> Seq(S)] : Flattens(f, k, rows)
    BY <2>1
  <2> DEFINE x == IF k + 1 = 1 THEN rows[k + 1] ELSE f[k] \o rows[k + 1]
             g == [i \in 1 .. k + 1 |-> IF i = k + 1 THEN x ELSE f[i]]
  <2>3. x \in Seq(S)
    <3>1. rows[k + 1] \in Seq(S)
      BY <2>1
    <3>2. k # 0 => f[k] \in Seq(S)
      BY <2>1
    <3>3. QED
      BY <2>1, <3>1, <3>2
  <2> HIDE DEF x
  <2>4. g \in [1 .. k + 1 -> Seq(S)]
    <3>1. ASSUME NEW i \in 1 .. k + 1 PROVE (IF i = k + 1 THEN x ELSE f[i]) \in Seq(S)
      BY <2>1, <2>3
    <3>2. QED
      BY <3>1
  <2>5. /\ g[k + 1] = x
        /\ \A i \in 1 .. k : g[i] = f[i]
    BY <2>1
  <2> HIDE DEF g
  <2>6. ASSUME NEW i \in 1 .. k + 1
        PROVE  g[i] = IF i = 1 THEN rows[i] ELSE g[i - 1] \o rows[i]
    <3>1. CASE i = k + 1
      <4>1. i # 1 => k \in 1 .. k /\ i - 1 = k
        BY <2>1, <3>1
      <4>2. QED
        BY <2>5, <3>1, <4>1 DEF x
    <3>2. CASE i # k + 1
      <4>1. i \in 1 .. k /\ (i # 1 => i - 1 \in 1 .. k)
        BY <2>1, <3>2
      <4>2. f[i] = IF i = 1 THEN rows[i] ELSE f[i - 1] \o rows[i]
        BY <2>2, <4>1 DEF Flattens
      <4>3. QED
        BY <2>5, <4>1, <4>2
    <3>3. QED
      BY <3>1, <3>2
  <2>7. Flattens(g, k + 1, rows)
    BY <2>6 DEF Flattens
  <2>8. QED
    BY <2>4, <2>7
<1>3. P \in SUBSET Nat
  OBVIOUS
<1> HIDE DEF P
<1>4. n \in P
  BY <1>1, <1>2, <1>3, Induction
<1>5. QED
  BY <1>4 DEF P

(* Two sequences joined, number by number.                                 *)
LEMMA Joined ==
    ASSUME NEW S, NEW s \in Seq(S), NEW r \in Seq(S)
    PROVE  /\ s \o r \in Seq(S) /\ Len(s \o r) = Len(s) + Len(r)
           /\ \A x \in 1 .. Len(s) + Len(r) :
                 (s \o r)[x] = IF x <= Len(s) THEN s[x] ELSE r[x - Len(s)]
OBVIOUS

(* A part cut out of a sequence, number by number.                         *)
LEMMA CutOut ==
    ASSUME NEW S, NEW s \in Seq(S), NEW a \in Nat, NEW m \in Nat, a + m <= Len(s)
    PROVE  /\ SubSeq(s, a + 1, a + m) \in Seq(S) /\ Len(SubSeq(s, a + 1, a + m)) = m
           /\ \A j \in 1 .. m : SubSeq(s, a + 1, a + m)[j] = s[a + j]
OBVIOUS

(* What FlattenSeq makes of them: each number of each row has its place.   *)
Wide(rows, n, w) == \A i \in 1 .. n : Len(rows[i]) = w
RowByRow(flat, rows, n, w) ==
    /\ Len(flat) = n * w
    /\ \A i \in 1 .. n : \A j \in 1 .. w : flat[(i - 1) * w + j] = rows[i][j]

LEMMA FlatRows ==
    ASSUME NEW S, NEW n \in Nat, NEW w \in Nat,
           NEW rows \in [1 .. n -> Seq(S)], \A i \in 1 .. n : Len(rows[i]) = w
    PROVE  /\ FlattenSeq(rows) \in Seq(S)
           /\ Len(FlattenSeq(rows)) = n * w
           /\ \A i \in 1 .. n : \A j \in 1 .. w :
                 FlattenSeq(rows)[(i - 1) * w + j] = rows[i][j]
<1>1. Len(rows) = n
  OBVIOUS
<1>2. CASE n = 0
  <2>1. FlattenSeq(rows) = rows
    BY <1>1, <1>2 DEF FlattenSeq
  <2>2. rows \in Seq(S) /\ n * w = 0
    BY <1>2
  <2>3. QED
    BY <1>1, <1>2, <2>1, <2>2
<1>3. CASE n # 0
  <2> DEFINE Good(f) == f = [i \in 1 .. Len(rows) |->
                               IF i = 1 THEN rows[i] ELSE f[i - 1] \o rows[i]]
             flatten == CHOOSE f : Good(f)
             InPlace(m) == /\ flatten[m] \in Seq(S)
                           /\ Len(flatten[m]) = m * w
                           /\ \A i \in 1 .. m : \A j \in 1 .. w :
                                 flatten[m][(i - 1) * w + j] = rows[i][j]
             P == {k \in Nat : k + 1 <= n => InPlace(k + 1)}
  <2>1. FlattenSeq(rows) = flatten[n]
    BY <1>1, <1>3 DEF FlattenSeq
  <2>2. \E f : Good(f)
    <3>1. PICK f \in [1 .. n -> Seq(S)] : Flattens(f, n, rows)
      BY FlatExists
    <3>2. Good(f)
      BY <1>1, <3>1 DEF Flattens
    <3>3. QED
      BY <3>2
  <2>3. Good(flatten)
    BY <2>2
  <2> HIDE DEF flatten
  <2>4. \A i \in 1 .. n : flatten[i] = IF i = 1 THEN rows[i]
                                                ELSE flatten[i - 1] \o rows[i]
    BY <1>1, <2>3
  <2> HIDE DEF Good
  <2>5. 0 \in P
    <3>1. flatten[1] = rows[1]
      BY <1>3, <2>4
    <3>2. QED
      BY <1>3, <3>1
  <2>6. ASSUME NEW k \in P PROVE k + 1 \in P
    <3> HIDE DEF InPlace
    <3> SUFFICES ASSUME k + 1 + 1 <= n PROVE InPlace(k + 1 + 1)
      OBVIOUS
    <3> DEFINE s == flatten[k + 1]
               r == rows[k + 1 + 1]
    <3>1. k \in Nat /\ k + 1 \in 1 .. n /\ k + 1 + 1 \in 1 .. n /\ InPlace(k + 1)
      OBVIOUS
    <3> HIDE DEF P
    <3> USE DEF InPlace
    <3>2. /\ s \in Seq(S) /\ Len(s) = (k + 1) * w
          /\ \A i \in 1 .. k + 1 : \A j \in 1 .. w : s[(i - 1) * w + j] = rows[i][j]
      BY <3>1
    <3>3. r \in Seq(S) /\ Len(r) = w
      BY <3>1
    <3>4. flatten[k + 1 + 1] = s \o r
      <4>1. k + 1 + 1 # 1 /\ k + 1 + 1 - 1 = k + 1
        BY <3>1
      <4>2. flatten[k + 1 + 1] = flatten[k + 1] \o rows[k + 1 + 1]
        <5> DEFINE m == k + 1 + 1
        <5>1. m \in 1 .. n /\ m # 1 /\ m - 1 = k + 1
          BY <3>1, <4>1
        <5> HIDE DEF m, s, r, InPlace
        <5>2. flatten[m] = IF m = 1 THEN rows[m] ELSE flatten[m - 1] \o rows[m]
          BY <2>4, <5>1, Zenon
        <5>3. QED
          BY <5>1, <5>2 DEF m
      <4>3. QED
        BY <4>2
    <3> HIDE DEF s, r
    <3>5. /\ s \o r \in Seq(S) /\ Len(s \o r) = Len(s) + Len(r)
          /\ \A x \in 1 .. Len(s) + Len(r) :
                (s \o r)[x] = IF x <= Len(s) THEN s[x] ELSE r[x - Len(s)]
      BY <3>2, <3>3, Joined
    <3>6. Len(s \o r) = (k + 1 + 1) * w
      BY <3>1, <3>2, <3>3, <3>5
    <3>7. ASSUME NEW i \in 1 .. k + 1 + 1, NEW j \in 1 .. w
          PROVE  (s \o r)[(i - 1) * w + j] = rows[i][j]
      <4>1. CASE i = k + 1 + 1
        <5>1. (i - 1) * w + j = Len(s) + j
          BY <3>1, <3>2, <4>1
        <5> DEFINE x == Len(s) + j
        <5>2. /\ x \in 1 .. Len(s) + Len(r) /\ ~(x <= Len(s)) /\ x - Len(s) = j
          BY <3>2, <3>3
        <5> HIDE DEF x
        <5>3. (s \o r)[x] = IF x <= Len(s) THEN s[x] ELSE r[x - Len(s)]
          BY <3>5, <5>2, Zenon
        <5>4. QED
          BY <4>1, <5>1, <5>2, <5>3 DEF r, x
      <4>2. CASE i # k + 1 + 1
        <5>1. i \in 1 .. k + 1 /\ i \in Nat /\ j \in Nat /\ i - 1 \in Nat /\ i - 1 <= k
          BY <3>1, <4>2
        <5>2. (i - 1) * w \in Nat /\ (i - 1) * w <= k * w
          <6>1. \A a, d, v \in Nat : (a + d) * v = a * v + d * v /\ d * v \in Nat
            OBVIOUS
          <6>2. k - (i - 1) \in Nat /\ (i - 1) + (k - (i - 1)) = k
            BY <3>1, <5>1
          <6>3. k * w = (i - 1) * w + (k - (i - 1)) * w /\ (k - (i - 1)) * w \in Nat
                /\ (i - 1) * w \in Nat
            BY <5>1, <6>1, <6>2
          <6>4. \A a, b, c \in Nat : a = b + c => b <= a
            OBVIOUS
          <6>5. k * w \in Nat
            BY <3>1
          <6>6. QED
            BY <6>3, <6>4, <6>5
        <5>3. (k + 1) * w = k * w + w /\ k * w \in Nat
          BY <3>1
        <5>4. (i - 1) * w + j \in 1 .. Len(s) + Len(r) /\ (i - 1) * w + j <= Len(s)
          <6>1. \A a, b, m, v \in Nat : a <= b /\ m \in 1 .. v => a + m \in 1 .. b + v + v
                                                           /\ a + m <= b + v
            OBVIOUS
          <6>2. Len(s) = k * w + w /\ Len(r) = w
            BY <3>2, <3>3, <5>3
          <6>3. /\ (i - 1) * w + j \in 1 .. k * w + w + w
                /\ (i - 1) * w + j <= k * w + w
            <7> DEFINE a == (i - 1) * w
                       b == k * w
            <7>1. a \in Nat /\ b \in Nat /\ a <= b
              BY <5>2, <5>3
            <7> HIDE DEF a, b
            <7>2. a + j \in 1 .. b + w + w /\ a + j <= b + w
              BY <6>1, <7>1
            <7>3. QED
              BY <7>2 DEF a, b
          <6>4. Len(s) + Len(r) = k * w + w + w
            BY <5>3, <6>2
          <6>5. QED
            BY <6>2, <6>3, <6>4
        <5>5. QED
          BY <3>2, <3>5, <5>1, <5>4
      <4>3. QED
        BY <4>1, <4>2
    <3>8. QED
      BY <3>4, <3>5, <3>6, <3>7
  <2>7. P \in SUBSET Nat
    OBVIOUS
  <2> HIDE DEF P
  <2>8. n - 1 \in P
    <3>1. n - 1 \in Nat
      BY <1>3
    <3>2. QED
      BY <3>1, <2>5, <2>6, <2>7, Induction
  <2>9. /\ flatten[n] \in Seq(S) /\ Len(flatten[n]) = n * w
        /\ \A i \in 1 .. n : \A j \in 1 .. w : flatten[n][(i - 1) * w + j] = rows[i][j]
    <3>1. n - 1 + 1 = n /\ n \in 1 .. n
      BY <1>3
    <3>2. QED
      BY <2>8, <3>1 DEF P
  <2>10. QED
    BY <2>1, <2>9
<1>4. QED
  BY <1>2, <1>3

(* The same, with the claim kept in one piece.                             *)
LEMMA FlattenedRows ==
    ASSUME NEW S, NEW n \in Nat, NEW w \in Nat,
           NEW rows \in [1 .. n -> Seq(S)], Wide(rows, n, w)
    PROVE  FlattenSeq(rows) \in Seq(S) /\ RowByRow(FlattenSeq(rows), rows, n, w)
<1>1. \A i \in 1 .. n : Len(rows[i]) = w
  BY DEF Wide
<1>2. QED
  BY <1>1, FlatRows DEF RowByRow

(* The end of a sequence.                                                  *)
LEMMA LastOnes ==
    ASSUME NEW S, NEW s \in Seq(S), NEW n \in Nat, n <= Len(s)
    PROVE  LET t == SubSeq(s, Len(s) - n + 1, Len(s))
           IN  /\ t \in Seq(S) /\ Len(t) = n
               /\ \A i \in 1 .. n : Len(s) - n + i \in DOMAIN s /\ t[i] = s[Len(s) - n + i]
OBVIOUS

(* A bit is 1 for what is true.                                            *)
LEMMA BitIs == ASSUME NEW b PROVE Bit(b) \in {0, 1} /\ (Bit(b) = 1 <=> b)
<1>1. b => Bit(b) = 1
  BY Zenon DEF Bit
<1>2. ~b => Bit(b) = 0
  BY Zenon DEF Bit
<1>3. 0 # 1
  OBVIOUS
<1>4. QED
  BY <1>1, <1>2, <1>3, Zenon

(* A token of the history, number by number.                               *)
LEMMA TokenFacts ==
    ASSUME NEW e \in HistoryEntry
    PROVE  /\ Token(e) \in Seq(Nat) /\ Len(Token(e)) = 8
           /\ Token(e)[1] = e.amount
           /\ Token(e)[3] = Bit(e.player = player)
           /\ Token(e)[4] = Bit(e.aggressive)
           /\ \A r \in Streets : Token(e)[5 + r] = Bit(e.round = r)
<1> DEFINE front == <<e.amount, e.amount, Bit(e.player = player), Bit(e.aggressive)>>
           back == [i \in 1 .. 4 |-> Bit(e.round = i - 1)]
<1>1. e.amount \in Nat
  BY DEF HistoryEntry
<1>2. \A b : Bit(b) \in Nat
  BY BitIs
<1>3. front \in Seq(Nat) /\ Len(front) = 4
  BY <1>1, <1>2
<1>4. back \in Seq(Nat) /\ Len(back) = 4
  BY <1>2
<1>5. /\ front[1] = e.amount /\ front[3] = Bit(e.player = player)
      /\ front[4] = Bit(e.aggressive)
  OBVIOUS
<1>6. \A r \in Streets : back[r + 1] = Bit(e.round = r)
  <2> SUFFICES ASSUME NEW r \in Streets PROVE back[r + 1] = Bit(e.round = r)
    OBVIOUS
  <2> DEFINE k == r + 1
  <2>1. k \in 1 .. 4 /\ k - 1 = r
    BY DEF Streets, River
  <2> HIDE DEF k
  <2>2. back[k] = Bit(e.round = k - 1)
    BY <2>1, Zenon
  <2>3. QED
    BY <2>1, <2>2 DEF k
<1> DEFINE cat == front \o back
<1>7. Token(e) = cat
  BY DEF Token
<1> HIDE DEF front, back, Streets
<1>8. /\ cat \in Seq(Nat) /\ Len(cat) = Len(front) + Len(back)
      /\ \A x \in 1 .. Len(front) + Len(back) :
            cat[x] = IF x <= Len(front) THEN front[x] ELSE back[x - Len(front)]
  BY <1>3, <1>4, Joined, Zenon
<1> HIDE DEF cat
<1>9. /\ Len(cat) = 8
      /\ \A x \in 1 .. 8 : cat[x] = IF x <= 4 THEN front[x] ELSE back[x - 4]
  BY <1>3, <1>4, <1>8
<1>10. ASSUME NEW r \in Streets PROVE cat[5 + r] = back[r + 1]
  <2> DEFINE x == 5 + r
  <2>1. x \in 1 .. 8 /\ ~(x <= 4) /\ x - 4 = r + 1
    BY DEF Streets, River
  <2> HIDE DEF x
  <2>2. cat[x] = back[x - 4]
    BY <1>9, <2>1
  <2>3. QED
    BY <2>1, <2>2 DEF x
<1>11. cat[1] = front[1] /\ cat[3] = front[3] /\ cat[4] = front[4]
  BY <1>9
<1>12. QED
  BY <1>5, <1>6, <1>7, <1>8, <1>9, <1>10, <1>11, Zenon

(* The actions that are kept are the last ones.                            *)
LEMMA KeptFacts ==
    ASSUME EnvInv, NEW c \in Configs
    PROVE  LET n == Min({Len(betHistory), c.length})
           IN  /\ n \in Nat /\ n <= Len(betHistory) /\ n <= c.length
               /\ n = Len(betHistory) \/ n = c.length
               /\ Kept(c) \in Seq(HistoryEntry) /\ Len(Kept(c)) = n
               /\ \A i \in 1 .. n : /\ Len(betHistory) - n + i \in DOMAIN betHistory
                                    /\ Kept(c)[i] = betHistory[Len(betHistory) - n + i]
<1> DEFINE n == Min({Len(betHistory), c.length})
<1>1. Len(betHistory) \in Nat /\ c.length \in Nat /\ betHistory \in Seq(HistoryEntry)
  BY LayoutFacts DEF EnvInv
<1> DEFINE both == {Len(betHistory), c.length}
<1>2. both \in SUBSET Nat /\ both # {}
  BY <1>1
<1>3. Min(both) \in both /\ \A y \in both : Min(both) =< y
  BY <1>2, MinIsMember
<1>4. /\ n \in Nat /\ n <= Len(betHistory) /\ n <= c.length
      /\ n = Len(betHistory) \/ n = c.length
  BY <1>1, <1>3
<1>5. Kept(c) = SubSeq(betHistory, Len(betHistory) - n + 1, Len(betHistory))
  BY DEF Kept
<1> HIDE DEF n, HistoryEntry
<1>6. /\ Kept(c) \in Seq(HistoryEntry) /\ Len(Kept(c)) = n
      /\ \A i \in 1 .. n : /\ Len(betHistory) - n + i \in DOMAIN betHistory
                           /\ Kept(c)[i] = betHistory[Len(betHistory) - n + i]
  BY <1>1, <1>4, <1>5, LastOnes
<1>7. QED
  BY <1>4, <1>6 DEF n

LEMMA Entries == ASSUME NEW S, NEW s \in Seq(S) PROVE \A i \in 1 .. Len(s) : s[i] \in S
OBVIOUS

(* Writing into a row.                                                     *)
LEMMA WrittenFacts ==
    ASSUME NEW S, NEW s \in Seq(S), NEW o \in Nat
    PROVE  /\ DOMAIN Written(o, s) = o .. o + Len(s) - 1
           /\ \A i \in 1 .. Len(s) : /\ o + i - 1 \in DOMAIN Written(o, s)
                                     /\ Written(o, s)[o + i - 1] = s[i]
<1>1. DOMAIN Written(o, s) = o .. o + Len(s) - 1
  BY DEF Written
<1>2. ASSUME NEW i \in 1 .. Len(s)
      PROVE  o + i - 1 \in DOMAIN Written(o, s) /\ Written(o, s)[o + i - 1] = s[i]
  <2> DEFINE x == o + i - 1
  <2>1. x \in o .. o + Len(s) - 1 /\ x - o + 1 = i
    OBVIOUS
  <2> HIDE DEF x
  <2>2. Written(o, s)[x] = s[x - o + 1]
    BY <2>1 DEF Written
  <2>3. QED
    BY <1>1, <2>1, <2>2 DEF x
<1>3. QED
  BY <1>1, <1>2

(* One set of numbers over another.                                        *)
LEMMA OverFacts ==
    ASSUME NEW f, NEW g
    PROVE  /\ DOMAIN Over(f, g) = DOMAIN f \cup DOMAIN g
           /\ \A i \in DOMAIN f : Over(f, g)[i] = f[i]
           /\ \A i \in DOMAIN g : i \notin DOMAIN f => Over(f, g)[i] = g[i]
BY DEF Over

(* Where the parts of a row begin.                                         *)
LEMMA Offsets ==
    ASSUME NEW c \in Configs
    PROVE  /\ CardSlots \in Nat /\ StaticOffset = 2 * CardSlots
           /\ SummaryOffset = StaticOffset + 30
           /\ HistoryOffset(c) = SummaryOffset + (IF c.summary THEN 16 ELSE 0)
           /\ TotalDim(c) = HistoryOffset(c) + (IF c.history THEN c.length * 9 ELSE 0)
           /\ StaticOffset \in Nat /\ SummaryOffset \in Nat /\ HistoryOffset(c) \in Nat
           /\ TotalDim(c) \in Nat
<1>1. CardSlots \in Nat
  BY CardsAssumption
<1>2. /\ StaticOffset = 2 * CardSlots /\ StaticOffset \in Nat
      /\ SummaryOffset = StaticOffset + 30 /\ SummaryOffset \in Nat
  BY <1>1 DEF SummaryOffset, StaticOffset, FeatStatic, FeatBasic, FeatHandStrength
<1>3. HistoryOffset(c) = SummaryOffset + (IF c.summary THEN 16 ELSE 0)
  BY LayoutFacts DEF HistoryOffset
<1>4. HistoryOffset(c) \in Nat
  BY <1>2, <1>3
<1>5. TotalDim(c) = HistoryOffset(c) + (IF c.history THEN c.length * 9 ELSE 0)
  BY LayoutFacts DEF TotalDim
<1>6. c.length * 9 \in Nat
  BY LayoutFacts
<1>7. QED
  BY <1>1, <1>2, <1>3, <1>4, <1>5, <1>6

(* The cards: the seat's own in the first namespace, the board in the      *)
(* second.                                                                 *)
LEMMA CardRow ==
    ASSUME EnvInv
    PROVE  /\ DOMAIN CardFeatures \subseteq 0 .. StaticOffset - 1
           /\ \A i \in 0 .. CardSlots - 1 :
                 i \in DOMAIN CardFeatures <=> i \in Hole[player]
           /\ \A i \in DOMAIN CardFeatures : CardFeatures[i] = 1
<1> DEFINE board == {CardSlots + Community[i] : i \in 1 .. CommunityCount}
<1>1. CardSlots \in Nat /\ StaticOffset = 2 * CardSlots
  BY CardsAssumption DEF StaticOffset
<1>2. Hole[player] \subseteq 0 .. CardSlots - 1
  BY CardsAssumption DEF EnvInv, IInv, TypeOK
<1>3. CommunityCount \in {0, 3, 4, 5}
  BY DEF CommunityCount
<1>4. \A i \in 1 .. CommunityCount : Community[i] \in 0 .. CardSlots - 1
  <2>1. \A i \in 1 .. 5 : Community[i] \in 0 .. CardSlots - 1
    <3> DEFINE Namespace == 0 .. CardSlots - 1
    <3>1. Community \in Seq(Namespace) /\ Len(Community) = 5
      BY CardsAssumption
    <3> HIDE DEF Namespace
    <3>2. \A i \in 1 .. Len(Community) : Community[i] \in Namespace
      BY <3>1, Entries
    <3>3. QED
      BY <3>1, <3>2 DEF Namespace
  <2>2. 1 .. CommunityCount \subseteq 1 .. 5
    BY <1>3
  <2>3. QED
    BY <2>1, <2>2
<1>5. \A x \in board : x \in CardSlots .. StaticOffset - 1
  <2> SUFFICES ASSUME NEW i \in 1 .. CommunityCount
               PROVE  CardSlots + Community[i] \in CardSlots .. StaticOffset - 1
    OBVIOUS
  <2> DEFINE k == Community[i]
  <2>1. k \in 0 .. CardSlots - 1
    BY <1>4
  <2> HIDE DEF k
  <2>2. CardSlots + k \in CardSlots .. StaticOffset - 1
    BY <1>1, <2>1
  <2>3. QED
    BY <2>2 DEF k
<1>6. /\ DOMAIN CardFeatures = Hole[player] \cup board
      /\ \A i \in DOMAIN CardFeatures : CardFeatures[i] = 1
  BY DEF CardFeatures, Ones
<1> HIDE DEF board
<1>7. QED
  BY <1>1, <1>2, <1>5, <1>6

(* The betting state of the static block.                                  *)
LEMMA BasicRow ==
    ASSUME EnvInv
    PROVE  /\ DOMAIN BasicFeatures = StaticOffset .. StaticOffset + 9
           /\ BasicFeatures[StaticOffset] = stacks[player]
           /\ BasicFeatures[StaticOffset + 1] = stacks[Other(player)]
           /\ BasicFeatures[StaticOffset + 2] = pot
           /\ BasicFeatures[StaticOffset + 4] = raiseNum
           /\ BasicFeatures[StaticOffset + 9] = player
<1> DEFINE chips == <<stacks[player], stacks[Other(player)], pot, bet.currentBet,
                      raiseNum>>
           street == [i \in 1 .. 4 |-> Bit(i - 1 = round)]
           five == chips \o street
           ten == five \o <<player>>
<1>1. /\ stacks[player] \in Nat /\ stacks[Other(player)] \in Nat /\ pot \in Nat
      /\ bet.currentBet \in Nat /\ raiseNum \in Nat /\ player \in Nat
  BY DEF EnvInv, IInv, TypeOK, Seats, Other
<1>2. /\ chips \in Seq(Nat) /\ Len(chips) = 5
      /\ chips[1] = stacks[player] /\ chips[2] = stacks[Other(player)]
      /\ chips[3] = pot /\ chips[5] = raiseNum
  BY <1>1
<1>3. street \in Seq(Nat) /\ Len(street) = 4
  <2>1. \A b : Bit(b) \in Nat
    BY BitIs
  <2>2. QED
    BY <2>1
<1>4. <<player>> \in Seq(Nat) /\ Len(<<player>>) = 1 /\ <<player>>[1] = player
  BY <1>1
<1>5. BasicFeatures = Written(StaticOffset, ten)
  BY DEF BasicFeatures
<1> DEFINE last == <<player>>
<1> HIDE DEF chips, street, last
<1>6. /\ five \in Seq(Nat) /\ Len(five) = Len(chips) + Len(street)
      /\ \A x \in 1 .. Len(chips) + Len(street) :
            five[x] = IF x <= Len(chips) THEN chips[x] ELSE street[x - Len(chips)]
  BY <1>2, <1>3, Joined, Zenon
<1> HIDE DEF five
<1>7. /\ Len(five) = 9 /\ five[1] = chips[1] /\ five[2] = chips[2]
      /\ five[3] = chips[3] /\ five[5] = chips[5]
  BY <1>2, <1>3, <1>6
<1>8. ten = five \o last
  BY DEF last
<1>9. last \in Seq(Nat) /\ Len(last) = 1 /\ last[1] = player
  BY <1>4 DEF last
<1> HIDE DEF ten
<1>10. /\ ten \in Seq(Nat) /\ Len(ten) = Len(five) + Len(last)
       /\ \A x \in 1 .. Len(five) + Len(last) :
             ten[x] = IF x <= Len(five) THEN five[x] ELSE last[x - Len(five)]
  <2>1. /\ five \o last \in Seq(Nat) /\ Len(five \o last) = Len(five) + Len(last)
        /\ \A x \in 1 .. Len(five) + Len(last) :
              (five \o last)[x] = IF x <= Len(five) THEN five[x] ELSE last[x - Len(five)]
    <3>1. five \in Seq(Nat) /\ last \in Seq(Nat)
      BY <1>6, <1>9
    <3>2. QED
      BY <3>1, Joined, Zenon
  <2>2. QED
    BY <1>8, <2>1, Zenon
<1>11. /\ Len(ten) = 10 /\ ten[1] = chips[1] /\ ten[2] = chips[2]
       /\ ten[3] = chips[3] /\ ten[5] = chips[5] /\ ten[10] = player
  BY <1>7, <1>9, <1>10
<1>12. StaticOffset \in Nat
  BY CardsAssumption DEF StaticOffset
<1>13. /\ DOMAIN BasicFeatures = StaticOffset .. StaticOffset + Len(ten) - 1
       /\ \A i \in 1 .. Len(ten) : BasicFeatures[StaticOffset + i - 1] = ten[i]
  BY <1>5, <1>10, <1>12, WrittenFacts
<1>14. \A i \in 1 .. 10 : BasicFeatures[StaticOffset + i - 1] = ten[i]
  BY <1>11, <1>13
<1>15. /\ 1 \in 1 .. 10 /\ 2 \in 1 .. 10 /\ 3 \in 1 .. 10 /\ 5 \in 1 .. 10 /\ 10 \in 1 .. 10
       /\ StaticOffset + 1 - 1 = StaticOffset /\ StaticOffset + 2 - 1 = StaticOffset + 1
       /\ StaticOffset + 3 - 1 = StaticOffset + 2 /\ StaticOffset + 5 - 1 = StaticOffset + 4
       /\ StaticOffset + 10 - 1 = StaticOffset + 9
  BY <1>12
<1>16. /\ BasicFeatures[StaticOffset] = ten[1] /\ BasicFeatures[StaticOffset + 1] = ten[2]
       /\ BasicFeatures[StaticOffset + 2] = ten[3] /\ BasicFeatures[StaticOffset + 4] = ten[5]
       /\ BasicFeatures[StaticOffset + 9] = ten[10]
  BY <1>14, <1>15
<1>17. DOMAIN BasicFeatures = StaticOffset .. StaticOffset + 9
  BY <1>11, <1>12, <1>13
<1>18. QED
  BY <1>2, <1>11, <1>16, <1>17, Zenon

(* One street's part of the round summary.                                 *)
LEMMA SummaryOfRoundFacts ==
    ASSUME EnvInv, NEW r \in Streets
    PROVE  /\ SummaryOfRound(r) \in Seq(Nat) /\ Len(SummaryOfRound(r)) = 4
           /\ SummaryOfRound(r)[1] = ChipsOf(player, r)
           /\ SummaryOfRound(r)[2] = ChipsOf(Other(player), r)
           /\ SummaryOfRound(r)[3] = Cardinality(RaisesOf(r))
           /\ SummaryOfRound(r)[4] = Bit(LastAggressor(r) = player)
           /\ IsFiniteSet(DOMAIN betHistory)
<1>1. /\ betHistory \in Seq(HistoryEntry) /\ DOMAIN betHistory = 1 .. Len(betHistory)
      /\ Len(betHistory) \in Nat
  BY DEF EnvInv
<1>2. IsFiniteSet(DOMAIN betHistory)
  BY <1>1, FS_Interval
<1>3. ASSUME NEW p PROVE ChipsOf(p, r) \in Nat
  <2> DEFINE d == [k \in DOMAIN betHistory |->
                     IF betHistory[k].player = p /\ betHistory[k].round = r
                     THEN betHistory[k].amount ELSE 0]
  <2>1. \A k \in DOMAIN betHistory : betHistory[k].amount \in Nat
    <3> HIDE DEF HistoryEntry
    <3>1. \A k \in DOMAIN betHistory : betHistory[k] \in HistoryEntry
      BY <1>1
    <3>2. QED
      BY <3>1 DEF HistoryEntry
  <2>2. \A k \in DOMAIN betHistory : d[k] \in Nat
    BY <2>1
  <2>3. DOMAIN d = DOMAIN betHistory /\ ChipsOf(p, r) = SumFunctionOnSet(d, DOMAIN d)
    BY DEF ChipsOf, SumFunction
  <2> HIDE DEF d
  <2>4. QED
    BY <1>2, <2>2, <2>3, SumOfNaturals
<1>4. Cardinality(RaisesOf(r)) \in Nat
  <2>1. RaisesOf(r) \subseteq DOMAIN betHistory
    BY DEF RaisesOf
  <2>2. QED
    BY <1>2, <2>1, FS_Subset, FS_CardinalityType
<1>5. Bit(LastAggressor(r) = player) \in Nat
  BY BitIs
<1>6. QED
  BY <1>2, <1>3, <1>4, <1>5 DEF SummaryOfRound

(* The round summary: four numbers for each street.                        *)
LEMMA SummaryRow ==
    ASSUME EnvInv
    PROVE  /\ DOMAIN RoundSummary = SummaryOffset .. SummaryOffset + 15
           /\ \A r \in Streets : \A j \in 1 .. 4 :
                 RoundSummary[SummaryOffset + 4 * r + j - 1] = SummaryOfRound(r)[j]
<1> DEFINE rows == [r \in 1 .. 4 |-> SummaryOfRound(r - 1)]
           flat == FlattenSeq(rows)
<1>1. SummaryOffset \in Nat
  BY CardsAssumption DEF SummaryOffset, StaticOffset, FeatStatic, FeatBasic,
                         FeatHandStrength
<1>2. \A i \in 1 .. 4 : i - 1 \in Streets
  BY DEF Streets, River
<1>3. \A i \in 1 .. 4 : SummaryOfRound(i - 1) \in Seq(Nat) /\ Len(SummaryOfRound(i - 1)) = 4
  BY <1>2, SummaryOfRoundFacts
<1>4. rows \in [1 .. 4 -> Seq(Nat)] /\ \A i \in 1 .. 4 : Len(rows[i]) = 4
  BY <1>3
<1>5. RoundSummary = Written(SummaryOffset, flat)
  BY DEF RoundSummary
<1>6. \A r \in Streets : r + 1 \in 1 .. 4 /\ rows[r + 1] = SummaryOfRound(r)
  <2> SUFFICES ASSUME NEW r \in Streets
               PROVE  r + 1 \in 1 .. 4 /\ rows[r + 1] = SummaryOfRound(r)
    OBVIOUS
  <2> DEFINE k == r + 1
  <2>1. k \in 1 .. 4 /\ k - 1 = r
    BY DEF Streets, River
  <2> HIDE DEF k
  <2>2. rows[k] = SummaryOfRound(k - 1)
    BY <2>1, Zenon
  <2>3. QED
    BY <2>1, <2>2 DEF k
<1> HIDE DEF rows
<1>7. /\ flat \in Seq(Nat) /\ Len(flat) = 4 * 4
      /\ \A i \in 1 .. 4 : \A j \in 1 .. 4 : flat[(i - 1) * 4 + j] = rows[i][j]
  <2>1. 4 \in Nat
    OBVIOUS
  <2>2. QED
    <3>1. Wide(rows, 4, 4) /\ rows \in [1 .. 4 -> Seq(Nat)]
      BY <1>4 DEF Wide
    <3>2. flat \in Seq(Nat) /\ RowByRow(flat, rows, 4, 4)
      BY <2>1, <3>1, FlattenedRows, Zenon
    <3> HIDE DEF flat
    <3>3. QED
      BY <3>2 DEF RowByRow
<1> HIDE DEF flat
<1>8. /\ DOMAIN RoundSummary = SummaryOffset .. SummaryOffset + Len(flat) - 1
      /\ \A i \in 1 .. Len(flat) : RoundSummary[SummaryOffset + i - 1] = flat[i]
  BY <1>1, <1>5, <1>7, WrittenFacts
<1>9. Len(flat) = 16
  BY <1>7
<1>10. ASSUME NEW r \in Streets, NEW j \in 1 .. 4
       PROVE  RoundSummary[SummaryOffset + 4 * r + j - 1] = SummaryOfRound(r)[j]
  <2> DEFINE x == 4 * r + j
             i == r + 1
  <2>1. x \in 1 .. 16 /\ (i - 1) * 4 + j = x
        /\ SummaryOffset + 4 * r + j - 1 = SummaryOffset + x - 1
    BY <1>1 DEF Streets, River
  <2>2. i \in 1 .. 4 /\ rows[i] = SummaryOfRound(r)
    BY <1>6
  <2> HIDE DEF x, i
  <2>3. RoundSummary[SummaryOffset + x - 1] = flat[x]
    BY <1>8, <1>9, <2>1
  <2>4. flat[(i - 1) * 4 + j] = rows[i][j]
    BY <1>7, <2>2
  <2>5. QED
    BY <2>1, <2>2, <2>3, <2>4
<1>11. QED
  BY <1>1, <1>8, <1>9, <1>10

(* The history block: the mask of what is kept, then its tokens.           *)
HistoryInPlace(c, n) ==
    /\ DOMAIN History(c) \subseteq
           HistoryOffset(c) .. HistoryOffset(c) + c.length * 9 - 1
    /\ \A j \in 1 .. c.length :
          IF j <= n THEN /\ HistoryOffset(c) + j - 1 \in DOMAIN History(c)
                         /\ History(c)[HistoryOffset(c) + j - 1] = 1
                    ELSE HistoryOffset(c) + j - 1 \notin DOMAIN History(c)
    /\ \A i \in 1 .. n : \A j \in 1 .. 8 :
          LET x == HistoryOffset(c) + c.length + ((i - 1) * 8 + j) - 1
          IN  x \in DOMAIN History(c) /\ History(c)[x] = Token(Kept(c)[i])[j]

LEMMA HistoryRow ==
    ASSUME EnvInv, NEW c \in Configs, NEW n, n = Min({Len(betHistory), c.length})
    PROVE  HistoryInPlace(c, n)
<1> DEFINE rows == [i \in DOMAIN Kept(c) |-> Token(Kept(c)[i])]
           flat == FlattenSeq(rows)
           mask == [i \in DOMAIN Kept(c) |-> 1]
           o == HistoryOffset(c)
           m == HistoryOffset(c) + c.length
           first == Written(o, mask)
           second == Written(m, flat)
<1>1. /\ n \in Nat /\ n <= c.length /\ Kept(c) \in Seq(HistoryEntry) /\ Len(Kept(c)) = n
      /\ DOMAIN Kept(c) = 1 .. n
  <2> HIDE DEF HistoryEntry
  <2>1. n \in Nat /\ n <= c.length /\ Kept(c) \in Seq(HistoryEntry) /\ Len(Kept(c)) = n
    BY KeptFacts, Zenon
  <2>2. QED
    BY <2>1
<1>2. o \in Nat /\ c.length \in Nat /\ m \in Nat
  BY Offsets, LayoutFacts
<1>3. \A i \in 1 .. n : Kept(c)[i] \in HistoryEntry
  BY <1>1, Entries
<1>4. \A i \in 1 .. n : Token(Kept(c)[i]) \in Seq(Nat) /\ Len(Token(Kept(c)[i])) = 8
  BY <1>3, TokenFacts
<1>5. rows \in [1 .. n -> Seq(Nat)] /\ \A i \in 1 .. n : Len(rows[i]) = 8
  BY <1>1, <1>4
<1>6. mask \in Seq(Nat) /\ Len(mask) = n /\ \A i \in 1 .. n : mask[i] = 1
  <2>1. mask = [i \in 1 .. n |-> 1]
    BY <1>1
  <2>2. n \in Nat
    BY <1>1
  <2>3. \A k \in Nat : LET s == [i \in 1 .. k |-> 1]
                      IN  s \in Seq(Nat) /\ Len(s) = k /\ \A i \in 1 .. k : s[i] = 1
    OBVIOUS
  <2> HIDE DEF mask
  <2>4. QED
    BY <2>1, <2>2, <2>3, Zenon
<1>7. History(c) = Over(second, first)
  BY DEF History
<1>8. \A i \in 1 .. n : rows[i] = Token(Kept(c)[i])
  BY <1>1
<1> HIDE DEF rows, mask, o
<1>9. /\ flat \in Seq(Nat) /\ Len(flat) = n * 8
      /\ \A i \in 1 .. n : \A j \in 1 .. 8 : flat[(i - 1) * 8 + j] = rows[i][j]
  <2>1. 8 \in Nat /\ n \in Nat
    BY <1>1
  <2>2. QED
    <3>1. Wide(rows, n, 8) /\ rows \in [1 .. n -> Seq(Nat)]
      BY <1>5 DEF Wide
    <3>2. flat \in Seq(Nat) /\ RowByRow(flat, rows, n, 8)
      BY <2>1, <3>1, FlattenedRows, Zenon
    <3> HIDE DEF flat
    <3>3. QED
      BY <3>2 DEF RowByRow
<1> HIDE DEF flat, m
<1>10. /\ DOMAIN first = o .. o + Len(mask) - 1
       /\ \A i \in 1 .. Len(mask) : o + i - 1 \in DOMAIN first /\ first[o + i - 1] = mask[i]
  BY <1>2, <1>6, WrittenFacts
<1>11. /\ DOMAIN second = m .. m + Len(flat) - 1
       /\ \A i \in 1 .. Len(flat) : m + i - 1 \in DOMAIN second /\ second[m + i - 1] = flat[i]
  BY <1>2, <1>9, WrittenFacts
<1>12. m = o + c.length
  BY DEF m, o
<1> HIDE DEF first, second
<1>13. /\ DOMAIN History(c) = DOMAIN second \cup DOMAIN first
       /\ \A x \in DOMAIN second : History(c)[x] = second[x]
       /\ \A x \in DOMAIN first : x \notin DOMAIN second => History(c)[x] = first[x]
  <2>1. /\ DOMAIN Over(second, first) = DOMAIN second \cup DOMAIN first
        /\ \A x \in DOMAIN second : Over(second, first)[x] = second[x]
        /\ \A x \in DOMAIN first :
              x \notin DOMAIN second => Over(second, first)[x] = first[x]
    BY OverFacts
  <2>2. QED
    BY <1>7, <2>1
<1>14. DOMAIN first = o .. o + n - 1 /\ DOMAIN second = m .. m + n * 8 - 1
  BY <1>6, <1>9, <1>10, <1>11
<1>15. DOMAIN History(c) \subseteq o .. o + c.length * 9 - 1
  <2>1. \A x \in o .. o + n - 1 : x \in o .. o + c.length * 9 - 1
    BY <1>1, <1>2
  <2>2. \A x \in m .. m + n * 8 - 1 : x \in o .. o + c.length * 9 - 1
    <3>1. \A a, l, k \in Nat : \A x \in a + l .. a + l + k * 8 - 1 :
             k <= l => x \in a .. a + l * 9 - 1
      OBVIOUS
    <3>2. QED
      BY <1>1, <1>2, <1>12, <3>1, Zenon
  <2>3. QED
    BY <1>13, <1>14, <2>1, <2>2
<1>16. ASSUME NEW j \in 1 .. c.length
       PROVE  IF j <= n THEN o + j - 1 \in DOMAIN History(c) /\ History(c)[o + j - 1] = 1
                        ELSE o + j - 1 \notin DOMAIN History(c)
  <2> DEFINE x == o + j - 1
  <2>1. x \notin m .. m + n * 8 - 1 /\ (x \in o .. o + n - 1 <=> j <= n)
    <3>1. n * 8 \in Nat /\ n \in Nat /\ o \in Nat /\ c.length \in Nat /\ m \in Nat
      BY <1>1, <1>2
    <3>2. x \in Nat /\ x < m /\ o <= x
      BY <1>12, <3>1
    <3>3. x \in o .. o + n - 1 <=> j <= n
      BY <3>1
    <3>4. QED
      BY <3>1, <3>2, <3>3
  <2>2. j <= n => first[x] = 1
    <3>1. j <= n => j \in 1 .. n /\ j \in 1 .. Len(mask)
      BY <1>1, <1>6
    <3>2. QED
      BY <1>6, <1>10, <3>1
  <2> HIDE DEF x
  <2>3. IF j <= n THEN x \in DOMAIN History(c) /\ History(c)[x] = 1
                  ELSE x \notin DOMAIN History(c)
    BY <1>13, <1>14, <2>1, <2>2
  <2>4. QED
    BY <2>3 DEF x
<1>17. ASSUME NEW i \in 1 .. n, NEW j \in 1 .. 8
       PROVE  LET x == m + ((i - 1) * 8 + j) - 1
              IN  x \in DOMAIN History(c) /\ History(c)[x] = Token(Kept(c)[i])[j]
  <2> DEFINE k == (i - 1) * 8 + j
             x == m + k - 1
  <2>1. k \in 1 .. n * 8
    BY <1>1
  <2>2. flat[k] = Token(Kept(c)[i])[j]
    BY <1>8, <1>9
  <2> HIDE DEF k
  <2>3. x \in DOMAIN second /\ second[x] = flat[k]
    BY <1>9, <1>11, <2>1
  <2> HIDE DEF x
  <2>4. x \in DOMAIN History(c) /\ History(c)[x] = flat[k]
    BY <1>13, <2>3
  <2>5. QED
    BY <2>2, <2>4 DEF x, k
<1>18. QED
  BY <1>15, <1>16, <1>17 DEF o, m, HistoryInPlace

(* What is written last stands, and the parts do not overlap: each can be  *)
(* read back at its offset.                                                *)
LEMMA RowReads ==
    ASSUME EnvInv, NEW c \in Configs, NEW n, n = Min({Len(betHistory), c.length})
    PROVE  /\ \A i \in 0 .. CardSlots - 1 : Build(c)[i] = 1 <=> i \in Hole[player]
           /\ \A i \in DOMAIN BasicFeatures : Build(c)[i] = BasicFeatures[i]
           /\ c.summary => \A i \in DOMAIN RoundSummary : Build(c)[i] = RoundSummary[i]
           /\ c.history =>
                 /\ \A j \in 1 .. c.length :
                       Build(c)[HistoryOffset(c) + j - 1] = IF j <= n THEN 1 ELSE 0
                 /\ \A i \in 1 .. n : \A j \in 1 .. 8 :
                       Build(c)[HistoryOffset(c) + c.length + ((i - 1) * 8 + j) - 1]
                           = Token(Kept(c)[i])[j]
<1> DEFINE C == CardFeatures
           B == BasicFeatures
           R == IF c.summary THEN RoundSummary ELSE Nothing
           H == IF c.history THEN History(c) ELSE Nothing
           Z == [i \in 0 .. TotalDim(c) - 1 |-> 0]
           one == Over(C, Z)
           two == Over(B, one)
           three == Over(R, two)
           four == Over(H, three)
           st == StaticOffset
           so == SummaryOffset
           ho == HistoryOffset(c)
           L == c.length
<1>1. Build(c) = four
  BY DEF Build
<1>2. DOMAIN Nothing = {}
  BY DEF Nothing
<1>3. /\ CardSlots \in Nat /\ st = 2 * CardSlots /\ so = st + 30
      /\ ho = so + (IF c.summary THEN 16 ELSE 0)
      /\ TotalDim(c) = ho + (IF c.history THEN L * 9 ELSE 0)
      /\ st \in Nat /\ so \in Nat /\ ho \in Nat /\ TotalDim(c) \in Nat
  BY Offsets
<1>4. L \in Nat /\ c.summary \in BOOLEAN /\ c.history \in BOOLEAN
  BY LayoutFacts
<1>5. /\ DOMAIN C \subseteq 0 .. st - 1
      /\ \A i \in 0 .. CardSlots - 1 : i \in DOMAIN C <=> i \in Hole[player]
      /\ \A i \in DOMAIN C : C[i] = 1
  BY CardRow
<1>6. DOMAIN B = st .. st + 9
  BY BasicRow
<1>7. c.summary => DOMAIN R = so .. so + 15 /\ R = RoundSummary
  BY SummaryRow
<1>8. ~c.summary => DOMAIN R = {}
  BY <1>2
<1>9. DOMAIN R \subseteq so .. ho - 1
  BY <1>3, <1>4, <1>7, <1>8
<1>10. /\ DOMAIN History(c) \subseteq ho .. ho + L * 9 - 1
       /\ \A j \in 1 .. L :
             IF j <= n THEN ho + j - 1 \in DOMAIN History(c) /\ History(c)[ho + j - 1] = 1
                       ELSE ho + j - 1 \notin DOMAIN History(c)
       /\ \A i \in 1 .. n : \A j \in 1 .. 8 :
             LET x == ho + L + ((i - 1) * 8 + j) - 1
             IN  x \in DOMAIN History(c) /\ History(c)[x] = Token(Kept(c)[i])[j]
  BY HistoryRow DEF HistoryInPlace
<1>11. c.history => H = History(c)
  OBVIOUS
<1>12. \A x \in DOMAIN H : x \in Int /\ x >= ho
  <2>1. CASE c.history
    BY <1>3, <1>4, <1>10, <1>11, <2>1
  <2>2. CASE ~c.history
    BY <1>2, <2>2
  <2>3. QED
    BY <2>1, <2>2
<1>13. DOMAIN Z = 0 .. TotalDim(c) - 1 /\ \A i \in DOMAIN Z : Z[i] = 0
  OBVIOUS
<1> HIDE DEF C, B, R, H, Z
<1>14. /\ DOMAIN one = DOMAIN C \cup DOMAIN Z
       /\ \A i \in DOMAIN C : one[i] = C[i]
       /\ \A i \in DOMAIN Z : i \notin DOMAIN C => one[i] = Z[i]
  BY OverFacts
<1> HIDE DEF one
<1>15. /\ DOMAIN two = DOMAIN B \cup DOMAIN one
       /\ \A i \in DOMAIN B : two[i] = B[i]
       /\ \A i \in DOMAIN one : i \notin DOMAIN B => two[i] = one[i]
  BY OverFacts
<1> HIDE DEF two
<1>16. /\ DOMAIN three = DOMAIN R \cup DOMAIN two
       /\ \A i \in DOMAIN R : three[i] = R[i]
       /\ \A i \in DOMAIN two : i \notin DOMAIN R => three[i] = two[i]
  BY OverFacts
<1> HIDE DEF three
<1>17. /\ DOMAIN four = DOMAIN H \cup DOMAIN three
       /\ \A i \in DOMAIN H : four[i] = H[i]
       /\ \A i \in DOMAIN three : i \notin DOMAIN H => four[i] = three[i]
  BY OverFacts
<1> HIDE DEF four, st, so, ho, L
<1>18. ASSUME NEW i \in 0 .. CardSlots - 1 PROVE Build(c)[i] = 1 <=> i \in Hole[player]
  <2>1. /\ i \notin DOMAIN B /\ i \notin DOMAIN R /\ i \notin DOMAIN H
        /\ i \in DOMAIN Z
    <3>1. i < st /\ i < so /\ i < ho /\ i \in Int /\ i >= 0 /\ i < TotalDim(c)
      BY <1>3, <1>4
    <3>2. QED
      BY <1>3, <1>6, <1>9, <1>12, <1>13, <3>1
  <2>2. four[i] = one[i]
    BY <1>14, <1>15, <1>16, <1>17, <2>1
  <2>3. one[i] = IF i \in DOMAIN C THEN 1 ELSE 0
    BY <1>5, <1>13, <1>14, <2>1
  <2>4. QED
    BY <1>1, <1>5, <2>2, <2>3
<1>19. ASSUME NEW i \in DOMAIN B PROVE Build(c)[i] = B[i]
  <2>1. i \notin DOMAIN R /\ i \notin DOMAIN H
    <3>1. i \in Int /\ i < so /\ i < ho
      BY <1>3, <1>4, <1>6
    <3>2. QED
      BY <1>3, <1>9, <1>12, <3>1
  <2>2. QED
    BY <1>1, <1>15, <1>16, <1>17, <2>1
<1>20. ASSUME NEW i \in DOMAIN R PROVE Build(c)[i] = R[i]
  <2>1. i \notin DOMAIN H
    BY <1>3, <1>9, <1>12
  <2>2. QED
    BY <1>1, <1>16, <1>17, <2>1
<1>21. ASSUME c.history
       PROVE  /\ \A j \in 1 .. L : Build(c)[ho + j - 1] = IF j <= n THEN 1 ELSE 0
              /\ \A i \in 1 .. n : \A j \in 1 .. 8 :
                    Build(c)[ho + L + ((i - 1) * 8 + j) - 1] = Token(Kept(c)[i])[j]
  <2>1. ASSUME NEW j \in 1 .. L PROVE Build(c)[ho + j - 1] = IF j <= n THEN 1 ELSE 0
    <3> DEFINE x == ho + j - 1
    <3>1. x \in Int /\ x >= ho /\ x < TotalDim(c)
      BY <1>3, <1>4, <1>21
    <3>2. IF j <= n THEN x \in DOMAIN H /\ H[x] = 1 ELSE x \notin DOMAIN H
      BY <1>10, <1>11, <1>21
    <3> HIDE DEF x
    <3>3. /\ x \notin DOMAIN C /\ x \notin DOMAIN B /\ x \notin DOMAIN R /\ x \in DOMAIN Z
      <4>1. x > st + 9 /\ x > st - 1 /\ x > ho - 1 /\ x >= 0
        BY <1>3, <1>4, <3>1
      <4>2. x \notin DOMAIN C /\ x \notin DOMAIN B
        BY <1>3, <1>5, <1>6, <3>1, <4>1
      <4>3. x \notin DOMAIN R /\ x \in DOMAIN Z
        BY <1>3, <1>9, <1>13, <3>1, <4>1
      <4>4. QED
        BY <4>2, <4>3
    <3>4. x \notin DOMAIN H => four[x] = 0
      BY <1>13, <1>14, <1>15, <1>16, <1>17, <3>3
    <3>5. QED
      BY <1>1, <1>17, <3>2, <3>4 DEF x
  <2>2. ASSUME NEW i \in 1 .. n, NEW j \in 1 .. 8
        PROVE  Build(c)[ho + L + ((i - 1) * 8 + j) - 1] = Token(Kept(c)[i])[j]
    <3> DEFINE x == ho + L + ((i - 1) * 8 + j) - 1
    <3>1. x \in DOMAIN H /\ H[x] = Token(Kept(c)[i])[j]
      <4>1. H = History(c)
        BY <1>11, <1>21
      <4>2. x \in DOMAIN History(c) /\ History(c)[x] = Token(Kept(c)[i])[j]
        BY <1>10, Zenon
      <4>3. QED
        BY <4>1, <4>2, Zenon
    <3> HIDE DEF x
    <3>2. Build(c)[x] = Token(Kept(c)[i])[j]
      BY <1>1, <1>17, <3>1
    <3>3. QED
      BY <3>2 DEF x
  <2>3. QED
    BY <2>1, <2>2
<1>22. /\ \A i \in DOMAIN BasicFeatures : Build(c)[i] = BasicFeatures[i]
       /\ c.summary => \A i \in DOMAIN RoundSummary : Build(c)[i] = RoundSummary[i]
  BY <1>7, <1>19, <1>20 DEF B
<1>23. QED
  BY <1>18, <1>21, <1>22 DEF ho, L

(* The network's side: what attention reaches are the tokens of the last   *)
(* actions, in order.                                                      *)
LEMMA AttendedTokens ==
    ASSUME EnvInv, NEW c \in Configs, c.history,
           NEW n, n = Min({Len(betHistory), c.length})
    PROVE  /\ DOMAIN Attended(c, Build(c)) = 1 .. n
           /\ \A i \in 1 .. n : Attended(c, Build(c))[i]
                                    = Token(betHistory[Len(betHistory) - n + i])
<1> DEFINE obs == Build(c)
           L == c.length
           ho == HistoryOffset(c)
           block == Narrow(obs, ho, HistoryBlockDim(c))
           mask == SubSeq(block, 1, L)
           token(i) == SubSeq(block, L + (i - 1) * 8 + 1, L + i * 8)
           tokens == [i \in 1 .. L |-> token(i)]
           Numbers == {obs[x] : x \in Int}
<1>1. /\ n \in Nat /\ n <= L /\ Kept(c) \in Seq(HistoryEntry) /\ Len(Kept(c)) = n
      /\ \A i \in 1 .. n : Kept(c)[i] = betHistory[Len(betHistory) - n + i]
  <2> HIDE DEF HistoryEntry
  <2>1. QED
    BY KeptFacts, Zenon
<1>2. L \in Nat /\ ho \in Nat /\ HistoryBlockDim(c) = L * 9
  BY LayoutFacts, Offsets
<1>3. /\ \A j \in 1 .. L : obs[ho + j - 1] = IF j <= n THEN 1 ELSE 0
      /\ \A i \in 1 .. n : \A j \in 1 .. 8 :
            obs[ho + L + ((i - 1) * 8 + j) - 1] = Token(Kept(c)[i])[j]
  BY RowReads
<1>4. \A i \in 1 .. n : Kept(c)[i] \in HistoryEntry
  BY <1>1, Entries
<1>5. \A i \in 1 .. n : Token(Kept(c)[i]) \in Seq(Nat) /\ Len(Token(Kept(c)[i])) = 8
  BY <1>4, TokenFacts
<1>6. Attended(c, obs) = [i \in {j \in DOMAIN mask : mask[j] = 1} |-> tokens[i]]
  BY DEF Attended, FeatPerAction
<1> HIDE DEF obs
<1>7. block = [i \in 1 .. L * 9 |-> obs[ho + i - 1]]
  BY <1>2 DEF Narrow
<1>8. /\ block \in Seq(Numbers) /\ Len(block) = L * 9
      /\ \A i \in 1 .. L * 9 : block[i] = obs[ho + i - 1]
  <2>1. \A i \in 1 .. L * 9 : obs[ho + i - 1] \in Numbers
    BY <1>2
  <2>2. L * 9 \in Nat
    BY <1>2
  <2> HIDE DEF Numbers, block
  <2>3. QED
    BY <1>7, <2>1, <2>2
<1> HIDE DEF block, Numbers, ho, L
<1>9. /\ DOMAIN mask = 1 .. L
      /\ \A j \in 1 .. L : mask[j] = IF j <= n THEN 1 ELSE 0
  <2>1. L * 9 \in Nat /\ L <= L * 9 /\ L \in Nat
    BY <1>2
  <2>2. mask \in Seq(Numbers) /\ Len(mask) = L /\ \A j \in 1 .. L : mask[j] = block[j]
    BY <1>8, <2>1
  <2>3. ASSUME NEW j \in 1 .. L PROVE block[j] = obs[ho + j - 1]
    <3>1. j \in 1 .. L * 9
      BY <2>1
    <3>2. QED
      BY <1>8, <3>1, Zenon
  <2>4. DOMAIN mask = 1 .. L
    BY <2>2
  <2> HIDE DEF mask
  <2>5. ASSUME NEW j \in 1 .. L PROVE mask[j] = IF j <= n THEN 1 ELSE 0
    <3>1. mask[j] = obs[ho + j - 1]
      BY <2>2, <2>3
    <3>2. obs[ho + j - 1] = IF j <= n THEN 1 ELSE 0
      BY <1>3
    <3>3. QED
      BY <3>1, <3>2, Zenon
  <2>6. QED
    BY <2>4, <2>5
<1> HIDE DEF mask
<1>10. \A i : i \in {j \in DOMAIN mask : mask[j] = 1} <=> i \in 1 .. n
  <2>1. ASSUME NEW j \in 1 .. L PROVE mask[j] = 1 <=> j <= n
    <3>1. mask[j] = IF j <= n THEN 1 ELSE 0
      BY <1>9, Zenon
    <3>2. CASE j <= n
      BY <3>1, <3>2
    <3>3. CASE ~(j <= n)
      BY <3>1, <3>3
    <3>4. QED
      BY <3>2, <3>3
  <2>2. \A i : i \in 1 .. n <=> i \in 1 .. L /\ i <= n
    BY <1>1, <1>2
  <2>3. QED
    BY <1>9, <2>1, <2>2, Zenon
<1>11. {j \in DOMAIN mask : mask[j] = 1} = 1 .. n
  BY <1>10
<1>12. ASSUME NEW i \in 1 .. n PROVE tokens[i] = Token(Kept(c)[i])
  <2>1. i \in 1 .. L
    BY <1>1, <1>2
  <2> DEFINE t == token(i)
             a == L + (i - 1) * 8
             row == Token(Kept(c)[i])
  <2>10. \A j \in 1 .. 8 : obs[ho + L + ((i - 1) * 8 + j) - 1] = row[j]
    BY <1>3, Zenon
  <2>2. tokens[i] = t
    BY <2>1
  <2>3. a \in Nat /\ a + 8 <= L * 9 /\ L + i * 8 = a + 8
    BY <1>2, <2>1
  <2>4. t = SubSeq(block, a + 1, a + 8)
    BY <2>3
  <2> HIDE DEF a, t
  <2>5. /\ t \in Seq(Numbers) /\ Len(t) = 8
        /\ \A j \in 1 .. 8 : a + j \in 1 .. L * 9 /\ t[j] = block[a + j]
    <3>1. \A j \in 1 .. 8 : a + j \in 1 .. L * 9
      BY <1>2, <2>3
    <3> DEFINE m == 8
    <3>2. block \in Seq(Numbers) /\ a \in Nat /\ m \in Nat /\ a + m <= Len(block)
      BY <1>8, <2>3
    <3> HIDE DEF m
    <3>3. /\ SubSeq(block, a + 1, a + m) \in Seq(Numbers)
          /\ Len(SubSeq(block, a + 1, a + m)) = m
          /\ \A j \in 1 .. m : SubSeq(block, a + 1, a + m)[j] = block[a + j]
      BY <3>2, CutOut
    <3>4. QED
      BY <2>4, <3>1, <3>3 DEF m
  <2>6. ASSUME NEW j \in 1 .. 8 PROVE t[j] = row[j]
    <3>1. t[j] = obs[ho + (a + j) - 1]
      BY <1>8, <2>5
    <3>2. ho + (a + j) - 1 = ho + L + ((i - 1) * 8 + j) - 1
      BY <1>2, <2>1 DEF a
    <3>3. obs[ho + L + ((i - 1) * 8 + j) - 1] = row[j]
      BY <2>10
    <3>4. QED
      BY <3>1, <3>2, <3>3, Zenon
  <2>7. row \in Seq(Nat) /\ Len(row) = 8
    BY <1>5
  <2> HIDE DEF row
  <2>8. t = row
    <3>1. t = [j \in 1 .. 8 |-> t[j]]
      BY <2>5
    <3>2. row = [j \in 1 .. 8 |-> row[j]]
      BY <2>7
    <3>3. [j \in 1 .. 8 |-> t[j]] = [j \in 1 .. 8 |-> row[j]]
      BY <2>6, Zenon
    <3>4. QED
      BY <3>1, <3>2, <3>3, Zenon
  <2>9. QED
    BY <2>2, <2>8 DEF row
<1> HIDE DEF tokens
<1>13. QED
  BY <1>1, <1>6, <1>11, <1>12 DEF obs

(* Read back, a token means its entry.                                     *)
LEMMA TokenMeans ==
    ASSUME NEW e \in HistoryEntry
    PROVE  Told(Token(e)) = Meant(e)
<1> DEFINE t == Token(e)
<1>1. /\ t[1] = e.amount /\ t[3] = Bit(e.player = player)
      /\ t[4] = Bit(e.aggressive)
      /\ \A r \in Streets : t[5 + r] = Bit(e.round = r)
  BY TokenFacts
<1>2. e.round \in Streets /\ e.aggressive \in BOOLEAN
  BY DEF HistoryEntry
<1> HIDE DEF t, HistoryEntry, Streets
<1>3. (t[3] = 1) <=> (e.player = player)
  BY <1>1, BitIs, Zenon
<1>4. (t[4] = 1) <=> e.aggressive
  BY <1>1, BitIs, Zenon
<1>5. \A r \in Streets : (t[5 + r] = 1) <=> (e.round = r)
  BY <1>1, BitIs, Zenon
<1>6. {r \in Streets : t[5 + r] = 1} = {e.round}
  BY <1>2, <1>5
<1>7. (t[3] = 1) = (e.player = player)
  BY <1>3, Zenon
<1>8. (t[4] = 1) = e.aggressive
  BY <1>2, <1>4, Zenon
<1>9. QED
  BY <1>1, <1>6, <1>7, <1>8, Zenon DEF t, Told, Meant

(* The actions the network attends to are the last of the hand, in order   *)
(* and without holes, for any length of the history block and any network  *)
(* that takes the rows.                                                    *)
THEOREM LastActionsAreTold == EnvSpec => []LastActionsReachTheNetwork
<1>1. EnvInv => LastActionsReachTheNetwork
  <2> SUFFICES ASSUME EnvInv, NEW c \in Configs, c.history
               PROVE  LET n == Min({Len(betHistory), c.length})
                          tokens == Attended(c, Build(c))
                      IN  /\ DOMAIN tokens = 1 .. n
                          /\ \A i \in 1 .. n :
                                Told(tokens[i]) = Meant(betHistory[Len(betHistory) - n + i])
    BY ReadAlike, Zenon DEF LastActionsReachTheNetwork
  <2> DEFINE n == Min({Len(betHistory), c.length})
             e(i) == betHistory[Len(betHistory) - n + i]
  <2>1. \A i \in 1 .. n : e(i) \in HistoryEntry
    <3> HIDE DEF HistoryEntry
    <3>1. \A i \in 1 .. n : Len(betHistory) - n + i \in DOMAIN betHistory
      BY KeptFacts, Zenon
    <3>2. betHistory \in Seq(HistoryEntry)
      BY DEF EnvInv
    <3> HIDE DEF n
    <3>3. QED
      BY <3>1, <3>2
  <2>2. /\ DOMAIN Attended(c, Build(c)) = 1 .. n
        /\ \A i \in 1 .. n : Attended(c, Build(c))[i] = Token(e(i))
    BY AttendedTokens
  <2>3. \A i \in 1 .. n : Told(Token(e(i))) = Meant(e(i))
    BY <2>1, TokenMeans
  <2>4. QED
    BY <2>2, <2>3
<1>2. QED
  BY <1>1, EnvInvariance, PTL

-----------------------------------------------------------------------------
(***************************************************************************)
(* Observation, one hand in three places.  The history accounts for the    *)
(* chips and the raises of the whole hand, and so do its parts by street.  *)
(***************************************************************************)
(* What an action does to the totals.                                      *)
LEMMA PlayTotals ==
    ASSUME IInv, NEW a, a.amount \in Nat, Play(a), phase' # "terminal", ChipsConserved
    PROVE  /\ ChipsConserved'
           /\ raiseNum' = raiseNum + (IF a.kind = "raise" THEN 1 ELSE 0)
<1>1. raiseNum \in Nat
  BY DEF IInv, TypeOK
<1>2. CASE a = Check /\ DoCheck
  BY <1>1, <1>2 DEF Check, DoCheck, money, ChipsConserved
<1>3. CASE a = Fold /\ DoFold
  BY <1>3 DEF DoFold, Terminal
<1>4. CASE a = Raise(a.amount) /\ DoRaise(a.amount)
  <2>1. a.kind = "raise" /\ AddMoney(a.amount, FALSE)
    <3>1. a.kind = "raise"
      BY <1>4 DEF Raise
    <3>2. AddMoney(a.amount, FALSE)
      BY <1>4, Zenon DEF DoRaise
    <3>3. QED
      BY <3>1, <3>2, Zenon
  <2>2. ChipsConserved'
    BY <2>1, AddMoneyConserves
  <2>3. raiseNum' = raiseNum + 1
    BY <2>1 DEF AddMoney
  <2>4. QED
    BY <2>1, <2>2, <2>3
<1>5. CASE a = Call(a.amount) /\ (Limp(a.amount) \/ CallClosesStreet(a.amount))
  <2>1. a.kind # "raise" /\ AddMoney(a.amount, TRUE)
    <3>1. a.kind # "raise"
      BY <1>5 DEF Call
    <3>2. AddMoney(a.amount, TRUE)
      BY <1>5, Zenon DEF Limp, CallClosesStreet
    <3>3. QED
      BY <3>1, <3>2, Zenon
  <2>2. ChipsConserved'
    BY <2>1, AddMoneyConserves
  <2>3. raiseNum' = raiseNum
    BY <2>1 DEF AddMoney
  <2>4. QED
    BY <1>1, <2>1, <2>2, <2>3
<1>6. CASE CallAllIn(a.amount)
  BY <1>6 DEF CallAllIn, Showdown, Terminal
<1>7. QED
  BY <1>2, <1>3, <1>4, <1>5, <1>6 DEF Play

(* ... and an entry to the raises of the hand.                             *)
LEMMA RaisesAddUp ==
    ASSUME EnvInv, NEW e \in HistoryEntry, betHistory' = Append(betHistory, e)
    PROVE  /\ Cardinality(RaisesTold) \in Nat
           /\ Cardinality(RaisesTold') = Cardinality(RaisesTold)
                                         + (IF e.aggressive THEN 1 ELSE 0)
<1> DEFINE n == Len(betHistory)
<1>1. /\ n \in Nat /\ DOMAIN betHistory = 1 .. n
      /\ DOMAIN betHistory' = 1 .. n + 1
      /\ \A k \in 1 .. n : betHistory'[k] = betHistory[k]
      /\ betHistory'[n + 1] = e
  BY Appended
<1>2. RaisesTold \subseteq 1 .. n /\ IsFiniteSet(RaisesTold) /\ Cardinality(RaisesTold) \in Nat
  <2>1. RaisesTold \subseteq 1 .. n
    BY <1>1 DEF RaisesTold
  <2>2. IsFiniteSet(1 .. n)
    BY <1>1, FS_Interval
  <2>3. QED
    BY <2>1, <2>2, FS_Subset, FS_CardinalityType
<1>3. CASE e.aggressive
  <2>1. RaisesTold' = RaisesTold \cup {n + 1} /\ n + 1 \notin RaisesTold
    BY <1>1, <1>3 DEF RaisesTold
  <2>2. Cardinality(RaisesTold') = Cardinality(RaisesTold) + 1
    BY <1>2, <2>1, FS_AddElement
  <2>3. QED
    BY <1>2, <1>3, <2>2
<1>4. CASE ~e.aggressive
  <2>1. \A k : k \in RaisesTold' <=> k \in RaisesTold
    BY <1>1, <1>4 DEF RaisesTold
  <2>2. RaisesTold' = RaisesTold
    BY <2>1
  <2>3. QED
    BY <1>2, <1>4, <2>2
<1>5. QED
  BY <1>3, <1>4

(* A hand that has no entry has no raise.                                  *)
NoRaisesTold == betHistory = <<>> => Cardinality(RaisesTold) = 0

LEMMA EmptyHasNoRaises == NoRaisesTold
<1> SUFFICES ASSUME betHistory = <<>> PROVE Cardinality(RaisesTold) = 0
  BY DEF NoRaisesTold
<1>1. RaisesTold = {}
  BY DEF RaisesTold
<1>2. QED
  BY <1>1, FS_EmptySet

LEMMA EmptyHasNoRaisesNext == NoRaisesTold'
  BY EmptyHasNoRaises, PTL

(* The totals are kept by every call.                                      *)
LEMMA TotalsStep ==
    EnvInv /\ OneSlotPerAction /\ TotalsAreTold /\ [EnvNext]_envVars => TotalsAreTold'
<1> SUFFICES ASSUME EnvInv, OneSlotPerAction, TotalsAreTold, [EnvNext]_envVars
             PROVE  TotalsAreTold'
  OBVIOUS
<1>1. CASE Reset
  <2>1. /\ betHistory' = <<>> /\ raiseNum' = 0
        /\ stacks' = [p \in Seats |-> InitialStack - Blind(p)]
        /\ pot' = SmallBlind + BigBlind
    BY <1>1 DEF Reset, ReInitialize
  <2>2. ChipsConserved'
    BY <2>1, InitialDealConserves DEF ChipsConserved
  <2>3. Cardinality(RaisesTold') = 0
    BY <2>1, EmptyHasNoRaisesNext DEF NoRaisesTold
  <2>4. QED
    BY <2>1, <2>2, <2>3 DEF TotalsAreTold
<1>2. ASSUME NEW s \in Slots, Step(s) PROVE TotalsAreTold'
  <2> DEFINE a == actionTable[s]
  <2>1. IInv /\ Play(a) /\ phase = "action"
    BY <1>2, PlayFacts DEF Step, EnvInv
  <2>2. /\ Entry(a) \in HistoryEntry /\ betHistory' = Append(betHistory, Entry(a))
        /\ Entry(a).aggressive = (a.kind = "raise") /\ a.amount \in Nat
    <3>1. a.amount \in Nat /\ player \in Seats /\ round \in Streets
      BY DEF EnvInv, IInv, TypeOK, GameAction
    <3>2. QED
      BY <1>2, <3>1 DEF Step, Entry, HistoryEntry
  <2> HIDE DEF a
  <2> SUFFICES ASSUME phase' # "terminal"
               PROVE  ChipsConserved' /\ raiseNum' = Cardinality(RaisesTold')
    BY DEF TotalsAreTold
  <2>3. ChipsConserved /\ raiseNum = Cardinality(RaisesTold)
    BY <2>1 DEF TotalsAreTold
  <2>4. ChipsConserved' /\ raiseNum' = raiseNum + (IF a.kind = "raise" THEN 1 ELSE 0)
    BY <2>1, <2>2, <2>3, PlayTotals
  <2>5. Cardinality(RaisesTold') = Cardinality(RaisesTold)
                                   + (IF Entry(a).aggressive THEN 1 ELSE 0)
    BY <2>2, RaisesAddUp
  <2>6. QED
    BY <2>2, <2>3, <2>4, <2>5
<1>3. ASSUME NEW s \in Slots, StepThrows(s) PROVE TotalsAreTold'
  <2>1. phase # "action"
    BY <1>3 DEF StepThrows, OneSlotPerAction, Offered
  <2>2. phase' = "terminal"
    BY <1>3, <2>1 DEF StepThrows, vars, EnvInv, IInv, TypeOK
  <2>3. QED
    BY <2>2 DEF TotalsAreTold
<1>4. CASE AutoAdvance
  <2>1. /\ phase = "chance" /\ stacks' = stacks /\ pot' = pot /\ raiseNum' = raiseNum
        /\ betHistory' = betHistory
    BY <1>4 DEF AutoAdvance, DealChance, money
  <2>2. QED
    BY <2>1 DEF TotalsAreTold, ChipsConserved, RaisesTold
<1>5. CASE UNCHANGED envVars
  BY <1>5 DEF envVars, vars, money, TotalsAreTold, ChipsConserved, RaisesTold
<1>6. QED
  BY <1>1, <1>2, <1>3, <1>4, <1>5 DEF EnvNext

LEMMA TotalsInvariance == EnvSpec => []TotalsAreTold
<1>1. EnvInit => TotalsAreTold
  <2> SUFFICES ASSUME EnvInit PROVE TotalsAreTold
    OBVIOUS
  <2>1. /\ betHistory = <<>> /\ raiseNum = 0
        /\ stacks = [p \in Seats |-> InitialStack - Blind(p)]
        /\ pot = SmallBlind + BigBlind
    BY DEF EnvInit, Init
  <2>2. ChipsConserved
    BY <2>1, InitialDealConserves DEF ChipsConserved
  <2>3. Cardinality(RaisesTold) = 0
    BY <2>1, EmptyHasNoRaises DEF NoRaisesTold
  <2>4. QED
    BY <2>1, <2>2, <2>3 DEF TotalsAreTold
<1>2. QED
  BY <1>1, TotalsStep, EnvInvariance, EachHasOneSlot, PTL DEF EnvSpec

(* A sum over the four streets.                                            *)
LEMMA SumOfStreets ==
    ASSUME NEW d, \A r \in Streets : d[r] \in Int
    PROVE  SumFunctionOnSet(d, Streets) = d[0] + d[1] + d[2] + d[3]
<1>1. Streets = {0, 1, 2, 3}
  BY DEF Streets, River
<1> DEFINE three == {0, 1, 2}
           two == {0, 1}
           one == {0}
<1>2. IsFiniteSet(Streets)
  <2>1. 0 \in Int /\ 3 \in Int
    OBVIOUS
  <2>2. IsFiniteSet(0 .. 3)
    BY <2>1, FS_Interval, Zenon
  <2>3. QED
    BY <2>2, Zenon DEF Streets, River
<1>3. /\ d[0] \in Int /\ d[1] \in Int /\ d[2] \in Int /\ d[3] \in Int
      /\ 0 \in Streets /\ 1 \in Streets /\ 2 \in Streets /\ 3 \in Streets
  BY <1>1
<1>4. /\ three = Streets \ {3} /\ two = three \ {2} /\ one = two \ {1} /\ {} = one \ {0}
      /\ 2 \in three /\ 1 \in two /\ 0 \in one
      /\ three \in SUBSET Streets /\ two \in SUBSET Streets /\ one \in SUBSET Streets
      /\ Streets \in SUBSET Streets
  BY <1>1
<1> HIDE DEF three, two, one, Streets
<1>5. \A T \in SUBSET Streets :
         /\ SumFunctionOnSet(d, T) \in Int
         /\ \A x \in T : SumFunctionOnSet(d, T) = d[x] + SumFunctionOnSet(d, T \ {x})
  BY <1>2, SumsOfSubsets
<1>6. /\ SumFunctionOnSet(d, Streets) = d[3] + SumFunctionOnSet(d, three)
      /\ SumFunctionOnSet(d, three) = d[2] + SumFunctionOnSet(d, two)
      /\ SumFunctionOnSet(d, two) = d[1] + SumFunctionOnSet(d, one)
      /\ SumFunctionOnSet(d, one) = d[0] + SumFunctionOnSet(d, {})
  <2>1. SumFunctionOnSet(d, Streets) = d[3] + SumFunctionOnSet(d, three)
    BY <1>3, <1>4, <1>5, Zenon
  <2>2. SumFunctionOnSet(d, three) = d[2] + SumFunctionOnSet(d, two)
    BY <1>4, <1>5, Zenon
  <2>3. SumFunctionOnSet(d, two) = d[1] + SumFunctionOnSet(d, one)
    BY <1>4, <1>5, Zenon
  <2>4. SumFunctionOnSet(d, one) = d[0] + SumFunctionOnSet(d, {})
    <3>1. SumFunctionOnSet(d, one) = d[0] + SumFunctionOnSet(d, one \ {0})
      BY <1>4, <1>5, Zenon
    <3>2. one \ {0} = {}
      BY <1>4
    <3>3. QED
      BY <3>1, <3>2
  <2>5. QED
    BY <2>1, <2>2, <2>3, <2>4
<1>7. SumFunctionOnSet(d, {}) = 0
  BY SumOfNothing
<1>8. QED
  BY <1>3, <1>6, <1>7

(* The raises of the hand are those of its streets.                        *)
LEMMA RaisesByStreet ==
    ASSUME EnvInv
    PROVE  Cardinality(RaisesTold) = Cardinality(RaisesOf(0)) + Cardinality(RaisesOf(1))
                                     + Cardinality(RaisesOf(2)) + Cardinality(RaisesOf(3))
<1> DEFINE c == [r \in Streets |-> Cardinality(RaisesOf(r))]
           label == [k \in DOMAIN betHistory |-> betHistory[k].round]
<1>1. \A k \in DOMAIN betHistory : betHistory[k].round \in Streets
  <2> HIDE DEF HistoryEntry
  <2>1. \A k \in DOMAIN betHistory : betHistory[k] \in HistoryEntry
    BY DEF EnvInv
  <2>2. QED
    BY <2>1 DEF HistoryEntry
<1>2. IsFiniteSet(DOMAIN betHistory)
  <2>1. DOMAIN betHistory = 1 .. Len(betHistory) /\ Len(betHistory) \in Nat
    BY DEF EnvInv
  <2>2. QED
    BY <2>1, FS_Interval
<1>3. RaisesTold \subseteq DOMAIN betHistory /\ IsFiniteSet(RaisesTold)
  BY <1>2, FS_Subset DEF RaisesTold
<1>4. IsFiniteSet(Streets)
  <2>1. 0 \in Int /\ 3 \in Int
    OBVIOUS
  <2>2. IsFiniteSet(0 .. 3)
    BY <2>1, FS_Interval, Zenon
  <2>3. QED
    BY <2>2, Zenon DEF Streets, River
<1>5. \A r \in Streets : /\ Cardinality(RaisesOf(r)) \in Int
                         /\ RaisesOf(r) = {k \in RaisesTold : label[k] = r}
  <2> SUFFICES ASSUME NEW r \in Streets
               PROVE  /\ Cardinality(RaisesOf(r)) \in Int
                      /\ RaisesOf(r) = {k \in RaisesTold : label[k] = r}
    OBVIOUS
  <2>1. RaisesOf(r) \subseteq DOMAIN betHistory
    BY DEF RaisesOf
  <2>2. Cardinality(RaisesOf(r)) \in Int
    BY <1>2, <2>1, FS_Subset, FS_CardinalityType
  <2>3. RaisesOf(r) = {k \in RaisesTold : label[k] = r}
    BY DEF RaisesOf, RaisesTold
  <2>4. QED
    BY <2>2, <2>3
<1>6. \A r \in Streets : c[r] = Cardinality(RaisesOf(r))
  OBVIOUS
<1>7. \A k \in RaisesTold : label[k] \in Streets
  BY <1>1, <1>3
<1> HIDE DEF c, label
<1>8. Counts(c, Streets, RaisesTold, label)
  BY <1>5, <1>6 DEF Counts
<1>9. Labelled(RaisesTold, label, Streets) = RaisesTold
  BY <1>7 DEF Labelled
<1>10. SumFunctionOnSet(c, Streets) = Cardinality(RaisesTold)
  BY <1>3, <1>4, <1>8, <1>9, CountsAddUp
<1>11. SumFunctionOnSet(c, Streets) = c[0] + c[1] + c[2] + c[3]
  BY <1>5, <1>6, SumOfStreets
<1>12. 0 \in Streets /\ 1 \in Streets /\ 2 \in Streets /\ 3 \in Streets
  BY DEF Streets, River
<1>13. QED
  BY <1>6, <1>10, <1>11, <1>12

(* The chips of a seat are those it has paid on the streets.               *)
LEMMA ChipsByStreet ==
    ASSUME EnvInv, NEW p
    PROVE  PaidBy(p) = ChipsOf(p, 0) + ChipsOf(p, 1) + ChipsOf(p, 2) + ChipsOf(p, 3)
<1> DEFINE S == DOMAIN betHistory
           on(r) == [k \in S |-> IF betHistory[k].player = p /\ betHistory[k].round = r
                                 THEN betHistory[k].amount ELSE 0]
           all == [k \in S |-> IF betHistory[k].player = p THEN betHistory[k].amount ELSE 0]
           early == [k \in S |-> on(0)[k] + on(1)[k]]
           late == [k \in S |-> on(2)[k] + on(3)[k]]
<1>1. \A k \in S : betHistory[k].round \in Streets /\ betHistory[k].amount \in Nat
  <2> HIDE DEF HistoryEntry
  <2>1. \A k \in S : betHistory[k] \in HistoryEntry
    BY DEF EnvInv
  <2>2. QED
    BY <2>1 DEF HistoryEntry
<1>2. IsFiniteSet(S)
  <2>1. S = 1 .. Len(betHistory) /\ Len(betHistory) \in Nat
    BY DEF EnvInv
  <2>2. QED
    BY <2>1, FS_Interval
<1>3. \A r : \A k \in S : on(r)[k] \in Int
  BY <1>1
<1>4. \A r : ChipsOf(p, r) = SumFunctionOnSet(on(r), S)
  BY DEF ChipsOf, SumFunction
<1>5. PaidBy(p) = SumFunctionOnSet(all, S)
  BY DEF PaidBy, SumFunction
<1>6. \A k \in S : early[k] = on(0)[k] + on(1)[k] /\ late[k] = on(2)[k] + on(3)[k]
  OBVIOUS
<1>7. \A k \in S : all[k] = early[k] + late[k]
  <2> SUFFICES ASSUME NEW k \in S PROVE all[k] = early[k] + late[k]
    OBVIOUS
  <2>1. betHistory[k].round \in {0, 1, 2, 3} /\ betHistory[k].amount \in Nat
    BY <1>1 DEF Streets, River
  <2>2. \A r : on(r)[k] = IF betHistory[k].player = p /\ betHistory[k].round = r
                          THEN betHistory[k].amount ELSE 0
    OBVIOUS
  <2>3. all[k] = on(0)[k] + on(1)[k] + (on(2)[k] + on(3)[k])
    BY <2>1, <2>2
  <2>4. QED
    BY <1>6, <2>3
<1> HIDE DEF S, on, all, early, late
<1>8. \A k \in S : early[k] \in Int /\ late[k] \in Int
  BY <1>3, <1>6
<1>9. SumFunctionOnSet(early, S) = SumFunctionOnSet(on(0), S) + SumFunctionOnSet(on(1), S)
  BY <1>2, <1>3, <1>6, SumsAddUp
<1>10. SumFunctionOnSet(late, S) = SumFunctionOnSet(on(2), S) + SumFunctionOnSet(on(3), S)
  BY <1>2, <1>3, <1>6, SumsAddUp
<1>11. SumFunctionOnSet(all, S) = SumFunctionOnSet(early, S) + SumFunctionOnSet(late, S)
  BY <1>2, <1>7, <1>8, SumsAddUp
<1>12. \A r : SumFunctionOnSet(on(r), S) \in Int
  BY <1>2, <1>3, SumSplits
<1>13. QED
  BY <1>4, <1>5, <1>9, <1>10, <1>11, <1>12

(* What the towers see of a row with a summary: its first numbers.         *)
LEMMA InputReads ==
    ASSUME EnvInv, NEW c \in Configs, c.summary, NEW obs
    PROVE  /\ Len(TrunkInput(c, obs)) = TotalDim(c) - HistoryBlockDim(c)
           /\ \A x \in 1 .. StaticOffset + 46 : TrunkInput(c, obs)[x] = obs[x - 1]
<1> DEFINE Numbers == {obs[x] : x \in Int}
           st == StaticOffset
           front == Narrow(obs, 0, st + FeatStatic)
           back == Narrow(obs, SummaryOffset, SummaryDim(c))
           input == TrunkInput(c, obs)
<1>1. /\ st \in Nat /\ SummaryOffset = st + 30 /\ HistoryOffset(c) = st + 46
      /\ TotalDim(c) = HistoryOffset(c) + HistoryBlockDim(c) /\ SummaryDim(c) = 16
      /\ HistoryBlockDim(c) \in Nat
  <2>1. c.length * 9 \in Nat
    BY LayoutFacts
  <2>2. QED
    BY <2>1, Offsets, LayoutFacts DEF TotalDim
<1>2. FeatStatic = 30
  BY DEF FeatStatic, FeatBasic, FeatHandStrength
<1>3. input = front \o back
  BY DEF TrunkInput
<1> HIDE DEF st, input
<1>4. front = [i \in 1 .. st + 30 |-> obs[0 + i - 1]]
  BY <1>1, <1>2 DEF Narrow
<1>5. back = [i \in 1 .. 16 |-> obs[st + 30 + i - 1]]
  BY <1>1 DEF Narrow
<1> HIDE DEF front, back
<1>6. \A x \in Int : obs[x] \in Numbers
  OBVIOUS
<1> HIDE DEF Numbers
<1>7. /\ front \in Seq(Numbers) /\ Len(front) = st + 30
      /\ \A i \in 1 .. st + 30 : front[i] = obs[i - 1]
  <2>1. ASSUME NEW i \in 1 .. st + 30
        PROVE  front[i] = obs[i - 1] /\ obs[0 + i - 1] \in Numbers
    <3>1. 0 + i - 1 = i - 1 /\ i - 1 \in Int
      BY <1>1
    <3>2. front[i] = obs[0 + i - 1]
      BY <1>4
    <3>3. QED
      BY <1>6, <3>1, <3>2
  <2>2. st + 30 \in Nat
    BY <1>1
  <2>3. front \in Seq(Numbers) /\ Len(front) = st + 30
    BY <1>4, <2>1, <2>2
  <2>4. QED
    BY <2>1, <2>3
<1>8. /\ back \in Seq(Numbers) /\ Len(back) = 16
      /\ \A i \in 1 .. 16 : back[i] = obs[st + 30 + i - 1]
  <2>1. \A i \in 1 .. 16 : st + 30 + i - 1 \in Int
    BY <1>1
  <2>2. QED
    BY <1>5, <1>6, <2>1
<1>9. /\ front \o back \in Seq(Numbers) /\ Len(front \o back) = Len(front) + Len(back)
      /\ \A x \in 1 .. Len(front) + Len(back) :
            (front \o back)[x] = IF x <= Len(front) THEN front[x] ELSE back[x - Len(front)]
  <2>1. front \in Seq(Numbers) /\ back \in Seq(Numbers)
    BY <1>7, <1>8
  <2>2. QED
    BY <2>1, Joined, Zenon
<1>10. /\ Len(input) = st + 46
       /\ \A x \in 1 .. st + 46 :
             input[x] = IF x <= st + 30 THEN front[x] ELSE back[x - (st + 30)]
  <2>1. Len(front) = st + 30 /\ Len(front) + Len(back) = st + 46
    BY <1>1, <1>7, <1>8
  <2>2. QED
    BY <1>3, <1>9, <2>1, Zenon
<1>11. ASSUME NEW x \in 1 .. st + 46 PROVE input[x] = obs[x - 1]
  <2>1. CASE x <= st + 30
    <3>1. x \in 1 .. st + 30
      BY <1>1, <2>1
    <3>2. input[x] = front[x]
      BY <1>10, <2>1
    <3>3. QED
      BY <1>7, <3>1, <3>2
  <2>2. CASE ~(x <= st + 30)
    <3> DEFINE i == x - (st + 30)
    <3>1. i \in 1 .. 16 /\ st + 30 + i - 1 = x - 1
      BY <1>1, <2>2
    <3>2. input[x] = back[i]
      BY <1>10, <2>2
    <3> HIDE DEF i
    <3>3. back[i] = obs[st + 30 + i - 1]
      BY <1>8, <3>1
    <3>4. QED
      BY <3>1, <3>2, <3>3
  <2>3. QED
    BY <2>1, <2>2
<1>12. QED
  BY <1>1, <1>10, <1>11 DEF st, input

(* The chips of one seat on one street, as the tokens tell them.           *)
PaidInTokens(tokens, mine, r) ==
    SumFunctionOnSet([i \in DOMAIN tokens |-> tokens[i][1]],
                     {i \in DOMAIN tokens : tokens[i][3] = mine /\ tokens[i][5 + r] = 1})

(* They are what the history has of the seat.                              *)
LEMMA TokensTellTheChips ==
    ASSUME EnvInv, NEW c \in Configs, c.history, Len(betHistory) <= c.length,
           NEW r \in Streets
    PROVE  LET tokens == Attended(c, Build(c))
           IN  /\ PaidInTokens(tokens, 1, r) = ChipsOf(player, r)
               /\ PaidInTokens(tokens, 0, r) = ChipsOf(Other(player), r)
<1> DEFINE tokens == Attended(c, Build(c))
           n == Min({Len(betHistory), c.length})
           S == DOMAIN betHistory
           d == [i \in S |-> tokens[i][1]]
           on(p) == [k \in S |-> IF betHistory[k].player = p /\ betHistory[k].round = r
                                 THEN betHistory[k].amount ELSE 0]
<1>1. n = Len(betHistory)
  <2>1. n \in Nat /\ n <= Len(betHistory) /\ (n = Len(betHistory) \/ n = c.length)
    BY KeptFacts, Zenon
  <2>2. Len(betHistory) \in Nat /\ c.length \in Nat
    BY LayoutFacts DEF EnvInv
  <2> HIDE DEF n
  <2>3. QED
    BY <2>1, <2>2
<1>2. DOMAIN tokens = 1 .. n /\ \A i \in 1 .. n : tokens[i]
                                     = Token(betHistory[Len(betHistory) - n + i])
  BY AttendedTokens
<1> HIDE DEF tokens, n
<1>3. /\ S = 1 .. n /\ n \in Nat /\ \A i \in 1 .. n : Len(betHistory) - n + i = i
      /\ \A k \in S : betHistory[k] \in HistoryEntry
  <2> HIDE DEF HistoryEntry
  <2>1. betHistory \in Seq(HistoryEntry)
    BY DEF EnvInv
  <2>2. QED
    BY <1>1, <2>1
<1>4. DOMAIN tokens = S /\ \A i \in S : tokens[i] = Token(betHistory[i])
  BY <1>2, <1>3
<1>5. IsFiniteSet(S)
  BY <1>3, FS_Interval
<1> HIDE DEF S
<1>6. ASSUME NEW i \in S
      PROVE  /\ tokens[i][1] = betHistory[i].amount
             /\ tokens[i][3] \in {0, 1} /\ (tokens[i][3] = 1 <=> betHistory[i].player = player)
             /\ tokens[i][5 + r] = 1 <=> betHistory[i].round = r
             /\ betHistory[i].amount \in Nat /\ betHistory[i].player \in Seats
  <2> DEFINE e == betHistory[i]
  <2>1. e \in HistoryEntry
    BY <1>3
  <2>2. e.amount \in Nat /\ e.player \in Seats
    BY <2>1 DEF HistoryEntry
  <2> HIDE DEF e, HistoryEntry, Streets
  <2>3. /\ Token(e)[1] = e.amount /\ Token(e)[3] = Bit(e.player = player)
        /\ Token(e)[5 + r] = Bit(e.round = r)
    BY <2>1, TokenFacts, Zenon
  <2>4. tokens[i] = Token(e)
    BY <1>4 DEF e
  <2>5. tokens[i][3] \in {0, 1} /\ (tokens[i][3] = 1 <=> e.player = player)
    BY <2>3, <2>4, BitIs, Zenon
  <2>6. tokens[i][5 + r] = 1 <=> e.round = r
    BY <2>3, <2>4, BitIs, Zenon
  <2>7. tokens[i][1] = e.amount
    BY <2>3, <2>4
  <2>8. QED
    BY <2>2, <2>5, <2>6, <2>7, Zenon DEF e
<1>7. \A i \in S : d[i] = betHistory[i].amount /\ d[i] \in Int
  BY <1>6
<1>8. ASSUME NEW mine, NEW p,
             \A i \in S : tokens[i][3] = mine <=> betHistory[i].player = p
      PROVE  PaidInTokens(tokens, mine, r) = ChipsOf(p, r)
  <2> DEFINE T == {i \in S : tokens[i][3] = mine /\ tokens[i][5 + r] = 1}
             e == on(p)
  <2>1. \A i \in S : i \in T <=> betHistory[i].player = p /\ betHistory[i].round = r
    BY <1>6, <1>8, Zenon
  <2>2. \A i \in S : e[i] = IF i \in T THEN d[i] ELSE 0
    <3> SUFFICES ASSUME NEW i \in S PROVE e[i] = IF i \in T THEN d[i] ELSE 0
      OBVIOUS
    <3>1. e[i] = IF betHistory[i].player = p /\ betHistory[i].round = r
                 THEN betHistory[i].amount ELSE 0
      OBVIOUS
    <3>2. d[i] = betHistory[i].amount
      BY <1>7
    <3>3. i \in T <=> betHistory[i].player = p /\ betHistory[i].round = r
      BY <2>1
    <3> HIDE DEF e, T, d
    <3>4. QED
      BY <3>1, <3>2, <3>3
  <2>3. T \in SUBSET S
    OBVIOUS
  <2>4. ChipsOf(p, r) = SumFunctionOnSet(e, S)
    BY DEF ChipsOf, SumFunction, S
  <2>5. PaidInTokens(tokens, mine, r) = SumFunctionOnSet(d, T)
    BY <1>4 DEF PaidInTokens
  <2> HIDE DEF e, T, d, on
  <2>6. SumFunctionOnSet(e, S) = SumFunctionOnSet(d, T)
    BY <1>5, <1>7, <2>2, <2>3, SumOfPart
  <2>7. QED
    BY <2>4, <2>5, <2>6
<1>9. \A i \in S : /\ tokens[i][3] = 1 <=> betHistory[i].player = player
                   /\ tokens[i][3] = 0 <=> betHistory[i].player = Other(player)
  <2>1. player \in Seats
    BY DEF EnvInv, IInv, TypeOK
  <2>2. QED
    BY <1>6, <2>1 DEF Seats, Other
<1>10. QED
  BY <1>8, <1>9 DEF tokens

(* What the network reads of the table and of the streets is what they are.*)
LEMMA InputTells ==
    ASSUME EnvInv, HistoryInv, TotalsAreTold, phase = "action",
           NEW c \in Configs, c.summary
    PROVE  LET input == TrunkInput(c, Build(c))
               basic(i) == input[StaticOffset + i]
               summary(r, i) ==
                   input[StaticOffset + FeatStatic + FeatPerRound * r + i]
           IN  /\ basic(1) = stacks[player] /\ basic(2) = stacks[Other(player)]
               /\ basic(3) = pot /\ basic(5) = raiseNum /\ basic(10) = player
               /\ \A r \in Streets : \A i \in 1 .. 4 : summary(r, i) = SummaryOfRound(r)[i]
               /\ {i \in 0 .. CardSlots - 1 : input[i + 1] = 1} = Hole[player]
<1> DEFINE obs == Build(c)
           input == TrunkInput(c, Build(c))
           st == StaticOffset
<1>1. /\ \A i \in 0 .. CardSlots - 1 : obs[i] = 1 <=> i \in Hole[player]
      /\ \A i \in DOMAIN BasicFeatures : obs[i] = BasicFeatures[i]
      /\ \A i \in DOMAIN RoundSummary : obs[i] = RoundSummary[i]
  BY RowReads
<1>2. \A x \in 1 .. st + 46 : input[x] = obs[x - 1]
  BY InputReads
<1>3. /\ CardSlots \in Nat /\ st = 2 * CardSlots /\ st \in Nat /\ SummaryOffset = st + 30
      /\ FeatStatic = 30 /\ FeatPerRound = 4
  BY Offsets DEF FeatStatic, FeatBasic, FeatHandStrength, FeatPerRound
<1> HIDE DEF obs, input, st
<1>4. /\ DOMAIN BasicFeatures = st .. st + 9
      /\ BasicFeatures[st] = stacks[player] /\ BasicFeatures[st + 1] = stacks[Other(player)]
      /\ BasicFeatures[st + 2] = pot /\ BasicFeatures[st + 4] = raiseNum
      /\ BasicFeatures[st + 9] = player
  BY BasicRow DEF st
<1>5. \A k \in 0 .. 9 : input[st + (k + 1)] = BasicFeatures[st + k]
  <2> SUFFICES ASSUME NEW k \in 0 .. 9 PROVE input[st + (k + 1)] = BasicFeatures[st + k]
    OBVIOUS
  <2> DEFINE x == st + (k + 1)
  <2>1. x \in 1 .. st + 46 /\ x - 1 = st + k /\ st + k \in st .. st + 9
    BY <1>3
  <2> HIDE DEF x
  <2>2. input[x] = obs[st + k]
    BY <1>2, <2>1
  <2>3. QED
    BY <1>1, <1>4, <2>1, <2>2 DEF x
<1>6. /\ input[st + 1] = stacks[player] /\ input[st + 2] = stacks[Other(player)]
      /\ input[st + 3] = pot /\ input[st + 5] = raiseNum /\ input[st + 10] = player
  <2>1. input[st + (0 + 1)] = BasicFeatures[st + 0]
    BY <1>5
  <2>2. input[st + (1 + 1)] = BasicFeatures[st + 1]
    BY <1>5
  <2>3. input[st + (2 + 1)] = BasicFeatures[st + 2]
    BY <1>5
  <2>4. input[st + (4 + 1)] = BasicFeatures[st + 4]
    BY <1>5
  <2>5. input[st + (9 + 1)] = BasicFeatures[st + 9]
    BY <1>5
  <2>6. st + 0 = st
    BY <1>3
  <2>7. QED
    BY <1>4, <2>1, <2>2, <2>3, <2>4, <2>5, <2>6
<1>7. ASSUME NEW r \in Streets, NEW i \in 1 .. 4
      PROVE  input[st + FeatStatic + FeatPerRound * r + i] = SummaryOfRound(r)[i]
  <2> DEFINE x == st + FeatStatic + FeatPerRound * r + i
             y == SummaryOffset + 4 * r + i - 1
  <2>1. x \in 1 .. st + 46 /\ x - 1 = y /\ y \in SummaryOffset .. SummaryOffset + 15
    BY <1>3 DEF Streets, River
  <2>2. DOMAIN RoundSummary = SummaryOffset .. SummaryOffset + 15
        /\ RoundSummary[y] = SummaryOfRound(r)[i]
    BY SummaryRow
  <2> HIDE DEF x, y
  <2>3. input[x] = obs[y]
    BY <1>2, <2>1
  <2>4. obs[y] = RoundSummary[y]
    BY <1>1, <2>1, <2>2
  <2>5. QED
    BY <2>2, <2>3, <2>4 DEF x
<1>8. {i \in 0 .. CardSlots - 1 : input[i + 1] = 1} = Hole[player]
  <2>1. ASSUME NEW i \in 0 .. CardSlots - 1 PROVE input[i + 1] = 1 <=> i \in Hole[player]
    <3> DEFINE x == i + 1
    <3>1. x \in 1 .. st + 46 /\ x - 1 = i
      BY <1>3
    <3> HIDE DEF x
    <3>2. input[x] = obs[i]
      BY <1>2, <3>1
    <3>3. QED
      BY <1>1, <3>2 DEF x
  <2>2. Hole[player] \subseteq 0 .. CardSlots - 1
    BY CardsAssumption DEF EnvInv, IInv, TypeOK
  <2>3. QED
    BY <2>1, <2>2
<1>9. QED
  BY <1>6, <1>7, <1>8 DEF input, st

(* One hand in an input and its tokens, under the builder's settings.      *)
OneHandIn(d, input, tokens) ==
    LET basic(i) == input[StaticOffset + i]
        summary(r, i) == input[StaticOffset + FeatStatic + FeatPerRound * r + i]
        total(i) == summary(0, i) + summary(1, i) + summary(2, i) + summary(3, i)
        paid(mine, r) == PaidInTokens(tokens, mine, r)
    IN  /\ Len(input) = TotalDim(d) - HistoryBlockDim(d)
        /\ {i \in 0 .. CardSlots - 1 : input[i + 1] = 1} = Hole[basic(10)]
        /\ basic(1) = InitialStack - Blind(basic(10)) - total(1)
        /\ basic(2) = InitialStack - Blind(Other(basic(10))) - total(2)
        /\ basic(3) = 2 * InitialStack - basic(1) - basic(2)
        /\ basic(5) = total(3)
        /\ summary(round, 4) = 1 <=> bet.lastRaiser = basic(10)
        /\ (d.history /\ Len(betHistory) <= d.length) =>
              \A r \in Streets : /\ paid(1, r) = summary(r, 1)
                                 /\ paid(0, r) = summary(r, 2)

(* Whichever seat acts, on every street, for any stacks, blinds, menus,    *)
(* history lengths and any network that takes the rows: the static         *)
(* features, the round summary and the tokens account for the same chips   *)
(* and the same raises.                                                    *)
THEOREM InputIsOfOneHand == EnvSpec => []InputTellsOneHand
<1>1. EnvInv /\ HistoryInv /\ TotalsAreTold /\ phase = "action" =>
          \A c \in Configs : c.summary =>
              OneHandIn(c, TrunkInput(c, Build(c)), Attended(c, Build(c)))
  <2> SUFFICES ASSUME EnvInv, HistoryInv, TotalsAreTold, phase = "action",
                      NEW c \in Configs, c.summary
               PROVE  OneHandIn(c, TrunkInput(c, Build(c)), Attended(c, Build(c)))
    OBVIOUS
  <2> DEFINE input == TrunkInput(c, Build(c))
             basic(i) == input[StaticOffset + i]
             summary(r, i) == input[StaticOffset + FeatStatic + FeatPerRound * r + i]
             tokens == Attended(c, Build(c))
             me == player
             you == Other(player)
  <2>1. /\ basic(1) = stacks[me] /\ basic(2) = stacks[you]
        /\ basic(3) = pot /\ basic(5) = raiseNum /\ basic(10) = me
        /\ \A r \in Streets : \A i \in 1 .. 4 : summary(r, i) = SummaryOfRound(r)[i]
        /\ {i \in 0 .. CardSlots - 1 : input[i + 1] = 1} = Hole[me]
    BY InputTells
  <2>2. Len(input) = TotalDim(c) - HistoryBlockDim(c)
    BY InputReads
  <2>3. (c.history /\ Len(betHistory) <= c.length) =>
            \A r \in Streets : /\ PaidInTokens(tokens, 1, r) = ChipsOf(me, r)
                               /\ PaidInTokens(tokens, 0, r) = ChipsOf(you, r)
    BY TokensTellTheChips
  <2> HIDE DEF input, tokens, basic, summary
  <2>4. ASSUME NEW r \in Streets
        PROVE  /\ summary(r, 1) = ChipsOf(me, r) /\ summary(r, 2) = ChipsOf(you, r)
               /\ summary(r, 3) = Cardinality(RaisesOf(r))
               /\ summary(r, 4) = Bit(LastAggressor(r) = me)
    <3>1. /\ summary(r, 1) = SummaryOfRound(r)[1] /\ summary(r, 2) = SummaryOfRound(r)[2]
          /\ summary(r, 3) = SummaryOfRound(r)[3] /\ summary(r, 4) = SummaryOfRound(r)[4]
      BY <2>1
    <3>2. /\ SummaryOfRound(r)[1] = ChipsOf(me, r) /\ SummaryOfRound(r)[2] = ChipsOf(you, r)
          /\ SummaryOfRound(r)[3] = Cardinality(RaisesOf(r))
          /\ SummaryOfRound(r)[4] = Bit(LastAggressor(r) = me)
      BY SummaryOfRoundFacts, Zenon
    <3>3. QED
      BY <3>1, <3>2, Zenon
  <2>5. 0 \in Streets /\ 1 \in Streets /\ 2 \in Streets /\ 3 \in Streets
    BY DEF Streets, River
  <2>6. me \in Seats /\ you \in Seats /\ round \in Streets
    BY DEF EnvInv, IInv, TypeOK, Seats, Other
  <2>7. /\ stacks[me] = InitialStack - Blind(me) - PaidBy(me)
        /\ stacks[you] = InitialStack - Blind(you) - PaidBy(you)
    BY <2>6 DEF HistoryInv, ChipsAreTold
  <2>8. /\ PaidBy(me) = summary(0, 1) + summary(1, 1) + summary(2, 1) + summary(3, 1)
        /\ PaidBy(you) = summary(0, 2) + summary(1, 2) + summary(2, 2) + summary(3, 2)
    <3>1. /\ PaidBy(me) = ChipsOf(me, 0) + ChipsOf(me, 1) + ChipsOf(me, 2) + ChipsOf(me, 3)
          /\ PaidBy(you) = ChipsOf(you, 0) + ChipsOf(you, 1) + ChipsOf(you, 2) + ChipsOf(you, 3)
      BY ChipsByStreet
    <3>2. QED
      BY <2>4, <2>5, <3>1, Zenon
  <2>9. raiseNum = summary(0, 3) + summary(1, 3) + summary(2, 3) + summary(3, 3)
    <3>1. raiseNum = Cardinality(RaisesTold)
      BY DEF TotalsAreTold
    <3>2. QED
      BY <2>4, <2>5, <3>1, RaisesByStreet, Zenon
  <2>10. pot = 2 * InitialStack - stacks[me] - stacks[you]
    <3>1. stacks[0] + stacks[1] + pot = 2 * InitialStack
      BY DEF TotalsAreTold, ChipsConserved
    <3>2. stacks[0] \in Nat /\ stacks[1] \in Nat /\ pot \in Nat /\ InitialStack \in Nat
      BY ConfigAssumption DEF EnvInv, IInv, TypeOK, Seats
    <3>3. (me = 0 /\ you = 1) \/ (me = 1 /\ you = 0)
      BY <2>6 DEF Seats, Other
    <3>4. QED
      BY <3>1, <3>2, <3>3
  <2>11. summary(round, 4) = 1 <=> bet.lastRaiser = me
    <3>1. LastAggressor(round) = bet.lastRaiser
      BY DEF HistoryInv, StreetsAreTold, HistoryTellsTheStreet
    <3>2. summary(round, 4) = Bit(LastAggressor(round) = me)
      BY <2>4, <2>6, Zenon
    <3>3. QED
      BY <3>1, <3>2, BitIs, Zenon
  <2>12. {i \in 0 .. CardSlots - 1 : input[i + 1] = 1} = Hole[basic(10)]
    BY <2>1
  <2>13. /\ basic(1) = InitialStack - Blind(basic(10))
                       - (summary(0, 1) + summary(1, 1) + summary(2, 1) + summary(3, 1))
         /\ basic(2) = InitialStack - Blind(Other(basic(10)))
                       - (summary(0, 2) + summary(1, 2) + summary(2, 2) + summary(3, 2))
         /\ basic(3) = 2 * InitialStack - basic(1) - basic(2)
         /\ basic(5) = summary(0, 3) + summary(1, 3) + summary(2, 3) + summary(3, 3)
    BY <2>1, <2>7, <2>8, <2>9, <2>10, Zenon
  <2>14. summary(round, 4) = 1 <=> bet.lastRaiser = basic(10)
    BY <2>1, <2>11, Zenon
  <2>15. (c.history /\ Len(betHistory) <= c.length) =>
             \A r \in Streets : /\ PaidInTokens(tokens, 1, r) = summary(r, 1)
                                /\ PaidInTokens(tokens, 0, r) = summary(r, 2)
    BY <2>3, <2>4, Zenon
  <2>16. QED
    BY <2>2, <2>12, <2>13, <2>14, <2>15, Zenon
    DEF OneHandIn, input, tokens, basic, summary
<1>2. EnvInv /\ HistoryInv /\ TotalsAreTold => InputTellsOneHand
  <2> SUFFICES ASSUME EnvInv, HistoryInv, TotalsAreTold, phase = "action",
                      NEW d \in Configs, d.summary, NEW c \in Readers(d)
               PROVE  OneHandIn(d, TrunkInput(c, Build(d)), Attended(c, Build(d)))
    BY Zenon DEF InputTellsOneHand, OneHandIn, PaidInTokens
  <2> DEFINE input == TrunkInput(d, Build(d))
             own == Attended(d, Build(d))
             tokens == Attended(c, Build(d))
  <2>1. OneHandIn(d, input, own)
    BY <1>1
  <2>2. TrunkInput(c, Build(d)) = input /\ (d.history => tokens = own)
    BY ReadAlike, Zenon
  <2> HIDE DEF input, own, tokens
  <2>3. OneHandIn(d, input, tokens)
    BY <2>1, <2>2, Zenon DEF OneHandIn
  <2>4. QED
    BY <2>2, <2>3, Zenon DEF tokens
<1>3. QED
  BY <1>2, EnvInvariance, HistoryInvariance, TotalsInvariance, PTL
=============================================================================
