---------------------------- MODULE Cards_proofs ----------------------------
(***************************************************************************)
(* Proofs about the cards of a hand: the table that ranks them at the      *)
(* showdown (RankTable, for any set of threads, any ranks and any number   *)
(* of showdowns), and what is shown of them before (Deal, for any deck).   *)
(***************************************************************************)
EXTENDS RankTable, Deal, SharedLemmas

LEMMA InitIInv == Init => IInv
<1> SUFFICES ASSUME Init PROVE IInv
  OBVIOUS
<1>1. cards \in [Threads -> [Players -> Ranks]]
  BY DEF Init
<1>2. TypeOK
  BY <1>1 DEF Init, TypeOK, NoValues
<1>3. QED
  BY <1>2 DEF Init, IInv, PCs, LoadsOnce, ClearedIsReread, LoadersDisturb,
              IdleHoldsNothing, WrongOnlyNextToALoader, Loading

(* The types are preserved; loads needs LoadsOnce.                         *)
LEMMA TypeStep ==
    ASSUME IInv, NEW t \in Threads, Step(t)
    PROVE  TypeOK' /\ pc' \in [Threads -> PCs]
<1> USE DEF IInv, TypeOK, Goto
<1>1. pc' \in [Threads -> PCs]
  <2>1. CASE BeginShowdown(t)
    BY <2>1 DEF BeginShowdown, PCs, Loading
  <2>2. CASE FirstCheck(t)
    BY <2>2 DEF FirstCheck, Check, PCs, Loading
  <2>3. CASE SecondCheck(t)
    BY <2>3 DEF SecondCheck, Check, PCs, Loading
  <2>4. CASE Clear(t)
    BY <2>4 DEF Clear, PCs, Loading
  <2>5. CASE Read(t)
    BY <2>5 DEF Read, PCs, Loading
  <2>6. CASE ReadFails(t)
    BY <2>6 DEF ReadFails, PCs, Loading
  <2>7. CASE Publish(t)
    BY <2>7 DEF Publish, PCs, Loading
  <2>8. CASE LookupFirst(t)
    BY <2>8 DEF LookupFirst, PCs, Loading
  <2>9. CASE LookupSecond(t)
    BY <2>9 DEF LookupSecond, PCs, Loading
  <2>10. CASE Compare(t)
    BY <2>10 DEF Compare, PCs, Loading
  <2>11. QED
    BY <2>1, <2>2, <2>3, <2>4, <2>5, <2>6, <2>7, <2>8, <2>9, <2>10 DEF Step
<1>2. CASE BeginShowdown(t)
  BY <1>1, <1>2 DEF BeginShowdown, loadVars
<1>3. CASE FirstCheck(t)
  BY <1>1, <1>3 DEF FirstCheck, Check, loadVars
<1>4. CASE SecondCheck(t)
  BY <1>1, <1>4 DEF SecondCheck, Check, loadVars
<1>5. CASE Clear(t)
  <2>1. loads[t] = 0
    BY <1>5 DEF Clear, LoadsOnce
  <2>2. QED
    BY <1>1, <1>5, <2>1 DEF Clear
<1>6. CASE Read(t)
  BY <1>1, <1>6 DEF Read, ReadAll
<1>7. CASE ReadFails(t)
  BY <1>1, <1>7 DEF ReadFails
<1>8. CASE Publish(t)
  BY <1>1, <1>8 DEF Publish, SetFlag
<1>9. CASE LookupFirst(t)
  <2>1. RankOf(t, 0) \in Ranks \cup {0}
    BY DEF RankOf, Players
  <2>2. QED
    BY <1>1, <1>9, <2>1 DEF LookupFirst, Stored, loadVars, Players
<1>10. CASE LookupSecond(t)
  <2>1. RankOf(t, 1) \in Ranks \cup {0}
    BY DEF RankOf, Players
  <2>2. QED
    BY <1>1, <1>10, <2>1 DEF LookupSecond, Stored, loadVars, Players
<1>11. CASE Compare(t)
  <2>1. WinnerOf(values[t]) \in {0, 1, 3}
    BY DEF WinnerOf
  <2>2. QED
    BY <1>1, <1>11, <2>1 DEF Compare, NoValues, loadVars
<1>12. QED
  BY <1>2, <1>3, <1>4, <1>5, <1>6, <1>7, <1>8, <1>9, <1>10, <1>11 DEF Step

(* A thread that comes out of loading has published.                       *)
LEMMA LoadsOnceStep ==
    ASSUME IInv, NEW t \in Threads, Step(t)
    PROVE  LoadsOnce'
<1> SUFFICES ASSUME running', NEW u \in Threads
             PROVE  /\ pc'[u] = "clear" => loads'[u] = 0
                    /\ (loads'[u] = 1 /\ pc'[u] \notin Loading) => initialized'
  BY DEF LoadsOnce
<1> USE DEF IInv, TypeOK, Goto, Loading
<1>0. /\ running
      /\ pc[u] = "clear" => loads[u] = 0
      /\ (loads[u] = 1 /\ pc[u] \notin Loading) => initialized
  BY DEF Step, BeginShowdown, FirstCheck, SecondCheck, Check, Clear, Read,
         ReadFails, Publish, LookupFirst, LookupSecond, Compare, LoadsOnce
<1>1. CASE SecondCheck(t)
  BY <1>0, <1>1 DEF SecondCheck, Check, loadVars
<1>2. CASE Clear(t)
  BY <1>0, <1>2 DEF Clear
<1>3. CASE Read(t) \/ Publish(t)
  BY <1>0, <1>3 DEF Read, Publish, SetFlag
<1>4. CASE ReadFails(t)
  BY <1>4 DEF ReadFails
<1>5. CASE BeginShowdown(t) \/ FirstCheck(t)
  BY <1>0, <1>5 DEF BeginShowdown, FirstCheck, Check, loadVars
<1>6. CASE LookupFirst(t) \/ LookupSecond(t) \/ Compare(t)
  BY <1>0, <1>6 DEF LookupFirst, LookupSecond, Compare, loadVars
<1>7. QED
  BY <1>1, <1>2, <1>3, <1>4, <1>5, <1>6 DEF Step

(* The table is cleared only by a thread that goes on to read it.          *)
LEMMA ClearedIsRereadStep ==
    ASSUME IInv, NEW t \in Threads, Step(t)
    PROVE  ClearedIsReread'
<1> SUFFICES ASSUME running', table' = "zero",
                    initialized' \/ \E u \in Threads : pc'[u] = "publish"
             PROVE  \E u \in Threads : pc'[u] = "read"
  BY DEF ClearedIsReread
<1> USE DEF IInv, TypeOK, Goto
<1>1. CASE Clear(t)
  BY <1>1 DEF Clear
<1>2. CASE Read(t) \/ ReadFails(t)
  BY <1>2 DEF Read, ReadAll, ReadFails
<1> DEFINE Leaves == /\ table' = table /\ pc[t] # "read"
                     /\ pc'[t] \notin {"read", "publish"}
                     /\ \A u \in Threads \ {t} : pc'[u] = pc[u]
           Stays == running' = running /\ initialized' = initialized
<1>3. ASSUME Leaves, running,
             initialized \/ \E u \in Threads : pc[u] = "publish"
      PROVE  \E u \in Threads : pc'[u] = "read"
  BY <1>3 DEF ClearedIsReread
<1>4. ASSUME Leaves, Stays
      PROVE  \E u \in Threads : pc'[u] = "read"
  BY <1>3, <1>4
<1>5. CASE Publish(t)
  <2>1. Leaves /\ running /\ pc[t] = "publish"
    BY <1>5 DEF Publish
  <2>2. QED
    BY <1>3, <2>1
<1>6. CASE BeginShowdown(t)
  BY <1>4, <1>6 DEF BeginShowdown, loadVars
<1>7. CASE FirstCheck(t) \/ SecondCheck(t)
  BY <1>4, <1>7 DEF FirstCheck, SecondCheck, Check, loadVars
<1>8. CASE LookupFirst(t) \/ LookupSecond(t) \/ Compare(t)
  BY <1>4, <1>8 DEF LookupFirst, LookupSecond, Compare, loadVars
<1>9. QED
  BY <1>1, <1>2, <1>5, <1>6, <1>7, <1>8 DEF Step

(* The ranks a thread reads undisturbed are those of its own hands.        *)
LEMMA UndisturbedLookup ==
    ASSUME IInv, NEW t \in Threads, running, pc[t] = "lookup", ~overlapped[t]
    PROVE  table = "loaded"
<1>1. Undisturbed(t)
  BY DEF IInv, LoadersDisturb
<1>2. initialized /\ \A u \in Threads : pc[u] # "read"
  BY <1>1 DEF Undisturbed, Loading
<1>3. QED
  BY <1>2 DEF IInv, ClearedIsReread, TypeOK

LEMMA IdleStep ==
    ASSUME IInv, NEW t \in Threads, Step(t)
    PROVE  IdleHoldsNothing'
<1> SUFFICES ASSUME running', NEW u \in Threads, pc'[u] = "idle"
             PROVE  values'[u] = NoValues
  BY DEF IdleHoldsNothing
<1> USE DEF IInv, TypeOK, Goto
<1>1. CASE Compare(t)
  BY <1>1 DEF Compare, IdleHoldsNothing
<1>2. CASE ReadFails(t)
  BY <1>2 DEF ReadFails
<1>3. CASE LookupFirst(t) \/ LookupSecond(t)
  BY <1>3 DEF LookupFirst, LookupSecond, Stored, IdleHoldsNothing
<1>4. CASE BeginShowdown(t) \/ FirstCheck(t) \/ SecondCheck(t)
  BY <1>4 DEF BeginShowdown, FirstCheck, SecondCheck, Check, IdleHoldsNothing
<1>5. CASE Clear(t) \/ Read(t) \/ Publish(t)
  BY <1>5 DEF Clear, Read, Publish, IdleHoldsNothing
<1>6. QED
  BY <1>1, <1>2, <1>3, <1>4, <1>5 DEF Step

(* What a thread has looked up undisturbed stays its own.                  *)
LEMMA LoadersDisturbStep ==
    ASSUME IInv, NEW t \in Threads, Step(t)
    PROVE  LoadersDisturb'
<1> SUFFICES ASSUME running', NEW u \in Threads,
                    pc'[u] # "idle", ~overlapped'[u]
             PROVE  Undisturbed(u)'
  BY DEF LoadersDisturb
<1> USE DEF IInv, TypeOK, Goto
(* An action that neither disturbs u nor is one of its own.                *)
<1>0. ASSUME running, pc[u] # "idle", ~overlapped[u], pc'[u] = pc[u],
             values'[u] = values[u], cards'[u] = cards[u],
             initialized => initialized',
             \A v \in Threads \ {u} : pc'[v] \in Loading => pc[v] \in Loading
      PROVE  Undisturbed(u)'
  BY <1>0 DEF LoadersDisturb, Undisturbed
<1>1. CASE BeginShowdown(t)
  <2>1. CASE u = t
    <3>1. \A v \in Threads \ {u} : pc'[v] \notin Loading
      BY <1>1, <2>1 DEF BeginShowdown, Loading
    <3>2. values'[u] = NoValues /\ pc'[u] = "first check"
      BY <1>1, <2>1 DEF BeginShowdown, IdleHoldsNothing
    <3>3. QED
      BY <3>1, <3>2 DEF Undisturbed, NoValues
  <2>2. CASE u # t
    BY <1>0, <1>1, <2>2 DEF BeginShowdown, loadVars, Loading
  <2>3. QED
    BY <2>1, <2>2
<1>2. CASE FirstCheck(t)
  <2>1. running /\ pc[u] # "idle" /\ ~overlapped[u] /\ Undisturbed(u)
    BY <1>2 DEF FirstCheck, Check, loadVars, LoadersDisturb
  <2>2. QED
    BY <1>2, <2>1 DEF FirstCheck, Check, loadVars, Undisturbed, Loading
<1>3. CASE SecondCheck(t)
  <2>1. running /\ pc[u] # "idle" /\ ~overlapped[u] /\ Undisturbed(u)
    BY <1>3 DEF SecondCheck, Check, loadVars, LoadersDisturb
  <2>2. CASE initialized
    BY <1>3, <2>1, <2>2 DEF SecondCheck, Check, loadVars, Undisturbed, Loading
  <2>3. CASE ~initialized
    <3>1. u = t
      BY <1>3, <2>3 DEF SecondCheck
    <3>2. QED
      BY <1>3, <2>1, <2>3, <3>1
         DEF SecondCheck, Check, loadVars, Undisturbed, Loading
  <2>4. QED
    BY <2>2, <2>3
<1>4. CASE Clear(t) \/ Read(t) \/ Publish(t)
  <2>1. running /\ pc[u] # "idle" /\ ~overlapped[u]
    BY <1>4 DEF Clear, Read, Publish
  <2>2. Undisturbed(u)
    BY <2>1 DEF LoadersDisturb
  <2>3. CASE u = t
    BY <1>4, <2>2, <2>3
       DEF Clear, Read, Publish, SetFlag, Undisturbed, Loading
  <2>4. CASE u # t
    BY <1>0, <1>4, <2>1, <2>4 DEF Clear, Read, Publish, SetFlag, Loading
  <2>5. QED
    BY <2>3, <2>4
<1>5. CASE ReadFails(t)
  BY <1>5 DEF ReadFails
<1>6. CASE LookupFirst(t) \/ LookupSecond(t)
  <2>1. running /\ pc[u] # "idle" /\ ~overlapped[u]
    BY <1>6 DEF LookupFirst, LookupSecond
  <2>2. Undisturbed(u)
    BY <2>1 DEF LoadersDisturb
  <2>3. CASE u # t
    BY <1>0, <1>6, <2>1, <2>3
       DEF LookupFirst, LookupSecond, Stored, loadVars, Loading
  <2>4. CASE u = t
    <3>1. table = "loaded"
      BY <1>6, <2>1, <2>4, UndisturbedLookup DEF LookupFirst, LookupSecond
    <3>2. \A p \in Players : RankOf(t, p) = cards[t][p] /\ RankOf(t, p) # Unknown
      BY <3>1, RanksAssumption DEF RankOf, Unknown
    <3>3. /\ cards' = cards /\ \A v \in Threads \ {u} : pc'[v] = pc[v]
          /\ pc'[u] \in {"first check", "compare"}
      BY <1>6, <2>4 DEF LookupFirst, LookupSecond
    <3>4. CASE LookupFirst(t)
      BY <2>2, <2>4, <3>2, <3>3, <3>4
         DEF LookupFirst, Stored, Undisturbed, Players
    <3>5. CASE LookupSecond(t)
      BY <2>2, <2>4, <3>2, <3>3, <3>5
         DEF LookupSecond, Stored, Undisturbed, Players
    <3>6. QED
      BY <1>6, <3>4, <3>5
  <2>5. QED
    BY <2>3, <2>4
<1>7. CASE Compare(t)
  <2>1. u # t /\ running /\ pc[u] # "idle" /\ ~overlapped[u]
    BY <1>7 DEF Compare
  <2>2. QED
    BY <1>0, <1>7, <2>1 DEF Compare, loadVars, Loading
<1>8. QED
  BY <1>1, <1>2, <1>3, <1>4, <1>5, <1>6, <1>7 DEF Step

(* The comparison of an undisturbed thread is that of its two hands.       *)
LEMMA WinnerStep ==
    ASSUME IInv, NEW t \in Threads, Step(t)
    PROVE  WrongOnlyNextToALoader'
<1> SUFFICES ASSUME NEW u \in Threads, winner'[u] # Nobody, ~overlapped'[u]
             PROVE  RightWinner(u)'
  BY DEF WrongOnlyNextToALoader
<1> USE DEF IInv, TypeOK, Goto
<1>1. CASE Compare(t)
  <2>1. CASE u = t
    <3>1. Undisturbed(t)
      BY <1>1, <2>1 DEF Compare, LoadersDisturb
    <3>2. values[t][0] = cards[t][0] /\ values[t][1] = cards[t][1]
      BY <1>1, <3>1 DEF Compare, Undisturbed, Players
    <3>3. QED
      BY <1>1, <2>1, <3>2 DEF Compare, WinnerOf, RightWinner
  <2>2. CASE u # t
    BY <1>1, <2>2 DEF Compare, WrongOnlyNextToALoader, RightWinner
  <2>3. QED
    BY <2>1, <2>2
<1>2. CASE BeginShowdown(t)
  <2>1. u # t
    BY <1>2 DEF BeginShowdown
  <2>2. QED
    BY <1>2, <2>1 DEF BeginShowdown, WrongOnlyNextToALoader, RightWinner
<1>3. CASE FirstCheck(t) \/ SecondCheck(t)
  <2>1. winner' = winner /\ cards' = cards
    BY <1>3 DEF FirstCheck, SecondCheck, Check
  <2>2. ~overlapped[u]
    BY <1>3 DEF FirstCheck, SecondCheck, Check
  <2>3. QED
    BY <2>1, <2>2 DEF WrongOnlyNextToALoader, RightWinner
<1>4. CASE Clear(t) \/ Read(t) \/ ReadFails(t) \/ Publish(t)
  BY <1>4 DEF Clear, Read, ReadFails, Publish, WrongOnlyNextToALoader, RightWinner
<1>5. CASE LookupFirst(t) \/ LookupSecond(t)
  BY <1>5 DEF LookupFirst, LookupSecond, WrongOnlyNextToALoader, RightWinner
<1>6. QED
  BY <1>1, <1>2, <1>3, <1>4, <1>5 DEF Step

LEMMA StutterKeepsIInv == ASSUME IInv, UNCHANGED vars PROVE IInv'
  BY DEF IInv, TypeOK, LoadsOnce, ClearedIsReread, LoadersDisturb,
         Undisturbed, IdleHoldsNothing, WrongOnlyNextToALoader, RightWinner,
         vars, loadVars

(* The invariant of any number of threads.                                 *)
THEOREM Invariance == Spec => []IInv
<1>1. IInv /\ [Next]_vars => IInv'
  <2> SUFFICES ASSUME IInv, [Next]_vars PROVE IInv'
    OBVIOUS
  <2>1. ASSUME NEW t \in Threads, Step(t) PROVE IInv'
    BY <2>1, TypeStep, LoadsOnceStep, ClearedIsRereadStep, LoadersDisturbStep,
       IdleStep, WinnerStep DEF IInv
  <2>2. QED
    BY <2>1, StutterKeepsIInv DEF Next, Finished
<1>2. QED
  BY <1>1, InitIInv, PTL DEF Spec

(* Types, and no thread loads the table twice.                             *)
THEOREM TypeCorrect == Spec => []TypeOK
<1>1. IInv => TypeOK
  BY DEF IInv
<1>2. QED
  BY <1>1, Invariance, PTL

(* However many threads clear and fill the table at once, it is whole when *)
(* the last of them has left it: a table in use and cleared has a reader.  *)
THEOREM TableSettles == Spec => []SettlesLoaded
<1>1. IInv => SettlesLoaded
  BY DEF IInv, TypeOK, ClearedIsReread, SettlesLoaded, Loading
<1>2. QED
  BY <1>1, Invariance, PTL

(* A wrong winner needs a loader beside the showdown, for any number of    *)
(* threads.                                                                *)
THEOREM WrongNeedsALoader == Spec => []WrongOnlyNextToALoader
<1>1. IInv => WrongOnlyNextToALoader
  BY DEF IInv
<1>2. QED
  BY <1>1, Invariance, PTL
-----------------------------------------------------------------------------
(***************************************************************************)
(* Deal.  How hands are numbered (hand_index) does not matter here, only   *)
(* which cards are: the proofs do not look into it.  What the features are *)
(* made of (HandStrength) matters only in the section that follows.        *)
(***************************************************************************)
(* What was shown is the beginning of what was numbered when the hand was  *)
(* dealt.                                                                  *)
Played == IF shown THEN round + 1 ELSE round

DealInv ==
    /\ hands \in 1 .. Len(Shuffles)
    /\ round \in Streets /\ shown \in BOOLEAN
    /\ rawCards \in [1 .. 9 -> Cards] /\ IsInjective(rawCards)
    /\ handHashes = [p \in Seats |-> Hashes(rawCards, p)]
    /\ cardHashes = [p \in Seats |-> [r \in 1 .. Played |-> handHashes[p][r - 1]]]

(* A hand is dealt nine different cards.                                   *)
LEMMA Shuffled ==
    ASSUME NEW n \in 1 .. Len(Shuffles), NEW deck \in Shuffles[n]
    PROVE  SubSeq(deck, 1, 9) \in [1 .. 9 -> Cards] /\ IsInjective(SubSeq(deck, 1, 9))
<1>1. deck \in Seq(Cards) /\ Len(deck) >= 9 /\ IsInjective(deck)
  BY DealAssumption
<1>2. \A i \in 1 .. 9 : i \in 1 .. Len(deck) /\ deck[i] \in Cards
  BY <1>1
<1>3. SubSeq(deck, 1, 9) = [i \in 1 .. 9 |-> deck[i]]
  BY <1>1
<1>4. ASSUME NEW i \in 1 .. 9, NEW j \in 1 .. 9, deck[i] = deck[j] PROVE i = j
  <2>1. i \in DOMAIN deck /\ j \in DOMAIN deck
    <3>1. DOMAIN deck = 1 .. Len(deck)
      BY <1>1
    <3>2. i \in 1 .. Len(deck) /\ j \in 1 .. Len(deck)
      BY <1>2
    <3>3. QED
      BY <3>1, <3>2
  <2>2. QED
    BY <1>1, <1>4, <2>1, Zenon DEF IsInjective
<1>5. SubSeq(deck, 1, 9) \in [1 .. 9 -> Cards]
  BY <1>2, <1>3
<1> DEFINE s == [i \in 1 .. 9 |-> deck[i]]
<1>6. IsInjective(s)
  BY <1>4 DEF IsInjective
<1>7. QED
  BY <1>3, <1>5, <1>6, Zenon

(* Before the first street nothing is shown.                               *)
LEMMA NothingYet ==
    \A f : NothingShown = [p \in Seats |-> [r \in 1 .. 0 |-> f[p][r - 1]]]
<1> SUFFICES ASSUME NEW f
             PROVE  NothingShown = [p \in Seats |-> [r \in 1 .. 0 |-> f[p][r - 1]]]
  OBVIOUS
<1>1. \A p \in Seats : [r \in 1 .. 0 |-> f[p][r - 1]] = <<>>
  OBVIOUS
<1>2. QED
  BY <1>1 DEF NothingShown

(* The invariant, and each action keeps it.                                *)
LEMMA InitDeal == DealInit => DealInv
<1> SUFFICES ASSUME DealInit PROVE DealInv
  OBVIOUS
<1>1. 1 \in 1 .. Len(Shuffles)
  BY DealAssumption
<1>2. rawCards \in [1 .. 9 -> Cards] /\ IsInjective(rawCards)
  BY <1>1, Shuffled DEF DealInit
<1>3. Played = 0
  BY DEF DealInit, Played
<1>4. cardHashes = [p \in Seats |-> [r \in 1 .. Played |-> handHashes[p][r - 1]]]
  BY <1>3, NothingYet DEF DealInit
<1>5. hands \in 1 .. Len(Shuffles) /\ round \in Streets /\ shown \in BOOLEAN
  <2>1. hands = 1 /\ round = 0 /\ shown = FALSE
    BY Zenon DEF DealInit
  <2>2. 0 \in Streets
    BY DEF Streets
  <2>3. QED
    BY <1>1, <2>1, <2>2, Zenon
<1>6. handHashes = [p \in Seats |-> Hashes(rawCards, p)]
  BY DEF DealInit
<1>7. QED
  BY <1>2, <1>4, <1>5, <1>6, Zenon DEF DealInv

LEMMA DealStep == DealInv /\ [DealNext]_dealVars => DealInv'
<1> SUFFICES ASSUME DealInv, [DealNext]_dealVars PROVE DealInv'
  OBVIOUS
<1> USE DEF DealInv
<1>1. CASE DealChance
  <2>1. Played = round /\ Played' = round + 1 /\ round \in Nat
    BY <1>1 DEF DealChance, Played, Streets
  <2>2. ASSUME NEW p \in Seats
        PROVE  Append(cardHashes[p], handHashes[p][round])
                   = [r \in 1 .. Played' |-> handHashes[p][r - 1]]
    <3> DEFINE h == handHashes[p]
    <3>1. cardHashes[p] = [r \in 1 .. round |-> h[r - 1]]
      BY <2>1
    <3> HIDE DEF h
    <3>2. Append([r \in 1 .. round |-> h[r - 1]], h[round])
              = [r \in 1 .. round + 1 |-> h[r - 1]]
      <4> DEFINE Values == {h[r] : r \in Int}
                 s == [r \in 1 .. round |-> h[r - 1]]
                 t == [r \in 1 .. round + 1 |-> h[r - 1]]
      <4>1. \A r \in Int : h[r] \in Values
        OBVIOUS
      <4> HIDE DEF Values
      <4>2. s \in Seq(Values) /\ Len(s) = round
        BY <2>1, <4>1
      <4>3. Append(s, h[round]) \in Seq(Values) /\ Len(Append(s, h[round])) = round + 1
        BY <2>1, <4>1, <4>2
      <4>4. t \in Seq(Values) /\ Len(t) = round + 1
        BY <2>1, <4>1
      <4>5. ASSUME NEW r \in 1 .. round + 1 PROVE Append(s, h[round])[r] = t[r]
        BY <2>1, <4>2
      <4> HIDE DEF s, t
      <4>6. Append(s, h[round]) = t
        BY <4>3, <4>4, <4>5
      <4>7. QED
        BY <4>6 DEF s, t
    <3>3. QED
      BY <2>1, <3>1, <3>2 DEF h
  <2>3. cardHashes' = [p \in Seats |-> [r \in 1 .. Played' |-> handHashes[p][r - 1]]]
    BY <1>1, <2>2 DEF DealChance
  <2>4. /\ hands' = hands /\ round' = round /\ rawCards' = rawCards /\ shown' = TRUE
        /\ handHashes' = handHashes /\ flopIndexer' = flopIndexer
    BY <1>1 DEF DealChance
  <2>5. handHashes' = [p \in Seats |-> Hashes(rawCards, p)']
    BY <2>4 DEF Hashes
  <2>6. QED
    BY <2>3, <2>4, <2>5, Zenon
<1>2. CASE AdvanceRound
  <2>1. Played' = Played
    BY <1>2 DEF AdvanceRound, Played, Streets
  <2>2. /\ hands' = hands /\ rawCards' = rawCards /\ shown' = FALSE
        /\ handHashes' = handHashes /\ flopIndexer' = flopIndexer
        /\ cardHashes' = cardHashes /\ round' = round + 1 /\ round < 3
    BY <1>2 DEF AdvanceRound
  <2>3. round' \in Streets
    BY <2>2 DEF Streets
  <2>4. handHashes' = [p \in Seats |-> Hashes(rawCards, p)']
    BY <2>2 DEF Hashes
  <2>5. QED
    BY <2>1, <2>2, <2>3, <2>4, Zenon
<1>3. CASE Reset
  <2>1. hands + 1 \in 1 .. Len(Shuffles)
    BY <1>3, DealAssumption DEF Reset
  <2>2. /\ rawCards' \in [1 .. 9 -> Cards] /\ IsInjective(rawCards')
        /\ handHashes' = [p \in Seats |-> Hashes(rawCards', p)]
    BY <1>3, <2>1, Shuffled DEF Reset, Initialize
  <2>3. \A p \in Seats : Hashes(rawCards', p) = Hashes(rawCards, p)'
    BY <1>3 DEF Reset, Hashes, DealOf, HoleCards, Board, NewCards
  <2>4. Played' = 0
    BY <1>3 DEF Reset, Played
  <2>5. cardHashes' = [p \in Seats |-> [r \in 1 .. Played' |-> handHashes'[p][r - 1]]]
    BY <1>3, <2>4, NothingYet DEF Reset, InfoSetsReset
  <2>6. QED
    <3>1. hands' = hands + 1 /\ round' = 0 /\ shown' = FALSE
      BY <1>3 DEF Reset
    <3>2. 0 \in Streets
      BY DEF Streets
    <3>3. handHashes' = [p \in Seats |-> Hashes(rawCards, p)']
      BY <2>2, <2>3, Zenon
    <3>4. QED
      BY <2>1, <2>2, <2>5, <3>1, <3>2, <3>3, Zenon
<1>4. CASE UNCHANGED dealVars
  <2>1. /\ hands' = hands /\ rawCards' = rawCards /\ shown' = shown
        /\ handHashes' = handHashes /\ flopIndexer' = flopIndexer
        /\ cardHashes' = cardHashes /\ round' = round
    BY <1>4 DEF dealVars
  <2>2. Played' = Played
    BY <2>1 DEF Played
  <2>3. handHashes' = [p \in Seats |-> Hashes(rawCards, p)']
    BY <2>1 DEF Hashes
  <2>4. QED
    BY <2>1, <2>2, <2>3, Zenon
<1>5. QED
  BY <1>1, <1>2, <1>3, <1>4 DEF DealNext, DealDone

(* A street shows what the ones before it showed.                          *)
LEMMA StreetsAreShown ==
    ASSUME NEW raw, NEW now \in Streets, NEW r \in Streets, r <= now
    PROVE  Board(raw, r) \subseteq Board(raw, now)
BY DEF Board, Streets

(* What a player sees does not tell the hidden cards apart.                *)
LEMMA HiddenStays ==
    ASSUME DealInv, NEW p \in Seats, NEW i \in HiddenFrom(p), NEW j \in HiddenFrom(p)
    PROVE  Observation(Exchanged(i, j), p, round) = Observation(rawCards, p, round)
<1> DEFINE raw == Exchanged(i, j)
<1>1. \A k \in 1 .. 9 : k # i /\ k # j => raw[k] = rawCards[k]
  BY DEF DealInv, Exchanged
<1>2. 2 * p + 1 \in 1 .. 9 /\ 2 * p + 2 \in 1 .. 9
  BY DEF Seats
<1>3. /\ 2 * p + 1 # i /\ 2 * p + 1 # j
      /\ 2 * p + 2 # i /\ 2 * p + 2 # j
  BY DEF HiddenFrom, HoleCards
<1>4. HoleCards(raw, p) = HoleCards(rawCards, p)
  BY <1>1, <1>2, <1>3, Zenon DEF HoleCards
<1>5. ASSUME NEW r \in Streets, r <= round PROVE Board(raw, r) = Board(rawCards, r)
  <2> DEFINE last == CASE r = 0 -> 4 [] r = 1 -> 7 [] r = 2 -> 8 [] OTHER -> 9
  <2>1. last \in {4, 7, 8, 9}
    BY DEF Streets
  <2>2. \A x : Board(x, r) = {x[k] : k \in 5 .. last}
    BY DEF Board
  <2> HIDE DEF last
  <2>3. ASSUME NEW k \in 5 .. last PROVE k \in 1 .. 9 /\ k # i /\ k # j
    <3>1. k \in 1 .. 9
      BY <2>1
    <3>2. rawCards[k] \in Board(rawCards, r)
      BY <2>2
    <3>3. rawCards[k] \in Board(rawCards, round)
      BY <1>5, <3>2, StreetsAreShown DEF DealInv
    <3>4. QED
      BY <3>1, <3>3 DEF HiddenFrom
  <2>4. \A k \in 5 .. last : raw[k] = rawCards[k]
    BY <1>1, <2>3
  <2> HIDE DEF raw
  <2>5. {raw[k] : k \in 5 .. last} = {rawCards[k] : k \in 5 .. last}
    BY <2>4
  <2>6. QED
    BY <2>2, <2>5, Zenon
<1> HIDE DEF raw
<1>6. FeatureRows(raw, p, round) = FeatureRows(rawCards, p, round)
  <2>1. \A r \in Streets : ~(r > round) => r <= round
    BY DEF Streets, DealInv
  <2>2. QED
    BY <1>4, <1>5, <2>1, Zenon DEF FeatureRows
<1>7. Board(raw, round) = Board(rawCards, round)
  <2>1. round \in Streets /\ round <= round
    BY DEF DealInv, Streets
  <2>2. QED
    BY <1>5, <2>1
<1>8. QED
  BY <1>4, <1>6, <1>7, Zenon DEF Observation, raw

(* The information set of a player is numbered by what it sees.            *)
LEMMA NumbersOfTheSeen ==
    ASSUME DealInv, shown, NEW p \in Seats
    PROVE  cardHashes[p] = [r \in 1 .. round + 1 |->
                               hand_index(flopIndexer, SubSeq(Visible(p), 1, r))]
<1> DEFINE deal == DealOf(rawCards, p)
<1>1. cardHashes[p] = [r \in 1 .. round + 1 |-> handHashes[p][r - 1]]
  BY DEF DealInv, Played
<1>2. handHashes[p] = Hashes(rawCards, p)
  BY DEF DealInv
<1>3. ASSUME NEW r \in 1 .. round + 1
      PROVE  handHashes[p][r - 1] = hand_index(flopIndexer, SubSeq(Visible(p), 1, r))
  <2>1. r - 1 \in Streets /\ r - 1 + 1 = r
    BY DEF DealInv, Streets
  <2>2. Hashes(rawCards, p)[r - 1] = hand_index(flopIndexer, SubSeq(deal, 1, r - 1 + 1))
    BY <2>1, Zenon DEF Hashes
  <2>3. SubSeq(Visible(p), 1, r) = SubSeq(deal, 1, r)
    <3>1. deal \in Seq({HoleCards(rawCards, p), Board(rawCards, 1),
                        NewCards(rawCards, 2), NewCards(rawCards, 3)}) /\ Len(deal) = 4
      BY DEF DealOf
    <3> HIDE DEF deal
    <3>2. round + 1 \in 1 .. 4
      BY DEF DealInv, Streets
    <3>3. SubSeq(SubSeq(deal, 1, round + 1), 1, r) = SubSeq(deal, 1, r)
      BY <3>1, <3>2
    <3>4. QED
      BY <3>3 DEF Visible, deal
  <2>4. QED
    BY <1>2, <2>1, <2>2, <2>3
<1>4. QED
  BY <1>1, <1>3, Zenon

(* Neither the information sets nor the observation of a player tell       *)
(* anything of the cards it has not been shown, for any deck, shuffles and *)
(* indexing of the hands.                                                  *)
THEOREM NothingLeaks == DealSpec => []NothingHiddenShows
<1>1. DealInv => NothingHiddenShows
  <2> SUFFICES ASSUME DealInv, shown, NEW p \in Seats
               PROVE  LET obs == Observation(rawCards, p, round)
                      IN  /\ cardHashes[p] = [r \in 1 .. round + 1 |->
                                 hand_index(flopIndexer, SubSeq(Visible(p), 1, r))]
                          /\ \A i, j \in HiddenFrom(p) :
                                i < j => Observation(Exchanged(i, j), p, round) = obs
    BY DEF NothingHiddenShows
  <2>1. QED
    BY NumbersOfTheSeen, HiddenStays, Zenon
<1>2. QED
  BY <1>1, InitDeal, DealStep, PTL DEF DealSpec
-----------------------------------------------------------------------------
(***************************************************************************)
(* HandStrength.  The code counts the cards of each rank and suit; that    *)
(* this finds the best five cards is shown in two steps: whatever five of  *)
(* its cards make, the hand makes that or better (FiveAreMade), and for    *)
(* whatever the hand makes at best there are five cards that make it       *)
(* (MadeByFive).                                                           *)
(***************************************************************************)
(* The cards of a rank.                                                    *)
OfRank(C, r) == {c \in C : rank_of(c) = r}

(* A card is a rank and a suit.                                            *)
LEMMA CardFacts ==
    /\ Cards \in SUBSET Nat /\ IsFiniteSet(Cards)
    /\ \A c \in Cards : rank_of(c) \in 0 .. RANKS - 1 /\ suit_of(c) \in 0 .. SUITS - 1
    /\ \A c, d \in Cards : (rank_of(c) = rank_of(d) /\ suit_of(c) = suit_of(d)) => c = d
<1>1. SUITS = 1 \/ SUITS = 2 \/ SUITS = 3 \/ SUITS = 4
  BY DeckAssumption
<1>2. RANKS * SUITS \in Nat
  BY DeckAssumption
<1>3. Cards \in SUBSET Nat /\ IsFiniteSet(Cards)
  <2>1. 0 \in Int /\ RANKS * SUITS - 1 \in Int
    BY <1>2
  <2>2. IsFiniteSet(Cards)
    BY <2>1, FS_Interval, Zenon DEF Cards
  <2>3. QED
    BY <2>2 DEF Cards
<1>4. ASSUME NEW c \in Cards
      PROVE  /\ rank_of(c) \in 0 .. RANKS - 1 /\ suit_of(c) \in 0 .. SUITS - 1
  <2>1. c \in Nat /\ c < RANKS * SUITS
    BY <1>2 DEF Cards
  <2>2. QED
    BY <1>1, <2>1, DeckAssumption DEF rank_of, suit_of, deck_get_rank, deck_get_suit
<1>5. ASSUME NEW c \in Cards, NEW d \in Cards, rank_of(c) = rank_of(d), suit_of(c) = suit_of(d)
      PROVE  c = d
  BY <1>1, <1>3, <1>5 DEF rank_of, suit_of, deck_get_rank, deck_get_suit
<1>6. QED
  BY <1>3, <1>4, <1>5

(* Members of a set and a subset of it.                                    *)
LEMMA Hands ==
    ASSUME NEW C \in SUBSET Cards
    PROVE  /\ IsFiniteSet(C) /\ Cardinality(C) \in Nat
           /\ \A D \in SUBSET C : /\ IsFiniteSet(D) /\ Cardinality(D) \in Nat
                                  /\ Cardinality(D) <= Cardinality(C)
                                  /\ Cardinality(D) = Cardinality(C) => D = C
                                  /\ Cardinality(C \ D) = Cardinality(C) - Cardinality(D)
<1>1. IsFiniteSet(C) /\ Cardinality(C) \in Nat
  BY CardFacts, FS_Subset, FS_CardinalityType
<1>2. ASSUME NEW D \in SUBSET C
      PROVE  /\ IsFiniteSet(D) /\ Cardinality(D) \in Nat
             /\ Cardinality(D) <= Cardinality(C)
             /\ Cardinality(D) = Cardinality(C) => D = C
             /\ Cardinality(C \ D) = Cardinality(C) - Cardinality(D)
  <2>1. C \cap D = D
    OBVIOUS
  <2>2. Cardinality(C \ D) = Cardinality(C) - Cardinality(D)
    BY <1>1, <2>1, FS_Difference, Zenon
  <2>3. QED
    BY <1>1, <2>2, FS_Subset, FS_CardinalityType
<1>3. QED
  BY <1>1, <1>2

(* A set of cards can be made up to any number that the hand has.          *)
LEMMA OneMore ==
    ASSUME NEW C \in SUBSET Cards, NEW T \in SUBSET C, Cardinality(T) < Cardinality(C)
    PROVE  \E U \in SUBSET C : T \subseteq U /\ Cardinality(U) = Cardinality(T) + 1
<1>1. T # C
  BY Hands
<1>2. PICK c \in C : c \notin T
  BY <1>1
<1>3. Cardinality(T \cup {c}) = Cardinality(T) + 1
  BY <1>2, Hands, FS_AddElement
<1>4. QED
  BY <1>2, <1>3

LEMMA MadeUp ==
    ASSUME NEW C \in SUBSET Cards, NEW T \in SUBSET C,
           Cardinality(T) <= 5, Cardinality(C) >= 5
    PROVE  \E f \in kSubset(5, C) : T \subseteq f
<1> DEFINE Reached == {Cardinality(U) : U \in {V \in SUBSET C : T \subseteq V}}
<1>1. Cardinality(T) \in 0 .. 5 /\ Cardinality(C) \in Nat /\ Cardinality(T) \in Reached
  BY Hands
<1>2. ASSUME NEW n \in 0 .. 4, n \in Reached PROVE n + 1 \in Reached
  <2>1. PICK U \in SUBSET C : T \subseteq U /\ Cardinality(U) = n
    BY <1>2
  <2>2. PICK V \in SUBSET C : U \subseteq V /\ Cardinality(V) = n + 1
    BY <1>1, <2>1, OneMore
  <2>3. QED
    BY <2>1, <2>2
<1> HIDE DEF Reached
<1>3. 5 \in Reached
  BY <1>1, <1>2
<1>4. QED
  BY <1>3 DEF Reached, kSubset

(* The greatest of some numbers from 1 to 9.                               *)
LEMMA MaxTo9 ==
    ASSUME NEW S \in SUBSET (1 .. 9), S # {}
    PROVE  Max(S) \in S /\ \A y \in S : y <= Max(S)
<1>1. S \in SUBSET Nat /\ 9 \in Nat /\ \A y \in S : y =< 9
  OBVIOUS
<1>2. QED
  BY <1>1, MaxIsMember, Zenon

(* What is below the greatest, and what it is.                             *)
LEMMA MaxIs ==
    ASSUME NEW S \in SUBSET (1 .. 9), NEW x \in S, \A y \in S : y <= x
    PROVE  Max(S) = x
<1>1. Max(S) \in S /\ \A y \in S : y <= Max(S)
  BY MaxTo9
<1>2. Max(S) \in 1 .. 9 /\ x \in 1 .. 9 /\ x <= Max(S) /\ Max(S) <= x
  BY <1>1
<1>3. QED
  BY <1>2

(* How a hand repeats its ranks.                                           *)
LEMMA RanksOfHand ==
    ASSUME NEW C \in SUBSET Cards
    PROVE  /\ RanksIn(C) \in SUBSET (0 .. RANKS - 1) /\ IsFiniteSet(RanksIn(C))
           /\ Cardinality(RanksIn(C)) \in Nat
           /\ Cardinality(RanksIn(C)) <= Cardinality(C)
           /\ Cardinality(RanksIn(C)) = Cardinality(C)
                  <=> \A c, d \in C : rank_of(c) = rank_of(d) => c = d
<1> DEFINE g == [c \in C |-> rank_of(c)]
<1>1. g \in Surjection(C, RanksIn(C))
  BY DEF Surjection, RanksIn
<1>2. IsFiniteSet(C)
  BY Hands
<1>3. /\ IsFiniteSet(RanksIn(C))
      /\ Cardinality(RanksIn(C)) <= Cardinality(C)
      /\ Cardinality(RanksIn(C)) = Cardinality(C) <=> g \in Injection(C, RanksIn(C))
  BY <1>1, <1>2, FS_Surjection
<1>4. g \in Injection(C, RanksIn(C)) <=> \A c, d \in C : rank_of(c) = rank_of(d) => c = d
  BY DEF Injection, IsInjective, RanksIn
<1>5. RanksIn(C) \in SUBSET (0 .. RANKS - 1)
  BY CardFacts DEF RanksIn
<1>6. Cardinality(RanksIn(C)) \in Nat
  BY <1>3, FS_CardinalityType
<1>7. QED
  BY <1>3, <1>4, <1>5, <1>6

LEMMA CardsOfRank ==
    ASSUME NEW C \in SUBSET Cards, NEW r
    PROVE  /\ OfRank(C, r) \in SUBSET C /\ Cardinality(OfRank(C, r)) \in 0 .. 4
           /\ r \in RanksIn(C) <=> Cardinality(OfRank(C, r)) > 0
<1> DEFINE T == OfRank(C, r)
           g == [c \in T |-> suit_of(c)]
<1>1. T \in SUBSET C /\ T \in SUBSET Cards
  BY DEF OfRank
<1>2. IsFiniteSet(T) /\ Cardinality(T) \in Nat /\ (Cardinality(T) = 0 <=> T = {})
  BY <1>1, Hands, FS_EmptySet
<1>3. g \in Injection(T, 0 .. SUITS - 1)
  BY CardFacts, <1>1 DEF Injection, IsInjective, OfRank
<1>4. IsFiniteSet(0 .. SUITS - 1) /\ Cardinality(0 .. SUITS - 1) = SUITS
  <2>1. 0 \in Int /\ SUITS - 1 \in Int /\ ~(0 > SUITS - 1) /\ SUITS - 1 - 0 + 1 = SUITS
    BY DeckAssumption
  <2>2. QED
    BY <2>1, FS_Interval, Zenon
<1>5. Cardinality(T) <= SUITS
  BY <1>3, <1>4, FS_Injection
<1>6. r \in RanksIn(C) <=> T # {}
  BY DEF RanksIn, OfRank
<1>7. QED
  BY <1>1, <1>2, <1>5, <1>6, DeckAssumption

LEMMA RanksCounted ==
    ASSUME NEW C \in SUBSET Cards, NEW k \in 1 .. 4
    PROVE  /\ RanksWith(C, k) \in Nat
           /\ RanksWith(C, k) > 0 <=> \E r : Cardinality(OfRank(C, r)) = k
           /\ RanksWith(C, k) >= 2 <=> \E r, q : /\ r # q
                                                 /\ Cardinality(OfRank(C, r)) = k
                                                 /\ Cardinality(OfRank(C, q)) = k
<1> DEFINE W == {r \in RanksIn(C) : Cardinality(OfRank(C, r)) = k}
<1>1. RanksWith(C, k) = Cardinality(W)
  BY DEF RanksWith, OfRank
<1>2. \A r : Cardinality(OfRank(C, r)) = k <=> r \in W
  BY CardsOfRank
<1>3. IsFiniteSet(W)
  BY RanksOfHand, FS_Subset
<1> HIDE DEF W
<1>4. Cardinality(W) \in Nat /\ (Cardinality(W) = 0 <=> W = {})
      /\ (Cardinality(W) = 1 <=> \E x : W = {x})
  BY <1>3, FS_CardinalityType, FS_EmptySet, FS_Singleton
<1>5. Cardinality(W) > 0 <=> \E r : r \in W
  BY <1>4
<1>6. Cardinality(W) >= 2 <=> \E r, q : r # q /\ r \in W /\ q \in W
  <2>1. CASE W = {}
    BY <1>4, <2>1
  <2>2. CASE \E x : W = {x}
    BY <1>4, <2>2
  <2>3. CASE W # {} /\ ~\E x : W = {x}
    <3>1. Cardinality(W) >= 2
      BY <1>4, <2>3
    <3>2. PICK r \in W : TRUE
      BY <2>3
    <3>3. PICK q \in W : q # r
      BY <2>3, <3>2
    <3>4. QED
      BY <3>1, <3>2, <3>3
  <2>4. QED
    BY <2>1, <2>2, <2>3
<1>7. QED
  BY <1>1, <1>2, <1>4, <1>5, <1>6

CountOf(C, r) == Cardinality(OfRank(C, r))

(* A part of a hand has no more of a rank.                                 *)
LEMMA CountGrows ==
    ASSUME NEW C \in SUBSET Cards, NEW D \in SUBSET C, NEW r
    PROVE  /\ CountOf(D, r) \in 0 .. 4 /\ CountOf(C, r) \in 0 .. 4
           /\ CountOf(D, r) <= CountOf(C, r)
<1>1. OfRank(D, r) \in SUBSET OfRank(C, r) /\ OfRank(C, r) \in SUBSET Cards
  BY DEF OfRank
<1>2. QED
  BY <1>1, CardsOfRank, Hands DEF CountOf

(* What each category asks for.                                            *)
LEMMA MakesWhat ==
    ASSUME NEW C \in SUBSET Cards
    PROVE  /\ makes(C, 9) <=> \E s \in Flushes(C) : has_straight(RanksIn(InSuit(C, s)))
           /\ makes(C, 8) <=> \E r : CountOf(C, r) = 4
           /\ makes(C, 7) <=> \E r, q : /\ r # q /\ CountOf(C, r) = 3
                                        /\ CountOf(C, q) \in {2, 3}
           /\ makes(C, 6) <=> Flushes(C) # {}
           /\ makes(C, 5) <=> has_straight(RanksIn(C))
           /\ makes(C, 4) <=> \E r : CountOf(C, r) = 3
           /\ makes(C, 3) <=> \E r, q : /\ r # q /\ CountOf(C, r) = 2
                                        /\ CountOf(C, q) = 2
           /\ makes(C, 2) <=> \E r : /\ CountOf(C, r) = 2
                                     /\ \A q : CountOf(C, q) = 2 => q = r
           /\ makes(C, 1)
<1> DEFINE Two == RanksWith(C, 2)
           Three == RanksWith(C, 3)
           Four == RanksWith(C, 4)
<1>1. ASSUME NEW k \in {2, 3, 4}
      PROVE  /\ RanksWith(C, k) \in Nat
             /\ RanksWith(C, k) > 0 <=> \E r : CountOf(C, r) = k
             /\ RanksWith(C, k) >= 2
                    <=> \E r, q : r # q /\ CountOf(C, r) = k /\ CountOf(C, q) = k
  <2>1. k \in 1 .. 4
    OBVIOUS
  <2>2. QED
    BY <2>1, RanksCounted DEF CountOf
<1>2. /\ Two \in Nat
      /\ Two > 0 <=> \E r : CountOf(C, r) = 2
      /\ Two >= 2 <=> \E r, q : r # q /\ CountOf(C, r) = 2 /\ CountOf(C, q) = 2
  BY <1>1
<1>3. /\ Three \in Nat
      /\ Three > 0 <=> \E r : CountOf(C, r) = 3
      /\ Three >= 2 <=> \E r, q : r # q /\ CountOf(C, r) = 3 /\ CountOf(C, q) = 3
  BY <1>1
<1>4. Four > 0 <=> \E r : CountOf(C, r) = 4
  BY <1>1
<1>5. /\ makes(C, 9) <=> \E s \in Flushes(C) : has_straight(RanksIn(InSuit(C, s)))
      /\ makes(C, 8) <=> Four > 0
      /\ makes(C, 7) <=> (Three >= 2 \/ (Three > 0 /\ Two > 0))
      /\ makes(C, 6) <=> Flushes(C) # {}
      /\ makes(C, 5) <=> has_straight(RanksIn(C))
      /\ makes(C, 4) <=> Three > 0
      /\ makes(C, 3) <=> Two >= 2
      /\ makes(C, 2) <=> Two = 1
      /\ makes(C, 1)
  BY DEF makes
<1> HIDE DEF Two, Three, Four
<1>6. makes(C, 7) <=> \E r, q : r # q /\ CountOf(C, r) = 3 /\ CountOf(C, q) \in {2, 3}
  BY <1>2, <1>3, <1>5
<1>7. Two = 1 <=> Two > 0 /\ ~(Two >= 2)
  BY <1>2
<1>8. makes(C, 2) <=> \E r : CountOf(C, r) = 2 /\ \A q : CountOf(C, q) = 2 => q = r
  BY <1>2, <1>5, <1>7
<1>9. QED
  BY <1>2, <1>3, <1>4, <1>5, <1>6, <1>8, Zenon

(* A hand's category is the greatest that it makes.                        *)
LEMMA GreatestMade ==
    ASSUME NEW C \in SUBSET Cards, Cardinality(C) >= 2
    PROVE  /\ hand_category(C) \in 1 .. 9 /\ makes(C, hand_category(C))
           /\ \A k \in 1 .. 9 : makes(C, k) => k <= hand_category(C)
<1> DEFINE S == {k \in 1 .. 9 : makes(C, k)}
<1>1. S \in SUBSET (1 .. 9) /\ 1 \in S
  BY MakesWhat
<1>2. hand_category(C) = Max(S)
  <2>1. ~(Cardinality(C) < 2)
    BY Hands
  <2>2. QED
    BY <2>1 DEF hand_category
<1>3. QED
  BY <1>1, <1>2, MaxTo9

(* What the category of five cards is told from.                           *)
OneSuit(f) == Cardinality({suit_of(c) : c \in f}) = 1
InARow(f) == /\ Cardinality(RanksIn(f)) = 5
             /\ \/ Max(RanksIn(f)) - Min(RanksIn(f)) = 4
                \/ RanksIn(f) \ {Ace} = 0 .. 3
Repeated(f) == Max({k \in 1 .. 4 : RanksWith(f, k) > 0})

(* How often five cards repeat a rank at most.                             *)
LEMMA RepeatedIs ==
    ASSUME NEW f \in SUBSET Cards, f # {}
    PROVE  /\ Repeated(f) \in 1 .. 4
           /\ \E r : CountOf(f, r) = Repeated(f)
           /\ \A r : CountOf(f, r) \in 0 .. 4 /\ CountOf(f, r) <= Repeated(f)
<1> DEFINE S == {k \in 1 .. 4 : RanksWith(f, k) > 0}
<1>1. \A k \in 1 .. 4 : k \in S <=> \E r : CountOf(f, r) = k
  BY RanksCounted DEF CountOf
<1>2. S \in SUBSET (1 .. 9) /\ S \in SUBSET (1 .. 4)
  OBVIOUS
<1>3. S # {}
  <2>1. PICK c \in f : TRUE
    OBVIOUS
  <2>2. CountOf(f, rank_of(c)) \in 1 .. 4
    BY CardsOfRank DEF RanksIn, CountOf
  <2>3. QED
    BY <1>1, <2>2
<1>4. Repeated(f) = Max(S)
  BY DEF Repeated
<1> HIDE DEF S
<1>5. Repeated(f) \in S /\ \A k \in S : k <= Repeated(f)
  BY <1>2, <1>3, <1>4, MaxTo9
<1>6. ASSUME NEW r PROVE CountOf(f, r) \in 0 .. 4 /\ CountOf(f, r) <= Repeated(f)
  <2>1. CountOf(f, r) \in 0 .. 4
    BY CardsOfRank DEF CountOf
  <2>2. CASE CountOf(f, r) = 0
    <3>1. Repeated(f) \in 1 .. 4
      BY <1>2, <1>5
    <3>2. QED
      BY <2>1, <2>2, <3>1
  <2>3. CASE CountOf(f, r) # 0
    BY <1>1, <1>5, <2>1, <2>3
  <2>4. QED
    BY <2>2, <2>3, <2>1
<1>7. QED
  BY <1>1, <1>2, <1>5, <1>6

(* Five cards are a flush when they are all of a suit.                     *)
LEMMA OneSuitIs ==
    ASSUME NEW f \in SUBSET Cards, f # {}
    PROVE  OneSuit(f) <=> \E s \in 0 .. SUITS - 1 : InSuit(f, s) = f
<1> DEFINE suits == {suit_of(x) : x \in f}
<1>1. suits \in SUBSET (0 .. SUITS - 1)
  BY CardFacts
<1>2. IsFiniteSet(suits)
  <2>1. 0 \in Int /\ SUITS - 1 \in Int
    BY DeckAssumption
  <2>2. IsFiniteSet(0 .. SUITS - 1)
    BY <2>1, FS_Interval, Zenon
  <2>3. QED
    BY <1>1, <2>2, FS_Subset
<1>3. OneSuit(f) <=> \E s : suits = {s}
  BY <1>2, FS_Singleton, Zenon DEF OneSuit
<1>4. \A s : suits = {s} <=> s \in 0 .. SUITS - 1 /\ InSuit(f, s) = f
  BY <1>1 DEF InSuit
<1>5. QED
  BY <1>3, <1>4

(* Neither a flush nor a straight repeats a rank, so no two of the cases   *)
(* of FiveCardCategory hold at once.                                       *)
LEMMA RepeatsNone ==
    ASSUME NEW f \in SUBSET Cards, Cardinality(f) = 5, OneSuit(f) \/ InARow(f)
    PROVE  Repeated(f) = 1
<1>1. f # {} /\ IsFiniteSet(f)
  BY Hands, FS_EmptySet
<1>2. ASSUME NEW c \in f, NEW d \in f, rank_of(c) = rank_of(d) PROVE c = d
  <2>1. CASE OneSuit(f)
    <3>1. suit_of(c) = suit_of(d)
      BY <1>1, <2>1, OneSuitIs DEF InSuit
    <3>2. QED
      BY <1>2, <3>1, CardFacts
  <2>2. CASE InARow(f)
    BY <1>2, <2>2, RanksOfHand DEF InARow
  <2>3. QED
    BY <2>1, <2>2
<1>3. ASSUME NEW r PROVE CountOf(f, r) <= 1
  <2>1. OfRank(f, r) = {} \/ \E c : OfRank(f, r) = {c}
    BY <1>2 DEF OfRank
  <2>2. Cardinality(OfRank(f, r)) \in {0, 1}
    BY <2>1, FS_EmptySet, FS_Singleton
  <2>3. QED
    BY <2>2 DEF CountOf
<1>4. QED
  BY <1>1, <1>3, RepeatedIs

LEMMA FiveCardCases ==
    ASSUME NEW f \in SUBSET Cards, Cardinality(f) = 5
    PROVE  LET v == FiveCardCategory(f)
               n == Cardinality(RanksIn(f))
               k == Repeated(f)
           IN  /\ v \in 1 .. 9
               /\ v = 9 => InARow(f) /\ OneSuit(f)
               /\ v = 8 => k = 4
               /\ v = 7 => k = 3 /\ n = 2
               /\ v = 6 => OneSuit(f)
               /\ v = 5 => InARow(f)
               /\ v = 4 => k = 3 /\ n = 3
               /\ v = 3 => k = 2 /\ n = 3
               /\ v = 2 => k = 2 /\ n = 4
               /\ InARow(f) /\ OneSuit(f) => v = 9
               /\ k = 4 => v = 8
               /\ k = 3 /\ n = 2 => v = 7
               /\ OneSuit(f) => v >= 6
               /\ InARow(f) => v >= 5
               /\ k = 3 /\ n = 3 => v = 4
               /\ k = 2 /\ n = 3 => v = 3
               /\ k = 2 /\ n = 4 => v = 2
<1> DEFINE straight == InARow(f)
           flush == OneSuit(f)
           n == Cardinality(RanksIn(f))
           k == Repeated(f)
           v == FiveCardCategory(f)
<1>1. v =
          CASE straight /\ flush   -> 9
            [] k = 4               -> 8
            [] k = 3 /\ n = 2      -> 7
            [] flush /\ ~straight  -> 6
            [] straight /\ ~flush  -> 5
            [] k = 3 /\ n = 3      -> 4
            [] k = 2 /\ n = 3      -> 3
            [] k = 2 /\ n = 4      -> 2
            [] OTHER               -> 1
  BY DEF FiveCardCategory, InARow, OneSuit, Repeated
<1> HIDE DEF straight, flush, n, k, v
<1>2. /\ v \in 1 .. 9
      /\ v = 9 => straight /\ flush
      /\ v = 8 => k = 4
      /\ v = 7 => k = 3 /\ n = 2
      /\ v = 6 => flush
      /\ v = 5 => straight
      /\ v = 4 => k = 3 /\ n = 3
      /\ v = 3 => k = 2 /\ n = 3
      /\ v = 2 => k = 2 /\ n = 4
  BY <1>1
<1>3. /\ straight \in BOOLEAN /\ flush \in BOOLEAN
      /\ straight \/ flush => k = 1
  BY RepeatsNone, Zenon DEF straight, flush, k, InARow, OneSuit
<1>4. /\ straight /\ flush => v = 9
      /\ flush => v >= 6
      /\ straight => v >= 5
  BY <1>1, <1>3
<1>5. /\ k = 4 => v = 8
      /\ k = 3 /\ n = 2 => v = 7
      /\ k = 3 /\ n = 3 => v = 4
      /\ k = 2 /\ n = 3 => v = 3
      /\ k = 2 /\ n = 4 => v = 2
  BY <1>1, <1>3
<1>6. QED
  BY <1>2, <1>4, <1>5, Zenon DEF straight, flush, n, k, v

(* The ranks of a straight.                                                *)
Straights == Windows \cup {WHEEL}

LEMMA FiveInARow ==
    ASSUME NEW low \in Nat
    PROVE  /\ IsFiniteSet(low .. low + 4) /\ Cardinality(low .. low + 4) = 5
           /\ Max(low .. low + 4) = low + 4 /\ Min(low .. low + 4) = low
<1>1. \A a, b \in Int : b = a + 4 => IsFiniteSet(a .. b) /\ Cardinality(a .. b) = 5
  <2> SUFFICES ASSUME NEW a \in Int, NEW b \in Int, b = a + 4
               PROVE  IsFiniteSet(a .. b) /\ Cardinality(a .. b) = 5
    OBVIOUS
  <2>1. IsFiniteSet(a .. b) /\ Cardinality(a .. b) = IF a > b THEN 0 ELSE b - a + 1
    BY FS_Interval
  <2>2. QED
    BY <2>1
<1>2. IsFiniteSet(low .. low + 4) /\ Cardinality(low .. low + 4) = 5
  BY <1>1
<1> DEFINE w == low .. low + 4
<1>3. w \in SUBSET Nat /\ low \in w /\ low + 4 \in w /\ low + 4 \in Nat
      /\ \A y \in w : low <= y /\ y =< low + 4
  OBVIOUS
<1> HIDE DEF w
<1>4. Max(w) \in w /\ \A y \in w : y =< Max(w)
  BY <1>3, MaxIsMember
<1>5. Min(w) \in w /\ \A y \in w : Min(w) =< y
  BY <1>3, MinIsMember
<1>6. Max(w) = low + 4 /\ Min(w) = low
  <2>1. Max(w) \in Nat /\ Max(w) <= low + 4 /\ low + 4 =< Max(w)
    BY <1>3, <1>4
  <2>2. Min(w) \in Nat /\ low <= Min(w) /\ Min(w) =< low
    BY <1>3, <1>5
  <2>3. QED
    BY <2>1, <2>2
<1>7. QED
  BY <1>2, <1>6 DEF w

LEMMA StraightFacts ==
    /\ IsFiniteSet(Straights)
    /\ \A w \in Straights : /\ w \in SUBSET (0 .. RANKS - 1)
                            /\ IsFiniteSet(w) /\ Cardinality(w) = 5
    /\ 0 .. 3 = WHEEL \ {Ace}
<1>1. Ace \notin 0 .. 3 /\ Ace \in 0 .. RANKS - 1 /\ 0 .. 3 \in SUBSET (0 .. RANKS - 1)
  BY DeckAssumption DEF Ace
<1>2. IsFiniteSet(0 .. 3) /\ Cardinality(0 .. 3) = 4
  <2>1. 0 \in Int /\ 3 \in Int /\ ~(0 > 3) /\ 3 - 0 + 1 = 4
    OBVIOUS
  <2>2. QED
    BY <2>1, FS_Interval, Zenon
<1>3. 0 .. 3 = WHEEL \ {Ace} /\ WHEEL = 0 .. 3 \cup {Ace} /\ WHEEL \in SUBSET (0 .. RANKS - 1)
  BY <1>1 DEF WHEEL
<1>4. IsFiniteSet(WHEEL) /\ Cardinality(WHEEL) = 5
  BY <1>1, <1>2, <1>3, FS_AddElement
<1> DEFINE Lows == 0 .. RANKS - 5
           window == [low \in Lows |-> low .. low + 4]
<1>5. IsFiniteSet(Lows)
  <2>1. 0 \in Int /\ RANKS - 5 \in Int
    BY DeckAssumption
  <2>2. QED
    BY <2>1, FS_Interval, Zenon
<1>6. window \in Surjection(Lows, Windows)
  BY DEF Surjection, Windows
<1>7. IsFiniteSet(Windows)
  BY <1>5, <1>6, FS_Surjection
<1>8. IsFiniteSet(Straights)
  BY <1>7, FS_AddElement DEF Straights
<1>9. ASSUME NEW w \in Windows
      PROVE  w \in SUBSET (0 .. RANKS - 1) /\ IsFiniteSet(w) /\ Cardinality(w) = 5
  <2>1. PICK low \in Lows : w = low .. low + 4
    BY DEF Windows
  <2>2. low \in Nat /\ w \in SUBSET (0 .. RANKS - 1)
    BY <2>1, DeckAssumption
  <2>3. QED
    BY <2>1, <2>2, FiveInARow
<1>10. QED
  BY <1>3, <1>4, <1>8, <1>9 DEF Straights

(* Five cards are a straight when their ranks are.                         *)
LEMMA InARowIs ==
    ASSUME NEW f \in SUBSET Cards
    PROVE  InARow(f) <=> RanksIn(f) \in Straights
<1> DEFINE R == RanksIn(f)
<1>1. R \in SUBSET (0 .. RANKS - 1) /\ IsFiniteSet(R) /\ Cardinality(R) \in Nat
  BY RanksOfHand
<1>2. InARow(f) <=> /\ Cardinality(R) = 5
                    /\ Max(R) - Min(R) = 4 \/ R \ {Ace} = 0 .. 3
  BY DEF InARow
<1> HIDE DEF R
<1>3. ASSUME Cardinality(R) = 5, Max(R) - Min(R) = 4 PROVE R \in Windows
  <2> DEFINE low == Min(R)
  <2>1. R \in SUBSET Nat /\ R # {} /\ RANKS - 1 \in Nat /\ \A y \in R : y =< RANKS - 1
    BY <1>1, <1>3, FS_EmptySet, DeckAssumption
  <2>2. Max(R) \in R /\ \A y \in R : y =< Max(R)
    BY <2>1, MaxIsMember
  <2>3. Min(R) \in R /\ \A y \in R : Min(R) =< y
    BY <2>1, MinIsMember
  <2>4. low \in Nat /\ low + 4 = Max(R)
    <3>1. Max(R) \in Nat /\ Min(R) \in Nat
      BY <2>1, <2>2, <2>3
    <3>2. QED
      BY <1>3, <3>1
  <2>5. low \in 0 .. RANKS - 5
    BY <2>1, <2>2, <2>4, DeckAssumption
  <2>6. R \in SUBSET (low .. low + 4)
    BY <2>1, <2>2, <2>3, <2>4
  <2> HIDE DEF low
  <2>7. R = low .. low + 4
    <3> DEFINE w == low .. low + 4
    <3>1. IsFiniteSet(w) /\ Cardinality(w) = Cardinality(R)
      BY <1>3, <2>4, FiveInARow
    <3> HIDE DEF w
    <3>2. R \in SUBSET w
      BY <2>6 DEF w
    <3>3. R = w
      BY <3>1, <3>2, FS_Subset
    <3>4. QED
      BY <3>3 DEF w
  <2>8. QED
    BY <2>5, <2>7 DEF Windows
<1>4. ASSUME Cardinality(R) = 5, R \ {Ace} = 0 .. 3 PROVE R = WHEEL
  <2>1. Cardinality(R \ {Ace}) = 4
    <3>1. 0 \in Int /\ 3 \in Int /\ ~(0 > 3) /\ 3 - 0 + 1 = 4
      OBVIOUS
    <3>2. Cardinality(0 .. 3) = 4
      BY <3>1, FS_Interval, Zenon
    <3>3. QED
      BY <1>4, <3>2
  <2>2. Ace \in R
    BY <1>1, <1>4, <2>1, FS_RemoveElement
  <2>3. QED
    BY <1>4, <2>2 DEF WHEEL
<1>5. ASSUME R \in Straights PROVE Cardinality(R) = 5 /\ (Max(R) - Min(R) = 4 \/ R \ {Ace} = 0 .. 3)
  <2>1. Cardinality(R) = 5
    BY <1>5, StraightFacts
  <2>2. CASE R = WHEEL
    BY <2>1, <2>2, StraightFacts
  <2>3. CASE R \in Windows
    <3>1. PICK low \in 0 .. RANKS - 5 : R = low .. low + 4
      BY <2>3 DEF Windows
    <3>2. low \in Nat
      OBVIOUS
    <3>3. Max(R) = low + 4 /\ Min(R) = low
      BY <3>1, <3>2, FiveInARow
    <3>4. QED
      BY <2>1, <3>2, <3>3
  <2>4. QED
    BY <1>5, <2>2, <2>3 DEF Straights
<1>6. QED
  BY <1>2, <1>3, <1>4, <1>5 DEF R, Straights

(* A hand without one of its ranks.                                        *)
LEMMA Without ==
    ASSUME NEW f \in SUBSET Cards, NEW r \in RanksIn(f)
    PROVE  LET rest == f \ OfRank(f, r)
           IN  /\ rest \in SUBSET f
               /\ Cardinality(rest) = Cardinality(f) - CountOf(f, r)
               /\ RanksIn(rest) = RanksIn(f) \ {r}
               /\ Cardinality(RanksIn(rest)) = Cardinality(RanksIn(f)) - 1
               /\ \A q : q # r => OfRank(rest, q) = OfRank(f, q)
<1> DEFINE rest == f \ OfRank(f, r)
<1>1. Cardinality(rest) = Cardinality(f) - CountOf(f, r)
  BY Hands, CardsOfRank DEF CountOf
<1>2. RanksIn(rest) = RanksIn(f) \ {r}
  BY DEF RanksIn, OfRank
<1>3. Cardinality(RanksIn(f) \ {r}) = Cardinality(RanksIn(f)) - 1
  BY RanksOfHand, FS_RemoveElement
<1>4. \A q : q # r => OfRank(rest, q) = OfRank(f, q)
  BY DEF OfRank
<1>5. QED
  BY <1>1, <1>2, <1>3, <1>4, Zenon

LEMMA TwoOfARank ==
    ASSUME NEW f \in SUBSET Cards
    PROVE  /\ \A c, d \in f : (c # d /\ rank_of(c) = rank_of(d)) => CountOf(f, rank_of(c)) >= 2
           /\ \A r : CountOf(f, r) >= 2
                     => \E c, d \in f : c # d /\ rank_of(c) = r /\ rank_of(d) = r
<1>1. ASSUME NEW r
      PROVE  /\ IsFiniteSet(OfRank(f, r)) /\ CountOf(f, r) \in Nat
             /\ CountOf(f, r) = 0 <=> OfRank(f, r) = {}
             /\ CountOf(f, r) = 1 <=> \E x : OfRank(f, r) = {x}
  <2>1. IsFiniteSet(OfRank(f, r)) /\ CountOf(f, r) \in Nat
    BY Hands, CardsOfRank DEF CountOf
  <2>2. QED
    BY <2>1, FS_EmptySet, FS_Singleton DEF CountOf
<1>2. ASSUME NEW c \in f, NEW d \in f, c # d, rank_of(c) = rank_of(d)
      PROVE  CountOf(f, rank_of(c)) >= 2
  <2> DEFINE r == rank_of(c)
  <2>1. c \in OfRank(f, r) /\ d \in OfRank(f, r)
    BY <1>2 DEF OfRank
  <2> HIDE DEF r
  <2>2. CountOf(f, r) # 0 /\ CountOf(f, r) # 1 /\ CountOf(f, r) \in Nat
    BY <1>1, <1>2, <2>1
  <2>3. QED
    BY <2>2 DEF r
<1>3. ASSUME NEW r, CountOf(f, r) >= 2
      PROVE  \E c, d \in f : c # d /\ rank_of(c) = r /\ rank_of(d) = r
  <2>1. CountOf(f, r) # 0 /\ CountOf(f, r) # 1
    BY <1>1, <1>3
  <2>2. PICK c : c \in OfRank(f, r)
    BY <1>1, <2>1
  <2>3. PICK d : d \in OfRank(f, r) /\ d # c
    BY <1>1, <2>1, <2>2
  <2>4. QED
    BY <2>2, <2>3 DEF OfRank
<1>4. QED
  BY <1>2, <1>3

(* Three and two.                                                          *)
LEMMA FullHouse ==
    ASSUME NEW f \in SUBSET Cards, Cardinality(f) = 5, Cardinality(RanksIn(f)) = 2,
           NEW r, CountOf(f, r) = 3
    PROVE  \E q : q # r /\ CountOf(f, q) = 2
<1> DEFINE rest == f \ OfRank(f, r)
<1>1. r \in RanksIn(f)
  BY CardsOfRank DEF CountOf
<1>2. /\ rest \in SUBSET Cards /\ Cardinality(rest) = 2
      /\ RanksIn(rest) = RanksIn(f) \ {r} /\ Cardinality(RanksIn(rest)) = 1
      /\ \A q : q # r => OfRank(rest, q) = OfRank(f, q)
  BY <1>1, Without
<1> HIDE DEF rest
<1>3. PICK q : RanksIn(rest) = {q}
  BY <1>2, RanksOfHand, FS_Singleton
<1>4. OfRank(rest, q) = rest /\ q # r
  BY <1>2, <1>3 DEF RanksIn, OfRank
<1>5. QED
  BY <1>2, <1>4 DEF CountOf

(* Two pairs and a card.                                                   *)
LEMMA TwoPairs ==
    ASSUME NEW f \in SUBSET Cards, Cardinality(f) = 5, Cardinality(RanksIn(f)) = 3,
           NEW r, CountOf(f, r) = 2
    PROVE  \E q : q # r /\ CountOf(f, q) >= 2
<1> DEFINE rest == f \ OfRank(f, r)
<1>1. r \in RanksIn(f)
  BY CardsOfRank DEF CountOf
<1>2. /\ rest \in SUBSET f /\ rest \in SUBSET Cards /\ Cardinality(rest) = 3
      /\ RanksIn(rest) = RanksIn(f) \ {r} /\ Cardinality(RanksIn(rest)) = 2
  BY <1>1, Without
<1> HIDE DEF rest
<1>3. PICK c \in rest, d \in rest : rank_of(c) = rank_of(d) /\ c # d
  <2>1. Cardinality(RanksIn(rest)) # Cardinality(rest)
    BY <1>2
  <2>2. QED
    BY <1>2, <2>1, RanksOfHand
<1>4. rank_of(c) # r
  BY <1>2, <1>3 DEF RanksIn
<1>5. CountOf(f, rank_of(c)) >= 2
  BY <1>2, <1>3, TwoOfARank
<1>6. QED
  BY <1>4, <1>5

(* Whatever five of its cards make, a hand makes that or better.           *)
LEMMA FiveAreMade ==
    ASSUME NEW C \in SUBSET Cards, NEW f \in SUBSET C, Cardinality(f) = 5
    PROVE  /\ FiveCardCategory(f) \in 1 .. 9
           /\ \E k \in 1 .. 9 : makes(C, k) /\ FiveCardCategory(f) <= k
<1> DEFINE v == FiveCardCategory(f)
           Better(n) == \E k \in 1 .. 9 : makes(C, k) /\ n <= k
<1>1. f \in SUBSET Cards /\ f # {}
  BY FS_EmptySet
<1>2. /\ v \in 1 .. 9
      /\ v = 9 => InARow(f) /\ OneSuit(f)
      /\ v = 8 => Repeated(f) = 4
      /\ v = 7 => Repeated(f) = 3 /\ Cardinality(RanksIn(f)) = 2
      /\ v = 6 => OneSuit(f)
      /\ v = 5 => InARow(f)
      /\ v = 4 => Repeated(f) = 3
      /\ v = 3 => Repeated(f) = 2 /\ Cardinality(RanksIn(f)) = 3
      /\ v = 2 => Repeated(f) = 2
  BY <1>1, FiveCardCases
<1> HIDE DEF v
<1>3. \A r : /\ CountOf(f, r) \in 0 .. 4 /\ CountOf(C, r) \in 0 .. 4
             /\ CountOf(f, r) <= CountOf(C, r)
  BY CountGrows
<1>4. \E r : CountOf(f, r) = Repeated(f)
  BY <1>1, RepeatedIs
<1>5. ASSUME NEW s, InSuit(f, s) = f, s \in 0 .. SUITS - 1
      PROVE  s \in Flushes(C) /\ RanksIn(f) \in SUBSET RanksIn(InSuit(C, s))
  <2>1. f \in SUBSET InSuit(C, s) /\ InSuit(C, s) \in SUBSET Cards
    BY <1>5 DEF InSuit
  <2>2. Cardinality(InSuit(C, s)) \in Nat /\ 5 <= Cardinality(InSuit(C, s))
    BY <2>1, Hands
  <2>3. QED
    BY <1>5, <2>1, <2>2 DEF Flushes, RanksIn
<1>6. ASSUME OneSuit(f) PROVE \E s \in 0 .. SUITS - 1 : InSuit(f, s) = f
  BY <1>1, <1>6, OneSuitIs
<1>7. ASSUME InARow(f), NEW S, RanksIn(f) \in SUBSET S PROVE has_straight(S)
  BY <1>1, <1>7, InARowIs DEF has_straight, Straights
<1>8. CASE v = 9
  <2>1. PICK s \in 0 .. SUITS - 1 : InSuit(f, s) = f
    BY <1>2, <1>6, <1>8
  <2>2. makes(C, 9)
    BY <1>2, <1>5, <1>7, <1>8, <2>1, MakesWhat
  <2>3. QED
    BY <1>8, <2>2 DEF v
<1>9. CASE v = 8
  <2>1. PICK r : CountOf(f, r) = 4
    BY <1>2, <1>4, <1>9
  <2>2. CountOf(C, r) = 4
    BY <1>3, <2>1
  <2>3. makes(C, 8)
    BY <2>2, MakesWhat
  <2>4. QED
    BY <1>9, <2>3 DEF v
<1>10. ASSUME \E r : CountOf(f, r) = 3 PROVE makes(C, 4) \/ makes(C, 8)
  <2>1. PICK r : CountOf(f, r) = 3
    BY <1>10
  <2>2. CountOf(C, r) = 3 \/ CountOf(C, r) = 4
    BY <1>3, <2>1
  <2>3. QED
    BY <2>2, MakesWhat
<1>11. CASE v = 7
  <2>1. PICK r : CountOf(f, r) = 3
    BY <1>2, <1>4, <1>11
  <2>2. PICK q : q # r /\ CountOf(f, q) = 2
    BY <1>1, <1>2, <1>11, <2>1, FullHouse
  <2>3. CountOf(C, r) \in {3, 4} /\ CountOf(C, q) \in {2, 3, 4}
    BY <1>3, <2>1, <2>2
  <2>4. makes(C, 7) \/ makes(C, 8)
    BY <2>2, <2>3, MakesWhat
  <2>5. QED
    BY <1>11, <2>4 DEF v
<1>12. CASE v = 6
  <2>1. PICK s \in 0 .. SUITS - 1 : InSuit(f, s) = f
    BY <1>2, <1>6, <1>12
  <2>2. makes(C, 6)
    BY <1>5, <2>1, MakesWhat
  <2>3. QED
    BY <1>12, <2>2 DEF v
<1>13. CASE v = 5
  <2>1. RanksIn(f) \in SUBSET RanksIn(C)
    BY DEF RanksIn
  <2>2. makes(C, 5)
    BY <1>2, <1>7, <1>13, <2>1, MakesWhat
  <2>3. QED
    BY <1>13, <2>2 DEF v
<1>14. CASE v = 4
  <2>1. makes(C, 4) \/ makes(C, 8)
    BY <1>2, <1>4, <1>10, <1>14
  <2>2. QED
    BY <1>14, <2>1 DEF v
<1>15. CASE v = 3
  <2>1. PICK r : CountOf(f, r) = 2
    BY <1>2, <1>4, <1>15
  <2>2. PICK q : q # r /\ CountOf(f, q) >= 2
    BY <1>1, <1>2, <1>15, <2>1, TwoPairs
  <2>3. CountOf(C, r) \in {2, 3, 4} /\ CountOf(C, q) \in {2, 3, 4}
    BY <1>3, <2>1, <2>2
  <2>4. makes(C, 3) \/ makes(C, 4) \/ makes(C, 8)
    BY <2>2, <2>3, MakesWhat
  <2>5. QED
    BY <1>15, <2>4 DEF v
<1>16. CASE v = 2
  <2>1. PICK r : CountOf(f, r) = 2
    BY <1>2, <1>4, <1>16
  <2>2. CountOf(C, r) \in {2, 3, 4}
    BY <1>3, <2>1
  <2>3. makes(C, 2) \/ makes(C, 3) \/ makes(C, 4) \/ makes(C, 8)
    BY <2>2, MakesWhat
  <2>4. QED
    BY <1>16, <2>3 DEF v
<1>17. CASE v = 1
  <2>1. makes(C, 1)
    BY MakesWhat
  <2>2. QED
    BY <1>17, <2>1 DEF v
<1>18. QED
  BY <1>2, <1>8, <1>9, <1>11, <1>12, <1>13, <1>14, <1>15, <1>16, <1>17 DEF v

(* Cards of a straight: one for each rank of it.                           *)
LEMMA PickedInARow ==
    ASSUME NEW C \in SUBSET Cards, has_straight(RanksIn(C))
    PROVE  \E f \in kSubset(5, C) : InARow(f)
<1>1. PICK w \in Straights : w \in SUBSET RanksIn(C)
  BY DEF has_straight, Straights
<1> DEFINE of(r) == CHOOSE c \in C : rank_of(c) = r
           f == {of(r) : r \in w}
           g == [r \in w |-> of(r)]
<1>2. ASSUME NEW r \in w PROVE of(r) \in C /\ rank_of(of(r)) = r
  BY <1>1 DEF RanksIn
<1>3. f \in SUBSET C
  BY <1>2
<1>4. RanksIn(f) = w
  BY <1>2 DEF RanksIn
<1>5. IsFiniteSet(w) /\ Cardinality(w) = 5
  BY StraightFacts
<1>6. g \in Bijection(w, f)
  <2>1. g \in [w -> f]
    OBVIOUS
  <2>2. ASSUME NEW a \in w, NEW b \in w, g[a] = g[b] PROVE a = b
    <3>1. of(a) = of(b)
      BY <2>2
    <3>2. QED
      BY <1>2, <3>1
  <2>3. \A c \in f : \E r \in w : g[r] = c
    OBVIOUS
  <2> HIDE DEF g
  <2>4. QED
    BY <2>1, <2>2, <2>3 DEF Bijection, Injection, Surjection, IsInjective
<1>7. Cardinality(f) = 5
  BY <1>5, <1>6, FS_Bijection DEF ExistsBijection
<1> HIDE DEF f
<1>8. InARow(f)
  BY <1>3, <1>4, InARowIs
<1>9. QED
  BY <1>3, <1>7, <1>8 DEF kSubset

(* Some cards have at least a rank, and at most as many as they are.       *)
LEMMA SomeRank ==
    ASSUME NEW f \in SUBSET Cards, Cardinality(f) > 0
    PROVE  /\ Cardinality(RanksIn(f)) >= 1
           /\ Cardinality(RanksIn(f)) <= Cardinality(f)
<1>1. f # {}
  BY FS_EmptySet
<1>2. RanksIn(f) # {}
  BY <1>1 DEF RanksIn
<1>3. QED
  BY <1>2, RanksOfHand, FS_EmptySet

(* Five cards with all the cards that a hand has of a rank.                *)
LEMMA FiveWith ==
    ASSUME NEW C \in SUBSET Cards, Cardinality(C) >= 5,
           NEW r, CountOf(C, r) > 0
    PROVE  \E f \in kSubset(5, C), rest \in SUBSET Cards :
               /\ rest \in SUBSET f /\ CountOf(f, r) = CountOf(C, r)
               /\ Cardinality(RanksIn(f)) \in Nat
               /\ Cardinality(rest) = 5 - CountOf(C, r)
               /\ RanksIn(rest) = RanksIn(f) \ {r}
               /\ Cardinality(RanksIn(rest)) = Cardinality(RanksIn(f)) - 1
<1>1. OfRank(C, r) \in SUBSET C /\ Cardinality(OfRank(C, r)) <= 5
  BY CardsOfRank
<1>2. PICK f \in kSubset(5, C) : OfRank(C, r) \subseteq f
  BY <1>1, MadeUp
<1>3. f \in SUBSET C /\ f \in SUBSET Cards /\ Cardinality(f) = 5
  BY DEF kSubset
<1>4. OfRank(f, r) = OfRank(C, r)
  BY <1>2, <1>3 DEF OfRank
<1>5. CountOf(f, r) = CountOf(C, r)
  BY <1>4 DEF CountOf
<1>6. r \in RanksIn(f)
  BY <1>3, <1>5, CardsOfRank DEF CountOf
<1> DEFINE rest == f \ OfRank(f, r)
<1>7. /\ rest \in SUBSET f
      /\ Cardinality(rest) = 5 - CountOf(C, r)
      /\ Cardinality(RanksIn(rest)) = Cardinality(RanksIn(f)) - 1
      /\ RanksIn(rest) = RanksIn(f) \ {r}
  BY <1>3, <1>5, <1>6, Without
<1>8. Cardinality(RanksIn(f)) \in Nat /\ rest \in SUBSET Cards
  BY <1>3, RanksOfHand
<1> HIDE DEF rest
<1>9. QED
  BY <1>5, <1>7, <1>8

(* Three and two of a hand.                                                *)
LEMMA PickedFullHouse ==
    ASSUME NEW C \in SUBSET Cards, NEW r, NEW q, r # q,
           CountOf(C, r) = 3, CountOf(C, q) >= 2
    PROVE  \E f \in kSubset(5, C) : CountOf(f, r) = 3 /\ Cardinality(RanksIn(f)) = 2
<1>1. PICK c \in C, d \in C : c # d /\ rank_of(c) = q /\ rank_of(d) = q
  BY TwoOfARank
<1> DEFINE T == OfRank(C, r)
           f == (T \cup {c}) \cup {d}
<1>2. T \in SUBSET C /\ c \notin T /\ d \notin T \cup {c}
  BY <1>1 DEF OfRank
<1>3. IsFiniteSet(T) /\ Cardinality(T) = 3
  BY <1>2, Hands DEF CountOf
<1>4. IsFiniteSet(T \cup {c}) /\ Cardinality(T \cup {c}) = 4
  BY <1>2, <1>3, FS_AddElement
<1>5. Cardinality(f) = 5
  BY <1>2, <1>4, FS_AddElement
<1>6. f \in SUBSET C
  BY <1>2
<1>7. OfRank(f, r) = T
  BY <1>1, <1>2 DEF OfRank
<1>8. RanksIn(f) = {r} \cup {q}
  <2>1. T # {}
    BY <1>3, FS_EmptySet
  <2>2. \A x \in T : rank_of(x) = r
    BY DEF OfRank
  <2> HIDE DEF T
  <2>3. QED
    BY <1>1, <2>1, <2>2 DEF RanksIn
<1>9. Cardinality({r} \cup {q}) = 2
  <2> DEFINE R == {r}
  <2>1. IsFiniteSet(R) /\ Cardinality(R) = 1 /\ q \notin R
    BY FS_Singleton
  <2> HIDE DEF R
  <2>2. Cardinality(R \cup {q}) = IF q \in R THEN Cardinality(R) ELSE Cardinality(R) + 1
    BY <2>1, FS_AddElement, Zenon
  <2>3. QED
    BY <2>1, <2>2 DEF R
<1> HIDE DEF f
<1>10. QED
  BY <1>3, <1>5, <1>6, <1>7, <1>8, <1>9 DEF kSubset, CountOf

(* Three of a rank and two other cards.                                    *)
LEMMA PickedTrips ==
    ASSUME NEW C \in SUBSET Cards, Cardinality(C) >= 5,
           NEW r, CountOf(C, r) = 3
    PROVE  \E f \in kSubset(5, C) :
               CountOf(f, r) = 3 /\ Cardinality(RanksIn(f)) \in {2, 3}
<1>1. CountOf(C, r) > 0
  BY CountGrows
<1>2. PICK f \in kSubset(5, C), rest \in SUBSET Cards :
          /\ rest \in SUBSET f /\ CountOf(f, r) = 3
          /\ Cardinality(RanksIn(f)) \in Nat
          /\ Cardinality(rest) = 2
          /\ Cardinality(RanksIn(rest)) = Cardinality(RanksIn(f)) - 1
  BY <1>1, FiveWith
<1>4. Cardinality(RanksIn(rest)) <= 2 /\ Cardinality(RanksIn(rest)) >= 1
  BY <1>2, SomeRank
<1>5. QED
  BY <1>2, <1>4

(* Two pairs and another card.                                             *)
LEMMA PickedPairs ==
    ASSUME NEW C \in SUBSET Cards, Cardinality(C) >= 5, NEW r, NEW q, r # q,
           CountOf(C, r) = 2, CountOf(C, q) = 2
    PROVE  \E f \in kSubset(5, C) : CountOf(f, r) = 2 /\ Cardinality(RanksIn(f)) = 3
<1> DEFINE T == OfRank(C, r) \cup OfRank(C, q)
<1>1. OfRank(C, r) \cap OfRank(C, q) = {}
  BY DEF OfRank
<1>2. IsFiniteSet(OfRank(C, r)) /\ IsFiniteSet(OfRank(C, q)) /\ T \in SUBSET C
  BY CardsOfRank, Hands
<1>3. Cardinality(T) = 4
  <2> DEFINE A == OfRank(C, r)
             B == OfRank(C, q)
  <2>1. Cardinality(A) = 2 /\ Cardinality(B) = 2 /\ Cardinality(A \cap B) = 0
    BY <1>1, FS_EmptySet DEF CountOf
  <2>2. IsFiniteSet(A) /\ IsFiniteSet(B)
    BY <1>2
  <2> HIDE DEF A, B
  <2>3. Cardinality(A \cup B) = Cardinality(A) + Cardinality(B) - Cardinality(A \cap B)
    BY <2>2, FS_Union, Zenon
  <2>4. Cardinality(A \cup B) = 4
    BY <2>1, <2>3
  <2>5. QED
    BY <2>4 DEF A, B
<1>4. PICK f \in kSubset(5, C) : T \subseteq f
  BY <1>2, <1>3, MadeUp
<1>5. f \in SUBSET C /\ f \in SUBSET Cards /\ Cardinality(f) = 5
  BY DEF kSubset
<1>6. OfRank(f, r) = OfRank(C, r) /\ OfRank(f, q) = OfRank(C, q)
  BY <1>4, <1>5 DEF OfRank
<1>7. CountOf(f, r) = 2 /\ CountOf(f, q) = 2
  BY <1>6 DEF CountOf
<1>8. r \in RanksIn(f)
  BY <1>5, <1>7, CardsOfRank DEF CountOf
<1> DEFINE rest == f \ OfRank(f, r)
           last == rest \ OfRank(rest, q)
<1>9. /\ rest \in SUBSET Cards /\ Cardinality(rest) = 3
      /\ Cardinality(RanksIn(rest)) = Cardinality(RanksIn(f)) - 1
      /\ CountOf(rest, q) = 2
  BY <1>5, <1>7, <1>8, Without DEF CountOf
<1> HIDE DEF rest
<1>10. q \in RanksIn(rest)
  BY <1>9, CardsOfRank DEF CountOf
<1>11. /\ last \in SUBSET Cards /\ Cardinality(last) = 1
       /\ Cardinality(RanksIn(last)) = Cardinality(RanksIn(rest)) - 1
  <2>1. /\ last \in SUBSET rest
        /\ Cardinality(last) = Cardinality(rest) - CountOf(rest, q)
        /\ Cardinality(RanksIn(last)) = Cardinality(RanksIn(rest)) - 1
    BY <1>9, <1>10, Without, Zenon
  <2> HIDE DEF last
  <2>2. QED
    BY <1>9, <2>1
<1> HIDE DEF last
<1>12. Cardinality(RanksIn(last)) = 1
  <2>1. Cardinality(last) > 0
    BY <1>11
  <2>2. Cardinality(RanksIn(last)) >= 1 /\ Cardinality(RanksIn(last)) <= 1
    BY <1>11, <2>1, SomeRank
  <2>3. Cardinality(RanksIn(last)) \in Nat
    BY <1>11, RanksOfHand
  <2>4. QED
    BY <2>2, <2>3
<1>13. Cardinality(RanksIn(f)) \in Nat /\ Cardinality(RanksIn(rest)) \in Nat
  BY <1>5, <1>9, RanksOfHand
<1>14. QED
  BY <1>7, <1>9, <1>11, <1>12, <1>13

(* A pair and three other cards, of a hand with no other pair.             *)
LEMMA PickedPair ==
    ASSUME NEW C \in SUBSET Cards, Cardinality(C) >= 5,
           NEW r, CountOf(C, r) = 2, \A q : q # r => CountOf(C, q) <= 1
    PROVE  \E f \in kSubset(5, C) : CountOf(f, r) = 2 /\ Cardinality(RanksIn(f)) = 4
<1>1. CountOf(C, r) > 0
  BY CountGrows
<1>3. PICK f \in kSubset(5, C), rest \in SUBSET Cards :
          /\ rest \in SUBSET f /\ CountOf(f, r) = 2
          /\ Cardinality(RanksIn(f)) \in Nat
          /\ Cardinality(rest) = 3
          /\ RanksIn(rest) = RanksIn(f) \ {r}
          /\ Cardinality(RanksIn(rest)) = Cardinality(RanksIn(f)) - 1
  BY <1>1, FiveWith
<1>4. rest \in SUBSET C /\ rest \in SUBSET Cards
  BY <1>3 DEF kSubset
<1>5. ASSUME NEW c \in rest, NEW d \in rest, rank_of(c) = rank_of(d) PROVE c = d
  <2>1. rank_of(c) # r
    BY <1>3 DEF RanksIn
  <2>2. CountOf(C, rank_of(c)) \in 0 .. 4 /\ CountOf(C, rank_of(c)) <= 1
    BY <2>1, CountGrows
  <2>3. c \in C /\ d \in C /\ ~(CountOf(C, rank_of(c)) >= 2)
    BY <1>4, <2>2
  <2>4. QED
    BY <1>5, <2>3, TwoOfARank
<1>6. Cardinality(RanksIn(rest)) = 3
  BY <1>3, <1>4, <1>5, RanksOfHand
<1>7. QED
  BY <1>3, <1>6

(* Whatever a hand makes at best, five of its cards make.                  *)
LEMMA MadeByFive ==
    ASSUME NEW C \in SUBSET Cards, Cardinality(C) >= 5
    PROVE  \E f \in kSubset(5, C) : hand_category(C) <= FiveCardCategory(f)
<1> DEFINE k == hand_category(C)
           Five(n) == \E f \in kSubset(5, C) : n <= FiveCardCategory(f)
<1>1. /\ k \in 1 .. 9 /\ makes(C, k)
      /\ \A n \in 1 .. 9 : makes(C, n) => n <= k
  BY Hands, GreatestMade
<1>2. ASSUME NEW f \in kSubset(5, C)
      PROVE  LET v == FiveCardCategory(f)
                 n == Cardinality(RanksIn(f))
             IN  /\ f \in SUBSET C /\ f \in SUBSET Cards /\ Cardinality(f) = 5 /\ f # {}
                 /\ v \in 1 .. 9 /\ Repeated(f) \in 1 .. 4
                 /\ \A r : CountOf(f, r) \in 0 .. 4 /\ CountOf(f, r) <= Repeated(f)
                 /\ \E r : CountOf(f, r) = Repeated(f)
                 /\ InARow(f) /\ OneSuit(f) => v = 9
                 /\ Repeated(f) = 4 => v = 8
                 /\ Repeated(f) = 3 /\ n = 2 => v = 7
                 /\ OneSuit(f) => v >= 6
                 /\ InARow(f) => v >= 5
                 /\ Repeated(f) = 3 /\ n = 3 => v = 4
                 /\ Repeated(f) = 2 /\ n = 3 => v = 3
                 /\ Repeated(f) = 2 /\ n = 4 => v = 2
  <2>1. f \in SUBSET C /\ f \in SUBSET Cards /\ Cardinality(f) = 5
    BY DEF kSubset
  <2>2. f # {}
    BY <2>1, FS_EmptySet
  <2>3. QED
    BY <2>1, <2>2, FiveCardCases, RepeatedIs, Zenon
<1> HIDE DEF k
<1>3. CASE k = 9
  <2>1. PICK s \in Flushes(C) : has_straight(RanksIn(InSuit(C, s)))
    BY <1>1, <1>3, MakesWhat
  <2>2. InSuit(C, s) \in SUBSET C /\ InSuit(C, s) \in SUBSET Cards
    BY DEF InSuit
  <2>3. PICK f \in kSubset(5, InSuit(C, s)) : InARow(f)
    BY <2>1, <2>2, PickedInARow
  <2>4. f \in kSubset(5, C)
    BY <2>2, <2>3 DEF kSubset
  <2>5. InSuit(f, s) = f /\ s \in 0 .. SUITS - 1
    BY <2>1, <2>3 DEF kSubset, InSuit, Flushes
  <2>6. OneSuit(f)
    BY <1>2, <2>4, <2>5, OneSuitIs
  <2>7. FiveCardCategory(f) = 9
    BY <1>2, <2>3, <2>4, <2>6
  <2>8. QED
    BY <1>3, <2>4, <2>7 DEF k
<1>4. CASE k = 8
  <2>1. PICK r : CountOf(C, r) = 4
    BY <1>1, <1>4, MakesWhat
  <2>2. PICK f \in kSubset(5, C) : CountOf(f, r) = 4
    <3>1. CountOf(C, r) > 0
      BY <2>1
    <3>2. \E f \in kSubset(5, C) : CountOf(f, r) = CountOf(C, r)
      BY <3>1, FiveWith
    <3>3. QED
      BY <2>1, <3>2
  <2>3. FiveCardCategory(f) = 8
    BY <1>2, <2>2
  <2>4. QED
    BY <1>4, <2>3 DEF k
<1>5. CASE k = 7
  <2>1. PICK r, q : r # q /\ CountOf(C, r) = 3 /\ CountOf(C, q) \in {2, 3}
    BY <1>1, <1>5, MakesWhat
  <2>2. CountOf(C, q) >= 2
    BY <2>1
  <2>3. PICK f \in kSubset(5, C) : CountOf(f, r) = 3 /\ Cardinality(RanksIn(f)) = 2
    BY <2>1, <2>2, PickedFullHouse
  <2>4. Repeated(f) = 3 \/ Repeated(f) = 4
    BY <1>2, <2>3
  <2>5. FiveCardCategory(f) \in {7, 8}
    BY <1>2, <2>3, <2>4
  <2>6. QED
    BY <1>5, <2>5 DEF k
<1>6. CASE k = 6
  <2>1. PICK s \in 0 .. SUITS - 1 : Cardinality(InSuit(C, s)) >= 5
    BY <1>1, <1>6, MakesWhat DEF Flushes
  <2>2. InSuit(C, s) \in SUBSET C /\ InSuit(C, s) \in SUBSET Cards
    BY DEF InSuit
  <2>3. Cardinality({}) <= 5 /\ {} \in SUBSET InSuit(C, s)
    BY FS_EmptySet
  <2>4. PICK f \in kSubset(5, InSuit(C, s)) : TRUE
    BY <2>1, <2>2, <2>3, MadeUp
  <2>5. f \in kSubset(5, C)
    BY <2>2, <2>4 DEF kSubset
  <2>6. InSuit(f, s) = f
    BY <2>4 DEF kSubset, InSuit
  <2>7. OneSuit(f)
    BY <1>2, <2>1, <2>5, <2>6, OneSuitIs
  <2>8. FiveCardCategory(f) >= 6
    BY <1>2, <2>5, <2>7
  <2>9. QED
    BY <1>6, <2>5, <2>8 DEF k
<1>7. CASE k = 5
  <2>1. PICK f \in kSubset(5, C) : InARow(f)
    BY <1>1, <1>7, MakesWhat, PickedInARow
  <2>2. FiveCardCategory(f) >= 5
    BY <1>2, <2>1
  <2>3. QED
    BY <1>7, <2>2 DEF k
<1>8. CASE k = 4
  <2>1. PICK r : CountOf(C, r) = 3
    BY <1>1, <1>8, MakesWhat
  <2>2. PICK f \in kSubset(5, C) : CountOf(f, r) = 3 /\ Cardinality(RanksIn(f)) \in {2, 3}
    BY <2>1, PickedTrips
  <2>3. Repeated(f) = 3 \/ Repeated(f) = 4
    BY <1>2, <2>2
  <2>4. FiveCardCategory(f) \in {4, 7, 8}
    BY <1>2, <2>2, <2>3
  <2>5. QED
    BY <1>8, <2>4 DEF k
<1>9. CASE k = 3
  <2>1. PICK r, q : r # q /\ CountOf(C, r) = 2 /\ CountOf(C, q) = 2
    BY <1>1, <1>9, MakesWhat
  <2>2. PICK f \in kSubset(5, C) : CountOf(f, r) = 2 /\ Cardinality(RanksIn(f)) = 3
    BY <2>1, PickedPairs
  <2>3. Repeated(f) = 2 \/ Repeated(f) = 3 \/ Repeated(f) = 4
    BY <1>2, <2>2
  <2>4. FiveCardCategory(f) \in {3, 4, 8}
    BY <1>2, <2>2, <2>3
  <2>5. QED
    BY <1>9, <2>4 DEF k
<1>10. CASE k = 2
  <2>1. PICK r : CountOf(C, r) = 2 /\ \A q : CountOf(C, q) = 2 => q = r
    BY <1>1, <1>10, MakesWhat
  <2>2. ASSUME NEW q, q # r PROVE CountOf(C, q) <= 1
    <3>1. CountOf(C, q) \in 0 .. 4
      BY CountGrows
    <3>2. ~makes(C, 8) /\ ~makes(C, 4)
      BY <1>1, <1>10
    <3>3. CountOf(C, q) # 4 /\ CountOf(C, q) # 3 /\ CountOf(C, q) # 2
      BY <2>1, <2>2, <3>2, MakesWhat
    <3>4. QED
      BY <3>1, <3>3
  <2>3. PICK f \in kSubset(5, C) : CountOf(f, r) = 2 /\ Cardinality(RanksIn(f)) = 4
    BY <2>1, <2>2, PickedPair
  <2>4. \A q : CountOf(f, q) <= 2
    <3>1. ASSUME NEW q, q # r PROVE CountOf(f, q) <= 2
      <4>1. /\ CountOf(f, q) \in 0 .. 4 /\ CountOf(C, q) \in 0 .. 4
            /\ CountOf(f, q) <= CountOf(C, q)
        BY <1>2, CountGrows
      <4>2. QED
        BY <2>2, <3>1, <4>1
    <3>2. QED
      BY <2>3, <3>1
  <2>5. Repeated(f) = 2
    <3>1. Repeated(f) \in 1 .. 4 /\ 2 <= Repeated(f) /\ Repeated(f) <= 2
      BY <1>2, <2>3, <2>4
    <3>2. QED
      BY <3>1
  <2>6. FiveCardCategory(f) = 2
    BY <1>2, <2>3, <2>5
  <2>7. QED
    BY <1>10, <2>6 DEF k
<1>11. CASE k = 1
  <2>1. Cardinality({}) <= 5 /\ {} \in SUBSET C
    BY FS_EmptySet
  <2>2. PICK f \in kSubset(5, C) : TRUE
    BY <2>1, MadeUp
  <2>3. FiveCardCategory(f) \in 1 .. 9
    BY <1>2
  <2>4. QED
    BY <1>11, <2>3 DEF k
<1>12. QED
  BY <1>1, <1>3, <1>4, <1>5, <1>6, <1>7, <1>8, <1>9, <1>10, <1>11 DEF k

(* The category of five cards or more is that of their best five, and five *)
(* cards that a hand has do not make more than it.                         *)
LEMMA BestFive ==
    ASSUME NEW C \in SUBSET Cards, Cardinality(C) >= 5
    PROVE  /\ hand_category(C) = Max({FiveCardCategory(five) : five \in kSubset(5, C)})
           /\ \A f \in kSubset(5, C) : FiveCardCategory(f) <= hand_category(C)
<1> DEFINE S == {FiveCardCategory(five) : five \in kSubset(5, C)}
           h == hand_category(C)
<1>1. h \in 1 .. 9 /\ \A n \in 1 .. 9 : makes(C, n) => n <= h
  BY Hands, GreatestMade
<1>2. ASSUME NEW f \in kSubset(5, C)
      PROVE  FiveCardCategory(f) \in 1 .. 9 /\ FiveCardCategory(f) <= h
  <2>1. f \in SUBSET C /\ Cardinality(f) = 5
    BY DEF kSubset
  <2>2. FiveCardCategory(f) \in 1 .. 9
    BY <2>1, FiveAreMade
  <2>3. PICK n \in 1 .. 9 : makes(C, n) /\ FiveCardCategory(f) <= n
    BY <2>1, FiveAreMade
  <2>4. QED
    BY <1>1, <2>2, <2>3
<1>3. PICK f \in kSubset(5, C) : h <= FiveCardCategory(f)
  BY MadeByFive
<1>4. FiveCardCategory(f) = h
  BY <1>1, <1>2, <1>3
<1>5. S \in SUBSET (1 .. 9) /\ h \in S /\ \A y \in S : y <= h
  BY <1>2, <1>4
<1> HIDE DEF S, h
<1>6. Max(S) = h
  BY <1>5, MaxIs
<1>7. QED
  BY <1>2, <1>6 DEF S, h

(* More cards do not make less.                                            *)
LEMMA CategoryGrows ==
    ASSUME NEW C \in SUBSET Cards, NEW D \in SUBSET C, Cardinality(D) >= 5
    PROVE  hand_category(D) <= hand_category(C)
<1>1. Cardinality(C) >= 5
  <2>1. /\ Cardinality(D) \in Nat /\ Cardinality(C) \in Nat
        /\ Cardinality(D) <= Cardinality(C)
    BY Hands
  <2>2. QED
    BY <2>1
<1>2. PICK f \in kSubset(5, D) : hand_category(D) <= FiveCardCategory(f)
  BY MadeByFive
<1>3. f \in kSubset(5, C) /\ Cardinality(f) = 5 /\ f \in SUBSET D
  BY DEF kSubset
<1>4. FiveCardCategory(f) <= hand_category(C)
  BY <1>1, <1>3, BestFive
<1>5. /\ FiveCardCategory(f) \in 1 .. 9
      /\ hand_category(D) \in 1 .. 9 /\ hand_category(C) \in 1 .. 9
  BY <1>1, <1>3, FiveAreMade, GreatestMade, Hands
<1>6. QED
  BY <1>2, <1>4, <1>5

(* Two cards make a pair or nothing.                                       *)
LEMMA TwoCards ==
    ASSUME NEW C \in SUBSET Cards, Cardinality(C) = 2
    PROVE  hand_category(C) = IF Cardinality(RanksIn(C)) = 1 THEN 2 ELSE 1
<1> DEFINE h == hand_category(C)
<1>1. h \in 1 .. 9 /\ makes(C, h) /\ \A n \in 1 .. 9 : makes(C, n) => n <= h
  BY GreatestMade
<1>2. \A r : CountOf(C, r) \in 0 .. 2
  <2>1. ASSUME NEW r PROVE CountOf(C, r) \in 0 .. 4 /\ CountOf(C, r) <= 2
    <3>1. OfRank(C, r) \in SUBSET C /\ CountOf(C, r) \in 0 .. 4
      BY CardsOfRank DEF CountOf
    <3>2. Cardinality(OfRank(C, r)) <= Cardinality(C)
      BY <3>1, Hands
    <3>3. QED
      BY <3>1, <3>2 DEF CountOf
  <2>2. QED
    BY <2>1
<1>3. ~makes(C, 8) /\ ~makes(C, 7) /\ ~makes(C, 4)
  <2>1. \A r : CountOf(C, r) # 3 /\ CountOf(C, r) # 4
    BY <1>2
  <2>2. QED
    BY <2>1, MakesWhat
<1>4. ~makes(C, 9) /\ ~makes(C, 6)
  <2>1. ASSUME NEW s PROVE ~(Cardinality(InSuit(C, s)) >= 5)
    <3>1. InSuit(C, s) \in SUBSET C
      BY DEF InSuit
    <3>2. /\ Cardinality(InSuit(C, s)) \in Nat
          /\ Cardinality(InSuit(C, s)) <= Cardinality(C)
      BY <3>1, Hands
    <3>3. QED
      BY <3>2
  <2>2. Flushes(C) = {}
    BY <2>1 DEF Flushes
  <2>3. QED
    BY <2>2, MakesWhat
<1>5. ~makes(C, 5)
  <2>1. ASSUME NEW w \in Straights, w \in SUBSET RanksIn(C) PROVE FALSE
    <3>1. Cardinality(w) = 5 /\ Cardinality(w) <= Cardinality(RanksIn(C))
      BY <2>1, StraightFacts, RanksOfHand, FS_Subset
    <3>2. Cardinality(RanksIn(C)) <= 2 /\ Cardinality(RanksIn(C)) \in Nat
      BY RanksOfHand
    <3>3. QED
      BY <3>1, <3>2
  <2>2. QED
    BY <2>1, MakesWhat DEF has_straight, Straights
<1>6. \A r : CountOf(C, r) = 2 => OfRank(C, r) = C
  BY CardsOfRank, Hands DEF CountOf
<1>7. ~makes(C, 3)
  <2>1. ASSUME NEW r, NEW q, r # q, CountOf(C, r) = 2, CountOf(C, q) = 2 PROVE FALSE
    <3>1. OfRank(C, r) = C /\ OfRank(C, q) = C
      BY <1>6, <2>1
    <3>2. C = {}
      BY <2>1, <3>1 DEF OfRank
    <3>3. QED
      BY <3>2, FS_EmptySet
  <2>2. QED
    BY <2>1, MakesWhat
<1>8. makes(C, 2) <=> Cardinality(RanksIn(C)) = 1
  <2>1. ASSUME makes(C, 2) PROVE Cardinality(RanksIn(C)) = 1
    <3>1. PICK r : CountOf(C, r) = 2
      BY <2>1, MakesWhat
    <3>2. \A c \in C : rank_of(c) = r
      BY <1>6, <3>1 DEF OfRank
    <3>3. C # {}
      BY FS_EmptySet
    <3>4. RanksIn(C) = {r}
      BY <3>2, <3>3 DEF RanksIn
    <3>5. QED
      BY <3>4, FS_Singleton
  <2>2. ASSUME Cardinality(RanksIn(C)) = 1 PROVE makes(C, 2)
    <3>1. PICK r : RanksIn(C) = {r}
      BY <2>2, RanksOfHand, FS_Singleton
    <3>2. OfRank(C, r) = C
      BY <3>1 DEF RanksIn, OfRank
    <3>3. CountOf(C, r) = 2
      BY <3>2 DEF CountOf
    <3>4. ~\E q, p : q # p /\ CountOf(C, q) = 2 /\ CountOf(C, p) = 2
      BY <1>7, MakesWhat
    <3>5. QED
      BY <3>3, <3>4, MakesWhat
  <2>3. QED
    BY <2>1, <2>2
<1> HIDE DEF h
<1>9. h = 1 \/ h = 2
  <2>1. /\ h # 9 /\ h # 8 /\ h # 7 /\ h # 6 /\ h # 5 /\ h # 4 /\ h # 3
    BY <1>1, <1>3, <1>4, <1>5, <1>7
  <2>2. QED
    BY <1>1, <2>1
<1>10. QED
  BY <1>1, <1>8, <1>9 DEF h

(* A flush that one card completes was a draw before it.                   *)
LEMMA FlushDraw ==
    ASSUME NEW C \in SUBSET Cards, Cardinality(C) >= 2, NEW x \in Cards,
           Flushes(C) = {}, Flushes(C \cup {x}) # {}
    PROVE  max_suit_count(C) = 4 /\ hand_category(C) \notin {6, 9}
<1>1. hand_category(C) \notin {6, 9}
  <2>1. makes(C, hand_category(C))
    BY GreatestMade
  <2>2. ~makes(C, 6) /\ ~makes(C, 9)
    BY MakesWhat
  <2>3. QED
    BY <2>1, <2>2
<1> DEFINE InS(s) == Cardinality(InSuit(C, s))
           S == {InS(s) : s \in 0 .. SUITS - 1}
<1>2. ASSUME NEW s \in 0 .. SUITS - 1
      PROVE  InS(s) \in Nat /\ InS(s) <= 4 /\ IsFiniteSet(InSuit(C, s))
  <2>1. InSuit(C, s) \in SUBSET C
    BY DEF InSuit
  <2>2. InS(s) \in Nat /\ IsFiniteSet(InSuit(C, s))
    BY <2>1, Hands
  <2>3. ~(InS(s) >= 5)
    BY DEF Flushes
  <2>4. QED
    BY <2>2, <2>3
<1>3. PICK s \in 0 .. SUITS - 1 : Cardinality(InSuit(C \cup {x}, s)) >= 5
  BY DEF Flushes
<1>4. InS(s) = 4
  <2> DEFINE T == InSuit(C, s)
             U == InSuit(C \cup {x}, s)
  <2>1. U = T \/ U = T \cup {x}
    BY DEF InSuit
  <2> HIDE DEF T, U
  <2>2. IsFiniteSet(T) /\ Cardinality(T) \in Nat /\ Cardinality(T) <= 4
    BY <1>2 DEF T
  <2>3. Cardinality(U) = Cardinality(T) \/ Cardinality(U) = Cardinality(T) + 1
    BY <2>1, <2>2, FS_AddElement
  <2>4. Cardinality(U) >= 5
    BY <1>3 DEF U
  <2>5. Cardinality(T) = 4
    BY <2>2, <2>3, <2>4
  <2>6. QED
    BY <2>5 DEF T
<1>5. S \in SUBSET Nat /\ 4 \in S /\ 4 \in Nat /\ \A y \in S : y =< 4
  BY <1>2, <1>4
<1>6. max_suit_count(C) = Max(S)
  BY DEF max_suit_count
<1> HIDE DEF S
<1>7. Max(S) \in S /\ \A y \in S : y =< Max(S)
  BY <1>5, MaxIsMember
<1>8. Max(S) = 4
  <2>1. Max(S) \in Nat /\ Max(S) <= 4 /\ 4 =< Max(S)
    BY <1>5, <1>7
  <2>2. QED
    BY <2>1
<1>9. QED
  BY <1>1, <1>6, <1>8

(* A straight that one card completes was an out, in a window that could   *)
(* still be filled.                                                        *)
LEMMA StraightDraw ==
    ASSUME NEW C \in SUBSET Cards, Cardinality(C) \in {5, 6}, NEW x \in Cards,
           ~has_straight(RanksIn(C)), has_straight(RanksIn(C \cup {x}))
    PROVE  /\ hand_category(C) \notin {5, 9}
           /\ straight_draw_outs(C) \in Nat /\ straight_draw_outs(C) > 0
           /\ straight_alive_windows(C) \in Nat /\ straight_alive_windows(C) > 0
<1> DEFINE R == RanksIn(C)
           r == rank_of(x)
<1>1. RanksIn(C \cup {x}) = R \cup {r}
  BY DEF RanksIn
<1>2. PICK w \in Straights : w \in SUBSET (R \cup {r})
  BY <1>1 DEF has_straight, Straights
<1>3. ~(w \in SUBSET R)
  BY <1>2 DEF has_straight, Straights
<1>4. r \notin R /\ r \in 0 .. RANKS - 1 /\ r \in w
  BY <1>2, <1>3, CardFacts
<1>5. hand_category(C) \notin {5, 9}
  <2>1. makes(C, hand_category(C))
    BY GreatestMade
  <2>2. ASSUME NEW s, has_straight(RanksIn(InSuit(C, s))) PROVE FALSE
    <3>1. RanksIn(InSuit(C, s)) \in SUBSET R
      BY DEF RanksIn, InSuit
    <3> HIDE DEF R
    <3>2. has_straight(R)
      BY <2>2, <3>1 DEF has_straight
    <3>3. QED
      BY <3>2 DEF R
  <2>3. ~makes(C, 5) /\ ~makes(C, 9)
    BY <2>2, MakesWhat
  <2>4. QED
    BY <2>1, <2>3
<1>6. straight_draw_outs(C) \in Nat /\ straight_draw_outs(C) > 0
  <2> DEFINE outs == {q \in (0 .. RANKS - 1) \ R : has_straight(R \cup {q})}
  <2>1. r \in outs
    BY <1>1, <1>4
  <2>2. IsFiniteSet(outs)
    <3>1. 0 \in Int /\ RANKS - 1 \in Int
      BY DeckAssumption
    <3>2. IsFiniteSet(0 .. RANKS - 1)
      BY <3>1, FS_Interval, Zenon
    <3>3. outs \in SUBSET (0 .. RANKS - 1)
      OBVIOUS
    <3> HIDE DEF outs
    <3>4. QED
      BY <3>2, <3>3, FS_Subset
  <2>3. straight_draw_outs(C) = Cardinality(outs)
    BY DEF straight_draw_outs
  <2> HIDE DEF outs
  <2>4. Cardinality(outs) \in Nat /\ Cardinality(outs) # 0
    BY <2>1, <2>2, FS_CardinalityType, FS_EmptySet
  <2>5. QED
    BY <2>3, <2>4
<1>7. straight_alive_windows(C) \in Nat /\ straight_alive_windows(C) > 0
  <2> DEFINE n == Threshold(Cardinality(C))
             alive == {v \in Straights : Cardinality(v \cap R) >= n}
  <2>1. n \in {3, 4}
    BY DEF Threshold
  <2>2. straight_alive_windows(C) = Cardinality(alive)
    BY DEF straight_alive_windows, Straights
  <2> HIDE DEF n
  <2>3. w \cap R = w \ {r}
    BY <1>2, <1>4
  <2>4. Cardinality(w \ {r}) = 4
    <3>1. IsFiniteSet(w) /\ Cardinality(w) = 5
      BY StraightFacts
    <3> HIDE DEF r
    <3>2. Cardinality(w \ {r}) = IF r \in w THEN Cardinality(w) - 1 ELSE Cardinality(w)
      BY <3>1, FS_RemoveElement, Zenon
    <3>3. QED
      BY <1>4, <3>1, <3>2
  <2>5. w \in alive
    BY <2>1, <2>3, <2>4
  <2>6. IsFiniteSet(alive)
    <3>1. alive \in SUBSET Straights
      OBVIOUS
    <3> HIDE DEF alive
    <3>2. QED
      BY <3>1, StraightFacts, FS_Subset
  <2> HIDE DEF alive
  <2>7. Cardinality(alive) \in Nat /\ Cardinality(alive) # 0
    BY <2>5, <2>6, FS_CardinalityType, FS_EmptySet
  <2>8. QED
    BY <2>2, <2>7
<1>8. QED
  BY <1>5, <1>6, <1>7

(* The cards of a player up to a street.                                   *)
SeenOn(raw, p, r) == HoleCards(raw, p) \cup Board(raw, r)

(* Some of nine different cards are as many as their places.               *)
LEMMA PlacesOf ==
    ASSUME NEW raw \in [1 .. 9 -> Cards], IsInjective(raw), NEW I \in SUBSET (1 .. 9)
    PROVE  LET C == {raw[i] : i \in I}
           IN  C \in SUBSET Cards /\ Cardinality(C) = Cardinality(I)
<1> DEFINE C == {raw[i] : i \in I}
           g == [i \in I |-> raw[i]]
<1>1. IsFiniteSet(I)
  <2>1. 1 \in Int /\ 9 \in Int
    OBVIOUS
  <2>2. IsFiniteSet(1 .. 9)
    BY <2>1, FS_Interval, Zenon
  <2>3. QED
    BY <2>2, FS_Subset
<1>2. g \in Bijection(I, C)
  BY DEF Bijection, Injection, Surjection, IsInjective
<1>3. C \in SUBSET Cards
  OBVIOUS
<1>4. QED
  BY <1>1, <1>2, <1>3, FS_Bijection DEF ExistsBijection

LEMMA SeenCards ==
    ASSUME NEW raw \in [1 .. 9 -> Cards], IsInjective(raw),
           NEW p \in Seats, NEW r \in Streets
    PROVE  /\ SeenOn(raw, p, r) \in SUBSET Cards
           /\ Cardinality(SeenOn(raw, p, r)) = CASE r = 0 -> 2 [] r = 1 -> 5
                                                 [] r = 2 -> 6 [] OTHER -> 7
           /\ r = 0 => Board(raw, r) = {}
           /\ HoleCards(raw, p) \in SUBSET Cards /\ Cardinality(HoleCards(raw, p)) = 2
<1> DEFINE last == CASE r = 0 -> 4 [] r = 1 -> 7 [] r = 2 -> 8 [] OTHER -> 9
           a == 2 * p + 1
           b == 2 * p + 2
           H == {a, b}
           I == H \cup 5 .. last
<1>1. /\ last \in {4, 7, 8, 9}
      /\ Cardinality(5 .. last) = last - 4 /\ IsFiniteSet(5 .. last)
  <2>1. last \in {4, 7, 8, 9}
    BY DEF Streets
  <2> HIDE DEF last
  <2>2. 5 \in Int /\ last \in Int
    BY <2>1
  <2>3. IsFiniteSet(5 .. last) /\ Cardinality(5 .. last) = IF 5 > last THEN 0 ELSE last - 5 + 1
    BY <2>2, FS_Interval, Zenon
  <2>4. QED
    BY <2>1, <2>3
<1>2. a \in 1 .. 4 /\ b \in 1 .. 4 /\ a # b
  BY DEF Seats
<1>3. Board(raw, r) = {raw[i] : i \in 5 .. last}
  BY DEF Board
<1>4. HoleCards(raw, p) = {raw[i] : i \in H}
  BY DEF HoleCards
<1>5. IsFiniteSet(H) /\ Cardinality(H) = 2
  <2> DEFINE A == {a}
  <2>1. IsFiniteSet(A) /\ Cardinality(A) = 1 /\ b \notin A
    BY <1>2, FS_Singleton
  <2>2. H = A \cup {b}
    OBVIOUS
  <2> HIDE DEF A, H, b
  <2>3. IsFiniteSet(A \cup {b}) /\ Cardinality(A \cup {b}) = Cardinality(A) + 1
    BY <2>1, FS_AddElement
  <2>4. QED
    BY <2>1, <2>2, <2>3
<1>6. H \cap 5 .. last = {} /\ H \in SUBSET (1 .. 9) /\ I \in SUBSET (1 .. 9)
  BY <1>1, <1>2
<1>7. SeenOn(raw, p, r) = {raw[i] : i \in I}
  BY <1>3, <1>4 DEF SeenOn
<1> HIDE DEF H
<1>8. Cardinality(I) = 2 + (last - 4)
  <2>1. Cardinality(H \cap 5 .. last) = 0
    BY <1>6, FS_EmptySet
  <2>2. Cardinality(I) = Cardinality(H) + Cardinality(5 .. last) - Cardinality(H \cap 5 .. last)
    BY <1>1, <1>5, FS_Union
  <2> HIDE DEF last, I
  <2>3. QED
    BY <1>1, <1>5, <2>1, <2>2
<1>9. r = 0 => Board(raw, r) = {}
  BY <1>3
<1>10. HoleCards(raw, p) \in SUBSET Cards /\ Cardinality(HoleCards(raw, p)) = 2
  BY <1>4, <1>5, <1>6, PlacesOf
<1> HIDE DEF I
<1>11. /\ SeenOn(raw, p, r) \in SUBSET Cards
       /\ Cardinality(SeenOn(raw, p, r)) = 2 + (last - 4)
  BY <1>6, <1>7, <1>8, PlacesOf
<1>12. 2 + (last - 4) = CASE r = 0 -> 2 [] r = 1 -> 5 [] r = 2 -> 6 [] OTHER -> 7
  BY DEF Streets
<1>13. QED
  BY <1>9, <1>10, <1>11, <1>12, Zenon

(* The category a player is shown.                                         *)
LEMMA CategoryShown ==
    ASSUME NEW raw \in [1 .. 9 -> Cards], IsInjective(raw),
           NEW p \in Seats, NEW now \in Streets
    PROVE  LET obs == Observation(raw, p, now)
           IN  obs.features[now].category =
                   IF now = 0 THEN (IF SeesPair(obs) THEN 2 ELSE 1)
                   ELSE Max({FiveCardCategory(five) :
                                five \in kSubset(5, obs.hole \cup obs.community)})
<1> DEFINE obs == Observation(raw, p, now)
           C == SeenOn(raw, p, now)
<1>1. /\ obs.hole = HoleCards(raw, p) /\ obs.community = Board(raw, now)
      /\ obs.features = FeatureRows(raw, p, now)
  BY DEF Observation
<1>2. obs.hole \cup obs.community = C
  BY <1>1 DEF SeenOn
<1>3. obs.features[now].category = hand_category(C)
  <2>1. FeatureRows(raw, p, now)[now] = Features(HoleCards(raw, p), Board(raw, now))
    BY DEF FeatureRows, Streets
  <2>2. Features(HoleCards(raw, p), Board(raw, now)).category = hand_category(C)
    BY DEF Features, SeenOn
  <2>3. QED
    BY <1>1, <2>1, <2>2
<1>4. /\ C \in SUBSET Cards
      /\ now = 0 => Cardinality(C) = 2 /\ C = HoleCards(raw, p)
      /\ now # 0 => Cardinality(C) >= 5
  <2>1. /\ C \in SUBSET Cards
        /\ Cardinality(C) = CASE now = 0 -> 2 [] now = 1 -> 5 [] now = 2 -> 6 [] OTHER -> 7
        /\ now = 0 => Board(raw, now) = {}
    BY SeenCards
  <2>2. now = 0 => C = HoleCards(raw, p)
    BY <2>1 DEF SeenOn
  <2> HIDE DEF C
  <2>3. QED
    BY <2>1, <2>2 DEF Streets
<1> HIDE DEF obs, C
<1>5. CASE now = 0
  <2>1. SeesPair(obs) <=> Cardinality(RanksIn(C)) = 1
    BY <1>1, <1>4, <1>5 DEF SeesPair, RanksIn, rank_of
  <2>2. hand_category(C) = IF Cardinality(RanksIn(C)) = 1 THEN 2 ELSE 1
    BY <1>4, <1>5, TwoCards
  <2>3. QED
    BY <1>3, <1>5, <2>1, <2>2 DEF obs
<1>6. CASE now # 0
  <2>1. hand_category(C) = Max({FiveCardCategory(five) : five \in kSubset(5, C)})
    BY <1>4, <1>6, BestFive
  <2>2. QED
    BY <1>2, <1>3, <1>6, <2>1, Zenon DEF obs
<1>7. QED
  BY <1>5, <1>6

(* What a player makes with a card was announced before it.                *)
LEMMA DrawsShown ==
    ASSUME NEW raw \in [1 .. 9 -> Cards], IsInjective(raw),
           NEW p \in Seats, NEW now \in Streets, NEW r \in 1 .. now - 1
    PROVE  LET rows == FeatureRows(raw, p, now)
               C == SeenOn(raw, p, r)
               D == SeenOn(raw, p, r + 1)
           IN  /\ rows[r].category <= rows[r + 1].category
               /\ (Flushes(C) = {} /\ Flushes(D) # {}) => rows[r].flushDraw = 1
               /\ (~has_straight(RanksIn(C)) /\ has_straight(RanksIn(D)))
                      => rows[r].outs > 0 /\ rows[r].alive > 0
<1> DEFINE C == SeenOn(raw, p, r)
           D == SeenOn(raw, p, r + 1)
           rows == FeatureRows(raw, p, now)
           x == raw[r + 7]
<1>1. r \in {1, 2} /\ r + 1 \in {2, 3} /\ r \in Streets /\ r + 1 \in Streets
      /\ ~(r > now) /\ ~(r + 1 > now)
  BY DEF Streets
<1>2. /\ C \in SUBSET Cards /\ D \in SUBSET Cards
      /\ Cardinality(C) \in {5, 6}
  <2>1. /\ C \in SUBSET Cards
        /\ Cardinality(C) = CASE r = 0 -> 2 [] r = 1 -> 5 [] r = 2 -> 6 [] OTHER -> 7
    BY <1>1, SeenCards
  <2>2. D \in SUBSET Cards
    BY <1>1, SeenCards
  <2> HIDE DEF C, D
  <2>3. QED
    BY <1>1, <2>1, <2>2
<1>3. D = C \cup {x} /\ x \in Cards
  <2>1. CASE r = 1
    <3>1. 5 .. 8 = 5 .. 7 \cup {8}
      OBVIOUS
    <3>2. Board(raw, 2) = Board(raw, 1) \cup {raw[8]}
      BY <3>1 DEF Board
    <3>3. QED
      BY <2>1, <3>2 DEF SeenOn
  <2>2. CASE r = 2
    <3>1. 5 .. 9 = 5 .. 8 \cup {9}
      OBVIOUS
    <3>2. Board(raw, 3) = Board(raw, 2) \cup {raw[9]}
      BY <3>1 DEF Board
    <3>3. QED
      BY <2>2, <3>2 DEF SeenOn
  <2>3. QED
    BY <1>1, <2>1, <2>2
<1>4. /\ rows[r] = Features(HoleCards(raw, p), Board(raw, r))
      /\ rows[r + 1] = Features(HoleCards(raw, p), Board(raw, r + 1))
  BY <1>1 DEF FeatureRows
<1>5. /\ rows[r + 1].category = hand_category(D)
      /\ rows[r].category = hand_category(C)
      /\ rows[r].flushDraw = IF max_suit_count(C) = 4 /\ hand_category(C) \notin {6, 9}
                             THEN 1 ELSE 0
      /\ rows[r].outs = IF hand_category(C) \in {5, 9} THEN 0
                        ELSE Least(8, straight_draw_outs(C))
      /\ rows[r].alive = IF hand_category(C) \in {5, 9} THEN 0
                         ELSE Least(4, straight_alive_windows(C))
  <2>1. ASSUME NEW hole, NEW board
        PROVE  LET S == hole \cup board
                   row == Features(hole, board)
               IN  /\ row.category = hand_category(S)
                   /\ row.flushDraw = IF max_suit_count(S) = 4 /\ hand_category(S) \notin {6, 9}
                                      THEN 1 ELSE 0
                   /\ row.outs = IF hand_category(S) \in {5, 9} THEN 0
                                 ELSE Least(8, straight_draw_outs(S))
                   /\ row.alive = IF hand_category(S) \in {5, 9} THEN 0
                                  ELSE Least(4, straight_alive_windows(S))
    BY DEF Features
  <2>2. C = HoleCards(raw, p) \cup Board(raw, r) /\ D = HoleCards(raw, p) \cup Board(raw, r + 1)
    BY DEF SeenOn
  <2> HIDE DEF rows, C, D
  <2>3. QED
    BY <1>4, <2>1, <2>2
<1> HIDE DEF C, D, rows, x
<1>6. rows[r].category <= rows[r + 1].category
  <2>1. C \in SUBSET D /\ Cardinality(C) >= 5
    BY <1>2, <1>3
  <2>2. QED
    BY <1>2, <1>5, <2>1, CategoryGrows
<1>7. ASSUME Flushes(C) = {}, Flushes(D) # {} PROVE rows[r].flushDraw = 1
  <2>1. Cardinality(C) >= 2
    BY <1>2
  <2>2. max_suit_count(C) = 4 /\ hand_category(C) \notin {6, 9}
    BY <1>2, <1>3, <1>7, <2>1, FlushDraw
  <2>3. QED
    BY <1>5, <2>2
<1>8. ASSUME ~has_straight(RanksIn(C)), has_straight(RanksIn(D))
      PROVE  rows[r].outs > 0 /\ rows[r].alive > 0
  <2>1. /\ hand_category(C) \notin {5, 9}
        /\ straight_draw_outs(C) \in Nat /\ straight_draw_outs(C) > 0
        /\ straight_alive_windows(C) \in Nat /\ straight_alive_windows(C) > 0
    BY <1>2, <1>3, <1>8, StraightDraw
  <2>2. QED
    BY <1>5, <2>1 DEF Least
<1>9. QED
  BY <1>6, <1>7, <1>8, Zenon DEF C, D, rows

(* For every deck of up to four suits, every deal and every street: the    *)
(* category is that of the best five cards, no category is lost, and each  *)
(* flush and straight was announced by the street before.                  *)
THEOREM FeaturesAreTrue == DealSpec => []FeaturesTellTheHand
<1>1. DealInv => CategoryIsBestFive
  <2>1. DealInv => /\ rawCards \in [1 .. 9 -> Cards] /\ IsInjective(rawCards)
                   /\ round \in Streets
    BY DEF DealInv
  <2>2. QED
    BY <2>1, CategoryShown, Zenon DEF CategoryIsBestFive
<1>2. DealInv => DrawsAnnounced
  <2> SUFFICES ASSUME DealInv, shown, NEW p \in Seats, NEW r \in 1 .. round - 1
               PROVE  LET rows == Observation(rawCards, p, round).features
                          seen(q) == HoleCards(rawCards, p) \cup Board(rawCards, q)
                      IN  /\ rows[r].category <= rows[r + 1].category
                          /\ (Flushes(seen(r)) = {} /\ Flushes(seen(r + 1)) # {})
                                 => rows[r].flushDraw = 1
                          /\ (/\ ~has_straight(RanksIn(seen(r)))
                              /\ has_straight(RanksIn(seen(r + 1))))
                                 => rows[r].outs > 0 /\ rows[r].alive > 0
    BY Zenon DEF DrawsAnnounced
  <2>1. /\ rawCards \in [1 .. 9 -> Cards] /\ IsInjective(rawCards)
        /\ round \in Streets
    BY DEF DealInv
  <2>2. Observation(rawCards, p, round).features = FeatureRows(rawCards, p, round)
    BY DEF Observation
  <2>3. LET rows == FeatureRows(rawCards, p, round)
            C == SeenOn(rawCards, p, r)
            D == SeenOn(rawCards, p, r + 1)
        IN  /\ rows[r].category <= rows[r + 1].category
            /\ (Flushes(C) = {} /\ Flushes(D) # {}) => rows[r].flushDraw = 1
            /\ (~has_straight(RanksIn(C)) /\ has_straight(RanksIn(D)))
                   => rows[r].outs > 0 /\ rows[r].alive > 0
    BY <2>1, DrawsShown, Zenon
  <2>4. QED
    BY <2>2, <2>3, Zenon DEF SeenOn
<1>3. QED
  BY <1>1, <1>2, InitDeal, DealStep, PTL DEF DealSpec, FeaturesTellTheHand
=============================================================================
