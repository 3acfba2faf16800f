------------------------------ MODULE RankTable ------------------------------
(***************************************************************************)
(* The hand ranks of src/Game/Utility/Utility.cpp: one table of the whole  *)
(* process, loaded by the first showdown that needs it.  With the thread   *)
(* pool (StepThreadPool) environments reach their showdowns in several     *)
(* threads, and neither the flag nor the table is protected.               *)
(*                                                                         *)
(* A hand is its rank.  A lookup walks seven cells of the table; one that  *)
(* is zero leads to the row of zeros at its head, and so to the rank 0.    *)
(***************************************************************************)
EXTENDS Integers, FiniteSets

CONSTANTS Threads,
          Ranks,                \* the ranks hands may have
          MaxShowdowns          \* bound: showdowns of a thread

(* 0 is the rank of no hand.                                               *)
ASSUME RanksAssumption == Ranks \subseteq Nat \ {0}

VARIABLES initialized,
          table,        \* HR: "zero" or "loaded"
          running,      \* FALSE once an exception has left a thread
          pc,
          cards,        \* the two hands of a thread's showdown
          values,       \* hand0Val and hand1Val, as far as looked up
          winner,       \* of a thread's last showdown: 0, 1 or 3
          showdowns,    \* history: showdowns each thread has finished
          loads,        \* history: how often each thread cleared the table
          overlapped    \* history: whether another thread was loading the
                        \* table in the course of a thread's showdown

loadVars == <<initialized, table, running, loads>>
vars == <<loadVars, pc, cards, values, winner, showdowns, overlapped>>

Players == {0, 1}
Nobody == -1
Unknown == -1
NoValues == [p \in Players |-> Unknown]
Loading == {"clear", "read", "publish"}

Init == /\ initialized = FALSE /\ table = "zero" /\ running = TRUE
        /\ pc = [t \in Threads |-> "idle"]
        /\ cards \in [Threads -> {[p \in Players |-> r] : r \in Ranks}]
        /\ values = [t \in Threads |-> NoValues]
        /\ winner = [t \in Threads |-> Nobody]
        /\ showdowns = [t \in Threads |-> 0]
        /\ loads = [t \in Threads |-> 0]
        /\ overlapped = [t \in Threads |-> FALSE]

Goto(t, from, to) == running /\ pc[t] = from /\ pc' = [pc EXCEPT ![t] = to]
-----------------------------------------------------------------------------
(* makeTerminal: both hands are known.                                     *)
BeginShowdown(t) ==
    /\ Goto(t, "idle", "first check") /\ showdowns[t] < MaxShowdowns
    /\ cards' \in {[cards EXCEPT ![t] = c] : c \in [Players -> Ranks]}
    /\ overlapped' = [overlapped EXCEPT
                         ![t] = \E u \in Threads \ {t} : pc[u] \in Loading]
    /\ winner' = [winner EXCEPT ![t] = Nobody]
    /\ UNCHANGED <<loadVars, values, showdowns>>

(* The flag is read in LookupHandValue, and once more in initLookup.       *)
Check(t, from, next) ==
    /\ Goto(t, from, IF initialized THEN "lookup" ELSE next)
    /\ UNCHANGED <<loadVars, cards, values, winner, showdowns>>

FirstCheck(t) ==
    /\ Check(t, "first check", "second check")
    /\ UNCHANGED overlapped

(* From here on this thread is a loader, whoever else is.                  *)
SecondCheck(t) ==
    /\ Check(t, "second check", "clear")
    /\ overlapped' = IF initialized THEN overlapped
                     ELSE [u \in Threads |-> overlapped[u] \/ u # t]

Clear(t) ==
    /\ Goto(t, "clear", "read")
    /\ table' = "zero"
    /\ loads' = [loads EXCEPT ![t] = @ + 1]
    /\ UNCHANGED <<initialized, running, cards, values, winner, showdowns,
                   overlapped>>

ReadNothing == table' = table                   \* Faulty: fread is forgotten.
ReadAll == table' = "loaded"

Read(t) ==
    /\ Goto(t, "read", "publish")
    /\ ReadAll
    /\ UNCHANGED <<initialized, running, loads, cards, values, winner,
                   showdowns, overlapped>>

(* No file, or a short one: the exception leaves the worker, and ends the  *)
(* program.                                                                *)
ReadFails(t) ==
    /\ Goto(t, "read", "idle")
    /\ running' = FALSE
    /\ UNCHANGED <<initialized, table, loads, cards, values, winner, showdowns,
                   overlapped>>

SetFlag == initialized' = TRUE

Publish(t) ==
    /\ Goto(t, "publish", "lookup")
    /\ SetFlag
    /\ UNCHANGED <<table, running, loads, cards, values, winner, showdowns,
                   overlapped>>

RankOf(t, p) == IF table = "loaded" THEN cards[t][p] ELSE 0

Stored(t, p) == values' = [values EXCEPT ![t][p] = RankOf(t, p)]

(* The two lookups of getWinner; the flag is checked before each.          *)
LookupFirst(t) ==
    /\ values[t][0] = Unknown
    /\ Goto(t, "lookup", "first check")
    /\ Stored(t, 0)
    /\ UNCHANGED <<loadVars, cards, winner, showdowns, overlapped>>

LookupSecond(t) ==
    /\ values[t][0] # Unknown
    /\ Goto(t, "lookup", "compare")
    /\ Stored(t, 1)
    /\ UNCHANGED <<loadVars, cards, winner, showdowns, overlapped>>

LowerWins(v) == IF v[0] = v[1] THEN 3 ELSE IF v[0] > v[1] THEN 1 ELSE 0 \* Faulty.
WinnerOf(v) == IF v[0] = v[1] THEN 3 ELSE IF v[0] > v[1] THEN 0 ELSE 1

Compare(t) ==
    /\ Goto(t, "compare", "idle")
    /\ winner' = [winner EXCEPT ![t] = WinnerOf(values[t])]
    /\ values' = [values EXCEPT ![t] = NoValues]
    /\ showdowns' = [showdowns EXCEPT ![t] = @ + 1]
    /\ UNCHANGED <<loadVars, cards, overlapped>>

Step(t) == \/ BeginShowdown(t)
           \/ FirstCheck(t) \/ SecondCheck(t)
           \/ Clear(t) \/ Read(t) \/ ReadFails(t) \/ Publish(t)
           \/ LookupFirst(t) \/ LookupSecond(t) \/ Compare(t)

Finished == /\ ~running \/ \A t \in Threads : pc[t] = "idle" /\ showdowns[t] = MaxShowdowns
            /\ UNCHANGED vars

Next == (\E t \in Threads : Step(t)) \/ Finished

Spec == Init /\ [][Next]_vars
-----------------------------------------------------------------------------
(***************************************************************************)
(* Properties.                                                             *)
(***************************************************************************)
(* Types, and no thread loads the table twice.                             *)
TypeOK == /\ initialized \in BOOLEAN /\ running \in BOOLEAN
          /\ table \in {"zero", "loaded"}
          /\ cards \in [Threads -> [Players -> Ranks]]
          /\ values \in [Threads -> [Players -> Ranks \cup {Unknown, 0}]]
          /\ winner \in [Threads -> {Nobody, 0, 1, 3}]
          /\ loads \in [Threads -> {0, 1}]
          /\ overlapped \in [Threads -> BOOLEAN]

(* Once the flag is set and the last loader has left, the table is whole,  *)
(* whatever order the loaders cleared and filled it in.                    *)
SettlesLoaded ==
    (running /\ initialized /\ \A t \in Threads : pc[t] \notin Loading)
        => table = "loaded"

RightWinner(t) ==
    winner[t] = IF cards[t][0] = cards[t][1] THEN 3
                ELSE IF cards[t][0] > cards[t][1] THEN 0 ELSE 1

(* A showdown is decided wrongly only if another thread was loading the    *)
(* table in its course: after the first showdowns, and in a single thread  *)
(* always, the stronger hand wins.                                         *)
WrongOnlyNextToALoader ==
    \A t \in Threads : winner[t] # Nobody => (RightWinner(t) \/ overlapped[t])
-----------------------------------------------------------------------------
(***************************************************************************)
(* The inductive invariant: TypeOK and, while no load has failed,          *)
(***************************************************************************)
PCs == {"idle", "first check", "second check", "lookup", "compare"} \cup Loading

(* a thread that has loaded has set the flag, and loads but once;          *)
LoadsOnce ==
    running => \A t \in Threads :
        /\ pc[t] = "clear" => loads[t] = 0
        /\ (loads[t] = 1 /\ pc[t] \notin Loading) => initialized

(* a table that is in use and cleared is about to be read again;           *)
ClearedIsReread ==
    (running /\ table = "zero"
       /\ (initialized \/ \E t \in Threads : pc[t] = "publish"))
        => \E t \in Threads : pc[t] = "read"

(* a thread that no loader has disturbed has no loader beside it, and has  *)
(* looked up its own hands' ranks;                                         *)
Undisturbed(t) ==
    /\ \A u \in Threads \ {t} : pc[u] \notin Loading
    /\ \A p \in Players : values[t][p] \in {Unknown, cards[t][p]}
    /\ pc[t] = "compare" => \A p \in Players : values[t][p] # Unknown
    /\ pc[t] = "lookup" => initialized

LoadersDisturb ==
    running => \A t \in Threads :
        (pc[t] # "idle" /\ ~overlapped[t]) => Undisturbed(t)

(* between showdowns nothing is half looked up.                            *)
IdleHoldsNothing ==
    running => \A t \in Threads : pc[t] = "idle" => values[t] = NoValues

IInv == /\ TypeOK /\ pc \in [Threads -> PCs]
        /\ LoadsOnce /\ ClearedIsReread
        /\ LoadersDisturb /\ IdleHoldsNothing
        /\ WrongOnlyNextToALoader
-----------------------------------------------------------------------------
(***************************************************************************)
(* What a comment of the repository says, and the code does not do.        *)
(***************************************************************************)
(* Transitioner.hpp: "evaluate both 7-card hands with the TwoPlusTwo       *)
(* lookup and pick the higher rank".                                       *)
HigherRankPicked == \A t \in Threads : winner[t] # Nobody => RightWinner(t)
=============================================================================
