----------------------------- MODULE PlaySession -----------------------------
(***************************************************************************)
(* A human plays the trained policy: tools/play.py (the client) runs the   *)
(* binary with --play (cmd_play in src/commands.cpp, the server) and talks *)
(* to it over its stdin and stdout, one request and one answer at a time.  *)
(*                                                                         *)
(* An answer is a message here: a block of lines up to its OK.  A refusal  *)
(* is two messages, the client stops reading at the ERR.  Of a state the   *)
(* client needs whose turn it is, the mask and whether the hand is over.   *)
(***************************************************************************)
EXTENDS Integers, Sequences, SequencesExt

Seats == {0, 1}

CONSTANTS Hands,                \* --hands
          Masks,                \* the sets of slots that may be legal
          Utilities,            \* what a hand may be worth to each seat
          MaxDecisions          \* bound: decisions of a hand

ASSUME PlayAssumption ==
    /\ Hands \in Nat /\ MaxDecisions \in Nat \ {0}
    /\ Masks # {} /\ {} \notin Masks /\ Masks \subseteq SUBSET Nat
    /\ Utilities \subseteq [Seats -> Int]

VARIABLES server,       \* "loading", "repl" or "gone"
          stdin, open,  \* the requests under way; whether more can come
          stdout,       \* the messages under way
          table,        \* the server's environment
          client,       \* where the client is
          view,         \* the state it last parsed
          chosen,       \* the action it is about to send
          hand,         \* hands finished
          cumulative,   \* cumulative_mbb
          log,          \* the JSONL file: hands and actions of the human
          applied,      \* history: the human's actions the server applied
          utilities     \* history: the results of the hands finished

serverVars == <<server, table, applied, utilities>>
pipes == <<stdin, open, stdout>>
clientVars == <<client, view, chosen, hand, cumulative, log>>
vars == <<serverVars, pipes, clientVars>>

Slots == UNION Masks
NoSlot == -1

(* utility_p0 and utility_p1.  They need not cancel: of a tied pot that is *)
(* odd, one chip goes to neither.                                          *)
NoResult == [p \in Seats |-> 0]
NewHands == [player : {1}, mask : Masks, taken : {0}, over : {FALSE},
             utility : {NoResult}]
NoHand == CHOOSE t \in NewHands : TRUE

(* --seat -1: the human changes seats with every hand.                     *)
HumanSeat(h) == h % 2
HumansTurn(t) == t.player = HumanSeat(hand)

Request(kind, action) == [kind |-> kind, action |-> action]
Ask(kind) == stdin' = Append(stdin, Request(kind, NoSlot))
Answer(kind, body) == [kind |-> kind, body |-> body]
Says(kind) == stdout # <<>> /\ Head(stdout).kind = kind
Hear == stdout' = Tail(stdout)

Init == /\ server = "loading" /\ stdin = <<>> /\ open = TRUE /\ stdout = <<>>
        /\ table = NoHand
        /\ client = "handshake" /\ view = NoHand /\ chosen = NoSlot
        /\ hand = 0 /\ cumulative = 0 /\ log = <<>>
        /\ applied = <<>> /\ utilities = <<>>
-----------------------------------------------------------------------------
(* The server: the model is loaded and the environment reset ...           *)
ServerReady ==
    /\ server = "loading"
    /\ server' = "repl"
    /\ table' \in NewHands
    /\ stdout' = stdout \o <<Answer("setup", NoHand), Answer("READY", NoHand)>>
    /\ UNCHANGED <<stdin, open, applied, utilities, clientVars>>

(* ... or it ends: the file is not found, a signal reaches it (Ctrl-C      *)
(* reaches both processes), it is killed.                                  *)
ServerDies ==
    /\ server # "gone" /\ server' = "gone"
    /\ UNCHANGED <<table, applied, utilities, pipes, clientVars>>

Serve(kind) ==
    /\ server = "repl" /\ stdin # <<>> /\ Head(stdin).kind = kind
    /\ stdin' = Tail(stdin)
    /\ UNCHANGED <<open, clientVars>>

ServeInfo == /\ Serve("INFO")
             /\ stdout' = Append(stdout, Answer("INFO", NoHand))
             /\ UNCHANGED serverVars

ServeReset ==
    /\ Serve("RESET")
    /\ table' \in NewHands
    /\ stdout' = Append(stdout, Answer("RESET", table'))
    /\ UNCHANGED <<server, applied, utilities>>

(* The policy's sample is legal where it is taken.                         *)
ServeModel ==
    /\ Serve("MODEL")
    /\ \E slot \in table.mask :
          stdout' = Append(stdout, Answer("MODEL", [table EXCEPT !.mask = {slot}]))
    /\ UNCHANGED serverVars

(* What a legal action leads to.                                           *)
NextActors(t) == IF t.player = 1 THEN {0} ELSE Seats
Successors(t) ==
    (IF t.taken + 1 = MaxDecisions THEN {} ELSE
        [player : NextActors(t), mask : Masks, taken : {t.taken + 1},
         over : {FALSE}, utility : {NoResult}])
    \cup [player : {t.player}, mask : {{}}, taken : {t.taken + 1},
          over : {TRUE}, utility : Utilities]

ServeStep ==
    /\ Serve("STEP") /\ Head(stdin).action \in table.mask
    /\ table' \in Successors(table)
    /\ stdout' = Append(stdout, Answer("STEP", table'))
    /\ applied' = IF HumansTurn(table)
                  THEN Append(applied, [hand |-> hand, action |-> Head(stdin).action])
                  ELSE applied
    /\ utilities' = IF table'.over THEN Append(utilities, table'.utility)
                                   ELSE utilities
    /\ UNCHANGED server

(* An exception: the action is not legal, or the showdown finds no rank    *)
(* table.                                                                  *)
Refusal == <<Answer("ERR", NoHand), Answer("OK", NoHand)>>

RefuseStep ==
    /\ Serve("STEP")
    /\ stdout' = stdout \o Refusal
    /\ UNCHANGED serverVars

ServeQuit == /\ Serve("QUIT")
             /\ server' = "gone"
             /\ UNCHANGED <<table, applied, utilities, stdout>>

(* getline fails.                                                          *)
OnlyQuitEnds == FALSE           \* Faulty: the end of the input is ignored.
EndOfInput == stdin = <<>> /\ ~open

ServerEof == /\ server = "repl" /\ EndOfInput
             /\ server' = "gone"
             /\ UNCHANGED <<table, applied, utilities, pipes, clientVars>>

Server == \/ ServerReady \/ ServeInfo \/ ServeReset \/ ServeModel
          \/ ServeStep \/ RefuseStep \/ ServeQuit \/ ServerEof
-----------------------------------------------------------------------------
(* The client.  A pipe without a reader breaks on writing, one without a   *)
(* writer ends after what was written: an exception, and `finally`.        *)
Asking == {"info", "reset", "model", "step"}
Goto(from, to) == client = from /\ client' = to
Unwind == client' = "closing"

BreaksOff(place) ==
    /\ client = place /\ Unwind
    /\ UNCHANGED <<view, chosen, hand, cumulative, log, pipes, serverVars>>

(* __init__: until READY every line is shown.  Its exceptions come before  *)
(* the try block: the client ends and closes nothing.                      *)
ReadSetup ==
    /\ client = "handshake" /\ Says("setup") /\ Hear
    /\ UNCHANGED <<stdin, open, clientVars, serverVars>>

HandshakeDone ==
    /\ Says("READY") /\ Hear /\ Goto("handshake", "info")
    /\ Ask("INFO")
    /\ UNCHANGED <<open, view, chosen, hand, cumulative, log, serverVars>>

(* The deadline has passed (it is looked at before a line is read), or the *)
(* server is gone.                                                         *)
HandshakeFails ==
    /\ Goto("handshake", "gone")
    /\ Says("READY") \/ (server = "gone" /\ stdout = <<>>)
    /\ open' = FALSE
    /\ UNCHANGED <<stdin, stdout, view, chosen, hand, cumulative, log, serverVars>>

ReadInfo ==
    /\ Says("INFO") /\ Hear /\ Goto("info", "deal")
    /\ UNCHANGED <<stdin, open, view, chosen, hand, cumulative, log, serverVars>>

MoreHands == hand < Hands

(* The loop over the hands; before the first one the human presses enter.  *)
DealHand ==
    /\ Goto("deal", "reset") /\ MoreHands /\ server # "gone"
    /\ Ask("RESET")
    /\ UNCHANGED <<open, stdout, view, chosen, hand, cumulative, log, serverVars>>

(* A state arrives: the hand is over, or someone is to act.                *)
Parse(kind) ==
    /\ Says(kind) /\ Hear
    /\ view' = Head(stdout).body
    /\ chosen' = NoSlot
    /\ UNCHANGED <<stdin, open, hand, cumulative, log, serverVars>>

ReadReset == Goto("reset", "turn") /\ Parse("RESET")
ReadStep == Goto("step", "turn") /\ Parse("STEP")

LogAction(action) == log' = Append(log, [hand |-> hand, action |-> action])

EverySlot == Slots              \* Faulty: the entry is not checked.
Offered == view.mask

(* prompt_action takes what the mask allows; it is logged before it is     *)
(* sent.                                                                   *)
HumanActs ==
    /\ Goto("turn", "send") /\ ~view.over /\ HumansTurn(view)
    /\ \E slot \in Offered : chosen' = slot /\ LogAction(slot)
    /\ UNCHANGED <<view, hand, cumulative, pipes, serverVars>>

BotsTurn == ~view.over /\ ~HumansTurn(view)

AskModel ==
    /\ Goto("turn", "model") /\ BotsTurn /\ server # "gone"
    /\ Ask("MODEL")
    /\ UNCHANGED <<open, stdout, view, chosen, hand, cumulative, log, serverVars>>

ReadModel ==
    /\ Says("MODEL") /\ Hear /\ Goto("model", "send")
    /\ chosen' \in Head(stdout).body.mask
    /\ UNCHANGED <<stdin, open, view, hand, cumulative, log, serverVars>>

SendStep ==
    /\ Goto("send", "step") /\ server # "gone"
    /\ stdin' = Append(stdin, Request("STEP", chosen))
    /\ UNCHANGED <<open, stdout, view, chosen, hand, cumulative, log, serverVars>>

(* What the hand was worth to the human.                                   *)
ResultOfSeat0(t) == t.utility[0]        \* Faulty: whoever sits there.
HumanResult(t) == t.utility[HumanSeat(hand)]

(* The result is shown; the human presses enter.                           *)
HandOver ==
    /\ Goto("turn", "deal") /\ view.over
    /\ cumulative' = cumulative + HumanResult(view)
    /\ hand' = hand + 1
    /\ view' = NoHand
    /\ UNCHANGED <<chosen, log, pipes, serverVars>>

AllPlayed == hand = Hands /\ BreaksOff("deal")

(* Leaving: q, Ctrl-D or Ctrl-C at a prompt.                               *)
Leaves == \/ BreaksOff("deal") /\ hand = 0
          \/ BreaksOff("turn") /\ (HumansTurn(view) \/ view.over)

(* Ctrl-C elsewhere.  In `finally`, as before the try block, it ends the   *)
(* client at once: the server is left with what is in its pipe, and then   *)
(* the end of it.                                                          *)
CutShort ==
    /\ client \in {"handshake", "closing", "waiting"} /\ client' = "gone"
    /\ open' = FALSE
    /\ UNCHANGED <<stdin, stdout, view, chosen, hand, cumulative, log, serverVars>>
Interrupted == CutShort \/ \E place \in Asking \cup {"deal", "turn", "send"} :
                              BreaksOff(place)

(* An ERR is read: its OK stays in the pipe.                               *)
IgnoreError(place) ==           \* Faulty: taken for an answer.
    Hear /\ client' = "turn"
    /\ UNCHANGED <<stdin, open, view, chosen, hand, cumulative, log, serverVars>>
RaiseError(place) ==
    Hear /\ Unwind
    /\ UNCHANGED <<stdin, open, view, chosen, hand, cumulative, log, serverVars>>

Refused == client = "step" /\ Says("ERR") /\ RaiseError(client)

PipeBroken ==
    /\ server = "gone" /\ stdout = <<>>
    /\ \/ \E place \in Asking \cup {"send"} : BreaksOff(place)
       \/ BreaksOff("deal") /\ MoreHands
       \/ BreaksOff("turn") /\ BotsTurn

(* engine.close(): QUIT if the server lives, two seconds, kill.            *)
SayQuit ==
    /\ Goto("closing", "waiting")
    /\ IF server = "gone" THEN UNCHANGED stdin ELSE Ask("QUIT")
    /\ UNCHANGED <<open, stdout, view, chosen, hand, cumulative, log, serverVars>>

Exit ==
    /\ Goto("waiting", "gone")
    /\ server' = "gone" /\ open' = FALSE
    /\ UNCHANGED <<stdin, stdout, table, applied, utilities,
                   view, chosen, hand, cumulative, log>>

Client == \/ ReadSetup \/ HandshakeDone \/ HandshakeFails \/ ReadInfo
          \/ ReadReset \/ ReadStep
          \/ AskModel \/ ReadModel \/ SendStep \/ (DealHand /\ hand > 0)
          \/ AllPlayed \/ Refused \/ PipeBroken \/ SayQuit \/ Exit

Human == (DealHand /\ hand = 0) \/ HandOver \/ HumanActs \/ Leaves \/ Interrupted

Over == client = "gone" /\ server = "gone" /\ UNCHANGED vars

Next == Server \/ ServerDies \/ Client \/ Human \/ Over

Spec == Init /\ [][Next]_vars
FairSpec == Spec /\ WF_vars(Server) /\ WF_vars(Client)
-----------------------------------------------------------------------------
(***************************************************************************)
(* Properties.                                                             *)
(***************************************************************************)
KindOf == [info |-> "INFO", reset |-> "RESET", model |-> "MODEL", step |-> "STEP"]

(* The types, the numbers of messages under way among them.                *)
TypeOK ==
    /\ server \in {"loading", "repl", "gone"} /\ open \in BOOLEAN
    /\ client \in Asking \cup {"handshake", "deal", "turn", "send", "closing",
                               "waiting", "gone"}
    /\ Len(stdin) <= 2 /\ Len(stdout) <= 3
    /\ chosen \in Slots \cup {NoSlot} /\ hand \in 0 .. Hands
    /\ cumulative \in Int

(* The answer that arrives is the one to the last request: nothing of an   *)
(* earlier answer is left in the pipe while the game goes on.              *)
AnswersInStep ==
    /\ client \in {"deal", "turn", "send"} => stdin = <<>> /\ stdout = <<>>
    /\ client \in Asking =>
          /\ Len(stdin) + Len(stdout) <= 1 \/ (stdin = <<>> /\ stdout = Refusal)
          /\ \A i \in DOMAIN stdout : stdout[i].kind \in {KindOf[client], "ERR", "OK"}

(* The view the client decides on is the state the server decides by:      *)
(* every action sent is legal when it arrives.                             *)
StepsAreLegal ==
    \A i \in DOMAIN stdin :
        stdin[i].kind = "STEP" => stdin[i].action \in table.mask

(* The policy is evaluated only where the bot is to act, so its hand is    *)
(* not given away.                                                         *)
ModelOnBotsTurn ==
    \A i \in DOMAIN stdin :
        stdin[i].kind = "MODEL" => ~table.over /\ ~HumansTurn(table)

(* The log has what the human played, in order, hand by hand: at most the  *)
(* last record is of an action that never reached the game.                *)
LogIsWhatWasPlayed ==
    \/ log = applied
    \/ Len(log) = Len(applied) + 1 /\ IsPrefix(applied, log)

(* The running total is the sum of the hands' results, each that of the    *)
(* seat the human had in it, ties of an odd pot included.                  *)
SumToHuman ==
    SumFunction([i \in 1 .. hand |-> utilities[i][HumanSeat(i - 1)]])
CumulativeIsSum == cumulative = SumToHuman

(* So what the session leaves behind is what was played in it.             *)
SessionIsRecorded == LogIsWhatWasPlayed /\ CumulativeIsSum

(* A request is answered, or the client ends: it never waits forever.      *)
RequestsAnswered == (client \in Asking) ~> (client \notin Asking)

(* However the client ends, no server stays behind.                        *)
NoServerLeft == (client = "gone") ~> (server = "gone")

(* Neither side of the pipes is left waiting for the other.                *)
NobodyIsLeftWaiting == RequestsAnswered /\ NoServerLeft
-----------------------------------------------------------------------------
(***************************************************************************)
(* The inductive invariant: the types, and                                 *)
(***************************************************************************)
Tables == [player : Seats, mask : SUBSET Slots, taken : Nat, over : BOOLEAN,
           utility : [Seats -> Int]]
Typed == /\ server \in {"loading", "repl", "gone"} /\ open \in BOOLEAN
         /\ client \in Asking \cup {"handshake", "deal", "turn", "send",
                                    "closing", "waiting", "gone"}
         /\ table \in Tables
         /\ chosen \in Slots \cup {NoSlot}
         /\ hand \in 0 .. Hands
         /\ client \in {"reset", "turn", "model", "send", "step"} => hand < Hands
         /\ cumulative \in Int

(* what is under way in every place of the client;                         *)
Pending(kind, action) == stdin = <<Request(kind, action)>> /\ stdout = <<>>
Answered(kind, body) == stdin = <<>> /\ stdout = <<Answer(kind, body)>>
Quiet == stdin = <<>> /\ stdout = <<>>

Handshake ==
    stdin = <<>> /\ IF server = "loading" THEN stdout = <<>>
                    ELSE stdout \in {<<>>, <<Answer("READY", NoHand)>>,
                                     <<Answer("setup", NoHand), Answer("READY", NoHand)>>}

(* What a client that ends leaves: at most a last request that has no      *)
(* answer yet, and QUIT;                                                   *)
Quitting == Request("QUIT", NoSlot)
Leftover ==
    /\ Len(stdout) <= 2
    /\ \/ stdin = <<>>
       \/ stdin = <<Quitting>> /\ client # "closing"
       \/ stdin = <<Head(stdin)>> /\ stdout = <<>>
       \/ stdin = <<Head(stdin), Quitting>> /\ stdout = <<>> /\ client # "closing"
    /\ server = "loading" => stdin = <<>> /\ stdout = <<>>
    /\ StepsAreLegal /\ ModelOnBotsTurn

Dialogue ==
    CASE client = "handshake" -> Handshake
      [] client = "info"  -> Pending("INFO", NoSlot) \/ Answered("INFO", NoHand)
      [] client = "reset" -> Pending("RESET", NoSlot) \/ Answered("RESET", table)
      [] client = "model" -> \/ Pending("MODEL", NoSlot)
                             \/ \E slot \in table.mask :
                                   Answered("MODEL", [table EXCEPT !.mask = {slot}])
      [] client = "step"  -> \/ \E slot \in table.mask : Pending("STEP", slot)
                             \/ Answered("STEP", table)
                             \/ stdin = <<>> /\ stdout = Refusal
      [] client \in {"deal", "turn", "send"} -> Quiet
      [] OTHER -> Leftover

(* and the client knows the table while it is not waiting for an answer.   *)
ViewIsCurrent ==
    /\ server = "loading" => client \in {"handshake", "gone"}
    /\ client \in {"turn", "model", "send"} => view = table
    /\ client = "model" => ~table.over /\ ~HumansTurn(table)
    /\ client = "send" => chosen \in table.mask

IInv == Typed /\ Dialogue /\ ViewIsCurrent

(* What the session has recorded in every place of the client.  A finished *)
(* hand takes no action, and a hand that was just dealt is not finished.     *)
Finished == /\ table.over => table.mask = {}
            /\ client = "reset" /\ stdout # <<>> => ~table.over

(* The log is one record ahead from the human's choice until the server    *)
(* has applied it, and for good if it never does.                          *)
Ahead(action) ==
    log = IF HumansTurn(table) THEN Append(applied, [hand |-> hand, action |-> action])
                               ELSE applied
Sent == stdin # <<>> /\ Head(stdin).kind = "STEP"
LogFollows ==
    /\ applied \in Seq([hand : Nat, action : Slots])
    /\ CASE client = "send" -> Ahead(chosen)
         [] client \in {"step", "closing", "waiting", "gone"} /\ Sent ->
                Ahead(Head(stdin).action)
         [] client = "step" /\ stdin = <<>> /\ stdout = Refusal -> LogIsWhatWasPlayed
         [] client \in {"closing", "waiting", "gone"} /\ ~Sent -> LogIsWhatWasPlayed
         [] OTHER -> log = applied

(* The server is one result ahead from the end of a hand until the human   *)
(* has seen it, and for good if the human leaves first.                    *)
ResultsFollow ==
    /\ utilities \in Seq([Seats -> Int])
    /\ CASE client \in {"turn", "model", "send", "step"} /\ table.over ->
                Len(utilities) = hand + 1 /\ utilities[hand + 1] = table.utility
         [] client \in {"closing", "waiting", "gone"} ->
                Len(utilities) \in {hand} \cup {n \in {hand + 1} : ~Sent}
         [] OTHER -> Len(utilities) = hand

Records == Finished /\ LogFollows /\ ResultsFollow /\ CumulativeIsSum
=============================================================================
