-------------------------- MODULE PlaySession_proofs --------------------------
(***************************************************************************)
(* Proofs about PlaySession for any number of hands of any length, any     *)
(* masks and results.                                                      *)
(***************************************************************************)
EXTENDS PlaySession, SharedLemmas

(* Pipes hold at most two messages.                                        *)
LEMMA PipeFacts ==
    ASSUME NEW x, NEW y
    PROVE  /\ <<x>> # <<>> /\ <<x, y>> # <<>>
           /\ Head(<<x>>) = x /\ Head(<<x, y>>) = x
           /\ Tail(<<x>>) = <<>> /\ Tail(<<x, y>>) = <<y>>
           /\ Append(<<>>, x) = <<x>>
           /\ <<>> \o <<x, y>> = <<x, y>>
           /\ Len(<<>>) = 0 /\ Len(<<x>>) = 1 /\ Len(<<x, y>>) = 2
           /\ DOMAIN <<>> = {} /\ DOMAIN <<x>> = {1} /\ <<x>>[1] = x
  OBVIOUS

LEMMA PairFacts ==
    ASSUME NEW x, NEW y
    PROVE  /\ Append(<<x>>, y) = <<x, y>> /\ DOMAIN <<x, y>> = {1, 2}
           /\ <<x, y>>[1] = x /\ <<x, y>>[2] = y
<1>1. ASSUME NEW t, t = Append(<<x>>, y) PROVE t = <<x, y>>
  <2>1. <<x>> \in Seq({x, y})
    OBVIOUS
  <2>2. t \in Seq({x, y}) /\ Len(t) = 2 /\ t[1] = x /\ t[2] = y
    BY <1>1, <2>1
  <2>3. QED
    BY <2>2
<1>2. DOMAIN <<x, y>> = {1, 2}
  OBVIOUS
<1>3. <<x, y>>[1] = x /\ <<x, y>>[2] = y
  OBVIOUS
<1>4. QED
  BY <1>1, <1>2, <1>3

(* A hand is typed if its fields are.                                      *)
LEMMA FieldsTyped ==
    ASSUME NEW h,
           h = [player |-> h.player, mask |-> h.mask, taken |-> h.taken,
                over |-> h.over, utility |-> h.utility],
           h.player \in Seats, h.mask \in SUBSET Slots, h.taken \in Nat,
           h.over \in BOOLEAN, h.utility \in [Seats -> Int]
    PROVE  h \in Tables
  BY DEF Tables

LEMMA HandsTyped ==
    /\ NewHands \subseteq Tables /\ NoHand \in Tables
    /\ \A t \in NewHands : t.over = FALSE
<1>1. PICK m \in Masks : TRUE
  BY PlayAssumption
<1>2. [player |-> 1, mask |-> m, taken |-> 0, over |-> FALSE,
       utility |-> NoResult] \in NewHands
  BY DEF NewHands
<1>3. NoHand \in NewHands
  BY <1>2 DEF NoHand
<1>4. NewHands \subseteq Tables
  <2> SUFFICES ASSUME NEW h \in NewHands PROVE h \in Tables
    OBVIOUS
  <2>1. /\ h = [player |-> h.player, mask |-> h.mask, taken |-> h.taken,
                over |-> h.over, utility |-> h.utility]
        /\ h.player \in Seats /\ h.mask \in SUBSET Slots /\ h.taken \in Nat
        /\ h.utility \in [Seats -> Int]
    BY DEF NewHands, NoResult, Seats, Slots
  <2>2. h.over \in BOOLEAN
    BY DEF NewHands
  <2>3. QED
    BY <2>1, <2>2, FieldsTyped
<1>5. QED
  BY <1>3, <1>4 DEF NewHands

LEMMA SuccessorsTyped == ASSUME NEW t \in Tables PROVE Successors(t) \subseteq Tables
<1> DEFINE on == [player : NextActors(t), mask : Masks, taken : {t.taken + 1},
                 over : {FALSE}, utility : {NoResult}]
           done == [player : {t.player}, mask : {{}}, taken : {t.taken + 1},
                    over : {TRUE}, utility : Utilities]
<1> SUFFICES ASSUME NEW h \in on \cup done PROVE h \in Tables
  BY DEF Successors
<1>1. t.taken + 1 \in Nat /\ t.player \in Seats /\ NextActors(t) \subseteq Seats
  BY DEF Tables, NextActors, Seats
<1>2. CASE h \in on
  <2>1. /\ h = [player |-> h.player, mask |-> h.mask, taken |-> h.taken,
                over |-> h.over, utility |-> h.utility]
        /\ h.player \in Seats /\ h.mask \in SUBSET Slots /\ h.taken \in Nat
        /\ h.utility \in [Seats -> Int]
    BY <1>1, <1>2 DEF NoResult, Slots
  <2>2. h.over \in BOOLEAN
    BY <1>2
  <2>3. QED
    BY <2>1, <2>2, FieldsTyped
<1>3. CASE h \in done
  <2>1. /\ h = [player |-> h.player, mask |-> h.mask, taken |-> h.taken,
                over |-> h.over, utility |-> h.utility]
        /\ h.player \in Seats /\ h.mask \in SUBSET Slots /\ h.taken \in Nat
        /\ h.utility \in [Seats -> Int]
    BY <1>1, <1>3, PlayAssumption
  <2>2. h.over \in BOOLEAN
    BY <1>3
  <2>3. QED
    BY <2>1, <2>2, FieldsTyped
<1>4. QED
  BY <1>2, <1>3

LEMMA RequestFacts ==
    ASSUME NEW kind, NEW action
    PROVE  /\ Request(kind, action).kind = kind
           /\ Request(kind, action).action = action
           /\ Answer(kind, action).kind = kind
           /\ Answer(kind, action).body = action
  BY DEF Request, Answer

LEMMA AtMostTwo == \A n \in {0, 1, 2} : n <= 2
  OBVIOUS

LEMMA RefusalFacts ==
    /\ Refusal # <<>> /\ Len(Refusal) = 2
    /\ Head(Refusal).kind = "ERR" /\ Len(Tail(Refusal)) = 1
    /\ \A i \in DOMAIN Refusal : Refusal[i].kind \in {"ERR", "OK"}
  BY DEF Refusal, Answer

LEMMA InitIInv == Init => IInv
<1> SUFFICES ASSUME Init PROVE IInv
  OBVIOUS
<1>1. Typed
  BY HandsTyped, PlayAssumption DEF Init, Typed
<1>2. Dialogue
  BY DEF Init, Dialogue, Handshake
<1>3. ViewIsCurrent
  BY DEF Init, ViewIsCurrent
<1>4. QED
  BY <1>1, <1>2, <1>3 DEF IInv
-----------------------------------------------------------------------------
(* Requests reach a server that answers only one at a time: what is in the *)
(* pipe while it lives.                                                    *)
Ends == {"closing", "waiting", "gone"}

LEMMA Served ==
    ASSUME IInv, NEW kind, Serve(kind)
    PROVE  \/ kind = "INFO" /\ client = "info" /\ Pending("INFO", NoSlot)
           \/ kind = "RESET" /\ client = "reset" /\ Pending("RESET", NoSlot)
           \/ kind = "MODEL" /\ client = "model" /\ Pending("MODEL", NoSlot)
           \/ /\ kind = "STEP" /\ client = "step"
              /\ \E slot \in table.mask : Pending("STEP", slot)
           \/ client \in Ends /\ Leftover /\ kind = Head(stdin).kind
<1>1. server = "repl" /\ stdin # <<>> /\ Head(stdin).kind = kind
  BY DEF Serve
<1>2. CASE client = "info"
  BY <1>1, <1>2, PipeFacts, RequestFacts DEF IInv, Dialogue, Pending, Answered
<1>3. CASE client = "reset"
  BY <1>1, <1>3, PipeFacts, RequestFacts DEF IInv, Dialogue, Pending, Answered
<1>4. CASE client = "model"
  <2>1. Pending("MODEL", NoSlot)
    BY <1>1, <1>4 DEF IInv, Dialogue, Answered
  <2>2. kind = "MODEL"
    BY <1>1, <2>1, PipeFacts, RequestFacts DEF Pending
  <2>3. QED
    BY <1>4, <2>1, <2>2
<1>5. CASE client = "step"
  <2>1. PICK slot \in table.mask : Pending("STEP", slot)
    BY <1>1, <1>5 DEF IInv, Dialogue, Answered
  <2>2. kind = "STEP"
    BY <1>1, <2>1, PipeFacts, RequestFacts DEF Pending
  <2>3. QED
    BY <1>5, <2>1, <2>2
<1>6. CASE client \in {"handshake", "deal", "turn", "send"}
  BY <1>1, <1>6 DEF IInv, Dialogue, Quiet, Handshake
<1>7. CASE client \in Ends
  BY <1>1, <1>7 DEF IInv, Dialogue, Ends
<1>8. client \in Asking \cup {"handshake", "deal", "turn", "send",
                              "closing", "waiting", "gone"}
  BY DEF IInv, Typed
<1>9. QED
  BY <1>2, <1>3, <1>4, <1>5, <1>6, <1>7, <1>8 DEF Asking, Ends

(* What is left when a request of a client that ends was taken.            *)
LEMMA LeftoverServed ==
    ASSUME IInv, client \in Ends, NEW kind, Serve(kind)
    PROVE  /\ server = "repl" /\ stdin' = Tail(stdin) /\ open' = open
           /\ UNCHANGED <<client, view, chosen, hand, cumulative, log>>
           /\ stdin' = <<>> \/ (stdin' = <<Quitting>> /\ client # "closing")
           /\ Len(stdout) <= 2
           /\ kind = "QUIT" \/ stdout = <<>>
<1>1. /\ server = "repl" /\ stdin # <<>> /\ Head(stdin).kind = kind
      /\ stdin' = Tail(stdin) /\ open' = open
      /\ UNCHANGED <<client, view, chosen, hand, cumulative, log>>
  BY DEF Serve, clientVars
<1>2. Leftover
  BY <1>1 DEF IInv, Dialogue, Ends
<1>3. Len(stdout) <= 2
  BY <1>2 DEF Leftover
<1>4. CASE stdin = <<Quitting>> /\ client # "closing"
  BY <1>1, <1>3, <1>4, PipeFacts, RequestFacts DEF Quitting
<1>5. CASE stdin = <<Head(stdin)>> /\ stdout = <<>>
  BY <1>1, <1>3, <1>5, PipeFacts
<1>6. CASE stdin = <<Head(stdin), Quitting>> /\ stdout = <<>> /\ client # "closing"
  <2>1. PICK r : stdin = <<r, Quitting>>
    BY <1>6
  <2>2. stdin' = <<Quitting>>
    BY <1>1, <2>1, PipeFacts
  <2>3. QED
    BY <1>1, <1>3, <1>6, <2>2
<1>7. QED
  BY <1>1, <1>2, <1>4, <1>5, <1>6 DEF Leftover

LEMMA LeftoverKeepsIInv ==
    ASSUME IInv, client \in Ends, NEW kind, Serve(kind),
           server' \in {"repl", "gone"}, table' \in Tables, Len(stdout') <= 2
    PROVE  IInv'
<1>1. /\ server = "repl" /\ open' = open
      /\ UNCHANGED <<client, view, chosen, hand, cumulative>>
      /\ stdin' = <<>> \/ (stdin' = <<Quitting>> /\ client # "closing")
  BY LeftoverServed
<1>2. Typed' /\ ViewIsCurrent'
  BY <1>1 DEF IInv, Typed, ViewIsCurrent, Ends
<1>3. StepsAreLegal' /\ ModelOnBotsTurn'
  <2>1. CASE stdin' = <<>>
    BY <2>1, PipeFacts DEF StepsAreLegal, ModelOnBotsTurn
  <2>2. CASE stdin' = <<Quitting>>
    BY <2>2, PipeFacts, RequestFacts DEF StepsAreLegal, ModelOnBotsTurn, Quitting
  <2>3. QED
    BY <1>1, <2>1, <2>2
<1>4. Leftover'
  BY <1>1, <1>3 DEF Leftover
<1>5. Dialogue'
  BY <1>1, <1>4 DEF Dialogue, Ends
<1>6. QED
  BY <1>2, <1>5 DEF IInv

(* Its answers are as short as in the game.                                *)
LEMMA AnswersAreShort ==
    /\ \A kind, body : Len(Append(<<>>, Answer(kind, body))) <= 2
    /\ Len(<<>> \o Refusal) <= 2
<1>1. \A kind, body : Len(Append(<<>>, Answer(kind, body))) = 1
  BY PipeFacts
<1>2. Len(<<>> \o Refusal) = 2
  BY PipeFacts DEF Refusal
<1>3. QED
  BY <1>1, <1>2

LEMMA ServeLeftover ==
    ASSUME IInv, client \in Ends,
           ServeInfo \/ ServeReset \/ ServeModel \/ ServeStep \/ RefuseStep \/ ServeQuit
    PROVE  IInv'
<1>1. table \in Tables
  BY DEF IInv, Typed
<1>2. CASE ServeInfo
  <2>1. Serve("INFO") /\ UNCHANGED <<server, table>>
        /\ stdout' = Append(stdout, Answer("INFO", NoHand))
    BY <1>2 DEF ServeInfo, serverVars
  <2>2. server = "repl" /\ stdout = <<>>
    BY <2>1, LeftoverServed
  <2>3. QED
    BY <1>1, <2>1, <2>2, LeftoverKeepsIInv, AnswersAreShort
<1>3. CASE ServeReset
  <2>1. Serve("RESET") /\ server' = server /\ table' \in NewHands
        /\ stdout' = Append(stdout, Answer("RESET", table'))
    BY <1>3 DEF ServeReset
  <2>2. server = "repl" /\ stdout = <<>>
    BY <2>1, LeftoverServed
  <2>3. QED
    BY <2>1, <2>2, LeftoverKeepsIInv, AnswersAreShort, HandsTyped
<1>4. CASE ServeModel
  <2>1. PICK slot \in table.mask :
          stdout' = Append(stdout, Answer("MODEL", [table EXCEPT !.mask = {slot}]))
    BY <1>4 DEF ServeModel
  <2>2. Serve("MODEL") /\ UNCHANGED <<server, table>>
    BY <1>4 DEF ServeModel, serverVars
  <2>3. server = "repl" /\ stdout = <<>>
    BY <2>2, LeftoverServed
  <2>4. QED
    BY <1>1, <2>1, <2>2, <2>3, LeftoverKeepsIInv, AnswersAreShort
<1>5. CASE ServeStep
  <2>1. Serve("STEP") /\ server' = server /\ table' \in Successors(table)
        /\ stdout' = Append(stdout, Answer("STEP", table'))
    BY <1>5 DEF ServeStep
  <2>2. server = "repl" /\ stdout = <<>>
    BY <2>1, LeftoverServed
  <2>3. QED
    BY <1>1, <2>1, <2>2, LeftoverKeepsIInv, AnswersAreShort, SuccessorsTyped
<1>6. CASE RefuseStep
  <2>1. Serve("STEP") /\ UNCHANGED <<server, table>> /\ stdout' = stdout \o Refusal
    BY <1>6 DEF RefuseStep, serverVars
  <2>2. server = "repl" /\ stdout = <<>>
    BY <2>1, LeftoverServed
  <2>3. QED
    BY <1>1, <2>1, <2>2, LeftoverKeepsIInv, AnswersAreShort
<1>7. CASE ServeQuit
  <2>1. Serve("QUIT") /\ server' = "gone" /\ UNCHANGED <<table, stdout>>
    BY <1>7 DEF ServeQuit
  <2>2. Len(stdout') <= 2
    BY <2>1, LeftoverServed
  <2>3. QED
    BY <1>1, <2>1, <2>2, LeftoverKeepsIInv
<1>8. QED
  BY <1>2, <1>3, <1>4, <1>5, <1>6, <1>7

LEMMA ServerReadyStep == ASSUME IInv, ServerReady PROVE IInv'
<1>1. client \in {"handshake", "gone"} /\ stdin = <<>> /\ stdout = <<>>
  BY DEF ServerReady, IInv, ViewIsCurrent, Dialogue, Handshake, Leftover
<1>2. /\ stdout' = <<Answer("setup", NoHand), Answer("READY", NoHand)>>
      /\ server' = "repl" /\ stdin' = <<>> /\ client' = client
      /\ table' \in NewHands /\ open' = open /\ chosen' = chosen
      /\ hand' = hand /\ cumulative' = cumulative /\ view' = view
  BY <1>1, PipeFacts DEF ServerReady, clientVars
<1>3. Typed'
  BY <1>1, <1>2, HandsTyped DEF IInv, Typed
<1>4. Len(stdout') <= 2
  <2>1. Len(stdout') = 2
    BY <1>2, PipeFacts
  <2>2. QED
    BY <2>1
<1>5. StepsAreLegal' /\ ModelOnBotsTurn'
  BY <1>2, PipeFacts DEF StepsAreLegal, ModelOnBotsTurn
<1>6. Dialogue'
  BY <1>1, <1>2, <1>4, <1>5 DEF Dialogue, Handshake, Leftover
<1>7. ViewIsCurrent'
  BY <1>1, <1>2 DEF ViewIsCurrent
<1>8. QED
  BY <1>3, <1>6, <1>7 DEF IInv

(* What the end of the server leaves is still in the pipes.                *)
LEMMA ServerEndStep == ASSUME IInv, ServerDies \/ ServerEof PROVE IInv'
<1>1. /\ server' = "gone"
      /\ UNCHANGED <<table, stdin, open, stdout, client, view, chosen, hand, cumulative>>
  BY DEF ServerDies, ServerEof, pipes, clientVars
<1>2. Typed' /\ ViewIsCurrent'
  BY <1>1 DEF IInv, Typed, ViewIsCurrent, HumansTurn
<1>3. Dialogue'
  BY <1>1 DEF IInv, Dialogue, Handshake, Pending, Answered, Quiet, StepsAreLegal,
              ModelOnBotsTurn, HumansTurn, Leftover, Quitting
<1>4. QED
  BY <1>2, <1>3 DEF IInv

LEMMA ServeInfoStep == ASSUME IInv, ServeInfo, client \notin Ends PROVE IInv'
<1>1. client = "info" /\ Pending("INFO", NoSlot) /\ server = "repl"
  BY Served DEF ServeInfo, Serve
<1>2. /\ Answered("INFO", NoHand)'
      /\ UNCHANGED <<server, table, open, client, view, chosen, hand, cumulative>>
  BY <1>1, PipeFacts DEF ServeInfo, Serve, Pending, Answered, serverVars, clientVars
<1>3. Typed' /\ ViewIsCurrent'
  BY <1>1, <1>2 DEF IInv, Typed, ViewIsCurrent
<1>4. Dialogue'
  BY <1>1, <1>2 DEF Dialogue
<1>5. QED
  BY <1>3, <1>4 DEF IInv

LEMMA ServeResetStep == ASSUME IInv, ServeReset, client \notin Ends PROVE IInv'
<1>1. client = "reset" /\ Pending("RESET", NoSlot) /\ server = "repl"
  BY Served DEF ServeReset, Serve
<1>2. /\ Answered("RESET", table)' /\ table' \in NewHands
      /\ UNCHANGED <<server, open, client, view, chosen, hand, cumulative>>
  BY <1>1, PipeFacts DEF ServeReset, Serve, Pending, Answered, clientVars
<1>3. Typed' /\ ViewIsCurrent'
  BY <1>1, <1>2, HandsTyped DEF IInv, Typed, ViewIsCurrent
<1>4. Dialogue'
  BY <1>1, <1>2 DEF Dialogue
<1>5. QED
  BY <1>3, <1>4 DEF IInv

LEMMA ServeModelStep == ASSUME IInv, ServeModel, client \notin Ends PROVE IInv'
<1>1. client = "model" /\ Pending("MODEL", NoSlot) /\ server = "repl"
  BY Served DEF ServeModel, Serve
<1>2. PICK slot \in table.mask :
        stdout' = Append(stdout, Answer("MODEL", [table EXCEPT !.mask = {slot}]))
  BY DEF ServeModel
<1>3. UNCHANGED <<server, table, open, client, view, chosen, hand, cumulative>>
  BY DEF ServeModel, Serve, serverVars, clientVars
<1>4. stdin' = <<>> /\ stdout' = <<Answer("MODEL", [table EXCEPT !.mask = {slot}])>>
  BY <1>1, <1>2, PipeFacts DEF ServeModel, Serve, Pending
<1>5. Typed' /\ ViewIsCurrent'
  BY <1>1, <1>3 DEF IInv, Typed, ViewIsCurrent, HumansTurn
<1>6. Dialogue'
  BY <1>1, <1>2, <1>3, <1>4 DEF Dialogue, Answered
<1>7. QED
  BY <1>5, <1>6 DEF IInv

LEMMA ServeStepStep == ASSUME IInv, ServeStep, client \notin Ends PROVE IInv'
<1>1. client = "step" /\ server = "repl" /\ \E slot \in table.mask : Pending("STEP", slot)
  BY Served DEF ServeStep, Serve
<1>2. /\ Answered("STEP", table)' /\ table' \in Tables
      /\ UNCHANGED <<server, open, client, view, chosen, hand, cumulative>>
  BY <1>1, PipeFacts, SuccessorsTyped
     DEF ServeStep, Serve, Pending, Answered, clientVars, IInv, Typed
<1>3. Typed' /\ ViewIsCurrent'
  BY <1>1, <1>2 DEF IInv, Typed, ViewIsCurrent
<1>4. Dialogue'
  BY <1>1, <1>2 DEF Dialogue
<1>5. QED
  BY <1>3, <1>4 DEF IInv

LEMMA RefuseStepStep == ASSUME IInv, RefuseStep, client \notin Ends PROVE IInv'
<1>1. client = "step" /\ server = "repl" /\ \E slot \in table.mask : Pending("STEP", slot)
  BY Served DEF RefuseStep, Serve
<1>2. stdout' = Refusal
  BY <1>1, PipeFacts DEF RefuseStep, Pending, Refusal
<1>3. /\ stdin' = <<>>
      /\ UNCHANGED <<server, table, open, client, view, chosen, hand, cumulative>>
  BY <1>1, PipeFacts DEF RefuseStep, Serve, Pending, serverVars, clientVars
<1>4. Typed' /\ ViewIsCurrent'
  BY <1>1, <1>3 DEF IInv, Typed, ViewIsCurrent
<1>5. Dialogue'
  BY <1>1, <1>2, <1>3 DEF Dialogue
<1>6. QED
  BY <1>4, <1>5 DEF IInv

LEMMA ServeQuitStep == ASSUME IInv, ServeQuit PROVE client \in Ends
  BY Served DEF ServeQuit

-----------------------------------------------------------------------------
(* What the requests under way ask, in every place of the client.          *)
LEMMA RequestsFit ==
    ASSUME IInv
    PROVE  /\ StepsAreLegal /\ ModelOnBotsTurn
           /\ Len(stdin) <= 2 /\ Len(stdout) <= 2
<1>1. CASE stdin = <<>> /\ Len(stdout) <= 2
  BY <1>1, PipeFacts DEF StepsAreLegal, ModelOnBotsTurn
<1>2. CASE \E kind \in {"INFO", "RESET", "QUIT"} :
             stdin = <<Request(kind, NoSlot)>> /\ Len(stdout) <= 2
  BY <1>2, PipeFacts, RequestFacts DEF StepsAreLegal, ModelOnBotsTurn
<1>3. CASE client = "model" /\ Pending("MODEL", NoSlot)
  BY <1>3, PipeFacts, RequestFacts
     DEF StepsAreLegal, ModelOnBotsTurn, Pending, IInv, ViewIsCurrent
<1>4. CASE \E slot \in table.mask : Pending("STEP", slot)
  BY <1>4, PipeFacts, RequestFacts DEF StepsAreLegal, ModelOnBotsTurn, Pending
<1>5. ASSUME NEW kind, NEW body, Answered(kind, body)
      PROVE  stdin = <<>> /\ Len(stdout) <= 2
  BY <1>5, PipeFacts DEF Answered
<1>6. CASE client = "handshake"
  <2>1. \/ stdout = <<>> \/ stdout = <<Answer("READY", NoHand)>>
        \/ stdout = <<Answer("setup", NoHand), Answer("READY", NoHand)>>
    BY <1>6 DEF IInv, Dialogue, Handshake
  <2>2. Len(stdout) \in {0, 1, 2}
    <3>1. /\ Len(<<Answer("READY", NoHand)>>) = 1
          /\ Len(<<Answer("setup", NoHand), Answer("READY", NoHand)>>) = 2
      BY PipeFacts
    <3>2. QED
      BY <2>1, <3>1, PipeFacts
  <2>3. stdin = <<>>
    BY <1>6 DEF IInv, Dialogue, Handshake
  <2>4. Len(stdout) <= 2
    BY <2>2, AtMostTwo, Zenon
  <2>5. QED
    BY <1>1, <2>3, <2>4
<1>7. CASE client \in {"info", "reset"}
  <2>1. \/ Pending("INFO", NoSlot) \/ Pending("RESET", NoSlot)
        \/ Answered("INFO", NoHand) \/ Answered("RESET", table)
    BY <1>7 DEF IInv, Dialogue
  <2>2. CASE Pending("INFO", NoSlot) \/ Pending("RESET", NoSlot)
    <3>1. /\ Len(stdout) <= 2
          /\ stdin = <<Request("INFO", NoSlot)>> \/ stdin = <<Request("RESET", NoSlot)>>
      BY <2>2, PipeFacts DEF Pending
    <3>2. QED
      BY <1>2, <3>1
  <2>3. QED
    BY <1>1, <1>5, <2>1, <2>2
<1>8. CASE client = "model"
  <2>1. CASE Pending("MODEL", NoSlot)
    BY <1>3, <1>8, <2>1
  <2>2. CASE \E slot \in table.mask :
               Answered("MODEL", [table EXCEPT !.mask = {slot}])
    BY <1>1, <1>5, <2>2
  <2>3. QED
    BY <1>8, <2>1, <2>2 DEF IInv, Dialogue
<1>9. CASE client = "step"
  <2>1. CASE \E slot \in table.mask : Pending("STEP", slot)
    BY <1>4, <2>1
  <2>2. CASE Answered("STEP", table)
    BY <1>1, <1>5, <2>2
  <2>3. CASE stdin = <<>> /\ stdout = Refusal
    BY <1>1, <2>3, RefusalFacts
  <2>4. QED
    BY <1>9, <2>1, <2>2, <2>3 DEF IInv, Dialogue
<1>10. CASE client \in {"deal", "turn", "send"}
  BY <1>1, <1>10, PipeFacts DEF IInv, Dialogue, Quiet
<1>11. CASE client \in Ends
  <2>1. Leftover
    BY <1>11 DEF IInv, Dialogue, Ends
  <2>2. Len(stdin) \in {0, 1, 2}
    BY <2>1, PipeFacts DEF Leftover
  <2>3. Len(stdin) <= 2
    BY <2>2, AtMostTwo, Zenon
  <2>4. QED
    BY <2>1, <2>3 DEF Leftover
<1>12. client \in Asking \cup {"handshake", "deal", "turn", "send",
                               "closing", "waiting", "gone"}
  BY DEF IInv, Typed
<1>13. QED
  BY <1>6, <1>7, <1>8, <1>9, <1>10, <1>11, <1>12 DEF Asking, Ends

(* While the client is in the dialogue there is at most one request, and   *)
(* then no answer.                                                         *)
Live == Asking \cup {"deal", "turn", "send"}

LEMMA LiveFacts ==
    ASSUME IInv, client \in Live
    PROVE  /\ server # "loading"
           /\ stdin = <<>> \/ (stdin = <<Head(stdin)>> /\ stdout = <<>>)
<1>1. server # "loading"
  BY DEF IInv, ViewIsCurrent, Live, Asking
<1>2. CASE \E kind, action : Pending(kind, action)
  BY <1>1, <1>2, PipeFacts DEF Pending
<1>3. CASE stdin = <<>>
  BY <1>1, <1>3
<1>4. QED
  BY <1>2, <1>3 DEF IInv, Dialogue, Live, Asking, Answered, Quiet

(* An exception, an interrupt, or the end of the game: the client starts   *)
(* to close.                                                               *)
LEMMA UnwindStep ==
    ASSUME IInv, client \in Live, client' = "closing", Len(stdout') <= 2,
           UNCHANGED <<stdin, open, view, chosen, hand, cumulative, server, table>>,
           stdout' = stdout \/ stdin = <<>>
    PROVE  IInv'
<1>1. stdin = <<>> \/ (stdin = <<Head(stdin)>> /\ stdout = <<>>)
  BY LiveFacts
<1>2. server # "loading"
  BY LiveFacts
<1>3. Typed' /\ ViewIsCurrent'
  BY <1>2 DEF IInv, Typed, ViewIsCurrent
<1>4. StepsAreLegal' /\ ModelOnBotsTurn'
  BY RequestsFit DEF StepsAreLegal, ModelOnBotsTurn, HumansTurn
<1>5. Leftover'
  BY <1>1, <1>2, <1>4 DEF Leftover
<1>6. Dialogue'
  BY <1>5 DEF Dialogue
<1>7. QED
  BY <1>3, <1>6 DEF IInv

LEMMA BreaksOffStep ==
    ASSUME IInv, NEW place \in Live, BreaksOff(place) PROVE IInv'
<1>1. /\ client = place /\ client' = "closing"
      /\ UNCHANGED <<stdin, stdout, open, view, chosen, hand, cumulative, server, table>>
  BY DEF BreaksOff, Unwind, pipes, serverVars
<1>2. Len(stdout') <= 2
  BY <1>1, RequestsFit
<1>3. QED
  BY <1>1, <1>2, UnwindStep

LEMMA LeavingStep ==
    ASSUME IInv,
           \/ PipeBroken \/ AllPlayed \/ Leaves
           \/ \E place \in Asking \cup {"deal", "turn", "send"} : BreaksOff(place)
    PROVE  IInv'
<1>1. \E place \in Live : BreaksOff(place)
  BY DEF PipeBroken, AllPlayed, Leaves, Live
<1>2. QED
  BY <1>1, BreaksOffStep

LEMMA RefusedStep == ASSUME IInv, Refused PROVE IInv'
<1>1. /\ client = "step" /\ stdout # <<>> /\ Head(stdout).kind = "ERR"
      /\ stdout' = Tail(stdout) /\ client' = "closing"
      /\ UNCHANGED <<stdin, open, view, chosen, hand, cumulative, server, table>>
  BY DEF Refused, Says, RaiseError, Hear, Unwind, serverVars
<1>2. ~Answered("STEP", table)
  BY <1>1, PipeFacts, RequestFacts DEF Answered
<1>3. stdin = <<>> /\ stdout = Refusal
  BY <1>1, <1>2 DEF IInv, Dialogue, Pending
<1>4. Len(stdout') <= 2
  <2>1. stdout' = Tail(Refusal)
    BY <1>1, <1>3
  <2>2. Len(Tail(Refusal)) \in {0, 1, 2}
    BY RefusalFacts
  <2>3. QED
    BY <2>1, <2>2, AtMostTwo, Zenon
<1>5. QED
  BY <1>1, <1>3, <1>4, UnwindStep DEF Live, Asking

LEMMA SayQuitStep == ASSUME IInv, SayQuit PROVE IInv'
<1>1. /\ client = "closing" /\ client' = "waiting"
      /\ UNCHANGED <<stdout, open, view, chosen, hand, cumulative, server, table>>
  BY DEF SayQuit, Goto, serverVars
<1>2. Typed' /\ ViewIsCurrent'
  BY <1>1 DEF IInv, Typed, ViewIsCurrent
<1>3. /\ Leftover /\ server # "loading" /\ StepsAreLegal /\ ModelOnBotsTurn
      /\ stdin = <<>> \/ (stdin = <<Head(stdin)>> /\ stdout = <<>>)
  BY <1>1 DEF IInv, Dialogue, Leftover, ViewIsCurrent
<1>4. CASE stdin' = stdin
  <2>1. StepsAreLegal' /\ ModelOnBotsTurn'
    BY <1>1, <1>3, <1>4 DEF StepsAreLegal, ModelOnBotsTurn, HumansTurn
  <2>2. Leftover'
    BY <1>1, <1>3, <1>4, <2>1 DEF Leftover
  <2>3. QED
    BY <1>1, <1>2, <2>2 DEF Dialogue, IInv
<1>5. CASE stdin' = Append(stdin, Quitting)
  <2>1. CASE stdin = <<>>
    <3>1. stdin' = <<Quitting>>
      BY <1>5, <2>1, PipeFacts
    <3>2. StepsAreLegal' /\ ModelOnBotsTurn'
      BY <3>1, PipeFacts, RequestFacts DEF StepsAreLegal, ModelOnBotsTurn, Quitting
    <3>3. Leftover'
      BY <1>1, <1>3, <3>1, <3>2 DEF Leftover
    <3>4. QED
      BY <1>1, <1>2, <3>3 DEF Dialogue, IInv
  <2>2. CASE stdin = <<Head(stdin)>> /\ stdout = <<>>
    <3> DEFINE r == Head(stdin)
    <3>0. stdin = <<r>>
      BY <2>2
    <3> HIDE DEF r
    <3>1. stdin' = <<r, Quitting>> /\ Head(stdin') = r
      BY <1>5, <3>0, PipeFacts, PairFacts
    <3>2. StepsAreLegal' /\ ModelOnBotsTurn'
      <4>1. /\ r.kind = "STEP" => r.action \in table.mask
            /\ r.kind = "MODEL" => ~table.over /\ ~HumansTurn(table)
        <5>1. 1 \in DOMAIN stdin /\ stdin[1] = r
          BY <3>0, PipeFacts
        <5>2. QED
          BY <1>3, <5>1 DEF StepsAreLegal, ModelOnBotsTurn
      <4>2. \A i \in DOMAIN stdin' : stdin'[i] = r \/ stdin'[i].kind = "QUIT"
        BY <3>1, PairFacts, RequestFacts DEF Quitting
      <4>3. QED
        BY <1>1, <4>1, <4>2 DEF StepsAreLegal, ModelOnBotsTurn, HumansTurn
    <3>3. Leftover'
      BY <1>1, <1>3, <2>2, <3>1, <3>2 DEF Leftover
    <3>4. QED
      BY <1>1, <1>2, <3>3 DEF Dialogue, IInv
  <2>3. QED
    BY <1>3, <2>1, <2>2
<1>6. QED
  BY <1>4, <1>5 DEF SayQuit, Ask, Quitting

(* The client is gone.                                                     *)
LEMMA EndStep == ASSUME IInv, HandshakeFails \/ CutShort \/ Exit PROVE IInv'
<1>1. /\ client \in {"handshake", "closing", "waiting"} /\ client' = "gone"
      /\ open' = FALSE /\ server' \in {server, "gone"}
      /\ UNCHANGED <<stdin, stdout, view, chosen, hand, cumulative, table>>
  BY DEF HandshakeFails, CutShort, Exit, Goto, serverVars
<1>2. Typed' /\ ViewIsCurrent'
  BY <1>1 DEF IInv, Typed, ViewIsCurrent
<1>3. /\ Len(stdout) <= 2 /\ StepsAreLegal' /\ ModelOnBotsTurn'
  BY <1>1, RequestsFit DEF StepsAreLegal, ModelOnBotsTurn, HumansTurn
<1>4. Leftover'
  BY <1>1, <1>3 DEF IInv, Dialogue, Handshake, Leftover
<1>5. Dialogue'
  BY <1>1, <1>4 DEF Dialogue
<1>6. QED
  BY <1>2, <1>5 DEF IInv
-----------------------------------------------------------------------------
(* While nothing is under way, and no answer has just come in.             *)
LEMMA ReadSetupStep == ASSUME IInv, ReadSetup PROVE IInv'
<1>1. /\ client = "handshake" /\ stdout # <<>> /\ Head(stdout).kind = "setup"
      /\ stdout' = Tail(stdout)
      /\ UNCHANGED <<stdin, open, client, view, chosen, hand, cumulative, server, table>>
  BY DEF ReadSetup, Says, Hear, clientVars, serverVars
<1>2. stdout # <<Answer("READY", NoHand)>>
  BY <1>1, PipeFacts, RequestFacts
<1>3. /\ stdin = <<>> /\ server # "loading"
      /\ stdout = <<Answer("setup", NoHand), Answer("READY", NoHand)>>
  BY <1>1, <1>2 DEF IInv, Dialogue, Handshake
<1>4. stdout' = <<Answer("READY", NoHand)>>
  BY <1>1, <1>3, PipeFacts
<1>5. Typed' /\ ViewIsCurrent'
  BY <1>1 DEF IInv, Typed, ViewIsCurrent
<1>6. Dialogue'
  BY <1>1, <1>3, <1>4 DEF Dialogue, Handshake
<1>7. QED
  BY <1>5, <1>6 DEF IInv

LEMMA HandshakeDoneStep == ASSUME IInv, HandshakeDone PROVE IInv'
<1>1. /\ client = "handshake" /\ client' = "info"
      /\ stdout # <<>> /\ Head(stdout).kind = "READY" /\ stdout' = Tail(stdout)
      /\ stdin' = Append(stdin, Request("INFO", NoSlot))
      /\ UNCHANGED <<open, view, chosen, hand, cumulative, server, table>>
  BY DEF HandshakeDone, Goto, Says, Hear, Ask, serverVars
<1>2. stdout # <<Answer("setup", NoHand), Answer("READY", NoHand)>>
  BY <1>1, PipeFacts, RequestFacts
<1>3. /\ stdin = <<>> /\ server # "loading"
      /\ stdout = <<Answer("READY", NoHand)>>
  BY <1>1, <1>2 DEF IInv, Dialogue, Handshake
<1>4. Pending("INFO", NoSlot)'
  BY <1>1, <1>3, PipeFacts DEF Pending
<1>5. Typed' /\ ViewIsCurrent'
  BY <1>1, <1>3 DEF IInv, Typed, ViewIsCurrent, Asking
<1>6. Dialogue'
  BY <1>1, <1>4 DEF Dialogue
<1>7. QED
  BY <1>5, <1>6 DEF IInv

LEMMA ReadInfoStep == ASSUME IInv, ReadInfo PROVE IInv'
<1>1. /\ client = "info" /\ client' = "deal" /\ stdout # <<>> /\ stdout' = Tail(stdout)
      /\ UNCHANGED <<stdin, open, view, chosen, hand, cumulative, server, table>>
  BY DEF ReadInfo, Goto, Says, Hear, serverVars
<1>2. Answered("INFO", NoHand)
  BY <1>1 DEF IInv, Dialogue, Pending
<1>3. Quiet'
  BY <1>1, <1>2, PipeFacts DEF Answered, Quiet
<1>4. Typed' /\ ViewIsCurrent'
  BY <1>1 DEF IInv, Typed, ViewIsCurrent
<1>5. Dialogue'
  BY <1>1, <1>3 DEF Dialogue
<1>6. QED
  BY <1>4, <1>5 DEF IInv

LEMMA DealHandStep == ASSUME IInv, DealHand PROVE IInv'
<1>1. /\ client = "deal" /\ client' = "reset" /\ hand < Hands
      /\ stdin' = Append(stdin, Request("RESET", NoSlot))
      /\ UNCHANGED <<stdout, open, view, chosen, hand, cumulative, server, table>>
  BY DEF DealHand, Goto, MoreHands, Ask, serverVars
<1>2. Pending("RESET", NoSlot)'
  BY <1>1, PipeFacts DEF IInv, Dialogue, Quiet, Pending
<1>3. Typed' /\ ViewIsCurrent'
  BY <1>1 DEF IInv, Typed, ViewIsCurrent, Asking
<1>4. Dialogue'
  BY <1>1, <1>2 DEF Dialogue
<1>5. QED
  BY <1>3, <1>4 DEF IInv

(* The state that is parsed is the table as the server has it.             *)
LEMMA ReadStateStep == ASSUME IInv, ReadReset \/ ReadStep PROVE IInv'
<1>1. /\ \/ client = "reset" /\ Head(stdout).kind = "RESET"
         \/ client = "step" /\ Head(stdout).kind = "STEP"
      /\ client' = "turn" /\ stdout # <<>> /\ stdout' = Tail(stdout)
      /\ view' = Head(stdout).body /\ chosen' = NoSlot
      /\ UNCHANGED <<stdin, open, hand, cumulative, server, table>>
  BY DEF ReadReset, ReadStep, Goto, Parse, Says, Hear, serverVars
<1>2. Answered("RESET", table) \/ Answered("STEP", table)
  BY <1>1, RefusalFacts DEF IInv, Dialogue, Pending
<1>3. Quiet' /\ view' = table
  BY <1>1, <1>2, PipeFacts, RequestFacts DEF Answered, Quiet
<1>4. Typed' /\ ViewIsCurrent'
  BY <1>1, <1>3 DEF IInv, Typed, ViewIsCurrent, Asking
<1>5. Dialogue'
  BY <1>1, <1>3 DEF Dialogue
<1>6. QED
  BY <1>4, <1>5 DEF IInv

LEMMA HumanActsStep == ASSUME IInv, HumanActs PROVE IInv'
<1>1. /\ client = "turn" /\ client' = "send" /\ chosen' \in view.mask
      /\ UNCHANGED <<stdin, stdout, open, view, hand, cumulative, server, table>>
  BY DEF HumanActs, Goto, Offered, pipes, serverVars
<1>2. chosen' \in table.mask /\ table.mask \subseteq Slots /\ server # "loading"
  BY <1>1 DEF IInv, Typed, Tables, ViewIsCurrent
<1>3. Typed' /\ ViewIsCurrent'
  BY <1>1, <1>2 DEF IInv, Typed, ViewIsCurrent, Asking
<1>4. Dialogue'
  BY <1>1 DEF IInv, Dialogue, Quiet
<1>5. QED
  BY <1>3, <1>4 DEF IInv

LEMMA AskModelStep == ASSUME IInv, AskModel PROVE IInv'
<1>1. /\ client = "turn" /\ client' = "model" /\ ~view.over /\ ~HumansTurn(view)
      /\ stdin' = Append(stdin, Request("MODEL", NoSlot))
      /\ UNCHANGED <<stdout, open, view, chosen, hand, cumulative, server, table>>
  BY DEF AskModel, Goto, BotsTurn, Ask, serverVars
<1>2. Pending("MODEL", NoSlot)'
  BY <1>1, PipeFacts DEF IInv, Dialogue, Quiet, Pending
<1>3. Typed' /\ ViewIsCurrent'
  BY <1>1 DEF IInv, Typed, ViewIsCurrent, Asking, HumansTurn
<1>4. Dialogue'
  BY <1>1, <1>2 DEF Dialogue
<1>5. QED
  BY <1>3, <1>4 DEF IInv

LEMMA ReadModelStep == ASSUME IInv, ReadModel PROVE IInv'
<1>1. /\ client = "model" /\ client' = "send" /\ stdout # <<>> /\ stdout' = Tail(stdout)
      /\ chosen' \in Head(stdout).body.mask
      /\ UNCHANGED <<stdin, open, view, hand, cumulative, server, table>>
  BY DEF ReadModel, Goto, Says, Hear, serverVars
<1>2. PICK slot \in table.mask : Answered("MODEL", [table EXCEPT !.mask = {slot}])
  BY <1>1 DEF IInv, Dialogue, Pending
<1>3. Quiet' /\ Head(stdout).body = [table EXCEPT !.mask = {slot}]
  BY <1>1, <1>2, PipeFacts, RequestFacts DEF Answered, Quiet
<1>4. table \in Tables /\ table.mask \subseteq Slots
  BY DEF IInv, Typed, Tables
<1>5. chosen' = slot
  BY <1>1, <1>3, <1>4 DEF Tables
<1>6. Typed' /\ ViewIsCurrent'
  BY <1>1, <1>2, <1>4, <1>5 DEF IInv, Typed, ViewIsCurrent, Asking
<1>7. Dialogue'
  BY <1>1, <1>3 DEF Dialogue
<1>8. QED
  BY <1>6, <1>7 DEF IInv

LEMMA SendStepStep == ASSUME IInv, SendStep PROVE IInv'
<1>1. /\ client = "send" /\ client' = "step"
      /\ stdin' = Append(stdin, Request("STEP", chosen))
      /\ UNCHANGED <<stdout, open, view, chosen, hand, cumulative, server, table>>
  BY DEF SendStep, Goto, serverVars
<1>2. chosen \in table.mask /\ Pending("STEP", chosen)'
  BY <1>1, PipeFacts DEF IInv, Dialogue, Quiet, Pending, ViewIsCurrent
<1>3. Typed' /\ ViewIsCurrent'
  BY <1>1 DEF IInv, Typed, ViewIsCurrent, Asking
<1>4. \E slot \in table'.mask : Pending("STEP", slot)'
  BY <1>1, <1>2 DEF Pending
<1>5. Dialogue'
  BY <1>1, <1>4 DEF Dialogue
<1>6. QED
  BY <1>3, <1>5 DEF IInv

LEMMA SeatOfHand == \A h \in Nat : HumanSeat(h) \in Seats
  BY DEF HumanSeat, Seats

LEMMA HandOverStep == ASSUME IInv, HandOver PROVE IInv'
<1>1. /\ client = "turn" /\ client' = "deal"
      /\ cumulative' = cumulative + HumanResult(view) /\ hand' = hand + 1
      /\ UNCHANGED <<stdin, stdout, open, chosen, server, table>>
  BY DEF HandOver, Goto, pipes, serverVars
<1>2. view = table /\ table.utility \in [Seats -> Int] /\ hand < Hands
  BY <1>1 DEF IInv, Typed, Tables, ViewIsCurrent
<1>3. HumanResult(view) \in Int
  <2>1. HumanSeat(hand) \in Seats
    BY SeatOfHand, PlayAssumption DEF IInv, Typed
  <2>2. QED
    BY <1>2, <2>1 DEF HumanResult
<1>4. cumulative' \in Int /\ hand' \in 0 .. Hands
  BY <1>1, <1>2, <1>3, PlayAssumption DEF IInv, Typed
<1>5. Typed' /\ ViewIsCurrent'
  BY <1>1, <1>4 DEF IInv, Typed, ViewIsCurrent
<1>6. Dialogue'
  BY <1>1 DEF IInv, Dialogue, Quiet
<1>7. QED
  BY <1>5, <1>6 DEF IInv
-----------------------------------------------------------------------------
LEMMA StutterKeepsIInv == ASSUME IInv, UNCHANGED vars PROVE IInv'
<1>1. Typed' /\ ViewIsCurrent'
  BY DEF IInv, Typed, ViewIsCurrent, HumansTurn, vars, serverVars, pipes, clientVars
<1>2. Dialogue'
  BY DEF IInv, Dialogue, Handshake, Pending, Answered, Quiet, StepsAreLegal,
         ModelOnBotsTurn, HumansTurn, Leftover, Quitting, vars, serverVars, pipes,
         clientVars
<1>3. QED
  BY <1>1, <1>2 DEF IInv

(* The invariant of sessions of any length.                                *)
THEOREM Invariance == Spec => []IInv
<1>1. IInv /\ [Next]_vars => IInv'
  <2> SUFFICES ASSUME IInv, [Next]_vars PROVE IInv'
    OBVIOUS
  <2>1. CASE Server \/ ServerDies
    BY <2>1, ServerReadyStep, ServerEndStep, ServeInfoStep, ServeResetStep,
       ServeModelStep, ServeStepStep, RefuseStepStep, ServeQuitStep, ServeLeftover
       DEF Server
  <2>2. CASE Client
    BY <2>2, ReadSetupStep, HandshakeDoneStep, EndStep, ReadInfoStep,
       ReadStateStep, AskModelStep, ReadModelStep, SendStepStep, DealHandStep,
       LeavingStep, RefusedStep, SayQuitStep DEF Client
  <2>3. CASE Human
    BY <2>3, DealHandStep, HandOverStep, HumanActsStep, LeavingStep, EndStep
       DEF Human, Interrupted
  <2>4. CASE Over \/ UNCHANGED vars
    BY <2>4, StutterKeepsIInv DEF Over
  <2>5. QED
    BY <2>1, <2>2, <2>3, <2>4 DEF Next
<1>2. QED
  BY <1>1, InitIInv, PTL DEF Spec

(* The types; the pipes never hold more than two messages.                 *)
THEOREM TypeCorrect == Spec => []TypeOK
<1>1. IInv => TypeOK
  <2> SUFFICES ASSUME IInv PROVE TypeOK
    OBVIOUS
  <2>1. Len(stdin) <= 2 /\ Len(stdout) <= 3
    BY RequestsFit
  <2>2. QED
    BY <2>1 DEF IInv, Typed, TypeOK
<1>2. QED
  BY <1>1, Invariance, PTL

(* An action that is under way is legal at the server's table, whatever    *)
(* became of the client or of the server meanwhile.                        *)
THEOREM StepsStayLegal == Spec => []StepsAreLegal
<1>1. IInv => StepsAreLegal
  BY RequestsFit
<1>2. QED
  BY <1>1, Invariance, PTL

(* The policy is asked only about the bot's decisions.                     *)
THEOREM BotIsAskedInTurn == Spec => []ModelOnBotsTurn
<1>1. IInv => ModelOnBotsTurn
  BY RequestsFit
<1>2. QED
  BY <1>1, Invariance, PTL

(* What arrives answers the last request.                                  *)
LEMMA OneAnswer ==
    ASSUME NEW kind, NEW body, NEW action,
           Pending(kind, action) \/ Answered(kind, body)
    PROVE  /\ Len(stdin) + Len(stdout) <= 1
           /\ \A i \in DOMAIN stdout : stdout[i].kind = kind
<1>1. CASE Pending(kind, action)
  <2>1. Len(stdin) = 1 /\ Len(stdout) = 0 /\ DOMAIN stdout = {}
    BY <1>1, PipeFacts DEF Pending
  <2>2. QED
    BY <2>1
<1>2. CASE Answered(kind, body)
  <2>1. /\ Len(stdin) = 0 /\ Len(stdout) = 1 /\ DOMAIN stdout = {1}
        /\ stdout[1] = Answer(kind, body)
    BY <1>2, PipeFacts DEF Answered
  <2>2. QED
    BY <2>1, RequestFacts
<1>3. QED
  BY <1>1, <1>2

(* No answer is taken for another: while the game goes on nothing of an    *)
(* earlier one is left in a pipe.                                          *)
THEOREM AnswersStayInStep == Spec => []AnswersInStep
<1>1. IInv => AnswersInStep
  <2> SUFFICES ASSUME IInv PROVE AnswersInStep
    OBVIOUS
  <2>1. client \in {"deal", "turn", "send"} => stdin = <<>> /\ stdout = <<>>
    BY DEF IInv, Dialogue, Quiet
  <2>2. CASE client = "info"
    <3>1. Pending("INFO", NoSlot) \/ Answered("INFO", NoHand)
      BY <2>2 DEF IInv, Dialogue
    <3>2. QED
      BY <2>1, <2>2, <3>1, OneAnswer DEF AnswersInStep, KindOf
  <2>3. CASE client = "reset"
    <3>1. Pending("RESET", NoSlot) \/ Answered("RESET", table)
      BY <2>3 DEF IInv, Dialogue
    <3>2. QED
      BY <2>1, <2>3, <3>1, OneAnswer DEF AnswersInStep, KindOf
  <2>4. CASE client = "model"
    <3>1. PICK body : Pending("MODEL", NoSlot) \/ Answered("MODEL", body)
      BY <2>4 DEF IInv, Dialogue
    <3>2. QED
      BY <2>1, <2>4, <3>1, OneAnswer DEF AnswersInStep, KindOf
  <2>5. CASE client = "step"
    <3>1. CASE stdin = <<>> /\ stdout = Refusal
      BY <2>1, <2>5, <3>1, RefusalFacts DEF AnswersInStep
    <3>2. ASSUME NEW action, Pending("STEP", action) \/ Answered("STEP", table)
          PROVE  AnswersInStep
      BY <2>1, <2>5, <3>2, OneAnswer DEF AnswersInStep, KindOf
    <3>3. QED
      BY <2>5, <3>1, <3>2 DEF IInv, Dialogue
  <2>6. CASE client \notin Asking
    BY <2>1, <2>6 DEF AnswersInStep
  <2>7. QED
    BY <2>2, <2>3, <2>4, <2>5, <2>6 DEF Asking
<1>2. QED
  BY <1>1, Invariance, PTL
-----------------------------------------------------------------------------
(***************************************************************************)
(* What the session leaves behind.                                         *)
(***************************************************************************)
Played == [hand : Nat, action : Slots]

(* One record ahead is at most one ahead.                                  *)
LEMMA AheadIsAllowed ==
    ASSUME applied \in Seq(Played), NEW x, log = Append(applied, x) \/ log = applied
    PROVE  LogIsWhatWasPlayed
<1>1. CASE log = Append(applied, x)
  <2> DEFINE n == Len(applied)
  <2> HIDE DEF Played
  <2>1. n \in Nat /\ Len(log) = n + 1
    BY <1>1
  <2>2. SubSeq(applied, 1, n) = SubSeq(log, 1, n)
    <3>1. \A i \in 1 .. n : log[i] = applied[i]
      BY <1>1
    <3>2. SubSeq(applied, 1, n) = [i \in 1 .. n |-> applied[i]]
      BY <2>1
    <3>3. SubSeq(log, 1, n) = [i \in 1 .. n |-> log[i]]
      BY <2>1
    <3>4. QED
      BY <3>1, <3>2, <3>3
  <2>3. IsPrefix(applied, log)
    BY <2>1, <2>2 DEF IsPrefix
  <2>4. QED
    BY <2>1, <2>3 DEF LogIsWhatWasPlayed
<1>2. QED
  BY <1>1 DEF LogIsWhatWasPlayed

(* So it is in every place of the client.                                  *)
LEMMA LogAlways ==
    ASSUME IInv, LogFollows
    PROVE  LogIsWhatWasPlayed /\ applied \in Seq(Played)
<1>1. applied \in Seq(Played)
  BY DEF LogFollows, Played
<1>2. ASSUME NEW action, Ahead(action) PROVE LogIsWhatWasPlayed
  BY <1>1, <1>2, AheadIsAllowed DEF Ahead
<1>3. CASE log = applied
  BY <1>1, <1>3 DEF LogIsWhatWasPlayed
<1>4. QED
  BY <1>1, <1>2, <1>3 DEF LogFollows

LEMMA ResultsAlways ==
    ASSUME IInv, ResultsFollow
    PROVE  /\ utilities \in Seq([Seats -> Int]) /\ Len(utilities) \in {hand, hand + 1}
           /\ hand \in Nat
<1>1. hand \in Nat
  BY PlayAssumption DEF IInv, Typed
<1>2. QED
  BY <1>1 DEF ResultsFollow

(* The sum is over the hands that the client has counted.                  *)
LEMMA SumKept ==
    ASSUME hand' = hand, \A i \in 1 .. hand : utilities'[i] = utilities[i]
    PROVE  SumToHuman' = SumToHuman
<1> DEFINE d == [i \in 1 .. hand |-> utilities[i][HumanSeat(i - 1)]]
           e == [i \in 1 .. hand' |-> utilities'[i][HumanSeat(i - 1)]]
<1>1. d = e
  OBVIOUS
<1>2. SumToHuman = SumFunction(d) /\ SumToHuman' = SumFunction(e)
  BY DEF SumToHuman, SumFunction, HumanSeat
<1> HIDE DEF d, e
<1>3. QED
  BY <1>1, <1>2

(* What moves the client on, or a message, and records nothing.            *)
Recorded == <<table, hand, cumulative, log, applied, utilities>>

LEMMA SumUnchanged == ASSUME UNCHANGED Recorded, Records PROVE CumulativeIsSum'
<1>1. SumToHuman' = SumToHuman
  BY SumKept DEF Recorded
<1>2. QED
  BY <1>1 DEF Recorded, Records, CumulativeIsSum

(* An action under way, whose hand is not over.                            *)
LEMMA UnderWay ==
    ASSUME IInv, Records, Sent, client \in {"step"} \cup Ends
    PROVE  Ahead(Head(stdin).action) /\ Len(utilities) = hand
<1>1. Ahead(Head(stdin).action)
  <2>1. LogFollows /\ client \in {"step", "closing", "waiting", "gone"} /\ client # "send"
    BY DEF Records, Ends
  <2>2. stdin # <<>>
    BY DEF Sent
  <2>3. QED
    BY <2>1, <2>2 DEF LogFollows
<1>2. CASE client = "step"
  <2>1. PICK slot \in table.mask : Pending("STEP", slot)
    BY <1>2 DEF IInv, Dialogue, Answered, Sent
  <2>2. ~table.over
    BY <2>1 DEF Records, Finished
  <2>3. QED
    BY <1>1, <1>2, <2>2 DEF Records, ResultsFollow
<1>3. CASE client \in Ends
  BY <1>1, <1>3 DEF Records, ResultsFollow, Ends
<1>4. QED
  BY <1>2, <1>3

(* Leaving keeps what was recorded.                                        *)
LEMMA LeavingRecords ==
    ASSUME IInv, Records, UNCHANGED Recorded, client' \in Ends,
           Sent' => /\ Sent /\ client \in {"step"} \cup Ends
                    /\ Head(stdin').action = Head(stdin).action
    PROVE  Records'
<1>1. CumulativeIsSum'
  BY SumUnchanged
<1>2. Finished'
  BY DEF Records, Finished, Recorded, Ends
<1>3. CASE ~Sent'
  <2>1. LogIsWhatWasPlayed' /\ applied' \in Seq(Played)
    <3>1. LogIsWhatWasPlayed /\ applied \in Seq(Played)
      BY LogAlways DEF Records
    <3>2. QED
      BY <3>1 DEF LogIsWhatWasPlayed, Recorded
  <2>2. LogFollows'
    BY <1>3, <2>1 DEF LogFollows, Played, Ends
  <2>3. ResultsFollow'
    <3>1. /\ utilities \in Seq([Seats -> Int])
          /\ Len(utilities) \in {hand, hand + 1}
      BY ResultsAlways DEF Records
    <3>2. QED
      BY <1>3, <3>1 DEF ResultsFollow, Recorded, Ends
  <2>4. QED
    BY <1>1, <1>2, <2>2, <2>3 DEF Records
<1>4. CASE Sent'
  <2>1. Ahead(Head(stdin).action) /\ Len(utilities) = hand
    BY <1>4, UnderWay
  <2>2. Ahead(Head(stdin).action)'
    BY <1>4, <2>1 DEF Ahead, HumansTurn, Recorded
  <2>3. LogFollows'
    BY <1>4, <2>2 DEF Records, LogFollows, Recorded, Ends
  <2>4. ResultsFollow'
    BY <1>4, <2>1 DEF Records, ResultsFollow, Recorded, Ends
  <2>5. QED
    BY <1>1, <1>2, <2>3, <2>4 DEF Records
<1>5. QED
  BY <1>3, <1>4

(* A client that ends sends no more actions.                               *)
LEMMA NoMoreSteps ==
    ASSUME IInv, client \in Ends, NEW kind, Serve(kind)
    PROVE  ~Sent' /\ client' = client /\ UNCHANGED <<hand, cumulative, log>>
<1>1. /\ stdin' = <<>> \/ stdin' = <<Quitting>>
      /\ UNCHANGED <<client, hand, cumulative, log>>
  BY LeftoverServed
<1>2. Head(<<Quitting>>).kind # "STEP"
  BY PipeFacts, RequestFacts DEF Quitting
<1>3. QED
  BY <1>1, <1>2 DEF Sent

(* ... and so does going on, from a place where the log is even to another.*)
Even == {"handshake", "info", "deal", "reset", "turn", "model"}

LEMMA EvenRecords ==
    ASSUME IInv, Records, UNCHANGED Recorded, client \in Even, client' \in Even,
           client \in {"turn", "model"} <=> client' \in {"turn", "model"},
           client' = "reset" => \/ stdout' = stdout /\ client = "reset"
                                \/ stdout' = <<>> \/ ~table.over
    PROVE  Records'
<1>1. CumulativeIsSum'
  BY SumUnchanged
<1>2. Finished'
  BY DEF Records, Finished, Recorded
<1>3. LogFollows'
  BY DEF Records, LogFollows, Recorded, Even
<1>4. ResultsFollow'
  BY DEF Records, ResultsFollow, Recorded, Even
<1>5. QED
  BY <1>1, <1>2, <1>3, <1>4 DEF Records

LEMMA QuietRecords ==
    ASSUME IInv, Records, ServerDies \/ ServerEof \/ ServeInfo \/ ServeModel \/ ServeQuit
    PROVE  Records'
<1>1. UNCHANGED Recorded /\ client' = client /\ chosen' = chosen
  BY DEF ServerDies, ServerEof, ServeInfo, ServeModel, ServeQuit, Serve, serverVars,
         clientVars, Recorded
<1>2. CASE UNCHANGED <<stdin, stdout>>
  <2>1. Finished' /\ LogFollows' /\ ResultsFollow'
    BY <1>1, <1>2 DEF Records, Finished, LogFollows, ResultsFollow, Ahead, HumansTurn,
                      LogIsWhatWasPlayed, Recorded, Sent
  <2>2. QED
    BY <1>1, <2>1, SumUnchanged DEF Records
<1>3. CASE client \in Ends /\ (ServeInfo \/ ServeModel \/ ServeQuit)
  <2>1. ~Sent'
    BY <1>3, NoMoreSteps DEF ServeInfo, ServeModel, ServeQuit
  <2>2. QED
    BY <1>1, <1>3, <2>1, LeavingRecords
<1>4. CASE client \notin Ends /\ (ServeInfo \/ ServeModel)
  <2>1. client \in {"info", "model"}
    BY <1>4, Served DEF ServeInfo, ServeModel
  <2>2. QED
    BY <1>1, <2>1, EvenRecords DEF Even
<1>5. QED
  BY <1>2, <1>3, <1>4, ServeQuitStep DEF ServerDies, ServerEof, pipes

LEMMA NewHandsAreOpen == \A t \in NewHands : t.over = FALSE
  BY DEF NewHands

LEMMA DealRecords ==
    ASSUME IInv, Records, ServerReady \/ ServeReset PROVE Records'
<1>1. /\ table' \in NewHands /\ client' = client
      /\ UNCHANGED <<hand, cumulative, log, applied, utilities>>
  BY DEF ServerReady, ServeReset, Serve, clientVars
<1>2. ~table'.over
  BY <1>1, NewHandsAreOpen
<1>3. CumulativeIsSum'
  BY <1>1, SumKept DEF Records, CumulativeIsSum
<1>4. Finished'
  BY <1>2 DEF Finished
<1>5. CASE client \in {"handshake", "reset"}
  <2>1. LogFollows' /\ ResultsFollow'
    BY <1>1, <1>2, <1>5 DEF Records, LogFollows, ResultsFollow
  <2>2. QED
    BY <1>3, <1>4, <2>1 DEF Records
<1>6. CASE client \in Ends
  <2>1. ~Sent'
    <3>1. CASE ServerReady
      <4>1. stdin' = <<>>
        BY <1>6, <3>1 DEF ServerReady, IInv, Dialogue, Leftover, Ends
      <4>2. QED
        BY <4>1 DEF Sent
    <3>2. CASE ServeReset
      BY <1>6, <3>2, NoMoreSteps DEF ServeReset
    <3>3. QED
      BY <3>1, <3>2
  <2>2. LogIsWhatWasPlayed' /\ applied' \in Seq(Played)
    <3>1. LogIsWhatWasPlayed /\ applied \in Seq(Played)
      BY LogAlways DEF Records
    <3>2. QED
      BY <1>1, <3>1 DEF LogIsWhatWasPlayed
  <2>3. LogFollows'
    BY <1>1, <1>6, <2>1, <2>2 DEF LogFollows, Played, Ends
  <2>4. /\ utilities \in Seq([Seats -> Int])
        /\ Len(utilities) \in {hand, hand + 1}
    BY ResultsAlways DEF Records
  <2>5. ResultsFollow'
    BY <1>1, <1>6, <2>1, <2>4 DEF ResultsFollow, Ends
  <2>6. QED
    BY <1>3, <1>4, <2>3, <2>5 DEF Records
<1>7. client \in {"handshake", "reset"} \cup Ends
  <2>1. CASE ServerReady
    BY <2>1 DEF ServerReady, IInv, ViewIsCurrent, Ends
  <2>2. CASE ServeReset
    BY <2>2, Served DEF ServeReset
  <2>3. QED
    BY <2>1, <2>2
<1>8. QED
  BY <1>5, <1>6, <1>7

(* A hand that took its last action is closed.                             *)
LEMMA OverIsClosed ==
    ASSUME NEW t, NEW u \in Successors(t) PROVE u.over => u.mask = {}
  BY DEF Successors

(* The crux: an action is applied.                                         *)
LEMMA ServeStepRecords == ASSUME IInv, Records, ServeStep PROVE Records'
<1>1. /\ client \in {"step"} \cup Ends /\ client' = client /\ Sent
      /\ UNCHANGED <<hand, cumulative, log>>
  BY Served DEF ServeStep, Serve, clientVars, Sent
<1>2. PICK slot \in table.mask : slot = Head(stdin).action
  BY DEF ServeStep
<1>3. /\ ~Sent'
      /\ client = "step" => stdin' = <<>> /\ stdout' = <<Answer("STEP", table')>>
  <2>1. CASE client = "step"
    <3>1. PICK action : Pending("STEP", action)
      BY <1>1, <2>1 DEF IInv, Dialogue, Answered, Sent
    <3>2. stdin' = <<>> /\ stdout' = <<Answer("STEP", table')>>
      BY <3>1, PipeFacts DEF ServeStep, Serve, Pending
    <3>3. QED
      BY <3>2 DEF Sent
  <2>2. CASE client \in Ends
    BY <2>2, NoMoreSteps DEF ServeStep, Ends
  <2>3. QED
    BY <1>1, <2>1, <2>2
<1>4. ~table.over
  BY <1>2 DEF Records, Finished
<1>5. table' \in Successors(table) /\ table' \in Tables /\ table \in Tables
  <2>1. table \in Tables /\ table' \in Successors(table)
    BY DEF ServeStep, IInv, Typed
  <2>2. QED
    BY <2>1, SuccessorsTyped
<1>6. Finished'
  BY <1>1, <1>5, OverIsClosed DEF Finished, Ends
<1>7. Ahead(slot) /\ Len(utilities) = hand
  BY <1>1, <1>2, UnderWay
<1>8. LogFollows'
  <2>1. client = "step" => stdout' # Refusal
    BY <1>3, PipeFacts, RefusalFacts
  <2>2. log = applied' /\ applied' \in Seq(Played)
    <3>1. [hand |-> hand, action |-> slot] \in Played /\ applied \in Seq(Played)
      BY <1>2, <1>5, PlayAssumption DEF Played, Records, LogFollows, IInv, Typed, Tables
    <3> HIDE DEF Played
    <3>2. CASE HumansTurn(table)
      BY <1>2, <1>7, <3>1, <3>2 DEF ServeStep, Ahead
    <3>3. CASE ~HumansTurn(table)
      BY <1>7, <3>1, <3>3 DEF ServeStep, Ahead
    <3>4. QED
      BY <3>2, <3>3
  <2>3. LogIsWhatWasPlayed'
    BY <1>1, <2>2 DEF LogIsWhatWasPlayed
  <2>4. CASE client = "step"
    BY <1>1, <1>3, <2>1, <2>2, <2>4 DEF LogFollows, Played
  <2>5. CASE client \in Ends
    BY <1>1, <1>3, <2>2, <2>3, <2>5 DEF LogFollows, Played, Ends
  <2>6. QED
    BY <1>1, <2>4, <2>5
<1>9. ResultsFollow' /\ \A i \in 1 .. hand : utilities'[i] = utilities[i]
  <2>1. utilities \in Seq([Seats -> Int]) /\ hand \in Nat
    BY ResultsAlways DEF Records
  <2>2. CASE table'.over
    <3>1. table'.utility \in [Seats -> Int]
      BY <1>5 DEF Tables
    <3>2. utilities' = Append(utilities, table'.utility)
      BY <2>2 DEF ServeStep
    <3> DEFINE R == [Seats -> Int]
    <3> HIDE DEF R
    <3>3. /\ utilities' \in Seq(R) /\ Len(utilities') = hand + 1
          /\ utilities'[hand + 1] = table'.utility
          /\ \A i \in 1 .. hand : utilities'[i] = utilities[i]
      <4>1. utilities \in Seq(R) /\ table'.utility \in R
        BY <2>1, <3>1 DEF R
      <4>2. QED
        BY <1>7, <2>1, <3>2, <4>1
    <3>4. QED
      BY <1>1, <1>3, <2>2, <3>3 DEF ResultsFollow, Ends, R
  <2>3. CASE ~table'.over
    BY <1>1, <1>3, <1>7, <2>1, <2>3 DEF ServeStep, ResultsFollow, Ends
  <2>4. QED
    BY <2>2, <2>3
<1>10. CumulativeIsSum'
  BY <1>1, <1>9, SumKept DEF Records, CumulativeIsSum
<1>11. QED
  BY <1>6, <1>8, <1>9, <1>10 DEF Records

(* A refused action leaves the log one ahead.                              *)
LEMMA RefuseRecords == ASSUME IInv, Records, RefuseStep PROVE Records'
<1>1. client \in {"step"} \cup Ends /\ client' = client /\ UNCHANGED Recorded
  BY Served DEF RefuseStep, Serve, serverVars, clientVars, Recorded
<1>2. CASE client = "step"
  <2>1. stdin' = <<>> /\ stdout' = Refusal
    <3>1. PICK slot \in table.mask : Pending("STEP", slot)
      BY <1>2, Served DEF RefuseStep, Ends
    <3>2. QED
      BY <3>1, PipeFacts DEF RefuseStep, Serve, Pending, Refusal
  <2>2. LogIsWhatWasPlayed /\ applied \in Seq(Played)
    BY LogAlways DEF Records
  <2>3. LogIsWhatWasPlayed' /\ applied' \in Seq(Played)
    BY <1>1, <2>2 DEF LogIsWhatWasPlayed, Recorded
  <2>4. LogFollows'
    BY <1>1, <1>2, <2>1, <2>3 DEF LogFollows, Played, Sent
  <2>5. Finished' /\ ResultsFollow'
    BY <1>1, <1>2 DEF Records, Finished, ResultsFollow, Recorded
  <2>6. QED
    BY <1>1, <2>4, <2>5, SumUnchanged DEF Records
<1>3. CASE client \in Ends
  <2>1. ~Sent'
    BY <1>3, NoMoreSteps DEF RefuseStep
  <2>2. QED
    BY <1>1, <1>3, <2>1, LeavingRecords
<1>4. QED
  BY <1>1, <1>2, <1>3
-----------------------------------------------------------------------------
LEMMA ClientRecords ==
    ASSUME IInv, Records,
           \/ ReadSetup \/ HandshakeDone \/ ReadInfo \/ DealHand \/ ReadReset \/ AskModel
    PROVE  Records'
<1>1. UNCHANGED Recorded
  BY DEF ReadSetup, HandshakeDone, ReadInfo, DealHand, ReadReset, Parse, AskModel,
         serverVars, clientVars, Recorded
<1>2. CASE ReadSetup \/ HandshakeDone \/ ReadInfo \/ AskModel
  <2>1. /\ client \in Even /\ client' \in Even /\ client' # "reset"
        /\ client \in {"turn", "model"} <=> client' \in {"turn", "model"}
    BY <1>2 DEF ReadSetup, HandshakeDone, ReadInfo, AskModel, Goto, clientVars, Even
  <2>2. QED
    BY <1>1, <2>1, EvenRecords
<1>3. CASE DealHand
  <2>1. client = "deal" /\ client' = "reset" /\ stdout' = stdout
    BY <1>3 DEF DealHand, Goto
  <2>2. stdout = <<>>
    BY <2>1 DEF IInv, Dialogue, Quiet
  <2>3. QED
    BY <1>1, <2>1, <2>2, EvenRecords DEF Even
<1>4. CASE ReadReset
  <2>1. client = "reset" /\ client' = "turn" /\ stdout # <<>>
    BY <1>4 DEF ReadReset, Goto, Parse, Says
  <2>2. ~table.over
    BY <2>1 DEF Records, Finished
  <2>3. Finished' /\ LogFollows' /\ ResultsFollow'
    BY <1>1, <2>1, <2>2 DEF Records, Finished, LogFollows, ResultsFollow, Recorded
  <2>4. QED
    BY <1>1, <2>3, SumUnchanged DEF Records
<1>5. QED
  BY <1>2, <1>3, <1>4

(* The answer to a step is no refusal: it was applied.                     *)
LEMMA ReadStepRecords == ASSUME IInv, Records, ReadStep PROVE Records'
<1>1. client = "step" /\ client' = "turn" /\ Says("STEP") /\ UNCHANGED Recorded
  BY DEF ReadStep, Goto, Parse, serverVars, Recorded
<1>2. stdin = <<>> /\ stdout # Refusal
  <2>1. stdout # <<>> /\ Head(stdout).kind = "STEP"
    BY <1>1 DEF Says
  <2>2. stdin = <<>>
    BY <1>1, <2>1 DEF IInv, Dialogue, Pending, Answered
  <2>3. QED
    BY <2>1, <2>2, RefusalFacts
<1>3. log = applied /\ applied \in Seq([hand : Nat, action : Slots])
  BY <1>1, <1>2 DEF Records, LogFollows, Sent
<1>4. Finished' /\ LogFollows' /\ ResultsFollow'
  BY <1>1, <1>3 DEF Records, Finished, LogFollows, ResultsFollow, Recorded
<1>5. QED
  BY <1>1, <1>4, SumUnchanged DEF Records

LEMMA ChooseRecords ==
    ASSUME IInv, Records, HumanActs \/ ReadModel \/ SendStep PROVE Records'
<1>1. UNCHANGED <<table, hand, cumulative, applied, utilities>>
  BY DEF HumanActs, ReadModel, SendStep, serverVars
<1>2. CumulativeIsSum'
  BY <1>1, SumKept DEF Records, CumulativeIsSum
<1>3. client \in {"turn", "model", "send"} /\ client' \in {"send", "step"}
  BY DEF HumanActs, ReadModel, SendStep, Goto
<1>4. Finished' /\ ResultsFollow'
  BY <1>1, <1>3 DEF Records, Finished, ResultsFollow
<1>5. applied \in Seq([hand : Nat, action : Slots])
  BY DEF Records, LogFollows
<1>6. CASE HumanActs
  <2>1. /\ client = "turn" /\ client' = "send" /\ HumansTurn(view) /\ view = table
        /\ log' = Append(log, [hand |-> hand, action |-> chosen'])
    BY <1>6 DEF HumanActs, Goto, LogAction, IInv, ViewIsCurrent
  <2>2. log = applied
    BY <2>1 DEF Records, LogFollows
  <2>3. LogFollows'
    BY <1>1, <1>5, <2>1, <2>2 DEF LogFollows, Ahead, HumansTurn
  <2>4. QED
    BY <1>2, <1>4, <2>3 DEF Records
<1>7. CASE ReadModel
  <2>1. client = "model" /\ client' = "send" /\ log' = log /\ ~HumansTurn(table)
    BY <1>7 DEF ReadModel, Goto, IInv, ViewIsCurrent
  <2>2. log = applied
    BY <2>1 DEF Records, LogFollows
  <2>3. LogFollows'
    BY <1>1, <1>5, <2>1, <2>2 DEF LogFollows, Ahead, HumansTurn
  <2>4. QED
    BY <1>2, <1>4, <2>3 DEF Records
<1>8. CASE SendStep
  <2>1. /\ client = "send" /\ client' = "step" /\ log' = log
        /\ stdin' = Append(stdin, Request("STEP", chosen))
    BY <1>8 DEF SendStep, Goto
  <2>2. stdin' = <<Request("STEP", chosen)>>
    BY <2>1, PipeFacts DEF IInv, Dialogue, Quiet
  <2>3. /\ stdin' # <<>> /\ Head(stdin').action = chosen
        /\ Head(stdin').kind = "STEP"
    BY <2>2, PipeFacts, RequestFacts
  <2>4. Ahead(chosen)
    BY <2>1 DEF Records, LogFollows
  <2>5. LogFollows'
    BY <1>1, <1>5, <2>1, <2>3, <2>4 DEF LogFollows, Ahead, HumansTurn, Sent
  <2>6. QED
    BY <1>2, <1>4, <2>5 DEF Records
<1>9. QED
  BY <1>6, <1>7, <1>8

(* The result that the human sees is the one that the server has counted.  *)
LEMMA HandOverRecords == ASSUME IInv, Records, HandOver PROVE Records'
<1>1. /\ client = "turn" /\ client' = "deal" /\ view.over /\ view = table
      /\ cumulative' = cumulative + HumanResult(view) /\ hand' = hand + 1
      /\ UNCHANGED <<table, log, applied, utilities>>
  BY DEF HandOver, Goto, serverVars, IInv, ViewIsCurrent
<1>2. /\ utilities \in Seq([Seats -> Int]) /\ Len(utilities) = hand + 1 /\ hand \in Nat
      /\ utilities[hand + 1] = view.utility
  BY <1>1, ResultsAlways DEF Records, ResultsFollow
<1>3. Finished' /\ LogFollows' /\ ResultsFollow'
  BY <1>1, <1>2 DEF Records, Finished, LogFollows, ResultsFollow
<1>4. CumulativeIsSum'
  <2> DEFINE d == [i \in 1 .. hand |-> utilities[i][HumanSeat(i - 1)]]
             e == [i \in 1 .. hand + 1 |-> utilities[i][HumanSeat(i - 1)]]
  <2>1. SumToHuman = SumFunctionOnSet(d, 1 .. hand)
    BY DEF SumToHuman, SumFunction
  <2>2. SumToHuman' = SumFunctionOnSet(e, 1 .. hand + 1)
    BY <1>1 DEF SumToHuman, SumFunction, HumanSeat
  <2>3. \A i \in 1 .. hand + 1 : utilities[i][HumanSeat(i - 1)] \in Int
    <3>1. ASSUME NEW i \in 1 .. hand + 1
          PROVE  utilities[i][HumanSeat(i - 1)] \in Int
      <4>1. utilities[i] \in [Seats -> Int] /\ i - 1 \in Nat
        BY <1>2
      <4>2. QED
        BY <4>1, SeatOfHand
    <3>2. QED
      BY <3>1
  <2>4. /\ \A i \in 1 .. hand : d[i] \in Int
        /\ \A i \in 1 .. hand : e[i] = d[i]
    BY <1>2, <2>3
  <2>5. e[hand + 1] = HumanResult(view) /\ e[hand + 1] \in Int
    BY <1>2, <2>3 DEF HumanResult
  <2> HIDE DEF d, e
  <2>6. SumFunctionOnSet(e, 1 .. hand + 1) = SumFunctionOnSet(d, 1 .. hand) + e[hand + 1]
    BY <1>2, <2>4, <2>5, SumOneMore
  <2>7. cumulative = SumToHuman
    BY DEF Records, CumulativeIsSum
  <2>8. QED
    BY <1>1, <2>1, <2>2, <2>5, <2>6, <2>7 DEF CumulativeIsSum
<1>5. QED
  BY <1>3, <1>4 DEF Records

(* Only a client that waits for the answer to an action leaves it behind.  *)
LEMMA SentFrom == ASSUME IInv, Sent PROVE client \in {"step"} \cup Ends
<1>1. stdin # <<>> /\ Head(stdin).kind = "STEP"
  BY DEF Sent
<1>2. CASE client \in {"handshake", "deal", "turn", "send"}
  BY <1>1, <1>2 DEF IInv, Dialogue, Handshake, Quiet
<1>3. CASE client \in {"info", "reset", "model"}
  <2>1. \E kind \in {"INFO", "RESET", "MODEL"} : stdin = <<Request(kind, NoSlot)>>
    BY <1>1, <1>3 DEF IInv, Dialogue, Pending, Answered
  <2>2. QED
    BY <1>1, <2>1, PipeFacts, RequestFacts
<1>4. QED
  BY <1>2, <1>3 DEF IInv, Typed, Asking, Ends

LEMMA EndRecords ==
    ASSUME IInv, Records,
           \/ AllPlayed \/ Leaves \/ Interrupted \/ Refused \/ PipeBroken
           \/ HandshakeFails \/ SayQuit \/ Exit
    PROVE  Records'
<1>1. UNCHANGED Recorded /\ client' \in Ends
  BY DEF AllPlayed, Leaves, Interrupted, CutShort, Refused, RaiseError, PipeBroken,
         HandshakeFails, SayQuit, Exit, BreaksOff, Unwind, Goto, serverVars, Recorded,
         Ends
<1>2. CASE stdin' = stdin
  BY <1>1, <1>2, SentFrom, LeavingRecords DEF Sent
<1>3. CASE SayQuit /\ stdin' # stdin
  <2>1. client = "closing" /\ stdin' = Append(stdin, Quitting)
    BY <1>3 DEF SayQuit, Goto, Ask, Quitting
  <2>2. stdin = <<>> \/ stdin = <<Head(stdin)>>
    BY <2>1 DEF IInv, Dialogue, Leftover
  <2>3. CASE stdin = <<>>
    <3>1. stdin' = <<Quitting>>
      BY <2>1, <2>3, PipeFacts
    <3>2. ~Sent'
      BY <3>1, PipeFacts, RequestFacts DEF Sent, Quitting
    <3>3. QED
      BY <1>1, <3>2, LeavingRecords
  <2>4. ASSUME NEW r, stdin = <<r>> PROVE Records'
    <3>1. stdin' = <<r, Quitting>>
      BY <2>1, <2>4, PairFacts
    <3>2. Head(stdin) = r /\ Head(stdin') = r /\ stdin # <<>>
      BY <2>4, <3>1, PipeFacts
    <3>3. QED
      BY <1>1, <3>2, SentFrom, LeavingRecords DEF Sent
  <2>5. QED
    BY <2>2, <2>3, <2>4
<1>4. QED
  BY <1>2, <1>3 DEF AllPlayed, Leaves, Interrupted, CutShort, Refused, RaiseError,
         PipeBroken, HandshakeFails, Exit, BreaksOff, pipes

LEMMA StutterKeepsRecords == ASSUME Records, UNCHANGED vars PROVE Records'
  BY DEF vars, serverVars, pipes, clientVars, Records, Finished, LogFollows, Ahead,
         HumansTurn, LogIsWhatWasPlayed, ResultsFollow, CumulativeIsSum, SumToHuman, Sent,
         HumanSeat

(* The records of sessions of any length.                                  *)
THEOREM RecordsHold == Spec => []Records
<1>1. Init => Records
  <2> SUFFICES ASSUME Init PROVE Records
    OBVIOUS
  <2>1. ~table.over
    <3>1. NoHand = table /\ \A t \in NewHands : t.over = FALSE
      BY NewHandsAreOpen DEF Init
    <3>2. NoHand \in NewHands
      <4>1. PICK m \in Masks : TRUE
        BY PlayAssumption
      <4>2. [player |-> 1, mask |-> m, taken |-> 0, over |-> FALSE,
       utility |-> NoResult] \in NewHands
        BY DEF NewHands
      <4>3. QED
        BY <4>2 DEF NoHand
    <3>3. QED
      BY <3>1, <3>2
  <2>2. Finished /\ LogFollows /\ ResultsFollow
    BY <2>1 DEF Init, Finished, LogFollows, ResultsFollow
  <2>3. CumulativeIsSum
    <3> DEFINE d == [i \in 1 .. hand |-> utilities[i][HumanSeat(i - 1)]]
    <3>1. SumToHuman = SumFunctionOnSet(d, {})
      BY DEF Init, SumToHuman, SumFunction
    <3> HIDE DEF d
    <3>2. QED
      BY <3>1, SumOfNothing DEF Init, CumulativeIsSum
  <2>4. QED
    BY <2>2, <2>3 DEF Records
<1>2. IInv /\ Records /\ [Next]_vars => Records'
  <2> SUFFICES ASSUME IInv, Records, [Next]_vars PROVE Records'
    OBVIOUS
  <2>1. CASE Server \/ ServerDies
    BY <2>1, QuietRecords, DealRecords, ServeStepRecords, RefuseRecords DEF Server
  <2>2. CASE Client
    BY <2>2, ClientRecords, ReadStepRecords, ChooseRecords, EndRecords DEF Client
  <2>3. CASE Human
    BY <2>3, ClientRecords, HandOverRecords, ChooseRecords, EndRecords DEF Human
  <2>4. CASE Over \/ UNCHANGED vars
    BY <2>4, StutterKeepsRecords DEF Over
  <2>5. QED
    BY <2>1, <2>2, <2>3, <2>4 DEF Next
<1>3. QED
  BY <1>1, <1>2, Invariance, PTL DEF Spec

(* The file and the running total are what was played, whatever ended the  *)
(* session: at most the last record is of an action that was not applied.  *)
THEOREM SessionStaysRecorded == Spec => []SessionIsRecorded
<1>1. IInv /\ Records => SessionIsRecorded
  BY LogAlways DEF Records, SessionIsRecorded
<1>2. QED
  BY <1>1, Invariance, RecordsHold, PTL
===============================================================================
