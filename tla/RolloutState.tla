---------------------------- MODULE RolloutState ----------------------------
(***************************************************************************)
(* The bookkeeping of one environment during a rollout: the                *)
(* PlayerRolloutState of include/rollout.h together with that              *)
(* environment's column of the RolloutBuffer, as operators on a record,    *)
(* and the generalised advantage estimate of RolloutBuffer::               *)
(* compute_returns.  A transition is what push() stores, its tensors       *)
(* abstracted to the step at which they were computed.                     *)
(***************************************************************************)
EXTENDS Integers, Sequences

Seats == {0, 1}

(* A PlayerRolloutState and an empty column, the flags seeded with d.      *)
(* pending holds no or one transition: its reward is still open.           *)
Fresh(d) == [pending     |-> [p \in Seats |-> <<>>],
             accumulated |-> [p \in Seats |-> 0],
             nextDone    |-> [p \in Seats |-> d],
             tailWasTerminal |-> [p \in Seats |-> FALSE],
             stored      |-> [p \in Seats |-> <<>>]]

(* push(): the pending transition enters the buffer with the reward        *)
(* accumulated since; tail says what it was followed by.                   *)
Push(s, p, tail) ==
    IF s.pending[p] = <<>> THEN s
    ELSE [s EXCEPT !.stored[p] = Append(@, [step   |-> s.pending[p][1].step,
                                            value  |-> s.pending[p][1].value,
                                            done   |-> s.pending[p][1].done,
                                            reward |-> s.accumulated[p]]),
                   !.pending[p] = <<>>,
                   !.tailWasTerminal[p] = tail]

(* Faulty: a pending transition is overwritten, not pushed.                *)
RecordStepDropsPending(s, p, step, value) ==
    [s EXCEPT !.pending[p] = <<[step |-> step, value |-> value,
                                done |-> s.nextDone[p]]>>,
              !.nextDone[p] = 0]

RecordStep(s, p, step, value) ==
    LET closed == Push(s, p, FALSE)
    IN  [closed EXCEPT
           !.pending[p] = <<[step |-> step, value |-> value,
                             done |-> s.nextDone[p]]>>,
           !.accumulated[p] = IF s.pending[p] = <<>> THEN @ ELSE 0,
           !.nextDone[p] = 0]

(* The reward comes in player 0's frame.                                   *)
StepReward(s, r) == [s EXCEPT !.accumulated[0] = @ + r,
                              !.accumulated[1] = @ - r]

(* Faulty: the accumulators of seats without a pending transition survive. *)
FlushOnTerminalLeaks(s) ==
    LET flushed == Push(Push(s, 0, TRUE), 1, TRUE)
    IN  [flushed EXCEPT
           !.accumulated = [p \in Seats |-> IF s.pending[p] = <<>>
                                            THEN @[p] ELSE 0],
           !.nextDone    = [p \in Seats |-> 1]]

FlushOnTerminal(s) ==
    LET flushed == Push(Push(s, 0, TRUE), 1, TRUE)
    IN  [flushed EXCEPT !.accumulated = [p \in Seats |-> 0],
                        !.nextDone    = [p \in Seats |-> 1]]

FlushOnRolloutEnd(s) ==
    LET flushed == Push(Push(s, 0, FALSE), 1, FALSE)
    IN  [flushed EXCEPT
           !.accumulated = [p \in Seats |-> IF s.pending[p] = <<>>
                                            THEN @[p] ELSE 0]]

-----------------------------------------------------------------------------
(* What follows transition t of a column: the weight of its successor and  *)
(* the successor's value.  The last one is followed by nothing if its      *)
(* episode ended, and by the bootstrap value if the rollout cut it off.    *)
NextNonterminal(column, t, terminal) ==
    IF t = Len(column) THEN (IF terminal THEN 0 ELSE 1)
                       ELSE 1 - column[t + 1].done

NextValue(column, t, terminal, bootstrap) ==
    IF t = Len(column) THEN (IF terminal THEN 0 ELSE bootstrap)
                       ELSE column[t + 1].value

Delta(gamma, column, t, terminal, bootstrap) ==
    column[t].reward
    + gamma * NextValue(column, t, terminal, bootstrap)
            * NextNonterminal(column, t, terminal)
    - column[t].value

(* compute_returns for one seat, with the discount gamma and the trace     *)
(* decay lambda: the backward recursion over its column.                   *)
Advantages(gamma, lambda, column, terminal, bootstrap) ==
    LET lastgae[t \in 1 .. Len(column) + 1] ==
            IF t > Len(column) THEN 0
            ELSE Delta(gamma, column, t, terminal, bootstrap)
                 + gamma * lambda * NextNonterminal(column, t, terminal)
                         * lastgae[t + 1]
    IN  [t \in 1 .. Len(column) |-> lastgae[t]]
=============================================================================
