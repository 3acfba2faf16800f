# A verification project for poker_ppo

TLA+ models of `poker_ppo`, a self-play PPO trainer for heads-up no-limit hold'em in C++ and
the Python client that plays against it: the thread pool that steps the environments, the hand
engine with its cards, the observation the network gets, the rollout bookkeeping that turns hands
into training targets, the opponent pool, the training run, the evaluations, and the play
session. The modules are checked with TLC on small instances; theorems about most of them are
checked with TLAPS for every value of the constants. Paths below are relative to the repository's
root.

## 1. The system and its parts

| Part | Source | State it keeps | Operations | Modelled in |
|---|---|---|---|---|
| Step thread pool | `include/rollout.h` (34-126) | generation, stop flag, job count, atomic index, outstanding workers | `parallel_for`, `worker_loop`, destructor | `StepThreadPool`, `Batch` |
| Hand engine | `Game/Game.hpp`, `Transitioner.hpp`, `GameContext.hpp`, `ActionPolicy.hpp`, `BettingConfig.hpp` | state variant (chance, action, terminal), stacks, pot, street, turn | `transition`, `reInitialize`, `getUtility` | `HandEngine` |
| Showdown rank table | `Game/Utility/Utility.cpp` | one table and one flag per process | `initLookup`, `LookupHandValue` | `RankTable` |
| Cards, information sets | `Game/Context/CardData.hpp`, `InfoSetData.hpp`, `HandAbstraction/hand_index.c` | deck order, hand numbers, what each player was shown | shuffle, index, unindex, show | `Deck`, `HandIndex`, `Deal` |
| Hand strength features | `Game/Utility/HandStrength.hpp` | none | category, draws | `HandStrength`, `Deal` |
| Poker environment | `src/poker_env.cpp` | action table, betting history, a game | `reset`, `step`, mask | `PokerEnvironment`, `HandView` |
| Observation builder | `src/observation_builder.cpp`, layout and `network.cpp` | none | `build`, the network's slicing | `Observation`, `Deal` |
| Rollout bookkeeping | `include/rollout.h` (128-302), `src/rollout.cpp` (38-122) | per environment and seat: open transition, accumulated reward, boundary flag, tail flag, buffer column | `record_step`, `step_reward`, two flushes, `push`, `compute_returns`, `flatten` | `RolloutState` |
| Opponent pool and manager | `src/opponent_manager.cpp` | snapshots, next id, offers seen, rollout sample, seat and opponent of each environment | `prepare_rollout`, `on_episode_terminal`, `should_record`, `apply_action_overrides`, `maybe_snapshot` | `OpponentManager` |
| Collector | `src/rollout.cpp` (228-384) | carried hands | `init_carry`, `collect` | `Training` |
| Training run | `src/ppo.cpp` (84-146, 253-424), `cmd_train` in `src/commands.cpp` | network, magnet, snapshots, three CSV files, model file | `train`, `update`, callbacks, cadences | `TrainingRun` |
| League | `src/league.cpp`, `include/policy.h` | tables, seats, counts | `evaluate`, `play_match`, scripted policies | `Match`, `League` |
| Best response | `src/best_response.cpp` | exploiter, warm-start flag, its rollouts | `evaluate`, `run_one_seed`, `eval_match` | `Match`, `BestResponse` |
| Play session | `cmd_play` in `src/commands.cpp`, `tools/play.py` | an environment; the client's view and log; two pipes | `INFO`, `RESET`, `MODEL`, `STEP`, `QUIT`; the client's loop | `PlaySession` |

How they interact. `train()` calls `collect()` once per update. `collect()` asks the
`OpponentManager` for a sample of snapshots, then makes `num_steps` sweeps. A sweep is one
forward pass for all environments, an overwrite of the slots in which a snapshot acts, one
`step_body(i)` per environment run by the thread pool (or a serial loop), and a serial redraw of
the opponents of the environments whose hand ended. `step_body` records the learner's decision,
steps the `PokerEnvironment`, adds the reward, and at a hand's end flushes both seats and resets
the environment. The environment drives one `Game`, whose first showdown loads the rank table
that all threads share; the `ObservationBuilder` reads game, history and cards. After the sweeps
the open transitions are flushed, the tail is bootstrapped with the critic, the advantages are
computed, and the hands in play are carried into the next rollout. `update()` reads the buffer;
the log callback writes the metrics and, on their cadences, runs `League` and
`BestResponseEvaluator`; `maybe_snapshot` offers the network to the pool; the magnet is
refreshed. The trained model is then played through `--play` and `tools/play.py`.

What is hard about it, and which properties make each part correct:

* **Pool**: the two mutexes are taken one after the other, so workers may take a batch before the
  caller has armed the counter it will wait on. A call must neither return before every job ran
  nor let a worker run a body after it returned (the body captures the caller's frame), and it
  should return.
* **Rank table**: an unprotected flag and a table that is cleared before it is read. A showdown
  must not be decided by a half-loaded table.
* **Hand engine**: the rules are spread over four files and keep no per-street contribution. Who
  acts, who has paid what, when a street closes, and where every chip is must survive limps,
  re-raises, all-ins and refunds.
* **Environment and observation**: `step` records before it knows that the action is accepted, and
  its table and history are caches of the engine. Whoever acts must find exactly the engine's
  actions; the history must tell the engine's stacks and raises after any resets and refused
  calls; builder and network must agree on every offset of one row of numbers; and nothing that
  is hidden may show.
* **Cards**: two hands must get one number exactly if they differ by a renaming of suits.
* **Rollout**: a reward is credited only when its seat acts again or the hand ends; hands cross
  rollouts; seats may be unrecorded for a whole hand. Credit must stay in its hand.
* **Opponents**: snapshots are replaced while hands that use them are carried on. An action of a
  snapshot must never be trained on as if the learner had made it.
* **Training run**: evaluations, snapshots and the magnet are taken from one network on cadences
  of their own, and must all be of the moment they claim.
* **League and best response**: two policies choose for all tables before any is stepped, seats
  flip in the middle of a sweep, matches stop in the middle of one, and a hand that goes on over
  a rollout's end must keep its seats while its bookkeeping starts afresh.
* **Play session**: client and engine keep a state each, in two processes with two pipes between
  them, and either may stop at any moment.

## 2. The modules

Which module builds on which (arrows mean EXTENDS, INSTANCE in brackets):

    StepThreadPool [Batch]                 Match -> League -> MCLeague
    RankTable                              Match, Credit -> BestResponse -> MCBestResponse
    HandEngine -> PokerEnvironment [HandView] -> Observation -> MCObservation
    Deck -> HandIndex, HandStrength -> Deal -> MCDeal
    Credit [RolloutState]                  OpponentManager, Credit -> Training
    PlaySession -> MCPlaySession           Training -> TrainingRun -> MCTraining

A module's theorems are in a module of its name with `_proofs` behind it; those of `HandEngine`,
`PokerEnvironment` and `Observation` share `PokerEnvironment_proofs`, those of `RankTable` and `Deal`
share `Cards_proofs`. `SharedLemmas` holds what several of them need.

### `Batch`, `StepThreadPool`

`Batch` is the promise of `parallel_for`: a call hands over n jobs, each is run once, within the
call, and the call returns when all have run. `StepThreadPool` models the code. One action is one
critical section (`Publish`, `Arm`, `Take`, `Exit`, `Finish`, `Stop`), one atomic operation
(`Steal`), one notify (`NotifyWorkers`, `NotifyStop`), one evaluation of a wait's predicate
(`CallerCheck`, `Sleep`), one body (`RunBody`) or the join. A thread in
`condition_variable::wait` is in state `check` (about to evaluate the predicate under the mutex)
or `blocked`; `notify_all` moves the blocked workers to `check`, and spurious wake-ups do so at
any time. A notify to a thread that is not yet blocked is lost, as in the code. `active` is an
`int` that may be armed after it has been decremented, so it ranges over the integers. `ran` is
a history variable: how often each job of the current call has been run.

### `RankTable`

Each thread plays showdowns: `initLookup` tests the flag, clears the table, reads the file and
sets the flag; `LookupHandValue` tests the flag again for each of the two hands and walks the
table. One action is one access to the flag or the table. The clearing and the walk of one lookup
are atomic: a walk that meets a cleared cell falls to the row of zeros, and so to rank 0, wherever
it met it. A load may fail, and the exception ends the process. What the file holds is abstracted
to a rank per hand.

### `HandEngine`

`phase` is the alternative held by `m_current_state`, `bet` the `ActionState` and `result` the
`TerminalState`; the rest are the fields of `GameContext`. `Available` is the action set that
`generateActions` builds, and every action of a player is guarded by membership in it, as
`Game::transition` does. One action per branch of `Transitioner::process`: `DealChance`,
`DoCheck`, `DoRaise`, `DoFold`, `Limp`, `CallAllIn`, `CallClosesStreet`; each includes the record
that `updateInfoSets` makes and the side effect on the context. `ReInitialize` is `reset`, allowed
at any time. Pot fractions are given in percent. The code multiplies them as doubles: `PotSize` is
the engine's `uint32(currentBet + fraction * pot)`, which cuts the sum, and `Expected` (in
`PokerEnvironment`) is the environment's `currentBet + uint32(fraction * pot)`, which cuts the
product. They differ where the product of a fraction and a pot should be a whole number and comes
out a little smaller (`LostInProduct`), and the addition rounds it up again (`FoundInSum`). Both
sets are constants: what the doubles of a menu do is computed for an instance, and the theorems hold for any
such sets. Cards are abstracted: a showdown may go either
way or tie. The conversion of a negative `double` to `uint32_t` in `updatePot(-amountToReturn)` is
undefined in C++; `NegativeCast` lists what a build may make of it: `wrap` (x86-64 code that
converts through 64 bits) or `saturate` (conversions that clamp at 0, as on 64-bit ARM). The
history variable `reraised` says that some street of the hand saw a second raise.

### `HandView`, `PokerEnvironment`, `Observation`

`PokerEnvironment` extends `HandEngine` with the action table, the betting history and whether the
hand's last call threw. `step` is `Step` or, when the engine refuses the action, `StepThrows`; a
call with an empty slot throws and changes nothing. Because a call deals every chance node before
it returns, `phase = "chance"` means that a call is under way, and `AutoAdvance` is then the only
step. `RebuildIfPlaying` rebuilds the table at the end of a call; a finished hand keeps the last
one. A raise slot is named by its fraction in percent; a raise that fits no fraction goes to the
all-in slot, and of several raises in it the largest, stored last, stays. `HandView` is what those who drive an
environment see: whose turn it is, how many decisions were taken, whether the hand is over.
`Observation` has no variables of its own: it is the row that `build` writes for either seat at
the offsets of `ObservationLayout`, and the blocks that `ActorCritic` cuts out of a row at offsets
it computes itself. Builder and network each have their own copy of the two settings that decide
the offsets; the properties are about every pair of copies that the network's check lets pass
(`Readers`). A feature is its numerator, since the norms are positive constants; the hand
features of the static block are `Deal`'s.

### `Deck`, `HandIndex`, `HandStrength`, `Deal`

`HandIndex` is `hand_index.c` with sets of ranks instead of bit masks: the configurations and
permutations that `hand_indexer_init` enumerates, the index of a hand, and its inverse. The
indexer is built once and shared, so it is a state variable of `Deal` (`flopIndexer`). The floating-point
start of the inverse's search is abstracted to the result of the search. `HandStrength` has
the category and draw predicates as set operators. `Deal` is the life of the cards in a hand:
shuffled, numbered for both players and all streets at once, shown street by street, forgotten by
the next reset, and turned into the card part of an observation.

### `RolloutState`, `Credit`, `OpponentManager`, `Training`, `TrainingRun`

`RolloutState` has no variables: its operators are the member functions of
`PlayerRolloutState` on a record that also holds the environment's two columns of the buffer, and
`Advantages` is the backward recursion of `compute_returns` for one column. A transition's tensors
are abstracted to the step they belong to; its critic value is `Critic[step]`. `Credit` models no
code: it is the vocabulary in which a column is compared with the hands its decisions were taken
in. `Running` says what the bookkeeping of an environment tells of them while its rollout goes on
(an open transition exactly when the hand being played has a decision, rewards only on a hand's
last decision, markers where a hand begins), and `Cut` when the rollout is over.
`OpponentManager` keeps the reservoir, the sample and the assignments; a snapshot is its id and
every random draw is a choice. The pool is enabled in the model; disabled, the code behaves as
with `SnapshotEvery = 0`.
`Training` composes them into `collect()`. In a sweep the environments are stepped
in any order (`HandGoesOn`, `HandEnds`), which is what `Batch` promises of the pool;
`step_body(i)` is one action because its data are disjoint from every other environment's and the
manager's data do not change during a sweep. `EndSweep` is the serial tail. Of a hand the
module keeps only what the collector sees: who acts next, and the reward at its end. That seat 1
opens a hand and never takes two decisions in a row is what `PokerEnvironment` promises
(`HandView`). `turns`, `hand` and `results` are history variables: they
say which hand each decision belonged to, against whom, who chose the action, and what hands
paid, and the properties are stated over them instead of over the flags the code uses.
`TrainingRun` adds what one thread does between rollouts: `UpdateNetwork` is `update()`, the log
callback with its evaluations, the snapshot and the magnet, in the code's order, and `SaveModel`
is what follows `train()`. Weights are the number of updates that changed them. An update with an
empty buffer changes none. `NumMinibatches` is at most the batch size: with more, the slice length
is 0 and the loop of `update()` would not advance.

### `Match`, `League`, `BestResponse`

`Match` is the loop that `League::play_match` and `eval_match` share: a sweep stores observation
and mask of each table, asks the policy whose seat it is for an action, then steps the tables one by
one, counts and credits finished hands, flips the seat, and stops as soon as enough are done.
Tables are `HandView` with a mask. `League` adds the anchors and their scripted policies with
`first_legal`, and the action histogram. `BestResponse` adds the exploiter: its rollouts, which
record its own decisions through `RolloutState` (or lose them to a truncated tail), warm start,
several seeds, the final match (or, with `eval_hands = 0`, the rollouts' own totals) and the
choice of the best. An exploiter is the set of pairs (evaluation, seed) it has learned from;
what gradient steps do with them is left out. The history variables `own` and `paid` are the
exploiter's decisions by the seat it took them in and the rewards of the hands it finished. The totals of the rollouts are kept only when no
match follows, because only then does the code read them.

### `PlaySession`

Two processes and two pipes, each a sequence of messages. A message is a request line or a block
of answer lines up to its `OK`; a refusal is two, `ERR` and the `OK` that the client does not wait
for. The server answers one request at a time; the client is at one place of its loop (handshake,
deal, turn, send, waiting for an answer, closing, gone). A human may choose any legal action, quit
or end the input at a prompt, and interrupt anywhere: in the loop an interrupt leads to `finally`
(`Interrupted`), before it and in `close` it ends the client at once (`CutShort`), with whatever is
in the pipes (`Leftover`). A finished hand has a result for each seat, `utility_p0` and
`utility_p1`, which need not cancel; the client adds up that of the human's seat. The engine may
refuse a step or throw, which ends it; a pipe
whose reader has gone breaks. The log file is the sequence of hands and actions written to it;
`applied` and `utilities` are history variables on the server's side. Rendering is left out, and so
are the lines that loading the rank table prints into an answer: the client reads them as keys that
it never asks for.

## 3. The runs

Runs expected to pass:

| Run | Instance | Question |
|---|---|---|
| `pool` | 3 workers, 3 calls of up to 3 jobs, then the destructor; fair threads | Is the counter never too low (`IInv`), is `Batch` implemented, do published jobs run, does a call that no worker overtook return, does the destructor return |
| `table` | stack 480, blinds 30/60, menu 40/41/100 % and all-in, 3 raises a street, history windows of 3 and 16, 9 card slots | Chips, turns and payments of the engine; the slots hold the menu, each action once, but for raises that two roundings tell apart; the history accounts for stacks, raises and aggressor; `HandView` is implemented; the network's view of an observation is of one hand and has its last actions; hands end |
| `training_credit` | 1 environment, 5 steps, 3 updates, pool of 1, Gamma 2, Lambda 3 | Each learner decision stored once and in order, only live actions, one opponent per hand, advantages equal to a reference told from hands and results |
| `training_pool` | 2 environments (symmetric), 2 steps, 5 updates, pool of 2, sample of 1 | How many snapshots fresh hands meet; what an epoch trains on; which weights snapshots, evaluations and saved model have |
| `league` | 2 tables, 2 hands a match, anchors `pair_all_in` and `always_raise` | Chosen actions are legal when played; credit and seats; the action histogram |
| `best_response` | 1 environment, 3 steps, 2 updates, 2 evaluations; one exploiter cold, one warm, or two with no final match | What an exploiter learns from, its targets, what it carries over, what is reported |
| `play_session` | 2 hands of up to 3 decisions, two masks, two results: a hand won, and a tie of an odd pot, which costs one seat a chip | Answers match requests, steps are legal, log and total are what was played; fair processes: nobody waits for ever |
| `rank_table` | 2 threads, 2 showdowns each, 2 ranks | The table ends up whole; a showdown is wrong only next to a loader |
| `cards` | 7 ranks, 4 suits, hands dealt from two nine-card decks: all hole cards, four cuts of the rest | Numbers are canonical and dense; nothing hidden shows; the features are those of the best five cards and announce what comes |

Why the bounds are enough.

* `pool`: three workers give one that finishes early, one that is late and one that sleeps through
  the batch; three calls let a worker be late for one call and meet the next.
* `table`: eight big blinds reach every kind of hand: limps, folds on every street, full
  sequences of three raises, short all-in calls with and without refund, and stacks of zero, on
  all four streets. 40 and 41 % give the same size on small pots, so a raise may fit two slots; and
  41 % of 300 and of 600, pots that hands come to, are 122.99... and 245.99... in doubles, which the engine's
  sum rounds up and the environment's product does not, so a raise may fit none. A window of 3 overflows in
  almost every hand; one of 16 holds every hand of the instance.
* `training_credit`: five steps hold two finished hands, a truncated one and an unrecorded hand
  between two recorded ones; later rollouts add carried hands and pool opponents. `Gamma = 2` and
  `Lambda = 3` make every factor and power distinct in integer arithmetic (the program uses 1 and
  0.9), and the critic's values differ at every step, so a wrong factor, successor or sign changes
  a sum.
* `training_pool`: the pool is filled by two updates, the third snapshot is accepted or turned
  down, and two further rollouts see retired ids. `MagnetEvery`, `LeagueEvery` and
  `BestResponseEvery` are 1, 2 and 3, so the cadences meet and miss each other.
* `league`: two hands and two tables let a match stop with the second table chosen for and not
  stepped, and let one table play both hands.
* `best_response`: a hand may end in, or go on over, either rollout; two evaluations show what a
  warm start keeps; the two-exploiter configuration compares seeds, ties and losses included. The
  critic's values are powers of ten apart, so no sum hides another.
* `play_session`: two hands give each seat to the human once, and the two results pay the seats
  differently without cancelling in the tie, so a total taken of the wrong seat shows; a session can
  be left or interrupted at any point.
* `rank_table`: with two threads one may load, be overtaken, and look up its hands while the other
  clears; the second showdown comes after the loads.
* `cards`: TLC's integers have 32 bits, and the numbers of seven-card hands of the whole deck do
  not fit; seven ranks keep every configuration of suits. The two decks are made of the cards that
  make wheels, pairs to quads, flushes, straight flushes and their draws likely.

Symmetry is used in `training_pool` only, over the environments, which no constant tells apart.

Runs that show a disagreement between the code and its documents or tests:

| Run | What it shows |
|---|---|
| `pool_returns` | A worker that is awake when `generation_` is bumped can take the batch, drain it and decrement `active_` before `include/rollout.h:73` sets it. The surplus then never drains and `parallel_for` does not return. |
| `hand_tie` | After a re-raise, `currentBet` is the raiser's last addition and the caller pays all of it again, so contributions differ and a tie does not return them. (The test that says so, `Game/tests/showdown_test.cpp:654`, plays hands without re-raises.) |
| `rank_table_race` | Of two threads that meet their first showdown together, one may clear the table again after the other has set the flag and begun to look up its hands, which then rank 0: the wrong seat wins. |

Other places where a comment, a name or a test does not match the code; they have no run of their
own:

* `Game/Game.hpp:94`: a tied pot is halved in integers, so an odd chip is lost, where
  `showdown_test.cpp:649` expects the results to cancel. `OnlyTheOddChipIsLost`, which is proved,
  allows exactly this.
* `src/poker_env.cpp:191` computes a raise's size in another order than `Game/BettingConfig.hpp:100`:
  a fraction of 0.57, a pot of 100 and a bet of 1000 give 1056 and 1057. Such a raise fits no
  fraction: it lands in the all-in slot, or is dropped if the menu has none or the all-in follows.
  No fraction that the repository configures does this: most are exact in binary, and 0.33 and 0.66
  are a little more than that as doubles, so no product comes out too small. `TableIsTheMenu` says
  what is left of the menu in any case.
* `Game/Utility/HandStrength.hpp:219` says that `straight_draw_outs` is 0 once a straight is made;
  the function does not look for one, and every missing rank is then an out. The only caller, the
  observation builder, masks the outs by category (straight or straight flush), so a flush that hides a
  straight still shows them.
* `Game/Transitioner.hpp:160`: a negative `double` is converted to `uint32_t`. In a build whose
  conversion saturates, the refund is paid to the raiser and stays in the pot as well.
* `Game/Transitioner.hpp:58`: the type of a `ChanceState` is never set, so flop, turn and river
  also open with the small blind as current bet.
* `src/opponent_manager.cpp:193`: a carried hand keeps an id outside the new sample, so a step can
  need more forwards than the cap that `include/opponent_manager.h:86` speaks of.
* `src/best_response.cpp:253` bounds the bias of a truncated tail by one transition; with
  undiscounted returns it reaches every decision of the hand that was cut off
  (`TargetsAreHandResults` says exactly which).
* `include/best_response.h` calls the final match deterministic; both sides sample their actions.
* `include/config.h:212` reckons with about 16 actions a hand; the code's bound is 24.
* `Game/BettingConfig.hpp:53`: the "min raise above current bet" is read by no step of the discrete
  policy.
* `src/rollout.cpp:281`: the carried boundary flag is always zero; the estimate never reads the
  first marker, so nothing follows from it.
* `include/rollout.h:136`: a rollout's tail is bootstrapped, not terminal.
* `tools/play.py` names `run_play()` in `main.cpp`; it is `cmd_play` in `src/commands.cpp`.

Fairness. `pool` and `pool_returns` assume weak fairness of the caller's steps inside a call and of
each worker's steps: an operating system that runs every runnable thread, and mutexes that are
eventually granted. Nothing obliges the trainer to call again, nor a condition variable to wake
spuriously. `play_session` assumes weak fairness of the two processes. Nothing obliges the
human to choose an action, to go on to the next hand or to quit. No other run assumes fairness: that a hand ends is stated as a measure that every
accepted action decreases (`HandMakesProgress`).

Deadlock is checked in every run: the end of the destructor, of training, of an evaluation and of
a session, and the terminal state of a hand (which can be reset), are steps of the models.

Each property of a passing run is paired in `PROJECT.json` with a faulty variant of a step or an
operator (marked *Faulty* in the modules) that makes TLC report it.

## 4. What is proved

All theorems hold for every value of the constants that the modules' assumptions admit. Each
invariant was checked with TLC before it was proved. Some theorems state a property that no run
lists, because the inductive invariant or another property of the run covers it; in
`PROJECT.json` those theorems carry no `property`.

**`StepThreadPool_proofs`**, for every finite set of workers. The invariant `IInv` adds to the types
*Lifecycle* (whose generation each thread is in, and that an idle caller leaves every worker
waiting with the current generation), *ActiveCovers* (once armed, `active` is at least the number
of workers that still owe a decrement), *JobLedger* (every index below `nextIdx` is claimed by one
worker or has run once) and *Drained* (a worker leaves its loop only when no index is left).
`ActiveCovers` is the heart: decrements that were overwritten by `Arm` can only make `active`
too large, so `active = 0` still implies that nobody is pending, and with *Drained* and
*JobLedger* that every job has run. From it follow `BodiesStayInTheCall`, `NoEarlyReturn` and
`PoolImplementsBatch` (the refinement of `Batch`); `SurplusNeverDrains` proves the other side, that
a surplus stays, which is why an overtaken call never returns.

**`PokerEnvironment_proofs`: the engine**, for all stacks, blinds, menus and raise limits that the configuration's
validation admits. `IInv` adds that the current bet is covered by the pot, that the last raiser is
the other seat, and that the flags of a street agree with the actions recorded on it. It gives
`TypeCorrect` (no stack or pot below zero), `RaiserNeverAnswersItself`, `StreetsNeedBothSeats` and
`EveryActionIsProgress`; `CardsInTime` needs only its own invariant. `NoChipLost` and
`ZeroSumButForTheOddChip` assume `CastWraps`, that the build's conversion wraps: without it they
are false. `LevelAlways`, `PaidTheSame` and `ActorHasChips` assume `BlindsDoubled`, that the big
blind is twice the small one and less than the stack, as in every configuration of the repository:
the discount given to a caller equals the big blind's lead only then. `Level` is itself inductive
and says by how much the seats differ at every point of a hand without re-raises.

**`PokerEnvironment_proofs`: the environment**, for the same constants: every call is made of actions that preserve
`IInv`, whatever the caller asks for, so table and history are well formed (`EnvTypeCorrect`);
`EnvironmentImplementsHandView` follows from where each action leaves the turn;
`HistoryStaysBounded` from an invariant that counts on every street the raises and the first
action against a quota of `MaxRaises + 2` entries. `MenuIsInTheTable` is about the slots, for any
menu of whole percents and any `LostInProduct` and `FoundInSum`: the size of a fraction that is not misread
is the one the environment expects (*SameSize*), so such a raise is filed under the least fraction
that gives it (*RaiseSlot*), and two of different size have different slots; a misread raise is
either filed under another fraction that expects it, or falls into the all-in slot, where the
largest stays (*LastStored*, *ShoveSlotFacts*): the stack if it was offered there. So only misread
raises can be missing, and the all-in slot holds the stack or a misread raise.
`ExactFractionsGiveTheMenu` is what follows for menus like those of the repository, whose fractions are never
rounded apart (`FoundInSum = {}`): the table is the engine's menu.
`HistoryIsTheBetting` is that the betting history accounts for the table. Its invariant has two
parts: *ChipsAreTold* (a seat's stack has lost its blind and the amounts of its entries, also
inside a call, until the hand is settled) and *StreetsAreTold* (no entry is of a street still to
come, and those of the current one say how many raises it has seen and who raised last).

**`PokerEnvironment_proofs`: the observation**, for every length of the history block. The length of
a row, the only thing the network's constructor compares, determines every offset that builder and
network compute on their own (`DimensionIsEnough`). The row is built by writing cards, table,
round summary and history over zeroes; *RowReads* shows that no two of these parts touch the same
number, so each is read back unchanged at its offset. `FlattenSeq`, which joins the tokens, is a
recursive function of the community modules: as with the backward recursion below, it is shown to
have a solution and then to put number j of token i at its place (*FlattenedRows*).
`LastActionsAreTold` follows: the mask is 1 exactly for the tokens that were written, and a token cut
out by the network means the entry it was made of, whichever copy of the settings the network has that the check lets pass. `InputIsOfOneHand` needs one more invariant,
*TotalsAreTold*: until the hand is settled all chips are in the stacks and the pot, and
`raiseNum` is the number of raises in the history. With `HistoryInv` (what each seat paid, street by
street) and sums that are split by street, the numbers the network reads in three places of the
input are sums over one history. Neither theorem assumes anything about the cast: it only acts when
the hand is over, and both properties are about a hand in which somebody is to act.

**`Cards_proofs`: the rank table**, for any set of threads. `IInv` adds *LoadsOnce* (a thread that has loaded
has set the flag and does not load again), *ClearedIsReread* (a table in use and cleared has a
reader about to fill it) and *LoadersDisturb* (a thread that was not disturbed has no loader
beside it and has read its own hands' ranks). It gives `TableSettles` and `WrongNeedsALoader`.

**`Cards_proofs`: the deal**, for any deck, any orders of it and any way to number hands. *DealInv*
says that the numbers of all streets are computed from the cards of this hand when it is dealt and
that a player holds the beginning of its own, as far as streets were shown. With it
`NothingLeaks`: the k-th number a player holds is that of the cards it sees on street k (the list
that grows card by card is cut where the street is), and no place that is read for its observation
is one of the places it does not see. `DealAssumption` is used for it: hands are dealt from
permutations of the deck, or of a part of it, that have nine cards or more.

**`Cards_proofs`: the hand features**, for any deck of at least five ranks and at most four suits (as
many as the code's arrays count) and any deals of it. *DealInv* also says that the nine cards differ.
`FeaturesAreTrue` has three parts. *BestFive*: the category told from the counts over all cards is
the best of the categories of five of them, for any five cards or more. One direction is that what
five of the cards make, the whole hand makes, or something better (*FiveAreMade*: a rank repeats in all of
them at least as often as in five, and quads, trips and pairs that grew are still counted). The
other is that the hand's category is reached by some five (*MadeByFive*): five in a row of one suit, four
of a kind with any fifth, the full house out of two triples, and so on, completed by cards that
make nothing better. The cases of `FiveCardCategory` exclude each other because a flush
or a straight among five cards repeats no rank, which has to be
shown (*RepeatsNone*, *FiveCardCases*). *CategoryGrows*: a card more never loses a
category. *FlushDraw* and *StraightDraw*: a flush made by one more card was four of a suit before,
in a hand whose category was neither of the flushes; a straight completed by one card had four
ranks of its window, so the missing rank was among the outs and the window among the live ones.
The last lemmas place the cards: what a player sees on a street, how many they are, and that the
next street adds one.

**`League_proofs`**, for any number of tables, anchors and hands and any rewards. *SeenIsCurrent*
says that the arrays the policies choose from are what the environments are, and *PlanFits* that a
choice made before the sweep still fits every environment the sweep has not reached. From them:
`ChoicesStayLegal`, `SeatsKeepTheirPolicy`, `CreditIsSeated`. A second invariant is about what a
match has done so far (`HistoriesHold`): *SeatsAlternate* and *HandsAreCounted* (each table deals
its hands to the seats in turn, from its first seat, and the tables' hands add up to the tally),
*CountsRunAhead* (the histogram is ahead of the actions played by exactly what has been chosen in
this sweep and not yet played). It gives
`HistogramIsWhatWasPlayed` and `SeatsStayBalanced`.

**`PlaySession_proofs`**, for any number of hands, any masks and any pair of results of a hand. *Dialogue* lists, for each place of
the client, what may be under way in the two pipes; *ViewIsCurrent* says that the client knows the
engine's table whenever it is not waiting. Of a client that ends, *Leftover* says that at most its
last request, not yet answered, and `QUIT` are left to the engine. They give `AnswersStayInStep`, `StepsStayLegal` and
`BotIsAskedInTurn`. *Records* (`RecordsHold`) relates log, total and the two sides' own accounts at
every place of the client: how many of the applied actions the log has, how many of the utilities
the total has, and what it lacks while an answer is under way, or for good if the client was
interrupted while its last action was (`Sent`). `SessionStaysRecorded` follows: the total is the sum
of what each hand paid the seat the human had in it.

**`BestResponse_proofs`**, for any environments, lengths of rollouts and hands, seeds and rewards.
`IInv` says what a match has (*MatchFits*, *OnePolicyPerSeat*), what the exploiter of a seed has
learned from (*SeedsFit*), that the best is the best of the seeds measured so far (*BestFits*),
and that every column is `Running` or `Cut` (*ColumnsFit*). It gives `SeedsStayIndependent`,
`TheBestIsReported`, `ItsOwnAreLearned`, and, undiscounted, `TargetsTellTheHands`: by backward
induction over the column the sum of the errors from a decision to the end of its hand is what the
hand paid, less the value estimate.

**`TrainingRun_proofs`**, for any environments, steps, updates, cadences and pool sizes, and any
rewards and value estimates. `IInv` has two parts. *Orderly* says in terms of the decisions taken
what the flags mean: *TurnsInStep* (how many decisions each environment has taken, and which hand
each is of), *TurnsOfThisHand* (those of the hand being played met the assigned opponent),
*IdsAreOld* and *FreshHandsAreSampled*. *CreditFits* says that each environment's bookkeeping is
`Running`, or, once the rollout is over, `Cut`, for the learner's decisions in `turns`. From the first
follow `TypeCorrect` (no column outgrows its rollout, no pool its size), `OpponentStays`,
`StandInOnlyWhenCarried`, `FreshHandsAreCapped` and `IdsAreGivenOnce`. `DecisionsAreStored` and
`StoredActionsAreLive` need a further invariant: each column, open transition included, lists
exactly the learner's decisions of its seat, in order. `OpponentsArePastSelves`,
`MagnetStaysClose` and `FilesAgree` each add a part about the update loop: *SnapshotsAreOld*,
*MagnetFollows* (updates since the last multiple of the period bound what the magnet misses) and
*FilesInStep* (rows are in the order of the updates, and the row without an update comes after the
last). `CreditStaysInTheHand`, for every discount and every lambda, is the argument that the
markers and rewards of a column keep the estimate inside each hand: a `Cut` column gives every
decision the error of its hand (what follows in it, or what it paid, or the bootstrap), the
marker makes the decay zero exactly at a hand's last decision, and the backward recursion is then
the discounted sum of the errors up to there. `EpochsAreWhole` bounds the batch first: a sample is
a decision of one environment at one step, so the columns together hold no more samples than the
rollout has steps. The slices start at the multiples of the minibatch size, so they partition
the positions 0 .. Samples - 1, the short last one included, and more samples never mean fewer
slices; the count the code divides by is therefore never too small.

**`SharedLemmas`**: induction over the naturals as a fact about sets (the library's takes an
operator); sums over a set split off one term, agree when their terms do, and scale; a non-empty
set of numbers has a least one, which `Min` chooses; what `RecordStep`, `StepReward` and the two
flushes do to `Running` and `Cut`; how a number lies between the multiples of another (division,
which the prover does not relate to multiplication by itself); and the backward recursion. `Advantages` is a recursive
function whose value the prover does not see: it is shown to exist (`BackwardExists`) and so to
satisfy its equation, which has one solution; `BackwardSums` turns that solution into sums by hand.

Only model-checked: that the numbers of `HandIndex` are canonical (an index is built by folds and
recursive tables over the configurations of suits, and that two hands never share one is an induction
over what those compute, which the prover cannot instantiate); and every liveness property (fairness
and ENABLED are beyond the prover).

## 5. Not modelled

* Options and dispatch in `src/main.cpp`: no state of its own.
* The vendored evaluator (`pokerlib.cpp`, `arrays.h`) and the generator of the rank table: third-party
  code that runs offline; `RankTable` takes the file as given, and a showdown's result is a choice.
* Layers, losses, gradients and optimizers of `network.cpp` and `ppo.cpp`: floating-point numerics.
  What is modelled of them is how a row is sliced, which samples an epoch sees and when weights
  change.
* Rendering in `tools/play.py`, plots in `tools/plot_live.py`: output only.
* `ContinuousActionPolicy`, which no program of the repository uses, and the benchmark command,
  which calls `collect` without updates.

## 6. What could follow

A pot ledger as an abstract specification of the hand engine, with `HandEngine` shown to implement
it where the cast wraps.
