------------------------------ MODULE HandIndex ------------------------------
(***************************************************************************)
(* hand_index.c: numbers the hands of a game dealt in rounds, so that two  *)
(* hands have the same number exactly if they differ by a renaming of the  *)
(* suits.  CardData keeps such a number per player and street.             *)
(*                                                                         *)
(* A set of ranks (a bit mask in the code) is a set; rounds count from 1.  *)
(* How often each suit occurs in each round is its count, a number with    *)
(* one hexadecimal digit per round.  Suits sorted by their counts are a    *)
(* configuration; unsorted, a permutation of one.                          *)
(***************************************************************************)
EXTENDS Deck, Sequences, FiniteSets, SequencesExt, FiniteSetsExt, TLC

CONSTANT CardsPerRound          \* cards_per_round

Rounds == 1 .. Len(CardsPerRound)
-----------------------------------------------------------------------------
(* The tables of hand_index_ctor.                                          *)
Product(f(_), S) == FoldSet(LAMBDA x, acc : f(x) * acc, 1, S)

(* nCr_ranks and nCr_groups.                                               *)
nCr(n, k) ==
    IF k > n THEN 0
    ELSE FoldLeftDomain(LAMBDA acc, i : (acc * (n - k + i)) \div i, 1,
                        [i \in 1 .. k |-> i])

Below(r, set) == Cardinality({u \in set : u < r})

Ascending(S, Before(_, _)) ==
    SortSeq(FoldSet(LAMBDA x, seq : Append(seq, x), <<>>, S), Before)

nth_unset(used, n) ==
    CHOOSE r \in 0 .. RANKS + SUITS : r \notin used /\ Below(r, used) = r - n

rank_set_to_index(set) ==
    MapThenSumSet(LAMBDA r : nCr(r, Below(r, set) + 1), set)

index_to_rank_set(n, index) ==
    CHOOSE set \in kSubset(n, 0 .. RANKS - 1) : rank_set_to_index(set) = index

(* An order of the suits, numbered by its inversions, and back.            *)
pi_index(pi) ==
    FoldLeftDomain(LAMBDA acc, i :
        LET smaller == Below(pi[i], {pi[j] : j \in 1 .. i - 1})
        IN  [idx |-> acc.idx + (pi[i] - smaller) * acc.mult,
             mult |-> acc.mult * (SUITS - i + 1)],
        [idx |-> 0, mult |-> 1], pi).idx

suit_permutation(index) ==
    FoldLeftDomain(LAMBDA acc, i :
        [rest |-> acc.rest \div (SUITS - i + 1),
         pi |-> Append(acc.pi, nth_unset(ToSet(acc.pi), acc.rest % (SUITS - i + 1)))],
        [rest |-> index, pi |-> <<>>], [i \in 1 .. SUITS |-> i]).pi
-----------------------------------------------------------------------------
(* enumerate_permutations: the ways the rounds up to a round may divide    *)
(* their cards among the suits.                                            *)
ShiftOf(round) == 16 ^ (Len(CardsPerRound) - round)
RanksOf(count, round) == (count \div ShiftOf(round)) % 16
Used(count) == MapThenSumSet(LAMBDA i : RanksOf(count, i), Rounds)

Splits(n) == {f \in [Suits -> 0 .. n] : MapThenSumSet(LAMBDA s : f[s], Suits) = n}

permutations[round \in 0 .. Len(CardsPerRound)] ==
    IF round = 0 THEN {[s \in Suits |-> 0]}
    ELSE {[s \in Suits |-> c[1][s] + c[2][s] * ShiftOf(round)] :
             c \in {d \in permutations[round - 1] \X Splits(CardsPerRound[round]) :
                       \A s \in Suits : Used(d[1][s]) + d[2][s] <= RANKS}}

(* permutation_index, as hand_index_next_round (and count_permutations)    *)
(* adds a round to it.                                                     *)
AddRound(p, sizes, n) ==        \* sizes: the cards of each suit, n: of all
    FoldLeftDomain(LAMBDA acc, j :
        [idx |-> acc.idx + acc.mult * sizes[j - 1],
         mult |-> acc.mult * (acc.remaining + 1),
         remaining |-> acc.remaining - sizes[j - 1]],
        [idx |-> p.idx, mult |-> p.mult, remaining |-> n],
        [j \in 1 .. SUITS - 1 |-> j])

(* The insertion sort of tabulate_permutations: suits by falling count.    *)
SuitOrder(count) ==
    Ascending(Suits, LAMBDA s, t : \/ count[s] > count[t]
                                   \/ count[s] = count[t] /\ s < t)
Sorted(count) == LET order == SuitOrder(count)
                 IN  [i \in 1 .. SUITS |-> count[order[i]]]

(* enumerate_configurations, in the order tabulate_configurations sorts    *)
(* them into.                                                              *)
Lexicographic(c, d) ==
    \E i \in 1 .. SUITS : c[i] < d[i] /\ \A j \in 1 .. i - 1 : c[j] = d[j]

configurations(round) ==
    Ascending({Sorted(count) : count \in permutations[round]}, Lexicographic)

SuitSize(count, round) ==
    FoldLeftDomain(LAMBDA acc, j :
        [size |-> acc.size * nCr(acc.remaining, RanksOf(count, j)),
         remaining |-> acc.remaining - RanksOf(count, j)],
        [size |-> 1, remaining |-> RANKS], [j \in 1 .. round |-> j]).size

(* Suits with equal counts are interchangeable: the places from i to the   *)
(* end of its group.                                                       *)
GroupStarts(conf) == {i \in 1 .. SUITS : i = 1 \/ conf[i] # conf[i - 1]}
GroupSize(conf, i) == Cardinality({j \in i .. SUITS : conf[j] = conf[i]})

ConfigurationSize(conf, round) ==
    Product(LAMBDA i : nCr(SuitSize(conf[i], round) + GroupSize(conf, i) - 1,
                           GroupSize(conf, i)),
            GroupStarts(conf))

(* What hand_indexer_init leaves in the indexer: the configurations of     *)
(* every round, and their offsets, with round_size as one entry more.      *)
Offsets(confs, round) ==
    FoldLeft(LAMBDA sums, conf :
                Append(sums, Last(sums) + ConfigurationSize(conf, round)),
             <<0>>, confs)

hand_indexer_init ==
    FoldLeftDomain(LAMBDA ix, round :
        LET confs == configurations(round)
        IN  [configuration |-> Append(ix.configuration, confs),
             offset |-> Append(ix.offset, Offsets(confs, round))],
        [configuration |-> <<>>, offset |-> <<>>], CardsPerRound)

hand_indexer_size(ix, round) == Last(ix.offset[round])

(* tabulate_permutations: the configuration and the order of the suits for *)
(* every permutation index.  The table's entry is the one written for the  *)
(* count with that index, whose digits are read back here.                 *)
Sizes(p, n) ==
    FoldLeftDomain(LAMBDA acc, s :
        IF s = SUITS THEN [acc EXCEPT !.sizes = Append(@, acc.remaining)]
        ELSE LET size == acc.rest % (acc.remaining + 1)
             IN  [rest |-> acc.rest \div (acc.remaining + 1),
                  remaining |-> acc.remaining - size,
                  sizes |-> Append(acc.sizes, size)],
        [rest |-> p, remaining |-> n, sizes |-> <<>>], [s \in 1 .. SUITS |-> s])

CountWith(idx, round) ==
    FoldLeftDomain(LAMBDA acc, i :
        LET read == Sizes(acc.rest, CardsPerRound[i])
        IN  [rest |-> read.rest,
             count |-> [s \in Suits |-> acc.count[s] + read.sizes[s + 1] * ShiftOf(i)]],
        [rest |-> idx, count |-> [s \in Suits |-> 0]], [i \in 1 .. round |-> i]).count

permutation_to_configuration(ix, round, idx) ==
    LET conf == Sorted(CountWith(idx, round))
    IN  CHOOSE k \in DOMAIN ix.configuration[round] : ix.configuration[round][k] = conf
permutation_to_pi(round, idx) == pi_index(SuitOrder(CountWith(idx, round)))
-----------------------------------------------------------------------------
hand_indexer_state_init ==
    [round |-> 0, suit_index |-> [s \in Suits |-> 0],
     suit_multiplier |-> [s \in Suits |-> 1],
     permutation |-> [idx |-> 0, mult |-> 1],
     used_ranks |-> [s \in Suits |-> {}]]

(* The first half of hand_index_next_round: what a round's cards add.      *)
Shifted(set, used) == {r - Below(r, used) : r \in set}

NextRound(state, cards) ==
    LET ranks == [s \in Suits |->
                     {deck_get_rank(c) : c \in {d \in cards : deck_get_suit(d) = s}}]
        used == state.used_ranks
        size == [s \in Suits |-> Cardinality(ranks[s])]
    IN  [round |-> state.round + 1,
         suit_index |-> [s \in Suits |->
             state.suit_index[s] + state.suit_multiplier[s]
                                     * rank_set_to_index(Shifted(ranks[s], used[s]))],
         suit_multiplier |-> [s \in Suits |->
             state.suit_multiplier[s] * nCr(RANKS - Cardinality(used[s]), size[s])],
         permutation |->
             LET p == AddRound(state.permutation, size, CardsPerRound[state.round + 1])
             IN  [idx |-> p.idx, mult |-> p.mult],
         used_ranks |-> [s \in Suits |-> used[s] \cup ranks[s]]]

(* The second half: the index, from the sums.  A group of equal suits is   *)
(* numbered as a multiset of their indices.                                *)
UnsortedPart(indices) ==        \* Faulty: in the order of the suits.
    FoldLeftDomain(LAMBDA acc, k : acc + nCr(indices[k] + k - 1, k), 0, indices)
GroupPart(indices) ==
    LET sorted == SortSeq(indices, <=)
    IN  FoldLeftDomain(LAMBDA acc, k : acc + nCr(sorted[k] + k - 1, k), 0, sorted)

IndexAfter(ix, state) ==
    LET k == permutation_to_configuration(ix, state.round, state.permutation.idx)
        conf == ix.configuration[state.round][k]
        pi == suit_permutation(permutation_to_pi(state.round, state.permutation.idx))
        step(acc, i) ==
            IF i \notin GroupStarts(conf) THEN acc
            ELSE LET n == GroupSize(conf, i)
                 IN  [index |-> acc.index + acc.mult
                          * GroupPart([j \in 1 .. n |-> state.suit_index[pi[i + j - 1]]]),
                      mult |-> acc.mult
                          * nCr(state.suit_multiplier[pi[i]] + n - 1, n)]
    IN  FoldLeftDomain(step, [index |-> ix.offset[state.round][k],
                              mult |-> 1],
                       pi).index

(* hand_index_all.                                                         *)
StateAfter(deal) == FoldLeft(NextRound, hand_indexer_state_init, deal)
hand_index(ix, deal) == IndexAfter(ix, StateAfter(deal))
-----------------------------------------------------------------------------
(* hand_unindex.  The code narrows its search for a suit's index with      *)
(* floating point bounds; here it is the largest that fits.                *)
SuitIndices(conf, round, index) ==
    FoldLeftDomain(LAMBDA acc, i :
        LET starts == i \in GroupStarts(conf)
            n == GroupSize(conf, i)
            size == SuitSize(conf[i], round)
            group == nCr(size + n - 1, n)
            rest == IF starts THEN acc.rest \div group ELSE acc.rest
            left == IF starts THEN acc.rest % group ELSE acc.left
            this == Max({k \in 0 .. size - 1 : nCr(k + n - 1, n) <= left})
        IN  [rest |-> rest, left |-> left - nCr(this + n - 1, n),
             indices |-> Append(acc.indices, this)],
        [rest |-> index, left |-> 0, indices |-> <<>>], conf).indices

(* The cards of one suit, round by round.                                  *)
Unshifted(set, used) == {nth_unset(used, r) : r \in set}

SuitCards(count, round, index) ==
    FoldLeftDomain(LAMBDA acc, j :
        LET n == RanksOf(count, j)
            size == nCr(RANKS - Cardinality(acc.used), n)
            set == Unshifted(index_to_rank_set(n, acc.rest % size), acc.used)
        IN  [rest |-> acc.rest \div size, used |-> acc.used \cup set,
             sets |-> Append(acc.sets, set)],
        [rest |-> index, used |-> {}, sets |-> <<>>], [j \in 1 .. round |-> j]).sets

hand_unindex(ix, round, index) ==
    LET k == CHOOSE j \in DOMAIN ix.configuration[round] :
                 ix.offset[round][j] <= index /\ index < ix.offset[round][j + 1]
        conf == ix.configuration[round][k]
        indices == SuitIndices(conf, round, index - ix.offset[round][k])
    IN  [j \in 1 .. round |->
            UNION {{deck_make_card(s, r) : r \in SuitCards(conf[s + 1], round,
                                                           indices[s + 1])[j]} :
                   s \in Suits}]
=============================================================================
