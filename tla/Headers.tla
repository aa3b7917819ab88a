------------------------------- MODULE Headers -------------------------------
(***************************************************************************)
(* The rules of headers (Chain::add_header) and what is computed from the  *)
(* header tree: ancestors by skip pointers, locators, median times, locks  *)
(* and targets.                                                            *)
(*                                                                         *)
(* The tree has two branches; a header is its side and its height.  Which  *)
(* branch is the main chain is the matter of Chain: here it may end in any *)
(* entry, and what depends on it takes that entry as a parameter.          *)
(***************************************************************************)
EXTENDS Integers, Sequences, FiniteSets

CONSTANTS
    MaxHeight,     \* bound: the largest height
    Forks,         \* where the branches part
    Interval,      \* consensus::DIFFCHANGE_INTERVAL
    Spacing,       \* pow_target_spacing
    MedianSpan,    \* consensus::MEDIAN_TIMESPAN
    MaxFuture,     \* consensus::MAX_FUTURE_BLOCK_TIME
    PowLimit,      \* pow_limit; the target of genesis
    MantissaLimit, \* targets from here on lose their last digits in bits
    Digit,         \* ... of this base
    AllowMinDifficulty,  \* allow_min_difficulty_blocks
    NoRetargeting,       \* no_pow_retargeting
    OverflowChecks,      \* the build panics when an unsigned operation overflows
    Modulus,       \* 2^32: where an unsigned operation wraps if it does not
    Granularity,   \* 2^SEQUENCE_GRANULARITY
    Dense,         \* the 10 of get_locator
    MaxOdd         \* bound: how often the miners change sides or forge a time

ASSUME HeadersAssumption ==
    /\ {MaxHeight, MaxOdd, Dense} \subseteq Nat
    /\ {Interval, Spacing, MedianSpan, MaxFuture, PowLimit, MantissaLimit, Modulus,
        Granularity} \subseteq Nat \ {0}
    /\ Forks \subseteq 0 .. MaxHeight - 1
    /\ Digit \in 2 .. MantissaLimit
    /\ {AllowMinDifficulty, NoRetargeting, OverflowChecks} \subseteq BOOLEAN
    /\ Interval * Spacing >= 4

VARIABLES
    fork,     \* the last header both branches share
    entries,  \* COL_ENTRY: time, bits and skip of the headers that were added
    now,      \* util::now()
    last,     \* history: the header that was added last
    odd       \* history: how often a header did not build on the last one, or did
              \* not carry the time of the clock

vars == <<fork, entries, now, last, odd>>

Genesis == <<"a", 0>>

HeightOf(b) == b[2]

\* BlockHeader.prev_blockhash.
Prev(b) == IF b = <<"b", fork + 1>> THEN <<"a", fork>> ELSE <<b[1], b[2] - 1>>

Headers == {"a"} \X (0 .. MaxHeight) \cup {"b"} \X (fork + 1 .. MaxHeight)

Entry == [time : Nat, bits : 1 .. PowLimit, skip : Headers]

TypeOK ==
    /\ fork \in Forks
    /\ DOMAIN entries \subseteq Headers
    /\ \A b \in DOMAIN entries : entries[b] \in Entry
    /\ \A b \in DOMAIN entries \ {Genesis} :
          /\ Prev(b) \in DOMAIN entries
          /\ entries[b].skip \in DOMAIN entries
    /\ now \in Nat
    /\ last \in DOMAIN entries
    /\ odd \in 0 .. MaxOdd

------------------------------------------------------------------------------
(* Ancestors.                                                              *)

\* What the prev_blockhash of the headers lead to: the ancestor of b at a height.
AncestorOf(b, height) == IF height <= fork THEN <<"a", height>> ELSE <<b[1], height>>

\* ChainDB::is_main_chain and get_entry_by_height when the main chain ends in main.
IsMain(main, b) == HeightOf(b) <= HeightOf(main) /\ AncestorOf(main, HeightOf(b)) = b

Known(main, height) == AncestorOf(main, height)

\* n & (n - 1): without the lowest bit.
FlipLow(n) ==
    LET low[m \in 0 .. n] ==
            IF m = 0 THEN 0 ELSE IF m % 2 = 1 THEN m - 1 ELSE 2 * low[m \div 2]
    IN low[n]

\* get_skip_height.
SkipHeight(height) ==
    IF height < 2 THEN 0
    ELSE IF height % 2 = 1 THEN FlipLow(FlipLow(height - 1) + 1)
    ELSE FlipLow(height)

\* Broken variant: the pointer is taken although it leads below the height.
FollowsAny(height, skip, prev) == skip <= height

\* get_ancestor goes to the skip of an entry rather than to the entry before it.
Follows(height, skip, prev) ==
    skip = height \/ (skip > height /\ ~(prev < skip - 2 /\ prev >= height))

\* One turn of the loop of get_ancestor.  Only genesis has no skip.
Down(b, height) ==
    IF Follows(height, SkipHeight(HeightOf(b)), SkipHeight(HeightOf(b) + 1))
    THEN entries[b].skip
    ELSE Prev(b)

\* ChainDB::get_ancestor.
GetAncestor(main, b, height) ==
    LET walk[x \in DOMAIN entries] ==
            IF HeightOf(x) <= height THEN x ELSE walk[Down(x, height)]
    IN IF IsMain(main, b) THEN Known(main, height) ELSE walk[b]

\* ChainDB::get_next_path.
NextPath(main, b, height, limit) ==
    LET top   == IF height + limit < HeightOf(b) THEN GetAncestor(main, b, height + limit) ELSE b
        n     == IF HeightOf(top) > height THEN HeightOf(top) - height ELSE 0
        back[i \in 0 .. n] == IF i = 0 THEN top ELSE Prev(back[i - 1])
    IN IF limit = 0 THEN <<>> ELSE [i \in 1 .. n |-> back[n - i]]

\* Chain::common_ancestor.
CommonAncestor(main, b, c) ==
    LET low == IF HeightOf(b) < HeightOf(c) THEN HeightOf(b) ELSE HeightOf(c)
        meet[i \in 0 .. low] ==
            IF i = low THEN <<GetAncestor(main, b, low), GetAncestor(main, c, low)>>
            ELSE IF meet[i + 1][1] = meet[i + 1][2] THEN meet[i + 1]
            ELSE <<Prev(meet[i + 1][1]), Prev(meet[i + 1][2])>>
    IN meet[0][1]

------------------------------------------------------------------------------
(* Locators.                                                               *)

\* Broken variant: the main chain is followed from the start.
InBestFromStart(main, b) == TRUE

InBest(main, b) == IsMain(main, b)

\* The n-th hash of get_locator, with what the loop keeps.  Once a hash is on the main
\* chain the others are looked up by height.
Located(main, start) ==
    LET at[n \in 0 .. MaxHeight] ==
            IF n = 0 THEN [hash |-> start, height |-> HeightOf(start), step |-> 1,
                           best |-> InBest(main, start)]
            ELSE LET p      == at[n - 1]
                     height == IF p.height > p.step THEN p.height - p.step ELSE 0
                     hash   == IF p.best THEN Known(main, height)
                               ELSE GetAncestor(main, start, height)
                 IN IF p.height = 0 THEN p
                    ELSE [hash |-> hash, height |-> height,
                          step |-> IF n > Dense THEN 2 * p.step ELSE p.step,
                          best |-> p.best \/ IsMain(main, hash)]
    IN at

\* Chain::get_locator of a hash that is known; of one that is not, it is the locator of the
\* tip with that hash in front.
Locator(main, start) == {Located(main, start)[n].hash : n \in 0 .. MaxHeight}

\* Chain::find_locator of a peer whose main chain ends in its own tip: the first hash,
\* which is the highest, that is on it.
FindLocator(peer, locator) ==
    CHOOSE b \in locator :
        /\ IsMain(peer, b)
        /\ \A c \in locator : IsMain(peer, c) => HeightOf(c) <= HeightOf(b)

------------------------------------------------------------------------------
(* Times and locks.                                                        *)

\* Broken variant: the times are not sorted.
MiddleTime(times) == times[Len(times) \div 2 + 1]

\* The time in the middle when they are sorted, the later one of two.
MedianOf(times) ==
    LET half == Len(times) \div 2 IN
    CHOOSE t \in {times[i] : i \in DOMAIN times} :
        /\ Cardinality({i \in DOMAIN times : times[i] < t}) <= half
        /\ Cardinality({i \in DOMAIN times : times[i] <= t}) > half

\* Chain::get_median_time.
MedianTime(b) ==
    LET n == IF HeightOf(b) < MedianSpan THEN HeightOf(b) + 1 ELSE MedianSpan
    IN MedianOf([i \in 1 .. n |-> entries[AncestorOf(b, HeightOf(b) - i + 1)].time])

\* TransactionExt::is_final, for inputs that leave the lock time in force, and
\* Chain::verify_final under MEDIAN_TIME_PAST.
FinalAt(prev, byHeight, lockTime) ==
    \/ lockTime = 0
    \/ lockTime < IF byHeight THEN HeightOf(prev) + 1 ELSE MedianTime(prev)

\* The lock less one: a lock of zero overflows.
LessOne(n) == (n - 1) % Modulus

\* Chain::get_locks and verify_locks for one input whose coin has a height; a panic
\* satisfies nothing.
UnlockedByHeight(prev, coin, n) ==
    /\ OverflowChecks => n > 0
    /\ (coin + LessOne(n)) % Modulus <= HeightOf(prev)

UnlockedByTime(main, prev, coin, n) ==
    LET from == MedianTime(GetAncestor(main, prev, IF coin = 0 THEN 0 ELSE coin - 1)) IN
    /\ OverflowChecks => n > 0
    /\ (from + LessOne(n * Granularity)) % Modulus < MedianTime(prev)

------------------------------------------------------------------------------
(* Targets.                                                                *)

\* A target as the compact form of bits holds it.
Compact(target) ==
    LET c[t \in 0 .. target] == IF t < MantissaLimit THEN t ELSE Digit * c[t \div Digit]
    IN c[target]

LimitBits == Compact(PowLimit)

Timespan == Interval * Spacing

\* Broken variant: the target may grow beyond the limit.
Unlimited(target) == Compact(target)

Limited(target) == IF target > PowLimit THEN LimitBits ELSE Compact(target)

\* The time an interval took, as an unsigned difference.
Elapsed(prev, first) == (entries[prev].time - entries[first].time) % Modulus

\* Chain::retarget.
Retarget(prev, first) ==
    LET took    == Elapsed(prev, first)
        clamped == IF took < Timespan \div 4 THEN Timespan \div 4
                   ELSE IF took > Timespan * 4 THEN Timespan * 4
                   ELSE took
    IN IF NoRetargeting THEN entries[prev].bits
       ELSE Limited((entries[prev].bits * clamped) \div Timespan)

\* Where the walk over blocks of minimum difficulty ends.
Stops(b) ==
    \/ HeightOf(b) % Interval = 0
    \/ entries[b].bits # LimitBits

\* Broken variant: the target of the last block, whatever its rule.
LastOfAny(prev) == prev

\* The last block whose target is not that of the special rule.
LastRegular(prev) ==
    LET walk[b \in DOMAIN entries] == IF Stops(b) THEN b ELSE walk[Prev(b)]
    IN IF AllowMinDifficulty THEN walk[prev] ELSE prev

IsBoundary(prev) == (HeightOf(prev) + 1) % Interval = 0

First(prev) == AncestorOf(prev, HeightOf(prev) - (Interval - 1))

\* Chain::get_target.
GetTarget(time, prev) ==
    IF IsBoundary(prev) THEN Retarget(prev, First(prev))
    ELSE IF AllowMinDifficulty /\ time > entries[prev].time + 2 * Spacing THEN LimitBits
    ELSE entries[LastRegular(prev)].bits

TargetPanics(prev) ==
    /\ OverflowChecks /\ ~NoRetargeting
    /\ IsBoundary(prev) /\ entries[prev].time < entries[First(prev)].time

------------------------------------------------------------------------------
(* Adding headers.                                                         *)

\* Chain::contextual_check_block_header; the bits are those of get_target, and the version
\* is one the height still allows: a header it refuses leaves nothing behind.
TimeInBounds(time, prev) == time > MedianTime(prev) /\ time < now + MaxFuture

\* Miner::create_block on top of tip.
TemplateTime(tip) == IF now > MedianTime(tip) THEN now ELSE MedianTime(tip) + 1

\* BlockHeader::validate_pow of a header whose bits are the target: no hash is zero, so none
\* meets a target of zero, which is what division may make of the smallest ones.
CanBeMet(target) == target > 0

\* Chain::add_header of a header with that time; the clock goes on.
AddHeader(b, time) ==
    /\ b \notin DOMAIN entries
    /\ Prev(b) \in DOMAIN entries
    /\ ~TargetPanics(Prev(b))
    /\ CanBeMet(GetTarget(time, Prev(b)))
    /\ TimeInBounds(time, Prev(b))
    /\ \E skip \in {GetAncestor(main, Prev(b), SkipHeight(HeightOf(b))) :
                        main \in DOMAIN entries} :
          LET entry == [time |-> time, bits |-> GetTarget(time, Prev(b)), skip |-> skip]
          IN entries' = [c \in DOMAIN entries \cup {b} |-> IF c = b THEN entry ELSE entries[c]]
    /\ last' = b
    /\ odd' = odd + (IF time = now THEN 0 ELSE 1) + (IF Prev(b) = last THEN 0 ELSE 1)
    /\ odd' <= MaxOdd
    /\ now' = now + Spacing
    /\ UNCHANGED fork

\* The miners' times: as early as the rules allow, as the clock says or a template of
\* this node, as late as the rules allow.
Times(prev) == {MedianTime(prev) + 1, TemplateTime(prev), now, now + MaxFuture - 1}

Init ==
    /\ fork \in Forks
    /\ entries = [b \in {Genesis} |-> [time |-> 0, bits |-> LimitBits, skip |-> Genesis]]
    /\ now = Spacing
    /\ last = Genesis
    /\ odd = 0

Next ==
    \E b \in Headers \ {Genesis} :
        Prev(b) \in DOMAIN entries /\ \E time \in Times(Prev(b)) : AddHeader(b, time)

Spec == Init /\ [][Next]_vars

------------------------------------------------------------------------------
(* Properties.                                                             *)

\* What is said of the tree alone does not depend on times or on the order of arrival: it
\* is looked at where one branch comes after the other and every header has the time of
\* the clock, or nearly so.
OneByOne == odd <= 1

Leaves == {b \in DOMAIN entries : \A c \in DOMAIN entries \ {Genesis} : Prev(c) # b}

\* Wherever the main chain ends, at the entry or on the other side of the fork, following
\* skip pointers leads to the ancestor that the parents lead to, and what is built on it
\* agrees with the tree: the path between two heights and the common ancestor.
AncestorsRight ==
    OneByOne =>
        \A main, b \in DOMAIN entries :
            /\ \A height \in 0 .. HeightOf(b) :
                  /\ GetAncestor(main, b, height) = AncestorOf(b, height)
                  /\ \A limit \in 0 .. 2 :
                        LET path == NextPath(main, b, height, limit)
                            n    == HeightOf(b) - height
                        IN path = [i \in 1 .. IF n < limit THEN n ELSE limit |->
                                      AncestorOf(b, height + i)]
            /\ \A c \in Leaves :
                  LET both == CommonAncestor(main, b, c) IN
                  /\ AncestorOf(b, HeightOf(both)) = both /\ AncestorOf(c, HeightOf(both)) = both
                  /\ \A height \in HeightOf(both) + 1 .. HeightOf(b) :
                        height <= HeightOf(c) => AncestorOf(b, height) # AncestorOf(c, height)

\* The hash a peer finds in a locator is an ancestor of the start on the chain of the peer,
\* and at most as far below the fork of the two as the fork is below the start: what the
\* peer sends joins the headers of the node, and half of it at least is new.
LocatorFindsFork ==
    OneByOne =>
        \A main, start, peer \in DOMAIN entries :
            LET found  == FindLocator(peer, Locator(main, start))
                common == {h \in 0 .. HeightOf(start) : IsMain(peer, AncestorOf(start, h))}
                top    == CHOOSE h \in common : \A k \in common : k <= h
            IN /\ HeightOf(found) \in common
               /\ found = AncestorOf(start, HeightOf(found))
               /\ top - HeightOf(found) <= HeightOf(start) - top

\* A transaction that is final and unlocked for the block after some header is so for the
\* block after the next one, whatever the miners did to the times: what the pool has
\* accepted for one tip need not be looked at again for the next.
LocksStay ==
    \A b \in Leaves \ {Genesis} :
        /\ \A t \in {MedianTime(Prev(b)) - 1, MedianTime(Prev(b))} \cap Nat :
              FinalAt(Prev(b), FALSE, t) => FinalAt(b, FALSE, t)
        /\ \A coin \in {1, HeightOf(b) - 1} \cap (1 .. MaxHeight), n \in 0 .. 2 :
              /\ UnlockedByHeight(Prev(b), coin, n) => UnlockedByHeight(b, coin, n)
              /\ UnlockedByTime(b, Prev(b), coin, n) => UnlockedByTime(b, b, coin, n)

\* The target changes at the boundaries of intervals only: every header has that of the
\* first of its interval, or the limit where it comes late, and blocks of minimum
\* difficulty, however many in a row, change it for no other ("Only change once per
\* difficulty adjustment interval", chain.rs:794).
TargetsOfInterval ==
    \A b \in DOMAIN entries :
        LET first == AncestorOf(b, HeightOf(b) - (HeightOf(b) % Interval)) IN
        \/ entries[b].bits = entries[first].bits
        \/ /\ AllowMinDifficulty
           /\ entries[b].bits = LimitBits
           /\ entries[b].time > entries[Prev(b)].time + 2 * Spacing
==============================================================================
