----------------------------- MODULE VersionBits -----------------------------
(***************************************************************************)
(* The deployment of a soft fork by version bits: get_deployment_status of *)
(* src/src/blockchain/chain.rs with the VersionBitsCache of chain_db.rs.   *)
(*                                                                         *)
(* A block is what the computation sees of it, whether it signals and the  *)
(* median time at it, and its hash is the chain that ends in it.           *)
(***************************************************************************)
EXTENDS Integers, Sequences, FiniteSets

CONSTANTS
    Window,         \* miner_confirmation_window
    Threshold,      \* rule_change_activation_threshold
    StartTime,      \* Deployment.start_time
    Timeout,        \* Deployment.timeout
    MinActivation,  \* Deployment.min_activation_height
    Times,          \* bound: the median times that occur
    Ahead,          \* how far blocks are verified ahead (BLOCK_DOWNLOAD_WINDOW)
    MaxBlocks,      \* bound: the length of the chain
    MaxDetours      \* bound: how many blocks are disconnected or verified out of turn

ASSUME VersionBitsAssumption ==
    /\ {Window, MaxBlocks} \subseteq Nat \ {0}
    /\ Threshold \in 1 .. Window
    /\ {StartTime, Timeout, MinActivation, Ahead, MaxDetours} \subseteq Nat
    /\ Ahead < Window
    /\ StartTime < Timeout
    /\ Times \subseteq Nat
    /\ 0 \in Times

VARIABLES
    chain,        \* the main chain, genesis first
    states,       \* the state each of its blocks was verified under
    cache,        \* VersionBitsCache
    detours       \* how many blocks were disconnected or verified out of turn

vars == <<chain, states, cache, detours>>

ThresholdState == {"Defined", "Started", "LockedIn", "Active", "Failed"}

Blocks == [signal : BOOLEAN, mtp : Times]

\* States are cached for the last block of a period.
CacheTyped ==
    \A q \in DOMAIN cache :
        /\ q \in Seq(Blocks) /\ q # <<>> /\ (Len(q) % Window) = 0
        /\ cache[q] \in ThresholdState

TypeOK ==
    /\ chain \in Seq(Blocks) /\ Len(chain) \in 1 .. MaxBlocks
    /\ states \in Seq(ThresholdState) /\ Len(states) = Len(chain)
    /\ CacheTyped
    /\ detours \in 0 .. MaxDetours

------------------------------------------------------------------------------
(* get_deployment_status.  prev is the chain that ends in the block before *)
(* the one in question; n counts its blocks, so the height is n - 1.       *)

\* Broken variant: from the block itself.
BoundaryHere(prev) == Len(prev)

\* Back to the last block of the period before; 0 if there is none.
Boundary(prev) == Len(prev) - (Len(prev) % Window)

EndOf(prev, n) == SubSeq(prev, 1, n)

\* The walk back ends at a block whose state is cached, or before the start time,
\* or where there is no period before.
IsCached(prev, n, known) == EndOf(prev, n) \in DOMAIN known

WalkEnds(prev, n, known) == n <= 0 \/ IsCached(prev, n, known) \/ prev[n].mtp < StartTime

Period(prev, i) == Boundary(prev) - i * Window

\* How many blocks the walk collects in compute.
Collected(prev, known) ==
    CHOOSE i \in 0 .. Len(prev) :
        /\ WalkEnds(prev, Period(prev, i), known)
        /\ \A j \in 0 .. i - 1 : ~WalkEnds(prev, Period(prev, j), known)

\* Broken variant: the block on the boundary is not looked at.
SignalsBefore(prev, n) == Cardinality({k \in n - Window + 1 .. n - 1 : prev[k].signal})

\* The blocks of the period that ends with block n which have the bit.
Signals(prev, n) == Cardinality({k \in n - Window + 1 .. n : prev[k].signal})

\* One turn of the loop over compute, at block n with the state computed so far.
Advance(state, prev, n) ==
    LET late == prev[n].mtp >= Timeout IN
    CASE state = "Defined" /\ late -> "Failed"
      [] state = "Defined" /\ ~late /\ prev[n].mtp >= StartTime -> "Started"
      [] state = "Started" /\ late -> "Failed"
      [] state = "Started" /\ ~late /\ Signals(prev, n) >= Threshold -> "LockedIn"
      [] state = "LockedIn" /\ n - 1 >= MinActivation -> "Active"
      [] OTHER -> state

\* The states it computes: compute is gone through as the walk has filled it, the
\* newest block first.
Computed(prev, known) ==
    LET last == Period(prev, Collected(prev, known))
        run[i \in 0 .. Collected(prev, known)] ==
            IF i = 0 THEN IF last > 0 /\ IsCached(prev, last, known)
                          THEN known[EndOf(prev, last)] ELSE "Defined"
            ELSE Advance(run[i - 1], prev, Period(prev, i - 1))
    IN run

Status(prev, known) == Computed(prev, known)[Collected(prev, known)]

\* Counting the first period's signals goes on to the block before the genesis,
\* which is expected to exist, unless there are enough.
RunsOff(prev, known) ==
    \E i \in 1 .. Collected(prev, known) :
        /\ Period(prev, i - 1) = Window
        /\ Computed(prev, known)[i - 1] = "Started"
        /\ prev[Window].mtp < Timeout
        /\ Signals(prev, Window) < Threshold

\* What it adds to the cache: the states of compute, and that of a block before the
\* start time.
Remember(prev, known) ==
    LET n     == Collected(prev, known)
        last  == Period(prev, n)
        early == IF last > 0 THEN {EndOf(prev, last)} \ DOMAIN known ELSE {}
        fresh == {EndOf(prev, Period(prev, i)) : i \in 0 .. n - 1}
    IN [q \in DOMAIN known \cup early \cup fresh |->
            IF q \in fresh
            THEN Computed(prev, known)[((Boundary(prev) - Len(q)) \div Window) + 1]
            ELSE IF q \in early THEN "Defined" ELSE known[q]]

------------------------------------------------------------------------------

NoCache == [q \in {} |-> "Defined"]

Init ==
    /\ chain = <<[signal |-> FALSE, mtp |-> 0]>>
    /\ states = <<"Defined">>
    /\ cache = NoCache
    /\ detours = 0

\* Chain::connect of a block on the tip: verify_context asks for the state.
Connect(b) ==
    /\ Len(chain) < MaxBlocks
    /\ b.mtp >= chain[Len(chain)].mtp
    /\ chain' = Append(chain, b)
    /\ states' = Append(states, Status(chain, cache))
    /\ cache' = Remember(chain, cache)
    /\ UNCHANGED detours

\* Broken variant: the cache is reset.
DisconnectForgets ==
    /\ Len(chain) > 1
    /\ detours < MaxDetours
    /\ chain' = SubSeq(chain, 1, Len(chain) - 1)
    /\ states' = SubSeq(states, 1, Len(chain) - 1)
    /\ detours' = detours + 1
    /\ cache' = NoCache

\* Chain::disconnect leaves the cache alone.
Disconnect ==
    /\ Len(chain) > 1
    /\ detours < MaxDetours
    /\ chain' = SubSeq(chain, 1, Len(chain) - 1)
    /\ states' = SubSeq(states, 1, Len(chain) - 1)
    /\ detours' = detours + 1
    /\ UNCHANGED cache

\* The chains that end before a block which is not the next one: ahead of the tip, or on
\* another branch, as far as the download reaches.  Median times never fall.
Branches ==
    {prev \in {EndOf(chain, k) \o next :
                  k \in DOMAIN chain, next \in UNION {[1 .. n -> Blocks] : n \in 0 .. Ahead}} :
        \A i, j \in DOMAIN prev : i <= j => prev[i].mtp <= prev[j].mtp}

\* Chain::add_block of a block that cannot be connected yet, or that is refused: verify
\* asks for the state and leaves it in the cache.
AddBlock ==
    /\ detours < MaxDetours
    /\ \E prev \in Branches : cache' = Remember(prev, cache)
    /\ detours' = detours + 1
    /\ UNCHANGED <<chain, states>>

\* compute_block_version for a block on the tip.
ComputeBlockVersion ==
    /\ cache' = Remember(chain, cache)
    /\ UNCHANGED <<chain, states, detours>>

\* The cache is not on disk.  Chain::new asks for the state of the tip, unless it is
\* the genesis, and panics where the count runs off the chain.
Restart ==
    LET prev == SubSeq(chain, 1, Len(chain) - 1) IN
    /\ ~RunsOff(prev, NoCache)
    /\ cache' = Remember(prev, NoCache)
    /\ UNCHANGED <<chain, states, detours>>

Next ==
    \/ \E b \in Blocks : Connect(b)
    \/ Disconnect
    \/ AddBlock
    \/ ComputeBlockVersion

Spec == Init /\ [][Next]_vars

\* ... of a process that may stop and start again.
RestartSpec == Init /\ [][Next \/ Restart]_vars

------------------------------------------------------------------------------
(* Properties.                                                             *)

\* The state that ThresholdState's comments (protocol/version_bits.rs:14) give the
\* periods of a chain: STARTED past the start time, LOCKED_IN after a started
\* period that reaches the threshold in time, ACTIVE from the next period that is
\* allowed to be, FAILED once the timeout is hit before.
Reference(q) ==
    LET periods == 1 .. Len(q) \div Window
        Time(k) == q[k * Window].mtp
        Signalling(k) == {i \in DOMAIN q : (i - 1) \div Window = k - 1 /\ q[i].signal}
        started == {k \in periods : Time(k) >= StartTime}
        late    == {k \in periods : Time(k) >= Timeout}
        locked  == {k \in periods \ late :
                       k - 1 \in started /\ Cardinality(Signalling(k)) >= Threshold}
        active  == {k \in periods :
                       k * Window > MinActivation /\ \E l \in locked : l < k}
    IN IF active # {} THEN "Active"
       ELSE IF locked # {} THEN "LockedIn"
       ELSE IF late # {} THEN "Failed"
       ELSE IF started # {} THEN "Started"
       ELSE "Defined"

\* What the cache holds is the state by the rules, on every branch the chain has
\* been on.
CacheCorrect == \A q \in DOMAIN cache : cache[q] = Reference(q)

\* "All blocks within a retarget period have the same state" (chain.rs:896).
PeriodsAgree ==
    \A i, j \in DOMAIN chain :
        (i - 1) \div Window = (j - 1) \div Window => states[i] = states[j]
==============================================================================
