--------------------------- MODULE VersionBitsProofs ---------------------------
(***************************************************************************)
(* What holds of the deployment states for every chain, window, threshold, *)
(* start time and timeout, while the process runs: what is cached and what *)
(* blocks are verified under is the state that the rules give.             *)
(***************************************************************************)
EXTENDS VersionBits, SequenceTheorems, TLAPS

LEMMA Parameters ==
    /\ Window \in Nat /\ Window > 0
    /\ StartTime \in Nat /\ Timeout \in Nat /\ StartTime < Timeout
    /\ MinActivation \in Nat /\ MaxBlocks \in Nat /\ MaxDetours \in Nat
    /\ Ahead \in Nat /\ Ahead < Window
    /\ \A b \in Blocks : b.mtp \in Nat
<1>1. Window \in Nat /\ Window > 0 /\ MaxBlocks \in Nat
    BY VersionBitsAssumption
<1>2. StartTime \in Nat /\ Timeout \in Nat /\ MinActivation \in Nat /\ MaxDetours \in Nat
      /\ Ahead \in Nat /\ Ahead < Window
    BY VersionBitsAssumption
<1>3. \A b \in Blocks : b.mtp \in Times
    BY DEF Blocks
<1> QED
    BY <1>1, <1>2, <1>3, VersionBitsAssumption

------------------------------------------------------------------------------
(* The inductive invariant.                                                *)

\* Median times never fall.
Ordered == \A i, j \in DOMAIN chain : i <= j => chain[i].mtp <= chain[j].mtp

\* The state of every period that is over is cached, so that the walk collects one at most.
Recent == \A n \in 1 .. Len(chain) - 1 : n % Window = 0 => EndOf(chain, n) \in DOMAIN cache

\* A block is verified under the state of the periods before its own.
StatesRight ==
    \A i \in DOMAIN chain : states[i] = Reference(EndOf(chain, (i - 1) - ((i - 1) % Window)))

IInv == TypeOK /\ Ordered /\ Recent /\ CacheCorrect /\ StatesRight

------------------------------------------------------------------------------
(* Numbers and sequences.                                                  *)

LEMMA Division ==
    ASSUME NEW n \in Nat
    PROVE  /\ n \div Window \in Nat
           /\ (n \div Window) * Window <= n
           /\ n < (n \div Window) * Window + Window
           /\ n % Window = n - (n \div Window) * Window
           /\ n % Window \in Nat
    BY Parameters

LEMMA DividedBy ==
    ASSUME NEW n \in Nat, NEW k \in Nat, k * Window <= n, n < k * Window + Window
    PROVE  n \div Window = k
    BY Parameters

LEMMA Multiples ==
    ASSUME NEW k \in Nat
    PROVE  /\ k * Window \in Nat
           /\ (k + 1) * Window = k * Window + Window
           /\ (k * Window) \div Window = k
           /\ (k * Window) % Window = 0
    BY Parameters

LEMMA MultiplesOrdered ==
    ASSUME NEW k \in Nat, NEW l \in Nat, k <= l
    PROVE  k * Window <= l * Window
    BY Parameters

LEMMA Ends ==
    ASSUME NEW q \in Seq(Blocks), NEW n \in 0 .. Len(q)
    PROVE  /\ EndOf(q, n) \in Seq(Blocks)
           /\ Len(EndOf(q, n)) = n
           /\ DOMAIN EndOf(q, n) = 1 .. n
           /\ \A i \in 1 .. n : EndOf(q, n)[i] = q[i]
    BY DEF EndOf

\* The same blocks at the beginning make the same ends.
LEMMA SameEnds ==
    ASSUME NEW q \in Seq(Blocks), NEW r \in Seq(Blocks), NEW n \in 0 .. Len(q), n <= Len(r),
           \A i \in 1 .. n : q[i] = r[i]
    PROVE  EndOf(q, n) = EndOf(r, n)
<1>1. EndOf(q, n) \in Seq(Blocks) /\ EndOf(r, n) \in Seq(Blocks)
      /\ Len(EndOf(q, n)) = n /\ Len(EndOf(r, n)) = n
    BY Ends
<1>2. \A i \in 1 .. n : EndOf(q, n)[i] = EndOf(r, n)[i]
    BY Ends
<1> QED
    BY <1>1, <1>2, SeqEqual

------------------------------------------------------------------------------
(* The rules, period by period.                                            *)

StartedAt(q, n) == {k \in 1 .. n : q[k * Window].mtp >= StartTime}

LateAt(q, n) == {k \in 1 .. n : q[k * Window].mtp >= Timeout}

LockedAt(q, n) ==
    {k \in (1 .. n) \ LateAt(q, n) :
        k - 1 \in StartedAt(q, n) /\ Signals(q, k * Window) >= Threshold}

ActiveAt(q, n) ==
    {k \in 1 .. n : k * Window > MinActivation /\ \E l \in LockedAt(q, n) : l < k}

\* The state after so many periods of a chain.
StateAt(q, n) ==
    IF ActiveAt(q, n) # {} THEN "Active"
    ELSE IF LockedAt(q, n) # {} THEN "LockedIn"
    ELSE IF LateAt(q, n) # {} THEN "Failed"
    ELSE IF StartedAt(q, n) # {} THEN "Started"
    ELSE "Defined"

\* The blocks that signal are counted in the same places.
LEMMA SignalsOfPeriod ==
    ASSUME NEW q \in Seq(Blocks), NEW n \in Nat, n * Window <= Len(q), NEW k \in 1 .. n,
           NEW p, p = EndOf(q, n * Window)
    PROVE  Cardinality({i \in DOMAIN p : (i - 1) \div Window = k - 1 /\ p[i].signal})
               = Signals(q, k * Window)
<1>1. n * Window \in 0 .. Len(q)
    BY Multiples
<1>2. DOMAIN p = 1 .. n * Window /\ \A i \in 1 .. n * Window : p[i] = q[i]
    BY <1>1, Ends
<1>3. /\ k * Window \in Nat /\ k * Window <= n * Window
      /\ Window \in Nat
      /\ (k - 1) * Window \in Nat /\ k * Window = (k - 1) * Window + Window
    <2>1. k - 1 \in Nat /\ k \in Nat /\ (k - 1) + 1 = k /\ k <= n
        OBVIOUS
    <2>2. ((k - 1) + 1) * Window = (k - 1) * Window + Window
        BY <2>1, Multiples
    <2>3. k * Window = (k - 1) * Window + Window
        BY <2>1, <2>2
    <2> QED
        BY <2>1, <2>3, Multiples, MultiplesOrdered, Parameters
<1>4. \A i \in 1 .. n * Window :
          (i - 1) \div Window = k - 1 <=> i \in k * Window - Window + 1 .. k * Window
    <2> TAKE i \in 1 .. n * Window
    <2>1. i - 1 \in Nat /\ k - 1 \in Nat
        OBVIOUS
    <2>2. CASE (i - 1) \div Window = k - 1
        <3>1. (k - 1) * Window <= i - 1 /\ i - 1 < (k - 1) * Window + Window
            BY <2>1, <2>2, Division
        <3> QED
            BY <1>3, <2>2, <3>1
    <2>3. CASE i \in k * Window - Window + 1 .. k * Window
        <3>1. (k - 1) * Window <= i - 1 /\ i - 1 < (k - 1) * Window + Window
            BY <1>3, <2>3
        <3> QED
            BY <2>1, <2>3, <3>1, DividedBy
    <2> QED
        BY <2>2, <2>3
<1>5. k * Window - Window + 1 .. k * Window \subseteq 1 .. n * Window
    BY <1>1, <1>3
<1>6. {i \in DOMAIN p : (i - 1) \div Window = k - 1 /\ p[i].signal}
          = {i \in k * Window - Window + 1 .. k * Window : q[i].signal}
    BY <1>2, <1>4, <1>5
<1> QED
    BY <1>6 DEF Signals

LEMMA PeriodEnds ==
    ASSUME NEW n \in Nat, NEW k \in 1 .. n
    PROVE  k * Window \in 1 .. n * Window
<1>1. 1 * Window = Window /\ Window >= 1
    BY Parameters
<1>2. 1 \in Nat /\ k \in Nat /\ 1 <= k /\ k <= n
    OBVIOUS
<1>3. 1 * Window <= k * Window /\ k * Window <= n * Window
    BY <1>2, MultiplesOrdered
<1> QED
    BY <1>1, <1>2, <1>3, Multiples

LEMMA ReferenceAt ==
    ASSUME NEW q \in Seq(Blocks), NEW n \in Nat, n * Window <= Len(q)
    PROVE  Reference(EndOf(q, n * Window)) = StateAt(q, n)
<1> DEFINE p == EndOf(q, n * Window)
<1>1. n * Window \in 0 .. Len(q) /\ (n * Window) \div Window = n
    BY Multiples
<1>2. Len(p) = n * Window /\ \A i \in 1 .. n * Window : p[i] = q[i]
    BY <1>1, Ends
<1>3. \A k \in 1 .. n : k * Window \in 1 .. n * Window
    BY PeriodEnds
<1>4. \A k \in 1 .. n : p[k * Window] = q[k * Window]
    BY <1>2, <1>3
<1> DEFINE Signalling(k) == {i \in DOMAIN p : (i - 1) \div Window = k - 1 /\ p[i].signal}
<1>5. \A k \in 1 .. n : Cardinality(Signalling(k)) = Signals(q, k * Window)
    BY SignalsOfPeriod
<1>6. 1 .. Len(p) \div Window = 1 .. n
    BY <1>1, <1>2
<1> DEFINE started == {k \in 1 .. Len(p) \div Window : p[k * Window].mtp >= StartTime}
           late == {k \in 1 .. Len(p) \div Window : p[k * Window].mtp >= Timeout}
           locked == {k \in (1 .. Len(p) \div Window) \ late :
                         k - 1 \in started /\ Cardinality(Signalling(k)) >= Threshold}
           active == {k \in 1 .. Len(p) \div Window :
                         k * Window > MinActivation /\ \E l \in locked : l < k}
<1>7. started = StartedAt(q, n) /\ late = LateAt(q, n)
    BY <1>4, <1>6 DEF StartedAt, LateAt
<1>8. locked = LockedAt(q, n)
    BY <1>5, <1>6, <1>7 DEF LockedAt
<1>9. active = ActiveAt(q, n)
    BY <1>6, <1>8 DEF ActiveAt
<1>10. Reference(p) = IF active # {} THEN "Active"
                      ELSE IF locked # {} THEN "LockedIn"
                      ELSE IF late # {} THEN "Failed"
                      ELSE IF started # {} THEN "Started"
                      ELSE "Defined"
    BY DEF Reference
<1> QED
    BY <1>7, <1>8, <1>9, <1>10 DEF StateAt


\* The median times at the ends of the periods never fall.
LEMMA TimesOfPeriods ==
    ASSUME NEW q \in Seq(Blocks), NEW n \in Nat, n * Window <= Len(q),
           \A i, j \in DOMAIN q : i <= j => q[i].mtp <= q[j].mtp
    PROVE  /\ \A k \in 1 .. n : q[k * Window].mtp \in Nat
           /\ \A k, l \in 1 .. n : k <= l => q[k * Window].mtp <= q[l * Window].mtp
<1>1. ASSUME NEW k \in 1 .. n PROVE k * Window \in 1 .. Len(q)
    <2>1. k * Window \in 1 .. n * Window /\ n * Window \in Nat
        BY PeriodEnds, Multiples
    <2> QED
        BY <2>1
<1>2. ASSUME NEW k \in 1 .. n PROVE q[k * Window].mtp \in Nat
    <2>1. q[k * Window] \in Blocks
        BY <1>1
    <2> QED
        BY <2>1, Parameters
<1>3. ASSUME NEW k \in 1 .. n, NEW l \in 1 .. n, k <= l
      PROVE  q[k * Window].mtp <= q[l * Window].mtp
    <2>1. k * Window <= l * Window
        BY <1>3, MultiplesOrdered
    <2>2. k * Window \in DOMAIN q /\ l * Window \in DOMAIN q
        BY <1>1
    <2> QED
        BY <2>1, <2>2
<1> QED
    BY <1>2, <1>3

\* Periods that have begun or are late are followed by such periods.
LEMMA SetsOfPeriods ==
    ASSUME NEW n \in Nat, NEW time \in [1 .. n + 1 -> Nat],
           \A k, l \in 1 .. n + 1 : k <= l => time[k] <= time[l],
           NEW start \in Nat,
           NEW S, S = {k \in 1 .. n : time[k] >= start},
           NEW T, T = {k \in 1 .. n + 1 : time[k] >= start}
    PROVE  /\ S \subseteq 1 .. n
           /\ T = S \cup IF time[n + 1] >= start THEN {n + 1} ELSE {}
           /\ S # {} => time[n + 1] >= start /\ n \in S
<1>1. 1 .. n + 1 = 1 .. n \cup {n + 1} /\ n + 1 \notin 1 .. n
    OBVIOUS
<1>2. \A k \in 1 .. n : time[k] \in Nat /\ time[k] <= time[n + 1] /\ time[k] <= time[n]
    OBVIOUS
<1>3. time[n + 1] \in Nat
    OBVIOUS
<1>4. ASSUME NEW k \in S PROVE time[n + 1] >= start /\ n \in S
    <2>1. k \in 1 .. n /\ time[k] >= start /\ n \in 1 .. n
        OBVIOUS
    <2>2. time[n] \in Nat
        BY <1>2, <2>1
    <2> QED
        BY <1>2, <1>3, <2>1, <2>2
<1> QED
    BY <1>1, <1>4

\* One turn of the loop of get_deployment_status goes from one period to the next.
LEMMA AdvanceRight ==
    ASSUME NEW q \in Seq(Blocks), NEW n \in Nat, (n + 1) * Window <= Len(q),
           \A i, j \in DOMAIN q : i <= j => q[i].mtp <= q[j].mtp
    PROVE  Advance(StateAt(q, n), q, (n + 1) * Window) = StateAt(q, n + 1)
<1> DEFINE time == [k \in 1 .. n + 1 |-> q[k * Window].mtp]
           signals == [k \in 1 .. n + 1 |-> Signals(q, k * Window)]
           late == time[n + 1] >= Timeout
           begun == time[n + 1] >= StartTime
           enough == signals[n + 1] >= Threshold
<1>1. 1 .. n + 1 = 1 .. n \cup {n + 1} /\ n + 1 \notin 1 .. n /\ n + 1 \in 1 .. n + 1
    OBVIOUS
<1>2. /\ time \in [1 .. n + 1 -> Nat]
      /\ \A k, l \in 1 .. n + 1 : k <= l => time[k] <= time[l]
    BY TimesOfPeriods
<1>3. /\ StartedAt(q, n) = {k \in 1 .. n : time[k] >= StartTime}
      /\ StartedAt(q, n + 1) = {k \in 1 .. n + 1 : time[k] >= StartTime}
      /\ LateAt(q, n) = {k \in 1 .. n : time[k] >= Timeout}
      /\ LateAt(q, n + 1) = {k \in 1 .. n + 1 : time[k] >= Timeout}
    BY <1>1 DEF StartedAt, LateAt
<1>4. /\ LockedAt(q, n) = {k \in (1 .. n) \ LateAt(q, n) :
                              k - 1 \in StartedAt(q, n) /\ signals[k] >= Threshold}
      /\ LockedAt(q, n + 1) = {k \in (1 .. n + 1) \ LateAt(q, n + 1) :
                              k - 1 \in StartedAt(q, n + 1) /\ signals[k] >= Threshold}
    BY <1>1 DEF LockedAt
<1>5. q[(n + 1) * Window].mtp = time[n + 1] /\ Signals(q, (n + 1) * Window) = signals[n + 1]
    BY <1>1
<1> HIDE DEF time, signals
<1>6. /\ StartedAt(q, n) \subseteq 1 .. n
      /\ StartedAt(q, n + 1) = StartedAt(q, n) \cup IF begun THEN {n + 1} ELSE {}
      /\ StartedAt(q, n) # {} => begun /\ n \in StartedAt(q, n)
    BY <1>2, <1>3, SetsOfPeriods, Parameters
<1>7. /\ LateAt(q, n) \subseteq 1 .. n
      /\ LateAt(q, n + 1) = LateAt(q, n) \cup IF late THEN {n + 1} ELSE {}
      /\ LateAt(q, n) # {} => late
    BY <1>2, <1>3, SetsOfPeriods, Parameters
<1>8. LateAt(q, n) \subseteq StartedAt(q, n) /\ (late => begun)
    BY <1>1, <1>2, <1>3, Parameters
<1> HIDE DEF late, begun, enough
<1>9. LockedAt(q, n + 1) = LockedAt(q, n)
          \cup IF ~late /\ StartedAt(q, n) # {} /\ enough THEN {n + 1} ELSE {}
    <2>1. ASSUME NEW k \in 1 .. n
          PROVE  k \in LockedAt(q, n + 1) <=> k \in LockedAt(q, n)
        <3>1. k - 1 # n + 1 /\ k # n + 1 /\ k \in 1 .. n + 1
            OBVIOUS
        <3>2. k - 1 \in StartedAt(q, n + 1) <=> k - 1 \in StartedAt(q, n)
            BY <1>6, <3>1
        <3>3. k \in LateAt(q, n + 1) <=> k \in LateAt(q, n)
            BY <1>7, <3>1
        <3> QED
            BY <1>4, <3>1, <3>2, <3>3
    <2>2. n + 1 \in LockedAt(q, n + 1) <=> ~late /\ StartedAt(q, n) # {} /\ enough
        <3>1. (n + 1) - 1 = n /\ n # n + 1
            OBVIOUS
        <3>2. n \in StartedAt(q, n + 1) <=> StartedAt(q, n) # {}
            BY <1>6, <3>1
        <3>3. n + 1 \in LateAt(q, n + 1) <=> late
            BY <1>1, <1>7
        <3> QED
            BY <1>1, <1>4, <3>1, <3>2, <3>3 DEF enough
    <2>3. LockedAt(q, n + 1) \subseteq 1 .. n \cup {n + 1} /\ LockedAt(q, n) \subseteq 1 .. n
        BY <1>1, <1>4
    <2> QED
        BY <1>1, <2>1, <2>2, <2>3
<1>10. /\ LockedAt(q, n) \subseteq 1 .. n /\ ActiveAt(q, n) \subseteq 1 .. n
       /\ LockedAt(q, n) # {} => StartedAt(q, n) # {}
       /\ ActiveAt(q, n) # {} => LockedAt(q, n) # {}
    <2>1. ASSUME NEW k \in LockedAt(q, n) PROVE k \in 1 .. n /\ k - 1 \in StartedAt(q, n)
        BY <1>4
    <2> QED
        BY <2>1 DEF ActiveAt
<1> DEFINE m == (n + 1) * Window
<1>11. ActiveAt(q, n + 1) = ActiveAt(q, n)
           \cup IF m > MinActivation /\ LockedAt(q, n) # {} THEN {n + 1} ELSE {}
    <2> HIDE DEF m
    <2>1. ASSUME NEW k \in 1 .. n + 1
          PROVE  (\E l \in LockedAt(q, n + 1) : l < k) <=> \E l \in LockedAt(q, n) : l < k
        BY <1>9, <1>10
    <2>2. ASSUME NEW k \in 1 .. n
          PROVE  k \in ActiveAt(q, n + 1) <=> k \in ActiveAt(q, n)
        BY <1>1, <2>1 DEF ActiveAt
    <2>3. LockedAt(q, n) # {} <=> \E l \in LockedAt(q, n) : l < n + 1
        BY <1>10
    <2>4. n + 1 \in ActiveAt(q, n + 1) <=> m > MinActivation /\ LockedAt(q, n) # {}
        BY <1>1, <2>1, <2>3 DEF ActiveAt, m
    <2>5. ActiveAt(q, n + 1) \subseteq 1 .. n \cup {n + 1}
        BY <1>1 DEF ActiveAt
    <2> QED
        BY <1>1, <1>10, <2>2, <2>4, <2>5
<1>12. m \in Nat /\ (m - 1 >= MinActivation <=> m > MinActivation)
    <2>1. m \in Nat
        BY Multiples
    <2> HIDE DEF m
    <2> QED
        BY <2>1, Parameters
<1>13. Advance(StateAt(q, n), q, m) =
           LET state == StateAt(q, n) IN
           CASE state = "Defined" /\ late -> "Failed"
             [] state = "Defined" /\ ~late /\ begun -> "Started"
             [] state = "Started" /\ late -> "Failed"
             [] state = "Started" /\ ~late /\ enough -> "LockedIn"
             [] state = "LockedIn" /\ m > MinActivation -> "Active"
             [] OTHER -> state
    BY <1>5, <1>12 DEF Advance, late, begun, enough
<1> DEFINE A == ActiveAt(q, n) # {}
           B == LockedAt(q, n) # {}
           C == LateAt(q, n) # {}
           D == StartedAt(q, n) # {}
           E == m > MinActivation
<1>14. /\ ActiveAt(q, n + 1) # {} <=> A \/ (E /\ B)
       /\ LockedAt(q, n + 1) # {} <=> B \/ (~late /\ D /\ enough)
       /\ LateAt(q, n + 1) # {} <=> C \/ late
       /\ StartedAt(q, n + 1) # {} <=> D \/ begun
    BY <1>6, <1>7, <1>9, <1>11
<1>15. (A => B) /\ (B => D) /\ (C => D) /\ (C => late) /\ (D => begun) /\ (late => begun)
    BY <1>6, <1>7, <1>8, <1>10
<1>16. StateAt(q, n) = IF A THEN "Active" ELSE IF B THEN "LockedIn" ELSE IF C THEN "Failed"
                       ELSE IF D THEN "Started" ELSE "Defined"
    BY DEF StateAt
<1>17. StateAt(q, n + 1) = IF A \/ (E /\ B) THEN "Active"
                           ELSE IF B \/ (~late /\ D /\ enough) THEN "LockedIn"
                           ELSE IF C \/ late THEN "Failed"
                           ELSE IF D \/ begun THEN "Started" ELSE "Defined"
    BY <1>14 DEF StateAt
<1>18. Advance(StateAt(q, n), q, m) =
           LET state == StateAt(q, n) IN
           CASE state = "Defined" /\ late -> "Failed"
             [] state = "Defined" /\ ~late /\ begun -> "Started"
             [] state = "Started" /\ late -> "Failed"
             [] state = "Started" /\ ~late /\ enough -> "LockedIn"
             [] state = "LockedIn" /\ E -> "Active"
             [] OTHER -> state
    BY <1>13
<1> HIDE DEF A, B, C, D, E, m
<1>19. Advance(StateAt(q, n), q, m) = StateAt(q, n + 1)
    BY <1>15, <1>16, <1>17, <1>18
<1> QED
    BY <1>19 DEF m

LEMMA DefinedAtFirst == ASSUME NEW q PROVE StateAt(q, 0) = "Defined"
    BY DEF StateAt, ActiveAt, LockedAt, LateAt, StartedAt

\* Before the start time nothing has begun.
LEMMA DefinedBefore ==
    ASSUME NEW q \in Seq(Blocks), NEW n \in Nat \ {0}, n * Window <= Len(q),
           \A i, j \in DOMAIN q : i <= j => q[i].mtp <= q[j].mtp,
           q[n * Window].mtp < StartTime
    PROVE  StateAt(q, n) = "Defined"
<1> DEFINE time == [k \in 1 .. n |-> q[k * Window].mtp]
<1>1. time \in [1 .. n -> Nat] /\ \A k, l \in 1 .. n : k <= l => time[k] <= time[l]
    BY TimesOfPeriods
<1>2. StartedAt(q, n) = {k \in 1 .. n : time[k] >= StartTime} /\ time[n] < StartTime
      /\ LateAt(q, n) = {k \in 1 .. n : time[k] >= Timeout}
    BY DEF StartedAt, LateAt
<1> HIDE DEF time
<1>3. \A k \in 1 .. n : time[k] \in Nat /\ time[k] <= time[n] /\ time[n] \in Nat
    BY <1>1
<1>4. StartedAt(q, n) = {} /\ LateAt(q, n) = {}
    BY <1>2, <1>3, Parameters
<1>5. LockedAt(q, n) = {}
    BY <1>4 DEF LockedAt
<1>6. ActiveAt(q, n) = {}
    BY <1>5 DEF ActiveAt
<1> QED
    BY <1>4, <1>5, <1>6 DEF StateAt

------------------------------------------------------------------------------
(* get_deployment_status while the states of the earlier periods are known. *)

\* What is known of a chain: right, and all of its periods but the last that is over.
Knows(prev, known) ==
    /\ prev \in Seq(Blocks)
    /\ \A i, j \in DOMAIN prev : i <= j => prev[i].mtp <= prev[j].mtp
    /\ \A q \in DOMAIN known : known[q] = Reference(q)
    /\ \A n \in 1 .. Len(prev) :
          n < Boundary(prev) /\ n % Window = 0 => EndOf(prev, n) \in DOMAIN known

LEMMA CollectedIs ==
    ASSUME NEW prev, NEW known, NEW i \in 0 .. Len(prev), Len(prev) \in Nat,
           WalkEnds(prev, Period(prev, i), known),
           \A j \in 0 .. i - 1 : ~WalkEnds(prev, Period(prev, j), known)
    PROVE  Collected(prev, known) = i
<1> DEFINE Is(k) == /\ WalkEnds(prev, Period(prev, k), known)
                    /\ \A j \in 0 .. k - 1 : ~WalkEnds(prev, Period(prev, j), known)
<1>1. ASSUME NEW k \in 0 .. Len(prev), Is(k) PROVE k = i
    <2>1. ~ (k < i) /\ ~ (i < k)
        BY <1>1
    <2> QED
        BY <2>1
<1>2. Collected(prev, known) = CHOOSE k \in 0 .. Len(prev) : Is(k)
    BY DEF Collected
<1>3. Is(i)
    OBVIOUS
<1> HIDE DEF Is
<1> QED
    BY <1>1, <1>2, <1>3

\* The state the loop over compute starts from.
Base(prev, known, last) ==
    IF last > 0 /\ IsCached(prev, last, known) THEN known[EndOf(prev, last)] ELSE "Defined"

LEMMA BaseRight ==
    ASSUME NEW prev, NEW known, Knows(prev, known), NEW n \in Nat, n * Window <= Len(prev),
           WalkEnds(prev, n * Window, known)
    PROVE  Base(prev, known, n * Window) = StateAt(prev, n)
<1>1. prev \in Seq(Blocks)
    BY DEF Knows
<1>2. n * Window \in Nat /\ (n # 0 => n * Window > 0) /\ (n = 0 => n * Window = 0)
    <2>1. n # 0 => n \in 1 .. n
        OBVIOUS
    <2>2. n # 0 => n * Window \in 1 .. n * Window
        BY <2>1, PeriodEnds
    <2> QED
        BY <2>2, Multiples, Parameters
<1>3. CASE n = 0
    BY <1>2, <1>3, DefinedAtFirst DEF Base
<1>4. CASE n # 0 /\ IsCached(prev, n * Window, known)
    <2>1. known[EndOf(prev, n * Window)] = Reference(EndOf(prev, n * Window))
        BY <1>4 DEF IsCached, Knows
    <2> QED
        BY <1>1, <1>2, <1>4, <2>1, ReferenceAt DEF Base
<1>5. CASE n # 0 /\ ~IsCached(prev, n * Window, known)
    <2>1. prev[n * Window].mtp < StartTime
        BY <1>2, <1>5 DEF WalkEnds
    <2>2. StateAt(prev, n) = "Defined"
        BY <1>1, <1>5, <2>1, DefinedBefore DEF Knows
    <2> QED
        BY <1>5, <2>2 DEF Base
<1> QED
    BY <1>3, <1>4, <1>5

\* The loop goes round once at most.
Run(prev, known, c) ==
    [i \in 0 .. c |->
        IF i = 0 THEN Base(prev, known, Period(prev, c))
        ELSE Advance(Base(prev, known, Period(prev, c)), prev, Period(prev, 0))]

LEMMA ComputedIs ==
    ASSUME NEW prev, NEW known, NEW c \in 0 .. 1, Collected(prev, known) = c
    PROVE  Computed(prev, known) = Run(prev, known, c)
<1> DEFINE base == Base(prev, known, Period(prev, c))
           next(state, n) == Advance(state, prev, Period(prev, n))
           Is(w) == w = [i \in 0 .. c |-> IF i = 0 THEN base ELSE next(w[i - 1], i - 1)]
           run == [i \in 0 .. c |-> IF i = 0 THEN base ELSE next(base, 0)]
<1>1. Computed(prev, known) = CHOOSE w : Is(w)
    BY DEF Computed, Base
<1> HIDE DEF base, next
<1>2. \A i \in 0 .. c : i # 0 => i = 1 /\ 0 \in 0 .. c /\ i - 1 = 0
    OBVIOUS
<1>3. Is(run)
    <2>1. \A i \in 0 .. c : run[i] = IF i = 0 THEN base ELSE next(run[i - 1], i - 1)
        BY <1>2
    <2> QED
        BY <2>1
<1>4. ASSUME NEW w, Is(w) PROVE w = run
    <2>1. \A i \in 0 .. c : w[i] = IF i = 0 THEN base ELSE next(w[i - 1], i - 1)
        BY <1>4
    <2>2. \A i \in 0 .. c : w[i] = run[i]
        BY <1>2, <2>1
    <2>3. w = [i \in 0 .. c |-> w[i]]
        BY <1>4
    <2> QED
        BY <2>2, <2>3
<1>5. Is(CHOOSE w : Is(w))
    <2> HIDE DEF Is, run
    <2> QED
        BY <1>3
<1> QED
    BY <1>1, <1>4, <1>5 DEF base, next, run, Run

\* The state that is computed and what is cached then are right, and the last period that
\* is over becomes known.
LEMMA StatusRight ==
    ASSUME NEW prev, NEW known, Knows(prev, known)
    PROVE  LET b == Boundary(prev)  more == Remember(prev, known) IN
           /\ Status(prev, known) = Reference(EndOf(prev, b))
           /\ DOMAIN known \subseteq DOMAIN more
           /\ \A q \in DOMAIN more : more[q] = Reference(q)
           /\ b \in 0 .. Len(prev) /\ (b % Window) = 0
           /\ b > 0 => EndOf(prev, b) \in DOMAIN more
           /\ DOMAIN more \subseteq DOMAIN known \cup
                  {EndOf(prev, n) : n \in {m \in 1 .. Len(prev) : m % Window = 0}}
<1> DEFINE b == Boundary(prev)
           n == Len(prev) \div Window
           c == Collected(prev, known)
           last == Period(prev, c)
           more == Remember(prev, known)
<1>1. prev \in Seq(Blocks) /\ Len(prev) \in Nat
    BY DEF Knows
<1>2. n \in Nat /\ b = n * Window /\ b \in 0 .. Len(prev) /\ (b % Window) = 0
    <2>1. n \in Nat /\ n * Window <= Len(prev) /\ Len(prev) % Window = Len(prev) - n * Window
        BY <1>1, Division
    <2>2. n * Window \in Nat /\ (n * Window) % Window = 0
        BY <2>1, Multiples
    <2>3. b = n * Window
        BY <1>1, <2>1, <2>2 DEF Boundary
    <2> QED
        BY <1>1, <2>1, <2>2, <2>3
<1>3. Period(prev, 0) = b /\ Period(prev, 1) = b - Window
    BY <1>2, Parameters DEF Period
<1>4. /\ c \in 0 .. 1
      /\ WalkEnds(prev, last, known)
      /\ c = 1 => ~WalkEnds(prev, b, known) /\ n # 0
    <2>1. CASE WalkEnds(prev, b, known)
        <3>1. 0 \in 0 .. Len(prev) /\ \A j \in 0 .. 0 - 1 : FALSE
            BY <1>1
        <3>2. c = 0
            BY <1>1, <1>3, <2>1, <3>1, CollectedIs
        <3> QED
            BY <1>3, <2>1, <3>2
    <2>2. CASE ~WalkEnds(prev, b, known)
        <3>1. n # 0 /\ b > 0
            BY <1>2, <2>2, Parameters DEF WalkEnds
        <3>2. b - Window = (n - 1) * Window /\ n - 1 \in Nat
            <4>1. n - 1 \in Nat /\ (n - 1) + 1 = n
                BY <1>2, <3>1
            <4>2. ((n - 1) + 1) * Window = (n - 1) * Window + Window /\ (n - 1) * Window \in Nat
                BY <4>1, Multiples
            <4> HIDE DEF n, b
            <4>3. b = (n - 1) * Window + Window
                BY <1>2, <4>1, <4>2
            <4> QED
                BY <4>1, <4>2, <4>3, Parameters
        <3>3. b - Window \in Nat /\ (b - Window) % Window = 0
            BY <3>2, Multiples
        <3>4. b - Window <= 0 \/ (b - Window \in 1 .. Len(prev) /\ b - Window < b)
            <4>1. b \in Nat /\ b <= Len(prev) /\ b - Window \in Nat
                BY <1>1, <1>2, <3>3
            <4> HIDE DEF b
            <4> QED
                BY <1>1, <4>1, Parameters
        <3>5. WalkEnds(prev, b - Window, known)
            BY <3>3, <3>4 DEF WalkEnds, IsCached, Knows
        <3>6. 1 \in 0 .. Len(prev) /\ \A j \in 0 .. 1 - 1 : j = 0
            BY <1>1, <1>2, <3>1
        <3>7. c = 1
            BY <1>1, <1>3, <2>2, <3>5, <3>6, CollectedIs
        <3> QED
            BY <1>3, <2>2, <3>1, <3>5, <3>7
    <2> QED
        BY <2>1, <2>2
<1>5. n - c \in Nat /\ last = (n - c) * Window /\ last <= Len(prev) /\ last \in Nat
      /\ (last % Window) = 0
    <2>1. CASE c = 0
        BY <1>1, <1>2, <1>3, <2>1
    <2>2. CASE c = 1
        <3>1. n - 1 \in Nat /\ (n - 1) + 1 = n
            BY <1>2, <1>4, <2>2
        <3>2. ((n - 1) + 1) * Window = (n - 1) * Window + Window /\ (n - 1) * Window \in Nat
              /\ ((n - 1) * Window) % Window = 0
            BY <3>1, Multiples
        <3> HIDE DEF n, b
        <3>3. b = (n - 1) * Window + Window
            BY <1>2, <3>1, <3>2
        <3>4. b - Window = (n - 1) * Window /\ b - Window <= Len(prev)
            BY <1>1, <1>2, <3>2, <3>3, Parameters
        <3> QED
            BY <1>3, <2>2, <3>1, <3>2, <3>4
    <2> QED
        BY <1>4, <2>1, <2>2
<1> HIDE DEF n, b, c
<1>6. Base(prev, known, last) = StateAt(prev, n - c)
    BY <1>4, <1>5, BaseRight
<1>7. Computed(prev, known) =
          [i \in 0 .. c |-> IF i = 0 THEN StateAt(prev, n - c)
                            ELSE Advance(StateAt(prev, n - c), prev, b)]
    <2>1. Computed(prev, known) = Run(prev, known, c)
        <3>1. Collected(prev, known) = c
            BY DEF c
        <3> QED
            BY <1>4, <3>1, ComputedIs
    <2> QED
        BY <1>3, <1>6, <2>1 DEF Run
<1>8. Computed(prev, known)[c] = StateAt(prev, n)
    <2>1. CASE c = 0
        BY <1>2, <1>7, <2>1
    <2>2. CASE c = 1
        <3>1. n - 1 \in Nat /\ (n - 1) + 1 = n
            BY <1>2, <1>4, <2>2
        <3>2. ((n - 1) + 1) * Window <= Len(prev) /\ b = ((n - 1) + 1) * Window
            BY <1>1, <1>2, <3>1
        <3>3. Advance(StateAt(prev, n - 1), prev, ((n - 1) + 1) * Window)
                  = StateAt(prev, (n - 1) + 1)
            BY <1>1, <3>1, <3>2, AdvanceRight DEF Knows
        <3> QED
            BY <1>7, <2>2, <3>1, <3>2, <3>3
    <2> QED
        BY <1>4, <2>1, <2>2
<1>9. Reference(EndOf(prev, b)) = StateAt(prev, n)
    BY <1>1, <1>2, ReferenceAt
<1>10. Status(prev, known) = Reference(EndOf(prev, b))
    BY <1>8, <1>9 DEF Status, c
<1> DEFINE early == IF last > 0 THEN {EndOf(prev, last)} \ DOMAIN known ELSE {}
           fresh == {EndOf(prev, Period(prev, i)) : i \in 0 .. c - 1}
<1>11. more = [q \in DOMAIN known \cup early \cup fresh |->
                  IF q \in fresh THEN Computed(prev, known)[((b - Len(q)) \div Window) + 1]
                  ELSE IF q \in early THEN "Defined" ELSE known[q]]
    BY DEF Remember, c, b
<1>12. fresh = IF c = 1 THEN {EndOf(prev, b)} ELSE {}
    BY <1>3, <1>4
<1>13. ASSUME NEW q \in fresh
       PROVE  q = EndOf(prev, b) /\ more[q] = Reference(q)
    <2>1. c = 1 /\ q = EndOf(prev, b)
        BY <1>12, <1>13
    <2>2. Len(q) = b
        BY <1>1, <1>2, <2>1, Ends
    <2>3. ((b - Len(q)) \div Window) + 1 = c
        <3>1. b - Len(q) = 0
            BY <1>2, <2>2
        <3>2. 0 \div Window = 0
            BY Parameters
        <3> QED
            BY <2>1, <3>1, <3>2
    <2> QED
        BY <1>8, <1>9, <1>11, <1>13, <2>1, <2>3
<1>14. ASSUME NEW q \in early, q \notin fresh
       PROVE  last > 0 /\ q = EndOf(prev, last) /\ more[q] = Reference(q)
    <2>1. last > 0 /\ q = EndOf(prev, last) /\ q \notin DOMAIN known
        BY <1>14
    <2>2. Base(prev, known, last) = "Defined"
        BY <2>1 DEF Base, IsCached
    <2>3. Reference(q) = "Defined"
        BY <1>1, <1>5, <1>6, <2>1, <2>2, ReferenceAt
    <2> QED
        BY <1>11, <1>14, <2>1, <2>3
<1>15. \A q \in DOMAIN more : more[q] = Reference(q)
    <2>1. ASSUME NEW q \in DOMAIN known, q \notin early, q \notin fresh
          PROVE  more[q] = Reference(q)
        <3>1. more[q] = known[q]
            BY <1>11, <2>1
        <3> QED
            BY <2>1, <3>1 DEF Knows
    <2> QED
        BY <1>11, <1>13, <1>14, <2>1
<1>16. DOMAIN more = DOMAIN known \cup early \cup fresh
    BY <1>11
<1>17. b > 0 => EndOf(prev, b) \in DOMAIN more
    <2>1. CASE c = 0
        BY <1>3, <1>16, <2>1
    <2>2. CASE c = 1
        BY <1>12, <1>16, <2>2
    <2> QED
        BY <1>4, <2>1, <2>2
<1>18. DOMAIN more \subseteq DOMAIN known \cup
           {EndOf(prev, k) : k \in {m \in 1 .. Len(prev) : m % Window = 0}}
    <2>1. early \subseteq {EndOf(prev, k) : k \in {m \in 1 .. Len(prev) : m % Window = 0}}
        BY <1>1, <1>5
    <2>2. c = 1 => b \in {m \in 1 .. Len(prev) : m % Window = 0}
        <3>1. c = 1 => b > 0
            BY <1>4, <1>2 DEF WalkEnds
        <3> QED
            BY <1>1, <1>2, <3>1
    <2>3. fresh \subseteq {EndOf(prev, k) : k \in {m \in 1 .. Len(prev) : m % Window = 0}}
        BY <1>12, <2>2
    <2> QED
        BY <1>16, <2>1, <2>3
<1> QED
    BY <1>2, <1>10, <1>15, <1>16, <1>17, <1>18 DEF b

------------------------------------------------------------------------------
(* Every step preserves the invariant.                                     *)

LEMMA ReferenceType == ASSUME NEW q PROVE Reference(q) \in ThresholdState
    BY DEF Reference, ThresholdState

\* Of two ends of periods the earlier one is a period before the later one.
LEMMA EndsApart ==
    ASSUME NEW m \in Nat, NEW n \in Nat, m % Window = 0, n % Window = 0, m < n
    PROVE  m + Window <= n
<1> DEFINE k == m \div Window
           l == n \div Window
<1>1. k \in Nat /\ l \in Nat /\ m = k * Window /\ n = l * Window
    <2>1. ASSUME NEW x \in Nat, x % Window = 0
          PROVE  x \div Window \in Nat /\ x = (x \div Window) * Window
        <3>1. x \div Window \in Nat /\ x % Window = x - (x \div Window) * Window
            BY Division
        <3>2. (x \div Window) * Window \in Nat
            BY <3>1, Multiples
        <3> QED
            BY <2>1, <3>1, <3>2
    <2> QED
        BY <2>1
<1> HIDE DEF k, l
<1>2. k + 1 <= l
    <2>1. CASE l <= k
        BY <1>1, <2>1, MultiplesOrdered
    <2> QED
        BY <1>1, <2>1
<1>3. (k + 1) * Window <= l * Window /\ (k + 1) * Window = k * Window + Window
    BY <1>1, <1>2, MultiplesOrdered, Multiples
<1> QED
    BY <1>1, <1>3

\* The last period of a chain that is over ends no later than the chain.
LEMMA BoundaryIs ==
    ASSUME NEW prev \in Seq(Blocks)
    PROVE  Boundary(prev) \in 0 .. Len(prev) /\ Boundary(prev) % Window = 0
<1> DEFINE k == Len(prev) \div Window
<1>1. k \in Nat /\ k * Window <= Len(prev) /\ Len(prev) % Window = Len(prev) - k * Window
    BY Division
<1>2. k * Window \in Nat /\ (k * Window) % Window = 0
    BY <1>1, Multiples
<1> HIDE DEF k
<1> QED
    BY <1>1, <1>2 DEF Boundary

LEMMA KnowsCache == ASSUME IInv PROVE Knows(chain, cache)
<1>1. chain \in Seq(Blocks)
    BY DEF IInv, TypeOK
<1>2. Boundary(chain) \in 0 .. Len(chain)
    BY <1>1, BoundaryIs
<1>3. \A n \in 1 .. Len(chain) : n < Boundary(chain) => n \in 1 .. Len(chain) - 1
    BY <1>1, <1>2
<1> QED
    BY <1>1, <1>3 DEF IInv, Ordered, Recent, CacheCorrect, Knows

\* The download does not reach so far that two periods could be over without a state: all
\* but the last that is over lie in the main chain, before its last block.
LEMMA KnowsBranch == ASSUME IInv, NEW prev \in Branches PROVE Knows(prev, cache)
<1>1. PICK k \in DOMAIN chain, next \in UNION {[1 .. n -> Blocks] : n \in 0 .. Ahead} :
          prev = EndOf(chain, k) \o next
    BY DEF Branches
<1>2. PICK m \in 0 .. Ahead : next \in [1 .. m -> Blocks]
    BY <1>1
<1>3. chain \in Seq(Blocks) /\ k \in 1 .. Len(chain) /\ Len(chain) \in Nat
    BY <1>1 DEF IInv, TypeOK
<1>4. next \in Seq(Blocks) /\ Len(next) = m /\ m \in Nat /\ m < Window
    <2>1. m \in Nat /\ m < Window
        BY <1>2, Parameters
    <2>2. next \in Seq(Blocks)
        BY <1>2, <2>1, SeqDef
    <2>3. Len(next) = m
        BY <1>2, <2>1, <2>2
    <2> QED
        BY <2>1, <2>2, <2>3
<1>5. /\ EndOf(chain, k) \in Seq(Blocks) /\ Len(EndOf(chain, k)) = k
      /\ \A i \in 1 .. k : EndOf(chain, k)[i] = chain[i]
    BY <1>3, Ends
<1>6. /\ prev \in Seq(Blocks) /\ Len(prev) = k + m
      /\ \A i \in 1 .. k : prev[i] = chain[i]
    <2> DEFINE start == EndOf(chain, k)
    <2>1. /\ start \o next \in Seq(Blocks) /\ Len(start \o next) = Len(start) + Len(next)
          /\ \A i \in 1 .. Len(start) + Len(next) :
                (start \o next)[i] = IF i <= Len(start) THEN start[i] ELSE next[i - Len(start)]
        BY <1>4, <1>5, ConcatProperties
    <2> HIDE DEF start
    <2>2. Len(start) = k /\ prev = start \o next /\ k \in Nat
        BY <1>1, <1>3, <1>5 DEF start
    <2>3. \A i \in 1 .. k : prev[i] = start[i]
        BY <1>4, <2>1, <2>2
    <2> QED
        BY <1>4, <1>5, <2>1, <2>2, <2>3 DEF start
<1>7. ASSUME NEW n \in 1 .. Len(prev), n < Boundary(prev), n % Window = 0
      PROVE  EndOf(prev, n) \in DOMAIN cache
    <2>1. Boundary(prev) \in 0 .. Len(prev) /\ Boundary(prev) % Window = 0
        BY <1>6, BoundaryIs
    <2>2. n + Window <= Boundary(prev)
        BY <1>6, <1>7, <2>1, EndsApart
    <2>3. n < k
        BY <1>3, <1>4, <1>6, <2>1, <2>2, Parameters
    <2>4. n \in 1 .. Len(chain) - 1
        BY <1>3, <2>3
    <2>5. EndOf(prev, n) = EndOf(chain, n)
        <3>1. n \in 0 .. Len(prev) /\ n <= Len(chain) /\ \A i \in 1 .. n : prev[i] = chain[i]
            BY <1>3, <1>6, <2>3
        <3> QED
            BY <1>3, <1>6, <3>1, SameEnds
    <2> QED
        BY <1>7, <2>4, <2>5 DEF IInv, Recent
<1>8. \A i, j \in DOMAIN prev : i <= j => prev[i].mtp <= prev[j].mtp
    BY DEF Branches
<1> QED
    BY <1>6, <1>7, <1>8 DEF Knows, IInv, CacheCorrect

\* The cache after the state was asked for of which all but the last are known.
LEMMA CacheKept ==
    ASSUME IInv, NEW prev, Knows(prev, cache), cache' = Remember(prev, cache)
    PROVE  CacheTyped' /\ CacheCorrect' /\ DOMAIN cache \subseteq DOMAIN cache'
<1>1. prev \in Seq(Blocks) /\ Len(prev) \in Nat
    BY DEF Knows
<1>2. /\ DOMAIN cache \subseteq DOMAIN cache'
      /\ \A q \in DOMAIN cache' : cache'[q] = Reference(q)
      /\ DOMAIN cache' \subseteq DOMAIN cache \cup
             {EndOf(prev, n) : n \in {m \in 1 .. Len(prev) : m % Window = 0}}
    BY StatusRight
<1>3. CacheCorrect'
    BY <1>2 DEF CacheCorrect
<1>4. ASSUME NEW q \in DOMAIN cache'
      PROVE  q \in Seq(Blocks) /\ q # <<>> /\ (Len(q) % Window) = 0
    <2>1. CASE q \in DOMAIN cache
        BY <2>1 DEF IInv, TypeOK, CacheTyped
    <2>2. CASE q \notin DOMAIN cache
        <3>1. PICK n \in {m \in 1 .. Len(prev) : m % Window = 0} : q = EndOf(prev, n)
            BY <1>2, <1>4, <2>2
        <3>2. n \in 0 .. Len(prev) /\ n > 0 /\ n % Window = 0
            BY <1>1, <3>1
        <3>3. q \in Seq(Blocks) /\ Len(q) = n
            BY <1>1, <3>1, <3>2, Ends
        <3> QED
            BY <3>2, <3>3
    <2> QED
        BY <2>1, <2>2
<1>5. CacheTyped'
    BY <1>2, <1>4, ReferenceType DEF CacheTyped
<1> QED
    BY <1>2, <1>3, <1>5

\* ... of a block on the tip.
LEMMA RememberKeeps ==
    ASSUME IInv, cache' = Remember(chain, cache)
    PROVE  /\ CacheTyped' /\ CacheCorrect'
           /\ \A n \in 1 .. Len(chain) : n % Window = 0 => EndOf(chain, n) \in DOMAIN cache'
<1> DEFINE b == Boundary(chain)
<1>1. chain \in Seq(Blocks) /\ Len(chain) \in Nat
    BY DEF IInv, TypeOK
<1>2. CacheTyped' /\ CacheCorrect' /\ DOMAIN cache \subseteq DOMAIN cache'
    BY KnowsCache, CacheKept
<1>3. b > 0 => EndOf(chain, b) \in DOMAIN cache'
    BY KnowsCache, StatusRight
<1>4. ASSUME NEW n \in 1 .. Len(chain), n % Window = 0 PROVE EndOf(chain, n) \in DOMAIN cache'
    <2>1. CASE n \in 1 .. Len(chain) - 1
        BY <1>2, <1>4, <2>1 DEF IInv, Recent
    <2>2. CASE n = Len(chain)
        <3>1. b = n /\ n > 0
            BY <1>1, <1>4, <2>2 DEF Boundary
        <3> QED
            BY <1>3, <3>1
    <2> QED
        BY <1>1, <2>1, <2>2
<1> QED
    BY <1>2, <1>4

LEMMA InitInv == Init => IInv
<1> SUFFICES ASSUME Init PROVE IInv
    OBVIOUS
<1>1. chain \in Seq(Blocks) /\ Len(chain) = 1 /\ DOMAIN chain = 1 .. 1 /\ cache = NoCache
    BY VersionBitsAssumption DEF Init, Blocks
<1>2. TypeOK
    BY <1>1, VersionBitsAssumption DEF Init, TypeOK, CacheTyped, NoCache, ThresholdState
<1>3. Ordered
    <2>1. chain[1].mtp = 0
        BY DEF Init
    <2> QED
        BY <1>1, <2>1 DEF Ordered
<1>4. Recent /\ CacheCorrect
    BY <1>1 DEF Recent, CacheCorrect, NoCache
<1>5. StatesRight
    <2>1. 0 * Window = 0 /\ 0 % Window = 0
        BY Parameters
    <2>2. Reference(EndOf(chain, 0)) = "Defined"
        BY <1>1, <2>1, ReferenceAt, DefinedAtFirst
    <2>3. \A i \in DOMAIN chain : i = 1 /\ (i - 1) - ((i - 1) % Window) = 0
        BY <1>1, <2>1
    <2>4. states[1] = "Defined"
        BY DEF Init
    <2> QED
        BY <2>2, <2>3, <2>4 DEF StatesRight
<1> QED
    BY <1>2, <1>3, <1>4, <1>5 DEF IInv

LEMMA ConnectInv == ASSUME IInv, NEW b \in Blocks, Connect(b) PROVE IInv'
<1> DEFINE n == Len(chain)
<1>1. /\ chain \in Seq(Blocks) /\ n \in Nat /\ n >= 1 /\ n < MaxBlocks
      /\ states \in Seq(ThresholdState) /\ Len(states) = n
      /\ chain' = Append(chain, b) /\ b.mtp >= chain[n].mtp
      /\ states' = Append(states, Status(chain, cache)) /\ cache' = Remember(chain, cache)
      /\ detours' = detours
    BY DEF Connect, IInv, TypeOK
<1>2. /\ chain' \in Seq(Blocks) /\ Len(chain') = n + 1 /\ DOMAIN chain' = 1 .. n + 1
      /\ chain'[n + 1] = b
      /\ \A i \in 1 .. n : chain'[i] = chain[i]
    BY <1>1
<1>3. ASSUME NEW m \in 0 .. n PROVE EndOf(chain', m) = EndOf(chain, m)
    <2>1. chain' \in Seq(Blocks) /\ chain \in Seq(Blocks) /\ m \in 0 .. Len(chain')
          /\ m <= Len(chain)
        BY <1>1, <1>2
    <2>2. \A i \in 1 .. m : chain'[i] = chain[i]
        BY <1>1, <1>2
    <2> QED
        BY <2>1, <2>2, SameEnds
<1>4. Status(chain, cache) = Reference(EndOf(chain, Boundary(chain)))
      /\ Boundary(chain) \in 0 .. n
    BY KnowsCache, StatusRight
<1>5. /\ states' \in Seq(ThresholdState) /\ Len(states') = n + 1
      /\ states'[n + 1] = Reference(EndOf(chain, Boundary(chain)))
      /\ \A i \in 1 .. n : states'[i] = states[i]
    BY <1>1, <1>4, ReferenceType
<1>6. CacheTyped' /\ CacheCorrect'
      /\ \A m \in 1 .. n : m % Window = 0 => EndOf(chain, m) \in DOMAIN cache'
    BY <1>1, RememberKeeps
<1>7. TypeOK'
    <2>1. Len(chain') \in 1 .. MaxBlocks /\ detours' \in 0 .. MaxDetours
        BY <1>1, <1>2, Parameters DEF IInv, TypeOK
    <2>2. chain' \in Seq(Blocks) /\ states' \in Seq(ThresholdState) /\ Len(states') = Len(chain')
        BY <1>2, <1>5
    <2>3. CacheTyped'
        BY <1>6
    <2> QED
        BY <2>1, <2>2, <2>3 DEF TypeOK
<1>8. Ordered'
    <2>0. DOMAIN chain = 1 .. n /\ \A i \in 1 .. n : chain[i] \in Blocks
        BY <1>1
    <2>1. \A i \in 1 .. n : chain[i].mtp \in Nat
        BY <2>0, Parameters
    <2>2. b.mtp \in Nat /\ \A i \in 1 .. n : chain[i].mtp <= b.mtp
        <3>1. b.mtp \in Nat
            BY Parameters
        <3>2. ASSUME NEW i \in 1 .. n PROVE chain[i].mtp <= chain[n].mtp
            <4>1. i \in DOMAIN chain /\ n \in DOMAIN chain /\ i <= n
                BY <1>1, <2>0
            <4> QED
                BY <4>1 DEF IInv, Ordered
        <3>3. n \in 1 .. n
            BY <1>1
        <3> QED
            BY <1>1, <2>1, <3>1, <3>2, <3>3
    <2>3. \A i, j \in 1 .. n : i <= j => chain[i].mtp <= chain[j].mtp
        BY <2>0 DEF IInv, Ordered
    <2>4. ASSUME NEW i \in 1 .. n + 1, NEW j \in 1 .. n + 1, i <= j
          PROVE  chain'[i].mtp <= chain'[j].mtp
        <3>1. CASE j \in 1 .. n
            <4>1. i \in 1 .. n
                BY <2>4, <3>1
            <4> QED
                BY <1>2, <2>3, <2>4, <3>1, <4>1
        <3>2. CASE j = n + 1 /\ i \in 1 .. n
            BY <1>2, <2>2, <3>2
        <3>3. CASE j = n + 1 /\ i = n + 1
            BY <1>2, <2>2, <3>3
        <3> QED
            BY <1>1, <3>1, <3>2, <3>3
    <2> QED
        BY <1>2, <2>4 DEF Ordered
<1>9. Recent'
    <2>1. 1 .. Len(chain') - 1 = 1 .. n
        BY <1>1, <1>2
    <2>2. \A m \in 1 .. n : EndOf(chain', m) = EndOf(chain, m)
        BY <1>1, <1>3
    <2> QED
        BY <1>6, <2>1, <2>2 DEF Recent, EndOf
<1>10. StatesRight'
    <2>1. ASSUME NEW i \in 1 .. n + 1
          PROVE  states'[i] = Reference(EndOf(chain', (i - 1) - ((i - 1) % Window)))
        <3> DEFINE m == (i - 1) - ((i - 1) % Window)
        <3>1. m \in 0 .. i - 1
            <4>1. i - 1 \in Nat
                BY <1>1
            <4>2. (i - 1) % Window \in Nat /\ (i - 1) % Window <= i - 1
                <5>1. ((i - 1) \div Window) * Window \in Nat
                    BY <4>1, Division, Multiples
                <5> QED
                    BY <4>1, <5>1, Division
            <4> QED
                BY <4>1, <4>2
        <3>2. EndOf(chain', m) = EndOf(chain, m)
            BY <1>1, <1>3, <3>1
        <3>3. CASE i \in 1 .. n
            <4>1. i \in DOMAIN chain
                BY <1>1, <3>3
            <4>2. states[i] = Reference(EndOf(chain, m))
                BY <4>1 DEF IInv, StatesRight
            <4> HIDE DEF m
            <4>3. states'[i] = Reference(EndOf(chain', m))
                BY <1>5, <3>2, <3>3, <4>2
            <4> QED
                BY <4>3 DEF m
        <3>4. CASE i = n + 1
            <4>1. m = Boundary(chain)
                BY <1>1, <3>4 DEF Boundary
            <4> QED
                BY <1>5, <3>2, <3>4, <4>1
        <3> QED
            BY <1>1, <3>3, <3>4
    <2> QED
        BY <1>2, <2>1 DEF StatesRight, EndOf
<1> QED
    BY <1>6, <1>7, <1>8, <1>9, <1>10 DEF IInv

LEMMA DisconnectInv == ASSUME IInv, Disconnect PROVE IInv'
<1> DEFINE n == Len(chain) - 1
<1>1. /\ chain \in Seq(Blocks) /\ Len(chain) \in 1 .. MaxBlocks /\ Len(chain) > 1
      /\ states \in Seq(ThresholdState) /\ Len(states) = Len(chain)
      /\ chain' = SubSeq(chain, 1, n) /\ states' = SubSeq(states, 1, n)
      /\ cache' = cache /\ detours' = detours + 1 /\ detours < MaxDetours
    BY DEF Disconnect, IInv, TypeOK
<1>2. n \in Nat /\ n >= 1 /\ n < Len(chain) /\ n <= MaxBlocks
    BY <1>1, Parameters
<1>3. /\ chain' \in Seq(Blocks) /\ Len(chain') = n /\ DOMAIN chain' = 1 .. n
      /\ \A i \in 1 .. n : chain'[i] = chain[i]
    BY <1>1, <1>2
<1>4. /\ states' \in Seq(ThresholdState) /\ Len(states') = n
      /\ \A i \in 1 .. n : states'[i] = states[i]
    BY <1>1, <1>2
<1> HIDE DEF n
<1>5. ASSUME NEW m \in 0 .. n PROVE EndOf(chain', m) = EndOf(chain, m)
    <2>1. chain' \in Seq(Blocks) /\ chain \in Seq(Blocks) /\ m \in 0 .. Len(chain')
          /\ m <= Len(chain)
        BY <1>1, <1>2, <1>3
    <2>2. \A i \in 1 .. m : chain'[i] = chain[i]
        BY <1>1, <1>2, <1>3
    <2> QED
        BY <2>1, <2>2, SameEnds
<1>6. TypeOK'
    <2>1. detours' \in 0 .. MaxDetours
        BY <1>1, Parameters DEF IInv, TypeOK
    <2>2. CacheTyped'
        BY <1>1 DEF IInv, TypeOK, CacheTyped
    <2> QED
        BY <1>2, <1>3, <1>4, <2>1, <2>2, Parameters DEF TypeOK
<1>7. Ordered'
    BY <1>1, <1>2, <1>3 DEF IInv, Ordered
<1>8. Recent' /\ CacheCorrect'
    <2>1. ASSUME NEW m \in 1 .. n - 1, m % Window = 0 PROVE EndOf(chain', m) \in DOMAIN cache
        <3>1. m \in 0 .. n /\ m \in 1 .. Len(chain) - 1
            BY <1>1, <1>2
        <3> QED
            BY <1>5, <2>1, <3>1 DEF IInv, Recent
    <2> QED
        BY <1>1, <1>3, <2>1 DEF Recent, IInv, CacheCorrect, EndOf
<1>9. StatesRight'
    <2>1. ASSUME NEW i \in 1 .. n
          PROVE  states'[i] = Reference(EndOf(chain', (i - 1) - ((i - 1) % Window)))
        <3> DEFINE m == (i - 1) - ((i - 1) % Window)
        <3>1. i - 1 \in Nat /\ i - 1 <= n /\ i \in 1 .. Len(chain)
            BY <1>1, <1>2
        <3>2. (i - 1) % Window \in Nat /\ (i - 1) % Window <= i - 1
            <4>1. ((i - 1) \div Window) * Window \in Nat
                BY <3>1, Division, Multiples
            <4> QED
                BY <3>1, <4>1, Division
        <3>3. m \in 0 .. n
            BY <1>2, <3>1, <3>2
        <3>4. EndOf(chain', m) = EndOf(chain, m)
            BY <1>5, <3>3
        <3>5. states[i] = Reference(EndOf(chain, m))
            BY <1>1, <3>1 DEF IInv, StatesRight
        <3> QED
            BY <1>4, <3>4, <3>5
    <2> QED
        BY <1>3, <2>1 DEF StatesRight, EndOf
<1> QED
    BY <1>6, <1>7, <1>8, <1>9 DEF IInv

LEMMA ComputeInv == ASSUME IInv, ComputeBlockVersion PROVE IInv'
<1>1. cache' = Remember(chain, cache) /\ UNCHANGED <<chain, states, detours>>
    BY DEF ComputeBlockVersion
<1>2. /\ CacheTyped' /\ CacheCorrect'
      /\ \A n \in 1 .. Len(chain) : n % Window = 0 => EndOf(chain, n) \in DOMAIN cache'
    BY <1>1, RememberKeeps
<1>3. TypeOK'
    BY <1>1, <1>2 DEF IInv, TypeOK
<1>4. Recent'
    <2>1. 1 .. Len(chain) - 1 \subseteq 1 .. Len(chain)
        BY DEF IInv, TypeOK
    <2> QED
        BY <1>1, <1>2, <2>1 DEF Recent, EndOf
<1>5. Ordered' /\ StatesRight'
    BY <1>1 DEF IInv, Ordered, StatesRight, EndOf
<1> QED
    BY <1>2, <1>3, <1>4, <1>5 DEF IInv

LEMMA AddBlockInv == ASSUME IInv, AddBlock PROVE IInv'
<1>1. PICK prev \in Branches : cache' = Remember(prev, cache)
    BY DEF AddBlock
<1>2. UNCHANGED <<chain, states>> /\ detours' = detours + 1 /\ detours < MaxDetours
    BY DEF AddBlock
<1>3. CacheTyped' /\ CacheCorrect' /\ DOMAIN cache \subseteq DOMAIN cache'
    BY <1>1, KnowsBranch, CacheKept
<1>4. TypeOK'
    <2>1. detours' \in 0 .. MaxDetours
        BY <1>2, Parameters DEF IInv, TypeOK
    <2> QED
        BY <1>2, <1>3, <2>1 DEF IInv, TypeOK
<1>5. Recent'
    BY <1>2, <1>3 DEF IInv, Recent, EndOf
<1>6. Ordered' /\ StatesRight'
    BY <1>2 DEF IInv, Ordered, StatesRight, EndOf
<1> QED
    BY <1>3, <1>4, <1>5, <1>6 DEF IInv

LEMMA NextInv == IInv /\ [Next]_vars => IInv'
<1> SUFFICES ASSUME IInv, [Next]_vars PROVE IInv'
    OBVIOUS
<1>1. CASE UNCHANGED vars
    BY <1>1 DEF vars, IInv, TypeOK, CacheTyped, Ordered, Recent, CacheCorrect, StatesRight, EndOf
<1> QED
    BY <1>1, ConnectInv, DisconnectInv, AddBlockInv, ComputeInv DEF Next

------------------------------------------------------------------------------
(* The theorems.                                                           *)

\* What holds of the chain and of the cache in every state of a process.
THEOREM Invariance == Spec => []IInv
    BY InitInv, NextInv, PTL DEF Spec

\* Only states of the last blocks of periods are cached, and there is one for every block.
THEOREM TypeCorrect == Spec => []TypeOK
<1>1. IInv => TypeOK
    BY DEF IInv
<1> QED
    BY <1>1, Invariance, PTL

\* For any window, threshold, times and activation height, the states the incremental
\* computation leaves in the cache are those the rules give for the chain up to their block,
\* on every branch the chain has been on.
THEOREM CacheIsRight == Spec => []CacheCorrect
<1>1. IInv => CacheCorrect
    BY DEF IInv
<1> QED
    BY <1>1, Invariance, PTL

\* While the process runs the blocks of a period are verified under the same state, through
\* any number of disconnected blocks.
THEOREM OneStatePerPeriod == Spec => []PeriodsAgree
<1>1. IInv => PeriodsAgree
    <2> SUFFICES ASSUME IInv, NEW i \in DOMAIN chain, NEW j \in DOMAIN chain,
                        (i - 1) \div Window = (j - 1) \div Window
                 PROVE  states[i] = states[j]
        BY DEF PeriodsAgree
    <2>1. i - 1 \in Nat /\ j - 1 \in Nat
        BY DEF IInv, TypeOK
    <2>2. (i - 1) - ((i - 1) % Window) = ((i - 1) \div Window) * Window
          /\ (j - 1) - ((j - 1) % Window) = ((j - 1) \div Window) * Window
        <3>1. ASSUME NEW n \in Nat PROVE n - (n % Window) = (n \div Window) * Window
            <4>1. n \div Window \in Nat /\ n % Window = n - (n \div Window) * Window
                BY Division
            <4>2. (n \div Window) * Window \in Nat
                BY <4>1, Multiples
            <4> QED
                BY <4>1, <4>2
        <3> QED
            BY <2>1, <3>1
    <2> QED
        BY <2>2 DEF IInv, StatesRight
<1> QED
    BY <1>1, Invariance, PTL

================================================================================
