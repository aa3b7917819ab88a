---------------------------- MODULE HeadersProofs ----------------------------
(***************************************************************************)
(* What holds of Headers for any two branches, any times of the miners and *)
(* any parameters of the network: the skip pointers, paths and locators    *)
(* agree with the tree, locks once satisfied stay so, and targets change   *)
(* at the boundaries of intervals only.                                    *)
(***************************************************************************)
EXTENDS Headers, FiniteSetTheorems, NaturalsInduction, WellFoundedInduction, TLAPS

------------------------------------------------------------------------------
(* Numbers and recursive functions.                                        *)

LEMMA Parameters ==
    /\ MaxHeight \in Nat /\ MaxOdd \in Nat /\ Dense \in Nat
    /\ Interval \in Nat \ {0} /\ Spacing \in Nat \ {0} /\ MedianSpan \in Nat \ {0}
    /\ MaxFuture \in Nat \ {0} /\ PowLimit \in Nat \ {0} /\ MantissaLimit \in Nat \ {0}
    /\ Modulus \in Nat \ {0} /\ Granularity \in Nat \ {0}
    /\ Digit \in Nat /\ 2 <= Digit /\ Digit <= MantissaLimit
    /\ Forks \subseteq 0 .. MaxHeight - 1
<1>1. {MaxHeight, MaxOdd, Dense} \subseteq Nat
    BY HeadersAssumption
<1>2. {Interval, Spacing, MedianSpan, MaxFuture, PowLimit, MantissaLimit, Modulus,
        Granularity} \subseteq Nat \ {0}
    BY HeadersAssumption
<1>3. Digit \in 2 .. MantissaLimit /\ Forks \subseteq 0 .. MaxHeight - 1
    BY HeadersAssumption
<1> QED
    BY <1>1, <1>2, <1>3

Smaller == {ij \in Nat \X Nat : ij[1] < ij[2]}

\* A set of numbers that is not empty has a least one.
LEMMA Least ==
    ASSUME NEW S \in SUBSET Nat, S # {}
    PROVE  \E m \in S : \A n \in S : m <= n
<1>1. OpToRel(<, Nat) = Smaller
    BY DEF OpToRel, Smaller
<1>2. PICK m \in S : \A n \in S : ~ (<<n, m>> \in Smaller)
    BY <1>1, NatLessThanWellFounded, WFMin
<1>3. \A n \in S : ~ (n < m)
    <2> TAKE n \in S
    <2>1. <<n, m>> \in Nat \X Nat /\ <<n, m>>[1] = n /\ <<n, m>>[2] = m
        OBVIOUS
    <2> QED
        BY <1>2, <2>1 DEF Smaller
<1> QED
    BY <1>3

\* Going to the next argument goes down in a measure, until an argument of B.
Descends(D, N, m, next, B) ==
    /\ N \in Nat
    /\ m \in [D -> 0 .. N]
    /\ next \in [D -> D]
    /\ B \in SUBSET D
    /\ \A x \in D \ B : m[next[x]] < m[x]

\* The value at an argument is found there, or from the value at the next one.
Computes(D, V, base, step) == base \in [D -> V] /\ step \in [D \X V -> V]

\* A function that is defined so from its value at the next argument exists.
LEMMA Recursion ==
    ASSUME NEW D, NEW V, NEW N, NEW m, NEW next, NEW B, NEW base, NEW step,
           Descends(D, N, m, next, B), Computes(D, V, base, step)
    PROVE  \E f \in [D -> V] :
              \A x \in D : f[x] = IF x \in B THEN base[x] ELSE step[<<x, f[next[x]]>>]
<1>0. /\ N \in Nat /\ m \in [D -> 0 .. N] /\ next \in [D -> D] /\ B \in SUBSET D
      /\ \A x \in D \ B : m[next[x]] < m[x]
      /\ base \in [D -> V] /\ step \in [D \X V -> V]
    BY DEF Descends, Computes
<1> DEFINE Right(f, x) == f[x] = IF x \in B THEN base[x] ELSE step[<<x, f[next[x]]>>]
           Reaches(n) == \E f \in [D -> V] : \A x \in D : m[x] < n => Right(f, x)
           Not == {n \in Nat : ~Reaches(n)}
<1>1. Reaches(0)
    <2>1. \A x \in D : ~(m[x] < 0)
        BY <1>0
    <2> QED
        BY <1>0, <2>1
<1>2. ASSUME NEW n \in Nat, Reaches(n) PROVE Reaches(n + 1)
    <2>1. PICK f \in [D -> V] : \A x \in D : m[x] < n => Right(f, x)
        BY <1>2
    <2> DEFINE new(x) == IF x \in B THEN base[x] ELSE step[<<x, f[next[x]]>>]
               g == [x \in D |-> IF m[x] < n THEN f[x] ELSE new(x)]
    <2>2. \A x \in D : new(x) \in V
        <3> TAKE x \in D
        <3>1. base[x] \in V /\ f[next[x]] \in V
            BY <1>0
        <3>2. <<x, f[next[x]]>> \in D \X V
            BY <3>1
        <3>3. step[<<x, f[next[x]]>>] \in V
            BY <1>0, <3>2
        <3> QED
            BY <3>1, <3>3
    <2>3. g \in [D -> V]
        BY <2>2
    <2>4. ASSUME NEW x \in D, m[x] < n + 1 PROVE Right(g, x)
        <3>1. g[x] = new(x)
            BY <2>1
        <3>2. CASE x \in B
            BY <3>1, <3>2
        <3>3. CASE x \notin B
            <4>1. next[x] \in D /\ m[x] \in 0 .. N /\ m[next[x]] \in 0 .. N /\ m[next[x]] < m[x]
                BY <1>0, <3>3
            <4>2. m[next[x]] < n
                BY <2>4, <4>1
            <4>3. g[next[x]] = f[next[x]]
                BY <4>1, <4>2
            <4> QED
                BY <3>1, <3>3, <4>3
        <3> QED
            BY <3>2, <3>3
    <2> HIDE DEF g
    <2> QED
        BY <2>3, <2>4
<1> HIDE DEF Reaches
<1>3. Not = {}
    <2> SUFFICES ASSUME Not # {} PROVE FALSE
        OBVIOUS
    <2>1. PICK n \in Not : \A k \in Not : n <= k
        BY Least
    <2>2. n \in Nat /\ n # 0
        BY <1>1, <2>1
    <2>3. n - 1 \in Nat /\ n - 1 \notin Not
        BY <2>1, <2>2
    <2>4. Reaches((n - 1) + 1)
        BY <1>2, <2>3
    <2> QED
        BY <2>1, <2>2, <2>4
<1>4. Reaches(N + 1)
    BY <1>0, <1>3
<1>5. PICK f \in [D -> V] : \A x \in D : m[x] < N + 1 => Right(f, x)
    BY <1>4 DEF Reaches
<1>6. \A x \in D : m[x] < N + 1
    BY <1>0
<1> QED
    BY <1>5, <1>6

\* So does one that only walks to where it stops.
LEMMA Walk ==
    ASSUME NEW D, NEW N, NEW m, NEW next, NEW B, Descends(D, N, m, next, B)
    PROVE  \E f \in [D -> D] : \A x \in D : f[x] = IF x \in B THEN x ELSE f[next[x]]
<1> DEFINE base == [x \in D |-> x]
           step == [p \in D \X D |-> p[2]]
<1>1. Computes(D, D, base, step)
    BY DEF Computes
<1>2. /\ \A x \in D : base[x] = x
      /\ \A x, y \in D : step[<<x, y>>] = y
    OBVIOUS
<1> HIDE DEF base, step
<1>3. PICK f \in [D -> D] :
        \A x \in D : f[x] = IF x \in B THEN base[x] ELSE step[<<x, f[next[x]]>>]
    BY <1>1, Recursion
<1>4. ASSUME NEW x \in D PROVE f[x] = IF x \in B THEN x ELSE f[next[x]]
    <2>1. f[next[x]] \in D
        BY DEF Descends
    <2>2. base[x] = x /\ step[<<x, f[next[x]]>>] = f[next[x]]
        BY <1>2, <2>1
    <2> QED
        BY <1>3, <2>2
<1> QED
    BY <1>4

\* A bounded one has a greatest one.
LEMMA Greatest ==
    ASSUME NEW N \in Nat, NEW S \in SUBSET (0 .. N), S # {}
    PROVE  \E m \in S : \A n \in S : n <= m
<1> DEFINE T == {k \in Nat : \E n \in S : k = N - n}
<1>1. \A n \in S : n \in Nat /\ N - n \in Nat
    OBVIOUS
<1>2. T # {} /\ T \in SUBSET Nat
    BY <1>1
<1>3. PICK k \in T : \A l \in T : k <= l
    BY <1>2, Least
<1>4. PICK m \in S : k = N - m
    BY <1>2
<1>5. \A n \in S : n <= m
    <2> TAKE n \in S
    <2>1. N - n \in T
        BY <1>1
    <2>2. k <= N - n
        BY <1>3, <2>1
    <2> QED
        BY <1>1, <1>4, <2>2
<1> QED
    BY <1>5

------------------------------------------------------------------------------
(* The tree.                                                               *)

Heights == 0 .. MaxHeight

\* What heights and ancestors are; nothing below looks at the sides again.
LEMMA Shape ==
    ASSUME fork \in Forks, NEW b \in Headers
    PROVE  /\ HeightOf(b) \in Heights
           /\ AncestorOf(b, HeightOf(b)) = b
           /\ AncestorOf(b, 0) = Genesis
           /\ Genesis \in Headers /\ HeightOf(Genesis) = 0
           /\ \A h \in 0 .. HeightOf(b) :
                 /\ AncestorOf(b, h) \in Headers
                 /\ HeightOf(AncestorOf(b, h)) = h
                 /\ \A k \in 0 .. h : AncestorOf(AncestorOf(b, h), k) = AncestorOf(b, k)
<1>1. fork \in Nat /\ fork < MaxHeight /\ MaxHeight \in Nat
    BY Parameters
<1>2. PICK s \in {"a", "b"}, n \in Heights :
        b = <<s, n>> /\ (s = "b" => n \in fork + 1 .. MaxHeight)
    BY <1>1 DEF Headers, Heights
<1>3. HeightOf(b) = n /\ b[1] = s
    BY <1>2 DEF HeightOf
<1>4. \A h \in 0 .. n : /\ h <= fork => AncestorOf(b, h) = <<"a", h>>
                        /\ h > fork => AncestorOf(b, h) = <<s, h>>
    BY <1>1, <1>3 DEF AncestorOf, Heights
<1>5. n \in Nat /\ n <= MaxHeight
    BY <1>1 DEF Heights
<1>6. AncestorOf(b, n) = b /\ AncestorOf(b, 0) = Genesis
    BY <1>1, <1>2, <1>4, <1>5 DEF Genesis
<1>7. Genesis \in Headers /\ HeightOf(Genesis) = 0
    BY <1>1 DEF Genesis, Headers, HeightOf
<1>8. ASSUME NEW h \in 0 .. n
      PROVE  AncestorOf(b, h) \in Headers /\ HeightOf(AncestorOf(b, h)) = h
    BY <1>1, <1>2, <1>4, <1>5, <1>8 DEF Headers, HeightOf
<1>9. ASSUME NEW h \in 0 .. n, NEW k \in 0 .. h
      PROVE  AncestorOf(AncestorOf(b, h), k) = AncestorOf(b, k)
    BY <1>1, <1>4, <1>5, <1>9 DEF AncestorOf
<1> QED
    BY <1>3, <1>5, <1>6, <1>7, <1>8, <1>9 DEF Heights

LEMMA ShapeOfPrev ==
    ASSUME fork \in Forks, NEW b \in Headers, b # Genesis
    PROVE  /\ HeightOf(b) \in 1 .. MaxHeight
           /\ Prev(b) \in Headers
           /\ Prev(b) = AncestorOf(b, HeightOf(b) - 1)
<1>1. fork \in Nat /\ fork < MaxHeight /\ MaxHeight \in Nat
    BY Parameters
<1>2. PICK s \in {"a", "b"}, n \in Heights :
        b = <<s, n>> /\ (s = "b" => n \in fork + 1 .. MaxHeight)
    BY <1>1 DEF Headers, Heights
<1>3. HeightOf(b) = n /\ b[1] = s /\ b[2] = n
    BY <1>2 DEF HeightOf
<1>4. n \in 1 .. MaxHeight
    BY <1>1, <1>2 DEF Genesis, Heights
<1>5. CASE s = "a"
    <2>1. Prev(b) = <<"a", n - 1>>
        BY <1>2, <1>3, <1>5 DEF Prev
    <2> QED
        BY <1>1, <1>3, <1>4, <1>5, <2>1 DEF Headers, AncestorOf
<1>6. CASE s = "b" /\ n = fork + 1
    <2>1. Prev(b) = <<"a", fork>>
        BY <1>2, <1>6 DEF Prev
    <2> QED
        BY <1>1, <1>3, <1>4, <1>6, <2>1 DEF Headers, AncestorOf
<1>7. CASE s = "b" /\ n # fork + 1
    <2>1. Prev(b) = <<"b", n - 1>>
        BY <1>2, <1>3, <1>7 DEF Prev
    <2> QED
        BY <1>1, <1>2, <1>3, <1>4, <1>7, <2>1 DEF Headers, AncestorOf
<1> QED
    BY <1>5, <1>6, <1>7

\* A header, its parent and their ancestors.
LEMMA PrevFacts ==
    ASSUME fork \in Forks, NEW b \in Headers, b # Genesis
    PROVE  /\ HeightOf(b) \in Nat \ {0} /\ HeightOf(b) <= MaxHeight
           /\ Prev(b) \in Headers /\ HeightOf(Prev(b)) = HeightOf(b) - 1
           /\ Prev(b) # b
           /\ \A h \in 0 .. HeightOf(b) - 1 : AncestorOf(Prev(b), h) = AncestorOf(b, h)
<1>1. HeightOf(b) \in 1 .. MaxHeight /\ Prev(b) = AncestorOf(b, HeightOf(b) - 1) /\ Prev(b) \in Headers
    BY ShapeOfPrev
<1>2. MaxHeight \in Nat
    BY Parameters
<1>3. HeightOf(b) - 1 \in 0 .. HeightOf(b)
    BY <1>1, <1>2
<1>4. HeightOf(Prev(b)) = HeightOf(b) - 1
    BY <1>1, <1>3, Shape
<1>5. \A h \in 0 .. HeightOf(b) - 1 : AncestorOf(Prev(b), h) = AncestorOf(b, h)
    BY <1>1, <1>3, Shape
<1>6. Prev(b) # b
    BY <1>1, <1>2, <1>4
<1> QED
    BY <1>1, <1>2, <1>4, <1>5, <1>6

------------------------------------------------------------------------------
(* Skip heights.                                                           *)

LEMMA FlipLowBelow == ASSUME NEW n \in Nat, n > 0 PROVE FlipLow(n) \in 0 .. n - 1
<1> DEFINE D == 0 .. n
           m == [x \in D |-> x]
           next == [x \in D |-> x \div 2]
           B == {x \in D : x = 0 \/ x % 2 = 1}
           base == [x \in D |-> IF x = 0 THEN 0 ELSE x - 1]
           step == [p \in D \X Int |-> 2 * p[2]]
           low == CHOOSE f : f = [x \in D |->
                    IF x = 0 THEN 0 ELSE IF x % 2 = 1 THEN x - 1 ELSE 2 * f[x \div 2]]
<1>1. \A x \in D : x \in Nat /\ x \div 2 \in D /\ (x # 0 => x \div 2 < x)
    OBVIOUS
<1>2. Descends(D, n, m, next, B)
    <2>1. m \in [D -> 0 .. n] /\ next \in [D -> D] /\ B \in SUBSET D
        BY <1>1
    <2>2. \A x \in D \ B : m[next[x]] < m[x]
        BY <1>1
    <2> QED
        BY <2>1, <2>2 DEF Descends
<1>3. Computes(D, Int, base, step)
    <2>1. base \in [D -> Int]
        BY <1>1
    <2>2. step \in [D \X Int -> Int]
        OBVIOUS
    <2> QED
        BY <2>1, <2>2 DEF Computes
<1>4. \A x \in D : \A y \in Int : step[<<x, y>>] = 2 * y
    OBVIOUS
<1>5. PICK f \in [D -> Int] :
        \A x \in D : f[x] = IF x \in B THEN base[x] ELSE step[<<x, f[next[x]]>>]
    <2> HIDE DEF D, m, next, B, base, step
    <2> QED
        BY <1>2, <1>3, Recursion
<1>6. ASSUME NEW x \in D
      PROVE  f[x] = IF x = 0 THEN 0 ELSE IF x % 2 = 1 THEN x - 1 ELSE 2 * f[x \div 2]
    <2>1. x \div 2 \in D /\ next[x] = x \div 2 /\ f[x \div 2] \in Int
        BY <1>1
    <2>2. step[<<x, f[x \div 2]>>] = 2 * f[x \div 2]
        BY <1>4, <2>1
    <2>3. CASE x \in B
        BY <1>5, <2>3
    <2>4. CASE x \notin B
        BY <1>5, <2>1, <2>2, <2>4
    <2> QED
        BY <2>3, <2>4
<1>7. \E g : g = [x \in D |-> IF x = 0 THEN 0 ELSE IF x % 2 = 1 THEN x - 1 ELSE 2 * g[x \div 2]]
    <2>1. f = [x \in D |-> IF x = 0 THEN 0 ELSE IF x % 2 = 1 THEN x - 1 ELSE 2 * f[x \div 2]]
        BY <1>6
    <2> QED
        BY <2>1
<1>8. low = [x \in D |-> IF x = 0 THEN 0 ELSE IF x % 2 = 1 THEN x - 1 ELSE 2 * low[x \div 2]]
    BY <1>7
<1> HIDE DEF low
<1>9. \A x \in D : low[x] = IF x = 0 THEN 0 ELSE IF x % 2 = 1 THEN x - 1 ELSE 2 * low[x \div 2]
    BY <1>8
<1>10. {x \in D : x > 0 /\ ~(low[x] \in 0 .. x - 1)} = {}
    <2> DEFINE S == {x \in D : x > 0 /\ ~(low[x] \in 0 .. x - 1)}
    <2> SUFFICES ASSUME S # {} PROVE FALSE
        OBVIOUS
    <2>1. S \in SUBSET Nat
        OBVIOUS
    <2>2. PICK x \in S : \A y \in S : x <= y
        BY <2>1, Least
    <2>3. x \in Nat /\ x > 0 /\ x \in D /\ ~(low[x] \in 0 .. x - 1)
        OBVIOUS
    <2>4. CASE x % 2 = 1
        BY <1>9, <2>3, <2>4
    <2>5. CASE x % 2 # 1
        <3>1. PICK q \in Nat : q = x \div 2 /\ q \in D /\ q > 0 /\ q < x /\ x = 2 * q
            BY <2>3, <2>5
        <3>2. q \notin S
            BY <2>2, <2>3, <3>1
        <3>3. low[q] \in 0 .. q - 1
            BY <3>1, <3>2
        <3>4. low[x] = 2 * low[q]
            BY <1>9, <2>3, <2>5, <3>1
        <3>5. \A j, k \in Nat : k <= j - 1 => 2 * k \in 0 .. (2 * j) - 1
            OBVIOUS
        <3>6. q \in Nat /\ low[q] \in Nat /\ low[q] <= q - 1
            BY <3>1, <3>3
        <3>7. low[x] \in 0 .. x - 1
            BY <3>1, <3>4, <3>5, <3>6
        <3> QED
            BY <2>3, <3>7
    <2> QED
        BY <2>4, <2>5
<1>11. n \in D
    OBVIOUS
<1>12. low[n] \in 0 .. n - 1
    BY <1>10, <1>11
<1> QED
    BY <1>12 DEF FlipLow, low

LEMMA SkipHeightBelow ==
    ASSUME NEW height \in Nat, height > 0
    PROVE  SkipHeight(height) \in 0 .. height - 1
<1>1. CASE height < 2
    BY <1>1 DEF SkipHeight
<1>2. CASE height >= 2 /\ height % 2 = 1
    <2>1. height - 1 \in Nat /\ height - 1 > 0
        BY <1>2
    <2>2. FlipLow(height - 1) \in 0 .. (height - 1) - 1
        BY <2>1, FlipLowBelow
    <2>3. PICK n \in Nat : n = FlipLow(height - 1) + 1
        BY <2>2
    <2>4. n > 0 /\ n <= height - 1
        BY <2>1, <2>2, <2>3
    <2>5. FlipLow(n) \in 0 .. n - 1
        BY <2>4, FlipLowBelow
    <2> QED
        BY <1>2, <2>3, <2>4, <2>5 DEF SkipHeight
<1>3. CASE height >= 2 /\ height % 2 # 1
    <2>1. FlipLow(height) \in 0 .. height - 1
        BY FlipLowBelow
    <2> QED
        BY <1>3, <2>1 DEF SkipHeight
<1> QED
    BY <1>1, <1>2, <1>3

------------------------------------------------------------------------------
(* The invariant of the tree, and what is looked up in it.                 *)

\* With a header all its ancestors are there.
Closed ==
    \A b \in DOMAIN entries :
        /\ b \in Headers
        /\ \A h \in 0 .. HeightOf(b) : AncestorOf(b, h) \in DOMAIN entries

\* The skip of an entry is the ancestor at its skip height.
SkipsRight ==
    \A b \in DOMAIN entries \ {Genesis} :
        entries[b].skip = AncestorOf(Prev(b), SkipHeight(HeightOf(b)))

Tree == fork \in Forks /\ Closed /\ SkipsRight

LEMMA InTree ==
    ASSUME Tree, NEW b \in DOMAIN entries
    PROVE  /\ b \in Headers /\ fork \in Forks
           /\ HeightOf(b) \in Nat /\ HeightOf(b) \in Heights
           /\ Genesis \in DOMAIN entries
           /\ \A h \in 0 .. HeightOf(b) : AncestorOf(b, h) \in DOMAIN entries
           /\ b # Genesis => Prev(b) \in DOMAIN entries /\ HeightOf(b) > 0
<1>1. /\ b \in Headers /\ fork \in Forks
      /\ \A h \in 0 .. HeightOf(b) : AncestorOf(b, h) \in DOMAIN entries
    BY DEF Tree, Closed
<1>2. HeightOf(b) \in Heights /\ AncestorOf(b, 0) = Genesis
    BY <1>1, Shape
<1>3. HeightOf(b) \in Nat
    BY <1>2, Parameters DEF Heights
<1>4. ASSUME b # Genesis PROVE Prev(b) \in DOMAIN entries /\ HeightOf(b) > 0
    <2>1. HeightOf(b) \in 1 .. MaxHeight /\ Prev(b) = AncestorOf(b, HeightOf(b) - 1)
        BY <1>1, <1>4, ShapeOfPrev
    <2>2. HeightOf(b) - 1 \in 0 .. HeightOf(b) /\ HeightOf(b) > 0
        BY <2>1, Parameters
    <2> QED
        BY <1>1, <2>1, <2>2
<1> QED
    BY <1>1, <1>2, <1>3, <1>4

\* One turn of get_ancestor goes down, but not below the height, and stays among the
\* ancestors.
LEMMA DownFacts ==
    ASSUME Tree, NEW b \in DOMAIN entries, NEW height \in Nat, HeightOf(b) > height
    PROVE  /\ Down(b, height) \in DOMAIN entries
           /\ HeightOf(Down(b, height)) < HeightOf(b)
           /\ height <= HeightOf(Down(b, height))
           /\ AncestorOf(Down(b, height), height) = AncestorOf(b, height)
<1>1. /\ b \in Headers /\ fork \in Forks /\ HeightOf(b) \in Nat
      /\ \A h \in 0 .. HeightOf(b) : AncestorOf(b, h) \in DOMAIN entries
    BY InTree
<1>2. b # Genesis
    BY <1>1, Shape
<1>3. /\ Prev(b) \in Headers /\ HeightOf(Prev(b)) = HeightOf(b) - 1
      /\ \A h \in 0 .. HeightOf(b) - 1 : AncestorOf(Prev(b), h) = AncestorOf(b, h)
    BY <1>1, <1>2, PrevFacts
<1>4. Prev(b) \in DOMAIN entries
    BY <1>2, InTree
<1>5. CASE Down(b, height) = Prev(b)
    <2>1. height \in 0 .. HeightOf(b) - 1
        BY <1>1
    <2> QED
        BY <1>1, <1>3, <1>4, <1>5, <2>1
<1>6. CASE Down(b, height) # Prev(b)
    <2> DEFINE s == SkipHeight(HeightOf(b))
    <2>1. Follows(height, s, SkipHeight(HeightOf(b) + 1)) /\ Down(b, height) = entries[b].skip
        BY <1>6 DEF Down
    <2>2. s \in 0 .. HeightOf(b) - 1
        BY <1>1, SkipHeightBelow
    <2> HIDE DEF s
    <2>3. height <= s
        BY <2>1, <2>2 DEF Follows
    <2>4. Down(b, height) = AncestorOf(Prev(b), s)
        BY <1>2, <2>1 DEF s, Tree, SkipsRight
    <2>5. Down(b, height) = AncestorOf(b, s)
        BY <1>3, <2>2, <2>4
    <2>6. s \in 0 .. HeightOf(b) /\ height \in 0 .. s /\ s < HeightOf(b)
        BY <1>1, <2>2, <2>3
    <2>7. HeightOf(AncestorOf(b, s)) = s
        BY <1>1, <2>6, Shape
    <2>8. AncestorOf(AncestorOf(b, s), height) = AncestorOf(b, height)
        BY <1>1, <2>6, Shape
    <2> QED
        BY <1>1, <2>3, <2>5, <2>6, <2>7, <2>8
<1> QED
    BY <1>5, <1>6

\* The walk of get_ancestor ends at the ancestor.
LEMMA WalkEnds ==
    ASSUME Tree, NEW b \in DOMAIN entries, NEW height \in 0 .. HeightOf(b)
    PROVE  (CHOOSE f : f = [x \in DOMAIN entries |->
                IF HeightOf(x) <= height THEN x ELSE f[Down(x, height)]])[b]
           = AncestorOf(b, height)
<1> DEFINE D == DOMAIN entries
           m == [x \in D |-> HeightOf(x)]
           B == {x \in D : HeightOf(x) <= height}
           next == [x \in D |-> IF x \in B THEN x ELSE Down(x, height)]
           walk == CHOOSE f : f = [x \in D |->
                      IF HeightOf(x) <= height THEN x ELSE f[Down(x, height)]]
<1>1. height \in Nat /\ height <= HeightOf(b)
    BY InTree
<1>2. \A x \in D : HeightOf(x) \in Nat /\ HeightOf(x) \in 0 .. MaxHeight
    BY InTree DEF Heights
<1>3. ASSUME NEW x \in D \ B
      PROVE  /\ Down(x, height) \in D /\ HeightOf(Down(x, height)) < HeightOf(x)
             /\ height <= HeightOf(Down(x, height))
             /\ AncestorOf(Down(x, height), height) = AncestorOf(x, height)
    <2>1. HeightOf(x) > height
        BY <1>1, <1>2
    <2> QED
        BY <1>1, <2>1, DownFacts
<1>4. Descends(D, MaxHeight, m, next, B)
    <2>1. m \in [D -> 0 .. MaxHeight] /\ next \in [D -> D] /\ B \in SUBSET D
        BY <1>2, <1>3
    <2>2. \A x \in D \ B : m[next[x]] < m[x]
        BY <1>3
    <2>3. MaxHeight \in Nat
        BY Parameters
    <2> QED
        BY <2>1, <2>2, <2>3 DEF Descends
<1>5. PICK g \in [D -> D] : \A x \in D : g[x] = IF x \in B THEN x ELSE g[next[x]]
    <2> HIDE DEF D, m, next, B
    <2> QED
        BY <1>4, Walk
<1>6. g = [x \in D |-> IF HeightOf(x) <= height THEN x ELSE g[Down(x, height)]]
    <2>1. \A x \in D : g[x] = IF HeightOf(x) <= height THEN x ELSE g[Down(x, height)]
        BY <1>5
    <2> QED
        BY <2>1
<1>7. walk = [x \in D |-> IF HeightOf(x) <= height THEN x ELSE walk[Down(x, height)]]
    BY <1>6
<1> HIDE DEF walk
<1>8. \A x \in D : walk[x] = IF HeightOf(x) <= height THEN x ELSE walk[Down(x, height)]
    BY <1>7
<1> DEFINE Wrong == {x \in D : HeightOf(x) >= height /\ walk[x] # AncestorOf(x, height)}
           Where == {HeightOf(x) : x \in Wrong}
<1>9. Wrong = {}
    <2> SUFFICES ASSUME Wrong # {} PROVE FALSE
        OBVIOUS
    <2>1. Where \in SUBSET Nat /\ Where # {}
        BY <1>2
    <2>2. PICK n \in Where : \A k \in Where : n <= k
        BY <2>1, Least
    <2>3. PICK x \in Wrong : n = HeightOf(x)
        BY <2>2
    <2>4. CASE HeightOf(x) <= height
        <3>1. HeightOf(x) = height /\ walk[x] = x
            BY <1>1, <1>2, <1>8, <2>3, <2>4
        <3>2. x \in Headers /\ fork \in Forks
            BY <2>3, InTree
        <3>3. AncestorOf(x, HeightOf(x)) = x
            BY <3>2, Shape
        <3> QED
            BY <2>3, <3>1, <3>3
    <2>5. CASE ~(HeightOf(x) <= height)
        <3>1. /\ Down(x, height) \in D /\ HeightOf(Down(x, height)) < HeightOf(x)
              /\ height <= HeightOf(Down(x, height))
              /\ AncestorOf(Down(x, height), height) = AncestorOf(x, height)
            BY <1>3, <2>3, <2>5
        <3>2. Down(x, height) \notin Wrong
            BY <1>2, <2>2, <2>3, <3>1
        <3>3. walk[Down(x, height)] = AncestorOf(Down(x, height), height)
            BY <1>1, <1>2, <3>1, <3>2
        <3> QED
            BY <1>8, <2>3, <2>5, <3>1, <3>3
    <2> QED
        BY <2>4, <2>5
<1>10. walk[b] = AncestorOf(b, height)
    BY <1>1, <1>2, <1>9
<1> QED
    BY <1>10 DEF walk

LEMMA MainIs ==
    ASSUME Tree, NEW main \in DOMAIN entries, NEW b \in DOMAIN entries, IsMain(main, b),
           NEW height \in 0 .. HeightOf(b)
    PROVE  height \in 0 .. HeightOf(main) /\ AncestorOf(main, height) = AncestorOf(b, height)
<1>1. HeightOf(b) <= HeightOf(main) /\ AncestorOf(main, HeightOf(b)) = b
    BY DEF IsMain
<1>2. main \in Headers /\ fork \in Forks /\ HeightOf(b) \in Nat /\ HeightOf(main) \in Nat
    BY InTree
<1>3. HeightOf(b) \in 0 .. HeightOf(main) /\ height \in 0 .. HeightOf(main)
    BY <1>1, <1>2
<1>4. AncestorOf(AncestorOf(main, HeightOf(b)), height) = AncestorOf(main, height)
    BY <1>2, <1>3, Shape
<1> QED
    BY <1>1, <1>3, <1>4

\* Following skip pointers leads to the ancestor, wherever the main chain ends.
LEMMA GetAncestorIs ==
    ASSUME Tree, NEW main \in DOMAIN entries, NEW b \in DOMAIN entries,
           NEW height \in 0 .. HeightOf(b)
    PROVE  GetAncestor(main, b, height) = AncestorOf(b, height)
<1>1. CASE IsMain(main, b)
    <2>1. GetAncestor(main, b, height) = AncestorOf(main, height)
        BY <1>1 DEF GetAncestor, Known
    <2> QED
        BY <1>1, <2>1, MainIs
<1>2. CASE ~IsMain(main, b)
    BY <1>2, WalkEnds DEF GetAncestor
<1> QED
    BY <1>1, <1>2

\* Where parents lead, of headers and beyond genesis.
Points == {"a", "b"} \X Int

LEMMA PrevOfPoint == ASSUME fork \in Forks, NEW p \in Points PROVE Prev(p) \in Points
<1>1. fork \in Int
    BY Parameters
<1> QED
    BY <1>1 DEF Points, Prev

LEMMA HeadersArePoints == ASSUME fork \in Forks, NEW b \in Headers PROVE b \in Points
<1>1. fork \in Nat
    BY Parameters
<1> QED
    BY <1>1, Parameters DEF Headers, Points

\* Parents lead from an ancestor to the next.
LEMMA PrevOfAncestor ==
    ASSUME fork \in Forks, NEW b \in Headers, NEW h \in 1 .. HeightOf(b)
    PROVE  Prev(AncestorOf(b, h)) = AncestorOf(b, h - 1)
<1> DEFINE a == AncestorOf(b, h)
<1>0. HeightOf(b) \in Nat
    BY Shape, Parameters DEF Heights
<1>1. h \in 0 .. HeightOf(b) /\ h - 1 \in 0 .. h /\ h # 0
    BY <1>0
<1>2. /\ a \in Headers /\ HeightOf(a) = h
      /\ AncestorOf(a, h - 1) = AncestorOf(b, h - 1)
    BY <1>1, Shape
<1>3. a # Genesis
    BY <1>1, <1>2, Shape
<1>4. Prev(a) = AncestorOf(a, HeightOf(a) - 1)
    BY <1>2, <1>3, ShapeOfPrev
<1> QED
    BY <1>2, <1>4

\* The path back from an ancestor over n parents.
LEMMA BackIs ==
    ASSUME Tree, NEW b \in DOMAIN entries, NEW t \in 0 .. HeightOf(b), NEW n \in 0 .. t,
           NEW top, top = AncestorOf(b, t), NEW j \in 0 .. n
    PROVE  (CHOOSE f : f = [i \in 0 .. n |-> IF i = 0 THEN top ELSE Prev(f[i - 1])])[j]
           = AncestorOf(b, t - j)
<1> DEFINE D == 0 .. n
           m == [i \in D |-> i]
           B == {0}
           next == [i \in D |-> IF i = 0 THEN 0 ELSE i - 1]
           base == [i \in D |-> top]
           step == [p \in D \X Points |-> Prev(p[2])]
           back == CHOOSE f : f = [i \in D |-> IF i = 0 THEN top ELSE Prev(f[i - 1])]
<1>1. b \in Headers /\ fork \in Forks /\ HeightOf(b) \in Nat
    BY InTree
<1>2. n \in Nat /\ t \in Nat /\ n <= t /\ t <= HeightOf(b)
    BY <1>1
<1>3. top \in Points
    <2>1. top \in Headers
        BY <1>1, Shape
    <2> QED
        BY <1>1, <2>1, HeadersArePoints
<1>4. Descends(D, n, m, next, B)
    <2>1. m \in [D -> 0 .. n] /\ next \in [D -> D] /\ B \in SUBSET D
        BY <1>2
    <2>2. \A i \in D \ B : m[next[i]] < m[i]
        BY <1>2
    <2> QED
        BY <1>2, <2>1, <2>2 DEF Descends
<1>5. Computes(D, Points, base, step)
    <2>1. \A i \in D, p \in Points : Prev(p) \in Points
        BY <1>1, PrevOfPoint
    <2>2. step \in [D \X Points -> Points]
        BY <2>1
    <2>3. base \in [D -> Points]
        BY <1>3
    <2> QED
        BY <2>2, <2>3 DEF Computes
<1>6. PICK g \in [D -> Points] :
        \A i \in D : g[i] = IF i \in B THEN base[i] ELSE step[<<i, g[next[i]]>>]
    <2> HIDE DEF D, m, next, B, base, step
    <2> QED
        BY <1>4, <1>5, Recursion
<1>7. ASSUME NEW i \in D PROVE g[i] = IF i = 0 THEN top ELSE Prev(g[i - 1])
    <2>1. CASE i = 0
        BY <1>6, <2>1
    <2>2. CASE i # 0
        <3>1. i - 1 \in D /\ next[i] = i - 1 /\ i \notin B
            BY <1>2, <2>2
        <3>2. g[i - 1] \in Points
            BY <3>1
        <3>3. step[<<i, g[i - 1]>>] = Prev(g[i - 1])
            BY <3>2
        <3> QED
            BY <1>6, <2>2, <3>1, <3>3
    <2> QED
        BY <2>1, <2>2
<1>8. g = [i \in D |-> IF i = 0 THEN top ELSE Prev(g[i - 1])]
    BY <1>7
<1>9. back = [i \in D |-> IF i = 0 THEN top ELSE Prev(back[i - 1])]
    BY <1>8
<1> HIDE DEF back
<1>10. \A i \in D : back[i] = IF i = 0 THEN top ELSE Prev(back[i - 1])
    BY <1>9
<1> DEFINE Wrong == {i \in D : back[i] # AncestorOf(b, t - i)}
<1>11. Wrong = {}
    <2> SUFFICES ASSUME Wrong # {} PROVE FALSE
        OBVIOUS
    <2>1. Wrong \in SUBSET Nat
        BY <1>2
    <2>2. PICK i \in Wrong : \A k \in Wrong : i <= k
        BY <2>1, Least
    <2>3. i # 0
        BY <1>2, <1>10, <2>2
    <2>4. i - 1 \in D /\ i - 1 \notin Wrong /\ i \in D
        BY <1>2, <2>1, <2>2, <2>3
    <2>5. back[i] = Prev(AncestorOf(b, t - (i - 1)))
        BY <1>10, <2>3, <2>4
    <2>6. t - (i - 1) \in 1 .. HeightOf(b) /\ t - (i - 1) - 1 = t - i
        BY <1>1, <1>2, <2>3, <2>4
    <2>7. Prev(AncestorOf(b, t - (i - 1))) = AncestorOf(b, t - (i - 1) - 1)
        BY <1>1, <2>6, PrevOfAncestor
    <2> QED
        BY <2>2, <2>5, <2>6, <2>7
<1>12. back[j] = AncestorOf(b, t - j)
    BY <1>11
<1> QED
    BY <1>12 DEF back

LEMMA NextPathIs ==
    ASSUME Tree, NEW main \in DOMAIN entries, NEW b \in DOMAIN entries,
           NEW height \in 0 .. HeightOf(b), NEW limit \in Nat
    PROVE  NextPath(main, b, height, limit) =
              [i \in 1 .. IF HeightOf(b) - height < limit THEN HeightOf(b) - height ELSE limit |->
                  AncestorOf(b, height + i)]
<1>1. b \in Headers /\ fork \in Forks /\ HeightOf(b) \in Nat /\ height \in Nat /\ height <= HeightOf(b)
    BY InTree
<1>2. PICK t \in 0 .. HeightOf(b) :
        t = IF height + limit < HeightOf(b) THEN height + limit ELSE HeightOf(b)
    BY <1>1
<1> DEFINE top == IF height + limit < HeightOf(b) THEN GetAncestor(main, b, height + limit) ELSE b
           n == IF HeightOf(top) > height THEN HeightOf(top) - height ELSE 0
           back == CHOOSE f : f = [i \in 0 .. n |-> IF i = 0 THEN top ELSE Prev(f[i - 1])]
<1>3. top = AncestorOf(b, t)
    <2>1. CASE height + limit < HeightOf(b)
        <3>1. height + limit \in 0 .. HeightOf(b)
            BY <1>1, <2>1
        <3> QED
            BY <1>2, <2>1, <3>1, GetAncestorIs
    <2>2. CASE ~(height + limit < HeightOf(b))
        BY <1>1, <1>2, <2>2, Shape
    <2> QED
        BY <2>1, <2>2
<1>4. HeightOf(top) = t
    BY <1>1, <1>3, Shape
<1> HIDE DEF top
<1>5. n = t - height /\ n \in 0 .. t
      /\ n = IF HeightOf(b) - height < limit THEN HeightOf(b) - height ELSE limit
    BY <1>1, <1>2, <1>4
<1> HIDE DEF n
<1>6. \A j \in 0 .. n : back[j] = AncestorOf(b, t - j)
    BY <1>3, <1>5, BackIs
<1> HIDE DEF back
<1>7. \A i \in 1 .. n : back[n - i] = AncestorOf(b, height + i)
    <2> TAKE i \in 1 .. n
    <2>1. n - i \in 0 .. n /\ t - (n - i) = height + i
        BY <1>1, <1>2, <1>5
    <2> QED
        BY <1>6, <2>1
<1>8. NextPath(main, b, height, limit) =
        IF limit = 0 THEN <<>> ELSE [i \in 1 .. n |-> back[n - i]]
    BY DEF NextPath, top, n, back
<1>9. CASE limit = 0
    <2>1. 1 .. n = {}
        BY <1>1, <1>5, <1>9
    <2>2. <<>> = [i \in 1 .. n |-> AncestorOf(b, height + i)]
        BY <2>1
    <2> QED
        BY <1>5, <1>8, <1>9, <2>2
<1>10. CASE limit # 0
    <2>1. [i \in 1 .. n |-> back[n - i]] = [i \in 1 .. n |-> AncestorOf(b, height + i)]
        BY <1>7
    <2> QED
        BY <1>5, <1>8, <1>10, <2>1
<1> QED
    BY <1>9, <1>10

\* Two headers part where their ancestors differ for the first time.
PartAt(b, c, k, low) ==
    /\ AncestorOf(b, k) = AncestorOf(c, k)
    /\ \A h \in k + 1 .. low : AncestorOf(b, h) # AncestorOf(c, h)

\* The pairs of common_ancestor, from the lower of two heights on.
MeetFrom(low, x, y) ==
    CHOOSE f : f = [i \in 0 .. low |->
        IF i = low THEN <<x, y>>
        ELSE IF f[i + 1][1] = f[i + 1][2] THEN f[i + 1]
        ELSE <<Prev(f[i + 1][1]), Prev(f[i + 1][2])>>]

\* Going back side by side until the two meet.
LEMMA MeetIs ==
    ASSUME Tree, NEW b \in DOMAIN entries, NEW c \in DOMAIN entries,
           NEW low \in 0 .. HeightOf(b), low <= HeightOf(c)
    PROVE  \E k \in 0 .. low :
              /\ PartAt(b, c, k, low)
              /\ MeetFrom(low, AncestorOf(b, low), AncestorOf(c, low))[0][1] = AncestorOf(b, k)
<1>0. PICK x, y : x = AncestorOf(b, low) /\ y = AncestorOf(c, low)
    OBVIOUS
<1> DEFINE D == 0 .. low
           V == Points \X Points
           Back(p) == IF p[1] = p[2] THEN p ELSE <<Prev(p[1]), Prev(p[2])>>
           m == [i \in D |-> low - i]
           B == {low}
           next == [i \in D |-> IF i = low THEN low ELSE i + 1]
           base == [i \in D |-> <<x, y>>]
           step == [p \in D \X V |-> Back(p[2])]
           meet == MeetFrom(low, x, y)
<1>1. /\ b \in Headers /\ c \in Headers /\ fork \in Forks
      /\ HeightOf(b) \in Nat /\ HeightOf(c) \in Nat /\ low \in Nat
      /\ low <= HeightOf(b) /\ low \in 0 .. HeightOf(c)
    BY InTree
<1>2. x \in Points /\ y \in Points
    <2>1. x \in Headers /\ y \in Headers
        BY <1>0, <1>1, Shape
    <2> QED
        BY <1>1, <2>1, HeadersArePoints
<1>3. Descends(D, low, m, next, B)
    <2>1. m \in [D -> 0 .. low] /\ next \in [D -> D] /\ B \in SUBSET D
        BY <1>1
    <2>2. \A i \in D \ B : m[next[i]] < m[i]
        BY <1>1
    <2> QED
        BY <1>1, <2>1, <2>2 DEF Descends
<1>4. Computes(D, V, base, step)
    <2>1. ASSUME NEW p \in V PROVE Back(p) \in V
        <3>1. p[1] \in Points /\ p[2] \in Points
            OBVIOUS
        <3>2. Prev(p[1]) \in Points /\ Prev(p[2]) \in Points
            BY <1>1, <3>1, PrevOfPoint
        <3> QED
            BY <3>2
    <2> HIDE DEF Back
    <2>2. step \in [D \X V -> V]
        BY <2>1
    <2>3. base \in [D -> V]
        BY <1>2
    <2> QED
        BY <2>2, <2>3 DEF Computes
<1>5. PICK g \in [D -> V] :
        \A i \in D : g[i] = IF i \in B THEN base[i] ELSE step[<<i, g[next[i]]>>]
    <2> HIDE DEF D, V, m, next, B, base, step
    <2> QED
        BY <1>3, <1>4, Recursion
<1>6. ASSUME NEW i \in D
      PROVE  g[i] = IF i = low THEN <<x, y>>
                    ELSE IF g[i + 1][1] = g[i + 1][2] THEN g[i + 1]
                    ELSE <<Prev(g[i + 1][1]), Prev(g[i + 1][2])>>
    <2>1. CASE i = low
        BY <1>5, <2>1
    <2>2. CASE i # low
        <3>1. i + 1 \in D /\ next[i] = i + 1 /\ i \notin B
            BY <1>1, <2>2
        <3>2. g[i + 1] \in V
            BY <3>1
        <3>3. step[<<i, g[i + 1]>>] = Back(g[i + 1])
            BY <3>2
        <3>4. g[i] = Back(g[i + 1])
            BY <1>5, <3>1, <3>3
        <3> QED
            BY <2>2, <3>4
    <2> QED
        BY <2>1, <2>2
<1>7. g = [i \in D |-> IF i = low THEN <<x, y>>
                       ELSE IF g[i + 1][1] = g[i + 1][2] THEN g[i + 1]
                       ELSE <<Prev(g[i + 1][1]), Prev(g[i + 1][2])>>]
    BY <1>6
<1>8. meet = [i \in D |-> IF i = low THEN <<x, y>>
                          ELSE IF meet[i + 1][1] = meet[i + 1][2] THEN meet[i + 1]
                          ELSE <<Prev(meet[i + 1][1]), Prev(meet[i + 1][2])>>]
    BY <1>7 DEF MeetFrom
<1> HIDE DEF meet
<1>9. \A i \in D : meet[i] = IF i = low THEN <<x, y>>
                             ELSE IF meet[i + 1][1] = meet[i + 1][2] THEN meet[i + 1]
                             ELSE <<Prev(meet[i + 1][1]), Prev(meet[i + 1][2])>>
    BY <1>8
<1> DEFINE P(i) == \E k \in i .. low :
                /\ meet[i] = <<AncestorOf(b, k), AncestorOf(c, k)>>
                /\ k > i => AncestorOf(b, k) = AncestorOf(c, k)
                /\ \A h \in k + 1 .. low : AncestorOf(b, h) # AncestorOf(c, h)
           Missing == {d \in D : ~P(low - d)}
<1>10. P(low)
    <2>1. meet[low] = <<AncestorOf(b, low), AncestorOf(c, low)>>
        <3>1. low \in D
            BY <1>1
        <3>2. meet[low] = <<x, y>>
            BY <1>9, <3>1
        <3> QED
            BY <1>0, <3>2
    <2>2. low \in low .. low /\ ~(low > low) /\ low + 1 .. low = {}
        BY <1>1
    <2> QED
        BY <2>1, <2>2
<1>11. ASSUME NEW i \in D, i # low, P(i + 1) PROVE P(i)
    <2>1. PICK k \in i + 1 .. low :
            /\ meet[i + 1] = <<AncestorOf(b, k), AncestorOf(c, k)>>
            /\ k > i + 1 => AncestorOf(b, k) = AncestorOf(c, k)
            /\ \A h \in k + 1 .. low : AncestorOf(b, h) # AncestorOf(c, h)
        BY <1>11
    <2>2. meet[i + 1][1] = AncestorOf(b, k) /\ meet[i + 1][2] = AncestorOf(c, k)
        BY <2>1
    <2>3. k \in i .. low /\ k > i /\ k \in Nat
        BY <1>1
    <2>4. CASE AncestorOf(b, k) = AncestorOf(c, k)
        <3>1. meet[i] = meet[i + 1]
            BY <1>9, <1>11, <2>2, <2>4
        <3> QED
            BY <2>1, <2>3, <2>4, <3>1
    <2>5. CASE AncestorOf(b, k) # AncestorOf(c, k)
        <3>1. k = i + 1
            BY <1>1, <2>1, <2>5
        <3>2. meet[i] = <<Prev(AncestorOf(b, k)), Prev(AncestorOf(c, k))>>
            BY <1>9, <1>11, <2>2, <2>5
        <3>3. k \in 1 .. HeightOf(b) /\ k \in 1 .. HeightOf(c) /\ k - 1 = i
            BY <1>1, <2>3, <3>1
        <3>4. Prev(AncestorOf(b, k)) = AncestorOf(b, i) /\ Prev(AncestorOf(c, k)) = AncestorOf(c, i)
            BY <1>1, <3>3, PrevOfAncestor
        <3>5. \A h \in i + 1 .. low : AncestorOf(b, h) # AncestorOf(c, h)
            BY <1>1, <2>1, <2>5, <3>1
        <3>6. i \in i .. low /\ ~(i > i)
            BY <1>1
        <3> QED
            BY <3>2, <3>4, <3>5, <3>6
    <2> QED
        BY <2>4, <2>5
<1> HIDE DEF P
<1>12. Missing = {}
    <2> SUFFICES ASSUME Missing # {} PROVE FALSE
        OBVIOUS
    <2>1. Missing \in SUBSET Nat
        BY <1>1
    <2>2. PICK d \in Missing : \A k \in Missing : d <= k
        BY <2>1, Least
    <2>3. d \in Nat /\ d <= low /\ ~P(low - d)
        BY <1>1, <2>2
    <2>4. d # 0
        BY <1>1, <1>10, <2>3
    <2>5. d - 1 \in D /\ d - 1 < d
        BY <1>1, <2>3, <2>4
    <2> HIDE DEF Missing
    <2>7. d - 1 \notin Missing
        BY <2>1, <2>2, <2>3, <2>5
    <2>8. P(low - (d - 1))
        BY <2>5, <2>7 DEF Missing
    <2>9. low - (d - 1) = (low - d) + 1 /\ low - d \in D /\ low - d # low
        BY <1>1, <2>3, <2>4
    <2> QED
        BY <1>11, <2>3, <2>8, <2>9
<1>13. P(0)
    <2>1. low \in D /\ low - low = 0
        BY <1>1
    <2> QED
        BY <1>12, <2>1
<1>14. PICK k \in 0 .. low :
        /\ meet[0] = <<AncestorOf(b, k), AncestorOf(c, k)>>
        /\ k > 0 => AncestorOf(b, k) = AncestorOf(c, k)
        /\ \A h \in k + 1 .. low : AncestorOf(b, h) # AncestorOf(c, h)
    BY <1>13 DEF P
<1>15. AncestorOf(b, k) = AncestorOf(c, k)
    <2>1. k = 0 => AncestorOf(b, k) = Genesis /\ AncestorOf(c, k) = Genesis
        BY <1>1, Shape
    <2> QED
        BY <1>1, <1>14, <2>1
<1>16. meet[0][1] = AncestorOf(b, k) /\ PartAt(b, c, k, low)
    BY <1>14, <1>15 DEF PartAt
<1> QED
    BY <1>0, <1>16 DEF meet

LEMMA CommonAncestorIs ==
    ASSUME Tree, NEW main \in DOMAIN entries, NEW b \in DOMAIN entries, NEW c \in DOMAIN entries
    PROVE  \E k \in 0 .. HeightOf(b) :
              /\ k <= HeightOf(c)
              /\ CommonAncestor(main, b, c) = AncestorOf(b, k)
              /\ AncestorOf(b, k) = AncestorOf(c, k)
              /\ \A h \in k + 1 .. HeightOf(b) :
                    h <= HeightOf(c) => AncestorOf(b, h) # AncestorOf(c, h)
<1>1. HeightOf(b) \in Nat /\ HeightOf(c) \in Nat
    BY InTree
<1>2. PICK low \in 0 .. HeightOf(b) :
        low = IF HeightOf(b) < HeightOf(c) THEN HeightOf(b) ELSE HeightOf(c)
    BY <1>1
<1>3. low \in Nat /\ low <= HeightOf(c) /\ low \in 0 .. HeightOf(c)
    BY <1>1, <1>2
<1>4. /\ GetAncestor(main, b, low) = AncestorOf(b, low)
      /\ GetAncestor(main, c, low) = AncestorOf(c, low)
    BY <1>3, GetAncestorIs
<1>5. CommonAncestor(main, b, c) =
        MeetFrom(low, GetAncestor(main, b, low), GetAncestor(main, c, low))[0][1]
    BY <1>2 DEF CommonAncestor, MeetFrom
<1>6. PICK k \in 0 .. low :
        /\ PartAt(b, c, k, low)
        /\ MeetFrom(low, AncestorOf(b, low), AncestorOf(c, low))[0][1] = AncestorOf(b, k)
    BY <1>3, MeetIs
<1>7. CommonAncestor(main, b, c) = AncestorOf(b, k)
    BY <1>4, <1>5, <1>6
<1>8. k \in 0 .. HeightOf(b) /\ k <= HeightOf(c)
    BY <1>1, <1>3
<1>9. \A h \in k + 1 .. HeightOf(b) : h <= HeightOf(c) => h \in k + 1 .. low
    BY <1>1, <1>2
<1> QED
    BY <1>6, <1>7, <1>8, <1>9 DEF PartAt

LEMMA TreeAgrees == ASSUME Tree PROVE AncestorsRight
<1>1. ASSUME NEW main \in DOMAIN entries, NEW b \in DOMAIN entries, NEW height \in 0 .. HeightOf(b)
      PROVE  /\ GetAncestor(main, b, height) = AncestorOf(b, height)
             /\ \A limit \in 0 .. 2 :
                  NextPath(main, b, height, limit) =
                    [i \in 1 .. IF HeightOf(b) - height < limit THEN HeightOf(b) - height ELSE limit |->
                        AncestorOf(b, height + i)]
    BY GetAncestorIs, NextPathIs
<1>2. ASSUME NEW main \in DOMAIN entries, NEW b \in DOMAIN entries, NEW c \in DOMAIN entries
      PROVE  LET both == CommonAncestor(main, b, c) IN
             /\ AncestorOf(b, HeightOf(both)) = both /\ AncestorOf(c, HeightOf(both)) = both
             /\ \A h \in HeightOf(both) + 1 .. HeightOf(b) :
                  h <= HeightOf(c) => AncestorOf(b, h) # AncestorOf(c, h)
    <2>1. PICK k \in 0 .. HeightOf(b) :
              /\ k <= HeightOf(c)
              /\ CommonAncestor(main, b, c) = AncestorOf(b, k)
              /\ AncestorOf(b, k) = AncestorOf(c, k)
              /\ \A h \in k + 1 .. HeightOf(b) :
                    h <= HeightOf(c) => AncestorOf(b, h) # AncestorOf(c, h)
        BY CommonAncestorIs
    <2>2. HeightOf(AncestorOf(b, k)) = k
        <3>1. b \in Headers /\ fork \in Forks
            BY InTree
        <3> QED
            BY <3>1, Shape
    <2> QED
        BY <2>1, <2>2
<1> QED
    BY <1>1, <1>2 DEF AncestorsRight, Leaves

------------------------------------------------------------------------------
(* Locators.                                                               *)

\* What get_locator keeps: an ancestor of the start, on the main chain once it says so, and
\* a step that goes no further down than the start is up.
Kept(main, start) ==
    {p \in [hash : DOMAIN entries, height : 0 .. HeightOf(start), step : Nat, best : BOOLEAN] :
        /\ p.hash = AncestorOf(start, p.height)
        /\ p.best => IsMain(main, p.hash)
        /\ p.step >= 1
        /\ p.height = 0 \/ p.step <= HeightOf(start) - p.height + 1}

\* One turn of its loop.
Turn(main, start, n, p) ==
    LET height == IF p.height > p.step THEN p.height - p.step ELSE 0
        hash   == IF p.best THEN Known(main, height) ELSE GetAncestor(main, start, height)
    IN IF p.height = 0 THEN p
       ELSE [hash |-> hash, height |-> height,
             step |-> IF n > Dense THEN 2 * p.step ELSE p.step,
             best |-> p.best \/ IsMain(main, hash)]

LEMMA TurnKeeps ==
    ASSUME Tree, NEW main \in DOMAIN entries, NEW start \in DOMAIN entries, NEW n \in Nat,
           NEW p \in Kept(main, start)
    PROVE  Turn(main, start, n, p) \in Kept(main, start)
<1>1. /\ p.height \in 0 .. HeightOf(start) /\ p.step \in Nat /\ p.best \in BOOLEAN
      /\ p.hash = AncestorOf(start, p.height) /\ (p.best => IsMain(main, p.hash))
      /\ p.step >= 1 /\ (p.height = 0 \/ p.step <= HeightOf(start) - p.height + 1)
    BY DEF Kept
<1>2. /\ start \in Headers /\ main \in Headers /\ fork \in Forks
      /\ HeightOf(start) \in Nat /\ HeightOf(main) \in Nat
      /\ \A h \in 0 .. HeightOf(start) : AncestorOf(start, h) \in DOMAIN entries
    BY InTree
<1>3. CASE p.height = 0
    BY <1>3 DEF Turn
<1>4. CASE p.height # 0
    <2>1. PICK height \in 0 .. p.height - 1 :
            height = IF p.height > p.step THEN p.height - p.step ELSE 0
        BY <1>1, <1>2, <1>4
    <2>2. PICK hash : hash = IF p.best THEN Known(main, height) ELSE GetAncestor(main, start, height)
        OBVIOUS
    <2>3. PICK step \in Nat : step = IF n > Dense THEN 2 * p.step ELSE p.step
        BY <1>1
    <2>4. Turn(main, start, n, p) =
            [hash |-> hash, height |-> height, step |-> step, best |-> p.best \/ IsMain(main, hash)]
        BY <1>4, <2>1, <2>2, <2>3 DEF Turn
    <2>5. height \in 0 .. HeightOf(start) /\ height \in 0 .. p.height /\ height \in Nat
        BY <1>1, <1>2, <1>4, <2>1
    <2>6. hash = AncestorOf(start, height) /\ (p.best => IsMain(main, hash))
        <3>1. CASE p.best
            <4>1. p.hash \in DOMAIN entries /\ HeightOf(p.hash) = p.height
                BY <1>1, <1>2, Shape
            <4>2. height \in 0 .. HeightOf(main) /\ AncestorOf(main, height) = AncestorOf(p.hash, height)
                BY <1>1, <2>5, <3>1, <4>1, MainIs
            <4>3. AncestorOf(p.hash, height) = AncestorOf(start, height)
                BY <1>1, <1>2, <2>5, Shape
            <4>4. hash = AncestorOf(main, height)
                BY <2>2, <3>1 DEF Known
            <4>5. HeightOf(hash) = height
                BY <1>2, <4>2, <4>4, Shape
            <4>6. IsMain(main, hash)
                BY <1>2, <4>2, <4>4, <4>5 DEF IsMain
            <4> QED
                BY <4>2, <4>3, <4>4, <4>6
        <3>2. CASE ~p.best
            BY <2>2, <2>5, <3>2, GetAncestorIs
        <3> QED
            BY <1>1, <3>1, <3>2
    <2>7. hash \in DOMAIN entries
        BY <1>2, <2>5, <2>6
    <2>8. step >= 1 /\ (height = 0 \/ step <= HeightOf(start) - height + 1)
        BY <1>1, <1>2, <1>4, <2>1, <2>3
    <2>9. (p.best \/ IsMain(main, hash)) \in BOOLEAN /\ (p.best \/ IsMain(main, hash) => IsMain(main, hash))
        BY <1>1, <2>6 DEF IsMain
    <2>10. PICK best \in BOOLEAN : best = (p.best \/ IsMain(main, hash))
        BY <2>9
    <2> QED
        BY <2>4, <2>5, <2>6, <2>7, <2>8, <2>9, <2>10 DEF Kept
<1> QED
    BY <1>3, <1>4

\* The hashes of get_locator, turn by turn.
LEMMA LocatedIs ==
    ASSUME Tree, NEW main \in DOMAIN entries, NEW start \in DOMAIN entries
    PROVE  /\ Located(main, start) \in [Heights -> Kept(main, start)]
           /\ Located(main, start)[0].height = HeightOf(start)
           /\ \A n \in 1 .. MaxHeight :
                Located(main, start)[n] = Turn(main, start, n, Located(main, start)[n - 1])
<1> DEFINE D == Heights
           V == Kept(main, start)
           m == [n \in D |-> n]
           B == {0}
           first == [hash |-> start, height |-> HeightOf(start), step |-> 1,
                     best |-> InBest(main, start)]
           next == [n \in D |-> IF n = 0 THEN 0 ELSE n - 1]
           base == [n \in D |-> first]
           step == [q \in D \X V |-> Turn(main, start, q[1], q[2])]
           at == Located(main, start)
<1>1. MaxHeight \in Nat
    BY Parameters
<1>2. /\ start \in Headers /\ main \in Headers /\ fork \in Forks
      /\ HeightOf(start) \in Nat /\ AncestorOf(start, HeightOf(start)) = start
    BY InTree, Shape
<1>3. first \in V
    <2>1. HeightOf(start) \in 0 .. HeightOf(start) /\ 1 <= HeightOf(start) - HeightOf(start) + 1
        BY <1>2
    <2>2. InBest(main, start) \in BOOLEAN
        BY DEF InBest, IsMain
    <2>3. InBest(main, start) => IsMain(main, start)
        BY DEF InBest
    <2> QED
        BY <1>2, <2>1, <2>2, <2>3 DEF Kept
<1> HIDE DEF first
<1>4. Descends(D, MaxHeight, m, next, B)
    <2>1. m \in [D -> 0 .. MaxHeight] /\ next \in [D -> D] /\ B \in SUBSET D
        BY <1>1 DEF Heights
    <2>2. \A n \in D \ B : m[next[n]] < m[n]
        BY <1>1 DEF Heights
    <2> QED
        BY <1>1, <2>1, <2>2 DEF Descends
<1>5. Computes(D, V, base, step)
    <2>1. \A n \in D, p \in V : Turn(main, start, n, p) \in V
        BY <1>1, TurnKeeps DEF Heights
    <2>2. step \in [D \X V -> V]
        BY <2>1
    <2>3. base \in [D -> V]
        BY <1>3
    <2> QED
        BY <2>2, <2>3 DEF Computes
<1>6. PICK g \in [D -> V] :
        \A n \in D : g[n] = IF n \in B THEN base[n] ELSE step[<<n, g[next[n]]>>]
    <2> HIDE DEF D, V, m, next, B, base, step
    <2> QED
        BY <1>4, <1>5, Recursion
<1>7. ASSUME NEW n \in D
      PROVE  g[n] = IF n = 0 THEN first ELSE Turn(main, start, n, g[n - 1])
    <2>1. CASE n = 0
        BY <1>6, <2>1
    <2>2. CASE n # 0
        <3>1. n - 1 \in D /\ next[n] = n - 1 /\ n \notin B
            BY <1>1, <2>2 DEF Heights
        <3>2. g[n - 1] \in V
            BY <3>1
        <3>3. step[<<n, g[n - 1]>>] = Turn(main, start, n, g[n - 1])
            BY <3>2
        <3> QED
            BY <1>6, <2>2, <3>1, <3>3
    <2> QED
        BY <2>1, <2>2
<1>8. g = [n \in D |-> IF n = 0 THEN first ELSE Turn(main, start, n, g[n - 1])]
    BY <1>7
<1>9. at = CHOOSE f : f = [n \in D |-> IF n = 0 THEN first ELSE Turn(main, start, n, f[n - 1])]
    BY DEF Located, Turn, first, Heights
<1>10. at = [n \in D |-> IF n = 0 THEN first ELSE Turn(main, start, n, at[n - 1])]
    BY <1>8, <1>9
<1> HIDE DEF at
<1>11. \A n \in D : at[n] = IF n = 0 THEN first ELSE Turn(main, start, n, at[n - 1])
    BY <1>10
<1> DEFINE Wrong == {n \in D : at[n] \notin V}
<1>12. Wrong = {}
    <2> SUFFICES ASSUME Wrong # {} PROVE FALSE
        OBVIOUS
    <2>1. Wrong \in SUBSET Nat
        BY <1>1 DEF Heights
    <2>2. PICK n \in Wrong : \A k \in Wrong : n <= k
        BY <2>1, Least
    <2>3. n # 0
        BY <1>3, <1>11, <2>2
    <2>4. n - 1 \in D /\ n - 1 < n /\ n \in Nat
        BY <1>1, <2>2, <2>3 DEF Heights
    <2>5. at[n - 1] \in V
        BY <2>2, <2>4
    <2>6. Turn(main, start, n, at[n - 1]) \in V
        BY <2>4, <2>5, TurnKeeps
    <2> QED
        BY <1>11, <2>2, <2>3, <2>6
<1>13. at \in [Heights -> V]
    BY <1>10, <1>12
<1>14. 0 \in D /\ at[0].height = HeightOf(start)
    <2>1. 0 \in D
        BY <1>1 DEF Heights
    <2>2. at[0] = first
        BY <1>11, <2>1
    <2> QED
        BY <2>1, <2>2 DEF first
<1>15. \A n \in 1 .. MaxHeight : at[n] = Turn(main, start, n, at[n - 1])
    <2> TAKE n \in 1 .. MaxHeight
    <2>1. n \in D /\ n # 0
        BY <1>1 DEF Heights
    <2> QED
        BY <1>11, <2>1
<1> QED
    BY <1>13, <1>14, <1>15 DEF at

\* The heights of a locator go down to genesis.
LEMMA LocatedEnds ==
    ASSUME Tree, NEW main \in DOMAIN entries, NEW start \in DOMAIN entries
    PROVE  Located(main, start)[MaxHeight].height = 0
<1> DEFINE at == Located(main, start)
           Wrong == {n \in Heights : at[n].height # 0 /\ ~(at[n].height <= HeightOf(start) - n)}
<1>1. /\ at \in [Heights -> Kept(main, start)]
      /\ at[0].height = HeightOf(start)
      /\ \A n \in 1 .. MaxHeight : at[n] = Turn(main, start, n, at[n - 1])
    BY LocatedIs
<1>2. HeightOf(start) \in Nat /\ HeightOf(start) <= MaxHeight /\ MaxHeight \in Nat
    BY InTree, Parameters DEF Heights
<1> HIDE DEF at
<1>3. \A n \in Heights : at[n].height \in 0 .. HeightOf(start) /\ at[n].step \in Nat /\ at[n].step >= 1
    BY <1>1 DEF Kept
<1>4. Wrong = {}
    <2> SUFFICES ASSUME Wrong # {} PROVE FALSE
        OBVIOUS
    <2>1. Wrong \in SUBSET Nat
        BY <1>2 DEF Heights
    <2>2. PICK n \in Wrong : \A k \in Wrong : n <= k
        BY <2>1, Least
    <2>3. n \in Heights /\ at[n].height # 0 /\ ~(at[n].height <= HeightOf(start) - n)
        OBVIOUS
    <2>4. n # 0
        BY <1>1, <1>2, <2>3
    <2>5. n \in 1 .. MaxHeight /\ n - 1 \in Heights /\ n - 1 < n
        BY <1>2, <2>3, <2>4 DEF Heights
    <2>6. at[n - 1].height = 0 \/ at[n - 1].height <= HeightOf(start) - (n - 1)
        BY <2>2, <2>5
    <2>7. at[n] = Turn(main, start, n, at[n - 1])
        BY <1>1, <2>5
    <2>8. at[n - 1].height # 0
        BY <2>3, <2>7 DEF Turn
    <2>9. at[n].height = IF at[n - 1].height > at[n - 1].step
                         THEN at[n - 1].height - at[n - 1].step ELSE 0
        BY <2>7, <2>8 DEF Turn
    <2> QED
        BY <1>2, <1>3, <2>3, <2>5, <2>6, <2>8, <2>9
<1>5. MaxHeight \in Heights
    BY <1>2 DEF Heights
<1>6. at[MaxHeight].height = 0 \/ at[MaxHeight].height <= HeightOf(start) - MaxHeight
    BY <1>4, <1>5
<1> QED
    BY <1>2, <1>3, <1>5, <1>6 DEF at

\* What the main chain of a peer shares with the ancestors of a header.
Common(peer, start) == {h \in 0 .. HeightOf(start) : IsMain(peer, AncestorOf(start, h))}

LEMMA CommonFacts ==
    ASSUME Tree, NEW peer \in DOMAIN entries, NEW start \in DOMAIN entries
    PROVE  /\ 0 \in Common(peer, start)
           /\ \A h \in Common(peer, start), k \in Nat : k <= h => k \in Common(peer, start)
           /\ \E top \in Common(peer, start) : \A h \in Common(peer, start) : h <= top
<1>1. /\ start \in Headers /\ peer \in Headers /\ fork \in Forks
      /\ HeightOf(start) \in Nat /\ HeightOf(peer) \in Nat
      /\ \A h \in 0 .. HeightOf(start) : AncestorOf(start, h) \in DOMAIN entries
    BY InTree
<1>2. 0 \in Common(peer, start)
    <2>1. AncestorOf(start, 0) = Genesis /\ AncestorOf(peer, 0) = Genesis /\ HeightOf(Genesis) = 0
        BY <1>1, Shape
    <2> QED
        BY <1>1, <2>1 DEF Common, IsMain
<1>3. ASSUME NEW h \in Common(peer, start), NEW k \in Nat, k <= h PROVE k \in Common(peer, start)
    <2>1. h \in 0 .. HeightOf(start) /\ IsMain(peer, AncestorOf(start, h)) /\ k \in 0 .. h
        BY <1>1, <1>3 DEF Common
    <2>2. k \in 0 .. HeightOf(start)
        BY <1>1, <2>1
    <2>3. /\ HeightOf(AncestorOf(start, h)) = h /\ HeightOf(AncestorOf(start, k)) = k
          /\ AncestorOf(AncestorOf(start, h), k) = AncestorOf(start, k)
        BY <1>1, <2>1, <2>2, Shape
    <2>4. /\ k \in 0 .. HeightOf(peer)
          /\ AncestorOf(peer, k) = AncestorOf(AncestorOf(start, h), k)
        BY <1>1, <2>1, <2>3, MainIs
    <2> QED
        BY <1>1, <2>2, <2>3, <2>4 DEF Common, IsMain
<1>4. Common(peer, start) \in SUBSET (0 .. HeightOf(start))
    BY DEF Common
<1>5. \E top \in Common(peer, start) : \A h \in Common(peer, start) : h <= top
    BY <1>1, <1>2, <1>4, Greatest
<1> QED
    BY <1>2, <1>3, <1>5

LEMMA LocatorIs ==
    ASSUME Tree, NEW main \in DOMAIN entries, NEW start \in DOMAIN entries,
           NEW peer \in DOMAIN entries,
           NEW top \in Common(peer, start), \A h \in Common(peer, start) : h <= top,
           NEW found, found = FindLocator(peer, Locator(main, start))
    PROVE  /\ HeightOf(found) \in Common(peer, start)
           /\ found = AncestorOf(start, HeightOf(found))
           /\ top - HeightOf(found) <= HeightOf(start) - top
<1> DEFINE at == Located(main, start)
           locator == Locator(main, start)
           H == HeightOf(start)
           Hits == {at[n].height : n \in {n \in Heights : IsMain(peer, at[n].hash)}}
<1>1. /\ at \in [Heights -> Kept(main, start)]
      /\ at[0].height = H
      /\ \A n \in 1 .. MaxHeight : at[n] = Turn(main, start, n, at[n - 1])
      /\ at[MaxHeight].height = 0
    BY LocatedIs, LocatedEnds
<1>2. start \in Headers /\ fork \in Forks /\ H \in Nat /\ MaxHeight \in Nat
    BY InTree, Parameters
<1>3. locator = {at[n].hash : n \in Heights}
    BY DEF Locator, Heights
<1> HIDE DEF at, locator
<1>4. ASSUME NEW n \in Heights
      PROVE  /\ at[n].height \in 0 .. H /\ at[n].step \in Nat
             /\ at[n].hash = AncestorOf(start, at[n].height)
             /\ HeightOf(at[n].hash) = at[n].height
             /\ at[n].height = 0 \/ at[n].step <= H - at[n].height + 1
             /\ IsMain(peer, at[n].hash) <=> at[n].height \in Common(peer, start)
    <2>1. /\ at[n].height \in 0 .. H /\ at[n].step \in Nat
          /\ at[n].hash = AncestorOf(start, at[n].height)
          /\ at[n].height = 0 \/ at[n].step <= H - at[n].height + 1
        BY <1>1 DEF Kept
    <2>2. HeightOf(at[n].hash) = at[n].height
        BY <1>2, <2>1, Shape
    <2>3. IsMain(peer, at[n].hash) <=> at[n].height \in Common(peer, start)
        BY <2>1 DEF Common
    <2> QED
        BY <2>1, <2>2, <2>3
<1>5. PICK hit \in Hits : \A h \in Hits : h <= hit
    <2>1. MaxHeight \in Heights /\ 0 \in Common(peer, start)
        BY <1>2, CommonFacts DEF Heights
    <2>2. 0 \in Hits
        BY <1>1, <1>4, <2>1
    <2>3. Hits \in SUBSET (0 .. H)
        BY <1>4
    <2> QED
        BY <1>2, <2>2, <2>3, Greatest
<1>6. PICK n \in Heights : IsMain(peer, at[n].hash) /\ hit = at[n].height
    OBVIOUS
<1>7. \E b \in locator : /\ IsMain(peer, b)
                         /\ \A c \in locator : IsMain(peer, c) => HeightOf(c) <= HeightOf(b)
    <2>1. \A c \in locator : IsMain(peer, c) => HeightOf(c) \in Hits
        BY <1>3, <1>4
    <2> QED
        BY <1>3, <1>4, <1>5, <1>6, <2>1
<1>8. /\ found \in locator /\ IsMain(peer, found)
      /\ \A c \in locator : IsMain(peer, c) => HeightOf(c) <= HeightOf(found)
    BY <1>7 DEF FindLocator, locator
<1>9. PICK k \in Heights : found = at[k].hash
    BY <1>3, <1>8
<1>10. /\ HeightOf(found) \in Common(peer, start) /\ found = AncestorOf(start, HeightOf(found))
       /\ HeightOf(found) \in 0 .. H
    BY <1>4, <1>8, <1>9
<1>11. \A i \in Heights : at[i].height \in Common(peer, start) => at[i].height <= HeightOf(found)
    BY <1>3, <1>4, <1>8
<1>12. top \in 0 .. H /\ HeightOf(found) <= top /\ top \in Nat
    BY <1>2, <1>10 DEF Common
<1>13. CASE HeightOf(found) = top
    BY <1>2, <1>10, <1>12, <1>13
<1>14. CASE HeightOf(found) < top
    <2> DEFINE Low == {i \in Heights : at[i].height <= top}
    <2>1. Low \in SUBSET Nat /\ Low # {}
        BY <1>1, <1>2, <1>12 DEF Heights
    <2>2. PICK i \in Low : \A j \in Low : i <= j
        BY <2>1, Least
    <2>3. i \in Heights /\ at[i].height <= top /\ at[i].height \in Nat
        BY <1>2, <1>4, <2>2
    <2>4. at[i].height \in Common(peer, start)
        BY <2>3, CommonFacts
    <2>5. at[i].height <= HeightOf(found)
        BY <1>11, <2>3, <2>4
    <2>6. i # 0
        BY <1>1, <1>2, <1>10, <1>12, <1>14, <2>3, <2>5
    <2>7. i \in 1 .. MaxHeight /\ i - 1 \in Heights /\ i - 1 < i
        BY <1>2, <2>3, <2>6 DEF Heights
    <2> DEFINE p == at[i - 1]
    <2>8. p.height \in 0 .. H /\ p.step \in Nat /\ p.height > top
        BY <1>2, <1>4, <1>12, <2>2, <2>7
    <2>9. p.step <= H - p.height + 1
        BY <1>4, <1>12, <2>7, <2>8
    <2>10. at[i] = Turn(main, start, i, p)
        BY <1>1, <2>7
    <2> HIDE DEF p
    <2>11. at[i].height = IF p.height > p.step THEN p.height - p.step ELSE 0
        BY <1>12, <2>8, <2>10 DEF Turn
    <2>12. at[i].height >= p.height - p.step
        BY <1>2, <2>8, <2>11
    <2> QED
        BY <1>2, <1>10, <1>12, <2>3, <2>5, <2>8, <2>9, <2>12
<1>15. top - HeightOf(found) <= HeightOf(start) - top
    BY <1>2, <1>10, <1>12, <1>13, <1>14
<1> QED
    BY <1>10, <1>15

LEMMA TreeLocates == ASSUME Tree PROVE LocatorFindsFork
<1> SUFFICES ASSUME NEW main \in DOMAIN entries, NEW start \in DOMAIN entries,
                    NEW peer \in DOMAIN entries
             PROVE  LET found  == FindLocator(peer, Locator(main, start))
                        common == {h \in 0 .. HeightOf(start) : IsMain(peer, AncestorOf(start, h))}
                        top    == CHOOSE h \in common : \A k \in common : k <= h
                    IN /\ HeightOf(found) \in common
                       /\ found = AncestorOf(start, HeightOf(found))
                       /\ top - HeightOf(found) <= HeightOf(start) - top
    BY DEF LocatorFindsFork
<1> DEFINE top == CHOOSE h \in Common(peer, start) : \A k \in Common(peer, start) : k <= h
           found == FindLocator(peer, Locator(main, start))
<1>1. top \in Common(peer, start) /\ \A h \in Common(peer, start) : h <= top
    BY CommonFacts
<1> HIDE DEF top
<1>2. PICK f : f = found
    OBVIOUS
<1>3. /\ HeightOf(f) \in Common(peer, start) /\ f = AncestorOf(start, HeightOf(f))
      /\ top - HeightOf(f) <= HeightOf(start) - top
    BY <1>1, <1>2, LocatorIs
<1> QED
    BY <1>2, <1>3 DEF Common, top

------------------------------------------------------------------------------
(* Median times.                                                           *)

\* How many of the times are below a time, or no later.
Below(times, n, t) == {i \in 1 .. n : times[i] < t}
UpTo(times, n, t) == {i \in 1 .. n : times[i] <= t}

LEMMA CountFacts ==
    ASSUME NEW n \in Nat, NEW times \in [1 .. n -> Nat], NEW t \in Nat
    PROVE  /\ IsFiniteSet(Below(times, n, t)) /\ Cardinality(Below(times, n, t)) \in 0 .. n
           /\ IsFiniteSet(UpTo(times, n, t)) /\ Cardinality(UpTo(times, n, t)) \in 0 .. n
<1>1. IsFiniteSet(1 .. n) /\ Cardinality(1 .. n) = n
    <2>1. IsFiniteSet(1 .. n) /\ Cardinality(1 .. n) = IF 1 > n THEN 0 ELSE n - 1 + 1
        BY FS_Interval
    <2> QED
        BY <2>1
<1>2. Below(times, n, t) \in SUBSET (1 .. n) /\ UpTo(times, n, t) \in SUBSET (1 .. n)
    BY DEF Below, UpTo
<1>3. /\ IsFiniteSet(Below(times, n, t)) /\ Cardinality(Below(times, n, t)) <= n
      /\ IsFiniteSet(UpTo(times, n, t)) /\ Cardinality(UpTo(times, n, t)) <= n
    BY <1>1, <1>2, FS_Subset
<1>4. Cardinality(Below(times, n, t)) \in Nat /\ Cardinality(UpTo(times, n, t)) \in Nat
    BY <1>3, FS_CardinalityType
<1> QED
    BY <1>3, <1>4

\* The latest of some of the times: those before it and it are all of them.
LEMMA LatestOf ==
    ASSUME NEW n \in Nat, NEW times \in [1 .. n -> Nat], NEW S \in SUBSET (1 .. n), S # {}
    PROVE  \E j \in S : \A i \in S : times[i] <= times[j]
<1> DEFINE count == [i \in 1 .. n |-> Cardinality(UpTo(times, n, times[i]))]
           Counts == {count[i] : i \in S}
<1>1. \A i \in 1 .. n : count[i] \in 0 .. n /\ IsFiniteSet(UpTo(times, n, times[i]))
    BY CountFacts
<1>2. Counts \in SUBSET (0 .. n) /\ Counts # {}
    BY <1>1
<1>3. PICK c \in Counts : \A d \in Counts : d <= c
    BY <1>2, Greatest
<1>4. PICK j \in S : c = count[j]
    BY <1>3
<1>5. ASSUME NEW i \in S, ~(times[i] <= times[j]) PROVE FALSE
    <2>1. times[i] \in Nat /\ times[j] \in Nat /\ i \in 1 .. n /\ j \in 1 .. n
        OBVIOUS
    <2>2. UpTo(times, n, times[j]) \subseteq UpTo(times, n, times[i])
        BY <1>5, <2>1 DEF UpTo
    <2>3. i \in UpTo(times, n, times[i]) /\ i \notin UpTo(times, n, times[j])
        BY <1>5, <2>1 DEF UpTo
    <2>4. /\ Cardinality(UpTo(times, n, times[j])) <= Cardinality(UpTo(times, n, times[i]))
          /\ Cardinality(UpTo(times, n, times[j])) # Cardinality(UpTo(times, n, times[i]))
        BY <1>1, <2>1, <2>2, <2>3, FS_Subset
    <2>5. count[i] <= count[j]
        BY <1>3, <1>4, <2>1
    <2> QED
        BY <1>1, <2>1, <2>4, <2>5
<1> QED
    BY <1>4, <1>5

LEMMA MedianIs ==
    ASSUME NEW n \in Nat \ {0}, NEW times \in [1 .. n -> Nat]
    PROVE  /\ MedianOf(times) \in Nat
           /\ Cardinality(Below(times, n, MedianOf(times))) <= n \div 2
           /\ Cardinality(UpTo(times, n, MedianOf(times))) > n \div 2
<1>1. times \in Seq(Nat) /\ Len(times) = n /\ DOMAIN times = 1 .. n
    OBVIOUS
<1> DEFINE Values == {times[i] : i \in 1 .. n}
           Over == {t \in Values : Cardinality(UpTo(times, n, t)) > n \div 2}
<1>2. Over \in SUBSET Nat /\ Over # {}
    <2>1. PICK j \in 1 .. n : \A i \in 1 .. n : times[i] <= times[j]
        <3>1. 1 .. n \in SUBSET (1 .. n) /\ 1 .. n # {}
            OBVIOUS
        <3> QED
            BY <3>1, LatestOf
    <2>2. UpTo(times, n, times[j]) = 1 .. n
        BY <2>1 DEF UpTo
    <2>3. Cardinality(1 .. n) = IF 1 > n THEN 0 ELSE n - 1 + 1
        BY FS_Interval
    <2>4. Cardinality(UpTo(times, n, times[j])) = n /\ n > n \div 2
        BY <2>2, <2>3
    <2> QED
        BY <2>4
<1>3. PICK t \in Over : \A s \in Over : t <= s
    BY <1>2, Least
<1>4. t \in Nat /\ t \in Values /\ Cardinality(UpTo(times, n, t)) > n \div 2
    BY <1>2
<1>5. Cardinality(Below(times, n, t)) <= n \div 2
    <2>1. CASE Below(times, n, t) = {}
        BY <2>1, FS_EmptySet
    <2>2. CASE Below(times, n, t) # {}
        <3>1. Below(times, n, t) \in SUBSET (1 .. n)
            BY DEF Below
        <3>2. PICK j \in Below(times, n, t) : \A i \in Below(times, n, t) : times[i] <= times[j]
            BY <2>2, <3>1, LatestOf
        <3>3. j \in 1 .. n /\ times[j] < t /\ times[j] \in Nat
            BY <3>2 DEF Below
        <3>4. UpTo(times, n, times[j]) = Below(times, n, t)
            BY <1>4, <3>2, <3>3 DEF UpTo, Below
        <3>5. times[j] \notin Over
            BY <1>3, <1>4, <3>3
        <3>6. ~(Cardinality(UpTo(times, n, times[j])) > n \div 2)
            BY <3>3, <3>5
        <3>7. Cardinality(UpTo(times, n, times[j])) \in 0 .. n
            BY <3>3, CountFacts
        <3> QED
            BY <3>4, <3>6, <3>7
    <2> QED
        BY <2>1, <2>2
<1> DEFINE Right(s) == /\ s \in {times[i] : i \in DOMAIN times}
                       /\ Cardinality({i \in DOMAIN times : times[i] < s}) <= Len(times) \div 2
                       /\ Cardinality({i \in DOMAIN times : times[i] <= s}) > Len(times) \div 2
<1>6. \A s : /\ Below(times, n, s) = {i \in DOMAIN times : times[i] < s}
             /\ UpTo(times, n, s) = {i \in DOMAIN times : times[i] <= s}
    BY <1>1 DEF Below, UpTo
<1>7. Right(t)
    <2>1. t \in {times[i] : i \in DOMAIN times}
        BY <1>1, <1>4
    <2>2. Cardinality({i \in DOMAIN times : times[i] < t}) <= Len(times) \div 2
        <3>1. Below(times, n, t) = {i \in DOMAIN times : times[i] < t}
            BY <1>6
        <3> QED
            BY <1>1, <1>5, <3>1
    <2>3. Cardinality({i \in DOMAIN times : times[i] <= t}) > Len(times) \div 2
        <3>1. UpTo(times, n, t) = {i \in DOMAIN times : times[i] <= t}
            BY <1>6
        <3> QED
            BY <1>1, <1>4, <3>1
    <2> QED
        BY <2>1, <2>2, <2>3
<1>8. Right(MedianOf(times))
    BY <1>7 DEF MedianOf
<1> HIDE DEF Values, Over
<1>9. PICK med : med = MedianOf(times)
    OBVIOUS
<1>10. /\ med \in {times[i] : i \in DOMAIN times}
       /\ Cardinality({i \in DOMAIN times : times[i] < med}) <= Len(times) \div 2
       /\ Cardinality({i \in DOMAIN times : times[i] <= med}) > Len(times) \div 2
    BY <1>8, <1>9
<1>11. med \in Nat
    BY <1>1, <1>10
<1>12. /\ Below(times, n, med) = {i \in DOMAIN times : times[i] < med}
       /\ UpTo(times, n, med) = {i \in DOMAIN times : times[i] <= med}
    BY <1>6
<1>13. /\ Cardinality(Below(times, n, med)) <= n \div 2
       /\ Cardinality(UpTo(times, n, med)) > n \div 2
    BY <1>1, <1>10, <1>12
<1> QED
    BY <1>9, <1>11, <1>13

\* A time is no later than the median if the times before it are not too many.
LEMMA MedianNotBelow ==
    ASSUME NEW n \in Nat \ {0}, NEW times \in [1 .. n -> Nat], NEW t \in Nat,
           Cardinality(Below(times, n, t)) <= n \div 2
    PROVE  t <= MedianOf(times)
<1> SUFFICES ASSUME ~(t <= MedianOf(times)) PROVE FALSE
    OBVIOUS
<1>1. PICK med \in Nat : med = MedianOf(times)
    BY MedianIs
<1>2. med < t
    BY <1>1
<1>3. UpTo(times, n, med) \in SUBSET Below(times, n, t)
    BY <1>2 DEF UpTo, Below
<1>4. /\ IsFiniteSet(Below(times, n, t)) /\ Cardinality(Below(times, n, t)) \in 0 .. n
      /\ Cardinality(UpTo(times, n, med)) \in 0 .. n
    BY CountFacts
<1>5. Cardinality(UpTo(times, n, med)) <= Cardinality(Below(times, n, t))
    BY <1>3, <1>4, FS_Subset
<1>6. Cardinality(UpTo(times, n, med)) > n \div 2
    <2>1. Cardinality(UpTo(times, n, MedianOf(times))) > n \div 2
        BY MedianIs
    <2> QED
        BY <1>1, <2>1
<1>7. n \div 2 \in Nat
    OBVIOUS
<1> QED
    BY <1>4, <1>5, <1>6, <1>7

------------------------------------------------------------------------------
(* Locks.                                                                  *)

Timed == \A b \in DOMAIN entries : entries[b].time \in Nat

\* A header is later than the median of those before it.
TimesRise == \A b \in DOMAIN entries \ {Genesis} : entries[b].time > MedianTime(Prev(b))

SpanOf(b) == IF HeightOf(b) < MedianSpan THEN HeightOf(b) + 1 ELSE MedianSpan

TimesOf(b) == [i \in 1 .. SpanOf(b) |-> entries[AncestorOf(b, HeightOf(b) - i + 1)].time]

LEMMA TimesTyped ==
    ASSUME Tree, Timed, NEW b \in DOMAIN entries
    PROVE  /\ SpanOf(b) \in Nat \ {0}
           /\ \A i \in 1 .. SpanOf(b) : HeightOf(b) - i + 1 \in 0 .. HeightOf(b)
           /\ TimesOf(b) \in [1 .. SpanOf(b) -> Nat]
           /\ MedianTime(b) = MedianOf(TimesOf(b))
           /\ MedianTime(b) \in Nat
<1>1. /\ HeightOf(b) \in Nat /\ MedianSpan \in Nat \ {0}
      /\ \A h \in 0 .. HeightOf(b) : AncestorOf(b, h) \in DOMAIN entries
    BY InTree, Parameters
<1>2. SpanOf(b) \in Nat \ {0} /\ \A i \in 1 .. SpanOf(b) : HeightOf(b) - i + 1 \in 0 .. HeightOf(b)
    BY <1>1 DEF SpanOf
<1>3. TimesOf(b) \in [1 .. SpanOf(b) -> Nat]
    <2>1. \A i \in 1 .. SpanOf(b) : entries[AncestorOf(b, HeightOf(b) - i + 1)].time \in Nat
        BY <1>1, <1>2 DEF Timed
    <2> QED
        BY <2>1 DEF TimesOf
<1>4. MedianTime(b) = MedianOf(TimesOf(b))
    BY DEF MedianTime, TimesOf, SpanOf
<1>5. MedianOf(TimesOf(b)) \in Nat
    BY <1>2, <1>3, MedianIs
<1> QED
    BY <1>2, <1>3, <1>4, <1>5

\* The times of a header are its own and those of its parent, but for the earliest when there
\* are enough of them.
LEMMA TimesShift ==
    ASSUME Tree, Timed, NEW b \in DOMAIN entries, b # Genesis
    PROVE  /\ SpanOf(Prev(b)) <= SpanOf(b)
           /\ TimesOf(b)[1] = entries[b].time
           /\ \A i \in 2 .. SpanOf(b) :
                 i - 1 \in 1 .. SpanOf(Prev(b)) /\ TimesOf(b)[i] = TimesOf(Prev(b))[i - 1]
<1>1. /\ b \in Headers /\ fork \in Forks /\ HeightOf(b) \in Nat /\ HeightOf(b) > 0
      /\ Prev(b) \in DOMAIN entries /\ HeightOf(Prev(b)) = HeightOf(b) - 1
      /\ \A h \in 0 .. HeightOf(b) - 1 : AncestorOf(Prev(b), h) = AncestorOf(b, h)
      /\ AncestorOf(b, HeightOf(b)) = b
    BY InTree, PrevFacts, Shape
<1>2. MedianSpan \in Nat \ {0}
    BY Parameters
<1>3. /\ SpanOf(b) \in Nat \ {0} /\ SpanOf(Prev(b)) \in Nat \ {0}
      /\ \A i \in 1 .. SpanOf(Prev(b)) : HeightOf(Prev(b)) - i + 1 \in 0 .. HeightOf(Prev(b))
    BY <1>1, TimesTyped
<1>4. SpanOf(Prev(b)) <= SpanOf(b) /\ SpanOf(b) <= SpanOf(Prev(b)) + 1
    BY <1>1, <1>2 DEF SpanOf
<1>5. TimesOf(b)[1] = entries[b].time
    <2>1. 1 \in 1 .. SpanOf(b) /\ HeightOf(b) - 1 + 1 = HeightOf(b)
        BY <1>1, <1>3
    <2> QED
        BY <1>1, <2>1 DEF TimesOf
<1>6. ASSUME NEW i \in 2 .. SpanOf(b)
      PROVE  i - 1 \in 1 .. SpanOf(Prev(b)) /\ TimesOf(b)[i] = TimesOf(Prev(b))[i - 1]
    <2>1. i - 1 \in 1 .. SpanOf(Prev(b)) /\ i \in 1 .. SpanOf(b)
        BY <1>3, <1>4
    <2>2. PICK h \in Int : h = HeightOf(b) - i + 1
        BY <1>1, <1>3
    <2>3. h = HeightOf(Prev(b)) - (i - 1) + 1 /\ h \in 0 .. HeightOf(b) - 1
        BY <1>1, <1>3, <2>1, <2>2
    <2>4. TimesOf(b)[i] = entries[AncestorOf(b, h)].time
        BY <2>1, <2>2 DEF TimesOf
    <2>5. TimesOf(Prev(b))[i - 1] = entries[AncestorOf(Prev(b), h)].time
        BY <2>1, <2>3 DEF TimesOf
    <2> QED
        BY <1>1, <2>1, <2>3, <2>4, <2>5
<1> QED
    BY <1>4, <1>5, <1>6

\* The median does not go back.
LEMMA MedianRises ==
    ASSUME Tree, Timed, TimesRise, NEW b \in DOMAIN entries, b # Genesis
    PROVE  MedianTime(Prev(b)) <= MedianTime(b)
<1>1. PICK n, k, times, before, med :
        /\ n = SpanOf(b) /\ k = SpanOf(Prev(b))
        /\ times = TimesOf(b) /\ before = TimesOf(Prev(b)) /\ med = MedianTime(Prev(b))
    OBVIOUS
<1>2. Prev(b) \in DOMAIN entries
    BY InTree
<1>3. /\ n \in Nat \ {0} /\ times \in [1 .. n -> Nat] /\ MedianTime(b) = MedianOf(times)
      /\ k \in Nat \ {0} /\ before \in [1 .. k -> Nat] /\ med = MedianOf(before) /\ med \in Nat
    BY <1>1, <1>2, TimesTyped
<1>4. /\ k <= n /\ times[1] = entries[b].time
      /\ \A i \in 2 .. n : i - 1 \in 1 .. k /\ times[i] = before[i - 1]
    BY <1>1, TimesShift
<1>5. times[1] > med
    BY <1>1, <1>4 DEF TimesRise
<1> DEFINE X == Below(times, n, med)
           Y == Below(before, k, med)
           shift == [i \in X |-> i - 1]
<1>6. shift \in Injection(X, Y)
    <2>1. ASSUME NEW i \in X PROVE i - 1 \in Y
        <3>1. i \in 1 .. n /\ times[i] < med
            BY DEF Below
        <3>2. i # 1
            BY <1>3, <1>5, <3>1
        <3>3. i \in 2 .. n
            BY <1>3, <3>1, <3>2
        <3> QED
            BY <1>4, <3>1, <3>3 DEF Below
    <2>2. shift \in [X -> Y]
        BY <2>1
    <2>3. \A i \in X : i \in Int
        BY <1>3 DEF Below
    <2>4. \A i, j \in X : shift[i] = shift[j] => i = j
        BY <2>3
    <2>5. DOMAIN shift = X
        OBVIOUS
    <2> HIDE DEF X, Y, shift
    <2> QED
        BY <2>2, <2>4, <2>5 DEF Injection, IsInjective
<1> HIDE DEF shift
<1>7. /\ IsFiniteSet(Y) /\ Cardinality(Y) \in 0 .. k /\ Cardinality(X) \in 0 .. n
    BY <1>3, CountFacts
<1> HIDE DEF X, Y
<1>8. Cardinality(X) <= Cardinality(Y)
    BY <1>6, <1>7, FS_Injection
<1>9. Cardinality(Y) <= k \div 2
    BY <1>3, MedianIs DEF Y
<1>10. k \div 2 <= n \div 2 /\ k \div 2 \in Nat /\ n \div 2 \in Nat
    BY <1>3, <1>4
<1>11. Cardinality(X) <= n \div 2
    BY <1>7, <1>8, <1>9, <1>10
<1>12. med <= MedianOf(times)
    BY <1>3, <1>11, MedianNotBelow DEF X
<1> QED
    BY <1>1, <1>3, <1>12

LEMMA TreeLocks == ASSUME Tree, Timed, TimesRise PROVE LocksStay
<1> SUFFICES ASSUME NEW b \in Leaves \ {Genesis}
             PROVE  /\ \A t \in {MedianTime(Prev(b)) - 1, MedianTime(Prev(b))} \cap Nat :
                          FinalAt(Prev(b), FALSE, t) => FinalAt(b, FALSE, t)
                    /\ \A coin \in {1, HeightOf(b) - 1} \cap (1 .. MaxHeight), n \in 0 .. 2 :
                          /\ UnlockedByHeight(Prev(b), coin, n) => UnlockedByHeight(b, coin, n)
                          /\ UnlockedByTime(b, Prev(b), coin, n) => UnlockedByTime(b, b, coin, n)
    BY DEF LocksStay
<1>1. b \in DOMAIN entries /\ b # Genesis
    BY DEF Leaves
<1>2. /\ b \in Headers /\ fork \in Forks /\ HeightOf(b) \in Nat /\ HeightOf(b) > 0
      /\ Prev(b) \in DOMAIN entries /\ HeightOf(Prev(b)) = HeightOf(b) - 1
      /\ \A h \in 0 .. HeightOf(b) - 1 : AncestorOf(Prev(b), h) = AncestorOf(b, h)
    BY <1>1, InTree, PrevFacts
<1>3. MedianTime(Prev(b)) <= MedianTime(b) /\ MedianTime(Prev(b)) \in Nat /\ MedianTime(b) \in Nat
    BY <1>1, <1>2, MedianRises, TimesTyped
<1>4. ASSUME NEW t \in Nat PROVE FinalAt(Prev(b), FALSE, t) => FinalAt(b, FALSE, t)
    BY <1>3 DEF FinalAt
<1>5. ASSUME NEW coin \in {1, HeightOf(b) - 1} \cap (1 .. MaxHeight), NEW n \in 0 .. 2
      PROVE  UnlockedByHeight(Prev(b), coin, n) => UnlockedByHeight(b, coin, n)
    <2>1. PICK at \in Int : at = (coin + LessOne(n)) % Modulus
        BY Parameters DEF LessOne
    <2> QED
        BY <1>2, <2>1 DEF UnlockedByHeight
<1>6. ASSUME NEW coin \in {1, HeightOf(b) - 1} \cap (1 .. MaxHeight), NEW n \in 0 .. 2
      PROVE  UnlockedByTime(b, Prev(b), coin, n) => UnlockedByTime(b, b, coin, n)
    <2>1. PICK h \in Int : h = IF coin = 0 THEN 0 ELSE coin - 1
        BY Parameters
    <2>2. h \in 0 .. HeightOf(Prev(b)) /\ h \in 0 .. HeightOf(b) /\ h \in 0 .. HeightOf(b) - 1
        BY <1>2, <2>1, Parameters
    <2>3. GetAncestor(b, Prev(b), h) = GetAncestor(b, b, h)
        BY <1>1, <1>2, <2>2, GetAncestorIs
    <2>4. GetAncestor(b, b, h) \in DOMAIN entries
        BY <1>1, <2>2, GetAncestorIs, InTree
    <2>5. PICK from \in Nat : from = MedianTime(GetAncestor(b, b, h))
        BY <2>4, TimesTyped
    <2>6. PICK at \in Int : at = (from + LessOne(n * Granularity)) % Modulus
        <3>1. n * Granularity \in Int /\ Modulus \in Nat \ {0}
            BY Parameters
        <3>2. LessOne(n * Granularity) \in Int
            BY <3>1 DEF LessOne
        <3> QED
            BY <3>1, <3>2
    <2>7. UnlockedByTime(b, Prev(b), coin, n) <=> (OverflowChecks => n > 0) /\ at < MedianTime(Prev(b))
        BY <2>1, <2>3, <2>5, <2>6 DEF UnlockedByTime
    <2>8. UnlockedByTime(b, b, coin, n) <=> (OverflowChecks => n > 0) /\ at < MedianTime(b)
        BY <2>1, <2>5, <2>6 DEF UnlockedByTime
    <2> QED
        BY <1>3, <2>6, <2>7, <2>8
<1> QED
    BY <1>4, <1>5, <1>6

------------------------------------------------------------------------------
(* Targets.                                                                *)

\* The compact form keeps the order of a target and never raises it.
LEMMA CompactBelow ==
    ASSUME NEW target \in Nat
    PROVE  Compact(target) \in 0 .. target /\ (target > 0 => Compact(target) > 0)
<1> DEFINE D == 0 .. target
           m == [t \in D |-> t]
           B == {t \in D : t < MantissaLimit}
           next == [t \in D |-> t \div Digit]
           step == [p \in D \X Int |-> Digit * p[2]]
           c == CHOOSE f : f = [t \in D |-> IF t < MantissaLimit THEN t ELSE Digit * f[t \div Digit]]
<1>1. Digit \in Nat /\ Digit >= 2 /\ MantissaLimit \in Nat /\ Digit <= MantissaLimit
    BY Parameters
<1>2. \A t \in Nat : t \div Digit \in Nat /\ t \div Digit <= t /\ (t > 0 => t \div Digit < t)
                     /\ Digit * (t \div Digit) <= t /\ (t >= Digit => t \div Digit > 0)
    BY <1>1
<1>3. \A t \in D : t \in Nat /\ t \div Digit \in D
    BY <1>2
<1>4. Descends(D, target, m, next, B)
    <2>1. m \in [D -> 0 .. target] /\ next \in [D -> D] /\ B \in SUBSET D
        BY <1>3
    <2>2. ASSUME NEW t \in D \ B PROVE m[next[t]] < m[t]
        <3>1. t \in Nat /\ t > 0 /\ t \in D
            BY <1>1
        <3>2. next[t] = t \div Digit /\ t \div Digit \in D /\ t \div Digit < t
            BY <1>2, <1>3, <3>1
        <3>3. m[t] = t /\ m[t \div Digit] = t \div Digit
            BY <3>1, <3>2
        <3> HIDE DEF D, m, next, B
        <3> QED
            BY <3>2, <3>3
    <2> QED
        BY <2>1, <2>2 DEF Descends
<1>5. Computes(D, Int, m, step)
    <2>1. m \in [D -> Int] /\ step \in [D \X Int -> Int]
        BY <1>1, <1>3
    <2> QED
        BY <2>1 DEF Computes
<1>6. PICK g \in [D -> Int] : \A t \in D : g[t] = IF t \in B THEN m[t] ELSE step[<<t, g[next[t]]>>]
    <2> HIDE DEF D, m, next, B, step
    <2> QED
        BY <1>4, <1>5, Recursion
<1>7. ASSUME NEW t \in D PROVE g[t] = IF t < MantissaLimit THEN t ELSE Digit * g[t \div Digit]
    <2>1. t \div Digit \in D /\ next[t] = t \div Digit /\ g[t \div Digit] \in Int
        BY <1>3
    <2>2. step[<<t, g[t \div Digit]>>] = Digit * g[t \div Digit]
        BY <2>1
    <2> QED
        BY <1>6, <2>1, <2>2
<1>8. g = [t \in D |-> IF t < MantissaLimit THEN t ELSE Digit * g[t \div Digit]]
    BY <1>7
<1>9. c = [t \in D |-> IF t < MantissaLimit THEN t ELSE Digit * c[t \div Digit]]
    BY <1>8
<1> HIDE DEF c
<1>10. \A t \in D : c[t] = IF t < MantissaLimit THEN t ELSE Digit * c[t \div Digit]
    BY <1>9
<1> DEFINE Right(t) == c[t] \in 0 .. t /\ (t > 0 => c[t] > 0)
           Wrong == {t \in D : ~Right(t)}
<1>11. Wrong = {}
    <2> SUFFICES ASSUME Wrong # {} PROVE FALSE
        OBVIOUS
    <2>1. Wrong \in SUBSET Nat
        BY <1>3
    <2>2. PICK t \in Wrong : \A s \in Wrong : t <= s
        BY <2>1, Least
    <2>3. t \in Nat /\ t \in D /\ ~Right(t)
        BY <1>3, <2>2
    <2>4. t >= MantissaLimit
        BY <1>1, <1>10, <2>3
    <2>5. PICK q \in Nat : q = t \div Digit
        BY <1>2, <2>3
    <2>6. q \in D /\ q < t /\ q > 0 /\ Digit * q <= t
        <3>1. t > 0 /\ t >= Digit
            BY <1>1, <2>3, <2>4
        <3>2. q < t /\ q > 0 /\ Digit * q <= t
            BY <1>2, <2>3, <2>5, <3>1
        <3>3. q \in D
            BY <1>3, <2>3, <2>5
        <3> QED
            BY <3>2, <3>3
    <2>7. q \notin Wrong
        BY <2>2, <2>3, <2>5, <2>6
    <2>8. c[q] \in 0 .. q /\ c[q] > 0
        BY <2>6, <2>7
    <2>9. c[t] = Digit * c[q]
        BY <1>1, <1>10, <2>3, <2>4, <2>5
    <2>10. PICK k \in Nat : k = c[q]
        BY <2>8
    <2>11. Digit * k <= Digit * q /\ Digit * k > 0 /\ Digit * k \in Nat /\ Digit * q \in Nat
        <3>1. k > 0 /\ k <= q
            BY <2>8, <2>10
        <3> QED
            BY <1>1, <2>5, <2>10, <3>1
    <2> QED
        BY <2>3, <2>6, <2>9, <2>10, <2>11
<1>12. Right(target)
    BY <1>11
<1> QED
    BY <1>12 DEF c, Compact

LEMMA LimitBitsTyped == LimitBits \in 1 .. PowLimit
<1>1. PowLimit \in Nat \ {0}
    BY Parameters
<1> QED
    BY <1>1, CompactBelow DEF LimitBits

HasTargets == \A b \in DOMAIN entries : entries[b].bits \in 1 .. PowLimit

LEMMA RetargetTyped ==
    ASSUME Tree, Timed, HasTargets, NEW prev \in DOMAIN entries, NEW first \in DOMAIN entries
    PROVE  Retarget(prev, first) \in 0 .. PowLimit
<1>1. PowLimit \in Nat /\ Modulus \in Nat \ {0} /\ Interval \in Nat /\ Spacing \in Nat
    BY Parameters
<1>2. Timespan \in Nat /\ Timespan >= 4
    BY <1>1, HeadersAssumption DEF Timespan
<1>3. PICK took \in Nat : took = Elapsed(prev, first)
    <2>1. entries[prev].time - entries[first].time \in Int
        BY DEF Timed
    <2> QED
        BY <1>1, <2>1 DEF Elapsed
<1>4. PICK clamped \in Nat :
        clamped = IF took < Timespan \div 4 THEN Timespan \div 4
                  ELSE IF took > Timespan * 4 THEN Timespan * 4
                  ELSE took
    BY <1>2
<1>5. PICK bits \in Nat : bits = entries[prev].bits
    BY <1>1 DEF HasTargets
<1>6. bits * clamped \in Nat
    OBVIOUS
<1>7. PICK target \in Nat : target = (bits * clamped) \div Timespan
    BY <1>2, <1>6
<1>8. Retarget(prev, first) = IF NoRetargeting THEN bits ELSE Limited(target)
    BY <1>3, <1>4, <1>5, <1>7 DEF Retarget
<1>9. Limited(target) \in 0 .. PowLimit
    <2>1. Compact(target) \in 0 .. target
        BY CompactBelow
    <2> QED
        BY <1>1, <2>1, LimitBitsTyped DEF Limited
<1>10. bits \in 0 .. PowLimit
    BY <1>1, <1>5 DEF HasTargets
<1> QED
    BY <1>8, <1>9, <1>10

\* The header before one that starts no interval is in the same interval.
LEMMA SameInterval ==
    ASSUME NEW n \in Nat \ {0}, NEW h \in Nat, h % n # 0
    PROVE  (h - 1) % n = (h % n) - 1
<1>1. PICK q \in Int, r \in Nat : q = h \div n /\ r = h % n /\ h = n * q + r /\ r < n /\ r > 0
    OBVIOUS
<1>2. PICK p \in Int, s \in Nat :
        p = (h - 1) \div n /\ s = (h - 1) % n /\ h - 1 = n * p + s /\ s < n
    OBVIOUS
<1>3. PICK d \in Int : d = q - p
    OBVIOUS
<1>4. n * q - n * p = n * d /\ n * d \in Int /\ n * q \in Int /\ n * p \in Int
    BY <1>3
<1>5. n * d = 1 + s - r
    BY <1>1, <1>2, <1>4
<1>6. ~(d >= 1)
    <2>1. d >= 1 => n * d >= n
        OBVIOUS
    <2> QED
        BY <1>1, <1>2, <1>5, <2>1
<1>7. ~(d <= -1)
    <2>1. d <= -1 => n * d <= -n
        OBVIOUS
    <2> QED
        BY <1>1, <1>2, <1>5, <2>1
<1>8. d = 0
    BY <1>6, <1>7
<1>9. n * d = 0
    BY <1>8
<1> QED
    BY <1>1, <1>2, <1>5, <1>9

\* The first header of an interval.
StartOf(b) == AncestorOf(b, HeightOf(b) - (HeightOf(b) % Interval))

LEMMA StartFacts ==
    ASSUME fork \in Forks, NEW b \in Headers
    PROVE  /\ HeightOf(b) - (HeightOf(b) % Interval) \in 0 .. HeightOf(b)
           /\ HeightOf(b) % Interval = 0 => StartOf(b) = b
           /\ HeightOf(b) % Interval # 0 => b # Genesis /\ StartOf(b) = StartOf(Prev(b))
<1>1. /\ HeightOf(b) \in Nat /\ Interval \in Nat \ {0} /\ HeightOf(Genesis) = 0
      /\ AncestorOf(b, HeightOf(b)) = b
    BY Shape, Parameters DEF Heights
<1>2. PICK h \in Nat : h = HeightOf(b)
    BY <1>1
<1>3. h % Interval \in 0 .. Interval - 1 /\ h % Interval <= h
    BY <1>1
<1>4. h - (h % Interval) \in 0 .. h
    BY <1>1, <1>3
<1>5. h % Interval = 0 => StartOf(b) = b
    BY <1>1, <1>2 DEF StartOf
<1>6. ASSUME h % Interval # 0 PROVE b # Genesis /\ StartOf(b) = StartOf(Prev(b))
    <2>1. h # 0 /\ b # Genesis
        BY <1>1, <1>2, <1>6
    <2>2. /\ HeightOf(Prev(b)) = h - 1
          /\ \A k \in 0 .. h - 1 : AncestorOf(Prev(b), k) = AncestorOf(b, k)
        BY <1>2, <2>1, PrevFacts
    <2>3. (h - 1) - ((h - 1) % Interval) = h - (h % Interval)
        <3>1. (h - 1) % Interval = (h % Interval) - 1
            BY <1>1, <1>6, SameInterval
        <3> QED
            BY <1>3, <3>1
    <2>4. h - (h % Interval) \in 0 .. h - 1
        BY <1>1, <1>3, <1>4, <1>6
    <2> QED
        BY <1>2, <2>1, <2>2, <2>3, <2>4 DEF StartOf
<1> QED
    BY <1>2, <1>4, <1>5, <1>6

\* The walk over blocks of minimum difficulty ends in the same interval, at its first
\* header or at one that has another target.
LEMMA LastRegularIs ==
    ASSUME Tree, NEW prev \in DOMAIN entries
    PROVE  /\ LastRegular(prev) \in DOMAIN entries
           /\ StartOf(LastRegular(prev)) = StartOf(prev)
           /\ IF AllowMinDifficulty THEN Stops(LastRegular(prev)) ELSE LastRegular(prev) = prev
<1> DEFINE D == DOMAIN entries
           m == [b \in D |-> HeightOf(b)]
           B == {b \in D : Stops(b)}
           next == [b \in D |-> IF b \in B THEN b ELSE Prev(b)]
           walk == CHOOSE f : f = [b \in D |-> IF Stops(b) THEN b ELSE f[Prev(b)]]
<1>1. MaxHeight \in Nat /\ Interval \in Nat \ {0}
    BY Parameters
<1>2. ASSUME NEW b \in D \ B
      PROVE  /\ HeightOf(b) % Interval # 0
             /\ Prev(b) \in D /\ HeightOf(Prev(b)) = HeightOf(b) - 1 /\ HeightOf(b) > 0
             /\ StartOf(b) = StartOf(Prev(b))
    <2>1. HeightOf(b) % Interval # 0
        BY DEF Stops
    <2>2. b \in Headers /\ fork \in Forks
        BY InTree
    <2>3. b # Genesis /\ StartOf(b) = StartOf(Prev(b))
        BY <2>1, <2>2, StartFacts
    <2> QED
        BY <2>1, <2>2, <2>3, InTree, PrevFacts
<1>3. \A b \in D : HeightOf(b) \in 0 .. MaxHeight /\ HeightOf(b) \in Nat
    BY InTree DEF Heights
<1>4. Descends(D, MaxHeight, m, next, B)
    <2>1. m \in [D -> 0 .. MaxHeight] /\ next \in [D -> D] /\ B \in SUBSET D
        BY <1>2, <1>3
    <2>2. \A b \in D \ B : m[next[b]] < m[b]
        BY <1>2, <1>3
    <2> QED
        BY <1>1, <2>1, <2>2 DEF Descends
<1>5. PICK g \in [D -> D] : \A b \in D : g[b] = IF b \in B THEN b ELSE g[next[b]]
    <2> HIDE DEF D, m, next, B
    <2> QED
        BY <1>4, Walk
<1>6. g = [b \in D |-> IF Stops(b) THEN b ELSE g[Prev(b)]]
    <2>1. \A b \in D : g[b] = IF Stops(b) THEN b ELSE g[Prev(b)]
        BY <1>5
    <2> HIDE DEF B, next
    <2> QED
        BY <2>1
<1>7. walk = [b \in D |-> IF Stops(b) THEN b ELSE walk[Prev(b)]]
    BY <1>6
<1> HIDE DEF walk
<1>8. \A b \in D : walk[b] = IF Stops(b) THEN b ELSE walk[Prev(b)]
    BY <1>7
<1> DEFINE Right(b) == walk[b] \in D /\ StartOf(walk[b]) = StartOf(b) /\ Stops(walk[b])
           Wrong == {b \in D : ~Right(b)}
           Where == {HeightOf(b) : b \in Wrong}
<1>9. Wrong = {}
    <2> SUFFICES ASSUME Wrong # {} PROVE FALSE
        OBVIOUS
    <2>1. Where \in SUBSET Nat /\ Where # {}
        BY <1>3
    <2>2. PICK n \in Where : \A k \in Where : n <= k
        BY <2>1, Least
    <2>3. PICK b \in Wrong : n = HeightOf(b)
        BY <2>2
    <2>4. b \in D /\ ~Right(b)
        BY <2>3
    <2>5. b \notin B
        BY <1>8, <2>4
    <2>6. /\ Prev(b) \in D /\ HeightOf(Prev(b)) = HeightOf(b) - 1 /\ HeightOf(b) > 0
          /\ StartOf(b) = StartOf(Prev(b))
        BY <1>2, <2>4, <2>5
    <2>7. Prev(b) \notin Wrong
        BY <1>3, <2>2, <2>3, <2>4, <2>6
    <2>8. walk[b] = walk[Prev(b)]
        BY <1>8, <2>4, <2>5
    <2> QED
        BY <2>4, <2>6, <2>7, <2>8
<1>10. Right(prev)
    BY <1>9
<1>11. LastRegular(prev) = IF AllowMinDifficulty THEN walk[prev] ELSE prev
    BY DEF LastRegular, walk
<1> QED
    BY <1>10, <1>11

\* The target asked for of a header on top of another.
LEMMA TargetTyped ==
    ASSUME Tree, Timed, HasTargets, NEW prev \in DOMAIN entries, NEW time
    PROVE  GetTarget(time, prev) \in 0 .. PowLimit
<1>1. CASE IsBoundary(prev)
    <2>1. First(prev) \in DOMAIN entries
        <3>1. HeightOf(prev) \in Nat /\ Interval \in Nat \ {0}
            BY InTree, Parameters
        <3>2. PICK h \in Nat : h = HeightOf(prev)
            BY <3>1
        <3>3. (h + 1) % Interval = 0
            BY <1>1, <3>2 DEF IsBoundary
        <3>4. h - (Interval - 1) \in 0 .. h
            BY <3>1, <3>3
        <3> QED
            BY <3>2, <3>4, InTree DEF First
    <2> QED
        BY <1>1, <2>1, RetargetTyped DEF GetTarget
<1>2. CASE ~IsBoundary(prev)
    <2>1. LastRegular(prev) \in DOMAIN entries
        BY LastRegularIs
    <2>2. entries[LastRegular(prev)].bits \in 1 .. PowLimit
        BY <2>1 DEF HasTargets
    <2> QED
        BY <1>2, <2>2, LimitBitsTyped, Parameters DEF GetTarget
<1> QED
    BY <1>1, <1>2

LEMMA TargetIs ==
    ASSUME Tree, TargetsOfInterval,
           NEW b \in Headers, b # Genesis, Prev(b) \in DOMAIN entries,
           HeightOf(b) % Interval # 0, NEW time
    PROVE  /\ StartOf(b) = StartOf(Prev(b)) /\ StartOf(b) \in DOMAIN entries
           /\ \/ GetTarget(time, Prev(b)) = entries[StartOf(b)].bits
              \/ /\ AllowMinDifficulty
                 /\ GetTarget(time, Prev(b)) = LimitBits
                 /\ time > entries[Prev(b)].time + 2 * Spacing
<1>1. PICK prev \in DOMAIN entries : prev = Prev(b)
    OBVIOUS
<1>2. prev \in Headers /\ fork \in Forks /\ HeightOf(prev) \in Nat
    BY InTree
<1>3. /\ HeightOf(b) \in Nat \ {0} /\ HeightOf(prev) = HeightOf(b) - 1
      /\ StartOf(b) = StartOf(prev)
    BY <1>1, <1>2, PrevFacts, StartFacts
<1>4. StartOf(b) \in DOMAIN entries
    BY <1>2, <1>3, StartFacts, InTree DEF StartOf
<1>5. ~IsBoundary(prev)
    <2>1. HeightOf(prev) + 1 = HeightOf(b)
        BY <1>3
    <2> QED
        BY <2>1 DEF IsBoundary
<1>6. PICK r \in DOMAIN entries : r = LastRegular(prev)
    BY LastRegularIs
<1>7. StartOf(r) = StartOf(b) /\ (IF AllowMinDifficulty THEN Stops(r) ELSE r = prev)
    BY <1>3, <1>6, LastRegularIs
<1>8. r \in Headers
    BY InTree
<1>9. entries[r].bits = entries[StartOf(r)].bits
    <2>1. CASE ~AllowMinDifficulty
        BY <2>1 DEF TargetsOfInterval, StartOf
    <2>2. CASE AllowMinDifficulty /\ HeightOf(r) % Interval = 0
        BY <1>2, <1>8, <2>2, StartFacts
    <2>3. CASE AllowMinDifficulty /\ entries[r].bits # LimitBits
        BY <2>3 DEF TargetsOfInterval, StartOf
    <2> QED
        BY <1>7, <2>1, <2>2, <2>3 DEF Stops
<1>10. GetTarget(time, prev) =
        IF AllowMinDifficulty /\ time > entries[prev].time + 2 * Spacing THEN LimitBits
        ELSE entries[r].bits
    BY <1>5, <1>6 DEF GetTarget
<1> QED
    BY <1>1, <1>3, <1>4, <1>7, <1>9, <1>10

------------------------------------------------------------------------------
(* The inductive invariant.                                                *)

\* Ancestors are kept and skips lead to them; times rise over their medians, which is why a
\* lock stays satisfied; the targets are those of their intervals.
IInv == TypeOK /\ Tree /\ TimesRise /\ TargetsOfInterval

LEMMA Typed == ASSUME TypeOK PROVE Timed /\ HasTargets
BY DEF TypeOK, Entry, Timed, HasTargets

LEMMA InitInv == ASSUME Init PROVE IInv
<1>1. fork \in Forks /\ last = Genesis /\ odd = 0 /\ now = Spacing
    BY DEF Init
<1>2. /\ Genesis \in Headers /\ HeightOf(Genesis) = 0 /\ AncestorOf(Genesis, 0) = Genesis
      /\ MaxOdd \in Nat /\ Spacing \in Nat /\ Interval \in Nat \ {0}
    BY <1>1, Shape, Parameters DEF Genesis, Headers
<1>3. DOMAIN entries = {Genesis}
    BY DEF Init
<1>4. entries[Genesis] = [time |-> 0, bits |-> LimitBits, skip |-> Genesis]
    BY DEF Init
<1>5. entries[Genesis] \in Entry
    BY <1>2, <1>4, LimitBitsTyped DEF Entry
<1>6. TypeOK
    BY <1>1, <1>2, <1>3, <1>5 DEF TypeOK
<1>7. Tree
    BY <1>1, <1>2, <1>3 DEF Tree, Closed, SkipsRight
<1>8. TimesRise
    BY <1>3 DEF TimesRise
<1>9. TargetsOfInterval
    <2>1. 0 % Interval = 0 /\ 0 - 0 = 0
        BY <1>2
    <2>2. AncestorOf(Genesis, HeightOf(Genesis) - (HeightOf(Genesis) % Interval)) = Genesis
        BY <1>2, <2>1
    <2> QED
        BY <1>3, <2>2 DEF TargetsOfInterval
<1> QED
    BY <1>6, <1>7, <1>8, <1>9 DEF IInv

\* What add_header adds: one entry whose parent is there, of a time and bits that fit it.
Added(b, time) ==
    /\ b \in Headers \ {Genesis} /\ b \notin DOMAIN entries /\ Prev(b) \in DOMAIN entries
    /\ time \in Nat /\ time > MedianTime(Prev(b))
    /\ DOMAIN entries' = DOMAIN entries \cup {b}
    /\ \A c \in DOMAIN entries : entries'[c] = entries[c]
    /\ entries'[b] = [time |-> time, bits |-> GetTarget(time, Prev(b)),
                      skip |-> AncestorOf(Prev(b), SkipHeight(HeightOf(b)))]
    /\ GetTarget(time, Prev(b)) \in 1 .. PowLimit
    /\ fork' = fork /\ now' = now + Spacing /\ last' = b /\ odd' \in 0 .. MaxOdd

LEMMA AddsOne ==
    ASSUME IInv, NEW b \in Headers \ {Genesis}, NEW time \in Times(Prev(b)), AddHeader(b, time)
    PROVE  Added(b, time)
<1>1. Tree /\ TypeOK /\ Timed /\ HasTargets
    BY Typed DEF IInv
<1>2. b \notin DOMAIN entries /\ Prev(b) \in DOMAIN entries /\ fork \in Forks
    BY <1>1 DEF AddHeader, TypeOK
<1>3. PICK prev \in DOMAIN entries : prev = Prev(b)
    BY <1>2
<1>4. time > MedianTime(prev)
    BY <1>3 DEF AddHeader, TimeInBounds
<1>5. time \in Nat
    <2>1. MedianTime(prev) \in Nat
        BY <1>1, TimesTyped
    <2>2. now \in Nat /\ MaxFuture \in Nat \ {0}
        BY <1>1, Parameters DEF TypeOK
    <2> QED
        BY <1>3, <2>1, <2>2 DEF Times, TemplateTime
<1>6. GetTarget(time, prev) \in 1 .. PowLimit
    <2>1. GetTarget(time, prev) \in 0 .. PowLimit /\ PowLimit \in Nat
        BY <1>1, TargetTyped, Parameters
    <2>2. GetTarget(time, prev) > 0
        BY <1>3 DEF AddHeader, CanBeMet
    <2> QED
        BY <2>1, <2>2
<1>7. SkipHeight(HeightOf(b)) \in 0 .. HeightOf(prev)
    <2>1. HeightOf(b) \in Nat /\ HeightOf(b) > 0 /\ HeightOf(prev) = HeightOf(b) - 1
        BY <1>2, <1>3, PrevFacts
    <2> QED
        BY <2>1, SkipHeightBelow
<1>8. \A main \in DOMAIN entries :
        GetAncestor(main, prev, SkipHeight(HeightOf(b))) = AncestorOf(prev, SkipHeight(HeightOf(b)))
    BY <1>1, <1>7, GetAncestorIs
<1>9. PICK main \in DOMAIN entries :
        entries' = [c \in DOMAIN entries \cup {b} |->
            IF c = b THEN [time |-> time, bits |-> GetTarget(time, prev),
                           skip |-> GetAncestor(main, prev, SkipHeight(HeightOf(b)))]
            ELSE entries[c]]
    BY <1>3 DEF AddHeader
<1>10. entries' = [c \in DOMAIN entries \cup {b} |->
            IF c = b THEN [time |-> time, bits |-> GetTarget(time, prev),
                           skip |-> AncestorOf(prev, SkipHeight(HeightOf(b)))]
            ELSE entries[c]]
    BY <1>8, <1>9
<1>11. /\ DOMAIN entries' = DOMAIN entries \cup {b}
       /\ \A c \in DOMAIN entries : entries'[c] = entries[c]
       /\ entries'[b] = [time |-> time, bits |-> GetTarget(time, prev),
                         skip |-> AncestorOf(prev, SkipHeight(HeightOf(b)))]
    BY <1>2, <1>10
<1>12. fork' = fork /\ now' = now + Spacing /\ last' = b
    BY DEF AddHeader
<1>13. odd' \in 0 .. MaxOdd
    <2>1. odd \in Nat /\ MaxOdd \in Nat
        BY <1>1, Parameters DEF TypeOK
    <2>2. odd' = odd + (IF time = now THEN 0 ELSE 1) + (IF Prev(b) = last THEN 0 ELSE 1)
        BY DEF AddHeader
    <2>3. odd' \in Nat
        BY <2>1, <2>2
    <2>4. odd' <= MaxOdd
        BY DEF AddHeader
    <2> QED
        BY <2>1, <2>3, <2>4
<1> QED
    BY <1>2, <1>3, <1>4, <1>5, <1>6, <1>11, <1>12, <1>13 DEF Added

\* The shape of the headers does not change.
LEMMA SameShape ==
    ASSUME fork' = fork
    PROVE  /\ Headers' = Headers
           /\ \A b : HeightOf(b)' = HeightOf(b) /\ Prev(b)' = Prev(b)
           /\ \A b, h : AncestorOf(b, h)' = AncestorOf(b, h)
BY DEF Headers, HeightOf, Prev, AncestorOf

\* The median times of what was there are what they were.
LEMMA MediansStay ==
    ASSUME IInv, NEW b, NEW time, Added(b, time), NEW c \in DOMAIN entries
    PROVE  MedianTime(c)' = MedianTime(c)
<1>1. Tree /\ Timed /\ fork' = fork
    BY Typed DEF IInv, Added
<1>2. SpanOf(c)' = SpanOf(c) /\ HeightOf(c)' = HeightOf(c)
    BY DEF SpanOf, HeightOf
<1>3. \A i \in 1 .. SpanOf(c) :
        entries'[AncestorOf(c, HeightOf(c) - i + 1)'] = entries[AncestorOf(c, HeightOf(c) - i + 1)]
    <2> TAKE i \in 1 .. SpanOf(c)
    <2>1. HeightOf(c) - i + 1 \in 0 .. HeightOf(c)
        BY <1>1, TimesTyped
    <2>2. AncestorOf(c, HeightOf(c) - i + 1) \in DOMAIN entries
        BY <1>1, <2>1, InTree
    <2>3. AncestorOf(c, HeightOf(c) - i + 1)' = AncestorOf(c, HeightOf(c) - i + 1)
        BY <1>1 DEF AncestorOf, HeightOf
    <2> QED
        BY <2>2, <2>3 DEF Added
<1>4. TimesOf(c)' = TimesOf(c)
    BY <1>2, <1>3 DEF TimesOf
<1>5. MedianTime(c) = MedianOf(TimesOf(c))
    BY DEF MedianTime, TimesOf, SpanOf
<1>6. MedianTime(c)' = MedianOf(TimesOf(c)')
    BY DEF MedianTime, TimesOf, SpanOf
<1> QED
    BY <1>4, <1>5, <1>6

LEMMA AddedTree == ASSUME IInv, NEW b, NEW time, Added(b, time) PROVE Tree'
<1>1. Tree /\ fork \in Forks /\ fork' = fork /\ DOMAIN entries' = DOMAIN entries \cup {b}
      /\ b \in Headers /\ b # Genesis /\ b \notin DOMAIN entries /\ Prev(b) \in DOMAIN entries
    BY DEF IInv, Added, Tree
<1>2. /\ HeightOf(b) \in Nat \ {0} /\ HeightOf(Prev(b)) = HeightOf(b) - 1
      /\ \A h \in 0 .. HeightOf(b) - 1 : AncestorOf(Prev(b), h) = AncestorOf(b, h)
      /\ AncestorOf(b, HeightOf(b)) = b
    BY <1>1, PrevFacts, Shape
<1>3. ASSUME NEW h \in 0 .. HeightOf(b) PROVE AncestorOf(b, h) \in DOMAIN entries'
    <2>1. CASE h = HeightOf(b)
        BY <1>1, <1>2, <2>1
    <2>2. CASE h # HeightOf(b)
        <3>1. h \in 0 .. HeightOf(b) - 1 /\ h \in 0 .. HeightOf(Prev(b))
            BY <1>2, <2>2
        <3> QED
            BY <1>1, <1>2, <3>1, InTree
    <2> QED
        BY <2>1, <2>2
<1>4. \A c \in DOMAIN entries : c \in Headers /\ \A h \in 0 .. HeightOf(c) : AncestorOf(c, h) \in DOMAIN entries'
    BY <1>1, InTree
<1>5. Headers' = Headers /\ \A c : HeightOf(c)' = HeightOf(c) /\ Prev(c)' = Prev(c)
    BY <1>1, SameShape
<1>6. \A c, h : AncestorOf(c, h)' = AncestorOf(c, h)
    BY <1>1, SameShape
<1>7. \A c \in DOMAIN entries' : c \in Headers /\ \A h \in 0 .. HeightOf(c) : AncestorOf(c, h) \in DOMAIN entries'
    BY <1>1, <1>3, <1>4
<1>8. Closed'
    BY <1>1, <1>7 DEF Closed, Headers, HeightOf, AncestorOf
<1>9. \A c \in DOMAIN entries' \ {Genesis} :
        entries'[c].skip = AncestorOf(Prev(c), SkipHeight(HeightOf(c)))
    <2> TAKE c \in DOMAIN entries' \ {Genesis}
    <2>1. CASE c = b
        BY <2>1 DEF Added
    <2>2. CASE c \in DOMAIN entries
        BY <1>1, <2>2 DEF Added, Tree, SkipsRight
    <2> QED
        BY <1>1, <2>1, <2>2
<1>10. SkipsRight'
    BY <1>1, <1>9 DEF SkipsRight, Genesis, HeightOf, Prev, AncestorOf
<1> QED
    BY <1>1, <1>8, <1>10 DEF Tree

LEMMA AddedTyped == ASSUME IInv, NEW b, NEW time, Added(b, time) PROVE TypeOK'
<1>1. /\ Tree /\ TypeOK /\ fork' = fork /\ DOMAIN entries' = DOMAIN entries \cup {b}
      /\ b \in Headers /\ b # Genesis /\ b \notin DOMAIN entries /\ Prev(b) \in DOMAIN entries
      /\ \A c \in DOMAIN entries : entries'[c] = entries[c]
    BY DEF IInv, Added
<1>2. PICK skip : skip = AncestorOf(Prev(b), SkipHeight(HeightOf(b)))
    OBVIOUS
<1>3. skip \in DOMAIN entries /\ skip \in Headers
    <2>1. HeightOf(b) \in Nat /\ HeightOf(b) > 0 /\ HeightOf(Prev(b)) = HeightOf(b) - 1
        BY <1>1, PrevFacts DEF Tree
    <2>2. SkipHeight(HeightOf(b)) \in 0 .. HeightOf(Prev(b))
        BY <2>1, SkipHeightBelow
    <2> QED
        BY <1>1, <1>2, <2>2, InTree
<1>4. /\ entries'[b] = [time |-> time, bits |-> GetTarget(time, Prev(b)), skip |-> skip]
      /\ entries'[b] \in Entry /\ entries'[b].skip = skip
    BY <1>2, <1>3 DEF Added, Entry
<1>5. \A c \in DOMAIN entries' : entries'[c] \in Entry /\ c \in Headers
    BY <1>1, <1>4 DEF TypeOK
<1>6. ASSUME NEW c \in DOMAIN entries' \ {Genesis}
      PROVE  Prev(c) \in DOMAIN entries' /\ entries'[c].skip \in DOMAIN entries'
    <2>1. CASE c = b
        BY <1>1, <1>3, <1>4, <2>1
    <2>2. CASE c \in DOMAIN entries
        BY <1>1, <2>2 DEF TypeOK
    <2> QED
        BY <1>1, <2>1, <2>2
<1>7. Entry' = Entry /\ Headers' = Headers
    BY <1>1 DEF Entry, Headers
<1>8. \A c \in DOMAIN entries' \ {Genesis} : Prev(c)' \in DOMAIN entries' /\ entries'[c].skip \in DOMAIN entries'
    BY <1>1, <1>6 DEF Prev
<1>9. DOMAIN entries' \subseteq Headers' /\ \A c \in DOMAIN entries' : entries'[c] \in Entry'
    BY <1>5, <1>7
<1>10. now' \in Nat /\ last' \in DOMAIN entries' /\ odd' \in 0 .. MaxOdd /\ fork' \in Forks
    BY <1>1, Parameters DEF Added, TypeOK
<1> HIDE DEF Entry, Headers, Prev
<1> QED
    BY <1>8, <1>9, <1>10 DEF TypeOK, Genesis

LEMMA AddedRises == ASSUME IInv, NEW b, NEW time, Added(b, time) PROVE TimesRise'
<1>1. /\ Tree /\ TimesRise /\ fork' = fork /\ DOMAIN entries' = DOMAIN entries \cup {b}
      /\ Prev(b) \in DOMAIN entries /\ \A c \in DOMAIN entries : entries'[c] = entries[c]
    BY DEF IInv, Added
<1>2. ASSUME NEW c \in DOMAIN entries' \ {Genesis}
      PROVE  entries'[c].time > MedianTime(Prev(c))'
    <2>1. Prev(c)' = Prev(c)
        BY <1>1 DEF Prev
    <2>2. Prev(c) \in DOMAIN entries
        BY <1>1, InTree
    <2>3. MedianTime(Prev(c))' = MedianTime(Prev(c))
        <3>1. PICK p \in DOMAIN entries : p = Prev(c)
            BY <2>2
        <3>2. MedianTime(p)' = MedianTime(p)
            BY MediansStay
        <3>3. MedianTime(Prev(c))' = MedianTime(p)'
            BY <1>1, <3>1 DEF MedianTime, HeightOf, AncestorOf, Prev
        <3> QED
            BY <3>1, <3>2, <3>3
    <2>4. entries'[c].time > MedianTime(Prev(c))
        <3>1. CASE c = b
            BY <3>1 DEF Added
        <3>2. CASE c \in DOMAIN entries
            BY <1>1, <3>2 DEF TimesRise
        <3> QED
            BY <1>1, <3>1, <3>2
    <2> QED
        BY <2>3, <2>4
<1> QED
    BY <1>2 DEF TimesRise, Genesis

LEMMA AddedTargets == ASSUME IInv, NEW b, NEW time, Added(b, time) PROVE TargetsOfInterval'
<1>1. /\ Tree /\ TargetsOfInterval /\ fork \in Forks /\ fork' = fork
      /\ DOMAIN entries' = DOMAIN entries \cup {b}
      /\ b \in Headers /\ b # Genesis /\ b \notin DOMAIN entries /\ Prev(b) \in DOMAIN entries
      /\ \A c \in DOMAIN entries : entries'[c] = entries[c]
      /\ entries'[b].bits = GetTarget(time, Prev(b)) /\ entries'[b].time = time
    BY DEF IInv, Added, Tree
<1> DEFINE Fits(c) ==
        \/ entries'[c].bits = entries'[StartOf(c)].bits
        \/ /\ AllowMinDifficulty
           /\ entries'[c].bits = LimitBits
           /\ entries'[c].time > entries'[Prev(c)].time + 2 * Spacing
<1>2. Fits(b)
    <2>1. CASE HeightOf(b) % Interval = 0
        BY <1>1, <2>1, StartFacts
    <2>2. CASE HeightOf(b) % Interval # 0
        <3>1. /\ StartOf(b) \in DOMAIN entries
              /\ \/ GetTarget(time, Prev(b)) = entries[StartOf(b)].bits
                 \/ /\ AllowMinDifficulty
                    /\ GetTarget(time, Prev(b)) = LimitBits
                    /\ time > entries[Prev(b)].time + 2 * Spacing
            BY <1>1, <2>2, TargetIs
        <3> QED
            BY <1>1, <3>1
    <2> QED
        BY <2>1, <2>2
<1>3. ASSUME NEW c \in DOMAIN entries PROVE Fits(c)
    <2>1. c \in Headers
        BY <1>1, InTree
    <2>2. CASE c = Genesis
        <3>1. HeightOf(c) = 0 /\ Interval \in Nat \ {0}
            BY <1>1, <2>1, <2>2, Shape, Parameters
        <3>2. HeightOf(c) % Interval = 0
            BY <3>1
        <3> QED
            BY <1>1, <2>1, <3>2, StartFacts
    <2>3. CASE c # Genesis
        <3>1. Prev(c) \in DOMAIN entries
            BY <1>1, <2>3, InTree
        <3>2. StartOf(c) \in DOMAIN entries
            BY <1>1, <2>1, StartFacts, InTree DEF StartOf
        <3>3. \/ entries[c].bits = entries[StartOf(c)].bits
              \/ /\ AllowMinDifficulty
                 /\ entries[c].bits = LimitBits
                 /\ entries[c].time > entries[Prev(c)].time + 2 * Spacing
            BY <1>1 DEF TargetsOfInterval, StartOf
        <3> QED
            BY <1>1, <3>1, <3>2, <3>3
    <2> QED
        BY <2>2, <2>3
<1>4. \A c \in DOMAIN entries' : Fits(c)
    BY <1>1, <1>2, <1>3
<1>5. ASSUME NEW c \in DOMAIN entries'
      PROVE  LET first == AncestorOf(c, HeightOf(c) - (HeightOf(c) % Interval))' IN
             \/ entries'[c].bits = entries'[first].bits
             \/ /\ AllowMinDifficulty
                /\ entries'[c].bits = LimitBits
                /\ entries'[c].time > entries'[Prev(c)'].time + 2 * Spacing
    <2>1. /\ AncestorOf(c, HeightOf(c) - (HeightOf(c) % Interval))' = StartOf(c)
          /\ Prev(c)' = Prev(c)
        BY <1>1 DEF AncestorOf, HeightOf, Prev, StartOf
    <2> QED
        BY <1>4, <2>1
<1> QED
    BY <1>5 DEF TargetsOfInterval

LEMMA StepInv == ASSUME IInv, [Next]_vars PROVE IInv'
<1>1. ASSUME NEW b \in Headers \ {Genesis}, NEW time \in Times(Prev(b)), AddHeader(b, time)
      PROVE  IInv'
    <2>1. Added(b, time)
        BY <1>1, AddsOne
    <2> QED
        BY <2>1, AddedTyped, AddedTree, AddedRises, AddedTargets DEF IInv
<1>2. ASSUME UNCHANGED vars PROVE IInv'
    <2>1. fork' = fork /\ entries' = entries /\ now' = now /\ last' = last /\ odd' = odd
        BY <1>2 DEF vars
    <2>2. TypeOK'
        BY <2>1 DEF IInv, TypeOK, Entry, Headers, Prev, Genesis
    <2>3. Tree'
        BY <2>1 DEF IInv, Tree, Closed, SkipsRight, Headers, Prev, Genesis, AncestorOf, HeightOf
    <2>4. TimesRise'
        BY <2>1 DEF IInv, TimesRise, MedianTime, Prev, Genesis, AncestorOf, HeightOf
    <2>5. TargetsOfInterval'
        BY <2>1 DEF IInv, TargetsOfInterval, Prev, AncestorOf, HeightOf
    <2> QED
        BY <2>2, <2>3, <2>4, <2>5 DEF IInv
<1> QED
    BY <1>1, <1>2 DEF Next

LEMMA Invariant == Spec => []IInv
<1>1. Init => IInv
    BY InitInv
<1>2. IInv /\ [Next]_vars => IInv'
    BY StepInv
<1> QED
    BY <1>1, <1>2, PTL DEF Spec

\* Every entry has a time, a target between one and the limit and a skip that is an entry,
\* its parent is there, and the miners stay within their bound: whatever add_header is given.
THEOREM TypeCorrect == Spec => []TypeOK
<1>1. IInv => TypeOK
    BY DEF IInv
<1> QED
    BY <1>1, Invariant, PTL

\* get_ancestor, get_next_path and common_ancestor agree with the parents, by whatever skips
\* they go and wherever the main chain ends.
THEOREM SkipsLeadToAncestors == Spec => []AncestorsRight
<1>1. IInv => AncestorsRight
    BY TreeAgrees DEF IInv
<1> QED
    BY <1>1, Invariant, PTL

\* The hash that a peer finds in a locator of get_locator is a common ancestor, no further
\* below the fork than the fork is below the start.
THEOREM LocatorsFindForks == Spec => []LocatorFindsFork
<1>1. IInv => LocatorFindsFork
    BY TreeLocates DEF IInv
<1> QED
    BY <1>1, Invariant, PTL

\* A lock that verify_final or verify_locks accepts is accepted on every header after it: the
\* median time of the past does not go back, whatever times contextual_check_block_header let
\* the miners forge.
THEOREM LocksHold == Spec => []LocksStay
<1>1. IInv => LocksStay
    BY Typed, TreeLocks DEF IInv
<1> QED
    BY <1>1, Invariant, PTL

\* get_target changes the target at the boundaries of intervals only, in any network.
THEOREM TargetsChangeAtBoundaries == Spec => []TargetsOfInterval
<1>1. IInv => TargetsOfInterval
    BY DEF IInv
<1> QED
    BY <1>1, Invariant, PTL
=============================================================================
