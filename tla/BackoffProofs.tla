---------------------------- MODULE BackoffProofs ----------------------------
(***************************************************************************)
(* Proofs about Backoff, for any builds, initial delays, max_attempts and  *)
(* outages, however long: that the pauses follow the documented tables,    *)
(* and where the arithmetic of each build ends.                            *)
(***************************************************************************)
EXTENDS Backoff, NaturalsInduction, WellFoundedInduction, TLAPS

USE BackoffAssumption DEF BackoffAssumption

-----------------------------------------------------------------------------
(* Lemmas about the arithmetic.                                            *)

\* Min, for two numbers.
LEMMA MinOfTwo ==
    ASSUME NEW a \in Int, NEW b \in Int
    PROVE  Min({a, b}) = IF a <= b THEN a ELSE b
<1>1. \E m \in {a, b} : \A y \in {a, b} : m <= y
    OBVIOUS
<1>2. Min({a, b}) \in {a, b} /\ \A y \in {a, b} : Min({a, b}) <= y
    BY <1>1 DEF Min
<1> QED BY <1>2

\* A set of numbers that is not empty has a least one.
LEMMA LeastNumber ==
    ASSUME NEW T, T \subseteq Nat, T # {}
    PROVE  \E i \in T : \A j \in T : i <= j
<1>1. PICK R : R = OpToRel(<, Nat)
    BY Zenon
<1>2. IsWellFoundedOn(R, Nat)
    BY <1>1, NatLessThanWellFounded, Zenon
<1>3. PICK i \in T : \A j \in T : ~(<<j, i>> \in R)
    BY <1>2, WFMin
<1>4. \A j \in T : j < i => <<j, i>> \in R
    BY <1>1 DEF OpToRel
<1>5. \A j \in T : ~(j < i)
    BY <1>3, <1>4
<1> QED BY <1>5

\* The powers of two that a cap lets through.
LEMMA Powers ==
    /\ 2^0 \in Nat \ {0} /\ 2^1 = 2 * 2^0 /\ 2^1 \in Nat \ {0} /\ 2^2 = 2 * 2^1
    /\ 2^2 \in Nat \ {0} /\ 2^3 = 2 * 2^2 /\ 2^3 \in Nat \ {0} /\ 2^4 = 2 * 2^3
    /\ 2^4 \in Nat \ {0} /\ 2^5 = 2 * 2^4 /\ 2^5 \in Nat \ {0} /\ 2^6 = 2 * 2^5
    /\ 2^6 \in Nat \ {0} /\ 2^7 = 2 * 2^6 /\ 2^7 \in Nat \ {0} /\ 2^8 = 2 * 2^7
    /\ 2^8 \in Nat \ {0} /\ 2^9 = 2 * 2^8 /\ 2^9 \in Nat \ {0} /\ 2^10 = 2 * 2^9
    /\ 2^10 \in Nat \ {0} /\ 2^11 = 2 * 2^10 /\ 2^11 \in Nat \ {0} /\ 2^12 = 2 * 2^11
    /\ 2^12 \in Nat \ {0} /\ 2^13 = 2 * 2^12 /\ 2^13 \in Nat \ {0} /\ 2^14 = 2 * 2^13
    /\ 2^14 \in Nat \ {0} /\ 2^15 = 2 * 2^14 /\ 2^15 \in Nat \ {0} /\ 2^16 = 2 * 2^15
    /\ 2^16 \in Nat \ {0} /\ 2^17 = 2 * 2^16 /\ 2^17 \in Nat \ {0} /\ 2^18 = 2 * 2^17
    /\ 2^18 \in Nat \ {0} /\ 2^19 = 2 * 2^18 /\ 2^19 \in Nat \ {0} /\ 2^20 = 2 * 2^19
    /\ 2^20 \in Nat \ {0} /\ 2^21 = 2 * 2^20
  OBVIOUS

\* They are positive, and each is twice the one before. (For any x this would take
\* an induction on the definition of powers.)
LEMMA PowerDoubles ==
    ASSUME NEW x \in 0..20
    PROVE  2^x \in Nat \ {0} /\ 2^(x + 1) = 2 * 2^x
<1>1. PICK y : y = x + 1
    OBVIOUS
<1>2. \/ (x = 0 /\ y = 1) \/ (x = 1 /\ y = 2) \/ (x = 2 /\ y = 3)
      \/ (x = 3 /\ y = 4) \/ (x = 4 /\ y = 5) \/ (x = 5 /\ y = 6)
      \/ (x = 6 /\ y = 7) \/ (x = 7 /\ y = 8) \/ (x = 8 /\ y = 9)
      \/ (x = 9 /\ y = 10) \/ (x = 10 /\ y = 11) \/ (x = 11 /\ y = 12)
      \/ (x = 12 /\ y = 13) \/ (x = 13 /\ y = 14) \/ (x = 14 /\ y = 15)
      \/ (x = 15 /\ y = 16) \/ (x = 16 /\ y = 17) \/ (x = 17 /\ y = 18)
      \/ (x = 18 /\ y = 19) \/ (x = 19 /\ y = 20) \/ (x = 20 /\ y = 21)
    BY <1>1
<1>3. 2^x \in Nat \ {0} /\ 2^y = 2 * 2^x
    BY <1>2, Powers, Zenon
<1> QED BY <1>1, <1>3

\* Below 2^CapBits a product is computed, or cut off at the cap.
LEMMA CappedValue ==
    ASSUME NEW n \in Nat \ {0}, NEW cap \in Nat, NEW x \in 0..CapBits - 1
    PROVE  /\ 2^x \in Nat \ {0}
           /\ Capped(n, x, cap) = IF n * 2^x <= cap THEN n * 2^x ELSE cap
<1>1. 2^x \in Nat \ {0}
    <2>1. x \in 0..20 \/ x = 21
        BY DEF CapBits
    <2>2. 2^21 \in Nat \ {0}
        OBVIOUS
    <2> QED BY <2>1, <2>2, PowerDoubles
<1>2. PICK k \in Nat \ {0} : k = 2^x
    BY <1>1
<1>3. (n > cap \div k) <=> n * k > cap
    OBVIOUS
<1>4. Capped(n, x, cap) = IF n > cap \div k THEN cap ELSE n * k
    BY <1>2 DEF Capped, CapBits
<1>5. n * k \in Nat
    OBVIOUS
<1> QED BY <1>1, <1>2, <1>3, <1>4, <1>5

\* A capped product is between 1 and the cap, unless a factor is 0.
LEMMA CappedRange ==
    ASSUME NEW n \in Nat, NEW cap \in Nat \ {0}, NEW x \in Nat
    PROVE  Capped(n, x, cap) \in 0..cap /\ (n # 0 => Capped(n, x, cap) # 0)
<1>1. CASE n = 0 \/ x >= CapBits
    BY <1>1 DEF Capped
<1>2. CASE n # 0 /\ x \in 0..CapBits - 1
    <2>1. PICK k \in Nat \ {0} :
             k = 2^x /\ Capped(n, x, cap) = IF n * k <= cap THEN n * k ELSE cap
        BY <1>2, CappedValue
    <2>2. n * k \in Nat \ {0}
        BY <1>2
    <2> QED BY <2>1, <2>2
<1> QED BY <1>1, <1>2 DEF CapBits

\* One more in the exponent doubles a capped product, up to the cap.
LEMMA CappedDoubles ==
    ASSUME NEW n \in Nat \ {0}, NEW cap \in Nat \ {0}, cap <= DelayCap, NEW x \in Nat
    PROVE  Capped(n, x + 1, cap) = Min({2 * Capped(n, x, cap), cap})
<1>1. PICK now \in 0..cap : now = Capped(n, x, cap)
    BY CappedRange
<1>2. Min({2 * now, cap}) = IF 2 * now <= cap THEN 2 * now ELSE cap
    BY <1>1, MinOfTwo
<1>3. CASE x \in 0..20
    <2>1. PICK k \in Nat \ {0} : k = 2^x /\ 2^(x + 1) = 2 * k
        BY <1>3, PowerDoubles
    <2>2. x \in 0..CapBits - 1 /\ x + 1 \in 0..CapBits - 1
        BY <1>3 DEF CapBits
    <2>3. PICK m \in Nat : m = n * k /\ n * (2 * k) = 2 * m
        OBVIOUS
    <2>4. now = IF m <= cap THEN m ELSE cap
        BY <1>1, <2>1, <2>2, <2>3, CappedValue
    <2>5. Capped(n, x + 1, cap) = IF 2 * m <= cap THEN 2 * m ELSE cap
        <3>1. Capped(n, x + 1, cap) =
                 IF n * 2^(x + 1) <= cap THEN n * 2^(x + 1) ELSE cap
            BY <2>2, CappedValue
        <3> QED BY <2>1, <2>3, <3>1
    <2> QED BY <1>1, <1>2, <2>4, <2>5
<1>4. CASE x = 21
    <2>1. now = IF n * 2097152 <= cap THEN n * 2097152 ELSE cap
        <3>1. 2^21 = 2097152
            OBVIOUS
        <3> QED BY <1>1, <1>4, <3>1, CappedValue DEF CapBits
    <2>2. Capped(n, x + 1, cap) = cap
        BY <1>4 DEF Capped, CapBits
    <2> QED BY <1>1, <1>2, <2>1, <2>2 DEF DelayCap
<1>5. CASE x >= CapBits
    <2>1. now = cap /\ Capped(n, x + 1, cap) = cap
        BY <1>1, <1>5 DEF Capped, CapBits
    <2> QED BY <1>1, <1>2, <2>1
<1> QED BY <1>3, <1>4, <1>5 DEF CapBits

\* A power of 0 leaves the number, up to the cap.
LEMMA CappedAtZero ==
    ASSUME NEW n \in Nat \ {0}, NEW cap \in Nat \ {0}
    PROVE  Capped(n, 0, cap) = Min({n, cap})
<1>1. Capped(n, 0, cap) = IF n * 1 <= cap THEN n * 1 ELSE cap
    <2>1. 2^0 = 1
        OBVIOUS
    <2> QED BY <2>1, CappedValue DEF CapBits
<1>2. Min({n, cap}) = IF n <= cap THEN n ELSE cap
    BY MinOfTwo
<1> QED BY <1>1, <1>2

\* The documented tables, which double step by step, say what the capped powers
\* compute. The least number of steps at which they differ does not exist.
LEMMA DoubledIsCapped ==
    ASSUME NEW first \in Nat \ {0}, NEW cap \in Nat \ {0}, cap <= DelayCap, NEW n \in Nat
    PROVE  Doubled(first, cap, n) = Capped(first, n, cap)
<1> DEFINE table(d) == [i \in Nat |-> IF i = 0 THEN Min({first, cap})
                                      ELSE Min({2 * d[i - 1], cap})]
           powers   == [i \in Nat |-> Capped(first, i, cap)]
           doubled  == CHOOSE d : d = table(d)
<1>1. powers = table(powers)
    <2> SUFFICES ASSUME NEW i \in Nat PROVE powers[i] = table(powers)[i]
        OBVIOUS
    <2>1. CASE i = 0
        BY <2>1, CappedAtZero
    <2>2. CASE i # 0
        <3>1. PICK j \in Nat : i = j + 1
            BY <2>2
        <3>2. Capped(first, j + 1, cap) = Min({2 * Capped(first, j, cap), cap})
            BY CappedDoubles
        <3>3. i - 1 = j
            BY <3>1
        <3> QED BY <2>2, <3>1, <3>2, <3>3
    <2> QED BY <2>1, <2>2
<1>2. doubled = table(doubled)
    BY <1>1
<1>3. Doubled(first, cap, n) = doubled[n]
    BY DEF Doubled
<1>4. \A i \in Nat : doubled[i] = powers[i]
    <2> HIDE DEF powers, doubled
    <2> DEFINE T == {i \in Nat : doubled[i] # powers[i]}
    <2> SUFFICES ASSUME T # {} PROVE FALSE
        OBVIOUS
    <2>1. PICK i \in T : \A j \in T : i <= j
        BY LeastNumber
    <2>2. i # 0
        BY <1>1, <1>2
    <2>3. i - 1 \in Nat /\ i - 1 \notin T
        BY <2>1, <2>2
    <2>4. doubled[i - 1] = powers[i - 1]
        BY <2>3
    <2> QED BY <1>1, <1>2, <2>4
<1> QED BY <1>3, <1>4

-----------------------------------------------------------------------------
(* What record_failure sets.                                               *)

\* Both caps are below 2^CapBits.
LEMMA Caps == Cap \in Nat \ {0} /\ DelayCap \in Nat \ {0} /\ Cap <= DelayCap
  BY DEF Cap, DelayCap

\* Both computations of the circuit's duration agree with 5 * 2^x, capped, as
\* long as not all of it is shifted out of a word.
LEMMA OpenMinutesIsCapped ==
    ASSUME build \in Builds, NEW x \in Nat, build = "postgres" \/ x < WordBits
    PROVE  OpenMinutes(x) = Capped(5, x, Cap)
<1>1. CASE build = "postgres"
    <2>1. OpenMinutes(x) = 5 * Capped(1, x, 64)
        BY <1>1 DEF OpenMinutes, Cap
    <2>2. CASE x >= CapBits
        BY <2>1, <2>2 DEF Capped, Cap
    <2>3. CASE x \in 0..CapBits - 1
        <3>1. PICK k \in Nat \ {0} : k = 2^x
            BY <2>3, CappedValue
        <3>2. Capped(1, x, 64) = IF 1 * k <= 64 THEN 1 * k ELSE 64
            BY <2>3, <3>1, CappedValue
        <3>3. Capped(5, x, 320) = IF 5 * k <= 320 THEN 5 * k ELSE 320
            BY <2>3, <3>1, CappedValue
        <3> QED BY <2>1, <3>2, <3>3 DEF Cap
    <2> QED BY <2>2, <2>3 DEF CapBits
<1>2. CASE build # "postgres"
    <2>1. OpenMinutes(x) = Capped(Kept(x, WordBits), x, Cap)
        BY <1>2 DEF OpenMinutes
    <2>2. CASE x <= 61
        BY <2>1, <2>2 DEF Kept, WordBits
    <2>3. CASE x \in {62, 63}
        <3>1. 5 % 2^2 = 1 /\ 5 % 2^1 = 1
            OBVIOUS
        <3>2. PICK left : left = 64 - x
            OBVIOUS
        <3>3. left \in {1, 2} /\ Kept(x, WordBits) = 5 % 2^left
            BY <2>3, <3>2 DEF Kept, WordBits
        <3>4. Kept(x, WordBits) = 1
            BY <3>1, <3>3
        <3> QED BY <2>1, <2>3, <3>4 DEF Capped, CapBits, Cap
    <2> QED BY <1>2, <2>2, <2>3 DEF WordBits
<1> QED BY <1>1, <1>2

\* It is a duration of at most Cap minutes whatever the build.
LEMMA OpenMinutesRange ==
    ASSUME build \in Builds, NEW x \in Nat
    PROVE  OpenMinutes(x) \in 0..Cap
<1>1. CASE build = "postgres" \/ x < WordBits
    BY <1>1, OpenMinutesIsCapped, CappedRange, Caps
<1>2. CASE build # "postgres" /\ x >= WordBits
    <2>1. Kept(x, WordBits) = 0
        BY <1>2 DEF Kept, WordBits
    <2> QED BY <1>2, <2>1 DEF OpenMinutes, Capped, Cap
<1> QED BY <1>1, <1>2 DEF WordBits

\* It does not shrink from one failure to the next.
LEMMA OpenMinutesGrows ==
    ASSUME build \in Builds, NEW x \in Nat, build = "postgres" \/ x + 1 < WordBits
    PROVE  OpenMinutes(x + 1) >= OpenMinutes(x)
<1>1. OpenMinutes(x) = Capped(5, x, Cap) /\ OpenMinutes(x + 1) = Capped(5, x + 1, Cap)
    BY OpenMinutesIsCapped DEF WordBits
<1>2. PICK now \in 0..Cap : now = Capped(5, x, Cap)
    BY CappedRange, Caps
<1>3. Capped(5, x + 1, Cap) = Min({2 * now, Cap})
    BY <1>2, CappedDoubles, Caps
<1>4. Min({2 * now, Cap}) = IF 2 * now <= Cap THEN 2 * now ELSE Cap
    BY <1>2, MinOfTwo, Caps
<1> QED BY <1>1, <1>2, <1>3, <1>4, Caps

\* The bounds of a delay are numbers, in order, and the upper one is the capped
\* product.
LEMMA NextDelayBounds ==
    ASSUME initial \in InitialDelays, NEW n \in Nat
    PROVE  /\ NextDelay(n) \in Nat \X Nat
           /\ NextDelay(n)[1] = Min({initial, DelayCap})
           /\ NextDelay(n)[2] = Capped(initial, n, DelayCap)
           /\ NextDelay(n)[1] <= NextDelay(n)[2]
<1>1. PICK shift \in Nat : shift = Min({n, 62}) /\ shift = IF n <= 62 THEN n ELSE 62
    BY MinOfTwo
<1>2. PICK ceiling : ceiling = Capped(initial, shift, DelayCap)
    OBVIOUS
<1>3. ceiling = Capped(initial, n, DelayCap)
    <2>1. CASE n <= 62
        BY <1>1, <1>2, <2>1
    <2>2. CASE n > 62
        <3>1. shift >= CapBits /\ n >= CapBits
            BY <1>1, <2>2 DEF CapBits
        <3> QED BY <1>2, <3>1 DEF Capped
    <2> QED BY <2>1, <2>2
<1>4. ceiling \in 0..DelayCap /\ initial \in Nat \ {0}
    BY <1>1, <1>2, CappedRange, Caps
<1>5. initial <= ceiling \/ ceiling = DelayCap
    <2>1. CASE n >= CapBits
        BY <1>3, <1>4, <2>1 DEF Capped
    <2>2. CASE n \in 0..CapBits - 1
        <3>1. PICK k \in Nat \ {0} : k = 2^n
            BY <2>2, <1>4, CappedValue, Caps
        <3>2. Capped(initial, n, DelayCap) = IF initial * 2^n <= DelayCap
                                             THEN initial * 2^n ELSE DelayCap
            BY <2>2, <1>4, CappedValue, Caps, Zenon
        <3>3. PICK m \in Nat : m = initial * k
            BY <1>4, <3>1
        <3>4. initial <= m
            BY <1>4, <3>1, <3>3
        <3>5. ceiling = IF m <= DelayCap THEN m ELSE DelayCap
            BY <1>3, <3>1, <3>2, <3>3, Zenon
        <3> QED BY <3>4, <3>5
    <2> QED BY <2>1, <2>2 DEF CapBits
<1>6. /\ Min({initial, ceiling}) = IF initial <= ceiling THEN initial ELSE ceiling
      /\ Min({initial, DelayCap}) = IF initial <= DelayCap THEN initial ELSE DelayCap
    BY <1>4, MinOfTwo, Caps
<1>7. PICK floor \in Nat : floor = Min({initial, ceiling}) /\ floor <= ceiling
    BY <1>4, <1>6, Caps
<1>8. floor = Min({initial, DelayCap})
    BY <1>4, <1>5, <1>6, <1>7, Caps
<1>9. NextDelay(n) = <<floor, ceiling>>
    BY <1>1, <1>2, <1>7, Zenon DEF NextDelay
<1> QED BY <1>3, <1>4, <1>7, <1>8, <1>9, Caps

-----------------------------------------------------------------------------
(* The invariant.                                                          *)

\* An endpoint that works, or one that has long been down, has the pauses of its
\* counts.
LEMMA PausesInit == Init => BackoffInv
<1> SUFFICES ASSUME Init PROVE BackoffInv
    OBVIOUS
<1> USE DEF Init
<1>1. minutes \in 0..Cap
    <2>1. CASE minutes = 0
        BY <2>1 DEF Cap
    <2>2. CASE minutes = OpenMinutes(LongOutage - Threshold)
        <3>1. LongOutage - Threshold \in Nat
            BY DEF Threshold
        <3> QED BY <2>2, <3>1, OpenMinutesRange
    <2> QED BY <2>1, <2>2
<1>2. TypeOK
    <2>1. failures \in 0..LongOutage + Stretch /\ attempts \in 0..MaxAttempts
        OBVIOUS
    <2>2. delay \in Nat \X Nat
        OBVIOUS
    <2> QED BY <1>1, <2>1, <2>2 DEF TypeOK
<1>3. PausesFollowCounts
    BY DEF PausesFollowCounts, Threshold, WordBits
<1> QED BY <1>2, <1>3 DEF BackoffInv

\* Every step sets the pauses of the counts it leaves.
LEMMA PausesNext == BackoffInv /\ [Next]_vars => BackoffInv'
<1> SUFFICES ASSUME BackoffInv, [Next]_vars PROVE BackoffInv'
    OBVIOUS
<1>1. TypeOK /\ PausesFollowCounts
    BY DEF BackoffInv
<1>2. CASE UNCHANGED vars
    BY <1>1, <1>2 DEF vars, BackoffInv, TypeOK, PausesFollowCounts, OpenMinutes, NextDelay
<1>3. ASSUME Next PROVE build' = build /\ initial' = initial
    BY <1>3 DEF Next
<1>4. CASE Next /\ CountFailure
    <2>1. failures' = failures + 1 /\ failures' \in 0..LongOutage + Stretch
        BY <1>1, <1>4 DEF CountFailure, Followed, TypeOK
    <2>2. minutes' = IF failures' < Threshold THEN 0 ELSE OpenMinutes(failures' - Threshold)
        <3>1. PICK x : x = failures + 1 - Threshold
            OBVIOUS
        <3>2. minutes' = IF failures + 1 < Threshold THEN 0 ELSE OpenMinutes(x)
            BY <1>4, <3>1, Zenon DEF CountFailure
        <3>3. failures' - Threshold = x /\ (failures + 1 < Threshold <=> failures' < Threshold)
            BY <1>1, <2>1, <3>1 DEF TypeOK, Threshold
        <3> QED BY <3>2, <3>3, Zenon
    <2>3. OpenMinutes(failures - Threshold)' = OpenMinutes(failures' - Threshold)
        BY <1>3, <1>4 DEF OpenMinutes
    <2>4. minutes' \in 0..Cap
        <3>1. CASE failures' < Threshold
            BY <2>2, <3>1 DEF Cap
        <3>2. CASE failures' >= Threshold
            <4>1. failures' - Threshold \in Nat
                BY <2>1, <3>2 DEF Threshold
            <4> QED BY <1>1, <2>1, <2>2, <3>2, <4>1, OpenMinutesRange DEF TypeOK, Threshold
        <3> QED BY <2>1, <3>1, <3>2 DEF Threshold
    <2>5. circuit' \in {"closed", "open", "elapsed"}
        BY <1>4 DEF CountFailure
    <2>6. CASE UNCHANGED <<attempts, delay>>
        <3>1. TypeOK'
            BY <1>1, <1>3, <1>4, <2>1, <2>4, <2>5, <2>6 DEF CountFailure, TypeOK
        <3>2. NextDelay(attempts)' = NextDelay(attempts)
            BY <1>3, <1>4, <2>6 DEF NextDelay
        <3>3. build' = "sqlite_debug" => failures' < Threshold + WordBits
            BY <1>1, <1>3, <1>4, <2>1 DEF CountFailure, Overflows, TypeOK, Threshold, WordBits
        <3>4. attempts' \in 1..MaxAttempts - 1 => delay' = NextDelay(attempts)'
            BY <1>1, <2>6, <3>2 DEF PausesFollowCounts
        <3> QED BY <2>2, <2>3, <3>1, <3>3, <3>4 DEF BackoffInv, PausesFollowCounts
    <2>7. CASE attempts < MaxAttempts /\ ScheduleRetry
        <3>1. attempts' = attempts + 1 /\ attempts' \in 0..MaxAttempts
            BY <1>1, <2>7 DEF TypeOK, ScheduleRetry
        <3>2. delay' = IF attempts' >= MaxAttempts THEN delay ELSE NextDelay(attempts')
            BY <2>7, <3>1 DEF ScheduleRetry
        <3>3. delay' \in Nat \X Nat
            BY <1>1, <3>1, <3>2, NextDelayBounds DEF TypeOK
        <3>4. TypeOK'
            BY <1>1, <1>3, <1>4, <2>1, <2>4, <2>5, <3>1, <3>3 DEF CountFailure, TypeOK
        <3>5. NextDelay(attempts)' = NextDelay(attempts')
            BY <1>3, <1>4 DEF NextDelay
        <3>6. build' = "sqlite_debug" => failures' < Threshold + WordBits
            BY <1>1, <1>3, <1>4, <2>1 DEF CountFailure, Overflows, TypeOK, Threshold, WordBits
        <3>7. attempts' \in 1..MaxAttempts - 1 => delay' = NextDelay(attempts)'
            BY <3>2, <3>5
        <3> QED BY <2>2, <2>3, <3>4, <3>6, <3>7 DEF BackoffInv, PausesFollowCounts
    <2> QED BY <1>4, <2>6, <2>7 DEF CountFailure
<1>5. CASE Next /\ FailToCount
    BY <1>1, <1>3, <1>5
       DEF FailToCount, BackoffInv, TypeOK, PausesFollowCounts, OpenMinutes, NextDelay
<1>6. CASE Next /\ ResetCircuit
    <2>1. attempts' = attempts \/ attempts' = 0
        BY <1>6 DEF ResetCircuit
    <2>2. TypeOK'
        BY <1>1, <1>3, <1>6, <2>1 DEF ResetCircuit, TypeOK, Cap
    <2>3. attempts' \in 1..MaxAttempts - 1 => delay' = NextDelay(attempts)'
        <3>1. CASE attempts' = attempts
            BY <1>1, <1>3, <1>6, <3>1 DEF ResetCircuit, PausesFollowCounts, NextDelay
        <3>2. CASE attempts' = 0
            BY <3>2
        <3> QED BY <2>1, <3>1, <3>2
    <2>4. failures' = 0 /\ minutes' = 0
        BY <1>6 DEF ResetCircuit
    <2> QED BY <2>2, <2>3, <2>4 DEF BackoffInv, PausesFollowCounts, Threshold, WordBits
<1>7. CASE Next /\ Elapse
    BY <1>1, <1>3, <1>7
       DEF Elapse, BackoffInv, TypeOK, PausesFollowCounts, OpenMinutes, NextDelay
<1> QED BY <1>2, <1>4, <1>5, <1>6, <1>7 DEF Next

\* The invariant holds in every state.
LEMMA PausesInvariance == Spec => []BackoffInv
  BY PausesInit, PausesNext, PTL DEF Spec

\* Counts, pauses and bounds keep their types, for any builds and however long
\* the endpoint is down.
THEOREM TypeCorrect == Spec => []TypeOK
<1>1. BackoffInv => TypeOK
    BY DEF BackoffInv
<1> QED BY <1>1, PausesInvariance, PTL

\* POWER in SQL and u64 arithmetic in Rust open the circuit for what the table of
\* docs/02-circuit-breaker.md says, for every count of failures, until the word
\* of a release build has wrapped.
THEOREM DurationsCorrect == Spec => []DurationsFollowTable
<1>1. BackoffInv => DurationsFollowTable
    <2> SUFFICES ASSUME BackoffInv, ~Wrapped
                 PROVE  minutes = IF failures < Threshold THEN 0
                                  ELSE Doubled(5, Cap, Min({failures - Threshold, 20}))
        BY DEF DurationsFollowTable
    <2>1. /\ build \in Builds /\ failures \in Nat
          /\ minutes = IF failures < Threshold THEN 0 ELSE OpenMinutes(failures - Threshold)
          /\ build = "postgres" \/ failures < Threshold + WordBits
        BY DEF BackoffInv, TypeOK, PausesFollowCounts, Wrapped, Threshold, WordBits
    <2>2. CASE failures < Threshold
        BY <2>1, <2>2
    <2>3. CASE failures >= Threshold
        <3>1. PICK x \in Nat : x = failures - Threshold
            BY <2>1, <2>3 DEF Threshold
        <3>2. minutes = Capped(5, x, Cap)
            BY <2>1, <2>3, <3>1, OpenMinutesIsCapped DEF Threshold, WordBits
        <3>3. PICK y \in Nat : y = Min({x, 20}) /\ y = IF x <= 20 THEN x ELSE 20
            BY MinOfTwo
        <3>4. Doubled(5, Cap, y) = Capped(5, y, Cap)
            BY DoubledIsCapped DEF Cap, DelayCap
        <3>5. Capped(5, y, Cap) = Capped(5, x, Cap)
            <4>1. CASE x <= 20
                BY <3>3, <4>1
            <4>2. CASE x > 20
                <5>1. Capped(5, 20, Cap) = Cap
                    <6>1. 2^20 = 1048576
                        OBVIOUS
                    <6> QED BY <6>1, CappedValue DEF CapBits, Cap
                <5>2. Capped(5, 21, Cap) = Cap
                    <6>1. 2^21 = 2097152
                        OBVIOUS
                    <6> QED BY <6>1, CappedValue DEF CapBits, Cap
                <5>3. x = 21 \/ x >= CapBits
                    BY <4>2 DEF CapBits
                <5> QED BY <3>3, <4>2, <5>1, <5>2, <5>3 DEF Capped
            <4> QED BY <4>1, <4>2
        <3> QED BY <2>1, <2>3, <3>1, <3>2, <3>3, <3>4, <3>5 DEF Threshold
    <2> QED BY <2>1, <2>2, <2>3 DEF Threshold
<1> QED BY <1>1, PausesInvariance, PTL

\* next_delay draws from the range that the table of webhooksmith/README.md gives,
\* for any initial delay and however often the event is tried, and the range is
\* never empty.
THEOREM DelaysCorrect == Spec => []DelaysFollowTable
<1>1. BackoffInv => DelaysFollowTable
    <2> SUFFICES ASSUME BackoffInv, attempts \in 1..MaxAttempts - 1
                 PROVE  /\ delay[2] = Doubled(initial, DelayCap, Min({attempts, 25}))
                        /\ delay[1] = Min({initial, DelayCap})
                        /\ delay[1] <= delay[2]
        BY DEF DelaysFollowTable
    <2>1. delay = NextDelay(attempts) /\ attempts \in Nat /\ initial \in InitialDelays
        BY DEF BackoffInv, TypeOK, PausesFollowCounts
    <2>2. PICK y \in Nat : y = Min({attempts, 25}) /\ y = IF attempts <= 25 THEN attempts ELSE 25
        BY <2>1, MinOfTwo
    <2>3. Capped(initial, y, DelayCap) = Capped(initial, attempts, DelayCap)
        BY <2>1, <2>2 DEF Capped, CapBits
    <2>4. Doubled(initial, DelayCap, y) = Capped(initial, y, DelayCap)
        BY <2>1, DoubledIsCapped DEF DelayCap
    <2> QED BY <2>1, <2>2, <2>3, <2>4, NextDelayBounds
<1> QED BY <1>1, PausesInvariance, PTL

\* A circuit that has opened is never reopened for a shorter time, and a new
\* failure never leaves it elapsed, until somebody closes it or the word wraps.
THEOREM BackingOff == Spec => BacksOff
<1>1. ASSUME BackoffInv, [Next]_vars, circuit' # "closed", ~Wrapped'
      PROVE  minutes' >= minutes /\ (failures' # failures => circuit' = "open")
    <2>1. /\ build \in Builds /\ failures \in Nat /\ minutes \in Nat
          /\ minutes = IF failures < Threshold THEN 0 ELSE OpenMinutes(failures - Threshold)
          /\ BackoffInv'
        BY <1>1, PausesNext DEF BackoffInv, TypeOK, PausesFollowCounts
    <2>2. CASE minutes' = minutes /\ failures' = failures
        BY <2>1, <2>2
    <2>3. CASE CountFailure /\ build' = build
        <3>1. failures' = failures + 1 /\ failures + 1 >= Threshold
            BY <1>1, <2>1, <2>3 DEF CountFailure, Threshold
        <3>2. PICK x \in Nat : x = failures + 1 - Threshold
            BY <2>1, <3>1 DEF Threshold
        <3>3. minutes' = OpenMinutes(x) /\ circuit' = IF minutes' = 0 THEN "elapsed" ELSE "open"
            BY <2>1, <2>3, <3>1, <3>2 DEF CountFailure, Threshold
        <3>4. build = "postgres" \/ x < WordBits
            <4>1. build' = "sqlite_debug" => failures' < Threshold + WordBits
                BY <2>1 DEF BackoffInv, PausesFollowCounts
            <4>2. build = "sqlite_release" => failures' < Threshold + WordBits
                BY <1>1, <2>1, <2>3, <3>1 DEF Wrapped, Threshold, WordBits
            <4>3. build = "postgres" \/ failures + 1 < Threshold + WordBits
                BY <2>1, <2>3, <3>1, <4>1, <4>2
            <4> QED BY <2>1, <3>2, <4>3 DEF Threshold, WordBits
        <3>5. minutes' # 0 /\ minutes' \in Nat
            <4>1. OpenMinutes(x) = Capped(5, x, Cap)
                BY <2>1, <3>4, OpenMinutesIsCapped
            <4>2. Capped(5, x, Cap) \in 0..Cap /\ Capped(5, x, Cap) # 0
                BY CappedRange, Caps
            <4> QED BY <3>3, <4>1, <4>2, Caps
        <3>6. minutes' >= minutes
            <4>1. CASE failures < Threshold
                BY <2>1, <3>5, <4>1
            <4>2. CASE failures >= Threshold
                <5>1. PICK y \in Nat : y = failures - Threshold /\ x = y + 1
                    BY <2>1, <3>2, <4>2 DEF Threshold
                <5>2. minutes = OpenMinutes(y)
                    BY <2>1, <4>2, <5>1 DEF Threshold
                <5>3. OpenMinutes(y + 1) >= OpenMinutes(y)
                    BY <2>1, <3>4, <5>1, OpenMinutesGrows
                <5> QED BY <3>3, <5>1, <5>2, <5>3
            <4> QED BY <2>1, <4>1, <4>2 DEF Threshold
        <3> QED BY <3>3, <3>5, <3>6
    <2>4. CASE ResetCircuit
        BY <1>1, <2>4 DEF ResetCircuit
    <2>5. CASE FailToCount \/ Elapse
        BY <2>2, <2>5 DEF FailToCount, Elapse
    <2>6. CASE UNCHANGED vars
        BY <2>2, <2>6 DEF vars
    <2> QED BY <1>1, <2>3, <2>4, <2>5, <2>6 DEF Next
<1>2. BackoffInv /\ [Next]_vars =>
         [circuit' # "closed" /\ ~Wrapped' =>
             minutes' >= minutes /\ (failures' # failures => circuit' = "open")]_vars
    BY <1>1
<1> QED BY <1>2, PausesInvariance, PTL DEF Spec, BacksOff

-----------------------------------------------------------------------------
(* Where the arithmetic ends.                                              *)

\* The failure count beyond which a build's arithmetic fails.
LEMMA OverflowsBeyond ==
    ASSUME build \in Builds, failures \in Nat, Overflows(failures + 1 - Threshold)
    PROVE  failures >= (IF build = "postgres" THEN 1028 ELSE 66)
  BY DEF Overflows, Threshold, MaxPower, WordBits

\* POWER(2, x) is in range up to the 1028th failure in a row over PostgreSQL, and
\* 5 * 2^x fits a u64 up to the 66th over SQLite: up to there record_failure
\* never rolls back, and never unwinds the run loop.
THEOREM FailuresCount == Spec => EveryFailureCounts
<1>1. ASSUME BackoffInv, [Next]_vars, lost' # lost
      PROVE  failures >= (IF build = "postgres" THEN 1028 ELSE 66)
    <2>1. FailToCount
        BY <1>1 DEF Next, CountFailure, ResetCircuit, Elapse, vars
    <2>2. build \in Builds /\ failures \in Nat
        BY <1>1 DEF BackoffInv, TypeOK
    <2> QED BY <2>1, <2>2, OverflowsBeyond DEF FailToCount
<1>2. BackoffInv /\ [Next]_vars =>
         [lost' # lost => failures >= (IF build = "postgres" THEN 1028 ELSE 66)]_vars
    BY <1>1
<1> QED BY <1>2, PausesInvariance, PTL DEF Spec, EveryFailureCounts
=============================================================================
