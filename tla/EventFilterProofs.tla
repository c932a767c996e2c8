-------------------------- MODULE EventFilterProofs --------------------------
(***************************************************************************)
(* Proofs about EventFilter, for any endpoints, event types and patterns.  *)
(***************************************************************************)
EXTENDS EventFilter, SequenceTheorems, WellFoundedInduction, TLAPS

USE EventFilterAssumption DEF EventFilterAssumption

-----------------------------------------------------------------------------
(* Sequences.                                                              *)

\* What event types and patterns are made of, with the characters the code looks
\* for named one by one.
Chars == STRING \cup {".", "*", "%"}

\* Event types and patterns are texts.
LEMMA TextTypes == EventTypes \cup Patterns \subseteq Seq(Chars)
  BY SeqMonotonic DEF Chars

\* What IsPrefix compares.
LEMMA PrefixShape ==
    ASSUME NEW s \in Seq(Chars), NEW t \in Seq(Chars)
    PROVE  IsPrefix(s, t) <=> Len(s) <= Len(t) /\ \A i \in 1..Len(s) : s[i] = t[i]
<1>0. /\ Len(s) \in Nat /\ Len(t) \in Nat
      /\ \A i \in 1..Len(s) : s[i] \in Chars
      /\ \A i \in 1..Len(t) : t[i] \in Chars
    BY LenProperties, ElementOfSeq
<1> SUFFICES ASSUME Len(s) <= Len(t)
             PROVE  SubSeq(s, 1, Len(s)) = SubSeq(t, 1, Len(s))
                       <=> \A i \in 1..Len(s) : s[i] = t[i]
    BY DEF IsPrefix
<1> DEFINE u == SubSeq(t, 1, Len(s))
<1>1. SubSeq(s, 1, Len(s)) = s
    BY SubSeqFull
<1>2. /\ u \in Seq(Chars) /\ Len(u) = Len(s)
      /\ \A i \in 1..Len(s) : u[i] = t[i]
    <2>1. \A i \in 1..Len(s) : t[i] \in Chars
        BY <1>0
    <2>2. /\ u \in Seq(Chars) /\ Len(u) = IF 1 <= Len(s) THEN Len(s) - 1 + 1 ELSE 0
          /\ \A i \in 1..Len(s) - 1 + 1 : u[i] = t[1 + i - 1]
        BY <1>0, <2>1, SubSeqProperties
    <2>3. \A i \in 1..Len(s) : i \in 1..Len(s) - 1 + 1 /\ 1 + i - 1 = i
        BY <1>0
    <2> QED BY <1>0, <2>2, <2>3
<1> HIDE DEF u
<1>3. ASSUME \A i \in 1..Len(s) : s[i] = t[i] PROVE s = u
    BY <1>2, <1>3, SeqEqual
<1> QED BY <1>1, <1>2, <1>3 DEF u

\* Sequences of two.
LEMMA PairShape ==
    ASSUME NEW S, NEW a \in S, NEW b \in S
    PROVE  /\ <<a, b>> \in Seq(S) /\ Len(<<a, b>>) = 2
           /\ <<a, b>>[1] = a /\ <<a, b>>[2] = b
  OBVIOUS

\* Reversing keeps the length.
LEMMA ReverseShape ==
    ASSUME NEW S, NEW s \in Seq(S)
    PROVE  /\ Reverse(s) \in Seq(S) /\ Len(Reverse(s)) = Len(s)
           /\ \A i \in 1..Len(s) : Reverse(s)[i] = s[Len(s) - i + 1]
<1> DEFINE r == Reverse(s)
<1>1. Len(s) \in Nat
    BY LenProperties
<1>2. \A i \in 1..Len(s) : Len(s) - i + 1 \in 1..Len(s)
    BY <1>1
<1>3. r \in [1..Len(s) -> S]
    BY <1>2, ElementOfSeq DEF Reverse
<1>4. r \in Seq(S)
    BY <1>1, <1>3, SeqDef
<1>5. 1..Len(r) = 1..Len(s) /\ Len(r) \in Nat
    BY <1>3, <1>4, LenProperties
<1>6. Len(r) = Len(s)
    BY <1>1, <1>5
<1> QED BY <1>4, <1>6 DEF Reverse

\* A wildcard pattern is one that ends in a dot and an asterisk.
LEMMA WildcardShape ==
    ASSUME NEW pattern \in Seq(Chars)
    PROVE  IsWildcard(pattern) <=>
              /\ Len(pattern) >= 2
              /\ pattern[Len(pattern) - 1] = "." /\ pattern[Len(pattern)] = "*"
<1> DEFINE s == <<".", "*">>
<1>1. s \in Seq(Chars) /\ Len(s) = 2 /\ s[1] = "." /\ s[2] = "*"
    <2>1. "." \in Chars /\ "*" \in Chars
        BY DEF Chars
    <2> QED BY <2>1, PairShape
<1> HIDE DEF s
<1>2. /\ Reverse(s) \in Seq(Chars) /\ Len(Reverse(s)) = 2
      /\ Reverse(s)[1] = "*" /\ Reverse(s)[2] = "."
    <2>1. 1 \in 1..Len(s) /\ 2 \in 1..Len(s) /\ Len(s) - 1 + 1 = 2 /\ Len(s) - 2 + 1 = 1
        BY <1>1
    <2> QED BY <1>1, <2>1, ReverseShape
<1>3. /\ Reverse(pattern) \in Seq(Chars) /\ Len(Reverse(pattern)) = Len(pattern)
      /\ \A i \in 1..Len(pattern) : Reverse(pattern)[i] = pattern[Len(pattern) - i + 1]
      /\ Len(pattern) \in Nat
    BY ReverseShape, LenProperties
<1>4. IsWildcard(pattern) <=>
         Len(pattern) >= 2 /\ \A i \in 1..2 : Reverse(s)[i] = Reverse(pattern)[i]
    <2>1. PICK r, q : r = Reverse(s) /\ q = Reverse(pattern)
        OBVIOUS
    <2>2. r \in Seq(Chars) /\ q \in Seq(Chars)
        BY <1>2, <1>3, <2>1
    <2>3. IsPrefix(r, q) <=> Len(r) <= Len(q) /\ \A i \in 1..Len(r) : r[i] = q[i]
        BY <2>2, PrefixShape
    <2>4. IsWildcard(pattern) <=> IsPrefix(r, q)
        BY <2>1 DEF IsWildcard, IsSuffix, s
    <2> QED BY <1>2, <1>3, <2>1, <2>3, <2>4
<1>5. Len(pattern) >= 2 =>
         /\ Reverse(pattern)[1] = pattern[Len(pattern)]
         /\ Reverse(pattern)[2] = pattern[Len(pattern) - 1]
    <2> SUFFICES ASSUME Len(pattern) >= 2
                 PROVE  /\ Reverse(pattern)[1] = pattern[Len(pattern)]
                        /\ Reverse(pattern)[2] = pattern[Len(pattern) - 1]
        OBVIOUS
    <2>1. /\ 1 \in 1..Len(pattern) /\ Len(pattern) - 1 + 1 = Len(pattern)
          /\ 2 \in 1..Len(pattern) /\ Len(pattern) - 2 + 1 = Len(pattern) - 1
        BY <1>3
    <2> QED BY <1>3, <2>1
<1>6. \A i \in 1..2 : i = 1 \/ i = 2
    OBVIOUS
<1> QED BY <1>2, <1>4, <1>5, <1>6

\* What is left of a pattern without its last two characters.
LEMMA StemShape ==
    ASSUME NEW pattern \in Seq(Chars), Len(pattern) >= 2
    PROVE  /\ Stem(pattern) \in Seq(Chars) /\ Len(Stem(pattern)) = Len(pattern) - 2
           /\ \A i \in 1..Len(pattern) - 2 : Stem(pattern)[i] = pattern[i]
<1>0. Len(pattern) \in Nat /\ \A i \in 1..Len(pattern) : pattern[i] \in Chars
    BY LenProperties, ElementOfSeq
<1>1. PICK n \in Nat : n = Len(pattern) - 2
    BY <1>0
<1>2. \A i \in 1..n : pattern[i] \in Chars
    BY <1>0, <1>1
<1>3. /\ SubSeq(pattern, 1, n) \in Seq(Chars)
      /\ Len(SubSeq(pattern, 1, n)) = IF 1 <= n THEN n - 1 + 1 ELSE 0
      /\ \A i \in 1..n - 1 + 1 : SubSeq(pattern, 1, n)[i] = pattern[1 + i - 1]
    BY <1>2, SubSeqProperties
<1>4. \A i \in 1..n : i \in 1..n - 1 + 1 /\ 1 + i - 1 = i
    OBVIOUS
<1> QED BY <1>1, <1>3, <1>4 DEF Stem

\* The first characters of a text.
LEMMA StartShape ==
    ASSUME NEW type \in Seq(Chars), NEW n \in 0..Len(type)
    PROVE  /\ SubSeq(type, 1, n) \in Seq(Chars) /\ Len(SubSeq(type, 1, n)) = n
           /\ \A i \in 1..n : SubSeq(type, 1, n)[i] = type[i]
<1>0. n \in Nat /\ \A i \in 1..n : type[i] \in Chars
    BY LenProperties, ElementOfSeq
<1>1. /\ SubSeq(type, 1, n) \in Seq(Chars)
      /\ Len(SubSeq(type, 1, n)) = IF 1 <= n THEN n - 1 + 1 ELSE 0
      /\ \A i \in 1..n - 1 + 1 : SubSeq(type, 1, n)[i] = type[1 + i - 1]
    BY <1>0, SubSeqProperties
<1>2. \A i \in 1..n : i \in 1..n - 1 + 1 /\ 1 + i - 1 = i
    BY <1>0
<1> QED BY <1>0, <1>1, <1>2

-----------------------------------------------------------------------------
(* Patterns.                                                               *)

\* The text starts with the stem and a dot.
Below(stem, type) ==
    /\ Len(stem) < Len(type)
    /\ \A i \in 1..Len(stem) : stem[i] = type[i]
    /\ type[Len(stem) + 1] = "."

\* What event_matches_filter compares.
LEMMA PrefixBelow ==
    ASSUME NEW stem \in Seq(Chars), NEW type \in Seq(Chars)
    PROVE  IsPrefix(Append(stem, "."), type) <=> Below(stem, type)
<1>0. Len(stem) \in Nat /\ Len(type) \in Nat
    BY LenProperties
<1>1. PICK s : s = Append(stem, ".")
    OBVIOUS
<1>2. /\ s \in Seq(Chars) /\ Len(s) = Len(stem) + 1
      /\ \A i \in 1..Len(stem) : s[i] = stem[i]
      /\ s[Len(stem) + 1] = "."
    <2>1. "." \in Chars
        BY DEF Chars
    <2> QED BY <1>1, <2>1, AppendProperties
<1>3. IsPrefix(s, type) <=> Len(s) <= Len(type) /\ \A i \in 1..Len(s) : s[i] = type[i]
    BY <1>2, PrefixShape
<1>4. ASSUME Below(stem, type), NEW i \in 1..Len(s) PROVE s[i] = type[i]
    <2>1. i \in 1..Len(stem) \/ i = Len(stem) + 1
        BY <1>0, <1>2
    <2> QED BY <1>2, <1>4, <2>1 DEF Below
<1>5. ASSUME Len(s) <= Len(type), \A i \in 1..Len(s) : s[i] = type[i]
      PROVE  Below(stem, type)
    <2>1. 1..Len(stem) \subseteq 1..Len(s) /\ Len(stem) + 1 \in 1..Len(s)
        BY <1>0, <1>2
    <2>2. \A i \in 1..Len(stem) : stem[i] = type[i]
        BY <1>2, <1>5, <2>1
    <2>3. type[Len(stem) + 1] = "."
        BY <1>2, <1>5, <2>1
    <2>4. Len(stem) < Len(type)
        BY <1>0, <1>2, <1>5
    <2> QED BY <2>2, <2>3, <2>4 DEF Below
<1>6. Below(stem, type) => Len(s) <= Len(type)
    BY <1>0, <1>2 DEF Below
<1> QED BY <1>1, <1>3, <1>4, <1>5, <1>6

\* What the documentation says of a wildcard.
LEMMA CoversShape ==
    ASSUME NEW pattern \in Seq(Chars), NEW type \in Seq(Chars)
    PROVE  Covers(pattern, type) <=>
              \/ pattern = <<"*">> \/ pattern = type
              \/ /\ IsWildcard(pattern)
                 /\ type = Stem(pattern) \/ Below(Stem(pattern), type)
<1> SUFFICES ASSUME IsWildcard(pattern)
             PROVE  (\E n \in 0..Len(type) :
                        /\ SubSeq(type, 1, n) = Stem(pattern)
                        /\ n < Len(type) => type[n + 1] = ".")
                    <=> type = Stem(pattern) \/ Below(Stem(pattern), type)
    BY DEF Covers
<1>1. PICK stem : stem = Stem(pattern)
    OBVIOUS
<1>2. stem \in Seq(Chars) /\ Len(stem) \in Nat /\ Len(type) \in Nat
    BY <1>1, StemShape, WildcardShape, LenProperties
<1>3. ASSUME NEW n \in 0..Len(type), SubSeq(type, 1, n) = stem,
             n < Len(type) => type[n + 1] = "."
      PROVE  type = stem \/ Below(stem, type)
    <2>1. Len(stem) = n /\ \A i \in 1..n : stem[i] = type[i]
        BY <1>3, StartShape
    <2>2. CASE n = Len(type)
        BY <1>3, <2>2, SubSeqFull
    <2>3. CASE n < Len(type)
        BY <1>3, <2>1, <2>3 DEF Below
    <2> QED BY <1>2, <2>2, <2>3
<1>4. ASSUME type = stem
      PROVE  \E n \in 0..Len(type) :
                SubSeq(type, 1, n) = stem /\ (n < Len(type) => type[n + 1] = ".")
    <2>1. SubSeq(type, 1, Len(type)) = stem
        BY <1>4, SubSeqFull
    <2>2. Len(type) \in 0..Len(type) /\ ~(Len(type) < Len(type))
        BY <1>2
    <2> QED BY <2>1, <2>2
<1>5. ASSUME Below(stem, type)
      PROVE  \E n \in 0..Len(type) :
                SubSeq(type, 1, n) = stem /\ (n < Len(type) => type[n + 1] = ".")
    <2>1. Len(stem) \in 0..Len(type)
        BY <1>2, <1>5 DEF Below
    <2>2. PICK u : u = SubSeq(type, 1, Len(stem))
        OBVIOUS
    <2>3. u \in Seq(Chars) /\ Len(u) = Len(stem) /\ \A i \in 1..Len(stem) : u[i] = type[i]
        BY <2>1, <2>2, StartShape
    <2>4. \A i \in 1..Len(u) : u[i] = stem[i]
        BY <1>5, <2>3 DEF Below
    <2>5. u = stem
        BY <1>2, <2>3, <2>4, SeqEqual
    <2> QED BY <1>5, <2>1, <2>2, <2>5 DEF Below
<1> QED BY <1>1, <1>3, <1>4, <1>5

\* The code and the documentation mean the same by a pattern.
LEMMA SamePatterns ==
    ASSUME NEW pattern \in Seq(Chars), NEW type \in Seq(Chars)
    PROVE  PatternAccepts(type, pattern) <=> Covers(pattern, type)
<1>1. CASE ~IsWildcard(pattern)
    BY <1>1, CoversShape DEF PatternAccepts
<1>2. CASE IsWildcard(pattern)
    <2>1. Len(pattern) >= 2 /\ pattern[Len(pattern) - 1] = "."
        BY <1>2, WildcardShape
    <2>2. /\ Stem(pattern) \in Seq(Chars) /\ Len(Stem(pattern)) = Len(pattern) - 2
          /\ \A i \in 1..Len(pattern) - 2 : Stem(pattern)[i] = pattern[i]
        BY <2>1, StemShape
    <2>3. IsPrefix(Append(Stem(pattern), "."), type) <=> Below(Stem(pattern), type)
        BY <2>2, PrefixBelow
    <2>4. pattern = type => Below(Stem(pattern), type)
        <3>1. Len(pattern) - 2 < Len(pattern) /\ Len(pattern) - 2 + 1 = Len(pattern) - 1
            BY <2>1, LenProperties
        <3> QED BY <2>1, <2>2, <3>1 DEF Below
    <2> QED BY <1>2, <2>3, <2>4, CoversShape DEF PatternAccepts
<1> QED BY <1>1, <1>2

-----------------------------------------------------------------------------
(* LIKE.                                                                   *)

\* What grows by one at a time has no gaps: the least index at which it were
\* wrong would be preceded by one at which it is right.
LEMMA NoGaps ==
    ASSUME NEW n \in Nat, NEW f, f[0] = 0, \A j \in 1..n : f[j] = f[j - 1] + 1
    PROVE  \A j \in 0..n : f[j] = j
<1> DEFINE T == {j \in 0..n : f[j] # j}
<1> SUFFICES ASSUME T # {} PROVE FALSE
    OBVIOUS
<1>1. T \subseteq Nat
    OBVIOUS
<1> HIDE DEF T
<1>r. PICK R : R = OpToRel(<, Nat)
    OBVIOUS
<1>w. IsWellFoundedOn(R, Nat)
    BY <1>r, NatLessThanWellFounded, Zenon
<1>l. \A k, j \in Nat : k < j => <<k, j>> \in R
    BY <1>r DEF OpToRel
<1>2. PICK j \in T : \A k \in T : ~(<<k, j>> \in R)
    BY <1>1, <1>w, WFMin
<1>3. j \in 1..n /\ f[j] # j
    BY DEF T
<1>4. j - 1 \in 0..n /\ j - 1 \in Nat /\ j \in Nat
    BY <1>3
<1>5. j - 1 \notin T
    <2>1. j - 1 < j
        BY <1>4
    <2>2. <<j - 1, j>> \in R
        BY <1>4, <1>l, <2>1
    <2> QED BY <1>2, <2>2
<1>6. f[j - 1] = j - 1
    BY <1>4, <1>5 DEF T
<1> QED BY <1>3, <1>4, <1>6

\* The pattern that the WHERE clause puts together.
LEMMA LikePattern ==
    ASSUME NEW stem \in Seq(Chars), NEW pattern, pattern = stem \o <<".", "%">>
    PROVE  /\ Len(stem) \in Nat /\ Len(pattern) = Len(stem) + 2
           /\ DOMAIN pattern = 1..Len(stem) + 2
           /\ \A j \in 1..Len(stem) : pattern[j] = stem[j]
           /\ pattern[Len(stem) + 1] = "." /\ pattern[Len(stem) + 2] = "%"
<1> DEFINE tail == <<".", "%">>
<1>1. tail \in Seq(Chars) /\ Len(tail) = 2 /\ tail[1] = "." /\ tail[2] = "%"
    <2>1. "." \in Chars /\ "%" \in Chars
        BY DEF Chars
    <2> QED BY <2>1, PairShape
<1>2. pattern = stem \o tail
    OBVIOUS
<1> HIDE DEF tail
<1>3. Len(stem) \in Nat
    BY LenProperties
<1>4. /\ pattern \in Seq(Chars) /\ Len(pattern) = Len(stem) + 2
      /\ \A i \in 1..Len(stem) + 2 :
            pattern[i] = IF i <= Len(stem) THEN stem[i] ELSE tail[i - Len(stem)]
    BY <1>1, <1>2, ConcatProperties
<1>5. DOMAIN pattern = 1..Len(stem) + 2
    BY <1>4, LenProperties
<1>6. /\ \A j \in 1..Len(stem) : j \in 1..Len(stem) + 2 /\ j <= Len(stem)
      /\ Len(stem) + 1 \in 1..Len(stem) + 2 /\ ~(Len(stem) + 1 <= Len(stem))
      /\ Len(stem) + 2 \in 1..Len(stem) + 2 /\ ~(Len(stem) + 2 <= Len(stem))
      /\ Len(stem) + 1 - Len(stem) = 1 /\ Len(stem) + 2 - Len(stem) = 2
    BY <1>3
<1> QED BY <1>1, <1>3, <1>4, <1>5, <1>6

\* Without a backslash it escapes nothing.
LEMMA NothingEscaped ==
    ASSUME NEW stem \in Seq(Chars), NEW pattern, pattern = stem \o <<".", "%">>,
           "\\" \notin Range(stem)
    PROVE  \A j \in DOMAIN pattern : pattern[j] # "\\"
<1>1. /\ Len(stem) \in Nat /\ DOMAIN pattern = 1..Len(stem) + 2
      /\ \A j \in 1..Len(stem) : pattern[j] = stem[j]
      /\ pattern[Len(stem) + 1] = "." /\ pattern[Len(stem) + 2] = "%"
    BY LikePattern
<1>2. \A j \in 1..Len(stem) : stem[j] # "\\"
    BY LenProperties DEF Range
<1>3. \A j \in DOMAIN pattern :
         j \in 1..Len(stem) \/ j = Len(stem) + 1 \/ j = Len(stem) + 2
    BY <1>1
<1> QED BY <1>1, <1>2, <1>3

\* LIKE misses no text that starts with the stem and a dot, ...
LEMMA LikeBelow ==
    ASSUME NEW stem \in Seq(Chars), NEW type \in Seq(Chars), "\\" \notin Range(stem),
           Below(stem, type)
    PROVE  Like(type, stem \o <<".", "%">>)
<1>1. PICK pattern : pattern = stem \o <<".", "%">>
    OBVIOUS
<1>2. /\ Len(stem) \in Nat /\ Len(pattern) = Len(stem) + 2
      /\ DOMAIN pattern = 1..Len(stem) + 2
      /\ \A j \in 1..Len(stem) : pattern[j] = stem[j]
      /\ pattern[Len(stem) + 1] = "." /\ pattern[Len(stem) + 2] = "%"
    BY <1>1, LikePattern
<1>3. \A j \in DOMAIN pattern : pattern[j] # "\\"
    BY <1>1, NothingEscaped
<1>4. {} = {j \in DOMAIN pattern : pattern[j] = "\\" /\ j - 1 \notin {}}
    BY <1>3
<1>5. PICK m, length : m = Len(stem) /\ length = Len(type)
    OBVIOUS
<1>6. /\ m \in Nat /\ length \in Nat /\ m + 1 <= length
      /\ \A j \in 1..m : pattern[j] = type[j]
      /\ type[m + 1] = "."
    BY <1>2, <1>5, LenProperties DEF Below
<1>7. PICK cut : cut = [j \in 0..m + 2 |-> IF j <= m + 1 THEN j ELSE length]
    OBVIOUS
<1>8. cut \in [0..m + 2 -> 0..length] /\ cut[0] = 0 /\ cut[m + 2] = length
    BY <1>6, <1>7
<1>9. ASSUME NEW j \in 1..m + 2
      PROVE  \/ pattern[j] = "%" /\ j - 1 \notin {} /\ cut[j - 1] <= cut[j]
             \/ j \notin {} /\ cut[j] = cut[j - 1] + 1 /\ pattern[j] = type[cut[j]]
    <2>1. CASE j = m + 2
        <3>1. cut[j] = length /\ cut[j - 1] = m + 1
            BY <1>6, <1>7, <2>1
        <3> QED BY <1>2, <1>5, <1>6, <2>1, <3>1
    <2>2. CASE j \in 1..m + 1
        <3>1. cut[j] = j /\ cut[j - 1] = j - 1
            BY <1>6, <1>7, <2>2
        <3>2. pattern[j] = type[j]
            <4>1. j \in 1..m \/ j = m + 1
                BY <1>6, <2>2
            <4> QED BY <1>2, <1>5, <1>6, <4>1
        <3> QED BY <1>6, <2>2, <3>1, <3>2
    <2> QED BY <1>6, <2>1, <2>2
<1>10. \E f \in [0..Len(pattern) -> 0..Len(type)] :
          /\ f[0] = 0 /\ f[Len(pattern)] = Len(type)
          /\ \A j \in DOMAIN pattern :
                \/ j \in {} /\ f[j] = f[j - 1]
                \/ pattern[j] = "%" /\ j - 1 \notin {} /\ f[j - 1] <= f[j]
                \/ /\ j \notin {} /\ f[j] = f[j - 1] + 1
                   /\ \/ pattern[j] = type[f[j]]
                      \/ pattern[j] = "_" /\ j - 1 \notin {}
    <2>1. Len(pattern) = m + 2 /\ DOMAIN pattern = 1..m + 2 /\ Len(type) = length
        BY <1>2, <1>5
    <2> QED BY <1>8, <1>9, <2>1, Zenon
<1>11. PICK escapes : escapes = {}
    OBVIOUS
<1>12. Like(type, pattern)
    BY <1>4, <1>10, <1>11, Zenon DEF Like
<1> QED BY <1>1, <1>12

\* ... and matches no other, unless the stem has a character it treats specially.
LEMMA LikePlain ==
    ASSUME NEW stem \in Seq(Chars), NEW type \in Seq(Chars),
           Range(stem) \cap LikeCharacters = {}, Like(type, stem \o <<".", "%">>)
    PROVE  Below(stem, type)
<1>1. PICK pattern : pattern = stem \o <<".", "%">>
    OBVIOUS
<1>2. /\ Len(stem) \in Nat /\ Len(pattern) = Len(stem) + 2
      /\ DOMAIN pattern = 1..Len(stem) + 2
      /\ \A j \in 1..Len(stem) : pattern[j] = stem[j]
      /\ pattern[Len(stem) + 1] = "."
    BY <1>1, LikePattern
<1>a. PICK any : any = "_"
    OBVIOUS
<1>b. /\ "%" \notin Range(stem) /\ any \notin Range(stem) /\ "\\" \notin Range(stem)
      /\ any # "."
    BY <1>a, Zenon DEF LikeCharacters
<1>3. \A j \in DOMAIN pattern : pattern[j] # "\\"
    BY <1>1, <1>b, NothingEscaped
<1>4. PICK escapes \in SUBSET DOMAIN pattern :
         /\ escapes = {j \in DOMAIN pattern : pattern[j] = "\\" /\ j - 1 \notin escapes}
         /\ \E cut \in [0..Len(pattern) -> 0..Len(type)] :
               /\ cut[0] = 0 /\ cut[Len(pattern)] = Len(type)
               /\ \A j \in DOMAIN pattern :
                     \/ j \in escapes /\ cut[j] = cut[j - 1]
                     \/ pattern[j] = "%" /\ j - 1 \notin escapes /\ cut[j - 1] <= cut[j]
                     \/ /\ j \notin escapes /\ cut[j] = cut[j - 1] + 1
                        /\ \/ pattern[j] = type[cut[j]]
                           \/ pattern[j] = "_" /\ j - 1 \notin escapes
    <2>1. Like(type, pattern)
        BY <1>1
    <2> QED BY <2>1, Zenon DEF Like
<1>5. escapes = {}
    <2>1. escapes = {j \in DOMAIN pattern : pattern[j] = "\\" /\ j - 1 \notin escapes}
        BY <1>4, Zenon
    <2> QED BY <1>3, <2>1
<1>6. PICK cut \in [0..Len(pattern) -> 0..Len(type)] :
         /\ cut[0] = 0
         /\ \A j \in DOMAIN pattern :
               \/ j \in escapes
               \/ pattern[j] = "%"
               \/ pattern[j] = any
               \/ cut[j] = cut[j - 1] + 1 /\ pattern[j] = type[cut[j]]
    <2>1. PICK f \in [0..Len(pattern) -> 0..Len(type)] :
             /\ f[0] = 0 /\ f[Len(pattern)] = Len(type)
             /\ \A j \in DOMAIN pattern :
                   \/ j \in escapes /\ f[j] = f[j - 1]
                   \/ pattern[j] = "%" /\ j - 1 \notin escapes /\ f[j - 1] <= f[j]
                   \/ /\ j \notin escapes /\ f[j] = f[j - 1] + 1
                      /\ \/ pattern[j] = type[f[j]]
                         \/ pattern[j] = "_" /\ j - 1 \notin escapes
        BY <1>4, Zenon
    <2>2. ASSUME NEW j \in DOMAIN pattern
          PROVE  \/ j \in escapes
                 \/ pattern[j] = "%"
                 \/ pattern[j] = any
                 \/ f[j] = f[j - 1] + 1 /\ pattern[j] = type[f[j]]
        BY <1>a, <2>1, Zenon
    <2> QED BY <2>1, <2>2, Zenon
<1>7. PICK m : m = Len(stem)
    OBVIOUS
<1>8. ASSUME NEW j \in 1..m + 1 PROVE pattern[j] # "%" /\ pattern[j] # any
    <2>1. CASE j \in 1..m
        <3>1. stem[j] \in Range(stem)
            BY <1>7, <2>1, LenProperties DEF Range
        <3> QED BY <1>2, <1>7, <1>b, <2>1, <3>1
    <2>2. CASE j = m + 1
        BY <1>2, <1>7, <1>b, <2>2
    <2> QED BY <1>2, <1>7, <2>1, <2>2
<1>9. \A j \in 1..m + 1 : cut[j] = cut[j - 1] + 1 /\ pattern[j] = type[cut[j]]
    <2>1. 1..m + 1 \subseteq DOMAIN pattern
        BY <1>2, <1>7
    <2> QED BY <1>5, <1>6, <1>8, <2>1
<1>10. m + 1 \in Nat /\ m \in Nat
    BY <1>2, <1>7
<1>11. \A j \in 0..m + 1 : cut[j] = j
    <2>1. PICK n : n = m + 1
        OBVIOUS
    <2>2. n \in Nat /\ cut[0] = 0 /\ \A j \in 1..n : cut[j] = cut[j - 1] + 1
        BY <1>6, <1>9, <1>10, <2>1
    <2>3. \A j \in 0..n : cut[j] = j
        BY <2>2, NoGaps
    <2> QED BY <2>1, <2>3
<1>12. \A j \in 1..m + 1 : pattern[j] = type[j]
    <2>1. 1..m + 1 \subseteq 0..m + 1
        BY <1>10
    <2> QED BY <1>9, <1>11, <2>1
<1>13. m + 1 <= Len(type)
    <2>1. m + 1 \in 0..Len(pattern) /\ m + 1 \in 0..m + 1
        BY <1>2, <1>7, <1>10
    <2>2. cut[m + 1] \in 0..Len(type) /\ cut[m + 1] = m + 1
        BY <1>6, <1>11, <2>1
    <2>3. Len(type) \in Nat
        BY LenProperties
    <2> QED BY <1>10, <2>2, <2>3
<1> QED
    <2>1. m < Len(type) /\ 1..m \subseteq 1..m + 1 /\ m + 1 \in 1..m + 1
        BY <1>10, <1>13, LenProperties
    <2>2. \A i \in 1..m : stem[i] = type[i]
        BY <1>2, <1>7, <1>12, <2>1
    <2>3. type[m + 1] = "."
        BY <1>2, <1>7, <1>12, <2>1
    <2> QED BY <1>7, <2>1, <2>2, <2>3 DEF Below

-----------------------------------------------------------------------------
(* Filters.                                                                *)

\* What the documentation says of a filter.
Wants(type, f) == \A patterns \in f : \E pattern \in patterns : Covers(pattern, type)

\* A filter is made of texts.
LEMMA FilterTypes ==
    ASSUME NEW f \in Filters, NEW patterns \in f, NEW pattern \in patterns
    PROVE  pattern \in Seq(Chars)
  BY TextTypes DEF Filters

\* The Rust predicate is the documented one.
LEMMA MatchesAreWanted ==
    ASSUME NEW type \in EventTypes, NEW f \in Filters
    PROVE  event_matches_filter(type, f) <=> Wants(type, f)
<1>1. type \in Seq(Chars)
    BY TextTypes
<1>2. \A patterns \in f : \A pattern \in patterns :
         PatternAccepts(type, pattern) <=> Covers(pattern, type)
    BY <1>1, FilterTypes, SamePatterns
<1> QED BY <1>2, Zenon DEF event_matches_filter, Wants

\* The WHERE clause misses nothing that is wanted, unless the type has LIKE's
\* escape character, ...
LEMMA WantedIsFound ==
    ASSUME NEW type \in EventTypes, NEW f \in Filters, "\\" \notin Range(type),
           Wants(type, f)
    PROVE  Where(type, f)
<1>1. type \in Seq(Chars)
    BY TextTypes
<1>2. ASSUME NEW patterns \in f, NEW pattern \in patterns, Covers(pattern, type)
      PROVE  \/ pattern = <<"*">> \/ pattern = type
             \/ /\ IsWildcard(pattern)
                /\ \/ type = Stem(pattern)
                   \/ Like(type, Stem(pattern) \o <<".", "%">>)
    <2>1. pattern \in Seq(Chars)
        BY FilterTypes
    <2>2. \/ pattern = <<"*">> \/ pattern = type
          \/ /\ IsWildcard(pattern)
             /\ type = Stem(pattern) \/ Below(Stem(pattern), type)
        BY <1>1, <1>2, <2>1, CoversShape
    <2>3. ASSUME IsWildcard(pattern), Below(Stem(pattern), type)
          PROVE  Like(type, Stem(pattern) \o <<".", "%">>)
        <3>1. Stem(pattern) \in Seq(Chars)
            BY <2>1, <2>3, WildcardShape, StemShape
        <3>2. PICK stem \in Seq(Chars) : stem = Stem(pattern)
            BY <3>1
        <3>3. \A i \in DOMAIN stem : i \in DOMAIN type /\ stem[i] = type[i]
            BY <1>1, <2>3, <3>2, LenProperties DEF Below
        <3>4. "\\" \notin Range(stem)
            BY <3>3 DEF Range
        <3> QED BY <1>1, <2>3, <3>2, <3>4, LikeBelow
    <2> QED BY <2>2, <2>3, Zenon
<1>3. ASSUME NEW patterns \in f
      PROVE  \/ <<"*">> \in patterns
             \/ type \in patterns
             \/ \E pattern \in patterns :
                   /\ IsWildcard(pattern)
                   /\ \/ type = Stem(pattern)
                      \/ Like(type, Stem(pattern) \o <<".", "%">>)
    <2>1. PICK pattern \in patterns : Covers(pattern, type)
        BY DEF Wants
    <2> QED BY <1>2, <2>1, Zenon
<1> QED BY <1>3, Zenon DEF Where

\* ... and finds nothing else, unless a wildcard pattern has a character that
\* LIKE treats specially.
LEMMA FoundIsWanted ==
    ASSUME NEW type \in EventTypes, NEW f \in Filters, Where(type, f),
           \A patterns \in f : \A pattern \in patterns :
              IsWildcard(pattern) => Range(Stem(pattern)) \cap LikeCharacters = {}
    PROVE  Wants(type, f)
<1>1. type \in Seq(Chars)
    BY TextTypes
<1>2. ASSUME NEW patterns \in f, NEW pattern \in patterns, IsWildcard(pattern),
             Like(type, Stem(pattern) \o <<".", "%">>)
      PROVE  Below(Stem(pattern), type)
    <2>1. pattern \in Seq(Chars)
        BY FilterTypes
    <2>2. Stem(pattern) \in Seq(Chars)
        BY <1>2, <2>1, WildcardShape, StemShape
    <2> QED BY <1>1, <1>2, <2>2, LikePlain
<1>3. ASSUME NEW patterns \in f PROVE \E pattern \in patterns : Covers(pattern, type)
    <2>1. \A pattern \in patterns : pattern \in Seq(Chars)
        BY FilterTypes
    <2>2. \A pattern \in patterns :
             Covers(pattern, type) <=>
                \/ pattern = <<"*">> \/ pattern = type
                \/ /\ IsWildcard(pattern)
                   /\ type = Stem(pattern) \/ Below(Stem(pattern), type)
        BY <1>1, <2>1, CoversShape
    <2>3. \/ <<"*">> \in patterns
          \/ type \in patterns
          \/ \E pattern \in patterns :
                /\ IsWildcard(pattern)
                /\ \/ type = Stem(pattern)
                   \/ Like(type, Stem(pattern) \o <<".", "%">>)
        BY Zenon DEF Where
    <2> QED BY <1>2, <2>2, <2>3, Zenon
<1> QED BY <1>3 DEF Wants

\* What the two predicates make of a broadcast.
LEMMA TargetsAreSubscribers ==
    ASSUME TypeOK, NEW type \in EventTypes
    PROVE  /\ Targets(type) \subseteq Endpoints
           /\ Subscribers(type, endpoint, filter) \subseteq Endpoints
           /\ backend = "sqlite" => Targets(type) = Subscribers(type, endpoint, filter)
           /\ "\\" \notin Range(type) =>
                 Subscribers(type, endpoint, filter) \subseteq Targets(type)
           /\ \A p \in Targets(type) :
                 \/ p \in Subscribers(type, endpoint, filter)
                 \/ backend = "postgres" /\ HasLikeCharacter(p)
<1>1. \A p \in Endpoints : filter[p] \in Filters
    BY DEF TypeOK
<1>2. \A p : p \in Subscribers(type, endpoint, filter) <=>
                p \in Endpoints /\ endpoint[p] = "enabled" /\ Wants(type, filter[p])
    BY DEF Subscribers, Wants
<1>3. \A p : p \in Targets(type) <=>
                /\ p \in Endpoints /\ endpoint[p] = "enabled"
                /\ IF backend = "postgres" THEN Where(type, filter[p])
                   ELSE event_matches_filter(type, filter[p])
    BY DEF Targets
<1>4. \A p \in Endpoints : event_matches_filter(type, filter[p]) <=> Wants(type, filter[p])
    BY <1>1, MatchesAreWanted
<1>5. "\\" \notin Range(type) =>
         \A p \in Endpoints : Wants(type, filter[p]) => Where(type, filter[p])
    BY <1>1, WantedIsFound
<1>6. \A p \in Endpoints :
         Where(type, filter[p]) /\ ~HasLikeCharacter(p) => Wants(type, filter[p])
    BY <1>1, FoundIsWanted DEF HasLikeCharacter
<1>7. backend \in {"postgres", "sqlite"}
    BY DEF TypeOK
<1> QED BY <1>2, <1>3, <1>4, <1>5, <1>6, <1>7

-----------------------------------------------------------------------------
(* Operators and broadcasts.                                               *)

\* The types of a call, and of what broadcasts read.
CallType ==
    call \in [type : EventTypes, left : SUBSET Endpoints,
              reached : SUBSET Endpoints, answer : {"none", "Ok", "Err"}]
EndpointTypes ==
    /\ backend \in {"postgres", "sqlite"}
    /\ endpoint \in [Endpoints -> {"unborn", "enabled", "disabled", "deleted"}]
    /\ filter \in [Endpoints -> Filters]

\* What the history of a call takes in.
LEMMA ObserveShape ==
    ASSUME Observe
    PROVE  /\ call' = None => ever' = {} /\ always' = {}
           /\ call = None /\ call' # None =>
                 /\ ever' = Subscribers(call'.type, endpoint', filter')
                 /\ always' = ever'
           /\ call # None /\ call' # None =>
                 /\ ever \subseteq ever' /\ always' \subseteq always
                 /\ ever' \subseteq ever \cup Subscribers(call.type, endpoint', filter')
                 /\ always \subseteq ever => always' \subseteq ever'
  BY DEF Observe

\* Operators leave broadcasts alone, and endpoints what they are.
LEMMA OperateTypes ==
    ASSUME EndpointTypes, Operate, backend' = backend
    PROVE  EndpointTypes'
<1>1. ASSUME NEW p \in Endpoints, SetEnabled(p) \/ DeleteEndpoint(p)
      PROVE  EndpointTypes'
    BY <1>1 DEF SetEnabled, DeleteEndpoint, EndpointTypes
<1>2. ASSUME NEW p \in Endpoints, NEW f \in Filters,
             Register(p, f) \/ SetEventFilter(p, f) \/ UpdateEndpoint(p, f)
      PROVE  EndpointTypes'
    BY <1>2 DEF Register, SetEventFilter, UpdateEndpoint, EndpointTypes
<1> QED BY <1>1, <1>2 DEF Operate

\* What the statements of a broadcast do to it.
LEMMA CallSteps ==
    ASSUME TypeOK
    PROVE  /\ \A type \in EventTypes : Broadcast(type) =>
                 /\ call = None /\ CallType' /\ call'.type = type
                 /\ call'.left \cup call'.reached = Targets(type)
                 /\ call'.answer # "none" => call'.left = {}
                 /\ call'.answer # "Err"
                 /\ backend = "sqlite" => call'.reached = {}
                 /\ backend = "postgres" => call'.left = {}
           /\ \A p \in Endpoints : FanOut(p) =>
                 /\ call # None /\ p \in call.left /\ CallType' /\ call'.type = call.type
                 /\ call'.left \subseteq call.left /\ call'.reached \subseteq call.reached \cup {p}
                 /\ call'.answer # "none" => call'.left = {}
                 /\ \/ call'.answer = "Err"
                    \/ call'.left \cup call'.reached = call.left \cup call.reached
           /\ Return => call' = None
<1>1. ASSUME NEW type \in EventTypes, Broadcast(type)
      PROVE  /\ call = None /\ CallType' /\ call'.type = type
             /\ call'.left \cup call'.reached = Targets(type)
             /\ call'.answer # "none" => call'.left = {}
             /\ call'.answer # "Err"
             /\ backend = "sqlite" => call'.reached = {}
             /\ backend = "postgres" => call'.left = {}
    <2>1. Targets(type) \subseteq Endpoints
        BY TargetsAreSubscribers
    <2>2. PICK targets \in SUBSET Endpoints : targets = Targets(type)
        BY <2>1
    <2>3. CASE backend = "postgres"
        BY <1>1, <2>2, <2>3 DEF Broadcast, CallType
    <2>4. CASE backend # "postgres"
        BY <1>1, <2>2, <2>4 DEF Broadcast, CallType
    <2> QED BY <2>3, <2>4
<1>2. ASSUME NEW p \in Endpoints, FanOut(p)
      PROVE  /\ call # None /\ p \in call.left /\ CallType' /\ call'.type = call.type
             /\ call'.left \subseteq call.left /\ call'.reached \subseteq call.reached \cup {p}
             /\ call'.answer # "none" => call'.left = {}
             /\ \/ call'.answer = "Err"
                \/ call'.left \cup call'.reached = call.left \cup call.reached
    <2>1. call # None /\ p \in call.left /\ CallType
        BY <1>2 DEF FanOut, TypeOK, CallType
    <2>2. ASSUME call' = [call EXCEPT !.left = @ \ {p}, !.reached = @ \cup {p},
                                      !.answer = IF call.left = {p} THEN "Ok" ELSE "none"]
          PROVE  /\ CallType' /\ call'.type = call.type
                 /\ call'.left = call.left \ {p} /\ call'.reached = call.reached \cup {p}
                 /\ call'.answer = IF call.left = {p} THEN "Ok" ELSE "none"
        BY <2>1, <2>2 DEF CallType
    <2>3. ASSUME call' = [call EXCEPT !.left = {}, !.answer = "Err"]
          PROVE  /\ CallType' /\ call'.type = call.type
                 /\ call'.left = {} /\ call'.reached = call.reached
                 /\ call'.answer = "Err"
        BY <2>1, <2>3 DEF CallType
    <2>4. \/ call' = [call EXCEPT !.left = @ \ {p}, !.reached = @ \cup {p},
                                  !.answer = IF call.left = {p} THEN "Ok" ELSE "none"]
          \/ call' = [call EXCEPT !.left = {}, !.answer = "Err"]
        BY <1>2 DEF FanOut
    <2>5. CASE call' = [call EXCEPT !.left = {}, !.answer = "Err"]
        BY <2>1, <2>3, <2>5
    <2>6. CASE call' = [call EXCEPT !.left = @ \ {p}, !.reached = @ \cup {p},
                                    !.answer = IF call.left = {p} THEN "Ok" ELSE "none"]
        BY <2>1, <2>2, <2>6
    <2> QED BY <2>4, <2>5, <2>6
<1>3. Return => call' = None
    BY DEF Return
<1> QED BY <1>1, <1>2, <1>3

\* No endpoint and no broadcast at first.
LEMMA TypeInit == Init => TypeOK
<1> SUFFICES ASSUME Init PROVE TypeOK
    OBVIOUS
<1>1. {} \in Filters
    BY DEF Filters
<1> QED BY <1>1 DEF Init, TypeOK

\* Endpoints, filters and calls keep their types.
LEMMA TypeNext == TypeOK /\ [Next]_vars => TypeOK'
<1> SUFFICES ASSUME TypeOK, Next PROVE TypeOK'
    BY DEF TypeOK, vars
<1>0. /\ EndpointTypes /\ (call = None \/ CallType)
      /\ always \subseteq ever /\ ever \subseteq Endpoints
      /\ backend' = backend /\ Observe
    BY DEF TypeOK, EndpointTypes, CallType, Next
<1>1. EndpointTypes' /\ (call' = None \/ CallType')
    <2>1. CASE Operate /\ UNCHANGED call
        BY <1>0, <2>1, OperateTypes DEF CallType
    <2>2. ASSUME NEW type \in EventTypes, Broadcast(type), UNCHANGED <<endpoint, filter>>
          PROVE  EndpointTypes' /\ CallType'
        BY <1>0, <2>2, CallSteps DEF EndpointTypes
    <2>3. ASSUME NEW p \in Endpoints, FanOut(p), UNCHANGED <<endpoint, filter>>
          PROVE  EndpointTypes' /\ CallType'
        BY <1>0, <2>3, CallSteps DEF EndpointTypes
    <2>4. CASE Return /\ UNCHANGED <<endpoint, filter>>
        BY <1>0, <2>4, CallSteps DEF EndpointTypes
    <2> QED BY <2>1, <2>2, <2>3, <2>4 DEF Next
<1>2. \A type, states, filters : Subscribers(type, states, filters) \subseteq Endpoints
    BY DEF Subscribers
<1>3. always' \subseteq ever' /\ ever' \subseteq Endpoints
    BY <1>0, <1>2, ObserveShape
<1>4. unheeded' \subseteq Endpoints
    <2>1. unheeded \subseteq Endpoints
        BY DEF TypeOK
    <2>2. CASE Operate
        <3>1. ASSUME NEW p \in Endpoints, NEW f \in Filters, Heed(p, f)
              PROVE  unheeded' \subseteq Endpoints
            BY <2>1, <3>1 DEF Heed
        <3> QED BY <2>1, <2>2, <3>1 DEF Operate
    <2>3. CASE UNCHANGED unheeded
        BY <2>1, <2>3
    <2> QED BY <2>2, <2>3 DEF Next
<1> QED BY <1>1, <1>3, <1>4 DEF TypeOK, EndpointTypes, CallType

\* Endpoints, their filters, broadcasts and their history keep their types.
THEOREM TypeCorrect == Spec => []TypeOK
  BY TypeInit, TypeNext, PTL DEF Spec

\* Whoever has wanted the event all along stays on the list until the call has
\* an event for them.
LEMMA CallNext == TypeOK /\ CallInv /\ [Next]_vars => CallInv'
<1> SUFFICES ASSUME TypeOK, CallInv, [Next]_vars, call' # None
             PROVE  /\ call'.left \subseteq ever'
                    /\ call'.answer # "none" => call'.left = {}
                    /\ \/ call'.answer = "Err"
                       \/ backend' = "postgres" /\ "\\" \in Range(call'.type)
                       \/ always' \subseteq call'.reached \cup call'.left
    BY DEF CallInv
<1>1. CASE UNCHANGED vars
    BY <1>1 DEF CallInv, vars
<1>2. CASE Operate /\ UNCHANGED call /\ Observe /\ backend' = backend
    <2>1. call # None /\ ever \subseteq ever' /\ always' \subseteq always
        BY <1>2, ObserveShape
    <2> QED BY <1>2, <2>1 DEF CallInv
<1>3. ASSUME NEW type \in EventTypes, Broadcast(type), UNCHANGED <<endpoint, filter>>,
             Observe, backend' = backend
      PROVE  /\ call'.left \subseteq ever'
             /\ call'.answer # "none" => call'.left = {}
             /\ \/ backend' = "postgres" /\ "\\" \in Range(call'.type)
                \/ always' \subseteq call'.reached \cup call'.left
    <2>1. /\ call = None /\ call'.type = type
          /\ call'.left \cup call'.reached = Targets(type)
          /\ call'.answer # "none" => call'.left = {}
          /\ backend = "postgres" => call'.left = {}
        BY <1>3, CallSteps
    <2>2. ever' = Subscribers(type, endpoint, filter) /\ always' = ever'
        BY <1>3, <2>1, ObserveShape
    <2>3. /\ backend = "sqlite" => Targets(type) = ever'
          /\ "\\" \notin Range(type) => ever' \subseteq Targets(type)
        BY <2>2, TargetsAreSubscribers
    <2>4. backend = "postgres" \/ backend = "sqlite"
        BY DEF TypeOK
    <2>5. CASE backend = "postgres"
        BY <1>3, <2>1, <2>2, <2>3, <2>5
    <2>6. CASE backend = "sqlite"
        BY <1>3, <2>1, <2>2, <2>3, <2>6
    <2> QED BY <2>4, <2>5, <2>6
<1>4. ASSUME NEW p \in Endpoints, FanOut(p), Observe, backend' = backend
      PROVE  /\ call'.left \subseteq ever'
             /\ call'.answer # "none" => call'.left = {}
             /\ \/ call'.answer = "Err"
                \/ backend' = "postgres" /\ "\\" \in Range(call'.type)
                \/ always' \subseteq call'.reached \cup call'.left
    <2>1. /\ call # None /\ p \in call.left /\ call'.type = call.type
          /\ call'.left \subseteq call.left
          /\ call'.answer # "none" => call'.left = {}
          /\ \/ call'.answer = "Err"
             \/ call'.left \cup call'.reached = call.left \cup call.reached
        BY <1>4, CallSteps
    <2>2. ever \subseteq ever' /\ always' \subseteq always
        BY <1>4, <2>1, ObserveShape
    <2>3. /\ call.left \subseteq ever
          /\ \/ backend = "postgres" /\ "\\" \in Range(call.type)
             \/ always \subseteq call.reached \cup call.left
        <3>1. call.answer # "Err"
            BY <2>1 DEF CallInv
        <3> QED BY <2>1, <3>1 DEF CallInv
    <2> QED BY <1>4, <2>1, <2>2, <2>3
<1>5. CASE Return
    BY <1>5, CallSteps
<1> QED BY <1>1, <1>2, <1>3, <1>4, <1>5 DEF Next

\* The invariant of the theorems below.
LEMMA InvHolds == Spec => [](TypeOK /\ CallInv)
<1>1. Init => CallInv
    BY DEF Init, CallInv
<1> QED BY <1>1, TypeInit, TypeNext, CallNext, PTL DEF Spec

\* A broadcast that returns Ok has missed no endpoint that was subscribed from
\* its first statement to its last, except that over PostgreSQL LIKE may miss
\* a type with a backslash.
THEOREM NobodyMissed == Spec => []SubscribersReached
<1>1. TypeOK /\ CallInv => SubscribersReached
    <2> SUFFICES ASSUME TypeOK, CallInv, call # None, call.answer = "Ok",
                        backend = "postgres" => "\\" \notin Range(call.type)
                 PROVE  always \subseteq call.reached
        BY DEF SubscribersReached
    <2>1. call.left = {} /\ always \subseteq call.reached \cup call.left
        BY DEF CallInv
    <2> QED BY <2>1
<1> QED BY InvHolds, <1>1, PTL

\* A broadcast inserts an event only for endpoints that were subscribed at some
\* moment of the call, whatever operators do to the list it works off; over
\* PostgreSQL, as long as no pattern has a character that LIKE treats specially.
THEOREM NobodyElseReached == Spec => OnlySubscribers
<1>1. ASSUME TypeOK, CallInv, [Next]_vars, NEW p \in Reached' \ Reached
      PROVE  p \in ever' \/ (backend = "postgres" /\ HasLikeCharacter(p))
    <2>0. call' # None /\ p \in call'.reached
        BY <1>1 DEF Reached
    <2>1. CASE UNCHANGED vars \/ (Operate /\ UNCHANGED call)
        BY <1>1, <2>1 DEF Reached, vars
    <2>2. ASSUME NEW type \in EventTypes, Broadcast(type), UNCHANGED <<endpoint, filter>>,
                 Observe
          PROVE  p \in ever' \/ (backend = "postgres" /\ HasLikeCharacter(p))
        <3>1. call = None /\ call'.type = type /\ call'.left \cup call'.reached = Targets(type)
            BY <1>1, <2>2, CallSteps
        <3>2. ever' = Subscribers(type, endpoint, filter)
            BY <2>0, <2>2, <3>1, ObserveShape
        <3> QED BY <1>1, <2>0, <3>1, <3>2, TargetsAreSubscribers
    <2>3. ASSUME NEW q \in Endpoints, FanOut(q), Observe
          PROVE  p \in ever'
        <3>1. call # None /\ q \in call.left /\ call'.reached \subseteq call.reached \cup {q}
            BY <1>1, <2>3, CallSteps
        <3>2. p = q
            BY <1>1, <2>0, <3>1 DEF Reached
        <3>3. call.left \subseteq ever /\ ever \subseteq ever'
            BY <1>1, <2>0, <2>3, <3>1, ObserveShape DEF CallInv
        <3> QED BY <3>1, <3>2, <3>3
    <2>4. CASE Return
        BY <1>1, <2>0, <2>4, CallSteps
    <2> QED BY <1>1, <2>1, <2>2, <2>3, <2>4 DEF Next
<1>2. TypeOK /\ CallInv /\ [Next]_vars =>
         [\A p \in Reached' \ Reached :
             p \in ever' \/ (backend = "postgres" /\ HasLikeCharacter(p))]_vars
    BY <1>1
<1> QED BY InvHolds, <1>2, PTL DEF Spec, OnlySubscribers
=============================================================================
