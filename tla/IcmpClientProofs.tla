---------------------------- MODULE IcmpClientProofs ----------------------------
(* What the parser of ping's output promises, proved for every number of echo  *)
(* requests and every reply time.  The means and the list of reply times are   *)
(* recursive functions; a fact about all of them is proved from the least      *)
(* index at which it would fail.                                               *)
EXTENDS IcmpClient, FiniteSetTheorems, SequenceTheorems, WellFoundedInduction, TLAPS

---------------------------------------------------------------------------------
(* Induction, and the functions that a recursion defines.                      *)

(* Induction up to N, on a set of numbers instead of a predicate: the least    *)
(* number outside the set would be one more than a number in it.               *)
LEMMA InductionUpTo ==
  ASSUME NEW N \in Nat, NEW H, 0 \in H,
         \A n \in 1..N : n - 1 \in H => n \in H
  PROVE  0..N \subseteq H
  <1> DEFINE Outside == (0..N) \ H
  <1>1. SUFFICES ASSUME Outside # {} PROVE FALSE
    BY <1>1
  <1>2. PICK x \in Outside : \A y \in Outside : ~(<<y, x>> \in OpToRel(<, Nat))
    <2> Outside \subseteq Nat
      OBVIOUS
    <2> HIDE DEF Outside
    <2> QED BY <1>1, NatLessThanWellFounded, WFMin
  <1>3. x \in 1..N /\ x - 1 \in 0..N
    OBVIOUS
  <1>4. x - 1 \notin Outside
    <2>1. x - 1 < x /\ x - 1 \in Nat /\ x \in Nat
      BY <1>3
    <2>2. <<x - 1, x>> \in OpToRel(<, Nat)
      BY <2>1 DEF OpToRel
    <2> QED BY <1>2, <2>2
  <1> QED BY <1>3, <1>4

(* f is what n steps make of the base.                                         *)
Iterates(f, base, step, n) ==
  /\ f[0] = base
  /\ \A i \in 1..n : f[i] = step[i][f[i - 1]]

(* Every base and every sequence of steps has such a function.                 *)
LEMMA IterationExists ==
  ASSUME NEW N \in Nat, NEW S, NEW base \in S, NEW step \in [1..N -> [S -> S]]
  PROVE  \E f \in [0..N -> S] : Iterates(f, base, step, N)
  <1> DEFINE Has(m) == \E f \in [0..m -> S] : Iterates(f, base, step, m)
             H == {m \in 0..N : Has(m)}
  <1>1. Has(0)
    <2> DEFINE f == [n \in 0..0 |-> base]
    <2>1. f \in [0..0 -> S] /\ Iterates(f, base, step, 0)
      BY DEF Iterates
    <2> QED BY <2>1
  <1>2. ASSUME NEW m \in 1..N, Has(m - 1)
        PROVE  Has(m)
    <2>1. PICK g \in [0..(m - 1) -> S] : Iterates(g, base, step, m - 1)
      BY <1>2
    <2> DEFINE f == [n \in 0..m |-> IF n = m THEN step[m][g[m - 1]] ELSE g[n]]
    <2>2. f \in [0..m -> S]
      <3>1. g[m - 1] \in S
        BY <2>1
      <3>2. step[m][g[m - 1]] \in S
        BY <3>1
      <3>3. \A n \in 0..m : n # m => g[n] \in S
        BY <2>1
      <3> QED BY <3>2, <3>3
    <2>3. f[0] = base
      BY <2>1 DEF Iterates
    <2>4. ASSUME NEW i \in 1..m
          PROVE  f[i] = step[i][f[i - 1]]
      <3>1. CASE i = m
        BY <3>1
      <3>2. CASE i # m
        <4>1. i \in 1..(m - 1) /\ i \in 0..m /\ i - 1 \in 0..m /\ i - 1 # m
          BY <3>2
        <4>2. f[i] = g[i] /\ f[i - 1] = g[i - 1]
          BY <4>1, <3>2
        <4> QED BY <4>1, <4>2, <2>1 DEF Iterates
      <3> QED BY <3>1, <3>2
    <2>5. Iterates(f, base, step, m)
      BY <2>3, <2>4 DEF Iterates
    <2> QED BY <2>2, <2>5
  <1>3. 0..N \subseteq H
    <2>1. 0 \in H /\ \A m \in 1..N : m - 1 \in H => m \in H
      BY <1>1, <1>2
    <2> HIDE DEF H
    <2> QED BY <2>1, InductionUpTo
  <1> QED BY <1>3, N \in 0..N

(* Two functions agree that begin alike and whose steps keep them alike.       *)
LEMMA AgreeUpTo ==
  ASSUME NEW N \in Nat, NEW f, NEW g, f[0] = g[0],
         \A n \in 1..N : f[n - 1] = g[n - 1] => f[n] = g[n]
  PROVE  \A n \in 0..N : f[n] = g[n]
  <1> DEFINE H == {n \in 0..N : f[n] = g[n]}
  <1>1. 0 \in H /\ \A n \in 1..N : n - 1 \in H => n \in H
    OBVIOUS
  <1>2. 0..N \subseteq H
    <2> HIDE DEF H
    <2> QED BY <1>1, InductionUpTo
  <1> QED BY <1>2

---------------------------------------------------------------------------------
(* Sums and means.                                                             *)

(* The recursion of SumOf: its partial sums.                                   *)
PartialSums(sum, s) ==
  /\ sum \in [0..Len(s) -> Int]
  /\ sum[0] = 0
  /\ \A n \in 1..Len(s) : sum[n] = sum[n - 1] + s[n]

LEMMA SumOfUnfolds ==
  ASSUME NEW s \in Seq(Int)
  PROVE  \E sum : PartialSums(sum, s) /\ SumOf(s) = sum[Len(s)]
  <1> DEFINE N == Len(s)
             step == [n \in 1..N |-> [x \in Int |-> x + s[n]]]
  <1>1. N \in Nat /\ 0 \in Int /\ \A n \in 1..N : s[n] \in Int
    OBVIOUS
  <1>2. step \in [1..N -> [Int -> Int]]
    BY <1>1
  <1>3. PICK f \in [0..N -> Int] : Iterates(f, 0, step, N)
    <2> HIDE DEF step, N
    <2> QED BY <1>1, <1>2, IterationExists
  <1>4. PartialSums(f, s)
    <2>1. ASSUME NEW n \in 1..N
          PROVE  f[n] = f[n - 1] + s[n]
      <3>1. f[n - 1] \in Int
        BY <1>1
      <3>2. f[n] = step[n][f[n - 1]]
        BY <1>3 DEF Iterates
      <3> HIDE DEF N
      <3> QED BY <3>1, <3>2
    <2> QED BY <2>1, <1>3 DEF Iterates, PartialSums
  <1> DEFINE Unfolds(h) == h = [n \in 0..N |-> IF n = 0 THEN 0 ELSE h[n - 1] + s[n]]
             sum == CHOOSE h : Unfolds(h)
  <1>5. Unfolds(f)
    <2>1. \A n \in 0..N : n = 0 \/ n \in 1..N
      BY <1>1
    <2> HIDE DEF N
    <2> QED BY <2>1, <1>3, <1>4 DEF PartialSums, N
  <1>6. Unfolds(sum)
    <2> HIDE DEF Unfolds
    <2> QED BY <1>5, Zenon
  <1>7. SumOf(s) = sum[N]
    BY DEF SumOf
  <1>8. sum[0] = 0 /\ \A n \in 1..N : sum[n] = sum[n - 1] + s[n]
    <2>1. \A n \in 0..N : sum[n] = IF n = 0 THEN 0 ELSE sum[n - 1] + s[n]
      <3> HIDE DEF sum, N
      <3> QED BY <1>6
    <2>2. 0 \in 0..N /\ \A n \in 1..N : n \in 0..N /\ n # 0
      BY <1>1
    <2> HIDE DEF sum, N
    <2> QED BY <2>1, <2>2
  <1>9. \A n \in 0..N : sum[n] = f[n]
    <2>1. sum[0] = f[0] /\ \A n \in 1..N : sum[n - 1] = f[n - 1] => sum[n] = f[n]
      <3> HIDE DEF sum, N
      <3> QED BY <1>8, <1>4 DEF PartialSums, N
    <2> HIDE DEF sum, N
    <2> QED BY <1>1, <2>1, AgreeUpTo
  <1>10. SumOf(s) = f[N]
    <2> HIDE DEF sum, N
    <2> QED BY <1>1, <1>7, <1>9
  <1> QED BY <1>4, <1>10

LEMMA SumOfType ==
  ASSUME NEW s \in Seq(Int)
  PROVE  SumOf(s) \in Int
  <1>1. PICK sum : PartialSums(sum, s) /\ SumOf(s) = sum[Len(s)]
    BY SumOfUnfolds
  <1>2. Len(s) \in 0..Len(s)
    OBVIOUS
  <1> QED BY <1>1, <1>2 DEF PartialSums

(* One more term that is at most hi keeps a sum of n terms at most n * hi.     *)
LEMMA OneMoreAtMost ==
  ASSUME NEW n \in Nat \ {0}, NEW hi \in Int, NEW a \in Int, NEW b \in Int,
         a <= (n - 1) * hi, b <= hi
  PROVE  a + b <= n * hi
  OBVIOUS

LEMMA OneMoreAtLeast ==
  ASSUME NEW n \in Nat \ {0}, NEW lo \in Int, NEW a \in Int, NEW b \in Int,
         (n - 1) * lo <= a, lo <= b
  PROVE  n * lo <= a + b
  OBVIOUS

LEMMA SumAtMost ==
  ASSUME NEW s \in Seq(Int), NEW hi \in Int, \A i \in 1..Len(s) : s[i] <= hi
  PROVE  SumOf(s) <= Len(s) * hi
  <1>1. PICK sum : PartialSums(sum, s) /\ SumOf(s) = sum[Len(s)]
    BY SumOfUnfolds
  <1> DEFINE H == {n \in 0..Len(s) : sum[n] <= n * hi}
  <1>2. 0 \in H
    BY <1>1 DEF PartialSums
  <1>3. ASSUME NEW n \in 1..Len(s), n - 1 \in H
        PROVE  n \in H
    <2>1. n \in 1..Len(s) /\ n - 1 \in 0..Len(s) /\ n \in Nat \ {0} /\ n \in 0..Len(s)
      BY <1>3
    <2>2. s[n] \in Int /\ s[n] <= hi
      BY <2>1
    <2>3. sum[n - 1] \in Int /\ sum[n] = sum[n - 1] + s[n]
      BY <1>1, <2>1 DEF PartialSums
    <2>4. sum[n - 1] <= (n - 1) * hi
      BY <1>3
    <2>5. sum[n - 1] + s[n] <= n * hi
      BY <2>1, <2>2, <2>3, <2>4, OneMoreAtMost
    <2> QED BY <2>1, <2>3, <2>5
  <1>4. 0..Len(s) \subseteq H
    <2>1. Len(s) \in Nat
      OBVIOUS
    <2> HIDE DEF H
    <2> QED BY <2>1, <1>2, <1>3, InductionUpTo
  <1>5. Len(s) \in 0..Len(s)
    OBVIOUS
  <1> QED BY <1>1, <1>4, <1>5

LEMMA SumAtLeast ==
  ASSUME NEW s \in Seq(Int), NEW lo \in Int, \A i \in 1..Len(s) : lo <= s[i]
  PROVE  Len(s) * lo <= SumOf(s)
  <1>1. PICK sum : PartialSums(sum, s) /\ SumOf(s) = sum[Len(s)]
    BY SumOfUnfolds
  <1> DEFINE H == {n \in 0..Len(s) : n * lo <= sum[n]}
  <1>2. 0 \in H
    BY <1>1 DEF PartialSums
  <1>3. ASSUME NEW n \in 1..Len(s), n - 1 \in H
        PROVE  n \in H
    <2>1. n \in 1..Len(s) /\ n - 1 \in 0..Len(s) /\ n \in Nat \ {0} /\ n \in 0..Len(s)
      BY <1>3
    <2>2. s[n] \in Int /\ lo <= s[n]
      BY <2>1
    <2>3. sum[n - 1] \in Int /\ sum[n] = sum[n - 1] + s[n]
      BY <1>1, <2>1 DEF PartialSums
    <2>4. (n - 1) * lo <= sum[n - 1]
      BY <1>3
    <2>5. n * lo <= sum[n - 1] + s[n]
      BY <2>1, <2>2, <2>3, <2>4, OneMoreAtLeast
    <2> QED BY <2>1, <2>3, <2>5
  <1>4. 0..Len(s) \subseteq H
    <2>1. Len(s) \in Nat
      OBVIOUS
    <2> HIDE DEF H
    <2> QED BY <2>1, <1>2, <1>3, InductionUpTo
  <1>5. Len(s) \in 0..Len(s)
    OBVIOUS
  <1> QED BY <1>1, <1>4, <1>5

LEMMA QuotientBounds ==
  ASSUME NEW a \in Int, NEW n \in Nat \ {0}
  PROVE  /\ a \div n \in Int
         /\ \A lo \in Int : n * lo <= a => lo <= a \div n
         /\ \A hi \in Int : a <= n * hi => a \div n <= hi
  OBVIOUS

(* A mean lies between two of the numbers it is the mean of.                   *)
LEMMA MeanIsBetween ==
  ASSUME NEW s \in Seq(Int), Len(s) > 0
  PROVE  /\ SumOf(s) \div Len(s) \in Int
         /\ \E i \in 1..Len(s) : s[i] <= SumOf(s) \div Len(s)
         /\ \E i \in 1..Len(s) : SumOf(s) \div Len(s) <= s[i]
  <1> DEFINE mean == SumOf(s) \div Len(s)
  <1>1. SumOf(s) \in Int /\ Len(s) \in Nat \ {0}
    BY SumOfType
  <1>2. /\ mean \in Int
        /\ \A lo \in Int : Len(s) * lo <= SumOf(s) => lo <= mean
        /\ \A hi \in Int : SumOf(s) <= Len(s) * hi => mean <= hi
    BY <1>1, QuotientBounds
  <1> HIDE DEF mean
  <1>3. ASSUME \A i \in 1..Len(s) : mean < s[i] PROVE FALSE
    <2>1. mean + 1 \in Int /\ \A i \in 1..Len(s) : mean + 1 <= s[i]
      BY <1>2, <1>3
    <2>2. Len(s) * (mean + 1) <= SumOf(s)
      BY <2>1, SumAtLeast
    <2>3. mean + 1 <= mean
      BY <1>2, <2>1, <2>2
    <2> QED BY <1>2, <2>3
  <1>4. ASSUME \A i \in 1..Len(s) : s[i] < mean PROVE FALSE
    <2>1. mean - 1 \in Int /\ \A i \in 1..Len(s) : s[i] <= mean - 1
      BY <1>2, <1>4
    <2>2. SumOf(s) <= Len(s) * (mean - 1)
      BY <2>1, SumAtMost
    <2>3. mean <= mean - 1
      BY <1>2, <2>1, <2>2
    <2> QED BY <1>2, <2>3
  <1>5. /\ mean \in Int
        /\ \E i \in 1..Len(s) : s[i] <= mean
        /\ \E i \in 1..Len(s) : mean <= s[i]
    BY <1>2, <1>3, <1>4
  <1> QED BY <1>5 DEF mean

---------------------------------------------------------------------------------
(* The times of the reply lines.                                               *)

LEMMA AnswersType ==
  ASSUME NEW a \in Answers
  PROVE  /\ a.kind \in {"reply", "lost", "rejected"}
         /\ IsReply(a) => a.ms \in ReplyTimes
  BY DEF Answers, Replied, Lost, Rejected, IsReply

(* The recursion of TimesOf: what it has collected after n lines.              *)
CollectedTimes(times, lines) ==
  /\ times \in [0..Len(lines) -> Seq(ReplyTimes)]
  /\ times[0] = <<>>
  /\ \A n \in 1..Len(lines) :
       times[n] = IF IsReply(lines[n]) THEN Append(times[n - 1], lines[n].ms)
                                       ELSE times[n - 1]

LEMMA TimesOfUnfolds ==
  ASSUME NEW lines \in Seq(Answers)
  PROVE  \E times : CollectedTimes(times, lines) /\ TimesOf(lines) = times[Len(lines)]
  <1> DEFINE N == Len(lines)
             S == Seq(ReplyTimes)
             OneMore(n, x) == IF IsReply(lines[n]) THEN Append(x, lines[n].ms) ELSE x
             step == [n \in 1..N |-> [x \in S |-> OneMore(n, x)]]
  <1>1. N \in Nat /\ <<>> \in S /\ \A n \in 1..N : lines[n] \in Answers
    OBVIOUS
  <1>2. \A n \in 1..N : \A x \in S : OneMore(n, x) \in S
    BY <1>1, AnswersType
  <1>3. step \in [1..N -> [S -> S]]
    <2> HIDE DEF N, S, OneMore
    <2> QED BY <1>2
  <1>4. PICK f \in [0..N -> S] : Iterates(f, <<>>, step, N)
    <2> HIDE DEF step, N, S
    <2> QED BY <1>1, <1>3, IterationExists
  <1>5. f[0] = <<>> /\ \A n \in 1..N : f[n] = OneMore(n, f[n - 1])
    <2>1. ASSUME NEW n \in 1..N
          PROVE  f[n] = OneMore(n, f[n - 1])
      <3>1. f[n - 1] \in S
        <4>1. n - 1 \in 0..N
          BY <1>1
        <4> HIDE DEF S
        <4> QED BY <4>1
      <3>2. f[n] = step[n][f[n - 1]]
        BY <1>4 DEF Iterates
      <3> HIDE DEF N, S, OneMore
      <3> QED BY <3>1, <3>2
    <2> QED BY <2>1, <1>4 DEF Iterates
  <1>6. CollectedTimes(f, lines)
    BY <1>5 DEF CollectedTimes
  <1> DEFINE Unfolds(h) == h = [n \in 0..N |-> IF n = 0 THEN <<>> ELSE OneMore(n, h[n - 1])]
             times == CHOOSE h : Unfolds(h)
  <1>7. Unfolds(f)
    <2>1. \A n \in 0..N : n = 0 \/ n \in 1..N
      BY <1>1
    <2> HIDE DEF N, S, OneMore
    <2> QED BY <2>1, <1>4, <1>5
  <1>8. Unfolds(times)
    <2> HIDE DEF Unfolds
    <2> QED BY <1>7, Zenon
  <1>9. TimesOf(lines) = times[N]
    BY DEF TimesOf
  <1>10. times[0] = <<>> /\ \A n \in 1..N : times[n] = OneMore(n, times[n - 1])
    <2>1. \A n \in 0..N : times[n] = IF n = 0 THEN <<>> ELSE OneMore(n, times[n - 1])
      <3> HIDE DEF times, N, OneMore
      <3> QED BY <1>8
    <2>2. 0 \in 0..N /\ \A n \in 1..N : n \in 0..N /\ n # 0
      BY <1>1
    <2> HIDE DEF times, N, OneMore
    <2> QED BY <2>1, <2>2
  <1>11. \A n \in 0..N : times[n] = f[n]
    <2>1. times[0] = f[0] /\ \A n \in 1..N : times[n - 1] = f[n - 1] => times[n] = f[n]
      <3> HIDE DEF times, N, OneMore
      <3> QED BY <1>5, <1>10
    <2> HIDE DEF times, N
    <2> QED BY <1>1, <2>1, AgreeUpTo
  <1>12. TimesOf(lines) = f[N]
    <2> HIDE DEF times, N
    <2> QED BY <1>1, <1>9, <1>11
  <1> QED BY <1>6, <1>12

(* The times are exactly those of the lines that are replies.                  *)
LEMMA TimesOfReplies ==
  ASSUME NEW lines \in Seq(Answers)
  PROVE  /\ TimesOf(lines) \in Seq(ReplyTimes)
         /\ \A i \in 1..Len(TimesOf(lines)) : \E j \in 1..Len(lines) :
              IsReply(lines[j]) /\ lines[j].ms = TimesOf(lines)[i]
         /\ \A j \in 1..Len(lines) : IsReply(lines[j]) =>
              \E i \in 1..Len(TimesOf(lines)) : lines[j].ms = TimesOf(lines)[i]
  <1> DEFINE N == Len(lines)
  <1>1. PICK times : CollectedTimes(times, lines) /\ TimesOf(lines) = times[N]
    BY TimesOfUnfolds
  <1> DEFINE Only(n) == \A i \in 1..Len(times[n]) : \E j \in 1..n :
                          IsReply(lines[j]) /\ lines[j].ms = times[n][i]
             All(n)  == \A j \in 1..n : IsReply(lines[j]) =>
                          \E i \in 1..Len(times[n]) : lines[j].ms = times[n][i]
             H == {n \in 0..N : Only(n) /\ All(n)}
  <1>2. N \in Nat /\ \A n \in 0..N : times[n] \in Seq(ReplyTimes)
    BY <1>1 DEF CollectedTimes
  <1>3. 0 \in H
    BY <1>1 DEF CollectedTimes
  <1>4. ASSUME NEW n \in 1..N, n - 1 \in H
        PROVE  n \in H
    <2>1. /\ n \in 0..N /\ n - 1 \in 0..N /\ n \in 1..n
          /\ 1..n = (1..(n - 1)) \cup {n}
      BY <1>2
    <2>2. Only(n - 1) /\ All(n - 1) /\ times[n - 1] \in Seq(ReplyTimes)
      BY <1>2, <1>4, <2>1
    <2>3. CASE IsReply(lines[n])
      <3> DEFINE old == times[n - 1]
                 ms == lines[n].ms
      <3>1. times[n] = Append(old, ms)
        BY <2>3, <1>1 DEF CollectedTimes
      <3>2. old \in Seq(ReplyTimes)
        BY <2>2
      <3>3. /\ Len(times[n]) = Len(old) + 1
            /\ times[n][Len(old) + 1] = ms
            /\ \A i \in 1..Len(old) : times[n][i] = old[i]
            /\ Len(old) \in Nat
        <4> HIDE DEF old, ms
        <4> QED BY <3>1, <3>2
      <3>4. ASSUME NEW i \in 1..Len(times[n])
            PROVE  \E j \in 1..n : IsReply(lines[j]) /\ lines[j].ms = times[n][i]
        <4>1. i \in 1..Len(old) \/ i = Len(old) + 1
          BY <3>3
        <4>2. CASE i \in 1..Len(old)
          BY <4>2, <3>3, <2>1, <2>2
        <4>3. CASE i = Len(old) + 1
          BY <4>3, <3>3, <2>1, <2>3
        <4> QED BY <4>1, <4>2, <4>3
      <3>5. ASSUME NEW j \in 1..n, IsReply(lines[j])
            PROVE  \E i \in 1..Len(times[n]) : lines[j].ms = times[n][i]
        <4>1. j \in 1..(n - 1) \/ j = n
          BY <2>1
        <4>2. CASE j \in 1..(n - 1)
          <5>1. PICK i \in 1..Len(old) : lines[j].ms = old[i]
            BY <4>2, <3>5, <2>2
          <5>2. i \in 1..Len(times[n]) /\ times[n][i] = old[i]
            BY <3>3
          <5> QED BY <5>1, <5>2
        <4>3. CASE j = n
          <5>1. Len(old) + 1 \in 1..Len(times[n])
            BY <3>3
          <5> QED BY <5>1, <4>3, <3>3
        <4> QED BY <4>1, <4>2, <4>3
      <3> QED BY <2>1, <3>4, <3>5
    <2>4. CASE ~IsReply(lines[n])
      <3>1. times[n] = times[n - 1]
        BY <2>4, <1>1 DEF CollectedTimes
      <3>2. Only(n)
        BY <3>1, <2>1, <2>2
      <3>3. All(n)
        BY <3>1, <2>1, <2>2, <2>4
      <3> QED BY <2>1, <3>2, <3>3
    <2> QED BY <2>3, <2>4
  <1>5. 0..N \subseteq H
    <2> HIDE DEF H, N
    <2> QED BY <1>2, <1>3, <1>4, InductionUpTo
  <1>6. N \in H
    <2> HIDE DEF H, N
    <2> QED BY <1>2, <1>5
  <1> QED BY <1>1, <1>2, <1>6

---------------------------------------------------------------------------------
(* The samples, their means and the summary's loss, for any answers.           *)

LEMMA SamplesOfReplies ==
  ASSUME answers \in Seq(Answers)
  PROVE  /\ TimesOf(answers) \in Seq(Nat) /\ Samples \in Seq(Nat)
         /\ \A i \in 1..Len(TimesOf(answers)) : TimesOf(answers)[i] \in Replies
         /\ TimesOf(answers) # <<>> <=> Replies # {}
         /\ platform # "linux" => Samples = TimesOf(answers)
  <1>1. /\ TimesOf(answers) \in Seq(ReplyTimes)
        /\ \A i \in 1..Len(TimesOf(answers)) : \E j \in 1..Len(answers) :
             IsReply(answers[j]) /\ answers[j].ms = TimesOf(answers)[i]
        /\ \A j \in 1..Len(answers) : IsReply(answers[j]) =>
             \E i \in 1..Len(TimesOf(answers)) : answers[j].ms = TimesOf(answers)[i]
    BY TimesOfReplies
  <1>2. TimesOf(answers) \in Seq(Nat)
    <2>1. ReplyTimes \subseteq Nat
      BY IcmpClientAssumption
    <2> QED BY <1>1, <2>1, SeqMonotonic
  <1>3. Samples \in Seq(Nat)
    <2>1. RunTime \in Nat
      BY IcmpClientAssumption
    <2>2. Append(TimesOf(answers), RunTime) \in Seq(Nat)
      BY <1>2, <2>1
    <2> QED BY <1>2, <2>2 DEF Samples
  <1>4. DOMAIN answers = 1..Len(answers)
    OBVIOUS
  <1>5. \A i \in 1..Len(TimesOf(answers)) : TimesOf(answers)[i] \in Replies
    BY <1>1, <1>4 DEF Replies
  <1>6. ASSUME Replies # {} PROVE TimesOf(answers) # <<>>
    <2>1. PICK j \in 1..Len(answers) : IsReply(answers[j])
      BY <1>6, <1>4 DEF Replies
    <2>2. PICK i \in 1..Len(TimesOf(answers)) : answers[j].ms = TimesOf(answers)[i]
      BY <2>1, <1>1
    <2> QED BY <2>2
  <1>7. ASSUME TimesOf(answers) # <<>> PROVE Replies # {}
    <2>1. 1 \in 1..Len(TimesOf(answers))
      BY <1>1, <1>7
    <2> QED BY <1>5, <2>1
  <1>8. platform # "linux" => Samples = TimesOf(answers)
    BY DEF Samples
  <1> QED BY <1>2, <1>3, <1>5, <1>6, <1>7, <1>8

LEMMA MeanLatencyIsBetween ==
  ASSUME NEW samples \in Seq(Nat), samples # <<>>
  PROVE  /\ MeanLatency(samples) \in Int
         /\ \E i \in 1..Len(samples) : samples[i] <= MeanLatency(samples)
         /\ \E i \in 1..Len(samples) : MeanLatency(samples) <= samples[i]
  <1>1. samples \in Seq(Int) /\ Len(samples) > 0
    OBVIOUS
  <1> QED BY <1>1, MeanIsBetween DEF MeanLatency

(* Some two successive samples differ by the mean difference or more.          *)
LEMMA MeanDifferenceIsBounded ==
  ASSUME NEW samples \in Seq(Nat), Len(samples) >= 2
  PROVE  /\ MeanDifference(samples) \in Int
         /\ \E i, j \in 1..Len(samples) : MeanDifference(samples) <= samples[j] - samples[i]
  <1> DEFINE diffs == Differences(samples)
  <1>1. \A i \in 1..(Len(samples) - 1) :
          /\ i \in 1..Len(samples) /\ i + 1 \in 1..Len(samples)
          /\ samples[i] \in Nat /\ samples[i + 1] \in Nat
    OBVIOUS
  <1>2. \A i \in 1..(Len(samples) - 1) : Distance(samples[i + 1], samples[i]) \in Int
    BY <1>1 DEF Distance
  <1>3. diffs \in Seq(Int) /\ Len(diffs) = Len(samples) - 1 /\ Len(diffs) > 0
    <2>1. Len(samples) - 1 \in Nat /\ Len(samples) - 1 > 0
      OBVIOUS
    <2> QED BY <1>2, <2>1 DEF Differences
  <1>4. MeanDifference(samples) = SumOf(diffs) \div Len(diffs)
    BY <1>3 DEF MeanDifference
  <1>5. /\ MeanDifference(samples) \in Int
        /\ \E i \in 1..Len(diffs) : MeanDifference(samples) <= diffs[i]
    <2> HIDE DEF diffs
    <2> QED BY <1>3, <1>4, MeanIsBetween
  <1>6. PICK k \in 1..(Len(samples) - 1) : MeanDifference(samples) <= diffs[k]
    BY <1>3, <1>5
  <1>7. diffs[k] = Distance(samples[k + 1], samples[k])
    BY <1>6 DEF Differences
  <1>8. CASE samples[k + 1] > samples[k]
    <2>1. MeanDifference(samples) <= samples[k + 1] - samples[k]
      BY <1>6, <1>7, <1>8 DEF Distance
    <2> QED BY <1>1, <1>5, <1>6, <2>1
  <1>9. CASE ~(samples[k + 1] > samples[k])
    <2>1. MeanDifference(samples) <= samples[k] - samples[k + 1]
      BY <1>6, <1>7, <1>9 DEF Distance
    <2> QED BY <1>1, <1>5, <1>6, <2>1
  <1> QED BY <1>8, <1>9

(* The loss is a percentage, and 100 only if no packet came back.              *)
LEMMA PercentLost ==
  ASSUME NEW n \in Nat \ {0}, NEW r \in 0..n
  PROVE  /\ ((n - r) * 100) \div n \in 0..100
         /\ ((n - r) * 100) \div n = 100 => r = 0
  <1> DEFINE a == (n - r) * 100
  <1>1. a \in Int /\ 0 <= a /\ a <= n * 100 /\ (r # 0 => a < n * 100)
    OBVIOUS
  <1> HIDE DEF a
  <1>2. a \div n \in 0..100 /\ (a \div n = 100 => n * 100 <= a)
    BY <1>1
  <1> QED BY <1>1, <1>2 DEF a

LEMMA SummaryLossCountsReceived ==
  ASSUME answers \in Seq(Answers), Len(answers) = Count
  PROVE  /\ SummaryLoss \in 0..100
         /\ SummaryLoss = 100 => Replies = {}
  <1>1. Count \in Nat \ {0} /\ DOMAIN answers = 1..Count
    BY IcmpClientAssumption
  <1>2. IsFiniteSet(1..Count) /\ Cardinality(1..Count) = Count
    BY <1>1, FS_Interval
  <1>3. Received \subseteq 1..Count
    BY <1>1 DEF Received
  <1>4. IsFiniteSet(Received) /\ Cardinality(Received) <= Count /\ Cardinality(Received) \in Nat
    BY <1>2, <1>3, FS_Subset, FS_CardinalityType
  <1>5. /\ SummaryLoss \in 0..100
        /\ SummaryLoss = 100 => Cardinality(Received) = 0
    <2> DEFINE r == Cardinality(Received)
    <2>1. r \in 0..Count
      BY <1>1, <1>4
    <2>2. SummaryLoss = ((Count - r) * 100) \div Count
      BY DEF SummaryLoss
    <2> HIDE DEF r
    <2>3. /\ ((Count - r) * 100) \div Count \in 0..100
          /\ ((Count - r) * 100) \div Count = 100 => r = 0
      BY <1>1, <2>1, PercentLost
    <2> QED BY <2>2, <2>3 DEF r
  <1>6. Cardinality(Received) = 0 => Received = {}
    BY <1>4, FS_EmptySet
  <1>7. Received = {} => Replies = {}
    BY DEF Received, Replies
  <1> QED BY <1>5, <1>6, <1>7

(* What _parse makes of samples and a loss.                                    *)
LEMMA ParseOfSamples ==
  ASSUME NEW samples \in Seq(Nat), NEW loss \in (0..100) \cup {None},
         NEW r, r = Parse(samples, loss)
  PROVE  /\ r.reachable = (samples # <<>>)
         /\ r.loss = IF loss # None THEN loss ELSE IF r.reachable THEN 0 ELSE 100
         /\ r.latency = IF r.reachable THEN MeanLatency(samples) ELSE None
         /\ r.jitter = IF Len(samples) >= 2 THEN MeanDifference(samples) ELSE None
         /\ r.loss \in 0..100
         /\ r.latency = None <=> ~r.reachable
         /\ r.jitter # None => r.latency # None
  <1>1. /\ r.reachable = (samples # <<>>)
        /\ r.loss = IF loss # None THEN loss ELSE IF r.reachable THEN 0 ELSE 100
        /\ r.latency = IF r.reachable THEN MeanLatency(samples) ELSE None
        /\ r.jitter = IF Len(samples) >= 2 THEN MeanDifference(samples) ELSE None
    BY DEF Parse, Parsed
  <1>2. samples # <<>> => MeanLatency(samples) # None
    BY MeanLatencyIsBetween, IcmpClientAssumption
  <1>3. Len(samples) >= 2 => samples # <<>>
    OBVIOUS
  <1>4. r.loss \in 0..100
    BY <1>1
  <1>5. r.latency = None <=> ~r.reachable
    BY <1>1, <1>2, Zenon
  <1>6. r.jitter # None => r.latency # None
    BY <1>1, <1>2, <1>3, Zenon
  <1> QED BY <1>1, <1>4, <1>5, <1>6

---------------------------------------------------------------------------------
(* The run: its result is one of three, and none is there before the end.      *)

ResultOrigin ==
  \/ result = None
  \/ result = NoAnswer
  \/ result = Parse(TimesOf(answers), None)
  \/ result = Parse(Samples, SummaryLoss) /\ Len(answers) = Count

RunInv ==
  /\ platform \in Platforms
  /\ answers \in Seq(Answers)
  /\ Len(answers) <= Count
  /\ ResultOrigin

LEMMA RunInvInductive == Spec => []RunInv
  <1>1. Init => RunInv
    BY IcmpClientAssumption DEF Init, RunInv, ResultOrigin
  <1>2. RunInv /\ [Next]_vars => RunInv'
    <2> SUFFICES ASSUME RunInv, [Next]_vars PROVE RunInv'
      OBVIOUS
    <2> USE DEF RunInv, ResultOrigin
    <2>1. ASSUME NEW a \in Answers, Echo(a)
          PROVE  RunInv'
      BY <2>1, IcmpClientAssumption DEF Echo
    <2>2. CASE Finish
      BY <2>2 DEF Finish, Samples, SummaryLoss, Received
    <2>3. CASE FinishWithoutSummary
      BY <2>3 DEF FinishWithoutSummary
    <2>4. CASE NotFoundOrTimedOut
      BY <2>4 DEF NotFoundOrTimedOut
    <2>5. CASE UNCHANGED vars
      BY <2>5 DEF vars, Samples, SummaryLoss, Received
    <2> QED BY <2>1, <2>2, <2>3, <2>4, <2>5 DEF Next
  <1> QED BY <1>1, <1>2, PTL DEF Spec

(* What any result says, by the two ways to get one.                           *)
LEMMA ResultOfRun ==
  ASSUME RunInv, HasResult
  PROVE  \/ result = NoAnswer
         \/ \E samples \in Seq(Nat), loss \in (0..100) \cup {None} :
              /\ result = Parse(samples, loss)
              /\ \/ samples = TimesOf(answers) /\ loss = None
                 \/ samples = Samples /\ loss = SummaryLoss /\ Len(answers) = Count
  <1>1. TimesOf(answers) \in Seq(Nat) /\ Samples \in Seq(Nat)
    BY SamplesOfReplies DEF RunInv
  <1>2. Len(answers) = Count => SummaryLoss \in 0..100
    BY SummaryLossCountsReceived DEF RunInv
  <1> QED BY <1>1, <1>2 DEF RunInv, ResultOrigin, HasResult

(* Where the summary prints no time, a parsed result is made of the times of   *)
(* the replies, whether the output was complete or cut off.                    *)
LEMMA ParsedFromReplies ==
  ASSUME RunInv, HasResult, result # NoAnswer, platform # "linux"
  PROVE  \E samples \in Seq(Nat), loss \in (0..100) \cup {None} :
           /\ result = Parse(samples, loss)
           /\ \A i \in 1..Len(samples) : samples[i] \in Replies
           /\ samples # <<>> <=> Replies # {}
           /\ loss = 100 => Replies = {}
  <1>1. PICK samples \in Seq(Nat), loss \in (0..100) \cup {None} :
          /\ result = Parse(samples, loss)
          /\ \/ samples = TimesOf(answers) /\ loss = None
             \/ samples = Samples /\ loss = SummaryLoss /\ Len(answers) = Count
    BY ResultOfRun
  <1>2. samples = TimesOf(answers)
    BY <1>1, SamplesOfReplies DEF RunInv
  <1>3. /\ \A i \in 1..Len(samples) : samples[i] \in Replies
        /\ samples # <<>> <=> Replies # {}
    BY <1>2, SamplesOfReplies DEF RunInv
  <1>4. loss = 100 => Replies = {}
    BY <1>1, SummaryLossCountsReceived, IcmpClientAssumption DEF RunInv
  <1> QED BY <1>1, <1>3, <1>4

(* A result has a loss between 0 and 100, a latency exactly if it calls the    *)
(* target reachable, and a jitter only beside a latency, whatever was printed. *)
THEOREM TypeCorrect == Spec => []TypeOK
  <1>1. RunInv => TypeOK
    <2> SUFFICES ASSUME RunInv, HasResult
                 PROVE  /\ result.reachable \in BOOLEAN
                        /\ result.loss \in 0..100
                        /\ result.latency = None <=> ~result.reachable
                        /\ result.jitter # None => result.latency # None
      BY DEF TypeOK, RunInv
    <2>1. CASE result = NoAnswer
      BY <2>1 DEF NoAnswer
    <2>2. ASSUME NEW samples \in Seq(Nat), NEW loss \in (0..100) \cup {None},
                 result = Parse(samples, loss)
          PROVE  /\ result.reachable \in BOOLEAN
                 /\ result.loss \in 0..100
                 /\ result.latency = None <=> ~result.reachable
                 /\ result.jitter # None => result.latency # None
      <3>1. result.reachable = (samples # <<>>)
        BY <2>2 DEF Parse, Parsed
      <3>2. result.reachable \in BOOLEAN
        BY <3>1
      <3> QED BY <2>2, <3>2, ParseOfSamples
    <2> QED BY <2>1, <2>2, ResultOfRun, Zenon
  <1> QED BY <1>1, RunInvInductive, PTL

---------------------------------------------------------------------------------
(* What a result says of the replies, where the summary prints no time.        *)

LEMMA LatencyOfRun ==
  ASSUME RunInv, platform # "linux"
  PROVE  LatencyComesFromReplies
  <1> SUFFICES ASSUME HasResult, result.reachable
               PROVE  /\ \E low \in Replies : low <= result.latency
                      /\ \E high \in Replies : result.latency <= high
    BY DEF LatencyComesFromReplies
  <1>1. result # NoAnswer
    BY DEF NoAnswer
  <1>2. PICK samples \in Seq(Nat), loss \in (0..100) \cup {None} :
          /\ result = Parse(samples, loss)
          /\ \A i \in 1..Len(samples) : samples[i] \in Replies
    BY <1>1, ParsedFromReplies
  <1>3. samples # <<>> /\ result.latency = MeanLatency(samples)
    BY <1>2 DEF Parse, Parsed
  <1>4. \A i \in 1..Len(samples) : samples[i] \in Replies
    BY <1>2
  <1>5. /\ \E i \in 1..Len(samples) : samples[i] <= result.latency
        /\ \E i \in 1..Len(samples) : result.latency <= samples[i]
    BY <1>3, MeanLatencyIsBetween
  <1> QED BY <1>4, <1>5

LEMMA ReachabilityOfRun ==
  ASSUME RunInv, platform # "linux"
  PROVE  ReachableIffAnswered
  <1> SUFFICES ASSUME HasResult, result # NoAnswer
               PROVE  result.reachable <=> Replies # {}
    BY DEF ReachableIffAnswered
  <1>1. PICK samples \in Seq(Nat), loss \in (0..100) \cup {None} :
          result = Parse(samples, loss) /\ (samples # <<>> <=> Replies # {})
    BY ParsedFromReplies
  <1>2. result.reachable = (samples # <<>>)
    BY <1>1 DEF Parse, Parsed
  <1> QED BY <1>1, <1>2

LEMMA JitterOfRun ==
  ASSUME RunInv, platform # "linux"
  PROVE  JitterWithinSpread
  <1> SUFFICES ASSUME HasResult, result.jitter # None
               PROVE  \E low, high \in Replies : result.jitter <= high - low
    BY DEF JitterWithinSpread
  <1>1. result # NoAnswer
    BY DEF NoAnswer
  <1>2. PICK samples \in Seq(Nat), loss \in (0..100) \cup {None} :
          /\ result = Parse(samples, loss)
          /\ \A i \in 1..Len(samples) : samples[i] \in Replies
    BY <1>1, ParsedFromReplies
  <1>3. Len(samples) >= 2 /\ result.jitter = MeanDifference(samples)
    BY <1>2 DEF Parse, Parsed
  <1>4. \A i \in 1..Len(samples) : samples[i] \in Replies
    BY <1>2
  <1>5. PICK i, j \in 1..Len(samples) : result.jitter <= samples[j] - samples[i]
    BY <1>3, MeanDifferenceIsBounded
  <1> QED BY <1>4, <1>5

(* A loss of 100 per cent: the process gave no answer, or no packet came back. *)
LEMMA TotalLossOfRun ==
  ASSUME RunInv, platform # "linux"
  PROVE  TotalLossIsUnreachable
  <1> SUFFICES ASSUME HasResult, result.loss = 100 PROVE ~result.reachable
    BY DEF TotalLossIsUnreachable
  <1>1. CASE result = NoAnswer
    BY <1>1 DEF NoAnswer
  <1>2. CASE result # NoAnswer
    <2>1. PICK samples \in Seq(Nat), loss \in (0..100) \cup {None} :
            /\ result = Parse(samples, loss)
            /\ samples # <<>> <=> Replies # {}
            /\ loss = 100 => Replies = {}
      BY <1>2, ParsedFromReplies
    <2>2. /\ result.reachable = (samples # <<>>)
          /\ result.loss = IF loss # None THEN loss ELSE IF result.reachable THEN 0 ELSE 100
      BY <2>1 DEF Parse, Parsed
    <2>3. CASE loss # None
      BY <2>1, <2>2, <2>3
    <2>4. CASE loss = None
      BY <2>2, <2>4
    <2> QED BY <2>3, <2>4
  <1> QED BY <1>1, <1>2

(* Where the summary prints no time, the latency of a reachable target lies    *)
(* between its fastest and its slowest reply, and there is one                 *)
(* (_parse, icmp_client.py:35-58).                                             *)
THEOREM LatencyIsMeasured ==
  ASSUME "linux" \notin Platforms
  PROVE  Spec => []LatencyComesFromReplies
  <1>1. RunInv => LatencyComesFromReplies
    BY LatencyOfRun DEF RunInv
  <1> QED BY <1>1, RunInvInductive, PTL

(* Where the summary prints no time, a run whose output was parsed, complete   *)
(* or cut off, calls the target reachable exactly if a request was answered,   *)
(* whatever the summary says of the loss (icmp_client.py:50-51).               *)
THEOREM ReachableIsMeasured ==
  ASSUME "linux" \notin Platforms
  PROVE  Spec => []ReachableIffAnswered
  <1>1. RunInv => ReachableIffAnswered
    BY ReachabilityOfRun DEF RunInv
  <1> QED BY <1>1, RunInvInductive, PTL

(* Where the summary prints no time, the jitter never exceeds the spread of    *)
(* the replies (icmp_client.py:43-46).                                         *)
THEOREM JitterIsMeasured ==
  ASSUME "linux" \notin Platforms
  PROVE  Spec => []JitterWithinSpread
  <1>1. RunInv => JitterWithinSpread
    BY JitterOfRun DEF RunInv
  <1> QED BY <1>1, RunInvInductive, PTL

(* The outage alert's "100% packet loss" (alert_engine.py:28) is true of every *)
(* result where the summary prints no time: the Linux summary, whose run time  *)
(* becomes a sample, is all that breaks it.                                    *)
THEOREM OnlyTheLinuxSummaryMisleads ==
  ASSUME "linux" \notin Platforms
  PROVE  Spec => []TotalLossIsUnreachable
  <1>1. RunInv => TotalLossIsUnreachable
    BY TotalLossOfRun DEF RunInv
  <1> QED BY <1>1, RunInvInductive, PTL
=================================================================================
