--------------------------- MODULE CsvDatasetProofs ---------------------------
(***************************************************************************)
(* Theorems about CsvDataset, for files of any length over any letters.     *)
(*                                                                          *)
(* Split and NonEmpty are defined by recursion.  What they compute is proved *)
(* by induction over sets of numbers and of sequences, which the provers    *)
(* take where they do not take the library's induction over predicates.     *)
(***************************************************************************)
EXTENDS CsvDataset, FiniteSetTheorems, SequenceTheorems, WellFoundedInduction, TLAPS

----------------------------------------------------------------------------
(***************************************************************************)
(* Induction and recursion                                                  *)
(***************************************************************************)
LEMMA SmallestOf ==
    ASSUME NEW S \in SUBSET Nat, S # {}
    PROVE  \E n \in S : \A m \in S : n <= m
<1>1. PICK n \in S : \A m \in S : <<m, n>> \notin OpToRel(<, Nat)
    BY NatLessThanWellFounded, WFMin
<1>2. \A m \in S : ~(m < n)
    BY <1>1 DEF OpToRel
<1> QED
    BY <1>2

LEMMA NatSetInduction ==
    ASSUME NEW S \in SUBSET Nat, 0 \in S, \A n \in S : n + 1 \in S
    PROVE  S = Nat
<1> SUFFICES ASSUME Nat \ S # {} PROVE FALSE
    OBVIOUS
<1>1. PICK n \in Nat \ S : \A m \in Nat \ S : n <= m
    BY SmallestOf
<1>2. n - 1 \in S
    BY <1>1
<1> QED
    BY <1>1, <1>2

LEMMA SeqSetInduction ==
    ASSUME NEW S, NEW P \in SUBSET Seq(S), <<>> \in P, \A s \in P, e \in S : Append(s, e) \in P
    PROVE  P = Seq(S)
<1> DEFINE N == {n \in Nat : \A s \in Seq(S) : Len(s) = n => s \in P}
<1>1. 0 \in N
    OBVIOUS
<1>2. ASSUME NEW n \in N PROVE n + 1 \in N
    <2> SUFFICES ASSUME NEW s \in Seq(S), Len(s) = n + 1 PROVE s \in P
        OBVIOUS
    <2>0. s # <<>>
        OBVIOUS
    <2>1. PICK r \in Seq(S), e \in S : s = Append(r, e)
        BY <2>0, SequenceEmptyOrAppend
    <2>2. Len(r) = n
        BY <2>1
    <2> QED
        BY <2>1, <2>2
<1>3. N = Nat
    <2> HIDE DEF N
    <2>1. N \in SUBSET Nat
        BY DEF N
    <2> QED
        BY <1>1, <1>2, <2>1, NatSetInduction
<1>4. ASSUME NEW s \in Seq(S) PROVE s \in P
    <2>1. Len(s) \in N
        BY <1>3
    <2> QED
        BY <2>1
<1> QED
    BY <1>4

IsRun(f, S, n, base, step) ==
    f \in [0..n -> S] /\ f[0] = base /\ \A i \in 1..n : f[i] = step[i][f[i - 1]]

\* a step from each value to the next has a sequence of values
LEMMA Recursion ==
    ASSUME NEW S, NEW n \in Nat, NEW base \in S, NEW step \in [1..n -> [S -> S]]
    PROVE  \E f : IsRun(f, S, n, base, step)
<1> DEFINE Runs(k) == \E f \in [0..k -> S] : f[0] = base /\ \A i \in 1..k : f[i] = step[i][f[i - 1]]
           K == {k \in Nat : k <= n => Runs(k)}
<1>1. Runs(0)
    <2>1. [i \in 0..0 |-> base] \in [0..0 -> S]
        OBVIOUS
    <2>2. [i \in 0..0 |-> base][0] = base /\ \A i \in 1..0 : FALSE
        OBVIOUS
    <2> QED
        BY <2>1, <2>2
<1>2. ASSUME NEW k \in Nat, k + 1 <= n, Runs(k) PROVE Runs(k + 1)
    <2>1. PICK f \in [0..k -> S] : f[0] = base /\ \A i \in 1..k : f[i] = step[i][f[i - 1]]
        BY <1>2
    <2> DEFINE g == [i \in 0..(k + 1) |-> IF i = k + 1 THEN step[k + 1][f[k]] ELSE f[i]]
    <2>2. f[k] \in S /\ step[k + 1][f[k]] \in S
        BY <1>2
    <2>3. g \in [0..(k + 1) -> S]
        BY <2>2
    <2>4. g[0] = base /\ \A i \in 1..(k + 1) : g[i] = step[i][g[i - 1]]
        BY <2>1
    <2> QED
        BY <2>3, <2>4
<1> HIDE DEF Runs
<1>3. 0 \in K /\ \A k \in K : k + 1 \in K
    BY <1>1, <1>2
<1>4. K = Nat
    <2> HIDE DEF K
    <2>1. K \in SUBSET Nat
        BY DEF K
    <2> QED
        BY <1>3, <2>1, NatSetInduction
<1>5. Runs(n)
    BY <1>4
<1> QED
    BY <1>5 DEF Runs, IsRun

----------------------------------------------------------------------------
(***************************************************************************)
(* What Split and NonEmpty compute                                          *)
(***************************************************************************)
Cuts(C) == Seq(Seq(C)) \ {<<>>}

LEMMA LastType ==
    ASSUME NEW S, NEW s \in Seq(S), s # <<>>
    PROVE  /\ Front(s) \in Seq(S) /\ Last(s) \in S /\ Len(Front(s)) = Len(s) - 1
           /\ \A i \in 1..(Len(s) - 1) : Front(s)[i] = s[i]
<1> DEFINE n == Len(s) - 1
<1>1. n \in Nat /\ Last(s) \in S /\ \A i \in 1..n : s[i] \in S
    BY EmptySeq DEF Last
<1> HIDE DEF n
<1>2. /\ SubSeq(s, 1, n) \in Seq(S) /\ Len(SubSeq(s, 1, n)) = n
      /\ \A i \in 1..n : SubSeq(s, 1, n)[i] = s[i]
    BY <1>1
<1> QED
    BY <1>1, <1>2 DEF Front, n

LEMMA PutType ==
    ASSUME NEW C, NEW p \in Cuts(C), NEW c, NEW sep, c # sep => c \in C
    PROVE  Put(p, c, sep) \in Cuts(C)
<1>1. <<>> \in Seq(C) /\ Append(p, <<>>) \in Seq(Seq(C)) \ {<<>>}
    BY DEF Cuts
<1>2. Front(p) \in Seq(Seq(C)) /\ Last(p) \in Seq(C)
    BY LastType DEF Cuts
<1>3. ASSUME c # sep PROVE Front(p) \o <<Append(Last(p), c)>> \in Cuts(C)
    <2>1. Append(Last(p), c) \in Seq(C)
        BY <1>2, <1>3
    <2>2. <<Append(Last(p), c)>> \in Seq(Seq(C)) /\ Len(<<Append(Last(p), c)>>) = 1
        BY <2>1
    <2>3. Front(p) \o <<Append(Last(p), c)>> \in Seq(Seq(C))
        BY <1>2, <2>2
    <2>4. Len(Front(p) \o <<Append(Last(p), c)>>) # 0
        BY <1>2, <2>2, ConcatProperties
    <2> QED
        BY <2>3, <2>4 DEF Cuts
<1> QED
    BY <1>1, <1>3 DEF Put, Cuts

LEMMA PartsDef ==
    ASSUME NEW C, NEW s \in Seq(C), NEW sep
    PROVE  /\ Parts(s, sep) \in [0..Len(s) -> Cuts(C)]
           /\ Parts(s, sep)[0] = << <<>> >>
           /\ \A n \in 1..Len(s) : Parts(s, sep)[n] = Put(Parts(s, sep)[n - 1], s[n], sep)
<1> DEFINE N == Len(s)
           Def(f) == f = [n \in 0..N |-> IF n = 0 THEN << <<>> >> ELSE Put(f[n - 1], s[n], sep)]
           step == [n \in 1..N |-> [p \in Cuts(C) |-> Put(p, s[n], sep)]]
<1>1. N \in Nat /\ << <<>> >> \in Cuts(C)
    BY DEF Cuts
<1>2. step \in [1..N -> [Cuts(C) -> Cuts(C)]]
    BY PutType
<1>3. PICK f \in [0..N -> Cuts(C)] : f[0] = << <<>> >> /\ \A n \in 1..N : f[n] = step[n][f[n - 1]]
    <2> DEFINE base == << <<>> >>
               S == Cuts(C)
    <2>1. N \in Nat /\ base \in S /\ step \in [1..N -> [S -> S]]
        BY <1>1, <1>2
    <2> HIDE DEF step, N, base, S
    <2>2. PICK f : IsRun(f, S, N, base, step)
        BY ONLY <2>1, Recursion
    <2> QED
        BY <2>2 DEF base, S, IsRun
<1>4. ASSUME NEW n \in 1..N PROVE f[n] = Put(f[n - 1], s[n], sep)
    <2>1. f[n - 1] \in Cuts(C)
        BY <1>3
    <2> QED
        BY <1>3, <2>1
<1>5. Def(f)
    <2> HIDE DEF N
    <2>1. ASSUME NEW n \in 0..N PROVE f[n] = IF n = 0 THEN << <<>> >> ELSE Put(f[n - 1], s[n], sep)
        BY <1>1, <1>3, <1>4
    <2> QED
        BY <1>3, <2>1
<1>6. Parts(s, sep) = CHOOSE g : Def(g)
    BY DEF Parts
<1>7. Def(Parts(s, sep))
    BY <1>5, <1>6
<1> DEFINE P == Parts(s, sep)
           K == {n \in Nat : n <= N => P[n] \in Cuts(C)}
<1>8. P[0] = << <<>> >> /\ \A n \in 1..N : P[n] = Put(P[n - 1], s[n], sep)
    <2> HIDE DEF N
    <2>1. P = [n \in 0..N |-> IF n = 0 THEN << <<>> >> ELSE Put(P[n - 1], s[n], sep)]
        BY ONLY <1>7
    <2> HIDE DEF P
    <2>2. P[0] = << <<>> >>
        BY ONLY <1>1, <2>1
    <2>3. ASSUME NEW n \in 1..N PROVE P[n] = Put(P[n - 1], s[n], sep)
        <3>1. n \in 0..N /\ n # 0
            BY ONLY <1>1, <2>3
        <3> QED
            BY ONLY <2>1, <3>1
    <2> QED
        BY ONLY <2>2, <2>3
<1>9. DOMAIN P = 0..N
    BY <1>7
<1> HIDE DEF P
<1>10. ASSUME NEW n \in K PROVE n + 1 \in K
    <2> SUFFICES ASSUME n + 1 <= N PROVE P[n + 1] \in Cuts(C)
        OBVIOUS
    <2>1. n + 1 \in 1..N /\ P[n] \in Cuts(C) /\ (n + 1) - 1 = n
        BY <1>1
    <2> QED
        BY <1>8, <2>1, PutType
<1>11. K = Nat
    <2>1. 0 \in K
        BY <1>1, <1>8
    <2> HIDE DEF K
    <2>2. K \in SUBSET Nat
        BY DEF K
    <2> QED
        BY <1>10, <2>1, <2>2, NatSetInduction
<1>12. \A n \in 0..N : P[n] \in Cuts(C)
    BY <1>1, <1>11
<1>13. P \in [0..N -> Cuts(C)]
    <2>1. P = [n \in 0..N |-> P[n]]
        BY <1>7 DEF P
    <2> QED
        BY <1>12, <2>1
<1> QED
    BY <1>8, <1>13 DEF P

\* two runs of one recursion agree as far as both go
LEMMA SplitNil == ASSUME NEW sep PROVE Split(<<>>, sep) = << <<>> >>
<1>1. <<>> \in Seq({})
    OBVIOUS
<1> QED
    BY <1>1, PartsDef DEF Split

LEMMA PartsPrefix ==
    ASSUME NEW C, NEW s \in Seq(C), NEW c \in C, NEW sep
    PROVE  \A n \in 0..Len(s) : Parts(Append(s, c), sep)[n] = Parts(s, sep)[n]
<1> DEFINE t == Append(s, c)
           N == Len(s)
           P == Parts(s, sep)
           Q == Parts(t, sep)
           K == {n \in Nat : n <= N => Q[n] = P[n]}
<1>1. N \in Nat /\ t \in Seq(C) /\ Len(t) = N + 1 /\ \A n \in 1..N : t[n] = s[n]
    BY AppendProperties
<1>2. P[0] = << <<>> >> /\ \A n \in 1..N : P[n] = Put(P[n - 1], s[n], sep)
    BY PartsDef
<1> HIDE DEF t
<1>3. Q[0] = << <<>> >> /\ \A n \in 1..(N + 1) : Q[n] = Put(Q[n - 1], t[n], sep)
    BY <1>1, PartsDef
<1> HIDE DEF N, P, Q
<1>4. 0 \in K
    BY <1>2, <1>3
<1>5. ASSUME NEW n \in K PROVE n + 1 \in K
    <2> SUFFICES ASSUME n + 1 <= N PROVE Q[n + 1] = P[n + 1]
        OBVIOUS
    <2>1. n + 1 \in 1..N /\ n + 1 \in 1..(N + 1) /\ Q[n] = P[n] /\ (n + 1) - 1 = n
        BY <1>1
    <2> QED
        BY <1>1, <1>2, <1>3, <2>1
<1>6. K = Nat
    <2> HIDE DEF K
    <2>1. K \in SUBSET Nat
        BY DEF K
    <2> QED
        BY <1>4, <1>5, <2>1, NatSetInduction
<1> QED
    BY <1>1, <1>6 DEF N, P, Q, t

LEMMA SplitAppend ==
    ASSUME NEW C, NEW s \in Seq(C), NEW c \in C, NEW sep
    PROVE  Split(Append(s, c), sep) = Put(Split(s, sep), c, sep)
<1> DEFINE t == Append(s, c)
           N == Len(s)
<1>1. N \in Nat /\ t \in Seq(C) /\ Len(t) = N + 1 /\ t[N + 1] = c
    BY AppendProperties
<1>2. Parts(t, sep)[N] = Parts(s, sep)[N]
    BY <1>1, PartsPrefix
<1> HIDE DEF t, N
<1>3. Parts(t, sep)[N + 1] = Put(Parts(t, sep)[N], c, sep)
    BY <1>1, PartsDef
<1> QED
    BY <1>1, <1>2, <1>3 DEF Split, t, N

LEMMA SplitType ==
    ASSUME NEW C, NEW s \in Seq(C), NEW sep
    PROVE  Split(s, sep) \in Cuts(C)
BY PartsDef DEF Split

\* no part holds the separator
LEMMA SplitParts ==
    ASSUME NEW C, NEW s \in Seq(C), NEW sep
    PROVE  Split(s, sep) \in Cuts(C \ {sep})
<1> DEFINE P == {r \in Seq(C) : Split(r, sep) \in Cuts(C \ {sep})}
<1>1. <<>> \in P
    <2>1. << <<>> >> \in Cuts(C \ {sep})
        BY DEF Cuts
    <2> QED
        BY <2>1, SplitNil
<1>2. ASSUME NEW r \in P, NEW c \in C PROVE Append(r, c) \in P
    <2> DEFINE p == Split(r, sep)
    <2>1. p \in Cuts(C \ {sep})
        OBVIOUS
    <2>2. Split(Append(r, c), sep) = Put(p, c, sep)
        BY SplitAppend
    <2> HIDE DEF p
    <2>3. Append(r, c) \in Seq(C) /\ Put(p, c, sep) \in Cuts(C \ {sep})
        BY <2>1, PutType
    <2> QED
        BY <2>2, <2>3
<1>3. P = Seq(C)
    <2> HIDE DEF P
    <2>1. P \in SUBSET Seq(C)
        BY DEF P
    <2> QED
        BY <1>1, <1>2, <2>1, SeqSetInduction
<1> QED
    BY <1>3

LEMMA KeptDef ==
    ASSUME NEW C, NEW s \in Seq(Seq(C))
    PROVE  /\ Kept(s) \in [0..Len(s) -> Seq(Seq(C))]
           /\ Kept(s)[0] = <<>>
           /\ \A n \in 1..Len(s) : Kept(s)[n] = Keep(Kept(s)[n - 1], s[n])
<1> DEFINE N == Len(s)
           S == Seq(Seq(C))
           Def(f) == f = [n \in 0..N |-> IF n = 0 THEN <<>> ELSE Keep(f[n - 1], s[n])]
           step == [n \in 1..N |-> [k \in S |-> Keep(k, s[n])]]
<1>1. N \in Nat /\ <<>> \in S
    OBVIOUS
<1>2. \A n \in 1..N, k \in S : Keep(k, s[n]) \in S
    BY DEF Keep
<1> HIDE DEF N, S
<1>3. step \in [1..N -> [S -> S]]
    BY <1>2
<1>4. PICK f : IsRun(f, S, N, <<>>, step)
    <2> HIDE DEF step
    <2> QED
        BY ONLY <1>1, <1>3, Recursion
<1>5. ASSUME NEW n \in 1..N PROVE f[n] = Keep(f[n - 1], s[n])
    <2>1. n - 1 \in 0..N /\ f[n - 1] \in S
        BY <1>1, <1>4 DEF IsRun
    <2> QED
        BY <1>4, <2>1 DEF IsRun
<1>6. Def(f)
    <2>1. ASSUME NEW n \in 0..N PROVE f[n] = IF n = 0 THEN <<>> ELSE Keep(f[n - 1], s[n])
        BY <1>1, <1>4, <1>5 DEF IsRun
    <2> QED
        BY <1>4, <2>1 DEF IsRun
<1>7. Kept(s) = CHOOSE g : Def(g)
    BY DEF Kept, N
<1>8. Def(Kept(s))
    BY <1>6, <1>7
<1> DEFINE K == Kept(s)
           I == {n \in Nat : n <= N => K[n] \in S}
<1>9. K[0] = <<>> /\ \A n \in 1..N : K[n] = Keep(K[n - 1], s[n])
    BY <1>1, <1>8
<1>10. K = [n \in 0..N |-> K[n]]
    BY <1>8
<1> HIDE DEF K
<1>11. ASSUME NEW n \in I PROVE n + 1 \in I
    <2> SUFFICES ASSUME n + 1 <= N PROVE K[n + 1] \in S
        OBVIOUS
    <2>1. n + 1 \in 1..N /\ K[n] \in S /\ (n + 1) - 1 = n
        BY <1>1
    <2> QED
        BY <1>2, <1>9, <2>1
<1>12. I = Nat
    <2>1. 0 \in I
        BY <1>1, <1>9
    <2> HIDE DEF I
    <2>2. I \in SUBSET Nat
        BY DEF I
    <2> QED
        BY <1>11, <2>1, <2>2, NatSetInduction
<1>13. K \in [0..N -> S]
    <2>1. \A n \in 0..N : K[n] \in S
        BY <1>1, <1>12
    <2> QED
        BY <1>10, <2>1
<1> QED
    BY <1>9, <1>13 DEF K, N, S

LEMMA KeptPrefix ==
    ASSUME NEW C, NEW s \in Seq(Seq(C)), NEW e \in Seq(C)
    PROVE  \A n \in 0..Len(s) : Kept(Append(s, e))[n] = Kept(s)[n]
<1> DEFINE t == Append(s, e)
           N == Len(s)
           P == Kept(s)
           Q == Kept(t)
           I == {n \in Nat : n <= N => Q[n] = P[n]}
<1>1. N \in Nat /\ t \in Seq(Seq(C)) /\ Len(t) = N + 1 /\ \A n \in 1..N : t[n] = s[n]
    BY AppendProperties
<1>2. P[0] = <<>> /\ \A n \in 1..N : P[n] = Keep(P[n - 1], s[n])
    BY KeptDef
<1> HIDE DEF t
<1>3. Q[0] = <<>> /\ \A n \in 1..(N + 1) : Q[n] = Keep(Q[n - 1], t[n])
    BY <1>1, KeptDef
<1> HIDE DEF N, P, Q
<1>4. 0 \in I
    BY <1>2, <1>3
<1>5. ASSUME NEW n \in I PROVE n + 1 \in I
    <2> SUFFICES ASSUME n + 1 <= N PROVE Q[n + 1] = P[n + 1]
        OBVIOUS
    <2>1. n + 1 \in 1..N /\ n + 1 \in 1..(N + 1) /\ Q[n] = P[n] /\ (n + 1) - 1 = n
        BY <1>1
    <2> QED
        BY <1>1, <1>2, <1>3, <2>1
<1>6. I = Nat
    <2> HIDE DEF I
    <2>1. I \in SUBSET Nat
        BY DEF I
    <2> QED
        BY <1>4, <1>5, <2>1, NatSetInduction
<1>7. \A n \in 0..N : Q[n] = P[n]
    BY <1>1, <1>6
<1> QED
    BY ONLY <1>7 DEF N, P, Q, t

LEMMA NonEmptyNil == NonEmpty(<<>>) = <<>>
<1>1. <<>> \in Seq(Seq({})) /\ Len(<<>>) = 0
    OBVIOUS
<1> QED
    BY <1>1, KeptDef DEF NonEmpty

LEMMA NonEmptyType ==
    ASSUME NEW C, NEW s \in Seq(Seq(C)) PROVE NonEmpty(s) \in Seq(Seq(C))
BY KeptDef DEF NonEmpty

LEMMA NonEmptyAppend ==
    ASSUME NEW C, NEW s \in Seq(Seq(C)), NEW e \in Seq(C)
    PROVE  NonEmpty(Append(s, e)) = Keep(NonEmpty(s), e)
<1> DEFINE t == Append(s, e)
           N == Len(s)
<1>1. N \in Nat /\ t \in Seq(Seq(C)) /\ Len(t) = N + 1 /\ t[N + 1] = e
    BY AppendProperties
<1>2. Kept(t)[N] = Kept(s)[N]
    BY <1>1, KeptPrefix
<1> HIDE DEF t, N
<1>3. Kept(t)[N + 1] = Keep(Kept(t)[N], e)
    <2>1. \A n \in 1..Len(t) : Kept(t)[n] = Keep(Kept(t)[n - 1], t[n])
        BY <1>1, KeptDef
    <2>2. N + 1 \in 1..Len(t) /\ (N + 1) - 1 = N
        BY <1>1
    <2> QED
        BY ONLY <1>1, <2>1, <2>2
<1> QED
    BY <1>1, <1>2, <1>3 DEF NonEmpty, t, N

\* a sequence without empty elements is kept as it is
LEMMA AllKept ==
    ASSUME NEW C, NEW s \in Seq(Seq(C)), \A i \in 1..Len(s) : s[i] # <<>>
    PROVE  NonEmpty(s) = s
<1> DEFINE S == Seq(C)
           P == {r \in Seq(S) : (\A i \in 1..Len(r) : r[i] # <<>>) => NonEmpty(r) = r}
<1>1. <<>> \in P
    BY NonEmptyNil
<1>2. ASSUME NEW r \in P, NEW e \in S PROVE Append(r, e) \in P
    <2> DEFINE t == Append(r, e)
    <2>1. t \in Seq(S) /\ Len(t) = Len(r) + 1 /\ t[Len(r) + 1] = e /\ \A i \in 1..Len(r) : t[i] = r[i]
        BY AppendProperties
    <2>2. NonEmpty(t) = Keep(NonEmpty(r), e)
        BY NonEmptyAppend
    <2> HIDE DEF t
    <2>3. ASSUME \A i \in 1..Len(t) : t[i] # <<>> PROVE NonEmpty(t) = t
        <3>1. e # <<>> /\ NonEmpty(r) = r
            BY <2>1, <2>3
        <3> QED
            BY <2>2, <3>1 DEF Keep, t
    <2> QED
        BY <2>1, <2>3 DEF t
<1>3. P = Seq(S)
    <2> HIDE DEF P
    <2>1. P \in SUBSET Seq(S)
        BY DEF P
    <2> QED
        BY <1>1, <1>2, <2>1, SeqSetInduction
<1> QED
    BY <1>3

\* the first element is kept as the first one
LEMMA FirstKept ==
    ASSUME NEW C, NEW s \in Seq(Seq(C)), s # <<>>, s[1] # <<>>
    PROVE  NonEmpty(s) # <<>> /\ NonEmpty(s)[1] = s[1]
<1> DEFINE S == Seq(C)
           First(r) == NonEmpty(r) # <<>> /\ NonEmpty(r)[1] = r[1]
           P == {r \in Seq(S) : r # <<>> /\ r[1] # <<>> => First(r)}
<1>1. <<>> \in P
    OBVIOUS
<1>2. ASSUME NEW r \in P, NEW e \in S PROVE Append(r, e) \in P
    <2> DEFINE t == Append(r, e)
    <2>1. t \in Seq(S) /\ (r # <<>> => t[1] = r[1]) /\ (r = <<>> => t[1] = e)
        BY EmptySeq, AppendProperties
    <2>2. NonEmpty(t) = Keep(NonEmpty(r), e) /\ NonEmpty(r) \in Seq(S)
        BY NonEmptyAppend, NonEmptyType
    <2> HIDE DEF t
    <2>3. ASSUME t[1] # <<>> PROVE First(t)
        <3>1. CASE r = <<>>
            <4>1. NonEmpty(t) = Append(<<>>, e)
                BY <2>1, <2>2, <2>3, <3>1, NonEmptyNil DEF Keep
            <4> QED
                BY <2>1, <3>1, <4>1
        <3>2. CASE r # <<>>
            <4>1. NonEmpty(r) # <<>> /\ NonEmpty(r)[1] = r[1]
                BY <2>1, <2>3, <3>2
            <4>2. Len(NonEmpty(r)) \in Nat \ {0}
                BY <2>2, <4>1, EmptySeq
            <4>3. CASE e = <<>>
                BY <2>1, <2>2, <3>2, <4>1, <4>3 DEF Keep
            <4>4. CASE e # <<>>
                <5>1. NonEmpty(t) = Append(NonEmpty(r), e)
                    BY <2>2, <4>4 DEF Keep
                <5> DEFINE k == NonEmpty(r)
                <5>2. Append(k, e) # <<>> /\ Append(k, e)[1] = k[1]
                    <6>1. k \in Seq(S) /\ 1 \in 1..Len(k)
                        BY <2>2, <4>2
                    <6> HIDE DEF k, S
                    <6> QED
                        BY <6>1, AppendProperties, e \in S
                <5> QED
                    BY <2>1, <3>2, <4>1, <5>1, <5>2
            <4> QED
                BY <4>3, <4>4
        <3> QED
            BY <3>1, <3>2
    <2> QED
        BY <2>1, <2>3 DEF t
<1>3. P = Seq(S)
    <2> HIDE DEF P
    <2>1. P \in SUBSET Seq(S)
        BY DEF P
    <2> QED
        BY <1>1, <1>2, <2>1, SeqSetInduction
<1> QED
    BY <1>3

----------------------------------------------------------------------------
(***************************************************************************)
(* Blanks and carriage returns                                              *)
(***************************************************************************)
LEMMA Distinct == CR # Comma
<1> SUFFICES ASSUME CR = Comma PROVE FALSE
    OBVIOUS
<1>1. {Comma, Space, CR, LF} = ({Comma} \cup {Space}) \cup {LF}
    OBVIOUS
<1>2. ASSUME NEW S, NEW x, IsFiniteSet(S)
      PROVE  /\ IsFiniteSet(S \cup {x})
             /\ Cardinality(S \cup {x}) \in Nat /\ Cardinality(S) \in Nat
             /\ Cardinality(S \cup {x}) <= Cardinality(S) + 1
    <2>1. /\ IsFiniteSet(S \cup {x})
          /\ Cardinality(S \cup {x}) = Cardinality(S) \/ Cardinality(S \cup {x}) = Cardinality(S) + 1
        BY <1>2, FS_AddElement
    <2>2. Cardinality(S) \in Nat
        BY <1>2, FS_CardinalityType
    <2> QED
        BY <2>1, <2>2
<1> DEFINE S1 == {Comma}
           S2 == S1 \cup {Space}
           S3 == S2 \cup {LF}
<1>3. IsFiniteSet(S1) /\ Cardinality(S1) = 1
    BY FS_Singleton
<1> HIDE DEF S1
<1>4. IsFiniteSet(S2) /\ Cardinality(S2) <= 2 /\ Cardinality(S2) \in Nat
    <2>1. /\ IsFiniteSet(S2) /\ Cardinality(S2) \in Nat
          /\ Cardinality(S2) <= Cardinality(S1) + 1
        BY <1>2, <1>3, Zenon
    <2> HIDE DEF S2
    <2> QED
        BY ONLY <1>3, <2>1
<1> HIDE DEF S2
<1>5. Cardinality(S3) <= 3 /\ Cardinality(S3) \in Nat
    <2>1. Cardinality(S3) \in Nat /\ Cardinality(S3) <= Cardinality(S2) + 1
        BY <1>2, <1>4, Zenon
    <2> HIDE DEF S3
    <2> QED
        BY ONLY <1>4, <2>1
<1> QED
    BY <1>1, <1>5, CsvAssumption DEF S1, S2

LEMMA MinMax ==
    ASSUME NEW n \in Nat, NEW S \in SUBSET (1..n), S # {}
    PROVE  Min(S) \in 1..n /\ Max(S) \in 1..n
<1>1. Min(S) \in S
    <2>1. \E x \in S : \A y \in S : x <= y
        BY SmallestOf
    <2> QED
        BY <2>1 DEF Min
<1>2. Max(S) \in S
    <2> DEFINE T == {n - x : x \in S}
    <2>1. T \in SUBSET Nat /\ T # {}
        <3>1. \A x \in S : n - x \in Nat
            OBVIOUS
        <3> QED
            BY <3>1
    <2>2. PICK m \in T : \A k \in T : m <= k
        BY <2>1, SmallestOf
    <2>3. PICK x \in S : m = n - x
        BY <2>2
    <2>4. \A y \in S : x >= y
        <3> TAKE y \in S
        <3>1. n - x <= n - y
            BY <2>2, <2>3
        <3> QED
            BY <3>1
    <2> QED
        BY <2>4 DEF Max
<1> QED
    BY <1>1, <1>2

StripFrom(s) == {i \in DOMAIN s : s[i] \notin {Space, CR}}

LEMMA StripType ==
    ASSUME NEW C, NEW s \in Seq(C) PROVE Strip(s) \in Seq(C)
<1> DEFINE K == StripFrom(s)
<1>1. CASE K = {}
    BY <1>1 DEF Strip, StripFrom
<1>2. CASE K # {}
    <2>1. Min(K) \in 1..Len(s) /\ Max(K) \in 1..Len(s)
        <3>1. K \in SUBSET (1..Len(s)) /\ Len(s) \in Nat
            BY DEF StripFrom
        <3> QED
            BY <1>2, <3>1, MinMax
    <2>2. SubSeq(s, Min(K), Max(K)) \in Seq(C)
        BY <2>1, SubSeqProperties
    <2> QED
        BY <1>2, <2>2 DEF Strip, StripFrom
<1> QED
    BY <1>1, <1>2

\* a carriage return at the end is stripped
LEMMA StripCR ==
    ASSUME NEW C, NEW s \in Seq(C), CR \in C PROVE Strip(Append(s, CR)) = Strip(s)
<1> DEFINE t == Append(s, CR)
           K == StripFrom(s)
           n == Len(s)
<1>1. n \in Nat /\ t \in Seq(C) /\ Len(t) = n + 1 /\ t[n + 1] = CR /\ \A i \in 1..n : t[i] = s[i]
    BY AppendProperties
<1>2. DOMAIN t = 1..(n + 1) /\ DOMAIN s = 1..n
    BY <1>1
<1> HIDE DEF t, n
<1>3. StripFrom(t) = K
    BY <1>1, <1>2 DEF StripFrom
<1>4. CASE K = {}
    BY <1>3, <1>4 DEF Strip, StripFrom, t
<1>5. CASE K # {}
    <2>1. Min(K) \in 1..n /\ Max(K) \in 1..n
        <3>1. K \in SUBSET (1..n)
            BY <1>2 DEF StripFrom
        <3> HIDE DEF K
        <3> QED
            BY <1>1, <1>5, <3>1, MinMax
    <2>2. SubSeq(t, Min(K), Max(K)) = SubSeq(s, Min(K), Max(K))
        BY <1>1, <2>1
    <2> QED
        BY <1>3, <1>5, <2>2 DEF Strip, StripFrom, t
<1> QED
    BY <1>4, <1>5

LEMMA DropCRCases ==
    ASSUME NEW C, NEW l \in Seq(C)
    PROVE  /\ DropCR(l) \in Seq(C)
           /\ DropCR(l) = l \/ (CR \in C /\ l = Append(DropCR(l), CR))
<1>1. CASE l # <<>> /\ Last(l) = CR
    <2>1. Front(l) \in Seq(C) /\ CR \in C
        BY <1>1, LastType
    <2>2. l = Append(Front(l), CR)
        <3> DEFINE f == Front(l)
                   n == Len(l)
        <3>1. f \in Seq(C) /\ n \in Nat \ {0} /\ Len(f) = n - 1 /\ l[n] = CR
              /\ \A i \in 1..(n - 1) : f[i] = l[i]
            BY <1>1, LastType, EmptySeq DEF Last
        <3> HIDE DEF f
        <3>2. Append(f, CR) \in Seq(C) /\ Len(Append(f, CR)) = n
            BY <2>1, <3>1
        <3>3. \A i \in 1..n : Append(f, CR)[i] = l[i]
            BY <2>1, <3>1
        <3> QED
            BY <3>2, <3>3, SeqEqual DEF f
    <2> QED
        BY <1>1, <2>1, <2>2 DEF DropCR
<1>2. CASE ~(l # <<>> /\ Last(l) = CR)
    BY <1>2 DEF DropCR
<1> QED
    BY <1>1, <1>2

\* the cells of a line with and without its carriage return
LEMMA CellsDropCR ==
    ASSUME NEW C, NEW l \in Seq(C)
    PROVE  LET c == Cells(DropCR(l))
               d == Cells(l)
           IN  /\ c \in Cuts(C \ {Comma}) /\ d \in Cuts(C \ {Comma})
               /\ Len(d) = Len(c) /\ Front(d) = Front(c)
               /\ Last(d) \in {Last(c), Append(Last(c), CR)}
               /\ \A i \in 1..Len(c) : Strip(d[i]) = Strip(c[i])
<1> DEFINE c == Cells(DropCR(l))
           d == Cells(l)
           S == Seq(C \ {Comma})
<1>1. c \in Cuts(C \ {Comma}) /\ d \in Cuts(C \ {Comma})
    BY DropCRCases, SplitParts DEF Cells
<1>2. CASE DropCR(l) = l
    BY <1>1, <1>2
<1>3. CASE CR \in C /\ l = Append(DropCR(l), CR)
    <2>1. d = Front(c) \o << Append(Last(c), CR) >>
        <3> DEFINE r == DropCR(l)
        <3>1. r \in Seq(C)
            BY DropCRCases
        <3> HIDE DEF r
        <3>2. Split(Append(r, CR), Comma) = Put(Split(r, Comma), CR, Comma)
            BY <1>3, <3>1, SplitAppend
        <3>3. l = Append(r, CR)
            BY <1>3 DEF r
        <3> QED
            BY ONLY <3>2, <3>3, Distinct DEF Cells, Put, r
    <2> HIDE DEF c, d
    <2> DEFINE f == Front(c)
               e == Append(Last(c), CR)
               n == Len(c)
    <2>2. /\ c \in Seq(S) /\ c # <<>> /\ n \in Nat \ {0}
          /\ f \in Seq(S) /\ Len(f) = n - 1 /\ Last(c) \in S
          /\ \A i \in 1..(n - 1) : f[i] = c[i]
        BY <1>1, LastType, EmptySeq DEF Cuts
    <2>3. CR \in C \ {Comma} /\ e \in S
        BY <1>3, <2>2, Distinct
    <2> HIDE DEF e, f, n
    <2>4. d \in Seq(S) /\ Len(d) = n /\ d[n] = e /\ \A i \in 1..(n - 1) : d[i] = f[i]
        <3>1. d = f \o <<e>>
            BY <2>1 DEF f, e
        <3> HIDE DEF S
        <3>2. f \o <<e>> \in Seq(S) /\ Len(f \o <<e>>) = n
            BY ONLY <2>2, <2>3
        <3>3. (f \o <<e>>)[n] = e /\ \A i \in 1..(n - 1) : (f \o <<e>>)[i] = f[i]
            BY ONLY <2>2, <2>3
        <3> QED
            BY ONLY <3>1, <3>2, <3>3
    <2>5. Front(d) = f
        <3> HIDE DEF S
        <3>0. d # <<>>
            BY ONLY <2>2, <2>4
        <3>1. Front(d) \in Seq(S) /\ Len(Front(d)) = n - 1 /\ \A i \in 1..(n - 1) : Front(d)[i] = d[i]
            BY ONLY <2>2, <2>4, <3>0, LastType
        <3> QED
            BY <2>2, <2>4, <3>1, SeqEqual
    <2>6. Last(d) = e
        BY <2>4 DEF Last
    <2>7. Last(c) = c[n]
        BY DEF Last, n
    <2>8. \A i \in 1..n : Strip(d[i]) = Strip(c[i])
        <3>1. Strip(e) = Strip(Last(c))
            BY <2>2, <2>3, StripCR DEF e
        <3>2. ASSUME NEW i \in 1..(n - 1) PROVE Strip(d[i]) = Strip(c[i])
            BY <2>2, <2>4
        <3> QED
            BY <2>2, <2>4, <2>7, <3>1, <3>2
    <2> QED
        BY <1>1, <2>2, <2>4, <2>5, <2>6, <2>8 DEF c, d, e, f, n
<1> QED
    BY <1>2, <1>3, DropCRCases

----------------------------------------------------------------------------
(***************************************************************************)
(* What the readers make of one file                                        *)
(***************************************************************************)
InLine == Char \ {LF}
InCell == InLine \ {Comma}

LEMMA LinesType ==
    ASSUME NEW t \in Seq(Char)
    PROVE  Lines(t) \in Seq(Seq(InLine)) /\ Len(Lines(t)) \in Nat \ {0} /\ Lines(t)[1] \in Seq(InLine)
<1>1. Lines(t) \in Seq(Seq(InLine)) /\ Lines(t) # <<>>
    BY SplitParts DEF Lines, InLine, Cuts
<1>2. Len(Lines(t)) \in Nat \ {0}
    BY <1>1, EmptySeq
<1> QED
    BY <1>1, <1>2

LEMMA CellsType ==
    ASSUME NEW l \in Seq(InLine)
    PROVE  Cells(l) \in Seq(Seq(InCell)) /\ Cells(l) \in Seq(Seq(InLine)) /\ Cells(l) # <<>>
<1>1. Cells(l) \in Seq(Seq(InCell)) /\ Cells(l) # <<>>
    BY SplitParts DEF Cells, InCell, Cuts
<1>2. Cells(l) \in Seq(Seq(InLine)) /\ Cells(l) # <<>>
    BY SplitType DEF Cells, Cuts
<1> QED
    BY <1>1, <1>2

\* what a map of a sequence is, once for each operator it is used with
LEMMA FunctionAsSeq ==
    ASSUME NEW S, NEW n \in Nat, NEW f, f = [i \in 1..n |-> f[i]], \A i \in 1..n : f[i] \in S
    PROVE  f \in Seq(S) /\ Len(f) = n
<1>1. f \in [1..n -> S]
    OBVIOUS
<1> QED
    BY <1>1

LEMMA DropCRMapped ==
    ASSUME NEW s \in Seq(Seq(InLine))
    PROVE  /\ Mapped(DropCR, s) \in Seq(Seq(InLine)) /\ Len(Mapped(DropCR, s)) = Len(s)
           /\ \A i \in 1..Len(s) : Mapped(DropCR, s)[i] = DropCR(s[i])
<1>1. \A i \in 1..Len(s) : DropCR(s[i]) \in Seq(InLine)
    BY DropCRCases
<1> DEFINE m == Mapped(DropCR, s)
           S == Seq(InLine)
<1>2. DOMAIN s = 1..Len(s) /\ Len(s) \in Nat
    OBVIOUS
<1>3. m = [i \in 1..Len(s) |-> DropCR(s[i])]
    BY <1>2 DEF Mapped
<1>4. \A i \in 1..Len(s) : m[i] = DropCR(s[i])
    BY <1>3
<1>5. m = [i \in 1..Len(s) |-> m[i]]
    BY <1>3
<1> HIDE DEF m, S
<1>6. \A i \in 1..Len(s) : m[i] \in S
    BY <1>1, <1>4 DEF S
<1>7. m \in Seq(S) /\ Len(m) = Len(s)
    BY ONLY <1>2, <1>5, <1>6, FunctionAsSeq
<1> QED
    BY <1>4, <1>7 DEF m, S

LEMMA CellsMapped ==
    ASSUME NEW s \in Seq(Seq(InLine))
    PROVE  /\ Mapped(Cells, s) \in Seq(Seq(Seq(InCell))) /\ Mapped(Cells, s) \in Seq(Seq(Seq(InLine)))
           /\ Len(Mapped(Cells, s)) = Len(s)
           /\ \A i \in 1..Len(s) : Mapped(Cells, s)[i] = Cells(s[i])
<1>1. \A i \in 1..Len(s) : Cells(s[i]) \in Seq(Seq(InCell)) /\ Cells(s[i]) \in Seq(Seq(InLine))
    BY CellsType
<1> DEFINE C == Seq(Seq(InCell))
           L == Seq(Seq(InLine))
<1>2. \A i \in 1..Len(s) : Cells(s[i]) \in C /\ Cells(s[i]) \in L
    BY <1>1
<1> DEFINE m == Mapped(Cells, s)
<1>3. DOMAIN s = 1..Len(s) /\ Len(s) \in Nat
    OBVIOUS
<1>4. m = [i \in 1..Len(s) |-> Cells(s[i])]
    BY <1>3 DEF Mapped
<1>5. \A i \in 1..Len(s) : m[i] = Cells(s[i])
    BY <1>4
<1>6. m = [i \in 1..Len(s) |-> m[i]]
    BY <1>4
<1> HIDE DEF C, L, m
<1>7. \A i \in 1..Len(s) : m[i] \in C /\ m[i] \in L
    BY <1>2, <1>5
<1>8. m \in Seq(C) /\ m \in Seq(L) /\ Len(m) = Len(s)
    BY ONLY <1>3, <1>6, <1>7, FunctionAsSeq
<1> QED
    BY <1>5, <1>8 DEF C, L, m

LEMMA StripMapped ==
    ASSUME NEW s \in Seq(Seq(InLine))
    PROVE  /\ Mapped(Strip, s) \in Seq(Seq(InLine)) /\ Len(Mapped(Strip, s)) = Len(s)
           /\ \A i \in 1..Len(s) : Mapped(Strip, s)[i] = Strip(s[i])
<1>1. \A i \in 1..Len(s) : Strip(s[i]) \in Seq(InLine)
    BY StripType
<1> DEFINE m == Mapped(Strip, s)
           S == Seq(InLine)
<1>2. DOMAIN s = 1..Len(s) /\ Len(s) \in Nat
    OBVIOUS
<1>3. m = [i \in 1..Len(s) |-> Strip(s[i])]
    BY <1>2 DEF Mapped
<1>4. \A i \in 1..Len(s) : m[i] = Strip(s[i])
    BY <1>3
<1>5. m = [i \in 1..Len(s) |-> m[i]]
    BY <1>3
<1> HIDE DEF m, S
<1>6. \A i \in 1..Len(s) : m[i] \in S
    BY <1>1, <1>4 DEF S
<1>7. m \in Seq(S) /\ Len(m) = Len(s)
    BY ONLY <1>2, <1>5, <1>6, FunctionAsSeq
<1> QED
    BY <1>4, <1>7 DEF m, S

LEMMA RecordsType ==
    ASSUME NEW t \in Seq(Char)
    PROVE  LET k == NonEmpty(Mapped(DropCR, Lines(t)))
           IN  /\ k \in Seq(Seq(InLine)) /\ Records(t) \in Seq(Seq(Seq(InLine)))
               /\ Len(Records(t)) = Len(k)
               /\ \A i \in 1..Len(k) : Records(t)[i] = Cells(k[i]) /\ Records(t)[i] # <<>>
<1> DEFINE k == NonEmpty(Mapped(DropCR, Lines(t)))
<1>1. k \in Seq(Seq(InLine))
    BY LinesType, DropCRMapped, NonEmptyType
<1>2. Records(t) = Mapped(Cells, k)
    BY DEF Records
<1> HIDE DEF k
<1>3. ASSUME NEW i \in 1..Len(k) PROVE Cells(k[i]) # <<>>
    <2>1. k[i] \in Seq(InLine)
        BY <1>1
    <2> QED
        BY ONLY <2>1, CellsType
<1> QED
    BY <1>1, <1>2, <1>3, CellsMapped DEF k

LEMMA AgentHeaderType ==
    ASSUME NEW t \in Seq(Char) PROVE AgentHeader(t) \in Seq(Seq(InLine))
BY LinesType, CellsType, StripMapped, NonEmptyType DEF AgentHeader

LEMMA NamesType ==
    ASSUME NEW h \in Seq(Seq(InLine)) PROVE Names(h) \in Seq(Seq(InLine)) /\ Len(Names(h)) = Len(h)
BY StripMapped DEF Names

LEMMA DataLinesType ==
    ASSUME NEW t \in Seq(Char)
    PROVE  /\ DataLines(t) \in Seq(Seq(InLine))
           /\ \/ /\ Len(Lines(t)) >= 2 /\ Lines(t)[Len(Lines(t))] = <<>>
                 /\ Len(DataLines(t)) = Len(Lines(t)) - 2
              \/ Len(DataLines(t)) = Len(Lines(t)) - 1
           /\ \A i \in 1..Len(DataLines(t)) : DataLines(t)[i] = Lines(t)[i + 1]
<1> DEFINE all == Lines(t)
           rest == Tail(all)
           n == Len(all)
           S == Seq(InLine)
<1>1. all \in Seq(S) /\ n \in Nat \ {0}
    BY LinesType
<1>2. DataLines(t) = IF rest # <<>> /\ Last(rest) = <<>> THEN Front(rest) ELSE rest
    BY DEF DataLines
<1> HIDE DEF all, S
<1>3. rest \in Seq(S) /\ Len(rest) = n - 1 /\ \A i \in 1..(n - 1) : rest[i] = all[i + 1]
    BY <1>1, EmptySeq
<1> HIDE DEF n, rest
<1>4. CASE rest # <<>> /\ Last(rest) = <<>>
    <2>1. n - 1 \in Nat \ {0}
        BY <1>1, <1>3, <1>4, EmptySeq
    <2>2. Last(rest) = all[n]
        <3>1. Last(rest) = rest[n - 1] /\ (n - 1) + 1 = n
            BY <1>1, <1>3 DEF Last
        <3> QED
            BY <1>3, <2>1, <3>1
    <2>3. Front(rest) \in Seq(S) /\ Len(Front(rest)) = n - 2 /\ \A i \in 1..(n - 2) : Front(rest)[i] = all[i + 1]
        <3>1. /\ Front(rest) \in Seq(S) /\ Len(Front(rest)) = (n - 1) - 1
              /\ \A i \in 1..((n - 1) - 1) : Front(rest)[i] = rest[i]
            BY <1>3, <1>4, LastType
        <3> QED
            BY <1>1, <1>3, <2>1, <3>1
    <2> QED
        BY <1>1, <1>2, <1>4, <2>1, <2>2, <2>3 DEF all, n, S
<1>5. CASE ~(rest # <<>> /\ Last(rest) = <<>>)
    BY <1>1, <1>2, <1>3, <1>5 DEF all, n, S
<1> QED
    BY <1>4, <1>5

\* the header encoding/csv reads is the first line, unless that is empty
LEMMA FirstRecord ==
    ASSUME NEW t \in Seq(Char), ~Blank(Lines(t)[1])
    PROVE  Records(t) # <<>> /\ Records(t)[1] = Cells(DropCR(Lines(t)[1]))
<1> DEFINE m == Mapped(DropCR, Lines(t))
           k == NonEmpty(m)
           S == Seq(InLine)
<1>1. m \in Seq(S) /\ Len(m) \in Nat \ {0} /\ m[1] = DropCR(Lines(t)[1])
    <2> DEFINE all == Lines(t)
    <2>1. all \in Seq(S) /\ Len(all) \in Nat \ {0}
        BY LinesType
    <2> HIDE DEF all
    <2>2. /\ Mapped(DropCR, all) \in Seq(S) /\ Len(Mapped(DropCR, all)) = Len(all)
          /\ \A i \in 1..Len(all) : Mapped(DropCR, all)[i] = DropCR(all[i])
        BY <2>1, DropCRMapped
    <2>3. 1 \in 1..Len(all)
        BY <2>1
    <2> QED
        BY <2>1, <2>2, <2>3 DEF all
<1>2. m # <<>> /\ m[1] # <<>>
    <2> HIDE DEF m, S
    <2>1. Len(<<>>) = 0
        OBVIOUS
    <2> QED
        BY <1>1, <2>1 DEF Blank
<1>3. k # <<>> /\ k[1] = m[1]
    BY <1>1, <1>2, FirstKept
<1>4. /\ k \in Seq(S) /\ Len(Records(t)) = Len(k)
      /\ \A i \in 1..Len(k) : Records(t)[i] = Cells(k[i])
    BY RecordsType
<1> HIDE DEF k, m, S
<1>5. Len(k) \in Nat \ {0}
    BY <1>3, <1>4, EmptySeq
<1>6. 1 \in 1..Len(k)
    BY <1>5
<1>7. Len(Records(t)) # 0
    BY <1>4, <1>5
<1> QED
    BY <1>1, <1>3, <1>4, <1>6, <1>7

\* the agent's columns are the names a table is created from
LEMMA AgentReads ==
    ASSUME NEW t \in Seq(Char), ~Blank(Lines(t)[1]), Creatable(Records(t)[1])
    PROVE  AgentHeader(t) = Names(Records(t)[1])
<1> DEFINE l == Lines(t)[1]
           c == Cells(DropCR(l))
           d == Cells(l)
           md == Mapped(Strip, d)
           mc == Mapped(Strip, c)
<1>1. l \in Seq(InLine) /\ DropCR(l) \in Seq(InLine)
    BY LinesType, DropCRCases
<1>2. Records(t)[1] = c
    BY FirstRecord
<1> HIDE DEF l
<1>3. c \in Seq(Seq(InLine)) /\ d \in Seq(Seq(InLine))
    BY <1>1, CellsType
<1>4. Len(d) = Len(c) /\ \A i \in 1..Len(c) : Strip(d[i]) = Strip(c[i])
    BY <1>1, CellsDropCR
<1> HIDE DEF c, d
<1>5. /\ md \in Seq(Seq(InLine)) /\ Len(md) = Len(d) /\ \A i \in 1..Len(d) : md[i] = Strip(d[i])
      /\ mc \in Seq(Seq(InLine)) /\ Len(mc) = Len(c) /\ \A i \in 1..Len(c) : mc[i] = Strip(c[i])
    BY <1>3, StripMapped
<1>6. \A i \in DOMAIN c : Names(c)[i] # <<>>
    BY <1>2 DEF Creatable
<1>7. Names(c) = mc
    BY DEF Names
<1> HIDE DEF md, mc
<1>8. md = mc
    <2> DEFINE S == Seq(InLine)
    <2>1. md \in Seq(S) /\ mc \in Seq(S)
        BY <1>5
    <2> HIDE DEF S
    <2>2. Len(md) = Len(mc) /\ \A i \in 1..Len(md) : md[i] = mc[i]
        BY <1>3, <1>4, <1>5
    <2> QED
        BY ONLY <2>1, <2>2, SeqEqual
<1>9. NonEmpty(mc) = mc
    <2>1. \A i \in 1..Len(mc) : mc[i] # <<>>
        <3>1. DOMAIN c = 1..Len(mc)
            BY <1>3, <1>5
        <3> QED
            BY <1>6, <1>7, <3>1
    <2> QED
        BY <1>5, <2>1, AllKept
<1>10. AgentHeader(t) = NonEmpty(md)
    BY DEF AgentHeader, md, d, l
<1> QED
    BY <1>2, <1>7, <1>8, <1>9, <1>10

\* MySQL's rows are the records behind the first line
LEMMA RowsFollow ==
    ASSUME NEW t \in Seq(Char), \A l \in Range(DataLines(t)) \cup {Lines(t)[1]} : ~Blank(l)
    PROVE  /\ Len(Loaded(t)) = Len(Records(t)) - 1
           /\ \A i \in DOMAIN Loaded(t) :
                 /\ Front(Loaded(t)[i]) = Front(Records(t)[i + 1])
                 /\ Last(Loaded(t)[i]) \in {Last(Records(t)[i + 1]), Append(Last(Records(t)[i + 1]), CR)}
<1> DEFINE all == Lines(t)
           n == Len(all)
           data == DataLines(t)
           k == Len(data)
           m == Mapped(DropCR, all)
           kept == [i \in 1..(k + 1) |-> DropCR(all[i])]
           S == Seq(InLine)
<1>1. all \in Seq(S) /\ n \in Nat \ {0}
    BY LinesType
<1>2. /\ data \in Seq(S) /\ \A i \in 1..k : data[i] = all[i + 1]
      /\ (n >= 2 /\ all[n] = <<>> /\ k = n - 2) \/ k = n - 1
    BY DataLinesType
<1>3. m \in Seq(S) /\ Len(m) = n /\ \A i \in 1..n : m[i] = DropCR(all[i])
    BY <1>1, DropCRMapped
<1>4. ASSUME NEW i \in 1..(k + 1) PROVE DropCR(all[i]) # <<>> /\ DropCR(all[i]) \in S
    <2>1. CASE i = 1
        BY <1>1, <2>1, DropCRCases DEF Blank
    <2>2. CASE i # 1
        <3>1. i - 1 \in 1..k /\ (i - 1) + 1 = i
            BY <1>2, <2>2
        <3>2. data[i - 1] = all[i] /\ data[i - 1] \in S /\ data[i - 1] \in Range(data)
            BY <1>2, <3>1 DEF Range
        <3> QED
            BY <3>2, DropCRCases DEF Blank
    <2> QED
        BY <2>1, <2>2
<1>5. k \in Nat
    BY <1>2
<1> HIDE DEF all, n, data, k, m
<1>6. kept \in Seq(S) /\ Len(kept) = k + 1 /\ \A i \in 1..(k + 1) : kept[i] = DropCR(all[i])
    <2> HIDE DEF S
    <2> QED
        BY <1>4, <1>5
<1> HIDE DEF kept
<1>7. NonEmpty(kept) = kept
    BY <1>4, <1>6, AllKept
<1>8. NonEmpty(m) = kept
    <2>1. CASE k = n - 1
        <3>1. m = kept
            <4> HIDE DEF S
            <4>1. Len(m) = Len(kept) /\ \A i \in 1..Len(m) : m[i] = kept[i]
                BY <1>1, <1>3, <1>6, <2>1
            <4> QED
                BY <1>3, <1>6, <4>1, SeqEqual
        <3> QED
            BY <1>7, <3>1
    <2>2. CASE n >= 2 /\ all[n] = <<>> /\ k = n - 2
        <3>1. m[n] = <<>>
            BY <1>1, <1>3, <2>2 DEF DropCR
        <3>2. <<>> \in S
            OBVIOUS
        <3>3. m = Append(kept, <<>>)
            <4> HIDE DEF S
            <4> DEFINE a == Append(kept, <<>>)
            <4>1. /\ a \in Seq(S) /\ Len(a) = Len(kept) + 1 /\ a[Len(kept) + 1] = <<>>
                  /\ \A i \in 1..Len(kept) : a[i] = kept[i]
                BY <1>6, <3>2, AppendProperties
            <4> HIDE DEF a
            <4>2. Len(m) = Len(a) /\ \A i \in 1..Len(m) : m[i] = a[i]
                <5>1. Len(m) = n /\ Len(kept) = n - 1 /\ Len(a) = n
                    BY ONLY <1>1, <1>3, <1>6, <2>2, <4>1
                <5>2. m[n] = a[n]
                    BY ONLY <1>1, <3>1, <4>1, <5>1
                <5>3. ASSUME NEW i \in 1..(n - 1) PROVE m[i] = a[i]
                    <6>1. i \in 1..n /\ i \in 1..(k + 1) /\ i \in 1..Len(kept)
                        BY <1>1, <2>2, <5>1
                    <6> QED
                        BY ONLY <6>1, <1>3, <1>6, <4>1
                <5> QED
                    BY ONLY <1>1, <5>1, <5>2, <5>3
            <4>3. m = a
                BY ONLY <1>3, <4>1, <4>2, SeqEqual
            <4> QED
                BY <4>3 DEF a
        <3>4. NonEmpty(m) = Keep(NonEmpty(kept), <<>>)
            BY <1>6, <3>2, <3>3, NonEmptyAppend
        <3> QED
            BY <1>7, <3>4 DEF Keep
    <2> QED
        BY <1>2, <2>1, <2>2
<1>9. /\ Len(Records(t)) = k + 1
      /\ \A i \in 1..(k + 1) : Records(t)[i] = Cells(DropCR(all[i]))
    <2>1. Len(Records(t)) = Len(kept) /\ \A i \in 1..Len(kept) : Records(t)[i] = Cells(kept[i])
        BY <1>8, RecordsType DEF m, all
    <2> QED
        BY <1>6, <2>1
<1>10. /\ Len(Loaded(t)) = k /\ DOMAIN Loaded(t) = 1..k
       /\ \A i \in 1..k : Loaded(t)[i] = Cells(data[i])
    <2> DEFINE r == Mapped(Cells, data)
    <2>1. /\ r \in Seq(Seq(Seq(InCell))) /\ Len(r) = k
          /\ \A i \in 1..k : r[i] = Cells(data[i])
        BY <1>2, CellsMapped DEF k
    <2>2. Loaded(t) = r
        BY DEF Loaded, data
    <2> HIDE DEF r
    <2> QED
        BY <2>1, <2>2
<1>11. ASSUME NEW i \in 1..k
       PROVE  /\ Front(Loaded(t)[i]) = Front(Records(t)[i + 1])
              /\ Last(Loaded(t)[i]) \in {Last(Records(t)[i + 1]), Append(Last(Records(t)[i + 1]), CR)}
    <2>1. data[i] \in S /\ data[i] = all[i + 1] /\ i + 1 \in 1..(k + 1)
        BY <1>2, <1>5 DEF k
    <2>2. Loaded(t)[i] = Cells(data[i]) /\ Records(t)[i + 1] = Cells(DropCR(data[i]))
        BY <1>9, <1>10, <2>1
    <2> QED
        BY <2>1, <2>2, CellsDropCR
<1> QED
    BY <1>5, <1>9, <1>10, <1>11

----------------------------------------------------------------------------
(***************************************************************************)
(* The readers one after the other                                          *)
(***************************************************************************)
\* Every file is readable by the code, whatever its characters: the three readers find
\* sequences of cells, and checkDataset goes on with a header, and a column for each
\* of its names, or not at all.
THEOREM TypeCorrect == Spec => []TypeOK
<1>1. Init => TypeOK
    <2> SUFFICES ASSUME Init PROVE TypeOK
        OBVIOUS
    <2>1. text \in Seq(Char)
        BY DEF Init, Text
    <2>2. <<>> \in Seq(Seq(Char \ {LF})) /\ <<>> \in Seq(Seq(Seq(Char \ {Comma, LF})))
        OBVIOUS
    <2> QED
        BY <2>1, <2>2 DEF Init, TypeOK
<1>2. TypeOK /\ [Next]_vars => TypeOK'
    <2> SUFFICES ASSUME TypeOK, [Next]_vars PROVE TypeOK'
        OBVIOUS
    <2> DEFINE L == Seq(Seq(Char \ {LF}))
               R == Seq(Seq(Seq(Char \ {Comma, LF})))
    <2>0. /\ text \in Seq(Char) /\ requested \in L /\ header \in L /\ columns \in L /\ rows \in R
          /\ stage \in {"header", "created", "loaded"} => header # <<>>
          /\ stage \in {"created", "loaded"} => Len(columns) = Len(header)
        BY DEF TypeOK
    <2>1. CASE ReadCsvHeader
        <3>1. AgentHeader(text) \in L
            BY <2>0, AgentHeaderType DEF InLine
        <3> HIDE DEF L, R
        <3>2. /\ requested' \in L /\ UNCHANGED <<text, header, columns, rows>>
              /\ stage' \in {"stored", "failed"}
            BY <2>0, <2>1, <3>1 DEF ReadCsvHeader
        <3> QED
            BY <2>0, <3>2 DEF TypeOK, L, R
    <2>2. CASE ReadHeader
        <3>1. Records(text) # <<>> => Records(text)[1] \in L /\ Records(text)[1] # <<>>
            <4> SUFFICES ASSUME Records(text) # <<>>
                         PROVE  Records(text)[1] \in L /\ Records(text)[1] # <<>>
                OBVIOUS
            <4> DEFINE r == Records(text)
            <4>1. r \in Seq(L) /\ \A i \in 1..Len(r) : r[i] # <<>>
                BY <2>0, RecordsType DEF InLine
            <4> HIDE DEF r, L
            <4>2. Len(r) \in Nat \ {0}
                BY <4>1, EmptySeq DEF r
            <4>3. 1 \in 1..Len(r)
                BY <4>2
            <4> QED
                BY ONLY <4>1, <4>3 DEF r
        <3> HIDE DEF L, R
        <3>2. /\ UNCHANGED <<text, requested, columns, rows>> /\ header' \in L
              /\ (stage' = "header" /\ header' # <<>>) \/ stage' = "killed"
            BY <2>0, <2>2, <3>1 DEF ReadHeader
        <3> QED
            BY <2>0, <3>2 DEF TypeOK, L, R
    <2>3. CASE CreateMysqlTable
        <3>1. Names(header) \in L /\ Len(Names(header)) = Len(header)
            BY <2>0, NamesType DEF InLine
        <3> HIDE DEF L, R
        <3>2. /\ UNCHANGED <<text, requested, header, rows>> /\ columns' \in L /\ header # <<>>
              /\ (stage' = "created" /\ Len(columns') = Len(header)) \/ stage' = "failed"
            BY <2>0, <2>3, <3>1 DEF CreateMysqlTable
        <3> QED
            BY <2>0, <3>2 DEF TypeOK, L, R
    <2>4. CASE LoadData
        <3>1. Loaded(text) \in R
            <4>1. Loaded(text) \in Seq(Seq(Seq(InCell)))
                BY <2>0, DataLinesType, CellsMapped DEF Loaded
            <4>2. InCell = Char \ {Comma, LF}
                BY DEF InCell, InLine
            <4> QED
                BY <4>1, <4>2
        <3> HIDE DEF L, R
        <3>2. /\ UNCHANGED <<text, requested, header, columns>> /\ rows' \in R
              /\ stage = "created" /\ stage' \in {"loaded", "failed"}
            BY <2>0, <2>4, <3>1 DEF LoadData
        <3> QED
            BY <2>0, <3>2 DEF TypeOK, L, R
    <2>5. CASE UNCHANGED vars
        BY <2>5 DEF TypeOK, vars
    <2> QED
        BY <2>1, <2>2, <2>3, <2>4, <2>5 DEF Next
<1> QED
    BY <1>1, <1>2, PTL DEF Spec

\* what each stage has found in the file
Found ==
    /\ stage \notin {"located", "failed"} => requested = AgentHeader(text)
    /\ stage \in {"header", "created", "loaded"} => Records(text) # <<>> /\ header = Records(text)[1]
    /\ stage \in {"created", "loaded"} => Creatable(header) /\ columns = Names(header)
    /\ stage = "loaded" => rows = Loaded(text)

LEMMA StagesFind == Spec => []Found
<1>1. Init => Found
    BY DEF Init, Found
<1>2. Found /\ [Next]_vars => Found'
    <2> SUFFICES ASSUME Found, [Next]_vars PROVE Found'
        OBVIOUS
    <2>1. CASE ReadCsvHeader
        BY <2>1 DEF ReadCsvHeader, Found
    <2>2. CASE ReadHeader
        BY <2>2 DEF ReadHeader, Found
    <2>3. CASE CreateMysqlTable
        BY <2>3 DEF CreateMysqlTable, Found
    <2>4. CASE LoadData
        BY <2>4 DEF LoadData, Found
    <2>5. CASE UNCHANGED vars
        BY <2>5 DEF vars, Found
    <2> QED
        BY <2>1, <2>2, <2>3, <2>4, <2>5 DEF Next
<1> QED
    BY <1>1, <1>2, PTL DEF Spec

\* The agent drops the columns without a name and the blanks around the others, the
\* service the empty lines: in a file of any length that does not begin with an empty
\* line, if a table is created at all, they have found the same columns.
THEOREM AgentKnows == Spec => []AgentKnowsColumns
<1>1. TypeOK /\ Found => AgentKnowsColumns
    <2> SUFFICES ASSUME TypeOK, Found, stage \in {"created", "loaded"}, ~Blank(Lines(text)[1])
                 PROVE  requested = columns
        BY DEF AgentKnowsColumns
    <2>1. text \in Seq(Char)
        BY DEF TypeOK
    <2>2. requested = AgentHeader(text) /\ columns = Names(Records(text)[1]) /\ Creatable(Records(text)[1])
        BY DEF Found
    <2> QED
        BY <2>1, <2>2, AgentReads
<1> QED
    BY <1>1, TypeCorrect, StagesFind, PTL

\* Two programs split the file, one for the header and one for the rows: in a file of any
\* length without empty lines, what MySQL loads is what follows the header.
THEOREM RowsFit == Spec => []RowsFollowHeader
<1>1. TypeOK /\ Found => RowsFollowHeader
    <2> SUFFICES ASSUME TypeOK, Found, stage = "loaded",
                        \A l \in Range(DataLines(text)) \cup {Lines(text)[1]} : ~Blank(l)
                 PROVE  LET records == Records(text) IN
                        /\ Len(rows) = Len(records) - 1
                        /\ \A i \in DOMAIN rows :
                              /\ Front(rows[i]) = Front(records[i + 1])
                              /\ Last(rows[i]) \in {Last(records[i + 1]), Append(Last(records[i + 1]), CR)}
        BY DEF RowsFollowHeader
    <2>1. text \in Seq(Char) /\ rows = Loaded(text)
        BY DEF TypeOK, Found
    <2> QED
        BY <2>1, RowsFollow
<1> QED
    BY <1>1, TypeCorrect, StagesFind, PTL
=============================================================================
