------------------------ MODULE LegacyRuntimes_proofs ------------------------
(***************************************************************************)
(* The runtimes beside Paddle-Lite's own.                                  *)
(*                                                                         *)
(* MobileReuse: the stack of mentions is enough.  Whatever the programs,   *)
(* the lists give no two variables one memory while both have mentions on  *)
(* either side.  Where an operator's own mentions stand in the walk then   *)
(* makes the memory safe for the operators, and for what is fetched.       *)
(*                                                                         *)
(* MetalRunner: one prediction is in flight per executor, and so every     *)
(* answer is the prediction's own, for any number of calls that overlap in *)
(* any way.                                                                *)
(***************************************************************************)
EXTENDS MobileReuse, MetalRunner, FiniteSetTheorems, WellFoundedInduction, TLAPS

-----------------------------------------------------------------------------
(* Positions.                                                              *)

\* A set of positions that is not empty has a first and a last one.
LEMMA FirstOf ==
  ASSUME NEW S, S \subseteq Nat, S # {}
  PROVE  \E k \in S : \A l \in S : k <= l
<1> DEFINE R == {p \in Nat \X Nat : p[1] < p[2]}
<1>1. IsWellFoundedOn(R, Nat)
  BY NatLessThanWellFounded, Zenon DEF OpToRel
<1>2. \A k, l \in Nat : <<l, k>> \notin R => k <= l
  OBVIOUS
<1> HIDE DEF R
<1>3. \E k \in S : \A l \in S : <<l, k>> \notin R
  BY <1>1, WFMin
<1> QED
  BY <1>2, <1>3

LEMMA LastOf ==
  ASSUME NEW n \in Nat, NEW T, T \subseteq 1..n, T # {}
  PROVE  \E k \in T : \A l \in T : k >= l
<1> DEFINE U == {n - k : k \in T}
<1>1. U \subseteq Nat /\ U # {}
  <2>1. \A k \in T : n - k \in Nat
    OBVIOUS
  <2> QED
    BY <2>1
<1>2. PICK m \in U : \A l \in U : m <= l
  <2> HIDE DEF U
  <2> QED
    BY <1>1, FirstOf
<1>3. PICK k \in T : m = n - k
  BY <1>2
<1>4. ASSUME NEW l \in T PROVE k >= l
  <2>1. n - l \in U
    OBVIOUS
  <2>2. n - k <= n - l
    BY <1>2, <1>3, <2>1
  <2> QED
    BY <2>2
<1> QED
  BY <1>4

-----------------------------------------------------------------------------
(* Flattening lays sequences out one behind the other.                     *)

\* The function by which FlattenSeq is defined, for the first n sequences.
StepsTo(f, seqs, n) ==
  f = [i \in 1..n |-> IF i = 1 THEN seqs[i] ELSE f[i-1] \o seqs[i]]

LEMMA StepsExist ==
  ASSUME NEW seqs, NEW n \in Nat
  PROVE  \E f : StepsTo(f, seqs, n)
<1> DEFINE Bad == {k \in Nat : ~ \E f : StepsTo(f, seqs, k)}
<1>1. SUFFICES Bad = {}
  OBVIOUS
<1>2. SUFFICES ASSUME Bad # {} PROVE FALSE
  OBVIOUS
<1>3. PICK m \in Bad : \A l \in Bad : m <= l
  <2>1. Bad \subseteq Nat
    OBVIOUS
  <2> HIDE DEF Bad
  <2> QED
    BY <1>2, <2>1, FirstOf
<1>4. CASE m = 0
  <2>1. StepsTo([i \in {} |-> 0], seqs, 0)
    BY DEF StepsTo
  <2> QED
    BY <1>4, <2>1
<1>5. CASE m # 0
  <2>1. m - 1 \in Nat /\ m - 1 \notin Bad
    BY <1>3, <1>5
  <2>2. PICK f : StepsTo(f, seqs, m - 1)
    BY <2>1
  <2> DEFINE g == [i \in 1..m |-> IF i < m THEN f[i]
                                  ELSE IF m = 1 THEN seqs[m] ELSE f[m - 1] \o seqs[m]]
  <2>3. \A i \in 1..(m - 1) : f[i] = IF i = 1 THEN seqs[i] ELSE f[i-1] \o seqs[i]
    BY <2>2 DEF StepsTo
  <2>4. \A i \in 1..m : g[i] = IF i = 1 THEN seqs[i] ELSE g[i-1] \o seqs[i]
    BY <2>1, <2>3
  <2>5. StepsTo(g, seqs, m)
    BY <2>4 DEF StepsTo
  <2> QED
    BY <2>5
<1> QED
  BY <1>4, <1>5

LEMMA FlattenSteps ==
  ASSUME NEW S, NEW seqs \in Seq(Seq(S)), Len(seqs) # 0
  PROVE  \E f : StepsTo(f, seqs, Len(seqs)) /\ FlattenSeq(seqs) = f[Len(seqs)]
<1> DEFINE F == CHOOSE f : StepsTo(f, seqs, Len(seqs))
<1>1. Len(seqs) \in Nat
  OBVIOUS
<1>2. StepsTo(F, seqs, Len(seqs))
  BY <1>1, StepsExist, Zenon
<1>3. FlattenSeq(seqs) = F[Len(seqs)]
  BY Zenon DEF FlattenSeq, StepsTo
<1> QED
  BY <1>2, <1>3, Zenon

\* The m-th element of s is the one at pos[m] of the sequence at[m].
Laid(s, seqs, n, at, pos) ==
  /\ \A m \in DOMAIN s :
       at[m] \in 1..n /\ pos[m] \in DOMAIN seqs[at[m]] /\ s[m] = seqs[at[m]][pos[m]]
  /\ \A l, m \in DOMAIN s : l < m => at[l] < at[m] \/ (at[l] = at[m] /\ pos[l] < pos[m])
  /\ \A k \in 1..n : \A i \in DOMAIN seqs[k] : \E m \in DOMAIN s : at[m] = k /\ pos[m] = i

LEMMA LaidNext ==
  ASSUME NEW S, NEW seqs, NEW n \in Nat, NEW s \in Seq(S), NEW t \in Seq(S), t = seqs[n + 1],
         NEW at, NEW pos, Laid(s, seqs, n, at, pos)
  PROVE  /\ s \o t \in Seq(S)
         /\ \E a, b : Laid(s \o t, seqs, n + 1, a, b)
<1> DEFINE r == s \o t
           a == [m \in DOMAIN r |-> IF m <= Len(s) THEN at[m] ELSE n + 1]
           b == [m \in DOMAIN r |-> IF m <= Len(s) THEN pos[m] ELSE m - Len(s)]
<1>1. /\ r \in Seq(S) /\ Len(s) \in Nat /\ Len(t) \in Nat
      /\ DOMAIN s = 1..Len(s) /\ DOMAIN t = 1..Len(t) /\ DOMAIN r = 1..(Len(s) + Len(t))
      /\ \A m \in DOMAIN s : r[m] = s[m]
      /\ \A i \in DOMAIN t : r[Len(s) + i] = t[i]
  OBVIOUS
<1>2. /\ \A m \in DOMAIN s : m \in DOMAIN r /\ a[m] = at[m] /\ b[m] = pos[m]
      /\ \A i \in DOMAIN t : /\ Len(s) + i \in DOMAIN r
                             /\ a[Len(s) + i] = n + 1 /\ b[Len(s) + i] = i
      /\ \A m \in DOMAIN r : m \in DOMAIN s \/ m - Len(s) \in DOMAIN t
  BY <1>1
<1> HIDE DEF r, a, b
<1>3. ASSUME NEW m \in DOMAIN r
      PROVE  a[m] \in 1..(n + 1) /\ b[m] \in DOMAIN seqs[a[m]] /\ r[m] = seqs[a[m]][b[m]]
  <2>1. CASE m \in DOMAIN s
    <3>1. at[m] \in 1..n /\ pos[m] \in DOMAIN seqs[at[m]] /\ s[m] = seqs[at[m]][pos[m]]
      BY <2>1 DEF Laid
    <3> QED
      BY <1>1, <1>2, <2>1, <3>1
  <2>2. CASE m - Len(s) \in DOMAIN t
    <3> DEFINE i == m - Len(s)
    <3>1. m = Len(s) + i
      BY <1>1, <2>2
    <3>2. a[m] = n + 1 /\ b[m] = i /\ r[m] = t[i]
      BY <1>1, <1>2, <2>2, <3>1
    <3> QED
      BY <2>2, <3>2
  <2> QED
    BY <1>2, <2>1, <2>2
<1>4. ASSUME NEW l \in DOMAIN r, NEW m \in DOMAIN r, l < m
      PROVE  a[l] < a[m] \/ (a[l] = a[m] /\ b[l] < b[m])
  <2>1. CASE m \in DOMAIN s
    <3>1. l \in DOMAIN s
      BY <1>1, <1>4, <2>1
    <3>2. at[l] < at[m] \/ (at[l] = at[m] /\ pos[l] < pos[m])
      BY <1>4, <2>1, <3>1 DEF Laid
    <3> QED
      BY <1>2, <2>1, <3>1, <3>2
  <2>2. CASE m - Len(s) \in DOMAIN t
    <3>1. a[m] = n + 1 /\ b[m] = m - Len(s)
      <4> DEFINE i == m - Len(s)
      <4>1. m = Len(s) + i
        BY <1>1, <2>2
      <4> QED
        BY <1>2, <2>2, <4>1
    <3>2. CASE l \in DOMAIN s
      <4>1. a[l] = at[l] /\ at[l] \in 1..n
        BY <1>2, <3>2 DEF Laid
      <4> QED
        BY <3>1, <4>1
    <3>3. CASE l - Len(s) \in DOMAIN t
      <4> DEFINE j == l - Len(s)
      <4>1. l = Len(s) + j
        BY <1>1, <3>3
      <4>2. a[l] = n + 1 /\ b[l] = j
        BY <1>2, <3>3, <4>1
      <4> QED
        BY <1>1, <1>4, <3>1, <3>3, <4>2
    <3> QED
      BY <1>2, <3>2, <3>3
  <2> QED
    BY <1>2, <2>1, <2>2
<1>5. ASSUME NEW k \in 1..(n + 1), NEW i \in DOMAIN seqs[k]
      PROVE  \E m \in DOMAIN r : a[m] = k /\ b[m] = i
  <2>1. CASE k \in 1..n
    <3>1. PICK m \in DOMAIN s : at[m] = k /\ pos[m] = i
      BY <1>5, <2>1 DEF Laid
    <3> QED
      BY <1>2, <3>1
  <2>2. CASE k = n + 1
    BY <1>2, <1>5, <2>2
  <2> QED
    BY <2>1, <2>2
<1>6. Laid(r, seqs, n + 1, a, b)
  BY <1>3, <1>4, <1>5 DEF Laid
<1> QED
  BY <1>1, <1>6 DEF r

LEMMA FlattenLaid ==
  ASSUME NEW S, NEW seqs \in Seq(Seq(S))
  PROVE  /\ FlattenSeq(seqs) \in Seq(S)
         /\ \E at, pos : Laid(FlattenSeq(seqs), seqs, Len(seqs), at, pos)
<1>0. Len(seqs) \in Nat /\ \A k \in 1..Len(seqs) : seqs[k] \in Seq(S)
  OBVIOUS
<1>1. CASE Len(seqs) = 0
  <2>1. seqs = <<>> /\ FlattenSeq(seqs) = <<>>
    BY <1>1 DEF FlattenSeq
  <2>2. Laid(<<>>, seqs, Len(seqs), <<>>, <<>>) /\ <<>> \in Seq(S)
    BY <1>1 DEF Laid
  <2> QED
    BY <2>1, <2>2, Zenon
<1>2. CASE Len(seqs) # 0
  <2>1. PICK f : StepsTo(f, seqs, Len(seqs)) /\ FlattenSeq(seqs) = f[Len(seqs)]
    BY <1>2, FlattenSteps
  <2>2. \A i \in 1..Len(seqs) : f[i] = IF i = 1 THEN seqs[i] ELSE f[i-1] \o seqs[i]
    BY <2>1 DEF StepsTo
  <2> DEFINE Good(k) == f[k] \in Seq(S) /\ \E at, pos : Laid(f[k], seqs, k, at, pos)
             Bad == {k \in 1..Len(seqs) : ~Good(k)}
  <2>3. Bad = {}
    <3> SUFFICES ASSUME Bad # {} PROVE FALSE
      OBVIOUS
    <3>1. PICK m \in Bad : \A l \in Bad : m <= l
      <4>1. Bad \subseteq Nat
        BY <1>0
      <4> HIDE DEF Bad
      <4> QED
        BY <4>1, FirstOf
    <3>2. m \in 1..Len(seqs) /\ ~Good(m) /\ \A l \in 1..Len(seqs) : l < m => Good(l)
      <4> HIDE DEF Good
      <4> QED
        BY <1>0, <3>1
    <3>3. CASE m = 1
      <4>1. f[1] = <<>> \o seqs[1] /\ seqs[1] \in Seq(S) /\ <<>> \in Seq(S)
        BY <1>0, <2>2, <3>2, <3>3
      <4>2. Laid(<<>>, seqs, 0, <<>>, <<>>)
        BY DEF Laid
      <4>3. 0 \in Nat /\ 0 + 1 = 1
        OBVIOUS
      <4>4. <<>> \o seqs[1] \in Seq(S) /\ \E a, b : Laid(<<>> \o seqs[1], seqs, 0 + 1, a, b)
        BY <4>1, <4>2, <4>3, LaidNext, Zenon
      <4>5. Good(1)
        BY <4>1, <4>3, <4>4, Zenon
      <4> QED
        BY <3>2, <3>3, <4>5
    <3>4. CASE m # 1
      <4> DEFINE n == m - 1
      <4>1. n \in 1..Len(seqs) /\ n + 1 = m /\ n \in Nat
        BY <1>0, <3>2, <3>4
      <4>2. Good(n)
        <5>1. n < m
          BY <1>0, <3>2
        <5> HIDE DEF n, Good
        <5> QED
          BY <3>2, <4>1, <5>1
      <4>3. f[n + 1] = f[n] \o seqs[n + 1] /\ seqs[n + 1] \in Seq(S)
        <5>1. f[m] = f[m - 1] \o seqs[m] /\ seqs[m] \in Seq(S)
          <6> HIDE DEF Good, Bad
          <6> QED
            BY <1>0, <2>2, <3>2, <3>4
        <5> QED
          BY <4>1, <5>1
      <4>4. PICK at, pos : Laid(f[n], seqs, n, at, pos)
        BY <4>2
      <4>5. Good(n + 1)
        <5> HIDE DEF n
        <5>1. f[n] \o seqs[n + 1] \in Seq(S) /\ \E a, b : Laid(f[n] \o seqs[n + 1], seqs, n + 1, a, b)
          BY <4>1, <4>2, <4>3, <4>4, LaidNext, Zenon
        <5> QED
          BY <4>3, <5>1, Zenon
      <4> QED
        BY <3>2, <4>1, <4>5
    <3> QED
      BY <3>3, <3>4
  <2>4. Good(Len(seqs))
    BY <1>0, <1>2, <2>3
  <2> QED
    BY <2>1, <2>4
<1> QED
  BY <1>1, <1>2

-----------------------------------------------------------------------------
(* The mentions of a program, in the order of its operators.               *)

\* The m-th of the names that are kept is the one at of[m].
Picks(p, names, of) ==
  /\ \A m \in DOMAIN Kept(p, names) :
       /\ of[m] \in DOMAIN names /\ Kept(p, names)[m] = names[of[m]]
       /\ IsKept(p, names[of[m]])
  /\ \A l, m \in DOMAIN Kept(p, names) : l < m => of[l] < of[m]
  /\ \A i \in DOMAIN names :
       IsKept(p, names[i]) => \E m \in DOMAIN Kept(p, names) : of[m] = i

LEMMA KeptLaid ==
  ASSUME NEW p, NEW names \in Seq(Var)
  PROVE  Kept(p, names) \in Seq(Var) /\ \E of : Picks(p, names, of)
<1> DEFINE K == Kept(p, names)
           Single(i) == IF names[i] \in p.persistable \cup Excluded(p) THEN <<>> ELSE <<names[i]>>
           seqs == [i \in DOMAIN names |-> Single(i)]
<1>1. \A i \in DOMAIN names : Single(i) \in Seq(Var)
  OBVIOUS
<1>2. \A i \in DOMAIN names : \A j \in DOMAIN Single(i) :
        j = 1 /\ Single(i)[j] = names[i] /\ IsKept(p, names[i])
  BY DEF IsKept
<1>3. \A i \in DOMAIN names : IsKept(p, names[i]) => 1 \in DOMAIN Single(i)
  BY DEF IsKept
<1>4. DOMAIN names = 1..Len(names) /\ Len(names) \in Nat
  OBVIOUS
<1>5. seqs \in Seq(Seq(Var)) /\ Len(seqs) = Len(names)
  <2> HIDE DEF Single
  <2> QED
    BY <1>1, <1>4
<1>6. K = FlattenSeq(seqs)
  BY DEF Kept
<1>7. \A i \in DOMAIN names : seqs[i] = Single(i)
  OBVIOUS
<1> HIDE DEF Single, seqs, K
<1>8. K \in Seq(Var)
  BY <1>5, <1>6, FlattenLaid
<1>9. PICK at, pos : Laid(K, seqs, Len(names), at, pos)
  BY <1>5, <1>6, FlattenLaid
<1>10. \A m \in DOMAIN K :
         at[m] \in DOMAIN names /\ pos[m] = 1 /\ K[m] = names[at[m]] /\ IsKept(p, names[at[m]])
  BY <1>2, <1>4, <1>7, <1>9 DEF Laid
<1>11. \A l, m \in DOMAIN K : l < m => at[l] < at[m]
  BY <1>9, <1>10 DEF Laid
<1>12. \A i \in DOMAIN names : IsKept(p, names[i]) => \E m \in DOMAIN K : at[m] = i
  BY <1>3, <1>4, <1>7, <1>9 DEF Laid
<1> QED
  BY <1>8, <1>10, <1>11, <1>12 DEF K, Picks

SlotsAt(p, k) == Slots(p, p.ops[k])

LEMMA SlotsTyped ==
  ASSUME NEW p \in Programs, NEW k \in DOMAIN p.ops
  PROVE  /\ p.ops[k].in \in Seq(Var) /\ p.ops[k].para \in Seq(Var) /\ p.ops[k].out \in Seq(Var)
         /\ SlotsAt(p, k) \in Seq(Var)
<1>1. p.ops[k] \in ToSet(p.ops)
  BY DEF ToSet
<1>2. p.ops[k].in \in Seq(Var) /\ p.ops[k].para \in Seq(Var) /\ p.ops[k].out \in Seq(Var)
  BY <1>1, ProgramsAssumption
<1> QED
  BY <1>2 DEF SlotsAt, Slots

\* Mention m is made by operator at[m] in its slot[m].
Mentioning(p, at, slot) ==
  /\ \A m \in DOMAIN Mentions(p) :
       /\ at[m] \in DOMAIN p.ops /\ slot[m] \in DOMAIN SlotsAt(p, at[m])
       /\ Mentions(p)[m] = SlotsAt(p, at[m])[slot[m]] /\ IsKept(p, Mentions(p)[m])
  /\ \A l, m \in DOMAIN Mentions(p) :
       l < m => at[l] < at[m] \/ (at[l] = at[m] /\ slot[l] < slot[m])
  /\ \A k \in DOMAIN p.ops : \A i \in DOMAIN SlotsAt(p, k) :
       IsKept(p, SlotsAt(p, k)[i]) => \E m \in DOMAIN Mentions(p) : at[m] = k /\ slot[m] = i

LEMMA MentionsLaid ==
  ASSUME NEW p \in Programs
  PROVE  Mentions(p) \in Seq(Var) /\ \E at, slot : Mentioning(p, at, slot)
<1> DEFINE M == Mentions(p)
           N == Len(p.ops)
           seqs == [k \in DOMAIN p.ops |-> Kept(p, SlotsAt(p, k))]
           of == [k \in DOMAIN p.ops |-> CHOOSE f : Picks(p, SlotsAt(p, k), f)]
<1>1. N \in Nat /\ DOMAIN p.ops = 1..N
  BY ProgramsAssumption
<1>2. \A k \in DOMAIN p.ops : seqs[k] = Kept(p, SlotsAt(p, k)) /\ seqs[k] \in Seq(Var)
  BY SlotsTyped, KeptLaid
<1>3. \A k \in DOMAIN p.ops : Picks(p, SlotsAt(p, k), of[k])
  <2>1. \A k \in DOMAIN p.ops : \E f : Picks(p, SlotsAt(p, k), f)
    BY SlotsTyped, KeptLaid
  <2> QED
    BY <2>1
<1>4. seqs \in Seq(Seq(Var)) /\ Len(seqs) = N
  <2>1. DOMAIN seqs = 1..N /\ seqs = [k \in 1..N |-> seqs[k]]
    BY <1>1
  <2> HIDE DEF seqs, N
  <2> QED
    BY <1>1, <1>2, <2>1
<1>5. M = FlattenSeq(seqs)
  BY DEF Mentions, SlotsAt
<1> HIDE DEF M, N, seqs, of
<1>6. M \in Seq(Var)
  BY <1>4, <1>5, FlattenLaid
<1>7. PICK at, pos : Laid(M, seqs, N, at, pos)
  BY <1>4, <1>5, FlattenLaid
<1> DEFINE slot == [m \in DOMAIN M |-> of[at[m]][pos[m]]]
<1>8. \A m \in DOMAIN M :
        /\ at[m] \in DOMAIN p.ops /\ slot[m] \in DOMAIN SlotsAt(p, at[m])
        /\ M[m] = SlotsAt(p, at[m])[slot[m]] /\ IsKept(p, M[m])
  BY <1>1, <1>2, <1>3, <1>7 DEF Laid, Picks
<1>9. ASSUME NEW l \in DOMAIN M, NEW m \in DOMAIN M, l < m
      PROVE  at[l] < at[m] \/ (at[l] = at[m] /\ slot[l] < slot[m])
  <2>1. CASE at[l] < at[m]
    BY <2>1
  <2>2. CASE at[l] = at[m] /\ pos[l] < pos[m]
    <3>1. at[m] \in DOMAIN p.ops /\ pos[l] \in DOMAIN seqs[at[m]] /\ pos[m] \in DOMAIN seqs[at[m]]
      BY <1>1, <1>7, <2>2 DEF Laid
    <3> QED
      BY <1>2, <1>3, <2>2, <3>1 DEF Picks
  <2> QED
    BY <1>7, <1>9, <2>1, <2>2 DEF Laid
<1>10. ASSUME NEW k \in DOMAIN p.ops, NEW i \in DOMAIN SlotsAt(p, k), IsKept(p, SlotsAt(p, k)[i])
       PROVE  \E m \in DOMAIN M : at[m] = k /\ slot[m] = i
  <2>1. PICK j \in DOMAIN seqs[k] : of[k][j] = i
    BY <1>2, <1>3, <1>10 DEF Picks
  <2>2. PICK m \in DOMAIN M : at[m] = k /\ pos[m] = j
    BY <1>1, <1>7 DEF Laid
  <2> QED
    BY <2>1, <2>2
<1>11. Mentioning(p, at, slot)
  BY <1>8, <1>9, <1>10, Zenon DEF Mentioning, M
<1> QED
  BY <1>6, <1>11 DEF M

LEMMA WalkTyped == \A p \in Programs : Walk(p) \in Seq(Var)
BY MentionsLaid DEF Walk, Reverse

-----------------------------------------------------------------------------
(* Counting mentions.                                                      *)

\* The mentions of v from position k on.
Rest(v, k) == {l \in DOMAIN nodes : l >= k /\ nodes[l] = v}

LEMMA RestFacts ==
  ASSUME nodes \in Seq(Var), NEW v, NEW k \in Nat
  PROVE  /\ IsFiniteSet(Rest(v, k))
         /\ Cardinality(Rest(v, k)) \in Nat
         /\ Cardinality(Rest(v, k)) = 0 <=> Rest(v, k) = {}
         /\ Cardinality(Rest(v, k + 1)) =
              IF k \in DOMAIN nodes /\ nodes[k] = v THEN Cardinality(Rest(v, k)) - 1
                                                    ELSE Cardinality(Rest(v, k))
<1>1. IsFiniteSet(DOMAIN nodes)
  BY FS_Interval
<1>2. IsFiniteSet(Rest(v, k))
  BY <1>1, FS_Subset DEF Rest
<1>3. Cardinality(Rest(v, k)) \in Nat
  BY <1>2, FS_CardinalityType
<1>4. Cardinality(Rest(v, k)) = 0 <=> Rest(v, k) = {}
  BY <1>2, FS_EmptySet
<1>5. Rest(v, k + 1) = Rest(v, k) \ {k}
  BY DEF Rest
<1>6. k \in Rest(v, k) <=> k \in DOMAIN nodes /\ nodes[k] = v
  BY DEF Rest
<1> QED
  BY <1>2, <1>3, <1>4, <1>5, <1>6, FS_RemoveElement

-----------------------------------------------------------------------------
(* The inductive invariant.                                                *)

\* A counter is the number of mentions that are still to come.
CountInv ==
  count = [v \in Mentioned |-> Cardinality(Rest(v, walked + 1))]

WalkInv ==
  /\ program \in Programs
  /\ nodes \in Seq(Var)
  /\ walked \in 0..Len(nodes)
  /\ visited = {nodes[k] : k \in 1..walked}

\* Every visited variable has one place in one list.
ListsInv ==
  /\ lists \in Seq(Seq(visited))
  /\ \A i \in DOMAIN lists : lists[i] # <<>>
  /\ \A v \in visited : \E i \in DOMAIN lists : InList(v, i)
  /\ \A v \in visited : \A i, j \in DOMAIN lists : InList(v, i) /\ InList(v, j) => i = j

\* Whoever was followed by another variable has no mention left.
HandedOver ==
  \A i \in DOMAIN lists : \A k \in 1..(Len(lists[i]) - 1) : count[lists[i][k]] = 0

ReuseInv == WalkInv /\ CountInv /\ ListsInv /\ HandedOver

LEMMA InitReuseInv == Init => ReuseInv
<1> SUFFICES ASSUME Init PROVE ReuseInv
  OBVIOUS
<1>1. nodes \in Seq(Var)
  BY WalkTyped DEF Init
<1>2. WalkInv
  BY <1>1 DEF Init, WalkInv
<1>3. CountInv
  <2>1. \A v \in Mentioned : Rest(v, walked + 1) = {k \in DOMAIN nodes : nodes[k] = v}
    BY <1>1 DEF Init, Rest
  <2> QED
    BY <2>1 DEF Init, CountInv, Counted, Mentioned
<1>4. ListsInv /\ HandedOver
  BY DEF Init, ListsInv, HandedOver
<1> QED
  BY <1>2, <1>3, <1>4 DEF ReuseInv

\* What popping a mention does, whatever happens to the lists.
LEMMA PopFacts ==
  ASSUME ReuseInv, More, Pop
  PROVE  /\ WalkInv' /\ CountInv'
         /\ Node \in Mentioned
         /\ Mentioned' = Mentioned
         /\ visited' = visited \cup {Node}
         /\ \A v \in visited : count[v] = 0 => count'[v] = 0 /\ v # Node
<1> USE DEF ReuseInv
<1>1. /\ walked \in Nat /\ walked + 1 \in 1..Len(nodes)
      /\ nodes' = nodes /\ walked' = walked + 1
      /\ nodes \in Seq(Var)
      /\ DOMAIN count = Mentioned
  BY DEF WalkInv, CountInv, More, Pop
<1>2. Node \in Mentioned /\ Mentioned' = Mentioned
  BY <1>1 DEF Node, Mentioned
<1>3. WalkInv'
  BY <1>1 DEF WalkInv, Pop, Node
<1>4. \A v \in Mentioned :
        count'[v] = IF v = Node THEN count[v] - 1 ELSE count[v]
  BY <1>1, <1>2 DEF Pop
<1>5. \A v \in Mentioned :
        Cardinality(Rest(v, walked + 2)) =
          IF v = Node THEN Cardinality(Rest(v, walked + 1)) - 1
                      ELSE Cardinality(Rest(v, walked + 1))
  <2>1. walked + 1 \in Nat /\ (walked + 1) + 1 = walked + 2 /\ walked + 1 \in DOMAIN nodes
    BY <1>1
  <2>2. \A v : Cardinality(Rest(v, (walked + 1) + 1)) =
                 IF nodes[walked + 1] = v THEN Cardinality(Rest(v, walked + 1)) - 1
                                          ELSE Cardinality(Rest(v, walked + 1))
    BY <1>1, <2>1, RestFacts
  <2> QED
    BY <2>1, <2>2 DEF Node
<1>6. \A v, k : Rest(v, k)' = Rest(v, k)
  BY <1>1 DEF Rest
<1>7. CountInv'
  <2>1. walked' + 1 = walked + 2
    BY <1>1
  <2>2. \A v \in Mentioned : count'[v] = Cardinality(Rest(v, walked + 2))
    BY <1>4, <1>5 DEF CountInv
  <2>3. count' = [v \in Mentioned |-> count'[v]]
    BY <1>1, <1>2 DEF Pop, CountInv
  <2>4. \A v : Rest(v, walked + 1)' = Rest(v, walked + 2)
    BY <1>1, <2>1 DEF Rest
  <2> QED
    BY <1>2, <2>2, <2>3, <2>4 DEF CountInv
<1>8. \A v \in visited : v \in Mentioned
  BY <1>1 DEF WalkInv, Mentioned
<1>9. \A v \in visited : count[v] = 0 => count'[v] = 0 /\ v # Node
  <2> SUFFICES ASSUME NEW v \in visited, count[v] = 0
               PROVE  count'[v] = 0 /\ v # Node
    OBVIOUS
  <2>1. Rest(v, walked + 1) = {}
    BY <1>1, <1>8, RestFacts DEF CountInv
  <2>2. v # Node
    BY <1>1, <2>1 DEF Rest, Node
  <2> QED
    BY <1>4, <1>8, <2>2
<1> QED
  BY <1>2, <1>3, <1>7, <1>9 DEF Pop

\* The members of a list are visited variables.
LEMMA MembersVisited ==
  ASSUME ListsInv, NEW i \in DOMAIN lists, NEW k \in DOMAIN lists[i]
  PROVE  lists[i][k] \in visited
BY DEF ListsInv

LEMMA JoinFacts ==
  ASSUME ReuseInv, NEW i \in DOMAIN lists, Node \notin visited,
         lists' = [lists EXCEPT ![i] = Append(@, Node)]
  PROVE  /\ DOMAIN lists' = DOMAIN lists
         /\ lists' \in Seq(Seq(visited \cup {Node}))
         /\ \A j \in DOMAIN lists : j # i => lists'[j] = lists[j]
         /\ Len(lists'[i]) = Len(lists[i]) + 1
         /\ \A k \in DOMAIN lists[i] : lists'[i][k] = lists[i][k]
         /\ lists'[i][Len(lists[i]) + 1] = Node
         /\ \A v, j : j \in DOMAIN lists => (InList(v, j)' <=> InList(v, j) \/ (j = i /\ v = Node))
<1> USE DEF ReuseInv
<1>1. /\ lists \in Seq(Seq(visited)) /\ lists[i] \in Seq(visited)
      /\ Len(lists[i]) \in Nat
  BY DEF ListsInv
<1>2. lists[i] \in Seq(visited \cup {Node})
  BY <1>1
<1>3. lists \in Seq(Seq(visited \cup {Node}))
  <2>1. \A j \in DOMAIN lists : lists[j] \in Seq(visited \cup {Node})
    BY <1>1
  <2> QED
    BY <1>1, <2>1
<1>4. /\ DOMAIN lists' = DOMAIN lists
      /\ \A j \in DOMAIN lists : j # i => lists'[j] = lists[j]
      /\ lists'[i] = Append(lists[i], Node)
  BY <1>1
<1>5. /\ Len(lists'[i]) = Len(lists[i]) + 1
      /\ \A k \in DOMAIN lists[i] : lists'[i][k] = lists[i][k]
      /\ lists'[i][Len(lists[i]) + 1] = Node
      /\ DOMAIN lists'[i] = DOMAIN lists[i] \cup {Len(lists[i]) + 1}
  BY <1>1, <1>4
<1>6. lists' \in Seq(Seq(visited \cup {Node}))
  BY <1>2, <1>3
<1>7. ASSUME NEW v, NEW j \in DOMAIN lists
      PROVE  InList(v, j)' <=> InList(v, j) \/ (j = i /\ v = Node)
  <2>1. CASE j = i
    BY <1>1, <1>5, <2>1 DEF InList
  <2>2. CASE j # i
    BY <1>4, <2>2 DEF InList
  <2> QED
    BY <2>1, <2>2
<1> QED
  BY <1>4, <1>5, <1>6, <1>7

LEMMA OpenFacts ==
  ASSUME ReuseInv, Node \notin visited, lists' = Append(lists, <<Node>>)
  PROVE  /\ DOMAIN lists' = DOMAIN lists \cup {Len(lists) + 1}
         /\ Len(lists) \in Nat /\ DOMAIN lists = 1..Len(lists)
         /\ lists' \in Seq(Seq(visited \cup {Node}))
         /\ \A j \in DOMAIN lists : lists'[j] = lists[j]
         /\ lists'[Len(lists) + 1] = <<Node>>
         /\ \A v, j : j \in DOMAIN lists => (InList(v, j)' <=> InList(v, j))
         /\ \A v, j : j = Len(lists) + 1 => (InList(v, j)' <=> v = Node)
<1> USE DEF ReuseInv
<1>1. lists \in Seq(Seq(visited))
  BY DEF ListsInv
<1>2. lists \in Seq(Seq(visited \cup {Node}))
  <2>1. \A j \in DOMAIN lists : lists[j] \in Seq(visited \cup {Node})
    BY <1>1
  <2> QED
    BY <1>1, <2>1
<1>3. /\ DOMAIN lists' = DOMAIN lists \cup {Len(lists) + 1}
      /\ Len(lists) \in Nat /\ DOMAIN lists = 1..Len(lists)
      /\ \A j \in DOMAIN lists : lists'[j] = lists[j]
      /\ lists'[Len(lists) + 1] = <<Node>>
  BY <1>1
<1>4. <<Node>> \in Seq(visited \cup {Node})
  OBVIOUS
<1>5. lists' \in Seq(Seq(visited \cup {Node}))
  BY <1>2, <1>4
<1>6. \A v, j : j \in DOMAIN lists => (InList(v, j)' <=> InList(v, j))
  BY <1>3 DEF InList
<1>7. \A v, j : j = Len(lists) + 1 => (InList(v, j)' <=> v = Node)
  <2>1. \A v, j : j = Len(lists) + 1 =>
          (InList(v, j)' <=> \E k \in DOMAIN <<Node>> : <<Node>>[k] = v)
    BY <1>3 DEF InList
  <2> QED
    BY <2>1
<1> QED
  BY <1>3, <1>5, <1>6, <1>7

\* When a list can be taken over, none of its members has a mention left.
LEMMA FreeListIsDone ==
  ASSUME ReuseInv, NEW i \in DOMAIN lists, Free(i)
  PROVE  \A k \in DOMAIN lists[i] : lists[i][k] \in visited /\ count[lists[i][k]] = 0
<1> USE DEF ReuseInv
<1>1. count[lists[i][Len(lists[i])]] = 0
  BY DEF Free, Last
<1>2. \A k \in 1..(Len(lists[i]) - 1) : count[lists[i][k]] = 0
  BY DEF HandedOver
<1>3. lists[i] \in Seq(visited)
  BY DEF ListsInv
<1> QED
  BY <1>1, <1>2, <1>3

LEMMA NextReuseInv == ReuseInv /\ [Next]_vars => ReuseInv'
<1> SUFFICES ASSUME ReuseInv, [Next]_vars PROVE ReuseInv'
  OBVIOUS
<1> USE DEF ReuseInv
<1>1. CASE JoinList
  <2>1. PICK i \in DOMAIN lists : Free(i) /\ lists' = [lists EXCEPT ![i] = Append(@, Node)]
    BY <1>1 DEF JoinList
  <2>2. Node \notin visited /\ More /\ Pop
    BY <1>1 DEF JoinList
  <2>3. WalkInv' /\ CountInv'
    BY <2>2, PopFacts
  <2>4. ListsInv'
    <3>1. visited' = visited \cup {Node}
      BY <2>2, PopFacts
    <3>2. lists' \in Seq(Seq(visited'))
      BY <2>1, <2>2, <3>1, JoinFacts
    <3>3. /\ DOMAIN lists' = DOMAIN lists
          /\ \A v, j : j \in DOMAIN lists =>
               (InList(v, j)' <=> InList(v, j) \/ (j = i /\ v = Node))
      BY <2>1, <2>2, JoinFacts
    <3>4. ASSUME NEW j \in DOMAIN lists' PROVE lists'[j] # <<>>
      <4>1. CASE j = i
        <5>1. lists'[i][Len(lists[i]) + 1] = Node /\ Len(lists'[i]) = Len(lists[i]) + 1
          BY <2>1, <2>2, JoinFacts
        <5>2. Len(lists[i]) \in Nat
          BY DEF ListsInv
        <5> QED
          BY <4>1, <5>1, <5>2
      <4>2. CASE j # i
        <5>1. lists'[j] = lists[j]
          BY <2>1, <2>2, <3>3, <4>2, JoinFacts
        <5> QED
          BY <3>3, <5>1 DEF ListsInv
      <4> QED
        BY <4>1, <4>2
    <3>5. ASSUME NEW v \in visited' PROVE \E j \in DOMAIN lists' : InList(v, j)'
      <4>1. CASE v = Node
        BY <3>3, <4>1
      <4>2. CASE v \in visited
        <5>1. PICK j \in DOMAIN lists : InList(v, j)
          BY <4>2 DEF ListsInv
        <5> QED
          BY <3>3, <5>1
      <4> QED
        BY <3>1, <4>1, <4>2
    <3>6. \A j \in DOMAIN lists : ~InList(Node, j)
      BY <2>2, MembersVisited DEF InList
    <3>7. ASSUME NEW v \in visited', NEW j \in DOMAIN lists', NEW l \in DOMAIN lists',
                 InList(v, j)', InList(v, l)'
          PROVE  j = l
      <4>1. CASE v = Node
        BY <3>3, <3>6, <3>7, <4>1
      <4>2. CASE v # Node
        <5>1. v \in visited /\ InList(v, j) /\ InList(v, l)
          BY <3>1, <3>3, <3>7, <4>2
        <5> QED
          BY <3>3, <5>1 DEF ListsInv
      <4> QED
        BY <4>1, <4>2
    <3> QED
      BY <3>2, <3>4, <3>5, <3>7 DEF ListsInv
  <2>5. HandedOver'
    <3>1. \A k \in DOMAIN lists[i] : lists[i][k] \in visited /\ count[lists[i][k]] = 0
      BY <2>1, FreeListIsDone
    <3>2. \A k \in DOMAIN lists[i] : count'[lists'[i][k]] = 0
      BY <2>1, <2>2, <3>1, PopFacts, JoinFacts
    <3>3. \A k \in 1..(Len(lists'[i]) - 1) : count'[lists'[i][k]] = 0
      <4>1. lists[i] \in Seq(visited)
        BY DEF ListsInv
      <4>2. Len(lists'[i]) = Len(lists[i]) + 1
        BY <2>1, <2>2, JoinFacts
      <4> QED
        BY <3>2, <4>1, <4>2
    <3>4. ASSUME NEW j \in DOMAIN lists', j # i, NEW k \in 1..(Len(lists'[j]) - 1)
          PROVE  count'[lists'[j][k]] = 0
      <4>1. j \in DOMAIN lists /\ lists'[j] = lists[j]
        BY <2>1, <2>2, <3>4, JoinFacts
      <4>2. lists[j] \in Seq(visited)
        BY <4>1 DEF ListsInv
      <4>3. count[lists[j][k]] = 0 /\ lists[j][k] \in visited
        BY <3>4, <4>1, <4>2 DEF HandedOver
      <4> QED
        BY <2>2, <4>1, <4>3, PopFacts
    <3> QED
      BY <3>3, <3>4 DEF HandedOver
  <2> QED
    BY <2>3, <2>4, <2>5
<1>2. CASE OpenList
  <2>1. Node \notin visited /\ More /\ Pop /\ lists' = Append(lists, <<Node>>)
    BY <1>2 DEF OpenList
  <2>2. WalkInv' /\ CountInv' /\ visited' = visited \cup {Node}
    BY <2>1, PopFacts
  <2>3. ListsInv'
    <3>1. lists' \in Seq(Seq(visited'))
      BY <2>1, <2>2, OpenFacts
    <3>2. /\ DOMAIN lists' = DOMAIN lists \cup {Len(lists) + 1}
          /\ Len(lists) \in Nat /\ DOMAIN lists = 1..Len(lists)
          /\ \A v, j : j \in DOMAIN lists => (InList(v, j)' <=> InList(v, j))
          /\ \A v, j : j = Len(lists) + 1 => (InList(v, j)' <=> v = Node)
      BY <2>1, OpenFacts
    <3>3. ASSUME NEW j \in DOMAIN lists' PROVE lists'[j] # <<>>
      <4>1. CASE j = Len(lists) + 1
        BY <2>1, <4>1, OpenFacts
      <4>2. CASE j \in DOMAIN lists
        <5>1. lists'[j] = lists[j]
          BY <2>1, <4>2, OpenFacts
        <5> QED
          BY <4>2, <5>1 DEF ListsInv
      <4> QED
        BY <3>2, <4>1, <4>2
    <3>4. ASSUME NEW v \in visited' PROVE \E j \in DOMAIN lists' : InList(v, j)'
      <4>1. CASE v = Node
        BY <3>2, <4>1
      <4>2. CASE v \in visited
        <5>1. PICK j \in DOMAIN lists : InList(v, j)
          BY <4>2 DEF ListsInv
        <5> QED
          BY <3>2, <5>1
      <4> QED
        BY <2>2, <4>1, <4>2
    <3>5. \A j \in DOMAIN lists : ~InList(Node, j)
      BY <2>1, MembersVisited DEF InList
    <3>6. ASSUME NEW v \in visited', NEW j \in DOMAIN lists', NEW l \in DOMAIN lists',
                 InList(v, j)', InList(v, l)'
          PROVE  j = l
      <4>1. CASE v = Node
        <5>1. j = Len(lists) + 1 /\ l = Len(lists) + 1
          BY <3>2, <3>5, <3>6, <4>1
        <5> QED
          BY <5>1
      <4>2. CASE v # Node
        <5>1. /\ v \in visited /\ j \in DOMAIN lists /\ l \in DOMAIN lists
              /\ InList(v, j) /\ InList(v, l)
          BY <2>2, <3>2, <3>6, <4>2
        <5> QED
          BY <5>1 DEF ListsInv
      <4> QED
        BY <4>1, <4>2
    <3> QED
      BY <3>1, <3>3, <3>4, <3>6 DEF ListsInv
  <2>4. HandedOver'
    <3>1. ASSUME NEW j \in DOMAIN lists', NEW k \in 1..(Len(lists'[j]) - 1)
          PROVE  count'[lists'[j][k]] = 0
      <4>1. CASE j = Len(lists) + 1
        BY <2>1, <3>1, <4>1, OpenFacts
      <4>2. CASE j \in DOMAIN lists
        <5>1. lists'[j] = lists[j] /\ lists[j] \in Seq(visited)
          BY <2>1, <4>2, OpenFacts DEF ListsInv
        <5>2. count[lists[j][k]] = 0 /\ lists[j][k] \in visited
          BY <3>1, <4>2, <5>1 DEF HandedOver
        <5> QED
          BY <2>1, <5>1, <5>2, PopFacts
      <4> QED
        BY <2>1, <4>1, <4>2, OpenFacts
    <3> QED
      BY <3>1 DEF HandedOver
  <2> QED
    BY <2>2, <2>3, <2>4
<1>3. CASE Revisit
  <2>1. Node \in visited /\ More /\ Pop /\ lists' = lists
    BY <1>3 DEF Revisit
  <2>2. WalkInv' /\ CountInv' /\ visited' = visited
    BY <2>1, PopFacts
  <2>3. ListsInv'
    BY <2>1, <2>2 DEF ListsInv, InList
  <2>4. HandedOver'
    <3>1. ASSUME NEW j \in DOMAIN lists, NEW k \in 1..(Len(lists[j]) - 1)
          PROVE  count'[lists[j][k]] = 0
      <4>1. lists[j] \in Seq(visited)
        BY DEF ListsInv
      <4>2. count[lists[j][k]] = 0 /\ lists[j][k] \in visited
        BY <3>1, <4>1 DEF HandedOver
      <4> QED
        BY <2>1, <4>2, PopFacts
    <3> QED
      BY <2>1, <3>1 DEF HandedOver
  <2> QED
    BY <2>2, <2>3, <2>4
<1>4. CASE UNCHANGED vars
  <2> USE <1>4 DEF vars
  <2>1. WalkInv'
    BY DEF WalkInv
  <2>2. CountInv'
    BY DEF CountInv, Mentioned, Rest
  <2>3. ListsInv'
    BY DEF ListsInv, InList
  <2>4. HandedOver'
    BY DEF HandedOver
  <2> QED
    BY <2>1, <2>2, <2>3, <2>4
<1> QED
  BY <1>1, <1>2, <1>3, <1>4 DEF Next

-----------------------------------------------------------------------------
(* The lists keep the promise of a plan.                                   *)

LEMMA PlaceFacts ==
  ASSUME nodes \in Seq(Var), NEW v \in Mentioned
  PROVE  /\ FirstPlace(v) \in Places(v) /\ LastPlace(v) \in Places(v)
<1>1. Places(v) \subseteq 1..Len(nodes) /\ Len(nodes) \in Nat
  BY DEF Places
<1>2. Places(v) # {}
  BY DEF Places, Mentioned
<1>3. Places(v) \subseteq Nat
  BY <1>1
<1>4. \E k \in Places(v) : \A l \in Places(v) : k <= l
  BY <1>2, <1>3, FirstOf
<1>5. \E k \in Places(v) : \A l \in Places(v) : k >= l
  BY <1>1, <1>2, LastOf
<1> QED
  BY <1>4, <1>5 DEF FirstPlace, LastPlace

\* A variable holds the memory of the head of its list.
LEMMA HolderIsHead ==
  ASSUME ListsInv, NEW i \in DOMAIN lists, NEW v \in visited, InList(v, i)
  PROVE  Holder(v) = lists[i][1]
<1>1. \A k \in DOMAIN lists : InList(v, k) => k = i
  BY DEF ListsInv
<1>2. (CHOOSE k \in DOMAIN lists : InList(v, k)) = i
  BY <1>1
<1> QED
  BY <1>2 DEF Holder

LEMMA HeadsAreMembers ==
  ASSUME ListsInv, NEW i \in DOMAIN lists
  PROVE  1 \in DOMAIN lists[i] /\ lists[i][1] \in visited /\ InList(lists[i][1], i)
<1>1. lists[i] \in Seq(visited) /\ lists[i] # <<>>
  BY DEF ListsInv
<1> QED
  BY <1>1 DEF InList

\* A variable without mentions left was needed before the one that is new.
LEMMA NeededBefore ==
  ASSUME ReuseInv, More, Node \notin visited, NEW u \in visited, count[u] = 0
  PROVE  LastPlace(u) < FirstPlace(Node)
<1> USE DEF ReuseInv
<1>1. /\ walked \in Nat /\ walked + 1 \in 1..Len(nodes) /\ nodes \in Seq(Var)
      /\ visited = {nodes[k] : k \in 1..walked}
  BY DEF WalkInv, More
<1>2. u \in Mentioned /\ Node \in Mentioned
  BY <1>1 DEF Mentioned, Node
<1>3. Rest(u, walked + 1) = {}
  BY <1>1, <1>2, RestFacts DEF CountInv
<1>4. LastPlace(u) \in DOMAIN nodes /\ nodes[LastPlace(u)] = u
  BY <1>1, <1>2, PlaceFacts DEF Places
<1>5. LastPlace(u) <= walked
  BY <1>1, <1>3, <1>4 DEF Rest
<1>6. FirstPlace(Node) \in DOMAIN nodes /\ nodes[FirstPlace(Node)] = Node
  BY <1>1, <1>2, PlaceFacts DEF Places
<1>7. FirstPlace(Node) > walked
  BY <1>1, <1>6
<1> QED
  BY <1>1, <1>4, <1>5, <1>6, <1>7

LEMMA StepKeepsPromise ==
  ASSUME ReuseInv, Next
  PROVE  \/ Promise!RNext
         \/ UNCHANGED Promise!reuseVars
<1> USE DEF ReuseInv
<1> DEFINE lifetime == [v \in Mentioned |-> <<FirstPlace(v), LastPlace(v)>>]
           plan == [v \in visited |-> Holder(v)]
<1>1. More /\ Pop
  BY DEF Next, JoinList, OpenList, Revisit
<1>2. /\ WalkInv' /\ visited' = visited \cup {Node}
      /\ Node \in Mentioned /\ Mentioned' = Mentioned
  BY <1>1, PopFacts
<1>3. lifetime' = lifetime
  <2>1. nodes' = nodes
    BY <1>1 DEF Pop
  <2>2. \A v : FirstPlace(v)' = FirstPlace(v) /\ LastPlace(v)' = LastPlace(v)
    BY <2>1 DEF FirstPlace, LastPlace, Places
  <2> QED
    BY <1>2, <2>2
<1>4. ListsInv'
  BY NextReuseInv
<1>5. CASE JoinList
  <2>1. PICK i \in DOMAIN lists : Free(i) /\ lists' = [lists EXCEPT ![i] = Append(@, Node)]
    BY <1>5 DEF JoinList
  <2>2. Node \notin visited
    BY <1>5 DEF JoinList
  <2> DEFINE r == lists[i][1]
  <2>3. /\ DOMAIN lists' = DOMAIN lists
        /\ \A v, j : j \in DOMAIN lists =>
             (InList(v, j)' <=> InList(v, j) \/ (j = i /\ v = Node))
        /\ \A j \in DOMAIN lists : lists'[j][1] = lists[j][1]
    <3>1. \A j \in DOMAIN lists : 1 \in DOMAIN lists[j]
      BY HeadsAreMembers
    <3>2. ASSUME NEW j \in DOMAIN lists PROVE lists'[j][1] = lists[j][1]
      <4>1. CASE j = i
        BY <2>1, <2>2, <3>1, <4>1, JoinFacts
      <4>2. CASE j # i
        BY <2>1, <2>2, <4>2, JoinFacts
      <4> QED
        BY <4>1, <4>2
    <3>3. /\ DOMAIN lists' = DOMAIN lists
          /\ \A v, j : j \in DOMAIN lists =>
               (InList(v, j)' <=> InList(v, j) \/ (j = i /\ v = Node))
      BY <2>1, <2>2, JoinFacts
    <3> QED
      BY <3>2, <3>3
  <2>4. ASSUME NEW v \in visited PROVE Holder(v)' = Holder(v)
    <3>1. PICK j \in DOMAIN lists : InList(v, j)
      BY DEF ListsInv
    <3>2. Holder(v) = lists[j][1]
      BY <3>1, HolderIsHead
    <3>3. (CHOOSE k \in DOMAIN lists' : InList(v, k)') = j
      BY <1>2, <1>4, <2>3, <3>1 DEF ListsInv
    <3> QED
      BY <2>3, <3>2, <3>3 DEF Holder
  <2>5. ASSUME NEW v, v = Node PROVE Holder(v)' = r
    <3>1. (CHOOSE k \in DOMAIN lists' : InList(v, k)') = i
      BY <1>2, <1>4, <2>3, <2>5 DEF ListsInv
    <3> QED
      BY <2>3, <3>1 DEF Holder
  <2>6. plan' = Assign(plan, Node, r)
    <3>1. ASSUME NEW v \in visited' PROVE plan'[v] = Assign(plan, Node, r)[v]
      <4>1. CASE v = Node
        BY <1>2, <2>5, <4>1 DEF Assign
      <4>2. CASE v # Node
        BY <1>2, <2>4, <4>2 DEF Assign
      <4> QED
        BY <4>1, <4>2
    <3>2. plan' = [v \in visited' |-> Holder(v)']
      OBVIOUS
    <3>3. DOMAIN plan = visited
      OBVIOUS
    <3>4. plan' = [v \in visited' |-> plan'[v]]
      BY <3>2
    <3>5. Assign(plan, Node, r) = [v \in visited' |-> Assign(plan, Node, r)[v]]
      BY <1>2, <3>3 DEF Assign
    <3> HIDE DEF plan, r
    <3> QED
      BY <3>1, <3>4, <3>5
  <2>7. Node \in DOMAIN lifetime \ DOMAIN plan
    BY <1>2, <2>2
  <2>8. r \in DOMAIN plan /\ plan[r] = r
    BY HeadsAreMembers, HolderIsHead
  <2>9. Promise!Compatible(Node, r)
    <3>1. ASSUME NEW u \in visited, Holder(u) = r
          PROVE  LastPlace(u) < FirstPlace(Node)
      <4>1. PICK j \in DOMAIN lists : InList(u, j)
        BY DEF ListsInv
      <4>2. lists[j][1] = r
        BY <3>1, <4>1, HolderIsHead
      <4>3. j = i
        BY <4>2, HeadsAreMembers DEF ListsInv
      <4>4. count[u] = 0
        BY <2>1, <4>1, <4>3, FreeListIsDone DEF InList
      <4> QED
        BY <1>1, <2>2, <4>4, NeededBefore
    <3>2. \A u \in Promise!Tenants(r) : u \in visited /\ Holder(u) = r
      BY DEF Promise!Tenants
    <3>3. \A u \in visited : lifetime[u][2] = LastPlace(u)
      BY DEF WalkInv, Mentioned
    <3>4. lifetime[Node][1] = FirstPlace(Node)
      BY <1>2
    <3> QED
      BY <3>1, <3>2, <3>3, <3>4 DEF Promise!Compatible, Promise!Disjoint
  <2> QED
    BY <1>3, <2>6, <2>7, <2>8, <2>9
       DEF Promise!RNext, Promise!ShareMemory, Assign, Promise!Assign
<1>6. CASE OpenList
  <2>1. Node \notin visited /\ lists' = Append(lists, <<Node>>)
    BY <1>6 DEF OpenList
  <2>2. /\ DOMAIN lists' = DOMAIN lists \cup {Len(lists) + 1}
        /\ \A j \in DOMAIN lists : lists'[j] = lists[j]
        /\ lists'[Len(lists) + 1] = <<Node>>
        /\ \A v, j : j \in DOMAIN lists => (InList(v, j)' <=> InList(v, j))
        /\ \A v, j : j = Len(lists) + 1 => (InList(v, j)' <=> v = Node)
    BY <2>1, OpenFacts
  <2>3. ASSUME NEW v \in visited PROVE Holder(v)' = Holder(v)
    <3>1. PICK j \in DOMAIN lists : InList(v, j)
      BY DEF ListsInv
    <3>2. Holder(v) = lists[j][1]
      BY <3>1, HolderIsHead
    <3>3. (CHOOSE k \in DOMAIN lists' : InList(v, k)') = j
      BY <1>2, <1>4, <2>2, <3>1 DEF ListsInv
    <3> QED
      BY <2>2, <3>2, <3>3 DEF Holder
  <2>4. ASSUME NEW v, v = Node PROVE Holder(v)' = v
    <3>1. (CHOOSE k \in DOMAIN lists' : InList(v, k)') = Len(lists) + 1
      BY <1>2, <1>4, <2>2, <2>4 DEF ListsInv
    <3>2. lists'[Len(lists) + 1][1] = Node
      BY <2>2
    <3> QED
      BY <2>2, <2>4, <3>1, <3>2 DEF Holder
  <2>5. plan' = Assign(plan, Node, Node)
    <3>1. ASSUME NEW v \in visited' PROVE plan'[v] = Assign(plan, Node, Node)[v]
      <4>1. CASE v = Node
        BY <1>2, <2>4, <4>1 DEF Assign
      <4>2. CASE v # Node
        BY <1>2, <2>3, <4>2 DEF Assign
      <4> QED
        BY <4>1, <4>2
    <3>2. plan' = [v \in visited' |-> Holder(v)']
      OBVIOUS
    <3>3. DOMAIN plan = visited
      OBVIOUS
    <3>4. plan' = [v \in visited' |-> plan'[v]]
      BY <3>2
    <3>5. Assign(plan, Node, Node) = [v \in visited' |-> Assign(plan, Node, Node)[v]]
      BY <1>2, <3>3 DEF Assign
    <3> HIDE DEF plan
    <3> QED
      BY <3>1, <3>4, <3>5
  <2>6. Node \in DOMAIN lifetime \ DOMAIN plan
    BY <1>2, <2>1
  <2> QED
    BY <1>3, <2>5, <2>6 DEF Promise!RNext, Promise!OwnMemory, Assign, Promise!Assign
<1>7. CASE Revisit
  <2>1. lists' = lists /\ visited' = visited
    BY <1>2, <1>7 DEF Revisit
  <2>2. \A v : Holder(v)' = Holder(v)
    BY <2>1 DEF Holder, InList
  <2>3. plan' = plan
    BY <2>1, <2>2
  <2> QED
    BY <1>3, <2>3 DEF Promise!reuseVars
<1> QED
  BY <1>5, <1>6, <1>7 DEF Next

(* A stack of mentions, counted, is a plan as MemoryReuse promises it.     *)
THEOREM ListsAreAPlan == Spec => KeepsPromise
<1>1. Init => Promise!RInit
  BY DEF Init, Promise!RInit, Promise!NoEntries
<1>2. ReuseInv /\ [Next]_vars => [Promise!RNext]_(Promise!reuseVars)
  <2>1. ASSUME UNCHANGED vars PROVE UNCHANGED Promise!reuseVars
    BY <2>1 DEF vars, Promise!reuseVars, Mentioned, FirstPlace, LastPlace, Places, Holder, InList
  <2> QED
    BY <2>1, StepKeepsPromise
<1> QED
  BY <1>1, <1>2, InitReuseInv, NextReuseInv, PTL
     DEF Spec, KeepsPromise, Promise!RSpec

(* Type correctness.                                                       *)
THEOREM TypeCorrect == Spec => []TypeOK
<1>1. ReuseInv => TypeOK
  <2> SUFFICES ASSUME ReuseInv PROVE TypeOK
    OBVIOUS
  <2> USE DEF ReuseInv
  <2>1. count \in [Mentioned -> Nat]
    <3>1. \A v \in Mentioned : count[v] \in Nat
      BY RestFacts DEF CountInv, WalkInv
    <3> QED
      BY <3>1 DEF CountInv
  <2>2. visited \subseteq Mentioned
    BY DEF WalkInv, Mentioned
  <2>3. lists \in Seq(Seq(visited) \ {<<>>})
    BY DEF ListsInv
  <2> QED
    BY <2>1, <2>2, <2>3 DEF TypeOK, WalkInv
<1> QED
  BY <1>1, InitReuseInv, NextReuseInv, PTL DEF Spec
-----------------------------------------------------------------------------
(* What is needed before something else is needed by earlier operators.    *)

Reads(p, k) == ToSet(p.ops[k].in \o p.ops[k].para)
Writes(p, k) == ToSet(p.ops[k].out)

\* A sequence in three parts, and where the elements of each are.
LEMMA ThreeParts ==
  ASSUME NEW a \in Seq(Var), NEW b \in Seq(Var), NEW c \in Seq(Var), NEW s, s = (a \o b) \o c
  PROVE  /\ Len(a) \in Nat /\ Len(b) \in Nat /\ Len(c) \in Nat
         /\ DOMAIN a = 1..Len(a) /\ DOMAIN b = 1..Len(b) /\ DOMAIN c = 1..Len(c)
         /\ DOMAIN s = 1..(Len(a) + Len(b) + Len(c))
         /\ \A i \in DOMAIN a : s[i] = a[i]
         /\ \A i \in DOMAIN b : s[Len(a) + i] = b[i]
         /\ \A i \in DOMAIN c : s[Len(a) + Len(b) + i] = c[i]
<1>0. PICK ab : ab = a \o b
  OBVIOUS
<1>1. /\ Len(a) \in Nat /\ Len(b) \in Nat /\ Len(c) \in Nat
      /\ DOMAIN a = 1..Len(a) /\ DOMAIN b = 1..Len(b) /\ DOMAIN c = 1..Len(c)
  OBVIOUS
<1>2. /\ ab \in Seq(Var) /\ Len(ab) = Len(a) + Len(b)
      /\ \A i \in DOMAIN a : i \in 1..Len(ab) /\ ab[i] = a[i]
      /\ \A i \in DOMAIN b : Len(a) + i \in 1..Len(ab) /\ ab[Len(a) + i] = b[i]
  BY <1>0
<1>3. /\ s \in Seq(Var) /\ Len(s) = Len(ab) + Len(c) /\ DOMAIN s = 1..Len(s)
      /\ \A i \in 1..Len(ab) : s[i] = ab[i]
      /\ \A i \in DOMAIN c : s[Len(ab) + i] = c[i]
  <2>1. s = ab \o c
    BY <1>0
  <2>2. ab \in Seq(Var)
    BY <1>2
  <2> QED
    BY <2>1, <2>2
<1> QED
  BY <1>1, <1>2, <1>3

LEMMA FirstAndLastPart ==
  ASSUME NEW a \in Seq(Var), NEW b \in Seq(Var), NEW s, s = (a \o b) \o a
  PROVE  /\ Len(a) \in Nat /\ Len(b) \in Nat
         /\ DOMAIN a = 1..Len(a) /\ DOMAIN b = 1..Len(b)
         /\ DOMAIN s = 1..(Len(a) + Len(b) + Len(a))
         /\ \A i \in DOMAIN a : s[i] = a[i] /\ s[Len(a) + Len(b) + i] = a[i]
         /\ \A i \in DOMAIN b : s[Len(a) + i] = b[i]
BY ThreeParts

LEMMA TwoMore ==
  ASSUME NEW a \in Seq(Var), NEW b \in Seq(Var), NEW c \in Seq(Var)
  PROVE  (a \o b) \o c = a \o (b \o c)
OBVIOUS

LEMMA ToSetOfTwo ==
  ASSUME NEW a \in Seq(Var), NEW b \in Seq(Var)
  PROVE  ToSet(a \o b) = ToSet(a) \cup ToSet(b)
<1> DEFINE c == a \o b
<1>1. /\ DOMAIN a = 1..Len(a) /\ DOMAIN b = 1..Len(b) /\ Len(a) \in Nat /\ Len(b) \in Nat
      /\ DOMAIN c = 1..(Len(a) + Len(b))
      /\ \A i \in DOMAIN a : c[i] = a[i]
      /\ \A i \in DOMAIN b : c[Len(a) + i] = b[i]
      /\ \A i \in DOMAIN c : i \in DOMAIN a \/ (i - Len(a) \in DOMAIN b /\ c[i] = b[i - Len(a)])
  OBVIOUS
<1> HIDE DEF c
<1>2. ToSet(c) \subseteq ToSet(a) \cup ToSet(b)
  BY <1>1 DEF ToSet
<1>3. ToSet(a) \subseteq ToSet(c)
  BY <1>1 DEF ToSet
<1>4. ToSet(b) \subseteq ToSet(c)
  <2> SUFFICES ASSUME NEW i \in DOMAIN b PROVE b[i] \in ToSet(c)
    BY DEF ToSet
  <2>1. Len(a) + i \in DOMAIN c
    BY <1>1
  <2> QED
    BY <1>1, <2>1 DEF ToSet
<1> QED
  BY <1>2, <1>3, <1>4 DEF c

LEMMA KeptNames ==
  ASSUME NEW p, NEW names \in Seq(Var), NEW v
  PROVE  v \in ToSet(Kept(p, names)) <=> v \in ToSet(names) /\ IsKept(p, v)
<1>1. PICK of : Picks(p, names, of)
  BY KeptLaid
<1> QED
  BY <1>1 DEF Picks, ToSet

LEMMA SlotsOnMetal ==
  ASSUME NEW p \in Programs, OnMetal(p), NEW k \in DOMAIN p.ops
  PROVE  \E r, w \in Nat :
           /\ r <= w
           /\ \A v \in Reads(p, k) : \E i, j \in DOMAIN SlotsAt(p, k) :
                SlotsAt(p, k)[i] = v /\ i <= r /\ SlotsAt(p, k)[j] = v /\ j > w
           /\ \A v \in Writes(p, k) : \E i \in DOMAIN SlotsAt(p, k) :
                SlotsAt(p, k)[i] = v /\ r < i /\ i <= w
<1> DEFINE s == p.ops[k].in \o p.ops[k].para
           t == p.ops[k].out
           S == SlotsAt(p, k)
<1>1. /\ p.ops[k].in \in Seq(Var) /\ p.ops[k].para \in Seq(Var) /\ t \in Seq(Var)
  BY SlotsTyped
<1>2. s \in Seq(Var)
  BY <1>1
<1>3. S = (s \o t) \o s
  <2>1. S = ((s \o t) \o p.ops[k].in) \o p.ops[k].para
    BY DEF SlotsAt, Slots
  <2>2. s \o t \in Seq(Var)
    BY <1>1, <1>2
  <2> QED
    BY <1>1, <2>1, <2>2, TwoMore
<1> HIDE DEF s, t, S
<1>4. /\ Len(s) \in Nat /\ Len(t) \in Nat
      /\ DOMAIN s = 1..Len(s) /\ DOMAIN t = 1..Len(t)
      /\ DOMAIN S = 1..(Len(s) + Len(t) + Len(s))
      /\ \A i \in DOMAIN s : S[i] = s[i] /\ S[Len(s) + Len(t) + i] = s[i]
      /\ \A i \in DOMAIN t : S[Len(s) + i] = t[i]
  BY <1>1, <1>2, <1>3, FirstAndLastPart
<1>5. Reads(p, k) = {s[i] : i \in DOMAIN s} /\ Writes(p, k) = {t[i] : i \in DOMAIN t}
  BY DEF Reads, Writes, ToSet, s, t
<1>6. ASSUME NEW v \in Reads(p, k)
      PROVE  \E i, j \in DOMAIN S : S[i] = v /\ i <= Len(s) /\ S[j] = v /\ j > Len(s) + Len(t)
  <2>1. PICK i \in DOMAIN s : s[i] = v
    BY <1>5
  <2>2. i \in DOMAIN S /\ Len(s) + Len(t) + i \in DOMAIN S /\ i <= Len(s) /\ i > 0
    BY <1>4
  <2> QED
    BY <1>4, <2>1, <2>2
<1>7. ASSUME NEW v \in Writes(p, k)
      PROVE  \E i \in DOMAIN S : S[i] = v /\ Len(s) < i /\ i <= Len(s) + Len(t)
  <2>1. PICK i \in DOMAIN t : t[i] = v
    BY <1>5
  <2>2. Len(s) + i \in DOMAIN S
    BY <1>4
  <2> QED
    BY <1>4, <2>1, <2>2
<1>8. Len(s) \in Nat /\ Len(s) + Len(t) \in Nat /\ Len(s) <= Len(s) + Len(t)
  BY <1>4
<1> QED
  BY <1>6, <1>7, <1>8 DEF S

LEMMA SlotsOnCpu ==
  ASSUME NEW p \in Programs, ~OnMetal(p), NEW k \in DOMAIN p.ops
  PROVE  \E r, w \in Nat :
           /\ r <= w
           /\ \A v \in Reads(p, k) : \E i \in DOMAIN SlotsAt(p, k) :
                SlotsAt(p, k)[i] = v /\ r < i /\ i <= w
           /\ \A v \in Writes(p, k) : \E i, j \in DOMAIN SlotsAt(p, k) :
                SlotsAt(p, k)[i] = v /\ i <= r /\ SlotsAt(p, k)[j] = v /\ j > w
<1> DEFINE s == p.ops[k].in \o p.ops[k].para
           t == p.ops[k].out
           S == SlotsAt(p, k)
<1>1. /\ p.ops[k].in \in Seq(Var) /\ t \in Seq(Var) /\ p.ops[k].para = <<>>
  <2>1. p.ops[k] \in ToSet(p.ops)
    BY DEF ToSet
  <2> QED
    BY <2>1, SlotsTyped, ProgramsAssumption
<1>2. s \in Seq(Var) /\ t \in Seq(Var)
  BY <1>1
<1>3. S = (t \o s) \o t
  <2>1. s = p.ops[k].in
    BY <1>1
  <2> QED
    BY <2>1 DEF SlotsAt, Slots
<1> HIDE DEF s, t, S
<1>4. /\ Len(s) \in Nat /\ Len(t) \in Nat
      /\ DOMAIN s = 1..Len(s) /\ DOMAIN t = 1..Len(t)
      /\ DOMAIN S = 1..(Len(t) + Len(s) + Len(t))
      /\ \A i \in DOMAIN t : S[i] = t[i] /\ S[Len(t) + Len(s) + i] = t[i]
      /\ \A i \in DOMAIN s : S[Len(t) + i] = s[i]
  BY <1>2, <1>3, FirstAndLastPart
<1>5. Reads(p, k) = {s[i] : i \in DOMAIN s} /\ Writes(p, k) = {t[i] : i \in DOMAIN t}
  BY DEF Reads, Writes, ToSet, s, t
<1>6. ASSUME NEW v \in Writes(p, k)
      PROVE  \E i, j \in DOMAIN S : S[i] = v /\ i <= Len(t) /\ S[j] = v /\ j > Len(t) + Len(s)
  <2>1. PICK i \in DOMAIN t : t[i] = v
    BY <1>5
  <2>2. i \in DOMAIN S /\ Len(t) + Len(s) + i \in DOMAIN S /\ i <= Len(t) /\ i > 0
    BY <1>4
  <2> QED
    BY <1>4, <2>1, <2>2
<1>7. ASSUME NEW v \in Reads(p, k)
      PROVE  \E i \in DOMAIN S : S[i] = v /\ Len(t) < i /\ i <= Len(t) + Len(s)
  <2>1. PICK i \in DOMAIN s : s[i] = v
    BY <1>5
  <2>2. Len(t) + i \in DOMAIN S
    BY <1>4
  <2> QED
    BY <1>4, <2>1, <2>2
<1>8. Len(t) \in Nat /\ Len(t) + Len(s) \in Nat /\ Len(t) <= Len(t) + Len(s)
  BY <1>4
<1> QED
  BY <1>6, <1>7, <1>8 DEF S

\* All mentions of u come before all of v.
AllBefore(p, u, v) ==
  \A l, m \in DOMAIN Mentions(p) : Mentions(p)[l] = u /\ Mentions(p)[m] = v => l < m

LEMMA SlotsBefore ==
  ASSUME NEW p \in Programs, NEW u, NEW v, IsKept(p, u), IsKept(p, v), AllBefore(p, u, v),
         NEW j \in DOMAIN p.ops, NEW i \in DOMAIN SlotsAt(p, j), SlotsAt(p, j)[i] = u,
         NEW k \in DOMAIN p.ops, NEW l \in DOMAIN SlotsAt(p, k), SlotsAt(p, k)[l] = v
  PROVE  j < k \/ (j = k /\ i < l)
<1>1. PICK at, slot : Mentioning(p, at, slot)
  BY MentionsLaid
<1>2. PICK m \in DOMAIN Mentions(p) : at[m] = j /\ slot[m] = i
  BY <1>1 DEF Mentioning
<1>3. PICK n \in DOMAIN Mentions(p) : at[n] = k /\ slot[n] = l
  BY <1>1 DEF Mentioning
<1>4. Mentions(p)[m] = u /\ Mentions(p)[n] = v
  BY <1>1, <1>2, <1>3 DEF Mentioning
<1>5. m < n
  BY <1>4 DEF AllBefore
<1>6. at[m] < at[n] \/ (at[m] = at[n] /\ slot[m] < slot[n])
  BY <1>1, <1>5, Zenon DEF Mentioning
<1> QED
  BY <1>2, <1>3, <1>6

LEMMA UsedBeforeOnMetal ==
  ASSUME NEW p \in Programs, OnMetal(p), OutputsRead(p),
         NEW u, NEW v, u # v, IsKept(p, u), IsKept(p, v), AllBefore(p, u, v),
         NEW j \in DOMAIN p.ops, u \in Reads(p, j) \cup Writes(p, j),
         NEW k \in DOMAIN p.ops, v \in Reads(p, k) \cup Writes(p, k)
  PROVE  j < k
<1>0. DOMAIN p.ops \subseteq Nat
  BY ProgramsAssumption
<1>1. PICK r \in Nat, w \in Nat :
        /\ r <= w
        /\ \A x \in Reads(p, k) : \E i, l \in DOMAIN SlotsAt(p, k) :
             SlotsAt(p, k)[i] = x /\ i <= r /\ SlotsAt(p, k)[l] = x /\ l > w
        /\ \A x \in Writes(p, k) : \E i \in DOMAIN SlotsAt(p, k) :
             SlotsAt(p, k)[i] = x /\ r < i /\ i <= w
  BY SlotsOnMetal
<1>2. \A l \in DOMAIN p.ops : \A i \in DOMAIN SlotsAt(p, l), m \in DOMAIN SlotsAt(p, k) :
        SlotsAt(p, l)[i] = u /\ SlotsAt(p, k)[m] = v => l < k \/ (l = k /\ i < m)
  BY SlotsBefore
<1>3. DOMAIN SlotsAt(p, k) \subseteq Nat
  BY SlotsTyped
<1>4. u \notin Reads(p, k)
  BY <1>0, <1>1, <1>2, <1>3
<1>5. ASSUME u \in Writes(p, k) PROVE FALSE
  <2>1. v \notin Reads(p, k)
    BY <1>0, <1>1, <1>2, <1>3, <1>5
  <2>2. PICK l \in DOMAIN p.ops : l >= k /\ u \in Reads(p, l)
    BY <1>5, <2>1 DEF OutputsRead, Reads, Writes
  <2>3. l # k
    BY <1>4, <2>2
  <2>4. PICK i \in DOMAIN SlotsAt(p, l) : SlotsAt(p, l)[i] = u
    BY <2>2, SlotsOnMetal
  <2>5. PICK m \in DOMAIN SlotsAt(p, k) : SlotsAt(p, k)[m] = v
    BY <1>1
  <2> QED
    BY <1>0, <1>2, <2>2, <2>3, <2>4, <2>5
<1>6. j # k
  BY <1>4, <1>5
<1>7. PICK i \in DOMAIN SlotsAt(p, j) : SlotsAt(p, j)[i] = u
  BY SlotsOnMetal
<1>8. PICK m \in DOMAIN SlotsAt(p, k) : SlotsAt(p, k)[m] = v
  BY <1>1
<1> QED
  BY <1>2, <1>6, <1>7, <1>8

LEMMA UsedBeforeOnCpu ==
  ASSUME NEW p \in Programs, ~OnMetal(p), ReadsWritten(p),
         NEW u, NEW v, u # v, IsKept(p, u), IsKept(p, v), AllBefore(p, u, v),
         NEW j \in DOMAIN p.ops, u \in Reads(p, j) \cup Writes(p, j),
         NEW k \in DOMAIN p.ops, v \in Reads(p, k) \cup Writes(p, k)
  PROVE  j < k
<1>0. DOMAIN p.ops = 1..Len(p.ops) /\ Len(p.ops) \in Nat
  BY ProgramsAssumption
<1>1. PICK r \in Nat, w \in Nat :
        /\ r <= w
        /\ \A x \in Reads(p, k) : \E i \in DOMAIN SlotsAt(p, k) :
             SlotsAt(p, k)[i] = x /\ r < i /\ i <= w
        /\ \A x \in Writes(p, k) : \E i, l \in DOMAIN SlotsAt(p, k) :
             SlotsAt(p, k)[i] = x /\ i <= r /\ SlotsAt(p, k)[l] = x /\ l > w
  BY SlotsOnCpu
<1>2. \A l, n \in DOMAIN p.ops : \A i \in DOMAIN SlotsAt(p, l), m \in DOMAIN SlotsAt(p, n) :
        SlotsAt(p, l)[i] = u /\ SlotsAt(p, n)[m] = v => l < n \/ (l = n /\ i < m)
  BY SlotsBefore
<1>3. DOMAIN SlotsAt(p, k) \subseteq Nat
  BY SlotsTyped
<1>4. u \notin Writes(p, k)
  BY <1>0, <1>1, <1>2, <1>3
<1>5. ASSUME u \in Reads(p, k) PROVE FALSE
  <2>1. v \notin Writes(p, k)
    BY <1>0, <1>1, <1>2, <1>3, <1>5
  <2>2. Reads(p, k) = ToSet(p.ops[k].in)
    <3>1. p.ops[k] \in ToSet(p.ops)
      BY DEF ToSet
    <3>2. p.ops[k].in \in Seq(Var) /\ p.ops[k].para = <<>>
      BY <3>1, ProgramsAssumption
    <3>3. p.ops[k].in \o p.ops[k].para = p.ops[k].in
      BY <3>2
    <3> QED
      BY <3>3 DEF Reads
  <2>3. PICK l \in 1..(k - 1) : v \in Writes(p, l)
    BY <1>5, <2>1, <2>2 DEF ReadsWritten, Writes
  <2>4. l \in DOMAIN p.ops /\ l < k
    BY <1>0
  <2>5. PICK m \in DOMAIN SlotsAt(p, l) : SlotsAt(p, l)[m] = v
    BY <2>3, <2>4, SlotsOnCpu
  <2>6. PICK i \in DOMAIN SlotsAt(p, k) : SlotsAt(p, k)[i] = u
    BY <1>1, <1>5
  <2> QED
    BY <1>0, <1>2, <2>4, <2>5, <2>6
<1>6. j # k
  BY <1>4, <1>5
<1>7. PICK i \in DOMAIN SlotsAt(p, j) : SlotsAt(p, j)[i] = u
  BY SlotsOnCpu
<1>8. PICK m \in DOMAIN SlotsAt(p, k) : SlotsAt(p, k)[m] = v
  BY <1>1
<1> QED
  BY <1>2, <1>6, <1>7, <1>8
-----------------------------------------------------------------------------
(* The members of a list are needed one after the other.                   *)

OrderedInv ==
  /\ nodes = Walk(program)
  /\ \A i \in DOMAIN lists : \A k, l \in DOMAIN lists[i] :
       k < l => LastPlace(lists[i][k]) < FirstPlace(lists[i][l])
  /\ \A i \in DOMAIN lists : \A k, l \in DOMAIN lists[i] :
       k < l => lists[i][k] \notin Fetched(program)

LEMMA InitOrdered == Init => OrderedInv
BY DEF Init, OrderedInv

\* A list that can be taken over holds nothing that is fetched.
LEMMA FreeListNotFetched ==
  ASSUME ReuseInv, OrderedInv, NEW i \in DOMAIN lists, Free(i), NEW k \in DOMAIN lists[i]
  PROVE  lists[i][k] \notin Fetched(program)
<1>1. lists[i] \in Seq(visited) /\ lists[i] # <<>>
  BY DEF ReuseInv, ListsInv
<1>2. lists[i][Len(lists[i])] \notin Fetched(program)
  BY DEF Free, Last
<1>3. k = Len(lists[i]) \/ (k < Len(lists[i]) /\ Len(lists[i]) \in DOMAIN lists[i])
  BY <1>1
<1> QED
  BY <1>2, <1>3 DEF OrderedInv

LEMMA NextOrdered == ReuseInv /\ OrderedInv /\ [Next]_vars => OrderedInv'
<1> SUFFICES ASSUME ReuseInv, OrderedInv, [Next]_vars PROVE OrderedInv'
  OBVIOUS
<1>1. nodes' = nodes /\ program' = program
  BY DEF Next, JoinList, OpenList, Revisit, Pop, vars
<1>2. \A v : FirstPlace(v)' = FirstPlace(v) /\ LastPlace(v)' = LastPlace(v)
  BY <1>1 DEF FirstPlace, LastPlace, Places
<1>3. Walk(program)' = Walk(program) /\ Fetched(program)' = Fetched(program)
  BY <1>1
<1>4. CASE UNCHANGED lists
  BY <1>1, <1>2, <1>3, <1>4 DEF OrderedInv
<1>5. CASE JoinList
  <2>1. PICK i \in DOMAIN lists : Free(i) /\ lists' = [lists EXCEPT ![i] = Append(@, Node)]
    BY <1>5 DEF JoinList
  <2>2. Node \notin visited /\ More
    BY <1>5 DEF JoinList
  <2>3. /\ DOMAIN lists' = DOMAIN lists
        /\ \A j \in DOMAIN lists : j # i => lists'[j] = lists[j]
        /\ Len(lists'[i]) = Len(lists[i]) + 1
        /\ \A k \in DOMAIN lists[i] : lists'[i][k] = lists[i][k]
        /\ lists'[i][Len(lists[i]) + 1] = Node
    BY <2>1, <2>2, JoinFacts
  <2>4. \A k \in DOMAIN lists[i] : LastPlace(lists[i][k]) < FirstPlace(Node)
    BY <2>1, <2>2, FreeListIsDone, NeededBefore
  <2>5. \A k \in DOMAIN lists[i] : lists[i][k] \notin Fetched(program)
    BY <2>1, FreeListNotFetched
  <2>6. DOMAIN lists[i] = 1..Len(lists[i]) /\ Len(lists[i]) \in Nat
    BY DEF ReuseInv, ListsInv
  <2>7. DOMAIN lists'[i] = 1..(Len(lists[i]) + 1)
    BY <2>1, <2>6
  <2>8. ASSUME NEW j \in DOMAIN lists', NEW k \in DOMAIN lists'[j], NEW l \in DOMAIN lists'[j], k < l
        PROVE  /\ LastPlace(lists'[j][k]) < FirstPlace(lists'[j][l])
               /\ lists'[j][k] \notin Fetched(program)
    <3>1. CASE j # i
      BY <2>3, <2>8, <3>1 DEF OrderedInv
    <3>2. CASE j = i /\ l # Len(lists[i]) + 1
      <4>1. k \in DOMAIN lists[i] /\ l \in DOMAIN lists[i]
        BY <2>6, <2>7, <2>8, <3>2
      <4>2. lists'[j][k] = lists[i][k] /\ lists'[j][l] = lists[i][l]
        BY <2>3, <3>2, <4>1
      <4> QED
        BY <2>8, <4>1, <4>2 DEF OrderedInv
    <3>3. CASE j = i /\ l = Len(lists[i]) + 1
      <4>1. k \in DOMAIN lists[i]
        BY <2>6, <2>7, <2>8, <3>3
      <4>2. lists'[j][k] = lists[i][k] /\ lists'[j][l] = Node
        BY <2>3, <3>3, <4>1
      <4> QED
        BY <2>4, <2>5, <4>1, <4>2
    <3> QED
      BY <3>1, <3>2, <3>3
  <2> QED
    BY <1>1, <1>2, <1>3, <2>8 DEF OrderedInv
<1>6. CASE OpenList
  <2>1. Node \notin visited /\ lists' = Append(lists, <<Node>>)
    BY <1>6 DEF OpenList
  <2>2. /\ DOMAIN lists' = DOMAIN lists \cup {Len(lists) + 1}
        /\ \A j \in DOMAIN lists : lists'[j] = lists[j]
        /\ lists'[Len(lists) + 1] = <<Node>>
    BY <2>1, OpenFacts
  <2>3. ASSUME NEW j \in DOMAIN lists', NEW k \in DOMAIN lists'[j], NEW l \in DOMAIN lists'[j], k < l
        PROVE  /\ LastPlace(lists'[j][k]) < FirstPlace(lists'[j][l])
               /\ lists'[j][k] \notin Fetched(program)
    <3>1. CASE j = Len(lists) + 1
      <4>1. DOMAIN lists'[j] = {1}
        BY <2>2, <3>1
      <4> QED
        BY <2>3, <4>1
    <3>2. CASE j \in DOMAIN lists
      BY <2>2, <2>3, <3>2 DEF OrderedInv
    <3> QED
      BY <2>2, <3>1, <3>2
  <2> QED
    BY <1>1, <1>2, <1>3, <2>3 DEF OrderedInv
<1> QED
  BY <1>4, <1>5, <1>6 DEF Next, Revisit, vars

-----------------------------------------------------------------------------
(* From places of the walk to operators.                                   *)

\* A variable that is visited is kept and has users.
LEMMA VisitedFacts ==
  ASSUME ReuseInv, OrderedInv, NEW v \in visited
  PROVE  /\ v \in Mentioned /\ IsKept(program, v)
         /\ Users(v) # {} /\ Users(v) \subseteq 1..Len(program.ops)
         /\ \A k \in DOMAIN program.ops :
              k \in Users(v) <=> v \in Reads(program, k) \cup Writes(program, k)
<1> DEFINE p == program
           M == Mentions(p)
<1>1. p \in Programs /\ nodes = Walk(p) /\ v \in Mentioned
  BY DEF ReuseInv, OrderedInv, WalkInv, Mentioned
<1>2. M \in Seq(Var)
  BY <1>1, MentionsLaid
<1>3. PICK at, slot : Mentioning(p, at, slot)
  BY <1>1, MentionsLaid
<1>4. PICK m \in DOMAIN M : M[m] = v
  <2>1. PICK n \in DOMAIN nodes : nodes[n] = v
    BY <1>1 DEF Mentioned
  <2>2. CASE OnMetal(p)
    BY <1>1, <2>1, <2>2 DEF Walk
  <2>3. CASE ~OnMetal(p)
    <3>1. nodes = Reverse(M)
      BY <1>1, <2>3 DEF Walk
    <3> HIDE DEF M
    <3> QED
      BY <1>2, <2>1, <3>1 DEF Reverse
  <2> QED
    BY <2>2, <2>3
<1>5. /\ at[m] \in DOMAIN p.ops /\ slot[m] \in DOMAIN SlotsAt(p, at[m])
      /\ SlotsAt(p, at[m])[slot[m]] = v /\ IsKept(p, v)
  BY <1>3, <1>4 DEF Mentioning
<1>6. \A k \in DOMAIN p.ops : k \in Users(v) <=> v \in Reads(p, k) \cup Writes(p, k)
  <2> SUFFICES ASSUME NEW k \in DOMAIN p.ops
               PROVE  k \in Users(v) <=> v \in Reads(p, k) \cup Writes(p, k)
    OBVIOUS
  <2> DEFINE a == p.ops[k].in \o p.ops[k].para
             b == p.ops[k].out
  <2>1. a \in Seq(Var) /\ b \in Seq(Var)
    BY <1>1, SlotsTyped
  <2>2. k \in Users(v) <=> v \in ToSet(a \o b)
    BY DEF Users
  <2>3. v \in Reads(p, k) \cup Writes(p, k) <=> v \in ToSet(a) \cup ToSet(b)
    BY DEF Reads, Writes
  <2> HIDE DEF a, b
  <2>4. ToSet(a \o b) = ToSet(a) \cup ToSet(b)
    BY <2>1, ToSetOfTwo
  <2> QED
    BY <2>2, <2>3, <2>4
<1>7. v \in Reads(p, at[m]) \cup Writes(p, at[m])
  <2> DEFINE k == at[m]
             a == p.ops[k].in \o p.ops[k].para
             b == p.ops[k].out
  <2>1. a \in Seq(Var) /\ b \in Seq(Var) /\ p.ops[k].in \in Seq(Var) /\ p.ops[k].para \in Seq(Var)
    BY <1>1, <1>5, SlotsTyped
  <2>2. v \in ToSet(SlotsAt(p, k))
    BY <1>5 DEF ToSet
  <2>3. ToSet(SlotsAt(p, k)) \subseteq ToSet(a) \cup ToSet(b)
    <3> DEFINE i == p.ops[k].in
               r == p.ops[k].para
    <3>1. ToSet(a) = ToSet(i) \cup ToSet(r)
      BY <2>1, ToSetOfTwo
    <3>2. SlotsAt(p, k) = IF OnMetal(p) THEN (a \o b) \o i \o r ELSE b \o i \o b
      BY DEF SlotsAt, Slots
    <3>3. i \in Seq(Var) /\ r \in Seq(Var) /\ a \in Seq(Var) /\ b \in Seq(Var)
      BY <2>1
    <3> HIDE DEF a, b, i, r
    <3>4. /\ a \o b \in Seq(Var) /\ (a \o b) \o i \in Seq(Var) /\ b \o i \in Seq(Var)
      BY <3>3
    <3>5. ToSet((a \o b) \o i \o r) = ToSet((a \o b) \o i) \cup ToSet(r)
      BY <3>3, <3>4, ToSetOfTwo
    <3>6. ToSet((a \o b) \o i) = ToSet(a \o b) \cup ToSet(i) /\ ToSet(a \o b) = ToSet(a) \cup ToSet(b)
      BY <3>3, <3>4, ToSetOfTwo
    <3>7. ToSet(b \o i \o b) = ToSet(b \o i) \cup ToSet(b) /\ ToSet(b \o i) = ToSet(b) \cup ToSet(i)
      BY <3>3, <3>4, ToSetOfTwo
    <3> QED
      BY <3>1, <3>2, <3>5, <3>6, <3>7
  <2> QED
    BY <2>2, <2>3 DEF Reads, Writes
<1>8. Users(v) # {}
  BY <1>5, <1>6, <1>7
<1>9. Users(v) \subseteq 1..Len(p.ops)
  BY <1>1, ProgramsAssumption DEF Users
<1> QED
  BY <1>1, <1>5, <1>6, <1>8, <1>9

LEMMA UsersInOrder ==
  ASSUME ReuseInv, OrderedInv, NEW u \in visited, NEW v \in visited,
         \A j \in Users(u), k \in Users(v) : j < k
  PROVE  Before(u, v)
<1>1. Len(program.ops) \in Nat
  BY ProgramsAssumption DEF ReuseInv, WalkInv
<1>2. /\ Users(u) \subseteq 1..Len(program.ops) /\ Users(u) # {}
      /\ Users(v) \subseteq Nat /\ Users(v) # {}
  BY <1>1, VisitedFacts
<1>3. \E k \in Users(u) : \A l \in Users(u) : k >= l
  BY <1>1, <1>2, LastOf
<1>4. \E k \in Users(v) : \A l \in Users(v) : k <= l
  BY <1>2, FirstOf
<1>5. Max(Users(u)) \in Users(u)
  BY <1>3 DEF Max
<1>6. Min(Users(v)) \in Users(v)
  BY <1>4 DEF Min
<1> QED
  BY <1>5, <1>6 DEF Before

\* A walk from the front has what is done first in front, one from the back behind.
LEMMA PlacesAreMentions ==
  ASSUME ReuseInv, OrderedInv, NEW u \in visited, NEW v \in visited,
         LastPlace(u) < FirstPlace(v)
  PROVE  IF OnMetal(program) THEN AllBefore(program, u, v) ELSE AllBefore(program, v, u)
<1> DEFINE M == Mentions(program)
<1>1. /\ program \in Programs /\ nodes = Walk(program) /\ nodes \in Seq(Var)
      /\ u \in Mentioned /\ v \in Mentioned
  BY VisitedFacts DEF ReuseInv, OrderedInv, WalkInv
<1>2. M \in Seq(Var)
  BY <1>1, MentionsLaid
<1>3. ASSUME NEW l \in DOMAIN nodes, NEW m \in DOMAIN nodes, nodes[l] = u, nodes[m] = v
      PROVE  l < m
  <2>1. l <= LastPlace(u) /\ LastPlace(u) \in Nat
    <3>1. Places(u) \subseteq 1..Len(nodes) /\ Len(nodes) \in Nat /\ l \in Places(u)
      BY <1>1, <1>3 DEF Places
    <3>2. \E k \in Places(u) : \A n \in Places(u) : k >= n
      BY <3>1, LastOf
    <3>3. LastPlace(u) \in Places(u) /\ LastPlace(u) >= l
      BY <3>1, <3>2 DEF LastPlace
    <3> QED
      BY <3>1, <3>3
  <2>2. FirstPlace(v) <= m /\ FirstPlace(v) \in Nat
    <3>1. Places(v) \subseteq Nat /\ m \in Places(v)
      BY <1>1, <1>3 DEF Places
    <3>2. \E k \in Places(v) : \A n \in Places(v) : k <= n
      BY <3>1, FirstOf
    <3>3. FirstPlace(v) \in Places(v) /\ FirstPlace(v) <= m
      BY <3>1, <3>2 DEF FirstPlace
    <3> QED
      BY <3>1, <3>3
  <2> QED
    BY <1>1, <2>1, <2>2
<1>4. CASE OnMetal(program)
  BY <1>1, <1>3, <1>4 DEF Walk, AllBefore
<1>5. CASE ~OnMetal(program)
  <2>1. nodes = Reverse(M)
    BY <1>1, <1>5 DEF Walk
  <2>2. ASSUME NEW l \in DOMAIN M, NEW m \in DOMAIN M, M[l] = v, M[m] = u
        PROVE  l < m
    <3> DEFINE i == Len(M) - l + 1
               j == Len(M) - m + 1
    <3>1. Len(M) \in Nat /\ l \in 1..Len(M) /\ m \in 1..Len(M)
      BY <1>2
    <3>2. i \in DOMAIN nodes /\ j \in DOMAIN nodes /\ nodes[i] = M[l] /\ nodes[j] = M[m]
      BY <2>1, <3>1 DEF Reverse
    <3>3. j < i
      BY <1>3, <2>2, <3>2
    <3> QED
      BY <3>1, <3>3
  <2> QED
    BY <1>5, <2>2 DEF AllBefore
<1> QED
  BY <1>4, <1>5

LEMMA MembersInOrder ==
  ASSUME ReuseInv, OrderedInv, Plannable(program), NEW u \in visited, NEW v \in visited, u # v,
         LastPlace(u) < FirstPlace(v)
  PROVE  IF OnMetal(program) THEN Before(u, v) ELSE Before(v, u)
<1>1. program \in Programs /\ DOMAIN program.ops = 1..Len(program.ops)
  BY ProgramsAssumption DEF ReuseInv, WalkInv
<1>2. /\ IsKept(program, u) /\ IsKept(program, v)
      /\ \A j \in Users(u) : j \in DOMAIN program.ops /\ u \in Reads(program, j) \cup Writes(program, j)
      /\ \A k \in Users(v) : k \in DOMAIN program.ops /\ v \in Reads(program, k) \cup Writes(program, k)
  BY <1>1, VisitedFacts
<1>3. CASE OnMetal(program)
  <2>1. AllBefore(program, u, v) /\ OutputsRead(program)
    BY <1>3, PlacesAreMentions DEF Plannable
  <2>2. \A j \in Users(u), k \in Users(v) : j < k
    BY <1>1, <1>2, <1>3, <2>1, UsedBeforeOnMetal
  <2> QED
    BY <1>3, <2>2, UsersInOrder
<1>4. CASE ~OnMetal(program)
  <2>1. AllBefore(program, v, u) /\ ReadsWritten(program)
    BY <1>4, PlacesAreMentions DEF Plannable
  <2>2. \A j \in Users(v), k \in Users(u) : j < k
    BY <1>1, <1>2, <1>4, <2>1, UsedBeforeOnCpu
  <2> QED
    BY <1>4, <2>2, UsersInOrder
<1> QED
  BY <1>3, <1>4

\* Two that share have places in one list, one before the other.
LEMMA SharersApart ==
  ASSUME ReuseInv, OrderedInv, NEW u, NEW v, Share(u, v)
  PROVE  /\ u # v
         /\ \/ LastPlace(u) < FirstPlace(v) /\ u \notin Fetched(program)
            \/ LastPlace(v) < FirstPlace(u) /\ v \notin Fetched(program)
<1>1. PICK i \in DOMAIN lists : InList(u, i) /\ InList(v, i)
  BY DEF Share
<1>2. PICK k \in DOMAIN lists[i], l \in DOMAIN lists[i] : lists[i][k] = u /\ lists[i][l] = v
  BY <1>1 DEF InList
<1>3. DOMAIN lists[i] \subseteq Nat /\ u # v
  <2>1. lists[i] \in Seq(visited)
    BY DEF ReuseInv, ListsInv
  <2> QED
    BY <2>1 DEF Share
<1>4. \A m, n \in DOMAIN lists[i] : m < n =>
        LastPlace(lists[i][m]) < FirstPlace(lists[i][n]) /\ lists[i][m] \notin Fetched(program)
  BY DEF OrderedInv
<1>5. k < l \/ l < k
  BY <1>2, <1>3
<1> QED
  BY <1>2, <1>3, <1>4, <1>5, Zenon

(* No two variables one operator needs are in one memory, nor is a memory  *)
(* used for another variable between the first and the last operator that  *)
(* needs what is in it, whatever the program.                              *)
THEOREM KeptApart ==
  ASSUME \A p \in Programs : Plannable(p)
  PROVE  Spec => []OperatorsKeptApart
<1>1. ReuseInv /\ OrderedInv => OperatorsKeptApart
  <2> SUFFICES ASSUME ReuseInv, OrderedInv, NEW u \in visited, NEW v \in visited, Share(u, v)
               PROVE  Before(u, v) \/ Before(v, u)
    BY DEF OperatorsKeptApart
  <2>1. Plannable(program)
    BY DEF ReuseInv, WalkInv
  <2> QED
    BY <2>1, SharersApart, MembersInOrder
<1> QED
  BY <1>1, InitReuseInv, NextReuseInv, InitOrdered, NextOrdered, PTL DEF Spec

\* On a CPU what is fetched is met first, and has its memory to itself.
LEMMA FetchedAlone ==
  ASSUME ReuseInv, OrderedInv, ~OnMetal(program), FetchesLast(program),
         NEW u \in visited, NEW v \in visited \cap Fetched(program), LastPlace(u) < FirstPlace(v)
  PROVE  u \in Fetched(program)
<1> DEFINE p == program
<1>1. p \in Programs /\ DOMAIN p.ops = 1..Len(p.ops) /\ Len(p.ops) \in Nat
  BY ProgramsAssumption DEF ReuseInv, WalkInv
<1>2. AllBefore(p, v, u) /\ IsKept(p, u) /\ IsKept(p, v)
  BY PlacesAreMentions, VisitedFacts
<1>3. PICK k \in DOMAIN p.ops : p.ops[k].type = "fetch" /\ v \in Reads(p, k)
  <2>1. PICK op \in ToSet(p.ops) : op.type = "fetch" /\ v \in ToSet(Kept(p, op.in))
    BY DEF Fetched
  <2>2. PICK k \in DOMAIN p.ops : p.ops[k] = op
    BY DEF ToSet
  <2>3. v \in ToSet(p.ops[k].in)
    BY <1>1, <2>1, <2>2, SlotsTyped, KeptNames
  <2>4. ToSet(p.ops[k].in) \subseteq Reads(p, k)
    BY <1>1, SlotsTyped, ToSetOfTwo DEF Reads
  <2> QED
    BY <2>1, <2>2, <2>3, <2>4
<1>4. PICK i \in DOMAIN SlotsAt(p, k) : SlotsAt(p, k)[i] = v
  BY <1>1, <1>3, SlotsOnCpu
<1>5. PICK l \in Users(u) : TRUE
  BY VisitedFacts
<1>6. l \in DOMAIN p.ops /\ u \in Reads(p, l) \cup Writes(p, l)
  BY <1>1, <1>5, VisitedFacts
<1>7. PICK j \in DOMAIN SlotsAt(p, l) : SlotsAt(p, l)[j] = u
  BY <1>1, <1>6, SlotsOnCpu
<1>8. l >= k
  BY <1>1, <1>2, <1>3, <1>4, <1>6, <1>7, SlotsBefore
<1>9. p.ops[l].type = "fetch" /\ u \notin Writes(p, l)
  BY <1>2, <1>3, <1>6, <1>8 DEF FetchesLast, Writes
<1>10. p.ops[l] \in ToSet(p.ops) /\ p.ops[l].in \in Seq(Var) /\ p.ops[l].para = <<>>
  <2>1. p.ops[l] \in ToSet(p.ops)
    BY <1>6 DEF ToSet
  <2> QED
    BY <1>1, <2>1, ProgramsAssumption
<1>11. u \in ToSet(p.ops[l].in)
  <2>1. p.ops[l].in \o p.ops[l].para = p.ops[l].in
    BY <1>10
  <2> QED
    BY <1>6, <1>9, <2>1 DEF Reads
<1>12. u \in ToSet(Kept(p, p.ops[l].in))
  BY <1>2, <1>10, <1>11, KeptNames
<1> QED
  BY <1>9, <1>10, <1>12 DEF Fetched

(* Whatever used the memory of what is fetched is through when that is     *)
(* written: on a CPU nobody did, on Metal it is the last of its list.      *)
THEOREM FetchedSurvives ==
  ASSUME \A p \in Programs : Plannable(p)
  PROVE  Spec => []OutputsSurvive
<1>1. ReuseInv /\ OrderedInv => OutputsSurvive
  <2> SUFFICES ASSUME ReuseInv, OrderedInv, NEW v \in visited \cap Fetched(program),
                      NEW u \in visited, Share(u, v)
               PROVE  Before(u, v)
    BY DEF OutputsSurvive
  <2>1. Plannable(program)
    BY DEF ReuseInv, WalkInv
  <2>2. u # v /\ LastPlace(u) < FirstPlace(v) /\ u \notin Fetched(program)
    BY SharersApart
  <2>3. OnMetal(program)
    BY <2>1, <2>2, FetchedAlone DEF Plannable
  <2> QED
    BY <2>1, <2>2, <2>3, MembersInOrder
<1> QED
  BY <1>1, InitReuseInv, NextReuseInv, InitOrdered, NextOrdered, PTL DEF Spec

-----------------------------------------------------------------------------
(* A Runner of the Metal runtime.                                          *)
-----------------------------------------------------------------------------
(* The inductive invariant.                                                *)

TypeInv ==
  /\ executor \in Loads \cup {nil} /\ runnerProgram \in Loads \cup {nil}
  /\ isValid \in [Loads -> BOOLEAN] /\ output \in [Loads -> BOOLEAN]
  /\ inflightSemaphore \in [Loads -> Int]
  /\ input \in [Loads -> Predictions \cup {nil}]
  /\ resultBuffer \in [Loads -> Predictions \cup {nil}]
  /\ gpu \in Seq(Predictions)
  /\ stage \in [Calls -> Stages] /\ held \in [Calls -> Loads \cup {nil}]
  /\ encoded \in [Predictions -> Predictions \cup {nil}]
  /\ answers \in [Predictions -> Seq(Predictions \cup {nil})]

\* Between wait and signal.
InFlight(p) ==
  stage[p] \in {"check", "input", "feed", "encode", "queued", "executed", "reading", "signal"}

\* A call that waits holds an executor; one in flight holds it alone.
FlightInv ==
  /\ \A p \in Predictions : stage[p] = "wait" \/ InFlight(p) => held[p] \in Loads
  /\ \A p \in Predictions : InFlight(p) => inflightSemaphore[held[p]] = 0
  /\ \A p, q \in Predictions : InFlight(p) /\ InFlight(q) /\ held[p] = held[q] => p = q
  /\ \A e \in Loads : inflightSemaphore[e] \in {0, 1}

\* What is committed is queued, once.
QueueInv ==
  /\ \A k \in DOMAIN gpu : stage[gpu[k]] = "queued"
  /\ \A j, k \in DOMAIN gpu : gpu[j] = gpu[k] => j = k

\* The input of the call is what the scope, the command buffer and the result hold.
InputInv ==
  \A p \in Predictions :
    /\ stage[p] = "feed" => input[held[p]] \in {p, nil}
    /\ stage[p] \in {"encode", "queued"} => encoded[p] = p
    /\ stage[p] \in {"executed", "reading"} => resultBuffer[held[p]] = p

AnswerInv ==
  \A p \in Predictions :
    /\ answers[p] \in {<<>>, <<p>>, <<nil>>}
    /\ answers[p] # <<>> => stage[p] \in {"signal", "answered", "lost"}

RunnerInv == TypeInv /\ FlightInv /\ QueueInv /\ InputInv /\ AnswerInv

\* The head of the queue is a prediction; the rest moves up.
LEMMA QueueFacts ==
  ASSUME gpu \in Seq(Predictions), gpu # <<>>
  PROVE  /\ Head(gpu) = gpu[1] /\ 1 \in DOMAIN gpu /\ Head(gpu) \in Predictions
         /\ Tail(gpu) \in Seq(Predictions)
         /\ \A k \in DOMAIN Tail(gpu) : k + 1 \in DOMAIN gpu /\ Tail(gpu)[k] = gpu[k + 1]
         /\ DOMAIN Tail(gpu) \subseteq Nat /\ \A k \in DOMAIN Tail(gpu) : k + 1 # 1
OBVIOUS

LEMMA FirstAnswer == \A a : Append(<<>>, a) = <<a>>
OBVIOUS

LEMMA InitRunnerInv == RunnerInit => RunnerInv
<1> SUFFICES ASSUME RunnerInit PROVE RunnerInv
  OBVIOUS
<1> USE DEF RunnerInit, Calls, Stages
<1>1. TypeInv
  BY DEF TypeInv
<1>2. FlightInv /\ QueueInv
  BY DEF FlightInv, QueueInv, InFlight
<1>3. InputInv /\ AnswerInv
  BY DEF InputInv, AnswerInv
<1> QED
  BY <1>1, <1>2, <1>3 DEF RunnerInv

\* What a step of load or clear leaves alone.
LoadOrClear ==
  \/ \E l \in Loads : StartLoad(l) \/ Load(l)
  \/ \E c \in Clears : StartClear(c)
  \/ \E c \in Loads \cup Clears : Clear(c)

PredictionsKept ==
  /\ \A p \in Predictions : stage'[p] = stage[p] /\ held'[p] = held[p]
  /\ \A e \in Loads : input'[e] \in {input[e], nil}
  /\ UNCHANGED <<inflightSemaphore, resultBuffer, gpu, encoded, answers>>

LEMMA LoadOrClearKeeps == TypeInv /\ LoadOrClear => TypeInv' /\ PredictionsKept
<1> SUFFICES ASSUME TypeInv, LoadOrClear PROVE TypeInv' /\ PredictionsKept
  OBVIOUS
<1> USE CallsAssumption
    DEF TypeInv, PredictionsKept, Calls, Stages, Go, Trap, runnerVars, executorVars, callVars
<1>1. ASSUME NEW l \in Loads, StartLoad(l) PROVE TypeInv' /\ PredictionsKept
  BY <1>1 DEF StartLoad, MayStart
<1>2. ASSUME NEW l \in Loads, LoadProgram(l) PROVE TypeInv' /\ PredictionsKept
  BY <1>2 DEF LoadProgram
<1>3. ASSUME NEW l \in Loads, MakeExecutor(l) PROVE TypeInv' /\ PredictionsKept
  <2>1. CASE runnerProgram = nil
    BY <1>3, <2>1 DEF MakeExecutor
  <2>2. CASE runnerProgram # nil
    <3>1. executor' = runnerProgram /\ stage' = [stage EXCEPT ![l] = "made"]
      BY <1>3, <2>2 DEF MakeExecutor
    <3>2. UNCHANGED <<runnerProgram, executorVars, gpu, held, encoded, answers>>
      BY <1>3, <2>2 DEF MakeExecutor
    <3> QED
      BY <3>1, <3>2
  <2> QED
    BY <2>1, <2>2
<1>4. ASSUME NEW l \in Loads, UpdateProgram(l) PROVE TypeInv' /\ PredictionsKept
  <2>1. CASE runnerProgram = nil
    BY <1>4, <2>1 DEF UpdateProgram
  <2>2. CASE runnerProgram # nil
    <3>1. stage' = [stage EXCEPT ![l] = "done"]
      BY <1>4, <2>2 DEF UpdateProgram
    <3>2. UNCHANGED <<executor, runnerProgram, executorVars, gpu, held, encoded, answers>>
      BY <1>4, <2>2 DEF UpdateProgram
    <3> QED
      BY <3>1, <3>2
  <2> QED
    BY <2>1, <2>2
<1>5. ASSUME NEW l \in Loads, LoadFails(l) PROVE TypeInv' /\ PredictionsKept
  BY <1>5 DEF LoadFails
<1>6. ASSUME NEW c \in Clears, StartClear(c) PROVE TypeInv' /\ PredictionsKept
  BY <1>6 DEF StartClear, MayStart
<1>7. ASSUME NEW c \in Loads \cup Clears, Invalidate(c) PROVE TypeInv' /\ PredictionsKept
  BY <1>7 DEF Invalidate
<1>8. ASSUME NEW c \in Loads \cup Clears, ClearScope(c) PROVE TypeInv' /\ PredictionsKept
  BY <1>8 DEF ClearScope
<1>9. ASSUME NEW c \in Loads \cup Clears, DropExecutor(c) PROVE TypeInv' /\ PredictionsKept
  BY <1>9 DEF DropExecutor
<1>10. ASSUME NEW c \in Loads \cup Clears, DropProgram(c) PROVE TypeInv' /\ PredictionsKept
  BY <1>10 DEF DropProgram
<1> QED
  BY <1>1, <1>2, <1>3, <1>4, <1>5, <1>6, <1>7, <1>8, <1>9, <1>10 DEF LoadOrClear, Load, Clear

LEMMA NextTypeInv == RunnerInv /\ [RunnerNext]_allVars => TypeInv'
<1> SUFFICES ASSUME RunnerInv, [RunnerNext]_allVars PROVE TypeInv'
  OBVIOUS
<1> USE CallsAssumption
    DEF RunnerInv, TypeInv, Calls, Stages, Go, Trap, runnerVars, executorVars, callVars
<1> USE DEF Take, Release, Answer, AnswerFalse
<1>1. ASSUME NEW p \in Predictions, StartPredict(p) PROVE TypeInv'
  BY <1>1 DEF StartPredict, MayStart
<1>2. ASSUME NEW p \in Predictions, Wait(p) PROVE TypeInv'
  BY <1>2 DEF Wait, FlightInv, InFlight
<1>3. ASSUME NEW p \in Predictions, Reject(p) PROVE TypeInv'
  BY <1>3 DEF Reject, FlightInv, InFlight
<1>4. ASSUME NEW p \in Predictions, Accept(p) PROVE TypeInv'
  BY <1>4 DEF Accept
<1>5. ASSUME NEW p \in Predictions, SetInput(p) PROVE TypeInv'
  BY <1>5 DEF SetInput
<1>6. ASSUME NEW p \in Predictions, Feed(p) PROVE TypeInv'
  <2>1. stage[p] = "feed" /\ held[p] \in Loads
    BY <1>6 DEF Feed, FlightInv, InFlight
  <2>2. CASE input[held[p]] = nil
    BY <1>6, <2>2 DEF Feed
  <2>3. CASE input[held[p]] # nil
    <3>1. /\ encoded' = [encoded EXCEPT ![p] = input[held[p]]]
          /\ stage' = [stage EXCEPT ![p] = "encode"]
      BY <1>6, <2>3 DEF Feed
    <3>2. UNCHANGED <<executor, runnerProgram, executorVars, gpu, held, answers>>
      BY <1>6, <2>3 DEF Feed
    <3> QED
      BY <2>1, <3>1, <3>2
  <2> QED
    BY <2>2, <2>3
<1>7. ASSUME NEW p \in Predictions, Throw(p) PROVE TypeInv'
  BY <1>7 DEF Throw
<1>8. ASSUME NEW p \in Predictions, Commit(p) PROVE TypeInv'
  BY <1>8 DEF Commit
<1>9. ASSUME NEW p \in Predictions, HandlerDead(p) PROVE TypeInv'
  BY <1>9 DEF HandlerDead
<1>10. ASSUME NEW p \in Predictions, HandlerInvalid(p) PROVE TypeInv'
  BY <1>10 DEF HandlerInvalid
<1>11. ASSUME NEW p \in Predictions, HandlerGuard(p) PROVE TypeInv'
  BY <1>11 DEF HandlerGuard
<1>12. ASSUME NEW p \in Predictions, HandlerRead(p) PROVE TypeInv'
  BY <1>12 DEF HandlerRead, FlightInv, InFlight
<1>13. ASSUME NEW p \in Predictions, Signal(p) PROVE TypeInv'
  BY <1>13 DEF Signal, FlightInv, InFlight
<1>14. ASSUME NEW p \in Predictions, MainAnswers(p) PROVE TypeInv'
  <2>1. CASE stage[p] = "failed" /\ AnswerFalse(p, "answered")
    BY <2>1
  <2>2. CASE stage[p] = "thrown" /\ AnswerFalse(p, "lost")
    BY <2>2
  <2> QED
    BY <1>14, <2>1, <2>2 DEF MainAnswers
<1>15. CASE Execute
  <2>1. gpu # <<>>
    BY <1>15 DEF Execute
  <2> QED
    BY <1>15, <2>1, QueueFacts DEF Execute, FlightInv, InFlight, QueueInv
<1>16. CASE LoadOrClear
  BY <1>16, LoadOrClearKeeps DEF PredictionsKept
<1>17. CASE UNCHANGED allVars
  BY <1>17 DEF allVars
<1> QED
  BY <1>1, <1>2, <1>3, <1>4, <1>5, <1>6, <1>7, <1>8, <1>9, <1>10, <1>11, <1>12, <1>13, <1>14, <1>15, <1>16, <1>17
     DEF RunnerNext, Predict, Handler, LoadOrClear

LEMMA NextFlightInv == RunnerInv /\ [RunnerNext]_allVars => FlightInv'
<1> SUFFICES ASSUME RunnerInv, [RunnerNext]_allVars PROVE FlightInv'
  OBVIOUS
<1> USE CallsAssumption
    DEF RunnerInv, TypeInv, Calls, Stages, Go, Trap, runnerVars, executorVars, callVars
<1> USE DEF FlightInv, InFlight, Take, Release, AnswerFalse
<1>1. ASSUME NEW p \in Predictions, StartPredict(p) PROVE FlightInv'
  BY <1>1 DEF StartPredict, MayStart
<1>2. ASSUME NEW p \in Predictions, Wait(p) PROVE FlightInv'
  BY <1>2 DEF Wait
<1>3. ASSUME NEW p \in Predictions, Reject(p) PROVE FlightInv'
  BY <1>3 DEF Reject
<1>4. ASSUME NEW p \in Predictions, Accept(p) PROVE FlightInv'
  BY <1>4 DEF Accept
<1>5. ASSUME NEW p \in Predictions, SetInput(p) PROVE FlightInv'
  BY <1>5 DEF SetInput
<1>6. ASSUME NEW p \in Predictions, Feed(p) PROVE FlightInv'
  <2>1. stage[p] = "feed" /\ UNCHANGED <<inflightSemaphore, held>>
    BY <1>6 DEF Feed
  <2>2. CASE input[held[p]] = nil
    BY <1>6, <2>2 DEF Feed
  <2>3. CASE input[held[p]] # nil
    <3>1. stage' = [stage EXCEPT ![p] = "encode"]
      BY <1>6, <2>3 DEF Feed
    <3> QED
      BY <2>1, <3>1
  <2> QED
    BY <2>2, <2>3
<1>7. ASSUME NEW p \in Predictions, Throw(p) PROVE FlightInv'
  BY <1>7 DEF Throw
<1>8. ASSUME NEW p \in Predictions, Commit(p) PROVE FlightInv'
  BY <1>8 DEF Commit
<1>9. ASSUME NEW p \in Predictions, HandlerDead(p) PROVE FlightInv'
  BY <1>9 DEF HandlerDead
<1>10. ASSUME NEW p \in Predictions, HandlerInvalid(p) PROVE FlightInv'
  BY <1>10 DEF HandlerInvalid
<1>11. ASSUME NEW p \in Predictions, HandlerGuard(p) PROVE FlightInv'
  BY <1>11 DEF HandlerGuard
<1>12. ASSUME NEW p \in Predictions, HandlerRead(p) PROVE FlightInv'
  BY <1>12 DEF HandlerRead
<1>13. ASSUME NEW p \in Predictions, Signal(p) PROVE FlightInv'
  BY <1>13 DEF Signal
<1>14. ASSUME NEW p \in Predictions, MainAnswers(p) PROVE FlightInv'
  <2>1. CASE stage[p] = "failed" /\ AnswerFalse(p, "answered")
    BY <2>1
  <2>2. CASE stage[p] = "thrown" /\ AnswerFalse(p, "lost")
    BY <2>2
  <2> QED
    BY <1>14, <2>1, <2>2 DEF MainAnswers
<1>15. CASE Execute
  <2>1. gpu # <<>>
    BY <1>15 DEF Execute
  <2> QED
    BY <1>15, <2>1, QueueFacts DEF Execute, QueueInv
<1>16. CASE LoadOrClear
  BY <1>16, LoadOrClearKeeps DEF PredictionsKept
<1>17. CASE UNCHANGED allVars
  BY <1>17 DEF allVars
<1> QED
  BY <1>1, <1>2, <1>3, <1>4, <1>5, <1>6, <1>7, <1>8, <1>9, <1>10, <1>11, <1>12, <1>13, <1>14, <1>15, <1>16, <1>17
     DEF RunnerNext, Predict, Handler, LoadOrClear

LEMMA NextQueueInv == RunnerInv /\ [RunnerNext]_allVars => QueueInv'
<1> SUFFICES ASSUME RunnerInv, [RunnerNext]_allVars PROVE QueueInv'
  OBVIOUS
<1> USE CallsAssumption
    DEF RunnerInv, TypeInv, Calls, Stages, Go, Trap, runnerVars, executorVars, callVars
<1> USE DEF QueueInv, AnswerFalse
<1>1. ASSUME NEW p \in Predictions, StartPredict(p) PROVE QueueInv'
  BY <1>1 DEF StartPredict, MayStart
<1>2. ASSUME NEW p \in Predictions, Wait(p) PROVE QueueInv'
  BY <1>2 DEF Wait
<1>3. ASSUME NEW p \in Predictions, Reject(p) PROVE QueueInv'
  BY <1>3 DEF Reject
<1>4. ASSUME NEW p \in Predictions, Accept(p) PROVE QueueInv'
  BY <1>4 DEF Accept
<1>5. ASSUME NEW p \in Predictions, SetInput(p) PROVE QueueInv'
  BY <1>5 DEF SetInput
<1>6. ASSUME NEW p \in Predictions, Feed(p) PROVE QueueInv'
  BY <1>6 DEF Feed
<1>7. ASSUME NEW p \in Predictions, Throw(p) PROVE QueueInv'
  BY <1>7 DEF Throw
<1>8. ASSUME NEW p \in Predictions, Commit(p) PROVE QueueInv'
  BY <1>8 DEF Commit
<1>9. ASSUME NEW p \in Predictions, HandlerDead(p) PROVE QueueInv'
  BY <1>9 DEF HandlerDead
<1>10. ASSUME NEW p \in Predictions, HandlerInvalid(p) PROVE QueueInv'
  BY <1>10 DEF HandlerInvalid
<1>11. ASSUME NEW p \in Predictions, HandlerGuard(p) PROVE QueueInv'
  BY <1>11 DEF HandlerGuard
<1>12. ASSUME NEW p \in Predictions, HandlerRead(p) PROVE QueueInv'
  BY <1>12 DEF HandlerRead
<1>13. ASSUME NEW p \in Predictions, Signal(p) PROVE QueueInv'
  BY <1>13 DEF Signal
<1>14. ASSUME NEW p \in Predictions, MainAnswers(p) PROVE QueueInv'
  BY <1>14 DEF MainAnswers
<1>15. CASE Execute
  <2>1. gpu # <<>>
    BY <1>15 DEF Execute
  <2>2. gpu' = Tail(gpu) /\ stage' = [stage EXCEPT ![Head(gpu)] = "executed"]
    BY <1>15 DEF Execute
  <2>3. ASSUME NEW k \in DOMAIN gpu' PROVE stage'[gpu'[k]] = "queued"
    <3>1. gpu'[k] = gpu[k + 1] /\ k + 1 \in DOMAIN gpu /\ k + 1 # 1
      BY <2>1, <2>2, <2>3, QueueFacts
    <3>2. gpu[k + 1] # Head(gpu) /\ gpu[k + 1] \in Predictions
      BY <2>1, <3>1, QueueFacts
    <3> QED
      BY <2>2, <3>1, <3>2
  <2>4. ASSUME NEW j \in DOMAIN gpu', NEW k \in DOMAIN gpu', gpu'[j] = gpu'[k] PROVE j = k
    <3>1. /\ gpu'[j] = gpu[j + 1] /\ j + 1 \in DOMAIN gpu /\ j \in Nat
          /\ gpu'[k] = gpu[k + 1] /\ k + 1 \in DOMAIN gpu /\ k \in Nat
      BY <2>1, <2>2, <2>4, QueueFacts
    <3>2. j + 1 = k + 1
      BY <2>4, <3>1
    <3> QED
      BY <3>1, <3>2
  <2> QED
    BY <2>3, <2>4
<1>16. CASE LoadOrClear
  BY <1>16, LoadOrClearKeeps DEF PredictionsKept
<1>17. CASE UNCHANGED allVars
  BY <1>17 DEF allVars
<1> QED
  BY <1>1, <1>2, <1>3, <1>4, <1>5, <1>6, <1>7, <1>8, <1>9, <1>10, <1>11, <1>12, <1>13, <1>14, <1>15, <1>16, <1>17
     DEF RunnerNext, Predict, Handler, LoadOrClear

LEMMA NextInputInv == RunnerInv /\ [RunnerNext]_allVars => InputInv'
<1> SUFFICES ASSUME RunnerInv, [RunnerNext]_allVars PROVE InputInv'
  OBVIOUS
<1> USE CallsAssumption
    DEF RunnerInv, TypeInv, Calls, Stages, Go, Trap, runnerVars, executorVars, callVars
<1> USE DEF InputInv, AnswerFalse
<1>1. ASSUME NEW p \in Predictions, StartPredict(p) PROVE InputInv'
  BY <1>1 DEF StartPredict, MayStart
<1>2. ASSUME NEW p \in Predictions, Wait(p) PROVE InputInv'
  BY <1>2 DEF Wait
<1>3. ASSUME NEW p \in Predictions, Reject(p) PROVE InputInv'
  BY <1>3 DEF Reject
<1>4. ASSUME NEW p \in Predictions, Accept(p) PROVE InputInv'
  BY <1>4 DEF Accept
<1>5. ASSUME NEW p \in Predictions, SetInput(p) PROVE InputInv'
  BY <1>5 DEF SetInput, FlightInv, InFlight
<1>6. ASSUME NEW p \in Predictions, Feed(p) PROVE InputInv'
  BY <1>6 DEF Feed
<1>7. ASSUME NEW p \in Predictions, Throw(p) PROVE InputInv'
  BY <1>7 DEF Throw
<1>8. ASSUME NEW p \in Predictions, Commit(p) PROVE InputInv'
  BY <1>8 DEF Commit
<1>9. ASSUME NEW p \in Predictions, HandlerDead(p) PROVE InputInv'
  BY <1>9 DEF HandlerDead
<1>10. ASSUME NEW p \in Predictions, HandlerInvalid(p) PROVE InputInv'
  BY <1>10 DEF HandlerInvalid
<1>11. ASSUME NEW p \in Predictions, HandlerGuard(p) PROVE InputInv'
  BY <1>11 DEF HandlerGuard
<1>12. ASSUME NEW p \in Predictions, HandlerRead(p) PROVE InputInv'
  BY <1>12 DEF HandlerRead
<1>13. ASSUME NEW p \in Predictions, Signal(p) PROVE InputInv'
  BY <1>13 DEF Signal
<1>14. ASSUME NEW p \in Predictions, MainAnswers(p) PROVE InputInv'
  BY <1>14 DEF MainAnswers
<1>15. CASE Execute
  <2>1. gpu # <<>>
    BY <1>15 DEF Execute
  <2> QED
    BY <1>15, <2>1, QueueFacts DEF Execute, FlightInv, InFlight, QueueInv
<1>16. CASE LoadOrClear
  BY <1>16, LoadOrClearKeeps DEF PredictionsKept, FlightInv, InFlight
<1>17. CASE UNCHANGED allVars
  BY <1>17 DEF allVars
<1> QED
  BY <1>1, <1>2, <1>3, <1>4, <1>5, <1>6, <1>7, <1>8, <1>9, <1>10, <1>11, <1>12, <1>13, <1>14, <1>15, <1>16, <1>17
     DEF RunnerNext, Predict, Handler, LoadOrClear

LEMMA NextAnswerInv == RunnerInv /\ [RunnerNext]_allVars => AnswerInv'
<1> SUFFICES ASSUME RunnerInv, [RunnerNext]_allVars PROVE AnswerInv'
  OBVIOUS
<1> USE CallsAssumption
    DEF RunnerInv, TypeInv, Calls, Stages, Go, Trap, runnerVars, executorVars, callVars
<1> USE DEF AnswerInv, Answer, AnswerFalse
<1>1. ASSUME NEW p \in Predictions, StartPredict(p) PROVE AnswerInv'
  BY <1>1 DEF StartPredict, MayStart
<1>2. ASSUME NEW p \in Predictions, Wait(p) PROVE AnswerInv'
  BY <1>2 DEF Wait
<1>3. ASSUME NEW p \in Predictions, Reject(p) PROVE AnswerInv'
  BY <1>3 DEF Reject
<1>4. ASSUME NEW p \in Predictions, Accept(p) PROVE AnswerInv'
  BY <1>4 DEF Accept
<1>5. ASSUME NEW p \in Predictions, SetInput(p) PROVE AnswerInv'
  BY <1>5 DEF SetInput
<1>6. ASSUME NEW p \in Predictions, Feed(p) PROVE AnswerInv'
  BY <1>6 DEF Feed
<1>7. ASSUME NEW p \in Predictions, Throw(p) PROVE AnswerInv'
  BY <1>7 DEF Throw
<1>8. ASSUME NEW p \in Predictions, Commit(p) PROVE AnswerInv'
  BY <1>8 DEF Commit
<1>9. ASSUME NEW p \in Predictions, HandlerDead(p) PROVE AnswerInv'
  BY <1>9, FirstAnswer DEF HandlerDead
<1>10. ASSUME NEW p \in Predictions, HandlerInvalid(p) PROVE AnswerInv'
  BY <1>10, FirstAnswer DEF HandlerInvalid
<1>11. ASSUME NEW p \in Predictions, HandlerGuard(p) PROVE AnswerInv'
  BY <1>11 DEF HandlerGuard
<1>12. ASSUME NEW p \in Predictions, HandlerRead(p) PROVE AnswerInv'
  <2>1. resultBuffer[held[p]] = p /\ answers[p] = <<>>
    BY <1>12 DEF HandlerRead, InputInv
  <2>2. answers' = [answers EXCEPT ![p] = Append(@, p)]
        \/ answers' = [answers EXCEPT ![p] = Append(@, nil)]
    BY <1>12, <2>1 DEF HandlerRead
  <2>3. answers'[p] \in {<<p>>, <<nil>>} /\ \A q \in Predictions \ {p} : answers'[q] = answers[q]
    BY <2>1, <2>2, FirstAnswer
  <2>4. stage' = [stage EXCEPT ![p] = "signal"]
    BY <1>12 DEF HandlerRead
  <2> QED
    BY <2>3, <2>4
<1>13. ASSUME NEW p \in Predictions, Signal(p) PROVE AnswerInv'
  BY <1>13 DEF Signal
<1>14. ASSUME NEW p \in Predictions, MainAnswers(p) PROVE AnswerInv'
  <2>1. CASE stage[p] = "failed" /\ AnswerFalse(p, "answered")
    BY <2>1, FirstAnswer
  <2>2. CASE stage[p] = "thrown" /\ AnswerFalse(p, "lost")
    BY <2>2, FirstAnswer
  <2> QED
    BY <1>14, <2>1, <2>2 DEF MainAnswers
<1>15. CASE Execute
  <2>1. gpu # <<>>
    BY <1>15 DEF Execute
  <2> QED
    BY <1>15, <2>1, QueueFacts DEF Execute, QueueInv
<1>16. CASE LoadOrClear
  BY <1>16, LoadOrClearKeeps DEF PredictionsKept
<1>17. CASE UNCHANGED allVars
  BY <1>17 DEF allVars
<1> QED
  BY <1>1, <1>2, <1>3, <1>4, <1>5, <1>6, <1>7, <1>8, <1>9, <1>10, <1>11, <1>12, <1>13, <1>14, <1>15, <1>16, <1>17
     DEF RunnerNext, Predict, Handler, LoadOrClear

LEMMA NextRunnerInv == RunnerInv /\ [RunnerNext]_allVars => RunnerInv'
BY NextTypeInv, NextFlightInv, NextQueueInv, NextInputInv, NextAnswerInv DEF RunnerInv

(* At most one prediction is between the semaphore of an executor and its  *)
(* signal, whatever is cleared or loaded meanwhile.                        *)
THEOREM OneInFlight ==
  RunnerSpec => [](\A p, q \in Predictions :
               InFlight(p) /\ InFlight(q) /\ held[p] = held[q] => p = q)
<1>1. RunnerInv =>
        \A p, q \in Predictions : InFlight(p) /\ InFlight(q) /\ held[p] = held[q] => p = q
  BY DEF RunnerInv, FlightInv
<1> QED
  BY <1>1, InitRunnerInv, NextRunnerInv, PTL DEF RunnerSpec

(* A completion hands over the result of its own call.                     *)
THEOREM ResultsAreOwn == RunnerSpec => []OwnResult
<1>1. RunnerInv => OwnResult
  BY DEF RunnerInv, AnswerInv, OwnResult
<1> QED
  BY <1>1, InitRunnerInv, NextRunnerInv, PTL DEF RunnerSpec

(* No completion is called twice.                                          *)
THEOREM OneAnswer == RunnerSpec => []AnsweredOnce
<1>1. RunnerInv => AnsweredOnce
  <2>1. \A a : Len(<<>>) <= 1 /\ Len(<<a>>) <= 1
    OBVIOUS
  <2> QED
    BY <2>1 DEF RunnerInv, AnswerInv, AnsweredOnce
<1> QED
  BY <1>1, InitRunnerInv, NextRunnerInv, PTL DEF RunnerSpec
\* A step sets trapped or leaves it.
LEMMA TrapOrNot == trapped \in BOOLEAN /\ [RunnerNext]_allVars => (trapped \in BOOLEAN)'
<1> SUFFICES ASSUME trapped \in BOOLEAN, [RunnerNext]_allVars PROVE trapped' \in BOOLEAN
  OBVIOUS
<1> USE DEF Trap, AnswerFalse
<1>1. ASSUME NEW p \in Predictions, StartPredict(p) \/ Predict(p) PROVE trapped' \in BOOLEAN
  BY <1>1 DEF StartPredict, Predict, Wait, Reject, Accept, SetInput, Feed, Throw, Commit
<1>2. ASSUME NEW p \in Predictions, Handler(p) PROVE trapped' \in BOOLEAN
  BY <1>2 DEF Handler, HandlerDead, HandlerInvalid, HandlerGuard, HandlerRead, Signal, MainAnswers
<1>3. CASE Execute
  BY <1>3 DEF Execute
<1>4. ASSUME NEW l \in Loads, StartLoad(l) \/ Load(l) PROVE trapped' \in BOOLEAN
  BY <1>4 DEF StartLoad, Load, LoadProgram, MakeExecutor, UpdateProgram, LoadFails
<1>5. ASSUME NEW c, StartClear(c) \/ Clear(c) PROVE trapped' \in BOOLEAN
  BY <1>5 DEF StartClear, Clear, Invalidate, ClearScope, DropExecutor, DropProgram
<1>6. CASE UNCHANGED allVars
  BY <1>6 DEF allVars
<1> QED
  BY <1>1, <1>2, <1>3, <1>4, <1>5, <1>6 DEF RunnerNext

(* The semaphore of an executor is taken at most once, and every call is   *)
(* at a stage of its code.                                                 *)
THEOREM RunnerTypeCorrect == RunnerSpec => []RunnerTypeOK
<1>1. RunnerInit => trapped \in BOOLEAN
  BY DEF RunnerInit
<1>2. RunnerInv /\ trapped \in BOOLEAN => RunnerTypeOK
  <2> SUFFICES ASSUME RunnerInv, trapped \in BOOLEAN PROVE RunnerTypeOK
    OBVIOUS
  <2>1. inflightSemaphore \in [Loads -> 0..1]
    BY DEF RunnerInv, TypeInv, FlightInv
  <2> QED
    BY <2>1 DEF RunnerInv, TypeInv, RunnerTypeOK
<1> QED
  BY <1>1, <1>2, InitRunnerInv, NextRunnerInv, TrapOrNot, PTL DEF RunnerSpec
=============================================================================
