--------------------------- MODULE Playbook_proofs ---------------------------
(***************************************************************************)
(* Proofs about Machine and Playbook: the modules of the playbook engine   *)
(* and the runs of playbooks on a machine.  The invariants are about every *)
(* step of Playbook; the theorems, over the composition, are at the end of *)
(* Backend_proofs.                                                         *)
(*   PlaybookTypeOK                         runs, commands, machine        *)
(*   OriginalInv, LinesInv                  what was there stays           *)
(*   DryInv, RiskInv, ReportedInv,                                         *)
(*   ForetoldInv                            what was announced             *)
(*   ReposInv, InPlaceInv                   what is reported as done is so *)
(*   CleanInv, SkippedInv, QuietInv         a second run finds it so       *)
(***************************************************************************)
EXTENDS Playbook, Induction, SequenceTheorems, FiniteSetTheorems, TLAPS

-----------------------------------------------------------------------------
(* Lists.                                                                  *)

IsList(s) == s \in Seq(ToSet(s))

LEMMA ListsAre ==
    /\ IsList(<<>>) /\ ToSet(<<>>) = {}
    /\ \A a : IsList(<<a>>) /\ ToSet(<<a>>) = {a} /\ Len(<<a>>) = 1
    /\ \A a, b : IsList(<<a, b>>) /\ ToSet(<<a, b>>) = {a, b}
    /\ \A a, b, c : IsList(<<a, b, c>>) /\ ToSet(<<a, b, c>>) = {a, b, c}
  BY DEF IsList, ToSet

LEMMA SeqIsList == ASSUME NEW S, NEW s \in Seq(S) PROVE IsList(s) /\ ToSet(s) \subseteq S
<1>1. DOMAIN s = 1..Len(s) /\ Len(s) \in Nat /\ \A i \in 1..Len(s) : s[i] \in S
  OBVIOUS
<1>2. ToSet(s) = {s[i] : i \in 1..Len(s)}
  BY <1>1, Zenon DEF ToSet
<1> DEFINE T == ToSet(s)
<1>3. \A i \in 1..Len(s) : s[i] \in T
  BY <1>2
<1> HIDE DEF T
<1>4. s \in Seq(T)
  BY <1>1, <1>3, IsASeq
<1> QED
  BY <1>1, <1>2, <1>4 DEF IsList, T

LEMMA ListDomain ==
    ASSUME NEW s, IsList(s)
    PROVE  /\ DOMAIN s = 1..Len(s) /\ Len(s) \in Nat
           /\ \A x : x \in ToSet(s) <=> \E i \in 1..Len(s) : s[i] = x
           /\ s = <<>> <=> ToSet(s) = {}
<1>1. s \in Seq(ToSet(s))
  BY DEF IsList
<1>2. DOMAIN s = 1..Len(s) /\ Len(s) \in Nat
  BY <1>1
<1>3. ToSet(s) = {s[i] : i \in 1..Len(s)}
  BY <1>2, Zenon DEF ToSet
<1>4. s = <<>> <=> Len(s) = 0
  BY <1>1, EmptySeq, LenProperties
<1> QED
  BY <1>2, <1>3, <1>4

LEMMA TailOfList ==
    ASSUME NEW s, IsList(s), s # <<>>
    PROVE  /\ IsList(Tail(s)) /\ ToSet(s) = {Head(s)} \cup ToSet(Tail(s))
           /\ Len(Tail(s)) = Len(s) - 1 /\ Head(s) = s[1]
           /\ \A i \in 1..(Len(s) - 1) : Tail(s)[i] = s[i + 1]
<1>1. s \in Seq(ToSet(s))
  BY DEF IsList
<1>2. /\ Tail(s) \in Seq(ToSet(s)) /\ Len(Tail(s)) = Len(s) - 1 /\ Head(s) = s[1]
      /\ \A i \in 1..(Len(s) - 1) : Tail(s)[i] = s[i + 1]
      /\ Len(s) \in Nat /\ Len(s) # 0
  BY <1>1, HeadTailProperties, EmptySeq
<1> DEFINE u == Tail(s)
<1> HIDE DEF u
<1>3. IsList(u)
  BY <1>2, SeqIsList DEF u
<1>4. /\ \A x : x \in ToSet(u) <=> \E i \in 1..Len(u) : u[i] = x
      /\ \A x : x \in ToSet(s) <=> \E i \in 1..Len(s) : s[i] = x
  BY <1>3, ListDomain
<1>5. ASSUME NEW x \in ToSet(s) PROVE x \in {Head(s)} \cup ToSet(u)
  <2>1. PICK i \in 1..Len(s) : s[i] = x
    BY <1>4
  <2>2. i # 1 => i - 1 \in 1..Len(u) /\ u[i - 1] = x
    BY <1>2, <2>1 DEF u
  <2> QED
    BY <1>2, <1>4, <2>1, <2>2
<1>6. ASSUME NEW x \in {Head(s)} \cup ToSet(u) PROVE x \in ToSet(s)
  <2>1. CASE x = Head(s)
    BY <1>2, <1>4, <2>1
  <2>2. CASE x \in ToSet(u)
    <3>1. PICK i \in 1..Len(u) : u[i] = x
      BY <1>4, <2>2
    <3>2. i + 1 \in 1..Len(s) /\ s[i + 1] = x
      BY <1>2, <3>1 DEF u
    <3> QED
      BY <1>4, <3>2
  <2> QED
    BY <1>6, <2>1, <2>2
<1> QED
  BY <1>2, <1>3, <1>5, <1>6 DEF u

LEMMA ConcatOfLists ==
    ASSUME NEW s, NEW u, IsList(s), IsList(u)
    PROVE  IsList(s \o u) /\ ToSet(s \o u) = ToSet(s) \cup ToSet(u)
<1> DEFINE S == ToSet(s) \cup ToSet(u)
           w == s \o u
<1>1. s \in Seq(S) /\ u \in Seq(S)
  BY SeqMonotonic DEF IsList
<1> HIDE DEF S
<1>2. /\ w \in Seq(S) /\ Len(w) = Len(s) + Len(u)
      /\ \A i \in 1..(Len(s) + Len(u)) : w[i] = IF i <= Len(s) THEN s[i] ELSE u[i - Len(s)]
  BY <1>1, ConcatProperties
<1> HIDE DEF w
<1>3. IsList(w)
  BY <1>2, SeqIsList
<1>4. /\ \A x : x \in ToSet(s) <=> \E i \in 1..Len(s) : s[i] = x
      /\ \A x : x \in ToSet(u) <=> \E i \in 1..Len(u) : u[i] = x
      /\ \A x : x \in ToSet(w) <=> \E i \in 1..Len(w) : w[i] = x
      /\ Len(s) \in Nat /\ Len(u) \in Nat
  BY <1>3, ListDomain
<1>5. \A x : x \in ToSet(w) => x \in S
  BY <1>2, SeqIsList
<1>6. ASSUME NEW x \in S PROVE x \in ToSet(w)
  <2>1. CASE x \in ToSet(s)
    <3>1. PICK i \in 1..Len(s) : s[i] = x
      BY <1>4, <2>1
    <3>2. i \in 1..Len(w) /\ w[i] = x
      BY <1>2, <1>4, <3>1
    <3> QED
      BY <1>4, <3>2
  <2>2. CASE x \in ToSet(u)
    <3>1. PICK i \in 1..Len(u) : u[i] = x
      BY <1>4, <2>2
    <3>2. i + Len(s) \in 1..Len(w) /\ w[i + Len(s)] = x
      BY <1>2, <1>4, <3>1
    <3> QED
      BY <1>4, <3>2
  <2> QED
    BY <1>6, <2>1, <2>2 DEF S
<1> QED
  BY <1>3, <1>5, <1>6 DEF S, w

\* The elements of a finite set, one after the other.
LEMMA SetToList ==
    ASSUME NEW S, IsFiniteSet(S)
    PROVE  IsList(SetToSeq(S)) /\ ToSet(SetToSeq(S)) = S
<1> DEFINE n == Cardinality(S)
           I == 1..n
<1>1. n \in Nat /\ ExistsBijection(I, S)
  BY FS_CardinalityType
<1>2. PICK g \in [I -> S] : IsInjective(g)
  <2>1. PICK g : g \in Bijection(I, S)
    BY <1>1 DEF ExistsBijection
  <2> QED
    BY <2>1 DEF Bijection, Injection, IsInjective
<1> DEFINE f == SetToSeq(S)
<1>3. f \in [I -> S] /\ IsInjective(f)
  BY <1>2 DEF SetToSeq
<1> HIDE DEF f
<1>4. f \in Injection(I, S)
  BY <1>3 DEF Injection, IsInjective
<1>5. 1 \in Int /\ n \in Int
  BY <1>1
<1>6. Cardinality(I) = n
  BY <1>1, <1>5, FS_Interval
<1> HIDE DEF I
<1>7. f \in Surjection(I, S)
  BY <1>4, <1>6, FS_Injection
<1>8. \A x \in S : \E i \in I : f[i] = x
  BY <1>7 DEF Surjection
<1> USE DEF I
<1>9. f \in Seq(S) /\ Len(f) = n
  BY <1>1, <1>3
<1>10. IsList(f) /\ ToSet(f) \subseteq S
  BY <1>9, SeqIsList
<1>11. \A x \in S : x \in ToSet(f)
  BY <1>8, <1>9, <1>10, ListDomain
<1> QED
  BY <1>10, <1>11 DEF f

-----------------------------------------------------------------------------
(* Lines of a file.                                                        *)

\* pos[i] is the place of the i-th of these positions.
InOrder(pos, n, positions) ==
    /\ pos \in [1..n -> positions]
    /\ \A i, j \in 1..n : i < j => pos[i] < pos[j]
    /\ \A k \in positions : \E i \in 1..n : pos[i] = k

\* What Picked takes are the lines at the positions, in their order.
LEMMA PickedIs ==
    ASSUME NEW S, NEW lines \in Seq(S), NEW positions \in SUBSET (1..Len(lines))
    PROVE  \E pos : /\ Cardinality(positions) \in Nat
                    /\ InOrder(pos, Cardinality(positions), positions)
                    /\ Picked(lines, positions) \in Seq(S)
                    /\ Len(Picked(lines, positions)) = Cardinality(positions)
                    /\ \A i \in 1..Cardinality(positions) :
                           Picked(lines, positions)[i] = lines[pos[i]]
<1> DEFINE n == Cardinality(positions)
           I == 1..n
           upTo(j) == {k \in positions : k <= j}
           rank(j) == Cardinality(upTo(j))
           f == [j \in positions |-> rank(j)]
<1>1. Len(lines) \in Nat /\ \A k \in positions : k \in Nat /\ k \in 1..Len(lines) /\ lines[k] \in S
  OBVIOUS
<1>2. IsFiniteSet(positions)
  <2>1. 1 \in Int /\ Len(lines) \in Int
    BY <1>1
  <2>2. IsFiniteSet(1..Len(lines))
    BY <2>1, FS_Interval
  <2> QED
    BY <2>2, FS_Subset
<1>3. n \in Nat
  BY <1>2, FS_CardinalityType
<1>4. ASSUME NEW j \in positions PROVE rank(j) \in I
  <2>1. upTo(j) \subseteq positions /\ upTo(j) # {}
    BY <1>1
  <2> HIDE DEF upTo
  <2>2. IsFiniteSet(upTo(j)) /\ Cardinality(upTo(j)) <= n
    BY <1>2, <2>1, FS_Subset
  <2>3. Cardinality(upTo(j)) \in Nat /\ Cardinality(upTo(j)) # 0
    BY <2>1, <2>2, FS_CardinalityType, FS_EmptySet
  <2> QED
    BY <1>3, <2>2, <2>3
<1>5. ASSUME NEW i \in positions, NEW j \in positions, i < j PROVE rank(i) < rank(j)
  <2>1. upTo(i) \subseteq upTo(j) /\ upTo(i) # upTo(j) /\ upTo(j) \subseteq positions
    <3>1. i \in Nat /\ j \in Nat /\ j \in upTo(j) /\ j \notin upTo(i)
      BY <1>1, <1>5
    <3>2. \A k \in positions : k \in Nat
      BY <1>1
    <3>3. ASSUME NEW k \in upTo(i) PROVE k \in upTo(j)
      BY <1>5, <3>1, <3>2
    <3> QED
      BY <3>1, <3>3
  <2> HIDE DEF upTo
  <2>2. IsFiniteSet(upTo(j))
    BY <1>2, <2>1, FS_Subset
  <2>3. IsFiniteSet(upTo(i)) /\ Cardinality(upTo(i)) <= Cardinality(upTo(j))
        /\ (Cardinality(upTo(i)) = Cardinality(upTo(j)) => upTo(i) = upTo(j))
    BY <2>1, <2>2, FS_Subset
  <2>4. Cardinality(upTo(i)) \in Nat /\ Cardinality(upTo(j)) \in Nat
    BY <2>2, <2>3, FS_CardinalityType
  <2> QED
    BY <2>1, <2>3, <2>4
<1> HIDE DEF rank
<1>6. f \in [positions -> I]
  BY <1>4
<1>7. \A i, j \in positions : f[i] = f[j] => i = j
  <2>1. ASSUME NEW i \in positions, NEW j \in positions, f[i] = f[j], i # j PROVE FALSE
    <3>1. rank(i) = rank(j) /\ rank(i) \in I
      BY <1>4, <2>1
    <3>2. i < j \/ j < i
      BY <1>1, <2>1
    <3> QED
      BY <1>3, <1>5, <3>1, <3>2
  <2> QED
    BY <2>1
<1>8. f \in Injection(positions, I)
  BY <1>6, <1>7, Zenon DEF Injection, IsInjective
<1>9. IsFiniteSet(I) /\ Cardinality(I) = n
  <2>1. 1 \in Int /\ n \in Int
    BY <1>3
  <2> QED
    BY <1>3, <2>1, FS_Interval
<1>10. \A i \in I : \E j \in positions : rank(j) = i
  <2> HIDE DEF f, I
  <2>1. f \in Surjection(positions, I)
    BY <1>8, <1>9, FS_Injection
  <2> USE DEF f
  <2> QED
    BY <2>1 DEF Surjection
<1> DEFINE pos == [i \in I |-> CHOOSE j \in positions : rank(j) = i]
<1>11. \A i \in I : pos[i] \in positions /\ rank(pos[i]) = i
  BY <1>10
<1>12. \A i \in I : Picked(lines, positions)[i] = lines[pos[i]]
  BY DEF Picked, rank
<1>13. Picked(lines, positions) = [i \in I |-> Picked(lines, positions)[i]]
  BY DEF Picked
<1> HIDE DEF pos
<1>14. Picked(lines, positions) \in Seq(S) /\ Len(Picked(lines, positions)) = n
  BY <1>1, <1>3, <1>11, <1>12, <1>13, SMTT(30)
<1>15. \A i, j \in I : i < j => pos[i] < pos[j]
  <2>1. ASSUME NEW i \in I, NEW j \in I, i < j, ~(pos[i] < pos[j]) PROVE FALSE
    <3>0. pos[i] \in Nat /\ pos[j] \in Nat
      BY <1>1, <1>11
    <3>1. pos[i] = pos[j] \/ pos[j] < pos[i]
      BY <2>1, <3>0
    <3>2. pos[j] < pos[i] => rank(pos[j]) < rank(pos[i])
      BY <1>5, <1>11
    <3> QED
      BY <1>3, <1>11, <2>1, <3>1, <3>2
  <2> QED
    BY <2>1
<1>16. \A k \in positions : \E i \in I : pos[i] = k
  <2>1. ASSUME NEW k \in positions PROVE \E i \in I : pos[i] = k
    <3>1. rank(k) \in I
      BY <1>4
    <3> DEFINE j == pos[rank(k)]
    <3>2. j \in positions /\ rank(j) = rank(k)
      BY <1>11, <3>1
    <3> HIDE DEF j
    <3>3. ~(j < k) /\ ~(k < j)
      <4>1. rank(k) \in Nat
        BY <1>3, <3>1
      <4>2. (j < k => rank(j) < rank(k)) /\ (k < j => rank(k) < rank(j))
        BY <1>5, <3>2
      <4> QED
        BY <3>2, <4>1, <4>2
    <3>4. j \in Nat /\ k \in Nat
      BY <1>1, <3>2
    <3>5. j = k
      BY <3>3, <3>4
    <3> QED
      BY <3>1, <3>5 DEF j
  <2> QED
    BY <2>1
<1>17. pos \in [I -> positions]
  BY <1>11 DEF pos
<1>18. InOrder(pos, n, positions)
  BY <1>15, <1>16, <1>17 DEF InOrder
<1> QED
  BY <1>3, <1>12, <1>14, <1>18

\* Nothing of what is to stay lies between two lines that were picked one after the other.
LEMMA NothingBetween ==
    ASSUME NEW n \in Nat, NEW N \in Nat, NEW positions \in SUBSET (1..N), NEW pos,
           InOrder(pos, n, positions)
    PROVE  /\ \A i \in 1..(n - 1) : \A k \in (pos[i] + 1)..(pos[i + 1] - 1) : k \notin positions
           /\ n > 0 => \A k \in 1..N : k > pos[n] => k \notin positions
<1>0. \A k \in positions : k \in Nat
  OBVIOUS
<1>1. /\ \A i \in 1..n : pos[i] \in positions /\ pos[i] \in Nat
      /\ \A i, j \in 1..n : i < j => pos[i] < pos[j]
      /\ \A k \in positions : \E i \in 1..n : pos[i] = k
  BY <1>0 DEF InOrder
<1>2. ASSUME NEW i \in 1..(n - 1), NEW k \in (pos[i] + 1)..(pos[i + 1] - 1), k \in positions PROVE FALSE
  <2>1. PICK j \in 1..n : pos[j] = k
    BY <1>1, <1>2
  <2>2. i \in 1..n /\ i + 1 \in 1..n
    OBVIOUS
  <2>3. pos[i] < pos[j] /\ pos[j] < pos[i + 1]
    BY <1>1, <1>2, <2>1, <2>2
  <2>4. ~(j < i) /\ ~(i + 1 < j) /\ j # i /\ j # i + 1
    BY <1>1, <2>1, <2>2, <2>3
  <2> QED
    BY <2>4
<1>3. ASSUME n > 0, NEW k \in positions, k > pos[n] PROVE FALSE
  <2>1. PICK j \in 1..n : pos[j] = k
    BY <1>1, <1>3
  <2>2. n \in 1..n
    BY <1>3
  <2>3. j = n \/ j < n
    OBVIOUS
  <2> QED
    BY <1>1, <1>3, <2>1, <2>2, <2>3
<1> QED
  BY <1>2, <1>3

\* Who takes the first lines takes them as they are.
LEMMA PickedFirst ==
    ASSUME NEW S, NEW lines \in Seq(S), NEW N \in 0..Len(lines)
    PROVE  /\ Picked(lines, 1..N) \in Seq(S) /\ Len(Picked(lines, 1..N)) = N
           /\ \A i \in 1..N : Picked(lines, 1..N)[i] = lines[i]
<1> DEFINE new == Picked(lines, 1..N)
<1>1. N \in Nat /\ 1 \in Int /\ N \in Int
  OBVIOUS
<1>2. Cardinality(1..N) = N
  BY <1>1, FS_Interval
<1>3. PICK pos : /\ InOrder(pos, N, 1..N) /\ new \in Seq(S) /\ Len(new) = N
                 /\ \A i \in 1..N : new[i] = lines[pos[i]]
  <2>1. 1..N \in SUBSET (1..Len(lines))
    OBVIOUS
  <2> QED
    BY <1>2, <2>1, PickedIs
<1>4. /\ pos \in [1..N -> 1..N] /\ \A i, j \in 1..N : i < j => pos[i] < pos[j]
      /\ \A k \in 1..N : \E i \in 1..N : pos[i] = k
  BY <1>3 DEF InOrder
<1> DEFINE T == {i \in 0..N : i = 0 \/ pos[i] = i}
<1>5. 0 \in T
  BY <1>1
<1>6. ASSUME NEW i \in 0..(N - 1), i \in T PROVE i + 1 \in T
  <2>1. i + 1 \in 1..N /\ pos[i + 1] \in 1..N
    BY <1>1, <1>4
  <2>2. pos[i + 1] > i
    <3>1. CASE i = 0
      BY <1>1, <2>1, <3>1
    <3>2. CASE i # 0
      <4>1. i \in 1..N /\ pos[i] = i /\ i < i + 1
        BY <1>1, <1>6, <3>2
      <4> QED
        BY <1>4, <2>1, <4>1
    <3> QED
      BY <3>1, <3>2
  <2>3. PICK j \in 1..N : pos[j] = i + 1
    BY <1>4, <2>1
  <2>4. ~(j < i + 1)
    <3>1. CASE j = i
      BY <1>6, <2>3, <3>1
    <3>2. CASE j < i
      <4>1. i \in 1..N /\ pos[i] = i /\ pos[j] < pos[i]
        BY <1>1, <1>4, <1>6, <3>2
      <4> QED
        BY <2>3, <4>1
    <3> QED
      BY <3>1, <3>2
  <2>5. ~(i + 1 < j)
    <3>1. i + 1 < j => pos[i + 1] < pos[j]
      BY <1>4, <2>1
    <3>2. pos[i + 1] \in Nat
      BY <1>1, <2>1
    <3> QED
      BY <2>2, <2>3, <3>1, <3>2
  <2>6. j = i + 1
    BY <2>4, <2>5
  <2> QED
    BY <2>1, <2>3, <2>6
<1> HIDE DEF T
<1>7. 0..N \subseteq T
  BY <1>1, <1>5, <1>6, UpTo
<1>8. \A i \in 1..N : pos[i] = i
  BY <1>7 DEF T
<1>9. \A i \in 1..N : new[i] = lines[i]
  BY <1>3, <1>8
<1> QED
  BY <1>3, <1>9

\* Who takes all takes the file as it is.
LEMMA PickedAll ==
    ASSUME NEW S, NEW lines \in Seq(S)
    PROVE  Picked(lines, 1..Len(lines)) = lines
<1> DEFINE N == Len(lines)
           new == Picked(lines, 1..N)
<1>1. N \in 0..Len(lines)
  OBVIOUS
<1>2. new \in Seq(S) /\ Len(new) = N /\ \A i \in 1..N : new[i] = lines[i]
  BY <1>1, PickedFirst
<1> HIDE DEF new
<1> QED
  BY <1>2, SeqEqual DEF new

-----------------------------------------------------------------------------
(* The modules that change part of a file.                                 *)

LEMMA TakesIs ==
    ASSUME NEW lines \in Seq(Lines), NEW marker
    PROVE  LET f == Takes(lines, marker) IN
           /\ f \in [0..Len(lines) -> BOOLEAN] /\ ~f[0]
           /\ \A i \in 1..Len(lines) : f[i] <=> lines[i] = marker /\ ~f[i - 1]
<1> DEFINE N == Len(lines)
           step == [k \in 1..N |-> [b \in BOOLEAN |-> lines[k] = marker /\ ~b]]
<1>1. N \in Nat /\ FALSE \in BOOLEAN /\ step \in RecursionSteps(N, BOOLEAN)
  BY DEF RecursionSteps
<1>2. \A k \in 1..N : \A b \in BOOLEAN : step[k][b] = (lines[k] = marker /\ ~b)
  OBVIOUS
<1> HIDE DEF step
<1>3. PICK f : Recurs(f, N, BOOLEAN, FALSE, step)
  BY <1>1, Recursion
<1>4. f \in [0..N -> BOOLEAN]
  BY <1>3 DEF Recurs
<1>5. \A k \in 0..N : f[k] = IF k = 0 THEN FALSE ELSE step[k][f[k - 1]]
  BY <1>3 DEF Recurs
<1>6. ASSUME NEW k \in 0..N PROVE f[k] = (k > 0 /\ lines[k] = marker /\ ~f[k - 1])
  <2>1. CASE k = 0
    <3>1. f[k] = FALSE
      BY <1>5, <2>1
    <3>2. ~(k > 0)
      BY <2>1
    <3> QED
      BY <3>1, <3>2, Zenon
  <2>2. CASE k # 0
    <3>1. k \in 1..N /\ k - 1 \in 0..N
      BY <1>1, <2>2
    <3>2. f[k - 1] \in BOOLEAN
      BY <1>4, <3>1
    <3>3. f[k] = step[k][f[k - 1]]
      BY <1>5, <2>2
    <3>4. f[k] = (lines[k] = marker /\ ~f[k - 1])
      BY <1>2, <3>1, <3>2, <3>3, Zenon
    <3>5. k > 0
      BY <1>1, <3>1
    <3> QED
      BY <3>4, <3>5, Zenon
  <2> QED
    BY <2>1, <2>2
<1> DEFINE Rec(h) == h = [i \in 0..N |-> i > 0 /\ lines[i] = marker /\ ~h[i - 1]]
<1>7. Rec(f)
  <2>1. f = [k \in 0..N |-> f[k]]
    BY <1>4
  <2> QED
    BY <1>6, <2>1
<1> DEFINE g == Takes(lines, marker)
<1>8. Rec(g)
  <2>1. g = CHOOSE h : Rec(h)
    BY DEF Takes
  <2> HIDE DEF Rec, g
  <2> QED
    BY <1>7, <2>1
<1> HIDE DEF g
<1>9. \A i \in 0..N : g[i] = (i > 0 /\ lines[i] = marker /\ ~g[i - 1])
  BY <1>8, Zenon
<1>10. g \in [0..N -> BOOLEAN]
  <2>1. g = [i \in 0..N |-> g[i]]
    BY <1>8
  <2>2. \A i \in 0..N : g[i] \in BOOLEAN
    BY <1>9
  <2> QED
    BY <2>1, <2>2
<1>11. ~g[0]
  <2>1. 0 \in 0..N /\ ~(0 > 0)
    BY <1>1
  <2>2. g[0] = (0 > 0 /\ lines[0] = marker /\ ~g[0 - 1])
    BY <1>9, <2>1, Zenon
  <2> QED
    BY <2>1, <2>2, Zenon
<1>12. ASSUME NEW i \in 1..N PROVE g[i] <=> lines[i] = marker /\ ~g[i - 1]
  <2>1. i \in 0..N /\ i > 0
    BY <1>1
  <2>2. g[i] = (i > 0 /\ lines[i] = marker /\ ~g[i - 1])
    BY <1>9, <2>1, Zenon
  <2> QED
    BY <2>1, <2>2, Zenon
<1> QED
  BY <1>10, <1>11, <1>12 DEF g

\* What is left of a crontab, and where it was.
KeptLines(t, lines) == {i \in 1..Len(lines) : ~Takes(lines, t.marker)[i] /\ ~Takes(lines, t.marker)[i - 1]}
Cleaned(t, lines) == Picked(lines, KeptLines(t, lines))

LEMMA CleanedIs ==
    ASSUME NEW t, NEW lines \in Seq(Lines)
    PROVE  /\ CrontabWith(t, lines) = IF t.state = "present" THEN Cleaned(t, lines) \o <<t.marker, t.line>>
                                      ELSE Cleaned(t, lines)
           /\ Cleaned(t, lines) \in Seq(Lines) /\ Cardinality(KeptLines(t, lines)) \in Nat
           /\ Len(Cleaned(t, lines)) = Cardinality(KeptLines(t, lines))
           /\ \A i \in 1..Len(Cleaned(t, lines)) : Cleaned(t, lines)[i] # t.marker
           /\ \E pos : /\ InOrder(pos, Cardinality(KeptLines(t, lines)), KeptLines(t, lines))
                       /\ \A i \in 1..Cardinality(KeptLines(t, lines)) : Cleaned(t, lines)[i] = lines[pos[i]]
<1> DEFINE K == KeptLines(t, lines)
           C == Cleaned(t, lines)
           n == Cardinality(K)
           takes == Takes(lines, t.marker)
<1>1. CrontabWith(t, lines) = IF t.state = "present" THEN C \o <<t.marker, t.line>> ELSE C
  BY DEF CrontabWith, Cleaned, KeptLines
<1>2. K \in SUBSET (1..Len(lines))
  BY DEF KeptLines
<1>3. PICK pos : /\ n \in Nat /\ InOrder(pos, n, K) /\ C \in Seq(Lines) /\ Len(C) = n
                 /\ \A i \in 1..n : C[i] = lines[pos[i]]
  BY <1>2, PickedIs DEF Cleaned
<1>4. \A i \in 1..Len(lines) : takes[i] <=> lines[i] = t.marker /\ ~takes[i - 1]
  BY TakesIs
<1>5. \A k \in K : lines[k] # t.marker
  BY <1>4 DEF KeptLines
<1> HIDE DEF K, C
<1>6. \A i \in 1..n : pos[i] \in K
  BY <1>3 DEF InOrder
<1>7. \A i \in 1..Len(C) : C[i] # t.marker
  BY <1>3, <1>5, <1>6
<1> QED
  BY <1>1, <1>3, <1>7 DEF K, C

\* An entry at the end of a list without its marker.
LEMMA EntryAtEnd ==
    ASSUME NEW C \in Seq(Lines), NEW marker \in Lines, NEW line \in Lines
    PROVE  LET new == C \o <<marker, line>> IN
           /\ new \in Seq(Lines) /\ Len(new) = Len(C) + 2
           /\ \A i \in 1..Len(C) : new[i] = C[i]
           /\ new[Len(C) + 1] = marker /\ new[Len(C) + 2] = line
<1> DEFINE e == <<marker, line>>
           new == C \o e
<1>1. e \in Seq(Lines) /\ Len(e) = 2 /\ e[1] = marker /\ e[2] = line
  OBVIOUS
<1> HIDE DEF e
<1>2. /\ new \in Seq(Lines) /\ Len(new) = Len(C) + Len(e) /\ Len(C) \in Nat
      /\ \A i \in 1..(Len(C) + Len(e)) : new[i] = IF i <= Len(C) THEN C[i] ELSE e[i - Len(C)]
  <2>1. Len(C) \in Nat
    OBVIOUS
  <2> QED
    BY <1>1, <2>1, ConcatProperties
<1> HIDE DEF new
<1>3. Len(C) + 1 \in 1..(Len(C) + 2) /\ Len(C) + 2 \in 1..(Len(C) + 2)
  BY <1>2
<1>4. new[Len(C) + 1] = e[(Len(C) + 1) - Len(C)] /\ new[Len(C) + 2] = e[(Len(C) + 2) - Len(C)]
  BY <1>1, <1>2, <1>3
<1>5. (Len(C) + 1) - Len(C) = 1 /\ (Len(C) + 2) - Len(C) = 2
  BY <1>2
<1>6. new[Len(C) + 1] = marker /\ new[Len(C) + 2] = line
  BY <1>1, <1>4, <1>5
<1>7. \A i \in 1..Len(C) : new[i] = C[i]
  BY <1>1, <1>2
<1> QED
  BY <1>1, <1>2, <1>6, <1>7 DEF new, e

LEMMA CrontabType ==
    ASSUME NEW t, NEW lines \in Seq(Lines), t.marker \in Lines, t.line \in Lines
    PROVE  CrontabWith(t, lines) \in Seq(Lines)
<1> DEFINE C == Cleaned(t, lines)
<1>1. /\ C \in Seq(Lines)
      /\ CrontabWith(t, lines) = IF t.state = "present" THEN C \o <<t.marker, t.line>> ELSE C
  BY CleanedIs
<1> HIDE DEF C
<1>2. C \o <<t.marker, t.line>> \in Seq(Lines)
  BY <1>1, EntryAtEnd
<1> QED
  BY <1>1, <1>2

\* The entry is there once, or not at all.
LEMMA CrontabEntry ==
    ASSUME NEW t, NEW lines \in Seq(Lines), t.marker \in Lines, t.line \in Lines
    PROVE  /\ t.state = "present" => Follows(CrontabWith(t, lines), t.marker) = {t.line}
           /\ t.state # "present" => ~Contains(CrontabWith(t, lines), t.marker)
<1> DEFINE C == Cleaned(t, lines)
           new == C \o <<t.marker, t.line>>
<1>1. C \in Seq(Lines) /\ Len(C) \in Nat /\ \A i \in 1..Len(C) : C[i] # t.marker
  BY CleanedIs, ZenonT(40)
<1>2. CrontabWith(t, lines) = IF t.state = "present" THEN new ELSE C
  BY CleanedIs
<1> HIDE DEF C
<1>3. ASSUME t.state # "present" PROVE ~Contains(CrontabWith(t, lines), t.marker)
  BY <1>1, <1>2, <1>3 DEF Contains
<1>4. Follows(new, t.marker) = {t.line}
  <2>1. /\ Len(new) = Len(C) + 2 /\ \A i \in 1..Len(C) : new[i] = C[i]
        /\ new[Len(C) + 1] = t.marker /\ new[Len(C) + 2] = t.line
    BY <1>1, EntryAtEnd
  <2> HIDE DEF new
  <2>2. ASSUME NEW j \in 2..Len(new), new[j - 1] = t.marker PROVE new[j] = t.line
    <3>1. j - 1 \in 1..Len(C) \/ j = Len(C) + 2
      BY <1>1, <2>1
    <3>2. j - 1 \notin 1..Len(C)
      BY <1>1, <2>1, <2>2
    <3> QED
      BY <2>1, <3>1, <3>2
  <2>3. Len(C) + 2 \in 2..Len(new) /\ (Len(C) + 2) - 1 = Len(C) + 1
    BY <1>1, <2>1
  <2>4. \A x \in Follows(new, t.marker) : x = t.line
    BY <2>2 DEF Follows
  <2>5. t.line \in Follows(new, t.marker)
    BY <2>1, <2>3 DEF Follows
  <2> QED
    BY <2>4, <2>5
<1> QED
  BY <1>2, <1>3, <1>4

\* Done twice it is done once.
LEMMA CrontabTwice ==
    ASSUME NEW t, NEW lines \in Seq(Lines), t.marker \in Lines, t.line \in Lines, t.line # t.marker
    PROVE  CrontabWith(t, CrontabWith(t, lines)) = CrontabWith(t, lines)
<1> DEFINE C == Cleaned(t, lines)
           new == CrontabWith(t, lines)
           takes == Takes(new, t.marker)
<1>1. C \in Seq(Lines) /\ Len(C) \in Nat /\ \A i \in 1..Len(C) : C[i] # t.marker
  BY CleanedIs, ZenonT(40)
<1>2. new = IF t.state = "present" THEN C \o <<t.marker, t.line>> ELSE C
  BY CleanedIs
<1>3. new \in Seq(Lines)
  BY CrontabType
<1> HIDE DEF C, new
<1>4. CrontabWith(t, new) = IF t.state = "present" THEN Cleaned(t, new) \o <<t.marker, t.line>> ELSE Cleaned(t, new)
  BY <1>3, CleanedIs
<1>5. takes[0] = FALSE /\ \A i \in 1..Len(new) : takes[i] <=> new[i] = t.marker /\ ~takes[i - 1]
  BY <1>3, TakesIs
<1>6. CASE t.state # "present"
  <2>1. new = C
    BY <1>2, <1>6
  <2>2. \A i \in 1..Len(new) : ~takes[i] /\ ~takes[i - 1]
    <3>1. \A i \in 1..Len(new) : ~takes[i]
      BY <1>1, <1>5, <2>1
    <3> QED
      BY <1>1, <1>5, <2>1, <3>1
  <2>3. KeptLines(t, new) = 1..Len(new)
    BY <2>2 DEF KeptLines
  <2>4. Cleaned(t, new) = new
    BY <1>3, <2>3, PickedAll DEF Cleaned
  <2> QED
    BY <1>4, <1>6, <2>4 DEF new
<1>7. CASE t.state = "present"
  <2>1. /\ Len(new) = Len(C) + 2 /\ \A i \in 1..Len(C) : new[i] = C[i]
        /\ new[Len(C) + 1] = t.marker /\ new[Len(C) + 2] = t.line
    BY <1>1, <1>2, <1>7, EntryAtEnd
  <2>2. \A i \in 1..Len(C) : ~takes[i]
    BY <1>1, <1>5, <2>1
  <2>3. takes[Len(C)] = FALSE \/ ~takes[Len(C)]
    BY <1>1, <1>5, <2>2
  <2>4. takes[Len(C) + 1]
    <3>1. Len(C) + 1 \in 1..Len(new) /\ (Len(C) + 1) - 1 = Len(C)
      BY <1>1, <2>1
    <3> QED
      BY <1>5, <2>1, <2>3, <3>1
  <2>5. \A i \in 1..Len(C) : i \in 1..Len(new) /\ ~takes[i] /\ ~takes[i - 1]
    BY <1>1, <1>5, <2>1, <2>2
  <2>6. \A i \in 1..Len(new) : i \in 1..Len(C) \/ i = Len(C) + 1 \/ (i = Len(C) + 2 /\ i - 1 = Len(C) + 1)
    BY <1>1, <2>1
  <2>7. KeptLines(t, new) = 1..Len(C)
    BY <2>4, <2>5, <2>6 DEF KeptLines
  <2>8. Len(C) \in 0..Len(new)
    BY <1>1, <2>1
  <2> DEFINE D == Picked(new, 1..Len(C))
  <2>9. D \in Seq(Lines) /\ Len(D) = Len(C) /\ \A i \in 1..Len(C) : D[i] = new[i]
    BY <1>3, <2>8, PickedFirst
  <2> HIDE DEF D
  <2>10. D = C
    BY <1>1, <2>1, <2>9, SeqEqual
  <2>11. Cleaned(t, new) = C
    BY <2>7, <2>10 DEF Cleaned, D
  <2> QED
    BY <1>2, <1>4, <1>7, <2>11 DEF new
<1> QED
  BY <1>6, <1>7

\* What a module may do to the lines of a file: own are the lines that are not those of
\* others.
Regular(lines, markers, own) ==
    BlocksWhole(lines, markers) /\ \A k \in markers : Follows(lines, k) \subseteq own
KeepsLines(lines, new, markers, own) ==
    Regular(new, markers, own) /\ ToSet(lines) \ own \subseteq ToSet(new)

LEMMA FollowsIs ==
    ASSUME NEW lines \in Seq(Lines), NEW l
    PROVE  /\ \A i \in 1..(Len(lines) - 1) : lines[i] = l => lines[i + 1] \in Follows(lines, l)
           /\ \A x \in Follows(lines, l) : \E i \in 1..(Len(lines) - 1) : lines[i] = l /\ lines[i + 1] = x
<1>1. ASSUME NEW i \in 1..(Len(lines) - 1), lines[i] = l PROVE lines[i + 1] \in Follows(lines, l)
  <2>1. i + 1 \in 2..Len(lines) /\ (i + 1) - 1 = i
    OBVIOUS
  <2> QED
    BY <1>1, <2>1 DEF Follows
<1>2. ASSUME NEW x \in Follows(lines, l)
      PROVE  \E i \in 1..(Len(lines) - 1) : lines[i] = l /\ lines[i + 1] = x
  <2>1. PICK j \in 2..Len(lines) : lines[j - 1] = l /\ lines[j] = x
    BY DEF Follows
  <2>2. j - 1 \in 1..(Len(lines) - 1) /\ (j - 1) + 1 = j
    OBVIOUS
  <2> QED
    BY <2>1, <2>2
<1> QED
  BY <1>1, <1>2

LEMMA CrontabKeepsLines ==
    ASSUME NEW t, NEW lines \in Seq(Lines), NEW markers, NEW own,
           t.marker \in markers, t.line \notin markers, t.marker \in Lines, t.line \in Lines,
           t.marker \in own, t.line \in own, Regular(lines, markers, own)
    PROVE  KeepsLines(lines, CrontabWith(t, lines), markers, own)
<1> DEFINE K == KeptLines(t, lines)
           C == Cleaned(t, lines)
           n == Cardinality(K)
           takes == Takes(lines, t.marker)
           new == CrontabWith(t, lines)
<1>1. /\ C \in Seq(Lines) /\ n \in Nat /\ Len(C) = n /\ \A i \in 1..n : C[i] # t.marker
      /\ new = IF t.state = "present" THEN C \o <<t.marker, t.line>> ELSE C
  BY CleanedIs
<1>2. PICK pos : InOrder(pos, n, K) /\ \A i \in 1..n : C[i] = lines[pos[i]]
  BY CleanedIs, ZenonT(40)
<1>3. takes[0] = FALSE \/ ~takes[0]
  BY TakesIs
<1>4. \A i \in 1..Len(lines) : takes[i] <=> lines[i] = t.marker /\ ~takes[i - 1]
  BY TakesIs
<1>5. Len(lines) \in Nat
  OBVIOUS
<1>6. \A i \in 1..Len(lines) : lines[i] \in markers => i < Len(lines) /\ lines[i + 1] \notin markers
  BY DEF Regular, BlocksWhole
<1>7. ASSUME NEW k \in markers, NEW i \in 1..(Len(lines) - 1), lines[i] = k PROVE lines[i + 1] \in own
  <2>1. Follows(lines, k) \subseteq own
    BY DEF Regular
  <2> QED
    BY <1>7, <2>1, FollowsIs
<1>8. K \subseteq 1..Len(lines) /\ \A i \in 1..Len(lines) : i \in K <=> ~takes[i] /\ ~takes[i - 1]
  BY DEF KeptLines
<1> HIDE DEF K, C, takes, new, n
<1>9. \A i \in 1..n : pos[i] \in K /\ pos[i] \in 1..Len(lines)
  BY <1>2, <1>8 DEF InOrder
<1>10. \A i, j \in 1..n : i < j => pos[i] < pos[j]
  BY <1>2 DEF InOrder
<1>11. \A k \in K : \E i \in 1..n : pos[i] = k
  BY <1>2 DEF InOrder
<1>12. /\ \A i \in 1..(n - 1) : \A k \in (pos[i] + 1)..(pos[i + 1] - 1) : k \notin K
       /\ n > 0 => \A k \in 1..Len(lines) : k > pos[n] => k \notin K
  BY <1>1, <1>2, <1>5, <1>8, NothingBetween
\* A marker of another stays where it is, and so does the line under it.
<1>13. ASSUME NEW i \in 1..n, C[i] \in markers
       PROVE  i < n /\ C[i + 1] = lines[pos[i] + 1] /\ C[i + 1] \notin markers /\ C[i + 1] \in own
  <2> DEFINE p == pos[i]
  <2>1. p \in K /\ p \in 1..Len(lines) /\ lines[p] \in markers /\ lines[p] # t.marker
    BY <1>1, <1>2, <1>9, <1>13
  <2> HIDE DEF p
  <2>2. p < Len(lines) /\ lines[p + 1] \notin markers /\ p \in 1..(Len(lines) - 1)
    BY <1>5, <1>6, <2>1
  <2>3. p + 1 \in 1..Len(lines) /\ (p + 1) - 1 = p
    BY <1>5, <2>2
  <2>4. ~takes[p] /\ ~takes[p + 1]
    <3>1. lines[p + 1] # t.marker
      BY <2>2
    <3> QED
      BY <1>4, <2>1, <2>3, <3>1
  <2>5. p + 1 \in K
    BY <1>8, <2>3, <2>4
  <2>6. i < n
    <3>1. i = n => p + 1 \notin K
      BY <1>1, <1>12, <2>1, <2>3 DEF p
    <3> QED
      BY <1>1, <2>5, <3>1
  <2>7. i \in 1..(n - 1) /\ i + 1 \in 1..n
    BY <1>1, <2>6
  <2>8. pos[i + 1] > p /\ pos[i + 1] \in Nat
    BY <1>9, <1>10, <2>7 DEF p
  <2>9. ~(p + 1 < pos[i + 1])
    <3>1. p + 1 < pos[i + 1] => p + 1 \in (pos[i] + 1)..(pos[i + 1] - 1)
      BY <2>1, <2>8 DEF p
    <3> QED
      BY <1>12, <2>5, <2>7, <3>1
  <2>10. pos[i + 1] = p + 1
    BY <2>1, <2>8, <2>9
  <2>11. C[i + 1] = lines[p + 1]
    BY <1>2, <2>7, <2>10
  <2>12. lines[p + 1] \in own
    BY <1>7, <2>1, <2>2
  <2> QED
    BY <2>2, <2>6, <2>11, <2>12 DEF p
<1>14. ASSUME NEW i \in 1..Len(lines), lines[i] \notin own PROVE \E j \in 1..n : C[j] = lines[i]
  <2>1. ~takes[i]
    BY <1>4, <1>14
  <2>2. ~takes[i - 1]
    <3>1. CASE i = 1
      BY <1>3, <3>1
    <3>2. CASE i # 1
      <4>1. i - 1 \in 1..(Len(lines) - 1) /\ i - 1 \in 1..Len(lines) /\ (i - 1) + 1 = i
        BY <1>5, <3>2
      <4>2. lines[i - 1] # t.marker
        BY <1>7, <1>14, <4>1
      <4> QED
        BY <1>4, <4>1, <4>2
    <3> QED
      BY <3>1, <3>2
  <2>3. i \in K
    BY <1>8, <2>1, <2>2
  <2> QED
    BY <1>2, <1>11, <2>3
<1>15. /\ new \in Seq(Lines) /\ \A i \in 1..n : i \in 1..Len(new) /\ new[i] = C[i]
       /\ \/ Len(new) = n
          \/ Len(new) = n + 2 /\ new[n + 1] = t.marker /\ new[n + 2] = t.line
  <2>1. CASE t.state = "present"
    <3>1. new = C \o <<t.marker, t.line>>
      BY <1>1, <2>1
    <3>2. /\ new \in Seq(Lines) /\ Len(new) = Len(C) + 2 /\ \A i \in 1..Len(C) : new[i] = C[i]
          /\ new[Len(C) + 1] = t.marker /\ new[Len(C) + 2] = t.line
      BY <1>1, <3>1, EntryAtEnd
    <3> QED
      BY <1>1, <3>2
  <2>2. CASE t.state # "present"
    BY <1>1, <2>2
  <2> QED
    BY <2>1, <2>2
<1>16. ASSUME NEW i \in 1..Len(new), new[i] \in markers
       PROVE  i < Len(new) /\ new[i + 1] \notin markers /\ new[i + 1] \in own
  <2>1. CASE i \in 1..n
    <3>1. C[i] \in markers
      BY <1>15, <1>16, <2>1
    <3>2. i < n /\ C[i + 1] \notin markers /\ C[i + 1] \in own
      BY <1>13, <2>1, <3>1
    <3>3. i + 1 \in 1..n
      BY <1>1, <2>1, <3>2
    <3>4. new[i + 1] = C[i + 1] /\ i + 1 \in 1..Len(new)
      BY <1>15, <3>3
    <3>5. i < Len(new)
      BY <1>1, <1>15, <3>2
    <3> QED
      BY <3>2, <3>4, <3>5
  <2>2. CASE i \notin 1..n
    <3>1. Len(new) = n + 2 /\ new[n + 1] = t.marker /\ new[n + 2] = t.line
      BY <1>1, <1>15, <2>2
    <3>2. i = n + 1 \/ i = n + 2
      BY <1>1, <2>2, <3>1
    <3>3. i = n + 1 /\ i + 1 = n + 2 /\ i < Len(new)
      BY <1>1, <1>16, <3>1, <3>2
    <3> QED
      BY <3>1, <3>3
  <2> QED
    BY <2>1, <2>2
<1>17. Regular(new, markers, own)
  <2>1. BlocksWhole(new, markers)
    BY <1>16 DEF BlocksWhole
  <2>2. ASSUME NEW k \in markers, NEW x \in Follows(new, k) PROVE x \in own
    <3>1. PICK i \in 1..(Len(new) - 1) : new[i] = k /\ new[i + 1] = x
      BY <1>15, FollowsIs
    <3>2. i \in 1..Len(new)
      BY <1>15
    <3> QED
      BY <1>16, <3>1, <3>2
  <2> QED
    BY <2>1, <2>2 DEF Regular
<1>18. ASSUME NEW x \in ToSet(lines), x \notin own PROVE x \in ToSet(new)
  <2>1. IsList(lines) /\ IsList(new)
    BY <1>15, SeqIsList
  <2>2. PICK i \in 1..Len(lines) : lines[i] = x
    BY <2>1, ListDomain
  <2>3. PICK j \in 1..n : C[j] = x
    BY <1>14, <1>18, <2>2
  <2>4. j \in 1..Len(new) /\ new[j] = x
    BY <1>15, <2>3
  <2> QED
    BY <2>1, <2>4, ListDomain
<1>19. KeepsLines(lines, new, markers, own)
  BY <1>17, <1>18 DEF KeepsLines
<1> QED
  BY <1>19 DEF new

LEMMA ContainsIs ==
    ASSUME NEW lines \in Seq(Lines), NEW l
    PROVE  Contains(lines, l) <=> \E i \in 1..Len(lines) : lines[i] = l
  BY DEF Contains

\* A place that satisfies a condition comes first somewhere.
LEMMA FirstOf ==
    ASSUME NEW n \in Nat, NEW I \in SUBSET (1..n), I # {}
    PROVE  \E i \in I : \A j \in I : i <= j
<1>1. I \in SUBSET Nat
  OBVIOUS
<1>2. \E i \in I : \A j \in I : i <= j
  BY <1>1, LeastNatural
<1> QED
  BY <1>2

LEMMA BlockIs ==
    ASSUME NEW t, NEW lines \in Seq(Lines), t.marker \in Lines, t.line \in Lines, Contains(lines, t.marker)
    PROVE  LET new == BlockUpserted(t, lines) IN
           /\ new \in Seq(Lines) /\ Len(new) = Len(lines)
           /\ \A i \in 1..Len(lines) : new[i] = IF i > 1 /\ lines[i - 1] = t.marker THEN t.line ELSE lines[i]
<1> DEFINE f == [i \in 1..Len(lines) |-> IF i > 1 /\ lines[i - 1] = t.marker THEN t.line ELSE lines[i]]
<1>1. BlockUpserted(t, lines) = f
  BY DEF BlockUpserted
<1>2. \A i \in 1..Len(lines) : f[i] \in Lines
  OBVIOUS
<1>3. Len(lines) \in Nat
  OBVIOUS
<1>4. f \in Seq(Lines) /\ Len(f) = Len(lines)
  BY <1>2, <1>3
<1> QED
  BY <1>1, <1>4

LEMMA BlockType ==
    ASSUME NEW t, NEW lines \in Seq(Lines), t.marker \in Lines, t.line \in Lines
    PROVE  BlockUpserted(t, lines) \in Seq(Lines)
<1>1. ~Contains(lines, t.marker) => BlockUpserted(t, lines) = lines \o <<t.marker, t.line>>
  BY DEF BlockUpserted
<1>2. lines \o <<t.marker, t.line>> \in Seq(Lines)
  BY EntryAtEnd
<1> QED
  BY <1>1, <1>2, BlockIs

\* In the new lines the marker is there, and the line stands under each one.
LEMMA BlockMarked ==
    ASSUME NEW t, NEW lines \in Seq(Lines), t.marker \in Lines, t.line \in Lines, t.line # t.marker
    PROVE  LET new == BlockUpserted(t, lines) IN
           /\ \A i \in 2..Len(new) : new[i - 1] = t.marker => new[i] = t.line
           /\ \E i \in 1..Len(new) : new[i] = t.marker
<1> DEFINE new == BlockUpserted(t, lines)
<1>0. Len(lines) \in Nat
  OBVIOUS
<1>1. CASE Contains(lines, t.marker)
  <2>1. /\ new \in Seq(Lines) /\ Len(new) = Len(lines)
        /\ \A i \in 1..Len(lines) : new[i] = IF i > 1 /\ lines[i - 1] = t.marker THEN t.line ELSE lines[i]
    BY <1>1, BlockIs
  <2> HIDE DEF new
  <2>2. ASSUME NEW i \in 2..Len(new), new[i - 1] = t.marker PROVE new[i] = t.line
    <3>1. i - 1 \in 1..Len(lines) /\ i \in 1..Len(lines) /\ i > 1
      BY <1>0, <2>1
    <3>2. lines[i - 1] = t.marker
      BY <2>1, <2>2, <3>1
    <3> QED
      BY <2>1, <3>1, <3>2
  <2> DEFINE I == {i \in 1..Len(lines) : lines[i] = t.marker}
  <2>3. I # {} /\ I \in SUBSET (1..Len(lines))
    BY <1>1, ContainsIs
  <2> HIDE DEF I
  <2>4. PICK i \in I : \A j \in I : i <= j
    BY <1>0, <2>3, FirstOf
  <2>5. i \in 1..Len(lines) /\ lines[i] = t.marker
    BY DEF I
  <2>6. ~(i > 1 /\ lines[i - 1] = t.marker)
    <3>1. i > 1 => i - 1 \in 1..Len(lines) /\ ~(i <= i - 1)
      BY <1>0, <2>5
    <3>2. i > 1 /\ lines[i - 1] = t.marker => i - 1 \in I
      BY <3>1 DEF I
    <3> QED
      BY <2>4, <3>1, <3>2
  <2>7. new[i] = t.marker
    BY <2>1, <2>5, <2>6
  <2> QED
    BY <2>1, <2>2, <2>5, <2>7 DEF new
<1>2. CASE ~Contains(lines, t.marker)
  <2>1. new = lines \o <<t.marker, t.line>>
    BY <1>2 DEF BlockUpserted
  <2>2. \A i \in 1..Len(lines) : lines[i] # t.marker
    BY <1>2, ContainsIs
  <2>3. /\ Len(new) = Len(lines) + 2 /\ \A i \in 1..Len(lines) : new[i] = lines[i]
        /\ new[Len(lines) + 1] = t.marker /\ new[Len(lines) + 2] = t.line
    BY <2>1, EntryAtEnd
  <2> HIDE DEF new
  <2>4. ASSUME NEW i \in 2..Len(new), new[i - 1] = t.marker PROVE new[i] = t.line
    <3>1. i - 1 \in 1..Len(lines) \/ i = Len(lines) + 2
      BY <1>0, <2>3
    <3>2. i - 1 \notin 1..Len(lines)
      BY <2>2, <2>3, <2>4
    <3> QED
      BY <2>3, <3>1, <3>2
  <2>5. Len(lines) + 1 \in 1..Len(new)
    BY <1>0, <2>3
  <2> QED
    BY <2>3, <2>4, <2>5 DEF new
<1> QED
  BY <1>1, <1>2

\* The line stands under its marker, or the marker is all there is at the end.
LEMMA BlockEntry ==
    ASSUME NEW t, NEW lines \in Seq(Lines), t.marker \in Lines, t.line \in Lines, t.line # t.marker
    PROVE  LET new == BlockUpserted(t, lines) IN
           Follows(new, t.marker) = {t.line} \/ Last(new) = t.marker
<1> DEFINE new == BlockUpserted(t, lines)
<1>1. new \in Seq(Lines)
  BY BlockType
<1>2. PICK i \in 1..Len(new) : new[i] = t.marker
  BY BlockMarked
<1>3. \A j \in 2..Len(new) : new[j - 1] = t.marker => new[j] = t.line
  BY BlockMarked
<1> HIDE DEF new
<1>4. Len(new) \in Nat
  BY <1>1
<1>5. \A x \in Follows(new, t.marker) : x = t.line
  BY <1>3 DEF Follows
<1>6. CASE i = Len(new)
  <2>1. Last(new) = new[Len(new)]
    BY DEF Last
  <2> QED
    BY <1>2, <1>6, <2>1 DEF new
<1>7. CASE i # Len(new)
  <2>1. i + 1 \in 2..Len(new) /\ (i + 1) - 1 = i
    BY <1>4, <1>7
  <2>2. new[i + 1] = t.line
    BY <1>2, <1>3, <2>1
  <2>3. t.line \in Follows(new, t.marker)
    BY <1>2, <2>1, <2>2 DEF Follows
  <2>4. Follows(new, t.marker) = {t.line}
    BY <1>5, <2>3
  <2> QED
    BY <2>4 DEF new
<1> QED
  BY <1>6, <1>7

LEMMA BlockTwice ==
    ASSUME NEW t, NEW lines \in Seq(Lines), t.marker \in Lines, t.line \in Lines, t.line # t.marker
    PROVE  BlockUpserted(t, BlockUpserted(t, lines)) = BlockUpserted(t, lines)
<1> DEFINE new == BlockUpserted(t, lines)
           again == BlockUpserted(t, new)
<1>1. new \in Seq(Lines)
  BY BlockType
<1>2. \E i \in 1..Len(new) : new[i] = t.marker
  BY BlockMarked
<1>3. \A j \in 2..Len(new) : new[j - 1] = t.marker => new[j] = t.line
  BY BlockMarked
<1> HIDE DEF new
<1>4. Contains(new, t.marker)
  BY <1>1, <1>2, ContainsIs
<1>5. /\ again \in Seq(Lines) /\ Len(again) = Len(new)
      /\ \A i \in 1..Len(new) : again[i] = IF i > 1 /\ new[i - 1] = t.marker THEN t.line ELSE new[i]
  BY <1>1, <1>4, BlockIs
<1> HIDE DEF again
<1>6. ASSUME NEW i \in 1..Len(new) PROVE again[i] = new[i]
  <2>1. i > 1 => i \in 2..Len(new)
    OBVIOUS
  <2> QED
    BY <1>3, <1>5, <2>1
<1>7. again = new
  BY <1>1, <1>5, <1>6, SeqEqual
<1> QED
  BY <1>7 DEF again, new

\* Lines that are whole stay so when an entry is added at the end.
LEMMA EntryKeepsLines ==
    ASSUME NEW lines \in Seq(Lines), NEW markers, NEW own, NEW marker \in Lines, NEW line \in Lines,
           line \notin markers, line \in own, Regular(lines, markers, own)
    PROVE  KeepsLines(lines, lines \o <<marker, line>>, markers, own)
<1> DEFINE new == lines \o <<marker, line>>
           n == Len(lines)
<1>1. /\ new \in Seq(Lines) /\ Len(new) = n + 2 /\ n \in Nat /\ \A i \in 1..n : new[i] = lines[i]
      /\ new[n + 1] = marker /\ new[n + 2] = line
  BY EntryAtEnd
<1>2. \A i \in 1..n : lines[i] \in markers => i < n /\ lines[i + 1] \notin markers
  BY DEF Regular, BlocksWhole
<1>3. ASSUME NEW k \in markers, NEW i \in 1..(n - 1), lines[i] = k PROVE lines[i + 1] \in own
  <2>1. Follows(lines, k) \subseteq own
    BY DEF Regular
  <2> QED
    BY <1>3, <2>1, FollowsIs
<1> HIDE DEF new
<1>4. ASSUME NEW i \in 1..Len(new), new[i] \in markers
      PROVE  i < Len(new) /\ new[i + 1] \notin markers /\ new[i + 1] \in own
  <2>1. CASE i \in 1..n
    <3>1. lines[i] \in markers
      BY <1>1, <1>4, <2>1
    <3>2. i < n /\ lines[i + 1] \notin markers /\ i \in 1..(n - 1) /\ i + 1 \in 1..n
      BY <1>1, <1>2, <2>1, <3>1
    <3>3. lines[i + 1] \in own /\ new[i + 1] = lines[i + 1]
      BY <1>1, <1>3, <3>1, <3>2
    <3>4. i < Len(new)
      BY <1>1, <3>2
    <3> QED
      BY <3>2, <3>3, <3>4
  <2>2. CASE i \notin 1..n
    <3>1. i = n + 1 \/ i = n + 2
      BY <1>1, <2>2
    <3>2. i = n + 1 /\ i + 1 = n + 2 /\ i < Len(new)
      BY <1>1, <1>4, <3>1
    <3> QED
      BY <1>1, <3>2
  <2> QED
    BY <2>1, <2>2
<1>5. BlocksWhole(new, markers)
  BY <1>4 DEF BlocksWhole
<1>6. ASSUME NEW k \in markers, NEW x \in Follows(new, k) PROVE x \in own
  <2>1. PICK i \in 1..(Len(new) - 1) : new[i] = k /\ new[i + 1] = x
    BY <1>1, FollowsIs
  <2>2. i \in 1..Len(new)
    BY <1>1
  <2> QED
    BY <1>4, <2>1, <2>2
<1>7. ASSUME NEW x \in ToSet(lines) PROVE x \in ToSet(new)
  <2>1. IsList(lines) /\ IsList(new)
    BY <1>1, SeqIsList
  <2>2. PICK i \in 1..n : lines[i] = x
    BY <2>1, ListDomain
  <2>3. i \in 1..Len(new) /\ new[i] = x
    BY <1>1, <2>2
  <2> QED
    BY <2>1, <2>3, ListDomain
<1> QED
  BY <1>5, <1>6, <1>7 DEF KeepsLines, Regular, new

\* Lines stay whole when the line at one place, or under a marker, becomes another.
LEMMA ReplacedKeepsLines ==
    ASSUME NEW lines \in Seq(Lines), NEW new \in Seq(Lines), NEW markers, NEW own, NEW line,
           line \notin markers, line \in own, Regular(lines, markers, own), Len(new) = Len(lines),
           \A i \in 1..Len(lines) : new[i] = lines[i] \/ (new[i] = line /\ lines[i] \in own)
    PROVE  KeepsLines(lines, new, markers, own)
<1> DEFINE n == Len(lines)
<1>1. n \in Nat
  OBVIOUS
<1>2. \A i \in 1..n : lines[i] \in markers => i < n /\ lines[i + 1] \notin markers
  BY DEF Regular, BlocksWhole
<1>3. ASSUME NEW k \in markers, NEW i \in 1..(n - 1), lines[i] = k PROVE lines[i + 1] \in own
  <2>1. Follows(lines, k) \subseteq own
    BY DEF Regular
  <2> QED
    BY <1>3, <2>1, FollowsIs
<1>4. ASSUME NEW i \in 1..n, new[i] \in markers
      PROVE  i < n /\ new[i + 1] \notin markers /\ new[i + 1] \in own
  <2>1. lines[i] \in markers
    BY <1>4
  <2>2. i < n /\ lines[i + 1] \notin markers /\ i \in 1..(n - 1) /\ i + 1 \in 1..n
    BY <1>1, <1>2, <2>1
  <2>3. lines[i + 1] \in own
    BY <1>3, <2>1, <2>2
  <2> QED
    BY <2>2, <2>3
<1>5. BlocksWhole(new, markers)
  BY <1>4 DEF BlocksWhole
<1>6. ASSUME NEW k \in markers, NEW x \in Follows(new, k) PROVE x \in own
  <2>1. PICK i \in 1..(Len(new) - 1) : new[i] = k /\ new[i + 1] = x
    BY FollowsIs
  <2>2. i \in 1..n
    BY <1>1
  <2> QED
    BY <1>4, <2>1, <2>2
<1>7. ASSUME NEW x \in ToSet(lines), x \notin own PROVE x \in ToSet(new)
  <2>1. IsList(lines) /\ IsList(new)
    BY SeqIsList
  <2>2. PICK i \in 1..n : lines[i] = x
    BY <2>1, ListDomain
  <2>3. i \in 1..Len(new) /\ new[i] = x
    BY <1>7, <2>2
  <2> QED
    BY <2>1, <2>3, ListDomain
<1> QED
  BY <1>5, <1>6, <1>7 DEF KeepsLines, Regular

LEMMA BlockKeepsLines ==
    ASSUME NEW t, NEW lines \in Seq(Lines), NEW markers, NEW own,
           t.marker \in markers, t.line \notin markers, t.marker \in Lines, t.line \in Lines,
           t.line \in own, Regular(lines, markers, own)
    PROVE  KeepsLines(lines, BlockUpserted(t, lines), markers, own)
<1> DEFINE new == BlockUpserted(t, lines)
<1>1. CASE Contains(lines, t.marker)
  <2>1. /\ new \in Seq(Lines) /\ Len(new) = Len(lines)
        /\ \A i \in 1..Len(lines) : new[i] = IF i > 1 /\ lines[i - 1] = t.marker THEN t.line ELSE lines[i]
    BY <1>1, BlockIs
  <2>2. Follows(lines, t.marker) \subseteq own
    BY DEF Regular
  <2> HIDE DEF new
  <2>3. ASSUME NEW i \in 1..Len(lines), i > 1, lines[i - 1] = t.marker PROVE lines[i] \in own
    <3>1. i - 1 \in 1..(Len(lines) - 1) /\ (i - 1) + 1 = i
      BY <2>3
    <3>2. lines[(i - 1) + 1] \in Follows(lines, t.marker)
      BY <2>3, <3>1, FollowsIs
    <3> QED
      BY <2>2, <3>1, <3>2
  <2>4. KeepsLines(lines, new, markers, own)
    BY <2>1, <2>3, ReplacedKeepsLines
  <2> QED
    BY <2>4 DEF new
<1>2. CASE ~Contains(lines, t.marker)
  <2>1. new = lines \o <<t.marker, t.line>>
    BY <1>2 DEF BlockUpserted
  <2> QED
    BY <2>1, EntryKeepsLines
<1> QED
  BY <1>1, <1>2

LEMMA LineAdded ==
    ASSUME NEW lines \in Seq(Lines), NEW l \in Lines
    PROVE  /\ Append(lines, l) \in Seq(Lines) /\ Len(Append(lines, l)) = Len(lines) + 1
           /\ \A i \in 1..Len(lines) : Append(lines, l)[i] = lines[i]
           /\ Append(lines, l)[Len(lines) + 1] = l
  BY AppendProperties

\* The places the pattern of a task matches, and the first one.
Hits(t, lines) == {i \in 1..Len(lines) : lines[i] \in t.match}
First(t, lines) == CHOOSE i \in Hits(t, lines) : \A j \in Hits(t, lines) : i <= j

LEMMA LineIs ==
    ASSUME NEW t, NEW lines \in Seq(Lines), t.line \in Lines, t.state \in {"present", "absent"}
    PROVE  LET new == LineEdited(t, lines) IN
           \/ /\ t.state = "absent" /\ t.match = None
              /\ new = Picked(lines, {i \in 1..Len(lines) : lines[i] # t.line})
           \/ /\ t.state = "absent" /\ t.match # None
              /\ new = Picked(lines, {i \in 1..Len(lines) : lines[i] \notin t.match})
           \/ t.state = "present" /\ t.match = None /\ Contains(lines, t.line) /\ new = lines
           \/ t.state = "present" /\ t.match = None /\ ~Contains(lines, t.line) /\ new = Append(lines, t.line)
           \/ t.state = "present" /\ t.match # None /\ Hits(t, lines) = {} /\ new = Append(lines, t.line)
           \/ /\ t.state = "present" /\ t.match # None /\ Hits(t, lines) # {}
              /\ First(t, lines) \in Hits(t, lines)
              /\ new = [lines EXCEPT ![First(t, lines)] = t.line]
<1>0. "present" # "absent"
  OBVIOUS
<1>1. Hits(t, lines) # {} => First(t, lines) \in Hits(t, lines)
  <2>1. Hits(t, lines) \in SUBSET (1..Len(lines)) /\ Len(lines) \in Nat
    BY DEF Hits
  <2> QED
    BY <2>1, FirstOf DEF First
<1>2. CASE t.state = "absent" /\ t.match = None
  <2>1. \A i \in 1..Len(lines) : (IF t.match = None THEN lines[i] # t.line ELSE lines[i] \notin t.match) <=> lines[i] # t.line
    BY <1>2
  <2>2. {i \in 1..Len(lines) : IF t.match = None THEN lines[i] # t.line ELSE lines[i] \notin t.match}
        = {i \in 1..Len(lines) : lines[i] # t.line}
    BY <1>2
  <2>3. LineEdited(t, lines) = Picked(lines, {i \in 1..Len(lines) :
            IF t.match = None THEN lines[i] # t.line ELSE lines[i] \notin t.match})
    BY <1>0, <1>2 DEF LineEdited
  <2> QED
    BY <1>2, <2>2, <2>3
<1>3. CASE t.state = "absent" /\ t.match # None
  <2>2. {i \in 1..Len(lines) : IF t.match = None THEN lines[i] # t.line ELSE lines[i] \notin t.match}
        = {i \in 1..Len(lines) : lines[i] \notin t.match}
    BY <1>3
  <2>3. LineEdited(t, lines) = Picked(lines, {i \in 1..Len(lines) :
            IF t.match = None THEN lines[i] # t.line ELSE lines[i] \notin t.match})
    BY <1>0, <1>3 DEF LineEdited
  <2> QED
    BY <1>3, <2>2, <2>3
<1>4. CASE t.state = "present" /\ t.match = None
  <2>1. LineEdited(t, lines) = IF Contains(lines, t.line) THEN lines ELSE Append(lines, t.line)
    BY <1>0, <1>4 DEF LineEdited
  <2> QED
    BY <1>4, <2>1
<1>5. CASE t.state = "present" /\ t.match # None
  <2>1. LineEdited(t, lines) = IF Hits(t, lines) = {} THEN Append(lines, t.line)
                               ELSE [lines EXCEPT ![First(t, lines)] = t.line]
    BY <1>0, <1>5 DEF LineEdited, Hits, First
  <2> QED
    BY <1>1, <1>5, <2>1
<1> QED
  BY <1>2, <1>3, <1>4, <1>5

\* Only lines that satisfy the condition are picked, and all of them.
LEMMA PickedLines ==
    ASSUME NEW lines \in Seq(Lines), NEW K \in SUBSET (1..Len(lines))
    PROVE  LET new == Picked(lines, K) IN
           /\ new \in Seq(Lines) /\ ToSet(new) = {lines[i] : i \in K}
           /\ K = 1..Len(lines) => new = lines
<1> DEFINE new == Picked(lines, K)
           n == Cardinality(K)
<1>1. PICK pos : /\ n \in Nat /\ InOrder(pos, n, K) /\ new \in Seq(Lines) /\ Len(new) = n
                 /\ \A i \in 1..n : new[i] = lines[pos[i]]
  BY PickedIs
<1>2. K = 1..Len(lines) => new = lines
  BY PickedAll
<1> HIDE DEF new, n
<1>3. /\ \A i \in 1..n : pos[i] \in K
      /\ \A k \in K : \E i \in 1..n : pos[i] = k
  BY <1>1 DEF InOrder
<1>4. IsList(new)
  BY <1>1, SeqIsList
<1>5. \A x : x \in ToSet(new) <=> \E i \in 1..n : new[i] = x
  BY <1>1, <1>4, ListDomain
<1>6. ASSUME NEW x \in ToSet(new) PROVE x \in {lines[i] : i \in K}
  <2>1. PICK i \in 1..n : new[i] = x
    BY <1>5
  <2>2. pos[i] \in K /\ lines[pos[i]] = x
    BY <1>1, <1>3, <2>1
  <2> QED
    BY <2>2
<1>7. ASSUME NEW k \in K PROVE lines[k] \in ToSet(new)
  <2>1. PICK i \in 1..n : pos[i] = k
    BY <1>3
  <2>2. new[i] = lines[k]
    BY <1>1, <2>1
  <2> QED
    BY <1>5, <2>2
<1> QED
  BY <1>1, <1>2, <1>6, <1>7 DEF new

LEMMA LineAbsent ==
    ASSUME NEW t, NEW lines \in Seq(Lines), t.line \in Lines, t.state = "absent"
    PROVE  LET gone == IF t.match = None THEN {t.line} ELSE t.match IN
           LineEdited(t, lines) = Picked(lines, {i \in 1..Len(lines) : lines[i] \notin gone})
<1> DEFINE gone == IF t.match = None THEN {t.line} ELSE t.match
           K == {i \in 1..Len(lines) : lines[i] \notin gone}
<1>1. t.state \in {"present", "absent"}
  OBVIOUS
<1>2. CASE t.match = None
  <2>1. LineEdited(t, lines) = Picked(lines, {i \in 1..Len(lines) : lines[i] # t.line})
    BY <1>1, <1>2, LineIs
  <2>2. K = {i \in 1..Len(lines) : lines[i] # t.line}
    BY <1>2
  <2> QED
    BY <2>1, <2>2
<1>3. CASE t.match # None
  <2>1. LineEdited(t, lines) = Picked(lines, {i \in 1..Len(lines) : lines[i] \notin t.match})
    BY <1>1, <1>3, LineIs
  <2>2. K = {i \in 1..Len(lines) : lines[i] \notin t.match}
    BY <1>3
  <2> QED
    BY <2>1, <2>2
<1> QED
  BY <1>2, <1>3

LEMMA LineType ==
    ASSUME NEW t, NEW lines \in Seq(Lines), t.line \in Lines, t.state \in {"present", "absent"}
    PROVE  LineEdited(t, lines) \in Seq(Lines)
<1> DEFINE new == LineEdited(t, lines)
<1>1. CASE t.state = "absent"
  <2> DEFINE gone == IF t.match = None THEN {t.line} ELSE t.match
             K == {i \in 1..Len(lines) : lines[i] \notin gone}
  <2>1. K \in SUBSET (1..Len(lines)) /\ new = Picked(lines, K)
    BY <1>1, LineAbsent
  <2> QED
    BY <2>1, PickedLines
<1>2. CASE t.state = "present"
  <2>1. \/ new = lines \/ new = Append(lines, t.line)
        \/ /\ First(t, lines) \in Hits(t, lines)
           /\ new = [lines EXCEPT ![First(t, lines)] = t.line]
    BY <1>2, LineIs
  <2>2. Hits(t, lines) \subseteq 1..Len(lines)
    BY DEF Hits
  <2> QED
    BY <2>1, <2>2, LineAdded
<1> QED
  BY <1>1, <1>2

\* The line is there, or none that it stands for.
LEMMA LineEntry ==
    ASSUME NEW t, NEW lines \in Seq(Lines), t.line \in Lines, t.state \in {"present", "absent"}
    PROVE  LET new == LineEdited(t, lines) IN
           /\ t.state = "present" => Contains(new, t.line)
           /\ t.state = "absent" => ToSet(new) \cap (IF t.match = None THEN {t.line} ELSE t.match) = {}
<1> DEFINE new == LineEdited(t, lines)
<1>0. new \in Seq(Lines) /\ Len(lines) \in Nat
  BY LineType
<1>1. ASSUME t.state = "absent" PROVE ToSet(new) \cap (IF t.match = None THEN {t.line} ELSE t.match) = {}
  <2> DEFINE gone == IF t.match = None THEN {t.line} ELSE t.match
             K == {i \in 1..Len(lines) : lines[i] \notin gone}
  <2>1. K \in SUBSET (1..Len(lines)) /\ new = Picked(lines, K)
    BY <1>1, LineAbsent
  <2>2. ToSet(new) = {lines[i] : i \in K}
    BY <2>1, PickedLines
  <2>3. \A x \in ToSet(new) : x \notin gone
    BY <2>2
  <2> QED
    BY <2>3
<1>2. ASSUME t.state = "present" PROVE Contains(new, t.line)
  <2>1. CASE Contains(lines, t.line) /\ new = lines
    BY <2>1
  <2>2. CASE new = Append(lines, t.line)
    <3>1. Len(lines) + 1 \in 1..Len(new) /\ new[Len(lines) + 1] = t.line
      BY <1>0, <2>2, LineAdded
    <3> QED
      BY <1>0, <3>1, ContainsIs
  <2>3. CASE First(t, lines) \in Hits(t, lines) /\ new = [lines EXCEPT ![First(t, lines)] = t.line]
    <3>1. First(t, lines) \in 1..Len(lines)
      BY <2>3 DEF Hits
    <3>2. Len(new) = Len(lines) /\ new[First(t, lines)] = t.line
      BY <2>3, <3>1
    <3> QED
      BY <1>0, <3>1, <3>2, ContainsIs
  <2> QED
    BY <1>2, <2>1, <2>2, <2>3, LineIs
<1> QED
  BY <1>1, <1>2

LEMMA LineTwice ==
    ASSUME NEW t, NEW lines \in Seq(Lines), t.line \in Lines, t.state \in {"present", "absent"},
           t.state = "present" /\ t.match # None => t.line \in t.match
    PROVE  LineEdited(t, LineEdited(t, lines)) = LineEdited(t, lines)
<1> DEFINE new == LineEdited(t, lines)
<1>0. new \in Seq(Lines) /\ Len(lines) \in Nat
  BY LineType
<1>1. CASE t.state = "absent"
  <2> DEFINE gone == IF t.match = None THEN {t.line} ELSE t.match
             K == {i \in 1..Len(new) : new[i] \notin gone}
  <2>1. ToSet(new) \cap gone = {}
    BY <1>1, LineEntry
  <2>2. LineEdited(t, new) = Picked(new, K)
    BY <1>0, <1>1, LineAbsent
  <2> HIDE DEF new, gone
  <2>3. \A i \in 1..Len(new) : new[i] \in ToSet(new)
    <3>1. IsList(new)
      BY <1>0, SeqIsList
    <3> QED
      BY <3>1, ListDomain
  <2>4. K = 1..Len(new)
    BY <2>1, <2>3
  <2>5. LineEdited(t, new) = new
    BY <1>0, <2>2, <2>4, PickedAll
  <2> QED
    BY <2>5 DEF new
<1>2. CASE t.state = "present" /\ t.match = None
  <2>1. Contains(new, t.line)
    BY <1>2, LineEntry
  <2> HIDE DEF new
  <2>2. LineEdited(t, new) = new
    BY <1>0, <1>2, <2>1, LineIs
  <2> QED
    BY <2>2 DEF new
<1>3. CASE t.state = "present" /\ t.match # None
  <2>1. \E f \in Hits(t, new) : new[f] = t.line /\ \A j \in Hits(t, new) : f <= j
    <3>1. CASE Hits(t, lines) = {} /\ new = Append(lines, t.line)
      <4>1. /\ Len(new) = Len(lines) + 1 /\ \A i \in 1..Len(lines) : new[i] = lines[i]
            /\ new[Len(lines) + 1] = t.line
        BY <3>1, LineAdded
      <4> HIDE DEF new
      <4>2. \A i \in 1..Len(lines) : new[i] \notin t.match
        BY <3>1, <4>1 DEF Hits
      <4>3. Len(lines) + 1 \in Hits(t, new)
        BY <1>0, <1>3, <4>1 DEF Hits
      <4>4. \A j \in Hits(t, new) : j = Len(lines) + 1
        BY <1>0, <4>1, <4>2 DEF Hits
      <4> QED
        BY <1>0, <4>1, <4>3, <4>4
    <3>2. CASE /\ Hits(t, lines) # {} /\ First(t, lines) \in Hits(t, lines)
               /\ new = [lines EXCEPT ![First(t, lines)] = t.line]
      <4> DEFINE f == First(t, lines)
      <4>1. f \in 1..Len(lines) /\ f \in Hits(t, lines)
        BY <3>2 DEF Hits
      <4>2. Hits(t, lines) \in SUBSET (1..Len(lines))
        BY DEF Hits
      <4>3. \A j \in Hits(t, lines) : f <= j
        <5>1. \E i \in Hits(t, lines) : \A j \in Hits(t, lines) : i <= j
          BY <1>0, <3>2, <4>2, FirstOf
        <5> QED
          BY <5>1 DEF First
      <4> HIDE DEF f
      <4>4. Len(new) = Len(lines) /\ new[f] = t.line /\ \A i \in 1..Len(lines) : i # f => new[i] = lines[i]
        BY <3>2, <4>1 DEF f
      <4> HIDE DEF new
      <4>5. f \in Hits(t, new)
        BY <1>3, <4>1, <4>4 DEF Hits
      <4>6. \A j \in Hits(t, new) : j = f \/ j \in Hits(t, lines)
        BY <4>4 DEF Hits
      <4>7. f <= f
        BY <4>1
      <4> QED
        BY <4>3, <4>4, <4>5, <4>6, <4>7
    <3> QED
      BY <1>3, <3>1, <3>2, LineIs
  <2> HIDE DEF new
  <2>2. PICK f \in Hits(t, new) : new[f] = t.line /\ \A j \in Hits(t, new) : f <= j
    BY <2>1
  <2>3. Hits(t, new) \subseteq 1..Len(new)
    BY DEF Hits
  <2>4. First(t, new) = f
    <3>1. First(t, new) \in Hits(t, new) /\ \A j \in Hits(t, new) : First(t, new) <= j
      BY <2>2 DEF First
    <3>2. f <= First(t, new) /\ First(t, new) <= f
      BY <2>2, <3>1
    <3>3. f \in 1..Len(new) /\ First(t, new) \in 1..Len(new)
      BY <2>3, <3>1
    <3> QED
      BY <3>2, <3>3
  <2>5. LineEdited(t, new) = [new EXCEPT ![f] = t.line]
    <3>1. Hits(t, new) # {}
      BY <2>2
    <3> QED
      BY <1>0, <1>3, <2>4, <3>1, LineIs
  <2>6. [new EXCEPT ![f] = t.line] = new
    BY <1>0, <2>2, <2>3
  <2> QED
    BY <2>5, <2>6 DEF new
<1> QED
  BY <1>1, <1>2, <1>3

LEMMA LineKeepsLines ==
    ASSUME NEW t, NEW lines \in Seq(Lines), NEW markers, NEW own,
           t.line \in Lines, t.state \in {"present", "absent"}, t.line \notin markers,
           t.state = "absent" => markers = {}, t.line \in own,
           t.match # None => t.match \subseteq own, Regular(lines, markers, own)
    PROVE  KeepsLines(lines, LineEdited(t, lines), markers, own)
<1> DEFINE new == LineEdited(t, lines)
           n == Len(lines)
<1>0. new \in Seq(Lines) /\ n \in Nat
  BY LineType
<1>1. CASE t.state = "absent"
  <2> DEFINE gone == IF t.match = None THEN {t.line} ELSE t.match
             K == {i \in 1..Len(lines) : lines[i] \notin gone}
  <2>1. K \in SUBSET (1..Len(lines)) /\ new = Picked(lines, K)
    BY <1>1, LineAbsent
  <2>2. ToSet(new) = {lines[i] : i \in K}
    BY <2>1, PickedLines
  <2>3. ASSUME NEW x \in ToSet(lines), x \notin own PROVE x \in ToSet(new)
    <3>1. IsList(lines)
      BY SeqIsList
    <3>2. PICK i \in 1..Len(lines) : lines[i] = x
      BY <3>1, ListDomain
    <3>3. x \notin gone
      BY <2>3
    <3>4. i \in K
      BY <3>2, <3>3
    <3> QED
      BY <2>2, <3>2, <3>4
  <2> HIDE DEF new
  <2>4. Regular(new, {}, own)
    BY DEF Regular, BlocksWhole
  <2>5. KeepsLines(lines, new, {}, own)
    BY <2>3, <2>4 DEF KeepsLines
  <2> QED
    BY <1>1, <2>5 DEF new
<1>2. CASE new = lines
  <2>1. KeepsLines(lines, lines, markers, own)
    BY DEF KeepsLines
  <2> QED
    BY <1>2, <2>1
<1>3. CASE new = Append(lines, t.line)
  <2>1. new \in Seq(Lines) /\ Len(new) = n + 1 /\ \A i \in 1..n : new[i] = lines[i]
    BY <1>0, <1>3, LineAdded
  <2>2. new[n + 1] = t.line
    BY <1>3, LineAdded
  <2> HIDE DEF new
  <2>3. \A i \in 1..n : lines[i] \in markers => i < n /\ lines[i + 1] \notin markers
    BY DEF Regular, BlocksWhole
  <2>4. ASSUME NEW k \in markers, NEW i \in 1..(n - 1), lines[i] = k PROVE lines[i + 1] \in own
    <3>1. Follows(lines, k) \subseteq own
      BY DEF Regular
    <3> QED
      BY <2>4, <3>1, FollowsIs
  <2>5. ASSUME NEW i \in 1..Len(new), new[i] \in markers
        PROVE  i < Len(new) /\ new[i + 1] \notin markers /\ new[i + 1] \in own
    <3>1. i # n + 1
      BY <2>2, <2>5
    <3>2. i \in 1..n
      BY <1>0, <2>1, <3>1
    <3>3. lines[i] \in markers
      BY <2>1, <2>5, <3>2
    <3>4. i < n /\ lines[i + 1] \notin markers /\ i \in 1..(n - 1) /\ i + 1 \in 1..n
      BY <1>0, <2>3, <3>2, <3>3
    <3>5. new[i + 1] = lines[i + 1] /\ lines[i + 1] \in own
      BY <2>1, <2>4, <3>3, <3>4
    <3>6. i < Len(new)
      BY <1>0, <2>1, <3>4
    <3> QED
      BY <3>4, <3>5, <3>6
  <2>6. BlocksWhole(new, markers)
    BY <2>5 DEF BlocksWhole
  <2>7. ASSUME NEW k \in markers, NEW x \in Follows(new, k) PROVE x \in own
    <3>1. PICK i \in 1..(Len(new) - 1) : new[i] = k /\ new[i + 1] = x
      BY <2>1, FollowsIs
    <3>2. i \in 1..Len(new)
      BY <1>0, <2>1
    <3> QED
      BY <2>5, <3>1, <3>2
  <2>8. ASSUME NEW x \in ToSet(lines) PROVE x \in ToSet(new)
    <3>1. IsList(lines) /\ IsList(new)
      BY <2>1, SeqIsList
    <3>2. PICK i \in 1..n : lines[i] = x
      BY <3>1, ListDomain
    <3>3. i \in 1..Len(new) /\ new[i] = x
      BY <1>0, <2>1, <3>2
    <3> QED
      BY <3>1, <3>3, ListDomain
  <2> QED
    BY <2>6, <2>7, <2>8 DEF KeepsLines, Regular, new
<1>4. CASE /\ First(t, lines) \in Hits(t, lines) /\ t.match # None
           /\ new = [lines EXCEPT ![First(t, lines)] = t.line]
  <2> DEFINE f == First(t, lines)
  <2>1. f \in 1..n /\ lines[f] \in t.match
    BY <1>4 DEF Hits
  <2> HIDE DEF f
  <2>2. lines[f] \in own
    BY <1>4, <2>1
  <2>3. Len(new) = n /\ new[f] = t.line /\ \A i \in 1..n : i # f => new[i] = lines[i]
    BY <1>4, <2>1 DEF f
  <2> HIDE DEF new
  <2>4. \A i \in 1..n : new[i] = lines[i] \/ (new[i] = t.line /\ lines[i] \in own)
    BY <2>2, <2>3
  <2>5. KeepsLines(lines, new, markers, own)
    BY <1>0, <2>3, <2>4, ReplacedKeepsLines
  <2> QED
    BY <2>5 DEF new
<1>5. t.state = "absent" \/ new = lines \/ new = Append(lines, t.line)
      \/ (/\ First(t, lines) \in Hits(t, lines) /\ t.match # None
          /\ new = [lines EXCEPT ![First(t, lines)] = t.line])
  BY LineIs
<1> QED
  BY <1>1, <1>2, <1>3, <1>4, <1>5

-----------------------------------------------------------------------------
(* Machines and commands.                                                  *)

Contents == {"write", "run", "certbot"}
Deeds == Contents \cup {"remove", "backup", "chmod", "install", "installOne", "uninstall",
    "uninstallOne", "repo", "start", "restart", "reload", "stop", "enable", "disable",
    "useradd", "usermod", "userdel", "ufw", "rule", "reset"}

IsCommand(c, users) ==
    /\ c \in [do : Deeds, on : {c.on}, value : {c.value}, checked : BOOLEAN]
    /\ c.do \in Contents => c.on \in Paths /\ c.value \in Seq(Lines)
    /\ c.do \in {"remove", "backup", "chmod"} => c.on \in Paths
    /\ c.do \in {"useradd", "usermod", "userdel"} => c.on \in users
    /\ c.do \in {"useradd", "usermod"} => c.value \in SUBSET Groups
    /\ c.do \in {"install", "uninstall"} => IsFiniteSet(c.on) /\ c.on # {}
    /\ ~c.checked => c.do \in {"repo", "backup", "chmod", "disable", "stop", "write"}

LEMMA CommandIs ==
    ASSUME NEW do, NEW on, NEW value
    PROVE  /\ LET c == Command(do, on, value) IN
              /\ c \in [do : {do}, on : {on}, value : {value}, checked : BOOLEAN]
              /\ c.do = do /\ c.on = on /\ c.value = value /\ c.checked = TRUE
           /\ LET c == Unchecked(do, on, value) IN
              /\ c \in [do : {do}, on : {on}, value : {value}, checked : BOOLEAN]
              /\ c.do = do /\ c.on = on /\ c.value = value /\ c.checked = FALSE
  BY DEF Command, Unchecked

\* What no command changes.
SameKind(m, n) ==
    n.apt = m.apt /\ n.units = m.units /\ n.broken = m.broken /\ DOMAIN n.users = DOMAIN m.users

\* What a command leaves of a machine.
Lawful(c, m, n) ==
    /\ IsMachine(n) /\ SameKind(m, n)
    /\ c.do \in Contents => n.files = [m.files EXCEPT ![c.on] = c.value]
    /\ c.do = "remove" => n.files = [m.files EXCEPT ![c.on] = None]
    /\ c.do \notin Contents \cup {"remove"} => n.files = m.files
    /\ c.do = "backup" => n.backups = [m.backups EXCEPT ![c.on] = m.files[c.on]]
    /\ c.do # "backup" => n.backups = m.backups

LEMMA EffectIsLawful ==
    ASSUME NEW m, IsMachine(m), NEW c, IsCommand(c, DOMAIN m.users), Possible(c, m),
           NEW n, n = Effect(c, m)
    PROVE  Lawful(c, m, n)
<1>0. c.do \in Deeds
  BY DEF IsCommand
<1>1. CASE c.do \in Contents
  <2>1. n = [m EXCEPT !.files[c.on] = c.value]
    BY <1>1 DEF Effect, Contents
  <2>2. c.on \in Paths /\ c.value \in FileContents
    BY <1>1 DEF IsCommand, FileContents
  <2> QED
    BY <1>1, <2>1, <2>2 DEF IsMachine, SameKind, Lawful, Contents
<1>2. CASE c.do = "remove"
  <2>1. n = [m EXCEPT !.files[c.on] = None]
    BY <1>2 DEF Effect
  <2>2. c.on \in Paths /\ None \in FileContents
    BY <1>2 DEF IsCommand, FileContents
  <2> QED
    BY <1>2, <2>1, <2>2 DEF IsMachine, SameKind, Lawful, Contents
<1>3. CASE c.do = "backup"
  <2>1. n = [m EXCEPT !.backups[c.on] = m.files[c.on]]
    BY <1>3 DEF Effect
  <2>2. c.on \in Paths /\ m.files[c.on] \in FileContents
    BY <1>3 DEF IsCommand, IsMachine
  <2> QED
    BY <1>3, <2>1, <2>2 DEF IsMachine, SameKind, Lawful, Contents
<1>4. ASSUME c.do \in {"useradd", "usermod", "userdel"},
             NEW v \in (SUBSET Groups) \cup {None}, n = [m EXCEPT !.users[c.on] = v]
      PROVE  Lawful(c, m, n)
  <2>1. c.on \in DOMAIN m.users
    BY <1>4 DEF IsCommand
  <2> QED
    BY <1>4, <2>1 DEF IsMachine, SameKind, Lawful, Contents
<1>5. CASE c.do = "useradd"
  <2>1. n = [m EXCEPT !.users[c.on] = c.value]
    BY <1>5 DEF Effect
  <2>2. c.value \in (SUBSET Groups) \cup {None}
    BY <1>5 DEF IsCommand
  <2> QED
    BY <1>4, <1>5, <2>1, <2>2
<1>6. CASE c.do = "usermod"
  <2>1. n = [m EXCEPT !.users[c.on] = m.users[c.on] \cup c.value]
    BY <1>6 DEF Effect
  <2>2. c.on \in DOMAIN m.users /\ c.value \in SUBSET Groups /\ m.users[c.on] # None
    BY <1>6 DEF IsCommand, Possible
  <2>3. m.users[c.on] \in SUBSET Groups
    BY <2>2 DEF IsMachine
  <2>4. m.users[c.on] \cup c.value \in (SUBSET Groups) \cup {None}
    BY <2>2, <2>3
  <2> QED
    BY <1>4, <1>6, <2>1, <2>4
<1>7. CASE c.do = "userdel"
  <2>1. n = [m EXCEPT !.users[c.on] = None]
    BY <1>7 DEF Effect
  <2> QED
    BY <1>4, <1>7, <2>1
<1>8. CASE c.do = "chmod"
  <2>1. n = [m EXCEPT !.modes[c.on] = c.value]
    BY <1>8 DEF Effect
  <2> QED
    BY <1>8, <2>1, SMTT(30) DEF IsMachine, SameKind, Lawful, Contents
<1>9. CASE c.do = "install"
  <2>1. n = [m EXCEPT !.packages = @ \cup c.on, !.repos = @ \cup {HomeOf[p] : p \in c.on}]
    BY <1>9 DEF Effect
  <2> QED
    BY <1>9, <2>1, ZenonT(40) DEF IsMachine, SameKind, Lawful, Contents
<1>10. CASE c.do = "installOne"
  <2>1. n = [m EXCEPT !.packages = @ \cup c.on, !.repos = @ \cup {HomeOf[p] : p \in c.on}]
    BY <1>10 DEF Effect
  <2> QED
    BY <1>10, <2>1 DEF IsMachine, SameKind, Lawful, Contents
<1>11. CASE c.do = "uninstall"
  <2>1. n = [m EXCEPT !.packages = @ \ c.on]
    BY <1>11 DEF Effect
  <2> QED
    BY <1>11, <2>1 DEF IsMachine, SameKind, Lawful, Contents
<1>12. CASE c.do = "uninstallOne"
  <2>1. n = [m EXCEPT !.packages = @ \ c.on]
    BY <1>12 DEF Effect
  <2> QED
    BY <1>12, <2>1 DEF IsMachine, SameKind, Lawful, Contents
<1>13. CASE c.do = "repo"
  <2>1. n = [m EXCEPT !.repos = @ \cup {c.on}]
    BY <1>13 DEF Effect
  <2> QED
    BY <1>13, <2>1 DEF IsMachine, SameKind, Lawful, Contents
<1>14. CASE c.do = "start"
  <2>1. n = [m EXCEPT !.active = @ \cup {c.on}]
    BY <1>14 DEF Effect
  <2> QED
    BY <1>14, <2>1 DEF IsMachine, SameKind, Lawful, Contents
<1>15. CASE c.do = "restart"
  <2>1. n = [m EXCEPT !.active = @ \cup {c.on}]
    BY <1>15 DEF Effect
  <2> QED
    BY <1>15, <2>1 DEF IsMachine, SameKind, Lawful, Contents
<1>16. CASE c.do = "stop"
  <2>1. n = [m EXCEPT !.active = @ \ {c.on}]
    BY <1>16 DEF Effect
  <2> QED
    BY <1>16, <2>1 DEF IsMachine, SameKind, Lawful, Contents
<1>17. CASE c.do = "enable"
  <2>1. n = [m EXCEPT !.enabled = @ \cup {c.on}]
    BY <1>17 DEF Effect
  <2> QED
    BY <1>17, <2>1 DEF IsMachine, SameKind, Lawful, Contents
<1>18. CASE c.do = "disable"
  <2>1. n = [m EXCEPT !.enabled = @ \ {c.on}]
    BY <1>18 DEF Effect
  <2> QED
    BY <1>18, <2>1 DEF IsMachine, SameKind, Lawful, Contents
<1>19. CASE c.do = "ufw"
  <2>1. n = [m EXCEPT !.firewall = (c.value = "enabled")]
    BY <1>19 DEF Effect
  <2> QED
    BY <1>19, <2>1 DEF IsMachine, SameKind, Lawful, Contents
<1>20. CASE c.do = "rule"
  <2>1. n = [m EXCEPT !.rules = @ \cup {c.value}]
    BY <1>20 DEF Effect
  <2> QED
    BY <1>20, <2>1 DEF IsMachine, SameKind, Lawful, Contents
<1>21. CASE c.do = "reset"
  <2>1. n = [m EXCEPT !.rules = {}, !.firewall = FALSE]
    BY <1>21 DEF Effect
  <2> QED
    BY <1>21, <2>1 DEF IsMachine, SameKind, Lawful, Contents
<1>22. CASE c.do = "reload"
  <2>1. n = m
    BY <1>22 DEF Effect
  <2> QED
    BY <1>22, <2>1 DEF IsMachine, SameKind, Lawful, Contents
<1> QED
  BY <1>0, <1>1, <1>2, <1>3, <1>5, <1>6, <1>7, <1>8, <1>9, <1>10, <1>11, <1>12, <1>13, <1>14, <1>15, <1>16, <1>17, <1>18, <1>19, <1>20, <1>21, <1>22 DEF Deeds

LEMMA TornKeepsMachine ==
    ASSUME NEW m, IsMachine(m), NEW c, IsCommand(c, DOMAIN m.users)
    PROVE  /\ IsMachine(Torn(c, m)) /\ SameKind(m, Torn(c, m)) /\ Torn(c, m).backups = m.backups
           /\ \A p \in Paths : Torn(c, m).files[p] # m.files[p] => c.do = "write" /\ p = c.on
<1>1. CASE c.do = "write"
  <2>1. c.on \in Paths /\ <<>> \in FileContents /\ Torn(c, m) = [m EXCEPT !.files[c.on] = <<>>]
    BY <1>1 DEF IsCommand, Contents, FileContents, Torn
  <2> QED
    BY <1>1, <2>1 DEF IsMachine, SameKind
<1>2. CASE c.do # "write"
  <2>1. Torn(c, m) = m
    BY <1>2 DEF Torn
  <2> QED
    BY <2>1 DEF SameKind
<1> QED
  BY <1>1, <1>2

-----------------------------------------------------------------------------
(* What the modules send.                                                  *)

LinesOf(content) == IF content = None THEN <<>> ELSE content

LEMMA LinesAre ==
    ASSUME NEW content \in FileContents
    PROVE  LinesOf(content) \in Seq(Lines) /\ (content # None => LinesOf(content) = content)
  BY DEF LinesOf, FileContents

UnitOf(t, m) == IF m.apt THEN t.name ELSE RpmUnit[t.name]

\* May the module of this task, when it finds the machine like this, send the command?
Serves(c, t, m) ==
    CASE t.module = "package" ->
             IF t.state = "present" THEN c.do = "repo" \/ (c.do = "install" /\ c.on = Wanted(t, m))
             ELSE c.do = "uninstall" /\ c.on = Wanted(t, m)
      [] t.module = "service" ->
             /\ c.on = UnitOf(t, m)
             /\ \/ c.do = "start" /\ t.state = "started"
                \/ c.do = "stop" /\ t.state = "stopped"
                \/ c.do = "restart" /\ t.state = "restarted"
                \/ c.do = "reload" /\ t.state = "reloaded"
                \/ c.do = "enable" /\ t.boot = "on"
                \/ c.do = "disable" /\ t.boot = "off"
      [] t.module \in {"copy", "template"} ->
             c.on = t.path /\ (c.do \in {"backup", "chmod"} \/ (c.do = "write" /\ c.value = t.text))
      [] t.module = "systemd_unit" ->
             IF t.state = "present"
             THEN c.on = t.path /\ (c.do = "backup" \/ (c.do = "write" /\ c.value = t.text))
             ELSE (c.do \in {"disable", "stop"} /\ c.on = t.unit) \/ (c.do = "remove" /\ c.on = t.path)
      [] t.module = "sysctl" ->
             IF t.state = "present" THEN c.do = "write" /\ c.on \in {t.path, t.live} /\ c.value = t.text
             ELSE c.do = "remove" /\ c.on = t.path
      [] t.module = "acme" -> c.do = "certbot" /\ c.on = t.path
      [] t.module = "file" ->
             /\ c.on = t.path
             /\ \/ c.do = "chmod"
                \/ c.do = "remove" /\ t.state = "absent"
                \/ /\ c.do = "write" /\ t.state # "absent"
                   /\ c.value = IF m.files[t.path] = None THEN t.text ELSE m.files[t.path]
                   /\ t.state = "file" => m.files[t.path] = None
                   /\ t.state = "directory" => m.files[t.path] = None
      [] t.module = "lineinfile" ->
             /\ c.on = t.path
             /\ c.do = "backup" \/ (c.do = "write" /\ c.value = LineEdited(t, LinesOf(m.files[t.path])))
      [] t.module = "cron" ->
             c.do = "write" /\ c.on = t.path /\ c.value = CrontabWith(t, LinesOf(m.files[t.path]))
      [] t.module = "env_path" ->
             c.do = "write" /\ c.on \in t.paths /\ c.value = BlockUpserted(t, LinesOf(m.files[c.on]))
      [] t.module = "user" ->
             /\ c.on = t.name
             /\ \/ c.do = "userdel" /\ t.state = "absent"
                \/ c.do \in {"useradd", "usermod"} /\ t.state = "present" /\ c.value = t.groups
      [] t.module = "ufw" ->
             \/ c.do = "ufw" /\ t.state \in {"enabled", "disabled"} /\ c.value = t.state
             \/ c.do = "reset" /\ t.state = "reset"
             \/ c.do = "rule" /\ t.state = "rule" /\ c.value = <<t.verb, t.port>>
      [] t.module = "shell" -> c.do = "run" /\ c.on = t.path /\ c.value = t.text
      [] OTHER -> FALSE

\* The users of the machine are those the tasks are about.
TaskOn(t, m) == IsTask(t) /\ IsMachine(m) /\ (t.module = "user" => t.name \in DOMAIN m.users)

Sent(cs, t, m) ==
    IsList(cs) /\ \A c \in ToSet(cs) : IsCommand(c, DOMAIN m.users) /\ Serves(c, t, m)

IsPlan(plan, t, m, dry) ==
    /\ plan \in [refused : BOOLEAN, changed : BOOLEAN, commands : {plan.commands}]
    /\ Sent(plan.commands, t, m)
    /\ dry => plan.commands = <<>>
    /\ plan.refused => ~plan.changed /\ plan.commands = <<>>
    /\ ~plan.changed => \A c \in ToSet(plan.commands) : c.do = "chmod"

LEMMA SilentIs ==
    ASSUME NEW cs
    PROVE  [Same EXCEPT !.commands = cs] \in [refused : {FALSE}, changed : {FALSE}, commands : {cs}]
<1>1. Same \in [refused : {FALSE}, changed : {FALSE}, commands : {<<>>}]
  BY DEF Same
<1> QED
  BY <1>1

LEMMA PlanForms ==
    ASSUME NEW t, NEW m, NEW dry \in BOOLEAN
    PROVE  /\ IsPlan(Refused, t, m, dry) /\ IsPlan(Same, t, m, dry)
           /\ \A cs : Sent(cs, t, m) => IsPlan(Sends(cs, dry), t, m, dry)
           /\ Sent(<<>>, t, m)
<1>1. IsList(<<>>) /\ ToSet(<<>>) = {}
  BY ListsAre
<1>2. Sent(<<>>, t, m)
  BY <1>1 DEF Sent
<1>3. IsPlan(Refused, t, m, dry)
  BY <1>1, <1>2 DEF IsPlan, Refused
<1>4. IsPlan(Same, t, m, dry)
  BY <1>1, <1>2 DEF IsPlan, Same
<1>5. ASSUME NEW cs, Sent(cs, t, m) PROVE IsPlan(Sends(cs, dry), t, m, dry)
  BY <1>1, <1>2, <1>5 DEF IsPlan, Sends
<1> QED
  BY <1>2, <1>3, <1>4, <1>5

LEMMA SentLists ==
    ASSUME NEW t, NEW m
    PROVE  /\ \A c : IsCommand(c, DOMAIN m.users) /\ Serves(c, t, m) => Sent(<<c>>, t, m)
           /\ \A cs, ds : Sent(cs, t, m) /\ Sent(ds, t, m) => Sent(cs \o ds, t, m)
<1>1. ASSUME NEW c, IsCommand(c, DOMAIN m.users), Serves(c, t, m) PROVE Sent(<<c>>, t, m)
  BY <1>1, ListsAre DEF Sent
<1>2. ASSUME NEW cs, NEW ds, Sent(cs, t, m), Sent(ds, t, m) PROVE Sent(cs \o ds, t, m)
  <2>1. IsList(cs \o ds) /\ ToSet(cs \o ds) = ToSet(cs) \cup ToSet(ds)
    BY <1>2, ConcatOfLists DEF Sent
  <2> QED
    BY <1>2, <2>1 DEF Sent
<1> QED
  BY <1>1, <1>2

\* Lists of one kind of command, made from a set.
LEMMA SentSet ==
    ASSUME NEW t, NEW m, NEW S, IsFiniteSet(S), \A c \in S : IsCommand(c, DOMAIN m.users) /\ Serves(c, t, m)
    PROVE  Sent(SetToSeq(S), t, m)
  BY SetToList DEF Sent

LEMMA FiniteImage ==
    ASSUME NEW S, IsFiniteSet(S), NEW T, NEW f \in [S -> T]
    PROVE  IsFiniteSet({f[x] : x \in S})
<1> DEFINE R == {f[x] : x \in S}
<1>1. f \in Surjection(S, R)
  BY DEF Surjection
<1> QED
  BY <1>1, FS_Surjection

LEMMA WantedIsFinite ==
    ASSUME NEW t, NEW m, IsFiniteSet(t.names)
    PROVE  IsFiniteSet(Wanted(t, m))
<1> DEFINE f == [p \in t.names |-> PackageName(p, m)]
           N == {f[p] : p \in t.names}
<1>1. f \in [t.names -> {PackageName(p, m) : p \in t.names}]
  OBVIOUS
<1>2. N = {PackageName(p, m) : p \in t.names}
  OBVIOUS
<1>3. Wanted(t, m) \subseteq N
  BY <1>2 DEF Wanted
<1> HIDE DEF f
<1>4. IsFiniteSet(N)
  BY <1>1, FiniteImage, ZenonT(40)
<1> HIDE DEF N
<1> QED
  BY <1>3, <1>4, FS_Subset

LEMMA PreflightFits ==
    ASSUME NEW t, NEW m, t.module = "package", t.state = "present", NEW need, IsFiniteSet(need)
    PROVE  Sent(Preflight(need, m), t, m)
<1> DEFINE Q == {q \in need : HomeOf[q] \in {"epel", "stream"}}
           f == [p \in Q |-> Unchecked("repo", HomeOf[p], None)]
           S == {Unchecked("repo", HomeOf[p], None) : p \in Q}
<1>1. IsFiniteSet(Q)
  BY FS_Subset
<1>2. f \in [Q -> S]
  OBVIOUS
<1>3. S = {f[p] : p \in Q}
  OBVIOUS
<1>4. IsFiniteSet(S)
  <2> HIDE DEF f, Q, S
  <2>1. IsFiniteSet({f[p] : p \in Q})
    BY <1>1, <1>2, FiniteImage
  <2> QED
    BY <1>3, <2>1
<1>5. ASSUME NEW c \in S PROVE IsCommand(c, DOMAIN m.users) /\ Serves(c, t, m)
  <2>1. PICK p \in Q : c = Unchecked("repo", HomeOf[p], None)
    BY <1>5
  <2>2. c \in [do : {"repo"}, on : {HomeOf[p]}, value : {None}, checked : BOOLEAN] /\ c.do = "repo"
    BY <2>1 DEF Command, Unchecked
  <2> QED
    BY <2>2 DEF IsCommand, Deeds, Contents, Serves
<1>6. Sent(SetToSeq(S), t, m)
  <2> HIDE DEF S
  <2> QED
    BY <1>4, <1>5, SentSet
<1> QED
  BY <1>6, PlanForms DEF Preflight

LEMMA PackageFits ==
    ASSUME NEW t, NEW m, TaskOn(t, m), t.module = "package", NEW dry \in BOOLEAN
    PROVE  IsPlan(PlanPackage(t, m, dry), t, m, dry)
<1> DEFINE need == Wanted(t, m)
           install == Command("install", need, None)
           uninstall == Command("uninstall", need, None)
           before == Preflight(need, m)
<1>1. IsFiniteSet(need)
  BY WantedIsFinite DEF TaskOn, IsTask
<1> HIDE DEF need
<1>0. CASE need = {}
  <2>1. PlanPackage(t, m, dry) = Same
    BY <1>0 DEF PlanPackage, need
  <2> QED
    BY <2>1, PlanForms
<1>2. CASE t.state = "present" /\ need # {}
  <2>1. IsCommand(install, DOMAIN m.users) /\ Serves(install, t, m)
    BY <1>1, <1>2 DEF Command, IsCommand, Deeds, Contents, Serves, need
  <2>2. Sent(before, t, m)
    BY <1>1, <1>2, PreflightFits
  <2>3. Sent(<<install>>, t, m)
    BY <2>1, SentLists
  <2>4. Sent(before \o <<install>>, t, m)
    BY <2>2, <2>3, SentLists
  <2>5. Append(before, install) = before \o <<install>>
    <3>1. before \in Seq(ToSet(before) \cup {install}) /\ install \in ToSet(before) \cup {install}
      <4> DEFINE S == ToSet(before) \cup {install}
      <4>1. before \in Seq(ToSet(before))
        BY <2>2 DEF Sent, IsList
      <4>2. before \in Seq(S)
        BY <4>1, SeqMonotonic
      <4> QED
        BY <4>2
    <3> QED
      BY <3>1, AppendIsConcat
  <2> HIDE DEF install, before
  <2>6. PlanPackage(t, m, dry) = IF need = {} THEN Same ELSE Sends(Append(before, install), dry)
    BY <1>2 DEF PlanPackage, need, install, before
  <2> QED
    BY <2>4, <2>5, <2>6, PlanForms
<1>3. CASE t.state # "present" /\ need # {}
  <2>1. IsCommand(uninstall, DOMAIN m.users) /\ Serves(uninstall, t, m)
    BY <1>1, <1>3 DEF Command, IsCommand, Deeds, Contents, Serves, need
  <2>2. Sent(<<uninstall>>, t, m)
    BY <2>1, SentLists
  <2> HIDE DEF uninstall
  <2>3. PlanPackage(t, m, dry) = IF need = {} THEN Same ELSE Sends(<<uninstall>>, dry)
    BY <1>3 DEF PlanPackage, need, uninstall
  <2> QED
    BY <2>2, <2>3, PlanForms
<1> QED
  BY <1>0, <1>2, <1>3

LEMMA ServiceFits ==
    ASSUME NEW t, NEW m, t.module = "service", NEW dry \in BOOLEAN
    PROVE  IsPlan(PlanService(t, m, dry), t, m, dry)
<1> DEFINE unit == UnitOf(t, m)
           stateActions ==
               CASE t.state = "started" /\ unit \notin m.active -> <<Command("start", unit, None)>>
                 [] t.state = "stopped" /\ unit \in m.active -> <<Command("stop", unit, None)>>
                 [] t.state = "restarted" -> <<Command("restart", unit, None)>>
                 [] t.state = "reloaded" -> <<Command("reload", unit, None)>>
                 [] OTHER -> <<>>
           bootActions ==
               CASE t.boot = "on" /\ unit \notin m.enabled -> <<Command("enable", unit, None)>>
                 [] t.boot = "off" /\ unit \in m.enabled -> <<Command("disable", unit, None)>>
                 [] OTHER -> <<>>
           actions == stateActions \o bootActions
<1>1. ASSUME NEW do,
             \/ (do = "start" /\ t.state = "started") \/ (do = "stop" /\ t.state = "stopped")
             \/ (do = "restart" /\ t.state = "restarted") \/ (do = "reload" /\ t.state = "reloaded")
             \/ (do = "enable" /\ t.boot = "on") \/ (do = "disable" /\ t.boot = "off")
      PROVE  Sent(<<Command(do, unit, None)>>, t, m)
  <2> DEFINE c == Command(do, unit, None)
  <2>1. c.do = do /\ c.on = unit /\ c \in [do : {do}, on : {unit}, value : {None}, checked : BOOLEAN] /\ c.checked
    BY DEF Command
  <2> HIDE DEF c, unit
  <2>2. IsCommand(c, DOMAIN m.users)
    BY <1>1, <2>1 DEF IsCommand, Deeds, Contents
  <2>3. Serves(c, t, m)
    BY <1>1, <2>1 DEF Serves, unit
  <2>4. Sent(<<c>>, t, m)
    BY <2>2, <2>3, SentLists
  <2> QED
    BY <2>4 DEF c
<1> HIDE DEF unit
<1>2. Sent(stateActions, t, m)
  <2>1. stateActions \in {<<>>, <<Command("start", unit, None)>>, <<Command("stop", unit, None)>>,
                          <<Command("restart", unit, None)>>, <<Command("reload", unit, None)>>}
    BY Zenon
  <2>2. /\ stateActions = <<Command("start", unit, None)>> => t.state = "started"
        /\ stateActions = <<Command("stop", unit, None)>> => t.state = "stopped"
        /\ stateActions = <<Command("restart", unit, None)>> => t.state = "restarted"
        /\ stateActions = <<Command("reload", unit, None)>> => t.state = "reloaded"
    BY DEF Command
  <2> HIDE DEF stateActions
  <2> QED
    BY <1>1, <2>1, <2>2, PlanForms
<1>3. Sent(bootActions, t, m)
  <2>1. bootActions \in {<<>>, <<Command("enable", unit, None)>>, <<Command("disable", unit, None)>>}
    BY Zenon
  <2>2. /\ bootActions = <<Command("enable", unit, None)>> => t.boot = "on"
        /\ bootActions = <<Command("disable", unit, None)>> => t.boot = "off"
    BY DEF Command
  <2> HIDE DEF bootActions
  <2> QED
    BY <1>1, <2>1, <2>2, PlanForms
<1>4. Sent(actions, t, m)
  <2> HIDE DEF stateActions, bootActions
  <2> QED
    BY <1>2, <1>3, SentLists
<1>5. PlanService(t, m, dry) =
          CASE unit = None -> Same
            [] unit # None /\ unit \notin m.units -> IF t.lenient THEN Same ELSE Refused
            [] OTHER -> IF actions = <<>> THEN Same ELSE Sends(actions, dry)
  BY DEF PlanService, unit, UnitOf
<1> HIDE DEF actions
<1>6. PlanService(t, m, dry) \in {Same, Refused, Sends(actions, dry)}
  BY <1>5
<1>7. IsPlan(Sends(actions, dry), t, m, dry)
  BY <1>4, PlanForms
<1> QED
  BY <1>6, <1>7, PlanForms

\* The parts of the plans of modules that write a file.
LEMMA FileParts ==
    ASSUME NEW t, NEW m, TaskOn(t, m), t.path \in Paths
    PROVE  /\ (\A c : c.do = "backup" /\ c.on = t.path => Serves(c, t, m)) => Sent(BackupOnce(t, m), t, m)
           /\ (\A c : c.do = "chmod" /\ c.on = t.path => Serves(c, t, m)) => Sent(Chmod(t), t, m)
<1>1. ASSUME \A c : c.do = "backup" /\ c.on = t.path => Serves(c, t, m)
      PROVE  Sent(BackupOnce(t, m), t, m)
  <2> DEFINE c == Unchecked("backup", t.path, None)
  <2>1. c \in [do : {"backup"}, on : {t.path}, value : {None}, checked : BOOLEAN]
        /\ c.do = "backup" /\ c.on = t.path
    BY DEF Command, Unchecked
  <2> HIDE DEF c
  <2>2. IsCommand(c, DOMAIN m.users) /\ Serves(c, t, m)
    BY <1>1, <2>1 DEF IsCommand, Deeds, Contents
  <2>3. Sent(<<c>>, t, m)
    BY <2>2, SentLists
  <2>4. BackupOnce(t, m) \in {<<c>>, <<>>}
    BY DEF BackupOnce, c
  <2> QED
    BY <2>3, <2>4, PlanForms
<1>2. ASSUME \A c : c.do = "chmod" /\ c.on = t.path => Serves(c, t, m)
      PROVE  Sent(Chmod(t), t, m)
  <2> DEFINE c == Unchecked("chmod", t.path, t.mode)
  <2>1. c \in [do : {"chmod"}, on : {t.path}, value : {t.mode}, checked : BOOLEAN]
        /\ c.do = "chmod" /\ c.on = t.path
    BY DEF Command, Unchecked
  <2> HIDE DEF c
  <2>2. IsCommand(c, DOMAIN m.users) /\ Serves(c, t, m)
    BY <1>2, <2>1 DEF IsCommand, Deeds, Contents
  <2>3. Sent(<<c>>, t, m)
    BY <2>2, SentLists
  <2>4. Chmod(t) \in {<<c>>, <<>>}
    BY DEF Chmod, c
  <2> QED
    BY <2>3, <2>4, PlanForms
<1> QED
  BY <1>1, <1>2

\* A command that leaves lines in a file.
LEMMA WriteFits ==
    ASSUME NEW t, NEW m, NEW do \in Contents, NEW p \in Paths, NEW v \in Seq(Lines),
           Serves(Command(do, p, v), t, m)
    PROVE  Sent(<<Command(do, p, v)>>, t, m)
<1> DEFINE c == Command(do, p, v)
<1>1. c \in [do : {do}, on : {p}, value : {v}, checked : BOOLEAN] /\ c.do = do /\ c.on = p /\ c.value = v /\ c.checked
  BY DEF Command
<1> HIDE DEF c
<1>2. IsCommand(c, DOMAIN m.users)
  BY <1>1 DEF IsCommand, Deeds, Contents
<1>3. Sent(<<c>>, t, m)
  BY <1>2, SentLists DEF c
<1> QED
  BY <1>3 DEF c

LEMMA RemoveFits ==
    ASSUME NEW t, NEW m, NEW p \in Paths, Serves(Command("remove", p, None), t, m)
    PROVE  Sent(<<Command("remove", p, None)>>, t, m)
<1> DEFINE c == Command("remove", p, None)
<1>1. c \in [do : {"remove"}, on : {p}, value : {None}, checked : BOOLEAN] /\ c.do = "remove" /\ c.on = p /\ c.checked
  BY DEF Command
<1> HIDE DEF c
<1>2. IsCommand(c, DOMAIN m.users)
  BY <1>1 DEF IsCommand, Deeds, Contents
<1>3. Sent(<<c>>, t, m)
  BY <1>2, SentLists DEF c
<1> QED
  BY <1>3 DEF c

LEMMA CopyFits ==
    ASSUME NEW t, NEW m, TaskOn(t, m), t.module \in {"copy", "template"}, NEW dry \in BOOLEAN
    PROVE  /\ t.module = "copy" => IsPlan(PlanCopy(t, m, dry), t, m, dry)
           /\ t.module = "template" => IsPlan(PlanTemplate(t, m, dry), t, m, dry)
<1> DEFINE c == Command("write", t.path, t.text)
           keep == IF t.backup /\ m.files[t.path] # None
                   THEN <<Unchecked("backup", t.path, None)>> ELSE <<>>
<1>1. t.path \in Paths /\ t.text \in Seq(Lines)
  BY DEF TaskOn, IsTask
<1>2. \A d : d.do \in {"backup", "chmod"} /\ d.on = t.path => Serves(d, t, m)
  BY DEF Serves
<1>3. Sent(BackupOnce(t, m), t, m) /\ Sent(Chmod(t), t, m)
  BY <1>1, <1>2, FileParts
<1>4. Sent(<<c>>, t, m)
  <2>1. Serves(c, t, m)
    BY DEF Serves, Command
  <2> QED
    BY <1>1, <2>1, WriteFits DEF Contents
<1>5. Sent(keep, t, m)
  <2> DEFINE d == Unchecked("backup", t.path, None)
  <2>1. d \in [do : {"backup"}, on : {t.path}, value : {None}, checked : BOOLEAN]
        /\ d.do = "backup" /\ d.on = t.path
    BY DEF Command, Unchecked
  <2> HIDE DEF d
  <2>2. IsCommand(d, DOMAIN m.users) /\ Serves(d, t, m)
    BY <1>1, <1>2, <2>1 DEF IsCommand, Deeds, Contents
  <2>3. Sent(<<d>>, t, m)
    BY <2>2, SentLists
  <2>4. keep \in {<<d>>, <<>>}
    BY DEF d
  <2> HIDE DEF keep
  <2> QED
    BY <2>3, <2>4, PlanForms
<1> DEFINE w == <<c>>
           f == BackupOnce(t, m)
           g == Chmod(t)
<1>6. /\ PlanCopy(t, m, dry) \in {Same, Sends(f \o w \o g, dry)}
      /\ PlanTemplate(t, m, dry) \in {Same, Sends(keep \o w \o g, dry)}
  BY DEF PlanCopy, PlanTemplate
<1> HIDE DEF w, f, g, c, keep
<1>7. Sent(f, t, m) /\ Sent(w, t, m) /\ Sent(g, t, m) /\ Sent(keep, t, m)
  BY <1>3, <1>4, <1>5 DEF f, g, w
<1>8. Sent(f \o w, t, m) /\ Sent(keep \o w, t, m)
  BY <1>7, SentLists
<1>9. Sent((f \o w) \o g, t, m) /\ Sent((keep \o w) \o g, t, m)
  BY <1>7, <1>8, SentLists
<1>10. IsPlan(Sends(f \o w \o g, dry), t, m, dry) /\ IsPlan(Sends(keep \o w \o g, dry), t, m, dry)
  BY <1>9, PlanForms
<1> QED
  BY <1>6, <1>10, PlanForms

LEMMA UnitFits ==
    ASSUME NEW t, NEW m, TaskOn(t, m), t.module = "systemd_unit", NEW dry \in BOOLEAN
    PROVE  IsPlan(PlanUnit(t, m, dry), t, m, dry)
<1>1. t.path \in Paths /\ t.text \in Seq(Lines)
  BY DEF TaskOn, IsTask
<1>2. CASE t.state = "present"
  <2> DEFINE w == <<Command("write", t.path, t.text)>>
             f == BackupOnce(t, m)
  <2>1. \A d : d.do = "backup" /\ d.on = t.path => Serves(d, t, m)
    BY <1>2 DEF Serves
  <2>2. Sent(f, t, m)
    BY <1>1, <2>1, FileParts
  <2>3. Sent(w, t, m)
    <3>1. Serves(Command("write", t.path, t.text), t, m)
      BY <1>2 DEF Serves, Command
    <3> QED
      BY <1>1, <3>1, WriteFits DEF Contents
  <2>4. PlanUnit(t, m, dry) \in {Same, Sends(f \o w, dry)}
    BY <1>2 DEF PlanUnit
  <2> HIDE DEF w, f
  <2>5. Sent(f \o w, t, m)
    BY <2>2, <2>3, SentLists
  <2> QED
    BY <2>4, <2>5, PlanForms
<1>3. CASE t.state # "present"
  <2> DEFINE a == Unchecked("disable", t.unit, None)
             b == Unchecked("stop", t.unit, None)
             r == Command("remove", t.path, None)
  <2>1. /\ a \in [do : {"disable"}, on : {t.unit}, value : {None}, checked : BOOLEAN]
        /\ b \in [do : {"stop"}, on : {t.unit}, value : {None}, checked : BOOLEAN]
        /\ r \in [do : {"remove"}, on : {t.path}, value : {None}, checked : BOOLEAN] /\ r.checked
    BY DEF Command, Unchecked
  <2>2. PlanUnit(t, m, dry) \in {Same, Sends(<<a, b, r>>, dry)}
    BY <1>3 DEF PlanUnit
  <2> HIDE DEF a, b, r
  <2>3. IsCommand(a, DOMAIN m.users) /\ Serves(a, t, m)
    BY <1>3, <2>1 DEF IsCommand, Deeds, Contents, Serves
  <2>4. IsCommand(b, DOMAIN m.users) /\ Serves(b, t, m)
    BY <1>3, <2>1 DEF IsCommand, Deeds, Contents, Serves
  <2>5. IsCommand(r, DOMAIN m.users) /\ Serves(r, t, m)
    BY <1>1, <1>3, <2>1 DEF IsCommand, Deeds, Contents, Serves
  <2>6. IsList(<<a, b, r>>) /\ ToSet(<<a, b, r>>) = {a, b, r}
    BY ListsAre
  <2>7. Sent(<<a, b, r>>, t, m)
    BY <2>3, <2>4, <2>5, <2>6 DEF Sent
  <2> QED
    BY <2>2, <2>7, PlanForms
<1> QED
  BY <1>2, <1>3

LEMMA SysctlFits ==
    ASSUME NEW t, NEW m, TaskOn(t, m), t.module = "sysctl", NEW dry \in BOOLEAN
    PROVE  IsPlan(PlanSysctl(t, m, dry), t, m, dry)
<1>1. t.path \in Paths /\ t.text \in Seq(Lines) /\ t.live \in Paths
  BY DEF TaskOn, IsTask
<1>2. CASE t.state = "present"
  <2> DEFINE a == Command("write", t.path, t.text)
             b == Unchecked("write", t.live, t.text)
  <2>1. /\ a \in [do : {"write"}, on : {t.path}, value : {t.text}, checked : BOOLEAN]
        /\ b \in [do : {"write"}, on : {t.live}, value : {t.text}, checked : BOOLEAN]
    BY DEF Command, Unchecked
  <2>2. PlanSysctl(t, m, dry) \in {Same, Sends(<<a, b>>, dry)}
    BY <1>2 DEF PlanSysctl
  <2> HIDE DEF a, b
  <2>3. IsCommand(a, DOMAIN m.users) /\ Serves(a, t, m)
    BY <1>1, <1>2, <2>1 DEF IsCommand, Deeds, Contents, Serves
  <2>4. IsCommand(b, DOMAIN m.users) /\ Serves(b, t, m)
    BY <1>1, <1>2, <2>1 DEF IsCommand, Deeds, Contents, Serves
  <2>5. IsList(<<a, b>>) /\ ToSet(<<a, b>>) = {a, b}
    BY ListsAre
  <2>6. Sent(<<a, b>>, t, m)
    BY <2>3, <2>4, <2>5 DEF Sent
  <2> QED
    BY <2>2, <2>6, PlanForms
<1>3. CASE t.state # "present"
  <2>1. PlanSysctl(t, m, dry) \in {Same, Sends(<<Command("remove", t.path, None)>>, dry)}
    BY <1>3 DEF PlanSysctl
  <2>2. Serves(Command("remove", t.path, None), t, m)
    BY <1>3 DEF Serves, Command
  <2>3. Sent(<<Command("remove", t.path, None)>>, t, m)
    BY <1>1, <2>2, RemoveFits
  <2> QED
    BY <2>1, <2>3, PlanForms
<1> QED
  BY <1>2, <1>3

LEMMA OneWriteFits ==
    ASSUME NEW t, NEW m, TaskOn(t, m), NEW dry \in BOOLEAN
    PROVE  /\ t.module = "acme" => IsPlan(PlanAcme(t, m, dry), t, m, dry)
           /\ t.module = "cron" => IsPlan(PlanCron(t, m, dry), t, m, dry)
           /\ t.module = "shell" => IsPlan(PlanShell(t, m, dry), t, m, dry)
<1>1. ASSUME t.module = "acme" PROVE IsPlan(PlanAcme(t, m, dry), t, m, dry)
  <2> DEFINE w == <<Command("certbot", t.path, t.text)>>
  <2>1. Serves(Command("certbot", t.path, t.text), t, m)
    BY <1>1 DEF Serves, Command
  <2>2. t.path \in Paths /\ t.text \in Seq(Lines)
    BY <1>1 DEF TaskOn, IsTask
  <2>3. Sent(w, t, m)
    BY <2>1, <2>2, WriteFits DEF Contents
  <2>4. PlanAcme(t, m, dry) \in {Same, Refused, Sends(w, dry)}
    BY DEF PlanAcme
  <2> QED
    BY <2>3, <2>4, PlanForms
<1>2. ASSUME t.module = "cron" PROVE IsPlan(PlanCron(t, m, dry), t, m, dry)
  <2> DEFINE lines == LinesOf(m.files[t.path])
             new == CrontabWith(t, lines)
             w == <<Command("write", t.path, new)>>
  <2>1. t.path \in Paths /\ t.marker \in Lines /\ t.line \in Lines /\ m.files[t.path] \in FileContents
    BY <1>2 DEF TaskOn, IsTask, IsMachine
  <2>2. new \in Seq(Lines)
    BY <2>1, LinesAre, CrontabType
  <2>3. Serves(Command("write", t.path, new), t, m)
    BY <1>2 DEF Serves, Command
  <2>4. Sent(w, t, m)
    <3> HIDE DEF new
    <3> QED
      BY <2>1, <2>2, <2>3, WriteFits DEF Contents
  <2>5. PlanCron(t, m, dry) = IF new = lines THEN Same ELSE Sends(w, dry)
    BY DEF PlanCron, LinesOf
  <2> QED
    BY <2>4, <2>5, PlanForms
<1>3. ASSUME t.module = "shell" PROVE IsPlan(PlanShell(t, m, dry), t, m, dry)
  <2> DEFINE w == <<Command("run", t.path, t.text)>>
  <2>1. Serves(Command("run", t.path, t.text), t, m)
    BY <1>3 DEF Serves, Command
  <2>2. t.path \in Paths /\ t.text \in Seq(Lines)
    BY <1>3 DEF TaskOn, IsTask
  <2>3. Sent(w, t, m)
    BY <2>1, <2>2, WriteFits DEF Contents
  <2>4. PlanShell(t, m, dry) \in {Same, Sends(w, dry)}
    BY DEF PlanShell
  <2> QED
    BY <2>3, <2>4, PlanForms
<1> QED
  BY <1>1, <1>2, <1>3

LEMMA FileFits ==
    ASSUME NEW t, NEW m, TaskOn(t, m), t.module = "file", NEW dry \in BOOLEAN
    PROVE  IsPlan(PlanFile(t, m, dry), t, m, dry)
<1> DEFINE here == m.files[t.path]
           v == IF here = None THEN t.text ELSE here
           w == <<Command("write", t.path, v)>>
           g == Chmod(t)
           r == <<Command("remove", t.path, None)>>
           there == (t.state = "file" /\ here # None) \/ (t.state = "directory" /\ here = t.text)
           silent == [Same EXCEPT !.commands = g]
<1>1. t.path \in Paths /\ t.text \in Seq(Lines) /\ here \in FileContents
  BY DEF TaskOn, IsTask, IsMachine
<1>2. Sent(g, t, m)
  <2>1. \A d : d.do = "chmod" /\ d.on = t.path => Serves(d, t, m)
    BY DEF Serves
  <2> QED
    BY <1>1, <2>1, FileParts
<1>3. v \in Seq(Lines)
  BY <1>1 DEF FileContents
<1>4. ASSUME t.state = "absent" PROVE Sent(r, t, m)
  <2>1. Serves(Command("remove", t.path, None), t, m)
    BY <1>4 DEF Serves, Command
  <2> QED
    BY <1>1, <2>1, RemoveFits
<1>5. ASSUME t.state # "absent", t.state = "file" => here = None, t.state = "directory" => here = None
      PROVE  Sent(w \o g, t, m)
  <2>1. Serves(Command("write", t.path, v), t, m)
    BY <1>5 DEF Serves, Command
  <2> HIDE DEF v, g
  <2>2. Sent(w, t, m)
    BY <1>1, <1>3, <2>1, WriteFits DEF Contents
  <2> HIDE DEF w
  <2> QED
    BY <1>2, <2>2, SentLists
<1>6. IsPlan(silent, t, m, dry) \/ dry
  <2>1. \A c \in ToSet(g) : c.do = "chmod"
    <3> DEFINE c == Unchecked("chmod", t.path, t.mode)
    <3>1. g \in {<<>>, <<c>>}
      BY DEF Chmod
    <3>2. c.do = "chmod"
      BY DEF Unchecked, Command
    <3> HIDE DEF c, g
    <3> QED
      BY <3>1, <3>2, ListsAre
  <2> HIDE DEF g, here
  <2>2. silent \in [refused : {FALSE}, changed : {FALSE}, commands : {g}]
    BY SilentIs
  <2> HIDE DEF silent
  <2>3. /\ silent \in [refused : BOOLEAN, changed : BOOLEAN, commands : {silent.commands}]
        /\ silent.commands = g /\ ~silent.refused /\ ~silent.changed
    BY <2>2
  <2> QED
    BY <1>2, <2>1, <2>3 DEF IsPlan
<1>7. PlanFile(t, m, dry) =
          CASE t.state = "absent" /\ here = None -> Same
            [] t.state = "absent" /\ here # None -> Sends(r, dry)
            [] there -> IF dry THEN Same ELSE silent
            [] t.state = "directory" /\ here \notin {None, t.text} ->
                   IF dry THEN Sends(<<>>, TRUE) ELSE Refused
            [] OTHER -> Sends(w \o g, dry)
  BY DEF PlanFile
<1> DEFINE u == w \o g
           plan == PlanFile(t, m, dry)
<1>8. CASE t.state = "absent"
  <2> HIDE DEF r, u, silent, here
  <2>1. plan \in {Same, Sends(r, dry)}
    BY <1>7, <1>8 DEF u
  <2> QED
    BY <1>4, <1>8, <2>1, PlanForms
<1>9. CASE t.state # "absent" /\ there
  <2>1. plan = IF dry THEN Same ELSE silent
    BY <1>7, <1>9
  <2> HIDE DEF plan, silent
  <2>2. IsPlan(plan, t, m, dry)
    BY <1>6, <2>1, PlanForms
  <2> QED
    BY <2>2 DEF plan
<1>10. CASE t.state = "directory" /\ here \notin {None, t.text}
  <2>1. plan = IF dry THEN Sends(<<>>, TRUE) ELSE Refused
    BY <1>7, <1>10
  <2> HIDE DEF plan
  <2>2. IsPlan(plan, t, m, dry)
    BY <2>1, PlanForms
  <2> QED
    BY <2>2 DEF plan
<1>11. CASE t.state # "absent" /\ ~there /\ ~(t.state = "directory" /\ here \notin {None, t.text})
  <2>1. plan = Sends(u, dry)
    BY <1>7, <1>11
  <2>2. (t.state = "file" => here = None) /\ (t.state = "directory" => here = None)
    BY <1>11
  <2>3. Sent(u, t, m)
    BY <1>5, <1>11, <2>2
  <2> HIDE DEF plan, u
  <2>4. IsPlan(plan, t, m, dry)
    BY <2>1, <2>3, PlanForms
  <2> QED
    BY <2>4 DEF plan
<1> QED
  BY <1>8, <1>9, <1>10, <1>11

LEMMA LineFits ==
    ASSUME NEW t, NEW m, TaskOn(t, m), t.module = "lineinfile", NEW dry \in BOOLEAN
    PROVE  IsPlan(PlanLine(t, m, dry), t, m, dry)
<1> DEFINE here == m.files[t.path]
           lines == LinesOf(here)
           new == LineEdited(t, lines)
           w == <<Command("write", t.path, new)>>
           f == BackupOnce(t, m)
<1>1. t.path \in Paths /\ t.line \in Lines /\ here \in FileContents /\ t.state \in {"present", "absent"}
  BY DEF TaskOn, IsTask, IsMachine
<1>2. new \in Seq(Lines)
  BY <1>1, LinesAre, LineType
<1>3. Serves(Command("write", t.path, new), t, m)
  BY DEF Serves, Command
<1>4. Sent(f, t, m)
  <2>1. \A d : d.do = "backup" /\ d.on = t.path => Serves(d, t, m)
    BY DEF Serves
  <2> QED
    BY <1>1, <2>1, FileParts
<1>5. PlanLine(t, m, dry) =
          CASE here = None /\ t.state = "present" /\ ~t.create -> Refused
            [] here = None /\ t.state = "absent" -> Same
            [] OTHER -> IF new = lines THEN Same ELSE Sends(f \o w, dry)
  BY DEF PlanLine, LinesOf
<1> HIDE DEF new
<1>6. Sent(w, t, m)
  BY <1>1, <1>2, <1>3, WriteFits DEF Contents
<1> HIDE DEF w, f
<1>7. Sent(f \o w, t, m)
  BY <1>4, <1>6, SentLists
<1>8. PlanLine(t, m, dry) \in {Refused, Same, Sends(f \o w, dry)}
  BY <1>5
<1> QED
  BY <1>7, <1>8, PlanForms

LEMMA EnvPathFits ==
    ASSUME NEW t, NEW m, TaskOn(t, m), t.module = "env_path", NEW dry \in BOOLEAN
    PROVE  IsPlan(PlanEnvPath(t, m, dry), t, m, dry)
<1> DEFINE new(p) == BlockUpserted(t, LinesOf(m.files[p]))
           written == {p \in t.paths : new(p) # m.files[p]}
           f == [p \in written |-> Command("write", p, new(p))]
           S == {Command("write", p, new(p)) : p \in written}
<1>1. t.paths \subseteq Paths /\ IsFiniteSet(t.paths) /\ t.line \in Lines /\ t.marker \in Lines
      /\ m.files \in [Paths -> FileContents]
  BY DEF TaskOn, IsTask, IsMachine
<1>2. PlanEnvPath(t, m, dry) =
          IF dry THEN Sends(<<>>, TRUE) ELSE IF written = {} THEN Same ELSE Sends(SetToSeq(S), FALSE)
  BY DEF PlanEnvPath, LinesOf
<1>3. IsFiniteSet(written)
  BY <1>1, FS_Subset
<1>4. f \in [written -> S] /\ S = {f[p] : p \in written}
  OBVIOUS
<1>5. IsFiniteSet(S)
  <2>1. f \in [written -> S]
    BY <1>4
  <2>2. S = {f[p] : p \in written}
    BY <1>4
  <2> HIDE DEF f, S, written, new
  <2>3. IsFiniteSet({f[p] : p \in written})
    BY <1>3, <2>1, FiniteImage
  <2> QED
    BY <2>2, <2>3
<1>6. ASSUME NEW c \in S PROVE IsCommand(c, DOMAIN m.users) /\ Serves(c, t, m)
  <2>1. PICK p \in written : c = Command("write", p, new(p))
    BY <1>6
  <2>2. p \in Paths /\ p \in t.paths
    BY <1>1
  <2> DEFINE v == new(p)
  <2>3. v \in Seq(Lines)
    BY <1>1, <2>2, LinesAre, BlockType
  <2> HIDE DEF v, S, written
  <2>4. c \in [do : {"write"}, on : {p}, value : {v}, checked : BOOLEAN] /\ c.do = "write" /\ c.on = p
        /\ c.value = v /\ c.checked
    BY <2>1 DEF Command, v
  <2>5. IsCommand(c, DOMAIN m.users)
    BY <2>2, <2>3, <2>4 DEF IsCommand, Deeds, Contents
  <2>6. Serves(c, t, m)
    BY <2>2, <2>4 DEF Serves, v
  <2> QED
    BY <2>5, <2>6
<1> DEFINE cs == SetToSeq(S)
<1>7. Sent(cs, t, m)
  <2> HIDE DEF S
  <2> QED
    BY <1>5, <1>6, SentSet
<1>8. CASE dry
  <2>1. PlanEnvPath(t, m, dry) = Sends(<<>>, dry)
    BY <1>2, <1>8
  <2> QED
    BY <2>1, PlanForms
<1>9. CASE ~dry
  <2> HIDE DEF cs, written
  <2>1. PlanEnvPath(t, m, dry) \in {Same, Sends(cs, dry)}
    BY <1>2, <1>9 DEF cs
  <2> QED
    BY <1>7, <2>1, PlanForms
<1> QED
  BY <1>8, <1>9

LEMMA UserFits ==
    ASSUME NEW t, NEW m, TaskOn(t, m), t.module = "user", NEW dry \in BOOLEAN
    PROVE  IsPlan(PlanUser(t, m, dry), t, m, dry)
<1> DEFINE d == Command("userdel", t.name, None)
           a == Command("useradd", t.name, t.groups)
           e == Command("usermod", t.name, t.groups)
<1>1. /\ t.name \in DOMAIN m.users /\ t.groups \in SUBSET Groups
      /\ t.state \in {"present", "absent"}
  BY DEF TaskOn, IsTask
<1>2. /\ d \in [do : {"userdel"}, on : {t.name}, value : {None}, checked : BOOLEAN] /\ d.do = "userdel" /\ d.on = t.name
      /\ a \in [do : {"useradd"}, on : {t.name}, value : {t.groups}, checked : BOOLEAN] /\ a.do = "useradd" /\ a.on = t.name
      /\ e \in [do : {"usermod"}, on : {t.name}, value : {t.groups}, checked : BOOLEAN] /\ e.do = "usermod" /\ e.on = t.name
      /\ d.checked /\ a.checked /\ e.checked /\ a.value = t.groups /\ e.value = t.groups
  BY DEF Command
<1>3. PlanUser(t, m, dry) =
          LET there == m.users[t.name] # None IN
          CASE t.state = "absent" -> IF there THEN Sends(<<d>>, dry) ELSE Same
            [] t.state = "present" /\ ~there -> Sends(<<a>>, dry)
            [] t.state = "present" /\ there /\ t.groups # {} -> Sends(<<e>>, dry)
            [] OTHER -> Same
  BY DEF PlanUser
<1> HIDE DEF d, a, e
<1>4. CASE t.state = "absent"
  <2>1. IsCommand(d, DOMAIN m.users) /\ Serves(d, t, m)
    BY <1>1, <1>2, <1>4 DEF IsCommand, Deeds, Contents, Serves
  <2>2. PlanUser(t, m, dry) \in {Same, Sends(<<d>>, dry)}
    BY <1>3, <1>4
  <2> QED
    BY <2>1, <2>2, SentLists, PlanForms
<1>5. CASE t.state = "present"
  <2>1. IsCommand(a, DOMAIN m.users) /\ Serves(a, t, m)
    BY <1>1, <1>2, <1>5 DEF IsCommand, Deeds, Contents, Serves
  <2>2. IsCommand(e, DOMAIN m.users) /\ Serves(e, t, m)
    BY <1>1, <1>2, <1>5 DEF IsCommand, Deeds, Contents, Serves
  <2>3. PlanUser(t, m, dry) \in {Same, Sends(<<a>>, dry), Sends(<<e>>, dry)}
    BY <1>3, <1>5
  <2> QED
    BY <2>1, <2>2, <2>3, SentLists, PlanForms
<1> QED
  BY <1>1, <1>4, <1>5

LEMMA UfwFits ==
    ASSUME NEW t, NEW m, TaskOn(t, m), t.module = "ufw", NEW dry \in BOOLEAN
    PROVE  IsPlan(PlanUfw(t, m, dry), t, m, dry)
<1> DEFINE a == Command("ufw", "ufw", t.state)
           b == Command("reset", "ufw", None)
           r == Command("rule", "ufw", <<t.verb, t.port>>)
<1>1. /\ a \in [do : {"ufw"}, on : {"ufw"}, value : {t.state}, checked : BOOLEAN] /\ a.do = "ufw" /\ a.value = t.state
      /\ b \in [do : {"reset"}, on : {"ufw"}, value : {None}, checked : BOOLEAN] /\ b.do = "reset"
      /\ r \in [do : {"rule"}, on : {"ufw"}, value : {<<t.verb, t.port>>}, checked : BOOLEAN] /\ r.do = "rule"
      /\ r.value = <<t.verb, t.port>> /\ a.checked /\ b.checked /\ r.checked
  BY DEF Command
<1>2. PlanUfw(t, m, dry) =
          CASE "ufw" \notin m.packages -> Refused
            [] "ufw" \in m.packages /\ t.state \in {"enabled", "disabled"} ->
                   IF m.firewall = (t.state = "enabled") THEN Same ELSE Sends(<<a>>, dry)
            [] "ufw" \in m.packages /\ t.state = "reset" -> Sends(<<b>>, dry)
            [] OTHER -> IF RuleListed(t, m) THEN Same ELSE Sends(<<r>>, dry)
  BY DEF PlanUfw
<1>3. t.state \in {"enabled", "disabled", "reset", "rule"}
  BY DEF TaskOn, IsTask
<1> HIDE DEF a, b, r
<1>4. CASE t.state \in {"enabled", "disabled"}
  <2>1. IsCommand(a, DOMAIN m.users) /\ Serves(a, t, m)
    BY <1>1, <1>4 DEF IsCommand, Deeds, Contents, Serves
  <2>2. PlanUfw(t, m, dry) \in {Refused, Same, Sends(<<a>>, dry)}
    BY <1>2, <1>4
  <2> QED
    BY <2>1, <2>2, SentLists, PlanForms
<1>5. CASE t.state = "reset"
  <2>1. IsCommand(b, DOMAIN m.users) /\ Serves(b, t, m)
    BY <1>1, <1>5 DEF IsCommand, Deeds, Contents, Serves
  <2>2. PlanUfw(t, m, dry) \in {Refused, Sends(<<b>>, dry)}
    BY <1>2, <1>5
  <2> QED
    BY <2>1, <2>2, SentLists, PlanForms
<1>6. CASE t.state = "rule"
  <2>1. IsCommand(r, DOMAIN m.users) /\ Serves(r, t, m)
    BY <1>1, <1>6 DEF IsCommand, Deeds, Contents, Serves
  <2>2. PlanUfw(t, m, dry) \in {Refused, Same, Sends(<<r>>, dry)}
    BY <1>2, <1>6
  <2> QED
    BY <2>1, <2>2, SentLists, PlanForms
<1> QED
  BY <1>3, <1>4, <1>5, <1>6

LEMMA PlanIs ==
    ASSUME NEW t, NEW m, TaskOn(t, m), NEW dry \in BOOLEAN
    PROVE  IsPlan(Plan(t, m, dry), t, m, dry)
<1>1. CASE t.module = "package"
  BY <1>1, PackageFits DEF Plan
<1>2. CASE t.module = "service"
  BY <1>2, ServiceFits DEF Plan
<1>3. CASE t.module \in {"copy", "template"}
  BY <1>3, CopyFits DEF Plan
<1>4. CASE t.module = "systemd_unit"
  BY <1>4, UnitFits DEF Plan
<1>5. CASE t.module = "sysctl"
  BY <1>5, SysctlFits DEF Plan
<1>6. CASE t.module \in {"acme", "cron", "shell"}
  BY <1>6, OneWriteFits DEF Plan
<1>7. CASE t.module = "file"
  BY <1>7, FileFits DEF Plan
<1>8. CASE t.module = "lineinfile"
  BY <1>8, LineFits DEF Plan
<1>9. CASE t.module = "env_path"
  BY <1>9, EnvPathFits DEF Plan
<1>10. CASE t.module = "user"
  BY <1>10, UserFits DEF Plan
<1>11. CASE t.module = "ufw"
  BY <1>11, UfwFits DEF Plan
<1>12. CASE t.module \notin {"package", "service", "copy", "template", "systemd_unit", "sysctl", "acme",
                            "cron", "shell", "file", "lineinfile", "env_path", "user", "ufw"}
  <2>1. Plan(t, m, dry) = Refused
    BY <1>12 DEF Plan
  <2> QED
    BY <2>1, PlanForms
<1> QED
  BY <1>1, <1>2, <1>3, <1>4, <1>5, <1>6, <1>7, <1>8, <1>9, <1>10, <1>11, <1>12

\* The machine as a module sees it whose read of the files failed.
Unread(m, n) ==
    /\ IsMachine(n) /\ SameKind(m, n) /\ n.users = m.users /\ n.backups = m.backups
    /\ n.packages = m.packages
    /\ \A p \in Paths : n.files[p] # m.files[p] => m.files[p] # None /\ n.files[p] = <<>>

LEMMA PlanBlindIs ==
    ASSUME NEW t, NEW m, TaskOn(t, m), NEW dry \in BOOLEAN
    PROVE  \E n : /\ Unread(m, n) /\ TaskOn(t, n) /\ IsPlan(PlanBlind(t, m, dry), t, n, dry)
                  /\ PlanBlind(t, m, dry) = Refused \/ PlanBlind(t, m, dry) = Plan(t, n, dry)
<1>1. CASE t.module = "lineinfile"
  <2>1. PlanBlind(t, m, dry) = Refused
    BY <1>1 DEF PlanBlind
  <2>2. Unread(m, m)
    BY DEF Unread, SameKind, TaskOn
  <2> QED
    BY <2>1, <2>2, PlanForms
<1>2. CASE t.module # "lineinfile"
  <2> DEFINE paths == IF t.module = "env_path" THEN t.paths ELSE {t.path}
             f == [p \in Paths |-> IF p \in paths /\ m.files[p] # None THEN <<>> ELSE m.files[p]]
             n == [m EXCEPT !.files = f]
  <2>1. PlanBlind(t, m, dry) = Plan(t, n, dry)
    BY <1>2 DEF PlanBlind
  <2>2. f \in [Paths -> FileContents]
    BY DEF TaskOn, IsMachine, FileContents
  <2>3. \A p \in Paths : f[p] # m.files[p] => m.files[p] # None /\ f[p] = <<>>
    OBVIOUS
  <2> HIDE DEF f
  <2>4. /\ IsMachine(n) /\ n.files = f
        /\ n.apt = m.apt /\ n.units = m.units /\ n.broken = m.broken /\ n.users = m.users
        /\ n.backups = m.backups /\ n.packages = m.packages
    BY <2>2 DEF TaskOn, IsMachine
  <2> HIDE DEF n
  <2>5. Unread(m, n)
    BY <2>3, <2>4 DEF Unread, SameKind
  <2>6. TaskOn(t, n)
    BY <2>4 DEF TaskOn
  <2> QED
    BY <2>1, <2>5, <2>6, PlanIs
<1> QED
  BY <1>1, <1>2

-----------------------------------------------------------------------------
(* What a command touches, and what a task is about.                       *)

Touched(c) ==
    CASE c.do \in Contents \cup {"remove"} -> {<<"file", c.on>>}
      [] c.do \in {"install", "installOne", "uninstall", "uninstallOne"} -> {<<"package", p>> : p \in c.on}
      [] c.do \in {"start", "restart", "stop", "enable", "disable"} -> {<<"unit", c.on>>}
      [] c.do \in {"useradd", "usermod", "userdel"} -> {<<"user", c.on>>}
      [] c.do \in {"ufw", "rule", "reset"} -> {<<"firewall", "ufw">>}
      [] OTHER -> {}

LEMMA ServedIsOfConcern ==
    ASSUME NEW t, NEW m, TaskOn(t, m), NEW o, m.apt = o.apt, NEW c, c.do \in Deeds, Serves(c, t, m)
    PROVE  Touched(c) \subseteq Concern(t, o)
<1>1. ASSUME NEW p \in Written(t) PROVE <<"file", p>> \in Concern(t, o)
  BY DEF Concern
<1>2. CASE t.module = "package"
  <2>1. c.do \in {"repo", "install", "uninstall"} /\ (c.do # "repo" => c.on = Wanted(t, m))
    BY <1>2 DEF Serves
  <2>2. CASE c.do = "repo"
    BY <2>2 DEF Touched, Contents
  <2>3. CASE c.do # "repo"
    <3>1. Touched(c) = {<<"package", p>> : p \in Wanted(t, m)}
      BY <2>1, <2>3 DEF Touched, Contents
    <3>2. \A p \in Wanted(t, m) : \E q \in t.names : p = PackageName(q, o)
      BY DEF Wanted, PackageName
    <3>3. \A q \in t.names : <<"package", PackageName(q, o)>> \in Concern(t, o)
      BY <1>2 DEF Concern
    <3> QED
      BY <3>1, <3>2, <3>3
  <2> QED
    BY <2>2, <2>3
<1>3. CASE t.module = "service"
  <2>1. c.do \in {"start", "restart", "stop", "reload", "enable", "disable"} /\ c.on = UnitOf(t, o)
    BY <1>3 DEF Serves, UnitOf
  <2>2. <<"unit", UnitOf(t, o)>> \in Concern(t, o)
    BY <1>3 DEF Concern, UnitOf
  <2> QED
    BY <2>1, <2>2 DEF Touched, Contents
<1>4. CASE t.module \in {"copy", "template", "acme", "file", "lineinfile", "cron", "shell"}
  <2>1. c.do \in Contents \cup {"remove", "backup", "chmod"} /\ c.on = t.path
    BY <1>4 DEF Serves, Contents
  <2>2. t.path \in Written(t)
    BY <1>4 DEF Written
  <2> QED
    BY <1>1, <2>1, <2>2 DEF Touched, Contents
<1>5. CASE t.module = "systemd_unit"
  <2>1. \/ c.do \in {"write", "remove", "backup"} /\ c.on = t.path
        \/ c.do \in {"disable", "stop"} /\ c.on = t.unit
    BY <1>5 DEF Serves
  <2>2. t.path \in Written(t)
    BY <1>5 DEF Written
  <2>3. <<"unit", t.unit>> \in Concern(t, o)
    BY <1>5 DEF Concern
  <2> QED
    BY <1>1, <2>1, <2>2, <2>3 DEF Touched, Contents
<1>6. CASE t.module = "sysctl"
  <2>1. c.do \in {"write", "remove"} /\ c.on \in {t.path, t.live}
    BY <1>6 DEF Serves
  <2>2. c.on \in Written(t)
    BY <1>6, <2>1 DEF Written
  <2> QED
    BY <1>1, <2>1, <2>2 DEF Touched, Contents
<1>7. CASE t.module = "env_path"
  <2>1. c.do = "write" /\ c.on \in t.paths
    BY <1>7 DEF Serves
  <2>2. c.on \in Written(t)
    BY <1>7, <2>1 DEF Written
  <2> QED
    BY <1>1, <2>1, <2>2 DEF Touched, Contents
<1>8. CASE t.module = "user"
  <2>1. c.do \in {"useradd", "usermod", "userdel"} /\ c.on = t.name
    BY <1>8 DEF Serves
  <2>2. <<"user", t.name>> \in Concern(t, o)
    BY <1>8 DEF Concern
  <2> QED
    BY <2>1, <2>2 DEF Touched, Contents
<1>9. CASE t.module = "ufw"
  <2>1. c.do \in {"ufw", "rule", "reset"}
    BY <1>9 DEF Serves
  <2>2. <<"firewall", "ufw">> \in Concern(t, o)
    BY <1>9 DEF Concern
  <2> QED
    BY <2>1, <2>2 DEF Touched, Contents
<1>10. t.module \in {"package", "service", "copy", "template", "systemd_unit", "sysctl", "acme",
                     "cron", "shell", "file", "lineinfile", "env_path", "user", "ufw"}
  BY DEF Serves
<1> QED
  BY <1>2, <1>3, <1>4, <1>5, <1>6, <1>7, <1>8, <1>9, <1>10

\* Two machines of one kind that agree on these things.
Agree(m, n, K) ==
    /\ n.apt = m.apt /\ n.units = m.units
    /\ \A p \in Paths : <<"file", p>> \in K => n.files[p] = m.files[p]
    /\ \A p : <<"package", p>> \in K => (p \in n.packages <=> p \in m.packages)
    /\ \A u : <<"unit", u>> \in K => (u \in n.active <=> u \in m.active) /\ (u \in n.enabled <=> u \in m.enabled)
    /\ \A u \in DOMAIN m.users : <<"user", u>> \in K => n.users[u] = m.users[u]
    /\ <<"firewall", "ufw">> \in K => n.firewall = m.firewall /\ n.rules = m.rules

LEMMA OutOfReach ==
    ASSUME NEW m, IsMachine(m), NEW c, IsCommand(c, DOMAIN m.users), NEW K, Touched(c) \cap K = {},
           NEW n, n = Effect(c, m)
    PROVE  Agree(m, n, K)
<1>0. c.do \in Deeds
  BY DEF IsCommand
<1>1. CASE c.do \in Contents
  <2>1. n = [m EXCEPT !.files[c.on] = c.value]
    BY <1>1 DEF Effect, Contents
  <2>2. <<"file", c.on>> \notin K
    BY <1>1 DEF Touched, Contents
  <2> QED
    BY <2>1, <2>2 DEF IsMachine, Agree
<1>2. CASE c.do = "remove"
  <2>1. n = [m EXCEPT !.files[c.on] = None]
    BY <1>2 DEF Effect
  <2>2. <<"file", c.on>> \notin K
    BY <1>2 DEF Touched
  <2> QED
    BY <2>1, <2>2 DEF IsMachine, Agree
<1>3. CASE c.do = "backup"
  <2>1. n = [m EXCEPT !.backups[c.on] = m.files[c.on]]
    BY <1>3 DEF Effect
  <2> QED
    BY <2>1 DEF IsMachine, Agree
<1>4. ASSUME c.do \in {"useradd", "usermod", "userdel"}, NEW v, n = [m EXCEPT !.users[c.on] = v]
      PROVE  Agree(m, n, K)
  <2>1. <<"user", c.on>> \notin K
    BY <1>4 DEF Touched, Contents
  <2> QED
    BY <1>4, <2>1 DEF IsMachine, Agree
<1>5. CASE c.do = "useradd"
  <2>1. n = [m EXCEPT !.users[c.on] = c.value]
    BY <1>5 DEF Effect
  <2> QED
    BY <1>4, <1>5, <2>1
<1>6. CASE c.do = "usermod"
  <2>1. n = [m EXCEPT !.users[c.on] = m.users[c.on] \cup c.value]
    BY <1>6 DEF Effect
  <2> QED
    BY <1>4, <1>6, <2>1
<1>7. CASE c.do = "userdel"
  <2>1. n = [m EXCEPT !.users[c.on] = None]
    BY <1>7 DEF Effect
  <2> QED
    BY <1>4, <1>7, <2>1
<1>8. CASE c.do = "chmod"
  <2>1. n = [m EXCEPT !.modes[c.on] = c.value]
    BY <1>8 DEF Effect
  <2> QED
    BY <2>1 DEF IsMachine, Agree
<1>9. CASE c.do \in {"install", "installOne", "uninstall", "uninstallOne"}
  <2>1. \A p \in c.on : <<"package", p>> \notin K
    BY <1>9 DEF Touched, Contents
  <2>2. CASE c.do \in {"install", "installOne"}
    <3>1. n = [m EXCEPT !.packages = @ \cup c.on, !.repos = @ \cup {HomeOf[p] : p \in c.on}]
      BY <2>2 DEF Effect
    <3> QED
      BY <2>1, <3>1 DEF IsMachine, Agree
  <2>3. CASE c.do \in {"uninstall", "uninstallOne"}
    <3>1. n = [m EXCEPT !.packages = @ \ c.on]
      BY <2>3 DEF Effect
    <3> QED
      BY <2>1, <3>1 DEF IsMachine, Agree
  <2> QED
    BY <1>9, <2>2, <2>3
<1>10. CASE c.do = "repo"
  <2>1. n = [m EXCEPT !.repos = @ \cup {c.on}]
    BY <1>10 DEF Effect
  <2> QED
    BY <2>1 DEF IsMachine, Agree
<1>11. CASE c.do \in {"start", "restart", "stop", "enable", "disable"}
  <2>1. <<"unit", c.on>> \notin K
    BY <1>11 DEF Touched, Contents
  <2>2. CASE c.do \in {"start", "restart"}
    <3>1. n = [m EXCEPT !.active = @ \cup {c.on}]
      BY <2>2 DEF Effect
    <3> QED
      BY <2>1, <3>1 DEF IsMachine, Agree
  <2>3. CASE c.do = "stop"
    <3>1. n = [m EXCEPT !.active = @ \ {c.on}]
      BY <2>3 DEF Effect
    <3> QED
      BY <2>1, <3>1 DEF IsMachine, Agree
  <2>4. CASE c.do = "enable"
    <3>1. n = [m EXCEPT !.enabled = @ \cup {c.on}]
      BY <2>4 DEF Effect
    <3> QED
      BY <2>1, <3>1 DEF IsMachine, Agree
  <2>5. CASE c.do = "disable"
    <3>1. n = [m EXCEPT !.enabled = @ \ {c.on}]
      BY <2>5 DEF Effect
    <3> QED
      BY <2>1, <3>1 DEF IsMachine, Agree
  <2> QED
    BY <1>11, <2>2, <2>3, <2>4, <2>5
<1>12. CASE c.do \in {"ufw", "rule", "reset"}
  <2>1. <<"firewall", "ufw">> \notin K
    BY <1>12 DEF Touched, Contents
  <2>2. CASE c.do = "ufw"
    <3>1. n = [m EXCEPT !.firewall = (c.value = "enabled")]
      BY <2>2 DEF Effect
    <3> QED
      BY <2>1, <3>1 DEF IsMachine, Agree
  <2>3. CASE c.do = "rule"
    <3>1. n = [m EXCEPT !.rules = @ \cup {c.value}]
      BY <2>3 DEF Effect
    <3> QED
      BY <2>1, <3>1 DEF IsMachine, Agree
  <2>4. CASE c.do = "reset"
    <3>1. n = [m EXCEPT !.rules = {}, !.firewall = FALSE]
      BY <2>4 DEF Effect
    <3> QED
      BY <2>1, <3>1 DEF IsMachine, Agree
  <2> QED
    BY <1>12, <2>2, <2>3, <2>4
<1>13. CASE c.do = "reload"
  <2>1. n = m
    BY <1>13 DEF Effect
  <2> QED
    BY <2>1 DEF Agree
<1> QED
  BY <1>0, <1>1, <1>2, <1>3, <1>5, <1>6, <1>7, <1>8, <1>9, <1>10, <1>11, <1>12, <1>13 DEF Deeds

-----------------------------------------------------------------------------
(* What is always so of the runs.                                          *)

Phases == {"idle", "task", "act", "verify", "done"}
TaskStatuses == {"ok", "changed", "failed", "skipped"}

IsRun(x) ==
    x \in [at : Nat, phase : Phases, commands : {x.commands}, changed : BOOLEAN, lost : {x.lost},
           got : {x.got}, logs : Seq(TaskStatuses), said : {x.said},
           result : {"none", "ok", "failed", "threw"}]

\* How far a run of n tasks is.
Counted(x, n) ==
    /\ x.phase \in {"idle", "task", "act"} => x.at \in 1..(n + 1) /\ Len(x.logs) = x.at - 1
    /\ x.phase = "idle" => x.at = 1
    /\ x.phase = "act" => x.at <= n
    /\ x.phase = "verify" => Len(x.logs) = n
    /\ x.phase = "done" => Len(x.logs) <= n /\ (x.result \in {"ok", "threw"} => Len(x.logs) = n)
    /\ x.phase = "done" <=> x.result # "none"
    /\ x.said \subseteq 1..Len(x.logs)

\* What it has still to send.
Acting(x, play, dry, m) ==
    /\ IsList(x.commands)
    /\ x.phase # "act" => x.commands = <<>> /\ ~x.changed /\ x.lost = {} /\ x.got = {}
    /\ x.phase = "act" => x.commands # <<>> /\ ~dry
    /\ \A c \in ToSet(x.commands) :
           IsCommand(c, DOMAIN m.users) /\ Touched(c) \subseteq Concern(play[x.at], m)

RunOk(x, play, dry, m) == IsRun(x) /\ Counted(x, Len(play)) /\ Acting(x, play, dry, m)

PlaybookTypeOK ==
    /\ scenario \in Scenarios /\ IsMachine(host) /\ SameKind(scenario.host, host)
    /\ run = [r \in Runs |-> run[r]]
    /\ \A r \in Runs : RunOk(run[r], scenario.plays[r], scenario.dry[r], scenario.host)
    /\ \A c \in leftOver : IsCommand(c, DOMAIN scenario.host.users)
    /\ faults \in Nat /\ unseen \in BOOLEAN /\ blind \in BOOLEAN /\ together \in BOOLEAN
    /\ run[1].phase = "idle" => run[2].phase = "idle"
    /\ ~together => leftOver = {} /\ (run[2].phase # "idle" => run[1].phase = "done")

\* A task is over.
TaskOver(x, y, task, status, got) ==
    /\ IsRun(y) /\ y.logs = Append(x.logs, status)
    /\ y.commands = <<>> /\ ~y.changed /\ y.lost = {} /\ y.got = {}
    /\ y.said = IF status = "changed" \/ (status = "failed" /\ got # {}) THEN x.said \cup {x.at} ELSE x.said
    /\ IF status = "failed" /\ ~task.ignore
       THEN y.phase = "done" /\ y.result = "failed"
       ELSE y.phase = "task" /\ y.result = x.result /\ y.at = x.at + 1

LEMMA EndedIs ==
    ASSUME NEW r, NEW x, IsRun(x), NEW status \in TaskStatuses, NEW y, y = Ended(r, x, status)
    PROVE  TaskOver(x, y, Task(r), status, x.got)
<1> DEFINE said == IF status = "changed" \/ (status = "failed" /\ x.got # {}) THEN x.said \cup {x.at} ELSE x.said
           next == [x EXCEPT !.logs = Append(@, status), !.commands = <<>>, !.changed = FALSE,
                             !.lost = {}, !.got = {}, !.said = said]
<1>1. y = IF status = "failed" /\ ~Task(r).ignore
          THEN [next EXCEPT !.phase = "done", !.result = "failed"]
          ELSE [next EXCEPT !.phase = "task", !.at = @ + 1]
  BY DEF Ended
<1>2. Append(x.logs, status) \in Seq(TaskStatuses)
  BY DEF IsRun
<1> HIDE DEF said
<1>3. /\ IsRun(next) /\ next.logs = Append(x.logs, status) /\ next.commands = <<>> /\ ~next.changed
      /\ next.lost = {} /\ next.got = {} /\ next.said = said /\ next.at = x.at /\ next.result = x.result
  BY <1>2 DEF IsRun
<1> HIDE DEF next
<1>4. IsRun(y) /\ y.logs = next.logs /\ y.commands = <<>> /\ ~y.changed /\ y.lost = {} /\ y.got = {}
      /\ y.said = said
  <2>1. CASE status = "failed" /\ ~Task(r).ignore
    <3>1. y = [next EXCEPT !.phase = "done", !.result = "failed"]
      BY <1>1, <2>1
    <3> QED
      BY <1>3, <3>1 DEF IsRun, Phases
  <2>2. CASE ~(status = "failed" /\ ~Task(r).ignore)
    <3>1. y = [next EXCEPT !.phase = "task", !.at = @ + 1]
      BY <1>1, <2>2
    <3>2. next.at + 1 \in Nat
      BY <1>3 DEF IsRun
    <3> QED
      BY <1>3, <3>1, <3>2 DEF IsRun, Phases
  <2> QED
    BY <2>1, <2>2
<1>5. IF status = "failed" /\ ~Task(r).ignore
      THEN y.phase = "done" /\ y.result = "failed"
      ELSE y.phase = "task" /\ y.result = x.result /\ y.at = x.at + 1
  BY <1>1, <1>3 DEF IsRun, Phases
<1> QED
  BY <1>3, <1>4, <1>5 DEF TaskOver, said

LEMMA OverIsOk ==
    ASSUME NEW x, NEW y, NEW task, NEW status \in TaskStatuses, NEW got, NEW play, NEW dry, NEW m,
           TaskOver(x, y, task, status, got), IsRun(x), Counted(x, Len(play)), Len(play) \in Nat,
           x.phase \in {"task", "act"}, x.at <= Len(play)
    PROVE  RunOk(y, play, dry, m)
<1>1. Len(x.logs) = x.at - 1 /\ x.at \in 1..Len(play) /\ x.result = "none" /\ x.said \subseteq 1..Len(x.logs)
  BY DEF Counted, IsRun
<1>2. Len(y.logs) = x.at /\ y.said \subseteq 1..x.at
  <2>1. Len(y.logs) = Len(x.logs) + 1
    BY DEF TaskOver, IsRun
  <2>2. y.said \subseteq x.said \cup {x.at}
    BY DEF TaskOver
  <2> QED
    BY <1>1, <2>1, <2>2
<1>3. Counted(y, Len(play))
  <2>1. CASE y.phase = "done" /\ y.result = "failed"
    BY <1>1, <1>2, <2>1 DEF Counted
  <2>2. CASE y.phase = "task" /\ y.result = x.result /\ y.at = x.at + 1
    BY <1>1, <1>2, <2>2 DEF Counted
  <2> QED
    BY <2>1, <2>2 DEF TaskOver
<1>4. Acting(y, play, dry, m)
  <2>1. y.phase # "act" /\ y.commands = <<>> /\ ~y.changed /\ y.lost = {} /\ y.got = {}
    BY DEF TaskOver
  <2> QED
    BY <2>1, ListsAre DEF Acting
<1> QED
  BY <1>3, <1>4 DEF RunOk, TaskOver

\* What a look at the machine leads to.
Looked(x, y, task, plan, dry) ==
    \/ plan.refused /\ TaskOver(x, y, task, "failed", {})
    \/ ~plan.refused /\ plan.commands = <<>> /\ TaskOver(x, y, task, IF plan.changed THEN "changed" ELSE "ok", {})
    \/ /\ ~plan.refused /\ plan.commands # <<>> /\ ~dry
       /\ IsRun(y) /\ y.phase = "act" /\ y.commands = plan.commands /\ y.changed = plan.changed
       /\ y.lost = {} /\ y.got = {} /\ y.at = x.at /\ y.logs = x.logs /\ y.said = x.said /\ y.result = x.result

LEMMA DispatchIs ==
    ASSUME PlaybookTypeOK, NEW r \in Runs, NEW CONSTANT plan, NEW t, NEW n,
           IsPlan(plan, t, n, Dry(r)), Dispatch(r, plan)
    PROVE  /\ run' = [run EXCEPT ![r] = run'[r]] /\ run[r].phase = "task" /\ run[r].at \in 1..Len(Play(r))
           /\ MayRun(Task(r), run[r])
           /\ Looked(run[r], run'[r], Task(r), plan, Dry(r))
<1> DEFINE x == run[r]
           z == [x EXCEPT !.phase = "act", !.commands = plan.commands, !.changed = plan.changed]
           y == run'[r]
           e == IF plan.refused THEN Ended(r, z, "failed")
                ELSE IF plan.commands = <<>> THEN Ended(r, z, Status(r, z)) ELSE z
<1>1. x.phase = "task" /\ x.at <= Len(Play(r)) /\ MayRun(Task(r), x) /\ run' = [run EXCEPT ![r] = e]
  BY DEF Dispatch
<1>2. IsRun(x) /\ Counted(x, Len(Play(r))) /\ Acting(x, Play(r), Dry(r), scenario.host)
  BY DEF PlaybookTypeOK, RunOk, Play, Dry
<1>3. x.at \in 1..Len(Play(r)) /\ x.lost = {} /\ x.got = {}
  BY <1>1, <1>2 DEF Counted, Acting
<1> HIDE DEF e
<1>4. y = e /\ run' = [run EXCEPT ![r] = y]
  BY <1>1 DEF PlaybookTypeOK
<1> HIDE DEF y
<1>5. /\ plan \in [refused : BOOLEAN, changed : BOOLEAN, commands : {plan.commands}]
      /\ Dry(r) => plan.commands = <<>>
  BY DEF IsPlan
<1> HIDE DEF x
<1>6. /\ IsRun(z) /\ z.phase = "act" /\ z.commands = plan.commands /\ z.changed = plan.changed
      /\ z.lost = {} /\ z.got = {} /\ z.at = x.at /\ z.logs = x.logs /\ z.said = x.said /\ z.result = x.result
  BY <1>2, <1>3, <1>5 DEF IsRun, Phases
<1> HIDE DEF z
<1>7. Status(r, z) = IF plan.changed THEN "changed" ELSE "ok"
  BY <1>6 DEF Status
<1>8. ASSUME NEW s \in TaskStatuses, y = Ended(r, z, s) PROVE TaskOver(x, y, Task(r), s, {})
  <2>1. TaskOver(z, y, Task(r), s, z.got)
    BY <1>6, <1>8, EndedIs
  <2> QED
    BY <1>6, <2>1 DEF TaskOver
<1>9. CASE plan.refused
  <2>1. y = Ended(r, z, "failed")
    BY <1>4, <1>9 DEF e
  <2> QED
    BY <1>1, <1>3, <1>4, <1>8, <1>9, <2>1 DEF Looked, TaskStatuses, x, y
<1>10. CASE ~plan.refused /\ plan.commands = <<>>
  <2>1. y = Ended(r, z, Status(r, z))
    BY <1>4, <1>10 DEF e
  <2>2. TaskOver(x, y, Task(r), IF plan.changed THEN "changed" ELSE "ok", {})
    BY <1>7, <1>8, <2>1 DEF TaskStatuses
  <2> QED
    BY <1>1, <1>3, <1>4, <1>10, <2>2 DEF Looked, x, y
<1>11. CASE ~plan.refused /\ plan.commands # <<>>
  <2>1. y = z
    BY <1>4, <1>11 DEF e
  <2> QED
    BY <1>1, <1>3, <1>4, <1>5, <1>6, <1>11, <2>1 DEF Looked, x, y
<1> QED
  BY <1>9, <1>10, <1>11

\* What the answer to a command leads to.
Answered(x, y, task, worked) ==
    LET c == Head(x.commands)
        rest == Tail(x.commands)
        got == IF worked /\ (IsOne(c) \/ c.do \in {"install", "uninstall"}) THEN x.got \cup c.on ELSE x.got
        lost == IF worked \/ ~IsOne(c) THEN x.lost ELSE x.lost \cup c.on IN
    \/ /\ worked \/ ~c.checked \/ IsOne(c)
       /\ rest # <<>> /\ IsRun(y) /\ y.phase = x.phase /\ y.commands = rest /\ y.changed = x.changed
       /\ y.got = got /\ y.lost = lost
       /\ y.at = x.at /\ y.logs = x.logs /\ y.said = x.said /\ y.result = x.result
    \/ /\ worked \/ ~c.checked \/ IsOne(c)
       /\ rest = <<>>
       /\ TaskOver(x, y, task, IF lost # {} /\ (got = {} \/ ~task.lenient) THEN "failed"
                           ELSE IF x.changed THEN "changed" ELSE "ok", got)
    \/ /\ ~worked /\ c.do \in {"install", "uninstall"}
       /\ IsRun(y) /\ y.phase = x.phase /\ y.commands = OneByOne(c) \o rest /\ y.changed = x.changed
       /\ y.got = x.got /\ y.lost = x.lost
       /\ y.at = x.at /\ y.logs = x.logs /\ y.said = x.said /\ y.result = x.result
    \/ /\ ~worked /\ c.checked /\ ~IsOne(c) /\ c.do \notin {"install", "uninstall"}
       /\ TaskOver(x, y, task, "failed", x.got)

LEMMA GoesOnIs ==
    ASSUME NEW r, NEW x, IsRun(x), NEW worked \in BOOLEAN, NEW users, IsCommand(Head(x.commands), users),
           NEW y, y = GoesOn(r, x, worked)
    PROVE  Answered(x, y, Task(r), worked)
<1> DEFINE c == Head(x.commands)
           rest == Tail(x.commands)
           got == IF worked /\ (IsOne(c) \/ c.do \in {"install", "uninstall"}) THEN x.got \cup c.on ELSE x.got
           lost == IF worked \/ ~IsOne(c) THEN x.lost ELSE x.lost \cup c.on
           tried == [x EXCEPT !.commands = rest, !.got = got, !.lost = lost]
           again == [x EXCEPT !.commands = OneByOne(c) \o rest]
<1>1. y = CASE worked \/ ~c.checked \/ IsOne(c) ->
                   IF rest = <<>> THEN Ended(r, tried, Status(r, tried)) ELSE tried
            [] ~worked /\ c.do \in {"install", "uninstall"} -> again
            [] OTHER -> Ended(r, x, "failed")
  BY DEF GoesOn
<1>2. c.checked \in BOOLEAN /\ (c.do \in {"install", "uninstall"} => c.checked /\ ~IsOne(c))
  BY DEF IsCommand, IsOne
<1> HIDE DEF c, rest, got, lost
<1>3. /\ IsRun(tried) /\ tried.phase = x.phase /\ tried.commands = rest /\ tried.changed = x.changed
      /\ tried.got = got /\ tried.lost = lost
      /\ tried.at = x.at /\ tried.logs = x.logs /\ tried.said = x.said /\ tried.result = x.result
  BY DEF IsRun
<1>4. /\ IsRun(again) /\ again.phase = x.phase /\ again.commands = OneByOne(c) \o rest /\ again.changed = x.changed
      /\ again.got = x.got /\ again.lost = x.lost
      /\ again.at = x.at /\ again.logs = x.logs /\ again.said = x.said /\ again.result = x.result
  BY DEF IsRun
<1> HIDE DEF tried, again
<1>5. CASE (worked \/ ~c.checked \/ IsOne(c)) /\ rest # <<>>
  <2>1. y = tried
    BY <1>1, <1>2, <1>5
  <2> QED
    BY <1>3, <1>5, <2>1 DEF Answered, c, rest, got, lost
<1>6. CASE (worked \/ ~c.checked \/ IsOne(c)) /\ rest = <<>>
  <2> DEFINE s == Status(r, tried)
  <2>1. y = Ended(r, tried, s)
    BY <1>1, <1>2, <1>6
  <2>2. s = IF lost # {} /\ (got = {} \/ ~Task(r).lenient) THEN "failed"
            ELSE IF x.changed THEN "changed" ELSE "ok"
    BY <1>3 DEF Status
  <2>3. s \in TaskStatuses
    BY <2>2 DEF TaskStatuses
  <2> HIDE DEF s
  <2>4. TaskOver(tried, y, Task(r), s, got)
    BY <1>3, <2>1, <2>3, EndedIs
  <2>5. TaskOver(x, y, Task(r), s, got)
    BY <1>3, <2>4 DEF TaskOver
  <2> QED
    BY <1>6, <2>2, <2>5 DEF Answered, c, rest, got, lost
<1>7. CASE ~worked /\ c.do \in {"install", "uninstall"}
  <2>1. y = again
    BY <1>1, <1>2, <1>7
  <2> QED
    BY <1>4, <1>7, <2>1 DEF Answered, c, rest
<1>8. CASE ~worked /\ c.checked /\ ~IsOne(c) /\ c.do \notin {"install", "uninstall"}
  <2>1. y = Ended(r, x, "failed")
    BY <1>1, <1>8
  <2>2. TaskOver(x, y, Task(r), "failed", x.got)
    BY <2>1, EndedIs DEF TaskStatuses
  <2> QED
    BY <1>8, <2>2 DEF Answered, c
<1> QED
  BY <1>2, <1>5, <1>6, <1>7, <1>8

LEMMA OneByOneIs ==
    ASSUME NEW c, NEW users, IsCommand(c, users), c.do \in {"install", "uninstall"}
    PROVE  /\ IsList(OneByOne(c)) /\ OneByOne(c) # <<>>
           /\ \A d \in ToSet(OneByOne(c)) :
                  /\ IsCommand(d, users) /\ Touched(d) \subseteq Touched(c) /\ IsOne(d) /\ d.checked
                  /\ d.do = IF c.do = "install" THEN "installOne" ELSE "uninstallOne"
                  /\ \E p \in c.on : d.on = {p}
           /\ \A p \in c.on : \E d \in ToSet(OneByOne(c)) : d.on = {p}
<1> DEFINE do == IF c.do = "install" THEN "installOne" ELSE "uninstallOne"
           f == [p \in c.on |-> Command(do, {p}, None)]
           S == {Command(do, {p}, None) : p \in c.on}
<1>1. IsFiniteSet(c.on) /\ c.on # {}
  BY DEF IsCommand
<1>2. f \in [c.on -> S] /\ S = {f[p] : p \in c.on}
  OBVIOUS
<1>3. IsFiniteSet(S)
  <2> DEFINE D == c.on
  <2>1. f \in [D -> S] /\ IsFiniteSet(D)
    BY <1>1, <1>2
  <2> HIDE DEF f, S, D
  <2>2. IsFiniteSet({f[p] : p \in D})
    BY <2>1, FiniteImage
  <2> QED
    BY <1>2, <2>2 DEF D
<1>4. OneByOne(c) = SetToSeq(S)
  BY DEF OneByOne
<1>5. ASSUME NEW p \in c.on
      PROVE  LET d == Command(do, {p}, None) IN
             IsCommand(d, users) /\ Touched(d) \subseteq Touched(c) /\ IsOne(d) /\ d.do = do /\ d.on = {p} /\ d.checked
  <2> DEFINE d == Command(do, {p}, None)
  <2>1. d.do = do /\ d.on = {p} /\ d.checked /\ d \in [do : {do}, on : {{p}}, value : {None}, checked : BOOLEAN]
    BY DEF Command
  <2> HIDE DEF d
  <2>2. IsCommand(d, users)
    BY <2>1 DEF IsCommand, Deeds, Contents
  <2>3. Touched(d) = {<<"package", p>>}
    BY <2>1 DEF Touched, Contents
  <2>4. Touched(c) = {<<"package", q>> : q \in c.on}
    BY DEF Touched, Contents
  <2>5. IsOne(d)
    BY <2>1 DEF IsOne
  <2>6. Touched(d) \subseteq Touched(c)
    BY <2>3, <2>4
  <2>7. IsCommand(d, users) /\ Touched(d) \subseteq Touched(c) /\ IsOne(d) /\ d.do = do /\ d.on = {p} /\ d.checked
    BY <2>1, <2>2, <2>5, <2>6
  <2> QED
    BY <2>7 DEF d
<1> HIDE DEF do, f
<1>6. /\ \A d \in S : /\ IsCommand(d, users) /\ Touched(d) \subseteq Touched(c) /\ IsOne(d) /\ d.do = do /\ d.checked
                      /\ \E p \in c.on : d.on = {p}
      /\ \A p \in c.on : \E d \in S : d.on = {p}
  <2>1. ASSUME NEW d \in S
        PROVE  /\ IsCommand(d, users) /\ Touched(d) \subseteq Touched(c) /\ IsOne(d) /\ d.do = do /\ d.checked
               /\ \E p \in c.on : d.on = {p}
    <3>1. PICK p \in c.on : d = Command(do, {p}, None)
      OBVIOUS
    <3> QED
      BY <1>5, <3>1
  <2>2. ASSUME NEW p \in c.on PROVE \E d \in S : d.on = {p}
    <3>1. Command(do, {p}, None) \in S
      OBVIOUS
    <3>2. Command(do, {p}, None).on = {p}
      BY <1>5
    <3> HIDE DEF S
    <3> QED
      BY <3>1, <3>2
  <2> HIDE DEF S
  <2> QED
    BY <2>1, <2>2
<1>7. S # {}
  BY <1>1
<1> HIDE DEF S
<1>8. IsList(SetToSeq(S)) /\ ToSet(SetToSeq(S)) = S
  BY <1>3, SetToList
<1>9. OneByOne(c) # <<>>
  BY <1>4, <1>7, <1>8, ListsAre
<1> QED
  BY <1>4, <1>6, <1>8, <1>9 DEF do

LEMMA AnsweredIsOk ==
    ASSUME NEW x, NEW y, NEW play, NEW dry, NEW m, NEW worked \in BOOLEAN, Len(play) \in Nat,
           RunOk(x, play, dry, m), x.phase = "act", Answered(x, y, play[x.at], worked)
    PROVE  RunOk(y, play, dry, m)
<1> DEFINE c == Head(x.commands)
           rest == Tail(x.commands)
<1>1. /\ IsRun(x) /\ Counted(x, Len(play)) /\ IsList(x.commands) /\ x.commands # <<>> /\ ~dry
      /\ \A d \in ToSet(x.commands) : IsCommand(d, DOMAIN m.users) /\ Touched(d) \subseteq Concern(play[x.at], m)
  BY DEF RunOk, Acting
<1>2. x.at \in 1..Len(play) /\ x.at <= Len(play)
  BY <1>1 DEF Counted, IsRun
<1>3. /\ IsList(rest) /\ ToSet(x.commands) = {c} \cup ToSet(rest)
  BY <1>1, TailOfList
<1> HIDE DEF c, rest
<1>4. ASSUME IsRun(y), y.phase = x.phase, y.at = x.at, y.logs = x.logs, y.said = x.said, y.result = x.result,
             y.commands # <<>>, IsList(y.commands),
             \A d \in ToSet(y.commands) : IsCommand(d, DOMAIN m.users) /\ Touched(d) \subseteq Concern(play[x.at], m)
      PROVE  RunOk(y, play, dry, m)
  <2>1. Counted(y, Len(play))
    BY <1>1, <1>4 DEF Counted
  <2>2. Acting(y, play, dry, m)
    BY <1>1, <1>4 DEF Acting
  <2> QED
    BY <1>4, <2>1, <2>2 DEF RunOk
<1>5. ASSUME NEW s \in TaskStatuses, NEW got, TaskOver(x, y, play[x.at], s, got) PROVE RunOk(y, play, dry, m)
  BY <1>1, <1>2, <1>5, OverIsOk
<1>6. CASE /\ rest # <<>> /\ IsRun(y) /\ y.phase = x.phase /\ y.commands = rest
           /\ y.at = x.at /\ y.logs = x.logs /\ y.said = x.said /\ y.result = x.result
  BY <1>1, <1>3, <1>4, <1>6
<1>7. CASE \E s \in TaskStatuses : \E got : TaskOver(x, y, play[x.at], s, got)
  BY <1>5, <1>7
<1>8. CASE /\ c.do \in {"install", "uninstall"}
           /\ IsRun(y) /\ y.phase = x.phase /\ y.commands = OneByOne(c) \o rest
           /\ y.at = x.at /\ y.logs = x.logs /\ y.said = x.said /\ y.result = x.result
  <2>1. IsCommand(c, DOMAIN m.users) /\ Touched(c) \subseteq Concern(play[x.at], m)
    BY <1>1, <1>3
  <2>2. /\ IsList(OneByOne(c)) /\ OneByOne(c) # <<>>
        /\ \A d \in ToSet(OneByOne(c)) : IsCommand(d, DOMAIN m.users) /\ Touched(d) \subseteq Touched(c)
    BY <1>8, <2>1, OneByOneIs
  <2>3. IsList(y.commands) /\ ToSet(y.commands) = ToSet(OneByOne(c)) \cup ToSet(rest)
    BY <1>3, <1>8, <2>2, ConcatOfLists
  <2>4. y.commands # <<>>
    BY <2>2, <2>3, ListDomain
  <2>5. \A d \in ToSet(y.commands) : IsCommand(d, DOMAIN m.users) /\ Touched(d) \subseteq Concern(play[x.at], m)
    BY <1>1, <1>3, <2>1, <2>2, <2>3
  <2> QED
    BY <1>4, <1>8, <2>3, <2>4, <2>5
<1>9. ASSUME NEW s, s \in {"failed", "changed", "ok"} PROVE s \in TaskStatuses
  BY <1>9 DEF TaskStatuses
<1> QED
  <2> DEFINE got == IF worked /\ (IsOne(c) \/ c.do \in {"install", "uninstall"}) THEN x.got \cup c.on ELSE x.got
             lost == IF worked \/ ~IsOne(c) THEN x.lost ELSE x.lost \cup c.on
             s == IF lost # {} /\ (got = {} \/ ~play[x.at].lenient) THEN "failed"
                  ELSE IF x.changed THEN "changed" ELSE "ok"
  <2>1. s \in TaskStatuses /\ "failed" \in TaskStatuses
    BY <1>9
  <2>2. \/ /\ rest # <<>> /\ IsRun(y) /\ y.phase = x.phase /\ y.commands = rest
           /\ y.at = x.at /\ y.logs = x.logs /\ y.said = x.said /\ y.result = x.result
        \/ TaskOver(x, y, play[x.at], s, got) \/ TaskOver(x, y, play[x.at], "failed", x.got)
        \/ /\ c.do \in {"install", "uninstall"}
           /\ IsRun(y) /\ y.phase = x.phase /\ y.commands = OneByOne(c) \o rest
           /\ y.at = x.at /\ y.logs = x.logs /\ y.said = x.said /\ y.result = x.result
    BY DEF Answered, c, rest
  <2> HIDE DEF s, got
  <2> QED
    BY <1>6, <1>7, <1>8, <2>1, <2>2, SMTT(30)

\* A run that is at work takes a step.
LEMMA RunMoves ==
    ASSUME PlaybookTypeOK, NEW r \in Runs, AtWork(r), run' = [run EXCEPT ![r] = run'[r]],
           RunOk(run'[r], Play(r), Dry(r), origin), run'[r].phase # "idle", scenario' = scenario,
           IsMachine(host'), SameKind(host, host'),
           \A c \in leftOver' : c \in leftOver \/ IsCommand(c, DOMAIN origin.users),
           faults' \in Nat, unseen' \in BOOLEAN, blind' \in BOOLEAN, together' \in BOOLEAN,
           ~together' => ~together /\ leftOver' = leftOver
    PROVE  PlaybookTypeOK'
<1>0. /\ \A q \in Runs : RunOk(run[q], scenario.plays[q], scenario.dry[q], scenario.host)
      /\ run = [q \in Runs |-> run[q]] /\ SameKind(scenario.host, host)
      /\ run[1].phase = "idle" => run[2].phase = "idle"
      /\ ~together => leftOver = {} /\ (run[2].phase # "idle" => run[1].phase = "done")
      /\ \A c \in leftOver : IsCommand(c, DOMAIN scenario.host.users)
      /\ 1 \in Runs /\ 2 \in Runs
  BY DEF PlaybookTypeOK, Runs
<1>1. \A q \in Runs : run'[q] = IF q = r THEN run'[r] ELSE run[q]
  BY <1>0
<1>2. \A q \in Runs : RunOk(run'[q], scenario.plays[q], scenario.dry[q], scenario.host)
  BY <1>0, <1>1 DEF Play, Dry, origin
<1>3. run' = [q \in Runs |-> run'[q]]
  BY <1>0
<1>4. run'[1].phase = "idle" => run'[2].phase = "idle"
  BY <1>0, <1>1 DEF AtWork, Runs
<1>5. ~together' => leftOver' = {} /\ (run'[2].phase # "idle" => run'[1].phase = "done")
  BY <1>0, <1>1 DEF AtWork, Runs
<1>6. SameKind(scenario.host, host')
  BY <1>0 DEF SameKind
<1>7. \A c \in leftOver' : IsCommand(c, DOMAIN scenario.host.users)
  BY <1>0 DEF origin
<1>8. scenario \in Scenarios
  BY DEF PlaybookTypeOK
<1> QED
  BY <1>2, <1>3, <1>4, <1>5, <1>6, <1>7, <1>8 DEF PlaybookTypeOK

\* What is known of a run that sends a command.
LEMMA Sending ==
    ASSUME PlaybookTypeOK, NEW r \in Runs, SendsCommands(r)
    PROVE  /\ run[r].phase = "act" /\ AtWork(r) /\ ~Dry(r) /\ run[r].at \in 1..Len(Play(r))
           /\ RunOk(run[r], Play(r), Dry(r), origin) /\ IsRun(run[r])
           /\ run[r].commands # <<>> /\ IsList(run[r].commands)
           /\ Command1(r) = Head(run[r].commands)
           /\ ToSet(run[r].commands) = {Command1(r)} \cup ToSet(Tail(run[r].commands))
           /\ IsList(Tail(run[r].commands))
           /\ IsCommand(Command1(r), DOMAIN host.users) /\ IsCommand(Command1(r), DOMAIN origin.users)
           /\ Touched(Command1(r)) \subseteq Concern(Task(r), origin)
           /\ Task(r) = Play(r)[run[r].at]
           /\ \A worked \in BOOLEAN : run' = [run EXCEPT ![r] = GoesOn(r, run[r], worked)] =>
                  run' = [run EXCEPT ![r] = run'[r]] /\ Answered(run[r], run'[r], Task(r), worked)
           /\ run' = [run EXCEPT ![r] = Ended(r, run[r], "failed")] =>
                  run' = [run EXCEPT ![r] = run'[r]] /\ TaskOver(run[r], run'[r], Task(r), "failed", run[r].got)
<1> DEFINE x == run[r]
           c == Head(x.commands)
<1>1. x.phase = "act" /\ AtWork(r) /\ RunOk(x, Play(r), Dry(r), origin)
  BY DEF SendsCommands, AtWork, PlaybookTypeOK, Play, Dry, origin
<1>2. IsRun(x) /\ Counted(x, Len(Play(r))) /\ Acting(x, Play(r), Dry(r), origin)
  BY <1>1 DEF RunOk
<1>3. /\ x.commands # <<>> /\ IsList(x.commands) /\ ~Dry(r) /\ x.at \in 1..Len(Play(r))
      /\ \A d \in ToSet(x.commands) : IsCommand(d, DOMAIN origin.users) /\ Touched(d) \subseteq Concern(Play(r)[x.at], origin)
  BY <1>1, <1>2 DEF Acting, Counted
<1>4. ToSet(x.commands) = {c} \cup ToSet(Tail(x.commands)) /\ IsList(Tail(x.commands))
  BY <1>3, TailOfList
<1>5. IsCommand(c, DOMAIN origin.users) /\ Touched(c) \subseteq Concern(Play(r)[x.at], origin)
  BY <1>3, <1>4
<1>6. DOMAIN host.users = DOMAIN origin.users
  BY DEF PlaybookTypeOK, SameKind, origin
<1>7. \A e : run' = [run EXCEPT ![r] = e] => run'[r] = e /\ run' = [run EXCEPT ![r] = run'[r]]
  BY DEF PlaybookTypeOK
<1>8. ASSUME NEW worked \in BOOLEAN, run' = [run EXCEPT ![r] = GoesOn(r, run[r], worked)]
      PROVE  run' = [run EXCEPT ![r] = run'[r]] /\ Answered(run[r], run'[r], Task(r), worked)
  <2>1. run'[r] = GoesOn(r, run[r], worked) /\ run' = [run EXCEPT ![r] = run'[r]]
    BY <1>7, <1>8
  <2> QED
    BY <1>2, <1>5, <2>1, GoesOnIs
<1>9. ASSUME run' = [run EXCEPT ![r] = Ended(r, run[r], "failed")]
      PROVE  run' = [run EXCEPT ![r] = run'[r]] /\ TaskOver(run[r], run'[r], Task(r), "failed", run[r].got)
  <2>1. run'[r] = Ended(r, run[r], "failed") /\ run' = [run EXCEPT ![r] = run'[r]]
    BY <1>7, <1>9
  <2> QED
    BY <1>2, <2>1, EndedIs DEF TaskStatuses
<1> QED
  BY <1>1, <1>2, <1>3, <1>4, <1>5, <1>6, <1>8, <1>9 DEF Command1, Task

LEMMA ScenarioIs ==
    ASSUME PlaybookTypeOK, NEW r \in Runs
    PROVE  /\ IsMachine(origin) /\ Dry(r) \in BOOLEAN /\ Len(Play(r)) \in Nat
           /\ DOMAIN Play(r) = 1..Len(Play(r))
           /\ \A i \in 1..Len(Play(r)) : TaskOn(Play(r)[i], host) /\ TaskOn(Play(r)[i], origin)
<1>1. /\ scenario \in Scenarios /\ IsMachine(host) /\ SameKind(scenario.host, host)
  BY DEF PlaybookTypeOK
<1> DEFINE S == {scenario.plays[r][i] : i \in DOMAIN scenario.plays[r]}
<1>2. /\ IsMachine(scenario.host) /\ scenario.dry[r] \in BOOLEAN
      /\ scenario.plays[r] \in Seq(S)
      /\ \A i \in DOMAIN scenario.plays[r] :
          /\ IsTask(scenario.plays[r][i])
          /\ scenario.plays[r][i].module = "user" => scenario.plays[r][i].name \in DOMAIN scenario.host.users
  BY <1>1, ScenariosAssumption
<1> HIDE DEF S
<1>3. Len(scenario.plays[r]) \in Nat /\ DOMAIN scenario.plays[r] = 1..Len(scenario.plays[r])
  BY <1>2
<1>4. DOMAIN host.users = DOMAIN scenario.host.users
  BY <1>1 DEF SameKind
<1> QED
  BY <1>1, <1>2, <1>3, <1>4 DEF Play, Dry, origin, TaskOn

\* A look at the machine, answered or not.
LEMMA Looking ==
    ASSUME PlaybookTypeOK, NEW r \in Runs, Look(r) \/ LookBlind(r)
    PROVE  /\ run' = [run EXCEPT ![r] = run'[r]] /\ run[r].phase = "task" /\ AtWork(r)
           /\ run[r].at \in 1..Len(Play(r)) /\ MayRun(Task(r), run[r]) /\ Task(r) = Play(r)[run[r].at]
           /\ TaskOn(Task(r), host) /\ IsRun(run[r]) /\ Counted(run[r], Len(Play(r)))
           /\ \E plan, n :
                  /\ Unread(host, n) /\ TaskOn(Task(r), n) /\ IsPlan(plan, Task(r), n, Dry(r))
                  /\ Looked(run[r], run'[r], Task(r), plan, Dry(r))
                  /\ plan = Refused \/ plan = Plan(Task(r), n, Dry(r))
                  /\ Look(r) => n = host /\ plan = Plan(Task(r), host, Dry(r))
<1> DEFINE t == Task(r)
<1>1. run[r].phase = "task" /\ run[r].at <= Len(Play(r)) /\ IsRun(run[r]) /\ Counted(run[r], Len(Play(r)))
  BY DEF Look, LookBlind, PlaybookTypeOK, RunOk, Play
<1>2. run[r].at \in 1..Len(Play(r)) /\ AtWork(r) /\ t = Play(r)[run[r].at]
  <2>1. Len(Play(r)) \in Nat
    BY ScenarioIs
  <2> QED
    BY <1>1, <2>1 DEF Counted, AtWork, Task
<1>3. TaskOn(t, host) /\ Dry(r) \in BOOLEAN
  BY <1>2, ScenarioIs
<1> HIDE DEF t
<1>4. ASSUME NEW plan, NEW n, IsPlan(plan, t, n, Dry(r)), Dispatch(r, plan)
      PROVE  /\ run' = [run EXCEPT ![r] = run'[r]] /\ MayRun(t, run[r])
             /\ Looked(run[r], run'[r], t, plan, Dry(r))
  BY <1>4, DispatchIs DEF t
<1>5. CASE Look(r)
  <2> DEFINE plan == Plan(t, host, Dry(r))
  <2>1. IsPlan(plan, t, host, Dry(r))
    BY <1>3, PlanIs
  <2>2. Dispatch(r, plan)
    BY <1>5 DEF Look, t
  <2> HIDE DEF plan
  <2>3. run' = [run EXCEPT ![r] = run'[r]] /\ MayRun(t, run[r]) /\ Looked(run[r], run'[r], t, plan, Dry(r))
    BY <1>4, <2>1, <2>2
  <2>4. Unread(host, host)
    BY DEF Unread, PlaybookTypeOK, SameKind
  <2> QED
    BY <1>1, <1>2, <1>3, <2>1, <2>3, <2>4 DEF t, plan
<1>6. CASE LookBlind(r) /\ ~Look(r)
  <2> DEFINE plan == PlanBlind(t, host, Dry(r))
  <2>1. PICK n : /\ Unread(host, n) /\ TaskOn(t, n) /\ IsPlan(plan, t, n, Dry(r))
                 /\ plan = Refused \/ plan = Plan(t, n, Dry(r))
    BY <1>3, PlanBlindIs
  <2>2. Dispatch(r, plan)
    BY <1>6 DEF LookBlind, t
  <2> HIDE DEF plan
  <2>3. run' = [run EXCEPT ![r] = run'[r]] /\ MayRun(t, run[r]) /\ Looked(run[r], run'[r], t, plan, Dry(r))
    BY <1>4, <2>1, <2>2
  <2> QED
    BY <1>1, <1>2, <1>3, <1>6, <2>1, <2>3 DEF t
<1> QED
  BY <1>5, <1>6

LEMMA TypeStarts == ASSUME PlaybookInit PROVE PlaybookTypeOK
<1>1. scenario \in Scenarios /\ host = scenario.host /\ IsMachine(host) /\ SameKind(scenario.host, host)
  BY ScenariosAssumption DEF PlaybookInit, SameKind
<1>2. ASSUME NEW r \in Runs PROVE RunOk(NotStarted, scenario.plays[r], scenario.dry[r], scenario.host)
  <2>1. Len(scenario.plays[r]) \in Nat
    <3> DEFINE S == {scenario.plays[r][i] : i \in DOMAIN scenario.plays[r]}
    <3>1. scenario.plays[r] \in Seq(S)
      BY <1>1, ScenariosAssumption
    <3> HIDE DEF S
    <3> QED
      BY <3>1
  <2>2. IsRun(NotStarted)
    BY DEF IsRun, NotStarted, Phases
  <2>3. Counted(NotStarted, Len(scenario.plays[r]))
    BY <2>1 DEF Counted, NotStarted
  <2>4. Acting(NotStarted, scenario.plays[r], scenario.dry[r], scenario.host)
    BY ListsAre DEF Acting, NotStarted
  <2> QED
    BY <2>2, <2>3, <2>4 DEF RunOk
<1>3. \A r \in Runs : run[r] = NotStarted
  BY DEF PlaybookInit
<1>4. run = [r \in Runs |-> run[r]] /\ run[1].phase = "idle" /\ run[2].phase = "idle"
  BY DEF PlaybookInit, Runs, NotStarted
<1> QED
  BY <1>1, <1>2, <1>3, <1>4 DEF PlaybookInit, PlaybookTypeOK

LEMMA PlanIsOk ==
    ASSUME NEW x, NEW y, NEW play, NEW dry, NEW m, NEW n, NEW plan, Len(play) \in Nat,
           IsRun(x), Counted(x, Len(play)), x.phase = "task", x.at \in 1..Len(play),
           TaskOn(play[x.at], n), n.apt = m.apt, DOMAIN n.users = DOMAIN m.users,
           IsPlan(plan, play[x.at], n, dry), Looked(x, y, play[x.at], plan, dry)
    PROVE  RunOk(y, play, dry, m)
<1>1. ASSUME NEW s \in TaskStatuses, TaskOver(x, y, play[x.at], s, {}) PROVE RunOk(y, play, dry, m)
  BY <1>1, OverIsOk
<1>2. "failed" \in TaskStatuses /\ "ok" \in TaskStatuses /\ "changed" \in TaskStatuses
  BY DEF TaskStatuses
<1>3. CASE TaskOver(x, y, play[x.at], "failed", {})
  BY <1>1, <1>2, <1>3
<1>4. CASE TaskOver(x, y, play[x.at], IF plan.changed THEN "changed" ELSE "ok", {})
  BY <1>1, <1>2, <1>4
<1>5. CASE /\ ~plan.refused /\ plan.commands # <<>> /\ ~dry
           /\ IsRun(y) /\ y.phase = "act" /\ y.commands = plan.commands /\ y.changed = plan.changed
           /\ y.lost = {} /\ y.got = {} /\ y.at = x.at /\ y.logs = x.logs /\ y.said = x.said /\ y.result = x.result
  <2>1. Sent(plan.commands, play[x.at], n)
    BY DEF IsPlan
  <2>2. \A c \in ToSet(plan.commands) : IsCommand(c, DOMAIN m.users) /\ Touched(c) \subseteq Concern(play[x.at], m)
    <3>1. \A c \in ToSet(plan.commands) : IsCommand(c, DOMAIN n.users) /\ Serves(c, play[x.at], n) /\ c.do \in Deeds
      BY <2>1 DEF Sent, IsCommand
    <3> QED
      BY <3>1, ServedIsOfConcern
  <2>3. Acting(y, play, dry, m)
    BY <1>5, <2>1, <2>2 DEF Acting, Sent
  <2>4. Counted(y, Len(play))
    BY <1>5 DEF Counted
  <2> QED
    BY <1>5, <2>3, <2>4 DEF RunOk
<1> QED
  BY <1>3, <1>4, <1>5 DEF Looked

LEMMA PossibleIs == ASSUME NEW c, NEW m PROVE Possible(c, m) \in BOOLEAN
<1>1. CASE c.do = "install"
  BY <1>1 DEF Possible
<1>2. CASE c.do = "installOne"
  BY <1>2 DEF Possible
<1>3. CASE c.do \in {"start", "restart"}
  BY <1>3 DEF Possible
<1>4. CASE c.do = "reload"
  BY <1>4 DEF Possible
<1>5. CASE c.do = "useradd"
  BY <1>5 DEF Possible
<1>6. CASE c.do \in {"usermod", "userdel"}
  BY <1>6 DEF Possible
<1>7. CASE c.do \notin {"install", "installOne", "start", "restart", "reload", "useradd", "usermod", "userdel"}
  BY <1>7 DEF Possible
<1> QED
  BY <1>1, <1>2, <1>3, <1>4, <1>5, <1>6, <1>7

LEMMA TypeSteps == ASSUME PlaybookTypeOK, [PlaybookNext]_playbookVars PROVE PlaybookTypeOK'
<1>0. /\ IsMachine(host) /\ SameKind(host, host) /\ faults \in Nat
      /\ unseen \in BOOLEAN /\ blind \in BOOLEAN /\ together \in BOOLEAN
  BY DEF PlaybookTypeOK, SameKind
<1>1. ASSUME NEW r \in Runs, Start(r) PROVE PlaybookTypeOK'
  <2>0. 1 \in Runs /\ 2 \in Runs /\ \A q \in Runs : q = 1 \/ q = 2
    BY DEF Runs
  <2>1. /\ scenario' = scenario /\ host' = host /\ leftOver' = leftOver /\ faults' = faults
        /\ unseen' = unseen /\ blind' = blind
        /\ run' = [run EXCEPT ![r].phase = "task"] /\ run[r].phase = "idle"
        /\ r = 2 => run[1].phase # "idle"
        /\ together' = (together \/ leftOver # {} \/ \E q \in Runs \ {r} : AtWork(q))
    BY <1>1, <2>0 DEF Start
  <2>2. /\ run = [q \in Runs |-> run[q]]
        /\ run[1].phase = "idle" => run[2].phase = "idle"
        /\ \A q \in Runs : RunOk(run[q], scenario.plays[q], scenario.dry[q], scenario.host)
    BY DEF PlaybookTypeOK
  <2> DEFINE x == run[r]
             y == [x EXCEPT !.phase = "task"]
  <2>3. RunOk(x, scenario.plays[r], scenario.dry[r], scenario.host) /\ x.phase = "idle"
    BY <2>1, <2>2
  <2>40. run' = [run EXCEPT ![r] = y]
    BY <2>1, Zenon
  <2> HIDE DEF y
  <2>4. /\ \A q \in Runs : run'[q] = IF q = r THEN y ELSE run[q]
        /\ run' = [q \in Runs |-> run'[q]]
    BY <2>2, <2>40
  <2> USE DEF y
  <2> HIDE DEF x
  <2>5. /\ IsRun(y) /\ y.phase = "task" /\ y.commands = x.commands /\ y.changed = x.changed /\ y.got = x.got
        /\ y.lost = x.lost /\ y.at = x.at /\ y.logs = x.logs /\ y.said = x.said /\ y.result = x.result
    BY <2>3 DEF RunOk, IsRun, Phases
  <2> HIDE DEF y
  <2>6. RunOk(y, scenario.plays[r], scenario.dry[r], scenario.host)
    BY <2>3, <2>5 DEF RunOk, Counted, Acting
  <2>7. \A q \in Runs : RunOk(run'[q], scenario.plays[q], scenario.dry[q], scenario.host)
    BY <2>2, <2>4, <2>6
  <2>9. run'[1].phase = "idle" => run'[2].phase = "idle"
    BY <2>0, <2>1, <2>2, <2>4, <2>5
  <2>10. ~together' => ~together /\ leftOver = {} /\ (run'[2].phase # "idle" => run'[1].phase = "done")
    <3>1. SUFFICES ASSUME ~together', run'[2].phase # "idle"
                   PROVE  run'[1].phase = "done"
      BY <2>1
    <3>2. ~together /\ \A q \in Runs \ {r} : ~AtWork(q)
      BY <2>1, <3>1
    <3>3. CASE r = 1
      <4>1. run[2].phase = "idle" /\ run'[2] = run[2]
        <5>1. 2 # 1 /\ run'[2] = run[2] /\ run[1].phase = "idle"
          BY <2>0, <2>1, <2>4, <3>3
        <5> QED
          BY <2>2, <5>1
      <4> QED
        BY <3>1, <4>1
    <3>4. CASE r = 2
      <4>1. run'[1] = run[1] /\ run[1].phase # "idle" /\ ~AtWork(1)
        BY <2>0, <2>1, <2>4, <3>2, <3>4
      <4> QED
        BY <4>1 DEF AtWork
    <3> QED
      BY <2>0, <3>3, <3>4
  <2>11. together' \in BOOLEAN
    BY <2>1
  <2> QED
    BY <1>0, <2>1, <2>4, <2>7, <2>9, <2>10, <2>11 DEF PlaybookTypeOK
<1>2. ASSUME NEW r \in Runs, AtWork(r), run' = [run EXCEPT ![r] = run'[r]],
             RunOk(run'[r], Play(r), Dry(r), origin), run'[r].phase # "idle",
             UNCHANGED <<scenario, host, leftOver, unseen, together>>, blind' \in BOOLEAN, faults' \in Nat
      PROVE  PlaybookTypeOK'
  BY <1>0, <1>2, RunMoves
<1>3. ASSUME NEW x, NEW y, NEW s, NEW got, NEW t, TaskOver(x, y, t, s, got) PROVE y.phase # "idle"
  BY <1>3 DEF TaskOver
<1>4. ASSUME NEW r \in Runs, Skip(r) PROVE PlaybookTypeOK'
  <2>1. /\ run[r].phase = "task" /\ run[r].at <= Len(Play(r)) /\ run' = [run EXCEPT ![r] = Ended(r, run[r], "skipped")]
        /\ UNCHANGED <<scenario, host, leftOver, faults, unseen, blind, together>>
    BY <1>4 DEF Skip
  <2>2. run'[r] = Ended(r, run[r], "skipped") /\ run' = [run EXCEPT ![r] = run'[r]]
    BY <2>1 DEF PlaybookTypeOK
  <2>3. IsRun(run[r]) /\ Counted(run[r], Len(Play(r)))
    BY DEF PlaybookTypeOK, RunOk, Play
  <2>4. TaskOver(run[r], run'[r], Task(r), "skipped", run[r].got)
    BY <2>2, <2>3, EndedIs DEF TaskStatuses
  <2>5. RunOk(run'[r], Play(r), Dry(r), origin)
    BY <2>1, <2>3, <2>4, OverIsOk, ScenarioIs DEF TaskStatuses
  <2> QED
    BY <1>0, <1>2, <1>3, <2>1, <2>2, <2>4, <2>5 DEF AtWork
<1>5. ASSUME NEW r \in Runs, Look(r) \/ LookBlind(r) PROVE PlaybookTypeOK'
  <2>1. /\ run' = [run EXCEPT ![r] = run'[r]] /\ run[r].phase = "task" /\ AtWork(r)
        /\ run[r].at \in 1..Len(Play(r)) /\ Task(r) = Play(r)[run[r].at]
        /\ IsRun(run[r]) /\ Counted(run[r], Len(Play(r)))
    BY <1>5, Looking
  <2>2. PICK plan, n : /\ Unread(host, n) /\ TaskOn(Task(r), n) /\ IsPlan(plan, Task(r), n, Dry(r))
                       /\ Looked(run[r], run'[r], Task(r), plan, Dry(r))
    BY <1>5, Looking
  <2>3. n.apt = origin.apt /\ DOMAIN n.users = DOMAIN origin.users
    BY <2>2 DEF Unread, SameKind, PlaybookTypeOK, origin
  <2>4. RunOk(run'[r], Play(r), Dry(r), origin)
    BY <2>1, <2>2, <2>3, PlanIsOk, ScenarioIs, ZenonT(40)
  <2>5. run'[r].phase # "idle"
    BY <2>2 DEF Looked, TaskOver
  <2>6. UNCHANGED <<scenario, host, leftOver, unseen, together>>
    BY <1>5 DEF Look, LookBlind, Dispatch
  <2>7. blind' \in BOOLEAN /\ faults' \in Nat
    <3>1. blind' = blind \/ blind' = TRUE
      BY <1>5 DEF Look, LookBlind
    <3>2. faults' = faults \/ faults' = faults + 1
      BY <1>5 DEF Look, LookBlind, Fault
    <3>3. faults' \in Nat
      BY <1>0, <3>2
    <3> QED
      BY <1>0, <3>1, <3>3
  <2> QED
    BY <1>2, <2>1, <2>4, <2>5, <2>6, <2>7
<1>6. ASSUME NEW r \in Runs, SendsCommands(r), run' = [run EXCEPT ![r] = run'[r]],
             (\E worked \in BOOLEAN : Answered(run[r], run'[r], Task(r), worked))
             \/ TaskOver(run[r], run'[r], Task(r), "failed", run[r].got),
             scenario' = scenario, IsMachine(host'), SameKind(host, host'),
             \A c \in leftOver' : c \in leftOver \/ c = Command1(r),
             faults' \in Nat, unseen' \in BOOLEAN, blind' \in BOOLEAN, together' \in BOOLEAN,
             ~together' => ~together /\ leftOver' = leftOver
      PROVE  PlaybookTypeOK'
  <2> DEFINE x == run[r]
             y == run'[r]
  <2>1. /\ x.phase = "act" /\ AtWork(r) /\ x.at \in 1..Len(Play(r)) /\ RunOk(x, Play(r), Dry(r), origin)
        /\ IsRun(x) /\ IsCommand(Command1(r), DOMAIN origin.users) /\ Task(r) = Play(r)[x.at]
    BY <1>6, Sending
  <2>2. Len(Play(r)) \in Nat
    BY ScenarioIs
  <2>3. RunOk(y, Play(r), Dry(r), origin)
    <3>1. CASE \E worked \in BOOLEAN : Answered(x, y, Task(r), worked)
      <4> HIDE DEF x, y
      <4> QED
        BY <2>1, <2>2, <3>1, AnsweredIsOk
    <3>2. CASE TaskOver(x, y, Task(r), "failed", x.got)
      <4>1. Counted(x, Len(Play(r))) /\ "failed" \in TaskStatuses
        BY <2>1, SMTT(30) DEF RunOk, TaskStatuses
      <4> HIDE DEF x, y
      <4> QED
        BY <2>1, <2>2, <3>2, <4>1, OverIsOk
    <3> QED
      BY <1>6, <3>1, <3>2
  <2>4. y.phase # "idle"
    BY <1>6, <2>1, ZenonT(40) DEF Answered, TaskOver
  <2> QED
    BY <1>6, <2>1, <2>3, <2>4, RunMoves
<1>7. ASSUME NEW r \in Runs, Exec(r) PROVE PlaybookTypeOK'
  <2> DEFINE c == Command1(r)
             works == Possible(c, host)
  <2>1. /\ SendsCommands(r) /\ host' = (IF works THEN Effect(c, host) ELSE host)
        /\ run' = [run EXCEPT ![r] = GoesOn(r, run[r], works)] /\ unseen' = (unseen \/ (~works /\ ~c.checked))
        /\ UNCHANGED <<scenario, leftOver, faults, blind, together>>
    BY <1>7 DEF Exec
  <2>2. works \in BOOLEAN
    BY PossibleIs
  <2> HIDE DEF works
  <2>3. IsCommand(c, DOMAIN host.users)
    BY <2>1, Sending
  <2>4. run' = [run EXCEPT ![r] = run'[r]] /\ \E worked \in BOOLEAN : Answered(run[r], run'[r], Task(r), worked)
    BY <2>1, <2>2, Sending
  <2>5. IsMachine(host') /\ SameKind(host, host')
    BY <1>0, <2>1, <2>3, EffectIsLawful DEF Lawful, works
  <2>6. unseen' \in BOOLEAN
    BY <2>1
  <2> QED
    BY <1>0, <1>6, <2>1, <2>4, <2>5, <2>6
<1>8. ASSUME NEW r \in Runs, ExecFails(r) \/ ExecRejects(r) \/ ExecTimesOut(r) \/ ExecCut(r) PROVE PlaybookTypeOK'
  <2> DEFINE c == Command1(r)
  <2>1. /\ SendsCommands(r) /\ faults' \in Nat /\ scenario' = scenario
        /\ host' \in {host, Torn(c, host)}
    <3>1. SendsCommands(r) /\ faults' = faults + 1 /\ scenario' = scenario
      BY <1>8 DEF ExecFails, ExecRejects, ExecTimesOut, ExecCut, Fault
    <3>2. host' \in {host, Torn(c, host)}
      BY <1>8 DEF ExecFails, ExecRejects, ExecTimesOut, ExecCut
    <3> QED
      BY <1>0, <3>1, <3>2
  <2>2. \/ run' = [run EXCEPT ![r] = GoesOn(r, run[r], TRUE)] \/ run' = [run EXCEPT ![r] = GoesOn(r, run[r], FALSE)]
        \/ run' = [run EXCEPT ![r] = Ended(r, run[r], "failed")]
    BY <1>8 DEF ExecFails, ExecRejects, ExecTimesOut, ExecCut
  <2>3. /\ run' = [run EXCEPT ![r] = run'[r]]
        /\ (\E worked \in BOOLEAN : Answered(run[r], run'[r], Task(r), worked))
           \/ TaskOver(run[r], run'[r], Task(r), "failed", run[r].got)
    BY <2>1, <2>2, Sending
  <2>4. IsCommand(c, DOMAIN host.users)
    BY <2>1, Sending
  <2>5. IsMachine(host') /\ SameKind(host, host')
    BY <1>0, <2>1, <2>4, TornKeepsMachine
  <2>6. unseen' \in BOOLEAN /\ blind' \in BOOLEAN /\ together' \in BOOLEAN
    BY <1>0, <1>8 DEF ExecFails, ExecRejects, ExecTimesOut, ExecCut
  <2>7. /\ \A d \in leftOver' : d \in leftOver \/ d = Command1(r)
        /\ ~together' => ~together /\ leftOver' = leftOver
    <3>1. \/ leftOver' = leftOver /\ together' = together
          \/ leftOver' = leftOver \cup {Command1(r)} /\ together' = TRUE
      BY <1>8 DEF ExecFails, ExecRejects, ExecTimesOut, ExecCut
    <3> HIDE DEF c
    <3> QED
      BY <3>1
  <2> QED
    BY <1>6, <2>1, <2>3, <2>5, <2>6, <2>7
<1>9. ASSUME NEW r \in Runs, Finish(r) \/ Verify(r) \/ VerifyThrows(r) PROVE PlaybookTypeOK'
  <2> DEFINE x == run[r]
             y == run'[r]
  <2>1. /\ UNCHANGED <<scenario, host, leftOver, unseen, blind, together>> /\ faults' \in Nat
    BY <1>0, <1>9 DEF Finish, Verify, VerifyThrows, Fault
  <2>2. RunOk(x, Play(r), Dry(r), origin) /\ Len(Play(r)) \in Nat
    BY ScenarioIs DEF PlaybookTypeOK, Play, Dry, origin
  <2>3. \E phase \in {"done", "verify"} : \E result \in {"none", "ok", "threw"} :
            /\ run' = [run EXCEPT ![r].phase = phase, ![r].result = result]
            /\ phase = "done" <=> result # "none"
    <3>1. CASE Finish(r) /\ (Dry(r) \/ FailedTasks(run[r]) # {})
      <4>1. run' = [run EXCEPT ![r].phase = "done", ![r].result = "ok"]
        BY <3>1 DEF Finish
      <4> QED
        BY <4>1
    <3>2. CASE Finish(r) /\ ~(Dry(r) \/ FailedTasks(run[r]) # {})
      <4>1. run' = [run EXCEPT ![r].phase = "verify", ![r].result = "none"]
        BY <3>2 DEF Finish
      <4> QED
        BY <4>1
    <3>3. CASE Verify(r)
      <4>1. run' = [run EXCEPT ![r].phase = "done", ![r].result = "ok"]
        BY <3>3 DEF Verify
      <4> QED
        BY <4>1
    <3>4. CASE VerifyThrows(r)
      <4>1. run' = [run EXCEPT ![r].phase = "done", ![r].result = "threw"]
        BY <3>4 DEF VerifyThrows
      <4> QED
        BY <4>1
    <3> QED
      BY <1>9, <3>1, <3>2, <3>3, <3>4
  <2>4. PICK phase \in {"done", "verify"}, result \in {"none", "ok", "threw"} :
            /\ run' = [run EXCEPT ![r].phase = phase, ![r].result = result]
            /\ phase = "done" <=> result # "none"
    BY <2>3
  <2>5. (x.phase = "task" /\ x.at > Len(Play(r))) \/ x.phase = "verify"
    BY <1>9 DEF Finish, Verify, VerifyThrows
  <2>6. run' = [run EXCEPT ![r] = y] /\ y = [x EXCEPT !.phase = phase, !.result = result]
    BY <2>4 DEF PlaybookTypeOK
  <2> HIDE DEF x, y
  <2>7. /\ IsRun(y) /\ y.phase = phase /\ y.result = result /\ y.commands = x.commands /\ y.changed = x.changed
        /\ y.got = x.got /\ y.lost = x.lost /\ y.at = x.at /\ y.logs = x.logs /\ y.said = x.said
    BY <2>2, <2>6 DEF RunOk, IsRun, Phases
  <2>8. Len(y.logs) = Len(Play(r))
    BY <2>2, <2>5, <2>7 DEF RunOk, Counted
  <2>9. RunOk(y, Play(r), Dry(r), origin)
    <3>1. Counted(y, Len(Play(r)))
      BY <2>2, <2>4, <2>7, <2>8 DEF RunOk, Counted
    <3>2. Acting(y, Play(r), Dry(r), origin)
      BY <2>2, <2>5, <2>7 DEF RunOk, Acting
    <3> QED
      BY <2>7, <3>1, <3>2 DEF RunOk
  <2> QED
    BY <1>0, <1>2, <2>1, <2>5, <2>6, <2>7, <2>9 DEF AtWork, x, y
<1>10. ASSUME NEW c \in leftOver, LeftOverEnds(c) PROVE PlaybookTypeOK'
  <2>1. /\ leftOver' = leftOver \ {c} /\ host' = (IF Possible(c, host) THEN Effect(c, host) ELSE host)
        /\ UNCHANGED <<scenario, run, faults, unseen, blind, together>>
    BY <1>10 DEF LeftOverEnds
  <2>2. IsCommand(c, DOMAIN host.users) /\ SameKind(scenario.host, host)
    BY DEF PlaybookTypeOK, SameKind
  <2>3. IsMachine(host') /\ SameKind(host, host')
    BY <1>0, <2>1, <2>2, EffectIsLawful DEF Lawful
  <2>4. SameKind(scenario.host, host')
    BY <2>2, <2>3 DEF SameKind
  <2> QED
    BY <2>1, <2>3, <2>4 DEF PlaybookTypeOK
<1>11. CASE UNCHANGED playbookVars
  BY <1>11 DEF playbookVars, PlaybookTypeOK
<1> QED
  BY <1>1, <1>4, <1>5, <1>7, <1>8, <1>9, <1>10, <1>11 DEF PlaybookNext

-----------------------------------------------------------------------------
(* What was there: the backups.                                            *)

LEMMA ServedIsWritten ==
    ASSUME NEW t, NEW m, NEW c, Serves(c, t, m), c.do \in Contents \cup {"remove", "backup"}
    PROVE  c.on \in Written(t)
<1>1. CASE t.module \in {"copy", "template", "acme", "file", "lineinfile", "cron", "shell"}
  <2>1. c.on = t.path
    BY <1>1 DEF Serves
  <2> QED
    BY <1>1, <2>1 DEF Written
<1>2. CASE t.module = "systemd_unit"
  <2>1. c.on = t.path
    BY <1>2 DEF Serves, Contents
  <2> QED
    BY <1>2, <2>1 DEF Written
<1>3. CASE t.module = "sysctl"
  <2>1. c.on \in {t.path, t.live}
    BY <1>3 DEF Serves
  <2> QED
    BY <1>3, <2>1 DEF Written
<1>4. CASE t.module = "env_path"
  <2>1. c.on \in t.paths
    BY <1>4 DEF Serves
  <2> QED
    BY <1>4, <2>1 DEF Written
<1>5. t.module \notin {"package", "service", "user", "ufw"}
  BY DEF Serves, Contents
<1>6. t.module \in {"package", "service", "copy", "template", "systemd_unit", "sysctl", "acme",
                    "cron", "shell", "file", "lineinfile", "env_path", "user", "ufw"}
  BY DEF Serves
<1> QED
  BY <1>1, <1>2, <1>3, <1>4, <1>5, <1>6

\* Does the command rewrite this file or its backup?
Copies(c, p) == c.do = "backup" /\ c.on = p
Rewrites(c, p) == c.do \in Contents \cup {"remove", "backup"} /\ c.on = p

\* Commands that leave a file alone, or begin with its backup.
Guarded(cs, p) ==
    \/ \A c \in ToSet(cs) : ~Rewrites(c, p)
    \/ /\ cs # <<>> /\ Copies(Head(cs), p) /\ ~Head(cs).checked
       /\ \A c \in ToSet(Tail(cs)) : ~Copies(c, p)

LEMMA FirstOfConcat ==
    ASSUME NEW b, NEW u, IsList(u)
    PROVE  <<b>> \o u # <<>> /\ Head(<<b>> \o u) = b /\ Tail(<<b>> \o u) = u
<1> DEFINE S == {b} \cup ToSet(u)
           w == <<b>> \o u
<1>1. <<b>> \in Seq(S) /\ u \in Seq(S) /\ Len(<<b>>) = 1
  BY SeqMonotonic DEF IsList
<1> DEFINE a == <<b>>
<1>2. a[1] = b
  OBVIOUS
<1> HIDE DEF S, a
<1>3. /\ w \in Seq(S) /\ Len(w) = Len(a) + Len(u)
      /\ \A i \in 1..(Len(a) + Len(u)) : w[i] = IF i <= Len(a) THEN a[i] ELSE u[i - Len(a)]
  BY <1>1, ConcatProperties DEF a
<1>4. Len(a) = 1 /\ Len(u) \in Nat
  BY <1>1 DEF a
<1> HIDE DEF w
<1>5. Len(w) = 1 + Len(u) /\ w[1] = b /\ \A i \in 1..Len(u) : w[i + 1] = u[i]
  BY <1>2, <1>3, <1>4
<1>6. w # <<>>
  BY <1>3, <1>4, <1>5
<1>7. Tail(w) \in Seq(S) /\ Len(Tail(w)) = Len(u) /\ Head(w) = b /\ \A i \in 1..Len(u) : Tail(w)[i] = u[i]
  BY <1>3, <1>4, <1>5, <1>6, HeadTailProperties
<1> DEFINE v == Tail(w)
<1>8. v = u
  <2> HIDE DEF v
  <2>1. v \in Seq(S) /\ Len(v) = Len(u) /\ \A i \in 1..Len(u) : v[i] = u[i]
    BY <1>7 DEF v
  <2> QED
    BY <1>1, <2>1, SeqEqual
<1> QED
  BY <1>6, <1>7, <1>8 DEF w, a

LEMMA BackupIsFirst ==
    ASSUME NEW t, NEW m, t.backup, NEW u, IsList(u),
           \A c \in ToSet(u) : c.do \in {"write", "chmod"}
    PROVE  LET cs == BackupOnce(t, m) \o u IN
           IF m.backups[t.path] = None /\ m.files[t.path] # None THEN Guarded(cs, t.path) ELSE \A c \in ToSet(cs) : ~Copies(c, t.path)
<1> DEFINE b == Unchecked("backup", t.path, None)
           cs == BackupOnce(t, m) \o u
<1>1. b.do = "backup" /\ b.on = t.path /\ ~b.checked
  BY DEF Command, Unchecked
<1>2. \A c \in ToSet(u) : ~Copies(c, t.path)
  BY DEF Copies
<1>3. CASE m.backups[t.path] = None /\ m.files[t.path] # None
  <2>1. cs = <<b>> \o u
    BY <1>3 DEF BackupOnce
  <2> HIDE DEF b
  <2>2. <<b>> \o u # <<>> /\ Head(<<b>> \o u) = b /\ Tail(<<b>> \o u) = u
    BY FirstOfConcat
  <2> HIDE DEF cs
  <2>3. Guarded(cs, t.path)
    BY <1>1, <1>2, <2>1, <2>2 DEF Guarded, Copies
  <2> QED
    BY <1>3, <2>3 DEF cs
<1>4. CASE ~(m.backups[t.path] = None /\ m.files[t.path] # None)
  <2>1. cs = <<>> \o u
    BY <1>4 DEF BackupOnce
  <2>2. <<>> \o u = u
    BY ConcatEmptySeq DEF IsList
  <2> HIDE DEF cs
  <2>3. \A c \in ToSet(cs) : ~Copies(c, t.path)
    BY <1>2, <2>1, <2>2
  <2> QED
    BY <1>4, <2>3 DEF cs
<1> QED
  BY <1>3, <1>4

\* A module that keeps the original makes a backup first, when there is none.
LEMMA PlanKeepsOriginal ==
    ASSUME NEW t, NEW m, TaskOn(t, m), KeepsOriginal(t), NEW dry \in BOOLEAN,
           NEW cs, cs = Plan(t, m, dry).commands
    PROVE  IF m.backups[t.path] = None /\ m.files[t.path] # None THEN Guarded(cs, t.path) ELSE \A c \in ToSet(cs) : ~Copies(c, t.path)
<1> DEFINE p == t.path
           f == BackupOnce(t, m)
           g == Chmod(t)
<1>1. t.backup /\ t.module \in {"copy", "lineinfile", "systemd_unit"}
  BY DEF KeepsOriginal
<1>2. CASE cs = <<>>
  BY <1>2, ListsAre DEF Guarded
<1>3. ASSUME NEW u, IsList(u), \A c \in ToSet(u) : c.do \in {"write", "chmod"}, cs = f \o u
      PROVE  IF m.backups[p] = None /\ m.files[p] # None THEN Guarded(cs, p) ELSE \A c \in ToSet(cs) : ~Copies(c, p)
  BY <1>1, <1>3, BackupIsFirst
<1>4. ASSUME NEW v
      PROVE  IsList(<<Command("write", p, v)>>) /\ \A c \in ToSet(<<Command("write", p, v)>>) : c.do = "write"
  <2> DEFINE d == Command("write", p, v)
  <2>1. d.do = "write"
    BY DEF Command
  <2> HIDE DEF d
  <2>2. IsList(<<d>>) /\ \A c \in ToSet(<<d>>) : c.do = "write"
    BY <2>1, ListsAre
  <2> QED
    BY <2>2 DEF d
<1>5. IsList(g) /\ \A c \in ToSet(g) : c.do = "chmod"
  <2> DEFINE d == Unchecked("chmod", t.path, t.mode)
  <2>1. d.do = "chmod"
    BY DEF Command, Unchecked
  <2>2. g \in {<<>>, <<d>>}
    BY DEF Chmod
  <2> HIDE DEF d, g
  <2> QED
    BY <2>1, <2>2, ListsAre
<1>6. IsList(f)
  <2>1. f \in {<<>>, <<Unchecked("backup", t.path, None)>>}
    BY DEF BackupOnce
  <2> QED
    BY <2>1, ListsAre
<1>7. \A ds : Sends(ds, dry).commands \in {<<>>, ds}
  BY DEF Sends
<1>8. Same.commands = <<>> /\ Refused.commands = <<>>
  BY DEF Same, Refused
<1> HIDE DEF g, f
<1>9. CASE t.module = "copy"
  <2> DEFINE w == <<Command("write", p, t.text)>>
             u == w \o g
  <2>1. Plan(t, m, dry) \in {Same, Sends((f \o w) \o g, dry)}
    BY <1>9 DEF Plan, PlanCopy, f, g
  <2>2. IsList(w) /\ \A c \in ToSet(w) : c.do = "write"
    BY <1>4
  <2> HIDE DEF w, p
  <2>3. IsList(u) /\ ToSet(u) = ToSet(w) \cup ToSet(g)
    BY <1>5, <2>2, ConcatOfLists
  <2>4. \A c \in ToSet(u) : c.do \in {"write", "chmod"}
    BY <1>5, <2>2, <2>3
  <2>5. (f \o w) \o g = f \o u
    <3> DEFINE S == ToSet(f) \cup ToSet(w) \cup ToSet(g)
    <3>1. f \in Seq(S) /\ w \in Seq(S) /\ g \in Seq(S)
      BY <1>5, <1>6, <2>2, SeqMonotonic DEF IsList
    <3> HIDE DEF S
    <3> QED
      BY <3>1, ConcatAssociative, SMTT(30)
  <2>6. cs \in {<<>>, f \o u}
    BY <1>7, <1>8, <2>1, <2>5
  <2> HIDE DEF u
  <2> QED
    BY <1>2, <1>3, <2>3, <2>4, <2>6 DEF p
<1>10. CASE t.module = "lineinfile"
  <2> DEFINE v == LineEdited(t, IF m.files[p] = None THEN <<>> ELSE m.files[p])
             w == <<Command("write", p, v)>>
  <2>1. Plan(t, m, dry) \in {Same, Refused, Sends(f \o w, dry)}
    <3>1. Plan(t, m, dry) = PlanLine(t, m, dry)
      BY <1>10 DEF Plan
    <3>2. t.state \in {"present", "absent"}
      BY <1>10 DEF TaskOn, IsTask
    <3>3. PlanLine(t, m, dry) =
              CASE m.files[p] = None /\ t.state = "present" /\ ~t.create -> Refused
                [] m.files[p] = None /\ t.state = "absent" -> Same
                [] OTHER -> IF v = (IF m.files[p] = None THEN <<>> ELSE m.files[p]) THEN Same
                            ELSE Sends(f \o w, dry)
      BY DEF PlanLine, f
    <3> HIDE DEF v, w, p
    <3> QED
      BY <3>1, <3>2, <3>3
  <2>2. IsList(w) /\ \A c \in ToSet(w) : c.do \in {"write", "chmod"}
    BY <1>4
  <2> HIDE DEF w, p
  <2>3. cs \in {<<>>, f \o w}
    BY <1>7, <1>8, <2>1
  <2> QED
    BY <1>2, <1>3, <2>2, <2>3 DEF p
<1>11. CASE t.module = "systemd_unit"
  <2> DEFINE w == <<Command("write", p, t.text)>>
  <2>1. t.state = "present"
    BY <1>11 DEF KeepsOriginal
  <2>2. Plan(t, m, dry) \in {Same, Sends(f \o w, dry)}
    BY <1>11, <2>1 DEF Plan, PlanUnit, f
  <2>3. IsList(w) /\ \A c \in ToSet(w) : c.do \in {"write", "chmod"}
    BY <1>4
  <2> HIDE DEF w, p
  <2>4. cs \in {<<>>, f \o w}
    BY <1>7, <1>8, <2>2
  <2> QED
    BY <1>2, <1>3, <2>3, <2>4 DEF p
<1> QED
  BY <1>1, <1>9, <1>10, <1>11

\* Steps in which no command reaches the machine and none is added.
NothingSent ==
    /\ scenario' = scenario /\ host' = host /\ leftOver' = leftOver /\ unseen' = unseen /\ blind' = blind
    /\ together => together'
    /\ \A q \in Runs : run'[q].commands = run[q].commands \/ run'[q].commands = <<>>

LEMMA StepKinds ==
    ASSUME PlaybookTypeOK, [PlaybookNext]_playbookVars
    PROVE  \/ NothingSent \/ \E r \in Runs : Look(r) \/ LookBlind(r) \/ Exec(r) \/ ExecFails(r) \/ ExecTimesOut(r) \/ ExecCut(r)
           \/ \E c \in leftOver : LeftOverEnds(c)
<1>0. run = [r \in Runs |-> run[r]] /\ \A q \in Runs : IsRun(run[q])
  BY DEF PlaybookTypeOK, RunOk
<1>1. ASSUME NEW r \in Runs, Start(r) PROVE NothingSent
  <2>1. \E y : run' = [run EXCEPT ![r] = y] /\ y.commands = run[r].commands
    <3> DEFINE y == [run[r] EXCEPT !.phase = "task"]
    <3>1. run' = [run EXCEPT ![r] = y]
      BY <1>1, Zenon DEF Start
    <3>2. y.commands = run[r].commands
      <4> DEFINE x == run[r]
      <4>1. IsRun(x)
        BY <1>0
      <4> HIDE DEF x
      <4>2. [x EXCEPT !.phase = "task"].commands = x.commands
        BY <4>1 DEF IsRun
      <4> QED
        BY <4>2 DEF x
    <3> QED
      BY <3>1, <3>2
  <2>2. together => together'
    BY <1>1 DEF Start
  <2>3. scenario' = scenario /\ host' = host /\ leftOver' = leftOver /\ unseen' = unseen /\ blind' = blind
    BY <1>1 DEF Start
  <2>4. \A q \in Runs : run'[q].commands = run[q].commands
    BY <1>0, <2>1
  <2> QED
    BY <2>2, <2>3, <2>4 DEF NothingSent
<1>2. ASSUME NEW r \in Runs, NEW s \in TaskStatuses, run' = [run EXCEPT ![r] = Ended(r, run[r], s)],
             UNCHANGED <<scenario, host, leftOver, unseen, blind, together>>
      PROVE  NothingSent
  <2>1. run'[r] = Ended(r, run[r], s) /\ \A q \in Runs \ {r} : run'[q] = run[q]
    BY <1>0, <1>2
  <2>2. run'[r].commands = <<>>
    <3>1. TaskOver(run[r], run'[r], Task(r), s, run[r].got)
      BY <1>0, <2>1, EndedIs
    <3> QED
      BY <3>1 DEF TaskOver
  <2> QED
    BY <1>2, <2>1, <2>2 DEF NothingSent
<1>3. ASSUME NEW r \in Runs, Skip(r) \/ ExecRejects(r) PROVE NothingSent
  <2>1. "skipped" \in TaskStatuses /\ "failed" \in TaskStatuses
    BY DEF TaskStatuses
  <2> QED
    BY <1>2, <1>3, <2>1 DEF Skip, ExecRejects
<1>4. ASSUME NEW r \in Runs, Finish(r) \/ Verify(r) \/ VerifyThrows(r) PROVE NothingSent
  <2>1. \E phase, result : run' = [run EXCEPT ![r].phase = phase, ![r].result = result]
    <3>1. CASE Finish(r)
      BY <3>1 DEF Finish
    <3>2. CASE Verify(r)
      BY <3>2 DEF Verify
    <3>3. CASE VerifyThrows(r)
      BY <3>3 DEF VerifyThrows
    <3> QED
      BY <1>4, <3>1, <3>2, <3>3
  <2>2. PICK phase, result : run' = [run EXCEPT ![r].phase = phase, ![r].result = result]
    BY <2>1
  <2> DEFINE x == run[r]
             y == run'[r]
  <2>3. y = [x EXCEPT !.phase = phase, !.result = result] /\ \A q \in Runs \ {r} : run'[q] = run[q]
    BY <1>0, <2>2
  <2>4. y.commands = x.commands
    <3>1. IsRun(x)
      BY <1>0
    <3> HIDE DEF x, y
    <3> QED
      BY <2>3, <3>1 DEF IsRun
  <2>5. UNCHANGED <<scenario, host, leftOver, unseen, blind, together>>
    BY <1>4 DEF Finish, Verify, VerifyThrows
  <2> QED
    BY <2>3, <2>4, <2>5 DEF NothingSent
<1>5. CASE UNCHANGED playbookVars
  BY <1>5 DEF playbookVars, NothingSent
<1> QED
  BY <1>1, <1>3, <1>4, <1>5 DEF PlaybookNext

LEMMA AnsweredPending ==
    ASSUME NEW x, NEW y, NEW t, NEW worked \in BOOLEAN, NEW users, IsList(x.commands), x.commands # <<>>,
           IsCommand(Head(x.commands), users), Answered(x, y, t, worked)
    PROVE  \A d \in ToSet(y.commands) : d \in ToSet(Tail(x.commands)) \/
               (IsOne(d) /\ (Head(x.commands).do = "install" => d.do = "installOne")
                /\ Head(x.commands).do \in {"install", "uninstall"} /\ Touched(d) \subseteq Touched(Head(x.commands)))
<1> DEFINE c == Head(x.commands)
           rest == Tail(x.commands)
<1>1. IsList(rest) /\ IsCommand(c, users)
  BY TailOfList, SMTT(30)
<1> HIDE DEF c, rest
<1>2. \/ y.commands = rest \/ y.commands = <<>>
      \/ c.do \in {"install", "uninstall"} /\ y.commands = OneByOne(c) \o rest
  BY DEF Answered, TaskOver, c, rest
<1>3. CASE y.commands = rest \/ y.commands = <<>>
  BY <1>3, ListsAre DEF rest
<1>4. CASE c.do \in {"install", "uninstall"} /\ y.commands = OneByOne(c) \o rest
  <2>1. /\ IsList(OneByOne(c))
        /\ \A d \in ToSet(OneByOne(c)) :
               Touched(d) \subseteq Touched(c) /\ IsOne(d) /\ (c.do = "install" => d.do = "installOne")
    BY <1>1, <1>4, OneByOneIs
  <2>2. ToSet(y.commands) = ToSet(OneByOne(c)) \cup ToSet(rest)
    BY <1>1, <1>4, <2>1, ConcatOfLists
  <2> QED
    BY <1>4, <2>1, <2>2 DEF c, rest
<1> QED
  BY <1>2, <1>3, <1>4

\* What is left to send after a command was sent.
LeftToSend(r, c) ==
    /\ \A q \in Runs \ {r} : run'[q] = run[q]
    /\ \A d \in ToSet(run'[r].commands) : d \in ToSet(Tail(run[r].commands)) \/
           (IsOne(d) /\ (c.do = "install" => d.do = "installOne") /\ c.do \in {"install", "uninstall"} /\ Touched(d) \subseteq Touched(c))

LEMMA ExecIs ==
    ASSUME PlaybookTypeOK, NEW r \in Runs, Exec(r), NEW c, c = Command1(r)
    PROVE  /\ SendsCommands(r) /\ LeftToSend(r, c)
           /\ Answered(run[r], run'[r], Task(r), Possible(c, host))
           /\ Possible(c, host) => host' = Effect(c, host) /\ Lawful(c, host, host')
           /\ ~Possible(c, host) => host' = host
           /\ unseen' = (unseen \/ (~Possible(c, host) /\ ~c.checked))
           /\ UNCHANGED <<scenario, leftOver, faults, blind, together>>
<1> DEFINE works == Possible(c, host)
<1>1. /\ SendsCommands(r) /\ host' = (IF works THEN Effect(c, host) ELSE host)
      /\ run' = [run EXCEPT ![r] = GoesOn(r, run[r], works)] /\ unseen' = (unseen \/ (~works /\ ~c.checked))
      /\ UNCHANGED <<scenario, leftOver, faults, blind, together>>
  BY DEF Exec
<1>2. works \in BOOLEAN
  BY PossibleIs
<1> HIDE DEF works
<1>3. /\ IsList(run[r].commands) /\ run[r].commands # <<>> /\ c = Head(run[r].commands)
      /\ IsCommand(c, DOMAIN host.users)
      /\ run' = [run EXCEPT ![r] = run'[r]] /\ Answered(run[r], run'[r], Task(r), works)
  BY <1>1, <1>2, Sending
<1>4. \A q \in Runs \ {r} : run'[q] = run[q]
  <2>1. run = [q \in Runs |-> run[q]]
    BY DEF PlaybookTypeOK
  <2> QED
    BY <1>3, <2>1
<1>5. LeftToSend(r, c)
  BY <1>2, <1>3, <1>4, AnsweredPending, SMTT(30) DEF LeftToSend
<1>6. works => host' = Effect(c, host) /\ Lawful(c, host, host')
  <2> SUFFICES ASSUME works PROVE host' = Effect(c, host) /\ Lawful(c, host, host')
    OBVIOUS
  <2>1. host' = Effect(c, host) /\ IsMachine(host) /\ Possible(c, host)
    BY <1>1 DEF PlaybookTypeOK, works
  <2> QED
    BY <1>3, <2>1, EffectIsLawful
<1> QED
  BY <1>1, <1>3, <1>5, <1>6 DEF works

LEMMA FaultIs ==
    ASSUME PlaybookTypeOK, NEW r \in Runs, ExecFails(r) \/ ExecTimesOut(r) \/ ExecCut(r), NEW c, c = Command1(r)
    PROVE  /\ SendsCommands(r) /\ LeftToSend(r, c) /\ scenario' = scenario /\ faults' = faults + 1
           /\ Answered(run[r], run'[r], Task(r), FALSE) \/ (unseen' /\ Answered(run[r], run'[r], Task(r), TRUE))
           /\ host' = host \/ (host' = Torn(c, host) /\ blind')
           /\ (blind => blind') /\ (unseen => unseen') /\ (together => together')
           /\ ~c.checked => unseen' \/ together'
           /\ leftOver' = leftOver \/ (leftOver' = leftOver \cup {c} /\ together')
           /\ IsMachine(host') /\ SameKind(host, host') /\ host'.backups = host.backups
           /\ \A p \in Paths : host'.files[p] # host.files[p] => blind' /\ c.do = "write" /\ p = c.on
<1>1. /\ SendsCommands(r) /\ scenario' = scenario /\ faults' = faults + 1
      /\ (blind => blind') /\ (unseen => unseen') /\ (together => together')
  <2>1. SendsCommands(r) /\ scenario' = scenario /\ faults' = faults + 1
    BY DEF ExecFails, ExecTimesOut, ExecCut, Fault
  <2>2. CASE ExecFails(r)
    BY <2>1, <2>2 DEF ExecFails
  <2>3. CASE ExecTimesOut(r)
    BY <2>1, <2>3 DEF ExecTimesOut
  <2>4. CASE ExecCut(r)
    BY <2>1, <2>4 DEF ExecCut
  <2> QED
    BY <2>2, <2>3, <2>4
<1>2. /\ leftOver' = leftOver \/ (leftOver' = leftOver \cup {c} /\ together')
      /\ ~c.checked => unseen' \/ together'
  BY DEF ExecFails, ExecTimesOut, ExecCut
<1>3. host' = host \/ (host' = Torn(c, host) /\ blind')
  BY DEF ExecFails, ExecTimesOut, ExecCut
<1>4. \/ run' = [run EXCEPT ![r] = GoesOn(r, run[r], FALSE)]
      \/ unseen' /\ run' = [run EXCEPT ![r] = GoesOn(r, run[r], TRUE)]
  BY DEF ExecFails, ExecTimesOut, ExecCut
<1>5. /\ IsList(run[r].commands) /\ run[r].commands # <<>> /\ c = Head(run[r].commands)
      /\ IsCommand(c, DOMAIN host.users)
      /\ run' = [run EXCEPT ![r] = run'[r]]
      /\ Answered(run[r], run'[r], Task(r), FALSE) \/ (unseen' /\ Answered(run[r], run'[r], Task(r), TRUE))
  BY <1>1, <1>4, Sending
<1>6. \A q \in Runs \ {r} : run'[q] = run[q]
  <2>1. run = [q \in Runs |-> run[q]]
    BY DEF PlaybookTypeOK
  <2> QED
    BY <1>5, <2>1
<1>7. LeftToSend(r, c)
  <2>1. ASSUME NEW worked \in BOOLEAN, Answered(run[r], run'[r], Task(r), worked) PROVE LeftToSend(r, c)
    <3>1. \A d \in ToSet(run'[r].commands) : d \in ToSet(Tail(run[r].commands)) \/
               (IsOne(d) /\ (c.do = "install" => d.do = "installOne") /\ c.do \in {"install", "uninstall"} /\ Touched(d) \subseteq Touched(c))
      <4> DEFINE x == run[r]
                 y == run'[r]
                 t == Task(r)
      <4>1. IsList(x.commands) /\ x.commands # <<>> /\ c = Head(x.commands) /\ Answered(x, y, t, worked)
        BY <1>5, <2>1
      <4> HIDE DEF x, y, t
      <4>2. \A d \in ToSet(y.commands) : d \in ToSet(Tail(x.commands)) \/
               (IsOne(d) /\ (Head(x.commands).do = "install" => d.do = "installOne")
                /\ Head(x.commands).do \in {"install", "uninstall"} /\ Touched(d) \subseteq Touched(Head(x.commands)))
        BY <1>5, <4>1, AnsweredPending
      <4> QED
        BY <4>1, <4>2 DEF x, y
    <3> QED
      BY <1>6, <3>1 DEF LeftToSend
  <2>2. TRUE \in BOOLEAN /\ FALSE \in BOOLEAN
    OBVIOUS
  <2> QED
    BY <1>5, <2>1, <2>2
<1>8. /\ IsMachine(host') /\ SameKind(host, host') /\ host'.backups = host.backups
      /\ \A p \in Paths : host'.files[p] # host.files[p] => blind' /\ c.do = "write" /\ p = c.on
  <2>1. IsMachine(host) /\ SameKind(host, host)
    BY DEF PlaybookTypeOK, SameKind
  <2>2. CASE host' = host
    BY <2>1, <2>2
  <2>3. CASE host' = Torn(c, host) /\ blind'
    BY <1>5, <2>1, <2>3, TornKeepsMachine
  <2> QED
    BY <1>3, <2>2, <2>3
<1> QED
  BY <1>1, <1>2, <1>3, <1>5, <1>7, <1>8

\* The file is rewritten by modules that keep it only.
KeptOn(p) == (\A t \in Writers(p) : KeepsOriginal(t)) /\ origin.files[p] # None

\* The backup is what it is to be, and nobody is about to copy anything over it,
Preserved(p) ==
    /\ host.backups[p] = IF origin.backups[p] = None THEN origin.files[p] ELSE origin.backups[p]
    /\ \A r \in Runs : \A c \in ToSet(run[r].commands) : ~Copies(c, p)

\* or the file is what it was, and whoever rewrites it makes the backup first.
Untouched(p) ==
    /\ origin.backups[p] = None /\ host.backups[p] = None /\ host.files[p] = origin.files[p]
    /\ \A r \in Runs : Guarded(run[r].commands, p)

\* Every file that is to be kept is in one of the two states.
OriginalInv ==
    ~unseen /\ ~together => \A p \in Paths : KeptOn(p) => Preserved(p) \/ Untouched(p)

\* Who is at work is alone.
LEMMA Alone ==
    ASSUME PlaybookTypeOK, ~together, NEW r \in Runs, AtWork(r)
    PROVE  leftOver = {} /\ \A q \in Runs \ {r} : ~AtWork(q) /\ run[q].commands = <<>>
<1>1. /\ leftOver = {} /\ (run[2].phase # "idle" => run[1].phase = "done")
      /\ run[1].phase = "idle" => run[2].phase = "idle"
  BY DEF PlaybookTypeOK
<1>2. \A q \in Runs \ {r} : run[q].phase \in {"idle", "done"}
  <2>1. CASE r = 1
    BY <1>1, <2>1 DEF AtWork, Runs
  <2>2. CASE r = 2
    BY <1>1, <2>2 DEF AtWork, Runs
  <2> QED
    BY <2>1, <2>2 DEF Runs
<1>3. \A q \in Runs : run[q].phase # "act" => run[q].commands = <<>>
  BY DEF PlaybookTypeOK, RunOk, Acting
<1> QED
  BY <1>1, <1>2, <1>3 DEF AtWork

LEMMA GuardedForms ==
    ASSUME NEW p
    PROVE  /\ Guarded(<<>>, p) /\ \A c \in ToSet(<<>>) : ~Copies(c, p)
           /\ \A cs : (\A c \in ToSet(cs) : ~Rewrites(c, p)) =>
                  Guarded(cs, p) /\ \A c \in ToSet(cs) : ~Copies(c, p)
           /\ \A c : IsOne(c) => ~Rewrites(c, p) /\ ~Copies(c, p)
BY ListsAre DEF Guarded, Rewrites, Copies, IsOne, Contents

LEMMA WrittenIs ==
    ASSUME NEW t, KeepsOriginal(t)
    PROVE  Written(t) = {t.path}
<1>1. t.module \in {"copy", "lineinfile", "systemd_unit"}
  BY DEF KeepsOriginal
<1>2. CASE t.module = "copy"
  BY <1>2 DEF Written
<1>3. CASE t.module = "lineinfile"
  BY <1>3 DEF Written
<1>4. CASE t.module = "systemd_unit"
  BY <1>4 DEF Written
<1> QED
  BY <1>1, <1>2, <1>3, <1>4

\* What a module plans for a file that is rewritten by modules that keep it only.
LEMMA PlanGuards ==
    ASSUME NEW t, NEW n, TaskOn(t, n), NEW dry \in BOOLEAN, NEW plan, IsPlan(plan, t, n, dry),
           plan = Refused \/ plan = Plan(t, n, dry), NEW p, p \in Written(t) => KeepsOriginal(t)
    PROVE  IF n.backups[p] = None /\ n.files[p] # None THEN Guarded(plan.commands, p)
           ELSE \A c \in ToSet(plan.commands) : ~Copies(c, p)
<1> DEFINE cs == plan.commands
<1>1. CASE plan = Refused
  <2>1. cs = <<>>
    BY <1>1 DEF Refused
  <2> QED
    BY <2>1, GuardedForms
<1>2. CASE plan = Plan(t, n, dry) /\ p \in Written(t)
  <2>1. KeepsOriginal(t) /\ p = t.path
    BY <1>2, WrittenIs
  <2> QED
    BY <1>2, <2>1, PlanKeepsOriginal
<1>3. CASE p \notin Written(t)
  <2>1. \A c \in ToSet(cs) : ~Rewrites(c, p)
    BY <1>3, ServedIsWritten DEF IsPlan, Sent, Rewrites
  <2> QED
    BY <2>1, GuardedForms
<1> QED
  BY <1>1, <1>2, <1>3

LEMMA OriginalStarts == ASSUME PlaybookInit PROVE OriginalInv
<1>1. host = origin /\ \A r \in Runs : run[r].commands = <<>>
  BY DEF PlaybookInit, origin, NotStarted
<1> QED
  BY <1>1, GuardedForms DEF OriginalInv, Preserved, Untouched

LEMMA OriginalSteps ==
    ASSUME PlaybookTypeOK, OriginalInv, [PlaybookNext]_playbookVars
    PROVE  OriginalInv'
<1> SUFFICES ASSUME ~unseen', ~together', NEW p \in Paths, KeptOn(p)' PROVE Preserved(p)' \/ Untouched(p)'
  BY DEF OriginalInv
<1>0. ASSUME scenario' = scenario
      PROVE  KeptOn(p) /\ origin' = origin /\ \A t \in Tasks : p \in Written(t) => KeepsOriginal(t)
  BY <1>0 DEF KeptOn, Writers, Tasks, Play, origin
<1>1. CASE NothingSent
  <2>1. /\ host' = host /\ scenario' = scenario /\ ~unseen /\ ~together
        /\ \A q \in Runs : run'[q].commands = run[q].commands \/ run'[q].commands = <<>>
    BY <1>1 DEF NothingSent
  <2>2. Preserved(p) \/ Untouched(p)
    BY <1>0, <2>1 DEF OriginalInv
  <2>3. CASE Preserved(p)
    <3>1. Preserved(p)'
      BY <1>0, <2>1, <2>3, GuardedForms DEF Preserved
    <3> QED
      BY <3>1
  <2>4. CASE Untouched(p)
    <3>1. Untouched(p)'
      BY <1>0, <2>1, <2>4, GuardedForms DEF Untouched
    <3> QED
      BY <3>1
  <2> QED
    BY <2>2, <2>3, <2>4
<1>2. ASSUME NEW r \in Runs, Look(r) \/ LookBlind(r) PROVE Preserved(p)' \/ Untouched(p)'
  <2>1. host' = host /\ scenario' = scenario /\ ~unseen /\ ~together
    BY <1>2 DEF Look, LookBlind, Dispatch
  <2>2. Preserved(p) \/ Untouched(p)
    BY <1>0, <2>1 DEF OriginalInv
  <2>3. /\ run' = [run EXCEPT ![r] = run'[r]] /\ TaskOn(Task(r), host) /\ Dry(r) \in BOOLEAN
        /\ run[r].at \in DOMAIN Play(r) /\ Task(r) = Play(r)[run[r].at]
    BY <1>2, Looking, ScenarioIs
  <2>4. PICK plan, n : /\ Unread(host, n) /\ TaskOn(Task(r), n) /\ IsPlan(plan, Task(r), n, Dry(r))
                       /\ Looked(run[r], run'[r], Task(r), plan, Dry(r))
                       /\ plan = Refused \/ plan = Plan(Task(r), n, Dry(r))
    BY <1>2, Looking
  <2>5. Task(r) \in Tasks
    BY <2>3 DEF Tasks
  <2>6. IF n.backups[p] = None /\ n.files[p] # None THEN Guarded(plan.commands, p)
        ELSE \A c \in ToSet(plan.commands) : ~Copies(c, p)
    BY <1>0, <2>1, <2>3, <2>4, <2>5, PlanGuards
  <2>7. run'[r].commands = plan.commands \/ run'[r].commands = <<>>
    BY <2>4 DEF Looked, TaskOver
  <2>8. \A q \in Runs \ {r} : run'[q] = run[q]
    <3>1. run = [q \in Runs |-> run[q]]
      BY DEF PlaybookTypeOK
    <3> QED
      BY <2>3, <3>1
  <2>9. n.backups[p] = host.backups[p] /\ (host.files[p] # None => n.files[p] # None)
    <3>1. <<>> # None
      BY NoneAssumption, EmptySeq
    <3> QED
      BY <2>4, <3>1 DEF Unread
  <2>10. CASE Preserved(p)
    <3>1. host.backups[p] # None
      BY <1>0, <2>1, <2>10 DEF Preserved, KeptOn
    <3>2. \A c \in ToSet(run'[r].commands) : ~Copies(c, p)
      BY <2>6, <2>7, <2>9, <3>1, GuardedForms
    <3>3. Preserved(p)'
      BY <1>0, <2>1, <2>8, <2>10, <3>2 DEF Preserved
    <3> QED
      BY <3>3
  <2>11. CASE Untouched(p)
    <3>1. Guarded(run'[r].commands, p)
      BY <1>0, <2>1, <2>6, <2>7, <2>9, <2>11, GuardedForms DEF Untouched, KeptOn
    <3>2. Untouched(p)'
      BY <1>0, <2>1, <2>8, <2>11, <3>1 DEF Untouched
    <3> QED
      BY <3>2
  <2> QED
    BY <2>2, <2>10, <2>11
<1>3. ASSUME NEW r \in Runs, NEW c, c = Command1(r), SendsCommands(r), LeftToSend(r, c), scenario' = scenario,
             ~unseen, ~together, NEW S, S = run[r].commands, NEW S1, S1 = run'[r].commands
      PROVE  /\ ToSet(S) = {c} \cup ToSet(Tail(S)) /\ S # <<>> /\ Head(S) = c
             /\ \A q \in Runs \ {r} : run[q].commands = <<>> /\ run'[q].commands = <<>>
             /\ (\A d \in ToSet(Tail(S)) : ~Copies(d, p)) => \A d \in ToSet(S1) : ~Copies(d, p)
             /\ (\A d \in ToSet(Tail(S)) : ~Rewrites(d, p)) => \A d \in ToSet(S1) : ~Rewrites(d, p)
             /\ Preserved(p) \/ Untouched(p)
  <2>1. AtWork(r) /\ ToSet(S) = {c} \cup ToSet(Tail(S)) /\ S # <<>> /\ Head(S) = c
    BY <1>3, Sending
  <2>2. \A q \in Runs \ {r} : run[q].commands = <<>> /\ run'[q].commands = <<>>
    BY <1>3, <2>1, Alone DEF LeftToSend
  <2>3. \A d \in ToSet(S1) : d \in ToSet(Tail(S)) \/ IsOne(d)
    BY <1>3 DEF LeftToSend
  <2>4. Preserved(p) \/ Untouched(p)
    BY <1>0, <1>3 DEF OriginalInv
  <2> QED
    BY <2>1, <2>2, <2>3, <2>4, GuardedForms
<1>4. ASSUME NEW r \in Runs, NEW c, c = Command1(r), SendsCommands(r), LeftToSend(r, c), scenario' = scenario,
             ~unseen, ~together, Copies(c, p) => c.checked /\ host'.backups = host.backups,
             ~Copies(c, p) => host'.backups[p] = host.backups[p],
             ~Rewrites(c, p) => host'.files[p] = host.files[p]
      PROVE  Preserved(p)' \/ Untouched(p)'
  <2> DEFINE S == run[r].commands
             S1 == run'[r].commands
  <2>1. /\ ToSet(S) = {c} \cup ToSet(Tail(S)) /\ S # <<>> /\ Head(S) = c
        /\ \A q \in Runs \ {r} : run[q].commands = <<>> /\ run'[q].commands = <<>>
        /\ (\A d \in ToSet(Tail(S)) : ~Copies(d, p)) => \A d \in ToSet(S1) : ~Copies(d, p)
        /\ (\A d \in ToSet(Tail(S)) : ~Rewrites(d, p)) => \A d \in ToSet(S1) : ~Rewrites(d, p)
        /\ Preserved(p) \/ Untouched(p)
    BY <1>3, <1>4
  <2>2. CASE Preserved(p)
    <3>1. ~Copies(c, p) /\ \A d \in ToSet(S1) : ~Copies(d, p)
      BY <2>1, <2>2 DEF Preserved
    <3>2. \A q \in Runs : \A d \in ToSet(run'[q].commands) : ~Copies(d, p)
      BY <2>1, <3>1, GuardedForms
    <3>3. Preserved(p)'
      BY <1>0, <1>4, <2>2, <3>1, <3>2 DEF Preserved
    <3> QED
      BY <3>3
  <2>3. CASE Untouched(p)
    <3>1. Guarded(S, p)
      BY <2>3 DEF Untouched
    <3>2. CASE \A d \in ToSet(S) : ~Rewrites(d, p)
      <4>1. ~Rewrites(c, p) /\ ~Copies(c, p)
        BY <2>1, <3>2 DEF Rewrites, Copies
      <4>2. \A d \in ToSet(S1) : ~Rewrites(d, p)
        BY <2>1, <3>2
      <4>3. \A q \in Runs : Guarded(run'[q].commands, p)
        BY <2>1, <4>2, GuardedForms
      <4>4. Untouched(p)'
        BY <1>0, <1>4, <2>3, <4>1, <4>3 DEF Untouched
      <4> QED
        BY <4>4
    <3>3. CASE Copies(c, p) /\ ~c.checked
      BY <1>4, <3>3
    <3> QED
      BY <2>1, <3>1, <3>2, <3>3 DEF Guarded
  <2> QED
    BY <2>1, <2>2, <2>3
<1>5. ASSUME NEW r \in Runs, Exec(r) PROVE Preserved(p)' \/ Untouched(p)'
  <2> DEFINE c == Command1(r)
  <2>1. /\ SendsCommands(r) /\ LeftToSend(r, c) /\ scenario' = scenario
        /\ Possible(c, host) => Lawful(c, host, host')
        /\ ~Possible(c, host) => host' = host
        /\ unseen' = (unseen \/ (~Possible(c, host) /\ ~c.checked))
        /\ together' = together
    BY <1>5, ExecIs
  <2>2. ~unseen /\ ~together /\ (~Possible(c, host) => c.checked)
    BY <2>1
  <2> HIDE DEF c
  <2>3. IsCommand(c, DOMAIN host.users) /\ IsMachine(host)
    BY <2>1, Sending DEF c, PlaybookTypeOK
  <2>4. CASE Copies(c, p) /\ ~c.checked
    <3>1. Lawful(c, host, host') /\ c.do = "backup" /\ c.on = p
      BY <2>1, <2>2, <2>4 DEF Copies
    <3>2. host'.backups[p] = host.files[p]
      BY <2>3, <3>1 DEF Lawful, IsMachine
    <3>3. /\ \A d \in ToSet(run[r].commands) : ~Copies(d, p) => d # c
          /\ \A q \in Runs \ {r} : run[q].commands = <<>> /\ run'[q].commands = <<>>
          /\ (\A d \in ToSet(Tail(run[r].commands)) : ~Copies(d, p)) =>
                 \A d \in ToSet(run'[r].commands) : ~Copies(d, p)
          /\ Preserved(p) \/ Untouched(p)
          /\ c \in ToSet(run[r].commands) /\ Head(run[r].commands) = c
      BY <1>3, <2>1, <2>2, <2>4 DEF c
    <3>4. Untouched(p)
      BY <2>4, <3>3 DEF Preserved
    <3>5. Guarded(run[r].commands, p) /\ Rewrites(c, p)
      BY <2>4, <3>4 DEF Untouched, Rewrites, Copies
    <3>6. \A d \in ToSet(Tail(run[r].commands)) : ~Copies(d, p)
      BY <3>3, <3>5 DEF Guarded
    <3>7. \A q \in Runs : \A d \in ToSet(run'[q].commands) : ~Copies(d, p)
      BY <3>3, <3>6, GuardedForms
    <3>8. Preserved(p)'
      BY <1>0, <2>1, <3>2, <3>4, <3>7 DEF Preserved, Untouched
    <3> QED
      BY <3>8
  <2>5. CASE ~Copies(c, p) \/ ~Possible(c, host)
    <3>1. /\ Copies(c, p) => c.checked /\ host'.backups = host.backups
          /\ ~Copies(c, p) => host'.backups[p] = host.backups[p]
          /\ ~Rewrites(c, p) => host'.files[p] = host.files[p]
      <4>1. CASE ~Possible(c, host)
        BY <2>1, <2>2, <4>1
      <4>2. CASE Possible(c, host) /\ ~Copies(c, p)
        <5>1. Lawful(c, host, host')
          BY <2>1, <4>2
        <5>2. host'.backups[p] = host.backups[p]
          BY <2>3, <4>2, <5>1 DEF Lawful, IsMachine, Copies
        <5>3. ~Rewrites(c, p) => host'.files[p] = host.files[p]
          BY <2>3, <5>1 DEF Lawful, IsMachine, Rewrites, Contents
        <5> QED
          BY <4>2, <5>2, <5>3
      <4> QED
        BY <2>5, <4>1, <4>2
    <3> QED
      BY <1>4, <2>1, <2>2, <3>1 DEF c
  <2>6. CASE Copies(c, p) /\ Possible(c, host) /\ c.checked
    <3>1. Guarded(run[r].commands, p) \/ Preserved(p)
      BY <1>3, <2>1, <2>2 DEF c, Untouched
    <3>2. c \in ToSet(run[r].commands) /\ Head(run[r].commands) = c
      BY <1>3, <2>1, <2>2 DEF c
    <3> QED
      BY <2>6, <3>1, <3>2 DEF Guarded, Preserved, Rewrites, Copies
  <2> QED
    BY <2>4, <2>5, <2>6
<1>6. ASSUME NEW r \in Runs, ExecFails(r) \/ ExecTimesOut(r) \/ ExecCut(r) PROVE Preserved(p)' \/ Untouched(p)'
  <2> DEFINE c == Command1(r)
  <2>1. /\ SendsCommands(r) /\ LeftToSend(r, c) /\ scenario' = scenario
        /\ ~unseen /\ ~together /\ c.checked /\ host'.backups = host.backups
        /\ \A q \in Paths : host'.files[q] # host.files[q] => c.do = "write" /\ q = c.on
    <3>1. /\ SendsCommands(r) /\ LeftToSend(r, c) /\ scenario' = scenario
          /\ unseen => unseen'
          /\ together => together'
          /\ ~c.checked => unseen' \/ together'
          /\ host'.backups = host.backups
          /\ \A q \in Paths : host'.files[q] # host.files[q] => c.do = "write" /\ q = c.on
      <4> HIDE DEF c
      <4>1. c = Command1(r)
        BY DEF c
      <4> QED
        BY <1>6, <4>1, FaultIs
    <3> QED
      BY <3>1
  <2>2. ~Rewrites(c, p) => host'.files[p] = host.files[p]
    BY <2>1 DEF Rewrites, Contents
  <2> QED
    BY <1>4, <2>1, <2>2
<1>7. ASSUME NEW c \in leftOver, LeftOverEnds(c) PROVE FALSE
  BY <1>7 DEF LeftOverEnds, PlaybookTypeOK
<1> QED
  BY <1>1, <1>2, <1>5, <1>6, <1>7, StepKinds

LEMMA OriginalFollows == ASSUME OriginalInv PROVE OriginalIsKept
BY DEF OriginalInv, OriginalIsKept, KeptOn, Preserved, Untouched

-----------------------------------------------------------------------------
(* What was there: the lines of others.                                    *)

\* The lines have whole blocks, and all lines of others.
Sound(lines, markers, own, old) ==
    lines \in Seq(Lines) /\ Regular(lines, markers, own) /\ ToSet(old) \ own \subseteq ToSet(lines)

SoundIn(p, lines) == Sound(lines, Markers(p), Own(p), origin.files[p])

\* Commands under way that give the file new contents, or none.
Pending(p) ==
    {c \in leftOver \cup UNION {ToSet(run[r].commands) : r \in Runs} :
        c.do \in Contents \cup {"remove"} /\ c.on = p}

\* The files LinesOfOthersSurvive is about.
SharedFile(p) == origin.files[p] # None /\ LineByLine(p)

\* A file that is changed by lines and blocks is sound, and so is all that is about to be
\* written into it, by a run or by a command that was left over.
LinesInv ==
    ~blind => \A p \in Paths : SharedFile(p) =>
        SoundIn(p, host.files[p]) /\ \A c \in Pending(p) : c.do \in Contents /\ SoundIn(p, c.value)

LEMMA OfOneScenario ==
    ASSUME scenario' = scenario, NEW CONSTANT p
    PROVE  Markers(p)' = Markers(p) /\ Own(p)' = Own(p) /\ origin' = origin /\ SharedFile(p)' = SharedFile(p)
<1>1. Tasks' = Tasks /\ origin' = origin
  BY DEF Tasks, Play, origin
<1>2. Writers(p)' = Writers(p)
  BY <1>1 DEF Writers
<1>3. Markers(p)' = Markers(p) /\ Own(p)' = Own(p)
  BY <1>1, <1>2 DEF Markers, Own
<1>4. LineByLine(p)' = LineByLine(p)
  BY <1>1, <1>2, <1>3 DEF LineByLine
<1> QED
  BY <1>1, <1>3, <1>4 DEF SharedFile

LEMMA LinesStart == ASSUME PlaybookInit PROVE LinesInv
<1>1. host = origin /\ leftOver = {} /\ \A r \in Runs : run[r].commands = <<>>
  BY DEF PlaybookInit, origin, NotStarted
<1>2. \A p \in Paths : Pending(p) = {}
  BY <1>1, ListsAre DEF Pending
<1>3. IsMachine(origin)
  BY ScenariosAssumption DEF PlaybookInit, origin
<1>4. ASSUME NEW p \in Paths, SharedFile(p) PROVE SoundIn(p, host.files[p])
  <2>1. host.files[p] \in Seq(Lines)
    BY <1>1, <1>3, <1>4 DEF IsMachine, FileContents, SharedFile
  <2>2. BlocksWhole(origin.files[p], Markers(p))
    BY <1>4 DEF SharedFile, LineByLine
  <2>3. ASSUME NEW k \in Markers(p) PROVE Follows(origin.files[p], k) \subseteq Own(p)
    <3>1. PICK t \in Writers(p) : k = t.marker
      BY <2>3 DEF Markers
    <3> QED
      BY <3>1 DEF Own
  <2> QED
    BY <1>1, <2>1, <2>2, <2>3 DEF SoundIn, Sound, Regular
<1> QED
  BY <1>2, <1>4 DEF LinesInv

\* A module that finds sound lines plans sound lines.
LEMMA PlanIsSound ==
    ASSUME PlaybookTypeOK, NEW t \in Tasks, TaskOn(t, host), NEW c, Serves(c, t, host),
           NEW p \in Paths, SharedFile(p), SoundIn(p, host.files[p]),
           c.do \in Contents \cup {"remove"}, c.on = p
    PROVE  c.do \in Contents /\ SoundIn(p, c.value)
<1> DEFINE old == host.files[p]
           M == Markers(p)
           O == Own(p)
<1>1. p \in Written(t)
  BY ServedIsWritten
<1>2. t \in Writers(p)
  BY <1>1 DEF Writers
<1>3. /\ t.module \in {"lineinfile", "cron", "env_path"} /\ t.line \notin M
      /\ t.module = "lineinfile" /\ t.state = "absent" => M = {}
  BY <1>2 DEF SharedFile, LineByLine
<1>4. /\ t.line \in O /\ t.marker \in O
      /\ t.match # None => t.match \subseteq O
  BY <1>2 DEF Own
<1>5. t.module \in {"cron", "env_path"} => t.marker \in M
  BY <1>2 DEF Markers
<1>6. old \in Seq(Lines) /\ Regular(old, M, O) /\ ToSet(origin.files[p]) \ O \subseteq ToSet(old)
  BY DEF SoundIn, Sound
<1>7. LinesOf(old) = old
  BY <1>6, NoneAssumption DEF LinesOf
<1>8. /\ t.line \in Lines
      /\ t.module \in {"cron", "env_path"} => t.marker \in Lines
      /\ t.module = "lineinfile" => t.state \in {"present", "absent"}
  BY <1>3 DEF TaskOn, IsTask
<1>9. ASSUME NEW new \in Seq(Lines), KeepsLines(old, new, M, O) PROVE SoundIn(p, new)
  BY <1>6, <1>9 DEF KeepsLines, SoundIn, Sound
<1>10. CASE t.module = "lineinfile"
  <2>1. c.do = "write" /\ c.value = LineEdited(t, old)
    BY <1>7, <1>10 DEF Serves, Contents
  <2> HIDE DEF old, M, O
  <2>2. LineEdited(t, old) \in Seq(Lines) /\ KeepsLines(old, LineEdited(t, old), M, O)
    BY <1>3, <1>4, <1>6, <1>8, <1>10, LineType, LineKeepsLines
  <2> QED
    BY <1>9, <2>1, <2>2 DEF Contents
<1>11. CASE t.module = "cron"
  <2>1. c.do = "write" /\ c.value = CrontabWith(t, old)
    BY <1>7, <1>11 DEF Serves
  <2> HIDE DEF old, M, O
  <2>2. CrontabWith(t, old) \in Seq(Lines) /\ KeepsLines(old, CrontabWith(t, old), M, O)
    BY <1>3, <1>4, <1>5, <1>6, <1>8, <1>11, CrontabType, CrontabKeepsLines
  <2> QED
    BY <1>9, <2>1, <2>2 DEF Contents
<1>12. CASE t.module = "env_path"
  <2>1. c.do = "write" /\ c.value = BlockUpserted(t, old)
    BY <1>7, <1>12 DEF Serves
  <2> HIDE DEF old, M, O
  <2>2. BlockUpserted(t, old) \in Seq(Lines) /\ KeepsLines(old, BlockUpserted(t, old), M, O)
    BY <1>3, <1>4, <1>5, <1>6, <1>8, <1>12, BlockType, BlockKeepsLines
  <2> QED
    BY <1>9, <2>1, <2>2 DEF Contents
<1> QED
  BY <1>3, <1>10, <1>11, <1>12

LEMMA LinesStep ==
    ASSUME PlaybookTypeOK, LinesInv, [PlaybookNext]_playbookVars
    PROVE  LinesInv'
<1> SUFFICES ASSUME ~blind', NEW p \in Paths, SharedFile(p)'
             PROVE  SoundIn(p, host.files[p])' /\ \A c \in Pending(p)' : c.do \in Contents /\ SoundIn(p, c.value)'
  BY DEF LinesInv
<1>1. ASSUME scenario' = scenario, ~blind
      PROVE  /\ SharedFile(p) /\ SoundIn(p, host.files[p])
             /\ \A c \in Pending(p) : c.do \in Contents /\ SoundIn(p, c.value)
             /\ SoundIn(p, host.files[p])' = Sound(host'.files[p], Markers(p), Own(p), origin.files[p])
             /\ \A c : SoundIn(p, c.value)' = SoundIn(p, c.value)
  <2>1. Markers(p)' = Markers(p) /\ Own(p)' = Own(p) /\ origin' = origin /\ SharedFile(p)
    BY <1>1, OfOneScenario
  <2>2. /\ SoundIn(p, host.files[p])' = Sound(host'.files[p], Markers(p), Own(p), origin.files[p])
        /\ \A c : SoundIn(p, c.value)' = SoundIn(p, c.value)
    BY <2>1 DEF SoundIn
  <2> QED
    BY <1>1, <2>1, <2>2 DEF LinesInv
<1>2. ASSUME scenario' = scenario, ~blind,
             \/ host'.files[p] = host.files[p]
             \/ \E c \in Pending(p) : c.do \in Contents => host'.files[p] = c.value,
             \A c \in Pending(p)' : c \in Pending(p) \/ (c.do \in Contents /\ SoundIn(p, c.value))
      PROVE  SoundIn(p, host.files[p])' /\ \A c \in Pending(p)' : c.do \in Contents /\ SoundIn(p, c.value)'
  <2>1. Sound(host'.files[p], Markers(p), Own(p), origin.files[p])
    BY <1>1, <1>2 DEF SoundIn
  <2> QED
    BY <1>1, <1>2, <2>1
<1>3. ASSUME NEW c, IsCommand(c, DOMAIN host.users), Possible(c, host) => Lawful(c, host, host'),
             ~Possible(c, host) => host' = host,
             c \in leftOver \cup UNION {ToSet(run[r].commands) : r \in Runs}
      PROVE  \/ host'.files[p] = host.files[p]
             \/ \E d \in Pending(p) : d.do \in Contents => host'.files[p] = d.value
  <2>1. CASE ~Possible(c, host)
    BY <1>3, <2>1
  <2>2. CASE Possible(c, host)
    <3>1. Lawful(c, host, host') /\ IsMachine(host)
      BY <1>3, <2>2 DEF PlaybookTypeOK
    <3>2. CASE c.do \in Contents \cup {"remove"} /\ c.on = p
      <4>1. c \in Pending(p)
        BY <1>3, <3>2 DEF Pending
      <4>2. c.do \in Contents => host'.files[p] = c.value
        BY <3>1, <3>2 DEF Lawful, IsMachine
      <4> QED
        BY <4>1, <4>2
    <3>3. CASE ~(c.do \in Contents \cup {"remove"} /\ c.on = p)
      <4>1. host'.files[p] = host.files[p]
        BY <3>1, <3>3 DEF Lawful, IsMachine
      <4> QED
        BY <4>1
    <3> QED
      BY <3>2, <3>3
  <2> QED
    BY <2>1, <2>2
<1>4. CASE NothingSent
  <2>1. /\ scenario' = scenario /\ ~blind /\ host' = host /\ leftOver' = leftOver
        /\ \A q \in Runs : run'[q].commands = run[q].commands \/ run'[q].commands = <<>>
    BY <1>4 DEF NothingSent
  <2>2. \A c \in Pending(p)' : c \in Pending(p)
    BY <2>1, ListsAre DEF Pending
  <2> QED
    BY <1>2, <2>1, <2>2
<1>5. ASSUME NEW r \in Runs, Look(r) \/ LookBlind(r)
      PROVE  SoundIn(p, host.files[p])' /\ \A c \in Pending(p)' : c.do \in Contents /\ SoundIn(p, c.value)'
  <2>1. Look(r) /\ ~blind /\ scenario' = scenario /\ host' = host /\ leftOver' = leftOver
    BY <1>5 DEF Look, LookBlind, Dispatch
  <2>2. /\ run' = [run EXCEPT ![r] = run'[r]] /\ TaskOn(Task(r), host)
        /\ run[r].at \in DOMAIN Play(r) /\ Task(r) = Play(r)[run[r].at]
    BY <1>5, Looking, ScenarioIs
  <2>3. PICK plan, n : /\ Unread(host, n) /\ TaskOn(Task(r), n) /\ IsPlan(plan, Task(r), n, Dry(r))
                       /\ Looked(run[r], run'[r], Task(r), plan, Dry(r)) /\ n = host
    BY <2>1, Looking
  <2>4. Task(r) \in Tasks
    BY <2>2 DEF Tasks
  <2>5. \A c \in ToSet(run'[r].commands) : Serves(c, Task(r), host)
    <3>1. run'[r].commands = plan.commands \/ run'[r].commands = <<>>
      BY <2>3 DEF Looked, TaskOver
    <3> QED
      BY <2>3, <3>1, ListsAre DEF IsPlan, Sent
  <2>6. \A q \in Runs \ {r} : run'[q] = run[q]
    <3>1. run = [q \in Runs |-> run[q]]
      BY DEF PlaybookTypeOK
    <3> QED
      BY <2>2, <3>1
  <2>7. SharedFile(p) /\ SoundIn(p, host.files[p])
    BY <1>1, <2>1
  <2>8. ASSUME NEW c \in Pending(p)', c \notin Pending(p) PROVE c.do \in Contents /\ SoundIn(p, c.value)
    <3>1. c.do \in Contents \cup {"remove"} /\ c.on = p /\ c \in ToSet(run'[r].commands)
      BY <2>1, <2>6, <2>8 DEF Pending
    <3>2. Serves(c, Task(r), host)
      BY <2>5, <3>1
    <3> QED
      BY <2>2, <2>4, <2>7, <3>1, <3>2, PlanIsSound
  <2> QED
    BY <1>2, <2>1, <2>8
<1>6. ASSUME NEW r \in Runs, NEW c, c = Command1(r), SendsCommands(r), LeftToSend(r, c),
             leftOver' = leftOver \/ leftOver' = leftOver \cup {c}
      PROVE  /\ IsCommand(c, DOMAIN host.users) /\ \A d \in Pending(p)' : d \in Pending(p)
             /\ c \in leftOver \cup UNION {ToSet(run[q].commands) : q \in Runs}
  <2>1. IsCommand(c, DOMAIN host.users) /\ ToSet(run[r].commands) = {c} \cup ToSet(Tail(run[r].commands))
    BY <1>6, Sending
  <2>2. /\ \A q \in Runs \ {r} : run'[q] = run[q]
        /\ \A d \in ToSet(run'[r].commands) : d \in ToSet(run[r].commands) \/ IsOne(d)
    BY <1>6, <2>1 DEF LeftToSend
  <2>3. \A d : IsOne(d) => d.do \notin Contents \cup {"remove"}
    BY DEF IsOne, Contents
  <2>4. \A d \in Pending(p)' : d \in Pending(p)
    BY <1>6, <2>1, <2>2, <2>3 DEF Pending
  <2> QED
    BY <2>1, <2>4
<1>7. ASSUME NEW r \in Runs, Exec(r)
      PROVE  SoundIn(p, host.files[p])' /\ \A c \in Pending(p)' : c.do \in Contents /\ SoundIn(p, c.value)'
  <2> DEFINE c == Command1(r)
  <2>1. /\ SendsCommands(r) /\ LeftToSend(r, c) /\ scenario' = scenario /\ ~blind /\ leftOver' = leftOver
        /\ Possible(c, host) => Lawful(c, host, host')
        /\ ~Possible(c, host) => host' = host
    BY <1>7, ExecIs
  <2>2. /\ IsCommand(c, DOMAIN host.users) /\ \A d \in Pending(p)' : d \in Pending(p)
        /\ c \in leftOver \cup UNION {ToSet(run[q].commands) : q \in Runs}
    BY <1>6, <2>1
  <2> HIDE DEF c
  <2>3. \/ host'.files[p] = host.files[p]
        \/ \E d \in Pending(p) : d.do \in Contents => host'.files[p] = d.value
    BY <1>3, <2>1, <2>2
  <2> QED
    BY <1>2, <2>1, <2>2, <2>3
<1>8. ASSUME NEW r \in Runs, ExecFails(r) \/ ExecTimesOut(r) \/ ExecCut(r)
      PROVE  SoundIn(p, host.files[p])' /\ \A c \in Pending(p)' : c.do \in Contents /\ SoundIn(p, c.value)'
  <2> DEFINE c == Command1(r)
  <2>1. /\ SendsCommands(r) /\ LeftToSend(r, c) /\ scenario' = scenario /\ ~blind
        /\ leftOver' = leftOver \/ leftOver' = leftOver \cup {c}
        /\ host'.files[p] = host.files[p]
    <3> HIDE DEF c
    <3>1. c = Command1(r)
      BY DEF c
    <3> QED
      BY <1>8, <3>1, FaultIs
  <2>2. \A d \in Pending(p)' : d \in Pending(p)
    BY <1>6, <2>1
  <2> QED
    BY <1>2, <2>1, <2>2
<1>9. ASSUME NEW c \in leftOver, LeftOverEnds(c)
      PROVE  SoundIn(p, host.files[p])' /\ \A d \in Pending(p)' : d.do \in Contents /\ SoundIn(p, d.value)'
  <2>1. /\ scenario' = scenario /\ ~blind /\ run' = run /\ leftOver' = leftOver \ {c}
        /\ host' = IF Possible(c, host) THEN Effect(c, host) ELSE host
    BY <1>9 DEF LeftOverEnds
  <2>2. \A d \in Pending(p)' : d \in Pending(p)
    BY <2>1 DEF Pending
  <2>3. IsCommand(c, DOMAIN host.users) /\ IsMachine(host)
    BY DEF PlaybookTypeOK, SameKind
  <2>4. Possible(c, host) => Lawful(c, host, host')
    BY <2>1, <2>3, EffectIsLawful
  <2>5. \/ host'.files[p] = host.files[p]
        \/ \E d \in Pending(p) : d.do \in Contents => host'.files[p] = d.value
    BY <1>3, <2>1, <2>3, <2>4
  <2> QED
    BY <1>2, <2>1, <2>2, <2>5
<1> QED
  BY <1>4, <1>5, <1>7, <1>8, <1>9, StepKinds

LEMMA LinesFollow == ASSUME LinesInv PROVE LinesOfOthersSurvive
BY DEF LinesInv, LinesOfOthersSurvive, SharedFile, SoundIn, Sound

-----------------------------------------------------------------------------
(* What is announced: a dry run does nothing, and a low risk takes nothing.*)

\* Where all that was started is dry, nothing was sent.
DryInv == (\A r \in Started : Dry(r)) => host = origin /\ leftOver = {}

LEMMA DryStarts == ASSUME PlaybookInit PROVE DryInv
BY DEF PlaybookInit, DryInv, origin

\* Who was started stays so.
LEMMA StaysStarted ==
    ASSUME PlaybookTypeOK, [PlaybookNext]_playbookVars
    PROVE  scenario' = scenario /\ Started \subseteq Started' /\ (together => together')
<1>1. PlaybookTypeOK'
  BY TypeSteps
<1>2. ASSUME NEW r \in Runs, NEW y, run' = [run EXCEPT ![r] = y], y.phase # "idle"
      PROVE  Started \subseteq Started'
  <2>1. run = [q \in Runs |-> run[q]]
    BY DEF PlaybookTypeOK
  <2>2. run'[r] = y /\ \A q \in Runs \ {r} : run'[q] = run[q]
    BY <1>2, <2>1
  <2> QED
    BY <1>2, <2>2 DEF Started
<1>3. ASSUME NEW r \in Runs, NEW c, c = Command1(r), SendsCommands(r),
             LeftToSend(r, c), \E worked \in BOOLEAN : Answered(run[r], run'[r], Task(r), worked)
      PROVE  Started \subseteq Started'
  <2>1. \A q \in Runs \ {r} : run'[q] = run[q]
    BY <1>3 DEF LeftToSend
  <2>2. run'[r].phase # "idle"
    <3>1. ASSUME NEW worked \in BOOLEAN, Answered(run[r], run'[r], Task(r), worked) PROVE run'[r].phase # "idle"
      BY <1>3, <3>1, ZenonT(40) DEF Answered, TaskOver, SendsCommands
    <3> QED
      BY <1>3, <3>1, SMTT(30)
  <2> QED
    BY <2>1, <2>2 DEF Started
<1>4. ASSUME NEW r \in Runs, Start(r) \/ Finish(r) \/ Verify(r) \/ VerifyThrows(r)
      PROVE  /\ scenario' = scenario /\ (together => together')
             /\ \E y : run' = [run EXCEPT ![r] = y] /\ y.phase # "idle"
  <2> DEFINE x == run[r]
  <2>1. IsRun(x)
    BY DEF PlaybookTypeOK, RunOk
  <2>2. CASE Start(r)
    <3> DEFINE y == [x EXCEPT !.phase = "task"]
    <3>1. run' = [run EXCEPT ![r] = y]
      BY <2>2, Zenon DEF Start
    <3>2. y.phase = "task"
      <4> HIDE DEF x
      <4> QED
        BY <2>1 DEF IsRun
    <3> HIDE DEF y
    <3> QED
      BY <2>2, <3>1, <3>2 DEF Start
  <2>3. CASE Finish(r)
    <3> DEFINE over == Dry(r) \/ FailedTasks(x) # {}
               y == [x EXCEPT !.phase = IF over THEN "done" ELSE "verify", !.result = IF over THEN "ok" ELSE "none"]
    <3>1. run' = [run EXCEPT ![r] = y]
      BY <2>3, Zenon DEF Finish
    <3>2. y.phase \in {"done", "verify"}
      <4> HIDE DEF x, over
      <4> QED
        BY <2>1 DEF IsRun
    <3> HIDE DEF y
    <3> QED
      BY <2>3, <3>1, <3>2 DEF Finish
  <2>4. ASSUME NEW result, run' = [run EXCEPT ![r].phase = "done", ![r].result = result]
        PROVE  \E y : run' = [run EXCEPT ![r] = y] /\ y.phase # "idle"
    <3> DEFINE y == [x EXCEPT !.phase = "done", !.result = result]
    <3>1. run' = [run EXCEPT ![r] = y]
      BY <2>4, Zenon
    <3>2. y.phase = "done"
      <4> HIDE DEF x
      <4> QED
        BY <2>1 DEF IsRun
    <3> HIDE DEF y
    <3> QED
      BY <3>1, <3>2
  <2>5. CASE Verify(r)
    BY <2>4, <2>5 DEF Verify
  <2>6. CASE VerifyThrows(r)
    BY <2>4, <2>6 DEF VerifyThrows
  <2> QED
    BY <1>4, <2>2, <2>3, <2>5, <2>6
<1>5. ASSUME NEW r \in Runs, NEW s \in TaskStatuses, run' = [run EXCEPT ![r] = Ended(r, run[r], s)]
      PROVE  \E y : run' = [run EXCEPT ![r] = y] /\ y.phase # "idle"
  <2> DEFINE y == Ended(r, run[r], s)
  <2>1. TaskOver(run[r], y, Task(r), s, run[r].got)
    BY EndedIs DEF PlaybookTypeOK, RunOk
  <2> HIDE DEF y
  <2>2. y.phase # "idle"
    BY <2>1 DEF TaskOver
  <2> QED
    BY <1>5, <2>2 DEF y
<1>6. CASE UNCHANGED playbookVars
  BY <1>6 DEF playbookVars, Started
<1>7. ASSUME NEW c \in leftOver, LeftOverEnds(c) PROVE Started \subseteq Started' /\ scenario' = scenario /\ together' = together
  BY <1>7 DEF LeftOverEnds, Started
<1>8. ASSUME NEW r \in Runs, Skip(r) \/ ExecRejects(r)
      PROVE  Started \subseteq Started' /\ scenario' = scenario /\ together' = together
  <2>1. "skipped" \in TaskStatuses /\ "failed" \in TaskStatuses
    BY DEF TaskStatuses
  <2> QED
    BY <1>2, <1>5, <1>8, <2>1 DEF Skip, ExecRejects
<1>9. ASSUME NEW r \in Runs, Look(r) \/ LookBlind(r)
      PROVE  Started \subseteq Started' /\ scenario' = scenario /\ together' = together
  <2>1. run' = [run EXCEPT ![r] = run'[r]]
    BY <1>9, Looking
  <2>2. run'[r].phase # "idle"
    <3>1. \E plan, n : Looked(run[r], run'[r], Task(r), plan, Dry(r))
      BY <1>9, Looking
    <3> QED
      BY <3>1 DEF Looked, TaskOver
  <2>3. scenario' = scenario /\ together' = together
    BY <1>9 DEF Look, LookBlind, Dispatch
  <2> QED
    BY <1>2, <2>1, <2>2, <2>3
<1>10. ASSUME NEW r \in Runs, Exec(r)
       PROVE  Started \subseteq Started' /\ scenario' = scenario /\ together' = together
  <2> DEFINE c == Command1(r)
  <2>1. /\ SendsCommands(r) /\ LeftToSend(r, c) /\ Answered(run[r], run'[r], Task(r), Possible(c, host))
        /\ scenario' = scenario /\ together' = together
    BY <1>10, ExecIs
  <2>2. Possible(c, host) \in BOOLEAN
    BY PossibleIs
  <2> QED
    BY <1>3, <2>1, <2>2
<1>11. ASSUME NEW r \in Runs, ExecFails(r) \/ ExecTimesOut(r) \/ ExecCut(r)
       PROVE  Started \subseteq Started' /\ scenario' = scenario /\ (together => together')
  <2> DEFINE c == Command1(r)
  <2>1. /\ SendsCommands(r) /\ LeftToSend(r, c) /\ scenario' = scenario /\ (together => together')
        /\ Answered(run[r], run'[r], Task(r), FALSE) \/ Answered(run[r], run'[r], Task(r), TRUE)
    <3> HIDE DEF c
    <3>1. c = Command1(r)
      BY DEF c
    <3> QED
      BY <1>11, <3>1, FaultIs
  <2>2. TRUE \in BOOLEAN /\ FALSE \in BOOLEAN
    OBVIOUS
  <2> QED
    BY <1>3, <2>1, <2>2
<1> QED
  BY <1>2, <1>4, <1>6, <1>7, <1>8, <1>9, <1>10, <1>11 DEF PlaybookNext

\* Who sends a command was started, and is not dry.
LEMMA DryHolds ==
    ASSUME PlaybookTypeOK, DryInv, [PlaybookNext]_playbookVars
    PROVE  DryInv'
<1> SUFFICES ASSUME \A r \in Started' : Dry(r)' PROVE host' = origin' /\ leftOver' = {}
  BY DEF DryInv
<1>1. scenario' = scenario /\ Started \subseteq Started'
  BY StaysStarted
<1>2. (\A r \in Started : Dry(r)) /\ origin' = origin
  BY <1>1 DEF Dry, origin
<1>3. host = origin /\ leftOver = {}
  BY <1>2 DEF DryInv
<1>4. ASSUME NEW r \in Runs, SendsCommands(r) PROVE FALSE
  BY <1>2, <1>4, Sending DEF Started, SendsCommands
<1>5. ASSUME NEW r \in Runs, Look(r) \/ LookBlind(r) PROVE host' = host /\ leftOver' = leftOver
  BY <1>5 DEF Look, LookBlind, Dispatch
<1>6. ASSUME NEW r \in Runs, Exec(r) \/ ExecFails(r) \/ ExecTimesOut(r) \/ ExecCut(r) PROVE FALSE
  BY <1>4, <1>6 DEF Exec, ExecFails, ExecTimesOut, ExecCut
<1> QED
  BY <1>2, <1>3, <1>5, <1>6, StepKinds DEF NothingSent

-----------------------------------------------------------------------------
\* Commands that take nothing away.
Adding == {"repo", "install", "installOne", "start", "restart", "reload", "enable", "useradd",
    "usermod", "backup", "chmod", "write"}

\* The report knows every task and calls none of them more than low.
LowRisk(play) == MaxRisk(play) = "low" /\ \A i \in DOMAIN play : ImpactItem(play[i]) # None

\* A first run of a play whose risk is called low has taken nothing and is not about to.
RiskInv ==
    \A r \in Runs : ~together /\ FirstReal(r) /\ LowRisk(Play(r)) =>
        ~Loses(origin, host) /\ \A c \in ToSet(run[r].commands) : c.do \in Adding

LEMMA AddingLosesNothing ==
    ASSUME NEW m, IsMachine(m), NEW c, IsCommand(c, DOMAIN m.users), Possible(c, m), c.do \in Adding,
           NEW o, ~Loses(o, m), DOMAIN o.users = DOMAIN m.users, NEW n, n = Effect(c, m)
    PROVE  ~Loses(o, n)
<1> DEFINE U == (SUBSET Groups) \cup {None}
<1>0. /\ m \in [apt : BOOLEAN, packages : {m.packages}, repos : {m.repos},
             units : {m.units}, active : {m.active}, enabled : {m.enabled}, broken : {m.broken},
             files : [Paths -> FileContents], backups : [Paths -> FileContents], modes : {m.modes},
             users : [DOMAIN m.users -> U], firewall : BOOLEAN, rules : {m.rules}]
      /\ m.users \in [DOMAIN m.users -> U]
  BY DEF IsMachine
<1>1. ASSUME m.packages \subseteq n.packages, m.active \subseteq n.active, m.rules \subseteq n.rules,
             \A u \in DOMAIN o.users : m.users[u] # None => n.users[u] # None
      PROVE  ~Loses(o, n)
  BY <1>1 DEF Loses
<1>2. CASE c.do = "repo"
  <2>1. n = [m EXCEPT !.repos = @ \cup {c.on}]
    BY <1>2 DEF Effect
  <2> QED
    BY <1>0, <1>1, <2>1
<1>3. CASE c.do \in {"install", "installOne"}
  <2>1. n = [m EXCEPT !.packages = @ \cup c.on, !.repos = @ \cup {HomeOf[p] : p \in c.on}]
    BY <1>3 DEF Effect
  <2> QED
    BY <1>0, <1>1, <2>1
<1>4. CASE c.do \in {"start", "restart"}
  <2>1. n = [m EXCEPT !.active = @ \cup {c.on}]
    BY <1>4 DEF Effect
  <2> QED
    BY <1>0, <1>1, <2>1
<1>5. CASE c.do = "reload"
  <2>1. n = m
    BY <1>5 DEF Effect
  <2> QED
    BY <1>1, <2>1
<1>6. CASE c.do = "enable"
  <2>1. n = [m EXCEPT !.enabled = @ \cup {c.on}]
    BY <1>6 DEF Effect
  <2> QED
    BY <1>0, <1>1, <2>1
<1>7. CASE c.do = "useradd"
  <2>1. n = [m EXCEPT !.users[c.on] = c.value]
    BY <1>7 DEF Effect
  <2>2. c.value # None
    BY <1>7, NoneAssumption DEF IsCommand
  <2>3. n.users = [m.users EXCEPT ![c.on] = c.value]
    BY <1>0, <2>1
  <2>4. \A u \in DOMAIN o.users : m.users[u] # None => n.users[u] # None
    BY <1>0, <2>2, <2>3
  <2>5. n.packages = m.packages /\ n.active = m.active /\ n.rules = m.rules
    BY <1>0, <2>1
  <2> QED
    BY <1>1, <2>4, <2>5
<1>8. CASE c.do = "usermod"
  <2>1. n = [m EXCEPT !.users[c.on] = @ \cup c.value]
    BY <1>8 DEF Effect
  <2>2. c.value \in SUBSET Groups /\ m.users[c.on] # None /\ c.on \in DOMAIN m.users
    BY <1>8 DEF IsCommand, Possible
  <2>3. m.users[c.on] \in SUBSET Groups
    BY <1>0, <2>2
  <2>4. (m.users[c.on] \cup c.value) # None
    BY <2>2, <2>3, NoneAssumption
  <2>5. n.users = [m.users EXCEPT ![c.on] = m.users[c.on] \cup c.value]
    BY <1>0, <2>1
  <2>6. \A u \in DOMAIN o.users : m.users[u] # None => n.users[u] # None
    BY <1>0, <2>4, <2>5
  <2>7. n.packages = m.packages /\ n.active = m.active /\ n.rules = m.rules
    BY <1>0, <2>1
  <2> QED
    BY <1>1, <2>6, <2>7
<1>9. CASE c.do = "backup"
  <2>1. n = [m EXCEPT !.backups[c.on] = m.files[c.on]]
    BY <1>9 DEF Effect
  <2> QED
    BY <1>0, <1>1, <2>1
<1>10. CASE c.do = "chmod"
  <2>1. n = [m EXCEPT !.modes[c.on] = c.value]
    BY <1>10 DEF Effect
  <2> QED
    BY <1>0, <1>1, <2>1
<1>11. CASE c.do = "write"
  <2>1. n = [m EXCEPT !.files[c.on] = c.value]
    BY <1>11 DEF Effect
  <2> QED
    BY <1>0, <1>1, <2>1
<1> QED
  BY <1>2, <1>3, <1>4, <1>5, <1>6, <1>7, <1>8, <1>9, <1>10, <1>11 DEF Adding

LEMMA LowRiskAdds ==
    ASSUME NEW play, LowRisk(play), NEW i \in DOMAIN play, NEW t, t = play[i], NEW m, TaskOn(t, m),
           NEW c, Serves(c, t, m)
    PROVE  c.do \in Adding
<1>1. ImpactItem(t) # None
  BY DEF LowRisk
<1>2. RiskOf(t) \notin {"high", "medium"}
  <2> DEFINE risks == {RiskOf(play[k]) : k \in {j \in DOMAIN play : ImpactItem(play[j]) # None}}
  <2>1. RiskOf(t) \in risks
    BY <1>1
  <2>2. (IF "high" \in risks THEN "high" ELSE IF "medium" \in risks THEN "medium" ELSE "low") = "low"
    BY DEF LowRisk, MaxRisk
  <2> HIDE DEF risks
  <2> QED
    BY <2>1, <2>2
<1>3. CASE t.module = "package"
  <2>1. t.state # "absent" /\ t.state \in {"present", "absent"}
    BY <1>2, <1>3 DEF RiskOf, TaskOn, IsTask
  <2> QED
    BY <1>3, <2>1 DEF Serves, Adding
<1>4. CASE t.module = "service"
  <2>1. t.state # "stopped" /\ t.boot # "off"
    BY <1>2, <1>4 DEF RiskOf
  <2> QED
    BY <1>4, <2>1 DEF Serves, Adding
<1>5. CASE t.module = "user"
  <2>1. t.state # "absent"
    BY <1>2, <1>5 DEF RiskOf
  <2> QED
    BY <1>5, <2>1 DEF Serves, Adding
<1>6. CASE t.module \in {"ufw", "shell"}
  BY <1>2, <1>6 DEF RiskOf
<1>7. CASE t.module \in {"copy", "template"}
  BY <1>7 DEF Serves, Adding
<1>8. CASE t.module = "lineinfile"
  BY <1>8 DEF Serves, Adding
<1>9. t.module \in {"package", "service", "user", "lineinfile", "copy", "template", "ufw", "shell"}
  BY <1>1 DEF ImpactItem
<1> QED
  BY <1>3, <1>4, <1>5, <1>6, <1>7, <1>8, <1>9

LEMMA RiskStarts == ASSUME PlaybookInit PROVE RiskInv
<1>1. host = origin /\ \A r \in Runs : run[r].commands = <<>>
  BY DEF PlaybookInit, origin, NotStarted
<1>2. ~Loses(origin, origin)
  BY DEF Loses
<1> QED
  BY <1>1, <1>2, ListsAre DEF RiskInv

LEMMA RiskStep ==
    ASSUME PlaybookTypeOK, RiskInv, [PlaybookNext]_playbookVars
    PROVE  RiskInv'
<1> SUFFICES ASSUME NEW r \in Runs, ~together', FirstReal(r)', LowRisk(Play(r))'
             PROVE  ~Loses(origin, host)' /\ \A c \in ToSet(run'[r].commands) : c.do \in Adding
  BY DEF RiskInv
<1>0. scenario' = scenario /\ Started \subseteq Started' /\ ~together
  BY StaysStarted
<1>1. origin' = origin /\ FirstReal(r) /\ LowRisk(Play(r))
  BY <1>0 DEF origin, FirstReal, Dry, Play
<1>2. ~Loses(origin, host) /\ \A c \in ToSet(run[r].commands) : c.do \in Adding
  BY <1>0, <1>1 DEF RiskInv
<1>3. ASSUME NEW q \in Runs, SendsCommands(q) PROVE q = r
  BY <1>1, <1>3, Sending DEF FirstReal, Started, SendsCommands
<1>4. IsMachine(host) /\ DOMAIN origin.users = DOMAIN host.users
  BY DEF PlaybookTypeOK, SameKind, origin
<1>5. CASE NothingSent
  <2>1. host' = host /\ (run'[r].commands = run[r].commands \/ run'[r].commands = <<>>)
    BY <1>5 DEF NothingSent
  <2> QED
    BY <1>1, <1>2, <2>1, ListsAre
<1>6. ASSUME NEW q \in Runs, Look(q) \/ LookBlind(q)
      PROVE  ~Loses(origin, host)' /\ \A c \in ToSet(run'[r].commands) : c.do \in Adding
  <2>1. host' = host
    BY <1>6 DEF Look, LookBlind, Dispatch
  <2>2. /\ run' = [run EXCEPT ![q] = run'[q]] /\ run[q].at \in DOMAIN Play(q)
        /\ Task(q) = Play(q)[run[q].at]
    BY <1>6, Looking, ScenarioIs
  <2>3. PICK plan, n : /\ TaskOn(Task(q), n) /\ IsPlan(plan, Task(q), n, Dry(q))
                       /\ Looked(run[q], run'[q], Task(q), plan, Dry(q))
    BY <1>6, Looking
  <2>4. CASE q = r
    <3>1. \A c \in ToSet(plan.commands) : c.do \in Adding
      BY <1>1, <2>2, <2>3, <2>4, LowRiskAdds DEF IsPlan, Sent
    <3>2. run'[q].commands = plan.commands \/ run'[q].commands = <<>>
      BY <2>3 DEF Looked, TaskOver
    <3> QED
      BY <1>1, <1>2, <2>1, <2>4, <3>1, <3>2, ListsAre
  <2>5. CASE q # r
    <3>1. run = [k \in Runs |-> run[k]]
      BY DEF PlaybookTypeOK
    <3>2. run'[r] = run[r]
      BY <2>2, <2>5, <3>1
    <3> QED
      BY <1>1, <1>2, <2>1, <3>2
  <2> QED
    BY <2>4, <2>5
<1>7. ASSUME NEW q \in Runs, NEW c, c = Command1(q), SendsCommands(q), LeftToSend(q, c)
      PROVE  /\ IsCommand(c, DOMAIN host.users) /\ c.do \in Adding
             /\ \A d \in ToSet(run'[r].commands) : d.do \in Adding
  <2>1. /\ q = r /\ IsCommand(c, DOMAIN host.users)
        /\ ToSet(run[r].commands) = {c} \cup ToSet(Tail(run[r].commands))
    BY <1>3, <1>7, Sending
  <2>2. \A d \in ToSet(run'[r].commands) : d \in ToSet(Tail(run[r].commands)) \/
            (c.do \in {"install", "uninstall"} /\ (c.do = "install" => d.do = "installOne"))
    BY <1>7, <2>1 DEF LeftToSend
  <2>3. c.do \in Adding
    BY <1>2, <2>1
  <2> QED
    BY <1>2, <2>1, <2>2, <2>3 DEF Adding
<1>8. ASSUME NEW q \in Runs, Exec(q)
      PROVE  ~Loses(origin, host)' /\ \A c \in ToSet(run'[r].commands) : c.do \in Adding
  <2> DEFINE c == Command1(q)
  <2>1. /\ SendsCommands(q) /\ LeftToSend(q, c)
        /\ Possible(c, host) => host' = Effect(c, host)
        /\ ~Possible(c, host) => host' = host
    BY <1>8, ExecIs
  <2>2. /\ IsCommand(c, DOMAIN host.users) /\ c.do \in Adding
        /\ \A d \in ToSet(run'[r].commands) : d.do \in Adding
    BY <1>7, <2>1
  <2> HIDE DEF c
  <2>3. ~Loses(origin, host')
    <3>1. CASE Possible(c, host)
      BY <1>2, <1>4, <2>1, <2>2, <3>1, AddingLosesNothing
    <3>2. CASE ~Possible(c, host)
      BY <1>2, <2>1, <3>2
    <3> QED
      BY <3>1, <3>2
  <2> QED
    BY <1>1, <2>2, <2>3
<1>9. ASSUME NEW q \in Runs, ExecFails(q) \/ ExecTimesOut(q) \/ ExecCut(q)
      PROVE  ~Loses(origin, host)' /\ \A c \in ToSet(run'[r].commands) : c.do \in Adding
  <2> DEFINE c == Command1(q)
  <2>1. /\ SendsCommands(q) /\ LeftToSend(q, c)
        /\ host' = host \/ host' = Torn(c, host)
    <3> HIDE DEF c
    <3>1. c = Command1(q)
      BY DEF c
    <3> QED
      BY <1>9, <3>1, FaultIs
  <2>2. \A d \in ToSet(run'[r].commands) : d.do \in Adding
    BY <1>7, <2>1
  <2> HIDE DEF c
  <2>3. ~Loses(origin, Torn(c, host))
    <3> DEFINE n == [host EXCEPT !.files[c.on] = <<>>]
    <3>1. n.packages = host.packages /\ n.active = host.active /\ n.rules = host.rules /\ n.users = host.users
      BY <1>4 DEF IsMachine
    <3> HIDE DEF n
    <3>2. ~Loses(origin, n)
      BY <1>2, <3>1 DEF Loses
    <3> QED
      BY <1>2, <3>2 DEF Torn, n
  <2> QED
    BY <1>1, <1>2, <2>1, <2>2, <2>3
<1>10. ASSUME NEW c \in leftOver, LeftOverEnds(c) PROVE FALSE
  BY <1>0, <1>10 DEF LeftOverEnds, PlaybookTypeOK
<1> QED
  BY <1>5, <1>6, <1>8, <1>9, <1>10, StepKinds

LEMMA FilesAreInTheList ==
    ASSUME PlaybookTypeOK, NEW r \in Runs
    PROVE  FilesAreListed(r)
<1> SUFFICES ASSUME NEW i \in Changed(r), Play(r)[i].module \in {"template", "copy", "lineinfile"},
                    Play(r)[i].when = 0
             PROVE  Play(r)[i].path \in FileTargets(Play(r))
  BY DEF FilesAreListed
<1>1. i \in DOMAIN Play(r)
  <2>1. RunOk(run[r], Play(r), Dry(r), origin) /\ DOMAIN Play(r) = 1..Len(Play(r)) /\ Len(Play(r)) \in Nat
    BY ScenarioIs DEF PlaybookTypeOK, Play, Dry, origin
  <2> DEFINE x == run[r]
             n == Len(Play(r))
  <2>2. IsRun(x) /\ Counted(x, n) /\ n \in Nat /\ i \in DOMAIN x.logs
    BY <2>1 DEF RunOk, Changed
  <2> HIDE DEF x, n
  <2>3. x.logs \in Seq(TaskStatuses) /\ x.at \in Nat /\ x.phase \in Phases
    BY <2>2 DEF IsRun
  <2>4. DOMAIN x.logs = 1..Len(x.logs) /\ Len(x.logs) \in Nat
    BY <2>3
  <2>5. Len(x.logs) <= n
    BY <2>2, <2>3, <2>4 DEF Counted, Phases
  <2>6. i \in 1..n
    BY <2>2, <2>4, <2>5
  <2> QED
    BY <2>1, <2>6 DEF n
<1>2. ~WillSkip(Play(r)[i])
  BY DEF WillSkip
<1> QED
  BY <1>1, <1>2 DEF FileTargets

-----------------------------------------------------------------------------
(* What is announced: the dry run.                                         *)

\* Machines that differ in the modes of files only.
Alike(m, n) ==
    /\ n.apt = m.apt /\ n.packages = m.packages /\ n.repos = m.repos /\ n.units = m.units
    /\ n.active = m.active /\ n.enabled = m.enabled /\ n.broken = m.broken /\ n.files = m.files
    /\ n.backups = m.backups /\ n.users = m.users /\ n.firewall = m.firewall /\ n.rules = m.rules

LEMMA SendsIs ==
    ASSUME NEW cs, NEW dry
    PROVE  Sends(cs, dry).changed /\ ~Same.changed /\ ~Refused.changed /\ ~[Same EXCEPT !.commands = cs].changed
BY DEF Sends, Same, Refused

\* What a module would change, it reports in a dry run.
LEMMA DryRunKnows ==
    ASSUME NEW t, NEW m, NEW n, Alike(m, n), TaskOn(t, m), Plan(t, m, FALSE).changed
    PROVE  Plan(t, n, TRUE).changed
<1>1. CASE t.module = "package"
  <2>1. Wanted(t, n) = Wanted(t, m)
    BY DEF Alike, Wanted, PackageName
  <2>2. Wanted(t, m) # {}
    BY <1>1, SendsIs DEF Plan, PlanPackage
  <2> QED
    BY <1>1, <2>1, <2>2, SendsIs DEF Plan, PlanPackage
<1>2. CASE t.module = "service"
  <2>1. PlanService(t, n, FALSE) = PlanService(t, m, FALSE)
    BY DEF Alike, PlanService
  <2>2. PlanService(t, n, FALSE).changed => PlanService(t, n, TRUE).changed
    <3> DEFINE unit == IF n.apt THEN t.name ELSE RpmUnit[t.name]
               stateActions ==
                   CASE t.state = "started" /\ unit \notin n.active -> <<Command("start", unit, None)>>
                     [] t.state = "stopped" /\ unit \in n.active -> <<Command("stop", unit, None)>>
                     [] t.state = "restarted" -> <<Command("restart", unit, None)>>
                     [] t.state = "reloaded" -> <<Command("reload", unit, None)>>
                     [] OTHER -> <<>>
               bootActions ==
                   CASE t.boot = "on" /\ unit \notin n.enabled -> <<Command("enable", unit, None)>>
                     [] t.boot = "off" /\ unit \in n.enabled -> <<Command("disable", unit, None)>>
                     [] OTHER -> <<>>
               actions == stateActions \o bootActions
               P(dry) == CASE unit = None -> Same
                           [] unit # None /\ unit \notin n.units -> IF t.lenient THEN Same ELSE Refused
                           [] OTHER -> IF actions = <<>> THEN Same ELSE Sends(actions, dry)
    <3>1. PlanService(t, n, TRUE) = P(TRUE) /\ PlanService(t, n, FALSE) = P(FALSE)
      BY DEF PlanService
    <3> HIDE DEF actions, unit
    <3>2. P(FALSE).changed => unit # None /\ unit \in n.units /\ actions # <<>>
      BY SendsIs
    <3>3. unit # None /\ unit \in n.units /\ actions # <<>> => P(TRUE).changed
      BY SendsIs
    <3> HIDE DEF P
    <3> QED
      BY <3>1, <3>2, <3>3
  <2>3. Plan(t, m, FALSE) = PlanService(t, m, FALSE) /\ Plan(t, n, TRUE) = PlanService(t, n, TRUE)
    BY <1>2 DEF Plan
  <2> QED
    BY <2>1, <2>2, <2>3
<1>3. CASE t.module = "copy"
  BY <1>3, SendsIs DEF Plan, PlanCopy, Alike
<1>4. CASE t.module = "template"
  BY <1>4, SendsIs DEF Plan, PlanTemplate, Alike
<1>5. CASE t.module = "systemd_unit"
  BY <1>5, SendsIs, ZenonT(40) DEF Plan, PlanUnit, Alike
<1>6. CASE t.module = "sysctl"
  BY <1>6, SendsIs, ZenonT(40) DEF Plan, PlanSysctl, Alike
<1>7. CASE t.module = "acme"
  BY <1>7, SendsIs DEF Plan, PlanAcme, Alike
<1>8. CASE t.module = "file"
  <2> DEFINE here == m.files[t.path]
             there == (t.state = "file" /\ here # None) \/ (t.state = "directory" /\ here = t.text)
             create == <<Command("write", t.path, IF here = None THEN t.text ELSE here)>>
             P(dry) == CASE t.state = "absent" /\ here = None -> Same
                         [] t.state = "absent" /\ here # None -> Sends(<<Command("remove", t.path, None)>>, dry)
                         [] there -> IF dry THEN Same ELSE [Same EXCEPT !.commands = Chmod(t)]
                         [] t.state = "directory" /\ here \notin {None, t.text} ->
                                IF dry THEN Sends(<<>>, TRUE) ELSE Refused
                         [] OTHER -> Sends(create \o Chmod(t), dry)
  <2>1. Plan(t, m, FALSE) = P(FALSE) /\ Plan(t, n, TRUE) = P(TRUE)
    BY <1>8 DEF Plan, PlanFile, Alike
  <2>2. t.state \in {"directory", "file", "absent", "touch"}
    BY <1>8 DEF TaskOn, IsTask
  <2> HIDE DEF here, create
  <2>3. CASE t.state = "absent"
    BY <2>1, <2>2, <2>3, SendsIs, ZenonT(40)
  <2>4. CASE t.state # "absent" /\ there
    BY <2>1, <2>2, <2>4, SendsIs
  <2>5. CASE t.state # "absent" /\ ~there /\ t.state = "directory" /\ here \notin {None, t.text}
    BY <2>1, <2>2, <2>5, SendsIs
  <2>6. CASE t.state # "absent" /\ ~there /\ ~(t.state = "directory" /\ here \notin {None, t.text})
    <3>1. P(TRUE) = Sends(create \o Chmod(t), TRUE)
      <4> HIDE DEF there
      <4> QED
        BY <2>6, Zenon
    <3> HIDE DEF P
    <3> QED
      BY <2>1, <3>1, SendsIs
  <2> QED
    BY <2>3, <2>4, <2>5, <2>6
<1>9. CASE t.module = "lineinfile"
  <2> DEFINE here == m.files[t.path]
             lines == IF here = None THEN <<>> ELSE here
             new == LineEdited(t, lines)
             out == <<Command("write", t.path, new)>>
             P(back, dry) == CASE here = None /\ t.state = "present" /\ ~t.create -> Refused
                               [] here = None /\ t.state = "absent" -> Same
                               [] OTHER -> IF new = lines THEN Same ELSE Sends(back \o out, dry)
  <2>1. Plan(t, m, FALSE) = P(BackupOnce(t, m), FALSE) /\ Plan(t, n, TRUE) = P(BackupOnce(t, n), TRUE)
    BY <1>9 DEF Plan, PlanLine, Alike
  <2>2. t.state \in {"present", "absent"}
    BY <1>9 DEF TaskOn, IsTask
  <2> HIDE DEF here, lines, new, out
  <2>3. CASE here = None /\ t.state = "present" /\ ~t.create
    BY <2>1, <2>2, <2>3, SendsIs
  <2>4. CASE here = None /\ t.state = "absent"
    BY <2>1, <2>2, <2>4, SendsIs
  <2>5. CASE ~(here = None /\ t.state = "present" /\ ~t.create) /\ ~(here = None /\ t.state = "absent")
    BY <2>1, <2>2, <2>5, SendsIs
  <2> QED
    BY <2>3, <2>4, <2>5
<1>10. CASE t.module = "cron"
  <2>1. n.files = m.files
    BY DEF Alike
  <2> DEFINE lines == IF m.files[t.path] = None THEN <<>> ELSE m.files[t.path]
             new == CrontabWith(t, lines)
             P(dry) == IF new = lines THEN Same ELSE Sends(<<Command("write", t.path, new)>>, dry)
  <2>2. Plan(t, m, FALSE) = P(FALSE) /\ Plan(t, n, TRUE) = P(TRUE)
    BY <1>10, <2>1 DEF Plan, PlanCron
  <2> HIDE DEF lines, new
  <2> QED
    BY <2>2, SendsIs
<1>11. CASE t.module = "env_path"
  BY <1>11, SendsIs DEF Plan, PlanEnvPath
<1>12. CASE t.module = "user"
  <2>1. t.state \in {"present", "absent"}
    BY <1>12 DEF TaskOn, IsTask
  <2>2. Plan(t, m, FALSE) = PlanUser(t, m, FALSE) /\ Plan(t, n, TRUE) = PlanUser(t, n, TRUE)
    BY <1>12 DEF Plan
  <2> DEFINE there == m.users[t.name] # None
             P(dry) == CASE t.state = "absent" -> IF there THEN Sends(<<Command("userdel", t.name, None)>>, dry) ELSE Same
                         [] t.state = "present" /\ ~there -> Sends(<<Command("useradd", t.name, t.groups)>>, dry)
                         [] t.state = "present" /\ there /\ t.groups # {} ->
                                Sends(<<Command("usermod", t.name, t.groups)>>, dry)
                         [] OTHER -> Same
  <2>3. PlanUser(t, m, FALSE) = P(FALSE) /\ PlanUser(t, n, TRUE) = P(TRUE)
    BY DEF PlanUser, Alike
  <2> HIDE DEF there
  <2>4. CASE t.state = "absent" /\ ~there
    BY <2>2, <2>3, <2>4, SendsIs
  <2>5. CASE t.state = "present" /\ there /\ t.groups = {}
    BY <2>2, <2>3, <2>5, SendsIs
  <2>6. CASE t.state = "absent" /\ there
    <3>1. P(TRUE) = Sends(<<Command("userdel", t.name, None)>>, TRUE)
      BY <2>6
    <3> HIDE DEF P
    <3> QED
      BY <2>2, <2>3, <3>1, SendsIs
  <2>7. CASE t.state = "present" /\ ~there
    <3>1. P(TRUE) = Sends(<<Command("useradd", t.name, t.groups)>>, TRUE)
      BY <2>7
    <3> HIDE DEF P
    <3> QED
      BY <2>2, <2>3, <3>1, SendsIs
  <2>8. CASE t.state = "present" /\ there /\ t.groups # {}
    <3>1. P(TRUE) = Sends(<<Command("usermod", t.name, t.groups)>>, TRUE)
      BY <2>8
    <3> HIDE DEF P
    <3> QED
      BY <2>2, <2>3, <3>1, SendsIs
  <2> HIDE DEF P
  <2> QED
    BY <2>1, <2>4, <2>5, <2>6, <2>7, <2>8
<1>13. CASE t.module = "ufw"
  <2>1. Plan(t, m, FALSE) = PlanUfw(t, m, FALSE) /\ Plan(t, n, TRUE) = PlanUfw(t, n, TRUE)
    BY <1>13 DEF Plan
  <2>2. RuleListed(t, n) = RuleListed(t, m)
    BY DEF RuleListed, Alike
  <2>3. CASE "ufw" \notin m.packages
    BY <2>1, <2>3, SendsIs DEF PlanUfw
  <2> DEFINE off == m.firewall = (t.state = "enabled")
             listed == RuleListed(t, m)
             P(dry) == CASE "ufw" \notin m.packages -> Refused
                         [] "ufw" \in m.packages /\ t.state \in {"enabled", "disabled"} ->
                                IF off THEN Same ELSE Sends(<<Command("ufw", "ufw", t.state)>>, dry)
                         [] "ufw" \in m.packages /\ t.state = "reset" -> Sends(<<Command("reset", "ufw", None)>>, dry)
                         [] OTHER -> IF listed THEN Same
                                     ELSE Sends(<<Command("rule", "ufw", <<t.verb, t.port>>)>>, dry)
  <2>4. PlanUfw(t, m, FALSE) = P(FALSE) /\ PlanUfw(t, n, TRUE) = P(TRUE)
    <3>1. n.packages = m.packages /\ n.firewall = m.firewall
      BY DEF Alike
    <3>2. PlanUfw(t, m, FALSE) = P(FALSE)
      BY Zenon DEF PlanUfw
    <3>3. PlanUfw(t, n, TRUE) = P(TRUE)
      BY <2>2, <3>1, Zenon DEF PlanUfw
    <3> QED
      BY <3>2, <3>3
  <2> HIDE DEF off, listed
  <2>5. CASE "ufw" \in m.packages /\ t.state \in {"enabled", "disabled"}
    <3>1. CASE off
      <4>1. P(FALSE) = Same
        BY <2>5, <3>1
      <4> HIDE DEF P
      <4> QED
        BY <2>1, <2>4, <4>1, SendsIs
    <3>2. CASE ~off
      <4>1. P(TRUE) = Sends(<<Command("ufw", "ufw", t.state)>>, TRUE)
        BY <2>5, <3>2
      <4> HIDE DEF P
      <4> QED
        BY <2>1, <2>4, <4>1, SendsIs
    <3> QED
      BY <3>1, <3>2
  <2>6. CASE "ufw" \in m.packages /\ t.state = "reset"
    <3>1. P(TRUE) = Sends(<<Command("reset", "ufw", None)>>, TRUE)
      BY <2>6
    <3> HIDE DEF P
    <3> QED
      BY <2>1, <2>4, <3>1, SendsIs
  <2>7. CASE "ufw" \in m.packages /\ t.state \notin {"enabled", "disabled", "reset"}
    <3>1. CASE listed
      <4>1. P(FALSE) = Same
        BY <2>7, <3>1
      <4> HIDE DEF P
      <4> QED
        BY <2>1, <2>4, <4>1, SendsIs
    <3>2. CASE ~listed
      <4>1. P(TRUE) = Sends(<<Command("rule", "ufw", <<t.verb, t.port>>)>>, TRUE)
        BY <2>7, <3>2
      <4> HIDE DEF P
      <4> QED
        BY <2>1, <2>4, <4>1, SendsIs
    <3> QED
      BY <3>1, <3>2
  <2> HIDE DEF P
  <2> QED
    BY <2>3, <2>5, <2>6, <2>7
<1>14. CASE t.module = "shell"
  BY <1>14, SendsIs DEF Plan, PlanShell, Alike
<1>15. CASE t.module \notin {"package", "service", "copy", "template", "systemd_unit", "sysctl", "acme",
                             "file", "lineinfile", "cron", "env_path", "user", "ufw", "shell"}
  <2>1. Plan(t, m, FALSE) = Refused
    BY <1>15 DEF Plan
  <2> QED
    BY <2>1, SendsIs
<1> QED
  BY <1>1, <1>2, <1>3, <1>4, <1>5, <1>6, <1>7, <1>8, <1>9, <1>10, <1>11, <1>12, <1>13, <1>14, <1>15

ChangedIn(x) == {i \in DOMAIN x.logs : x.logs[i] = "changed"}

\* What has happened of what the dry run, which reported C, can have told.
Seen(x, C) == ChangedIn(x) \cup (FailedTasks(x) \cap C)

\* Each change was told of, or came after one that was told of or failed; before
\* the first of them the machine is as it was.
Foretold(x, C, o, m) ==
    /\ x.said # {} => Seen(x, C) # {}
    /\ \A i \in ChangedIn(x) : i \in C \/ \E j \in 1..(i - 1) : j \in Seen(x, C)
    /\ Seen(x, C) = {} => \/ x.phase = "act" /\ x.changed /\ x.at \in C
                          \/ /\ ~x.changed /\ x.got = {} /\ x.lost = {} /\ Alike(o, m)
                             /\ \A c \in ToSet(x.commands) : c.do = "chmod"

\* A task that is over adds its status to the log.
LEMMA LogGrows ==
    ASSUME NEW x, NEW y, NEW task, NEW status \in TaskStatuses, NEW got, TaskOver(x, y, task, status, got),
           IsRun(x), x.at \in Nat, Len(x.logs) = x.at - 1
    PROVE  /\ DOMAIN x.logs = 1..(x.at - 1) /\ DOMAIN y.logs = 1..x.at
           /\ \A i \in 1..(x.at - 1) : y.logs[i] = x.logs[i]
           /\ y.logs[x.at] = status
<1>1. x.logs \in Seq(TaskStatuses) /\ y.logs = Append(x.logs, status)
  BY DEF IsRun, TaskOver
<1> DEFINE l == x.logs
           k == y.logs
           n == x.at
<1>2. l \in Seq(TaskStatuses) /\ k = Append(l, status) /\ n \in Nat /\ Len(l) = n - 1
  BY <1>1
<1> HIDE DEF l, k, n
<1>3. /\ Len(k) = Len(l) + 1 /\ k \in Seq(TaskStatuses) /\ k[Len(l) + 1] = status
      /\ \A i \in 1..Len(l) : k[i] = l[i]
  BY <1>2, AppendProperties
<1>4. DOMAIN l = 1..(n - 1) /\ DOMAIN k = 1..n /\ Len(l) + 1 = n
  BY <1>2, <1>3
<1> QED
  BY <1>2, <1>3, <1>4 DEF l, k, n

LEMMA OverForetold ==
    ASSUME NEW x, NEW y, NEW task, NEW status \in TaskStatuses, NEW got, TaskOver(x, y, task, status, got),
           IsRun(x), x.at \in Nat, Len(x.logs) = x.at - 1, NEW C, NEW o, NEW m, NEW n, Foretold(x, C, o, m),
           Seen(x, C) = {} =>
               /\ status = "changed" => x.at \in C
               /\ status = "failed" /\ got # {} => x.at \in C
               /\ (x.at \in C /\ status \in {"changed", "failed"}) \/ Alike(o, n)
    PROVE  Foretold(y, C, o, n)
<1> DEFINE at == x.at
<1>1. /\ DOMAIN x.logs = 1..(at - 1) /\ DOMAIN y.logs = 1..at
      /\ \A i \in 1..(at - 1) : y.logs[i] = x.logs[i]
      /\ y.logs[at] = status /\ at \in Nat
  BY LogGrows
<1>2. ChangedIn(x) \subseteq ChangedIn(y) /\ FailedTasks(x) \subseteq FailedTasks(y)
  BY <1>1 DEF ChangedIn, FailedTasks
<1>3. Seen(x, C) \subseteq Seen(y, C) /\ Seen(x, C) \subseteq 1..(at - 1)
  BY <1>1, <1>2 DEF Seen, ChangedIn, FailedTasks
<1>4. /\ status = "changed" => at \in Seen(y, C)
      /\ status = "failed" /\ at \in C => at \in Seen(y, C)
  <2>1. at \in DOMAIN y.logs
    <3>1. at >= 1
      <4>1. Len(x.logs) \in Nat
        BY DEF IsRun
      <4> QED
        BY <1>1, <4>1
    <3> QED
      BY <1>1, <3>1
  <2> QED
    BY <1>1, <2>1 DEF Seen, ChangedIn, FailedTasks
<1>5. y.said # {} => Seen(y, C) # {}
  <2>1. y.said = IF status = "changed" \/ (status = "failed" /\ got # {}) THEN x.said \cup {at} ELSE x.said
    BY DEF TaskOver
  <2> QED
    BY <1>3, <1>4, <2>1 DEF Foretold
<1>6. ASSUME NEW i \in ChangedIn(y) PROVE i \in C \/ \E j \in 1..(i - 1) : j \in Seen(y, C)
  <2>1. i \in 1..at /\ y.logs[i] = "changed"
    BY <1>1 DEF ChangedIn
  <2>2. CASE i # at
    <3>1. i \in ChangedIn(x)
      BY <1>1, <2>1, <2>2 DEF ChangedIn
    <3> QED
      BY <1>3, <3>1 DEF Foretold
  <2>3. CASE i = at /\ Seen(x, C) = {}
    BY <1>1, <2>1, <2>3
  <2>4. CASE i = at /\ Seen(x, C) # {}
    BY <1>3, <2>4
  <2> QED
    BY <2>2, <2>3, <2>4
<1>7. ASSUME Seen(y, C) = {}
      PROVE  /\ ~y.changed /\ y.got = {} /\ y.lost = {} /\ Alike(o, n)
             /\ \A c \in ToSet(y.commands) : c.do = "chmod"
  <2>1. Seen(x, C) = {}
    BY <1>3, <1>7
  <2>2. Alike(o, n)
    BY <1>4, <1>7, <2>1
  <2>3. y.commands = <<>> /\ ~y.changed /\ y.lost = {} /\ y.got = {}
    BY DEF TaskOver
  <2> QED
    BY <2>2, <2>3, ListsAre
<1> QED
  BY <1>5, <1>6, <1>7 DEF Foretold

\* The run goes on with its task.
LEMMA GoingForetold ==
    ASSUME NEW x, NEW y, y.logs = x.logs, y.said = x.said, NEW C, NEW o, NEW m, NEW n, Foretold(x, C, o, m),
           Seen(x, C) = {} => \/ y.phase = "act" /\ y.changed /\ y.at \in C
                              \/ /\ ~y.changed /\ y.got = {} /\ y.lost = {} /\ Alike(o, n)
                                 /\ \A c \in ToSet(y.commands) : c.do = "chmod"
    PROVE  Foretold(y, C, o, n)
<1>1. ChangedIn(y) = ChangedIn(x) /\ FailedTasks(y) = FailedTasks(x)
  BY DEF ChangedIn, FailedTasks
<1>2. Seen(y, C) = Seen(x, C)
  BY <1>1 DEF Seen
<1> QED
  BY <1>1, <1>2 DEF Foretold

LEMMA LookForetold ==
    ASSUME NEW x, NEW y, NEW t, NEW plan, NEW dry, Looked(x, y, t, plan, dry), NEW u, NEW w, IsPlan(plan, u, w, dry),
           IsRun(x), x.at \in Nat, Len(x.logs) = x.at - 1, x.phase = "task",
           NEW C, NEW o, NEW m, Foretold(x, C, o, m), Seen(x, C) = {} /\ plan.changed => x.at \in C
    PROVE  Foretold(y, C, o, m)
<1>1. Seen(x, C) = {} => Alike(o, m)
  BY DEF Foretold
<1>2. CASE plan.refused /\ TaskOver(x, y, t, "failed", {})
  <2>1. "failed" \in TaskStatuses
    BY DEF TaskStatuses
  <2> QED
    BY <1>1, <1>2, <2>1, OverForetold
<1>3. CASE ~plan.refused /\ plan.commands = <<>> /\ TaskOver(x, y, t, IF plan.changed THEN "changed" ELSE "ok", {})
  <2> DEFINE status == IF plan.changed THEN "changed" ELSE "ok"
  <2>1. status \in TaskStatuses /\ status # "failed" /\ (status = "changed" => plan.changed)
    BY DEF TaskStatuses
  <2>2. TaskOver(x, y, t, status, {})
    BY <1>3
  <2> HIDE DEF status
  <2> QED
    BY <1>1, <2>1, <2>2, OverForetold
<1>4. CASE y.phase = "act" /\ y.commands = plan.commands /\ y.changed = plan.changed
           /\ y.lost = {} /\ y.got = {} /\ y.at = x.at /\ y.logs = x.logs /\ y.said = x.said
  <2>1. ~plan.changed => \A c \in ToSet(y.commands) : c.do = "chmod"
    BY <1>4 DEF IsPlan
  <2> QED
    BY <1>1, <1>4, <2>1, GoingForetold
<1> QED
  BY <1>2, <1>3, <1>4 DEF Looked

LEMMA AnsweredForetold ==
    ASSUME NEW x, NEW y, NEW t, NEW worked \in BOOLEAN, Answered(x, y, t, worked),
           IsRun(x), x.at \in Nat, Len(x.logs) = x.at - 1, x.phase = "act", IsList(x.commands), x.commands # <<>>,
           NEW C, NEW o, NEW m, NEW n, Foretold(x, C, o, m),
           Head(x.commands).do = "chmod" /\ Alike(o, m) => Alike(o, n)
    PROVE  Foretold(y, C, o, n)
<1> DEFINE c == Head(x.commands)
           rest == Tail(x.commands)
           got == IF worked /\ (IsOne(c) \/ c.do \in {"install", "uninstall"}) THEN x.got \cup c.on ELSE x.got
           lost == IF worked \/ ~IsOne(c) THEN x.lost ELSE x.lost \cup c.on
           told == x.changed /\ x.at \in C
           still == ~x.changed /\ x.got = {} /\ x.lost = {} /\ Alike(o, n) /\ c.do = "chmod"
                    /\ \A d \in ToSet(rest) : d.do = "chmod"
           status == IF lost # {} /\ (got = {} \/ ~t.lenient) THEN "failed" ELSE IF x.changed THEN "changed" ELSE "ok"
<1>1. Seen(x, C) = {} => told \/ still
  <2>1. ToSet(x.commands) = {c} \cup ToSet(rest)
    BY TailOfList
  <2> QED
    BY <2>1 DEF Foretold
<1>2. still => got = {} /\ lost = {} /\ ~IsOne(c)
  <2>1. c.do = "chmod" => ~IsOne(c) /\ c.do \notin {"install", "uninstall"}
    BY DEF IsOne
  <2> HIDE DEF c, rest
  <2> QED
    BY <2>1
<1>3. status \in TaskStatuses /\ "failed" \in TaskStatuses
  BY DEF TaskStatuses
<1>4. /\ still => status = "ok"
      /\ told => status \in {"changed", "failed"} /\ x.at \in C
  <2>1. told => status \in {"changed", "failed"} /\ x.at \in C
    <3> HIDE DEF c, rest, got, lost
    <3> QED
      OBVIOUS
  <2>2. still => ~x.changed /\ lost = {}
    BY <1>2
  <2> HIDE DEF c, rest, got, lost, still
  <2>3. still => status = "ok"
    BY <2>2
  <2> QED
    BY <2>1, <2>3
<1>5. still => Alike(o, n) /\ x.got = {} /\ ~x.changed
  OBVIOUS
<1>6. CASE TaskOver(x, y, t, status, got)
  <2> HIDE DEF c, rest, got, lost, told, still, status
  <2> QED
    BY <1>1, <1>3, <1>4, <1>5, <1>6, OverForetold
<1>7. CASE TaskOver(x, y, t, "failed", x.got)
  <2>1. told => x.at \in C
    OBVIOUS
  <2> HIDE DEF c, rest, got, lost, told, still, status
  <2> QED
    BY <1>1, <1>3, <1>5, <1>7, <2>1, OverForetold
<1>8. CASE y.phase = x.phase /\ y.changed = x.changed /\ y.commands = rest /\ y.got = got /\ y.lost = lost
           /\ y.at = x.at /\ y.logs = x.logs /\ y.said = x.said
  <2>1. told => y.phase = "act" /\ y.changed /\ y.at \in C
    BY <1>8
  <2>2. still => /\ ~y.changed /\ y.got = {} /\ y.lost = {} /\ Alike(o, n)
                 /\ \A d \in ToSet(y.commands) : d.do = "chmod"
    BY <1>2, <1>8
  <2> HIDE DEF c, rest, got, lost, told, still, status
  <2> QED
    BY <1>1, <1>8, <2>1, <2>2, GoingForetold
<1>9. CASE c.do \in {"install", "uninstall"} /\ y.phase = x.phase /\ y.changed = x.changed
           /\ y.at = x.at /\ y.logs = x.logs /\ y.said = x.said
  <2>1. told => y.phase = "act" /\ y.changed /\ y.at \in C
    BY <1>9
  <2>2. ~still
    BY <1>9
  <2> HIDE DEF c, rest, got, lost, told, still, status
  <2> QED
    BY <1>1, <1>9, <2>1, <2>2, GoingForetold
<1> QED
  <2>1. \/ y.phase = x.phase /\ y.commands = rest /\ y.changed = x.changed /\ y.got = got /\ y.lost = lost
           /\ y.at = x.at /\ y.logs = x.logs /\ y.said = x.said
        \/ TaskOver(x, y, t, status, got)
        \/ /\ c.do \in {"install", "uninstall"}
           /\ y.phase = x.phase /\ y.changed = x.changed
           /\ y.at = x.at /\ y.logs = x.logs /\ y.said = x.said
        \/ TaskOver(x, y, t, "failed", x.got)
    BY DEF Answered
  <2> QED
    BY <1>6, <1>7, <1>8, <1>9, <2>1

-----------------------------------------------------------------------------
\* What a dry run has reported of the machine as it was.
Reported(x, play, o) ==
    \A i \in DOMAIN x.logs : play[i].when = 0 /\ Plan(play[i], o, TRUE).changed => x.logs[i] = "changed"

\* The dry run goes first, on the machine of the beginning.
ReportedInv == Dry(1) /\ faults = 0 /\ ~together => Reported(run[1], Play(1), origin)

\* A dry run that ended well, and the real run of the same play after it.
Compared ==
    /\ Play(1) = Play(2) /\ Dry(1) /\ FirstReal(2) /\ faults = 0 /\ ~together
    /\ run[1].result = "ok"

\* What the real run has changed so far, the dry run reported, or what came before it.
ForetoldInv == Compared => Foretold(run[2], Changed(1), origin, host)

LEMMA ForetoldStarts == ASSUME PlaybookInit PROVE ReportedInv /\ ForetoldInv
<1>1. run[1].result = "none" /\ run[1].logs = <<>>
  BY DEF PlaybookInit, NotStarted, Runs
<1> QED
  BY <1>1 DEF ReportedInv, Reported, ForetoldInv, Compared

LEMMA ReportedOver ==
    ASSUME NEW x, NEW y, NEW task, NEW status \in TaskStatuses, NEW got, TaskOver(x, y, task, status, got),
           IsRun(x), x.at \in Nat, Len(x.logs) = x.at - 1, NEW play, NEW o, Reported(x, play, o),
           play[x.at].when = 0 /\ Plan(play[x.at], o, TRUE).changed => status = "changed"
    PROVE  Reported(y, play, o)
<1> DEFINE at == x.at
<1>1. /\ DOMAIN x.logs = 1..(at - 1) /\ DOMAIN y.logs = 1..at
      /\ \A i \in 1..(at - 1) : y.logs[i] = x.logs[i]
      /\ y.logs[at] = status /\ at \in Nat
  BY LogGrows
<1> SUFFICES ASSUME NEW i \in 1..at, play[i].when = 0, Plan(play[i], o, TRUE).changed PROVE y.logs[i] = "changed"
  BY <1>1 DEF Reported
<1>2. CASE i = at
  BY <1>1, <1>2
<1>3. CASE i # at
  <2>1. i \in DOMAIN x.logs
    BY <1>1, <1>3
  <2>2. x.logs[i] = "changed"
    BY <2>1 DEF Reported
  <2> QED
    BY <1>1, <2>1, <2>2
<1> QED
  BY <1>2, <1>3

-----------------------------------------------------------------------------
\* A run begins or ends, no task of it does.
Idling(x, y) ==
    /\ y.at = x.at /\ y.logs = x.logs /\ y.said = x.said /\ y.commands = x.commands
    /\ y.changed = x.changed /\ y.lost = x.lost /\ y.got = x.got
    /\ x.phase # "act" /\ y.phase # "act"

Idles(r) ==
    /\ UNCHANGED <<scenario, host, leftOver, unseen, blind>> /\ Idling(run[r], run'[r])
    /\ (run[r].phase = "idle" /\ run'[r].phase = "task") \/ (AtWork(r) /\ run'[r].phase # "idle")
    /\ run'[r].phase = "done" => run'[r].result = "ok" \/ Fault

Ends(r) ==
    /\ UNCHANGED <<scenario, host, leftOver, unseen, blind, together>>
    /\ AtWork(r) /\ run[r].at \in 1..Len(Play(r))
    /\ \/ /\ run[r].phase = "task" /\ ~MayRun(Task(r), run[r]) /\ faults' = faults
          /\ TaskOver(run[r], run'[r], Task(r), "skipped", run[r].got)
       \/ run[r].phase = "act" /\ Fault /\ TaskOver(run[r], run'[r], Task(r), "failed", run[r].got)

LEMMA RunSteps ==
    ASSUME PlaybookTypeOK, [PlaybookNext]_playbookVars
    PROVE  \/ UNCHANGED playbookVars
           \/ \E c \in leftOver : LeftOverEnds(c)
           \/ \E r \in Runs :
                  /\ run' = [run EXCEPT ![r] = run'[r]] /\ \A q \in Runs \ {r} : run'[q] = run[q]
                  /\ \/ Idles(r) \/ Ends(r) \/ Look(r) \/ LookBlind(r)
                     \/ Exec(r) \/ ExecFails(r) \/ ExecTimesOut(r) \/ ExecCut(r)
<1>0. run = [r \in Runs |-> run[r]] /\ \A q \in Runs : IsRun(run[q]) /\ RunOk(run[q], Play(q), Dry(q), origin)
  BY DEF PlaybookTypeOK, RunOk, Play, Dry, origin
<1>1. ASSUME NEW r \in Runs, NEW y, run' = [run EXCEPT ![r] = y]
      PROVE  run' = [run EXCEPT ![r] = run'[r]] /\ run'[r] = y /\ \A q \in Runs \ {r} : run'[q] = run[q]
  BY <1>0, <1>1
<1>2. ASSUME NEW r \in Runs, NEW phase \in Phases \ {"act"}, NEW y,
             y = [run[r] EXCEPT !.phase = phase], run[r].phase # "act"
      PROVE  Idling(run[r], y) /\ y.phase = phase
  <2> DEFINE x == run[r]
  <2>1. IsRun(x) /\ x.phase # "act"
    BY <1>0, <1>2
  <2>2. y = [x EXCEPT !.phase = phase]
    BY <1>2
  <2> HIDE DEF x
  <2>3. Idling(x, y) /\ y.phase = phase
    BY <2>1, <2>2 DEF IsRun, Idling
  <2> QED
    BY <2>3 DEF x
<1>3. ASSUME NEW r \in Runs, Start(r)
      PROVE  run' = [run EXCEPT ![r] = run'[r]] /\ (\A q \in Runs \ {r} : run'[q] = run[q]) /\ Idles(r)
  <2> DEFINE y == [run[r] EXCEPT !.phase = "task"]
  <2>1. run' = [run EXCEPT ![r] = y]
    BY <1>3, Zenon DEF Start
  <2>2. run[r].phase = "idle" /\ UNCHANGED <<scenario, host, leftOver, unseen, blind>> /\ "task" \in Phases \ {"act"}
    BY <1>3 DEF Start, Phases
  <2>5. y = [run[r] EXCEPT !.phase = "task"] /\ run[r].phase # "act"
    BY <2>2
  <2> HIDE DEF y
  <2>3. Idling(run[r], y) /\ y.phase = "task"
    BY <1>2, <2>2, <2>5
  <2>4. run' = [run EXCEPT ![r] = run'[r]] /\ run'[r] = y /\ \A q \in Runs \ {r} : run'[q] = run[q]
    BY <1>1, <2>1
  <2> QED
    BY <2>2, <2>3, <2>4 DEF Idles
<1>4. ASSUME NEW r \in Runs, Finish(r) \/ Verify(r) \/ VerifyThrows(r)
      PROVE  run' = [run EXCEPT ![r] = run'[r]] /\ (\A q \in Runs \ {r} : run'[q] = run[q]) /\ Idles(r)
  <2>1. /\ AtWork(r) /\ run[r].phase # "act" /\ UNCHANGED <<scenario, host, leftOver, unseen, blind>>
        /\ \E phase \in {"done", "verify"} : \E result :
               /\ run' = [run EXCEPT ![r].phase = phase, ![r].result = result]
               /\ phase = "done" => result = "ok" \/ Fault
    <3>1. CASE Finish(r)
      BY <3>1 DEF Finish, AtWork
    <3>2. CASE Verify(r)
      BY <3>2 DEF Verify, AtWork
    <3>3. CASE VerifyThrows(r)
      BY <3>3 DEF VerifyThrows, AtWork
    <3> QED
      BY <1>4, <3>1, <3>2, <3>3
  <2>2. PICK phase \in {"done", "verify"} : \E result :
             /\ run' = [run EXCEPT ![r].phase = phase, ![r].result = result]
             /\ phase = "done" => result = "ok" \/ Fault
    BY <2>1
  <2>0. PICK result : /\ run' = [run EXCEPT ![r].phase = phase, ![r].result = result]
                      /\ phase = "done" => result = "ok" \/ Fault
    BY <2>2
  <2> DEFINE y == [run[r] EXCEPT !.phase = phase, !.result = result]
  <2>3. run' = [run EXCEPT ![r] = y]
    BY <2>0, Zenon
  <2>7. y = [run[r] EXCEPT !.phase = phase, !.result = result]
    OBVIOUS
  <2>4. phase \in Phases \ {"act"} /\ phase # "idle"
    BY DEF Phases
  <2> HIDE DEF y
  <2>5. Idling(run[r], y) /\ y.phase = phase /\ y.result = result
    <3> DEFINE x == run[r]
    <3>1. IsRun(x) /\ x.phase # "act" /\ y = [x EXCEPT !.phase = phase, !.result = result] /\ phase # "act"
      BY <1>0, <2>1, <2>4, <2>7
    <3> HIDE DEF x
    <3>2. Idling(x, y) /\ y.phase = phase /\ y.result = result
      BY <3>1 DEF IsRun, Idling
    <3> QED
      BY <3>2 DEF x
  <2>6. run' = [run EXCEPT ![r] = run'[r]] /\ run'[r] = y /\ \A q \in Runs \ {r} : run'[q] = run[q]
    BY <1>1, <2>3
  <2> QED
    BY <2>0, <2>1, <2>4, <2>5, <2>6 DEF Idles
<1>5. ASSUME NEW r \in Runs, NEW s \in TaskStatuses, run' = [run EXCEPT ![r] = Ended(r, run[r], s)]
      PROVE  /\ run' = [run EXCEPT ![r] = run'[r]] /\ \A q \in Runs \ {r} : run'[q] = run[q]
             /\ TaskOver(run[r], run'[r], Task(r), s, run[r].got)
  <2> DEFINE y == Ended(r, run[r], s)
  <2>1. TaskOver(run[r], y, Task(r), s, run[r].got)
    BY <1>0, EndedIs
  <2>2. run' = [run EXCEPT ![r] = y]
    BY <1>5
  <2> HIDE DEF y
  <2> QED
    BY <1>1, <2>1, <2>2
<1>6. ASSUME NEW r \in Runs, Skip(r)
      PROVE  run' = [run EXCEPT ![r] = run'[r]] /\ (\A q \in Runs \ {r} : run'[q] = run[q]) /\ Ends(r)
  <2>1. "skipped" \in TaskStatuses /\ run[r].at \in 1..Len(Play(r)) /\ AtWork(r)
    <3> DEFINE x == run[r]
               n == Len(Play(r))
    <3>1. IsRun(x) /\ Counted(x, n) /\ x.phase = "task" /\ x.at <= n /\ n \in Nat
      BY <1>0, <1>6, ScenarioIs DEF Skip, RunOk
    <3> HIDE DEF x, n
    <3>2. x.at \in 1..n
      BY <3>1 DEF Counted
    <3> QED
      BY <3>1, <3>2 DEF AtWork, TaskStatuses, x, n
  <2> QED
    BY <1>5, <1>6, <2>1 DEF Skip, Ends
<1>7. ASSUME NEW r \in Runs, ExecRejects(r)
      PROVE  run' = [run EXCEPT ![r] = run'[r]] /\ (\A q \in Runs \ {r} : run'[q] = run[q]) /\ Ends(r)
  <2>1. "failed" \in TaskStatuses
    BY DEF TaskStatuses
  <2>2. SendsCommands(r) /\ run[r].at \in 1..Len(Play(r)) /\ AtWork(r) /\ run[r].phase = "act"
    BY <1>7, Sending DEF ExecRejects
  <2> QED
    BY <1>5, <1>7, <2>1, <2>2 DEF ExecRejects, Ends
<1>8. ASSUME NEW r \in Runs, Look(r) \/ LookBlind(r)
      PROVE  run' = [run EXCEPT ![r] = run'[r]] /\ \A q \in Runs \ {r} : run'[q] = run[q]
  <2>1. run' = [run EXCEPT ![r] = run'[r]]
    BY <1>8, Looking
  <2> QED
    BY <1>0, <2>1
<1>9. ASSUME NEW r \in Runs, Exec(r) \/ ExecFails(r) \/ ExecTimesOut(r) \/ ExecCut(r)
      PROVE  run' = [run EXCEPT ![r] = run'[r]] /\ \A q \in Runs \ {r} : run'[q] = run[q]
  <2>1. \E y : run' = [run EXCEPT ![r] = y]
    BY <1>9 DEF Exec, ExecFails, ExecTimesOut, ExecCut
  <2> QED
    BY <1>1, <2>1
<1> QED
  BY <1>3, <1>4, <1>6, <1>7, <1>8, <1>9 DEF PlaybookNext

\* As long as nothing goes wrong.
LEMMA CleanSteps ==
    ASSUME PlaybookTypeOK, [PlaybookNext]_playbookVars, faults' = 0, ~together'
    PROVE  /\ faults = 0 /\ ~together
           /\ \/ UNCHANGED playbookVars
              \/ \E r \in Runs :
                     /\ \A q \in Runs \ {r} : run'[q] = run[q]
                     /\ \/ Idles(r) \/ Look(r) \/ Exec(r)
                        \/ Ends(r) /\ run[r].phase = "task" /\ ~MayRun(Task(r), run[r])
                           /\ TaskOver(run[r], run'[r], Task(r), "skipped", run[r].got)
<1>1. faults \in Nat /\ (faults' = faults \/ faults' = faults + 1)
  <2>1. faults \in Nat
    BY DEF PlaybookTypeOK
  <2>2. faults' = faults \/ Fault
    BY DEF PlaybookNext, playbookVars, Start, Skip, Look, LookBlind, Exec, ExecFails, ExecRejects,
           ExecTimesOut, ExecCut, Finish, Verify, VerifyThrows, LeftOverEnds
  <2> QED
    BY <2>1, <2>2 DEF Fault
<1>2. faults' = faults /\ faults = 0
  BY <1>1
<1>3. ~Fault
  BY <1>2 DEF Fault
<1>4. ~together
  BY StaysStarted
<1>5. leftOver = {}
  BY <1>4 DEF PlaybookTypeOK
<1>6. ASSUME NEW r \in Runs PROVE ~LookBlind(r) /\ ~ExecFails(r) /\ ~ExecTimesOut(r) /\ ~ExecCut(r)
  BY <1>3 DEF LookBlind, ExecFails, ExecTimesOut, ExecCut
<1>7. ASSUME NEW r \in Runs, Ends(r)
      PROVE  /\ run[r].phase = "task" /\ ~MayRun(Task(r), run[r])
             /\ TaskOver(run[r], run'[r], Task(r), "skipped", run[r].got)
  BY <1>3, <1>7 DEF Ends
<1> QED
  BY <1>2, <1>4, <1>5, <1>6, <1>7, RunSteps

LEMMA ReportedStep ==
    ASSUME PlaybookTypeOK, DryInv, ReportedInv, [PlaybookNext]_playbookVars
    PROVE  ReportedInv'
<1> SUFFICES ASSUME Dry(1)', faults' = 0, ~together' PROVE Reported(run'[1], Play(1)', origin')
  BY DEF ReportedInv
<1>1. scenario' = scenario
  BY StaysStarted
<1>2. Play(1)' = Play(1) /\ origin' = origin /\ Dry(1) /\ 1 \in Runs
  BY <1>1 DEF Play, Dry, origin, Runs
<1>3. faults = 0 /\ ~together
  BY CleanSteps
<1>4. Reported(run[1], Play(1), origin)
  BY <1>2, <1>3 DEF ReportedInv
<1> DEFINE x == run[1]
           y == run'[1]
           play == Play(1)
<1>5. CASE y.logs = x.logs
  BY <1>2, <1>4, <1>5 DEF Reported
<1>6. IsRun(x) /\ Counted(x, Len(play)) /\ Len(play) \in Nat
  BY <1>2, ScenarioIs DEF PlaybookTypeOK, RunOk, Play
<1>7. ASSUME x.phase \in {"task", "act"} PROVE x.at \in Nat /\ Len(x.logs) = x.at - 1
  <2> HIDE DEF x, play
  <2> QED
    BY <1>6, <1>7 DEF Counted, IsRun
<1>8. CASE UNCHANGED playbookVars
  BY <1>5, <1>8 DEF playbookVars
<1>9. ASSUME NEW r \in Runs \ {1}, \A q \in Runs \ {r} : run'[q] = run[q] PROVE y.logs = x.logs
  BY <1>2, <1>9
<1>10. CASE Idles(1)
  <2>1. y.logs = x.logs
    BY <1>10 DEF Idles, Idling
  <2> QED
    BY <1>5, <2>1
<1>11. CASE Exec(1)
  BY <1>2, <1>11, Sending DEF Exec
<1>12. CASE Ends(1) /\ x.phase = "task" /\ ~MayRun(Task(1), x) /\ TaskOver(x, y, Task(1), "skipped", x.got)
  <2>1. play[x.at].when # 0
    BY <1>12 DEF MayRun, Task
  <2>2. "skipped" \in TaskStatuses
    BY DEF TaskStatuses
  <2>3. x.at \in Nat /\ Len(x.logs) = x.at - 1 /\ Reported(x, play, origin)
    BY <1>4, <1>7, <1>12
  <2> HIDE DEF x, y, play
  <2>4. Reported(y, play, origin)
    BY <1>6, <1>12, <2>1, <2>2, <2>3, ReportedOver
  <2> QED
    BY <1>2, <2>4 DEF y, play
<1>13. CASE Look(1)
  <2>1. /\ x.phase = "task" /\ Task(1) = play[x.at] /\ AtWork(1) /\ TaskOn(Task(1), host)
        /\ \E plan : /\ plan = Plan(play[x.at], host, TRUE) /\ Looked(x, y, Task(1), plan, TRUE)
                     /\ IsPlan(plan, Task(1), host, TRUE)
    <3>1. Dry(1) = TRUE
      <4>1. Dry(1) \in BOOLEAN
        BY <1>2, ScenarioIs
      <4> QED
        BY <1>2, <4>1
    <3>2. /\ x.phase = "task" /\ AtWork(1) /\ TaskOn(Task(1), host) /\ Task(1) = play[x.at]
      BY <1>2, <1>13, Looking
    <3>3. \E plan, n :
             /\ IsPlan(plan, Task(1), n, Dry(1)) /\ Looked(x, y, Task(1), plan, Dry(1))
             /\ n = host /\ plan = Plan(Task(1), host, Dry(1))
      BY <1>2, <1>13, Looking
    <3>4. PICK plan : /\ IsPlan(plan, Task(1), host, TRUE) /\ Looked(x, y, Task(1), plan, TRUE)
                      /\ plan = Plan(Task(1), host, TRUE)
      BY <3>1, <3>3
    <3> HIDE DEF x, y, play
    <3> QED
      BY <3>2, <3>4
  <2>2. host = origin
    <3>1. run[2].phase = "idle"
      BY <1>3, <2>1 DEF PlaybookTypeOK
    <3>2. \A r \in Started : Dry(r)
      BY <1>2, <3>1 DEF Started, Runs
    <3> QED
      BY <3>2 DEF DryInv
  <2>3. PICK plan : /\ plan = Plan(play[x.at], origin, TRUE) /\ Looked(x, y, Task(1), plan, TRUE)
                    /\ IsPlan(plan, Task(1), host, TRUE)
    BY <2>1, <2>2
  <2>4. x.at \in Nat /\ Len(x.logs) = x.at - 1 /\ Reported(x, play, origin)
    BY <1>4, <1>7, <2>1
  <2>5. \E status \in TaskStatuses : TaskOver(x, y, Task(1), status, {}) /\ (plan.changed => status = "changed")
    <3>1. plan.refused => ~plan.changed
      BY <2>3 DEF IsPlan
    <3>2. CASE plan.refused
      BY <2>3, <3>1, <3>2 DEF Looked, TaskStatuses
    <3>3. CASE ~plan.refused
      <4> DEFINE status == IF plan.changed THEN "changed" ELSE "ok"
      <4>1. TaskOver(x, y, Task(1), status, {})
        BY <2>3, <3>3 DEF Looked
      <4>2. status \in TaskStatuses /\ (plan.changed => status = "changed")
        BY DEF TaskStatuses
      <4> HIDE DEF status
      <4> QED
        BY <4>1, <4>2
    <3> QED
      BY <3>2, <3>3
  <2>6. PICK status \in TaskStatuses : TaskOver(x, y, Task(1), status, {}) /\ (plan.changed => status = "changed")
    BY <2>5
  <2> HIDE DEF x, y, play
  <2>7. Reported(y, play, origin)
    BY <1>6, <2>3, <2>4, <2>6, ReportedOver
  <2> QED
    BY <1>2, <2>7 DEF y, play
<1> QED
  BY <1>5, <1>8, <1>9, <1>10, <1>11, <1>12, <1>13, CleanSteps

\* A run that did not begin has changed nothing.
LEMMA IdleForetold ==
    ASSUME NEW x, IsRun(x), NEW play, NEW dry, NEW k, Acting(x, play, dry, k), NEW n, Counted(x, n),
           x.phase = "idle", NEW C, NEW m
    PROVE  Foretold(x, C, m, m)
<1>1. x.logs \in Seq(TaskStatuses) /\ Len(x.logs) = 0 /\ x.said \subseteq 1..0
  BY DEF IsRun, Counted
<1>2. DOMAIN x.logs = {} /\ x.said = {}
  BY <1>1
<1>3. x.commands = <<>> /\ ~x.changed /\ x.lost = {} /\ x.got = {}
  BY DEF Acting
<1>4. Alike(m, m)
  BY DEF Alike
<1> QED
  BY <1>2, <1>3, <1>4, ListsAre DEF Foretold, ChangedIn

LEMMA ForetoldStep ==
    ASSUME PlaybookTypeOK, DryInv, ReportedInv, ForetoldInv, [PlaybookNext]_playbookVars
    PROVE  ForetoldInv'
<1> SUFFICES ASSUME Compared' PROVE Foretold(run'[2], Changed(1)', origin', host')
  BY DEF ForetoldInv
<1>0. PlaybookTypeOK' /\ DryInv'
  BY TypeSteps, DryHolds
<1> DEFINE x == run[2]
           y == run'[2]
           C == Changed(1)
           t == Task(2)
<1>1. scenario' = scenario /\ Started \subseteq Started'
  BY StaysStarted
<1>2. /\ Play(1)' = Play(1) /\ Play(2)' = Play(2) /\ Dry(1)' = Dry(1) /\ Dry(2)' = Dry(2) /\ origin' = origin
      /\ 1 \in Runs /\ 2 \in Runs
  BY <1>1 DEF Play, Dry, origin, Runs
<1>3. /\ Play(1) = Play(2) /\ Dry(1) /\ FirstReal(2) /\ faults = 0 /\ ~together /\ run'[1].result = "ok"
      /\ faults' = 0 /\ ~together'
  <2>1. /\ Play(1) = Play(2) /\ Dry(1) /\ run'[1].result = "ok" /\ faults' = 0 /\ ~together'
    BY <1>2 DEF Compared
  <2>2. FirstReal(2)
    <3>1. FirstReal(2)'
      BY DEF Compared
    <3> QED
      BY <1>1, <3>1 DEF FirstReal, Dry
  <2> QED
    BY <2>1, <2>2, CleanSteps
<1>4. IsRun(x) /\ Counted(x, Len(Play(2))) /\ Len(Play(2)) \in Nat /\ IsList(x.commands)
      /\ (x.phase # "act" => x.commands = <<>>)
      /\ (x.phase = "act" => x.commands # <<>>)
  BY <1>2, ScenarioIs DEF PlaybookTypeOK, RunOk, Acting, Play
<1>5. ASSUME x.phase \in {"task", "act"} PROVE x.at \in Nat /\ Len(x.logs) = x.at - 1
  <2> HIDE DEF x
  <2> QED
    BY <1>4, <1>5 DEF Counted, IsRun
<1>6. CASE y.phase = "idle"
  <2>1. \A r \in Started' : Dry(r)'
    BY <1>2, <1>3, <1>6 DEF Started, Runs
  <2>2. host' = origin'
    BY <1>0, <2>1 DEF DryInv
  <2>3. IsRun(y) /\ Counted(y, Len(scenario'.plays[2])) /\ Acting(y, scenario'.plays[2], scenario'.dry[2], scenario'.host)
    BY <1>0, <1>2 DEF PlaybookTypeOK, RunOk
  <2> HIDE DEF y
  <2>4. Foretold(y, Changed(1)', origin', origin')
    BY <1>6, <2>3, IdleForetold
  <2> QED
    BY <2>2, <2>4 DEF y
<1>7. CASE y.phase # "idle"
  <2>1. run'[1].phase = "done"
    BY <1>0, <1>3, <1>7 DEF PlaybookTypeOK
  <2>2. ASSUME run'[1] = run[1], Foretold(x, C, origin, host) => Foretold(y, C, origin, host')
        PROVE  Foretold(y, Changed(1)', origin', host')
    <3>1. Changed(1)' = C
      BY <2>2 DEF Changed
    <3>2. Compared
      BY <1>3, <2>2 DEF Compared
    <3>3. Foretold(x, C, origin, host)
      BY <3>2 DEF ForetoldInv
    <3> HIDE DEF x, y, C
    <3> QED
      BY <1>2, <2>2, <3>1, <3>3
  <2>3. ASSUME NEW r \in Runs, \A q \in Runs \ {r} : run'[q] = run[q],
               AtWork(r) \/ (run[r].phase = "idle" /\ run'[r].phase = "task")
        PROVE  r = 2 /\ run'[1] = run[1]
    <3>1. CASE r = 1
      <4>1. run[2].phase # "idle"
        BY <1>7, <2>3, <3>1 DEF Runs
      <4>2. run[1].phase = "done"
        BY <1>3, <4>1 DEF PlaybookTypeOK
      <4> QED
        BY <2>3, <3>1, <4>2 DEF AtWork
    <3> QED
      BY <2>3, <3>1 DEF Runs
  <2>4. CASE UNCHANGED playbookVars
    <3>1. run' = run /\ host' = host
      BY <2>4 DEF playbookVars
    <3> QED
      BY <2>2, <3>1
  <2>5. ASSUME NEW r \in Runs, \A q \in Runs \ {r} : run'[q] = run[q], Idles(r)
        PROVE  Foretold(y, Changed(1)', origin', host')
    <3>1. r = 2 /\ run'[1] = run[1]
      BY <2>3, <2>5 DEF Idles
    <3>2. Idling(x, y) /\ host' = host
      BY <2>5, <3>1 DEF Idles
    <3> HIDE DEF x, y, C
    <3>3. ASSUME Foretold(x, C, origin, host) PROVE Foretold(y, C, origin, host')
      <4>1. Seen(x, C) = {} => /\ ~y.changed /\ y.got = {} /\ y.lost = {} /\ Alike(origin, host)
                               /\ \A c \in ToSet(y.commands) : c.do = "chmod"
        BY <3>2, <3>3 DEF Foretold, Idling
      <4>2. y.logs = x.logs /\ y.said = x.said
        BY <3>2 DEF Idling
      <4> QED
        BY <3>2, <3>3, <4>1, <4>2, GoingForetold
    <3> QED
      BY <2>2, <3>1, <3>3
  <2>6. ASSUME NEW r \in Runs, \A q \in Runs \ {r} : run'[q] = run[q], Ends(r), run[r].phase = "task",
               TaskOver(run[r], run'[r], Task(r), "skipped", run[r].got)
        PROVE  Foretold(y, Changed(1)', origin', host')
    <3>1. r = 2 /\ run'[1] = run[1]
      BY <2>3, <2>6 DEF Ends
    <3>2. /\ host' = host /\ x.phase = "task" /\ TaskOver(x, y, t, "skipped", x.got)
          /\ x.at \in Nat /\ Len(x.logs) = x.at - 1 /\ IsRun(x)
      BY <1>4, <1>5, <2>6, <3>1 DEF Ends
    <3>3. "skipped" \in TaskStatuses
      BY DEF TaskStatuses
    <3> HIDE DEF x, y, C, t
    <3>4. ASSUME Foretold(x, C, origin, host) PROVE Foretold(y, C, origin, host')
      <4>1. Seen(x, C) = {} => Alike(origin, host)
        BY <3>2, <3>4 DEF Foretold
      <4> DEFINE status == "skipped"
      <4>2. status # "changed" /\ status # "failed" /\ status \in TaskStatuses /\ TaskOver(x, y, t, status, x.got)
        BY <3>2, <3>3
      <4> HIDE DEF status
      <4>3. Foretold(y, C, origin, host)
        BY <3>2, <3>4, <4>1, <4>2, OverForetold
      <4> QED
        BY <3>2, <4>3
    <3> QED
      BY <2>2, <3>1, <3>4
  <2>7. ASSUME NEW r \in Runs, \A q \in Runs \ {r} : run'[q] = run[q], Look(r)
        PROVE  Foretold(y, Changed(1)', origin', host')
    <3>1. r = 2 /\ run'[1] = run[1]
      BY <2>3, <2>7, Looking
    <3>2. /\ host' = host /\ x.phase = "task" /\ MayRun(t, x) /\ t = Play(2)[x.at] /\ TaskOn(t, host)
          /\ x.at \in Nat /\ Len(x.logs) = x.at - 1 /\ IsRun(x) /\ x.at \in 1..Len(Play(2))
      <4>1. host' = host
        BY <2>7 DEF Look, Dispatch
      <4>2. x.phase = "task" /\ MayRun(t, x) /\ t = Play(2)[x.at] /\ TaskOn(t, host) /\ x.at \in 1..Len(Play(2))
        BY <2>7, <3>1, Looking
      <4> QED
        BY <1>4, <1>5, <4>1, <4>2
    <3>3. \E plan, n :
             /\ IsPlan(plan, t, n, Dry(2)) /\ Looked(x, y, t, plan, Dry(2))
             /\ n = host /\ plan = Plan(t, host, Dry(2))
      BY <2>7, <3>1, Looking
    <3>4. Dry(2) = FALSE
      <4>1. Dry(2) \in BOOLEAN /\ ~Dry(2)
        BY <1>2, <1>3, ScenarioIs DEF FirstReal
      <4> QED
        BY <4>1
    <3>5. PICK plan : /\ IsPlan(plan, t, host, FALSE) /\ Looked(x, y, t, plan, FALSE)
                      /\ plan = Plan(t, host, FALSE)
      BY <3>3, <3>4
    <3>6. ASSUME Foretold(x, C, origin, host) PROVE Foretold(y, C, origin, host')
      <4>1. ASSUME Seen(x, C) = {}, plan.changed PROVE x.at \in C
        <5>1. x.said = {} /\ Alike(origin, host)
          BY <3>2, <3>6, <4>1 DEF Foretold
        <5>2. t.when = 0
          BY <3>2, <5>1 DEF MayRun
        <5>3. Alike(host, origin)
          BY <5>1 DEF Alike
        <5> HIDE DEF t
        <5>4. Plan(t, origin, TRUE).changed
          BY <3>2, <3>5, <4>1, <5>3, DryRunKnows
        <5>5. Reported(run[1], Play(1), origin)
          BY <1>3 DEF ReportedInv
        <5>6. x.at \in DOMAIN run[1].logs
          <6> DEFINE w == run[1]
          <6>1. IsRun(w) /\ Counted(w, Len(Play(1))) /\ w.phase = "done" /\ w.result = "ok"
            BY <1>2, <1>3, <2>1, <3>1 DEF PlaybookTypeOK, RunOk, Play
          <6> HIDE DEF w
          <6>2. w.logs \in Seq(TaskStatuses) /\ Len(w.logs) = Len(Play(1))
            BY <6>1 DEF IsRun, Counted
          <6>3. DOMAIN w.logs = 1..Len(Play(2))
            BY <1>3, <6>2
          <6> QED
            BY <3>2, <6>3 DEF w
        <5>7. run[1].logs[x.at] = "changed"
          BY <1>3, <3>2, <5>2, <5>4, <5>5, <5>6 DEF Reported
        <5> QED
          BY <5>6, <5>7 DEF Changed
      <4> HIDE DEF x, y, C, t
      <4>2. Foretold(y, C, origin, host)
        BY <3>2, <3>5, <3>6, <4>1, LookForetold
      <4> QED
        BY <3>2, <4>2
    <3> QED
      BY <2>2, <3>1, <3>6
  <2>8. ASSUME NEW r \in Runs, \A q \in Runs \ {r} : run'[q] = run[q], Exec(r)
        PROVE  Foretold(y, Changed(1)', origin', host')
    <3>1. SendsCommands(r) /\ AtWork(r)
      BY <2>8, Sending DEF Exec
    <3>2. r = 2 /\ run'[1] = run[1]
      BY <2>3, <2>8, <3>1
    <3> DEFINE c == Command1(2)
               worked == Possible(c, host)
    <3>3. /\ x.phase = "act" /\ x.at \in Nat /\ Len(x.logs) = x.at - 1 /\ IsRun(x) /\ IsList(x.commands)
          /\ x.commands # <<>> /\ c = Head(x.commands) /\ IsCommand(c, DOMAIN host.users)
      BY <1>4, <1>5, <3>1, <3>2, Sending
    <3>4. /\ Answered(x, y, t, worked)
          /\ worked => host' = Effect(c, host)
          /\ ~worked => host' = host
      BY <2>8, <3>2, ExecIs
    <3>5. worked \in BOOLEAN
      BY PossibleIs
    <3> HIDE DEF c
    <3>6. c.do = "chmod" /\ Alike(origin, host) => Alike(origin, host')
      <4> SUFFICES ASSUME c.do = "chmod", Alike(origin, host) PROVE Alike(origin, host')
        OBVIOUS
      <4> DEFINE n == [host EXCEPT !.modes[c.on] = c.value]
      <4>1. IsMachine(host)
        BY DEF PlaybookTypeOK
      <4>2. Effect(c, host) = n
        BY DEF Effect
      <4>3. Alike(host, n)
        BY <4>1 DEF IsMachine, Alike
      <4> HIDE DEF n
      <4>4. host' = n \/ host' = host
        BY <3>4, <4>2
      <4> QED
        BY <4>3, <4>4 DEF Alike
    <3> HIDE DEF x, y, C, t, worked
    <3>7. ASSUME Foretold(x, C, origin, host) PROVE Foretold(y, C, origin, host')
      BY <3>3, <3>4, <3>5, <3>6, <3>7, AnsweredForetold
    <3> QED
      BY <2>2, <3>2, <3>7
  <2> QED
    BY <1>3, <2>4, <2>5, <2>6, <2>7, <2>8, CleanSteps
<1> QED
  BY <1>6, <1>7

LEMMA AnnouncementFollows ==
    ASSUME PlaybookTypeOK, DryInv, RiskInv, ForetoldInv
    PROVE  AnnouncedBeforehand
<1>1. ASSUME NEW r \in Started, FirstReal(r), ~together PROVE FilesAreListed(r) /\ RiskIsNotUnderstated(r)
  <2>1. r \in Runs
    BY DEF Started
  <2> QED
    BY <1>1, <2>1, FilesAreInTheList DEF RiskInv, RiskIsNotUnderstated, LowRisk
<1>2. DryRunTouchesNothing
  BY DEF DryInv, DryRunTouchesNothing
<1>3. DryRunForetells
  <2> SUFFICES ASSUME Compared, NEW i \in Changed(2), i \notin Changed(1)
               PROVE  \E j \in 1..(i - 1) : j \in Changed(2) \/ (j \in FailedTasks(run[2]) /\ j \in Changed(1))
    BY DEF DryRunForetells, Compared
  <2>1. Foretold(run[2], Changed(1), origin, host) /\ i \in ChangedIn(run[2])
    BY DEF ForetoldInv, Changed, ChangedIn
  <2>2. \E j \in 1..(i - 1) : j \in Seen(run[2], Changed(1))
    BY <2>1 DEF Foretold
  <2> QED
    BY <2>2 DEF Seen, ChangedIn, Changed
<1> QED
  BY <1>1, <1>2, <1>3 DEF AnnouncedBeforehand

-----------------------------------------------------------------------------
(* What a task leads to: the modules that write a file.                    *)

FileModules == {"copy", "template", "systemd_unit", "sysctl", "acme", "file", "lineinfile", "cron",
    "env_path", "shell"}

\* Tasks that have something to do each time.
Fidgety(t) ==
    \/ t.module = "shell" /\ t.unless # t.path
    \/ t.module = "file" /\ t.state = "touch"
    \/ t.module = "service" /\ t.state \in {"restarted", "reloaded"}
    \/ t.module = "user" /\ t.state = "present" /\ t.groups # {}
    \/ t.module = "ufw" /\ t.state \in {"rule", "reset"}
    \/ t.module = "lineinfile" /\ t.state = "present" /\ t.match # None /\ t.line \notin t.match

\* What a task wants of the contents of its file, for as long as it is to stay quiet.
FileGoal(t, v) ==
    /\ t.module \in {"copy", "template"} => v = t.text
    /\ t.module \in {"systemd_unit", "sysctl"} => v = IF t.state = "present" THEN t.text ELSE None
    /\ t.module = "acme" => v # None
    /\ t.module = "file" => IF t.state = "absent" THEN v = None
                            ELSE v # None /\ (t.state = "directory" => v = t.text)
    /\ t.module = "lineinfile" =>
           IF t.state = "present" THEN v # None /\ Contains(v, t.line) /\ (~Fidgety(t) => LineEdited(t, v) = v)
           ELSE v = None \/ LineEdited(t, v) = v
    /\ t.module = "cron" => CrontabWith(t, LinesOf(v)) = LinesOf(v)
    /\ t.module = "env_path" => v # None /\ BlockUpserted(t, v) = v
    /\ t.module = "shell" => (t.unless = t.path => v # None)

GoalPaths(t) ==
    IF t.module = "sysctl" THEN IF t.state = "present" THEN {t.path, t.live} ELSE {t.path} ELSE Written(t)

Changes(c, p) == c.do \in Contents \cup {"remove"} /\ c.on = p
Left(c) == IF c.do = "remove" THEN None ELSE c.value

\* Each file is as the task wants it, or will be by a command it has still to send.
TowardFiles(t, cs, m) ==
    \A p \in GoalPaths(t) :
        /\ FileGoal(t, m.files[p]) \/ \E c \in ToSet(cs) : Changes(c, p)
        /\ \A c \in ToSet(cs) : Changes(c, p) => FileGoal(t, Left(c))

LEMMA GoalPathsAre ==
    ASSUME NEW t, NEW m, TaskOn(t, m), t.module \in FileModules
    PROVE  /\ GoalPaths(t) \subseteq Paths
           /\ t.module \notin {"env_path", "sysctl"} => GoalPaths(t) = {t.path}
           /\ t.module = "env_path" => GoalPaths(t) = t.paths
           /\ \A p \in Paths : m.files[p] \in Seq(Lines) \cup {None}
<1>1. \A p \in Paths : m.files[p] \in Seq(Lines) \cup {None}
  BY DEF TaskOn, IsMachine, FileContents
<1>2. CASE t.module = "sysctl"
  BY <1>1, <1>2 DEF GoalPaths, TaskOn, IsTask
<1>3. CASE t.module = "env_path"
  BY <1>1, <1>3 DEF GoalPaths, Written, TaskOn, IsTask
<1>4. CASE t.module \in {"copy", "template", "systemd_unit", "acme", "file", "lineinfile", "cron", "shell"}
  <2>1. Written(t) = {t.path}
    BY <1>4 DEF Written
  <2>2. t.path \in Paths
    BY <1>4 DEF TaskOn, IsTask
  <2> QED
    BY <1>1, <1>4, <2>1, <2>2 DEF GoalPaths
<1> QED
  BY <1>2, <1>3, <1>4 DEF FileModules

LEMMA NoneIsNoList == \A s \in Seq(Lines) : s # None /\ LinesOf(s) = s
BY NoneAssumption DEF LinesOf

\* What a module writes is what the task wants.
LEMMA ServedGoal ==
    ASSUME NEW t, NEW m, TaskOn(t, m), t.module \in FileModules, NEW c, IsCommand(c, DOMAIN m.users),
           Serves(c, t, m), NEW p \in GoalPaths(t), Changes(c, p)
    PROVE  FileGoal(t, Left(c))
<1> DEFINE v == Left(c)
<1>1. p \in Paths /\ c.on = p /\ c.do \in Contents \cup {"remove"}
  BY GoalPathsAre DEF Changes
<1>2. c.do \in Contents => v = c.value /\ v \in Seq(Lines) /\ v # None /\ LinesOf(v) = v
  <2>1. c.do \in Contents => v = c.value /\ v \in Seq(Lines)
    BY DEF Left, Contents, IsCommand
  <2> HIDE DEF v
  <2> QED
    BY <2>1, NoneIsNoList
<1>3. c.do = "remove" => v = None
  BY DEF Left
<1>4. m.files[p] \in FileContents
  BY <1>1 DEF TaskOn, IsMachine
<1> HIDE DEF v
<1>5. CASE t.module \in {"copy", "template"}
  <2>1. c.do \in Contents /\ c.value = t.text
    BY <1>1, <1>5 DEF Serves, Contents
  <2> QED
    BY <1>2, <1>5, <2>1 DEF FileGoal, v
<1>6. CASE t.module = "systemd_unit"
  <2>1. IF t.state = "present" THEN c.do \in Contents /\ c.value = t.text ELSE c.do = "remove"
    BY <1>1, <1>6 DEF Serves, Contents
  <2> QED
    BY <1>2, <1>3, <1>6, <2>1 DEF FileGoal, v
<1>7. CASE t.module = "sysctl"
  <2>1. IF t.state = "present" THEN c.do \in Contents /\ c.value = t.text ELSE c.do = "remove"
    BY <1>1, <1>7 DEF Serves, Contents
  <2> QED
    BY <1>2, <1>3, <1>7, <2>1 DEF FileGoal, v
<1>8. CASE t.module = "acme"
  <2>1. c.do \in Contents
    BY <1>1, <1>8 DEF Serves, Contents
  <2> QED
    BY <1>2, <1>8, <2>1 DEF FileGoal, v
<1>9. CASE t.module = "shell"
  <2>1. c.do \in Contents
    BY <1>1, <1>9 DEF Serves, Contents
  <2> QED
    BY <1>2, <1>9, <2>1 DEF FileGoal, v
<1>10. CASE t.module = "file"
  <2>1. \/ c.do = "remove" /\ t.state = "absent"
        \/ /\ c.do \in Contents /\ t.state # "absent"
           /\ t.state = "directory" => c.value = t.text
    BY <1>1, <1>10 DEF Serves, Contents
  <2> QED
    BY <1>2, <1>3, <1>10, <2>1 DEF FileGoal, v
<1>11. CASE t.module = "lineinfile"
  <2> DEFINE old == LinesOf(m.files[t.path])
  <2>1. c.do \in Contents /\ c.value = LineEdited(t, old) /\ p = t.path
    BY <1>1, <1>11 DEF Serves, Contents
  <2>2. old \in Seq(Lines) /\ t.line \in Lines /\ t.state \in {"present", "absent"}
    BY <1>4, <1>11, <2>1, LinesAre DEF TaskOn, IsTask
  <2> HIDE DEF old
  <2>3. /\ t.state = "present" => Contains(v, t.line)
        /\ (t.state = "present" /\ t.match # None => t.line \in t.match) => LineEdited(t, v) = v
    BY <1>2, <2>1, <2>2, LineEntry, LineTwice
  <2>4. ~Fidgety(t) => (t.state = "present" /\ t.match # None => t.line \in t.match)
    BY <1>11 DEF Fidgety
  <2> QED
    BY <1>2, <1>11, <2>1, <2>2, <2>3, <2>4 DEF FileGoal, v
<1>12. CASE t.module = "cron"
  <2> DEFINE old == LinesOf(m.files[t.path])
  <2>1. c.do \in Contents /\ c.value = CrontabWith(t, old) /\ p = t.path
    BY <1>1, <1>12, GoalPathsAre DEF Serves, Contents
  <2>2. old \in Seq(Lines) /\ t.line \in Lines /\ t.marker \in Lines /\ t.line # t.marker
    BY <1>4, <1>12, <2>1, LinesAre DEF TaskOn, IsTask
  <2> HIDE DEF old
  <2>3. CrontabWith(t, v) = v
    BY <1>2, <2>1, <2>2, CrontabTwice
  <2> QED
    BY <1>2, <1>12, <2>1, <2>3 DEF FileGoal, v
<1>13. CASE t.module = "env_path"
  <2> DEFINE old == LinesOf(m.files[p])
  <2>1. c.do \in Contents /\ c.value = BlockUpserted(t, old)
    BY <1>1, <1>13 DEF Serves, Contents
  <2>2. old \in Seq(Lines) /\ t.line \in Lines /\ t.marker \in Lines /\ t.line # t.marker
    BY <1>4, <1>13, LinesAre DEF TaskOn, IsTask
  <2> HIDE DEF old
  <2>3. BlockUpserted(t, v) = v
    BY <1>2, <2>1, <2>2, BlockTwice
  <2> QED
    BY <1>2, <1>13, <2>1, <2>3 DEF FileGoal, v
<1> QED
  BY <1>5, <1>6, <1>7, <1>8, <1>9, <1>10, <1>11, <1>12, <1>13 DEF FileModules

-----------------------------------------------------------------------------
(* What a task leads to: the other modules.                                *)

NamesOf(t, m) == {PackageName(p, m) : p \in t.names} \ {None}
Installing == {"install", "installOne"}
Uninstalling == {"uninstall", "uninstallOne"}

\* Each package is there, or could not be had, or will be by a command still to be sent.
TowardPackages(t, cs, lost, got, m) ==
    IF t.state = "present"
    THEN /\ got \subseteq NamesOf(t, m) \cap m.packages
         /\ \A p \in NamesOf(t, m) : p \in m.packages \/ p \in lost \/
                \E c \in ToSet(cs) : c.do \in Installing /\ p \in c.on
         /\ \A c \in ToSet(cs) : c.do = "repo" \/ (c.do \in Installing /\ c.on \subseteq NamesOf(t, m))
    ELSE /\ got \subseteq NamesOf(t, m) \ m.packages
         /\ \A p \in NamesOf(t, m) : p \notin m.packages \/ p \in lost \/
                \E c \in ToSet(cs) : c.do \in Uninstalling /\ p \in c.on
         /\ \A c \in ToSet(cs) : c.do \in Uninstalling /\ c.on \subseteq NamesOf(t, m)

\* The unit is in the state that is asked for, or will be.
TowardUnit(t, cs, m) ==
    /\ \A c \in ToSet(cs) : Serves(c, t, m)
    /\ UnitOf(t, m) \notin m.units => UnitOf(t, m) = None \/ t.lenient
    /\ UnitOf(t, m) \in m.units =>
        /\ t.state \in {"started", "restarted"} =>
               UnitOf(t, m) \in m.active \/ \E c \in ToSet(cs) : c.do \in {"start", "restart"}
        /\ t.state = "stopped" => UnitOf(t, m) \notin m.active \/ \E c \in ToSet(cs) : c.do = "stop"
        /\ t.boot = "on" => UnitOf(t, m) \in m.enabled \/ \E c \in ToSet(cs) : c.do = "enable"
        /\ t.boot = "off" => UnitOf(t, m) \notin m.enabled \/ \E c \in ToSet(cs) : c.do = "disable"

\* A user, and the firewall: any command of theirs does it.
TowardUser(t, cs, m) ==
    /\ \A c \in ToSet(cs) : Serves(c, t, m)
    /\ cs # <<>> \/ IF t.state = "absent" THEN m.users[t.name] = None
                    ELSE m.users[t.name] # None /\ t.groups \subseteq m.users[t.name]

TowardWall(t, cs, m) ==
    /\ "ufw" \in m.packages /\ \A c \in ToSet(cs) : Serves(c, t, m)
    /\ cs # <<>> \/ IF t.state = "rule" THEN \E rule \in m.rules : rule[2] \in Within[t.port]
                    ELSE m.firewall = (t.state = "enabled")

\* What a task asks for is so, but for what is lost, once its commands are through.
Toward(t, cs, lost, got, m) ==
    /\ t.module \in FileModules \cup {"package", "service", "user", "ufw"}
    /\ t.module \in FileModules => TowardFiles(t, cs, m)
    /\ t.module = "package" => TowardPackages(t, cs, lost, got, m)
    /\ t.module = "service" => TowardUnit(t, cs, m)
    /\ t.module = "user" => TowardUser(t, cs, m)
    /\ t.module = "ufw" => TowardWall(t, cs, m)
    /\ t.module # "package" =>
           /\ lost = {} /\ got = {}
           /\ \A c \in ToSet(cs) : c.do \notin Installing \cup Uninstalling

\* The commands of these modules do not depend on what the machine is like.
LEMMA ServesAnywhere ==
    ASSUME NEW t, t.module \in {"service", "user", "ufw"}, NEW m, NEW n, n.apt = m.apt, NEW c
    PROVE  Serves(c, t, m) <=> Serves(c, t, n)
<1>1. UnitOf(t, m) = UnitOf(t, n)
  BY DEF UnitOf
<1>2. CASE t.module = "service"
  BY <1>1, <1>2 DEF Serves
<1>3. CASE t.module = "user"
  BY <1>3 DEF Serves
<1>4. CASE t.module = "ufw"
  BY <1>4 DEF Serves
<1> QED
  BY <1>2, <1>3, <1>4

LEMMA UnitServes ==
    ASSUME NEW t, t.module = "service", NEW m, NEW c, Serves(c, t, m)
    PROVE  /\ c.on = UnitOf(t, m) /\ c.do \in {"start", "stop", "restart", "reload", "enable", "disable"}
           /\ c.do = "start" => t.state = "started"
           /\ c.do = "stop" => t.state = "stopped"
           /\ c.do = "restart" => t.state = "restarted"
           /\ c.do = "reload" => t.state = "reloaded"
           /\ c.do = "enable" => t.boot = "on"
           /\ c.do = "disable" => t.boot = "off"
BY DEF Serves

-----------------------------------------------------------------------------
(* A command that worked.                                                  *)

LEMMA FilesAfter ==
    ASSUME NEW t, NEW cs, IsList(cs), cs # <<>>, NEW c, c = Head(cs), NEW m, NEW n, Lawful(c, m, n),
           IsCommand(c, DOMAIN m.users), IsMachine(m), GoalPaths(t) \subseteq Paths, TowardFiles(t, cs, m)
    PROVE  TowardFiles(t, Tail(cs), n)
<1>1. ToSet(cs) = {c} \cup ToSet(Tail(cs))
  BY TailOfList
<1>2. SUFFICES ASSUME NEW p \in GoalPaths(t)
               PROVE  /\ FileGoal(t, n.files[p]) \/ \E d \in ToSet(Tail(cs)) : Changes(d, p)
                      /\ \A d \in ToSet(Tail(cs)) : Changes(d, p) => FileGoal(t, Left(d))
  BY DEF TowardFiles
<1>3. \A d \in ToSet(cs) : Changes(d, p) => FileGoal(t, Left(d))
  BY DEF TowardFiles
<1>4. FileGoal(t, m.files[p]) \/ \E d \in ToSet(cs) : Changes(d, p)
  BY DEF TowardFiles
<1>5. m.files \in [Paths -> FileContents] /\ p \in Paths
  BY DEF IsMachine
<1>6. CASE Changes(c, p)
  <2>1. n.files[p] = Left(c)
    BY <1>5, <1>6 DEF Lawful, Changes, Left, Contents
  <2> QED
    BY <1>1, <1>3, <1>6, <2>1
<1>7. CASE ~Changes(c, p)
  <2>1. n.files[p] = m.files[p]
    BY <1>5, <1>7 DEF Lawful, Changes
  <2>2. \A d \in ToSet(cs) : Changes(d, p) => d \in ToSet(Tail(cs))
    BY <1>1, <1>7
  <2> QED
    BY <1>1, <1>3, <1>4, <2>1, <2>2
<1> QED
  BY <1>6, <1>7

LEMMA UnitAfter ==
    ASSUME NEW t, t.module = "service", NEW cs, IsList(cs), cs # <<>>, NEW c, c = Head(cs), NEW m, IsMachine(m),
           NEW n, n = Effect(c, m), n.apt = m.apt, n.units = m.units, TowardUnit(t, cs, m)
    PROVE  TowardUnit(t, Tail(cs), n)
<1> DEFINE u == UnitOf(t, m)
<1>1. ToSet(cs) = {c} \cup ToSet(Tail(cs))
  BY TailOfList
<1>2. \A d \in ToSet(cs) : Serves(d, t, m)
  BY DEF TowardUnit
<1>3. UnitOf(t, n) = u /\ \A d \in ToSet(Tail(cs)) : Serves(d, t, n)
  BY <1>1, <1>2, ServesAnywhere DEF UnitOf
<1>4. /\ c.on = u /\ c.do \in {"start", "stop", "restart", "reload", "enable", "disable"}
      /\ c.do = "start" => t.state = "started"
      /\ c.do = "stop" => t.state = "stopped"
      /\ c.do = "restart" => t.state = "restarted"
      /\ c.do = "reload" => t.state = "reloaded"
      /\ c.do = "enable" => t.boot = "on"
      /\ c.do = "disable" => t.boot = "off"
  BY <1>1, <1>2, UnitServes, ZenonT(40)
<1>5. /\ n.active = IF c.do \in {"start", "restart"} THEN m.active \cup {u}
                    ELSE IF c.do = "stop" THEN m.active \ {u} ELSE m.active
      /\ n.enabled = IF c.do = "enable" THEN m.enabled \cup {u}
                     ELSE IF c.do = "disable" THEN m.enabled \ {u} ELSE m.enabled
  BY <1>4, ZenonT(40) DEF Effect, IsMachine
<1>6. TowardUnit(t, cs, m)!2 /\ TowardUnit(t, cs, m)!3
  BY DEF TowardUnit
<1> HIDE DEF u
<1> DEFINE rest == Tail(cs)
<1>7. ASSUME u \in m.units, t.state \in {"started", "restarted"}
      PROVE  u \in n.active \/ \E d \in ToSet(rest) : d.do \in {"start", "restart"}
  BY <1>1, <1>4, <1>5, <1>6, <1>7 DEF u
<1>8. ASSUME u \in m.units, t.state = "stopped"
      PROVE  u \notin n.active \/ \E d \in ToSet(rest) : d.do = "stop"
  BY <1>1, <1>4, <1>5, <1>6, <1>8 DEF u
<1>9. ASSUME u \in m.units, t.boot = "on"
      PROVE  u \in n.enabled \/ \E d \in ToSet(rest) : d.do = "enable"
  BY <1>1, <1>4, <1>5, <1>6, <1>9 DEF u
<1>10. ASSUME u \in m.units, t.boot = "off"
       PROVE  u \notin n.enabled \/ \E d \in ToSet(rest) : d.do = "disable"
  BY <1>1, <1>4, <1>5, <1>6, <1>10 DEF u
<1>11. u \notin n.units => u = None \/ t.lenient
  BY <1>6 DEF u
<1> QED
  BY <1>3, <1>7, <1>8, <1>9, <1>10, <1>11 DEF TowardUnit

LEMMA UserAfter ==
    ASSUME NEW t, t.module = "user", NEW cs, IsList(cs), cs # <<>>, NEW c, c = Head(cs), NEW m, TaskOn(t, m),
           NEW n, n = Effect(c, m), n.apt = m.apt, Possible(c, m), TowardUser(t, cs, m)
    PROVE  TowardUser(t, Tail(cs), n)
<1>1. ToSet(cs) = {c} \cup ToSet(Tail(cs))
  BY TailOfList
<1>2. \A d \in ToSet(cs) : Serves(d, t, m)
  BY DEF TowardUser
<1>3. \A d \in ToSet(Tail(cs)) : Serves(d, t, n)
  BY <1>1, <1>2, ServesAnywhere
<1>4. /\ c.on = t.name
      /\ (c.do = "userdel" /\ t.state = "absent") \/
         (c.do \in {"useradd", "usermod"} /\ t.state = "present" /\ c.value = t.groups)
  BY <1>1, <1>2 DEF Serves
<1>5. m.users \in [DOMAIN m.users -> (SUBSET Groups) \cup {None}] /\ t.name \in DOMAIN m.users
      /\ \A g \in SUBSET Groups : g # None
  BY NoneAssumption DEF TaskOn, IsMachine
<1>6. t.groups \subseteq Groups
  BY DEF TaskOn, IsTask
<1>7. CASE c.do = "userdel"
  <2>1. n.users = [m.users EXCEPT ![t.name] = None]
    BY <1>4, <1>7 DEF Effect, TaskOn, IsMachine
  <2> QED
    BY <1>3, <1>4, <1>5, <1>7, <2>1 DEF TowardUser
<1>8. CASE c.do = "useradd"
  <2>1. n.users = [m.users EXCEPT ![t.name] = t.groups]
    BY <1>4, <1>8 DEF Effect, TaskOn, IsMachine
  <2> QED
    BY <1>3, <1>4, <1>5, <1>6, <1>8, <2>1 DEF TowardUser
<1>9. CASE c.do = "usermod"
  <2>1. n.users = [m.users EXCEPT ![t.name] = m.users[t.name] \cup t.groups]
    BY <1>4, <1>9 DEF Effect, TaskOn, IsMachine
  <2>2. m.users[t.name] # None
    BY <1>4, <1>9 DEF Possible
  <2>3. m.users[t.name] \in SUBSET Groups
    BY <1>5, <2>2
  <2>4. n.users[t.name] = m.users[t.name] \cup t.groups
    BY <1>5, <2>1
  <2>5. n.users[t.name] # None /\ t.groups \subseteq n.users[t.name]
    BY <1>5, <1>6, <2>3, <2>4
  <2> QED
    BY <1>3, <1>4, <1>9, <2>5 DEF TowardUser
<1> QED
  BY <1>4, <1>7, <1>8, <1>9

LEMMA WallAfter ==
    ASSUME NEW t, t.module = "ufw", NEW cs, IsList(cs), cs # <<>>, NEW c, c = Head(cs), NEW m, TaskOn(t, m),
           NEW n, n = Effect(c, m), n.apt = m.apt, TowardWall(t, cs, m)
    PROVE  TowardWall(t, Tail(cs), n)
<1>1. ToSet(cs) = {c} \cup ToSet(Tail(cs))
  BY TailOfList
<1>2. \A d \in ToSet(cs) : Serves(d, t, m)
  BY DEF TowardWall
<1>3. \A d \in ToSet(Tail(cs)) : Serves(d, t, n)
  BY <1>1, <1>2, ServesAnywhere
<1>4. \/ c.do = "ufw" /\ t.state \in {"enabled", "disabled"} /\ c.value = t.state
      \/ c.do = "reset" /\ t.state = "reset"
      \/ c.do = "rule" /\ t.state = "rule" /\ c.value = <<t.verb, t.port>>
  BY <1>1, <1>2 DEF Serves
<1>5. "ufw" \in m.packages /\ t.port \in Within[t.port]
  BY SMTT(30) DEF TowardWall, TaskOn, IsTask
<1>6. n.packages = m.packages
  BY <1>4 DEF Effect, TaskOn, IsMachine
<1>7. CASE c.do = "ufw"
  <2>1. n.firewall = (t.state = "enabled")
    BY <1>4, <1>7 DEF Effect, TaskOn, IsMachine
  <2>2. t.state # "rule"
    BY <1>4, <1>7
  <2> QED
    BY <1>3, <1>5, <1>6, <2>1, <2>2 DEF TowardWall
<1>8. CASE c.do = "reset"
  <2>1. n.firewall = FALSE
    BY <1>4, <1>8 DEF Effect, TaskOn, IsMachine
  <2>2. t.state # "rule" /\ (t.state = "enabled") = FALSE
    BY <1>4, <1>8
  <2> QED
    BY <1>3, <1>5, <1>6, <2>1, <2>2 DEF TowardWall
<1>9. CASE c.do = "rule"
  <2>1. n.rules = m.rules \cup {<<t.verb, t.port>>}
    BY <1>4, <1>9 DEF Effect, TaskOn, IsMachine
  <2>2. t.state = "rule"
    BY <1>4, <1>9
  <2> DEFINE rule == <<t.verb, t.port>>
  <2>3. rule[2] = t.port /\ rule \in n.rules
    BY <2>1
  <2> HIDE DEF rule
  <2>4. \E x \in n.rules : x[2] \in Within[t.port]
    BY <1>5, <2>3
  <2> QED
    BY <1>3, <1>5, <1>6, <2>2, <2>4 DEF TowardWall
<1> QED
  BY <1>4, <1>7, <1>8, <1>9

LEMMA NamesAre ==
    ASSUME NEW t, NEW m, NEW n, n.apt = m.apt
    PROVE  NamesOf(t, n) = NamesOf(t, m)
<1>1. \A p : PackageName(p, n) = PackageName(p, m)
  BY DEF PackageName
<1> QED
  BY <1>1 DEF NamesOf

LEMMA PackagesAfter ==
    ASSUME NEW t, NEW cs, IsList(cs), cs # <<>>, NEW c, c = Head(cs), NEW m, IsMachine(m), NEW n, n = Effect(c, m),
           n.apt = m.apt, NEW lost, NEW got, TowardPackages(t, cs, lost, got, m), NEW more,
           more = IF IsOne(c) \/ c.do \in {"install", "uninstall"} THEN got \cup c.on ELSE got
    PROVE  TowardPackages(t, Tail(cs), lost, more, n)
<1> DEFINE N == NamesOf(t, m)
           rest == Tail(cs)
<1>1. ToSet(cs) = {c} \cup ToSet(rest)
  BY TailOfList
<1>2. NamesOf(t, n) = N
  BY NamesAre
<1>3. CASE t.state = "present"
  <2>1. /\ got \subseteq N \cap m.packages
        /\ \A p \in N : p \in m.packages \/ p \in lost \/ \E d \in ToSet(cs) : d.do \in Installing /\ p \in d.on
        /\ \A d \in ToSet(cs) : d.do = "repo" \/ (d.do \in Installing /\ d.on \subseteq N)
    BY <1>3, SMTT(30) DEF TowardPackages
  <2>2. n.packages = IF c.do \in Installing THEN m.packages \cup c.on ELSE m.packages
    BY <1>1, <2>1 DEF Effect, Installing, IsMachine
  <2>3. more = IF c.do \in Installing THEN got \cup c.on ELSE got
    BY <1>1, <2>1 DEF IsOne, Installing
  <2>4. c.do \in Installing => c.on \subseteq N
    BY <1>1, <2>1 DEF Installing
  <2> HIDE DEF N, rest
  <2>5. more \subseteq N \cap n.packages
    BY <2>1, <2>2, <2>3, <2>4
  <2>6. \A p \in N : p \in n.packages \/ p \in lost \/ \E d \in ToSet(rest) : d.do \in Installing /\ p \in d.on
    BY <1>1, <2>1, <2>2
  <2>7. \A d \in ToSet(rest) : d.do = "repo" \/ (d.do \in Installing /\ d.on \subseteq N)
    BY <1>1, <2>1
  <2> QED
    BY <1>2, <1>3, <2>5, <2>6, <2>7 DEF TowardPackages, N, rest
<1>4. CASE t.state # "present"
  <2>1. /\ got \subseteq N \ m.packages
        /\ \A p \in N : p \notin m.packages \/ p \in lost \/ \E d \in ToSet(cs) : d.do \in Uninstalling /\ p \in d.on
        /\ \A d \in ToSet(cs) : d.do \in Uninstalling /\ d.on \subseteq N
    BY <1>4 DEF TowardPackages
  <2>2. c.do \in Uninstalling /\ c.on \subseteq N
    BY <1>1, <2>1, SMTT(30)
  <2>3. n.packages = m.packages \ c.on
    BY <2>2 DEF Effect, Uninstalling, IsMachine
  <2>4. more = got \cup c.on
    BY <2>2 DEF IsOne, Uninstalling
  <2> HIDE DEF N, rest
  <2>5. more \subseteq N \ n.packages
    BY <2>1, <2>2, <2>3, <2>4
  <2>6. \A p \in N : p \notin n.packages \/ p \in lost \/ \E d \in ToSet(rest) : d.do \in Uninstalling /\ p \in d.on
    BY <1>1, <2>1, <2>3
  <2>7. \A d \in ToSet(rest) : d.do \in Uninstalling /\ d.on \subseteq N
    BY <1>1, <2>1
  <2> QED
    BY <1>2, <1>4, <2>5, <2>6, <2>7 DEF TowardPackages, N, rest
<1> QED
  BY <1>3, <1>4

\* A package that could not be had is lost.
LEMMA PackagesLost ==
    ASSUME NEW t, NEW cs, IsList(cs), cs # <<>>, NEW c, c = Head(cs), NEW m, NEW lost, NEW got,
           TowardPackages(t, cs, lost, got, m)
    PROVE  TowardPackages(t, Tail(cs), lost \cup c.on, got, m)
<1>1. ToSet(cs) = {c} \cup ToSet(Tail(cs))
  BY TailOfList
<1>2. CASE t.state = "present"
  BY <1>1, <1>2 DEF TowardPackages
<1>3. CASE t.state # "present"
  BY <1>1, <1>3 DEF TowardPackages
<1> QED
  BY <1>2, <1>3

\* A batch that failed is tried one by one.
LEMMA PackagesOneByOne ==
    ASSUME NEW t, NEW cs, IsList(cs), cs # <<>>, NEW c, c = Head(cs), NEW m, NEW lost, NEW got,
           TowardPackages(t, cs, lost, got, m), NEW users, IsCommand(c, users), c.do \in {"install", "uninstall"}
    PROVE  TowardPackages(t, OneByOne(c) \o Tail(cs), lost, got, m)
<1> DEFINE ones == OneByOne(c)
           rest == Tail(cs)
           new == ones \o rest
<1>1. ToSet(cs) = {c} \cup ToSet(rest) /\ IsList(rest)
  BY TailOfList
<1>2. /\ IsList(ones)
      /\ \A d \in ToSet(ones) : /\ d.do = IF c.do = "install" THEN "installOne" ELSE "uninstallOne"
                                /\ \E p \in c.on : d.on = {p}
      /\ \A p \in c.on : \E d \in ToSet(ones) : d.on = {p}
  BY OneByOneIs
<1>3. ToSet(new) = ToSet(ones) \cup ToSet(rest)
  BY <1>1, <1>2, ConcatOfLists
<1> HIDE DEF ones, rest, new
<1>4. CASE t.state = "present"
  <2>1. c.do = "install" /\ c.on \subseteq NamesOf(t, m)
    BY <1>1, <1>4 DEF TowardPackages, Installing
  <2>2. \A d \in ToSet(ones) : d.do = "installOne" /\ d.on \subseteq NamesOf(t, m)
    BY <1>2, <2>1
  <2>3. \A p \in c.on : \E d \in ToSet(ones) : d.do = "installOne" /\ p \in d.on
    BY <1>2, <2>2
  <2>4. TowardPackages(t, new, lost, got, m)
    BY <1>1, <1>3, <1>4, <2>2, <2>3 DEF TowardPackages, Installing
  <2> QED
    BY <2>4 DEF new, ones, rest
<1>5. CASE t.state # "present"
  <2>1. c.do = "uninstall" /\ c.on \subseteq NamesOf(t, m)
    BY <1>1, <1>5 DEF TowardPackages, Uninstalling
  <2>2. \A d \in ToSet(ones) : d.do = "uninstallOne" /\ d.on \subseteq NamesOf(t, m)
    BY <1>2, <2>1
  <2>3. \A p \in c.on : \E d \in ToSet(ones) : d.do = "uninstallOne" /\ p \in d.on
    BY <1>2, <2>2
  <2>4. TowardPackages(t, new, lost, got, m)
    BY <1>1, <1>3, <1>5, <2>2, <2>3 DEF TowardPackages, Uninstalling
  <2> QED
    BY <2>4 DEF new, ones, rest
<1> QED
  BY <1>4, <1>5

-----------------------------------------------------------------------------
LEMMA TowardAfter ==
    ASSUME NEW t, NEW cs, IsList(cs), cs # <<>>, NEW c, c = Head(cs), NEW m, TaskOn(t, m),
           IsCommand(c, DOMAIN m.users), Possible(c, m), NEW n, n = Effect(c, m),
           NEW lost, NEW got, Toward(t, cs, lost, got, m), NEW more,
           more = IF IsOne(c) \/ c.do \in {"install", "uninstall"} THEN got \cup c.on ELSE got
    PROVE  Toward(t, Tail(cs), lost, more, n)
<1>1. ToSet(cs) = {c} \cup ToSet(Tail(cs))
  BY TailOfList
<1>2. IsMachine(m)
  BY DEF TaskOn
<1>3. Lawful(c, m, n)
  BY <1>2, EffectIsLawful
<1>4. n.apt = m.apt /\ n.units = m.units
  BY <1>3 DEF Lawful, SameKind
<1>5. CASE t.module \in FileModules
  <2>1. GoalPaths(t) \subseteq Paths
    BY <1>5, GoalPathsAre
  <2>2. TowardFiles(t, Tail(cs), n)
    BY <1>2, <1>3, <1>5, <2>1, FilesAfter DEF Toward
  <2> QED
    BY <1>1, <1>5, <2>2 DEF Toward, FileModules, Installing, Uninstalling, IsOne
<1>6. CASE t.module = "package"
  <2>1. TowardPackages(t, Tail(cs), lost, more, n)
    BY <1>2, <1>4, <1>6, PackagesAfter DEF Toward
  <2> QED
    BY <1>6, <2>1 DEF Toward, FileModules
<1>7. CASE t.module = "service"
  <2>1. TowardUnit(t, Tail(cs), n)
    BY <1>2, <1>4, <1>7, UnitAfter DEF Toward
  <2> QED
    BY <1>1, <1>7, <2>1 DEF Toward, FileModules, Installing, Uninstalling, IsOne
<1>8. CASE t.module = "user"
  <2>1. TowardUser(t, Tail(cs), n)
    BY <1>4, <1>8, UserAfter DEF Toward
  <2> QED
    BY <1>1, <1>8, <2>1 DEF Toward, FileModules, Installing, Uninstalling, IsOne
<1>9. CASE t.module = "ufw"
  <2>1. TowardWall(t, Tail(cs), n)
    BY <1>4, <1>9, WallAfter DEF Toward
  <2> QED
    BY <1>1, <1>9, <2>1 DEF Toward, FileModules, Installing, Uninstalling, IsOne
<1> QED
  BY <1>5, <1>6, <1>7, <1>8, <1>9 DEF Toward

LEMMA TowardWithout ==
    ASSUME NEW t, NEW cs, IsList(cs), cs # <<>>, NEW c, c = Head(cs), NEW m,
           NEW lost, NEW got, Toward(t, cs, lost, got, m)
    PROVE  /\ IsOne(c) => Toward(t, Tail(cs), lost \cup c.on, got, m)
           /\ \A users : IsCommand(c, users) /\ c.do \in {"install", "uninstall"} =>
                  Toward(t, OneByOne(c) \o Tail(cs), lost, got, m)
<1>1. ToSet(cs) = {c} \cup ToSet(Tail(cs))
  BY TailOfList
<1>2. IsOne(c) \/ c.do \in {"install", "uninstall"} => t.module = "package"
  BY <1>1 DEF Toward, IsOne, Installing, Uninstalling
<1>3. ASSUME IsOne(c) PROVE Toward(t, Tail(cs), lost \cup c.on, got, m)
  BY <1>2, <1>3, PackagesLost DEF Toward, FileModules
<1>4. ASSUME NEW users, IsCommand(c, users), c.do \in {"install", "uninstall"}
      PROVE  Toward(t, OneByOne(c) \o Tail(cs), lost, got, m)
  BY <1>2, <1>4, PackagesOneByOne DEF Toward, FileModules
<1> QED
  BY <1>3, <1>4

\* What was got on the way matters no more.
LEMMA GotIsForgotten ==
    ASSUME NEW t, NEW cs, NEW m, NEW lost, NEW got, Toward(t, cs, lost, got, m)
    PROVE  Toward(t, cs, lost, {}, m)
<1>1. TowardPackages(t, cs, lost, got, m) => TowardPackages(t, cs, lost, {}, m)
  BY DEF TowardPackages
<1> QED
  BY <1>1 DEF Toward

-----------------------------------------------------------------------------
(* What a module plans leads to what its task asks for.                    *)

LEMMA IsAmong ==
    ASSUME NEW a, NEW b, IsList(a), IsList(b), NEW c
    PROVE  c \in ToSet(<<c>>) /\ c \in ToSet(a \o <<c>>) /\ c \in ToSet(<<c>> \o b) /\ c \in ToSet(a \o <<c>> \o b)
<1>1. IsList(<<c>>) /\ ToSet(<<c>>) = {c}
  BY ListsAre
<1>2. IsList(a \o <<c>>) /\ ToSet(a \o <<c>>) = ToSet(a) \cup ToSet(<<c>>)
  BY <1>1, ConcatOfLists
<1>3. ToSet(<<c>> \o b) = ToSet(<<c>>) \cup ToSet(b)
  BY <1>1, ConcatOfLists
<1>4. ToSet((a \o <<c>>) \o b) = ToSet(a \o <<c>>) \cup ToSet(b)
  BY <1>2, ConcatOfLists
<1> QED
  BY <1>1, <1>2, <1>3, <1>4

LEMMA FilePartsAreLists ==
    ASSUME NEW t, NEW m
    PROVE  IsList(BackupOnce(t, m)) /\ IsList(Chmod(t)) /\ IsList(<<>>)
<1>1. IsList(<<>>) /\ \A a : IsList(<<a>>)
  BY ListsAre
<1> QED
  BY <1>1 DEF BackupOnce, Chmod

LEMMA CommandChanges ==
    ASSUME NEW p, NEW v
    PROVE  /\ Changes(Command("write", p, v), p) /\ Changes(Unchecked("write", p, v), p)
           /\ Changes(Command("remove", p, v), p) /\ Changes(Command("certbot", p, v), p)
           /\ Changes(Command("run", p, v), p)
BY DEF Changes, Contents, Command, Unchecked

\* A plan to send a list sends it, when the run is not dry.
LEMMA SendsAll ==
    ASSUME NEW cs
    PROVE  LET plan == Sends(cs, FALSE) IN plan.commands = cs /\ plan.changed /\ ~plan.refused
BY DEF Sends

LEMMA CopyToward ==
    ASSUME NEW t, NEW m, NEW plan,
           \/ t.module = "copy" /\ plan = PlanCopy(t, m, FALSE)
           \/ t.module = "template" /\ plan = PlanTemplate(t, m, FALSE)
    PROVE  FileGoal(t, m.files[t.path]) \/ \E c \in ToSet(plan.commands) : Changes(c, t.path)
<1> DEFINE c == Command("write", t.path, t.text)
           keep == IF t.backup /\ m.files[t.path] # None THEN <<Unchecked("backup", t.path, None)>> ELSE <<>>
<1>1. Changes(c, t.path)
  BY CommandChanges
<1>2. CASE m.files[t.path] = t.text
  BY <1>2 DEF FileGoal
<1>3. CASE m.files[t.path] # t.text
  <2>1. IsList(keep)
    BY ListsAre
  <2>2. c \in ToSet(BackupOnce(t, m) \o <<c>> \o Chmod(t)) /\ c \in ToSet(keep \o <<c>> \o Chmod(t))
    BY <2>1, FilePartsAreLists, IsAmong
  <2>3. t.module = "copy" => plan.commands = BackupOnce(t, m) \o <<c>> \o Chmod(t)
    BY <1>3, SendsAll DEF PlanCopy
  <2>4. t.module = "template" => plan.commands = keep \o <<c>> \o Chmod(t)
    BY <1>3, SendsAll DEF PlanTemplate
  <2> HIDE DEF c, keep
  <2> QED
    BY <1>1, <2>2, <2>3, <2>4
<1> QED
  BY <1>2, <1>3

LEMMA UnitFileToward ==
    ASSUME NEW t, t.module = "systemd_unit", NEW m, NEW plan, plan = PlanUnit(t, m, FALSE)
    PROVE  FileGoal(t, m.files[t.path]) \/ \E c \in ToSet(plan.commands) : Changes(c, t.path)
<1>1. CASE t.state = "present"
  <2> DEFINE c == Command("write", t.path, t.text)
  <2>1. CASE m.files[t.path] = t.text
    BY <1>1, <2>1 DEF FileGoal
  <2>2. CASE m.files[t.path] # t.text
    <3>1. plan.commands = BackupOnce(t, m) \o <<c>>
      BY <1>1, <2>2, SendsAll DEF PlanUnit
    <3>2. Changes(c, t.path)
      BY CommandChanges
    <3>3. c \in ToSet(BackupOnce(t, m) \o <<c>>)
      BY FilePartsAreLists, IsAmong
    <3> HIDE DEF c
    <3> QED
      BY <3>1, <3>2, <3>3
  <2> QED
    BY <2>1, <2>2
<1>2. CASE t.state # "present"
  <2> DEFINE a == Unchecked("disable", t.unit, None)
             b == Unchecked("stop", t.unit, None)
             c == Command("remove", t.path, None)
  <2>1. CASE m.files[t.path] = None
    BY <1>2, <2>1 DEF FileGoal
  <2>2. CASE m.files[t.path] # None
    <3>1. plan.commands = <<a, b, c>>
      BY <1>2, <2>2, SendsAll DEF PlanUnit
    <3>2. Changes(c, t.path)
      BY CommandChanges
    <3> HIDE DEF a, b, c
    <3>3. c \in ToSet(<<a, b, c>>)
      BY ListsAre
    <3> QED
      BY <3>1, <3>2, <3>3
  <2> QED
    BY <2>1, <2>2
<1> QED
  BY <1>1, <1>2

LEMMA SysctlToward ==
    ASSUME NEW t, t.module = "sysctl", NEW m, NEW plan, plan = PlanSysctl(t, m, FALSE), NEW p \in GoalPaths(t)
    PROVE  FileGoal(t, m.files[p]) \/ \E c \in ToSet(plan.commands) : Changes(c, p)
<1>1. CASE t.state = "present"
  <2> DEFINE a == Command("write", t.path, t.text)
             b == Unchecked("write", t.live, t.text)
  <2>1. p \in {t.path, t.live}
    BY <1>1 DEF GoalPaths
  <2>2. CASE m.files[t.path] = t.text /\ m.files[t.live] = t.text
    BY <1>1, <2>1, <2>2 DEF FileGoal
  <2>3. CASE ~(m.files[t.path] = t.text /\ m.files[t.live] = t.text)
    <3>1. plan.commands = <<a, b>>
      BY <1>1, <2>3, SendsAll DEF PlanSysctl
    <3>2. Changes(a, t.path) /\ Changes(b, t.live)
      BY CommandChanges
    <3> HIDE DEF a, b
    <3>3. a \in ToSet(<<a, b>>) /\ b \in ToSet(<<a, b>>)
      BY ListsAre
    <3> QED
      BY <2>1, <3>1, <3>2, <3>3
  <2> QED
    BY <2>2, <2>3
<1>2. CASE t.state # "present"
  <2> DEFINE c == Command("remove", t.path, None)
  <2>1. p = t.path
    BY <1>2 DEF GoalPaths
  <2>2. CASE m.files[t.path] = None
    BY <1>2, <2>1, <2>2 DEF FileGoal
  <2>3. CASE m.files[t.path] # None
    <3>1. plan.commands = <<c>>
      BY <1>2, <2>3, SendsAll DEF PlanSysctl
    <3>2. Changes(c, t.path)
      BY CommandChanges
    <3> HIDE DEF c
    <3>3. c \in ToSet(<<c>>)
      BY ListsAre
    <3> QED
      BY <2>1, <3>1, <3>2, <3>3
  <2> QED
    BY <2>2, <2>3
<1> QED
  BY <1>1, <1>2

LEMMA OneWriteToward ==
    ASSUME NEW t, NEW m, TaskOn(t, m), NEW plan, ~plan.refused,
           \/ t.module = "acme" /\ plan = PlanAcme(t, m, FALSE)
           \/ t.module = "cron" /\ plan = PlanCron(t, m, FALSE)
           \/ t.module = "shell" /\ plan = PlanShell(t, m, FALSE)
    PROVE  FileGoal(t, m.files[t.path]) \/ \E c \in ToSet(plan.commands) : Changes(c, t.path)
<1>1. CASE t.module = "acme" /\ plan = PlanAcme(t, m, FALSE)
  <2> DEFINE c == Command("certbot", t.path, t.text)
  <2>1. CASE m.files[t.path] # None
    BY <1>1, <2>1 DEF FileGoal
  <2>2. CASE m.files[t.path] = None
    <3>1. plan = Refused \/ plan = Sends(<<c>>, FALSE)
      BY <1>1, <2>2 DEF PlanAcme
    <3>2. Refused.refused
      BY DEF Refused
    <3>3. plan.commands = <<c>>
      BY <3>1, <3>2, SendsAll
    <3>4. Changes(c, t.path)
      BY CommandChanges
    <3> HIDE DEF c
    <3> QED
      BY <3>3, <3>4, ListsAre
  <2> QED
    BY <2>1, <2>2
<1>2. CASE t.module = "cron" /\ plan = PlanCron(t, m, FALSE)
  <2> DEFINE old == LinesOf(m.files[t.path])
             new == CrontabWith(t, old)
             c == Command("write", t.path, new)
  <2>1. plan = IF new = old THEN Same ELSE Sends(<<c>>, FALSE)
    BY <1>2 DEF PlanCron, LinesOf
  <2>2. CASE new = old
    BY <1>2, <2>2 DEF FileGoal
  <2>3. CASE new # old
    <3>1. plan.commands = <<c>>
      BY <2>1, <2>3, SendsAll
    <3>2. Changes(c, t.path)
      BY CommandChanges
    <3> HIDE DEF c
    <3> QED
      BY <3>1, <3>2, ListsAre
  <2> QED
    BY <2>2, <2>3
<1>3. CASE t.module = "shell" /\ plan = PlanShell(t, m, FALSE)
  <2> DEFINE c == Command("run", t.path, t.text)
  <2>1. CASE t.unless # None /\ m.files[t.unless] # None
    BY <1>3, <2>1 DEF FileGoal
  <2>2. CASE ~(t.unless # None /\ m.files[t.unless] # None)
    <3>1. plan.commands = <<c>>
      BY <1>3, <2>2, SendsAll DEF PlanShell
    <3>2. Changes(c, t.path)
      BY CommandChanges
    <3> HIDE DEF c
    <3> QED
      BY <3>1, <3>2, ListsAre
  <2> QED
    BY <2>1, <2>2
<1> QED
  BY <1>1, <1>2, <1>3

LEMMA FileToward ==
    ASSUME NEW t, t.module = "file", NEW m, TaskOn(t, m), NEW plan, plan = PlanFile(t, m, FALSE), ~plan.refused
    PROVE  FileGoal(t, m.files[t.path]) \/ \E c \in ToSet(plan.commands) : Changes(c, t.path)
<1> DEFINE here == m.files[t.path]
           there == (t.state = "file" /\ here # None) \/ (t.state = "directory" /\ here = t.text)
           v == IF here = None THEN t.text ELSE here
           c == Command("write", t.path, v)
           d == Command("remove", t.path, None)
<1>1. t.state \in {"directory", "file", "absent", "touch"} /\ t.text \in Seq(Lines)
  BY DEF TaskOn, IsTask
<1>2. t.text # None
  BY <1>1, NoneIsNoList
<1>3. Changes(c, t.path) /\ Changes(d, t.path)
  BY CommandChanges
<1>4. CASE t.state = "absent"
  <2>1. CASE here = None
    BY <1>4, <2>1 DEF FileGoal
  <2>2. CASE here # None
    <3>1. plan = Sends(<<d>>, FALSE)
      BY <1>4, <2>2 DEF PlanFile
    <3>2. plan.commands = <<d>>
      BY <3>1, SendsAll
    <3> HIDE DEF d
    <3>3. d \in ToSet(<<d>>)
      BY ListsAre
    <3> QED
      BY <1>3, <3>2, <3>3
  <2> QED
    BY <2>1, <2>2
<1>5. CASE t.state # "absent" /\ there
  BY <1>1, <1>2, <1>5 DEF FileGoal
<1>6. CASE t.state = "directory" /\ here \notin {None, t.text}
  <2>1. plan = Refused
    BY <1>6 DEF PlanFile
  <2>2. Refused.refused
    BY DEF Refused
  <2> QED
    BY <2>1, <2>2
<1>7. CASE t.state # "absent" /\ ~there /\ ~(t.state = "directory" /\ here \notin {None, t.text})
  <2>1. plan = Sends(<<c>> \o Chmod(t), FALSE)
    BY <1>7 DEF PlanFile
  <2>2. c \in ToSet(<<c>> \o Chmod(t))
    BY FilePartsAreLists, IsAmong
  <2> HIDE DEF c
  <2> QED
    BY <1>3, <2>1, <2>2, SendsAll
<1> QED
  BY <1>4, <1>5, <1>6, <1>7

LEMMA LineToward ==
    ASSUME NEW t, t.module = "lineinfile", NEW m, TaskOn(t, m), NEW plan, plan = PlanLine(t, m, FALSE), ~plan.refused
    PROVE  FileGoal(t, m.files[t.path]) \/ \E c \in ToSet(plan.commands) : Changes(c, t.path)
<1> DEFINE here == m.files[t.path]
           old == LinesOf(here)
           new == LineEdited(t, old)
           c == Command("write", t.path, new)
<1>1. t.state \in {"present", "absent"} /\ t.line \in Lines /\ t.path \in Paths
  BY DEF TaskOn, IsTask
<1>2. here \in FileContents
  BY <1>1 DEF TaskOn, IsMachine
<1>3. old \in Seq(Lines) /\ (here # None => old = here)
  BY <1>2, LinesAre
<1>4. CASE here = None /\ t.state = "present" /\ ~t.create
  <2>1. plan = Refused
    BY <1>4 DEF PlanLine
  <2>2. Refused.refused
    BY DEF Refused
  <2> QED
    BY <2>1, <2>2
<1>5. CASE here = None /\ t.state = "absent"
  BY <1>5 DEF FileGoal
<1>6. CASE ~(here = None /\ t.state = "present" /\ ~t.create) /\ ~(here = None /\ t.state = "absent")
  <2>1. plan = IF new = old THEN Same ELSE Sends(BackupOnce(t, m) \o <<c>>, FALSE)
    BY <1>6 DEF PlanLine, LinesOf
  <2>2. CASE new # old
    <3>1. plan.commands = BackupOnce(t, m) \o <<c>>
      BY <2>1, <2>2, SendsAll
    <3>2. Changes(c, t.path)
      BY CommandChanges
    <3>3. c \in ToSet(BackupOnce(t, m) \o <<c>>)
      BY FilePartsAreLists, IsAmong
    <3> HIDE DEF c
    <3> QED
      BY <3>1, <3>2, <3>3
  <2>3. CASE new = old /\ t.state = "present"
    <3> HIDE DEF old
    <3>1. Contains(old, t.line)
      BY <1>1, <1>3, <2>3, LineEntry
    <3>2. old # <<>>
      <4>1. \E i \in 1..Len(old) : old[i] = t.line
        BY <1>3, <3>1, ContainsIs
      <4> QED
        BY <4>1
    <3>3. here # None /\ old = here
      BY <1>3, <3>2 DEF LinesOf, old
    <3> QED
      BY <2>3, <3>1, <3>3 DEF FileGoal
  <2>4. CASE new = old /\ t.state = "absent"
    <3>1. here # None /\ old = here
      BY <1>3, <1>6, <2>4
    <3> QED
      BY <2>4, <3>1 DEF FileGoal
  <2> QED
    BY <1>1, <2>2, <2>3, <2>4
<1> QED
  BY <1>4, <1>5, <1>6

LEMMA EnvPathToward ==
    ASSUME NEW t, t.module = "env_path", NEW m, TaskOn(t, m), NEW plan, plan = PlanEnvPath(t, m, FALSE),
           NEW p \in t.paths
    PROVE  FileGoal(t, m.files[p]) \/ \E c \in ToSet(plan.commands) : Changes(c, p)
<1> DEFINE new(q) == BlockUpserted(t, LinesOf(m.files[q]))
           written == {q \in t.paths : new(q) # m.files[q]}
           writes == {Command("write", q, new(q)) : q \in written}
<1>1. t.paths \subseteq Paths /\ IsFiniteSet(t.paths) /\ t.line \in Lines /\ t.marker \in Lines
  BY DEF TaskOn, IsTask
<1>2. m.files[p] \in FileContents
  BY <1>1 DEF TaskOn, IsMachine
<1>3. plan = IF written = {} THEN Same ELSE Sends(SetToSeq(writes), FALSE)
  BY DEF PlanEnvPath, LinesOf
<1>4. CASE p \in written
  <2>1. plan.commands = SetToSeq(writes)
    BY <1>3, <1>4, SendsAll
  <2>2. IsFiniteSet(writes)
    <3>1. IsFiniteSet(written)
      BY <1>1, FS_Subset
    <3> DEFINE f == [q \in written |-> Command("write", q, new(q))]
               T == writes
    <3>2. f \in [written -> T] /\ writes = {f[q] : q \in written}
      OBVIOUS
    <3> HIDE DEF f, writes, written, T
    <3> QED
      BY <3>1, <3>2, FiniteImage
  <2>3. ToSet(SetToSeq(writes)) = writes
    BY <2>2, SetToList
  <2>4. Command("write", p, new(p)) \in writes
    BY <1>4
  <2>5. Changes(Command("write", p, new(p)), p)
    BY CommandChanges
  <2> HIDE DEF writes, new
  <2> QED
    BY <2>1, <2>3, <2>4, <2>5
<1>5. CASE p \notin written
  <2>1. new(p) = m.files[p]
    BY <1>5
  <2>2. LinesOf(m.files[p]) \in Seq(Lines) /\ (m.files[p] # None => LinesOf(m.files[p]) = m.files[p])
    BY <1>2, LinesAre
  <2>3. new(p) \in Seq(Lines)
    BY <1>1, <2>2, BlockType
  <2>4. m.files[p] # None
    BY <2>1, <2>3, NoneIsNoList
  <2> QED
    BY <2>1, <2>2, <2>4 DEF FileGoal
<1> QED
  BY <1>4, <1>5

LEMMA PlanTowardFiles ==
    ASSUME NEW t, t.module \in FileModules, NEW m, TaskOn(t, m), NEW plan, plan = Plan(t, m, FALSE), ~plan.refused
    PROVE  TowardFiles(t, plan.commands, m)
<1>1. IsPlan(plan, t, m, FALSE)
  BY PlanIs
<1>2. \A c \in ToSet(plan.commands) : IsCommand(c, DOMAIN m.users) /\ Serves(c, t, m)
  BY <1>1 DEF IsPlan, Sent
<1>3. \A p \in GoalPaths(t) : \A c \in ToSet(plan.commands) : Changes(c, p) => FileGoal(t, Left(c))
  BY <1>2, ServedGoal
<1>4. ASSUME NEW p \in GoalPaths(t)
      PROVE  FileGoal(t, m.files[p]) \/ \E c \in ToSet(plan.commands) : Changes(c, p)
  <2>1. /\ t.module \notin {"env_path", "sysctl"} => p = t.path
        /\ t.module = "env_path" => p \in t.paths
    BY GoalPathsAre
  <2>2. CASE t.module \in {"copy", "template"}
    <3>1. \/ t.module = "copy" /\ plan = PlanCopy(t, m, FALSE)
          \/ t.module = "template" /\ plan = PlanTemplate(t, m, FALSE)
      BY <2>2 DEF Plan
    <3> QED
      BY <2>1, <2>2, <3>1, CopyToward
  <2>3. CASE t.module = "systemd_unit"
    <3>1. plan = PlanUnit(t, m, FALSE)
      BY <2>3 DEF Plan
    <3> QED
      BY <2>1, <2>3, <3>1, UnitFileToward
  <2>4. CASE t.module = "sysctl"
    <3>1. plan = PlanSysctl(t, m, FALSE)
      BY <2>4 DEF Plan
    <3> QED
      BY <2>4, <3>1, SysctlToward
  <2>5. CASE t.module \in {"acme", "cron", "shell"}
    <3>1. \/ t.module = "acme" /\ plan = PlanAcme(t, m, FALSE)
          \/ t.module = "cron" /\ plan = PlanCron(t, m, FALSE)
          \/ t.module = "shell" /\ plan = PlanShell(t, m, FALSE)
      BY <2>5 DEF Plan
    <3> QED
      BY <2>1, <2>5, <3>1, OneWriteToward
  <2>6. CASE t.module = "file"
    <3>1. plan = PlanFile(t, m, FALSE)
      BY <2>6 DEF Plan
    <3> QED
      BY <2>1, <2>6, <3>1, FileToward
  <2>7. CASE t.module = "lineinfile"
    <3>1. plan = PlanLine(t, m, FALSE)
      BY <2>7 DEF Plan
    <3> QED
      BY <2>1, <2>7, <3>1, LineToward
  <2>8. CASE t.module = "env_path"
    <3>1. plan = PlanEnvPath(t, m, FALSE)
      BY <2>8 DEF Plan
    <3> QED
      BY <2>1, <2>8, <3>1, EnvPathToward
  <2> QED
    BY <2>2, <2>3, <2>4, <2>5, <2>6, <2>7, <2>8 DEF FileModules
<1> QED
  BY <1>3, <1>4 DEF TowardFiles

LEMMA PackagesToward ==
    ASSUME NEW t, t.module = "package", NEW m, TaskOn(t, m), NEW plan, plan = PlanPackage(t, m, FALSE)
    PROVE  TowardPackages(t, plan.commands, {}, {}, m)
<1> DEFINE need == Wanted(t, m)
           install == Command("install", need, None)
           uninstall == Command("uninstall", need, None)
           before == Preflight(need, m)
<1>1. need = IF t.state = "present" THEN NamesOf(t, m) \ m.packages ELSE NamesOf(t, m) \cap m.packages
  BY DEF Wanted, NamesOf
<1>2. IsPlan(plan, t, m, FALSE)
  BY PackageFits
<1>3. \A c \in ToSet(plan.commands) : Serves(c, t, m)
  BY <1>2 DEF IsPlan, Sent
<1>4. IsFiniteSet(need)
  BY WantedIsFinite DEF TaskOn, IsTask
<1>5. CASE need = {}
  <2>1. plan.commands = <<>>
    BY <1>5 DEF PlanPackage, Same
  <2>2. ToSet(plan.commands) = {}
    BY <2>1, ListsAre
  <2> QED
    BY <1>1, <1>5, <2>2 DEF TowardPackages
<1>6. CASE need # {} /\ t.state = "present"
  <2>1. plan = Sends(Append(before, install), FALSE)
    BY <1>6 DEF PlanPackage
  <2>2. plan.commands = Append(before, install)
    BY <2>1, SendsAll
  <2>3. IsList(before)
    BY <1>4, <1>6, PreflightFits DEF Sent
  <2>4. install.do = "install" /\ install.on = need
    BY DEF Command
  <2>5. \A c \in ToSet(plan.commands) : c.do = "repo" \/ (c.do = "install" /\ c.on = need)
    BY <1>3, <1>6 DEF Serves
  <2> HIDE DEF before, install, need
  <2>6. install \in ToSet(Append(before, install))
    <3> DEFINE S == ToSet(before) \cup {install}
    <3>1. before \in Seq(S) /\ install \in S
      <4>1. before \in Seq(ToSet(before))
        BY <2>3 DEF IsList
      <4> QED
        BY <4>1, SeqMonotonic
    <3>2. Append(before, install) = before \o <<install>>
      BY <3>1, AppendIsConcat
    <3> QED
      BY <2>3, <3>2, IsAmong
  <2>7. \A p \in need : \E c \in ToSet(plan.commands) : c.do \in Installing /\ p \in c.on
    BY <2>2, <2>4, <2>6 DEF Installing
  <2> QED
    BY <1>1, <1>6, <2>5, <2>7 DEF TowardPackages, Installing
<1>7. CASE need # {} /\ t.state # "present"
  <2>1. plan = Sends(<<uninstall>>, FALSE)
    BY <1>7 DEF PlanPackage
  <2>2. plan.commands = <<uninstall>>
    BY <2>1, SendsAll
  <2>3. uninstall.do = "uninstall" /\ uninstall.on = need
    BY DEF Command
  <2> HIDE DEF uninstall, need
  <2>4. ToSet(plan.commands) = {uninstall}
    BY <2>2, ListsAre
  <2> QED
    BY <1>1, <1>7, <2>3, <2>4 DEF TowardPackages, Uninstalling
<1> QED
  BY <1>5, <1>6, <1>7

LEMMA UnitToward ==
    ASSUME NEW t, t.module = "service", NEW m, IsMachine(m), NEW plan, plan = PlanService(t, m, FALSE), ~plan.refused
    PROVE  TowardUnit(t, plan.commands, m)
<1> DEFINE unit == UnitOf(t, m)
           stateActions ==
               CASE t.state = "started" /\ unit \notin m.active -> <<Command("start", unit, None)>>
                 [] t.state = "stopped" /\ unit \in m.active -> <<Command("stop", unit, None)>>
                 [] t.state = "restarted" -> <<Command("restart", unit, None)>>
                 [] t.state = "reloaded" -> <<Command("reload", unit, None)>>
                 [] OTHER -> <<>>
           bootActions ==
               CASE t.boot = "on" /\ unit \notin m.enabled -> <<Command("enable", unit, None)>>
                 [] t.boot = "off" /\ unit \in m.enabled -> <<Command("disable", unit, None)>>
                 [] OTHER -> <<>>
           actions == stateActions \o bootActions
<1>1. plan = CASE unit = None -> Same
               [] unit # None /\ unit \notin m.units -> IF t.lenient THEN Same ELSE Refused
               [] OTHER -> IF actions = <<>> THEN Same ELSE Sends(actions, FALSE)
  BY DEF PlanService, UnitOf
<1>2. IsPlan(plan, t, m, FALSE)
  BY ServiceFits
<1>3. \A c \in ToSet(plan.commands) : Serves(c, t, m)
  BY <1>2 DEF IsPlan, Sent
<1>4. /\ t.state = "started" /\ unit \notin m.active => stateActions = <<Command("start", unit, None)>>
      /\ t.state = "stopped" /\ unit \in m.active => stateActions = <<Command("stop", unit, None)>>
      /\ t.state = "restarted" => stateActions = <<Command("restart", unit, None)>>
  BY Zenon
<1>5. /\ t.boot = "on" /\ unit \notin m.enabled => bootActions = <<Command("enable", unit, None)>>
      /\ t.boot = "off" /\ unit \in m.enabled => bootActions = <<Command("disable", unit, None)>>
  BY Zenon
<1>6. IsList(stateActions) /\ IsList(bootActions)
  <2>1. IsList(<<>>) /\ \A a : IsList(<<a>>)
    BY ListsAre
  <2>2. stateActions \in {<<>>, <<Command("start", unit, None)>>, <<Command("stop", unit, None)>>,
                          <<Command("restart", unit, None)>>, <<Command("reload", unit, None)>>}
    BY Zenon
  <2>3. bootActions \in {<<>>, <<Command("enable", unit, None)>>, <<Command("disable", unit, None)>>}
    BY Zenon
  <2> HIDE DEF stateActions, bootActions
  <2> QED
    BY <2>1, <2>2, <2>3
<1> HIDE DEF stateActions, bootActions
<1>7. ToSet(actions) = ToSet(stateActions) \cup ToSet(bootActions)
  BY <1>6, ConcatOfLists
<1>8. None \notin m.units
  BY DEF IsMachine
<1> HIDE DEF unit, actions
<1>9. unit \in m.units => plan.commands = actions
  <2>1. ASSUME unit \in m.units PROVE plan = IF actions = <<>> THEN Same ELSE Sends(actions, FALSE)
    BY <1>1, <1>8, <2>1
  <2>2. Same.commands = <<>>
    BY DEF Same
  <2> QED
    BY <2>1, <2>2, SendsAll
<1>10. unit \notin m.units => unit = None \/ t.lenient
  <2>1. Refused.refused
    BY DEF Refused
  <2>2. ASSUME unit \notin m.units, unit # None, ~t.lenient PROVE plan = Refused
    BY <1>1, <2>2
  <2> QED
    BY <2>1, <2>2
<1>11. \A a : ToSet(<<a>>) = {a}
  BY ListsAre
<1>12. ASSUME unit \in m.units
       PROVE  /\ t.state \in {"started", "restarted"} =>
                     unit \in m.active \/ \E c \in ToSet(plan.commands) : c.do \in {"start", "restart"}
              /\ t.state = "stopped" => unit \notin m.active \/ \E c \in ToSet(plan.commands) : c.do = "stop"
  <2>1. t.state = "started" /\ unit \notin m.active =>
            \E c \in ToSet(plan.commands) : c.do \in {"start", "restart"}
    <3> DEFINE c == Command("start", unit, None)
    <3>1. c.do = "start"
      BY DEF Command
    <3> HIDE DEF c
    <3> QED
      BY <1>4, <1>7, <1>9, <1>11, <1>12, <3>1 DEF c
  <2>2. t.state = "restarted" => \E c \in ToSet(plan.commands) : c.do \in {"start", "restart"}
    <3> DEFINE c == Command("restart", unit, None)
    <3>1. c.do = "restart"
      BY DEF Command
    <3> HIDE DEF c
    <3> QED
      BY <1>4, <1>7, <1>9, <1>11, <1>12, <3>1 DEF c
  <2>3. t.state = "stopped" /\ unit \in m.active => \E c \in ToSet(plan.commands) : c.do = "stop"
    <3> DEFINE c == Command("stop", unit, None)
    <3>1. c.do = "stop"
      BY DEF Command
    <3> HIDE DEF c
    <3> QED
      BY <1>4, <1>7, <1>9, <1>11, <1>12, <3>1 DEF c
  <2> QED
    BY <2>1, <2>2, <2>3
<1>13. ASSUME unit \in m.units
       PROVE  /\ t.boot = "on" => unit \in m.enabled \/ \E c \in ToSet(plan.commands) : c.do = "enable"
              /\ t.boot = "off" => unit \notin m.enabled \/ \E c \in ToSet(plan.commands) : c.do = "disable"
  <2>1. t.boot = "on" /\ unit \notin m.enabled => \E c \in ToSet(plan.commands) : c.do = "enable"
    <3> DEFINE c == Command("enable", unit, None)
    <3>1. c.do = "enable"
      BY DEF Command
    <3> HIDE DEF c
    <3> QED
      BY <1>5, <1>7, <1>9, <1>11, <1>13, <3>1 DEF c
  <2>2. t.boot = "off" /\ unit \in m.enabled => \E c \in ToSet(plan.commands) : c.do = "disable"
    <3> DEFINE c == Command("disable", unit, None)
    <3>1. c.do = "disable"
      BY DEF Command
    <3> HIDE DEF c
    <3> QED
      BY <1>5, <1>7, <1>9, <1>11, <1>13, <3>1 DEF c
  <2> QED
    BY <2>1, <2>2
<1> QED
  BY <1>3, <1>10, <1>12, <1>13 DEF TowardUnit, unit

LEMMA SendsOne == ASSUME NEW a PROVE Sends(<<a>>, FALSE).commands # <<>>
BY DEF Sends

\* A plan that sends something sends a command.
LEMMA UserToward ==
    ASSUME NEW t, t.module = "user", NEW m, TaskOn(t, m), NEW plan, plan = PlanUser(t, m, FALSE)
    PROVE  TowardUser(t, plan.commands, m)
<1>1. IsPlan(plan, t, m, FALSE)
  BY UserFits
<1>2. \A c \in ToSet(plan.commands) : Serves(c, t, m)
  BY <1>1 DEF IsPlan, Sent
<1>3. t.state \in {"present", "absent"}
  BY DEF TaskOn, IsTask
<1> DEFINE users == m.users
<1>5. CASE t.state = "absent" /\ users[t.name] # None
  <2>1. plan = Sends(<<Command("userdel", t.name, None)>>, FALSE)
    BY <1>5 DEF PlanUser
  <2>2. plan.commands # <<>>
    BY <2>1, SendsOne
  <2> QED
    BY <1>2, <2>2 DEF TowardUser
<1>6. CASE t.state = "present" /\ users[t.name] = None
  <2>1. plan = Sends(<<Command("useradd", t.name, t.groups)>>, FALSE)
    BY <1>6 DEF PlanUser
  <2>2. plan.commands # <<>>
    BY <2>1, SendsOne
  <2> QED
    BY <1>2, <2>2 DEF TowardUser
<1>7. CASE t.state = "present" /\ users[t.name] # None /\ t.groups # {}
  <2>1. plan = Sends(<<Command("usermod", t.name, t.groups)>>, FALSE)
    BY <1>7 DEF PlanUser
  <2>2. plan.commands # <<>>
    BY <2>1, SendsOne
  <2> QED
    BY <1>2, <2>2 DEF TowardUser
<1>8. CASE t.state = "absent" /\ users[t.name] = None
  BY <1>2, <1>8 DEF TowardUser
<1>9. CASE t.state = "present" /\ users[t.name] # None /\ t.groups = {}
  BY <1>2, <1>9 DEF TowardUser
<1> QED
  BY <1>3, <1>5, <1>6, <1>7, <1>8, <1>9

LEMMA WallToward ==
    ASSUME NEW t, t.module = "ufw", NEW m, TaskOn(t, m), NEW plan, plan = PlanUfw(t, m, FALSE), ~plan.refused
    PROVE  TowardWall(t, plan.commands, m)
<1>1. IsPlan(plan, t, m, FALSE)
  BY UfwFits
<1>2. \A c \in ToSet(plan.commands) : Serves(c, t, m)
  BY <1>1 DEF IsPlan, Sent
<1>3. t.state \in {"enabled", "disabled", "reset", "rule"}
  BY DEF TaskOn, IsTask
<1>5. "ufw" \in m.packages
  <2>1. Refused.refused
    BY DEF Refused
  <2>2. "ufw" \notin m.packages => plan = Refused
    BY DEF PlanUfw
  <2> QED
    BY <2>1, <2>2
<1>6. CASE t.state \in {"enabled", "disabled"} /\ m.firewall = (t.state = "enabled")
  BY <1>2, <1>5, <1>6 DEF TowardWall
<1>7. CASE t.state \in {"enabled", "disabled"} /\ m.firewall # (t.state = "enabled")
  <2>1. plan = Sends(<<Command("ufw", "ufw", t.state)>>, FALSE)
    BY <1>5, <1>7 DEF PlanUfw
  <2>2. plan.commands # <<>>
    BY <2>1, SendsOne
  <2> QED
    BY <1>2, <1>5, <2>2 DEF TowardWall
<1>8. CASE t.state = "reset"
  <2>1. plan = Sends(<<Command("reset", "ufw", None)>>, FALSE)
    BY <1>5, <1>8 DEF PlanUfw
  <2>2. plan.commands # <<>>
    BY <2>1, SendsOne
  <2> QED
    BY <1>2, <1>5, <2>2 DEF TowardWall
<1>9. CASE t.state = "rule" /\ RuleListed(t, m)
  BY <1>2, <1>5, <1>9 DEF TowardWall, RuleListed
<1>10. CASE t.state = "rule" /\ ~RuleListed(t, m)
  <2>1. plan = Sends(<<Command("rule", "ufw", <<t.verb, t.port>>)>>, FALSE)
    BY <1>5, <1>10 DEF PlanUfw
  <2>2. plan.commands # <<>>
    BY <2>1, SendsOne
  <2> QED
    BY <1>2, <1>5, <2>2 DEF TowardWall
<1> QED
  BY <1>3, <1>6, <1>7, <1>8, <1>9, <1>10

LEMMA PlanToward ==
    ASSUME NEW t, NEW m, TaskOn(t, m), NEW plan, plan = Plan(t, m, FALSE), ~plan.refused
    PROVE  Toward(t, plan.commands, {}, {}, m)
<1>1. IsMachine(m)
  BY DEF TaskOn
<1>2. IsPlan(plan, t, m, FALSE)
  BY PlanIs
<1>3. \A c \in ToSet(plan.commands) : Serves(c, t, m)
  BY <1>2 DEF IsPlan, Sent
<1>4. CASE t.module \in FileModules
  <2>1. TowardFiles(t, plan.commands, m)
    BY <1>4, PlanTowardFiles
  <2>2. \A c \in ToSet(plan.commands) : c.do \notin Installing \cup Uninstalling
    BY <1>3, <1>4 DEF Serves, FileModules, Installing, Uninstalling
  <2> QED
    BY <1>4, <2>1, <2>2 DEF Toward, FileModules
<1>5. CASE t.module = "package"
  <2>1. plan = PlanPackage(t, m, FALSE)
    BY <1>5 DEF Plan
  <2> QED
    BY <1>5, <2>1, PackagesToward DEF Toward, FileModules
<1>6. CASE t.module = "service"
  <2>1. plan = PlanService(t, m, FALSE)
    BY <1>6 DEF Plan
  <2>2. \A c \in ToSet(plan.commands) : c.do \notin Installing \cup Uninstalling
    BY <1>3, <1>6, UnitServes DEF Installing, Uninstalling
  <2> QED
    BY <1>1, <1>6, <2>1, <2>2, UnitToward DEF Toward, FileModules
<1>7. CASE t.module = "user"
  <2>1. plan = PlanUser(t, m, FALSE)
    BY <1>7 DEF Plan
  <2>2. \A c \in ToSet(plan.commands) : c.do \notin Installing \cup Uninstalling
    BY <1>3, <1>7 DEF Serves, Installing, Uninstalling
  <2> QED
    BY <1>7, <2>1, <2>2, UserToward DEF Toward, FileModules
<1>8. CASE t.module = "ufw"
  <2>1. plan = PlanUfw(t, m, FALSE)
    BY <1>8 DEF Plan
  <2>2. \A c \in ToSet(plan.commands) : c.do \notin Installing \cup Uninstalling
    BY <1>3, <1>8 DEF Serves, Installing, Uninstalling
  <2> QED
    BY <1>8, <2>1, <2>2, WallToward DEF Toward, FileModules
<1>9. CASE t.module \notin FileModules \cup {"package", "service", "user", "ufw"}
  <2>1. plan = Refused
    BY <1>9 DEF Plan, FileModules
  <2>2. Refused.refused
    BY DEF Refused
  <2> QED
    BY <2>1, <2>2
<1> QED
  BY <1>4, <1>5, <1>6, <1>7, <1>8, <1>9

-----------------------------------------------------------------------------
(* A task whose commands are through.                                      *)

\* All of what the task asks for is so.
Reached(t, m) == Toward(t, <<>>, {}, {}, m)

LEMMA NothingInside == ToSet(<<>>) = {}
BY ListsAre

LEMMA FilesInPlace ==
    ASSUME NEW t, t.module \in FileModules, NEW m, TaskOn(t, m), TowardFiles(t, <<>>, m)
    PROVE  IsInPlace(t, m)
<1>1. \A p \in GoalPaths(t) : FileGoal(t, m.files[p])
  BY NothingInside DEF TowardFiles
<1>2. /\ t.module \notin {"env_path", "sysctl"} => GoalPaths(t) = {t.path}
      /\ t.module = "env_path" => GoalPaths(t) = t.paths
      /\ GoalPaths(t) \subseteq Paths /\ \A p \in Paths : m.files[p] \in Seq(Lines) \cup {None}
  BY GoalPathsAre
<1> DEFINE v == m.files[t.path]
<1>3. t.module # "env_path" => FileGoal(t, v)
  BY <1>1, <1>2 DEF GoalPaths
<1>4. CASE t.module \in {"copy", "template"}
  BY <1>3, <1>4 DEF FileGoal, IsInPlace
<1>5. CASE t.module \in {"systemd_unit", "sysctl"}
  BY <1>3, <1>5 DEF FileGoal, IsInPlace
<1>6. CASE t.module = "acme"
  BY <1>3, <1>6 DEF FileGoal, IsInPlace
<1>7. CASE t.module = "file"
  <2>1. IF t.state = "absent" THEN v = None ELSE v # None
    BY <1>3, <1>7 DEF FileGoal
  <2>2. (v = None) = (t.state = "absent")
    BY <2>1
  <2> QED
    BY <1>7, <2>2 DEF IsInPlace
<1>8. CASE t.module = "lineinfile"
  <2>1. t.state \in {"present", "absent"} /\ t.line \in Lines
    BY <1>8 DEF TaskOn, IsTask
  <2>2. CASE t.state = "present"
    <3>1. Contains(v, t.line)
      BY <1>3, <1>8, <2>2 DEF FileGoal
    <3> QED
      BY <1>8, <2>2, <3>1 DEF IsInPlace
  <2>3. CASE t.state = "absent"
    <3>1. v = None \/ LineEdited(t, v) = v
      BY <1>3, <1>8, <2>3 DEF FileGoal
    <3>2. v \in Seq(Lines) \cup {None}
      BY <1>2, <1>8
    <3> HIDE DEF v
    <3>3. v = None \/ ToSet(v) \cap (IF t.match = None THEN {t.line} ELSE t.match) = {}
      BY <2>1, <2>3, <3>1, <3>2, LineEntry
    <3> QED
      BY <1>8, <2>3, <3>3 DEF IsInPlace, v
  <2> QED
    BY <2>1, <2>2, <2>3
<1>9. CASE t.module = "cron"
  <2> DEFINE w == LinesOf(v)
  <2>1. t.state \in {"present", "absent"} /\ t.line \in Lines /\ t.marker \in Lines
    BY <1>9 DEF TaskOn, IsTask
  <2>2. CrontabWith(t, w) = w
    BY <1>3, <1>9 DEF FileGoal
  <2>3. v \in Seq(Lines) \cup {None}
    BY <1>2, <1>9
  <2>4. w \in Seq(Lines) /\ (v # None => w = v) /\ (v = None => w = <<>>)
    BY <2>3, LinesAre DEF LinesOf, FileContents
  <2> HIDE DEF v, w
  <2>5. /\ t.state = "present" => Follows(w, t.marker) = {t.line}
        /\ t.state # "present" => ~Contains(w, t.marker)
    BY <2>1, <2>2, <2>4, CrontabEntry
  <2>6. CASE t.state = "present"
    <3>1. w # <<>>
      <4>1. SUFFICES ASSUME w = <<>> PROVE FALSE
        OBVIOUS
      <4>2. t.line \in Follows(w, t.marker)
        BY <2>5, <2>6
      <4>3. \E i \in 1..(Len(w) - 1) : w[i] = t.marker /\ w[i + 1] = t.line
        BY <2>4, <4>2, FollowsIs
      <4> QED
        BY <4>1, <4>3
    <3>2. Follows(v, t.marker) = {t.line}
      BY <2>4, <2>5, <2>6, <3>1
    <3> QED
      BY <1>9, <2>6, <3>2 DEF IsInPlace, v
  <2>7. CASE t.state = "absent"
    <3>1. v = None \/ ~Contains(v, t.marker)
      BY <2>4, <2>5, <2>7
    <3> QED
      BY <1>9, <2>7, <3>1 DEF IsInPlace, v
  <2> QED
    BY <2>1, <2>6, <2>7
<1>10. CASE t.module = "env_path"
  <2>1. t.line \in Lines /\ t.marker \in Lines /\ t.line # t.marker /\ t.paths \subseteq Paths
    BY <1>10 DEF TaskOn, IsTask
  <2>2. ASSUME NEW p \in t.paths
        PROVE  Follows(m.files[p], t.marker) = {t.line} \/ Last(m.files[p]) = t.marker
    <3> DEFINE w == m.files[p]
    <3>1. w # None /\ BlockUpserted(t, w) = w
      BY <1>1, <1>2, <1>10 DEF FileGoal
    <3>2. w \in Seq(Lines)
      BY <1>2, <2>1, <3>1
    <3> HIDE DEF w
    <3>3. Follows(w, t.marker) = {t.line} \/ Last(w) = t.marker
      BY <2>1, <3>1, <3>2, BlockEntry
    <3> QED
      BY <3>3 DEF w
  <2> QED
    BY <1>10, <2>2 DEF IsInPlace
<1>11. CASE t.module = "shell"
  BY <1>11 DEF IsInPlace
<1> QED
  BY <1>4, <1>5, <1>6, <1>7, <1>8, <1>9, <1>10, <1>11 DEF FileModules

LEMMA InPlaceAtLast ==
    ASSUME NEW t, NEW m, TaskOn(t, m), NEW lost, NEW got, Toward(t, <<>>, lost, got, m),
           lost = {} \/ (got # {} /\ t.lenient)
    PROVE  IsInPlace(t, m)
<1>1. CASE t.module \in FileModules
  BY <1>1, FilesInPlace DEF Toward
<1>2. CASE t.module = "package"
  <2>1. TowardPackages(t, <<>>, lost, got, m)
    BY <1>2 DEF Toward
  <2>2. t.state \in {"present", "absent"}
    BY <1>2 DEF TaskOn, IsTask
  <2> DEFINE N == {PackageName(p, m) : p \in t.names} \ {None}
  <2>3. N = NamesOf(t, m)
    BY DEF NamesOf
  <2> HIDE DEF N
  <2>4. CASE t.state = "present"
    <3>1. got \subseteq N \cap m.packages /\ \A p \in N : p \in m.packages \/ p \in lost
      BY <2>1, <2>3, <2>4, NothingInside DEF TowardPackages
    <3>2. N \subseteq m.packages \/ (t.lenient /\ N \cap m.packages # {})
      BY <3>1
    <3> QED
      BY <1>2, <2>4, <3>2 DEF IsInPlace, N
  <2>5. CASE t.state = "absent"
    <3>1. got \subseteq N \ m.packages /\ \A p \in N : p \notin m.packages \/ p \in lost
      BY <2>1, <2>3, <2>5, NothingInside DEF TowardPackages
    <3>2. N \cap m.packages = {} \/ (t.lenient /\ ~(N \subseteq m.packages))
      BY <3>1
    <3> QED
      BY <1>2, <2>5, <3>2 DEF IsInPlace, N
  <2> QED
    BY <2>2, <2>4, <2>5
<1>3. CASE t.module = "service"
  <2>1. TowardUnit(t, <<>>, m)
    BY <1>3 DEF Toward
  <2> QED
    BY <1>3, <2>1, NothingInside DEF TowardUnit, UnitOf, IsInPlace
<1>4. CASE t.module = "user"
  <2>1. TowardUser(t, <<>>, m)
    BY <1>4 DEF Toward
  <2> QED
    BY <1>4, <2>1 DEF TowardUser, IsInPlace
<1>5. CASE t.module = "ufw"
  <2>1. TowardWall(t, <<>>, m)
    BY <1>5 DEF Toward
  <2>2. CASE t.state = "rule"
    <3>1. \E rule \in m.rules : rule[2] \in Within[t.port]
      BY <2>1, <2>2 DEF TowardWall
    <3> QED
      BY <1>5, <2>2, <3>1 DEF IsInPlace
  <2>3. CASE t.state # "rule"
    <3>1. m.firewall = (t.state = "enabled")
      BY <2>1, <2>3 DEF TowardWall
    <3> QED
      BY <1>5, <2>3, <3>1 DEF IsInPlace
  <2> QED
    BY <2>2, <2>3
<1> QED
  BY <1>1, <1>2, <1>3, <1>4, <1>5 DEF Toward

-----------------------------------------------------------------------------
(* A task that has reached what it asks for finds nothing to do.           *)

NothingToDo(plan, t) == plan = Same \/ plan = [Same EXCEPT !.commands = Chmod(t)]

LEMMA FilesQuiet ==
    ASSUME NEW t, t.module \in FileModules, NEW m, TaskOn(t, m), TowardFiles(t, <<>>, m), ~Fidgety(t),
           NEW plan, plan = Plan(t, m, FALSE)
    PROVE  NothingToDo(plan, t)
<1>0. NothingToDo(Same, t) /\ NothingToDo([Same EXCEPT !.commands = Chmod(t)], t)
  BY DEF NothingToDo
<1>1. \A p \in GoalPaths(t) : FileGoal(t, m.files[p])
  BY NothingInside DEF TowardFiles
<1>2. /\ t.module \notin {"env_path", "sysctl"} => GoalPaths(t) = {t.path}
      /\ t.module = "env_path" => GoalPaths(t) = t.paths
      /\ GoalPaths(t) \subseteq Paths /\ \A p \in Paths : m.files[p] \in Seq(Lines) \cup {None}
  BY GoalPathsAre
<1> DEFINE v == m.files[t.path]
<1>3. t.module # "env_path" => FileGoal(t, v)
  BY <1>1, <1>2 DEF GoalPaths
<1>4. CASE t.module = "copy"
  <2>1. plan = PlanCopy(t, m, FALSE) /\ v = t.text
    BY <1>3, <1>4 DEF Plan, FileGoal
  <2> QED
    BY <1>0, <2>1 DEF PlanCopy
<1>5. CASE t.module = "template"
  <2>1. plan = PlanTemplate(t, m, FALSE) /\ v = t.text
    BY <1>3, <1>5 DEF Plan, FileGoal
  <2> QED
    BY <1>0, <2>1 DEF PlanTemplate
<1>6. CASE t.module = "systemd_unit"
  <2>1. plan = PlanUnit(t, m, FALSE) /\ v = IF t.state = "present" THEN t.text ELSE None
    BY <1>3, <1>6 DEF Plan, FileGoal
  <2> QED
    BY <1>0, <2>1 DEF PlanUnit
<1>7. CASE t.module = "sysctl"
  <2>1. plan = PlanSysctl(t, m, FALSE)
    BY <1>7 DEF Plan
  <2>2. CASE t.state = "present"
    <3>1. GoalPaths(t) = {t.path, t.live}
      BY <1>7, <2>2 DEF GoalPaths
    <3>2. v = t.text /\ m.files[t.live] = t.text
      BY <1>1, <1>7, <2>2, <3>1 DEF FileGoal
    <3> QED
      BY <1>0, <2>1, <2>2, <3>2 DEF PlanSysctl
  <2>3. CASE t.state # "present"
    <3>1. v = None
      BY <1>3, <1>7, <2>3 DEF FileGoal
    <3> QED
      BY <1>0, <2>1, <2>3, <3>1 DEF PlanSysctl
  <2> QED
    BY <2>2, <2>3
<1>8. CASE t.module = "acme"
  <2>1. plan = PlanAcme(t, m, FALSE) /\ v # None
    BY <1>3, <1>8 DEF Plan, FileGoal
  <2> QED
    BY <1>0, <2>1 DEF PlanAcme
<1>9. CASE t.module = "file"
  <2>1. plan = PlanFile(t, m, FALSE)
    BY <1>9 DEF Plan
  <2>2. t.state \in {"directory", "file", "absent"}
    BY <1>9 DEF TaskOn, IsTask, Fidgety
  <2>3. IF t.state = "absent" THEN v = None ELSE v # None /\ (t.state = "directory" => v = t.text)
    BY <1>3, <1>9 DEF FileGoal
  <2> HIDE DEF v
  <2>4. CASE t.state = "absent"
    BY <1>0, <2>1, <2>3, <2>4 DEF PlanFile, v
  <2>5. CASE t.state = "directory"
    BY <1>0, <2>1, <2>3, <2>5 DEF PlanFile, v
  <2>6. CASE t.state = "file"
    BY <1>0, <2>1, <2>3, <2>6 DEF PlanFile, v
  <2> QED
    BY <2>2, <2>4, <2>5, <2>6
<1>10. CASE t.module = "lineinfile"
  <2>1. plan = PlanLine(t, m, FALSE)
    BY <1>10 DEF Plan
  <2>2. t.state \in {"present", "absent"}
    BY <1>10 DEF TaskOn, IsTask
  <2>3. IF t.state = "present" THEN v # None /\ LineEdited(t, v) = v ELSE v = None \/ LineEdited(t, v) = v
    BY <1>3, <1>10 DEF FileGoal
  <2>4. CASE v = None
    <3>1. t.state = "absent"
      BY <2>2, <2>3, <2>4
    <3> QED
      BY <1>0, <2>1, <2>4, <3>1 DEF PlanLine
  <2>5. CASE v # None
    <3>1. LineEdited(t, v) = v
      BY <2>3, <2>5
    <3> QED
      BY <1>0, <2>1, <2>5, <3>1 DEF PlanLine
  <2> QED
    BY <2>4, <2>5
<1>11. CASE t.module = "cron"
  <2>1. plan = PlanCron(t, m, FALSE) /\ CrontabWith(t, LinesOf(v)) = LinesOf(v)
    BY <1>3, <1>11 DEF Plan, FileGoal
  <2> QED
    BY <1>0, <2>1 DEF PlanCron, LinesOf
<1>12. CASE t.module = "env_path"
  <2>1. plan = PlanEnvPath(t, m, FALSE)
    BY <1>12 DEF Plan
  <2>2. \A p \in t.paths : m.files[p] # None /\ BlockUpserted(t, m.files[p]) = m.files[p]
    BY <1>1, <1>2, <1>12 DEF FileGoal
  <2>3. {p \in t.paths : BlockUpserted(t, IF m.files[p] = None THEN <<>> ELSE m.files[p]) # m.files[p]} = {}
    BY <2>2
  <2> QED
    BY <1>0, <2>1, <2>3 DEF PlanEnvPath
<1>13. CASE t.module = "shell"
  <2>1. plan = PlanShell(t, m, FALSE)
    BY <1>13 DEF Plan
  <2>2. t.unless = t.path
    BY <1>13 DEF Fidgety
  <2>3. v # None /\ t.path # None
    BY <1>2, <1>3, <1>13, <2>2, NoneAssumption DEF FileGoal
  <2> QED
    BY <1>0, <2>1, <2>2, <2>3 DEF PlanShell
<1> QED
  BY <1>4, <1>5, <1>6, <1>7, <1>8, <1>9, <1>10, <1>11, <1>12, <1>13 DEF FileModules

LEMMA QuietPlan ==
    ASSUME NEW t, NEW m, TaskOn(t, m), Reached(t, m), ~Fidgety(t), NEW plan, plan = Plan(t, m, FALSE)
    PROVE  ~plan.refused /\ ~plan.changed
<1>1. /\ ~Same.refused /\ ~Same.changed
      /\ \A cs : ~[Same EXCEPT !.commands = cs].refused /\ ~[Same EXCEPT !.commands = cs].changed
  BY DEF Same
<1>2. CASE t.module \in FileModules
  <2>1. TowardFiles(t, <<>>, m)
    BY <1>2 DEF Reached, Toward
  <2>2. NothingToDo(plan, t)
    BY <1>2, <2>1, FilesQuiet
  <2> QED
    BY <1>1, <2>2 DEF NothingToDo
<1>3. CASE t.module = "package"
  <2>1. plan = PlanPackage(t, m, FALSE) /\ TowardPackages(t, <<>>, {}, {}, m)
    BY <1>3 DEF Plan, Reached, Toward
  <2>2. Wanted(t, m) = {}
    <3>1. Wanted(t, m) = IF t.state = "present" THEN NamesOf(t, m) \ m.packages ELSE NamesOf(t, m) \cap m.packages
      BY DEF Wanted, NamesOf
    <3> QED
      BY <2>1, <3>1, NothingInside DEF TowardPackages
  <2>3. plan = Same
    BY <2>1, <2>2 DEF PlanPackage
  <2> QED
    BY <1>1, <2>3
<1>4. CASE t.module = "service"
  <2>1. plan = PlanService(t, m, FALSE) /\ TowardUnit(t, <<>>, m)
    BY <1>4 DEF Plan, Reached, Toward
  <2> DEFINE unit == UnitOf(t, m)
             stateActions ==
                 CASE t.state = "started" /\ unit \notin m.active -> <<Command("start", unit, None)>>
                   [] t.state = "stopped" /\ unit \in m.active -> <<Command("stop", unit, None)>>
                   [] t.state = "restarted" -> <<Command("restart", unit, None)>>
                   [] t.state = "reloaded" -> <<Command("reload", unit, None)>>
                   [] OTHER -> <<>>
             bootActions ==
                 CASE t.boot = "on" /\ unit \notin m.enabled -> <<Command("enable", unit, None)>>
                   [] t.boot = "off" /\ unit \in m.enabled -> <<Command("disable", unit, None)>>
                   [] OTHER -> <<>>
             actions == stateActions \o bootActions
  <2>2. plan = CASE unit = None -> Same
                 [] unit # None /\ unit \notin m.units -> IF t.lenient THEN Same ELSE Refused
                 [] OTHER -> IF actions = <<>> THEN Same ELSE Sends(actions, FALSE)
    BY <2>1 DEF PlanService, UnitOf
  <2>3. t.state \notin {"restarted", "reloaded"}
    BY <1>4 DEF Fidgety
  <2>4. /\ unit \notin m.units => unit = None \/ t.lenient
        /\ unit \in m.units =>
               /\ t.state = "started" => unit \in m.active
               /\ t.state = "stopped" => unit \notin m.active
               /\ t.boot = "on" => unit \in m.enabled
               /\ t.boot = "off" => unit \notin m.enabled
    BY <2>1, NothingInside DEF TowardUnit
  <2>5. unit \in m.units => stateActions = <<>>
    BY <2>3, <2>4, Zenon
  <2>6. unit \in m.units => bootActions = <<>>
    BY <2>4, Zenon
  <2>7. unit \in m.units => actions = <<>>
    <3>1. <<>> \o <<>> = <<>>
      OBVIOUS
    <3> HIDE DEF stateActions, bootActions
    <3> QED
      BY <2>5, <2>6, <3>1
  <2> HIDE DEF unit, actions
  <2>8. plan = Same
    BY <2>2, <2>4, <2>7
  <2> QED
    BY <1>1, <2>8
<1>5. CASE t.module = "user"
  <2>1. plan = PlanUser(t, m, FALSE) /\ TowardUser(t, <<>>, m)
    BY <1>5 DEF Plan, Reached, Toward
  <2>2. t.state \in {"present", "absent"} /\ (t.state = "present" => t.groups = {})
    BY <1>5 DEF TaskOn, IsTask, Fidgety
  <2>3. IF t.state = "absent" THEN m.users[t.name] = None ELSE m.users[t.name] # None
    BY <2>1 DEF TowardUser
  <2>4. plan = Same
    BY <2>1, <2>2, <2>3 DEF PlanUser
  <2> QED
    BY <1>1, <2>4
<1>6. CASE t.module = "ufw"
  <2>1. plan = PlanUfw(t, m, FALSE) /\ TowardWall(t, <<>>, m)
    BY <1>6 DEF Plan, Reached, Toward
  <2>2. t.state \in {"enabled", "disabled"}
    BY <1>6 DEF TaskOn, IsTask, Fidgety
  <2>3. "ufw" \in m.packages /\ m.firewall = (t.state = "enabled")
    BY <2>1, <2>2 DEF TowardWall
  <2>4. plan = Same
    BY <2>1, <2>2, <2>3 DEF PlanUfw
  <2> QED
    BY <1>1, <2>4
<1> QED
  BY <1>2, <1>3, <1>4, <1>5, <1>6 DEF Reached, Toward

-----------------------------------------------------------------------------
(* What is so of a task is so until somebody changes what it is about.     *)

LEMMA ConcernIs ==
    ASSUME NEW t, NEW o
    PROVE  /\ \A p \in Written(t) : <<"file", p>> \in Concern(t, o)
           /\ t.module = "package" => \A p \in t.names : <<"package", PackageName(p, o)>> \in Concern(t, o)
           /\ t.module = "service" => <<"unit", UnitOf(t, o)>> \in Concern(t, o)
           /\ t.module = "user" => <<"user", t.name>> \in Concern(t, o)
           /\ t.module = "ufw" => <<"firewall", "ufw">> \in Concern(t, o) /\ <<"package", "ufw">> \in Concern(t, o)
<1>1. \A p \in Written(t) : <<"file", p>> \in Concern(t, o)
  BY DEF Concern
<1>2. CASE t.module = "package"
  BY <1>1, <1>2 DEF Concern
<1>3. CASE t.module = "service"
  BY <1>1, <1>3 DEF Concern, UnitOf
<1>4. CASE t.module = "user"
  BY <1>1, <1>4 DEF Concern
<1>5. CASE t.module = "ufw"
  BY <1>1, <1>5 DEF Concern
<1>6. CASE t.module \notin {"package", "service", "user", "ufw"}
  BY <1>1, <1>6
<1> QED
  BY <1>2, <1>3, <1>4, <1>5, <1>6

LEMMA FilesStay ==
    ASSUME NEW t, t.module \in FileModules, NEW m, TaskOn(t, m), NEW n, NEW o, Agree(m, n, Concern(t, o))
    PROVE  /\ IsInPlace(t, m) => IsInPlace(t, n)
           /\ TowardFiles(t, <<>>, m) => TowardFiles(t, <<>>, n)
<1>1. /\ t.module \notin {"env_path", "sysctl"} => GoalPaths(t) = {t.path}
      /\ t.module = "env_path" => GoalPaths(t) = t.paths
      /\ GoalPaths(t) \subseteq Paths
  BY GoalPathsAre
<1>2. GoalPaths(t) \subseteq Written(t)
  BY DEF GoalPaths, Written
<1>3. \A p \in GoalPaths(t) : n.files[p] = m.files[p]
  BY <1>1, <1>2, ConcernIs DEF Agree
<1>4. TowardFiles(t, <<>>, m) => TowardFiles(t, <<>>, n)
  BY <1>3 DEF TowardFiles
<1>5. t.module # "env_path" => n.files[t.path] = m.files[t.path]
  BY <1>1, <1>3 DEF GoalPaths
<1>6. t.module = "env_path" => \A p \in t.paths : n.files[p] = m.files[p]
  BY <1>1, <1>3
<1> HIDE <1>3, <1>4
<1>7. ASSUME IsInPlace(t, m) PROVE IsInPlace(t, n)
  <2>1. CASE t.module \in {"copy", "template"}
    BY <1>5, <1>7, <2>1 DEF IsInPlace
  <2>2. CASE t.module \in {"systemd_unit", "sysctl"}
    BY <1>5, <1>7, <2>2 DEF IsInPlace
  <2>3. CASE t.module = "acme"
    BY <1>5, <1>7, <2>3 DEF IsInPlace
  <2>4. CASE t.module = "file"
    BY <1>5, <1>7, <2>4 DEF IsInPlace
  <2>5. CASE t.module = "lineinfile"
    BY <1>5, <1>7, <2>5 DEF IsInPlace
  <2>6. CASE t.module = "cron"
    BY <1>5, <1>7, <2>6 DEF IsInPlace
  <2>7. CASE t.module = "env_path"
    BY <1>6, <1>7, <2>7 DEF IsInPlace
  <2>8. CASE t.module = "shell"
    BY <2>8 DEF IsInPlace
  <2> QED
    BY <2>1, <2>2, <2>3, <2>4, <2>5, <2>6, <2>7, <2>8 DEF FileModules
<1> QED
  BY <1>4, <1>7

LEMMA StaysInPlace ==
    ASSUME NEW t, NEW m, TaskOn(t, m), IsInPlace(t, m), NEW n, NEW o, o.apt = m.apt, Agree(m, n, Concern(t, o))
    PROVE  IsInPlace(t, n)
<1>1. n.apt = m.apt /\ n.units = m.units
  BY DEF Agree
<1>2. CASE t.module \in FileModules
  BY <1>2, FilesStay
<1>3. CASE t.module = "package"
  <2> DEFINE N == {PackageName(p, m) : p \in t.names} \ {None}
             M == {PackageName(p, n) : p \in t.names} \ {None}
  <2>1. \A p : PackageName(p, n) = PackageName(p, m) /\ PackageName(p, o) = PackageName(p, m)
    BY <1>1 DEF PackageName
  <2>2. M = N
    BY <2>1
  <2>3. \A p \in N : p \in n.packages <=> p \in m.packages
    BY <1>3, <2>1, ConcernIs DEF Agree
  <2> HIDE DEF N
  <2>4. t.state \in {"present", "absent"}
    BY <1>3 DEF TaskOn, IsTask
  <2>5. IF t.state = "absent" THEN N \cap m.packages = {} \/ (t.lenient /\ ~(N \subseteq m.packages))
        ELSE N \subseteq m.packages \/ (t.lenient /\ N \cap m.packages # {})
    BY <1>3 DEF IsInPlace, N
  <2>6. IF t.state = "absent" THEN N \cap n.packages = {} \/ (t.lenient /\ ~(N \subseteq n.packages))
        ELSE N \subseteq n.packages \/ (t.lenient /\ N \cap n.packages # {})
    BY <2>3, <2>5
  <2>7. IF t.state = "absent" THEN M \cap n.packages = {} \/ (t.lenient /\ ~(M \subseteq n.packages))
        ELSE M \subseteq n.packages \/ (t.lenient /\ M \cap n.packages # {})
    BY <2>2, <2>6
  <2> QED
    BY <1>3, <2>7 DEF IsInPlace
<1>4. CASE t.module = "service"
  <2> DEFINE u == UnitOf(t, m)
  <2>1. UnitOf(t, n) = u /\ UnitOf(t, o) = u
    BY <1>1 DEF UnitOf
  <2>2. (u \in n.active <=> u \in m.active) /\ (u \in n.enabled <=> u \in m.enabled)
    BY <1>4, <2>1, ConcernIs DEF Agree
  <2>3. u \in m.units =>
            /\ t.state \in {"started", "restarted"} => u \in m.active
            /\ t.state = "stopped" => u \notin m.active
            /\ t.boot = "on" => u \in m.enabled
            /\ t.boot = "off" => u \notin m.enabled
    BY <1>4 DEF IsInPlace, UnitOf
  <2> DEFINE w == UnitOf(t, n)
  <2>4. w \in n.units =>
            /\ t.state \in {"started", "restarted"} => w \in n.active
            /\ t.state = "stopped" => w \notin n.active
            /\ t.boot = "on" => w \in n.enabled
            /\ t.boot = "off" => w \notin n.enabled
    BY <1>1, <2>1, <2>2, <2>3
  <2> QED
    BY <1>4, <2>4 DEF IsInPlace, UnitOf
<1>5. CASE t.module = "user"
  <2>1. n.users[t.name] = m.users[t.name]
    BY <1>5, ConcernIs DEF Agree, TaskOn
  <2> QED
    BY <1>5, <2>1 DEF IsInPlace
<1>6. CASE t.module = "ufw"
  <2>1. n.firewall = m.firewall /\ n.rules = m.rules
    BY <1>6, ConcernIs DEF Agree
  <2> QED
    BY <1>6, <2>1 DEF IsInPlace
<1>7. CASE t.module \notin FileModules \cup {"package", "service", "user", "ufw"}
  BY <1>7 DEF IsInPlace, FileModules
<1> QED
  BY <1>2, <1>3, <1>4, <1>5, <1>6, <1>7

LEMMA StaysReached ==
    ASSUME NEW t, NEW m, TaskOn(t, m), Reached(t, m), NEW n, NEW o, o.apt = m.apt, Agree(m, n, Concern(t, o))
    PROVE  Reached(t, n)
<1>1. n.apt = m.apt /\ n.units = m.units
  BY DEF Agree
<1>2. CASE t.module \in FileModules
  <2>1. TowardFiles(t, <<>>, n)
    BY <1>2, FilesStay DEF Reached, Toward
  <2> QED
    BY <1>2, <2>1 DEF Reached, Toward, FileModules
<1>3. CASE t.module = "package"
  <2>1. \A p : PackageName(p, n) = PackageName(p, m) /\ PackageName(p, o) = PackageName(p, m)
    BY <1>1 DEF PackageName
  <2>2. NamesOf(t, n) = NamesOf(t, m)
    BY <1>1, NamesAre
  <2>3. \A p \in NamesOf(t, m) : p \in n.packages <=> p \in m.packages
    BY <1>3, <2>1, ConcernIs DEF Agree, NamesOf
  <2>4. TowardPackages(t, <<>>, {}, {}, m)
    BY <1>3 DEF Reached, Toward
  <2>5. TowardPackages(t, <<>>, {}, {}, n)
    BY <2>2, <2>3, <2>4, NothingInside DEF TowardPackages
  <2> QED
    BY <1>3, <2>5 DEF Reached, Toward, FileModules
<1>4. CASE t.module = "service"
  <2> DEFINE u == UnitOf(t, m)
  <2>1. UnitOf(t, n) = u /\ UnitOf(t, o) = u
    BY <1>1 DEF UnitOf
  <2>2. (u \in n.active <=> u \in m.active) /\ (u \in n.enabled <=> u \in m.enabled)
    BY <1>4, <2>1, ConcernIs DEF Agree
  <2>3. TowardUnit(t, <<>>, m)
    BY <1>4 DEF Reached, Toward
  <2> HIDE DEF u
  <2>4. TowardUnit(t, <<>>, n)
    BY <1>1, <2>1, <2>2, <2>3, NothingInside DEF TowardUnit, u
  <2> QED
    BY <1>4, <2>4, NothingInside DEF Reached, Toward, FileModules
<1>5. CASE t.module = "user"
  <2>1. n.users[t.name] = m.users[t.name]
    BY <1>5, ConcernIs DEF Agree, TaskOn
  <2>2. TowardUser(t, <<>>, m)
    BY <1>5 DEF Reached, Toward
  <2>3. TowardUser(t, <<>>, n)
    BY <2>1, <2>2, NothingInside DEF TowardUser
  <2> QED
    BY <1>5, <2>3, NothingInside DEF Reached, Toward, FileModules
<1>6. CASE t.module = "ufw"
  <2>1. n.firewall = m.firewall /\ n.rules = m.rules /\ ("ufw" \in n.packages <=> "ufw" \in m.packages)
    BY <1>6, ConcernIs DEF Agree
  <2>2. TowardWall(t, <<>>, m)
    BY <1>6 DEF Reached, Toward
  <2>3. TowardWall(t, <<>>, n)
    BY <2>1, <2>2, NothingInside DEF TowardWall
  <2> QED
    BY <1>6, <2>3, NothingInside DEF Reached, Toward, FileModules
<1> QED
  BY <1>2, <1>3, <1>4, <1>5, <1>6 DEF Reached, Toward

-----------------------------------------------------------------------------
(* A run that nothing disturbs.                                            *)

\* Restless, on the machine of the beginning.
RestlessOn(t, o) ==
    \/ Fidgety(t)
    \/ t.module = "package" /\ \E p \in NamesOf(t, o) :
           ~Obtainable(o, p) /\ (o.apt \/ HomeOf[p] \notin {"epel", "stream"})

\* No later task is about the same thing.
Stays(play, i, o) == \A j \in (i + 1)..Len(play) : Concern(play[i], o) \cap Concern(play[j], o) = {}

\* What the tasks so far asked for is so, of f faults.
InPlaceUpTo(x, play, o, m, f) ==
    \A i \in DOMAIN x.logs : x.logs[i] \in {"ok", "changed"} /\ Stays(play, i, o) =>
        /\ IsInPlace(play[i], m)
        /\ f = 0 /\ ~RestlessOn(play[i], o) => Reached(play[i], m)

\* What the task at work asks for will be.
AtHand(x, play, o, m, f) ==
    x.phase = "act" =>
        /\ Toward(play[x.at], x.commands, x.lost, x.got, m)
        /\ f = 0 /\ ~RestlessOn(play[x.at], o) => x.lost = {}

Progress(x, play, o, m, f) == InPlaceUpTo(x, play, o, m, f) /\ AtHand(x, play, o, m, f)

\* A command leaves alone what earlier tasks asked for.
LEMMA EarlierStay ==
    ASSUME NEW x, NEW play, NEW o, NEW m, IsMachine(m), o.apt = m.apt, NEW f, InPlaceUpTo(x, play, o, m, f),
           x.at \in 1..Len(play), Len(play) \in Nat, DOMAIN x.logs = 1..(x.at - 1),
           \A i \in 1..Len(play) : TaskOn(play[i], m),
           NEW c, IsCommand(c, DOMAIN m.users), Touched(c) \subseteq Concern(play[x.at], o), NEW n, n = Effect(c, m)
    PROVE  InPlaceUpTo(x, play, o, n, f)
<1>1. SUFFICES ASSUME NEW i \in DOMAIN x.logs, x.logs[i] \in {"ok", "changed"}, Stays(play, i, o)
               PROVE  /\ IsInPlace(play[i], n)
                      /\ f = 0 /\ ~RestlessOn(play[i], o) => Reached(play[i], n)
  BY DEF InPlaceUpTo
<1> DEFINE t == play[i]
<1>2. x.at \in (i + 1)..Len(play) /\ i \in 1..Len(play)
  BY <1>1
<1>3. Touched(c) \cap Concern(t, o) = {}
  BY <1>1, <1>2 DEF Stays
<1>4. Agree(m, n, Concern(t, o))
  BY <1>3, OutOfReach
<1>5. TaskOn(t, m) /\ IsInPlace(t, m) /\ (f = 0 /\ ~RestlessOn(t, o) => Reached(t, m))
  BY <1>1, <1>2 DEF InPlaceUpTo
<1> HIDE DEF t
<1>6. IsInPlace(t, n)
  BY <1>4, <1>5, StaysInPlace
<1>7. Reached(t, m) => Reached(t, n)
  BY <1>4, <1>5, StaysReached
<1> QED
  BY <1>5, <1>6, <1>7 DEF t

LEMMA OverProgress ==
    ASSUME NEW x, NEW y, NEW task, NEW status \in TaskStatuses, NEW got, TaskOver(x, y, task, status, got),
           IsRun(x), x.at \in Nat, Len(x.logs) = x.at - 1, NEW play, NEW o, NEW n, NEW f,
           InPlaceUpTo(x, play, o, n, f),
           status \in {"ok", "changed"} =>
               /\ IsInPlace(play[x.at], n)
               /\ f = 0 /\ ~RestlessOn(play[x.at], o) => Reached(play[x.at], n)
    PROVE  Progress(y, play, o, n, f)
<1>1. /\ DOMAIN x.logs = 1..(x.at - 1) /\ DOMAIN y.logs = 1..x.at
      /\ \A i \in 1..(x.at - 1) : y.logs[i] = x.logs[i]
      /\ y.logs[x.at] = status
  BY LogGrows
<1>2. y.phase # "act"
  BY DEF TaskOver
<1>3. \A i \in 1..x.at : i \in 1..(x.at - 1) \/ i = x.at
  OBVIOUS
<1>4. ASSUME NEW i \in DOMAIN y.logs, y.logs[i] \in {"ok", "changed"}, Stays(play, i, o)
      PROVE  /\ IsInPlace(play[i], n)
             /\ f = 0 /\ ~RestlessOn(play[i], o) => Reached(play[i], n)
  <2>1. CASE i \in 1..(x.at - 1)
    BY <1>1, <1>4, <2>1 DEF InPlaceUpTo
  <2>2. CASE i = x.at
    BY <1>1, <1>4, <2>2
  <2> QED
    BY <1>1, <1>3, <2>1, <2>2
<1> QED
  BY <1>2, <1>4 DEF Progress, InPlaceUpTo, AtHand

LEMMA LookProgress ==
    ASSUME NEW x, NEW y, NEW play, NEW m, TaskOn(play[x.at], m), NEW plan, plan = Plan(play[x.at], m, FALSE),
           Looked(x, y, play[x.at], plan, FALSE), IsRun(x), x.at \in Nat, Len(x.logs) = x.at - 1,
           NEW o, NEW f, InPlaceUpTo(x, play, o, m, f)
    PROVE  Progress(y, play, o, m, f)
<1> DEFINE t == play[x.at]
<1>1. ~plan.refused => Toward(t, plan.commands, {}, {}, m)
  BY PlanToward
<1>2. CASE plan.refused /\ TaskOver(x, y, t, "failed", {})
  <2> DEFINE status == "failed"
  <2>1. status \in TaskStatuses /\ TaskOver(x, y, t, status, {}) /\ status \notin {"ok", "changed"}
    BY <1>2 DEF TaskStatuses
  <2> HIDE DEF status, t
  <2> QED
    BY <2>1, OverProgress
<1>3. CASE ~plan.refused /\ plan.commands = <<>> /\ TaskOver(x, y, t, IF plan.changed THEN "changed" ELSE "ok", {})
  <2> DEFINE status == IF plan.changed THEN "changed" ELSE "ok"
  <2>1. status \in TaskStatuses /\ TaskOver(x, y, t, status, {})
    BY <1>3 DEF TaskStatuses
  <2>2. Reached(t, m)
    BY <1>1, <1>3 DEF Reached
  <2>3. IsInPlace(t, m)
    BY <2>2, InPlaceAtLast DEF Reached
  <2> HIDE DEF status
  <2> QED
    BY <2>1, <2>2, <2>3, OverProgress
<1>4. CASE /\ ~plan.refused /\ plan.commands # <<>>
           /\ y.phase = "act" /\ y.commands = plan.commands
           /\ y.lost = {} /\ y.got = {} /\ y.at = x.at /\ y.logs = x.logs
  <2>1. InPlaceUpTo(y, play, o, m, f)
    BY <1>4 DEF InPlaceUpTo
  <2>2. AtHand(y, play, o, m, f)
    BY <1>1, <1>4 DEF AtHand
  <2> QED
    BY <2>1, <2>2 DEF Progress
<1> QED
  BY <1>2, <1>3, <1>4 DEF Looked

LEMMA LostIsRestless ==
    ASSUME NEW t, NEW cs, IsList(cs), cs # <<>>, NEW c, c = Head(cs), NEW m, NEW lost, NEW got,
           Toward(t, cs, lost, got, m), t.module = "package" => t.state \in {"present", "absent"}, IsOne(c), ~Possible(c, m),
           NEW o, o.repos \subseteq m.repos, o.apt = m.apt
    PROVE  RestlessOn(t, o)
<1>1. c \in ToSet(cs)
  BY TailOfList
<1>2. t.module = "package" /\ TowardPackages(t, cs, lost, got, m)
  BY <1>1 DEF Toward, IsOne, Installing, Uninstalling
<1>3. c.do = "installOne"
  BY DEF IsOne, Possible
<1>4. c.on \subseteq NamesOf(t, m)
  BY <1>1, <1>2, <1>3 DEF TowardPackages, Installing, Uninstalling
<1>5. NamesOf(t, o) = NamesOf(t, m)
  BY NamesAre
<1>6. PICK p \in c.on : ~(Obtainable(m, p) \/ (~m.apt /\ HomeOf[p] \in {"epel", "stream"}))
  BY <1>3 DEF Possible
<1>7. ~Obtainable(o, p) /\ (o.apt \/ HomeOf[p] \notin {"epel", "stream"})
  BY <1>6 DEF Obtainable
<1> QED
  BY <1>2, <1>4, <1>5, <1>7 DEF RestlessOn

LEMMA AnsweredProgress ==
    ASSUME NEW x, NEW y, NEW play, NEW m, TaskOn(play[x.at], m), NEW worked \in BOOLEAN,
           Answered(x, y, play[x.at], worked), IsRun(x), x.at \in Nat, Len(x.logs) = x.at - 1, x.phase = "act",
           IsList(x.commands), x.commands # <<>>, NEW c, c = Head(x.commands), IsCommand(c, DOMAIN m.users),
           NEW o, NEW f, NEW g, AtHand(x, play, o, m, f), g = 0 => f = 0,
           NEW n, InPlaceUpTo(x, play, o, n, g),
           worked => Possible(c, m) /\ n = Effect(c, m), ~worked => n = m /\ c.checked,
           ~worked /\ g = 0 /\ IsOne(c) => RestlessOn(play[x.at], o)
    PROVE  Progress(y, play, o, n, g)
<1> DEFINE t == play[x.at]
           rest == Tail(x.commands)
           got == IF worked /\ (IsOne(c) \/ c.do \in {"install", "uninstall"}) THEN x.got \cup c.on ELSE x.got
           lost == IF worked \/ ~IsOne(c) THEN x.lost ELSE x.lost \cup c.on
<1>1. Toward(t, x.commands, x.lost, x.got, m) /\ (f = 0 /\ ~RestlessOn(t, o) => x.lost = {})
  BY DEF AtHand
<1>2. g = 0 /\ ~RestlessOn(t, o) => lost = {} /\ x.lost = {}
  BY <1>1
<1>3. worked \/ ~c.checked \/ IsOne(c) => Toward(t, rest, lost, got, n)
  <2>1. CASE worked
    <3> DEFINE more == IF IsOne(c) \/ c.do \in {"install", "uninstall"} THEN x.got \cup c.on ELSE x.got
    <3>1. got = more /\ lost = x.lost /\ Possible(c, m) /\ n = Effect(c, m)
      BY <2>1
    <3> HIDE DEF t, rest, got, lost
    <3>2. Toward(t, rest, x.lost, more, n)
      <4> TaskOn(t, m)
        BY DEF t
      <4> QED
        BY <1>1, <3>1, TowardAfter DEF rest
    <3> QED
      BY <3>1, <3>2
  <2>2. CASE ~worked /\ IsOne(c)
    <3>1. got = x.got /\ lost = x.lost \cup c.on /\ n = m
      BY <2>2
    <3> HIDE DEF t, rest, got, lost
    <3>2. Toward(t, rest, x.lost \cup c.on, x.got, m)
      BY <1>1, <2>2, TowardWithout DEF rest
    <3> QED
      BY <3>1, <3>2
  <2> QED
    BY <2>1, <2>2
<1>4. \/ /\ worked \/ ~c.checked \/ IsOne(c)
         /\ rest # <<>> /\ IsRun(y) /\ y.phase = x.phase /\ y.commands = rest
         /\ y.got = got /\ y.lost = lost /\ y.at = x.at /\ y.logs = x.logs
      \/ /\ worked \/ ~c.checked \/ IsOne(c)
         /\ rest = <<>>
         /\ TaskOver(x, y, t, IF lost # {} /\ (got = {} \/ ~t.lenient) THEN "failed"
                              ELSE IF x.changed THEN "changed" ELSE "ok", got)
      \/ /\ ~worked /\ c.do \in {"install", "uninstall"}
         /\ y.phase = x.phase /\ y.commands = OneByOne(c) \o rest
         /\ y.got = x.got /\ y.lost = x.lost /\ y.at = x.at /\ y.logs = x.logs
      \/ TaskOver(x, y, t, "failed", x.got)
  BY DEF Answered
<1> HIDE DEF rest, got, lost
<1>5. CASE /\ worked \/ ~c.checked \/ IsOne(c)
           /\ rest # <<>> /\ IsRun(y) /\ y.phase = x.phase /\ y.commands = rest
           /\ y.got = got /\ y.lost = lost /\ y.at = x.at /\ y.logs = x.logs
  <2>1. InPlaceUpTo(y, play, o, n, g)
    BY <1>5 DEF InPlaceUpTo
  <2>2. AtHand(y, play, o, n, g)
    BY <1>2, <1>3, <1>5 DEF AtHand
  <2> QED
    BY <2>1, <2>2 DEF Progress
<1>6. CASE /\ worked \/ ~c.checked \/ IsOne(c)
           /\ rest = <<>>
           /\ TaskOver(x, y, t, IF lost # {} /\ (got = {} \/ ~t.lenient) THEN "failed"
                                ELSE IF x.changed THEN "changed" ELSE "ok", got)
  <2> DEFINE status == IF lost # {} /\ (got = {} \/ ~t.lenient) THEN "failed"
                       ELSE IF x.changed THEN "changed" ELSE "ok"
  <2>1. status \in TaskStatuses /\ TaskOver(x, y, t, status, got)
    BY <1>6 DEF TaskStatuses
  <2>2. status \in {"ok", "changed"} => lost = {} \/ (got # {} /\ t.lenient)
    OBVIOUS
  <2>3. Toward(t, <<>>, lost, got, n)
    BY <1>3, <1>6
  <2>4. TaskOn(t, n)
    <3>1. worked => Lawful(c, m, n)
      BY EffectIsLawful DEF TaskOn
    <3>2. worked => IsMachine(n) /\ SameKind(m, n)
      BY <3>1 DEF Lawful
    <3> QED
      BY <3>2 DEF TaskOn, SameKind
  <2> HIDE DEF status, t
  <2>5. status \in {"ok", "changed"} => IsInPlace(t, n)
    BY <2>2, <2>3, <2>4, InPlaceAtLast
  <2>6. g = 0 /\ ~RestlessOn(t, o) => Reached(t, n)
    BY <1>2, <2>3, GotIsForgotten DEF Reached
  <2> QED
    BY <2>1, <2>5, <2>6, OverProgress DEF t
<1>7. CASE /\ ~worked /\ c.do \in {"install", "uninstall"}
           /\ y.phase = x.phase /\ y.commands = OneByOne(c) \o rest
           /\ y.got = x.got /\ y.lost = x.lost /\ y.at = x.at /\ y.logs = x.logs
  <2>1. InPlaceUpTo(y, play, o, n, g)
    BY <1>7 DEF InPlaceUpTo
  <2>2. Toward(t, OneByOne(c) \o rest, x.lost, x.got, m)
    BY <1>1, <1>7, TowardWithout DEF rest
  <2>3. AtHand(y, play, o, n, g)
    BY <1>2, <1>7, <2>2 DEF AtHand
  <2> QED
    BY <2>1, <2>3 DEF Progress
<1>8. CASE TaskOver(x, y, t, "failed", x.got)
  <2> DEFINE status == "failed"
  <2>1. status \in TaskStatuses /\ TaskOver(x, y, t, status, x.got) /\ status \notin {"ok", "changed"}
    BY <1>8 DEF TaskStatuses
  <2> HIDE DEF status, t
  <2> QED
    BY <2>1, OverProgress
<1> QED
  BY <1>4, <1>5, <1>6, <1>7, <1>8

-----------------------------------------------------------------------------
(* What is in place stays in place.                                        *)

\* What went wrong is not forgotten.
LEMMA Remembered ==
    ASSUME PlaybookTypeOK, [PlaybookNext]_playbookVars
    PROVE  /\ unseen => unseen'
           /\ blind => blind'
           /\ together => together'
           /\ faults' = 0 => faults = 0
<1>0. faults \in Nat
  BY DEF PlaybookTypeOK
<1>1. together => together'
  BY StaysStarted
<1> DEFINE Kept == (unseen => unseen') /\ (blind => blind') /\ (faults' = 0 => faults = 0)
<1>2. ASSUME UNCHANGED <<unseen, blind, faults>> \/ (UNCHANGED <<unseen, blind>> /\ Fault) PROVE Kept
  BY <1>0, <1>2 DEF Fault
<1> SUFFICES Kept
  BY <1>1
<1>3. CASE UNCHANGED playbookVars
  BY <1>2, <1>3 DEF playbookVars
<1>4. CASE \E c \in leftOver : LeftOverEnds(c)
  <2>1. UNCHANGED <<unseen, blind, faults>>
    BY <1>4 DEF LeftOverEnds
  <2> QED
    BY <1>2, <2>1
<1>5. CASE \E r \in Runs : Start(r) \/ Skip(r) \/ Look(r) \/ LookBlind(r) \/ Exec(r)
                        \/ ExecFails(r) \/ ExecRejects(r) \/ ExecTimesOut(r) \/ ExecCut(r)
                        \/ Finish(r) \/ Verify(r) \/ VerifyThrows(r)
  <2>1. PICK r \in Runs : Start(r) \/ Skip(r) \/ Look(r) \/ LookBlind(r) \/ Exec(r)
                        \/ ExecFails(r) \/ ExecRejects(r) \/ ExecTimesOut(r) \/ ExecCut(r)
                        \/ Finish(r) \/ Verify(r) \/ VerifyThrows(r)
    BY <1>5
  <2>2. CASE Start(r) \/ Skip(r) \/ Finish(r) \/ Verify(r)
    <3>1. UNCHANGED <<unseen, blind, faults>>
      BY <2>2 DEF Start, Skip, Finish, Verify
    <3> QED
      BY <1>2, <3>1
  <2>3. CASE ExecRejects(r) \/ ExecTimesOut(r) \/ VerifyThrows(r)
    <3>1. UNCHANGED <<unseen, blind>> /\ Fault
      BY <2>3 DEF ExecRejects, ExecTimesOut, VerifyThrows
    <3> QED
      BY <1>2, <3>1
  <2>4. CASE Look(r)
    <3>1. UNCHANGED <<unseen, blind, faults>>
      BY <2>4 DEF Look, Dispatch
    <3> QED
      BY <1>2, <3>1
  <2>5. CASE LookBlind(r)
    <3>1. unseen' = unseen /\ Fault /\ blind' = TRUE
      BY <2>5 DEF LookBlind, Dispatch
    <3> QED
      BY <1>0, <3>1 DEF Fault
  <2>6. CASE Exec(r)
    <3>1. (unseen => unseen') /\ blind' = blind /\ faults' = faults
      BY <2>6, ExecIs
    <3> QED
      BY <3>1
  <2>7. CASE ExecFails(r) \/ ExecCut(r)
    <3>1. (unseen => unseen') /\ (blind => blind') /\ faults' = faults + 1
      BY <2>7, FaultIs
    <3> QED
      BY <1>0, <3>1
  <2> QED
    BY <2>1, <2>2, <2>3, <2>4, <2>5, <2>6, <2>7
<1> QED
  BY <1>3, <1>4, <1>5 DEF PlaybookNext

\* A repository that was there stays there.
ReposInv == origin.repos \subseteq host.repos

LEMMA ReposKept ==
    ASSUME NEW m, IsMachine(m), NEW c, IsCommand(c, DOMAIN m.users)
    PROVE  m.repos \subseteq Effect(c, m).repos /\ Torn(c, m).repos = m.repos
<1>1. Torn(c, m).repos = m.repos
  BY DEF Torn, IsMachine
<1>2. c.do \in Deeds
  BY DEF IsCommand
<1>3. CASE c.do \in {"install", "installOne"}
  BY <1>1, <1>3 DEF Effect, IsMachine
<1>4. CASE c.do = "repo"
  BY <1>1, <1>4 DEF Effect, IsMachine
<1>5. CASE c.do \in Deeds \ {"install", "installOne", "repo"}
  <2>1. Effect(c, m).repos = m.repos
    <3>1. CASE c.do \in {"write", "run", "certbot", "remove", "backup", "chmod"}
      BY <3>1 DEF Effect, IsMachine
    <3>2. CASE c.do \in {"uninstall", "uninstallOne", "start", "restart", "stop", "enable", "disable"}
      BY <3>2 DEF Effect, IsMachine
    <3>3. CASE c.do \in {"useradd", "usermod", "userdel", "ufw", "rule", "reset", "reload"}
      BY <3>3 DEF Effect, IsMachine
    <3> QED
      BY <1>5, <3>1, <3>2, <3>3 DEF Deeds, Contents
  <2> QED
    BY <1>1, <2>1
<1> QED
  BY <1>2, <1>3, <1>4, <1>5

LEMMA ReposStart == ASSUME PlaybookInit PROVE ReposInv
BY DEF PlaybookInit, ReposInv, origin

LEMMA ReposStep ==
    ASSUME PlaybookTypeOK, ReposInv, [PlaybookNext]_playbookVars
    PROVE  ReposInv'
<1>1. scenario' = scenario
  BY StaysStarted
<1>2. SUFFICES ASSUME TRUE PROVE host.repos \subseteq host'.repos
  BY <1>1 DEF ReposInv, origin
<1>3. IsMachine(host) /\ DOMAIN host.users = DOMAIN origin.users
  BY DEF PlaybookTypeOK, SameKind, origin
<1>4. ASSUME NEW c \in leftOver, LeftOverEnds(c) PROVE host.repos \subseteq host'.repos
  <2>1. IsCommand(c, DOMAIN host.users)
    BY <1>3 DEF PlaybookTypeOK, origin
  <2>2. host' = host \/ host' = Effect(c, host)
    BY <1>4 DEF LeftOverEnds
  <2> QED
    BY <1>3, <2>1, <2>2, ReposKept
<1>5. ASSUME NEW r \in Runs, Exec(r) \/ ExecFails(r) \/ ExecTimesOut(r) \/ ExecCut(r)
      PROVE  host.repos \subseteq host'.repos
  <2> DEFINE c == Command1(r)
  <2>1. SendsCommands(r)
    BY <1>5 DEF Exec, ExecFails, ExecTimesOut, ExecCut
  <2>2. IsCommand(c, DOMAIN host.users)
    BY <2>1, Sending
  <2>3. host' = host \/ host' = Effect(c, host) \/ host' = Torn(c, host)
    <3>1. CASE Exec(r)
      BY <3>1, ExecIs
    <3>2. CASE ExecFails(r) \/ ExecTimesOut(r) \/ ExecCut(r)
      BY <3>2, FaultIs
    <3> QED
      BY <1>5, <3>1, <3>2
  <2> HIDE DEF c
  <2> QED
    BY <1>3, <2>2, <2>3, ReposKept
<1>6. ASSUME NEW r \in Runs, Idles(r) \/ Ends(r) \/ Look(r) \/ LookBlind(r) PROVE host.repos \subseteq host'.repos
  <2>1. host' = host
    BY <1>6 DEF Idles, Ends, Look, LookBlind, Dispatch
  <2> QED
    BY <2>1
<1>7. CASE UNCHANGED playbookVars
  BY <1>7 DEF playbookVars
<1> QED
  BY <1>4, <1>5, <1>6, <1>7, RunSteps

\* As long as nothing goes wrong, every command that is not checked works.
CleanInv == faults = 0 /\ ~together => ~unseen /\ ~blind

LEMMA CleanStart == ASSUME PlaybookInit PROVE CleanInv
BY DEF PlaybookInit, CleanInv

LEMMA CleanStep ==
    ASSUME PlaybookTypeOK, CleanInv, [PlaybookNext]_playbookVars
    PROVE  CleanInv'
<1> SUFFICES ASSUME faults' = 0, ~together' PROVE ~unseen' /\ ~blind'
  BY DEF CleanInv
<1>1. ~unseen /\ ~blind
  BY CleanSteps DEF CleanInv
<1>2. CASE UNCHANGED playbookVars
  BY <1>1, <1>2 DEF playbookVars
<1>3. ASSUME NEW r \in Runs, Idles(r) \/ Ends(r) \/ Look(r) PROVE ~unseen' /\ ~blind'
  BY <1>1, <1>3 DEF Idles, Ends, Look, Dispatch
<1>4. ASSUME NEW r \in Runs, Exec(r) PROVE ~unseen' /\ ~blind'
  <2> DEFINE c == Command1(r)
  <2>1. SendsCommands(r) /\ unseen' = (unseen \/ (~Possible(c, host) /\ ~c.checked)) /\ blind' = blind
    BY <1>4, ExecIs
  <2>2. IsCommand(c, DOMAIN host.users)
    BY <2>1, Sending
  <2> HIDE DEF c
  <2>3. ~c.checked => Possible(c, host)
    <3>1. ~c.checked => c.do \in {"repo", "backup", "chmod", "disable", "stop", "write"}
      BY <2>2 DEF IsCommand
    <3>2. c.do \in {"repo", "backup", "chmod", "disable", "stop", "write"} => Possible(c, host)
      BY DEF Possible
    <3> QED
      BY <3>1, <3>2
  <2> QED
    BY <1>1, <2>1, <2>3
<1> QED
  BY <1>2, <1>3, <1>4, CleanSteps

\* While no other run has begun after it and all that failed was seen, what a run has
\* logged as done is so, and what its task at work has still to do is on its list.
InPlaceInv ==
    \A r \in Runs :
        (/\ ~Dry(r) /\ ~unseen /\ ~blind /\ ~together
         /\ \A q \in (r + 1)..2 : run[q].phase = "idle") =>
        Progress(run[r], Play(r), origin, host, faults)

\* A run that did not begin has asked for nothing.
LEMMA IdleProgress ==
    ASSUME NEW x, IsRun(x), NEW n, Counted(x, n), x.phase = "idle", NEW play, NEW o, NEW m, NEW f
    PROVE  Progress(x, play, o, m, f)
<1>1. Len(x.logs) = 0
  BY DEF Counted
<1>2. DOMAIN x.logs = {}
  BY <1>1 DEF IsRun
<1> QED
  BY <1>2 DEF Progress, InPlaceUpTo, AtHand

LEMMA InPlaceStart == ASSUME PlaybookInit PROVE InPlaceInv
<1>1. PlaybookTypeOK
  BY TypeStarts
<1>2. SUFFICES ASSUME NEW r \in Runs PROVE Progress(run[r], Play(r), origin, host, faults)
  BY DEF InPlaceInv
<1>3. run[r].phase = "idle"
  BY DEF PlaybookInit, NotStarted
<1>4. IsRun(run[r]) /\ Counted(run[r], Len(Play(r)))
  BY <1>1 DEF PlaybookTypeOK, RunOk, Play
<1> QED
  BY <1>3, <1>4, IdleProgress

\* A step of the run itself.
LEMMA OwnProgress ==
    ASSUME PlaybookTypeOK, ReposInv, [PlaybookNext]_playbookVars, NEW r \in Runs, ~Dry(r),
           Progress(run[r], Play(r), origin, host, faults), ~unseen', ~blind', ~together',
           Idles(r) \/ Ends(r) \/ Look(r) \/ LookBlind(r) \/ Exec(r) \/ ExecFails(r) \/ ExecTimesOut(r) \/ ExecCut(r)
    PROVE  Progress(run'[r], Play(r), origin, host', faults')
<1> DEFINE x == run[r]
           y == run'[r]
           play == Play(r)
           o == origin
           m == host
           n == host'
           f == faults
           g == faults'
           c == Command1(r)
<1>1. /\ IsRun(x) /\ Counted(x, Len(play)) /\ Len(play) \in Nat
      /\ \A i \in 1..Len(play) : TaskOn(play[i], m)
  BY ScenarioIs DEF PlaybookTypeOK, RunOk, Play
<1>2. IsMachine(m) /\ o.apt = m.apt /\ DOMAIN m.users = DOMAIN o.users
  BY DEF PlaybookTypeOK, SameKind, origin
<1>3. g = 0 => f = 0
  BY Remembered
<1>4. InPlaceUpTo(x, play, o, m, f) /\ AtHand(x, play, o, m, f)
  BY DEF Progress
<1>5. InPlaceUpTo(x, play, o, m, g)
  <2> HIDE DEF x, play, o, m, f, g
  <2> QED
    BY <1>3, <1>4 DEF InPlaceUpTo
<1>6. ASSUME x.phase \in {"task", "act"}
      PROVE  x.at \in 1..(Len(play) + 1) /\ Len(x.logs) = x.at - 1 /\ x.at \in Nat /\ DOMAIN x.logs = 1..(x.at - 1)
  <2> HIDE DEF x, play
  <2>1. x.at \in 1..(Len(play) + 1) /\ Len(x.logs) = x.at - 1 /\ x.at \in Nat
    BY <1>1, <1>6 DEF Counted, IsRun
  <2>2. DOMAIN x.logs = 1..(x.at - 1)
    BY <1>1, <2>1 DEF IsRun
  <2> QED
    BY <2>1, <2>2
<1>7. CASE Idles(r)
  <2>1. n = m /\ y.logs = x.logs /\ y.phase # "act"
    BY <1>7 DEF Idles, Idling
  <2> HIDE DEF x, y, play, o, m, n, f, g
  <2>2. Progress(y, play, o, n, g)
    BY <1>5, <2>1 DEF Progress, InPlaceUpTo, AtHand
  <2> QED
    BY <2>2 DEF y, play, o, n, g
<1>8. CASE Ends(r)
  <2>1. /\ n = m /\ x.phase \in {"task", "act"}
        /\ TaskOver(x, y, Task(r), "skipped", x.got) \/ TaskOver(x, y, Task(r), "failed", x.got)
    BY <1>8 DEF Ends
  <2>2. x.at \in Nat /\ Len(x.logs) = x.at - 1
    BY <1>6, <2>1
  <2> HIDE DEF x, y, play, o, m, n, f, g
  <2>3. \E status \in TaskStatuses : status \notin {"ok", "changed"} /\ TaskOver(x, y, Task(r), status, x.got)
    BY <2>1 DEF TaskStatuses
  <2>4. PICK status \in TaskStatuses : status \notin {"ok", "changed"} /\ TaskOver(x, y, Task(r), status, x.got)
    BY <2>3
  <2>5. Progress(y, play, o, m, g)
    BY <1>1, <1>5, <2>2, <2>4, OverProgress
  <2> QED
    BY <2>1, <2>5 DEF y, play, o, n, g
<1>9. CASE Look(r)
  <2>1. /\ x.phase = "task" /\ x.at \in 1..Len(play) /\ Task(r) = play[x.at] /\ TaskOn(Task(r), m)
        /\ \E plan, k : Looked(x, y, Task(r), plan, Dry(r)) /\ plan = Plan(Task(r), m, Dry(r))
    BY <1>9, Looking
  <2>2. n = m /\ g = f /\ Dry(r) = FALSE
    <3>1. Dry(r) \in BOOLEAN
      BY ScenarioIs
    <3> QED
      BY <1>9, <3>1 DEF Look, Dispatch
  <2>3. PICK plan : Looked(x, y, play[x.at], plan, FALSE) /\ plan = Plan(play[x.at], m, FALSE)
    BY <2>1, <2>2
  <2>4. TaskOn(play[x.at], m) /\ x.at \in Nat /\ Len(x.logs) = x.at - 1
    BY <1>6, <2>1
  <2> HIDE DEF x, y, play, o, m, n, f, g
  <2>5. Progress(y, play, o, m, g)
    BY <1>1, <1>5, <2>3, <2>4, LookProgress
  <2> QED
    BY <2>2, <2>5 DEF y, play, o, n, g
<1>10. CASE LookBlind(r)
  BY <1>10 DEF LookBlind
<1>11. CASE Exec(r) \/ ExecFails(r) \/ ExecTimesOut(r) \/ ExecCut(r)
  <2>1. SendsCommands(r)
    BY <1>11 DEF Exec, ExecFails, ExecTimesOut, ExecCut
  <2>2. /\ x.phase = "act" /\ x.at \in 1..Len(play) /\ x.commands # <<>> /\ IsList(x.commands)
        /\ c = Head(x.commands) /\ IsCommand(c, DOMAIN m.users) /\ Touched(c) \subseteq Concern(play[x.at], o)
        /\ Task(r) = play[x.at]
    BY <2>1, Sending
  <2>3. \E worked \in BOOLEAN :
            /\ Answered(x, y, play[x.at], worked)
            /\ worked => Possible(c, m) /\ n = Effect(c, m)
            /\ ~worked => n = m /\ c.checked
            /\ ~worked /\ g = 0 => ~Possible(c, m)
    <3>1. CASE Exec(r)
      <4>1. /\ Answered(x, y, play[x.at], Possible(c, m))
            /\ Possible(c, m) => n = Effect(c, m)
            /\ ~Possible(c, m) => n = m
            /\ unseen' = (unseen \/ (~Possible(c, m) /\ ~c.checked))
        BY <2>2, <3>1, ExecIs
      <4>2. Possible(c, m) \in BOOLEAN
        BY PossibleIs
      <4> HIDE DEF x, y, play, m, n, c, g
      <4> QED
        BY <4>1, <4>2
    <3>2. CASE ExecFails(r) \/ ExecTimesOut(r) \/ ExecCut(r)
      <4>1. /\ Answered(x, y, play[x.at], FALSE) \/ (unseen' /\ Answered(x, y, play[x.at], TRUE))
            /\ n = m \/ blind'
            /\ ~c.checked => unseen' \/ together'
            /\ g = f + 1
        BY <2>2, <3>2, FaultIs
      <4>2. f \in Nat
        BY DEF PlaybookTypeOK
      <4>3. g # 0
        BY <4>1, <4>2
      <4> DEFINE worked == FALSE
      <4>4. worked \in BOOLEAN /\ ~worked
        OBVIOUS
      <4>5. Answered(x, y, play[x.at], worked) /\ n = m /\ c.checked
        BY <4>1
      <4> HIDE DEF x, y, play, m, n, c, f, g, worked
      <4> QED
        BY <4>3, <4>4, <4>5
    <3> QED
      BY <1>11, <3>1, <3>2
  <2>4. PICK worked \in BOOLEAN :
            /\ Answered(x, y, play[x.at], worked)
            /\ worked => Possible(c, m) /\ n = Effect(c, m)
            /\ ~worked => n = m /\ c.checked
            /\ ~worked /\ g = 0 => ~Possible(c, m)
    BY <2>3
  <2>5. /\ TaskOn(play[x.at], m) /\ x.at \in Nat /\ Len(x.logs) = x.at - 1 /\ DOMAIN x.logs = 1..(x.at - 1)
        /\ o.repos \subseteq m.repos
    BY <1>1, <1>6, <2>2 DEF ReposInv
  <2>6. play[x.at].module = "package" => play[x.at].state \in {"present", "absent"}
    BY <2>5 DEF TaskOn, IsTask
  <2> HIDE DEF x, y, play, o, m, n, f, g, c
  <2>7. InPlaceUpTo(x, play, o, n, g)
    <3>1. CASE worked
      BY <1>1, <1>2, <1>5, <2>2, <2>4, <2>5, <3>1, EarlierStay
    <3>2. CASE ~worked
      BY <1>5, <2>4, <3>2
    <3> QED
      BY <3>1, <3>2
  <2>8. ~worked /\ g = 0 /\ IsOne(c) => RestlessOn(play[x.at], o)
    <3>1. Toward(play[x.at], x.commands, x.lost, x.got, m)
      BY <1>4, <2>2 DEF AtHand
    <3> QED
      BY <1>2, <2>2, <2>4, <2>5, <2>6, <3>1, LostIsRestless
  <2>9. Progress(y, play, o, n, g)
    BY <1>1, <1>3, <1>4, <2>2, <2>4, <2>5, <2>7, <2>8, AnsweredProgress
  <2> QED
    BY <2>9 DEF y, play, o, n, g
<1> QED
  BY <1>7, <1>8, <1>9, <1>10, <1>11

LEMMA InPlaceStep ==
    ASSUME PlaybookTypeOK, ReposInv, InPlaceInv, [PlaybookNext]_playbookVars
    PROVE  InPlaceInv'
<1>0. PlaybookTypeOK'
  BY TypeSteps
<1>1. scenario' = scenario /\ Started \subseteq Started'
  BY StaysStarted
<1>2. origin' = origin /\ \A q \in Runs : Play(q)' = Play(q) /\ Dry(q)' = Dry(q)
  BY <1>1 DEF origin, Play, Dry
<1>3. SUFFICES ASSUME NEW r \in Runs, ~Dry(r), ~unseen', ~blind', ~together',
                      \A q \in (r + 1)..2 : run'[q].phase = "idle"
               PROVE  Progress(run'[r], Play(r), origin, host', faults')
  BY <1>2 DEF InPlaceInv
<1>4. ~unseen /\ ~blind /\ ~together
  BY <1>3, Remembered
<1>5. \A q \in (r + 1)..2 : q \in Runs /\ run[q].phase = "idle"
  <2>1. \A q \in (r + 1)..2 : q \in Runs
    BY DEF Runs
  <2> QED
    BY <1>1, <1>3, <2>1 DEF Started
<1>6. Progress(run[r], Play(r), origin, host, faults)
  BY <1>3, <1>4, <1>5 DEF InPlaceInv
<1>7. CASE UNCHANGED playbookVars
  BY <1>6, <1>7 DEF playbookVars
<1>8. CASE \E c \in leftOver : LeftOverEnds(c)
  BY <1>4, <1>8 DEF PlaybookTypeOK
<1>9. CASE run'[r].phase = "idle"
  <2>1. IsRun(run'[r]) /\ \E n : Counted(run'[r], n)
    BY <1>0 DEF PlaybookTypeOK, RunOk
  <2> QED
    BY <1>9, <2>1, IdleProgress
<1>10. ASSUME NEW q \in Runs, \A p \in Runs \ {q} : run'[p] = run[p],
              Idles(q) \/ Ends(q) \/ Look(q) \/ LookBlind(q) \/ Exec(q) \/ ExecFails(q) \/ ExecTimesOut(q) \/ ExecCut(q),
              run'[r].phase # "idle"
       PROVE  Progress(run'[r], Play(r), origin, host', faults')
  <2>1. CASE q = r
    BY <1>3, <1>6, <1>10, <2>1, OwnProgress
  <2>2. CASE q # r
    <3>1. AtWork(q) \/ (run[q].phase = "idle" /\ run'[q].phase = "task")
      <4>1. CASE Idles(q)
        BY <4>1 DEF Idles
      <4>2. CASE Ends(q)
        BY <4>2 DEF Ends
      <4>3. CASE Look(q) \/ LookBlind(q)
        BY <4>3, Looking
      <4>4. CASE Exec(q) \/ ExecFails(q) \/ ExecTimesOut(q) \/ ExecCut(q)
        <5>1. SendsCommands(q)
          BY <4>4 DEF Exec, ExecFails, ExecTimesOut, ExecCut
        <5> QED
          BY <5>1, Sending
      <4> QED
        BY <1>10, <4>1, <4>2, <4>3, <4>4
    <3>2. run[r].phase # "idle"
      BY <1>10, <2>2
    <3>3. CASE q = 2 /\ r = 1
      <4>1. run'[2].phase = "idle" /\ run[2].phase = "idle"
        BY <1>3, <1>5, <3>3
      <4> QED
        BY <3>1, <3>3, <4>1 DEF AtWork
    <3>4. CASE q = 1 /\ r = 2
      <4>1. run[1].phase = "done"
        BY <1>4, <3>2, <3>4 DEF PlaybookTypeOK
      <4> QED
        BY <3>1, <3>4, <4>1 DEF AtWork
    <3> QED
      BY <2>2, <3>3, <3>4 DEF Runs
  <2> QED
    BY <2>1, <2>2
<1> QED
  BY <1>7, <1>8, <1>9, <1>10, RunSteps

LEMMA InPlaceFollows == ASSUME PlaybookTypeOK, InPlaceInv PROVE OkMeansInPlace
<1> SUFFICES ASSUME NEW r \in Runs, ~Dry(r), ~unseen, ~blind, ~together,
                    \A q \in (r + 1)..2 : run[q].phase = "idle",
                    NEW i \in DOMAIN run[r].logs, run[r].logs[i] \in {"ok", "changed"},
                    \A j \in (i + 1)..Len(Play(r)) : Apart(Play(r)[i], Play(r)[j])
             PROVE  IsInPlace(Play(r)[i], host)
  BY DEF OkMeansInPlace
<1>1. InPlaceUpTo(run[r], Play(r), origin, host, faults)
  BY DEF InPlaceInv, Progress
<1>2. Stays(Play(r), i, origin)
  BY DEF Stays, Apart
<1> QED
  BY <1>1, <1>2 DEF InPlaceUpTo

-----------------------------------------------------------------------------
(* A second run.                                                           *)

\* Only a task with a condition is skipped.
Skipped(x, play) == \A i \in DOMAIN x.logs : x.logs[i] = "skipped" => play[i].when # 0

\* (runPlaybook: the only way to "skipped" is a condition that does not hold)
SkippedInv == \A r \in Runs : Skipped(run[r], Play(r))

\* A run whose tasks before this one are in its log.
InStep(x) == IsRun(x) /\ x.at \in Nat /\ Len(x.logs) = x.at - 1

LEMMA SkippedOver ==
    ASSUME NEW x, NEW y, NEW task, NEW status \in TaskStatuses, NEW got, TaskOver(x, y, task, status, got),
           InStep(x), NEW play, Skipped(x, play),
           status = "skipped" => play[x.at].when # 0
    PROVE  Skipped(y, play)
<1>1. /\ DOMAIN x.logs = 1..(x.at - 1) /\ DOMAIN y.logs = 1..x.at
      /\ \A i \in 1..(x.at - 1) : y.logs[i] = x.logs[i]
      /\ y.logs[x.at] = status
  BY LogGrows, ZenonT(40) DEF InStep
<1>2. \A i \in 1..x.at : i \in 1..(x.at - 1) \/ i = x.at
  BY DEF InStep
<1>3. SUFFICES ASSUME NEW i \in 1..x.at, y.logs[i] = "skipped" PROVE play[i].when # 0
  BY <1>1 DEF Skipped
<1>4. CASE i \in 1..(x.at - 1)
  BY <1>1, <1>3, <1>4 DEF Skipped
<1>5. CASE i = x.at
  BY <1>1, <1>3, <1>5
<1> QED
  BY <1>2, <1>4, <1>5

\* A task that is looked at or answered is not skipped.
LEMMA LookedStatus ==
    ASSUME NEW x, NEW y, NEW task, NEW plan, NEW dry, Looked(x, y, task, plan, dry)
    PROVE  y.logs = x.logs \/ \E status \in TaskStatuses \ {"skipped"} : TaskOver(x, y, task, status, {})
<1>1. CASE plan.refused /\ TaskOver(x, y, task, "failed", {})
  BY <1>1 DEF TaskStatuses
<1>2. CASE TaskOver(x, y, task, IF plan.changed THEN "changed" ELSE "ok", {})
  <2> DEFINE status == IF plan.changed THEN "changed" ELSE "ok"
  <2>1. TaskOver(x, y, task, status, {}) /\ status \in TaskStatuses \ {"skipped"}
    BY <1>2 DEF TaskStatuses
  <2> HIDE DEF status
  <2> QED
    BY <2>1
<1> QED
  BY <1>1, <1>2 DEF Looked

LEMMA AnsweredStatus ==
    ASSUME NEW x, NEW y, NEW task, NEW worked \in BOOLEAN, Answered(x, y, task, worked)
    PROVE  y.logs = x.logs \/ \E status \in TaskStatuses \ {"skipped"} : \E got : TaskOver(x, y, task, status, got)
<1> DEFINE c == Head(x.commands)
           got == IF worked /\ (IsOne(c) \/ c.do \in {"install", "uninstall"}) THEN x.got \cup c.on ELSE x.got
           lost == IF worked \/ ~IsOne(c) THEN x.lost ELSE x.lost \cup c.on
           status == IF lost # {} /\ (got = {} \/ ~task.lenient) THEN "failed"
                     ELSE IF x.changed THEN "changed" ELSE "ok"
<1>1. y.logs = x.logs \/ TaskOver(x, y, task, status, got) \/ TaskOver(x, y, task, "failed", x.got)
  BY DEF Answered
<1>2. status \in TaskStatuses \ {"skipped"} /\ "failed" \in TaskStatuses \ {"skipped"}
  BY DEF TaskStatuses
<1> HIDE DEF status, got
<1> QED
  BY <1>1, <1>2

LEMMA SkippedStart == ASSUME PlaybookInit PROVE SkippedInv
<1>1. ASSUME NEW r \in Runs PROVE DOMAIN run[r].logs = {}
  BY DEF PlaybookInit, NotStarted
<1> QED
  BY <1>1 DEF SkippedInv, Skipped

LEMMA SkippedStep ==
    ASSUME PlaybookTypeOK, SkippedInv, [PlaybookNext]_playbookVars
    PROVE  SkippedInv'
<1>1. scenario' = scenario
  BY StaysStarted
<1>2. \A q \in Runs : Play(q)' = Play(q)
  BY <1>1 DEF Play
<1>3. SUFFICES ASSUME NEW r \in Runs PROVE Skipped(run'[r], Play(r))
  BY <1>2 DEF SkippedInv
<1> DEFINE x == run[r]
           y == run'[r]
           play == Play(r)
<1>4. Skipped(x, play)
  BY DEF SkippedInv
<1>5. CASE y.logs = x.logs
  BY <1>4, <1>5 DEF Skipped
<1>6. CASE UNCHANGED playbookVars
  BY <1>4, <1>6 DEF playbookVars
<1>7. CASE \E c \in leftOver : LeftOverEnds(c)
  BY <1>4, <1>7 DEF LeftOverEnds
<1>8. IsRun(x) /\ Counted(x, Len(play)) /\ Len(play) \in Nat
  BY ScenarioIs DEF PlaybookTypeOK, RunOk, Play
<1>9. ASSUME x.phase \in {"task", "act"} PROVE InStep(x)
  <2> HIDE DEF x, play
  <2> QED
    BY <1>8, <1>9 DEF Counted, IsRun, InStep
<1>10. ASSUME x.phase \in {"task", "act"},
              \E status \in TaskStatuses : \E got : /\ TaskOver(x, y, Task(r), status, got)
                                                    /\ status = "skipped" => play[x.at].when # 0
       PROVE  Skipped(y, play)
  <2>1. PICK status \in TaskStatuses : \E got : /\ TaskOver(x, y, Task(r), status, got)
                                                /\ status = "skipped" => play[x.at].when # 0
    BY <1>10
  <2>0. PICK got : /\ TaskOver(x, y, Task(r), status, got)
                   /\ status = "skipped" => play[x.at].when # 0
    BY <2>1
  <2>2. InStep(x)
    BY <1>9, <1>10
  <2> HIDE DEF x, y, play
  <2> QED
    BY <1>4, <1>8, <2>0, <2>2, SkippedOver
<1>11. ASSUME NEW q \in Runs, \A p \in Runs \ {q} : run'[p] = run[p],
              Idles(q) \/ Ends(q) \/ Look(q) \/ LookBlind(q) \/ Exec(q) \/ ExecFails(q) \/ ExecTimesOut(q) \/ ExecCut(q)
       PROVE  Skipped(run'[r], Play(r))
  <2>1. CASE q # r
    BY <1>5, <1>11, <2>1
  <2>2. CASE q = r /\ Idles(r)
    <3>1. y.logs = x.logs
      BY <2>2 DEF Idles, Idling
    <3> QED
      BY <1>5, <3>1
  <2>3. CASE q = r /\ Ends(r)
    <3>1. CASE /\ x.phase = "task" /\ ~MayRun(Task(r), x)
               /\ TaskOver(x, y, Task(r), "skipped", x.got)
      <4>1. play[x.at].when # 0
        BY <3>1 DEF MayRun, Task
      <4>2. \E status \in TaskStatuses : \E got : /\ TaskOver(x, y, Task(r), status, got)
                                                  /\ status = "skipped" => play[x.at].when # 0
        BY <3>1, <4>1 DEF TaskStatuses
      <4> QED
        BY <1>10, <3>1, <4>2
    <3>2. CASE x.phase = "act" /\ TaskOver(x, y, Task(r), "failed", x.got)
      <4>1. \E status \in TaskStatuses : \E got : /\ TaskOver(x, y, Task(r), status, got)
                                                  /\ status = "skipped" => play[x.at].when # 0
        BY <3>2 DEF TaskStatuses
      <4> QED
        BY <1>10, <3>2, <4>1
    <3> QED
      BY <2>3, <3>1, <3>2 DEF Ends
  <2>4. CASE q = r /\ (Look(r) \/ LookBlind(r))
    <3>1. x.phase = "task" /\ \E plan : Looked(x, y, Task(r), plan, Dry(r))
      BY <2>4, Looking
    <3>2. y.logs = x.logs \/ \E status \in TaskStatuses \ {"skipped"} : TaskOver(x, y, Task(r), status, {})
      BY <3>1, LookedStatus
    <3> QED
      BY <1>5, <1>10, <3>1, <3>2
  <2>5. CASE q = r /\ (Exec(r) \/ ExecFails(r) \/ ExecTimesOut(r) \/ ExecCut(r))
    <3>1. SendsCommands(r)
      BY <2>5 DEF Exec, ExecFails, ExecTimesOut, ExecCut
    <3>2. x.phase = "act"
      BY <3>1, Sending
    <3>3. \E worked \in BOOLEAN : Answered(x, y, Task(r), worked)
      <4>1. CASE Exec(r)
        BY <4>1, ExecIs, PossibleIs
      <4>2. CASE ExecFails(r) \/ ExecTimesOut(r) \/ ExecCut(r)
        BY <4>2, FaultIs
      <4> QED
        BY <2>5, <4>1, <4>2
    <3>4. y.logs = x.logs \/ \E status \in TaskStatuses \ {"skipped"} : \E got : TaskOver(x, y, Task(r), status, got)
      BY <3>3, AnsweredStatus
    <3> QED
      BY <1>5, <1>10, <3>2, <3>4
  <2> QED
    BY <1>11, <2>1, <2>2, <2>3, <2>4, <2>5
<1> QED
  BY <1>6, <1>7, <1>11, RunSteps

-----------------------------------------------------------------------------
\* The second run is a repetition of the first, which went well.
Again ==
    /\ Play(1) = Play(2) /\ ~Dry(1) /\ ~Dry(2) /\ \A t \in Tasks : ~Restless(t)
    /\ \A i, j \in DOMAIN Play(1) : i # j => Apart(Play(1)[i], Play(1)[j])
    /\ run[1].result = "ok" /\ FailedTasks(run[1]) = {}
    /\ faults = 0 /\ ~together

\* Everything a playbook asks for without a condition is so.
AllReached(play, m) == \A i \in DOMAIN play : play[i].when = 0 => Reached(play[i], m)

\* A run that has changed nothing.
Still(x) ==
    /\ x.said = {} /\ \A i \in DOMAIN x.logs : x.logs[i] \in {"ok", "skipped"}
    /\ x.result \in {"none", "ok"} /\ ~x.changed /\ x.lost = {}
    /\ \A c \in ToSet(x.commands) : c.do = "chmod"

\* From its start, the second run finds what the first one left, and leaves it alone.
QuietInv == Again /\ run[2].phase # "idle" => AllReached(Play(2), host) /\ Still(run[2])

LEMMA QuietStart == ASSUME PlaybookInit PROVE QuietInv
<1>1. run[2].phase = "idle"
  BY DEF PlaybookInit, NotStarted, Runs
<1> QED
  BY <1>1 DEF QuietInv

LEMMA StillOver ==
    ASSUME NEW x, NEW y, NEW task, NEW status \in {"ok", "skipped"}, NEW got, TaskOver(x, y, task, status, got),
           InStep(x), Still(x)
    PROVE  Still(y)
<1>0. status \in TaskStatuses
  BY DEF TaskStatuses
<1>1. /\ DOMAIN x.logs = 1..(x.at - 1) /\ DOMAIN y.logs = 1..x.at
      /\ \A i \in 1..(x.at - 1) : y.logs[i] = x.logs[i]
      /\ y.logs[x.at] = status
  BY <1>0, LogGrows DEF InStep
<1>2. \A i \in 1..x.at : i \in 1..(x.at - 1) \/ i = x.at
  BY DEF InStep
<1>3. \A i \in DOMAIN y.logs : y.logs[i] \in {"ok", "skipped"}
  BY <1>1, <1>2 DEF Still
<1>4. y.said = {} /\ y.result \in {"none", "ok"} /\ ~y.changed /\ y.lost = {} /\ y.commands = <<>>
  BY DEF TaskOver, Still
<1> QED
  BY <1>3, <1>4, NothingInside DEF Still

LEMMA StillLooked ==
    ASSUME NEW x, NEW y, NEW task, NEW plan, NEW dry, NEW m, Looked(x, y, task, plan, dry), IsPlan(plan, task, m, dry),
           ~plan.refused, ~plan.changed, InStep(x), Still(x)
    PROVE  Still(y)
<1>1. CASE TaskOver(x, y, task, IF plan.changed THEN "changed" ELSE "ok", {})
  <2> DEFINE status == "ok"
             none == {}
  <2>1. status \in {"ok", "skipped"} /\ TaskOver(x, y, task, status, none)
    BY <1>1
  <2> HIDE DEF status, none
  <2> QED
    BY <2>1, StillOver
<1>2. CASE /\ y.commands = plan.commands /\ y.changed = plan.changed /\ y.lost = {}
           /\ y.logs = x.logs /\ y.said = x.said /\ y.result = x.result
  <2>1. \A c \in ToSet(plan.commands) : c.do = "chmod"
    BY DEF IsPlan
  <2> QED
    BY <1>2, <2>1 DEF Still
<1> QED
  BY <1>1, <1>2 DEF Looked

LEMMA StillAnswered ==
    ASSUME NEW x, NEW y, NEW task, NEW worked, worked = TRUE, Answered(x, y, task, worked),
           InStep(x), Still(x), IsList(x.commands), x.commands # <<>>
    PROVE  Still(y)
<1> DEFINE c == Head(x.commands)
           rest == Tail(x.commands)
           got == IF worked /\ (IsOne(c) \/ c.do \in {"install", "uninstall"}) THEN x.got \cup c.on ELSE x.got
           lost == IF worked \/ ~IsOne(c) THEN x.lost ELSE x.lost \cup c.on
           status == IF lost # {} /\ (got = {} \/ ~task.lenient) THEN "failed"
                     ELSE IF x.changed THEN "changed" ELSE "ok"
<1>1. \/ /\ y.commands = rest /\ y.changed = x.changed /\ y.lost = lost
         /\ y.logs = x.logs /\ y.said = x.said /\ y.result = x.result
      \/ TaskOver(x, y, task, status, got)
  BY DEF Answered
<1>2. lost = {} /\ ~x.changed
  BY DEF Still
<1>3. status = "ok"
  BY <1>2
<1>4. ToSet(rest) \subseteq ToSet(x.commands)
  BY TailOfList
<1> HIDE DEF c, rest, got, lost, status
<1>5. CASE /\ y.commands = rest /\ y.changed = x.changed /\ y.lost = lost
           /\ y.logs = x.logs /\ y.said = x.said /\ y.result = x.result
  BY <1>2, <1>4, <1>5 DEF Still
<1>6. CASE TaskOver(x, y, task, status, got)
  <2>1. status \in {"ok", "skipped"}
    BY <1>3
  <2> QED
    BY <1>6, <2>1, StillOver
<1> QED
  BY <1>1, <1>5, <1>6

\* The machine as the first run leaves it.
LEMMA FirstSettles ==
    ASSUME PlaybookTypeOK, CleanInv, SkippedInv, InPlaceInv, Again, run[2].phase = "idle"
    PROVE  AllReached(Play(2), host)
<1> DEFINE x == run[1]
           play == Play(1)
<1>1. 1 \in Runs /\ 2 \in Runs /\ \A q \in (1 + 1)..2 : q = 2
  BY DEF Runs
<1>2. /\ IsRun(x) /\ Counted(x, Len(play)) /\ Len(play) \in Nat
      /\ DOMAIN play = 1..Len(play)
  BY <1>1, ScenarioIs DEF PlaybookTypeOK, RunOk, Play
<1>3. DOMAIN x.logs = DOMAIN play
  <2>1. x.result = "ok"
    BY DEF Again
  <2> HIDE DEF x, play
  <2>2. Len(x.logs) = Len(play)
    BY <1>2, <2>1 DEF Counted
  <2>3. DOMAIN x.logs = 1..Len(x.logs)
    BY <1>2 DEF IsRun
  <2> QED
    BY <1>2, <2>2, <2>3
<1>4. InPlaceUpTo(x, play, origin, host, faults) /\ faults = 0
  <2>1. ~unseen /\ ~blind /\ ~together /\ ~Dry(1) /\ faults = 0
    BY DEF Again, CleanInv
  <2>2. Progress(x, play, origin, host, faults)
    BY <1>1, <2>1 DEF InPlaceInv
  <2> QED
    BY <2>1, <2>2 DEF Progress
<1>5. SUFFICES ASSUME NEW i \in DOMAIN play, play[i].when = 0 PROVE Reached(play[i], host)
  BY DEF AllReached, Again
<1>6. x.logs[i] \in {"ok", "changed"}
  <2>1. x.logs[i] \in TaskStatuses
    BY <1>2, <1>3 DEF IsRun
  <2>2. x.logs[i] # "skipped"
    BY <1>1, <1>3, <1>5 DEF SkippedInv, Skipped
  <2>3. x.logs[i] # "failed"
    BY <1>3 DEF Again, FailedTasks
  <2> QED
    BY <2>1, <2>2, <2>3 DEF TaskStatuses
<1>7. Stays(play, i, origin)
  <2>1. ASSUME NEW j \in (i + 1)..Len(play) PROVE Concern(play[i], origin) \cap Concern(play[j], origin) = {}
    <3>1. j \in DOMAIN play /\ i # j
      BY <1>2
    <3> QED
      BY <3>1 DEF Again, Apart
  <2> QED
    BY <2>1 DEF Stays
<1>8. ~RestlessOn(play[i], origin)
  <2>1. ~Restless(play[i])
    BY <1>1 DEF Again, Tasks
  <2> DEFINE t == play[i]
  <2> HIDE DEF play
  <2> QED
    BY <2>1 DEF Restless, RestlessOn, Fidgety, NamesOf
<1> QED
  BY <1>3, <1>4, <1>6, <1>7, <1>8 DEF InPlaceUpTo

LEMMA QuietStep ==
    ASSUME PlaybookTypeOK, CleanInv, SkippedInv, InPlaceInv, QuietInv, [PlaybookNext]_playbookVars
    PROVE  QuietInv'
<1> SUFFICES ASSUME Again', run'[2].phase # "idle" PROVE AllReached(Play(2)', host') /\ Still(run'[2])
  BY DEF QuietInv
<1>0. PlaybookTypeOK'
  BY TypeSteps
<1>1. scenario' = scenario
  BY StaysStarted
<1>2. Play(2)' = Play(2) /\ Play(1)' = Play(1) /\ 1 \in Runs /\ 2 \in Runs
  BY <1>1 DEF Play, Runs
<1>3. faults' = 0 /\ ~together' /\ ~Dry(2)
  BY <1>1 DEF Again, Dry
<1>4. faults = 0 /\ ~together
  BY <1>3, CleanSteps
<1>5. ASSUME run'[1] = run[1] PROVE Again
  <2>1. /\ Play(1) = Play(2) /\ ~Dry(1) /\ ~Dry(2) /\ \A t \in Tasks : ~Restless(t)
        /\ \A i, j \in DOMAIN Play(1) : i # j => Apart(Play(1)[i], Play(1)[j])
    BY <1>1 DEF Again, Play, Dry, Tasks, Restless, Apart, origin
  <2>2. run[1].result = "ok" /\ FailedTasks(run[1]) = {}
    BY <1>5 DEF Again
  <2> QED
    BY <1>4, <2>1, <2>2 DEF Again
<1> DEFINE x == run[2]
           y == run'[2]
           play == Play(2)
<1>6. CASE UNCHANGED playbookVars
  <2>1. Again /\ x.phase # "idle" /\ host' = host /\ y = x
    BY <1>5, <1>6 DEF playbookVars
  <2> QED
    BY <1>2, <2>1 DEF QuietInv
<1>8. /\ IsRun(x) /\ Counted(x, Len(play)) /\ Len(play) \in Nat
      /\ DOMAIN play = 1..Len(play) /\ \A i \in 1..Len(play) : TaskOn(play[i], host)
  BY <1>2, ScenarioIs DEF PlaybookTypeOK, RunOk, Play
<1>9. ASSUME x.phase \in {"task", "act"} PROVE InStep(x)
  <2> HIDE DEF x, play
  <2> QED
    BY <1>8, <1>9 DEF Counted, IsRun, InStep
<1>10. ASSUME run'[1] = run[1], Idles(2) PROVE AllReached(play, host') /\ Still(y)
  <2>1. host' = host /\ Idling(x, y)
    BY <1>10 DEF Idles
  <2>2. IsRun(y) /\ Counted(y, Len(play))
    BY <1>0, <1>1, <1>2 DEF PlaybookTypeOK, RunOk, Play
  <2>3. y.result \in {"none", "ok"}
    <3>1. y.phase = "done" => y.result = "ok"
      BY <1>3, <1>4, <1>10 DEF Idles, Fault
    <3> HIDE DEF y, play
    <3> QED
      BY <2>2, <3>1 DEF Counted
  <2>4. CASE x.phase = "idle"
    <3>1. AllReached(play, host)
      BY <1>5, <1>10, <2>4, FirstSettles
    <3>2. Acting(x, play, Dry(2), origin)
      BY <1>2 DEF PlaybookTypeOK, RunOk, Play, Dry, origin
    <3> HIDE DEF x, y, play
    <3>3. Len(x.logs) = 0 /\ x.said = {}
      BY <1>8, <2>4 DEF Counted
    <3>4. DOMAIN x.logs = {} /\ x.commands = <<>> /\ ~x.changed /\ x.lost = {}
      BY <1>8, <2>4, <3>2, <3>3 DEF Acting, IsRun
    <3>5. Still(y)
      BY <2>1, <2>3, <3>3, <3>4, NothingInside DEF Still, Idling
    <3> QED
      BY <2>1, <3>1, <3>5
  <2>5. CASE x.phase # "idle"
    <3>1. AllReached(play, host) /\ Still(x)
      BY <1>5, <1>10, <2>5 DEF QuietInv
    <3> HIDE DEF x, y, play
    <3> QED
      BY <2>1, <2>3, <3>1 DEF Still, Idling
  <2> QED
    BY <2>4, <2>5
<1>11. ASSUME run'[1] = run[1], AtWork(2) PROVE AllReached(play, host) /\ Still(x)
  BY <1>5, <1>11 DEF QuietInv, AtWork
<1>12. ASSUME run'[1] = run[1], AtWork(2), x.phase = "task", TaskOver(x, y, Task(2), "skipped", x.got), host' = host
       PROVE  AllReached(play, host') /\ Still(y)
  <2> DEFINE status == "skipped"
  <2>1. /\ status \in {"ok", "skipped"} /\ TaskOver(x, y, Task(2), status, x.got)
        /\ InStep(x) /\ AllReached(play, host) /\ Still(x)
    BY <1>9, <1>11, <1>12
  <2> HIDE DEF status, x, y, play
  <2> QED
    BY <1>8, <1>12, <2>1, StillOver
<1>13. ASSUME run'[1] = run[1], Look(2) PROVE AllReached(play, host') /\ Still(y)
  <2>1. /\ x.phase = "task" /\ AtWork(2) /\ x.at \in 1..Len(play) /\ MayRun(Task(2), x) /\ Task(2) = play[x.at]
        /\ TaskOn(Task(2), host)
        /\ \E plan : /\ IsPlan(plan, Task(2), host, Dry(2)) /\ Looked(x, y, Task(2), plan, Dry(2))
                     /\ plan = Plan(Task(2), host, Dry(2))
    BY <1>2, <1>13, Looking
  <2>2. Dry(2) = FALSE /\ host' = host
    <3>1. Dry(2) \in BOOLEAN
      BY <1>2, ScenarioIs
    <3> QED
      BY <1>3, <1>13, <3>1 DEF Look, Dispatch
  <2>3. PICK plan : /\ IsPlan(plan, play[x.at], host, FALSE) /\ Looked(x, y, play[x.at], plan, FALSE)
                    /\ plan = Plan(play[x.at], host, FALSE)
    BY <2>1, <2>2
  <2>4. AllReached(play, host) /\ Still(x) /\ InStep(x)
    BY <1>9, <1>11, <1>13, <2>1
  <2>5. ~Restless(play[x.at])
    BY <1>2, <1>5, <1>8, <1>13, <2>1 DEF Again, Tasks
  <2>6. play[x.at].when = 0
    BY <2>1, <2>4 DEF MayRun, Still
  <2> HIDE DEF x, y, play
  <2>7. ~Fidgety(play[x.at])
    BY <2>5 DEF Fidgety, Restless
  <2>8. Reached(play[x.at], host) /\ TaskOn(play[x.at], host)
    BY <1>8, <2>1, <2>4, <2>6 DEF AllReached
  <2>9. ~plan.refused /\ ~plan.changed
    BY <2>3, <2>7, <2>8, QuietPlan
  <2>10. Still(y)
    BY <1>8, <2>3, <2>4, <2>9, StillLooked
  <2> QED
    BY <2>2, <2>4, <2>10
<1>14. ASSUME run'[1] = run[1], Exec(2) PROVE AllReached(play, host') /\ Still(y)
  <2> DEFINE c == Command1(2)
  <2>1. SendsCommands(2)
    BY <1>14 DEF Exec
  <2>2. /\ x.phase = "act" /\ AtWork(2) /\ c = Head(x.commands) /\ x.commands # <<>> /\ IsList(x.commands)
        /\ c \in ToSet(x.commands) /\ IsCommand(c, DOMAIN host.users)
    BY <1>2, <2>1, Sending
  <2>3. AllReached(play, host) /\ Still(x) /\ InStep(x)
    BY <1>9, <1>11, <1>14, <2>2
  <2>4. c.do = "chmod"
    BY <2>2, <2>3 DEF Still
  <2>5. /\ Answered(x, y, Task(2), Possible(c, host))
        /\ Possible(c, host) => host' = Effect(c, host)
    BY <1>2, <1>14, ExecIs
  <2>6. IsMachine(host) /\ host.apt = origin.apt
    BY DEF PlaybookTypeOK, SameKind, origin
  <2> HIDE DEF c, x, y, play
  <2>7. Possible(c, host) /\ Touched(c) = {}
    BY <2>4 DEF Possible, Touched, Contents
  <2>8. host' = Effect(c, host)
    BY <2>5, <2>7
  <2>9. ASSUME NEW i \in DOMAIN play, play[i].when = 0 PROVE Reached(play[i], host')
    <3>1. Reached(play[i], host) /\ TaskOn(play[i], host)
      BY <1>8, <2>3, <2>9 DEF AllReached
    <3>2. Touched(c) \cap Concern(play[i], origin) = {}
      BY <2>7
    <3>3. Agree(host, host', Concern(play[i], origin))
      BY <2>2, <2>6, <2>8, <3>2, OutOfReach
    <3> QED
      BY <2>6, <3>1, <3>3, StaysReached
  <2>10. \E worked : worked = TRUE /\ Answered(x, y, Task(2), worked)
    BY <2>5, <2>7, PossibleIs
  <2>11. PICK worked : worked = TRUE /\ Answered(x, y, Task(2), worked)
    BY <2>10
  <2>12. Still(y)
    BY <1>8, <2>2, <2>3, <2>11, StillAnswered
  <2> QED
    BY <2>9, <2>12 DEF AllReached
<1>15. ASSUME NEW r \in Runs, \A q \in Runs \ {r} : run'[q] = run[q],
              \/ Idles(r) \/ Look(r) \/ Exec(r)
              \/ Ends(r) /\ run[r].phase = "task" /\ ~MayRun(Task(r), run[r])
                 /\ TaskOver(run[r], run'[r], Task(r), "skipped", run[r].got)
       PROVE  AllReached(play, host') /\ Still(y)
  <2>2. CASE r = 2
    <3>0. run'[1] = run[1]
      BY <1>2, <1>15, <2>2
    <3>1. CASE Ends(2) /\ x.phase = "task" /\ TaskOver(x, y, Task(2), "skipped", x.got)
      <4>1. AtWork(2) /\ host' = host
        BY <3>1 DEF Ends
      <4> QED
        BY <1>12, <3>0, <3>1, <4>1
    <3> QED
      BY <1>10, <1>13, <1>14, <1>15, <2>2, <3>0, <3>1
  <2>3. CASE r = 1
    <3>1. y = x
      BY <1>2, <1>15, <2>3
    <3>2. run[1].phase = "done"
      BY <1>4, <3>1 DEF PlaybookTypeOK
    <3>3. AtWork(1) \/ run[1].phase = "idle"
      <4>1. CASE Idles(1) \/ Ends(1)
        BY <4>1 DEF Idles, Ends
      <4>2. CASE Look(1)
        BY <1>2, <4>2, Looking
      <4>3. CASE Exec(1)
        BY <1>2, <4>3, Sending DEF Exec
      <4> QED
        BY <1>15, <2>3, <4>1, <4>2, <4>3
    <3> QED
      BY <3>2, <3>3 DEF AtWork
  <2> QED
    BY <2>2, <2>3 DEF Runs
<1>16. AllReached(play, host') /\ Still(y)
  BY <1>3, <1>6, <1>15, <1>2, CleanSteps
<1> QED
  BY <1>2, <1>16

LEMMA QuietFollows == ASSUME PlaybookTypeOK, QuietInv PROVE SecondRunIsQuiet
<1> SUFFICES ASSUME Again, run[2].phase = "done"
             PROVE  run[2].result = "ok" /\ \A i \in DOMAIN run[2].logs : run[2].logs[i] \in {"ok", "skipped"}
  BY DEF SecondRunIsQuiet, Again
<1>1. Still(run[2])
  BY DEF QuietInv
<1>2. Counted(run[2], Len(Play(2)))
  BY DEF PlaybookTypeOK, RunOk, Play, Runs
<1> QED
  BY <1>1, <1>2 DEF Still, Counted
=============================================================================
