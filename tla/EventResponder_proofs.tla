----------------------- MODULE EventResponder_proofs -----------------------
(***************************************************************************)
(* The linked lists of EventResponder, for every finite set of responders: *)
(* they are sound, and with the flags and the runners they implement the   *)
(* queues of EventQueue, provided that no responder is cleared or attached *)
(* between being taken and being called and none is attached with a        *)
(* trigger waiting, which the program does not do.                         *)
(*                                                                         *)
(* A list is described by the sequence q of its members.  The proof finds  *)
(* for each operation the sequence after it; that a list can be walked in  *)
(* one way only (by the least place at which two walks differ) makes this  *)
(* sequence the one that the refinement mapping chooses.                   *)
(***************************************************************************)
EXTENDS EventResponder, FiniteSetTheorems, WellFoundedInduction,
        SequenceTheorems, TLAPS

-----------------------------------------------------------------------------
(* Sequences *)

\* Every non-empty set of natural numbers has a least element.
LEMMA LeastNat ==
  ASSUME NEW S, S \subseteq Nat, S # {}
  PROVE  \E m \in S : \A n \in S : m <= n
<1> DEFINE R == {ss \in Nat \X Nat : ss[1] < ss[2]}
<1>1. IsWellFoundedOn(R, Nat)
  BY NatLessThanWellFounded DEF OpToRel
<1> HIDE DEF R
<1>2. PICK m \in S : \A n \in S : ~(<<n, m>> \in R)
  BY <1>1, WFMin
<1>3. \A n \in S : m <= n
  <2> TAKE n \in S
  <2>1. n \in Nat /\ m \in Nat
    OBVIOUS
  <2>2. n < m => <<n, m>> \in R
    BY <2>1 DEF R
  <2> QED  BY <1>2, <2>1, <2>2
<1> QED  BY <1>3

\* What is at a place of a sequence of responders is a responder or nothing,
\* and which of the two says whether the sequence goes that far.
LEMMA NthType ==
  ASSUME NEW q \in Seq(Responder), NEW k \in Int
  PROVE  /\ Nth(q, k) \in Link
         /\ Nth(q, k) = NoResponder <=> k \notin 1..Len(q)
BY ResponderAssumption DEF Nth, Link

\* A list can be walked in one way only: two sequences with the same first
\* member and the same successors are equal.
LEMMA WalkUnique ==
  ASSUME NEW f, NEW nx,
         NEW p \in Seq(Responder), NEW q \in Seq(Responder),
         f = Nth(p, 1), \A k \in 1..Len(p) : nx[p[k]] = Nth(p, k + 1),
         f = Nth(q, 1), \A k \in 1..Len(q) : nx[q[k]] = Nth(q, k + 1)
  PROVE  p = q
<1> DEFINE D == {k \in Nat \ {0} : Nth(p, k) # Nth(q, k)}
<1>1. D = {}
  <2> SUFFICES ASSUME D # {} PROVE FALSE
    OBVIOUS
  <2>1. PICK m \in D : \A n \in D : m <= n
    BY LeastNat
  <2>2. m # 1
    OBVIOUS
  <2>3. m - 1 \in Nat \ {0} /\ m - 1 \notin D
    BY <2>1, <2>2
  <2>4. Nth(p, m - 1) = Nth(q, m - 1)
    BY <2>3
  <2>5. CASE m - 1 \in 1..Len(p)
    <3>1. m - 1 \in 1..Len(q)
      BY <2>3, <2>4, <2>5, NthType
    <3>2. p[m - 1] = q[m - 1]
      BY <2>4, <2>5, <3>1 DEF Nth
    <3>3. Nth(p, (m - 1) + 1) = Nth(q, (m - 1) + 1)
      BY <2>5, <3>1, <3>2
    <3> QED  BY <3>3
  <2>6. CASE m - 1 \notin 1..Len(p)
    <3>1. m - 1 \notin 1..Len(q)
      BY <2>3, <2>4, <2>6, NthType
    <3>2. m \notin 1..Len(p) /\ m \notin 1..Len(q)
      BY <2>3, <2>6, <3>1
    <3> QED  BY <3>2 DEF Nth
  <2> QED  BY <2>5, <2>6
<1> HIDE DEF D
<1>2. \A k \in Nat \ {0} : Nth(p, k) = Nth(q, k)
  BY <1>1 DEF D
<1>3. Len(p) = Len(q)
  <2>1. \A k \in Nat \ {0} : k \in 1..Len(p) <=> k \in 1..Len(q)
    BY <1>2, NthType
  <2> QED  BY <2>1
<1>4. \A k \in 1..Len(p) : p[k] = q[k]
  BY <1>2, <1>3 DEF Nth
<1> QED  BY <1>3, <1>4, SeqEqual

\* A sequence without repetition is not longer than the set is large.
LEMMA DistinctFits ==
  ASSUME NEW q \in Seq(Responder),
         \A j, k \in 1..Len(q) : q[j] = q[k] => j = k
  PROVE  q \in Walks
<1>1. q \in Injection(1..Len(q), Responder)
  BY DEF Injection, IsInjective
<1>2. Cardinality(1..Len(q)) <= Cardinality(Responder)
  BY <1>1, FS_Injection, ResponderAssumption
<1>3. Cardinality(1..Len(q)) = Len(q)
  BY FS_Interval
<1>4. Cardinality(Responder) \in Nat
  BY FS_CardinalityType, ResponderAssumption
<1>5. Len(q) \in 0..Cardinality(Responder)
  BY <1>2, <1>3, <1>4
<1>6. q \in [1..Len(q) -> Responder]
  OBVIOUS
<1> QED  BY <1>5, <1>6 DEF Walks

LEMMA WalksAreSequences == \A q \in Walks : q \in Seq(Responder)
<1> SUFFICES ASSUME NEW q \in Walks PROVE q \in Seq(Responder)
  OBVIOUS
<1>1. PICK n \in 0..Cardinality(Responder) : q \in [1..n -> Responder]
  BY DEF Walks
<1>2. n \in Nat
  BY FS_CardinalityType, ResponderAssumption
<1> QED  BY <1>1, <1>2

-----------------------------------------------------------------------------
(* Doubly linked lists *)

\* From f to l along nx, and back along pv, the members are those of q.
Linked(q, f, l, nx, pv) ==
  /\ f = Nth(q, 1)
  /\ l = Nth(q, Len(q))
  /\ \A k \in 1..Len(q) : nx[q[k]] = Nth(q, k + 1)
  /\ \A k \in 1..Len(q) : pv[q[k]] = Nth(q, k - 1)

Distinct(q) == \A j, k \in 1..Len(q) : q[j] = q[k] => j = k
Members(q) == {q[k] : k \in 1..Len(q)}

\* Links of other responders do not matter.
LEMMA LinkedFrame ==
  ASSUME NEW q \in Seq(Responder), NEW f, NEW l, NEW nx, NEW pv, NEW nx2, NEW pv2,
         Linked(q, f, l, nx, pv),
         \A x \in Members(q) : nx2[x] = nx[x] /\ pv2[x] = pv[x]
  PROVE  Linked(q, f, l, nx2, pv2)
<1>1. \A k \in 1..Len(q) : q[k] \in Members(q)
  BY DEF Members
<1> QED  BY <1>1 DEF Linked

\* The places of a sequence with r put at its end.
LEMMA NthAppend ==
  ASSUME NEW q \in Seq(Responder), NEW r \in Responder
  PROVE  /\ Append(q, r) \in Seq(Responder)
         /\ Len(Append(q, r)) = Len(q) + 1
         /\ \A k \in 1..Len(q) : Append(q, r)[k] = q[k]
         /\ Append(q, r)[Len(q) + 1] = r
         /\ \A k \in Int : Nth(Append(q, r), k) = IF k = Len(q) + 1 THEN r ELSE Nth(q, k)
<1>1. /\ Append(q, r) \in Seq(Responder)
      /\ Len(Append(q, r)) = Len(q) + 1
      /\ \A k \in 1..Len(q) : Append(q, r)[k] = q[k]
      /\ Append(q, r)[Len(q) + 1] = r
  OBVIOUS
<1>2. ASSUME NEW k \in Int
      PROVE  Nth(Append(q, r), k) = IF k = Len(q) + 1 THEN r ELSE Nth(q, k)
  BY <1>1 DEF Nth
<1> QED  BY <1>1, <1>2

\* Putting r at the end, as triggerEventNotImmediate does.
LEMMA LinkedAppend ==
  ASSUME NEW q \in Seq(Responder), Distinct(q), NEW r \in Responder, r \notin Members(q),
         NEW f, NEW l, NEW nx \in [Responder -> Link], NEW pv \in [Responder -> Link],
         Linked(q, f, l, nx, pv),
         NEW nx2, nx2 = IF f = NoResponder THEN [nx EXCEPT ![r] = NoResponder]
                        ELSE [nx EXCEPT ![r] = NoResponder, ![l] = r],
         NEW pv2, pv2 = IF f = NoResponder THEN [pv EXCEPT ![r] = NoResponder]
                        ELSE [pv EXCEPT ![r] = l]
  PROVE  Linked(Append(q, r), IF f = NoResponder THEN r ELSE f, r, nx2, pv2)
<1> DEFINE n == Len(q)
           p == Append(q, r)
<1>1. n \in Nat /\ \A k \in 1..n : q[k] \in Responder /\ q[k] # r
  BY DEF Members
<1>2. f = NoResponder <=> n = 0
  BY <1>1, NthType DEF Linked
<1>3. n # 0 => l = q[n]
  BY <1>1 DEF Linked, Nth
<1>4. n = 0 => l = NoResponder
  BY <1>1 DEF Linked, Nth
<1>5. /\ Len(p) = n + 1
      /\ \A k \in 1..n : p[k] = q[k]
      /\ p[n + 1] = r
      /\ \A k \in Int : Nth(p, k) = IF k = n + 1 THEN r ELSE Nth(q, k)
  BY NthAppend
<1> HIDE DEF p
<1>6. (IF f = NoResponder THEN r ELSE f) = Nth(p, 1)
  BY <1>1, <1>2, <1>5 DEF Linked
<1>7. r = Nth(p, Len(p))
  BY <1>1, <1>5
<1>8. ASSUME NEW k \in 1..Len(p) PROVE nx2[p[k]] = Nth(p, k + 1)
  <2>1. CASE k = n + 1
    <3>1. p[k] = r /\ Nth(p, k + 1) = NoResponder
      BY <1>1, <1>5, <2>1 DEF Nth
    <3>2. f # NoResponder => l # r
      BY <1>1, <1>2, <1>3
    <3>3. nx2[r] = NoResponder
      BY <3>2
    <3> QED  BY <3>1, <3>3
  <2>2. CASE k = n
    <3>1. p[k] = q[n] /\ Nth(p, k + 1) = r /\ f # NoResponder /\ l = q[n]
      BY <1>1, <1>2, <1>3, <1>5, <2>2
    <3>2. nx2[q[n]] = r
      BY <1>1, <3>1, <2>2, <1>5
    <3> QED  BY <3>1, <3>2
  <2>3. CASE k \in 1..(n - 1)
    <3>1. p[k] = q[k] /\ Nth(p, k + 1) = Nth(q, k + 1) /\ k \in 1..n /\ n # 0
      BY <1>1, <1>5, <2>3
    <3>2. q[k] # q[n] /\ q[k] # r /\ q[k] \in Responder
      BY <1>1, <2>3, <3>1 DEF Distinct
    <3>3. nx2[q[k]] = nx[q[k]]
      BY <1>3, <3>1, <3>2
    <3> QED  BY <3>1, <3>3 DEF Linked
  <2> QED  BY <1>1, <1>5, <2>1, <2>2, <2>3
<1>9. ASSUME NEW k \in 1..Len(p) PROVE pv2[p[k]] = Nth(p, k - 1)
  <2>1. CASE k = n + 1
    <3>1. p[k] = r /\ Nth(p, k - 1) = Nth(q, n)
      BY <1>1, <1>5, <2>1
    <3>2. pv2[r] = l
      BY <1>2, <1>4
    <3> QED  BY <3>1, <3>2 DEF Linked
  <2>2. CASE k \in 1..n
    <3>1. p[k] = q[k] /\ Nth(p, k - 1) = Nth(q, k - 1)
      BY <1>1, <1>5, <2>2
    <3>2. pv2[q[k]] = pv[q[k]]
      BY <1>1, <2>2
    <3> QED  BY <2>2, <3>1, <3>2 DEF Linked
  <2> QED  BY <1>1, <1>5, <2>1, <2>2
<1> QED  BY <1>6, <1>7, <1>8, <1>9 DEF Linked, p

\* The places of a sequence without what was at place k.
LEMMA NthWithout ==
  ASSUME NEW q \in Seq(Responder), NEW k \in 1..Len(q)
  PROVE  LET p == Queue!WithoutNth(q, k)
         IN  /\ p \in Seq(Responder)
             /\ Len(p) = Len(q) - 1
             /\ \A i \in 1..Len(q) - 1 : p[i] = IF i < k THEN q[i] ELSE q[i + 1]
             /\ \A i \in Int : Nth(p, i) = IF i < k THEN Nth(q, i) ELSE Nth(q, i + 1)
<1> DEFINE n == Len(q)
           p == Queue!WithoutNth(q, k)
<1>1. n \in Nat /\ n - 1 \in Nat /\ k \in Nat
  OBVIOUS
<1>2. p = [i \in 1..n - 1 |-> q[IF i < k THEN i ELSE i + 1]]
  BY DEF Queue!WithoutNth
<1>3. ASSUME NEW i \in 1..n - 1 PROVE q[IF i < k THEN i ELSE i + 1] \in Responder
  BY <1>1
<1> HIDE DEF p
<1>4. p \in [1..n - 1 -> Responder]
  BY <1>2, <1>3
<1>5. p \in Seq(Responder) /\ Len(p) = n - 1
  BY <1>1, <1>4
<1>6. ASSUME NEW i \in 1..n - 1 PROVE p[i] = IF i < k THEN q[i] ELSE q[i + 1]
  BY <1>2
<1>7. ASSUME NEW i \in Int PROVE Nth(p, i) = IF i < k THEN Nth(q, i) ELSE Nth(q, i + 1)
  <2>1. CASE i \in 1..n - 1
    BY <1>1, <1>5, <1>6, <2>1 DEF Nth
  <2>2. CASE i \notin 1..n - 1
    BY <1>1, <1>5, <2>2 DEF Nth
  <2> QED  BY <2>1, <2>2
<1> QED  BY <1>5, <1>6, <1>7 DEF p

\* Taking r out, at any place, as clearEvent and detachNoInterrupts do.
LEMMA LinkedRemove ==
  ASSUME NEW q \in Seq(Responder), Distinct(q), NEW k \in 1..Len(q),
         NEW f, NEW l, NEW nx, NEW pv, Linked(q, f, l, nx, pv),
         NEW f2, f2 = IF pv[q[k]] # NoResponder THEN f ELSE nx[q[k]],
         NEW l2, l2 = IF nx[q[k]] # NoResponder THEN l ELSE pv[q[k]],
         NEW nx2, \A x \in Responder : nx2[x] = IF x = pv[q[k]] THEN nx[q[k]] ELSE nx[x],
         NEW pv2, \A x \in Responder : pv2[x] = IF x = nx[q[k]] THEN pv[q[k]] ELSE pv[x]
  PROVE  Linked(Queue!WithoutNth(q, k), f2, l2, nx2, pv2)
<1> DEFINE n == Len(q)
           r == q[k]
           p == Queue!WithoutNth(q, k)
<1>1. n \in Nat /\ k \in Nat /\ k >= 1 /\ k <= n /\ \A i \in 1..n : q[i] \in Responder
  OBVIOUS
<1>2. /\ Len(p) = n - 1
      /\ \A i \in 1..n - 1 : p[i] = IF i < k THEN q[i] ELSE q[i + 1]
      /\ \A i \in Int : Nth(p, i) = IF i < k THEN Nth(q, i) ELSE Nth(q, i + 1)
  BY NthWithout
<1> HIDE DEF p
<1>3. nx[r] = Nth(q, k + 1) /\ pv[r] = Nth(q, k - 1)
  BY DEF Linked
<1>4. nx[r] = NoResponder <=> k = n
  BY <1>1, <1>3, NthType
<1>5. pv[r] = NoResponder <=> k = 1
  BY <1>1, <1>3, NthType
<1>6. k # n => nx[r] = q[k + 1] /\ q[k + 1] \in Responder
  BY <1>1, <1>3 DEF Nth
<1>7. k # 1 => pv[r] = q[k - 1] /\ q[k - 1] \in Responder
  BY <1>1, <1>3 DEF Nth
<1>8. f2 = Nth(p, 1)
  <2>1. CASE k = 1
    <3>1. Nth(p, 1) = Nth(q, k + 1)
      BY <1>2, <2>1
    <3> QED  BY <1>3, <1>5, <2>1, <3>1
  <2>2. CASE k # 1
    <3>1. 1 < k
      BY <1>1, <2>2
    <3>2. Nth(p, 1) = Nth(q, 1)
      BY <1>2, <3>1
    <3>3. f = Nth(q, 1)
      BY DEF Linked
    <3>4. f2 = f
      BY <1>5, <2>2
    <3> QED  BY <3>2, <3>3, <3>4
  <2> QED  BY <2>1, <2>2
<1>9. l2 = Nth(p, Len(p))
  <2>1. CASE k = n
    <3>1. Nth(p, n - 1) = Nth(q, k - 1)
      BY <1>1, <1>2, <2>1
    <3> QED  BY <1>2, <1>3, <1>4, <2>1, <3>1
  <2>2. CASE k < n
    <3>1. Nth(p, n - 1) = Nth(q, n)
      BY <1>1, <1>2, <2>2
    <3>2. k # n /\ Len(p) = n - 1
      BY <1>1, <1>2, <2>2
    <3>3. l2 = l
      BY <1>4, <3>2
    <3>4. l = Nth(q, n)
      BY DEF Linked
    <3> QED  BY <3>1, <3>2, <3>3, <3>4
  <2> QED  BY <1>1, <2>1, <2>2
<1>10. ASSUME NEW i \in 1..Len(p) PROVE nx2[p[i]] = Nth(p, i + 1)
  <2>1. CASE i < k - 1
    <3>0. i \in 1..n - 1
      BY <1>2
    <3>a. i \in 1..n - 1 /\ i \in 1..n /\ i + 1 \in Int /\ i < k /\ i + 1 < k /\ k # 1
      BY <1>1, <3>0, <2>1
    <3>b. p[i] = q[i]
      BY <1>2, <3>a
    <3>c. Nth(p, i + 1) = Nth(q, i + 1)
      BY <1>2, <3>a
    <3>1. p[i] = q[i] /\ Nth(p, i + 1) = Nth(q, i + 1) /\ i \in 1..n /\ k # 1
      BY <3>a, <3>b, <3>c
    <3>2. q[i] # q[k - 1]
      BY <1>1, <2>1, <3>1 DEF Distinct
    <3>3. nx2[q[i]] = nx[q[i]]
      BY <1>1, <1>5, <1>7, <3>1, <3>2
    <3> QED  BY <3>1, <3>3 DEF Linked
  <2>2. CASE i = k - 1
    <3>a. i \in 1..n - 1 /\ i = k - 1 /\ i + 1 = k /\ k \in Int /\ i < k /\ ~(k < k) /\ k # 1
      BY <1>1, <1>2, <2>2
    <3>b. p[i] = q[k - 1]
      BY <1>2, <3>a
    <3>c. Nth(p, i + 1) = Nth(q, k + 1)
      BY <1>2, <3>a
    <3>1. p[i] = q[k - 1] /\ Nth(p, i + 1) = Nth(q, k + 1) /\ k # 1
      BY <3>a, <3>b, <3>c
    <3>2. nx2[q[k - 1]] = nx[r]
      BY <1>5, <1>7, <3>1
    <3> QED  BY <1>3, <3>1, <3>2
  <2>3. CASE i >= k
    <3>1. p[i] = q[i + 1] /\ Nth(p, i + 1) = Nth(q, (i + 1) + 1) /\ i + 1 \in 1..n
      BY <1>1, <1>2, <2>3
    <3>2. k # 1 => q[i + 1] # q[k - 1]
      BY <1>1, <2>3, <3>1 DEF Distinct
    <3>3. nx2[q[i + 1]] = nx[q[i + 1]]
      BY <1>1, <1>5, <1>7, <3>1, <3>2, ResponderAssumption
    <3> QED  BY <3>1, <3>3 DEF Linked
  <2> QED  BY <1>1, <1>2, <2>1, <2>2, <2>3
<1>11. ASSUME NEW i \in 1..Len(p) PROVE pv2[p[i]] = Nth(p, i - 1)
  <2>1. CASE i < k
    <3>a. i \in 1..n - 1 /\ i \in 1..n /\ i - 1 \in Int /\ i < k /\ i - 1 < k
      BY <1>1, <1>2, <2>1
    <3>b. p[i] = q[i]
      BY <1>2, <3>a
    <3>c. Nth(p, i - 1) = Nth(q, i - 1)
      BY <1>2, <3>a
    <3>1. p[i] = q[i] /\ Nth(p, i - 1) = Nth(q, i - 1) /\ i \in 1..n
      BY <3>a, <3>b, <3>c
    <3>2. k # n => q[i] # q[k + 1]
      BY <1>1, <2>1, <3>1 DEF Distinct
    <3>3. pv2[q[i]] = pv[q[i]]
      BY <1>1, <1>4, <1>6, <3>1, <3>2, ResponderAssumption
    <3> QED  BY <3>1, <3>3 DEF Linked
  <2>2. CASE i = k
    <3>a. i \in 1..n - 1 /\ i = k /\ ~(i < k) /\ k - 1 \in Int /\ k - 1 < k /\ k # n
      BY <1>1, <1>2, <2>2
    <3>b. p[i] = q[k + 1]
      BY <1>2, <3>a
    <3>c. Nth(p, i - 1) = Nth(q, k - 1)
      BY <1>2, <3>a
    <3>1. p[i] = q[k + 1] /\ Nth(p, i - 1) = Nth(q, k - 1) /\ k # n
      BY <3>a, <3>b, <3>c
    <3>2. pv2[q[k + 1]] = pv[r]
      BY <1>4, <1>6, <3>1
    <3> QED  BY <1>3, <3>1, <3>2
  <2>3. CASE i > k
    <3>a. i \in 1..n - 1 /\ ~(i < k) /\ i - 1 \in Int /\ ~(i - 1 < k) /\ (i - 1) + 1 = (i + 1) - 1
          /\ i + 1 \in 1..n /\ k # n
      BY <1>1, <1>2, <2>3
    <3>b. p[i] = q[i + 1]
      BY <1>2, <3>a
    <3>c. Nth(p, i - 1) = Nth(q, (i + 1) - 1)
      BY <1>2, <3>a
    <3>1. p[i] = q[i + 1] /\ Nth(p, i - 1) = Nth(q, (i + 1) - 1) /\ i + 1 \in 1..n /\ k # n
      BY <3>a, <3>b, <3>c
    <3>2. q[i + 1] # q[k + 1]
      BY <1>1, <2>3, <3>1 DEF Distinct
    <3>3. pv2[q[i + 1]] = pv[q[i + 1]]
      BY <1>1, <1>4, <1>6, <3>1, <3>2
    <3> QED  BY <3>1, <3>3 DEF Linked
  <2> QED  BY <1>1, <1>2, <2>1, <2>2, <2>3
<1> QED  BY <1>8, <1>9, <1>10, <1>11 DEF Linked, p

\* What the two operations do to the set of members.
LEMMA AppendMembers ==
  ASSUME NEW q \in Seq(Responder), Distinct(q), NEW r \in Responder, r \notin Members(q)
  PROVE  Distinct(Append(q, r)) /\ Members(Append(q, r)) = Members(q) \cup {r}
<1> DEFINE p == Append(q, r)
<1>1. /\ Len(q) \in Nat
      /\ Len(p) = Len(q) + 1
      /\ \A k \in 1..Len(q) : p[k] = q[k]
      /\ p[Len(q) + 1] = r
  BY NthAppend
<1> HIDE DEF p
<1>2. \A k \in 1..Len(q) : q[k] # r
  BY DEF Members
<1>3. Distinct(p)
  BY <1>1, <1>2 DEF Distinct
<1>4. Members(p) = Members(q) \cup {r}
  BY <1>1 DEF Members
<1> QED  BY <1>3, <1>4 DEF p

LEMMA WithoutMembers ==
  ASSUME NEW q \in Seq(Responder), Distinct(q), NEW k \in 1..Len(q)
  PROVE  /\ Distinct(Queue!WithoutNth(q, k))
         /\ Members(Queue!WithoutNth(q, k)) = Members(q) \ {q[k]}
<1> DEFINE p == Queue!WithoutNth(q, k)
<1>1. /\ Len(q) \in Nat
      /\ Len(p) = Len(q) - 1
      /\ \A i \in 1..Len(q) - 1 : p[i] = IF i < k THEN q[i] ELSE q[i + 1]
  BY NthWithout
<1> HIDE DEF p
<1>2. Distinct(p)
  <2> SUFFICES ASSUME NEW i \in 1..Len(p), NEW j \in 1..Len(p), p[i] = p[j] PROVE i = j
    BY DEF Distinct
  <2>1. (IF i < k THEN i ELSE i + 1) = (IF j < k THEN j ELSE j + 1)
    BY <1>1 DEF Distinct
  <2> QED  BY <1>1, <2>1
<1>3. ASSUME NEW x \in Members(p) PROVE x \in Members(q) \ {q[k]}
  <2>1. PICK i \in 1..Len(p) : x = p[i]
    BY DEF Members
  <2>2. PICK j \in 1..Len(q) : j # k /\ x = q[j]
    BY <1>1, <2>1
  <2> QED  BY <2>2 DEF Members, Distinct
<1>4. ASSUME NEW x \in Members(q) \ {q[k]} PROVE x \in Members(p)
  <2>1. PICK j \in 1..Len(q) : x = q[j]
    BY DEF Members
  <2>2. j # k
    BY <2>1
  <2>3. CASE j < k
    <3>1. j \in 1..Len(p) /\ p[j] = x
      BY <1>1, <2>1, <2>3
    <3> QED  BY <3>1 DEF Members
  <2>4. CASE j > k
    <3>1. j - 1 \in 1..Len(p) /\ p[j - 1] = x
      BY <1>1, <2>1, <2>4
    <3> QED  BY <3>1 DEF Members
  <2> QED  BY <1>1, <2>2, <2>3, <2>4
<1> QED  BY <1>2, <1>3, <1>4 DEF p

-----------------------------------------------------------------------------
(* The inductive invariant *)

LinkTypes ==
  /\ next \in [Responder -> Link] /\ prev \in [Responder -> Link]
  /\ first \in [Way -> Link] /\ last \in [Way -> Link]

Types ==
  /\ LinkTypes
  /\ type \in [Responder -> Type]
  /\ triggered \in [Responder -> BOOLEAN]
  /\ taken \in [Way -> Link]

\* A responder that a runner has taken keeps its flag and its way until it is
\* called.
TakenKept ==
  \A w \in Way : taken[w] # NoResponder =>
    triggered[taken[w]] /\ type[taken[w]] = w

\* q is list w, and its members are those that wait.
IsList(w, q) ==
  /\ q \in Seq(Responder)
  /\ Distinct(q)
  /\ Linked(q, first[w], last[w], next, prev)
  /\ Members(q) = Waiting(w)

HasLists == \A w \in Way : \E q : IsList(w, q)

IInv == Types /\ TakenKept /\ HasLists

\* The walk of a list is the sequence that the refinement mapping chooses.
LEMMA Chosen ==
  ASSUME NEW q \in Seq(Responder), Distinct(q), NEW f, NEW nx,
         f = Nth(q, 1), \A k \in 1..Len(q) : nx[q[k]] = Nth(q, k + 1)
  PROVE  (IF \E p \in Walks : f = Nth(p, 1) /\ \A k \in 1..Len(p) : nx[p[k]] = Nth(p, k + 1)
          THEN CHOOSE p \in Walks : f = Nth(p, 1) /\ \A k \in 1..Len(p) : nx[p[k]] = Nth(p, k + 1)
          ELSE <<>>) = q
<1> DEFINE P(p) == f = Nth(p, 1) /\ \A k \in 1..Len(p) : nx[p[k]] = Nth(p, k + 1)
<1>1. q \in Walks
  BY DistinctFits DEF Distinct
<1>2. P(q)
  OBVIOUS
<1>3. ASSUME NEW p \in Walks, P(p) PROVE p = q
  BY <1>3, WalkUnique, WalksAreSequences
<1> HIDE DEF P
<1>4. (CHOOSE p \in Walks : P(p)) = q
  BY <1>1, <1>2, <1>3
<1>5. (IF \E p \in Walks : P(p) THEN CHOOSE p \in Walks : P(p) ELSE <<>>) = q
  BY <1>1, <1>2, <1>4
<1> QED  BY <1>5 DEF P

LEMMA ListIs ==
  ASSUME NEW w, NEW q, IsList(w, q)
  PROVE  List(w) = q
BY Chosen DEF IsList, Linked, List, Forward

LEMMA ListIsNext ==
  ASSUME NEW w, NEW q, IsList(w, q)'
  PROVE  List(w)' = q
BY Chosen DEF IsList, Linked, List, Forward

\* Soundness is part of the invariant.
LEMMA ListsAreSound == HasLists => ListsSound
<1> SUFFICES ASSUME HasLists, NEW w \in Way
    PROVE  \E q \in Walks : Forward(w, q) /\ Backward(w, q) /\ Lists(q, Waiting(w))
  BY DEF ListsSound
<1>1. PICK q : IsList(w, q)
  BY DEF HasLists
<1>2. q \in Walks
  BY <1>1, DistinctFits DEF IsList, Distinct
<1>3. Forward(w, q) /\ Backward(w, q)
  BY <1>1 DEF IsList, Linked, Forward, Backward
<1>4. Lists(q, Waiting(w))
  BY <1>1 DEF IsList, Lists, Distinct, Members
<1> QED  BY <1>2, <1>3, <1>4

\* The ends of a list and the links of its members do not leave it.
LEMMA Closed ==
  ASSUME NEW w \in Way, NEW q, IsList(w, q)
  PROVE  /\ first[w] # NoResponder => first[w] \in Waiting(w)
         /\ last[w] # NoResponder => last[w] \in Waiting(w)
         /\ \A x \in Waiting(w) : next[x] # NoResponder => next[x] \in Waiting(w)
         /\ \A x \in Waiting(w) : prev[x] # NoResponder => prev[x] \in Waiting(w)
<1>1. \A k \in Int : Nth(q, k) # NoResponder => Nth(q, k) \in Members(q)
  BY DEF Nth, Members
<1>2. Len(q) \in Nat
  BY DEF IsList
<1>3. ASSUME NEW x \in Waiting(w)
      PROVE  \E k \in 1..Len(q) : next[x] = Nth(q, k + 1) /\ prev[x] = Nth(q, k - 1)
  BY <1>3 DEF IsList, Members, Linked
<1> QED  BY <1>1, <1>2, <1>3 DEF IsList, Linked

\* What triggerEventNotImmediate does to the list r comes into ...
LEMMA EnqueueThis ==
  ASSUME LinkTypes, NEW w \in Way, NEW q, IsList(w, q),
         NEW r \in Responder, r \notin Waiting(w), Enqueue(r, w)
  PROVE  /\ Linked(Append(q, r), first[w]', last[w]', next', prev')
         /\ LinkTypes'
<1>1. first[w]' = IF first[w] = NoResponder THEN r ELSE first[w]
  BY DEF Enqueue, LinkTypes
<1>2. last[w]' = r
  BY DEF Enqueue, LinkTypes
<1>3. Linked(Append(q, r), IF first[w] = NoResponder THEN r ELSE first[w], r, next', prev')
  BY LinkedAppend DEF IsList, Enqueue, LinkTypes
<1>4. first' \in [Way -> Link] /\ last' \in [Way -> Link]
  BY DEF Enqueue, LinkTypes, Link
<1>5. next' \in [Responder -> Link] /\ prev' \in [Responder -> Link]
  BY DEF Enqueue, LinkTypes, Link
<1> QED  BY <1>1, <1>2, <1>3, <1>4, <1>5 DEF LinkTypes

\* ... and to the other one.
LEMMA EnqueueOther ==
  ASSUME LinkTypes, NEW w \in Way, NEW p, IsList(w, p),
         NEW v \in Way, v # w, NEW q, IsList(v, q),
         NEW r \in Responder, r \notin Waiting(v), Enqueue(r, w)
  PROVE  Linked(q, first[v]', last[v]', next', prev')
<1>1. first[v]' = first[v] /\ last[v]' = last[v]
  BY DEF Enqueue, LinkTypes
<1>2. last[w] # NoResponder => last[w] \notin Waiting(v)
  BY Closed DEF Waiting
<1>3. NoResponder \notin Waiting(v)
  BY ResponderAssumption DEF Waiting
<1>4. \A x \in Waiting(v) : next'[x] = next[x] /\ prev'[x] = prev[x]
  BY <1>2, <1>3 DEF Enqueue, LinkTypes, Waiting
<1> QED  BY <1>1, <1>4, LinkedFrame DEF IsList

\* What the unlinking of clearEvent and detachNoInterrupts does to the list r
\* leaves ...
LEMMA UnlinkThis ==
  ASSUME LinkTypes, NEW w \in Way, NEW q, IsList(w, q),
         NEW k \in 1..Len(q), NEW r, r = q[k], Unlink(r, w)
  PROVE  /\ Linked(Queue!WithoutNth(q, k), first[w]', last[w]', next', prev')
         /\ LinkTypes'
<1>0. q \in Seq(Responder) /\ r \in Responder
  BY DEF IsList
<1>1. next[r] \in Link /\ prev[r] \in Link
  BY <1>0 DEF LinkTypes
<1>2. first[w]' = IF prev[r] # NoResponder THEN first[w] ELSE next[r]
  BY DEF Unlink, LinkTypes
<1>3. last[w]' = IF next[r] # NoResponder THEN last[w] ELSE prev[r]
  BY DEF Unlink, LinkTypes
<1>4. next' = IF prev[r] # NoResponder THEN [next EXCEPT ![prev[r]] = next[r]] ELSE next
  BY DEF Unlink
<1>5. prev' = IF next[r] # NoResponder THEN [prev EXCEPT ![next[r]] = prev[r]] ELSE prev
  BY DEF Unlink
<1>6. Linked(Queue!WithoutNth(q, k), first[w]', last[w]', next', prev')
  <2>1. /\ next \in [Responder -> Link] /\ prev \in [Responder -> Link]
        /\ Distinct(q) /\ Linked(q, first[w], last[w], next, prev)
    BY DEF LinkTypes, IsList
  <2>2. \A x \in Responder : next'[x] = IF x = prev[r] THEN next[r] ELSE next[x]
    BY <1>1, <1>4, <2>1, ResponderAssumption DEF Link
  <2>3. \A x \in Responder : prev'[x] = IF x = next[r] THEN prev[r] ELSE prev[x]
    BY <1>1, <1>5, <2>1, ResponderAssumption DEF Link
  <2> QED  BY <1>0, <1>2, <1>3, <2>1, <2>2, <2>3, LinkedRemove
<1>7. next' \in [Responder -> Link] /\ prev' \in [Responder -> Link]
  BY <1>1, <1>4, <1>5 DEF LinkTypes, Link
<1>8. first' \in [Way -> Link] /\ last' \in [Way -> Link]
  BY <1>1 DEF Unlink, LinkTypes
<1> QED  BY <1>6, <1>7, <1>8 DEF LinkTypes

\* ... and to the other one.
LEMMA UnlinkOther ==
  ASSUME LinkTypes, NEW w \in Way, NEW p, IsList(w, p),
         NEW v \in Way, v # w, NEW q, IsList(v, q),
         NEW r \in Waiting(w), Unlink(r, w)
  PROVE  Linked(q, first[v]', last[v]', next', prev')
<1>1. first[v]' = first[v] /\ last[v]' = last[v]
  BY DEF Unlink, LinkTypes
<1>2. \A x \in Waiting(w) : x \notin Waiting(v)
  BY DEF Waiting
<1>3. next[r] # NoResponder => next[r] \notin Waiting(v)
  BY <1>2, Closed
<1>4. prev[r] # NoResponder => prev[r] \notin Waiting(v)
  BY <1>2, Closed
<1>5. \A x \in Waiting(v) : next'[x] = next[x] /\ prev'[x] = prev[x]
  BY <1>3, <1>4 DEF Unlink, LinkTypes, Waiting
<1> QED  BY <1>1, <1>5, LinkedFrame DEF IsList

\* A runner takes the first responder of its list, which is a case of that.
LEMMA PopIsUnlink ==
  ASSUME LinkTypes, NEW w \in Way, NEW q, IsList(w, q),
         first[w] # NoResponder, Pop(w)
  PROVE  1 \in 1..Len(q) /\ first[w] = q[1] /\ Unlink(first[w], w)
<1>1. 1 \in 1..Len(q) /\ first[w] = q[1]
  BY DEF IsList, Linked, Nth
<1>2. prev[q[1]] = NoResponder
  BY <1>1 DEF IsList, Linked, Nth
<1> QED  BY <1>1, <1>2 DEF Pop, Unlink

-----------------------------------------------------------------------------
(* The steps.  Each lemma says what the sequence of a list is afterwards. *)

LEMMA TriggerStep ==
  ASSUME IInv, NEW r \in Responder, TriggerEvent(r)
  PROVE  /\ Types' /\ TakenKept'
         /\ \A w \in Way : \A q : IsList(w, q) =>
              IF w = type[r] /\ ~triggered[r] THEN IsList(w, Append(q, r))'
              ELSE IsList(w, q)'
<1> USE DEF IInv
<1>0. /\ type' = type /\ taken' = taken /\ triggered' = [triggered EXCEPT ![r] = TRUE]
      /\ type \in [Responder -> Type] /\ triggered \in [Responder -> BOOLEAN]
  BY DEF TriggerEvent, runVars, Types
<1>1. CASE ~triggered[r] /\ type[r] \in Way
  <2>0. PICK v \in Way : v = type[r]
    BY <1>1
  <2>1. Enqueue(r, v)
    BY <1>1, <2>0 DEF TriggerEvent
  <2>2. \A w \in Way : taken[w] # r /\ r \notin Waiting(w)
    BY <1>1, ResponderAssumption DEF TakenKept, Waiting
  <2>3. Waiting(v)' = Waiting(v) \cup {r}
    BY <1>0, <1>1, <2>0, <2>2 DEF Waiting
  <2>4. \A w \in Way : w # v => Waiting(w)' = Waiting(w)
    BY <1>0, <1>1, <2>0 DEF Waiting
  <2>5. PICK p : IsList(v, p)
    BY <1>1 DEF HasLists
  <2>6. LinkTypes'
    BY <1>1, <2>1, <2>2, <2>5, EnqueueThis DEF Types
  <2>7. ASSUME NEW q, IsList(v, q) PROVE IsList(v, Append(q, r))'
    <3>0. q \in Seq(Responder) /\ Distinct(q) /\ Members(q) = Waiting(v)
      BY <2>7 DEF IsList
    <3>1. Append(q, r) \in Seq(Responder)
      BY <3>0
    <3>2. Distinct(Append(q, r)) /\ Members(Append(q, r)) = Waiting(v)'
      BY <1>1, <2>2, <2>3, <3>0, AppendMembers
    <3>3. Linked(Append(q, r), first[v]', last[v]', next', prev')
      BY <1>1, <2>1, <2>2, <2>7, EnqueueThis DEF Types
    <3> QED  BY <1>0, <3>1, <3>2, <3>3 DEF IsList
  <2>8. ASSUME NEW w \in Way, NEW q, w # v, IsList(w, q) PROVE IsList(w, q)'
    <3>1. Linked(q, first[w]', last[w]', next', prev')
      BY <1>1, <2>1, <2>2, <2>5, <2>8, EnqueueOther DEF Types
    <3> QED  BY <2>4, <2>8, <3>1 DEF IsList
  <2>9. Types' /\ TakenKept'
    BY <1>0, <2>6 DEF Types, TakenKept
  <2> QED  BY <1>1, <2>0, <2>7, <2>8, <2>9
<1>2. CASE ~(~triggered[r] /\ type[r] \in Way)
  <2>1. UNCHANGED <<next, prev, first, last>>
    BY <1>2 DEF TriggerEvent
  <2>2. \A w \in Way : Waiting(w)' = Waiting(w)
    BY <1>0, <1>2 DEF Waiting
  <2>3. ASSUME NEW w \in Way, NEW q, IsList(w, q) PROVE IsList(w, q)'
    BY <2>1, <2>2, <2>3 DEF IsList
  <2>4. Types' /\ TakenKept'
    BY <1>0, <2>1 DEF Types, TakenKept, LinkTypes
  <2> QED  BY <1>2, <2>3, <2>4
<1> QED  BY <1>1, <1>2

\* A sequence without r is one without a place, or the same.
LEMMA WithoutIs ==
  ASSUME NEW q, NEW r
  PROVE  /\ r \in Members(q) =>
              \E k \in 1..Len(q) : q[k] = r /\ Queue!Without(q, r) = Queue!WithoutNth(q, k)
         /\ r \notin Members(q) => Queue!Without(q, r) = q
<1>1. CASE r \in Members(q)
  <2>1. \E k \in 1..Len(q) : q[k] = r
    BY <1>1 DEF Members
  <2> DEFINE c == CHOOSE k \in 1..Len(q) : q[k] = r
  <2>2. c \in 1..Len(q) /\ q[c] = r
    BY <2>1
  <2>3. Queue!Without(q, r) = Queue!WithoutNth(q, c)
    BY <2>1 DEF Queue!Without
  <2> HIDE DEF c
  <2> QED  BY <1>1, <2>2, <2>3
<1>2. CASE r \notin Members(q)
  <2>1. ~\E k \in 1..Len(q) : q[k] = r
    BY <1>2 DEF Members
  <2> QED  BY <1>2, <2>1 DEF Queue!Without
<1> QED  BY <1>1, <1>2

\* The common part of clearEvent and detachNoInterrupts.
LEMMA UnlinkStep ==
  ASSUME IInv, NEW r \in Responder, ~Held(r), UnlinkIfTriggered(r)
  PROVE  /\ LinkTypes'
         /\ \A w \in Way : \A q : IsList(w, q) =>
              /\ Queue!Without(q, r) \in Seq(Responder)
              /\ Distinct(Queue!Without(q, r))
              /\ Members(Queue!Without(q, r)) = Waiting(w) \ {r}
              /\ Linked(Queue!Without(q, r), first[w]', last[w]', next', prev')
<1> USE DEF IInv
<1>0. \A w \in Way : taken[w] # r
  BY DEF Held
<1>1. CASE triggered[r] /\ type[r] \in Way
  <2>0. PICK v \in Way : v = type[r]
    BY <1>1
  <2>1. Unlink(r, v)
    BY <1>1, <2>0 DEF UnlinkIfTriggered
  <2>2. r \in Waiting(v) /\ \A w \in Way : w # v => r \notin Waiting(w)
    BY <1>0, <1>1, <2>0 DEF Waiting
  <2>3. ASSUME NEW q, IsList(v, q)
        PROVE  /\ LinkTypes'
               /\ Queue!Without(q, r) \in Seq(Responder)
               /\ Distinct(Queue!Without(q, r))
               /\ Members(Queue!Without(q, r)) = Waiting(v) \ {r}
               /\ Linked(Queue!Without(q, r), first[v]', last[v]', next', prev')
    <3>1. q \in Seq(Responder) /\ Distinct(q) /\ Members(q) = Waiting(v)
      BY <2>3 DEF IsList
    <3>2. PICK k \in 1..Len(q) : q[k] = r /\ Queue!Without(q, r) = Queue!WithoutNth(q, k)
      BY <2>2, <3>1, WithoutIs
    <3>3. Queue!WithoutNth(q, k) \in Seq(Responder)
      BY <3>1, NthWithout
    <3>4. /\ Distinct(Queue!WithoutNth(q, k))
          /\ Members(Queue!WithoutNth(q, k)) = Waiting(v) \ {r}
      BY <3>1, <3>2, WithoutMembers
    <3>5. /\ Linked(Queue!WithoutNth(q, k), first[v]', last[v]', next', prev')
          /\ LinkTypes'
      BY <2>1, <2>3, <3>2, UnlinkThis DEF Types
    <3> QED  BY <3>2, <3>3, <3>4, <3>5
  <2>4. PICK p : IsList(v, p)
    BY DEF HasLists
  <2>5. ASSUME NEW w \in Way, w # v, NEW q, IsList(w, q)
        PROVE  /\ Queue!Without(q, r) \in Seq(Responder)
               /\ Distinct(Queue!Without(q, r))
               /\ Members(Queue!Without(q, r)) = Waiting(w) \ {r}
               /\ Linked(Queue!Without(q, r), first[w]', last[w]', next', prev')
    <3>1. q \in Seq(Responder) /\ Distinct(q) /\ Members(q) = Waiting(w)
      BY <2>5 DEF IsList
    <3>2. r \notin Waiting(w)
      BY <2>2, <2>5
    <3>3. Queue!Without(q, r) = q
      BY <3>1, <3>2, WithoutIs
    <3>4. Linked(q, first[w]', last[w]', next', prev')
      BY <2>1, <2>2, <2>4, <2>5, UnlinkOther DEF Types
    <3> QED  BY <3>1, <3>2, <3>3, <3>4
  <2> QED  BY <2>3, <2>4, <2>5
<1>2. CASE ~(triggered[r] /\ type[r] \in Way)
  <2>1. UNCHANGED <<next, prev, first, last>>
    BY <1>2 DEF UnlinkIfTriggered
  <2>2. \A w \in Way : r \notin Waiting(w)
    BY <1>2 DEF Waiting
  <2>3. ASSUME NEW w \in Way, NEW q, IsList(w, q) PROVE Queue!Without(q, r) = q
    BY <2>2, <2>3, WithoutIs DEF IsList
  <2>4. LinkTypes'
    BY <2>1 DEF Types, LinkTypes
  <2>5. \A w \in Way : Waiting(w) \ {r} = Waiting(w)
    BY <2>2
  <2> QED  BY <2>1, <2>3, <2>4, <2>5 DEF IsList
<1> QED  BY <1>1, <1>2

\* clearEvent: outside the time between taking and calling.
LEMMA ClearStep ==
  ASSUME ~Preempts, IInv, NEW r \in Responder, ClearEvent(r)
  PROVE  /\ Types' /\ TakenKept'
         /\ \A w \in Way : \A q : IsList(w, q) => IsList(w, Queue!Without(q, r))'
<1> USE DEF IInv
<1>0. /\ type' = type /\ taken' = taken /\ triggered' = [triggered EXCEPT ![r] = FALSE]
      /\ type \in [Responder -> Type] /\ triggered \in [Responder -> BOOLEAN]
  BY DEF ClearEvent, runVars, Types
<1>1. ~Held(r) /\ UnlinkIfTriggered(r)
  BY DEF ClearEvent
<1>2. \A w \in Way : taken[w] # r
  BY <1>1 DEF Held
<1>3. \A w \in Way : Waiting(w)' = Waiting(w) \ {r}
  BY <1>0 DEF Waiting
<1>4. Types'
  BY <1>0, <1>1, UnlinkStep DEF Types
<1>5. TakenKept'
  BY <1>0, <1>2 DEF TakenKept, Types
<1>6. ASSUME NEW w \in Way, NEW q, IsList(w, q) PROVE IsList(w, Queue!Without(q, r))'
  BY <1>1, <1>3, <1>6, UnlinkStep DEF IsList
<1> QED  BY <1>4, <1>5, <1>6

\* attach, attachInterrupt and detach.
LEMMA AttachStep ==
  ASSUME ~Preempts, ~Reattach, IInv, NEW r \in Responder, NEW t \in Type, Attach(r, t)
  PROVE  /\ Types' /\ TakenKept'
         /\ \A w \in Way : \A q : IsList(w, q) => IsList(w, Queue!Without(q, r))'
<1> USE DEF IInv
<1>0. /\ type' = [type EXCEPT ![r] = t] /\ taken' = taken /\ triggered' = triggered
      /\ type \in [Responder -> Type] /\ triggered \in [Responder -> BOOLEAN]
  BY DEF Attach, runVars, Types
<1>1. ~Held(r) /\ UnlinkIfTriggered(r) /\ (t \in Way => ~triggered[r])
  BY DEF Attach
<1>2. \A w \in Way : taken[w] # r
  BY <1>1 DEF Held
<1>3. \A w \in Way : Waiting(w)' = Waiting(w) \ {r}
  BY <1>0, <1>1 DEF Waiting
<1>4. Types'
  BY <1>0, <1>1, UnlinkStep DEF Types
<1>5. TakenKept'
  BY <1>0, <1>2 DEF TakenKept, Types
<1>6. ASSUME NEW w \in Way, NEW q, IsList(w, q) PROVE IsList(w, Queue!Without(q, r))'
  BY <1>1, <1>3, <1>6, UnlinkStep DEF IsList
<1> QED  BY <1>4, <1>5, <1>6

\* The runners take the head of a list.
LEMMA TailIs ==
  ASSUME NEW q \in Seq(Responder), 1 \in 1..Len(q)
  PROVE  q # <<>> /\ Head(q) = q[1] /\ Tail(q) = Queue!WithoutNth(q, 1)
<1>1. q # <<>> /\ Len(q) \in Nat
  OBVIOUS
<1>2. /\ Head(q) = q[1] /\ Tail(q) \in Seq(Responder) /\ Len(Tail(q)) = Len(q) - 1
      /\ \A i \in 1..Len(q) - 1 : Tail(q)[i] = q[i + 1]
  BY <1>1
<1>3. /\ Queue!WithoutNth(q, 1) \in Seq(Responder)
      /\ Len(Queue!WithoutNth(q, 1)) = Len(q) - 1
      /\ \A i \in 1..Len(q) - 1 : Queue!WithoutNth(q, 1)[i] = q[i + 1]
  BY <1>1, NthWithout
<1> QED  BY <1>1, <1>2, <1>3, SeqEqual

LEMMA PopStep ==
  ASSUME IInv, NEW w \in Way, first[w] # NoResponder, taken[w] = NoResponder, Pop(w)
  PROVE  /\ Types' /\ TakenKept'
         /\ \A v \in Way : \A q : IsList(v, q) =>
              IF v = w THEN q # <<>> /\ Head(q) = first[w] /\ IsList(v, Tail(q))'
              ELSE IsList(v, q)'
<1> USE DEF IInv
<1>0. /\ type' = type /\ triggered' = triggered
      /\ taken \in [Way -> Link] /\ taken' = [taken EXCEPT ![w] = first[w]]
  BY DEF Pop, Types
<1>1. PICK p : IsList(w, p)
  BY DEF HasLists
<1>2. first[w] \in Waiting(w)
  BY <1>1, Closed
<1>3. Unlink(first[w], w)
  BY <1>1, PopIsUnlink DEF Types
<1>4. Waiting(w)' = Waiting(w) \ {first[w]}
  BY <1>0, ResponderAssumption DEF Waiting
<1>5. \A v \in Way : v # w => Waiting(v)' = Waiting(v)
  BY <1>0 DEF Waiting
<1>6. ASSUME NEW q, IsList(w, q)
      PROVE  q # <<>> /\ Head(q) = first[w] /\ IsList(w, Tail(q))' /\ LinkTypes'
  <2>1. q \in Seq(Responder) /\ Distinct(q) /\ Members(q) = Waiting(w)
    BY <1>6 DEF IsList
  <2>2. 1 \in 1..Len(q) /\ first[w] = q[1]
    BY <1>6, PopIsUnlink DEF Types
  <2>3. q # <<>> /\ Head(q) = q[1] /\ Tail(q) = Queue!WithoutNth(q, 1)
    BY <2>1, <2>2, TailIs
  <2>4. /\ Linked(Queue!WithoutNth(q, 1), first[w]', last[w]', next', prev')
        /\ LinkTypes'
    BY <1>3, <1>6, <2>2, UnlinkThis DEF Types
  <2>5. Queue!WithoutNth(q, 1) \in Seq(Responder)
    BY <2>1, <2>2, NthWithout
  <2>6. /\ Distinct(Queue!WithoutNth(q, 1))
        /\ Members(Queue!WithoutNth(q, 1)) = Waiting(w)'
    BY <1>4, <2>1, <2>2, WithoutMembers
  <2> QED  BY <2>2, <2>3, <2>4, <2>5, <2>6 DEF IsList
<1>7. ASSUME NEW v \in Way, v # w, NEW q, IsList(v, q) PROVE IsList(v, q)'
  <2>1. Linked(q, first[v]', last[v]', next', prev')
    BY <1>1, <1>2, <1>3, <1>7, UnlinkOther DEF Types
  <2> QED  BY <1>5, <1>7, <2>1 DEF IsList
<1>8. Types'
  <2>1. taken' \in [Way -> Link]
    BY <1>0 DEF Types, LinkTypes
  <2>2. LinkTypes'
    BY <1>1, <1>6
  <2> QED  BY <1>0, <2>1, <2>2 DEF Types
<1>9. TakenKept'
  BY <1>0, <1>2 DEF TakenKept, Waiting
<1> QED  BY <1>6, <1>7, <1>8, <1>9

\* The flag of the taken responder is reset when no list holds it.
LEMMA CallStep ==
  ASSUME IInv, NEW w \in Way, Call(w)
  PROVE  /\ Types' /\ TakenKept'
         /\ \A v \in Way : \A q : IsList(v, q) => IsList(v, q)'
<1> USE DEF IInv
<1>0. /\ type' = type /\ taken[w] # NoResponder
      /\ UNCHANGED <<next, prev, first, last>>
      /\ taken \in [Way -> Link] /\ taken' = [taken EXCEPT ![w] = NoResponder]
      /\ triggered \in [Responder -> BOOLEAN]
      /\ triggered' = [triggered EXCEPT ![taken[w]] = FALSE]
  BY DEF Call, Types
<1>1. taken[w] \in Responder /\ type[taken[w]] = w
  BY <1>0 DEF TakenKept, Link
<1>2. \A v \in Way : Waiting(v)' = Waiting(v)
  BY <1>0, <1>1, ResponderAssumption DEF Waiting
<1>3. Types'
  <2>1. triggered' \in [Responder -> BOOLEAN]
    BY <1>0
  <2>2. taken' \in [Way -> Link]
    BY <1>0 DEF Link
  <2> QED  BY <1>0, <2>1, <2>2 DEF Types, LinkTypes
<1>4. TakenKept'
  <2> SUFFICES ASSUME NEW v \in Way, taken'[v] # NoResponder
      PROVE  triggered'[taken'[v]] /\ type'[taken'[v]] = v
    BY DEF TakenKept
  <2>1. v # w /\ taken'[v] = taken[v]
    BY <1>0
  <2>2. taken[v] \in Responder /\ type[taken[v]] = v /\ triggered[taken[v]]
    BY <1>0, <2>1 DEF TakenKept, Link
  <2>3. taken[v] # taken[w]
    BY <1>1, <2>1, <2>2
  <2> QED  BY <1>0, <2>1, <2>2, <2>3
<1>5. ASSUME NEW v \in Way, NEW q, IsList(v, q) PROVE IsList(v, q)'
  BY <1>0, <1>2, <1>5 DEF IsList
<1> QED  BY <1>3, <1>4, <1>5

\* Steps that leave lists, flags and runners alone.
LEMMA IdleStep ==
  ASSUME IInv, UNCHANGED <<listVars, taken>>
  PROVE  /\ Types' /\ TakenKept'
         /\ \A v \in Way : \A q : IsList(v, q) => IsList(v, q)'
<1> USE DEF IInv
<1>0. UNCHANGED <<type, triggered, next, prev, first, last, taken>>
  BY DEF listVars
<1>1. Types' /\ TakenKept'
  BY <1>0 DEF Types, LinkTypes, TakenKept
<1>2. ASSUME NEW v \in Way, NEW q, IsList(v, q) PROVE IsList(v, q)'
  BY <1>0, <1>2 DEF IsList, Waiting
<1> QED  BY <1>1, <1>2

LEMMA InitLists == Init => \A w \in Way : IsList(w, <<>>)
<1> SUFFICES ASSUME Init, NEW w \in Way PROVE IsList(w, <<>>)
  OBVIOUS
<1>1. Members(<<>>) = {} /\ Distinct(<<>>) /\ <<>> \in Seq(Responder)
  BY DEF Members, Distinct
<1>2. Waiting(w) = {}
  BY DEF Init, Waiting
<1>3. Linked(<<>>, first[w], last[w], next, prev)
  BY DEF Init, Linked, Nth
<1> QED  BY <1>1, <1>2, <1>3 DEF IsList

LEMMA InitHolds == Init => IInv
<1>1. Init => Types
  BY DEF Init, Types, LinkTypes, Link, Type
<1>2. Init => TakenKept
  BY DEF Init, TakenKept
<1> QED  BY <1>1, <1>2, InitLists DEF IInv, HasLists

-----------------------------------------------------------------------------
\* The invariant is kept by every step.
LEMMA StepKeeps ==
  ASSUME ~Preempts, ~Reattach, IInv, [Next]_vars
  PROVE  IInv'
<1>0. \A w \in Way : \E q : IsList(w, q)
  BY DEF IInv, HasLists
<1>1. ASSUME NEW r \in Responder, TriggerEvent(r) PROVE IInv'
  BY <1>0, <1>1, TriggerStep DEF IInv, HasLists
<1>2. ASSUME NEW r \in Responder, ClearEvent(r) PROVE IInv'
  BY <1>0, <1>2, ClearStep DEF IInv, HasLists
<1>3. ASSUME NEW r \in Responder, NEW t \in Type, Attach(r, t) PROVE IInv'
  BY <1>0, <1>3, AttachStep DEF IInv, HasLists
<1>4. ASSUME NEW w \in Way, first[w] # NoResponder, taken[w] = NoResponder, Pop(w)
      PROVE  IInv'
  BY <1>0, <1>4, PopStep DEF IInv, HasLists
<1>5. ASSUME NEW w \in Way, Call(w) PROVE IInv'
  BY <1>0, <1>5, CallStep DEF IInv, HasLists
<1>6. ASSUME UNCHANGED <<listVars, taken>> PROVE IInv'
  BY <1>0, <1>6, IdleStep DEF IInv, HasLists
<1>7. CASE Use
  BY <1>1, <1>2, <1>3, <1>7 DEF Use
<1>8. CASE PendSV
  <2>1. CASE PendableSrvReq
    BY <1>6, <2>1 DEF PendableSrvReq
  <2>2. CASE RunFromInterrupt
    BY <1>4, <1>6, <2>2 DEF RunFromInterrupt, Way
  <2>3. CASE Call("Interrupt")
    BY <1>5, <2>3 DEF Way
  <2> QED  BY <1>8, <2>1, <2>2, <2>3 DEF PendSV
<1>9. CASE Yield
  <2>1. CASE RunFromYield
    BY <1>4, <2>1 DEF RunFromYield, Way
  <2>2. CASE Call("Yield")
    BY <1>5, <2>2 DEF Way
  <2> QED  BY <1>9, <2>1, <2>2 DEF Yield
<1>10. CASE UNCHANGED vars
  BY <1>6, <1>10 DEF vars, runVars
<1> QED  BY <1>7, <1>8, <1>9, <1>10 DEF Next

\* Both lists are sound whatever is triggered, cleared, attached or detached
\* between the steps of the runners (EventResponder.cpp:49-180), as long as
\* the program clears and attaches only responders that no runner has taken
\* and attaches only those without a trigger.
THEOREM ListsAlwaysSound ==
  ASSUME ~Preempts, ~Reattach
  PROVE  Spec => []ListsSound
<1>1. IInv /\ [Next]_vars => IInv'
  BY StepKeeps
<1>2. IInv => ListsSound
  BY ListsAreSound DEF IInv
<1> QED  BY InitHolds, <1>1, <1>2, PTL DEF Spec

-----------------------------------------------------------------------------
(* The refinement *)

LEMMA QueueInit == Init => Queue!Init
<1> SUFFICES ASSUME Init PROVE Queue!Init
  OBVIOUS
<1>1. ASSUME NEW w \in Way PROVE List(w) = <<>>
  BY InitLists, ListIs
<1>2. [w \in Way |-> List(w)] = [w \in Way |-> <<>>]
  BY <1>1
<1>3. {r \in Responder : triggered[r]} = {}
  BY DEF Init
<1> QED  BY <1>2, <1>3 DEF Init, Queue!Init, Way, Queue!Way

LEMMA TriggerRefines ==
  ASSUME IInv, NEW r \in Responder, TriggerEvent(r)
  PROVE  Queue!Trigger(r)
<1>1. /\ type' = type /\ taken' = taken /\ triggered' = [triggered EXCEPT ![r] = TRUE]
      /\ triggered \in [Responder -> BOOLEAN]
  BY DEF IInv, TriggerEvent, runVars, Types
<1>2. {x \in Responder : triggered[x]}' = {x \in Responder : triggered[x]} \cup {r}
  BY <1>1
<1>3. r \in {x \in Responder : triggered[x]} <=> triggered[r]
  OBVIOUS
<1>4. ASSUME NEW w \in Way
      PROVE  List(w)' = IF w = type[r] /\ ~triggered[r] THEN Append(List(w), r) ELSE List(w)
  <2>1. PICK q : IsList(w, q)
    BY DEF IInv, HasLists
  <2>2. List(w) = q
    BY <2>1, ListIs
  <2>3. CASE w = type[r] /\ ~triggered[r]
    <3>1. IsList(w, Append(q, r))'
      BY <2>1, <2>3, TriggerStep
    <3>2. PICK p : p = Append(q, r)
      OBVIOUS
    <3>3. List(w)' = p
      BY <3>1, <3>2, ListIsNext
    <3> QED  BY <2>2, <2>3, <3>2, <3>3
  <2>4. CASE ~(w = type[r] /\ ~triggered[r])
    <3>1. IsList(w, q)'
      BY <2>1, <2>4, TriggerStep
    <3> QED  BY <2>2, <2>4, <3>1, ListIsNext
  <2> QED  BY <2>3, <2>4
<1>5. [w \in Way |-> List(w)]' =
        [w \in Way |-> IF w = type[r] /\ r \notin {x \in Responder : triggered[x]}
                       THEN Append(List(w), r) ELSE List(w)]
  BY <1>3, <1>4
<1>6. \A w \in Way : [v \in Way |-> List(v)][w] = List(w)
  OBVIOUS
<1> QED  BY <1>1, <1>2, <1>5, <1>6 DEF Queue!Trigger, Way, Queue!Way

LEMMA ClearRefines ==
  ASSUME ~Preempts, IInv, NEW r \in Responder, ClearEvent(r)
  PROVE  Queue!Clear(r)
<1>1. /\ type' = type /\ taken' = taken /\ triggered' = [triggered EXCEPT ![r] = FALSE]
      /\ triggered \in [Responder -> BOOLEAN]
  BY DEF IInv, ClearEvent, runVars, Types
<1>2. {x \in Responder : triggered[x]}' = {x \in Responder : triggered[x]} \ {r}
  BY <1>1
<1>3. ASSUME NEW w \in Way PROVE List(w)' = Queue!Without(List(w), r)
  <2>1. PICK q : IsList(w, q)
    BY DEF IInv, HasLists
  <2>2. List(w) = q
    BY <2>1, ListIs
  <2>3. PICK p : p = Queue!Without(q, r)
    OBVIOUS
  <2>4. IsList(w, p)'
    BY <2>1, <2>3, ClearStep
  <2> QED  BY <2>2, <2>3, <2>4, ListIsNext
<1>4. [w \in Way |-> List(w)]' = [w \in Way |-> Queue!Without([v \in Way |-> List(v)][w], r)]
  BY <1>3
<1> QED  BY <1>1, <1>2, <1>4 DEF Queue!Clear, Way, Queue!Way

LEMMA AttachRefines ==
  ASSUME ~Preempts, ~Reattach, IInv, NEW r \in Responder, NEW t \in Type, Attach(r, t)
  PROVE  Queue!Attach(r, t)
<1>1. /\ type' = [type EXCEPT ![r] = t] /\ taken' = taken /\ triggered' = triggered
      /\ t \in Way => ~triggered[r]
  BY DEF Attach, runVars
<1>2. {x \in Responder : triggered[x]}' = {x \in Responder : triggered[x]}
  BY <1>1
<1>3. ASSUME NEW w \in Way PROVE List(w)' = Queue!Without(List(w), r)
  <2>1. PICK q : IsList(w, q)
    BY DEF IInv, HasLists
  <2>2. List(w) = q
    BY <2>1, ListIs
  <2>3. PICK p : p = Queue!Without(q, r)
    OBVIOUS
  <2>4. IsList(w, p)'
    BY <2>1, <2>3, AttachStep
  <2> QED  BY <2>2, <2>3, <2>4, ListIsNext
<1>4. [w \in Way |-> List(w)]' = [w \in Way |-> Queue!Without([v \in Way |-> List(v)][w], r)]
  BY <1>3
<1>5. t \in Way => r \notin {x \in Responder : triggered[x]}
  BY <1>1
<1> QED  BY <1>1, <1>2, <1>4, <1>5 DEF Queue!Attach, Way, Queue!Way

LEMMA TakeRefines ==
  ASSUME IInv, NEW w \in Way, first[w] # NoResponder, taken[w] = NoResponder, Pop(w)
  PROVE  Queue!Take(w)
<1>1. /\ type' = type /\ triggered' = triggered
      /\ taken' = [taken EXCEPT ![w] = first[w]]
  BY DEF Pop
<1>2. PICK q : IsList(w, q)
  BY DEF IInv, HasLists
<1>3. List(w) = q
  BY <1>2, ListIs
<1>4. q # <<>> /\ Head(q) = first[w] /\ IsList(w, Tail(q))'
  BY <1>2, PopStep
<1>5. PICK p : p = Tail(q)
  OBVIOUS
<1>6. List(w)' = Tail(List(w))
  BY <1>3, <1>4, <1>5, ListIsNext
<1>7. ASSUME NEW v \in Way, v # w PROVE List(v)' = List(v)
  <2>1. PICK s : IsList(v, s)
    BY DEF IInv, HasLists
  <2>2. IsList(v, s)'
    BY <1>7, <2>1, PopStep
  <2> QED  BY <2>1, <2>2, ListIs, ListIsNext
<1>8. [v \in Way |-> List(v)]' = [[v \in Way |-> List(v)] EXCEPT ![w] = Tail(@)]
  BY <1>6, <1>7
<1>9. [v \in Way |-> List(v)][w] # <<>> /\ Head([v \in Way |-> List(v)][w]) = first[w]
  BY <1>3, <1>4
<1> QED  BY <1>1, <1>8, <1>9 DEF Queue!Take

\* A step that leaves both lists as they are.
LEMMA SameQueues ==
  ASSUME IInv, \A v \in Way : \A q : IsList(v, q) => IsList(v, q)'
  PROVE  [v \in Way |-> List(v)]' = [v \in Way |-> List(v)]
<1>1. ASSUME NEW v \in Way PROVE List(v)' = List(v)
  <2>1. PICK s : IsList(v, s)
    BY DEF IInv, HasLists
  <2>2. IsList(v, s)'
    BY <2>1
  <2> QED  BY <2>1, <2>2, ListIs, ListIsNext
<1> QED  BY <1>1

LEMMA CallRefines ==
  ASSUME IInv, NEW w \in Way, Call(w)
  PROVE  Queue!Call(w)
<1>1. /\ type' = type /\ taken[w] # NoResponder
      /\ taken' = [taken EXCEPT ![w] = NoResponder]
      /\ triggered \in [Responder -> BOOLEAN]
      /\ triggered' = [triggered EXCEPT ![taken[w]] = FALSE]
  BY DEF IInv, Call, Types
<1>2. {x \in Responder : triggered[x]}' = {x \in Responder : triggered[x]} \ {taken[w]}
  BY <1>1
<1>3. [v \in Way |-> List(v)]' = [v \in Way |-> List(v)]
  BY CallStep, SameQueues
<1> QED  BY <1>1, <1>2, <1>3 DEF Queue!Call

LEMMA IdleRefines ==
  ASSUME IInv, UNCHANGED <<listVars, taken>>
  PROVE  UNCHANGED Queue!vars
<1>1. [v \in Way |-> List(v)]' = [v \in Way |-> List(v)]
  BY IdleStep, SameQueues
<1>2. UNCHANGED <<type, triggered, taken>>
  BY DEF listVars
<1> QED  BY <1>1, <1>2 DEF Queue!vars

LEMMA StepRefines ==
  ASSUME ~Preempts, ~Reattach, IInv, [Next]_vars
  PROVE  [Queue!Next]_(Queue!vars)
<1>1. ASSUME NEW r \in Responder, TriggerEvent(r) PROVE Queue!Next
  BY <1>1, TriggerRefines DEF Queue!Next
<1>2. ASSUME NEW r \in Responder, ClearEvent(r) PROVE Queue!Next
  BY <1>2, ClearRefines DEF Queue!Next
<1>3. ASSUME NEW r \in Responder, NEW t \in Type, Attach(r, t) PROVE Queue!Next
  BY <1>3, AttachRefines DEF Queue!Next, Queue!Way, Type, Way
<1>4. ASSUME NEW w \in Way, first[w] # NoResponder, taken[w] = NoResponder, Pop(w)
      PROVE  Queue!Next
  BY <1>4, TakeRefines DEF Queue!Next, Queue!Way, Way
<1>5. ASSUME NEW w \in Way, Call(w) PROVE Queue!Next
  BY <1>5, CallRefines DEF Queue!Next, Queue!Way, Way
<1>6. ASSUME UNCHANGED <<listVars, taken>> PROVE UNCHANGED Queue!vars
  BY <1>6, IdleRefines
<1>7. CASE Use
  BY <1>1, <1>2, <1>3, <1>7 DEF Use
<1>8. CASE PendSV
  <2>1. CASE PendableSrvReq
    BY <1>6, <2>1 DEF PendableSrvReq
  <2>2. CASE RunFromInterrupt
    BY <1>4, <1>6, <2>2 DEF RunFromInterrupt, Way
  <2>3. CASE Call("Interrupt")
    BY <1>5, <2>3 DEF Way
  <2> QED  BY <1>8, <2>1, <2>2, <2>3 DEF PendSV
<1>9. CASE Yield
  <2>1. CASE RunFromYield
    BY <1>4, <2>1 DEF RunFromYield, Way
  <2>2. CASE Call("Yield")
    BY <1>5, <2>2 DEF Way
  <2> QED  BY <1>9, <2>1, <2>2 DEF Yield
<1>10. CASE UNCHANGED vars
  BY <1>6, <1>10 DEF vars, runVars
<1> QED  BY <1>7, <1>8, <1>9, <1>10 DEF Next

\* The lists, the flags and the two runners implement the queues of
\* EventQueue: each trigger is answered by one call, in the order of the
\* triggers, whatever comes between taking a responder and calling its
\* function (EventResponder.cpp:49-180), under the same conditions.
THEOREM QueueImplemented ==
  ASSUME ~Preempts, ~Reattach
  PROVE  Spec => ImplementsQueue
<1>1. IInv /\ [Next]_vars => IInv'
  BY StepKeeps
<1>2. IInv /\ [Next]_vars => [Queue!Next]_(Queue!vars)
  BY StepRefines
<1> QED  BY InitHolds, QueueInit, <1>1, <1>2, PTL DEF Spec, ImplementsQueue, Queue!Spec
=============================================================================
