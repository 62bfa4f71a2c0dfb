-------------------------- MODULE EASPolicy_proofs --------------------------
(***************************************************************************)
(* What the aggregate of any number of policies is: a policy, one that is  *)
(* as strict as each of them, and no stricter than all of them together.   *)
(* All are shown by induction over the sequence, which here is the         *)
(* argument of the smallest counterexample.  And what the search for runs  *)
(* finds in a passcode of any length.                                      *)
(***************************************************************************)
EXTENDS EASPolicy, WellFoundedInduction, TLAPS

(* A set of naturals that is not empty has a least member. *)
LEMMA LeastMember ==
  ASSUME NEW T \in SUBSET Nat, T # {}
  PROVE  \E m \in T : \A k \in T : ~ (k < m)
  <1>1. \E m \in T : \A k \in T : ~ (<<k, m>> \in OpToRel(<, Nat))
    BY NatLessThanWellFounded, WFMin, Zenon
  <1> QED BY <1>1 DEF OpToRel

(* A set that holds 0, and each successor of a member up to n, holds n. *)
LEMMA UpTo ==
  ASSUME NEW n \in Nat, NEW H, 0 \in H,
         \A k \in 1 .. n : k - 1 \in H => k \in H
  PROVE  \A k \in 0 .. n : k \in H
  <1> DEFINE T == {k \in 0 .. n : k \notin H}
  <1>1. SUFFICES ASSUME T # {} PROVE FALSE
    OBVIOUS
  <1>2. T \in SUBSET Nat
    OBVIOUS
  <1>3. \E m \in T : \A k \in T : ~ (k < m)
    BY <1>1, <1>2, LeastMember, Zenon
  <1>4. PICK m \in T : \A k \in T : ~ (k < m)
    BY <1>3
  <1>5. m \in 1 .. n /\ m - 1 \in 0 .. n /\ m - 1 < m
    BY <1>4
  <1>6. m - 1 \in H
    BY <1>4, <1>5
  <1> QED BY <1>4, <1>5, <1>6

-----------------------------------------------------------------------------
(* One merge.                                                              *)

LEMMA MaxInactivityType ==
  ASSUME NEW p \in Policy
  PROVE  /\ MaxInactivity(p) \in Nat
         /\ MaxInactivity(p) <= p.inactivity
  <1>1. p.inactivity \in Nat
    BY DEF Policy
  <1>2. p.inactivity % 30 \in 0 .. p.inactivity /\ p.inactivity % 60 \in 0 .. p.inactivity
    BY <1>1
  <1> QED BY <1>1, <1>2 DEF MaxInactivity

LEMMA MergedType ==
  ASSUME NEW a \in Policy, NEW p \in Policy \cup {NoPolicy}
  PROVE  Merged(a, p) \in Policy
  BY MaxInactivityType DEF Merged, Merge, Stricter, MergedMaxRetries, Policy

-----------------------------------------------------------------------------
(* All of them.  The equation that defines the aggregate has a solution.   *)

Merges(f, policies, k) ==
  f = [n \in 0 .. k |-> IF n = 0 THEN DefaultPolicy
                                 ELSE Merged(f[n - 1], policies[n])]

LEMMA MergesExist ==
  ASSUME NEW policies \in Seq(Policy \cup {NoPolicy})
  PROVE  \E f \in [0 .. Len(policies) -> Policy] : Merges(f, policies, Len(policies))
  <1> DEFINE L == Len(policies)
             H == {k \in 0 .. L : \E f \in [0 .. k -> Policy] : Merges(f, policies, k)}
  <1>1. L \in Nat /\ \A n \in 1 .. L : policies[n] \in Policy \cup {NoPolicy}
    OBVIOUS
  <1>2. 0 \in H
    <2> DEFINE f == [n \in 0 .. 0 |-> DefaultPolicy]
    <2>1. f \in [0 .. 0 -> Policy]
      BY DEF DefaultPolicy, Policy
    <2>2. f = [n \in 0 .. 0 |-> IF n = 0 THEN DefaultPolicy
                                         ELSE Merged(f[n - 1], policies[n])]
      OBVIOUS
    <2>3. Merges(f, policies, 0) /\ 0 \in 0 .. L
      BY <1>1, <2>2 DEF Merges
    <2> QED BY <2>1, <2>3, Zenon
  <1>3. ASSUME NEW k \in 1 .. L, k - 1 \in H
        PROVE  k \in H
    <2>1. PICK f \in [0 .. k - 1 -> Policy] : Merges(f, policies, k - 1)
      BY <1>3
    <2> DEFINE g == [n \in 0 .. k |-> IF n = k THEN Merged(f[k - 1], policies[k]) ELSE f[n]]
    <2>2. f[k - 1] \in Policy /\ policies[k] \in Policy \cup {NoPolicy}
      BY <1>1, <2>1
    <2>3. Merged(f[k - 1], policies[k]) \in Policy
      BY <2>2, MergedType
    <2>4. g \in [0 .. k -> Policy]
      BY <2>1, <2>3
    <2>5. \A n \in 0 .. k - 1 :
            f[n] = IF n = 0 THEN DefaultPolicy ELSE Merged(f[n - 1], policies[n])
      BY <2>1 DEF Merges
    <2>6. g[k] = Merged(g[k - 1], policies[k])
      OBVIOUS
    <2>7. ASSUME NEW n \in 0 .. k
          PROVE  g[n] = IF n = 0 THEN DefaultPolicy ELSE Merged(g[n - 1], policies[n])
      <3>1. CASE n = k
        BY <2>6, <3>1
      <3>2. CASE n \in 0 .. k - 1 /\ n # 0
        <4>1. g[n] = f[n] /\ g[n - 1] = f[n - 1]
          BY <3>2
        <4> QED BY <2>5, <3>2, <4>1
      <3>3. CASE n = 0
        <4>1. g[n] = f[n] /\ n \in 0 .. k - 1
          BY <3>3
        <4> QED BY <2>5, <3>3, <4>1
      <3> QED BY <3>1, <3>2, <3>3
    <2>8. Merges(g, policies, k)
      BY <2>4, <2>7 DEF Merges
    <2> QED BY <2>4, <2>8
  <1> HIDE DEF H, L
  <1>4. \A k \in 1 .. L : k - 1 \in H => k \in H
    BY <1>3
  <1>5. \A k \in 0 .. L : k \in H
    BY <1>1, <1>2, <1>4, UpTo, Zenon
  <1>6. L \in H
    BY <1>1, <1>5
  <1> QED BY <1>6, Zenon DEF H, L

(* What the aggregate is: the last of a function that obeys the equation.  *)
LEMMA AggregateIs ==
  ASSUME NEW policies \in Seq(Policy \cup {NoPolicy})
  PROVE  \E f : /\ Merges(f, policies, Len(policies))
                /\ Aggregate(policies) = f[Len(policies)]
  <1> DEFINE merged == CHOOSE f : f = [n \in 0 .. Len(policies) |->
                                         IF n = 0 THEN DefaultPolicy
                                         ELSE Merged(f[n - 1], policies[n])]
  <1>1. Aggregate(policies) = merged[Len(policies)]
    BY Zenon DEF Aggregate
  <1>2. \E f : f = [n \in 0 .. Len(policies) |->
                      IF n = 0 THEN DefaultPolicy ELSE Merged(f[n - 1], policies[n])]
    BY MergesExist, Zenon DEF Merges
  <1>3. Merges(merged, policies, Len(policies))
    BY <1>2, Zenon DEF Merges
  <1> QED BY <1>1, <1>3, Zenon

(* The policies of any number of accounts merge into a policy. *)
THEOREM AggregateType ==
  ASSUME NEW policies \in Seq(Policy \cup {NoPolicy})
  PROVE  Aggregate(policies) \in Policy
  <1> DEFINE L == Len(policies)
  <1>1. PICK f : Merges(f, policies, L) /\ Aggregate(policies) = f[L]
    BY AggregateIs
  <1>2. L \in Nat /\ \A n \in 1 .. L : policies[n] \in Policy \cup {NoPolicy}
    OBVIOUS
  <1> HIDE DEF L
  <1>3. \A n \in 0 .. L :
          f[n] = IF n = 0 THEN DefaultPolicy ELSE Merged(f[n - 1], policies[n])
    BY <1>1 DEF Merges
  <1> DEFINE H == {n \in 0 .. L : f[n] \in Policy}
  <1>4. 0 \in H
    <2>1. DefaultPolicy \in Policy
      BY DEF DefaultPolicy, Policy
    <2> QED BY <1>2, <1>3, <2>1
  <1>5. ASSUME NEW n \in 1 .. L, n - 1 \in H
        PROVE  n \in H
    <2>1. f[n] = Merged(f[n - 1], policies[n])
      BY <1>2, <1>3
    <2>2. Merged(f[n - 1], policies[n]) \in Policy
      BY <1>2, <1>5, MergedType
    <2> QED BY <2>1, <2>2
  <1> HIDE DEF H
  <1>6. \A n \in 0 .. L : n \in H
    BY <1>2, <1>4, <1>5, UpTo, Zenon
  <1>7. L \in H
    BY <1>2, <1>6
  <1> QED BY <1>1, <1>7, Zenon DEF H

(* The attempts that the aggregate allows are those that one of the        *)
(* policies allows, or are not limited.                                    *)
LEMMA AggregateRetries ==
  ASSUME NEW policies \in Seq(Policy \cup {NoPolicy})
  PROVE  \/ Aggregate(policies).maxRetries = 0
         \/ \E i \in DOMAIN policies :
              policies[i] # NoPolicy /\ policies[i].maxRetries = Aggregate(policies).maxRetries
  <1> DEFINE L == Len(policies)
             Among(x) == x = 0 \/ \E i \in DOMAIN policies :
                                    policies[i] # NoPolicy /\ policies[i].maxRetries = x
  <1>1. PICK f : Merges(f, policies, L) /\ Aggregate(policies) = f[L]
    BY AggregateIs
  <1>2. L \in Nat /\ \A n \in 1 .. L : n \in DOMAIN policies
    OBVIOUS
  <1> HIDE DEF L
  <1>3. \A n \in 0 .. L :
          f[n] = IF n = 0 THEN DefaultPolicy ELSE Merged(f[n - 1], policies[n])
    BY <1>1 DEF Merges
  <1> DEFINE H == {n \in 0 .. L : Among(f[n].maxRetries)}
  <1>4. 0 \in H
    BY <1>2, <1>3 DEF DefaultPolicy
  <1>5. ASSUME NEW n \in 1 .. L, n - 1 \in H
        PROVE  n \in H
    <2> DEFINE a == f[n - 1]
               p == policies[n]
    <2>1. f[n] = Merged(a, p) /\ n \in 0 .. L /\ n \in DOMAIN policies
      BY <1>2, <1>3
    <2>2. Among(a.maxRetries)
      BY <1>5
    <2> HIDE DEF a
    <2>3. CASE p = NoPolicy
      BY <2>1, <2>2, <2>3 DEF Merged
    <2>4. CASE p # NoPolicy
      <3>1. p \in Policy
        BY <2>1, <2>4
      <3>2. f[n].maxRetries \in {a.maxRetries, p.maxRetries}
        BY <2>1, <2>4, <3>1 DEF Merged, Merge, Stricter, MergedMaxRetries, Policy
      <3> QED BY <2>1, <2>2, <2>4, <3>2
    <2> QED BY <2>3, <2>4
  <1> HIDE DEF H
  <1>6. \A n \in 0 .. L : n \in H
    BY <1>2, <1>4, <1>5, UpTo, Zenon
  <1>7. L \in H
    BY <1>2, <1>6
  <1>8. Among(f[L].maxRetries)
    BY <1>7 DEF H
  <1> QED BY <1>1, <1>8

-----------------------------------------------------------------------------
(* As strict as each.  MaxInactivity() rounds down to a grid, and an       *)
(* aggregate that asks for a passcode is on it.                            *)

OnGrid(n) == n \in Nat /\ (IF n < 60 THEN n % 30 = 0 ELSE n % 60 = 0)

LEMMA Rounding ==
  ASSUME NEW p \in Policy, p.inactivity <= 9998
  PROVE  /\ OnGrid(MaxInactivity(p))
         /\ \A n \in Nat : OnGrid(n) /\ n <= p.inactivity => n <= MaxInactivity(p)
  <1>1. p.inactivity \in Nat
    BY DEF Policy
  <1>2. PICK s : s = p.inactivity
    OBVIOUS
  <1>3. CASE s < 60
    <2>1. MaxInactivity(p) = s - (s % 30)
      BY <1>1, <1>2, <1>3 DEF MaxInactivity
    <2> QED BY <1>1, <1>2, <1>3, <2>1 DEF OnGrid
  <1>4. CASE s >= 60
    <2>1. MaxInactivity(p) = s - (s % 60)
      BY <1>1, <1>2, <1>4 DEF MaxInactivity
    <2>2. s - (s % 60) >= 60 /\ (s - (s % 60)) % 60 = 0
      BY <1>1, <1>2, <1>4
    <2>3. \A n \in Nat : n % 60 = 0 /\ n <= s => n <= s - (s % 60)
      BY <1>1, <1>2
    <2> QED BY <1>1, <1>2, <1>4, <2>1, <2>2, <2>3 DEF OnGrid
  <1> QED BY <1>1, <1>2, <1>3, <1>4

Gridded(a) == a.passwordRequired => OnGrid(a.inactivity)

LEMMA MergedAsStrict ==
  ASSUME NEW a \in Policy, Gridded(a),
         NEW p \in Policy, p.inactivity <= 9998
  PROVE  /\ Gridded(Merge(a, p))
         /\ AsStrictAs(Merge(a, p), p)
         /\ \A q \in Policy : AsStrictAs(a, q) => AsStrictAs(Merge(a, p), q)
  <1>1. /\ OnGrid(MaxInactivity(p)) /\ MaxInactivity(p) <= p.inactivity
        /\ MaxInactivity(p) \in Nat
        /\ \A n \in Nat : OnGrid(n) /\ n <= p.inactivity => n <= MaxInactivity(p)
    BY Rounding, MaxInactivityType
  <1>2. \A q \in Policy : MaxInactivity(q) \in Nat
    BY MaxInactivityType
  <1>3. CASE ~p.passwordRequired
    BY <1>3 DEF Merge, AsStrictAs
  <1>4. CASE p.passwordRequired /\ ~a.passwordRequired
    <2> DEFINE b == [p EXCEPT !.inactivity = MaxInactivity(p)]
    <2>1. Merge(a, p) = b
      BY <1>4 DEF Merge
    <2>2. b.inactivity = MaxInactivity(p) /\ b.passwordRequired = p.passwordRequired
          /\ b.maxRetries = p.maxRetries /\ b.minLength = p.minLength
          /\ b.isAlphaNumeric = p.isAlphaNumeric /\ b.allowSimple = p.allowSimple
      BY DEF Policy
    <2> HIDE DEF b
    <2>3. AsStrictAs(b, p)
      BY <1>1, <2>2 DEF AsStrictAs, Policy, ValidMaxRetries, ValidMinLength
    <2> QED BY <1>1, <1>4, <2>1, <2>2, <2>3 DEF AsStrictAs, Gridded
  <1>5. CASE p.passwordRequired /\ a.passwordRequired
    <2> DEFINE b == Stricter(a, p)
    <2>1. Merge(a, p) = b
      BY <1>5 DEF Merge
    <2>2. /\ b.passwordRequired
          /\ b.maxRetries = MergedMaxRetries(a, p)
          /\ b.minLength = IF ValidMinLength(p) /\ p.minLength > a.minLength
                             THEN p.minLength ELSE a.minLength
          /\ b.inactivity = IF p.inactivity < a.inactivity
                              THEN MaxInactivity(p) ELSE a.inactivity
      BY DEF Stricter
    <2>3. a.isAlphaNumeric \/ p.isAlphaNumeric => b.isAlphaNumeric
      <3>1. b.isAlphaNumeric = (a.isAlphaNumeric \/ p.isAlphaNumeric)
        BY DEF Stricter
      <3>2. {a.isAlphaNumeric, p.isAlphaNumeric, b.isAlphaNumeric} \subseteq BOOLEAN
        BY <3>1 DEF Policy
      <3> HIDE DEF b
      <3> QED BY <3>1, <3>2
    <2>4. b.allowSimple => a.allowSimple /\ p.allowSimple
      <3>1. b.allowSimple = (a.allowSimple /\ p.allowSimple)
        BY DEF Stricter
      <3>2. {a.allowSimple, p.allowSimple, b.allowSimple} \subseteq BOOLEAN
        BY <3>1 DEF Policy
      <3> HIDE DEF b
      <3> QED BY <3>1, <3>2
    <2>5. /\ ValidMaxRetries(p) => ValidMaxRetries(b) /\ b.maxRetries <= p.maxRetries
          /\ ValidMaxRetries(a) => ValidMaxRetries(b) /\ b.maxRetries <= a.maxRetries
      BY <1>5, <2>2 DEF MergedMaxRetries, ValidMaxRetries, Policy
    <2>6. /\ ValidMinLength(p) => b.minLength >= p.minLength
          /\ b.minLength >= a.minLength /\ b.minLength \in Nat
      BY <2>2 DEF Policy
    <2>7. /\ OnGrid(b.inactivity) /\ b.inactivity <= MaxInactivity(p)
          /\ b.inactivity <= a.inactivity /\ b.inactivity \in Nat
      BY <1>1, <1>5, <2>2 DEF Policy, Gridded
    <2>8. AsStrictAs(b, p)
      BY <2>2, <2>3, <2>4, <2>5, <2>6, <2>7 DEF AsStrictAs
    <2>9. ASSUME NEW q \in Policy, AsStrictAs(a, q)
          PROVE  AsStrictAs(b, q)
      <3>1. CASE ~q.passwordRequired
        BY <3>1 DEF AsStrictAs
      <3>2. CASE q.passwordRequired
        <4>1. ValidMaxRetries(q) => ValidMaxRetries(b) /\ b.maxRetries <= q.maxRetries
          BY <2>2, <2>5, <2>9, <3>2 DEF AsStrictAs, Policy, MergedMaxRetries
        <4>2. ValidMinLength(q) => b.minLength >= q.minLength
          BY <2>6, <2>9, <3>2 DEF AsStrictAs, Policy
        <4>3. b.inactivity <= MaxInactivity(q)
          BY <1>2, <2>7, <2>9, <3>2 DEF AsStrictAs, Policy
        <4>4. /\ q.isAlphaNumeric => b.isAlphaNumeric
              /\ b.allowSimple => q.allowSimple
          BY <2>3, <2>4, <2>9, <3>2 DEF AsStrictAs
        <4> QED BY <2>2, <3>2, <4>1, <4>2, <4>3, <4>4 DEF AsStrictAs
      <3> QED BY <3>1, <3>2
    <2> HIDE DEF b
    <2> QED BY <2>1, <2>2, <2>7, <2>8, <2>9 DEF Gridded
  <1> QED BY <1>3, <1>4, <1>5

Timely(p) == p.inactivity <= 9998

Covers(a, policies, n) ==
  \A i \in 1 .. n : policies[i] # NoPolicy => AsStrictAs(a, policies[i])

(* However many accounts there are and in whatever order the database      *)
(* lists them, the aggregate asks for all that each of them asks for: the  *)
(* longest passcode, the fewest attempts, the earliest lock.  It is so     *)
(* only for times of at most 9998 seconds: updateAggregate() compares a    *)
(* longer one as it is, and validatedMaxInactivity() makes it 0.           *)
THEOREM AggregateAsStrict ==
  ASSUME NEW policies \in Seq(Policy \cup {NoPolicy}),
         \A n \in 1 .. Len(policies) :
           policies[n] # NoPolicy => Timely(policies[n])
  PROVE  \A n \in 1 .. Len(policies) :
           policies[n] # NoPolicy => AsStrictAs(Aggregate(policies), policies[n])
  <1> DEFINE L == Len(policies)
  <1>1. PICK f : Merges(f, policies, L) /\ Aggregate(policies) = f[L]
    BY AggregateIs
  <1>2. L \in Nat /\ \A n \in 1 .. L : policies[n] \in Policy \cup {NoPolicy}
    OBVIOUS
  <1>3. \A n \in 1 .. L : policies[n] # NoPolicy => Timely(policies[n])
    OBVIOUS
  <1> HIDE DEF L
  <1>4. \A n \in 0 .. L :
          f[n] = IF n = 0 THEN DefaultPolicy ELSE Merged(f[n - 1], policies[n])
    BY <1>1, Zenon DEF Merges
  <1> DEFINE H == {n \in 0 .. L : /\ f[n] \in Policy /\ Gridded(f[n])
                                  /\ Covers(f[n], policies, n)}
  <1>5. 0 \in H
    <2>1. DefaultPolicy \in Policy /\ Gridded(DefaultPolicy)
      BY DEF DefaultPolicy, Policy, Gridded
    <2>2. f[0] = DefaultPolicy /\ 0 \in 0 .. L
      BY <1>2, <1>4
    <2>3. Covers(f[0], policies, 0)
      BY DEF Covers
    <2> QED BY <2>1, <2>2, <2>3
  <1>6. ASSUME NEW n \in 1 .. L, n - 1 \in H
        PROVE  n \in H
    <2>1. f[n - 1] \in Policy /\ Gridded(f[n - 1]) /\ Covers(f[n - 1], policies, n - 1)
      BY <1>6
    <2>2. f[n] = Merged(f[n - 1], policies[n]) /\ n \in 0 .. L /\ n \in Nat
      BY <1>2, <1>4
    <2> HIDE DEF H
    <2>3. CASE policies[n] = NoPolicy
      <3>1. f[n] = f[n - 1]
        BY <2>2, <2>3 DEF Merged
      <3>2. Covers(f[n], policies, n)
        BY <2>1, <2>2, <2>3, <3>1 DEF Covers
      <3> QED BY <2>1, <2>2, <3>1, <3>2, Zenon DEF H
    <2>4. CASE policies[n] # NoPolicy
      <3>1. policies[n] \in Policy /\ Timely(policies[n])
        BY <1>2, <1>3, <2>4
      <3>2. f[n] = Merge(f[n - 1], policies[n])
        BY <2>2, <2>4 DEF Merged
      <3>3. f[n] \in Policy
        BY <2>1, <2>2, <3>1, MergedType
      <3>4. /\ Gridded(f[n]) /\ AsStrictAs(f[n], policies[n])
            /\ \A q \in Policy : AsStrictAs(f[n - 1], q) => AsStrictAs(f[n], q)
        BY <2>1, <3>1, <3>2, MergedAsStrict DEF Timely
      <3>5. Covers(f[n], policies, n)
        <4>1. SUFFICES ASSUME NEW i \in 1 .. n, policies[i] # NoPolicy
                       PROVE  AsStrictAs(f[n], policies[i])
          BY DEF Covers
        <4>2. CASE i = n
          BY <3>4, <4>2
        <4>3. CASE i \in 1 .. n - 1
          <5>1. policies[i] \in Policy
            BY <1>2, <2>2, <4>1, <4>3
          <5>2. AsStrictAs(f[n - 1], policies[i])
            BY <2>1, <4>1, <4>3 DEF Covers
          <5> QED BY <3>4, <5>1, <5>2
        <4> QED BY <2>2, <4>2, <4>3
      <3> QED BY <2>2, <3>3, <3>4, <3>5, Zenon DEF H
    <2> QED BY <2>3, <2>4
  <1> HIDE DEF H
  <1>7. \A n \in 1 .. L : n - 1 \in H => n \in H
    BY <1>6
  <1>8. \A n \in 0 .. L : n \in H
    BY <1>2, <1>5, <1>7, UpTo, Zenon
  <1>9. L \in H
    BY <1>2, <1>8
  <1>10. Covers(Aggregate(policies), policies, L)
    BY <1>1, <1>9, Zenon DEF H
  <1> QED BY <1>10 DEF L, Covers

-----------------------------------------------------------------------------
(* And no stricter than all of them.                                       *)

LEMMA MergedNoStricter ==
  ASSUME NEW a \in Policy, NEW p \in Policy, NEW P, NoStricterThan(a, P)
  PROVE  NoStricterThan(Merge(a, p), P \cup {p})
  <1> DEFINE b == Merge(a, p)
             A == {q \in P : q.passwordRequired}
             B == {q \in P \cup {p} : q.passwordRequired}
  <1>1. A \subseteq B /\ (p.passwordRequired => p \in B)
    OBVIOUS
  <1>2. /\ a.passwordRequired => A # {}
        /\ ValidMaxRetries(a) => \E q \in A : q.maxRetries = a.maxRetries
        /\ ValidMinLength(a) => \E q \in A : q.minLength = a.minLength
        /\ a.isAlphaNumeric => \E q \in A : q.isAlphaNumeric
        /\ ~a.allowSimple => \E q \in A : ~q.allowSimple
        /\ a.passwordRequired => \E q \in A : MaxInactivity(q) = a.inactivity
    BY Zenon DEF NoStricterThan
  <1> HIDE DEF A, B
  <1>3. /\ b.passwordRequired => a.passwordRequired \/ p.passwordRequired
        /\ ValidMaxRetries(b) => \/ ValidMaxRetries(a) /\ b.maxRetries = a.maxRetries
                                 \/ p.passwordRequired /\ b.maxRetries = p.maxRetries
        /\ ValidMinLength(b) => \/ ValidMinLength(a) /\ b.minLength = a.minLength
                                \/ p.passwordRequired /\ b.minLength = p.minLength
        /\ b.passwordRequired => \/ a.passwordRequired /\ b.inactivity = a.inactivity
                                 \/ p.passwordRequired /\ b.inactivity = MaxInactivity(p)
    BY DEF Merge, Stricter, MergedMaxRetries, ValidMaxRetries, ValidMinLength, Policy
  <1>4. /\ b.isAlphaNumeric => a.isAlphaNumeric \/ (p.passwordRequired /\ p.isAlphaNumeric)
        /\ ~b.allowSimple => ~a.allowSimple \/ (p.passwordRequired /\ ~p.allowSimple)
    <2>1. CASE ~p.passwordRequired
      BY <2>1 DEF Merge
    <2>2. CASE p.passwordRequired /\ ~a.passwordRequired
      BY <2>2 DEF Merge, Policy
    <2>3. CASE p.passwordRequired /\ a.passwordRequired
      <3>1. /\ b.isAlphaNumeric = (a.isAlphaNumeric \/ p.isAlphaNumeric)
            /\ b.allowSimple = (a.allowSimple /\ p.allowSimple)
        BY <2>3 DEF Merge, Stricter
      <3> HIDE DEF b
      <3> QED BY <2>3, <3>1
    <2> QED BY <2>1, <2>2, <2>3
  <1> HIDE DEF b
  <1>5. /\ b.passwordRequired => B # {}
        /\ ValidMaxRetries(b) => \E q \in B : q.maxRetries = b.maxRetries
        /\ ValidMinLength(b) => \E q \in B : q.minLength = b.minLength
        /\ b.isAlphaNumeric => \E q \in B : q.isAlphaNumeric
        /\ ~b.allowSimple => \E q \in B : ~q.allowSimple
        /\ b.passwordRequired => \E q \in B : MaxInactivity(q) = b.inactivity
    BY <1>1, <1>2, <1>3, <1>4
  <1> QED BY <1>5, Zenon DEF NoStricterThan, B, b

(* The policies among the first n that are there. *)
Live(policies, n) == {policies[i] : i \in 1 .. n} \ {NoPolicy}

(* The strictest of them all, whatever they are: as strict as each, and    *)
(* every term is one that one of them asks for.                            *)
THEOREM AggregateStrictest ==
  ASSUME NEW policies \in Seq(Policy \cup {NoPolicy}),
         \A n \in 1 .. Len(policies) :
           policies[n] # NoPolicy => Timely(policies[n])
  PROVE  StrictestOf(Aggregate(policies), Live(policies, Len(policies)))
  <1> DEFINE L == Len(policies)
  <1>1. PICK f : Merges(f, policies, L) /\ Aggregate(policies) = f[L]
    BY AggregateIs
  <1>2. L \in Nat /\ \A n \in 1 .. L : policies[n] \in Policy \cup {NoPolicy}
    OBVIOUS
  <1>3. \A p \in Live(policies, L) : AsStrictAs(Aggregate(policies), p)
    BY AggregateAsStrict DEF Live
  <1> HIDE DEF L
  <1>4. \A n \in 0 .. L :
          f[n] = IF n = 0 THEN DefaultPolicy ELSE Merged(f[n - 1], policies[n])
    BY <1>1, Zenon DEF Merges
  <1> DEFINE H == {n \in 0 .. L : f[n] \in Policy /\ NoStricterThan(f[n], Live(policies, n))}
  <1>5. 0 \in H
    <2>1. f[0] = DefaultPolicy /\ 0 \in 0 .. L
      BY <1>2, <1>4
    <2>2. DefaultPolicy \in Policy
      BY DEF DefaultPolicy, Policy
    <2>3. NoStricterThan(DefaultPolicy, Live(policies, 0))
      BY DEF NoStricterThan, DefaultPolicy, ValidMaxRetries, ValidMinLength
    <2> QED BY <2>1, <2>2, <2>3
  <1>6. ASSUME NEW n \in 1 .. L, n - 1 \in H
        PROVE  n \in H
    <2> DEFINE a == f[n - 1]
               p == policies[n]
    <2>1. a \in Policy /\ NoStricterThan(a, Live(policies, n - 1))
      BY <1>6
    <2>2. f[n] = Merged(a, p) /\ n \in 0 .. L /\ p \in Policy \cup {NoPolicy}
      BY <1>2, <1>4
    <2>3. {policies[i] : i \in 1 .. n} = {policies[i] : i \in 1 .. n - 1} \cup {p}
      <3>1. \A i : i \in 1 .. n <=> i \in 1 .. n - 1 \/ i = n
        BY <1>2
      <3> QED BY <3>1
    <2> HIDE DEF H, a
    <2>4. CASE p = NoPolicy
      <3>1. Live(policies, n) = Live(policies, n - 1)
        BY <2>3, <2>4 DEF Live
      <3>2. f[n] = a
        BY <2>2, <2>4 DEF Merged
      <3> QED BY <2>1, <2>2, <3>1, <3>2 DEF H
    <2>5. CASE p # NoPolicy
      <3>1. Live(policies, n) = Live(policies, n - 1) \cup {p}
        BY <2>3, <2>5 DEF Live
      <3>2. f[n] = Merge(a, p) /\ f[n] \in Policy
        BY <2>1, <2>2, <2>5, MergedType DEF Merged
      <3>3. NoStricterThan(f[n], Live(policies, n))
        BY <2>1, <2>2, <2>5, <3>1, <3>2, MergedNoStricter
      <3> QED BY <2>2, <3>2, <3>3 DEF H
    <2> QED BY <2>4, <2>5
  <1> HIDE DEF H
  <1>7. \A n \in 0 .. L : n \in H
    BY <1>2, <1>5, <1>6, UpTo, Zenon
  <1>8. L \in H
    BY <1>2, <1>7
  <1>9. NoStricterThan(Aggregate(policies), Live(policies, L))
    BY <1>1, <1>8 DEF H
  <1> QED BY <1>3, <1>9, Zenon DEF L, StrictestOf

(* Without a policy nothing is asked for. *)
LEMMA AggregateOfNone ==
  ASSUME NEW policies \in Seq(Policy \cup {NoPolicy}),
         \A i \in DOMAIN policies : policies[i] = NoPolicy
  PROVE  Aggregate(policies) = DefaultPolicy
  <1> DEFINE L == Len(policies)
  <1>1. PICK f : Merges(f, policies, L) /\ Aggregate(policies) = f[L]
    BY AggregateIs
  <1>2. L \in Nat /\ \A n \in 1 .. L : policies[n] = NoPolicy
    OBVIOUS
  <1> HIDE DEF L
  <1>3. \A n \in 0 .. L :
          f[n] = IF n = 0 THEN DefaultPolicy ELSE Merged(f[n - 1], policies[n])
    BY <1>1, Zenon DEF Merges
  <1> DEFINE H == {n \in 0 .. L : f[n] = DefaultPolicy}
  <1>4. 0 \in H
    BY <1>2, <1>3
  <1>5. ASSUME NEW n \in 1 .. L, n - 1 \in H
        PROVE  n \in H
    BY <1>2, <1>3, <1>5 DEF Merged
  <1> HIDE DEF H
  <1>6. \A n \in 0 .. L : n \in H
    BY <1>2, <1>4, <1>5, UpTo, Zenon
  <1>7. L \in H
    BY <1>2, <1>6
  <1> QED BY <1>1, <1>7 DEF H

-----------------------------------------------------------------------------
(* Runs of characters in a passcode.                                       *)

LEMMA PartOfRun ==
  ASSUME NEW t \in Seq(Nat), NEW i \in DOMAIN t, NEW e \in i .. Len(t),
         IsRun(t, i, e)
  PROVE  /\ \A m \in i .. e : IsRun(t, i, m)
         /\ i < e => IsRun(t, i + 1, e)
  <1>1. i \in Nat /\ Len(t) \in Nat /\ i >= 1
    OBVIOUS
  <1>2. \A k \in i .. e - 1 : t[k + 1] - t[k] = t[i + 1] - t[i] /\ t[i + 1] - t[i] \in -1 .. 1
    BY DEF IsRun
  <1>3. \A m \in i .. e : IsRun(t, i, m)
    BY <1>1, <1>2 DEF IsRun
  <1>4. ASSUME i < e PROVE IsRun(t, i + 1, e)
    <2>1. \A k \in i + 1 .. e - 1 :
            /\ t[k + 1] - t[k] = t[i + 1 + 1] - t[i + 1]
            /\ t[i + 1 + 1] - t[i + 1] \in -1 .. 1
      <3>1. SUFFICES ASSUME NEW k \in i + 1 .. e - 1
                     PROVE  /\ t[k + 1] - t[k] = t[i + 1 + 1] - t[i + 1]
                            /\ t[i + 1 + 1] - t[i + 1] \in -1 .. 1
        OBVIOUS
      <3>2. k \in i .. e - 1 /\ i + 1 \in i .. e - 1
        BY <1>1, <3>1
      <3>3. /\ t[k + 1] - t[k] = t[i + 1] - t[i]
            /\ t[i + 1] - t[i] \in -1 .. 1
        BY <1>2, <3>2
      <3>4. t[i + 1 + 1] - t[i + 1] = t[i + 1] - t[i]
        BY <1>2, <3>2
      <3> QED BY <3>3, <3>4
    <2> QED BY <2>1 DEF IsRun
  <1> QED BY <1>3, <1>4

(* Where a run ends: it is one, and could not be longer. *)
LEMMA RunEndIs ==
  ASSUME NEW t \in Seq(Nat), NEW i \in DOMAIN t
  PROVE  /\ RunEnd(t, i) \in i .. Len(t)
         /\ IsRun(t, i, RunEnd(t, i))
         /\ \A e \in i .. Len(t) : IsRun(t, i, e) => e <= RunEnd(t, i)
  <1> DEFINE L == Len(t)
             Ends(e) == IsRun(t, i, e) /\ (e < L => ~IsRun(t, i, e + 1))
             T == {e \in i .. L : e = L \/ ~IsRun(t, i, e + 1)}
  <1>1. i \in Nat /\ L \in Nat /\ i >= 1 /\ i <= L
    OBVIOUS
  <1>2. PICK m \in T : \A k \in T : ~ (k < m)
    <2>1. T \in SUBSET Nat /\ L \in T
      BY <1>1
    <2> HIDE DEF T
    <2> QED BY <2>1, LeastMember, Zenon
  <1>3. IsRun(t, i, m)
    <2>1. CASE m = i
      BY <1>1, <2>1 DEF IsRun
    <2>2. CASE m # i
      <3>1. m - 1 \in i .. L /\ m - 1 < m /\ m - 1 # L
        BY <1>1, <2>2
      <3>2. m - 1 \notin T
        BY <1>2, <3>1
      <3>3. IsRun(t, i, (m - 1) + 1)
        BY <3>1, <3>2
      <3>4. (m - 1) + 1 = m
        BY <1>1
      <3> QED BY <3>3, <3>4
    <2> QED BY <2>1, <2>2
  <1>4. m \in i .. L /\ Ends(m)
    BY <1>1, <1>2, <1>3
  <1> DEFINE r == RunEnd(t, i)
  <1>5. r \in i .. L /\ Ends(r)
    BY <1>4, Zenon DEF RunEnd
  <1>6. ASSUME NEW e \in i .. L, IsRun(t, i, e)
        PROVE  e <= r
    <2>1. SUFFICES ASSUME e > r PROVE FALSE
      BY <1>1, <1>5
    <2>2. r + 1 \in i .. e /\ r < L
      BY <1>1, <1>5, <2>1
    <2> QED BY <1>5, <1>6, <2>2, PartOfRun
  <1> QED BY <1>5, <1>6

(* The equation that defines Weak, from position m on. *)
Scans(f, t, m) ==
  f = [i \in m .. Len(t) + 1 |->
         IF i > Len(t) THEN FALSE
         ELSE TooLong(RunEnd(t, i) - i + 1, t) \/ f[RunEnd(t, i) + 1]]

LEMMA ScansExist ==
  ASSUME NEW t \in Seq(Nat)
  PROVE  \E f \in [1 .. Len(t) + 1 -> BOOLEAN] : Scans(f, t, 1)
  <1> DEFINE L == Len(t)
             H == {k \in 0 .. L :
                     \E f \in [L + 1 - k .. L + 1 -> BOOLEAN] : Scans(f, t, L + 1 - k)}
  <1>1. L \in Nat /\ DOMAIN t = 1 .. L
    OBVIOUS
  <1>2. 0 \in H
    <2> DEFINE f == [i \in L + 1 - 0 .. L + 1 |-> FALSE]
    <2>1. f \in [L + 1 - 0 .. L + 1 -> BOOLEAN]
      OBVIOUS
    <2>2. \A i \in L + 1 - 0 .. L + 1 : i > L
      BY <1>1
    <2>3. f = [i \in L + 1 - 0 .. L + 1 |->
                 IF i > L THEN FALSE
                 ELSE TooLong(RunEnd(t, i) - i + 1, t) \/ f[RunEnd(t, i) + 1]]
      BY <2>2
    <2>4. Scans(f, t, L + 1 - 0)
      BY <2>3, Zenon DEF Scans
    <2>5. 0 \in 0 .. L
      BY <1>1
    <2> QED BY <2>1, <2>4, <2>5, Zenon
  <1>3. ASSUME NEW k \in 1 .. L, k - 1 \in H
        PROVE  k \in H
    <2> DEFINE m == L + 1 - k
    <2>1. m \in 1 .. L /\ L + 1 - (k - 1) = m + 1 /\ k \in 0 .. L
      BY <1>1
    <2>2. PICK f \in [m + 1 .. L + 1 -> BOOLEAN] : Scans(f, t, m + 1)
      BY <1>3, <2>1
    <2> DEFINE e == RunEnd(t, m)
               g == [i \in m .. L + 1 |->
                       IF i = m THEN TooLong(e - m + 1, t) \/ f[e + 1] ELSE f[i]]
    <2>3. e \in m .. L
      BY <1>1, <2>1, RunEndIs
    <2>4. e + 1 \in m + 1 .. L + 1
      BY <1>1, <2>1, <2>3
    <2>5. f[e + 1] \in BOOLEAN
      BY <2>2, <2>4
    <2>6. (TooLong(e - m + 1, t) \/ f[e + 1]) \in BOOLEAN
      OBVIOUS
    <2>7. \A i \in m .. L + 1 : i # m => i \in m + 1 .. L + 1
      BY <1>1, <2>1
    <2>8. g \in [m .. L + 1 -> BOOLEAN]
      BY <2>2, <2>6, <2>7
    <2>9. \A i \in m + 1 .. L + 1 :
            f[i] = IF i > L THEN FALSE
                   ELSE TooLong(RunEnd(t, i) - i + 1, t) \/ f[RunEnd(t, i) + 1]
      BY <2>2 DEF Scans
    <2>10. ASSUME NEW i \in m .. L + 1
           PROVE  g[i] = IF i > L THEN FALSE
                         ELSE TooLong(RunEnd(t, i) - i + 1, t) \/ g[RunEnd(t, i) + 1]
      <3>1. CASE i = m
        <4>1. g[e + 1] = f[e + 1]
          BY <2>1, <2>4
        <4>2. g[i] = (TooLong(e - m + 1, t) \/ f[e + 1])
          BY <3>1
        <4>3. ~(i > L)
          BY <1>1, <2>1, <3>1
        <4> QED BY <3>1, <4>1, <4>2, <4>3
      <3>2. CASE i # m /\ i <= L
        <4>1. i \in m + 1 .. L + 1 /\ i \in DOMAIN t
          BY <1>1, <2>1, <2>7, <3>2
        <4>2. RunEnd(t, i) \in i .. L
          BY <1>1, <4>1, RunEndIs
        <4>3. RunEnd(t, i) + 1 \in m .. L + 1 /\ RunEnd(t, i) + 1 # m
          BY <1>1, <2>1, <4>1, <4>2
        <4>4. g[i] = f[i] /\ g[RunEnd(t, i) + 1] = f[RunEnd(t, i) + 1]
          BY <3>2, <4>3
        <4>5. ~(i > L)
          BY <1>1, <3>2
        <4> QED BY <2>9, <4>1, <4>4, <4>5
      <3>3. CASE i # m /\ i > L
        <4>1. i \in m + 1 .. L + 1
          BY <2>7, <3>3
        <4> QED BY <2>9, <3>3, <4>1
      <3>4. i <= L \/ i > L
        BY <1>1, <2>1
      <3> QED BY <3>1, <3>2, <3>3, <3>4
    <2>11. Scans(g, t, m)
      BY <2>8, <2>10 DEF Scans
    <2> HIDE DEF g
    <2> QED BY <2>1, <2>8, <2>11
  <1> HIDE DEF H, L
  <1>4. \A k \in 1 .. L : k - 1 \in H => k \in H
    BY <1>3
  <1>5. \A k \in 0 .. L : k \in H
    BY <1>1, <1>2, <1>4, UpTo, Zenon
  <1>6. L \in H /\ L + 1 - L = 1
    BY <1>1, <1>5
  <1> QED BY <1>6, Zenon DEF H, L

(* What Weak is: the first value of a function that obeys the equation.    *)
LEMMA WeakIs ==
  ASSUME NEW t \in Seq(Nat)
  PROVE  \E f : /\ Weak(t) = f[1]
                /\ f[Len(t) + 1] = FALSE
                /\ \A i \in 1 .. Len(t) :
                     f[i] = (TooLong(RunEnd(t, i) - i + 1, t) \/ f[RunEnd(t, i) + 1])
  <1> DEFINE f == CHOOSE g : Scans(g, t, 1)
  <1>1. Weak(t) = f[1]
    BY Zenon DEF Weak, Scans
  <1>2. Scans(f, t, 1)
    BY ScansExist, Zenon
  <1> HIDE DEF f
  <1>3. \A i \in 1 .. Len(t) + 1 :
          f[i] = IF i > Len(t) THEN FALSE
                 ELSE TooLong(RunEnd(t, i) - i + 1, t) \/ f[RunEnd(t, i) + 1]
    BY <1>2 DEF Scans
  <1>4. /\ Len(t) + 1 \in 1 .. Len(t) + 1 /\ Len(t) + 1 > Len(t)
        /\ \A i \in 1 .. Len(t) : i \in 1 .. Len(t) + 1 /\ ~(i > Len(t))
    OBVIOUS
  <1>5. \A i \in 1 .. Len(t) :
          f[i] = (TooLong(RunEnd(t, i) - i + 1, t) \/ f[RunEnd(t, i) + 1])
    BY <1>3, <1>4
  <1>6. f[Len(t) + 1] = FALSE
    BY <1>3, <1>4
  <1> QED BY <1>1, <1>5, <1>6

(* validateStrength() sees every run that is two characters longer than    *)
(* half of the passcode, or more: of a run it may miss the first character *)
(* at most, whatever the runs before it were.                              *)
THEOREM LongRunsFound ==
  ASSUME NEW t \in Seq(Nat), HasLongRun(t)
  PROVE  Weak(t)
  <1> DEFINE L == Len(t)
             r(s) == RunEnd(t, s)
  <1>1. L \in Nat /\ DOMAIN t = 1 .. L
    OBVIOUS
  <1>2. PICK i \in 1 .. L, e \in 1 .. L : IsRun(t, i, e) /\ e - i > L \div 2
    BY <1>1 DEF HasLongRun
  <1>3. PICK f : /\ Weak(t) = f[1]
                 /\ \A s \in 1 .. L :
                      f[s] = (TooLong(r(s) - s + 1, t) \/ f[r(s) + 1])
    BY WeakIs
  <1>4. \A s \in 1 .. L : /\ r(s) \in s .. L /\ IsRun(t, s, r(s))
                          /\ \A x \in s .. L : IsRun(t, s, x) => x <= r(s)
    BY <1>1, RunEndIs
  <1> HIDE DEF r
  <1>5. i < e /\ e <= L /\ e - i >= 1 /\ e - i > L \div 2
    BY <1>1, <1>2
  (* The last position up to i that the search starts from. *)
  <1> DEFINE T == {k \in 0 .. i - 1 : f[i - k] => f[1]}
  <1>6. PICK k \in T : \A x \in T : ~ (x < k)
    <2>1. i - 1 \in T
      <3>1. i - 1 \in 0 .. i - 1 /\ i - (i - 1) = 1
        BY <1>1, <1>2
      <3> QED BY <3>1
    <2>2. T \in SUBSET Nat
      BY <1>1, <1>2
    <2> HIDE DEF T
    <2> QED BY <2>1, <2>2, LeastMember, Zenon
  <1> DEFINE s == i - k
  <1>7. s \in 1 .. i /\ s \in 1 .. L /\ k = i - s
    BY <1>1, <1>2, <1>6
  <1>8. (f[s] => f[1])
    BY <1>6
  <1>9. /\ TooLong(r(s) - s + 1, t) => f[1]
        /\ f[r(s) + 1] => f[1]
    BY <1>3, <1>7, <1>8
  <1> HIDE DEF s
  <1>10. r(s) \in Int /\ r(s) >= s /\ r(s) <= L /\ s \in Int /\ s >= 1 /\ s <= i
    <2>1. r(s) \in s .. L
      BY <1>4, <1>7
    <2> QED BY <1>1, <1>2, <1>7, <2>1
  <1>11. r(s) >= i
    <2>1. SUFFICES ASSUME r(s) < i PROVE FALSE
      BY <1>1, <1>2, <1>10
    <2> DEFINE x == i - (r(s) + 1)
    <2>2. x \in 0 .. i - 1 /\ i - x = r(s) + 1 /\ x < k
      <3>1. PICK z \in Int : z = r(s)
        BY <1>10
      <3>2. z >= s /\ z < i /\ s \in Int /\ s >= 1 /\ i \in Int
        BY <1>1, <1>2, <1>10, <2>1, <3>1
      <3>3. x = i - (z + 1)
        BY <3>1
      <3> HIDE DEF x
      <3>4. x \in 0 .. i - 1 /\ i - x = z + 1 /\ x < i - s
        BY <3>2, <3>3
      <3> QED BY <1>7, <3>1, <3>4
    <2>3. x \in T
      BY <1>9, <2>2
    <2> QED BY <1>6, <2>2, <2>3
  <1> HIDE DEF T
  <1>12. CASE s = i
    <2>1. r(s) >= e /\ r(s) <= L
      BY <1>1, <1>2, <1>4, <1>5, <1>7, <1>12
    <2>2. TooLong(r(s) - s + 1, t)
      BY <1>1, <1>2, <1>5, <1>12, <1>10, <2>1 DEF TooLong
    <2> QED BY <1>3, <1>9, <2>2
  <1>13. CASE s < i /\ r(s) > i
    <2>1. IsRun(t, s, e)
      <3> DEFINE step(x) == t[x + 1] - t[x]
      <3>1. \A x \in s .. r(s) - 1 : step(x) = step(s) /\ step(s) \in -1 .. 1
        BY <1>4, <1>7 DEF IsRun
      <3>2. \A x \in i .. e - 1 : step(x) = step(i)
        BY <1>2 DEF IsRun
      <3>3. i \in s .. r(s) - 1 /\ s \in s .. r(s) - 1
        BY <1>1, <1>2, <1>13, <1>10
      <3>4. step(i) = step(s) /\ step(s) \in -1 .. 1
        BY <3>1, <3>3
      <3>5. \A x \in s .. e - 1 : x \in s .. r(s) - 1 \/ x \in i .. e - 1
        BY <1>1, <1>2, <1>4, <1>7, <1>13
      <3>6. \A x \in s .. e - 1 : step(x) = step(s)
        BY <3>1, <3>2, <3>4, <3>5
      <3> QED BY <3>4, <3>6 DEF IsRun
    <2>2. r(s) >= e /\ r(s) <= L
      BY <1>1, <1>2, <1>4, <1>5, <1>7, <2>1
    <2>3. TooLong(r(s) - s + 1, t)
      BY <1>1, <1>2, <1>5, <1>13, <1>10, <2>2 DEF TooLong
    <2> QED BY <1>3, <1>9, <2>3
  (* The run before ends where this one begins. *)
  <1>14. CASE s < i /\ r(s) = i
    <2>1. i + 1 \in 1 .. L /\ e \in i + 1 .. L /\ e \in i .. L /\ i >= 2
      BY <1>1, <1>2, <1>5, <1>7, <1>14
    <2>2. IsRun(t, i + 1, e)
      BY <1>1, <1>2, <1>5, <2>1, PartOfRun
    <2>3. r(i + 1) >= e /\ r(i + 1) <= L
      BY <1>1, <1>4, <2>1, <2>2
    <2>4. r(i + 1) \in Int
      BY <1>1, <1>4, <2>1
    <2>5. TooLong(r(i + 1) - (i + 1) + 1, t)
      <3>1. e - i > 2
        BY <1>1, <1>2, <1>5, <2>1
      <3> QED BY <1>1, <1>2, <1>5, <2>1, <2>3, <2>4, <3>1 DEF TooLong
    <2>6. f[i + 1]
      BY <1>3, <2>1, <2>5
    <2> QED BY <1>3, <1>9, <1>14, <2>6
  <1>15. s = i \/ (s < i /\ r(s) > i) \/ (s < i /\ r(s) = i)
    BY <1>2, <1>11, <1>10
  <1> QED BY <1>12, <1>13, <1>14, <1>15

(* It reports no passcode without a run of more than half its length.      *)
THEOREM WeakHasRun ==
  ASSUME NEW t \in Seq(Nat), Weak(t)
  PROVE  \E i, e \in DOMAIN t : IsRun(t, i, e) /\ TooLong(e - i + 1, t)
  <1> DEFINE L == Len(t)
             r(s) == RunEnd(t, s)
  <1>1. L \in Nat /\ DOMAIN t = 1 .. L
    OBVIOUS
  <1>2. PICK f : /\ Weak(t) = f[1]
                 /\ f[L + 1] = FALSE
                 /\ \A s \in 1 .. L :
                      f[s] = (TooLong(r(s) - s + 1, t) \/ f[r(s) + 1])
    BY WeakIs
  <1>3. \A s \in 1 .. L : r(s) \in s .. L /\ r(s) \in 1 .. L /\ IsRun(t, s, r(s))
    <2>1. ASSUME NEW s \in 1 .. L
          PROVE  r(s) \in s .. L /\ r(s) \in 1 .. L /\ IsRun(t, s, r(s))
      <3>1. r(s) \in s .. L /\ IsRun(t, s, r(s))
        BY <1>1, RunEndIs
      <3> HIDE DEF r
      <3>2. r(s) \in 1 .. L
        BY <1>1, <3>1
      <3> QED BY <3>1, <3>2
    <2> QED BY <2>1
  <1> HIDE DEF r
  <1>4. SUFFICES ASSUME \A s \in 1 .. L : ~TooLong(r(s) - s + 1, t)
                 PROVE  FALSE
    BY <1>1, <1>3
  <1> DEFINE H == {k \in 0 .. L : \A s \in L + 1 - k .. L + 1 : ~f[s]}
  <1>5. 0 \in H
    <2>1. \A s \in L + 1 - 0 .. L + 1 : s = L + 1
      BY <1>1
    <2> QED BY <1>1, <1>2, <2>1
  <1>6. ASSUME NEW k \in 1 .. L, k - 1 \in H
        PROVE  k \in H
    <2> DEFINE m == L + 1 - k
    <2>1. m \in 1 .. L /\ L + 1 - (k - 1) = m + 1 /\ k \in 0 .. L
      BY <1>1
    <2>2. \A s \in m + 1 .. L + 1 : ~f[s]
      BY <1>6, <2>1
    <2>3. r(m) + 1 \in m + 1 .. L + 1
      <3>1. r(m) \in m .. L
        BY <1>3, <2>1
      <3> HIDE DEF m
      <3> QED BY <1>1, <2>1, <3>1
    <2>4. ~f[m]
      BY <1>2, <1>4, <2>1, <2>2, <2>3
    <2>5. \A s \in m .. L + 1 : s = m \/ s \in m + 1 .. L + 1
      BY <1>1, <2>1
    <2> QED BY <2>1, <2>2, <2>4, <2>5
  <1> HIDE DEF H
  <1>7. \A k \in 1 .. L : k - 1 \in H => k \in H
    BY <1>6
  <1>8. \A k \in 0 .. L : k \in H
    BY <1>1, <1>5, <1>7, UpTo, Zenon
  <1>9. L \in H /\ 1 \in L + 1 - L .. L + 1
    BY <1>1, <1>8
  <1>10. ~f[1]
    BY <1>9 DEF H
  <1> QED BY <1>2, <1>10

=============================================================================
