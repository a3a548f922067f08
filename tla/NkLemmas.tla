------------------------------ MODULE NkLemmas ------------------------------
(***************************************************************************)
(* Facts about sequences, about the naturals and about remainders that     *)
(* the proofs share.                                                       *)
(***************************************************************************)
EXTENDS Integers, SequencesExt, SequenceTheorems, FiniteSetTheorems,
        WellFoundedInduction, TLAPS

-----------------------------------------------------------------------------
(* Sequences *)

(* InsertAt lengthens the sequence by one and shifts what follows. *)
LEMMA InsertAtProps ==
  ASSUME NEW S, NEW q \in Seq(S), NEW k \in 1 .. Len(q) + 1, NEW e \in S
  PROVE  /\ InsertAt(q, k, e) \in Seq(S)
         /\ Len(InsertAt(q, k, e)) = Len(q) + 1
         /\ \A i \in 1 .. Len(q) + 1 :
              InsertAt(q, k, e)[i] =
                IF i < k THEN q[i] ELSE IF i = k THEN e ELSE q[i - 1]
<1> DEFINE a == SubSeq(q, 1, k - 1)
           b == SubSeq(q, k, Len(q))
<1>0. Len(q) \in Nat
  BY LenProperties
<1>1. /\ a \in Seq(S) /\ Len(a) = k - 1
      /\ \A i \in 1 .. k - 1 : a[i] = q[i]
  BY <1>0, SubSeqProperties
<1>2. /\ b \in Seq(S) /\ Len(b) = Len(q) - k + 1
      /\ \A i \in 1 .. Len(q) - k + 1 : b[i] = q[k + i - 1]
  BY <1>0, SubSeqProperties
<1>3. /\ a \o <<e>> \in Seq(S) /\ Len(a \o <<e>>) = k
      /\ \A i \in 1 .. k : (a \o <<e>>)[i] = IF i < k THEN q[i] ELSE e
  BY <1>0, <1>1, ConcatProperties
<1>4. InsertAt(q, k, e) = (a \o <<e>>) \o b
  BY DEF InsertAt
<1>5. ASSUME NEW u \in Seq(S), Len(u) = k,
             NEW v \in Seq(S), Len(v) = Len(q) - k + 1
      PROVE  /\ u \o v \in Seq(S)
             /\ Len(u \o v) = Len(q) + 1
             /\ \A i \in 1 .. Len(q) + 1 :
                  (u \o v)[i] = IF i <= k THEN u[i] ELSE v[i - k]
  BY <1>0, <1>5, ConcatProperties
<1>6. \A i \in 1 .. Len(q) + 1 : i > k => b[i - k] = q[i - 1]
  BY <1>0, <1>2
<1> HIDE DEF a, b
<1>7. QED
  BY <1>0, <1>2, <1>3, <1>4, <1>5, <1>6

(* RemoveAt shortens the sequence by one and closes the gap. *)
LEMMA RemoveAtProps ==
  ASSUME NEW S, NEW q \in Seq(S), NEW k \in 1 .. Len(q)
  PROVE  /\ RemoveAt(q, k) \in Seq(S)
         /\ Len(RemoveAt(q, k)) = Len(q) - 1
         /\ \A i \in 1 .. Len(q) - 1 :
              RemoveAt(q, k)[i] = IF i < k THEN q[i] ELSE q[i + 1]
<1> DEFINE a == SubSeq(q, 1, k - 1)
           b == SubSeq(q, k + 1, Len(q))
<1>0. Len(q) \in Nat
  BY LenProperties
<1>1. /\ a \in Seq(S) /\ Len(a) = k - 1
      /\ \A i \in 1 .. k - 1 : a[i] = q[i]
  BY <1>0, SubSeqProperties
<1>2. /\ b \in Seq(S) /\ Len(b) = Len(q) - k
      /\ \A i \in 1 .. Len(q) - k : b[i] = q[k + i]
  BY <1>0, SubSeqProperties
<1>3. RemoveAt(q, k) = a \o b
  BY DEF RemoveAt
<1>4. ASSUME NEW u \in Seq(S), Len(u) = k - 1,
             NEW v \in Seq(S), Len(v) = Len(q) - k
      PROVE  /\ u \o v \in Seq(S)
             /\ Len(u \o v) = Len(q) - 1
             /\ \A i \in 1 .. Len(q) - 1 :
                  (u \o v)[i] = IF i < k THEN u[i] ELSE v[i - k + 1]
  BY <1>0, <1>4, ConcatProperties
<1>5. \A i \in 1 .. Len(q) - 1 : i >= k => b[i - k + 1] = q[i + 1]
  BY <1>0, <1>2
<1> HIDE DEF a, b
<1>6. QED
  BY <1>0, <1>1, <1>2, <1>3, <1>4, <1>5

-----------------------------------------------------------------------------
(* Remainders *)

(* Division with remainder. *)
LEMMA DivMod ==
  ASSUME NEW a \in Int, NEW b \in Nat \ {0}
  PROVE  /\ a = b * (a \div b) + (a % b)
         /\ a % b \in 0 .. b - 1
         /\ a \div b \in Int
  OBVIOUS

(* There is only one remainder. *)
LEMMA ModUnique ==
  ASSUME NEW a \in Int, NEW b \in Nat \ {0}, NEW q \in Int,
         NEW r \in 0 .. b - 1, a = b * q + r
  PROVE  a % b = r
<1> DEFINE d == q - (a \div b)
<1>1. d \in Int /\ a % b \in 0 .. b - 1
  BY DivMod
<1>2. b * d = (a % b) - r
  BY DivMod
<1>3. CASE d = 0
  BY <1>1, <1>2, <1>3
<1>4. CASE d >= 1
  <2>1. b * d >= b
    BY <1>1, <1>4
  <2>2. QED
    BY <1>1, <1>2, <2>1
<1>5. CASE d <= -1
  <2>1. b * d <= -b
    BY <1>1, <1>5
  <2>2. QED
    BY <1>1, <1>2, <2>1
<1>6. QED
  BY <1>1, <1>3, <1>4, <1>5

(* A number below the modulus is its own remainder. *)
LEMMA ModSmall ==
  ASSUME NEW b \in Nat \ {0}, NEW a \in 0 .. b - 1
  PROVE  a % b = a
  BY ModUnique, a = b * 0 + a

(* Counting up commutes with taking the remainder. *)
LEMMA ModStep ==
  ASSUME NEW n \in Nat, NEW b \in Nat \ {0}
  PROVE  ((n % b) + 1) % b = (n + 1) % b
<1> DEFINE q == n \div b
           p == (n + 1) \div b
           r == (n + 1) % b
           a == (n % b) + 1
           d == p - q
<1>1. n = b * q + (n % b) /\ q \in Int /\ n % b \in Int
  BY DivMod
<1>2. n + 1 = b * p + r /\ p \in Int /\ r \in 0 .. b - 1
  BY DivMod
<1>3. a = b * d + r /\ a \in Int /\ d \in Int
  BY <1>1, <1>2
<1>4. a % b = r
  <2> HIDE DEF p, q, r, a, d
  <2>1. QED
    BY <1>2, <1>3, ModUnique
<1>5. QED
  BY <1>4

(* The distance of two remainders, modulo a number beyond the distance. *)
LEMMA ModDistance ==
  ASSUME NEW m \in Nat, NEW n \in Nat, NEW b \in Nat \ {0},
         m <= n, n - m < b
  PROVE  ((n % b) - (m % b)) % b = n - m
<1> DEFINE p == m \div b
           q == n \div b
           a == (n % b) - (m % b)
           d == p - q
           e == n - m
<1>1. m = b * p + (m % b) /\ p \in Int /\ m % b \in Int
  BY DivMod
<1>2. n = b * q + (n % b) /\ q \in Int /\ n % b \in Int
  BY DivMod
<1>3. a = b * d + e /\ a \in Int /\ d \in Int /\ e \in 0 .. b - 1
  BY <1>1, <1>2
<1>4. a % b = e
  <2> HIDE DEF p, q, a, d, e
  <2>1. QED
    BY <1>3, ModUnique
<1>5. QED
  BY <1>4

(* A remainder of a remainder, if one modulus divides the other. *)
LEMMA ModMod ==
  ASSUME NEW n \in Nat, NEW b \in Nat \ {0}, NEW r \in Nat \ {0}, b % r = 0
  PROVE  (n % b) % r = n % r
<1> DEFINE k == b \div r
           p == n \div b
           q == n \div r
           a == n % b
           s == n % r
           d == q - k * p
<1>1. b = r * k /\ k \in Int
  BY DivMod
<1>2. n = b * p + a /\ p \in Int /\ a \in Int
  BY DivMod
<1>3. n = r * q + s /\ q \in Int /\ s \in 0 .. r - 1
  BY DivMod
<1> HIDE DEF k, p, q, a, s
<1>4. b * p = r * (k * p) /\ k * p \in Int
  BY <1>1, <1>2
<1>5. r * d = r * q - r * (k * p) /\ d \in Int
  BY <1>3, <1>4
<1>6. a = r * d + s
  BY <1>2, <1>3, <1>4, <1>5
<1>7. a % r = s
  <2> HIDE DEF d
  <2>1. QED
    BY <1>2, <1>3, <1>5, <1>6, ModUnique
<1>8. QED
  BY <1>7 DEF a, s

(* Numbers closer than the modulus have different remainders. *)
LEMMA ModDistinct ==
  ASSUME NEW m \in Nat, NEW n \in Nat, NEW b \in Nat \ {0}, m < n, n - m < b
  PROVE  m % b # n % b
<1> SUFFICES ASSUME m % b = n % b PROVE FALSE
  OBVIOUS
<1>1. ((n % b) - (m % b)) % b = n - m
  <2>1. m <= n
    OBVIOUS
  <2>2. QED
    BY ONLY m \in Nat, n \in Nat, b \in Nat \ {0}, <2>1, n - m < b, ModDistance
<1>2. 0 % b = 0
  BY ModSmall
<1>3. (n % b) - (m % b) = 0
  BY DivMod
<1>4. QED
  BY <1>1, <1>2, <1>3

(* A positive multiple is at least as large as the number. *)
LEMMA MultipleAtLeast ==
  ASSUME NEW m \in Nat \ {0}, NEW d \in Int, d >= 1
  PROVE  m * d >= m
<1>1. d - 1 \in Nat /\ m \in Nat
  OBVIOUS
<1>2. m * (d - 1) \in Nat
  BY <1>1
<1>3. m * (d - 1) = m * d - m
  OBVIOUS
<1>4. QED
  BY <1>2, <1>3

(* The quotient is unique. *)
LEMMA DivUnique ==
  ASSUME NEW a \in Int, NEW m \in Nat \ {0}, NEW q \in Int,
         NEW r \in 0 .. m - 1, a = m * q + r
  PROVE  a \div m = q
<1>1. a % m = r
  BY ModUnique
<1>2. a = m * (a \div m) + r /\ a \div m \in Int
  BY <1>1, DivMod
<1> DEFINE p == a \div m
<1>3. p \in Int /\ m * p = m * q
  BY <1>2
<1> HIDE DEF p
<1>4. m * (p - q) = 0 /\ m * (q - p) = 0
  BY <1>3
<1>5. ~ (p - q >= 1)
  BY <1>3, <1>4, MultipleAtLeast
<1>6. ~ (q - p >= 1)
  BY <1>3, <1>4, MultipleAtLeast
<1>7. QED
  BY <1>3, <1>5, <1>6 DEF p

(* The sum of two multiples is one. *)
LEMMA MultiplesAdd ==
  ASSUME NEW m \in Nat \ {0}, NEW a \in Nat, NEW b \in Nat,
         a % m = 0, b % m = 0
  PROVE  (a + b) % m = 0
<1> DEFINE p == a \div m
           q == b \div m
<1>1. a = m * p + (a % m) /\ b = m * q + (b % m) /\ p \in Int /\ q \in Int
  BY DivMod
<1> HIDE DEF p, q
<1>2. m * (p + q) = m * p + m * q
  BY <1>1
<1>3. m * p = a /\ m * q = b
  BY <1>1
<1> DEFINE d == p + q
<1>4. a + b = m * d + 0
  BY <1>1, <1>2, <1>3
<1>5. 0 \in 0 .. m - 1 /\ d \in Int /\ a + b \in Int
  BY <1>1
<1> HIDE DEF d
<1>6. QED
  BY <1>4, <1>5, ModUnique

-----------------------------------------------------------------------------
(* Naturals *)

(* A set of naturals that is not empty has a least member.  (The strict     *)
(* subset order on finite sets is well-founded, and m < n is the same as    *)
(* 0 .. m being a strict subset of 0 .. n.)                                 *)
LEMMA NatLeast ==
  ASSUME NEW T \in SUBSET Nat, T # {}
  PROVE  \E x \in T : \A y \in T : x <= y
<1> DEFINE F == {0 .. n : n \in T}
<1>1. F \subseteq FiniteSubsetsOf(Nat)
  <2>1. \A n \in T : 0 .. n \in SUBSET Nat /\ IsFiniteSet(0 .. n)
    BY FS_Interval
  <2>2. QED
    BY <2>1 DEF FiniteSubsetsOf
<1>2. F # {}
  OBVIOUS
<1>3. IsWellFoundedOn(StrictSubsetOrdering(Nat), FiniteSubsetsOf(Nat))
  BY FS_StrictSubsetOrderingWellFounded
<1>4. PICK x \in F : \A y \in F : ~ (<< y, x >> \in StrictSubsetOrdering(Nat))
  <2> HIDE DEF F
  <2>1. QED
    BY <1>1, <1>2, <1>3, WFMin
<1>5. PICK n \in T : x = 0 .. n
  OBVIOUS
<1>6. ASSUME NEW m \in T, m < n
      PROVE  FALSE
  <2>1. << 0 .. m, 0 .. n >> \in StrictSubsetOrdering(Nat)
    <3>1. 0 .. m \in SUBSET Nat /\ 0 .. n \in SUBSET Nat
      OBVIOUS
    <3>2. 0 .. m \subseteq 0 .. n
      BY <1>6
    <3>3. n \in 0 .. n /\ n \notin 0 .. m
      BY <1>6
    <3>4. QED
      BY <3>1, <3>2, <3>3 DEF StrictSubsetOrdering
  <2>2. QED
    BY <1>4, <1>5, <2>1
<1>7. QED
  BY <1>6

(* Induction: a set that holds zero and every successor of its naturals    *)
(* holds every natural.  A property to be proved by induction is stated as  *)
(* a set of naturals, since it cannot be passed as an operator.             *)
LEMMA NatInductive ==
  ASSUME NEW S, 0 \in S, \A n \in Nat : n \in S => n + 1 \in S
  PROVE  Nat \subseteq S
<1> SUFFICES ASSUME ~ (Nat \subseteq S) PROVE FALSE
  OBVIOUS
<1>1. PICK x \in Nat \ S : \A y \in Nat \ S : x <= y
  <2>1. Nat \ S \in SUBSET Nat /\ Nat \ S # {}
    OBVIOUS
  <2>2. QED
    BY <2>1, NatLeast
<1>2. x # 0 /\ x - 1 \in Nat
  BY <1>1
<1>3. x - 1 \in S
  BY <1>1, <1>2
<1>4. x \in S
  <2>1. (x - 1) + 1 = x
    BY <1>1
  <2>2. QED
    BY <1>2, <1>3, <2>1
<1>5. QED
  BY <1>1, <1>4

(* Min returns the least member. *)
LEMMA MinIn ==
  ASSUME NEW S \in SUBSET Nat, S # {}
  PROVE  Min(S) \in S /\ \A x \in S : Min(S) <= x
<1>1. \E m \in S : \A x \in S : m <= x
  BY NatLeast
<1>2. QED
  BY <1>1 DEF Min

(* Max returns the greatest member of a bounded set. *)
LEMMA MaxIn ==
  ASSUME NEW n \in Nat, NEW S \in SUBSET (0 .. n), S # {}
  PROVE  Max(S) \in S /\ \A x \in S : Max(S) >= x
<1> DEFINE T == {n - x : x \in S}
<1>1. T \in SUBSET Nat /\ T # {}
  <2>1. \A x \in S : n - x \in Nat
    OBVIOUS
  <2>2. T \subseteq Nat
    BY <2>1
  <2>3. T # {}
    OBVIOUS
  <2>4. QED
    BY <2>2, <2>3
<1>2. PICK m \in T : \A y \in T : m <= y
  <2> HIDE DEF T
  <2>1. QED
    BY <1>1, NatLeast
<1>3. PICK k \in S : m = n - k
  OBVIOUS
<1>4. \A x \in S : k >= x
  <2> TAKE x \in S
  <2>1. n - x \in T
    OBVIOUS
  <2>2. QED
    BY <1>2, <1>3, <2>1, SMTT(30)
<1>5. QED
  BY <1>4 DEF Max

-----------------------------------------------------------------------------
(* More about sequences *)

(* SubSeq of a range within the sequence. *)
LEMMA SliceProps ==
  ASSUME NEW S, NEW q \in Seq(S),
         NEW m \in 1 .. Len(q) + 1, NEW n \in m - 1 .. Len(q)
  PROVE  /\ SubSeq(q, m, n) \in Seq(S)
         /\ Len(SubSeq(q, m, n)) = n - m + 1
         /\ \A i \in 1 .. n - m + 1 : SubSeq(q, m, n)[i] = q[m + i - 1]
<1> DEFINE s == SubSeq(q, m, n)
<1>1. Len(q) \in Nat /\ m \in Int /\ n \in Int
  BY LenProperties
<1>2. \A i \in m .. n : q[i] \in S
  BY <1>1, ElementOfSeq
<1>3. s \in Seq(S)
  BY <1>1, <1>2, SubSeqProperties
<1>4. Len(s) = IF m <= n THEN n - m + 1 ELSE 0
  BY <1>1, <1>2, SubSeqProperties
<1>5. \A i \in 1 .. n - m + 1 : s[i] = q[m + i - 1]
  BY <1>1
<1> HIDE DEF s
<1>6. Len(s) = n - m + 1
  BY <1>1, <1>4
<1>7. QED
  BY <1>3, <1>5, <1>6 DEF s

(* A sequence of two is two sequences of one. *)
LEMMA TwoTokens ==
  ASSUME NEW A, NEW x \in A, NEW y \in A
  PROVE  << x >> \o << y >> = << x, y >>
<1> DEFINE p == << x >>
           q == << y >>
           w == << x, y >>
<1>1. p \in Seq(A) /\ q \in Seq(A) /\ w \in Seq(A)
  OBVIOUS
<1>2. Len(p) = 1 /\ Len(q) = 1 /\ Len(w) = 2
  OBVIOUS
<1>3. p[1] = x /\ q[1] = y /\ w[1] = x /\ w[2] = y
  OBVIOUS
<1> HIDE DEF p, q, w
<1>4. /\ p \o q \in Seq(A) /\ Len(p \o q) = 2
      /\ \A i \in 1 .. 2 : (p \o q)[i] = IF i <= 1 THEN p[i] ELSE q[i - 1]
  BY <1>1, <1>2, ConcatProperties
<1>5. \A i \in 1 .. 2 : (p \o q)[i] = w[i]
  BY <1>3, <1>4
<1>6. p \o q = w
  BY <1>1, <1>2, <1>4, <1>5, SeqEqual
<1>7. QED
  BY <1>6 DEF p, q, w

(* Concatenation keeps both sequences in order. *)
LEMMA ConcatProps ==
  ASSUME NEW S, NEW u \in Seq(S), NEW v \in Seq(S)
  PROVE  /\ u \o v \in Seq(S)
         /\ Len(u \o v) = Len(u) + Len(v)
         /\ \A i \in 1 .. Len(u) : (u \o v)[i] = u[i]
         /\ \A i \in 1 .. Len(v) : (u \o v)[Len(u) + i] = v[i]
<1>1. u \o v \in Seq(S)
  OBVIOUS
<1>2. Len(u \o v) = Len(u) + Len(v)
  OBVIOUS
<1>3. \A i \in 1 .. Len(u) : (u \o v)[i] = u[i]
  OBVIOUS
<1>4. \A i \in 1 .. Len(v) : (u \o v)[Len(u) + i] = v[i]
  OBVIOUS
<1>5. QED
  BY <1>1, <1>2, <1>3, <1>4

=============================================================================
