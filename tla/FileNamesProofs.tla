--------------------------- MODULE FileNamesProofs ---------------------------
(***************************************************************************)
(* Lemmas about the names of files in DumpFiles: for any number of digits, *)
(* any base and any set of paths, names are ordered totally, smaller       *)
(* numbers come first while their digits are as many, and there is a last  *)
(* file.  What is needed of induction follows from the well-foundedness of *)
(* < in the library, for sets in place of predicates.                      *)
(***************************************************************************)
EXTENDS DumpFiles, Integers, FiniteSetTheorems, SequenceTheorems, WellFoundedInduction, TLAPS

-----------------------------------------------------------------------------
(* Induction over the natural numbers, for a set instead of a predicate.   *)

\* Every set of natural numbers has a least element.
LEMMA Least ==
  ASSUME NEW T \in SUBSET Nat, T # {}
  PROVE  \E m \in T : \A n \in T : m <= n
  <1> DEFINE R == {ss \in Nat \X Nat : ss[1] < ss[2]}
  <1>1. IsWellFoundedOn(R, Nat)
    BY NatLessThanWellFounded DEF OpToRel
  <1>2. PICK m \in T : \A n \in T : <<n, m>> \notin R
    BY <1>1, WFMin
  <1>3. ASSUME NEW n \in T
        PROVE  m <= n
    <2>1. <<n, m>> \in Nat \X Nat /\ <<n, m>>[1] = n /\ <<n, m>>[2] = m
      OBVIOUS
    <2> QED
      BY <1>2, <2>1
  <1> QED
    BY <1>3

\* A set with 0 and with the successor of each of its elements has them all.
LEMMA Induction ==
  ASSUME NEW T, 0 \in T, \A n \in Nat : n \in T => n + 1 \in T
  PROVE  \A n \in Nat : n \in T
  <1> SUFFICES ASSUME Nat \ T # {}
               PROVE  FALSE
    OBVIOUS
  <1>1. PICK m \in Nat \ T : \A n \in Nat \ T : m <= n
    BY Least
  <1>2. m # 0
    BY <1>1
  <1>3. m - 1 \in Nat /\ m - 1 \in T
    BY <1>1, <1>2
  <1> QED
    BY <1>1, <1>3

\* A finite set with a total order has a greatest element.
LEMMA Greatest ==
  ASSUME NEW S, IsFiniteSet(S), S # {}, NEW R,
         \A x, y \in S : x # y => <<x, y>> \in R \/ <<y, x>> \in R,
         \A x, y, z \in S : <<x, y>> \in R /\ <<y, z>> \in R => <<x, z>> \in R
  PROVE  \E x \in S : \A y \in S \ {x} : <<y, x>> \in R
  <1> DEFINE Max(T, x) == x \in T /\ \A y \in T \ {x} : <<y, x>> \in R
             N == {n \in Nat : \A T \in SUBSET S :
                                 Cardinality(T) = n + 1 => \E x \in T : Max(T, x)}
  <1>1. 0 \in N
    <2> SUFFICES ASSUME NEW T \in SUBSET S, Cardinality(T) = 1
                 PROVE  \E x \in T : Max(T, x)
      OBVIOUS
    <2>1. IsFiniteSet(T)
      BY FS_Subset
    <2>2. PICK x : T = {x}
      BY <2>1, FS_Singleton
    <2> QED
      BY <2>2
  <1>2. ASSUME NEW n \in Nat, n \in N
        PROVE  n + 1 \in N
    <2> SUFFICES ASSUME NEW T \in SUBSET S, Cardinality(T) = n + 2
                 PROVE  \E x \in T : Max(T, x)
      OBVIOUS
    <2>1. IsFiniteSet(T)
      BY FS_Subset
    <2>2. PICK x \in T : TRUE
      <3>1. T # {}
        BY <2>1, FS_EmptySet
      <3> QED
        BY <3>1
    <2>3. Cardinality(T \ {x}) = n + 1
      <3>1. Cardinality(T \ {x}) = Cardinality(T) - 1
        BY <2>1, <2>2, FS_RemoveElement
      <3> QED
        BY <3>1
    <2>4. PICK m \in T \ {x} : Max(T \ {x}, m)
      BY <1>2, <2>3
    <2>5. CASE <<x, m>> \in R
      BY <2>4, <2>5
    <2>6. CASE <<m, x>> \in R
      <3>1. ASSUME NEW y \in T \ {x}
            PROVE  <<y, x>> \in R
        BY <2>4, <2>6, <3>1
      <3> QED
        BY <2>2, <3>1
    <2> QED
      BY <2>2, <2>4, <2>5, <2>6
  <1>3. \A n \in Nat : n \in N
    <2> HIDE DEF N
    <2> QED
      BY <1>1, <1>2, Induction
  <1>4. Cardinality(S) \in Nat /\ Cardinality(S) # 0
    BY FS_CardinalityType, FS_EmptySet
  <1>5. Cardinality(S) - 1 \in N
    BY <1>3, <1>4
  <1> QED
    BY <1>4, <1>5

-----------------------------------------------------------------------------
(* Powers. *)

\* The definition of Power has a solution: one that agrees with the partial ones.
LEMMA PowerDef ==
  Power = [i \in Nat |-> IF i = 0 THEN 1 ELSE Base * Power[i - 1]]
  <1> DEFINE Partial(n, g) ==
               /\ g \in [0..n -> Nat] /\ g[0] = 1
               /\ \A i \in 1..n : g[i] = Base * g[i - 1]
             P(n) == CHOOSE g : Partial(n, g)
             Whole == [n \in Nat |-> P(n)[n]]
             Exist == {n \in Nat : \E g : Partial(n, g)}
  <1>0. Base \in Nat
    BY NumbersAssumption
  <1>1. \A n \in Nat : n \in Exist
    <2>1. 0 \in Exist
      <3>1. Partial(0, [i \in 0..0 |-> 1])
        OBVIOUS
      <3> QED
        BY <3>1
    <2>2. ASSUME NEW n \in Nat, n \in Exist
          PROVE  n + 1 \in Exist
      <3>1. PICK g : Partial(n, g)
        BY <2>2
      <3> DEFINE h == [i \in 0..(n + 1) |-> IF i = n + 1 THEN Base * g[n] ELSE g[i]]
      <3>2. h \in [0..(n + 1) -> Nat] /\ h[0] = 1
        BY <1>0, <3>1
      <3>3. ASSUME NEW i \in 1..(n + 1)
            PROVE  h[i] = Base * h[i - 1]
        BY <3>1
      <3>4. Partial(n + 1, h)
        BY <3>2, <3>3
      <3> HIDE DEF h, Partial
      <3> QED
        BY <3>4
    <2> HIDE DEF Exist
    <2> QED
      BY <2>1, <2>2, Induction
  <1>2. \A n \in Nat : P(n)[0] = 1 /\ \A i \in 1..n : P(n)[i] = Base * P(n)[i - 1]
    <2> TAKE n \in Nat
    <2>1. Partial(n, P(n))
      <3>1. \E g : Partial(n, g)
        BY <1>1
      <3> HIDE DEF Partial
      <3> QED
        BY <3>1
    <2> QED
      BY <2>1
  <1> HIDE DEF P, Partial
  <1>3. ASSUME NEW n \in Nat
        PROVE  P(n + 1)[n] = P(n)[n]
    <2> DEFINE Same == {i \in Nat : i <= n => P(n + 1)[i] = P(n)[i]}
    <2>1. 0 \in Same
      <3>1. P(n + 1)[0] = 1 /\ P(n)[0] = 1
        BY <1>2
      <3> QED
        BY <3>1
    <2>2. ASSUME NEW i \in Nat, i \in Same
          PROVE  i + 1 \in Same
      <3> SUFFICES ASSUME i + 1 <= n
                   PROVE  P(n + 1)[i + 1] = P(n)[i + 1]
        OBVIOUS
      <3>1. P(n + 1)[i] = P(n)[i]
        BY <2>2
      <3>2. i + 1 \in 1..n /\ i + 1 \in 1..(n + 1) /\ (i + 1) - 1 = i
        OBVIOUS
      <3>3. P(n + 1)[i + 1] = Base * P(n + 1)[i] /\ P(n)[i + 1] = Base * P(n)[i]
        BY <1>2, <3>2
      <3> QED
        BY <3>1, <3>3
    <2>3. \A i \in Nat : i \in Same
      <3> HIDE DEF Same
      <3> QED
        BY <2>1, <2>2, Induction
    <2> QED
      BY <2>3
  <1>4. ASSUME NEW n \in Nat
        PROVE  Whole[n] = IF n = 0 THEN 1 ELSE Base * Whole[n - 1]
    <2>1. CASE n = 0
      BY <1>2, <2>1
    <2>2. CASE n # 0
      <3>1. n - 1 \in Nat /\ (n - 1) + 1 = n /\ n \in 1..n
        BY <2>2
      <3>2. P(n)[n] = Base * P(n)[n - 1]
        BY <1>2, <3>1
      <3>3. P(n)[n - 1] = P(n - 1)[n - 1]
        BY <1>3, <3>1
      <3>4. Whole[n] = P(n)[n] /\ Whole[n - 1] = P(n - 1)[n - 1]
        BY <3>1
      <3> QED
        BY <2>2, <3>2, <3>3, <3>4
    <2> QED
      BY <2>1, <2>2
  <1>5. Whole = [i \in Nat |-> IF i = 0 THEN 1 ELSE Base * Whole[i - 1]]
    <2> DEFINE Again == [i \in Nat |-> IF i = 0 THEN 1 ELSE Base * Whole[i - 1]]
    <2>1. \A n \in Nat : Whole[n] = Again[n]
      <3> HIDE DEF Whole
      <3> QED
        BY <1>4
    <2>2. Whole = [i \in Nat |-> Whole[i]]
      OBVIOUS
    <2>3. Again = [i \in Nat |-> Again[i]]
      OBVIOUS
    <2> HIDE DEF Whole, Again
    <2>4. Whole = Again
      BY <2>1, <2>2, <2>3
    <2> QED
      BY <2>4 DEF Again
  <1> HIDE DEF Whole
  <1> QED
    BY <1>5 DEF Power

\* Powers are positive, and greater than their exponents.
LEMMA PowerFacts ==
  /\ Power[0] = 1
  /\ \A n \in Nat : Power[n + 1] = Base * Power[n]
  /\ \A n \in Nat : Power[n] \in Nat /\ Power[n] > n
  <1> DEFINE T == {n \in Nat : Power[n] \in Nat /\ Power[n] > n}
  <1>1. Power[0] = 1
    BY PowerDef
  <1>2. \A n \in Nat : Power[n + 1] = Base * Power[n]
    <2> TAKE n \in Nat
    <2>1. n + 1 \in Nat /\ n + 1 # 0 /\ (n + 1) - 1 = n
      OBVIOUS
    <2> QED
      BY <2>1, PowerDef
  <1>3. 0 \in T
    BY <1>1
  <1>4. ASSUME NEW n \in Nat, n \in T
        PROVE  n + 1 \in T
    <2>1. Power[n] \in Nat /\ Power[n] >= n + 1
      BY <1>4
    <2>2. \A p \in Nat : p >= n + 1 => Base * p \in Nat /\ Base * p >= p + p
      BY NumbersAssumption
    <2>3. Power[n + 1] \in Nat /\ Power[n + 1] > n + 1
      BY <1>2, <2>1, <2>2
    <2> QED
      BY <2>3
  <1>5. \A n \in Nat : n \in T
    <2> HIDE DEF T
    <2> QED
      BY <1>3, <1>4, Induction
  <1> QED
    BY <1>1, <1>2, <1>5

-----------------------------------------------------------------------------
(* Division. *)

\* A quotient is the one number for which the remainder is small enough.
LEMMA Quotient ==
  ASSUME NEW d \in Nat \ {0}, NEW k \in Nat, NEW t \in 0..(d - 1)
  PROVE  (d * k + t) \div d = k
  OBVIOUS

\* Division by a product, one factor at a time.
LEMMA DivideTwice ==
  ASSUME NEW n \in Nat, NEW p \in Nat \ {0}, NEW b \in Nat \ {0}
  PROVE  n \div (b * p) = (n \div p) \div b
  <1> DEFINE q == n \div p
             r == n % p
             k == q \div b
             s == q % b
  <1>1. n = p * q + r /\ q \in Nat /\ r \in 0..(p - 1)
    OBVIOUS
  <1>2. q = b * k + s /\ k \in Nat /\ s \in 0..(b - 1)
    BY <1>1
  <1>3. b * p \in Nat \ {0}
    OBVIOUS
  <1> HIDE DEF q, r, k, s
  <1>4. n = (b * p) * k + (p * s + r)
    BY <1>1, <1>2
  <1>5. p * s + r \in 0..(b * p - 1)
    <2>1. p * s + r <= p * s + (p - 1) /\ p * s + r >= 0
      BY <1>1, <1>2
    <2>2. p * s + p = p * (s + 1)
      BY <1>2
    <2>3. p * (s + 1) <= p * b
      BY <1>2
    <2> QED
      BY <1>1, <1>2, <2>1, <2>2, <2>3
  <1>6. n \div (b * p) = k
    BY <1>2, <1>3, <1>4, <1>5, Quotient
  <1> QED
    BY <1>6 DEF k, q

\* The quotients of two numbers are in the same order, or equal.
LEMMA DivideInOrder ==
  ASSUME NEW a \in Nat, NEW c \in Nat, NEW d \in Nat \ {0}, a <= c
  PROVE  a \div d <= c \div d
  OBVIOUS

\* A number is known by its quotient and its last digit.
LEMMA LastDigit ==
  ASSUME NEW n \in Nat, NEW b \in Nat \ {0}
  PROVE  /\ n \div b \in Nat /\ n % b \in Nat
         /\ n = b * (n \div b) + (n % b)
  <1>1. 0 \div b = 0
    OBVIOUS
  <1>2. n \div b \in Nat
    BY <1>1, DivideInOrder
  <1>3. n % b \in Nat
    OBVIOUS
  <1>4. n = b * (n \div b) + (n % b)
    OBVIOUS
  <1> QED
    BY <1>2, <1>3, <1>4

-----------------------------------------------------------------------------
(* Numbers in file names. *)

\* How many digits a number has.
LEMMA PlacesFacts ==
  ASSUME NEW n \in Nat
  PROVE  /\ Places(n) \in Nat /\ n < Power[Places(n)]
         /\ n < Power[Width] => Places(n) = Width
  <1> DEFINE Enough == {w \in Width..(Width + n) : n < Power[w]}
             Right(w) == n < Power[w] /\ \A v \in Width..(w - 1) : n >= Power[v]
  <1>1. Width \in Nat /\ Width + n \in Nat
    BY NumbersAssumption
  <1>2. Width + n \in Enough
    BY <1>1, PowerFacts
  <1>3. PICK w \in Enough : \A v \in Enough : w <= v
    <2>1. Enough \in SUBSET Nat
      BY <1>1
    <2> HIDE DEF Enough
    <2> QED
      BY <1>2, <2>1, Least
  <1>4. ASSUME NEW v \in Width..(w - 1)
        PROVE  n >= Power[v]
    <2>1. v \in Width..(Width + n) /\ v < w /\ v \in Nat /\ w \in Nat
      BY <1>1, <1>3
    <2>2. Power[v] \in Nat
      BY <2>1, PowerFacts
    <2> QED
      BY <1>3, <2>1, <2>2
  <1>5. \E u \in Width..(Width + n) : Right(u)
    BY <1>3, <1>4
  <1>6. Places(n) \in Width..(Width + n) /\ Right(Places(n))
    BY <1>5 DEF Places
  <1>7. n < Power[Width] => Places(n) = Width
    <2> SUFFICES ASSUME n < Power[Width], Places(n) # Width
                 PROVE  FALSE
      OBVIOUS
    <2>1. Width \in Width..(Places(n) - 1)
      BY <1>1, <1>6
    <2>2. n >= Power[Width]
      BY <1>6, <2>1
    <2> QED
      BY <1>1, <2>2, PowerFacts
  <1> QED
    BY <1>1, <1>6, <1>7

\* The digits of a number.
LEMMA DigitsFacts ==
  ASSUME NEW n \in Nat
  PROVE  /\ Digits(n) \in Seq(Nat) /\ Len(Digits(n)) = Places(n)
         /\ \A i \in 1..Places(n) :
              /\ Digits(n)[i] = (n \div Power[Places(n) - i]) % Base
              /\ Digits(n)[i] \in Nat
  <1>1. Places(n) \in Nat
    BY PlacesFacts
  <1>2. \A i \in 1..Places(n) : (n \div Power[Places(n) - i]) % Base \in Nat
    <2> TAKE i \in 1..Places(n)
    <2>1. Places(n) - i \in Nat
      BY <1>1
    <2>2. Power[Places(n) - i] \in Nat \ {0}
      BY <2>1, PowerFacts
    <2>3. n \div Power[Places(n) - i] \in Nat
      BY <2>2, LastDigit
    <2> QED
      BY <2>3, NumbersAssumption, LastDigit
  <1> QED
    BY <1>1, <1>2 DEF Digits

\* Of two numbers with as many digits, the smaller one comes first.
LEMMA SmallerPrecedes ==
  ASSUME NEW a \in Nat, NEW b \in Nat, a < b, Places(a) = Places(b)
  PROVE  Precedes(Digits(a), Digits(b))
  <1> DEFINE w == Places(b)
             qa(i) == a \div Power[w - i]
             qb(i) == b \div Power[w - i]
             Differ == {i \in 1..w : qa(i) # qb(i)}
  <1>0. w \in Nat /\ Base \in Nat \ {0}
    BY PlacesFacts, NumbersAssumption
  <1>1. ASSUME NEW i \in 0..w
        PROVE  /\ w - i \in Nat /\ Power[w - i] \in Nat \ {0}
               /\ qa(i) \in Nat /\ qb(i) \in Nat /\ qa(i) <= qb(i)
    <2>1. w - i \in Nat
      BY <1>0
    <2>2. Power[w - i] \in Nat \ {0}
      BY <2>1, PowerFacts
    <2>3. qa(i) \in Nat /\ qb(i) \in Nat
      BY <2>2, LastDigit
    <2>4. qa(i) <= qb(i)
      BY <2>2, DivideInOrder
    <2> QED
      BY <2>1, <2>2, <2>3, <2>4
  <1>2. qa(0) = 0 /\ qb(0) = 0
    <2>1. a < Power[w] /\ b < Power[w] /\ w - 0 = w
      BY <1>0, PlacesFacts
    <2>2. Power[w] \in Nat \ {0}
      BY <1>0, PowerFacts
    <2>3. \A n \in Nat, p \in Nat \ {0} : n < p => n \div p = 0
      OBVIOUS
    <2> QED
      BY <2>1, <2>2, <2>3
  <1>3. qa(w) = a /\ qb(w) = b
    <2>1. w - w = 0 /\ Power[0] = 1
      BY <1>0, PowerFacts
    <2>2. \A n \in Nat : n \div 1 = n
      OBVIOUS
    <2> QED
      BY <2>1, <2>2
  <1>4. w \in Differ
    <2>1. w # 0
      BY <1>2, <1>3
    <2> QED
      BY <1>0, <1>3, <2>1
  <1>5. ASSUME NEW i \in 1..w
        PROVE  /\ Digits(a)[i] = qa(i) % Base /\ qa(i - 1) = qa(i) \div Base
               /\ Digits(b)[i] = qb(i) % Base /\ qb(i - 1) = qb(i) \div Base
    <2>1. Digits(a)[i] = qa(i) % Base /\ Digits(b)[i] = qb(i) % Base
      BY DigitsFacts
    <2>2. i - 1 \in 0..w /\ i \in 0..w /\ w - (i - 1) = (w - i) + 1
      BY <1>0
    <2>3. Power[w - (i - 1)] = Base * Power[w - i] /\ Power[w - i] \in Nat \ {0}
      BY <1>1, <2>2, PowerFacts
    <2>4. qa(i - 1) = qa(i) \div Base /\ qb(i - 1) = qb(i) \div Base
      BY <1>0, <2>3, DivideTwice
    <2> QED
      BY <2>1, <2>4
  <1>6. PICK i \in Differ : \A j \in Differ : i <= j
    <2>1. Differ \in SUBSET Nat
      BY <1>0
    <2> HIDE DEF Differ
    <2> QED
      BY <1>4, <2>1, Least
  <1>7. i \in 1..w /\ qa(i) # qb(i)
    BY <1>6
  <1>8. ASSUME NEW j \in 0..(i - 1)
        PROVE  qa(j) = qb(j)
    <2>1. j = 0 \/ (j \in 1..w /\ ~(i <= j))
      BY <1>0, <1>7
    <2> QED
      BY <1>2, <1>6, <2>1
  <1>9. Digits(a)[i] < Digits(b)[i]
    <2>1. qa(i) < qb(i) /\ qa(i) \in Nat /\ qb(i) \in Nat
      BY <1>0, <1>1, <1>7
    <2>2. qa(i) \div Base = qb(i) \div Base
      <3>1. i - 1 \in 0..(i - 1)
        BY <1>7
      <3> QED
        BY <1>5, <1>7, <1>8, <3>1
    <2>3. /\ qa(i) = Base * (qa(i) \div Base) + (qa(i) % Base)
          /\ qb(i) = Base * (qb(i) \div Base) + (qb(i) % Base)
          /\ qa(i) \div Base \in Nat /\ qa(i) % Base \in Nat /\ qb(i) % Base \in Nat
      BY <1>0, <2>1, LastDigit
    <2>4. Base * (qa(i) \div Base) \in Nat
      BY <1>0, <2>3
    <2>5. qa(i) % Base < qb(i) % Base
      <3> DEFINE m == Base * (qa(i) \div Base)
                 ra == qa(i) % Base
                 rb == qb(i) % Base
      <3>1. m \in Nat /\ ra \in Nat /\ rb \in Nat
        BY <2>3, <2>4
      <3>2. qa(i) = m + ra
        BY <2>3
      <3>3. m = Base * (qb(i) \div Base)
        BY <2>2
      <3>4. qb(i) = m + rb
        BY <2>3, <3>3
      <3> HIDE DEF m, ra, rb
      <3>5. ra < rb
        BY <2>1, <3>1, <3>2, <3>4
      <3> QED
        BY <3>5 DEF ra, rb
    <2> QED
      BY <1>5, <1>7, <2>5
  <1>10. ASSUME NEW j \in 1..(i - 1)
         PROVE  j <= Len(Digits(a)) /\ Digits(a)[j] = Digits(b)[j]
    <2>1. j \in 1..w /\ j \in 0..(i - 1)
      BY <1>0, <1>7
    <2> QED
      BY <1>0, <1>5, <1>8, <2>1, DigitsFacts
  <1>11. i \in 1..Len(Digits(b)) /\ i <= Len(Digits(a)) + 1
    BY <1>0, <1>7, DigitsFacts
  <1> QED
    BY <1>9, <1>10, <1>11 DEF Precedes

-----------------------------------------------------------------------------
(* The order of names, which are compared as words are. *)

\* Of two different names one comes first.
LEMMA PrecedesTotal ==
  ASSUME NEW a \in Seq(Nat), NEW b \in Seq(Nat), a # b
  PROVE  Precedes(a, b) \/ Precedes(b, a)
  <1> DEFINE Differ == {i \in 1..Len(a) : i <= Len(b) /\ a[i] # b[i]}
  <1>1. Len(a) \in Nat /\ Len(b) \in Nat
    OBVIOUS
  <1>2. CASE Differ # {}
    <2>1. PICK i \in Differ : \A j \in Differ : i <= j
      <3>1. Differ \in SUBSET Nat
        BY <1>1
      <3> HIDE DEF Differ
      <3> QED
        BY <1>2, <3>1, Least
    <2>2. i \in 1..Len(a) /\ i \in 1..Len(b) /\ a[i] # b[i]
      BY <1>1, <2>1
    <2>3. a[i] \in Nat /\ b[i] \in Nat
      BY <2>2
    <2>4. \A j \in 1..(i - 1) : j <= Len(a) /\ j <= Len(b) /\ a[j] = b[j]
      BY <1>1, <2>1, <2>2
    <2>5. CASE a[i] < b[i]
      BY <1>1, <2>2, <2>4, <2>5 DEF Precedes
    <2>6. CASE b[i] < a[i]
      BY <1>1, <2>2, <2>4, <2>6 DEF Precedes
    <2> QED
      BY <2>2, <2>3, <2>5, <2>6
  <1>3. CASE Differ = {}
    <2>1. \A j \in 1..Len(a) : j <= Len(b) => a[j] = b[j]
      BY <1>3
    <2>2. CASE Len(a) < Len(b)
      <3>1. Len(a) + 1 \in 1..Len(b) /\ Len(a) + 1 \notin 1..Len(a)
        BY <1>1, <2>2
      <3>2. \A j \in 1..((Len(a) + 1) - 1) : j <= Len(a) /\ a[j] = b[j]
        BY <1>1, <2>1, <2>2
      <3>3. Len(a) + 1 <= Len(a) + 1
        BY <1>1
      <3>4. Precedes(a, b)
        BY <3>1, <3>2, <3>3 DEF Precedes
      <3> QED
        BY <3>4
    <2>3. CASE Len(b) < Len(a)
      <3>1. Len(b) + 1 \in 1..Len(a) /\ Len(b) + 1 \notin 1..Len(b)
        BY <1>1, <2>3
      <3>2. \A j \in 1..((Len(b) + 1) - 1) : j <= Len(b) /\ b[j] = a[j]
        BY <1>1, <2>1, <2>3
      <3>3. Len(b) + 1 <= Len(b) + 1
        BY <1>1
      <3>4. Precedes(b, a)
        BY <3>1, <3>2, <3>3 DEF Precedes
      <3> QED
        BY <3>4
    <2>4. CASE Len(a) = Len(b)
      <3>1. a = b
        BY <2>1, <2>4, SeqEqual
      <3> QED
        BY <3>1
    <2> QED
      BY <1>1, <2>2, <2>3, <2>4
  <1> QED
    BY <1>2, <1>3

\* What comes before a name comes before all that follow it.
LEMMA PrecedesTransitive ==
  ASSUME NEW a \in Seq(Nat), NEW b \in Seq(Nat), NEW c \in Seq(Nat),
         Precedes(a, b), Precedes(b, c)
  PROVE  Precedes(a, c)
  <1>1. /\ Len(a) \in Nat /\ Len(b) \in Nat /\ Len(c) \in Nat
        /\ \A j \in 1..Len(a) : a[j] \in Nat
        /\ \A j \in 1..Len(b) : b[j] \in Nat
        /\ \A j \in 1..Len(c) : c[j] \in Nat
    OBVIOUS
  <1>2. PICK i \in 1..Len(b) :
          /\ \A j \in 1..(i - 1) : j <= Len(a) /\ a[j] = b[j]
          /\ i \in 1..Len(a) => a[i] < b[i]
          /\ i <= Len(a) + 1
    BY DEF Precedes
  <1>3. PICK k \in 1..Len(c) :
          /\ \A j \in 1..(k - 1) : j <= Len(b) /\ b[j] = c[j]
          /\ k \in 1..Len(b) => b[k] < c[k]
          /\ k <= Len(b) + 1
    BY DEF Precedes
  <1>0. i \in Nat /\ k \in Nat /\ i <= Len(b) /\ k <= Len(c) /\ 1 <= i /\ 1 <= k
    BY <1>1
  <1>4. CASE i < k
    <2>1. ASSUME NEW j \in 1..(i - 1)
          PROVE  j <= Len(a) /\ a[j] = c[j]
      <3>1. j \in 1..(k - 1)
        BY <1>0, <1>4
      <3> QED
        BY <1>2, <1>3, <3>1
    <2>2. i \in 1..Len(c) /\ i \in 1..(k - 1)
      BY <1>0, <1>1, <1>4
    <2>3. b[i] = c[i]
      BY <1>3, <2>2
    <2> QED
      BY <1>2, <2>1, <2>2, <2>3 DEF Precedes
  <1>5. CASE i = k
    <2>1. \A j \in 1..(i - 1) : j <= Len(a) /\ a[j] = c[j]
      BY <1>2, <1>3, <1>5
    <2>2. i \in 1..Len(c) /\ b[i] < c[i]
      BY <1>3, <1>5
    <2>3. ASSUME i \in 1..Len(a)
          PROVE  a[i] < c[i]
      <3>1. a[i] < b[i] /\ a[i] \in Nat /\ b[i] \in Nat /\ c[i] \in Nat
        BY <1>1, <1>2, <2>2, <2>3
      <3> QED
        BY <2>2, <3>1
    <2> QED
      BY <1>2, <2>1, <2>2, <2>3 DEF Precedes
  <1>6. CASE k < i
    <2>1. ASSUME NEW j \in 1..(k - 1)
          PROVE  j <= Len(a) /\ a[j] = c[j]
      <3>1. j \in 1..(i - 1)
        BY <1>0, <1>6
      <3> QED
        BY <1>2, <1>3, <3>1
    <2>2. k \in 1..(i - 1) /\ k \in 1..Len(b)
      BY <1>0, <1>1, <1>6
    <2>3. k <= Len(a) /\ a[k] = b[k] /\ b[k] < c[k]
      BY <1>2, <1>3, <2>2
    <2>4. k <= Len(a) + 1
      BY <1>0, <1>1, <2>3
    <2> QED
      BY <1>3, <2>1, <2>3, <2>4 DEF Precedes
  <1> QED
    BY <1>0, <1>4, <1>5, <1>6

\* No name comes before itself.
LEMMA PrecedesIrreflexive ==
  ASSUME NEW a \in Seq(Nat)
  PROVE  ~Precedes(a, a)
  <1>1. \A i \in 1..Len(a) : a[i] \in Nat
    OBVIOUS
  <1> QED
    BY <1>1 DEF Precedes

\* Different numbers are written differently.
LEMMA DigitsDiffer ==
  ASSUME NEW m \in Nat, NEW n \in Nat, m # n
  PROVE  Digits(m) # Digits(n)
  <1> SUFFICES ASSUME Digits(m) = Digits(n)
               PROVE  FALSE
    OBVIOUS
  <1>1. Places(m) = Places(n)
    BY DigitsFacts
  <1>2. Digits(m) \in Seq(Nat)
    BY DigitsFacts
  <1>3. CASE m < n
    BY <1>1, <1>2, <1>3, SmallerPrecedes, PrecedesIrreflexive
  <1>4. CASE n < m
    <2>1. Precedes(Digits(n), Digits(m))
      BY <1>1, <1>4, SmallerPrecedes
    <2> QED
      BY <1>2, <2>1, PrecedesIrreflexive
  <1> QED
    BY <1>3, <1>4

\* The names of files are ordered totally.
LEMMA NamesTotal ==
  ASSUME NEW f \in Files, NEW g \in Files, f # g
  PROVE  NameBefore(f, g) \/ NameBefore(g, f)
  <1>1. /\ f.path \in Paths /\ g.path \in Paths
        /\ f.kind \in {"heap", "prof"} /\ g.kind \in {"heap", "prof"}
        /\ f.n \in Nat /\ g.n \in Nat
    BY DEF Files
  <1>2. CASE f.path # g.path
    BY <1>1, <1>2, PathsAssumption DEF NameBefore
  <1>3. CASE f.path = g.path /\ f.kind # g.kind
    BY <1>1, <1>3 DEF NameBefore
  <1>4. CASE f.path = g.path /\ f.kind = g.kind
    <2>1. f.n # g.n
      BY <1>4 DEF Files
    <2>2. /\ Digits(f.n) \in Seq(Nat) /\ Digits(g.n) \in Seq(Nat)
          /\ Digits(f.n) # Digits(g.n)
      BY <1>1, <2>1, DigitsFacts, DigitsDiffer
    <2>3. Precedes(Digits(f.n), Digits(g.n)) \/ Precedes(Digits(g.n), Digits(f.n))
      BY <2>2, PrecedesTotal
    <2> QED
      BY <1>4, <2>3 DEF NameBefore
  <1> QED
    BY <1>2, <1>3, <1>4

\* And the order of files is transitive too.
LEMMA NamesTransitive ==
  ASSUME NEW f \in Files, NEW g \in Files, NEW h \in Files,
         NameBefore(f, g), NameBefore(g, h)
  PROVE  NameBefore(f, h)
  <1>1. /\ f.path \in Paths /\ g.path \in Paths /\ h.path \in Paths
        /\ f.n \in Nat /\ g.n \in Nat /\ h.n \in Nat
    BY DEF Files
  <1>2. CASE <<f.path, g.path>> \in Before
    BY <1>1, <1>2, PathsAssumption DEF NameBefore
  <1>3. CASE <<g.path, h.path>> \in Before
    BY <1>1, <1>3, PathsAssumption DEF NameBefore
  <1>4. CASE <<f.path, g.path>> \notin Before /\ <<g.path, h.path>> \notin Before
    <2>1. f.path = g.path /\ g.path = h.path
      BY <1>4 DEF NameBefore
    <2>2. CASE f.kind # g.kind \/ g.kind # h.kind
      BY <1>4, <2>1, <2>2 DEF NameBefore
    <2>3. CASE f.kind = g.kind /\ g.kind = h.kind
      <3>1. Precedes(Digits(f.n), Digits(g.n)) /\ Precedes(Digits(g.n), Digits(h.n))
        BY <1>4, <2>3 DEF NameBefore
      <3>2. Precedes(Digits(f.n), Digits(h.n))
        BY <1>1, <3>1, DigitsFacts, PrecedesTransitive
      <3> QED
        BY <2>1, <2>3, <3>2 DEF NameBefore
    <2> QED
      BY <2>2, <2>3
  <1> QED
    BY <1>2, <1>3, <1>4

\* get_last_file_with_prefix finds a file if there is one.
LEMMA LastFileFound ==
  ASSUME NEW p \in Paths, files \subseteq Files, IsFiniteSet(files), Matching(p) # {}
  PROVE  /\ LastFile(p) \in Matching(p)
         /\ \A g \in Matching(p) \ {LastFile(p)} : NameBefore(g, LastFile(p))
  <1> DEFINE M == Matching(p)
             R == {fg \in Files \X Files : NameBefore(fg[1], fg[2])}
  <1>1. M \subseteq Files /\ IsFiniteSet(M)
    BY FS_Subset DEF Matching
  <1>2. \A f, g \in Files : <<f, g>> \in R <=> NameBefore(f, g)
    <2> TAKE f, g \in Files
    <2>1. <<f, g>> \in Files \X Files /\ <<f, g>>[1] = f /\ <<f, g>>[2] = g
      OBVIOUS
    <2> QED
      BY <2>1
  <1>3. \A f, g \in M : f # g => <<f, g>> \in R \/ <<g, f>> \in R
    BY <1>1, <1>2, NamesTotal
  <1>4. \A f, g, h \in M : <<f, g>> \in R /\ <<g, h>> \in R => <<f, h>> \in R
    BY <1>1, <1>2, NamesTransitive
  <1>5. \E f \in M : \A g \in M \ {f} : <<g, f>> \in R
    <2> HIDE DEF M, R
    <2>1. M # {}
      BY DEF M
    <2> QED
      BY <1>1, <1>3, <1>4, <2>1, Greatest
  <1>6. \E f \in M : \A g \in M \ {f} : NameBefore(g, f)
    BY <1>1, <1>2, <1>5
  <1> QED
    BY <1>6 DEF LastFile

=============================================================================
