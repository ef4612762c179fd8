---------------------------- MODULE RingTheorems ----------------------------
(***************************************************************************)
(* Positions in a ring of size places: the n-th character is kept at place *)
(* n % size.  What the ring buffers of the program rely on.                *)
(***************************************************************************)
EXTENDS Integers, TLAPS

\* The quotient of two numbers that differ by less than the divisor.
LEMMA Quotient ==
  ASSUME NEW n \in Nat, NEW size \in Nat \ {0}
  PROVE  /\ n % size \in 0 .. size - 1
         /\ n \div size \in Int
         /\ n = size * (n \div size) + (n % size)
OBVIOUS

\* A product that is smaller than its factor is none of its multiples but zero.
LEMMA NoMultiple ==
  ASSUME NEW k \in Int, NEW size \in Nat \ {0}, size * k < size, -size < size * k
  PROVE  k = 0
<1>1. CASE k >= 1
  <2>1. size * k >= size
    BY <1>1
  <2>2. QED
    BY <2>1
<1>2. CASE k <= -1
  <2>1. size * k <= -size
    BY <1>2
  <2>2. QED
    BY <2>1
<1>3. QED
  BY <1>1, <1>2

\* The first places are taken in order.
LEMMA PlaceSmall ==
  ASSUME NEW n \in Nat, NEW size \in Nat \ {0}, n < size
  PROVE  n % size = n
<1> DEFINE k == n \div size
<1>1. k \in Int /\ n % size \in 0 .. size - 1 /\ n = size * k + (n % size)
  BY Quotient
<1> HIDE DEF k
<1>2. k = 0
  <2>1. size * k = n - (n % size)
    BY <1>1
  <2>2. QED
    BY <1>1, <2>1, NoMultiple
<1>3. QED
  BY <1>1, <1>2

\* Two characters less than a ring apart are not at the same place.
LEMMA PlacesApart ==
  ASSUME NEW m \in Nat, NEW n \in Nat, NEW size \in Nat \ {0},
         m < n, n < m + size
  PROVE  m % size # n % size
<1> DEFINE k == n \div size - m \div size
<1>1. SUFFICES ASSUME m % size = n % size PROVE FALSE
  OBVIOUS
<1>2. k \in Int /\ size * k = size * (n \div size) - size * (m \div size)
  BY Quotient
<1>3. size * k = n - m
  <2>1. n = size * (n \div size) + (n % size) /\ n % size \in Int
    BY Quotient
  <2>2. m = size * (m \div size) + (m % size)
    BY Quotient
  <2>3. size * (n \div size) \in Int /\ size * (m \div size) \in Int
    BY Quotient
  <2>4. QED
    BY <1>1, <1>2, <2>1, <2>2, <2>3
<1> HIDE DEF k
<1>4. k = 0
  BY <1>2, <1>3, NoMultiple
<1>5. QED
  BY <1>3, <1>4

\* The place behind that of a character is that of the next one.
LEMMA PlaceAfter ==
  ASSUME NEW n \in Nat, NEW size \in Nat \ {0}
  PROVE  ((n % size) + 1) % size = (n + 1) % size
<1>1. CASE (n % size) + 1 < size
  <2> DEFINE k == (n + 1) \div size - n \div size
  <2>1. ((n % size) + 1) % size = (n % size) + 1
    <3>1. (n % size) + 1 \in Nat
      BY Quotient
    <3>2. QED
      BY <1>1, <3>1, PlaceSmall
  <2>2. n = size * (n \div size) + (n % size) /\ n % size \in 0 .. size - 1
    BY Quotient
  <2>3. n + 1 = size * ((n + 1) \div size) + ((n + 1) % size) /\ (n + 1) % size \in 0 .. size - 1
    BY Quotient
  <2>4. k \in Int /\ size * k = size * ((n + 1) \div size) - size * (n \div size)
    BY Quotient
  <2>5. size * ((n + 1) \div size) \in Int /\ size * (n \div size) \in Int
    BY Quotient
  <2>6. size * k = (n % size) + 1 - ((n + 1) % size)
    BY <2>2, <2>3, <2>4, <2>5
  <2> HIDE DEF k
  <2>7. k = 0
    BY <1>1, <2>2, <2>3, <2>4, <2>6, NoMultiple
  <2>8. QED
    BY <2>1, <2>2, <2>3, <2>6, <2>7
<1>2. CASE (n % size) + 1 = size
  <2> DEFINE k == (n + 1) \div size - n \div size - 1
  <2>1. ((n % size) + 1) % size = 0
    BY <1>2
  <2>2. n = size * (n \div size) + (n % size) /\ n % size \in 0 .. size - 1
    BY Quotient
  <2>3. n + 1 = size * ((n + 1) \div size) + ((n + 1) % size) /\ (n + 1) % size \in 0 .. size - 1
    BY Quotient
  <2>4. k \in Int /\ size * k = size * ((n + 1) \div size) - size * (n \div size) - size
    BY Quotient
  <2>5. size * ((n + 1) \div size) \in Int /\ size * (n \div size) \in Int
    BY Quotient
  <2>6. size * k = -((n + 1) % size)
    BY <1>2, <2>2, <2>3, <2>4, <2>5
  <2> HIDE DEF k
  <2>7. k = 0
    BY <2>3, <2>4, <2>6, NoMultiple
  <2>8. QED
    BY <2>1, <2>3, <2>6, <2>7
<1>3. QED
  BY <1>1, <1>2, Quotient

\* A character a whole ring later takes the same place.
LEMMA PlaceRound ==
  ASSUME NEW n \in Nat, NEW size \in Nat \ {0}
  PROVE  (n + size) % size = n % size
<1> DEFINE k == (n + size) \div size - n \div size - 1
<1>1. n = size * (n \div size) + (n % size) /\ n % size \in 0 .. size - 1
  BY Quotient
<1>2. n + size = size * ((n + size) \div size) + ((n + size) % size)
      /\ (n + size) % size \in 0 .. size - 1
  BY Quotient
<1>3. k \in Int /\ size * k = size * ((n + size) \div size) - size * (n \div size) - size
  BY Quotient
<1>4. size * ((n + size) \div size) \in Int /\ size * (n \div size) \in Int
  BY Quotient
<1>5. size * k = (n % size) - ((n + size) % size)
  BY <1>1, <1>2, <1>3, <1>4
<1> HIDE DEF k
<1>6. k = 0
  BY <1>1, <1>2, <1>3, <1>5, NoMultiple
<1>7. QED
  BY <1>1, <1>2, <1>3, <1>5, <1>6

\* Whole rings that were passed before do not change the place.
LEMMA PlaceShift ==
  ASSUME NEW m \in Nat, NEW n \in Nat, NEW size \in Nat \ {0}, m % size = 0
  PROVE  (m + n) % size = n % size
<1> DEFINE k == (m + n) \div size - n \div size - m \div size
<1>1. n = size * (n \div size) + (n % size) /\ n % size \in 0 .. size - 1
  BY Quotient
<1>2. m + n = size * ((m + n) \div size) + ((m + n) % size) /\ (m + n) % size \in 0 .. size - 1
  BY Quotient
<1>3. m = size * (m \div size)
  <2>1. m = size * (m \div size) + (m % size) /\ m \div size \in Int
    BY Quotient
  <2>2. size * (m \div size) \in Int
    BY <2>1
  <2>3. QED
    BY <2>1, <2>2
<1>4. k \in Int /\ size * k = size * ((m + n) \div size) - size * (n \div size) - size * (m \div size)
  BY Quotient
<1>5. size * ((m + n) \div size) \in Int /\ size * (n \div size) \in Int
      /\ size * (m \div size) \in Int
  BY Quotient
<1>6. size * k = (n % size) - ((m + n) % size)
  BY <1>1, <1>2, <1>3, <1>4, <1>5
<1> HIDE DEF k
<1>7. k = 0
  BY <1>1, <1>2, <1>4, <1>6, NoMultiple
<1>8. QED
  BY <1>1, <1>2, <1>4, <1>6, <1>7

\* Between two starts of the ring there is at least a ring.
LEMMA StartsApart ==
  ASSUME NEW m \in Nat, NEW n \in Nat, NEW size \in Nat \ {0},
         m % size = 0, n % size = 0, m < n
  PROVE  m + size <= n
<1>1. SUFFICES ASSUME n < m + size PROVE FALSE
  OBVIOUS
<1>2. n - m \in Nat /\ n - m < size /\ n - m # 0 /\ m + (n - m) = n
  BY <1>1
<1>3. (n - m) % size = 0
  <2> DEFINE d == n - m
  <2>1. d \in Nat /\ m + d = n
    BY <1>2
  <2> HIDE DEF d
  <2>2. (m + d) % size = d % size
    BY <2>1, PlaceShift
  <2>3. d % size = 0
    BY <2>1, <2>2
  <2>4. QED
    BY <2>3 DEF d
<1>4. (n - m) % size = n - m
  BY <1>2, PlaceSmall
<1>5. QED
  BY <1>2, <1>3, <1>4
=============================================================================
