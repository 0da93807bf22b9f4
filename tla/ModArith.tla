------------------------------ MODULE ModArith ------------------------------
(***************************************************************************)
(* Facts about arithmetic modulo a table size or the width of size_t,      *)
(* cited by the proofs about the hash map, the ring buffer and the         *)
(* allocators.  The code writes (i + 1) % capacity everywhere; the proofs  *)
(* need that such steps compose.                                           *)
(***************************************************************************)
EXTENDS Integers, WellFoundedInduction, TLAPS

(* x % c is an index of a table of c slots.                                *)
LEMMA ModRange == ASSUME NEW x \in Nat, NEW c \in Nat, c > 0
                  PROVE  x % c \in 0 .. c - 1
  OBVIOUS

LEMMA ModDivision == ASSUME NEW x \in Nat, NEW c \in Nat, c > 0
                     PROVE  /\ x \div c \in Nat
                            /\ x = c * (x \div c) + (x % c)
<1>1. x = c * (x \div c) + (x % c)
  OBVIOUS
<1>2. x \div c \in Int
  OBVIOUS
<1>3. x \div c \in Nat
  <2> DEFINE q == x \div c
  <2>1. SUFFICES ASSUME q <= -1 PROVE FALSE
    BY <1>2
  <2> HIDE DEF q
  <2>2. q \in Int /\ x = c * q + (x % c)
    BY <1>1, <1>2 DEF q
  <2>3. c * q <= -c
    BY <2>1, <2>2
  <2> QED
    BY <2>2, <2>3, ModRange
<1> QED
  BY <1>1, <1>3

(* Quotient and remainder are unique.                                      *)
LEMMA ModUnique == ASSUME NEW c \in Nat, c > 0, NEW q \in Nat,
                          NEW r \in 0 .. c - 1
                   PROVE  (c * q + r) % c = r
<1> DEFINE x == c * q + r
<1>1. x \in Nat /\ x \div c \in Nat /\ x % c \in 0 .. c - 1
  BY ModDivision, ModRange
<1>2. x = c * (x \div c) + (x % c)
  BY <1>1, ModDivision
<1> DEFINE p == x \div c
           s == x % c
<1>3. p \in Nat /\ s \in 0 .. c - 1 /\ x = c * p + s
  BY <1>1, <1>2
<1> HIDE DEF p, s
<1>4. c * p + s = c * q + r
  BY <1>3
<1> HIDE DEF x
<1>5. CASE p < q
  <2>1. p + 1 <= q /\ c * (p + 1) <= c * q
    BY <1>3, <1>5
  <2> QED
    BY <1>3, <1>4, <2>1
<1>6. CASE q < p
  <2>1. q + 1 <= p /\ c * (q + 1) <= c * p
    BY <1>3, <1>6
  <2> QED
    BY <1>3, <1>4, <2>1
<1>7. CASE p = q
  BY <1>3, <1>4, <1>7 DEF s, x
<1> QED
  BY <1>3, <1>5, <1>6, <1>7

LEMMA ModSmall == ASSUME NEW c \in Nat, c > 0, NEW r \in 0 .. c - 1
                  PROVE  r % c = r
  OBVIOUS

(* The successor of the slot of x is the slot of x + 1.                    *)
LEMMA ModSucc == ASSUME NEW x \in Nat, NEW c \in Nat, c > 0
                 PROVE  ((x % c) + 1) % c = (x + 1) % c
<1> DEFINE q == x \div c
           r == x % c
<1>1. q \in Nat /\ r \in 0 .. c - 1 /\ x = c * q + r
  BY ModRange, ModDivision
<1> HIDE DEF q, r
<1>2. CASE r + 1 < c
  <2>1. (c * q + (r + 1)) % c = r + 1
    BY <1>1, <1>2, ModUnique
  <2>2. (r + 1) % c = r + 1
    BY <1>1, <1>2, ModSmall
  <2> QED
    BY <1>1, <2>1, <2>2 DEF r
<1>3. CASE r + 1 = c
  <2>1. (c * (q + 1) + 0) % c = 0
    BY <1>1, ModUnique
  <2>2. c * (q + 1) = c * q + c
    BY <1>1
  <2>3. x + 1 = c * (q + 1) + 0
    BY <1>1, <1>3, <2>2
  <2>4. (c * 1 + 0) % c = 0
    BY ModUnique
  <2>5. (r + 1) % c = 0
    BY <1>1, <1>3, <2>4
  <2> QED
    BY <2>1, <2>3, <2>5 DEF r
<1> QED
  BY <1>1, <1>2, <1>3

(* Two steps back undone: the slot before the slot of x is that of x - 1.  *)
LEMMA ModPred == ASSUME NEW x \in Nat, x > 0, NEW c \in Nat, c > 0,
                        NEW y \in 0 .. c - 1, x % c = (y + 1) % c
                 PROVE  (x - 1) % c = y
<1>1. (((x - 1) % c) + 1) % c = (y + 1) % c
  <2>1. x - 1 \in Nat /\ (x - 1) + 1 = x
    OBVIOUS
  <2>2. (((x - 1) % c) + 1) % c = ((x - 1) + 1) % c
    BY <2>1, ModSucc
  <2> QED
    BY <2>1, <2>2
<1> DEFINE z == (x - 1) % c
<1>2. z \in 0 .. c - 1
  BY ModRange
<1> HIDE DEF z
<1>3. CASE z + 1 < c /\ y + 1 < c
  <2>1. (z + 1) % c = z + 1 /\ (y + 1) % c = y + 1
    BY <1>2, <1>3, ModSmall
  <2> QED
    BY <1>1, <1>2, <2>1 DEF z
<1>4. CASE z + 1 = c /\ y + 1 = c
  BY <1>2, <1>4 DEF z
<1>5. (c * 1 + 0) % c = 0
  BY ModUnique
<1>6. CASE z + 1 = c /\ y + 1 < c
  <2>1. (z + 1) % c = 0
    BY <1>2, <1>5, <1>6
  <2>2. (y + 1) % c = y + 1
    BY <1>6, ModSmall
  <2> QED
    BY <1>1, <2>1, <2>2 DEF z
<1>7. CASE z + 1 < c /\ y + 1 = c
  <2>1. (y + 1) % c = 0
    BY <1>5, <1>7
  <2>2. (z + 1) % c = z + 1
    BY <1>2, <1>7, ModSmall
  <2> QED
    BY <1>1, <1>2, <2>1, <2>2 DEF z
<1> QED
  BY <1>2, <1>3, <1>4, <1>6, <1>7

(* Any number of steps from the slot of x leads to the slot of x + n.      *)
LEMMA ModAdd == ASSUME NEW x \in Nat, NEW n \in Nat, NEW c \in Nat, c > 0
                PROVE  ((x % c) + n) % c = (x + n) % c
<1> DEFINE q == x \div c
           r == x % c
<1>1. q \in Nat /\ r \in 0 .. c - 1 /\ x = c * q + r
  BY ModRange, ModDivision
<1> HIDE DEF q, r
<1> DEFINE p == (r + n) \div c
           s == (r + n) % c
<1>2. r + n \in Nat
  BY <1>1
<1>3. p \in Nat /\ s \in 0 .. c - 1 /\ r + n = c * p + s
  BY <1>2, ModRange, ModDivision
<1> HIDE DEF p, s
<1>4. c * (q + p) = c * q + c * p /\ q + p \in Nat
  BY <1>1, <1>3
<1>5. x + n = c * (q + p) + s
  BY <1>1, <1>3, <1>4
<1>6. (c * (q + p) + s) % c = s
  BY <1>3, <1>4, ModUnique
<1> QED
  BY <1>5, <1>6 DEF r, s

(* A full turn leads back.                                                 *)
LEMMA ModTurn == ASSUME NEW x \in Nat, NEW c \in Nat, c > 0
                 PROVE  (x + c) % c = x % c
<1> DEFINE q == x \div c
           r == x % c
<1>1. q \in Nat /\ r \in 0 .. c - 1 /\ x = c * q + r
  BY ModRange, ModDivision
<1> HIDE DEF q, r
<1>2. c * (q + 1) = c * q + c
  BY <1>1
<1>3. x + c = c * (q + 1) + r
  BY <1>1, <1>2
<1>4. (c * (q + 1) + r) % c = r
  BY <1>1, ModUnique
<1> QED
  BY <1>3, <1>4 DEF r

(* Two counts less than a turn apart lead to different slots.              *)
LEMMA ModApart == ASSUME NEW c \in Nat, c > 0, NEW x \in Nat, NEW y \in Nat,
                         x < y, y < x + c
                  PROVE  x % c # y % c
<1> DEFINE q == x \div c
           p == y \div c
           r == x % c
<1>1. q \in Nat /\ r \in 0 .. c - 1 /\ x = c * q + r
  BY ModRange, ModDivision
<1>2. p \in Nat /\ y = c * p + (y % c)
  BY ModDivision
<1> HIDE DEF q, p, r
<1>3. SUFFICES ASSUME y % c = r PROVE FALSE
  BY DEF r
<1>4. y = c * p + r /\ c * q < c * p /\ c * p < c * q + c
  BY <1>1, <1>2, <1>3
<1>5. CASE p <= q
  <2>1. c * p <= c * q
    BY <1>1, <1>2, <1>5
  <2> QED
    BY <1>1, <1>2, <1>4, <2>1
<1>6. CASE q + 1 <= p
  <2>1. c * (q + 1) <= c * p /\ c * (q + 1) = c * q + c
    BY <1>1, <1>2, <1>6
  <2> QED
    BY <1>1, <1>2, <1>4, <2>1
<1> QED
  BY <1>1, <1>2, <1>5, <1>6

(* The same for integers: a counter may lose more than it shows.           *)
LEMMA IntDivision == ASSUME NEW x \in Int, NEW c \in Nat, c > 0
                     PROVE  /\ x \div c \in Int /\ x % c \in 0 .. c - 1
                            /\ x = c * (x \div c) + (x % c)
  OBVIOUS

LEMMA IntUnique == ASSUME NEW c \in Nat, c > 0, NEW q \in Int, NEW r \in 0 .. c - 1
                   PROVE  (c * q + r) % c = r
<1> DEFINE x == c * q + r
           p == x \div c
           s == x % c
<1>1. x \in Int
  OBVIOUS
<1>2. p \in Int /\ s \in 0 .. c - 1 /\ x = c * p + s
  <2> HIDE DEF x
  <2> QED
    BY <1>1, IntDivision
<1> HIDE DEF p, s
<1>3. c * p + s = c * q + r
  BY <1>2
<1> HIDE DEF x
<1>4. CASE p < q
  <2>1. p + 1 <= q /\ c * (p + 1) <= c * q
    BY <1>2, <1>4
  <2> QED
    BY <1>2, <1>3, <2>1
<1>5. CASE q < p
  <2>1. q + 1 <= p /\ c * (q + 1) <= c * p
    BY <1>2, <1>5
  <2> QED
    BY <1>2, <1>3, <2>1
<1>6. CASE p = q
  BY <1>2, <1>3, <1>6 DEF s, x
<1> QED
  BY <1>2, <1>4, <1>5, <1>6

(* Adding to a counter, or taking off, commutes with its wrapping.         *)
LEMMA ModShift == ASSUME NEW x \in Int, NEW n \in Int, NEW c \in Nat, c > 0
                  PROVE  ((x % c) + n) % c = (x + n) % c
<1> DEFINE q == x \div c
           r == x % c
<1>1. q \in Int /\ r \in 0 .. c - 1 /\ x = c * q + r
  BY IntDivision
<1> HIDE DEF q, r
<1> DEFINE p == (r + n) \div c
           s == (r + n) % c
<1>2. r + n \in Int
  BY <1>1
<1>3. p \in Int /\ s \in 0 .. c - 1 /\ r + n = c * p + s
  BY <1>2, IntDivision
<1> HIDE DEF p, s
<1>4. c * (q + p) = c * q + c * p /\ q + p \in Int
  BY <1>1, <1>3
<1>5. x + n = c * (q + p) + s
  BY <1>1, <1>3, <1>4
<1>6. (c * (q + p) + s) % c = s
  BY <1>3, <1>4, IntUnique
<1> QED
  BY <1>5, <1>6 DEF r, s

-----------------------------------------------------------------------------
(* A set of naturals has a least element: no infinite descent.             *)
LEMMA LeastNumber ==
  ASSUME NEW D \in SUBSET Nat, D # {}
  PROVE  \E n \in D : \A m \in D : n <= m
<1> DEFINE R == {ss \in Nat \X Nat : ss[1] < ss[2]}
<1>1. R = OpToRel(<, Nat)
  BY DEF OpToRel
<1>2. IsWellFoundedOn(R, Nat)
  BY <1>1, NatLessThanWellFounded
<1>3. PICK n \in D : \A m \in D : <<m, n>> \notin R
  <2> HIDE DEF R
  <2> QED
    BY <1>2, WFMin
<1>4. \A m \in D : ~(m < n)
  <2> TAKE m \in D
  <2>1. m \in Nat /\ n \in Nat
    OBVIOUS
  <2> QED
    BY <1>3, <2>1
<1> QED
  BY <1>4
=============================================================================
