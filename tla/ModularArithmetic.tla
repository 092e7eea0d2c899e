-------------------------- MODULE ModularArithmetic --------------------------
(***************************************************************************)
(* Remainders, for the modules whose positions or numbers wrap.  The       *)
(* solver knows what x % n is for one x; these lemmas relate several.      *)
(***************************************************************************)
EXTENDS Integers, TLAPS

LEMMA ModRange ==
  ASSUME NEW a \in Int, NEW n \in Nat \ {0}
  PROVE  a % n \in 0 .. n - 1
OBVIOUS

LEMMA ModQ ==
  ASSUME NEW a \in Int, NEW n \in Nat \ {0}
  PROVE  a = n * (a \div n) + (a % n) /\ a \div n \in Int
OBVIOUS

(* The only multiple of n between -n and n is 0.                           *)
LEMMA SmallFactor ==
  ASSUME NEW d \in Int, NEW n \in Nat \ {0}, NEW e \in Int,
         n * d = e, e < n, -n < e
  PROVE  d = 0
<1>1. CASE d >= 1
  <2>1. n * d >= n * 1 BY <1>1
  <2> QED BY <2>1
<1>2. CASE d <= -1
  <2>1. n * d <= n * (-1) BY <1>2
  <2> QED BY <2>1
<1> QED BY <1>1, <1>2

(* The remainder is the only one with a quotient.                          *)
LEMMA ModUnique ==
  ASSUME NEW a \in Int, NEW n \in Nat \ {0}, NEW q \in Int,
         NEW r \in 0 .. n - 1, a = n * q + r
  PROVE  a % n = r
<1> DEFINE p == a \div n  s == a % n
<1>1. a = n * p + s /\ p \in Int /\ s \in 0 .. n-1 BY ModQ, ModRange
<1> HIDE DEF p, s
<1>2. n * (p - q) = n * p - n * q BY <1>1
<1>3. n * (p - q) = r - s BY <1>1, <1>2
<1>4. p - q = 0
  <2>1. r - s \in Int /\ r - s < n /\ -n < r - s BY <1>1
  <2>2. p - q \in Int BY <1>1
  <2> QED BY <2>1, <2>2, <1>3, SmallFactor
<1>5. r = s BY <1>3, <1>4, <1>1
<1> QED BY <1>5 DEF s

LEMMA ModShift ==
  ASSUME NEW a \in Int, NEW n \in Nat \ {0}, NEW q \in Int
  PROVE  (a + n * q) % n = a % n
<1> DEFINE p == a \div n  s == a % n
<1>1. a = n * p + s /\ p \in Int /\ s \in 0 .. n-1 BY ModQ, ModRange
<1> HIDE DEF p, s
<1>2. a + n * q = n * (p + q) + s BY <1>1
<1>3. p + q \in Int /\ a + n * q \in Int BY <1>1
<1>4. (a + n * q) % n = s BY <1>1, <1>2, <1>3, ModUnique
<1> QED BY <1>4 DEF s

LEMMA ModAdd ==
  ASSUME NEW a \in Int, NEW k \in Int, NEW n \in Nat \ {0}
  PROVE  ((a % n) + k) % n = (a + k) % n
<1> DEFINE p == a \div n  s == a % n
<1>1. a = n * p + s /\ p \in Int /\ s \in 0 .. n-1 BY ModQ, ModRange
<1> HIDE DEF p, s
<1>2. a + k = (s + k) + n * p BY <1>1
<1>3. (a + k) % n = (s + k) % n
  <2>1. s + k \in Int BY <1>1
  <2>2. ((s + k) + n * p) % n = (s + k) % n BY <1>1, <2>1, ModShift
  <2> QED BY <2>2, <1>2
<1> QED BY <1>3 DEF s

(* A remainder by a multiple first makes no difference.                    *)
LEMMA ModMod ==
  ASSUME NEW a \in Int, NEW n \in Nat \ {0}, NEW m \in Nat \ {0}
  PROVE  (a % (n * m)) % n = a % n
<1> DEFINE p == a \div (n*m)  s == a % (n*m)
<1>0. n * m \in Nat \ {0}
  <2>1. n * m >= n * 1 OBVIOUS
  <2> QED BY <2>1
<1>1. a = (n * m) * p + s /\ p \in Int /\ s \in 0 .. n*m-1 BY <1>0, ModQ, ModRange
<1> HIDE DEF p, s
<1>2. a = s + n * (m * p) BY <1>1
<1>3. m * p \in Int BY <1>1
<1>4. a % n = s % n
  <2>1. s \in Int BY <1>0, <1>1
  <2>2. (s + n * (m * p)) % n = s % n BY <2>1, <1>3, ModShift
  <2> QED BY <2>2, <1>2
<1> QED BY <1>4 DEF s

(* Near 0 a remainder is the number itself, or off by one n.               *)
LEMMA SmallMod ==
  ASSUME NEW a \in Int, NEW n \in Nat \ {0}
  PROVE  /\ a \in 0 .. n - 1 => a % n = a
         /\ a \in n .. 2 * n - 1 => a % n = a - n
         /\ a \in -n .. -1 => a % n = a + n
<1>1. ASSUME a \in 0 .. n - 1 PROVE a % n = a
  BY <1>1, ModUnique, a = n * 0 + a
<1>2. ASSUME a \in n .. 2 * n - 1 PROVE a % n = a - n
  BY <1>2, ModUnique, a = n * 1 + (a - n), a - n \in 0 .. n - 1
<1>3. ASSUME a \in -n .. -1 PROVE a % n = a + n
  BY <1>3, ModUnique, a = n * (-1) + (a + n), a + n \in 0 .. n - 1
<1> QED BY <1>1, <1>2, <1>3

=============================================================================
