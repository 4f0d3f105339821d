---------------------------- MODULE LayoutProofs ----------------------------
(***************************************************************************)
(* The layout of PlainLayout for every base, width, cap and plaintext: the *)
(* reader accepts what the writer writes and nothing else, and gives back  *)
(* what was written.  Both are recursive functions; what they compute is   *)
(* proved by induction, from the library's well-founded order on Nat.      *)
(***************************************************************************)
EXTENDS PlainLayout, SequenceTheorems, WellFoundedInduction, TLAPS

(* Induction on a set of numbers. *)
LEMMA Induction ==
  ASSUME NEW S, 0 \in S, \A n \in Nat : n \in S => n + 1 \in S
  PROVE  \A n \in Nat : n \in S
<1> SUFFICES ASSUME NEW x \in Nat, x \notin S PROVE FALSE
  OBVIOUS
<1> DEFINE C == Nat \ S
           R == {ss \in Nat \X Nat : ss[1] < ss[2]}
<1>1. C \subseteq Nat /\ C # {}
  OBVIOUS
<1>2. IsWellFoundedOn(R, Nat)
  BY NatLessThanWellFounded DEF OpToRel
<1>3. \A m \in Nat, n \in Nat : m < n => <<m, n>> \in R
  OBVIOUS
<1> HIDE DEF R
<1>4. PICK m \in C : \A n \in C : <<n, m>> \notin R
  <2> HIDE DEF C
  <2> QED BY <1>1, <1>2, WFMin
<1>5. m \in Nat /\ m # 0
  OBVIOUS
<1>6. m - 1 \in Nat /\ m - 1 < m /\ (m - 1) + 1 = m
  BY <1>5
<1>7. m - 1 \in C
  BY <1>6
<1> QED BY <1>1, <1>3, <1>4, <1>6, <1>7

(* g takes n steps in S, the first from a. *)
Iterates(g, n, S, a, step) ==
  g \in [0 .. n -> S] /\ g[0] = a /\ \A k \in 1 .. n : g[k] = step[k][g[k - 1]]

(* A function defined from its value one place before is there. *)
LEMMA Recursion ==
  ASSUME NEW n \in Nat, NEW S, NEW a \in S, NEW step \in [1 .. n -> [S -> S]]
  PROVE  \E g : Iterates(g, n, S, a, step)
<1> DEFINE Upto(m) == \E g : Iterates(g, m, S, a, step)
           T == {m \in Nat : m <= n => Upto(m)}
<1>1. 0 \in T
  <2> DEFINE g == [k \in 0 .. 0 |-> a]
  <2>1. Iterates(g, 0, S, a, step)
    BY DEF Iterates
  <2> QED BY <2>1
<1>2. ASSUME NEW m \in Nat, m \in T PROVE m + 1 \in T
  <2> SUFFICES ASSUME m + 1 <= n PROVE Upto(m + 1)
    OBVIOUS
  <2>1. PICK g : Iterates(g, m, S, a, step)
    BY <1>2
  <2> DEFINE h == [k \in 0 .. m + 1 |-> IF k = m + 1 THEN step[m + 1][g[m]] ELSE g[k]]
  <2>2. step[m + 1] \in [S -> S] /\ g[m] \in S
    BY <2>1 DEF Iterates
  <2>3. h \in [0 .. m + 1 -> S]
    BY <2>1, <2>2 DEF Iterates
  <2>4. h[0] = a
    BY <2>1 DEF Iterates
  <2>5. ASSUME NEW k \in 1 .. m + 1 PROVE h[k] = step[k][h[k - 1]]
    <3>1. CASE k = m + 1
      BY <3>1
    <3>2. CASE k # m + 1
      <4>1. k \in 1 .. m /\ k \in 0 .. m + 1 /\ k - 1 \in 0 .. m + 1 /\ k - 1 # m + 1
        BY <3>2
      <4> QED BY <2>1, <4>1 DEF Iterates
    <3> QED BY <3>1, <3>2
  <2> QED BY <2>3, <2>4, <2>5 DEF Iterates
<1>3. n \in T
  <2> HIDE DEF T
  <2> QED BY <1>1, <1>2, Induction
<1> QED BY <1>3

----------------------------------------------------------------------------
(* Numbers                                                                 *)

LEMMA Powers ==
  /\ Power[0] = 1
  /\ \A k \in 1 .. LenWidth : Power[k] = Base * Power[k - 1]
  /\ \A k \in 0 .. LenWidth : Power[k] \in Nat \ {0}
<1> DEFINE P == Nat \ {0}
           step == [k \in 1 .. LenWidth |-> [x \in P |-> Base * x]]
<1>1. LenWidth \in Nat /\ Base \in Nat /\ Base > 1
  BY LayoutAssumption
<1>2. step \in [1 .. LenWidth -> [P -> P]] /\ 1 \in P
  <2>1. \A x \in P : Base * x \in P
    BY <1>1
  <2> QED BY <2>1
<1>3. PICK g : Iterates(g, LenWidth, P, 1, step)
  <2> HIDE DEF P, step
  <2> QED BY <1>1, <1>2, Recursion
<1>4. g = [k \in 0 .. LenWidth |-> IF k = 0 THEN 1 ELSE Base * g[k - 1]]
  <2>1. ASSUME NEW k \in 1 .. LenWidth PROVE g[k] = Base * g[k - 1]
    <3>1. k - 1 \in 0 .. LenWidth /\ g[k - 1] \in P
      BY <1>1, <1>3 DEF Iterates
    <3> QED BY <1>3, <3>1 DEF Iterates
  <2> QED BY <1>1, <1>3, <2>1 DEF Iterates
<1>5. Power = [k \in 0 .. LenWidth |-> IF k = 0 THEN 1 ELSE Base * Power[k - 1]]
  BY <1>4 DEF Power
<1> DEFINE T == {k \in Nat : k <= LenWidth => Power[k] \in P}
<1>6. Power[0] = 1 /\ \A k \in 1 .. LenWidth : Power[k] = Base * Power[k - 1]
  BY <1>1, <1>5
<1>7. 0 \in T
  BY <1>6
<1>8. ASSUME NEW k \in Nat, k \in T PROVE k + 1 \in T
  <2> SUFFICES ASSUME k + 1 <= LenWidth PROVE Power[k + 1] \in P
    OBVIOUS
  <2>1. Power[k] \in P
    BY <1>1, <1>8
  <2>2. k + 1 \in 1 .. LenWidth /\ (k + 1) - 1 = k
    BY <1>1
  <2>3. Power[k + 1] = Base * Power[k]
    BY <1>6, <2>2
  <2> QED BY <1>1, <2>1, <2>3
<1>9. \A k \in Nat : k \in T
  <2> HIDE DEF T
  <2> QED BY <1>7, <1>8, Induction
<1> QED BY <1>1, <1>6, <1>9

(* The quotient and the remainder are the only ones. *)
LEMMA Division ==
  ASSUME NEW b \in Nat \ {0}, NEW q \in Nat, NEW r \in 0 .. b - 1
  PROVE  (b * q + r) \div b = q /\ (b * q + r) % b = r
<1> DEFINE n == b * q + r
           p == n \div b
           s == n % b
<1>1. n \in Nat /\ p \in Nat /\ s \in 0 .. b - 1 /\ n = b * p + s
  OBVIOUS
<1>2. b * q + r = b * p + s
  BY <1>1
<1> HIDE DEF n, p, s
<1>3. p = q
  <2>1. CASE p > q
    <3>1. p - q \in Nat /\ p - q >= 1 /\ b * (p - q) >= b
      BY <1>1, <2>1
    <3>2. b * (p - q) = b * p - b * q
      BY <1>1
    <3> QED BY <1>1, <1>2, <3>1, <3>2
  <2>2. CASE p < q
    <3>1. q - p \in Nat /\ q - p >= 1 /\ b * (q - p) >= b
      BY <1>1, <2>2
    <3>2. b * (q - p) = b * q - b * p
      BY <1>1
    <3> QED BY <1>1, <1>2, <3>1, <3>2
  <2> QED BY <1>1, <2>1, <2>2
<1> QED BY <1>1, <1>2, <1>3 DEF n, p, s

(* Dividing twice is dividing by the product. *)
LEMMA DivisionTwice ==
  ASSUME NEW n \in Nat, NEW a \in Nat \ {0}, NEW b \in Nat \ {0}
  PROVE  (n \div a) \div b = n \div (b * a)
<1> DEFINE p == n \div a
           r == n % a
           q == p \div b
           s == p % b
<1>1. /\ p \in Nat /\ r \in 0 .. a - 1 /\ n = a * p + r
      /\ q \in Nat /\ s \in 0 .. b - 1 /\ p = b * q + s
  OBVIOUS
<1> HIDE DEF p, r, q, s
<1>2. n = (b * a) * q + (a * s + r)
  <2>1. a * (b * q + s) = (b * a) * q + a * s
    BY <1>1
  <2> QED BY <1>1, <2>1
<1>3. a * s + r \in 0 .. b * a - 1
  <2>1. a * s <= a * (b - 1)
    BY <1>1
  <2>2. a * (b - 1) = b * a - a
    BY <1>1
  <2>3. a * s \in Nat /\ b * a \in Nat
    BY <1>1
  <2> QED BY <1>1, <2>1, <2>2, <2>3
<1>4. b * a \in Nat \ {0}
  BY <1>1
<1>5. n \div (b * a) = q
  <2> DEFINE m == b * a
             t == a * s + r
  <2>1. m \in Nat \ {0} /\ t \in 0 .. m - 1 /\ n = m * q + t
    BY <1>2, <1>3, <1>4
  <2> HIDE DEF m, t
  <2>2. n \div m = q
    BY <1>1, <2>1, Division
  <2> QED BY <2>2 DEF m
<1> QED BY <1>5 DEF q, p

----------------------------------------------------------------------------
(* Length prefixes                                                         *)

(* The value of the last k bytes. *)
OfLast(bytes) ==
  CHOOSE f : f = [k \in 0 .. Len(bytes) |->
                    IF k = 0 THEN 0 ELSE bytes[Len(bytes) + 1 - k] + Base * f[k - 1]]

LEMMA Numbers ==
  ASSUME NEW bytes \in Seq(Byte)
  PROVE  /\ Number(bytes) = OfLast(bytes)[Len(bytes)]
         /\ OfLast(bytes)[0] = 0
         /\ \A k \in 1 .. Len(bytes) :
              OfLast(bytes)[k] = bytes[Len(bytes) + 1 - k] + Base * OfLast(bytes)[k - 1]
         /\ \A k \in 0 .. Len(bytes) : OfLast(bytes)[k] \in Nat
<1> DEFINE n == Len(bytes)
           step == [k \in 1 .. n |-> [x \in Nat |-> bytes[n + 1 - k] + Base * x]]
           f == OfLast(bytes)
<1>1. n \in Nat /\ Base \in Nat /\ \A i \in 1 .. n : bytes[i] \in Nat
  BY LayoutAssumption DEF Byte
<1>2. step \in [1 .. n -> [Nat -> Nat]] /\ 0 \in Nat
  <2>1. ASSUME NEW k \in 1 .. n, NEW x \in Nat PROVE bytes[n + 1 - k] + Base * x \in Nat
    <3>1. n + 1 - k \in 1 .. n
      BY <1>1
    <3> QED BY <1>1, <3>1
  <2> QED BY <2>1
<1>3. PICK g : Iterates(g, n, Nat, 0, step)
  <2> HIDE DEF n, step
  <2> QED BY <1>1, <1>2, Recursion
<1>4. g = [k \in 0 .. n |-> IF k = 0 THEN 0 ELSE bytes[n + 1 - k] + Base * g[k - 1]]
  <2>1. ASSUME NEW k \in 1 .. n PROVE g[k] = bytes[n + 1 - k] + Base * g[k - 1]
    <3>1. k - 1 \in 0 .. n
      BY <1>1
    <3>2. g[k - 1] \in Nat
      BY <1>3, <3>1 DEF Iterates
    <3> QED BY <1>3, <3>2 DEF Iterates
  <2> QED BY <1>1, <1>3, <2>1 DEF Iterates
<1>5. f = [k \in 0 .. n |-> IF k = 0 THEN 0 ELSE bytes[n + 1 - k] + Base * f[k - 1]]
  BY <1>4 DEF OfLast
<1>6. Number(bytes) = f[n]
  BY DEF Number, OfLast
<1> HIDE DEF n, f, step
<1>7. f[0] = 0 /\ \A k \in 1 .. n : f[k] = bytes[n + 1 - k] + Base * f[k - 1]
  BY <1>1, <1>5
<1> DEFINE T == {k \in Nat : k <= n => f[k] \in Nat}
<1>8. 0 \in T
  BY <1>7
<1>9. ASSUME NEW k \in Nat, k \in T PROVE k + 1 \in T
  <2> SUFFICES ASSUME k + 1 <= n PROVE f[k + 1] \in Nat
    OBVIOUS
  <2>1. k + 1 \in 1 .. n /\ (k + 1) - 1 = k /\ f[k] \in Nat /\ n + 1 - (k + 1) \in 1 .. n
    BY <1>1, <1>9
  <2>2. f[k + 1] = bytes[n + 1 - (k + 1)] + Base * f[k]
    BY <1>7, <2>1
  <2>3. bytes[n + 1 - (k + 1)] \in Nat
    BY <1>1, <2>1
  <2>4. \A x \in Nat, y \in Nat : y + Base * x \in Nat
    BY <1>1
  <2> QED BY <2>1, <2>2, <2>3, <2>4
<1>10. \A k \in Nat : k \in T
  <2> HIDE DEF T
  <2> QED BY <1>8, <1>9, Induction
<1> QED BY <1>1, <1>6, <1>7, <1>10 DEF n, f

LEMMA PrefixShape ==
  ASSUME NEW n \in Nat
  PROVE  PutU32(n) \in Seq(Byte) /\ Len(PutU32(n)) = LenWidth
<1>1. LenWidth \in Nat /\ Base \in Nat \ {0}
  BY LayoutAssumption
<1>2. ASSUME NEW i \in 1 .. LenWidth PROVE (n \div Power[i - 1]) % Base \in Byte
  <2>1. Power[i - 1] \in Nat \ {0}
    <3>1. i - 1 \in 0 .. LenWidth
      BY <1>1
    <3> QED BY <3>1, Powers
  <2>2. n \div Power[i - 1] \in Nat
    BY <2>1
  <2> QED BY <1>1, <2>2 DEF Byte
<1> QED BY <1>1, <1>2 DEF PutU32

(* A number that fits is read back from its prefix. *)
LEMMA PrefixReadsBack ==
  ASSUME NEW n \in Nat, n < Limit
  PROVE  Number(PutU32(n)) = n
<1> DEFINE bytes == PutU32(n)
           f == OfLast(bytes)
           W == LenWidth
<1>1. /\ bytes \in Seq(Byte) /\ Len(bytes) = W
      /\ W \in Nat /\ Base \in Nat \ {0}
  BY PrefixShape, LayoutAssumption
<1>2. /\ Number(bytes) = f[W] /\ f[0] = 0
      /\ \A k \in 1 .. W : f[k] = bytes[W + 1 - k] + Base * f[k - 1]
  BY <1>1, Numbers
<1>3. \A i \in 1 .. W : bytes[i] = (n \div Power[i - 1]) % Base
  BY DEF PutU32
<1> DEFINE T == {k \in Nat : k <= W => f[k] = n \div Power[W - k]}
<1> HIDE DEF bytes, f, W
<1>4. 0 \in T
  <2>1. W - 0 = W /\ Power[W] \in Nat /\ n < Power[W]
    BY <1>1, Powers DEF W, Limit
  <2>2. n \div Power[W] = 0
    BY <2>1
  <2> QED BY <1>2, <2>1, <2>2
<1>5. ASSUME NEW k \in Nat, k \in T PROVE k + 1 \in T
  <2> SUFFICES ASSUME k + 1 <= W PROVE f[k + 1] = n \div Power[W - (k + 1)]
    OBVIOUS
  <2> DEFINE j == W - k
             p == Power[j - 1]
             q == n \div p
  <2>1. /\ j \in 1 .. W /\ k + 1 \in 1 .. W /\ (k + 1) - 1 = k
        /\ W + 1 - (k + 1) = j /\ W - (k + 1) = j - 1 /\ j - 1 \in 0 .. W
    BY <1>1
  <2> HIDE DEF j
  <2>2. p \in Nat \ {0} /\ Power[j] = Base * p
    BY <2>1, Powers DEF W
  <2>3. f[k] = n \div Power[j]
    BY <1>1, <1>5 DEF j
  <2>4. f[k + 1] = bytes[j] + Base * f[k]
    BY <1>2, <2>1
  <2>5. bytes[j] = q % Base
    BY <1>3, <2>1
  <2> HIDE DEF p
  <2>6. f[k] = q \div Base
    <3>1. (n \div p) \div Base = n \div (Base * p)
      BY <1>1, <2>2, DivisionTwice
    <3> QED BY <2>2, <2>3, <3>1
  <2>7. q \in Nat
    BY <2>2
  <2> HIDE DEF q
  <2>8. (q % Base) + Base * (q \div Base) = q
    BY <1>1, <2>7
  <2> QED BY <2>1, <2>4, <2>5, <2>6, <2>8 DEF q, p
<1>6. W \in T
  <2> HIDE DEF T
  <2> QED BY <1>1, <1>4, <1>5, Induction
<1>7. W - W = 0 /\ Power[0] = 1 /\ n \div 1 = n
  BY <1>1, Powers
<1> QED BY <1>1, <1>2, <1>6, <1>7 DEF bytes

(* A prefix is the prefix of the number it holds, which fits. *)
LEMMA NumberWritesBack ==
  ASSUME NEW bytes \in Seq(Byte), Len(bytes) = LenWidth
  PROVE  /\ Number(bytes) \in Nat /\ Number(bytes) < Limit
         /\ PutU32(Number(bytes)) = bytes
<1> DEFINE f == OfLast(bytes)
           W == LenWidth
           n == Number(bytes)
<1>1. /\ W \in Nat /\ Base \in Nat \ {0}
      /\ \A i \in 1 .. W : bytes[i] \in 0 .. Base - 1
  BY LayoutAssumption DEF Byte
<1>2. /\ n = f[W] /\ f[0] = 0
      /\ \A k \in 1 .. W : f[k] = bytes[W + 1 - k] + Base * f[k - 1]
      /\ \A k \in 0 .. W : f[k] \in Nat
  BY Numbers
<1> HIDE DEF f, W, n
<1> DEFINE Fits == {k \in Nat : k <= W => f[k] < Power[k]}
<1>3. 0 \in Fits
  BY <1>2, Powers
<1>4. ASSUME NEW k \in Nat, k \in Fits PROVE k + 1 \in Fits
  <2> SUFFICES ASSUME k + 1 <= W PROVE f[k + 1] < Power[k + 1]
    OBVIOUS
  <2>1. k + 1 \in 1 .. W /\ k \in 0 .. W /\ (k + 1) - 1 = k /\ W + 1 - (k + 1) \in 1 .. W
    BY <1>1
  <2> DEFINE x == f[k]
             b == bytes[W + 1 - (k + 1)]
             p == Power[k]
  <2>2. /\ x \in Nat /\ p \in Nat /\ x < p /\ b \in 0 .. Base - 1
        /\ f[k + 1] = b + Base * x /\ Power[k + 1] = Base * p
    <3>1. p \in Nat /\ Power[k + 1] = Base * p
      BY <2>1, Powers DEF W
    <3>2. x \in Nat /\ f[k + 1] = b + Base * x /\ b \in 0 .. Base - 1
      BY <1>1, <1>2, <2>1
    <3>3. x < p
      BY <1>4, <2>1
    <3> QED BY <3>1, <3>2, <3>3
  <2> HIDE DEF x, b, p
  <2>3. Base * x <= Base * (p - 1)
    BY <1>1, <2>2
  <2>4. Base * (p - 1) = Base * p - Base
    BY <1>1, <2>2
  <2>5. Base * x \in Nat /\ Base * p \in Nat
    BY <1>1, <2>2
  <2> QED BY <1>1, <2>2, <2>3, <2>4, <2>5
<1>5. n \in Nat /\ n < Limit
  <2>1. W \in Fits
    <3> HIDE DEF Fits
    <3> QED BY <1>1, <1>3, <1>4, Induction
  <2> QED BY <1>1, <1>2, <2>1 DEF Limit, W
<1> DEFINE T == {k \in Nat : k <= W => n \div Power[k] = f[W - k]}
<1>6. 0 \in T
  <2>1. Power[0] = 1 /\ n \div 1 = n /\ W - 0 = W
    BY <1>1, <1>5, Powers
  <2> QED BY <1>2, <2>1
<1>7. ASSUME NEW k \in Nat, k + 1 <= W, n \div Power[k] = f[W - k]
      PROVE  /\ (n \div Power[k]) % Base = bytes[k + 1]
             /\ n \div Power[k + 1] = f[W - (k + 1)]
  <2> DEFINE j == W - k
             p == Power[k]
             b == bytes[k + 1]
             x == f[j - 1]
  <2>1. /\ j \in 1 .. W /\ j - 1 \in 0 .. W /\ W + 1 - j = k + 1 /\ W - (k + 1) = j - 1
        /\ k + 1 \in 1 .. W /\ (k + 1) - 1 = k /\ k \in 0 .. W
    BY <1>1, <1>7
  <2> HIDE DEF j
  <2>2. /\ p \in Nat \ {0} /\ Power[k + 1] = Base * p /\ b \in 0 .. Base - 1 /\ x \in Nat
        /\ f[j] = Base * x + b
    <3>1. p \in Nat \ {0} /\ Power[k + 1] = Base * p
      BY <2>1, Powers DEF W
    <3>2. b \in 0 .. Base - 1 /\ x \in Nat /\ f[j] = b + Base * x
      BY <1>1, <1>2, <2>1
    <3>3. b + Base * x = Base * x + b
      BY <1>1, <3>2
    <3> QED BY <3>1, <3>2, <3>3
  <2>3. n \div p = Base * x + b
    BY <1>7, <2>2 DEF j
  <2> HIDE DEF p, b, x
  <2>4. (Base * x + b) \div Base = x /\ (Base * x + b) % Base = b
    BY <1>1, <2>2, Division
  <2>5. n \div Power[k + 1] = x
    <3>1. (n \div p) \div Base = n \div (Base * p)
      BY <1>1, <1>5, <2>2, DivisionTwice
    <3> QED BY <2>2, <2>3, <2>4, <3>1
  <2> QED BY <2>1, <2>3, <2>4, <2>5 DEF p, b, x, j
<1>8. \A k \in Nat : k \in T
  <2>1. ASSUME NEW k \in Nat, k \in T PROVE k + 1 \in T
    <3> SUFFICES ASSUME k + 1 <= W PROVE n \div Power[k + 1] = f[W - (k + 1)]
      OBVIOUS
    <3> QED BY <1>1, <1>7, <2>1
  <2> HIDE DEF T
  <2> QED BY <1>6, <2>1, Induction
<1>9. ASSUME NEW i \in 1 .. W PROVE (n \div Power[i - 1]) % Base = bytes[i]
  <2>1. i - 1 \in Nat /\ (i - 1) + 1 = i /\ i <= W /\ i - 1 <= W
    BY <1>1
  <2>2. n \div Power[i - 1] = f[W - (i - 1)]
    BY <1>8, <2>1
  <2> QED BY <1>7, <2>1, <2>2
<1>10. PutU32(n) = bytes
  <2>1. bytes = [i \in 1 .. W |-> bytes[i]]
    BY DEF W
  <2> QED BY <1>9, <2>1 DEF PutU32, W
<1> QED BY <1>5, <1>10 DEF n

----------------------------------------------------------------------------
(* Bytes at a position                                                     *)

Holds(buf, pos, bytes) ==
  /\ pos + Len(bytes) <= Len(buf)
  /\ \A i \in 1 .. Len(bytes) : buf[pos + i] = bytes[i]

(* Where a reader that read bytes stands, and what it made of them. *)
Outcome(pos, bytes, value) == [pos |-> pos + Len(bytes), val |-> value]

LEMMA OutcomeFields ==
  ASSUME NEW pos, NEW bytes, NEW v, NEW w
  PROVE  /\ Outcome(pos, bytes, v).pos = pos + Len(bytes) /\ Outcome(pos, bytes, v).val = v
         /\ [Outcome(pos, bytes, v) EXCEPT !.val = w] = Outcome(pos, bytes, w)
BY DEF Outcome

LEMMA HoldsBoth ==
  ASSUME NEW buf, Len(buf) \in Nat, NEW pos \in Nat, NEW a \in Seq(Byte), NEW b \in Seq(Byte)
  PROVE  /\ Holds(buf, pos, a \o b) <=> Holds(buf, pos, a) /\ Holds(buf, pos + Len(a), b)
         /\ Len(a \o b) = Len(a) + Len(b) /\ a \o b \in Seq(Byte)
<1> DEFINE m == Len(a)
           n == Len(b)
           c == a \o b
<1>1. /\ m \in Nat /\ n \in Nat /\ Len(c) = m + n /\ c \in Seq(Byte)
      /\ \A i \in 1 .. m : c[i] = a[i]
      /\ \A i \in 1 .. n : c[m + i] = b[i]
  OBVIOUS
<1> HIDE DEF m, n, c
<1>2. ASSUME Holds(buf, pos, c) PROVE Holds(buf, pos, a) /\ Holds(buf, pos + m, b)
  <2>1. pos + (m + n) <= Len(buf) /\ \A i \in 1 .. m + n : buf[pos + i] = c[i]
    BY <1>1, <1>2 DEF Holds
  <2>2. \A i \in 1 .. m : i \in 1 .. m + n
    BY <1>1
  <2>3. \A i \in 1 .. n : m + i \in 1 .. m + n /\ (pos + m) + i = pos + (m + i)
    BY <1>1
  <2>4. \A i \in 1 .. m : buf[pos + i] = a[i]
    BY <1>1, <2>1, <2>2
  <2>5. \A i \in 1 .. n : buf[(pos + m) + i] = b[i]
    BY <1>1, <2>1, <2>3
  <2> QED BY <1>1, <2>1, <2>4, <2>5 DEF Holds, m, n
<1>3. ASSUME Holds(buf, pos, a), Holds(buf, pos + m, b) PROVE Holds(buf, pos, c)
  <2>1. /\ (pos + m) + n <= Len(buf)
        /\ \A i \in 1 .. m : buf[pos + i] = a[i]
        /\ \A i \in 1 .. n : buf[(pos + m) + i] = b[i]
    BY <1>3 DEF Holds, m, n
  <2>2. ASSUME NEW i \in 1 .. m + n PROVE buf[pos + i] = c[i]
    <3>1. CASE i <= m
      BY <1>1, <2>1, <3>1
    <3>2. CASE i > m
      <4>1. i - m \in 1 .. n /\ (pos + m) + (i - m) = pos + i /\ m + (i - m) = i
        BY <1>1, <3>2
      <4> QED BY <1>1, <2>1, <4>1
    <3> QED BY <1>1, <3>1, <3>2
  <2> QED BY <1>1, <2>1, <2>2 DEF Holds
<1> QED BY <1>1, <1>2, <1>3 DEF m, n, c

(* Reading the one and then the other is reading both. *)
LEMMA OneThenOther ==
  ASSUME NEW buf \in Seq(Byte), NEW pos \in Nat, NEW a \in Seq(Byte), NEW b \in Seq(Byte), NEW v
  PROVE  /\ Holds(buf, pos, a \o b) <=> Holds(buf, pos, a) /\ Holds(buf, pos + Len(a), b)
         /\ Outcome(pos, a \o b, v) = Outcome(pos + Len(a), b, v)
         /\ pos + Len(a) \in Nat
<1>1. Len(buf) \in Nat /\ Len(a) \in Nat /\ Len(b) \in Nat
  OBVIOUS
<1>2. /\ Holds(buf, pos, a \o b) <=> Holds(buf, pos, a) /\ Holds(buf, pos + Len(a), b)
      /\ Len(a \o b) = Len(a) + Len(b)
  BY <1>1, HoldsBoth
<1>3. pos + (Len(a) + Len(b)) = (pos + Len(a)) + Len(b)
  BY <1>1
<1> QED BY <1>1, <1>2, <1>3 DEF Outcome

(* As many bytes at the same place are the same bytes. *)
LEMMA HeldIsUnique ==
  ASSUME NEW buf, NEW pos, NEW a \in Seq(Byte), NEW b \in Seq(Byte),
         Len(a) = Len(b), Holds(buf, pos, a), Holds(buf, pos, b)
  PROVE  a = b
<1>1. \A i \in 1 .. Len(a) : a[i] = b[i]
  BY DEF Holds
<1> QED BY <1>1

(* All of the bytes. *)
LEMMA HoldsAll ==
  ASSUME NEW buf \in Seq(Byte), NEW a \in Seq(Byte)
  PROVE  Holds(buf, 0, a) /\ Len(a) = Len(buf) <=> a = buf
<1>1. ASSUME Holds(buf, 0, a), Len(a) = Len(buf) PROVE a = buf
  <2>1. \A i \in 1 .. Len(a) : 0 + i = i /\ buf[0 + i] = a[i]
    BY <1>1 DEF Holds
  <2>2. \A i \in 1 .. Len(a) : buf[i] = a[i]
    BY <2>1
  <2> QED BY <1>1, <2>2
<1>2. Holds(buf, 0, buf)
  <2>1. 0 + Len(buf) <= Len(buf) /\ \A i \in 1 .. Len(buf) : 0 + i = i
    OBVIOUS
  <2>2. \A i \in 1 .. Len(buf) : buf[0 + i] = buf[i]
    BY <2>1
  <2> QED BY <2>1, <2>2 DEF Holds
<1> QED BY <1>1, <1>2

----------------------------------------------------------------------------
(* The readers of one field                                                *)

LEMMA Taken ==
  ASSUME NEW buf \in Seq(Byte), NEW pos \in Nat, NEW n \in Nat, NEW r
  PROVE  r \in Take(buf, pos, n) <=>
           \E bytes \in Seq(Byte) :
             Len(bytes) = n /\ Holds(buf, pos, bytes) /\ r = Outcome(pos, bytes, bytes)
<1> DEFINE here == SubSeq(buf, pos + 1, pos + n)
<1>1. ASSUME pos + n <= Len(buf)
      PROVE  here \in Seq(Byte) /\ Len(here) = n /\ Holds(buf, pos, here)
  <2>1. Len(buf) \in Nat /\ pos + 1 \in 1 .. Len(buf) + 1 /\ pos + n \in 0 .. Len(buf)
    BY <1>1
  <2>2. here = [i \in 1 .. n |-> buf[pos + i]]
    BY <2>1
  <2>3. \A i \in 1 .. n : pos + i \in 1 .. Len(buf) /\ buf[pos + i] \in Byte
    BY <1>1, <2>1
  <2>4. here \in Seq(Byte) /\ Len(here) = n
    BY <2>2, <2>3
  <2> HIDE DEF here
  <2> QED BY <1>1, <2>2, <2>4 DEF Holds
<1>2. CASE pos + n <= Len(buf)
  <2>1. r \in Take(buf, pos, n) <=> r = Outcome(pos, here, here)
    BY <1>1, <1>2 DEF Take, Outcome
  <2>2. \A bytes \in Seq(Byte) :
          Len(bytes) = n /\ Holds(buf, pos, bytes) => bytes = here
    BY <1>1, <1>2, HeldIsUnique
  <2> HIDE DEF here
  <2> QED BY <1>1, <1>2, <2>1, <2>2
<1>3. CASE ~(pos + n <= Len(buf))
  BY <1>3 DEF Take, Holds
<1> QED BY <1>2, <1>3

LEMMA U32Read ==
  ASSUME NEW buf \in Seq(Byte), NEW pos \in Nat, NEW r
  PROVE  r \in ReadU32(buf, pos) <=>
           \E n \in Nat : n < Limit /\ Holds(buf, pos, PutU32(n)) /\ r = Outcome(pos, PutU32(n), n)
<1>1. LenWidth \in Nat
  BY LayoutAssumption
<1>2. r \in ReadU32(buf, pos) <=>
        \E bytes \in Seq(Byte) :
          Len(bytes) = LenWidth /\ Holds(buf, pos, bytes) /\ r = Outcome(pos, bytes, Number(bytes))
  <2>1. \A bytes : [Outcome(pos, bytes, bytes) EXCEPT !.val = Number(@)]
                     = Outcome(pos, bytes, Number(bytes))
    BY DEF Outcome
  <2>2. r \in ReadU32(buf, pos) <=>
          \E t \in Take(buf, pos, LenWidth) : r = [t EXCEPT !.val = Number(@)]
    BY DEF ReadU32
  <2>3. \A t : t \in Take(buf, pos, LenWidth) <=>
          \E bytes \in Seq(Byte) :
            Len(bytes) = LenWidth /\ Holds(buf, pos, bytes) /\ t = Outcome(pos, bytes, bytes)
    BY <1>1, Taken
  <2> QED BY <2>1, <2>2, <2>3
<1>3. ASSUME NEW bytes \in Seq(Byte), Len(bytes) = LenWidth
      PROVE  Number(bytes) \in Nat /\ Number(bytes) < Limit /\ bytes = PutU32(Number(bytes))
  BY <1>3, NumberWritesBack
<1>4. ASSUME NEW n \in Nat, n < Limit
      PROVE  PutU32(n) \in Seq(Byte) /\ Len(PutU32(n)) = LenWidth /\ Number(PutU32(n)) = n
  BY <1>4, PrefixReadsBack, PrefixShape
<1> QED BY <1>2, <1>3, <1>4

(* What is written for a field, and what two fields at one place have. *)
LEMMA FieldShape ==
  ASSUME NEW bytes \in ByteVec
  PROVE  /\ PutBytes(bytes) \in Seq(Byte) /\ bytes \in Seq(Byte) /\ Len(bytes) \in Nat
         /\ Len(bytes) < Limit
         /\ Len(PutBytes(bytes)) = Len(PutU32(Len(bytes))) + Len(bytes)
         /\ PutU32(Len(bytes)) \in Seq(Byte)
<1>1. bytes \in Seq(Byte) /\ Len(bytes) \in Nat /\ Len(bytes) < Limit
  BY DEF ByteVec
<1>2. PutU32(Len(bytes)) \in Seq(Byte)
  BY <1>1, PrefixShape
<1> QED BY <1>1, <1>2, ConcatProperties DEF PutBytes

LEMMA BytesRead ==
  ASSUME NEW buf \in Seq(Byte), NEW pos \in Nat, NEW r
  PROVE  r \in ReadBytes(buf, pos) <=>
           \E bytes \in ByteVec :
             Holds(buf, pos, PutBytes(bytes)) /\ r = Outcome(pos, PutBytes(bytes), bytes)
<1> DEFINE After(n) == pos + Len(PutU32(n))
<1>1. ASSUME NEW n \in Nat PROVE After(n) \in Nat
  <2>1. Len(PutU32(n)) \in Nat
    BY PrefixShape
  <2> QED BY <2>1
<1>2. ASSUME NEW bytes \in ByteVec
      PROVE  /\ Holds(buf, pos, PutBytes(bytes)) <=>
                  /\ Holds(buf, pos, PutU32(Len(bytes)))
                  /\ Holds(buf, After(Len(bytes)), bytes)
             /\ Outcome(pos, PutBytes(bytes), bytes) = Outcome(After(Len(bytes)), bytes, bytes)
  <2>1. Len(buf) \in Nat
    OBVIOUS
  <2>2. /\ PutU32(Len(bytes)) \in Seq(Byte) /\ bytes \in Seq(Byte)
        /\ Len(PutBytes(bytes)) = Len(PutU32(Len(bytes))) + Len(bytes)
        /\ Len(bytes) \in Nat /\ Len(PutU32(Len(bytes))) \in Nat
    BY FieldShape
  <2>3. Holds(buf, pos, PutBytes(bytes)) <=>
          Holds(buf, pos, PutU32(Len(bytes))) /\ Holds(buf, After(Len(bytes)), bytes)
    BY <2>1, <2>2, HoldsBoth DEF PutBytes
  <2>4. pos + Len(PutBytes(bytes)) = After(Len(bytes)) + Len(bytes)
    BY <2>2
  <2> QED BY <2>3, <2>4 DEF Outcome
<1> HIDE DEF After
<1>3. r \in ReadBytes(buf, pos) <=>
        \E n \in Nat : /\ n < Limit /\ Holds(buf, pos, PutU32(n))
                       /\ r \in Take(buf, After(n), n)
  <2>1. r \in ReadBytes(buf, pos) <=>
          \E t \in ReadU32(buf, pos) : r \in Take(buf, t.pos, t.val)
    BY DEF ReadBytes
  <2>2. \A t : t \in ReadU32(buf, pos) <=>
          \E n \in Nat : /\ n < Limit /\ Holds(buf, pos, PutU32(n))
                         /\ t = Outcome(pos, PutU32(n), n)
    BY U32Read
  <2>3. \A n : Outcome(pos, PutU32(n), n).pos = After(n) /\ Outcome(pos, PutU32(n), n).val = n
    BY DEF Outcome, After
  <2> QED BY <2>1, <2>2, <2>3
<1>4. ASSUME NEW n \in Nat
      PROVE  r \in Take(buf, After(n), n) <=>
               \E bytes \in Seq(Byte) :
                 /\ Len(bytes) = n /\ Holds(buf, After(n), bytes)
                 /\ r = Outcome(After(n), bytes, bytes)
  BY <1>1, Taken
<1>5. ASSUME NEW n \in Nat, n < Limit, NEW bytes \in Seq(Byte), Len(bytes) = n
      PROVE  bytes \in ByteVec
  BY <1>5 DEF ByteVec
<1>6. ASSUME r \in ReadBytes(buf, pos)
      PROVE  \E bytes \in ByteVec :
               Holds(buf, pos, PutBytes(bytes)) /\ r = Outcome(pos, PutBytes(bytes), bytes)
  <2>1. PICK n \in Nat : /\ n < Limit /\ Holds(buf, pos, PutU32(n))
                         /\ r \in Take(buf, After(n), n)
    BY <1>3, <1>6
  <2>2. PICK bytes \in Seq(Byte) :
          Len(bytes) = n /\ Holds(buf, After(n), bytes) /\ r = Outcome(After(n), bytes, bytes)
    BY <1>4, <2>1
  <2>3. bytes \in ByteVec
    BY <1>5, <2>1, <2>2
  <2> QED BY <1>2, <2>1, <2>2, <2>3
<1>7. ASSUME NEW bytes \in ByteVec, Holds(buf, pos, PutBytes(bytes)),
             r = Outcome(pos, PutBytes(bytes), bytes)
      PROVE  r \in ReadBytes(buf, pos)
  <2>1. bytes \in Seq(Byte) /\ Len(bytes) \in Nat /\ Len(bytes) < Limit
    BY FieldShape
  <2>2. r \in Take(buf, After(Len(bytes)), Len(bytes))
    BY <1>2, <1>4, <1>7, <2>1
  <2> QED BY <1>2, <1>3, <1>7, <2>1, <2>2
<1> QED BY <1>6, <1>7

LEMMA StringRead ==
  ASSUME NEW buf \in Seq(Byte), NEW pos \in Nat, NEW r
  PROVE  r \in ReadString(buf, pos) <=>
           \E s \in Utf8String : Holds(buf, pos, PutBytes(s)) /\ r = Outcome(pos, PutBytes(s), s)
<1>1. \A s : Outcome(pos, PutBytes(s), s).val = s
  BY DEF Outcome
<1> QED BY <1>1, BytesRead DEF ReadString, Utf8String

LEMMA FlagRead ==
  ASSUME NEW buf \in Seq(Byte), NEW pos \in Nat, NEW r
  PROVE  r \in ReadFlag(buf, pos) <=>
           \E b \in BOOLEAN : Holds(buf, pos, PutFlag(b)) /\ r = Outcome(pos, PutFlag(b), b)
<1>1. 0 \in Byte /\ 1 \in Byte /\ <<1>> # <<0>>
  <2>1. 0 \in Byte /\ 1 \in Byte
    BY LayoutAssumption DEF Byte
  <2>2. <<1>>[1] # <<0>>[1]
    OBVIOUS
  <2> QED BY <2>1, <2>2
<1>2. /\ <<0>> \in Seq(Byte) /\ <<1>> \in Seq(Byte) /\ Len(<<0>>) = 1 /\ Len(<<1>>) = 1
  BY <1>1
<1>3. \A t : t \in ReadU8(buf, pos) <=>
        \E bytes \in Seq(Byte) :
          Len(bytes) = 1 /\ Holds(buf, pos, bytes) /\ t = Outcome(pos, bytes, bytes)
  BY 1 \in Nat, Taken DEF ReadU8
<1>4. \A bytes : /\ Outcome(pos, bytes, bytes).val = bytes
                 /\ [Outcome(pos, bytes, bytes) EXCEPT !.val = (@ = <<1>>)]
                      = Outcome(pos, bytes, bytes = <<1>>)
  BY DEF Outcome
<1>5. r \in ReadFlag(buf, pos) <=>
        \E t \in ReadU8(buf, pos) : t.val \in {<<0>>, <<1>>} /\ r = [t EXCEPT !.val = (@ = <<1>>)]
  BY DEF ReadFlag
<1>6. r \in ReadFlag(buf, pos) <=>
        \E bytes \in {<<0>>, <<1>>} : Holds(buf, pos, bytes) /\ r = Outcome(pos, bytes, bytes = <<1>>)
  <2>1. ASSUME r \in ReadFlag(buf, pos)
        PROVE  \E bytes \in {<<0>>, <<1>>} :
                 Holds(buf, pos, bytes) /\ r = Outcome(pos, bytes, bytes = <<1>>)
    BY <1>3, <1>4, <1>5, <2>1
  <2>2. \A bytes \in {<<0>>, <<1>>} :
          Holds(buf, pos, bytes) /\ r = Outcome(pos, bytes, bytes = <<1>>)
            => r \in ReadFlag(buf, pos)
    <3> TAKE bytes \in {<<0>>, <<1>>}
    <3> HAVE Holds(buf, pos, bytes) /\ r = Outcome(pos, bytes, bytes = <<1>>)
    <3>1. bytes \in Seq(Byte) /\ Len(bytes) = 1
      BY <1>2
    <3>2. Outcome(pos, bytes, bytes) \in ReadU8(buf, pos)
      BY <1>3, <3>1
    <3> QED BY <1>4, <1>5, <3>2
  <2> QED BY <2>1, <2>2
<1>7. PutFlag(TRUE) = <<1>> /\ PutFlag(FALSE) = <<0>>
  BY DEF PutFlag
<1>8. (<<1>> = <<1>>) = TRUE /\ (<<0>> = <<1>>) = FALSE
  BY <1>1
<1>9. r \in ReadFlag(buf, pos) <=>
        \/ Holds(buf, pos, <<0>>) /\ r = Outcome(pos, <<0>>, FALSE)
        \/ Holds(buf, pos, <<1>>) /\ r = Outcome(pos, <<1>>, TRUE)
  BY <1>6, <1>8
<1> QED BY <1>7, <1>9

Bundle == {bundle \in Seq(Utf8String) : Len(bundle) <= 1}

LEMMA BundleCases ==
  /\ <<>> \in Bundle /\ \A s \in Utf8String : <<s>> \in Bundle
  /\ \A bundle \in Bundle : bundle = <<>> \/ \E s \in Utf8String : bundle = <<s>>
<1>1. ASSUME NEW bundle \in Bundle, bundle # <<>>
      PROVE  \E s \in Utf8String : bundle = <<s>>
  <2>1. bundle \in Seq(Utf8String) /\ Len(bundle) <= 1
    BY DEF Bundle
  <2> DEFINE n == Len(bundle)
  <2>3. n \in Nat \ {0} /\ n <= 1
    BY <1>1, <2>1, EmptySeq
  <2> HIDE DEF n
  <2>4. n = 1
    BY <2>3
  <2>2. bundle[1] \in Utf8String /\ bundle = <<bundle[1]>>
    BY <2>1, <2>4 DEF n
  <2> QED BY <2>2
<1>2. <<>> \in Bundle
  BY DEF Bundle
<1>3. ASSUME NEW s \in Utf8String PROVE <<s>> \in Bundle
  BY DEF Bundle
<1> QED BY <1>1, <1>2, <1>3

LEMMA FlagShape ==
  ASSUME NEW b \in BOOLEAN
  PROVE  PutFlag(b) \in Seq(Byte) /\ Len(PutFlag(b)) = 1
<1>1. 0 \in Byte /\ 1 \in Byte
  BY LayoutAssumption DEF Byte
<1> QED BY <1>1 DEF PutFlag

LEMMA BundleShape ==
  /\ PutBundle(<<>>) = PutFlag(FALSE)
  /\ \A s \in Utf8String : PutBundle(<<s>>) = PutFlag(TRUE) \o PutBytes(s)
  /\ \A bundle \in Bundle : PutBundle(bundle) \in Seq(Byte)
<1>1. PutBundle(<<>>) = PutFlag(FALSE)
  BY DEF PutBundle
<1>2. ASSUME NEW s \in Utf8String
      PROVE  PutBundle(<<s>>) = PutFlag(TRUE) \o PutBytes(s) /\ PutBundle(<<s>>) \in Seq(Byte)
  <2>1. <<s>> # <<>> /\ <<s>>[1] = s
    OBVIOUS
  <2>2. PutBytes(s) \in Seq(Byte) /\ PutFlag(TRUE) \in Seq(Byte)
    BY FieldShape, FlagShape DEF Utf8String
  <2> QED BY <2>1, <2>2, ConcatProperties DEF PutBundle
<1>3. PutFlag(FALSE) \in Seq(Byte)
  BY FlagShape
<1> QED BY <1>1, <1>2, <1>3, BundleCases

LEMMA BundleRead ==
  ASSUME NEW buf \in Seq(Byte), NEW pos \in Nat, NEW r
  PROVE  r \in ReadBundle(buf, pos) <=>
           \E bundle \in Bundle :
             Holds(buf, pos, PutBundle(bundle)) /\ r = Outcome(pos, PutBundle(bundle), bundle)
<1>1. pos + 1 \in Nat
  OBVIOUS
<1> DEFINE Given(f) == IF f.val THEN {[s EXCEPT !.val = <<@>>] : s \in ReadString(buf, f.pos)}
                       ELSE {[f EXCEPT !.val = <<>>]}
           None == Outcome(pos, PutFlag(FALSE), FALSE)
           Some == Outcome(pos, PutFlag(TRUE), TRUE)
<1>2. r \in ReadBundle(buf, pos) <=> \E f \in ReadFlag(buf, pos) : r \in Given(f)
  <2>1. ReadBundle(buf, pos) = UNION {Given(f) : f \in ReadFlag(buf, pos)}
    BY DEF ReadBundle
  <2> HIDE DEF Given
  <2> QED BY <2>1
<1>3. \A f : f \in ReadFlag(buf, pos) <=>
        \/ Holds(buf, pos, PutFlag(FALSE)) /\ f = None
        \/ Holds(buf, pos, PutFlag(TRUE)) /\ f = Some
  BY FlagRead
<1>4. r \in Given(None) <=> r = Outcome(pos, PutBundle(<<>>), <<>>)
  <2>1. ~None.val
    BY OutcomeFields, Zenon
  <2>2. [None EXCEPT !.val = <<>>] = Outcome(pos, PutFlag(FALSE), <<>>)
    <3>1. ASSUME NEW bytes, NEW v, NEW w
          PROVE  [Outcome(pos, bytes, v) EXCEPT !.val = w] = Outcome(pos, bytes, w)
      BY OutcomeFields
    <3> QED BY <3>1, Zenon
  <2>3. Given(None) = {[None EXCEPT !.val = <<>>]}
    BY <2>1, Zenon
  <2> HIDE DEF None, Given
  <2> QED BY <2>2, <2>3, BundleShape
<1>5. r \in Given(Some) <=>
        \E s \in Utf8String :
          Holds(buf, pos + 1, PutBytes(s)) /\ r = Outcome(pos + 1, PutBytes(s), <<s>>)
  <2> DEFINE Listed(t) == [t EXCEPT !.val = <<@>>]
  <2>1. Some.val /\ Some.pos = pos + 1
    <3>1. Some.val
      BY OutcomeFields, Zenon
    <3>2. Some.pos = pos + Len(PutFlag(TRUE))
      BY OutcomeFields, Zenon
    <3> QED BY <3>1, <3>2, FlagShape
  <2>2. r \in Given(Some) <=> \E t \in ReadString(buf, pos + 1) : r = Listed(t)
    <3>1. Given(Some) = {Listed(s) : s \in ReadString(buf, Some.pos)}
      BY <2>1, Zenon
    <3> HIDE DEF Given, Some, Listed
    <3> QED BY <2>1, <3>1
  <2>3. \A t : t \in ReadString(buf, pos + 1) <=>
          \E s \in Utf8String :
            Holds(buf, pos + 1, PutBytes(s)) /\ t = Outcome(pos + 1, PutBytes(s), s)
    BY <1>1, StringRead
  <2>4. \A s : Listed(Outcome(pos + 1, PutBytes(s), s)) = Outcome(pos + 1, PutBytes(s), <<s>>)
    BY DEF Outcome
  <2> HIDE DEF Given, Some, Listed
  <2>5. ASSUME r \in Given(Some)
        PROVE  \E s \in Utf8String :
                 Holds(buf, pos + 1, PutBytes(s)) /\ r = Outcome(pos + 1, PutBytes(s), <<s>>)
    <3>1. PICK t \in ReadString(buf, pos + 1) : r = Listed(t)
      BY <2>2, <2>5
    <3>2. PICK s \in Utf8String :
            Holds(buf, pos + 1, PutBytes(s)) /\ t = Outcome(pos + 1, PutBytes(s), s)
      BY <2>3
    <3> QED BY <2>4, <3>1, <3>2
  <2>6. ASSUME NEW s \in Utf8String, Holds(buf, pos + 1, PutBytes(s)),
               r = Outcome(pos + 1, PutBytes(s), <<s>>)
        PROVE  r \in Given(Some)
    <3>1. Outcome(pos + 1, PutBytes(s), s) \in ReadString(buf, pos + 1)
      BY <2>3, <2>6
    <3> QED BY <2>2, <2>4, <2>6, <3>1
  <2> QED BY <2>5, <2>6
<1>6. ASSUME NEW s \in Utf8String
      PROVE  /\ Holds(buf, pos, PutBundle(<<s>>)) <=>
                  Holds(buf, pos, PutFlag(TRUE)) /\ Holds(buf, pos + 1, PutBytes(s))
             /\ Outcome(pos, PutBundle(<<s>>), <<s>>) = Outcome(pos + 1, PutBytes(s), <<s>>)
  <2>1. PutBundle(<<s>>) = PutFlag(TRUE) \o PutBytes(s) /\ PutBytes(s) \in Seq(Byte)
    BY BundleShape, FieldShape DEF Utf8String
  <2> DEFINE flag == PutFlag(TRUE)
             one == <<s>>
  <2>2. flag \in Seq(Byte) /\ Len(flag) = 1
    BY FlagShape
  <2>4. PutBundle(<<s>>) = flag \o PutBytes(s) /\ PutBytes(s) \in Seq(Byte)
    BY <2>1
  <2> HIDE DEF flag, one
  <2>3. /\ Holds(buf, pos, flag \o PutBytes(s)) <=>
             Holds(buf, pos, flag) /\ Holds(buf, pos + 1, PutBytes(s))
        /\ Outcome(pos, flag \o PutBytes(s), one) = Outcome(pos + 1, PutBytes(s), one)
    <3>1. /\ Holds(buf, pos, flag \o PutBytes(s)) <=>
               Holds(buf, pos, flag) /\ Holds(buf, pos + Len(flag), PutBytes(s))
          /\ Outcome(pos, flag \o PutBytes(s), one) = Outcome(pos + Len(flag), PutBytes(s), one)
      <4>1. flag \in Seq(Byte) /\ PutBytes(s) \in Seq(Byte)
        BY <2>2, <2>4
      <4> HIDE DEF Given, None, Some
      <4> QED BY ONLY buf \in Seq(Byte), pos \in Nat, <4>1, OneThenOther
    <3> QED BY <2>2, <3>1
  <2> QED BY <2>3, <2>4 DEF flag, one
<1>7. Holds(buf, pos, PutBundle(<<>>)) <=> Holds(buf, pos, PutFlag(FALSE))
  BY BundleShape
<1> HIDE DEF Given, None, Some
<1>8. r \in ReadBundle(buf, pos) <=>
        \/ Holds(buf, pos, PutBundle(<<>>)) /\ r = Outcome(pos, PutBundle(<<>>), <<>>)
        \/ \E s \in Utf8String :
             Holds(buf, pos, PutBundle(<<s>>)) /\ r = Outcome(pos, PutBundle(<<s>>), <<s>>)
  BY <1>2, <1>3, <1>4, <1>5, <1>6, <1>7
<1> QED BY <1>8, BundleCases

LEMMA RepShape ==
  ASSUME NEW rep \in RecordRepresentation
  PROVE  /\ rep.uttype \in ByteVec /\ rep.data \in ByteVec
         /\ PutBytes(rep.uttype) \in Seq(Byte) /\ PutBytes(rep.data) \in Seq(Byte)
         /\ PutRep(rep) \in Seq(Byte)
<1>1. rep.uttype \in Utf8String /\ rep.data \in ByteVec
  BY DEF RecordRepresentation
<1>2. rep.uttype \in ByteVec
  BY <1>1 DEF Utf8String
<1>3. PutBytes(rep.uttype) \in Seq(Byte) /\ PutBytes(rep.data) \in Seq(Byte)
  BY <1>1, <1>2, FieldShape
<1> QED BY <1>1, <1>2, <1>3, ConcatProperties DEF PutRep

LEMMA RepRead ==
  ASSUME NEW buf \in Seq(Byte), NEW pos \in Nat, NEW r
  PROVE  r \in ReadRep(buf, pos) <=>
           \E rep \in RecordRepresentation :
             Holds(buf, pos, PutRep(rep)) /\ r = Outcome(pos, PutRep(rep), rep)
<1> DEFINE After(u) == pos + Len(PutBytes(u))
           Rep(u, d) == [uttype |-> u, data |-> d]
<1>1. ASSUME NEW u \in Utf8String PROVE After(u) \in Nat
  BY FieldShape DEF Utf8String
<1>2. ASSUME NEW u \in Utf8String, NEW d \in ByteVec
      PROVE  /\ Holds(buf, pos, PutRep(Rep(u, d))) <=>
                  Holds(buf, pos, PutBytes(u)) /\ Holds(buf, After(u), PutBytes(d))
             /\ Outcome(pos, PutRep(Rep(u, d)), Rep(u, d)) = Outcome(After(u), PutBytes(d), Rep(u, d))
  <2>1. /\ PutBytes(u) \in Seq(Byte) /\ PutBytes(d) \in Seq(Byte)
        /\ PutRep(Rep(u, d)) = PutBytes(u) \o PutBytes(d) /\ Len(buf) \in Nat
    BY FieldShape DEF Utf8String, PutRep
  <2>2. /\ Holds(buf, pos, PutBytes(u) \o PutBytes(d)) <=>
             Holds(buf, pos, PutBytes(u)) /\ Holds(buf, After(u), PutBytes(d))
        /\ Outcome(pos, PutBytes(u) \o PutBytes(d), Rep(u, d)) = Outcome(After(u), PutBytes(d), Rep(u, d))
    BY <2>1, OneThenOther
  <2> QED BY <2>1, <2>2
<1>3. r \in ReadRep(buf, pos) <=>
        \E t \in ReadString(buf, pos) : \E q \in ReadBytes(buf, t.pos) :
          r = [q EXCEPT !.val = [uttype |-> t.val, data |-> @]]
  BY DEF ReadRep
<1> HIDE DEF After, Rep
<1>4. r \in ReadRep(buf, pos) <=>
        \E u \in Utf8String : /\ Holds(buf, pos, PutBytes(u))
                              /\ \E q \in ReadBytes(buf, After(u)) : r = [q EXCEPT !.val = Rep(u, @)]
  <2>1. \A u : Outcome(pos, PutBytes(u), u).pos = After(u) /\ Outcome(pos, PutBytes(u), u).val = u
    BY DEF Outcome, After
  <2> QED BY <1>3, <2>1, StringRead DEF Rep
<1>5. ASSUME NEW u \in Utf8String
      PROVE  (\E q \in ReadBytes(buf, After(u)) : r = [q EXCEPT !.val = Rep(u, @)]) <=>
             \E d \in ByteVec : /\ Holds(buf, After(u), PutBytes(d))
                                /\ r = Outcome(After(u), PutBytes(d), Rep(u, d))
  <2>1. \A d : [Outcome(After(u), PutBytes(d), d) EXCEPT !.val = Rep(u, @)]
                 = Outcome(After(u), PutBytes(d), Rep(u, d))
    BY DEF Outcome
  <2>2. \A q : q \in ReadBytes(buf, After(u)) <=>
          \E d \in ByteVec :
            Holds(buf, After(u), PutBytes(d)) /\ q = Outcome(After(u), PutBytes(d), d)
    BY <1>1, BytesRead
  <2> QED BY <2>1, <2>2
<1>6. \A rep : rep \in RecordRepresentation <=>
                 \E u \in Utf8String, d \in ByteVec : rep = Rep(u, d)
  BY DEF RecordRepresentation, Rep
<1>7. r \in ReadRep(buf, pos) <=>
        \E u \in Utf8String, d \in ByteVec :
          Holds(buf, pos, PutRep(Rep(u, d))) /\ r = Outcome(pos, PutRep(Rep(u, d)), Rep(u, d))
  BY <1>2, <1>4, <1>5
<1> QED BY <1>6, <1>7

----------------------------------------------------------------------------
(* Representations, one after the other                                    *)

Reps == Seq(RecordRepresentation)

UpTo(reps) ==
  CHOOSE f : f = [i \in 0 .. Len(reps) |->
                    IF i = 0 THEN <<>> ELSE f[i - 1] \o PutRep(reps[i])]

LEMMA UpToSteps ==
  ASSUME NEW reps \in Reps
  PROVE  /\ RepBytes(reps) = UpTo(reps)[Len(reps)]
         /\ UpTo(reps)[0] = <<>>
         /\ \A i \in 1 .. Len(reps) : UpTo(reps)[i] = UpTo(reps)[i - 1] \o PutRep(reps[i])
         /\ \A i \in 0 .. Len(reps) : UpTo(reps)[i] \in Seq(Byte)
<1> DEFINE n == Len(reps)
           step == [i \in 1 .. n |-> [x \in Seq(Byte) |-> x \o PutRep(reps[i])]]
           f == UpTo(reps)
<1>1. n \in Nat /\ \A i \in 1 .. n : PutRep(reps[i]) \in Seq(Byte)
  <2>1. n \in Nat /\ \A i \in 1 .. n : reps[i] \in RecordRepresentation
    BY DEF Reps
  <2> QED BY <2>1, RepShape
<1>2. \A x \in Seq(Byte), i \in 1 .. n : x \o PutRep(reps[i]) \in Seq(Byte)
  BY <1>1, ConcatProperties
<1>3. step \in [1 .. n -> [Seq(Byte) -> Seq(Byte)]] /\ <<>> \in Seq(Byte)
  BY <1>2
<1> HIDE DEF n
<1>4. PICK g : Iterates(g, n, Seq(Byte), <<>>, step)
  <2> HIDE DEF step
  <2> QED BY <1>1, <1>3, Recursion
<1>5. g = [i \in 0 .. n |-> IF i = 0 THEN <<>> ELSE g[i - 1] \o PutRep(reps[i])]
  <2>1. ASSUME NEW i \in 1 .. n PROVE g[i] = g[i - 1] \o PutRep(reps[i])
    <3>1. i - 1 \in 0 .. n
      BY <1>1
    <3>2. g[i - 1] \in Seq(Byte)
      BY <1>4, <3>1 DEF Iterates
    <3> QED BY <1>4, <3>2 DEF Iterates
  <2> DEFINE after(i) == g[i - 1] \o PutRep(reps[i])
  <2>2. /\ g = [i \in 0 .. n |-> g[i]] /\ g[0] = <<>>
        /\ \A i \in 0 .. n : i # 0 => g[i] = after(i)
    <3>1. g = [i \in 0 .. n |-> g[i]] /\ g[0] = <<>>
      BY <1>4 DEF Iterates
    <3>2. \A i \in 0 .. n : i # 0 => i \in 1 .. n
      BY <1>1
    <3> HIDE DEF after
    <3>3. \A i \in 1 .. n : g[i] = after(i)
      BY <2>1 DEF after
    <3> QED BY <3>1, <3>2, <3>3
  <2> HIDE DEF after
  <2>3. g = [i \in 0 .. n |-> IF i = 0 THEN <<>> ELSE after(i)]
    BY <2>2
  <2> QED BY <2>3 DEF after
<1>6. f = [i \in 0 .. n |-> IF i = 0 THEN <<>> ELSE f[i - 1] \o PutRep(reps[i])]
  BY <1>5 DEF UpTo, n
<1>7. RepBytes(reps) = f[n]
  BY DEF RepBytes, UpTo, n
<1> HIDE DEF f, step
<1>8. f[0] = <<>> /\ \A i \in 1 .. n : f[i] = f[i - 1] \o PutRep(reps[i])
  <2> DEFINE after(i) == f[i - 1] \o PutRep(reps[i])
  <2>1. f = [i \in 0 .. n |-> IF i = 0 THEN <<>> ELSE after(i)]
    BY <1>6
  <2> HIDE DEF after
  <2>2. f[0] = <<>> /\ \A i \in 1 .. n : f[i] = after(i)
    BY <1>1, <2>1
  <2> QED BY <2>2 DEF after
<1> DEFINE T == {i \in Nat : i <= n => f[i] \in Seq(Byte)}
<1>9. 0 \in T
  BY <1>3, <1>8
<1>10. ASSUME NEW i \in Nat, i \in T PROVE i + 1 \in T
  <2> SUFFICES ASSUME i + 1 <= n PROVE f[i + 1] \in Seq(Byte)
    OBVIOUS
  <2>1. i + 1 \in 1 .. n /\ (i + 1) - 1 = i /\ f[i] \in Seq(Byte)
    BY <1>1, <1>10
  <2>2. f[i + 1] = f[i] \o PutRep(reps[i + 1])
    BY <1>8, <2>1
  <2> QED BY <1>2, <2>1, <2>2
<1>11. \A i \in Nat : i \in T
  <2> HIDE DEF T
  <2> QED BY <1>9, <1>10, Induction
<1>12. \A i \in 0 .. n : f[i] \in Seq(Byte)
  BY <1>1, <1>11
<1> QED BY <1>7, <1>8, <1>12 DEF n, f

LEMMA RepBytesSteps ==
  /\ RepBytes(<<>>) = <<>>
  /\ \A reps \in Reps : RepBytes(reps) \in Seq(Byte)
  /\ \A reps \in Reps, rep \in RecordRepresentation :
       RepBytes(Append(reps, rep)) = RepBytes(reps) \o PutRep(rep)
<1>1. RepBytes(<<>>) = <<>>
  <2>1. <<>> \in Reps /\ Len(<<>>) = 0
    BY DEF Reps
  <2> QED BY <2>1, UpToSteps
<1>2. ASSUME NEW reps \in Reps PROVE RepBytes(reps) \in Seq(Byte)
  <2>1. Len(reps) \in 0 .. Len(reps)
    BY DEF Reps
  <2> QED BY <2>1, UpToSteps
<1>3. ASSUME NEW reps \in Reps, NEW rep \in RecordRepresentation
      PROVE  RepBytes(Append(reps, rep)) = RepBytes(reps) \o PutRep(rep)
  <2> DEFINE more == Append(reps, rep)
             n == Len(reps)
             f == UpTo(reps)
             g == UpTo(more)
  <2>1. /\ n \in Nat /\ more \in Reps /\ Len(more) = n + 1 /\ more[n + 1] = rep
        /\ \A i \in 1 .. n : more[i] = reps[i]
    BY AppendProperties DEF Reps
  <2> HIDE DEF more
  <2>2. /\ RepBytes(reps) = f[n] /\ f[0] = <<>>
        /\ \A i \in 1 .. n : f[i] = f[i - 1] \o PutRep(reps[i])
    BY UpToSteps
  <2>3. /\ RepBytes(more) = g[n + 1] /\ g[0] = <<>>
        /\ \A i \in 1 .. n + 1 : g[i] = g[i - 1] \o PutRep(more[i])
    BY <2>1, UpToSteps
  <2> DEFINE T == {i \in Nat : i <= n => f[i] = g[i]}
  <2> HIDE DEF f, g, n
  <2>4. 0 \in T
    BY <2>2, <2>3
  <2>5. ASSUME NEW i \in Nat, i \in T PROVE i + 1 \in T
    <3> SUFFICES ASSUME i + 1 <= n PROVE f[i + 1] = g[i + 1]
      OBVIOUS
    <3>1. /\ i + 1 \in 1 .. n /\ i + 1 \in 1 .. n + 1 /\ (i + 1) - 1 = i /\ f[i] = g[i]
      BY <2>1, <2>5
    <3>2. more[i + 1] = reps[i + 1]
      BY <2>1, <3>1
    <3> QED BY <2>2, <2>3, <3>1, <3>2
  <2>6. f[n] = g[n]
    <3>1. n \in T
      <4> HIDE DEF T
      <4> QED BY <2>1, <2>4, <2>5, Induction
    <3> QED BY <2>1, <3>1
  <2>7. n + 1 \in 1 .. n + 1 /\ (n + 1) - 1 = n
    BY <2>1
  <2> QED BY <2>1, <2>2, <2>3, <2>6, <2>7 DEF more
<1> QED BY <1>1, <1>2, <1>3

(* One more representation, after those that were read. *)
LEMMA OneMore ==
  ASSUME NEW buf \in Seq(Byte), NEW outcomes, \A t \in outcomes : t.pos \in Nat, NEW r
  PROVE  r \in Then(buf, outcomes, ReadRep) <=>
           \E t \in outcomes : \E rep \in RecordRepresentation :
             /\ Holds(buf, t.pos, PutRep(rep))
             /\ r = Outcome(t.pos, PutRep(rep), Append(t.val, rep))
<1> DEFINE Added(t, v) == [v EXCEPT !.val = Append(t.val, @)]
           After(t) == {Added(t, v) : v \in ReadRep(buf, t.pos)}
<1>1. Then(buf, outcomes, ReadRep) = UNION {After(t) : t \in outcomes}
  BY DEF Then
<1>2. ASSUME NEW t, NEW rep
      PROVE  Added(t, Outcome(t.pos, PutRep(rep), rep)) = Outcome(t.pos, PutRep(rep), Append(t.val, rep))
  <2> DEFINE o == Outcome(t.pos, PutRep(rep), rep)
             more == Append(t.val, rep)
  <2>1. o.val = rep /\ [o EXCEPT !.val = more] = Outcome(t.pos, PutRep(rep), more)
    <3> DEFINE p == t.pos
               b == PutRep(rep)
    <3> HIDE DEF more, p, b
    <3>1. Outcome(p, b, rep).val = rep
      BY OutcomeFields
    <3>2. [Outcome(p, b, rep) EXCEPT !.val = more] = Outcome(p, b, more)
      BY ONLY OutcomeFields
    <3> USE DEF p, b
    <3> QED BY <3>1, <3>2
  <2>2. Append(t.val, o.val) = more
    BY <2>1
  <2>3. Added(t, o) = [o EXCEPT !.val = Append(t.val, o.val)]
    OBVIOUS
  <2> HIDE DEF o, more, Added
  <2>4. Added(t, o) = Outcome(t.pos, PutRep(rep), more)
    BY <2>1, <2>2, <2>3
  <2> QED BY <2>4 DEF o, more
<1> HIDE DEF Added
<1>3. ASSUME NEW t, t.pos \in Nat
      PROVE  r \in After(t) <=>
               \E rep \in RecordRepresentation :
                 /\ Holds(buf, t.pos, PutRep(rep))
                 /\ r = Outcome(t.pos, PutRep(rep), Append(t.val, rep))
  <2>1. \A v : v \in ReadRep(buf, t.pos) <=>
          \E rep \in RecordRepresentation :
            Holds(buf, t.pos, PutRep(rep)) /\ v = Outcome(t.pos, PutRep(rep), rep)
    BY <1>3, RepRead
  <2> QED BY <1>2, <2>1
<1> HIDE DEF After
<1> QED BY <1>1, <1>3

FromStep(buf, pos, count) ==
  CHOOSE f : f = [i \in 0 .. count |->
                    IF i = 0 THEN {[pos |-> pos, val |-> <<>>]} ELSE Then(buf, f[i - 1], ReadRep)]

LEMMA FromSteps ==
  ASSUME NEW buf \in Seq(Byte), NEW pos \in Nat, NEW count \in Nat
  PROVE  /\ RepsFrom(buf, pos, count) = FromStep(buf, pos, count)[count]
         /\ FromStep(buf, pos, count)[0] = {[pos |-> pos, val |-> <<>>]}
         /\ \A i \in 1 .. count :
              FromStep(buf, pos, count)[i] = Then(buf, FromStep(buf, pos, count)[i - 1], ReadRep)
<1> DEFINE O == [pos : Nat, val : Reps]
           start == {[pos |-> pos, val |-> <<>>]}
           after(x) == Then(buf, x, ReadRep)
           step == [i \in 1 .. count |-> [x \in SUBSET O |-> after(x)]]
           f == FromStep(buf, pos, count)
<1>1. start \in SUBSET O
  BY DEF Reps
<1>2. ASSUME NEW x \in SUBSET O PROVE after(x) \in SUBSET O
  <2> SUFFICES ASSUME NEW r \in after(x) PROVE r \in O
    OBVIOUS
  <2>1. \A t \in x : t.pos \in Nat
    OBVIOUS
  <2>2. PICK t \in x, rep \in RecordRepresentation :
          r = Outcome(t.pos, PutRep(rep), Append(t.val, rep))
    BY <2>1, OneMore
  <2>3. t.pos \in Nat /\ t.val \in Reps /\ Len(PutRep(rep)) \in Nat
    BY RepShape
  <2>4. Append(t.val, rep) \in Reps
    BY <2>3, AppendProperties DEF Reps
  <2> QED BY <2>2, <2>3, <2>4 DEF Outcome
<1> HIDE DEF after
<1>3. step \in [1 .. count -> [SUBSET O -> SUBSET O]]
  BY <1>2
<1> HIDE DEF start
<1>4. PICK g : Iterates(g, count, SUBSET O, start, step)
  <2> HIDE DEF O, step
  <2> QED BY <1>1, <1>3, Recursion
<1>5. g = [i \in 0 .. count |-> IF i = 0 THEN start ELSE after(g[i - 1])]
  <2>1. ASSUME NEW i \in 1 .. count PROVE g[i] = after(g[i - 1])
    <3>1. i - 1 \in 0 .. count
      OBVIOUS
    <3>2. g[i - 1] \in SUBSET O
      BY <1>4, <3>1 DEF Iterates
    <3> QED BY <1>4, <3>2 DEF Iterates
  <2>2. g = [i \in 0 .. count |-> g[i]] /\ g[0] = start
    BY <1>4 DEF Iterates
  <2>3. \A i \in 0 .. count : i # 0 => i \in 1 .. count
    OBVIOUS
  <2> QED BY <2>1, <2>2, <2>3
<1>6. f = [i \in 0 .. count |-> IF i = 0 THEN start ELSE after(f[i - 1])]
  BY <1>5 DEF FromStep, start, after
<1>7. RepsFrom(buf, pos, count) = f[count]
  BY DEF RepsFrom, FromStep
<1> HIDE DEF f
<1>8. f[0] = start /\ \A i \in 1 .. count : f[i] = after(f[i - 1])
  BY <1>6
<1> QED BY <1>7, <1>8 DEF f, start, after

(* A sequence of representations is one of one less, and its last. *)
LEMMA LastOfReps ==
  ASSUME NEW i \in Nat, NEW more \in Reps, Len(more) = i + 1
  PROVE  \E reps \in Reps, rep \in RecordRepresentation :
           Len(reps) = i /\ more = Append(reps, rep)
<1> DEFINE front == [j \in 1 .. i |-> more[j]]
<1>1. /\ more \in Seq(RecordRepresentation)
      /\ \A j \in 1 .. i + 1 : more[j] \in RecordRepresentation
  BY DEF Reps
<1>2. front \in Seq(RecordRepresentation) /\ Len(front) = i
  BY <1>1
<1>3. more[i + 1] \in RecordRepresentation
  BY <1>1
<1>4. /\ Append(front, more[i + 1]) \in Seq(RecordRepresentation)
      /\ Len(Append(front, more[i + 1])) = i + 1
      /\ \A j \in 1 .. i : Append(front, more[i + 1])[j] = front[j]
      /\ Append(front, more[i + 1])[i + 1] = more[i + 1]
  <2> HIDE DEF front
  <2> QED BY <1>2, <1>3, AppendProperties
<1>5. \A j \in 1 .. i + 1 : Append(front, more[i + 1])[j] = more[j]
  BY <1>4
<1>6. more = Append(front, more[i + 1])
  <2> HIDE DEF front
  <2> QED BY <1>1, <1>4, <1>5, SeqEqual
<1> QED BY <1>2, <1>3, <1>6 DEF Reps

(* So many representations are read exactly where they were written. *)
LEMMA CountedRepsRead ==
  ASSUME NEW buf \in Seq(Byte), NEW pos \in Nat, pos <= Len(buf), NEW count \in Nat, NEW r
  PROVE  r \in RepsFrom(buf, pos, count) <=>
           \E reps \in Reps : /\ Len(reps) = count /\ Holds(buf, pos, RepBytes(reps))
                              /\ r = Outcome(pos, RepBytes(reps), reps)
<1> DEFINE f == FromStep(buf, pos, count)
           Written(i, t) ==
             \E reps \in Reps : /\ Len(reps) = i /\ Holds(buf, pos, RepBytes(reps))
                                /\ t = Outcome(pos, RepBytes(reps), reps)
           T == {i \in Nat : i <= count => \A t : t \in f[i] <=> Written(i, t)}
<1>1. /\ RepsFrom(buf, pos, count) = f[count]
      /\ f[0] = {[pos |-> pos, val |-> <<>>]}
      /\ \A i \in 1 .. count : f[i] = Then(buf, f[i - 1], ReadRep)
  BY FromSteps
<1> HIDE DEF f
<1>2. 0 \in T
  <2>1. <<>> \in Reps /\ Len(<<>>) = 0 /\ \A reps \in Reps : Len(reps) = 0 => reps = <<>>
    BY EmptySeq DEF Reps
  <2>2. Holds(buf, pos, <<>>) /\ Outcome(pos, <<>>, <<>>) = [pos |-> pos, val |-> <<>>]
    <3>1. Len(<<>>) = 0 /\ pos + 0 = pos
      OBVIOUS
    <3> QED BY <3>1 DEF Holds, Outcome
  <2>3. \A t : t \in f[0] <=> t = Outcome(pos, <<>>, <<>>)
    BY <1>1, <2>2
  <2>4. \A t : Written(0, t) <=> t = Outcome(pos, <<>>, <<>>)
    BY <2>1, <2>2, RepBytesSteps
  <2> QED BY <2>3, <2>4
<1>3. ASSUME NEW i \in Nat, i \in T PROVE i + 1 \in T
  <2> SUFFICES ASSUME i + 1 <= count, NEW t PROVE t \in f[i + 1] <=> Written(i + 1, t)
    OBVIOUS
  <2>1. /\ f[i + 1] = Then(buf, f[i], ReadRep)
        /\ \A q : q \in f[i] <=> Written(i, q)
    <3>1. i + 1 \in 1 .. count /\ (i + 1) - 1 = i /\ i <= count
      OBVIOUS
    <3> QED BY <1>1, <1>3, <3>1
  <2>2. ASSUME NEW reps \in Reps
        PROVE  /\ RepBytes(reps) \in Seq(Byte) /\ Len(reps) \in Nat
               /\ Outcome(pos, RepBytes(reps), reps).pos = pos + Len(RepBytes(reps))
               /\ Outcome(pos, RepBytes(reps), reps).val = reps
               /\ pos + Len(RepBytes(reps)) \in Nat
    <3>1. RepBytes(reps) \in Seq(Byte) /\ Len(reps) \in Nat
      BY RepBytesSteps DEF Reps
    <3> QED BY <3>1, OutcomeFields
  <2>3. \A q \in f[i] : q.pos \in Nat
    BY <2>1, <2>2
  <2>4. t \in f[i + 1] <=>
          \E q \in f[i] : \E rep \in RecordRepresentation :
            /\ Holds(buf, q.pos, PutRep(rep))
            /\ t = Outcome(q.pos, PutRep(rep), Append(q.val, rep))
    BY <2>1, <2>3, OneMore
  <2>5. t \in f[i + 1] <=>
          \E reps \in Reps : \E rep \in RecordRepresentation :
            /\ Len(reps) = i /\ Holds(buf, pos, RepBytes(reps))
            /\ Holds(buf, pos + Len(RepBytes(reps)), PutRep(rep))
            /\ t = Outcome(pos + Len(RepBytes(reps)), PutRep(rep), Append(reps, rep))
    BY <2>1, <2>2, <2>4
  <2>6. ASSUME NEW reps \in Reps, NEW rep \in RecordRepresentation
        PROVE  /\ Holds(buf, pos, RepBytes(Append(reps, rep))) <=>
                    /\ Holds(buf, pos, RepBytes(reps))
                    /\ Holds(buf, pos + Len(RepBytes(reps)), PutRep(rep))
               /\ Outcome(pos, RepBytes(Append(reps, rep)), Append(reps, rep)) =
                    Outcome(pos + Len(RepBytes(reps)), PutRep(rep), Append(reps, rep))
               /\ Append(reps, rep) \in Reps /\ Len(Append(reps, rep)) = Len(reps) + 1
    <3>1. /\ RepBytes(Append(reps, rep)) = RepBytes(reps) \o PutRep(rep)
          /\ RepBytes(reps) \in Seq(Byte) /\ PutRep(rep) \in Seq(Byte)
      BY RepBytesSteps, RepShape
    <3>2. Append(reps, rep) \in Reps /\ Len(Append(reps, rep)) = Len(reps) + 1
      BY AppendProperties DEF Reps
    <3> DEFINE more == Append(reps, rep)
    <3> HIDE DEF more
    <3>3. /\ Holds(buf, pos, RepBytes(reps) \o PutRep(rep)) <=>
               /\ Holds(buf, pos, RepBytes(reps))
               /\ Holds(buf, pos + Len(RepBytes(reps)), PutRep(rep))
          /\ Outcome(pos, RepBytes(reps) \o PutRep(rep), more) =
               Outcome(pos + Len(RepBytes(reps)), PutRep(rep), more)
      <4>1. RepBytes(reps) \in Seq(Byte) /\ PutRep(rep) \in Seq(Byte)
        BY <3>1
      <4> QED BY ONLY buf \in Seq(Byte), pos \in Nat, <4>1, OneThenOther
    <3> QED BY <3>1, <3>2, <3>3 DEF more
  <2>7. ASSUME NEW more \in Reps, Len(more) = i + 1
        PROVE  \E reps \in Reps, rep \in RecordRepresentation :
                 Len(reps) = i /\ more = Append(reps, rep)
    BY <2>7, LastOfReps
  <2>8. ASSUME t \in f[i + 1] PROVE Written(i + 1, t)
    BY <2>5, <2>6, <2>8
  <2>9. ASSUME Written(i + 1, t) PROVE t \in f[i + 1]
    <3>1. PICK more \in Reps : /\ Len(more) = i + 1 /\ Holds(buf, pos, RepBytes(more))
                               /\ t = Outcome(pos, RepBytes(more), more)
      BY <2>9
    <3>2. PICK reps \in Reps, rep \in RecordRepresentation :
            Len(reps) = i /\ more = Append(reps, rep)
      BY <2>7, <3>1
    <3> QED BY <2>5, <2>6, <3>1, <3>2
  <2> QED BY <2>8, <2>9
<1>4. count \in T
  <2> HIDE DEF T
  <2> QED BY <1>2, <1>3, Induction
<1>5. \A t : t \in f[count] <=> Written(count, t)
  BY <1>4
<1> HIDE DEF T
<1> QED BY <1>1, <1>5

LEMMA RepsShape ==
  ASSUME NEW reps \in Reps
  PROVE  /\ Len(reps) \in Nat /\ PutU32(Len(reps)) \in Seq(Byte) /\ RepBytes(reps) \in Seq(Byte)
         /\ PutReps(reps) \in Seq(Byte)
<1>1. Len(reps) \in Nat
  BY DEF Reps
<1>2. PutU32(Len(reps)) \in Seq(Byte) /\ RepBytes(reps) \in Seq(Byte)
  BY <1>1, PrefixShape, RepBytesSteps
<1> QED BY <1>1, <1>2, ConcatProperties DEF PutReps

CappedReps == {reps \in Reps : Len(reps) <= MaxRepresentations}

LEMMA RepsRead ==
  ASSUME NEW buf \in Seq(Byte), NEW pos \in Nat, NEW r
  PROVE  r \in ReadReps(buf, pos) <=>
           \E reps \in CappedReps :
             Holds(buf, pos, PutReps(reps)) /\ r = Outcome(pos, PutReps(reps), reps)
<1> DEFINE After(n) == pos + Len(PutU32(n))
<1>1. ASSUME NEW n \in Nat, Holds(buf, pos, PutU32(n))
      PROVE  After(n) \in Nat /\ After(n) <= Len(buf)
  <2>1. Len(PutU32(n)) \in Nat
    BY PrefixShape
  <2> QED BY <1>1, <2>1 DEF Holds
<1>2. ASSUME NEW reps \in Reps
      PROVE  /\ Holds(buf, pos, PutReps(reps)) <=>
                  /\ Holds(buf, pos, PutU32(Len(reps)))
                  /\ Holds(buf, After(Len(reps)), RepBytes(reps))
             /\ Outcome(pos, PutReps(reps), reps) = Outcome(After(Len(reps)), RepBytes(reps), reps)
  <2>1. PutU32(Len(reps)) \in Seq(Byte) /\ RepBytes(reps) \in Seq(Byte)
    BY RepsShape
  <2>2. /\ Holds(buf, pos, PutU32(Len(reps)) \o RepBytes(reps)) <=>
             /\ Holds(buf, pos, PutU32(Len(reps)))
             /\ Holds(buf, After(Len(reps)), RepBytes(reps))
        /\ Outcome(pos, PutU32(Len(reps)) \o RepBytes(reps), reps) =
             Outcome(After(Len(reps)), RepBytes(reps), reps)
    BY ONLY buf \in Seq(Byte), pos \in Nat, <2>1, OneThenOther
  <2> QED BY <2>2 DEF PutReps
<1> HIDE DEF After
<1>3. r \in ReadReps(buf, pos) <=>
        \E n \in Nat : /\ n < Limit /\ n <= MaxRepresentations /\ Holds(buf, pos, PutU32(n))
                       /\ r \in RepsFrom(buf, After(n), n)
  <2>1. r \in ReadReps(buf, pos) <=>
          \E t \in ReadU32(buf, pos) : WithinCap(t.val) /\ r \in RepsFrom(buf, t.pos, t.val)
    BY DEF ReadReps
  <2>2. \A t : t \in ReadU32(buf, pos) <=>
          \E n \in Nat : /\ n < Limit /\ Holds(buf, pos, PutU32(n))
                         /\ t = Outcome(pos, PutU32(n), n)
    BY U32Read
  <2>3. \A n : Outcome(pos, PutU32(n), n).pos = After(n) /\ Outcome(pos, PutU32(n), n).val = n
    BY DEF Outcome, After
  <2> QED BY <2>1, <2>2, <2>3 DEF WithinCap
<1>4. ASSUME NEW n \in Nat, Holds(buf, pos, PutU32(n))
      PROVE  r \in RepsFrom(buf, After(n), n) <=>
               \E reps \in Reps : /\ Len(reps) = n /\ Holds(buf, After(n), RepBytes(reps))
                                  /\ r = Outcome(After(n), RepBytes(reps), reps)
  BY <1>1, <1>4, CountedRepsRead
<1>5. ASSUME r \in ReadReps(buf, pos)
      PROVE  \E reps \in CappedReps :
               Holds(buf, pos, PutReps(reps)) /\ r = Outcome(pos, PutReps(reps), reps)
  <2>1. PICK n \in Nat : /\ n <= MaxRepresentations /\ Holds(buf, pos, PutU32(n))
                         /\ r \in RepsFrom(buf, After(n), n)
    BY <1>3, <1>5
  <2>2. PICK reps \in Reps : /\ Len(reps) = n /\ Holds(buf, After(n), RepBytes(reps))
                             /\ r = Outcome(After(n), RepBytes(reps), reps)
    BY <1>4, <2>1
  <2> QED BY <1>2, <2>1, <2>2 DEF CappedReps
<1>6. ASSUME NEW reps \in CappedReps, Holds(buf, pos, PutReps(reps)),
             r = Outcome(pos, PutReps(reps), reps)
      PROVE  r \in ReadReps(buf, pos)
  <2>1. reps \in Reps /\ Len(reps) \in Nat /\ Len(reps) <= MaxRepresentations
    BY RepsShape DEF CappedReps
  <2>2. Len(reps) < Limit
    <3>1. Limit \in Nat
      BY Powers, LayoutAssumption DEF Limit
    <3> QED BY <2>1, <3>1, LayoutAssumption
  <2>3. r \in RepsFrom(buf, After(Len(reps)), Len(reps))
    BY <1>2, <1>4, <1>6, <2>1
  <2> QED BY <1>2, <1>3, <1>6, <2>1, <2>2, <2>3
<1> QED BY <1>5, <1>6

----------------------------------------------------------------------------
(* One field after another                                                 *)

(* read reads the values of X as put writes them, at any position. *)
ReadsField(buf, read, X, put) ==
  \A pos \in Nat : \A v : v \in read[pos] <=>
    \E x \in X : Holds(buf, pos, put[x]) /\ v = Outcome(pos, put[x], x)

(* The outcomes are those of reading the values of Q as pre writes them.   *)
ReadsFields(buf, outcomes, Q, pre) ==
  \A t : t \in outcomes <=> \E q \in Q : Holds(buf, 0, pre[q]) /\ t = Outcome(0, pre[q], q)

(* The same, with the values of X after those of Q. *)
ReadsBoth(buf, outcomes, Q, pre, X, put) ==
  \A r : r \in outcomes <=>
    \E q \in Q : \E x \in X :
      /\ Holds(buf, 0, pre[q] \o put[x])
      /\ r = Outcome(0, pre[q] \o put[x], Append(q, x))

ThenReads(outcomes, read) ==
  UNION {{[v EXCEPT !.val = Append(t.val, @)] : v \in read[t.pos]} : t \in outcomes}

LEMMA FieldAfterFields ==
  ASSUME NEW buf \in Seq(Byte), NEW Q, NEW pre \in [Q -> Seq(Byte)], NEW outcomes,
         ReadsFields(buf, outcomes, Q, pre),
         NEW X, NEW put \in [X -> Seq(Byte)], NEW read, ReadsField(buf, read, X, put)
  PROVE  ReadsBoth(buf, ThenReads(outcomes, read), Q, pre, X, put)
<1> SUFFICES ASSUME NEW r
             PROVE  r \in ThenReads(outcomes, read) <=>
                      \E q \in Q : \E x \in X :
                        /\ Holds(buf, 0, pre[q] \o put[x])
                        /\ r = Outcome(0, pre[q] \o put[x], Append(q, x))
  BY DEF ReadsBoth
<1> DEFINE Added(t, v) == [v EXCEPT !.val = Append(t.val, @)]
           After(t) == {Added(t, v) : v \in read[t.pos]}
<1>1. ThenReads(outcomes, read) = UNION {After(t) : t \in outcomes}
  BY DEF ThenReads
<1>2. ASSUME NEW q \in Q
      PROVE  /\ Outcome(0, pre[q], q).pos = Len(pre[q]) /\ Outcome(0, pre[q], q).val = q
             /\ Len(pre[q]) \in Nat
  <2>1. pre[q] \in Seq(Byte) /\ Len(pre[q]) \in Nat
    OBVIOUS
  <2>2. 0 + Len(pre[q]) = Len(pre[q])
    BY <2>1
  <2> QED BY <2>1, <2>2, OutcomeFields
<1>3. ASSUME NEW t, NEW q, t.val = q, NEW p, NEW b, NEW x
      PROVE  Added(t, Outcome(p, b, x)) = Outcome(p, b, Append(q, x))
  <2> DEFINE o == Outcome(p, b, x)
             more == Append(q, x)
  <2> HIDE DEF more
  <2>1. o.val = x
    BY OutcomeFields
  <2>2. [o EXCEPT !.val = more] = Outcome(p, b, more)
    BY ONLY OutcomeFields
  <2> HIDE DEF o
  <2>3. Append(t.val, o.val) = more
    BY <1>3, <2>1 DEF more
  <2>4. Added(t, o) = [o EXCEPT !.val = Append(t.val, o.val)]
    OBVIOUS
  <2> HIDE DEF Added
  <2>5. Added(t, o) = Outcome(p, b, more)
    BY <2>2, <2>3, <2>4
  <2> QED BY <2>5 DEF o, more
<1> HIDE DEF Added
<1>4. ASSUME NEW q \in Q, NEW x \in X
      PROVE  /\ Holds(buf, 0, pre[q] \o put[x]) <=>
                  Holds(buf, 0, pre[q]) /\ Holds(buf, Len(pre[q]), put[x])
             /\ Outcome(0, pre[q] \o put[x], Append(q, x)) = Outcome(Len(pre[q]), put[x], Append(q, x))
  <2> DEFINE a == pre[q]
             b == put[x]
             v == Append(q, x)
             z == 0
  <2>1. a \in Seq(Byte) /\ b \in Seq(Byte) /\ z \in Nat
    OBVIOUS
  <2>2. z + Len(a) = Len(a)
    OBVIOUS
  <2> HIDE DEF a, b, v, z
  <2>3. /\ Holds(buf, z, a \o b) <=> Holds(buf, z, a) /\ Holds(buf, z + Len(a), b)
        /\ Outcome(z, a \o b, v) = Outcome(z + Len(a), b, v)
    BY ONLY buf \in Seq(Byte), <2>1, OneThenOther
  <2> QED BY <2>2, <2>3 DEF a, b, v, z
<1>5. ASSUME NEW q \in Q
      PROVE  \A v : v \in read[Len(pre[q])] <=>
               \E x \in X : Holds(buf, Len(pre[q]), put[x]) /\ v = Outcome(Len(pre[q]), put[x], x)
  BY <1>2 DEF ReadsField
<1>6. ASSUME NEW t, NEW q \in Q, t = Outcome(0, pre[q], q)
      PROVE  r \in After(t) <=>
               \E x \in X : /\ Holds(buf, Len(pre[q]), put[x])
                            /\ r = Outcome(Len(pre[q]), put[x], Append(q, x))
  <2>1. t.val = q /\ t.pos = Len(pre[q])
    BY <1>2, <1>6
  <2>2. \A x : Added(t, Outcome(Len(pre[q]), put[x], x)) = Outcome(Len(pre[q]), put[x], Append(q, x))
    BY <1>3, <2>1
  <2>3. r \in After(t) <=> \E v \in read[Len(pre[q])] : r = Added(t, v)
    BY <2>1
  <2> QED BY <1>5, <2>2, <2>3
<1> HIDE DEF After
<1>7. ASSUME r \in ThenReads(outcomes, read)
      PROVE  \E q \in Q : \E x \in X :
               /\ Holds(buf, 0, pre[q] \o put[x])
               /\ r = Outcome(0, pre[q] \o put[x], Append(q, x))
  <2>1. PICK t \in outcomes : r \in After(t)
    BY <1>1, <1>7
  <2>2. PICK q \in Q : Holds(buf, 0, pre[q]) /\ t = Outcome(0, pre[q], q)
    BY DEF ReadsFields
  <2>3. PICK x \in X : /\ Holds(buf, Len(pre[q]), put[x])
                       /\ r = Outcome(Len(pre[q]), put[x], Append(q, x))
    BY <1>6, <2>1, <2>2
  <2> QED BY <1>4, <2>2, <2>3
<1>8. ASSUME NEW q \in Q, NEW x \in X, Holds(buf, 0, pre[q] \o put[x]),
             r = Outcome(0, pre[q] \o put[x], Append(q, x))
      PROVE  r \in ThenReads(outcomes, read)
  <2> DEFINE t == Outcome(0, pre[q], q)
  <2>1. t \in outcomes
    BY <1>4, <1>8 DEF ReadsFields
  <2>2. r \in After(t)
    BY <1>4, <1>6, <1>8
  <2> QED BY <1>1, <2>1, <2>2
<1> QED BY <1>7, <1>8

----------------------------------------------------------------------------
(* The whole plaintext                                                     *)

Q1 == {<<t>> : t \in Utf8String}
Q2 == Utf8String \X Utf8String
Q3 == Utf8String \X Utf8String \X Bundle
Q4 == Utf8String \X Utf8String \X Bundle \X BOOLEAN

Pre1 == [q \in Q1 |-> PutBytes(q[1])]
Pre2 == [q \in Q2 |-> PutBytes(q[1]) \o PutBytes(q[2])]
Pre3 == [q \in Q3 |-> PutBytes(q[1]) \o PutBytes(q[2]) \o PutBundle(q[3])]
Pre4 == [q \in Q4 |-> PutBytes(q[1]) \o PutBytes(q[2]) \o PutBundle(q[3]) \o PutFlag(q[4])]

PutString == [s \in Utf8String |-> PutBytes(s)]
PutBundles == [b \in Bundle |-> PutBundle(b)]
PutFlags == [b \in BOOLEAN |-> PutFlag(b)]
PutCapped == [reps \in CappedReps |-> PutReps(reps)]

LEMMA PrefixesAreBytes ==
  /\ Pre1 \in [Q1 -> Seq(Byte)] /\ Pre2 \in [Q2 -> Seq(Byte)]
  /\ Pre3 \in [Q3 -> Seq(Byte)] /\ Pre4 \in [Q4 -> Seq(Byte)]
  /\ PutString \in [Utf8String -> Seq(Byte)] /\ PutBundles \in [Bundle -> Seq(Byte)]
  /\ PutFlags \in [BOOLEAN -> Seq(Byte)] /\ PutCapped \in [CappedReps -> Seq(Byte)]
<1>1. \A s \in Utf8String : PutBytes(s) \in Seq(Byte)
  BY FieldShape DEF Utf8String
<1>2. \A s \in Utf8String, t \in Utf8String : PutBytes(s) \o PutBytes(t) \in Seq(Byte)
  BY <1>1, ConcatProperties
<1>3. \A s \in Utf8String, t \in Utf8String, b \in Bundle :
        PutBytes(s) \o PutBytes(t) \o PutBundle(b) \in Seq(Byte)
  BY <1>2, BundleShape, ConcatProperties
<1>4. \A s \in Utf8String, t \in Utf8String, b \in Bundle, c \in BOOLEAN :
        PutBytes(s) \o PutBytes(t) \o PutBundle(b) \o PutFlag(c) \in Seq(Byte)
  BY <1>3, FlagShape, ConcatProperties
<1>5. PutString \in [Utf8String -> Seq(Byte)]
  BY <1>1 DEF PutString
<1>6. Pre1 \in [Q1 -> Seq(Byte)]
  BY <1>1 DEF Pre1, Q1
<1>7. Pre2 \in [Q2 -> Seq(Byte)]
  BY <1>2 DEF Pre2, Q2
<1>8. Pre3 \in [Q3 -> Seq(Byte)]
  BY <1>3 DEF Pre3, Q3
<1>9. Pre4 \in [Q4 -> Seq(Byte)]
  BY <1>4 DEF Pre4, Q4
<1>10. PutBundles \in [Bundle -> Seq(Byte)]
  BY BundleShape DEF PutBundles
<1>11. PutFlags \in [BOOLEAN -> Seq(Byte)]
  BY FlagShape DEF PutFlags
<1>12. PutCapped \in [CappedReps -> Seq(Byte)]
  BY RepsShape DEF PutCapped, CappedReps
<1> QED BY <1>5, <1>6, <1>7, <1>8, <1>9, <1>10, <1>11, <1>12

LEMMA OutcomesStandSomewhere ==
  ASSUME NEW buf, NEW outcomes, NEW Q, NEW pre \in [Q -> Seq(Byte)], ReadsFields(buf, outcomes, Q, pre)
  PROVE  \A t \in outcomes : t.pos \in Nat
<1> SUFFICES ASSUME NEW t \in outcomes PROVE t.pos \in Nat
  OBVIOUS
<1>1. PICK q \in Q : t = Outcome(0, pre[q], q)
  BY DEF ReadsFields
<1>2. Len(pre[q]) \in Nat
  OBVIOUS
<1>3. t.pos = 0 + Len(pre[q])
  BY <1>1, OutcomeFields
<1> QED BY <1>2, <1>3

(* A string after the fields before it, and so for the other readers. *)
LEMMA StringAfter ==
  ASSUME NEW buf \in Seq(Byte), NEW Q, NEW pre \in [Q -> Seq(Byte)], NEW outcomes,
         ReadsFields(buf, outcomes, Q, pre)
  PROVE  ReadsBoth(buf, Then(buf, outcomes, ReadString), Q, pre, Utf8String, PutString)
<1> DEFINE read == [pos \in Nat |-> ReadString(buf, pos)]
           F(t) == {[v EXCEPT !.val = Append(t.val, @)] : v \in ReadString(buf, t.pos)}
           G(t) == {[v EXCEPT !.val = Append(t.val, @)] : v \in read[t.pos]}
           next == Then(buf, outcomes, ReadString)
<1>1. ReadsField(buf, read, Utf8String, PutString)
  <2>1. \A s \in Utf8String : PutString[s] = PutBytes(s)
    BY DEF PutString
  <2>2. \A pos \in Nat : read[pos] = ReadString(buf, pos)
    OBVIOUS
  <2> HIDE DEF read
  <2>3. ASSUME NEW pos \in Nat, NEW v
        PROVE  v \in read[pos] <=>
                 \E s \in Utf8String : Holds(buf, pos, PutString[s]) /\ v = Outcome(pos, PutString[s], s)
    <3>1. v \in ReadString(buf, pos) <=>
            \E s \in Utf8String : Holds(buf, pos, PutBytes(s)) /\ v = Outcome(pos, PutBytes(s), s)
      BY StringRead
    <3> QED BY ONLY <2>1, <2>2, <3>1, pos \in Nat
  <2> QED BY <2>3 DEF ReadsField
<1>2. \A t \in outcomes : F(t) = G(t)
  <2> SUFFICES ASSUME NEW t \in outcomes PROVE F(t) = G(t)
    OBVIOUS
  <2>1. read[t.pos] = ReadString(buf, t.pos)
    BY OutcomesStandSomewhere
  <2> HIDE DEF read
  <2> QED BY <2>1
<1>3. Then(buf, outcomes, ReadString) = UNION {F(t) : t \in outcomes}
  BY DEF Then
<1>4. ThenReads(outcomes, read) = UNION {G(t) : t \in outcomes}
  BY DEF ThenReads
<1>5. next = ThenReads(outcomes, read)
  <2> HIDE DEF F, G
  <2> QED BY <1>2, <1>3, <1>4
<1> HIDE DEF read, next
<1>6. ReadsBoth(buf, ThenReads(outcomes, read), Q, pre, Utf8String, PutString)
  BY <1>1, PrefixesAreBytes, FieldAfterFields
<1>7. ReadsBoth(buf, next, Q, pre, Utf8String, PutString)
  BY <1>5, <1>6
<1> QED BY <1>7 DEF next

LEMMA BundleAfter ==
  ASSUME NEW buf \in Seq(Byte), NEW Q, NEW pre \in [Q -> Seq(Byte)], NEW outcomes,
         ReadsFields(buf, outcomes, Q, pre)
  PROVE  ReadsBoth(buf, Then(buf, outcomes, ReadBundle), Q, pre, Bundle, PutBundles)
<1> DEFINE read == [pos \in Nat |-> ReadBundle(buf, pos)]
           F(t) == {[v EXCEPT !.val = Append(t.val, @)] : v \in ReadBundle(buf, t.pos)}
           G(t) == {[v EXCEPT !.val = Append(t.val, @)] : v \in read[t.pos]}
           next == Then(buf, outcomes, ReadBundle)
<1>1. ReadsField(buf, read, Bundle, PutBundles)
  <2>1. \A b \in Bundle : PutBundles[b] = PutBundle(b)
    BY DEF PutBundles
  <2>2. \A pos \in Nat : read[pos] = ReadBundle(buf, pos)
    OBVIOUS
  <2> HIDE DEF read
  <2>3. ASSUME NEW pos \in Nat, NEW v
        PROVE  v \in read[pos] <=>
                 \E b \in Bundle : Holds(buf, pos, PutBundles[b]) /\ v = Outcome(pos, PutBundles[b], b)
    <3>1. v \in ReadBundle(buf, pos) <=>
            \E b \in Bundle : Holds(buf, pos, PutBundle(b)) /\ v = Outcome(pos, PutBundle(b), b)
      BY BundleRead
    <3> QED BY ONLY <2>1, <2>2, <3>1, pos \in Nat
  <2> QED BY <2>3 DEF ReadsField
<1>2. \A t \in outcomes : F(t) = G(t)
  <2> SUFFICES ASSUME NEW t \in outcomes PROVE F(t) = G(t)
    OBVIOUS
  <2>1. read[t.pos] = ReadBundle(buf, t.pos)
    BY OutcomesStandSomewhere
  <2> HIDE DEF read
  <2> QED BY <2>1
<1>3. Then(buf, outcomes, ReadBundle) = UNION {F(t) : t \in outcomes}
  BY DEF Then
<1>4. ThenReads(outcomes, read) = UNION {G(t) : t \in outcomes}
  BY DEF ThenReads
<1>5. next = ThenReads(outcomes, read)
  <2> HIDE DEF F, G
  <2> QED BY <1>2, <1>3, <1>4
<1> HIDE DEF read, next
<1>6. ReadsBoth(buf, ThenReads(outcomes, read), Q, pre, Bundle, PutBundles)
  BY <1>1, PrefixesAreBytes, FieldAfterFields
<1>7. ReadsBoth(buf, next, Q, pre, Bundle, PutBundles)
  BY <1>5, <1>6
<1> QED BY <1>7 DEF next

LEMMA FlagAfter ==
  ASSUME NEW buf \in Seq(Byte), NEW Q, NEW pre \in [Q -> Seq(Byte)], NEW outcomes,
         ReadsFields(buf, outcomes, Q, pre)
  PROVE  ReadsBoth(buf, Then(buf, outcomes, ReadFlag), Q, pre, BOOLEAN, PutFlags)
<1> DEFINE read == [pos \in Nat |-> ReadFlag(buf, pos)]
           F(t) == {[v EXCEPT !.val = Append(t.val, @)] : v \in ReadFlag(buf, t.pos)}
           G(t) == {[v EXCEPT !.val = Append(t.val, @)] : v \in read[t.pos]}
           next == Then(buf, outcomes, ReadFlag)
<1>1. ReadsField(buf, read, BOOLEAN, PutFlags)
  <2>1. \A b \in BOOLEAN : PutFlags[b] = PutFlag(b)
    BY DEF PutFlags
  <2>2. \A pos \in Nat : read[pos] = ReadFlag(buf, pos)
    OBVIOUS
  <2> HIDE DEF read
  <2>3. ASSUME NEW pos \in Nat, NEW v
        PROVE  v \in read[pos] <=>
                 \E b \in BOOLEAN : Holds(buf, pos, PutFlags[b]) /\ v = Outcome(pos, PutFlags[b], b)
    <3>1. v \in ReadFlag(buf, pos) <=>
            \E b \in BOOLEAN : Holds(buf, pos, PutFlag(b)) /\ v = Outcome(pos, PutFlag(b), b)
      BY FlagRead
    <3> QED BY ONLY <2>1, <2>2, <3>1, pos \in Nat
  <2> QED BY <2>3 DEF ReadsField
<1>2. \A t \in outcomes : F(t) = G(t)
  <2> SUFFICES ASSUME NEW t \in outcomes PROVE F(t) = G(t)
    OBVIOUS
  <2>1. read[t.pos] = ReadFlag(buf, t.pos)
    BY OutcomesStandSomewhere
  <2> HIDE DEF read
  <2> QED BY <2>1
<1>3. Then(buf, outcomes, ReadFlag) = UNION {F(t) : t \in outcomes}
  BY DEF Then
<1>4. ThenReads(outcomes, read) = UNION {G(t) : t \in outcomes}
  BY DEF ThenReads
<1>5. next = ThenReads(outcomes, read)
  <2> HIDE DEF F, G
  <2> QED BY <1>2, <1>3, <1>4
<1> HIDE DEF read, next
<1>6. ReadsBoth(buf, ThenReads(outcomes, read), Q, pre, BOOLEAN, PutFlags)
  BY <1>1, PrefixesAreBytes, FieldAfterFields
<1>7. ReadsBoth(buf, next, Q, pre, BOOLEAN, PutFlags)
  BY <1>5, <1>6
<1> QED BY <1>7 DEF next

LEMMA RepsAfter ==
  ASSUME NEW buf \in Seq(Byte), NEW Q, NEW pre \in [Q -> Seq(Byte)], NEW outcomes,
         ReadsFields(buf, outcomes, Q, pre)
  PROVE  ReadsBoth(buf, Then(buf, outcomes, ReadReps), Q, pre, CappedReps, PutCapped)
<1> DEFINE read == [pos \in Nat |-> ReadReps(buf, pos)]
           F(t) == {[v EXCEPT !.val = Append(t.val, @)] : v \in ReadReps(buf, t.pos)}
           G(t) == {[v EXCEPT !.val = Append(t.val, @)] : v \in read[t.pos]}
           next == Then(buf, outcomes, ReadReps)
<1>1. ReadsField(buf, read, CappedReps, PutCapped)
  <2>1. \A reps \in CappedReps : PutCapped[reps] = PutReps(reps)
    BY DEF PutCapped
  <2>2. \A pos \in Nat : read[pos] = ReadReps(buf, pos)
    OBVIOUS
  <2> HIDE DEF read
  <2>3. ASSUME NEW pos \in Nat, NEW v
        PROVE  v \in read[pos] <=>
                 \E reps \in CappedReps : Holds(buf, pos, PutCapped[reps]) /\ v = Outcome(pos, PutCapped[reps], reps)
    <3>1. v \in ReadReps(buf, pos) <=>
            \E reps \in CappedReps : Holds(buf, pos, PutReps(reps)) /\ v = Outcome(pos, PutReps(reps), reps)
      BY RepsRead
    <3> QED BY ONLY <2>1, <2>2, <3>1, pos \in Nat
  <2> QED BY <2>3 DEF ReadsField
<1>2. \A t \in outcomes : F(t) = G(t)
  <2> SUFFICES ASSUME NEW t \in outcomes PROVE F(t) = G(t)
    OBVIOUS
  <2>1. read[t.pos] = ReadReps(buf, t.pos)
    BY OutcomesStandSomewhere
  <2> HIDE DEF read
  <2> QED BY <2>1
<1>3. Then(buf, outcomes, ReadReps) = UNION {F(t) : t \in outcomes}
  BY DEF Then
<1>4. ThenReads(outcomes, read) = UNION {G(t) : t \in outcomes}
  BY DEF ThenReads
<1>5. next = ThenReads(outcomes, read)
  <2> HIDE DEF F, G
  <2> QED BY <1>2, <1>3, <1>4
<1> HIDE DEF read, next
<1>6. ReadsBoth(buf, ThenReads(outcomes, read), Q, pre, CappedReps, PutCapped)
  BY <1>1, PrefixesAreBytes, FieldAfterFields
<1>7. ReadsBoth(buf, next, Q, pre, CappedReps, PutCapped)
  BY <1>5, <1>6
<1> QED BY <1>7 DEF next

(* R is Q with a value of X more, and both writes it after the rest. *)
Extends(R, both, Q, pre, X, put) ==
  /\ \A q \in Q : \A x \in X : Append(q, x) \in R /\ both[Append(q, x)] = pre[q] \o put[x]
  /\ \A z \in R : \E q \in Q : \E x \in X : z = Append(q, x)

LEMMA ReadsExtended ==
  ASSUME NEW buf, NEW outcomes, NEW Q, NEW pre, NEW X, NEW put,
         ReadsBoth(buf, outcomes, Q, pre, X, put), NEW R, NEW both, Extends(R, both, Q, pre, X, put)
  PROVE  ReadsFields(buf, outcomes, R, both)
<1> SUFFICES ASSUME NEW t
             PROVE  t \in outcomes <=> \E z \in R : Holds(buf, 0, both[z]) /\ t = Outcome(0, both[z], z)
  BY DEF ReadsFields
<1>1. ASSUME t \in outcomes
      PROVE  \E z \in R : Holds(buf, 0, both[z]) /\ t = Outcome(0, both[z], z)
  <2>1. PICK q \in Q, x \in X : /\ Holds(buf, 0, pre[q] \o put[x])
                                /\ t = Outcome(0, pre[q] \o put[x], Append(q, x))
    BY <1>1 DEF ReadsBoth
  <2> QED BY <2>1 DEF Extends
<1>2. ASSUME NEW z \in R, Holds(buf, 0, both[z]), t = Outcome(0, both[z], z) PROVE t \in outcomes
  <2>1. PICK q \in Q, x \in X : z = Append(q, x)
    BY DEF Extends
  <2>2. both[z] = pre[q] \o put[x]
    BY <2>1 DEF Extends
  <2> QED BY <1>2, <2>1, <2>2 DEF ReadsBoth
<1> QED BY <1>1, <1>2

(* A tuple with a component more. *)
LEMMA PairAppended ==
  ASSUME NEW S, NEW x \in S, NEW y \in S
  PROVE  Append(<<x>>, y) = <<x, y>>
<1>1. <<x>> \in Seq(S) /\ <<x, y>> \in Seq(S) /\ Len(<<x>>) = 1 /\ Len(<<x, y>>) = 2
  OBVIOUS
<1>2. Append(<<x>>, y) \in Seq(S) /\ Len(Append(<<x>>, y)) = 2
  BY <1>1, AppendProperties
<1>3. Append(<<x>>, y)[1] = x /\ Append(<<x>>, y)[2] = y
  OBVIOUS
<1>4. \A i \in 1 .. 2 : Append(<<x>>, y)[i] = <<x, y>>[i]
  BY <1>3
<1> QED BY <1>1, <1>2, <1>4, SeqEqual

LEMMA TripleAppended ==
  ASSUME NEW S, NEW x \in S, NEW y \in S, NEW z \in S
  PROVE  Append(<<x, y>>, z) = <<x, y, z>>
<1>1. <<x, y>> \in Seq(S) /\ <<x, y, z>> \in Seq(S) /\ Len(<<x, y>>) = 2 /\ Len(<<x, y, z>>) = 3
  OBVIOUS
<1>2. Append(<<x, y>>, z) \in Seq(S) /\ Len(Append(<<x, y>>, z)) = 3
  BY <1>1, AppendProperties
<1>3. Append(<<x, y>>, z)[1] = x /\ Append(<<x, y>>, z)[2] = y /\ Append(<<x, y>>, z)[3] = z
  OBVIOUS
<1>4. \A i \in 1 .. 3 : Append(<<x, y>>, z)[i] = <<x, y, z>>[i]
  BY <1>3
<1> QED BY <1>1, <1>2, <1>4, SeqEqual

LEMMA QuadrupleAppended ==
  ASSUME NEW S, NEW w \in S, NEW x \in S, NEW y \in S, NEW z \in S
  PROVE  Append(<<w, x, y>>, z) = <<w, x, y, z>>
<1>1. <<w, x, y>> \in Seq(S) /\ <<w, x, y, z>> \in Seq(S) /\ Len(<<w, x, y>>) = 3 /\ Len(<<w, x, y, z>>) = 4
  OBVIOUS
<1>2. Append(<<w, x, y>>, z) \in Seq(S) /\ Len(Append(<<w, x, y>>, z)) = 4
  BY <1>1, AppendProperties
<1>3. Append(<<w, x, y>>, z)[1] = w /\ Append(<<w, x, y>>, z)[2] = x /\ Append(<<w, x, y>>, z)[3] = y /\ Append(<<w, x, y>>, z)[4] = z
  OBVIOUS
<1>4. \A i \in 1 .. 4 : Append(<<w, x, y>>, z)[i] = <<w, x, y, z>>[i]
  BY <1>3
<1> QED BY <1>1, <1>2, <1>4, SeqEqual

LEMMA Extensions ==
  /\ Extends(Q1, Pre1, {<<>>}, [q \in {<<>>} |-> <<>>], Utf8String, PutString)
  /\ Extends(Q2, Pre2, Q1, Pre1, Utf8String, PutString)
  /\ Extends(Q3, Pre3, Q2, Pre2, Bundle, PutBundles)
  /\ Extends(Q4, Pre4, Q3, Pre3, BOOLEAN, PutFlags)
<1>1. Extends(Q1, Pre1, {<<>>}, [q \in {<<>>} |-> <<>>], Utf8String, PutString)
  <2>1. \A s \in Utf8String : PutBytes(s) \in Seq(Byte) /\ <<>> \o PutBytes(s) = PutBytes(s)
    BY FieldShape, ConcatEmptySeq DEF Utf8String
  <2>2. \A x : Append(<<>>, x) = <<x>> /\ <<x>>[1] = x
    OBVIOUS
  <2> QED BY <2>1, <2>2 DEF Extends, Q1, Pre1, PutString
<1>2. Extends(Q2, Pre2, Q1, Pre1, Utf8String, PutString)
  <2>1. \A x, y : Append(<<x>>, y) = <<x, y>>
    <3> SUFFICES ASSUME NEW x, NEW y PROVE Append(<<x>>, y) = <<x, y>>
      OBVIOUS
    <3>1. x \in {x, y} /\ y \in {x, y}
      OBVIOUS
    <3> QED BY <3>1, PairAppended
  <2>2. ASSUME NEW q \in Q1, NEW x \in Utf8String
        PROVE  Append(q, x) \in Q2 /\ Pre2[Append(q, x)] = Pre1[q] \o PutString[x]
    <3>1. PICK s \in Utf8String : q = <<s>>
      BY DEF Q1
    <3>2. Append(q, x) = <<s, x>> /\ <<s, x>> \in Q2
      BY <2>1, <3>1 DEF Q2
    <3>3. Pre2[<<s, x>>] = PutBytes(s) \o PutBytes(x)
      BY <3>2 DEF Pre2
    <3>4. Pre1[q] = PutBytes(s) /\ PutString[x] = PutBytes(x)
      BY <3>1 DEF Pre1, PutString
    <3> QED BY <3>2, <3>3, <3>4
  <2>3. ASSUME NEW v \in Q2
        PROVE  \E q \in Q1 : \E x \in Utf8String : v = Append(q, x)
    <3>1. PICK s \in Utf8String, x \in Utf8String : v = <<s, x>>
      BY DEF Q2
    <3>2. <<s>> \in Q1
      BY DEF Q1
    <3> QED BY <2>1, <3>1, <3>2
  <2> QED BY <2>2, <2>3 DEF Extends
<1>3. Extends(Q3, Pre3, Q2, Pre2, Bundle, PutBundles)
  <2>1. \A x, y, z : Append(<<x, y>>, z) = <<x, y, z>>
    <3> SUFFICES ASSUME NEW x, NEW y, NEW z PROVE Append(<<x, y>>, z) = <<x, y, z>>
      OBVIOUS
    <3>1. x \in {x, y, z} /\ y \in {x, y, z} /\ z \in {x, y, z}
      OBVIOUS
    <3> QED BY <3>1, TripleAppended
  <2>2. ASSUME NEW q \in Q2, NEW x \in Bundle
        PROVE  Append(q, x) \in Q3 /\ Pre3[Append(q, x)] = Pre2[q] \o PutBundles[x]
    <3>1. PICK s \in Utf8String, t \in Utf8String : q = <<s, t>>
      BY DEF Q2
    <3>2. Append(q, x) = <<s, t, x>> /\ <<s, t, x>> \in Q3
      BY <2>1, <3>1 DEF Q3
    <3>3. Pre3[<<s, t, x>>] = PutBytes(s) \o PutBytes(t) \o PutBundle(x)
      BY <3>2 DEF Pre3
    <3>4. Pre2[q] = PutBytes(s) \o PutBytes(t) /\ PutBundles[x] = PutBundle(x)
      BY <3>1 DEF Pre2, PutBundles
    <3> QED BY <3>2, <3>3, <3>4
  <2>3. ASSUME NEW v \in Q3
        PROVE  \E q \in Q2 : \E x \in Bundle : v = Append(q, x)
    <3>1. PICK s \in Utf8String, t \in Utf8String, x \in Bundle : v = <<s, t, x>>
      BY DEF Q3
    <3>2. <<s, t>> \in Q2
      BY DEF Q2
    <3> QED BY <2>1, <3>1, <3>2
  <2> QED BY <2>2, <2>3 DEF Extends
<1>4. Extends(Q4, Pre4, Q3, Pre3, BOOLEAN, PutFlags)
  <2>1. \A w, x, y, z : Append(<<w, x, y>>, z) = <<w, x, y, z>>
    <3> SUFFICES ASSUME NEW w, NEW x, NEW y, NEW z PROVE Append(<<w, x, y>>, z) = <<w, x, y, z>>
      OBVIOUS
    <3>1. w \in {w, x, y, z} /\ x \in {w, x, y, z} /\ y \in {w, x, y, z} /\ z \in {w, x, y, z}
      OBVIOUS
    <3> QED BY <3>1, QuadrupleAppended
  <2>2. ASSUME NEW q \in Q3, NEW x \in BOOLEAN
        PROVE  Append(q, x) \in Q4 /\ Pre4[Append(q, x)] = Pre3[q] \o PutFlags[x]
    <3>1. PICK s \in Utf8String, t \in Utf8String, b \in Bundle : q = <<s, t, b>>
      BY DEF Q3
    <3>2. Append(q, x) = <<s, t, b, x>> /\ <<s, t, b, x>> \in Q4
      BY <2>1, <3>1 DEF Q4
    <3>3. Pre4[<<s, t, b, x>>] = PutBytes(s) \o PutBytes(t) \o PutBundle(b) \o PutFlag(x)
      BY <3>2 DEF Pre4
    <3>4. Pre3[q] = PutBytes(s) \o PutBytes(t) \o PutBundle(b) /\ PutFlags[x] = PutFlag(x)
      BY <3>1 DEF Pre3, PutFlags
    <3> QED BY <3>2, <3>3, <3>4
  <2>3. ASSUME NEW v \in Q4
        PROVE  \E q \in Q3 : \E x \in BOOLEAN : v = Append(q, x)
    <3>1. PICK s \in Utf8String, t \in Utf8String, b \in Bundle, x \in BOOLEAN : v = <<s, t, b, x>>
      BY DEF Q4
    <3>2. <<s, t, b>> \in Q3
      BY DEF Q3
    <3> QED BY <2>1, <3>1, <3>2
  <2> QED BY <2>2, <2>3 DEF Extends
<1> QED BY <1>1, <1>2, <1>3, <1>4

(* The title, the type, the bundle and the flag, as they are written.      *)
LEMMA FieldsRead ==
  ASSUME NEW buf \in Seq(Byte)
  PROVE  LET start   == {[pos |-> 0, val |-> <<>>]}
             strings == Then(buf, Then(buf, start, ReadString), ReadString)
             flags   == Then(buf, Then(buf, strings, ReadBundle), ReadFlag)
         IN  ReadsFields(buf, flags, Q4, Pre4)
<1> DEFINE start == {[pos |-> 0, val |-> <<>>]}
           none  == [q \in {<<>>} |-> <<>>]
           one   == Then(buf, start, ReadString)
           two   == Then(buf, one, ReadString)
           three == Then(buf, two, ReadBundle)
           four  == Then(buf, three, ReadFlag)
<1>1. none \in [{<<>>} -> Seq(Byte)] /\ ReadsFields(buf, start, {<<>>}, none)
  <2>1. none[<<>>] = <<>> /\ \A q \in {<<>>} : q = <<>>
    OBVIOUS
  <2>2. Holds(buf, 0, <<>>) /\ Outcome(0, <<>>, <<>>) = [pos |-> 0, val |-> <<>>]
    <3>1. Len(<<>>) = 0 /\ 0 + 0 = 0 /\ 0 <= Len(buf)
      OBVIOUS
    <3> QED BY <3>1 DEF Holds, Outcome
  <2>3. none \in [{<<>>} -> Seq(Byte)]
    OBVIOUS
  <2> HIDE DEF none
  <2> QED BY <2>1, <2>2, <2>3 DEF ReadsFields
<1>2. /\ Extends(Q1, Pre1, {<<>>}, none, Utf8String, PutString)
      /\ Extends(Q2, Pre2, Q1, Pre1, Utf8String, PutString)
      /\ Extends(Q3, Pre3, Q2, Pre2, Bundle, PutBundles)
      /\ Extends(Q4, Pre4, Q3, Pre3, BOOLEAN, PutFlags)
  BY Extensions
<1> DEFINE Z == {<<>>}
<1> HIDE DEF start, none, Z
<1>3. ReadsFields(buf, one, Q1, Pre1)
  <2>1. ReadsBoth(buf, one, Z, none, Utf8String, PutString)
    BY <1>1, StringAfter DEF Z
  <2> HIDE DEF one
  <2> QED BY <1>2, <2>1, ReadsExtended DEF Z
<1> HIDE DEF one
<1>4. ReadsFields(buf, two, Q2, Pre2)
  <2>1. ReadsBoth(buf, two, Q1, Pre1, Utf8String, PutString)
    BY <1>3, PrefixesAreBytes, StringAfter
  <2> HIDE DEF two
  <2> QED BY <1>2, <2>1, ReadsExtended
<1> HIDE DEF two
<1>5. ReadsFields(buf, three, Q3, Pre3)
  <2>1. ReadsBoth(buf, three, Q2, Pre2, Bundle, PutBundles)
    BY <1>4, PrefixesAreBytes, BundleAfter
  <2> HIDE DEF three
  <2> QED BY <1>2, <2>1, ReadsExtended
<1> HIDE DEF three
<1>6. ReadsFields(buf, four, Q4, Pre4)
  <2>1. ReadsBoth(buf, four, Q3, Pre3, BOOLEAN, PutFlags)
    BY <1>5, PrefixesAreBytes, FlagAfter
  <2> HIDE DEF four
  <2> QED BY <1>2, <2>1, ReadsExtended
<1> QED BY <1>6 DEF four, three, two, one, start

(* A plaintext of so many fields, and what is written for it. *)
LEMMA FieldsOf ==
  ASSUME NEW q \in Q4, NEW reps \in Reps
  PROVE  LET p == Plaintext(q[1], q[2], q[3], q[4], reps)
         IN  /\ Len(reps) < Limit => p \in RecordPlaintext
             /\ p.representations = reps
             /\ EncodePlaintext(p) = Pre4[q] \o PutReps(reps)
<1> DEFINE p == Plaintext(q[1], q[2], q[3], q[4], reps)
<1>1. /\ p.title = q[1] /\ p.primaryType = q[2] /\ p.sourceBundle = q[3]
      /\ p.isColorCode = q[4] /\ p.representations = reps
  BY DEF Plaintext
<1>2. Pre4[q] = PutBytes(q[1]) \o PutBytes(q[2]) \o PutBundle(q[3]) \o PutFlag(q[4])
  BY DEF Pre4
<1>3. q[1] \in Utf8String /\ q[2] \in Utf8String /\ q[3] \in Bundle /\ q[4] \in BOOLEAN
  BY DEF Q4
<1>4. Len(reps) < Limit => p \in RecordPlaintext
  BY <1>3 DEF Plaintext, RecordPlaintext, Bundle, Reps
<1> HIDE DEF p
<1>5. EncodePlaintext(p) = Pre4[q] \o PutReps(reps)
  BY <1>1, <1>2 DEF EncodePlaintext
<1> QED BY <1>1, <1>4, <1>5 DEF p

LEMMA FieldsIn ==
  ASSUME NEW p \in RecordPlaintext
  PROVE  \E q \in Q4 : \E reps \in Reps :
           /\ p = Plaintext(q[1], q[2], q[3], q[4], reps) /\ p.representations = reps
           /\ Len(reps) < Limit
<1> DEFINE q == <<p.title, p.primaryType, p.sourceBundle, p.isColorCode>>
<1>1. q \in Q4 /\ p.representations \in Reps /\ Len(p.representations) < Limit
  BY DEF RecordPlaintext, Q4, Bundle, Reps
<1>2. p = Plaintext(q[1], q[2], q[3], q[4], p.representations)
  BY DEF RecordPlaintext, Plaintext
<1> HIDE DEF q
<1> QED BY <1>1, <1>2

(***************************************************************************)
(* The reader accepts exactly what the writer writes of a record within    *)
(* the cap, whatever the bytes: each field's prefix, flag and UTF-8 check, *)
(* the count and the end together leave no other byte string that reads as *)
(* a record.                                                               *)
(***************************************************************************)
THEOREM Decoded ==
  ASSUME NEW buf \in Seq(Byte)
  PROVE  \A p : p \in DecodePlaintext(buf) <=>
           /\ p \in RecordPlaintext /\ Len(p.representations) <= MaxRepresentations
           /\ EncodePlaintext(p) = buf
<1> DEFINE strings == Then(buf, Then(buf, {[pos |-> 0, val |-> <<>>]}, ReadString), ReadString)
           flags   == Then(buf, Then(buf, strings, ReadBundle), ReadFlag)
           all     == Then(buf, flags, ReadReps)
           Made(r) == Plaintext(r.val[1], r.val[2], r.val[3], r.val[4], r.val[5])
           Of(q, reps) == Plaintext(q[1], q[2], q[3], q[4], reps)
           bytes(q, reps) == Pre4[q] \o PutReps(reps)
<1>1. ReadsFields(buf, flags, Q4, Pre4)
  BY FieldsRead
<1>2. \A p : p \in DecodePlaintext(buf) <=> \E r \in all : AtEnd(buf, r) /\ p = Made(r)
  <2>1. DecodePlaintext(buf) = {Made(r) : r \in {q \in all : AtEnd(buf, q)}}
    BY DEF DecodePlaintext
  <2> HIDE DEF all, Made
  <2> QED BY <2>1
<1> HIDE DEF flags
<1>3. ReadsBoth(buf, all, Q4, Pre4, CappedReps, PutCapped)
  BY <1>1, PrefixesAreBytes, RepsAfter
<1> HIDE DEF all
<1>4. \A r : r \in all <=> \E q \in Q4 : \E reps \in CappedReps :
        Holds(buf, 0, bytes(q, reps)) /\ r = Outcome(0, bytes(q, reps), Append(q, reps))
  BY <1>3 DEF ReadsBoth, PutCapped
<1>5. ASSUME NEW q \in Q4, NEW reps \in CappedReps
      PROVE  /\ Made(Outcome(0, bytes(q, reps), Append(q, reps))) = Of(q, reps)
             /\ Holds(buf, 0, bytes(q, reps))
                  /\ AtEnd(buf, Outcome(0, bytes(q, reps), Append(q, reps)))
                <=> bytes(q, reps) = buf
  <2> DEFINE more == Append(q, reps)
             b == bytes(q, reps)
  <2>1. /\ more[1] = q[1] /\ more[2] = q[2] /\ more[3] = q[3] /\ more[4] = q[4]
        /\ more[5] = reps
    <3>1. PICK s \in Utf8String, u \in Utf8String, c \in Bundle, f \in BOOLEAN : q = <<s, u, c, f>>
      BY DEF Q4
    <3>2. \A w, x, y, z, r : LET a == Append(<<w, x, y, z>>, r)
                             IN  a[1] = w /\ a[2] = x /\ a[3] = y /\ a[4] = z /\ a[5] = r
      OBVIOUS
    <3>3. q[1] = s /\ q[2] = u /\ q[3] = c /\ q[4] = f
      BY <3>1
    <3>4. LET a == Append(<<s, u, c, f>>, reps)
          IN  a[1] = s /\ a[2] = u /\ a[3] = c /\ a[4] = f /\ a[5] = reps
      BY <3>2
    <3> QED BY <3>1, <3>3, <3>4
  <2>2. b \in Seq(Byte)
    <3>1. Pre4[q] \in Seq(Byte) /\ PutReps(reps) \in Seq(Byte)
      BY PrefixesAreBytes, RepsShape DEF CappedReps
    <3> QED BY <3>1, ConcatProperties
  <2> HIDE DEF more, b
  <2>3. Outcome(0, b, more).val = more /\ Outcome(0, b, more).pos = 0 + Len(b)
    BY OutcomeFields
  <2>4. Made(Outcome(0, b, more)) = Of(q, reps)
    BY <2>1, <2>3
  <2>5. Holds(buf, 0, b) /\ Len(b) = Len(buf) <=> b = buf
    BY <2>2, HoldsAll
  <2>6. AtEnd(buf, Outcome(0, b, more)) <=> Len(b) = Len(buf)
    <3>1. 0 + Len(b) = Len(b)
      BY <2>2
    <3> QED BY <2>3, <3>1 DEF AtEnd
  <2> QED BY <2>4, <2>5, <2>6 DEF more, b
<1>6. ASSUME NEW q \in Q4, NEW reps \in CappedReps
      PROVE  /\ Of(q, reps) \in RecordPlaintext /\ Of(q, reps).representations = reps
             /\ Len(reps) <= MaxRepresentations
             /\ EncodePlaintext(Of(q, reps)) = bytes(q, reps)
  <2>1. reps \in Reps /\ Len(reps) \in Nat /\ Len(reps) <= MaxRepresentations
    BY RepsShape DEF CappedReps
  <2>2. Len(reps) < Limit
    <3>1. Limit \in Nat
      BY Powers, LayoutAssumption DEF Limit
    <3> QED BY <2>1, <3>1, LayoutAssumption
  <2> QED BY <2>1, <2>2, FieldsOf
<1> HIDE DEF Made, bytes, Of
<1>7. \A p : p \in DecodePlaintext(buf) <=>
        \E q \in Q4 : \E reps \in CappedReps : bytes(q, reps) = buf /\ p = Of(q, reps)
  BY <1>2, <1>4, <1>5
<1> TAKE p
<1>8. ASSUME p \in DecodePlaintext(buf)
      PROVE  /\ p \in RecordPlaintext /\ Len(p.representations) <= MaxRepresentations
             /\ EncodePlaintext(p) = buf
  BY <1>6, <1>7, <1>8
<1>9. ASSUME p \in RecordPlaintext, Len(p.representations) <= MaxRepresentations,
             EncodePlaintext(p) = buf
      PROVE  p \in DecodePlaintext(buf)
  <2>1. PICK q \in Q4, reps \in Reps :
          p = Plaintext(q[1], q[2], q[3], q[4], reps) /\ p.representations = reps
    <3>1. p \in RecordPlaintext
      BY <1>9
    <3> QED BY <3>1, FieldsIn
  <2>2. reps \in CappedReps
    BY <1>9, <2>1 DEF CappedReps
  <2>3. p = Of(q, reps)
    BY <2>1 DEF Of
  <2> QED BY <1>6, <1>7, <1>9, <2>2, <2>3
<1> QED BY <1>8, <1>9

----------------------------------------------------------------------------
(* One value is written in one place                                       *)

(* What is written at a place tells which value of X it is. *)
Told(X, put) ==
  \A buf \in Seq(Byte) : \A pos \in Nat : \A x \in X : \A y \in X :
    Holds(buf, pos, put[x]) /\ Holds(buf, pos, put[y]) => x = y

LEMMA PrefixTold ==
  ASSUME NEW buf \in Seq(Byte), NEW pos \in Nat, NEW m \in Nat, NEW n \in Nat,
         m < Limit, n < Limit, Holds(buf, pos, PutU32(m)), Holds(buf, pos, PutU32(n))
  PROVE  m = n
<1>1. PutU32(m) = PutU32(n)
  BY PrefixShape, HeldIsUnique
<1> QED BY <1>1, PrefixReadsBack

LEMMA BytesTold ==
  ASSUME NEW buf \in Seq(Byte), NEW pos \in Nat, NEW a \in ByteVec, NEW b \in ByteVec,
         Holds(buf, pos, PutBytes(a)), Holds(buf, pos, PutBytes(b))
  PROVE  a = b
<1>1. ASSUME NEW bytes \in ByteVec, Holds(buf, pos, PutBytes(bytes))
      PROVE  /\ Holds(buf, pos, PutU32(Len(bytes)))
             /\ Holds(buf, pos + Len(PutU32(Len(bytes))), bytes)
  <2>1. /\ PutU32(Len(bytes)) \in Seq(Byte) /\ bytes \in Seq(Byte)
        /\ PutBytes(bytes) = PutU32(Len(bytes)) \o bytes
    BY FieldShape DEF PutBytes
  <2> DEFINE put == PutU32(Len(bytes))
  <2> HIDE DEF put
  <2>2. put \in Seq(Byte) /\ Holds(buf, pos, put \o bytes)
    BY <1>1, <2>1 DEF put
  <2>3. Holds(buf, pos, put) /\ Holds(buf, pos + Len(put), bytes)
    BY ONLY buf \in Seq(Byte), pos \in Nat, <2>1, <2>2, OneThenOther
  <2> QED BY <2>3 DEF put
<1>2. Len(a) = Len(b)
  BY <1>1, FieldShape, PrefixTold
<1>3. a \in Seq(Byte) /\ b \in Seq(Byte)
  BY FieldShape
<1> DEFINE from == pos + Len(PutU32(Len(a)))
<1>4. Holds(buf, from, a)
  BY <1>1
<1>5. Holds(buf, from, b)
  <2>1. Holds(buf, pos + Len(PutU32(Len(b))), b)
    BY <1>1
  <2> QED BY <1>2, <2>1
<1> HIDE DEF from
<1> QED BY ONLY <1>2, <1>3, <1>4, <1>5, HeldIsUnique

LEMMA FlagTold ==
  ASSUME NEW buf \in Seq(Byte), NEW pos \in Nat, NEW a \in BOOLEAN, NEW b \in BOOLEAN,
         Holds(buf, pos, PutFlag(a)), Holds(buf, pos, PutFlag(b))
  PROVE  a = b
<1>1. PutFlag(a) = PutFlag(b)
  BY FlagShape, HeldIsUnique
<1>2. PutFlag(a)[1] = PutFlag(b)[1]
  BY <1>1
<1> QED BY <1>2 DEF PutFlag

LEMMA BundleTold ==
  ASSUME NEW buf \in Seq(Byte), NEW pos \in Nat, NEW a \in Bundle, NEW b \in Bundle,
         Holds(buf, pos, PutBundle(a)), Holds(buf, pos, PutBundle(b))
  PROVE  a = b
<1> DEFINE some == PutFlag(TRUE)
           none == PutFlag(FALSE)
<1>1. some \in Seq(Byte) /\ none \in Seq(Byte)
  BY FlagShape
<1>2. PutBundle(<<>>) = none
  BY BundleShape
<1>3. ASSUME NEW s \in Utf8String PROVE PutBundle(<<s>>) = some \o PutBytes(s)
  BY BundleShape
<1>4. ~(Holds(buf, pos, some) /\ Holds(buf, pos, none))
  BY FlagTold
<1> HIDE DEF some, none
<1>5. ASSUME NEW s \in Utf8String, Holds(buf, pos, PutBundle(<<s>>))
      PROVE  Holds(buf, pos, some) /\ Holds(buf, pos + Len(some), PutBytes(s))
  <2>1. PutBytes(s) \in Seq(Byte)
    BY FieldShape DEF Utf8String
  <2>2. Holds(buf, pos, some \o PutBytes(s))
    BY <1>3, <1>5
  <2> QED BY ONLY buf \in Seq(Byte), pos \in Nat, <1>1, <2>1, <2>2, OneThenOther
<1>6. pos + Len(some) \in Nat
  BY <1>1
<1>7. ASSUME NEW s \in Utf8String, NEW t \in Utf8String,
             Holds(buf, pos, PutBundle(<<s>>)), Holds(buf, pos, PutBundle(<<t>>))
      PROVE  s = t
  <2>1. s \in ByteVec /\ t \in ByteVec
    BY DEF Utf8String
  <2> QED BY <1>5, <1>6, <1>7, <2>1, BytesTold
<1>8. ASSUME NEW s \in Utf8String
      PROVE  ~(Holds(buf, pos, PutBundle(<<s>>)) /\ Holds(buf, pos, PutBundle(<<>>)))
  BY <1>2, <1>4, <1>5
<1>9. CASE a = <<>>
  BY <1>8, <1>9, BundleCases
<1>10. CASE b = <<>>
  BY <1>8, <1>10, BundleCases
<1>11. CASE a # <<>> /\ b # <<>>
  <2>1. PICK s \in Utf8String : a = <<s>>
    BY <1>11, BundleCases
  <2>2. PICK t \in Utf8String : b = <<t>>
    BY <1>11, BundleCases
  <2> QED BY <1>7, <2>1, <2>2
<1> QED BY <1>9, <1>10, <1>11

LEMMA RepTold ==
  ASSUME NEW buf \in Seq(Byte), NEW pos \in Nat, NEW a \in RecordRepresentation,
         NEW b \in RecordRepresentation, Holds(buf, pos, PutRep(a)), Holds(buf, pos, PutRep(b))
  PROVE  a = b
<1>1. ASSUME NEW rep \in RecordRepresentation, Holds(buf, pos, PutRep(rep))
      PROVE  /\ Holds(buf, pos, PutBytes(rep.uttype))
             /\ Holds(buf, pos + Len(PutBytes(rep.uttype)), PutBytes(rep.data))
             /\ pos + Len(PutBytes(rep.uttype)) \in Nat
  <2> DEFINE u == PutBytes(rep.uttype)
             d == PutBytes(rep.data)
  <2>1. u \in Seq(Byte) /\ d \in Seq(Byte) /\ PutRep(rep) = u \o d
    BY RepShape DEF PutRep
  <2> HIDE DEF u, d
  <2>2. Holds(buf, pos, u \o d)
    BY <1>1, <2>1
  <2>3. Holds(buf, pos, u) /\ Holds(buf, pos + Len(u), d) /\ pos + Len(u) \in Nat
    BY ONLY buf \in Seq(Byte), pos \in Nat, <2>1, <2>2, OneThenOther
  <2> QED BY <2>3 DEF u, d
<1>2. a.uttype = b.uttype
  BY <1>1, RepShape, BytesTold
<1>3. a.data = b.data
  BY <1>1, <1>2, RepShape, BytesTold
<1> QED BY <1>2, <1>3 DEF RecordRepresentation

(* As many representations and one more, at a place. *)
LEMMA OneMoreHeld ==
  ASSUME NEW buf \in Seq(Byte), NEW pos \in Nat, NEW reps \in Reps, NEW rep \in RecordRepresentation,
         Holds(buf, pos, RepBytes(Append(reps, rep)))
  PROVE  /\ Holds(buf, pos, RepBytes(reps)) /\ pos + Len(RepBytes(reps)) \in Nat
         /\ Holds(buf, pos + Len(RepBytes(reps)), PutRep(rep))
<1> DEFINE a == RepBytes(reps)
           b == PutRep(rep)
<1>1. /\ RepBytes(Append(reps, rep)) = a \o b /\ a \in Seq(Byte) /\ b \in Seq(Byte)
  BY RepBytesSteps, RepShape
<1> HIDE DEF a, b
<1>2. Holds(buf, pos, a \o b)
  BY <1>1
<1>3. Holds(buf, pos, a) /\ Holds(buf, pos + Len(a), b) /\ pos + Len(a) \in Nat
  BY ONLY buf \in Seq(Byte), pos \in Nat, <1>1, <1>2, OneThenOther
<1> QED BY <1>3 DEF a, b

LEMMA CountedRepsTold ==
  ASSUME NEW buf \in Seq(Byte), NEW pos \in Nat
  PROVE  \A n \in Nat : \A a \in Reps : \A b \in Reps :
           /\ Len(a) = n /\ Len(b) = n
           /\ Holds(buf, pos, RepBytes(a)) /\ Holds(buf, pos, RepBytes(b))
           => a = b
<1> DEFINE T == {n \in Nat : \A a \in Reps : \A b \in Reps :
                   /\ Len(a) = n /\ Len(b) = n
                   /\ Holds(buf, pos, RepBytes(a)) /\ Holds(buf, pos, RepBytes(b))
                   => a = b}
<1>1. 0 \in T
  BY EmptySeq DEF Reps
<1>2. ASSUME NEW n \in Nat, n \in T PROVE n + 1 \in T
  <2> SUFFICES ASSUME NEW a \in Reps, NEW b \in Reps, Len(a) = n + 1, Len(b) = n + 1,
                      Holds(buf, pos, RepBytes(a)), Holds(buf, pos, RepBytes(b))
               PROVE  a = b
    OBVIOUS
  <2>1. PICK c \in Reps, x \in RecordRepresentation : Len(c) = n /\ a = Append(c, x)
    BY LastOfReps
  <2>2. PICK d \in Reps, y \in RecordRepresentation : Len(d) = n /\ b = Append(d, y)
    BY LastOfReps
  <2>3. c = d
    BY <1>2, <2>1, <2>2, OneMoreHeld
  <2>4. x = y
    BY <2>1, <2>2, <2>3, OneMoreHeld, RepTold
  <2> QED BY <2>1, <2>2, <2>3, <2>4
<1> HIDE DEF T
<1>3. \A n \in Nat : n \in T
  BY <1>1, <1>2, Induction
<1> QED BY <1>3 DEF T

SizedReps == {reps \in Reps : Len(reps) < Limit}
PutSized == [reps \in SizedReps |-> PutReps(reps)]

LEMMA RepsTold ==
  ASSUME NEW buf \in Seq(Byte), NEW pos \in Nat, NEW a \in SizedReps, NEW b \in SizedReps,
         Holds(buf, pos, PutReps(a)), Holds(buf, pos, PutReps(b))
  PROVE  a = b
<1>1. ASSUME NEW reps \in SizedReps, Holds(buf, pos, PutReps(reps))
      PROVE  /\ Holds(buf, pos, PutU32(Len(reps))) /\ pos + Len(PutU32(Len(reps))) \in Nat
             /\ Holds(buf, pos + Len(PutU32(Len(reps))), RepBytes(reps))
             /\ reps \in Reps /\ Len(reps) \in Nat /\ Len(reps) < Limit
  <2> DEFINE u == PutU32(Len(reps))
             d == RepBytes(reps)
  <2>1. u \in Seq(Byte) /\ d \in Seq(Byte) /\ PutReps(reps) = u \o d /\ Len(reps) \in Nat
    BY RepsShape DEF PutReps, SizedReps
  <2> HIDE DEF u, d
  <2>2. Holds(buf, pos, u \o d)
    BY <1>1, <2>1
  <2>3. Holds(buf, pos, u) /\ Holds(buf, pos + Len(u), d) /\ pos + Len(u) \in Nat
    BY ONLY buf \in Seq(Byte), pos \in Nat, <2>1, <2>2, OneThenOther
  <2> QED BY <2>1, <2>3 DEF u, d, SizedReps
<1>2. Len(a) = Len(b)
  BY <1>1, PrefixTold
<1> DEFINE n == Len(a)
           at == pos + Len(PutU32(n))
<1>3. /\ at \in Nat /\ n \in Nat /\ a \in Reps /\ b \in Reps /\ Len(b) = n /\ Len(a) = n
      /\ Holds(buf, at, RepBytes(a)) /\ Holds(buf, at, RepBytes(b))
  BY <1>1, <1>2
<1> HIDE DEF n, at
<1> QED BY <1>3, CountedRepsTold

(* A field after others that are told. *)
LEMMA ToldExtended ==
  ASSUME NEW Q, NEW pre \in [Q -> Seq(Byte)], NEW X, NEW put \in [X -> Seq(Byte)],
         Told(Q, pre), Told(X, put), NEW R, NEW both, Extends(R, both, Q, pre, X, put)
  PROVE  Told(R, both)
<1> SUFFICES ASSUME NEW buf \in Seq(Byte), NEW pos \in Nat, NEW v \in R, NEW w \in R,
                    Holds(buf, pos, both[v]), Holds(buf, pos, both[w])
             PROVE  v = w
  BY DEF Told
<1>1. ASSUME NEW z \in R, Holds(buf, pos, both[z])
      PROVE  \E q \in Q : \E x \in X :
               /\ z = Append(q, x) /\ Holds(buf, pos, pre[q]) /\ pos + Len(pre[q]) \in Nat
               /\ Holds(buf, pos + Len(pre[q]), put[x])
  <2>1. PICK q \in Q, x \in X : z = Append(q, x)
    BY DEF Extends
  <2> DEFINE a == pre[q]
             b == put[x]
  <2>2. a \in Seq(Byte) /\ b \in Seq(Byte)
    OBVIOUS
  <2>3. both[z] = a \o b
    BY <2>1 DEF Extends
  <2> HIDE DEF a, b
  <2>4. Holds(buf, pos, a \o b)
    BY <1>1, <2>3
  <2>5. Holds(buf, pos, a) /\ Holds(buf, pos + Len(a), b) /\ pos + Len(a) \in Nat
    BY ONLY buf \in Seq(Byte), pos \in Nat, <2>2, <2>4, OneThenOther
  <2> QED BY <2>1, <2>5 DEF a, b
<1>2. PICK q \in Q, x \in X :
        /\ v = Append(q, x) /\ Holds(buf, pos, pre[q]) /\ pos + Len(pre[q]) \in Nat
        /\ Holds(buf, pos + Len(pre[q]), put[x])
  BY <1>1
<1>3. PICK p \in Q, y \in X :
        /\ w = Append(p, y) /\ Holds(buf, pos, pre[p])
        /\ Holds(buf, pos + Len(pre[p]), put[y])
  BY <1>1
<1>4. q = p
  BY <1>2, <1>3 DEF Told
<1>5. x = y
  BY <1>2, <1>3, <1>4 DEF Told
<1> QED BY <1>2, <1>3, <1>4, <1>5

LEMMA FieldsTold == Told(Q4, Pre4)
<1> DEFINE none == [q \in {<<>>} |-> <<>>]
           Z == {<<>>}
<1>1. Told(Z, none) /\ none \in [Z -> Seq(Byte)]
  BY DEF Told
<1>2. Extends(Q1, Pre1, Z, none, Utf8String, PutString)
  BY Extensions
<1> HIDE DEF none, Z
<1>3. Told(Utf8String, PutString)
  <2>1. \A s \in Utf8String : PutString[s] = PutBytes(s) /\ s \in ByteVec
    BY DEF PutString, Utf8String
  <2> QED BY <2>1, BytesTold DEF Told
<1>4. Told(Bundle, PutBundles)
  <2>1. \A s \in Bundle : PutBundles[s] = PutBundle(s)
    BY DEF PutBundles
  <2> QED BY <2>1, BundleTold DEF Told
<1>5. Told(BOOLEAN, PutFlags)
  <2>1. \A s \in BOOLEAN : PutFlags[s] = PutFlag(s)
    BY DEF PutFlags
  <2> QED BY <2>1, FlagTold DEF Told
<1>6. Told(Q1, Pre1)
  BY <1>1, <1>2, <1>3, PrefixesAreBytes, ToldExtended
<1>7. Told(Q2, Pre2)
  BY <1>3, <1>6, Extensions, PrefixesAreBytes, ToldExtended
<1>8. Told(Q3, Pre3)
  BY <1>4, <1>7, Extensions, PrefixesAreBytes, ToldExtended
<1> QED BY <1>5, <1>8, Extensions, PrefixesAreBytes, ToldExtended

(* What is written for a record is bytes. *)
LEMMA EncodingIsBytes ==
  ASSUME NEW p \in RecordPlaintext
  PROVE  EncodePlaintext(p) \in Seq(Byte)
<1>1. PICK q \in Q4, reps \in Reps :
        p = Plaintext(q[1], q[2], q[3], q[4], reps) /\ p.representations = reps
  BY FieldsIn
<1>2. EncodePlaintext(p) = Pre4[q] \o PutReps(reps)
  BY <1>1, FieldsOf
<1>3. Pre4[q] \in Seq(Byte) /\ PutReps(reps) \in Seq(Byte)
  BY PrefixesAreBytes, RepsShape
<1> QED BY <1>2, <1>3, ConcatProperties

(***************************************************************************)
(* No two records are written alike, those beyond the reader's cap         *)
(* included: two bodies with the same plaintext bytes hold the same record *)
(* in every field.  (The sync_hash is not taken of these bytes.)           *)
(***************************************************************************)
THEOREM WrittenApart ==
  ASSUME NEW p \in RecordPlaintext, NEW r \in RecordPlaintext,
         EncodePlaintext(p) = EncodePlaintext(r)
  PROVE  p = r
<1> DEFINE buf == EncodePlaintext(p)
           z == 0
<1>1. buf \in Seq(Byte) /\ z \in Nat
  BY EncodingIsBytes
<1>2. ASSUME NEW t \in RecordPlaintext, EncodePlaintext(t) = buf
      PROVE  \E q \in Q4 : \E reps \in SizedReps :
               /\ t = Plaintext(q[1], q[2], q[3], q[4], reps)
               /\ Holds(buf, z, Pre4[q]) /\ z + Len(Pre4[q]) \in Nat
               /\ Holds(buf, z + Len(Pre4[q]), PutReps(reps))
  <2>1. PICK q \in Q4, reps \in Reps :
          /\ t = Plaintext(q[1], q[2], q[3], q[4], reps) /\ t.representations = reps
          /\ Len(reps) < Limit
    BY FieldsIn
  <2> DEFINE a == Pre4[q]
             b == PutReps(reps)
  <2>2. a \in Seq(Byte) /\ b \in Seq(Byte)
    BY PrefixesAreBytes, RepsShape
  <2>3. EncodePlaintext(t) = a \o b
    BY <2>1, FieldsOf
  <2>4. Holds(buf, z, buf)
    BY <1>1, HoldsAll
  <2> HIDE DEF a, b, buf, z
  <2>5. Holds(buf, z, a \o b)
    BY <1>2, <2>3, <2>4
  <2>6. Holds(buf, z, a) /\ Holds(buf, z + Len(a), b) /\ z + Len(a) \in Nat
    BY ONLY <1>1, <2>2, <2>5, OneThenOther
  <2> QED BY <2>1, <2>6 DEF a, b, SizedReps
<1> HIDE DEF buf, z
<1>3. PICK q \in Q4, reps \in SizedReps :
        /\ p = Plaintext(q[1], q[2], q[3], q[4], reps)
        /\ Holds(buf, z, Pre4[q]) /\ z + Len(Pre4[q]) \in Nat
        /\ Holds(buf, z + Len(Pre4[q]), PutReps(reps))
  BY <1>2 DEF buf
<1>4. PICK s \in Q4, more \in SizedReps :
        /\ r = Plaintext(s[1], s[2], s[3], s[4], more)
        /\ Holds(buf, z, Pre4[s])
        /\ Holds(buf, z + Len(Pre4[s]), PutReps(more))
  BY <1>2 DEF buf
<1>5. q = s
  BY <1>1, <1>3, <1>4, FieldsTold DEF Told
<1>6. reps = more
  BY <1>1, <1>3, <1>4, <1>5, RepsTold
<1> QED BY <1>3, <1>4, <1>5, <1>6

(***************************************************************************)
(* The reader gives back every record the writer wrote, field by field and *)
(* alone, up to the cap, and none beyond it: that is refused, not cut.     *)
(***************************************************************************)
THEOREM WrittenReadsBack == \A p \in RecordPlaintext : ReadsBack(p)
<1> SUFFICES ASSUME NEW p \in RecordPlaintext PROVE ReadsBack(p)
  OBVIOUS
<1> DEFINE buf == EncodePlaintext(p)
<1>1. buf \in Seq(Byte)
  BY EncodingIsBytes
<1>2. \A r : r \in DecodePlaintext(buf) <=>
        /\ r \in RecordPlaintext /\ Len(r.representations) <= MaxRepresentations
        /\ EncodePlaintext(r) = buf
  <2> HIDE DEF buf
  <2> QED BY <1>1, Decoded
<1>3. \A r : r \in DecodePlaintext(buf) <=>
        r = p /\ Len(p.representations) <= MaxRepresentations
  BY <1>2, WrittenApart
<1> QED BY <1>3 DEF ReadsBack

=============================================================================
