---------------------------- MODULE SchnorrProofs ----------------------------
(***************************************************************************)
(* Proofs about the arithmetic, for any generator of any order modulo any  *)
(* number: the equation the server checks holds for the answer an honest   *)
(* client computes, modulo the order, and for no other.                    *)
(*                                                                         *)
(* ModExp is defined by recursion.  That the recursion defines a function, *)
(* and what its values are, is proved by induction in the form of Lemma    *)
(* Induction, which is about sets of numbers.                              *)
(***************************************************************************)
EXTENDS SchnorrSession, WellFoundedInduction, TLAPS

(***************************************************************************)
(* Induction over the natural numbers, for sets.                           *)
(***************************************************************************)
LEMMA Induction ==
  ASSUME NEW S \in SUBSET Nat, 0 \in S, \A n \in S : n + 1 \in S
  PROVE  S = Nat
<1>1. PICK R : /\ IsWellFoundedOn(R, Nat)
               /\ \A m, n \in Nat : n < m => <<n, m>> \in R
  <2> DEFINE R == {z \in Nat \X Nat : z[1] < z[2]}
  <2>1. IsWellFoundedOn(R, Nat)
    BY NatLessThanWellFounded DEF OpToRel
  <2> QED
    BY <2>1
<1>2. SUFFICES ASSUME Nat \ S # {} PROVE FALSE
  OBVIOUS
<1>3. PICK m \in Nat \ S : \A n \in Nat \ S : ~(<<n, m>> \in R)
  BY <1>1, <1>2, WFMin
<1>4. m # 0 /\ m - 1 \in Nat /\ m - 1 < m
  BY <1>3
<1>5. m - 1 \in S
  BY <1>1, <1>3, <1>4
<1> QED
  BY <1>3, <1>4, <1>5

(***************************************************************************)
(* The remainder of a division.                                            *)
(***************************************************************************)
LEMMA Residue ==
  ASSUME NEW m \in Nat \ {0}, NEW a \in Int
  PROVE  /\ a % m \in 0 .. m - 1
         /\ \E d \in Int : a = m * d + (a % m)
<1>1. a = m * (a \div m) + (a % m) /\ a \div m \in Int /\ a % m \in 0 .. m - 1
  OBVIOUS
<1> QED
  BY <1>1

(***************************************************************************)
(* A multiple of m that is smaller than m is zero.                         *)
(***************************************************************************)
LEMMA SmallMultiple ==
  ASSUME NEW m \in Nat \ {0}, NEW t \in Int, -m < m * t, m * t < m
  PROVE  t = 0
<1>1. t >= 1 => m * t >= m
  OBVIOUS
<1>2. t <= -1 => m * t <= -m
  OBVIOUS
<1> QED
  BY <1>1, <1>2

(***************************************************************************)
(* Numbers that differ by a multiple have one remainder.                   *)
(***************************************************************************)
LEMMA SameResidue ==
  ASSUME NEW m \in Nat \ {0}, NEW a \in Int, NEW b \in Int, NEW d \in Int,
         a = b + m * d
  PROVE  a % m = (b % m)
<1>1. PICK x \in Int : a = m * x + (a % m)
  BY Residue
<1>2. PICK y \in Int : b = m * y + (b % m)
  BY Residue
<1>3. a % m \in 0 .. m - 1 /\ b % m \in 0 .. m - 1
  BY Residue
<1>4. PICK t \in Int : t = y + d - x
  BY <1>1, <1>2
<1>5. m * t = m * y + m * d - m * x
  BY <1>1, <1>2, <1>4
<1>6. m * t = (a % m) - (b % m)
  BY <1>1, <1>2, <1>3, <1>5
<1>7. t = 0
  <2>1. -m < m * t /\ m * t < m
    BY <1>3, <1>6
  <2> QED
    BY <2>1, SmallMultiple
<1> QED
  BY <1>3, <1>6, <1>7

(***************************************************************************)
(* A factor may be reduced before the product is.                          *)
(***************************************************************************)
LEMMA ModTimes ==
  ASSUME NEW m \in Nat \ {0}, NEW a \in Int, NEW b \in Int
  PROVE  (a * (b % m)) % m = (a * b) % m
<1>1. PICK d \in Int : b = m * d + (b % m)
  BY Residue
<1>0. PICK r \in Int : r = b % m
  BY Residue
<1>2. a * b = a * r + m * (a * d)
  <2>1. b = m * d + r
    BY <1>0, <1>1
  <2> QED
    BY <2>1
<1>3. a * b \in Int /\ a * r \in Int /\ a * d \in Int
  BY <1>1
<1>4. (a * b) % m = (a * r) % m
  BY <1>2, <1>3, SameResidue
<1> QED
  BY <1>0, <1>4

-----------------------------------------------------------------------------
(* Numbers modulo P.                                                       *)

Mul(a, b) == (a * b) % P
One == 1 % P
Residues == 0 .. P - 1

(***************************************************************************)
(* Multiplication modulo P is commutative and associative, with a one.     *)
(***************************************************************************)
LEMMA MulLaws ==
  ASSUME NEW a \in Int, NEW b \in Int, NEW c \in Int
  PROVE  /\ Mul(a, b) \in Residues
         /\ Mul(a, b) = Mul(b, a)
         /\ Mul(Mul(a, b), c) = Mul(a, Mul(b, c))
         /\ a \in Residues => Mul(One, a) = a
<1>1. P \in Nat \ {0} /\ a * b \in Int /\ b * c \in Int /\ a * b = b * a
  BY GroupAssumption
<1>2. Mul(a, b) \in Residues /\ Mul(a, b) = Mul(b, a)
  BY <1>1, Residue DEF Mul, Residues
<1>3. Mul(Mul(a, b), c) = Mul(a, Mul(b, c))
  <2>1. (c * ((a * b) % P)) % P = (c * (a * b)) % P
    BY <1>1, ModTimes
  <2>2. (a * ((b * c) % P)) % P = (a * (b * c)) % P
    BY <1>1, ModTimes
  <2>3. c * (a * b) = a * (b * c)
    OBVIOUS
  <2>4. ((a * b) % P) * c = c * ((a * b) % P)
    BY <1>1
  <2>5. (((a * b) % P) * c) % P = (a * ((b * c) % P)) % P
    <3> DEFINE ab == (a * b) % P
               bc == (b * c) % P
    <3>1. (c * ab) % P = (a * bc) % P
      BY <2>1, <2>2, <2>3
    <3>2. ab * c = c * ab
      BY <2>4
    <3> HIDE DEF ab, bc
    <3>3. (ab * c) % P = (a * bc) % P
      BY <3>1, <3>2
    <3> QED
      BY <3>3 DEF ab, bc
  <2> QED
    BY <2>5 DEF Mul
<1>4. ASSUME a \in Residues PROVE Mul(One, a) = a
  <2>1. (a * (1 % P)) % P = a % P
    <3>1. PICK one \in Int : one = 1
      OBVIOUS
    <3>2. (a * (one % P)) % P = (a * one) % P
      BY <1>1, ModTimes
    <3> QED
      BY <3>1, <3>2
  <2>2. a % P = a
    BY <1>1, <1>4 DEF Residues
  <2>3. (1 % P) * a = a * (1 % P)
    BY <1>1
  <2> QED
    BY <2>1, <2>2, <2>3 DEF Mul, One
<1> QED
  BY <1>2, <1>3, <1>4

-----------------------------------------------------------------------------
(* Powers.                                                                 *)

(***************************************************************************)
(* A table of the first powers of b, each made from the one before.        *)
(***************************************************************************)
Recursion(b, f, i) == IF i = 0 THEN One ELSE Mul(b, f[i - 1])

Part(b, n) ==
  {f \in [0 .. n -> Residues] : \A i \in 0 .. n : f[i] = Recursion(b, f, i)}

(***************************************************************************)
(* Two tables of powers agree as far as both go.                           *)
(***************************************************************************)
LEMMA PartsAgree ==
  ASSUME NEW b \in Nat, NEW m \in Nat, NEW n \in Nat,
         NEW f \in Part(b, m), NEW g \in Part(b, n)
  PROVE  \A i \in Nat : i <= m /\ i <= n => f[i] = g[i]
<1> DEFINE S == {i \in Nat : i <= m /\ i <= n => f[i] = g[i]}
<1>1. 0 \in S
  BY DEF Part, Recursion
<1>2. ASSUME NEW i \in S PROVE i + 1 \in S
  <2>1. i \in Nat /\ i + 1 \in Nat /\ (i + 1) - 1 = i /\ i + 1 # 0
    OBVIOUS
  <2>2. i + 1 <= m /\ i + 1 <= n =>
          f[i] = g[i] /\ i + 1 \in 0 .. m /\ i + 1 \in 0 .. n
    BY <1>2, <2>1
  <2> HIDE DEF S
  <2>3. i + 1 <= m /\ i + 1 <= n => f[i + 1] = g[i + 1]
    BY <2>1, <2>2 DEF Part, Recursion
  <2> QED
    BY <2>1, <2>3 DEF S
<1>3. S = Nat
  <2>1. S \in SUBSET Nat
    OBVIOUS
  <2> HIDE DEF S
  <2> QED
    BY <1>1, <1>2, <2>1, Induction
<1> QED
  BY <1>3

(***************************************************************************)
(* There is a table of any length.                                         *)
(***************************************************************************)
LEMMA PartsExist ==
  ASSUME NEW b \in Nat, NEW n \in Nat
  PROVE  Part(b, n) # {}
<1> DEFINE S == {k \in Nat : Part(b, k) # {}}
<1>0. One \in Residues
  BY GroupAssumption, Residue DEF One, Residues
<1>1. 0 \in S
  <2> DEFINE f == [i \in 0 .. 0 |-> One]
  <2>1. f \in Part(b, 0)
    BY <1>0 DEF Part, Recursion
  <2> QED
    BY <2>1
<1>2. ASSUME NEW k \in S PROVE k + 1 \in S
  <2>1. PICK f \in Part(b, k) : TRUE
    OBVIOUS
  <2> DEFINE g == [i \in 0 .. k + 1 |->
                    IF i = k + 1 THEN Mul(b, f[k]) ELSE f[i]]
  <2>2. /\ f \in [0 .. k -> Residues]
        /\ \A i \in 0 .. k : f[i] = Recursion(b, f, i)
    BY <2>1 DEF Part
  <2>3. k \in Nat /\ f[k] \in Int
    BY <2>2 DEF Residues
  <2>4. g \in [0 .. k + 1 -> Residues]
    BY <2>2, <2>3, MulLaws
  <2>5. ASSUME NEW i \in 0 .. k + 1 PROVE g[i] = Recursion(b, g, i)
    <3>1. CASE i = k + 1
      BY <2>3, <3>1 DEF Recursion
    <3>2. CASE i # k + 1
      <4>1. /\ i \in 0 .. k /\ g[i] = f[i]
            /\ i # 0 => i - 1 \in 0 .. k /\ g[i - 1] = f[i - 1]
        BY <2>3, <3>2
      <4> QED
        BY <2>2, <4>1 DEF Recursion
    <3> QED
      BY <3>1, <3>2
  <2>6. g \in Part(b, k + 1)
    <3> HIDE DEF g
    <3> QED
      BY <2>4, <2>5 DEF Part
  <2> QED
    BY <2>3, <2>6
<1>3. S = Nat
  <2>1. S \in SUBSET Nat
    OBVIOUS
  <2> HIDE DEF S
  <2> QED
    BY <1>1, <1>2, <2>1, Induction
<1> QED
  BY <1>3

(***************************************************************************)
(* The recursion defines a function.                                       *)
(***************************************************************************)
LEMMA PowersDef ==
  ASSUME NEW b \in Nat
  PROVE  Powers(b, P) = [n \in Nat |-> IF n = 0 THEN 1 % P
                                       ELSE (b * Powers(b, P)[n - 1]) % P]
<1> DEFINE part(n) == CHOOSE f \in Part(b, n) : TRUE
           F == [n \in Nat |-> part(n)[n]]
           Is(f) == f = [n \in Nat |-> IF n = 0 THEN 1 % P
                                      ELSE (b * f[n - 1]) % P]
<1>1. \A n \in Nat : part(n) \in Part(b, n)
  BY PartsExist
<1> HIDE DEF part
<1>2. \A n \in Nat : F[n] = part(n)[n]
  OBVIOUS
<1>3. ASSUME NEW n \in Nat
      PROVE  F[n] = Recursion(b, F, n)
  <2>1. part(n)[n] = Recursion(b, part(n), n)
    BY <1>1 DEF Part
  <2>2. CASE n = 0
    BY <1>2, <2>1, <2>2 DEF Recursion
  <2>3. CASE n # 0
    <3>1. n - 1 \in Nat /\ n - 1 <= n
      BY <2>3
    <3>2. part(n)[n - 1] = part(n - 1)[n - 1]
      BY <1>1, <3>1, PartsAgree
    <3> QED
      BY <1>2, <2>1, <2>3, <3>1, <3>2 DEF Recursion
  <2> QED
    BY <2>2, <2>3
<1>4. Is(F)
  <2> DEFINE E == [n \in Nat |-> IF n = 0 THEN 1 % P ELSE (b * F[n - 1]) % P]
  <2>1. \A n \in Nat : F[n] = E[n]
    <3> HIDE DEF F
    <3> QED
      BY <1>3 DEF Recursion, One, Mul
  <2>2. F = [n \in Nat |-> F[n]] /\ E = [n \in Nat |-> E[n]]
    OBVIOUS
  <2>3. F = E
    <3> HIDE DEF F, E
    <3> QED
      BY <2>1, <2>2
  <2> QED
    BY <2>3
<1>5. Powers(b, P) = CHOOSE f : Is(f)
  BY Zenon DEF Powers
<1> HIDE DEF F, Is
<1>6. Is(Powers(b, P))
  BY <1>4, <1>5, Zenon
<1> QED
  BY <1>6 DEF Is

-----------------------------------------------------------------------------

(***************************************************************************)
(* The powers of a number, one by one.                                     *)
(***************************************************************************)
LEMMA PowersStep ==
  ASSUME NEW b \in Nat
  PROVE  /\ Powers(b, P)[0] = One
         /\ \A n \in Nat : /\ Powers(b, P)[n] \in Residues
                          /\ Powers(b, P)[n + 1] = Mul(b, Powers(b, P)[n])
<1>1. PICK f : f = Powers(b, P)
  OBVIOUS
<1>2. f = [n \in Nat |-> IF n = 0 THEN 1 % P ELSE (b * f[n - 1]) % P]
  BY <1>1, PowersDef
<1>3. f[0] = One
  BY <1>2 DEF One
<1>4. ASSUME NEW n \in Nat PROVE f[n + 1] = Mul(b, f[n])
  <2>1. n + 1 \in Nat /\ n + 1 # 0 /\ (n + 1) - 1 = n
    OBVIOUS
  <2>2. f[n + 1] = (b * f[(n + 1) - 1]) % P
    BY <1>2, <2>1
  <2> QED
    BY <2>1, <2>2 DEF Mul
<1>5. \A n \in Nat : f[n] \in Residues
  <2> DEFINE S == {n \in Nat : f[n] \in Residues}
  <2>1. 0 \in S
    BY <1>3, GroupAssumption, Residue DEF One, Residues
  <2>2. ASSUME NEW n \in S PROVE n + 1 \in S
    <3>1. n \in Nat /\ f[n] \in Int /\ n + 1 \in Nat
      BY DEF Residues
    <3> QED
      BY <1>4, <3>1, MulLaws
  <2>3. S \in SUBSET Nat
    OBVIOUS
  <2>4. S = Nat
    <3> HIDE DEF S
    <3> QED
      BY <2>1, <2>2, <2>3, Induction
  <2> QED
    BY <2>4
<1> QED
  BY <1>1, <1>3, <1>4, <1>5

(***************************************************************************)
(* The exponents of a product add up.                                      *)
(***************************************************************************)
LEMMA PowersAdd ==
  ASSUME NEW b \in Nat, NEW i \in Nat, NEW j \in Nat
  PROVE  Powers(b, P)[i + j] = Mul(Powers(b, P)[i], Powers(b, P)[j])
<1>1. PICK f : f = Powers(b, P)
  OBVIOUS
<1>2. /\ f[0] = One
      /\ \A n \in Nat : f[n] \in Residues /\ f[n + 1] = Mul(b, f[n])
  BY <1>1, PowersStep
<1>3. \A n \in Nat : f[n] \in Int
  BY <1>2 DEF Residues
<1> DEFINE S == {n \in Nat : f[n + j] = Mul(f[n], f[j])}
<1>4. 0 \in S
  BY <1>2, <1>3, MulLaws
<1>5. ASSUME NEW n \in S PROVE n + 1 \in S
  <2>1. /\ n \in Nat /\ n + j \in Nat /\ n + 1 \in Nat
        /\ (n + 1) + j = (n + j) + 1
    OBVIOUS
  <2>2. f[(n + 1) + j] = Mul(b, Mul(f[n], f[j]))
    BY <1>2, <2>1
  <2>3. Mul(Mul(b, f[n]), f[j]) = Mul(b, Mul(f[n], f[j]))
    BY <1>3, <2>1, MulLaws
  <2> QED
    BY <1>2, <2>1, <2>2, <2>3
<1>6. S = Nat
  <2>1. S \in SUBSET Nat
    OBVIOUS
  <2> HIDE DEF S
  <2> QED
    BY <1>4, <1>5, <2>1, Induction
<1> QED
  BY <1>1, <1>6

(***************************************************************************)
(* The exponents of a power of a power multiply.                           *)
(***************************************************************************)
LEMMA PowersOfPowers ==
  ASSUME NEW b \in Nat, NEW x \in Nat, NEW n \in Nat
  PROVE  Powers(Powers(b, P)[x], P)[n] = Powers(b, P)[x * n]
<1>1. PICK f : f = Powers(b, P)
  OBVIOUS
<1>2. /\ f[0] = One
      /\ \A k \in Nat : f[k] \in Residues
      /\ \A i, k \in Nat : f[i + k] = Mul(f[i], f[k])
  BY <1>1, PowersStep, PowersAdd
<1>3. f[x] \in Nat
  BY <1>2 DEF Residues
<1>4. PICK h : h = Powers(f[x], P)
  OBVIOUS
<1>5. h[0] = One /\ \A k \in Nat : h[k + 1] = Mul(f[x], h[k])
  BY <1>3, <1>4, PowersStep
<1> DEFINE S == {k \in Nat : h[k] = f[x * k]}
<1>6. 0 \in S
  BY <1>2, <1>5
<1>7. ASSUME NEW k \in S PROVE k + 1 \in S
  <2>1. k \in Nat /\ h[k] = f[x * k]
    OBVIOUS
  <2>2. x * (k + 1) = x + x * k /\ x * k \in Nat
    BY <2>1
  <2>3. f[x + x * k] = Mul(f[x], f[x * k])
    BY <1>2, <2>2
  <2>4. h[k + 1] = f[x * (k + 1)]
    BY <1>5, <2>1, <2>2, <2>3
  <2> QED
    BY <2>4
<1>8. S = Nat
  <2>1. S \in SUBSET Nat
    OBVIOUS
  <2> HIDE DEF S
  <2> QED
    BY <1>6, <1>7, <2>1, Induction
<1> QED
  BY <1>1, <1>4, <1>8

(* The powers of the generator.                                            *)
GPow(n) == Powers(G, P)[n]

(***************************************************************************)
(* The laws for the powers of the generator.                               *)
(***************************************************************************)
LEMMA GPowLaws ==
  /\ GPow(0) = One
  /\ \A n \in Nat : GPow(n) \in Residues /\ GPow(n) \in Nat
  /\ \A i, j \in Nat : GPow(i + j) = Mul(GPow(i), GPow(j))
  /\ \A n \in Nat : ModExp(G, n, P) = GPow(n)
<1>1. G \in Nat
  BY GroupAssumption
<1> QED
  BY <1>1, PowersStep, PowersAdd DEF GPow, ModExp, Residues

-----------------------------------------------------------------------------
(***************************************************************************)
(* The generator has the order Q.                                          *)
(***************************************************************************)
LEMMA OrderFacts ==
  /\ Q \in Nat \ {0} /\ One \in Residues /\ GPow(Q) = One
  /\ \A n \in 1 .. Q - 1 : GPow(n) # One
<1>1. P \in Nat \ {0} /\ Q \in Nat \ {0} /\ Q \in Nat /\ 1 \in Int
  BY GroupAssumption
<1>2. One \in Residues
  BY <1>1, Residue DEF One, Residues
<1>3. GPow(Q) = One
  BY <1>1, OrderAssumption, GPowLaws DEF One
<1>4. ASSUME NEW n \in 1 .. Q - 1 PROVE GPow(n) # One
  BY <1>1, OrderAssumption, GPowLaws DEF One
<1> QED
  BY <1>1, <1>2, <1>3, <1>4

(***************************************************************************)
(* Remainders modulo the order.                                            *)
(***************************************************************************)
LEMMA ModuloQ ==
  ASSUME NEW n \in Int
  PROVE  /\ n % Q \in 0 .. Q - 1
         /\ \E d \in Int : n = Q * d + (n % Q)
         /\ \A d \in Int : (n + Q * d) % Q = n % Q
<1>1. Q \in Nat \ {0}
  BY GroupAssumption
<1>2. n % Q \in 0 .. Q - 1 /\ \E d \in Int : n = Q * d + (n % Q)
  BY <1>1, Residue
<1>3. ASSUME NEW d \in Int PROVE (n + Q * d) % Q = n % Q
  <2>1. PICK a \in Int : a = n + Q * d
    BY <1>1
  <2> QED
    BY <1>1, <2>1, SameResidue
<1> QED
  BY <1>2, <1>3

(***************************************************************************)
(* The powers of the generator repeat after Q of them.                     *)
(***************************************************************************)
LEMMA GPowPeriod ==
  ASSUME NEW n \in Nat
  PROVE  GPow(n) = GPow(n % Q) /\ n % Q \in 0 .. Q - 1
<1>1. PICK r \in 0 .. Q - 1, d \in Int : r = n % Q /\ n = Q * d + r
  BY ModuloQ
<1>2. d \in Nat
  <2>1. ASSUME d <= -1 PROVE FALSE
    <3>1. Q * d <= -Q
      BY <2>1, OrderFacts
    <3> QED
      BY <1>1, <3>1, OrderFacts
  <2> QED
    BY <2>1
<1> DEFINE S == {k \in Nat : GPow(Q * k + r) = GPow(r)}
<1>3. 0 \in S
  BY OrderFacts
<1>4. ASSUME NEW k \in S PROVE k + 1 \in S
  <2>1. k \in Nat /\ r \in Nat /\ Q \in Nat
    BY OrderFacts
  <2>2. PICK e \in Nat : e = Q * k + r
    BY <2>1
  <2>3. Q * (k + 1) + r = Q + e
    BY <2>1, <2>2
  <2>4. GPow(Q + e) = Mul(One, GPow(e))
    BY <2>1, <2>2, GPowLaws, OrderFacts
  <2>5. Mul(One, GPow(e)) = GPow(e)
    BY <2>2, MulLaws, GPowLaws
  <2>6. GPow(e) = GPow(r)
    BY <2>2
  <2> QED
    BY <2>1, <2>3, <2>4, <2>5, <2>6
<1>5. S = Nat
  <2>1. S \in SUBSET Nat
    OBVIOUS
  <2> HIDE DEF S
  <2> QED
    BY <1>3, <1>4, <2>1, Induction
<1> QED
  BY <1>1, <1>2, <1>5

(***************************************************************************)
(* Two powers of the generator are equal only if their exponents are,      *)
(* modulo the order.                                                       *)
(***************************************************************************)
LEMMA GPowInjective ==
  ASSUME NEW a \in 0 .. Q - 1, NEW b \in 0 .. Q - 1, a < b
  PROVE  GPow(a) # GPow(b)
<1>1. /\ a \in Nat /\ b \in Nat /\ Q - a \in Nat /\ b - a \in Nat
      /\ b - a \in 1 .. Q - 1
  BY OrderFacts
<1>2. SUFFICES ASSUME GPow(a) = GPow(b) PROVE FALSE
  OBVIOUS
<1>3. GPow((Q - a) + a) = GPow((Q - a) + b)
  BY <1>1, <1>2, GPowLaws
<1>4. (Q - a) + a = Q /\ (Q - a) + b = Q + (b - a) /\ Q \in Nat
  BY <1>1, OrderFacts
<1>5. GPow(Q + (b - a)) = Mul(One, GPow(b - a))
  BY <1>1, <1>4, GPowLaws, OrderFacts
<1>6. Mul(One, GPow(b - a)) = GPow(b - a)
  BY <1>1, MulLaws, GPowLaws
<1> QED
  BY <1>1, <1>3, <1>4, <1>5, <1>6, OrderFacts

(***************************************************************************)
(* The inverse of a power is that of the exponent modulo the order.        *)
(***************************************************************************)
LEMMA GPowNegative ==
  ASSUME NEW s \in Int, s < 0
  PROVE  ModExp(G, s, P) = GPow(s % Q) /\ s % Q \in 0 .. Q - 1
<1>1. PICK e \in 0 .. Q - 1 : e = s % Q
  BY ModuloQ
<1>2. -s \in Nat /\ e \in Nat
  BY <1>1
<1>3. GPow(e + (-s)) = One
  <2>1. PICK d \in Int : s = Q * d + e
    BY <1>1, ModuloQ
  <2>2. e + (-s) \in Nat /\ e + (-s) = 0 + Q * (-d)
    BY <1>1, <1>2, <2>1, OrderFacts
  <2>3. (e + (-s)) % Q = 0 % Q
    <3>1. -d \in Int /\ 0 \in Int
      OBVIOUS
    <3> QED
      BY <2>2, <3>1, ModuloQ
  <2>4. 0 % Q = 0
    BY OrderFacts
  <2> QED
    BY <2>2, <2>3, <2>4, GPowPeriod, GPowLaws
<1>4. GPow(e) \in 0 .. P - 1 /\ (GPow(e) * Powers(G, P)[-s]) % P = 1 % P
  BY <1>2, <1>3, GPowLaws DEF Residues, Mul, One, GPow
<1>5. ASSUME NEW i \in 0 .. P - 1, (i * Powers(G, P)[-s]) % P = 1 % P
      PROVE  i = GPow(e)
  <2>1. Mul(i, GPow(-s)) = One /\ Mul(GPow(e), GPow(-s)) = One
    BY <1>4, <1>5 DEF Mul, One, GPow
  <2>2. /\ i \in Int /\ i \in Residues /\ GPow(e) \in Int /\ GPow(e) \in Residues
        /\ GPow(-s) \in Int /\ One \in Int
    <3>1. \A x : x \in Residues => x \in Int
      BY DEF Residues
    <3>2. i \in Residues
      BY <1>5 DEF Residues
    <3>3. GPow(e) \in Residues /\ GPow(-s) \in Residues /\ One \in Residues
      BY <1>2, GPowLaws, OrderFacts
    <3> QED
      BY <3>1, <3>2, <3>3
  <2>3. Mul(Mul(i, GPow(-s)), GPow(e)) = Mul(i, Mul(GPow(-s), GPow(e)))
    BY <2>2, MulLaws
  <2>4. Mul(GPow(-s), GPow(e)) = One
    BY <2>1, <2>2, MulLaws
  <2>5. Mul(One, GPow(e)) = GPow(e) /\ Mul(i, One) = Mul(One, i) /\ Mul(One, i) = i
    BY <2>2, MulLaws
  <2> QED
    BY <2>1, <2>3, <2>4, <2>5
<1>6. ModExp(G, s, P)
        = CHOOSE i \in 0 .. P - 1 : (i * Powers(G, P)[-s]) % P = 1 % P
  BY DEF ModExp
<1>7. ModExp(G, s, P) = GPow(e)
  BY <1>4, <1>5, <1>6
<1> QED
  BY <1>1, <1>7

(***************************************************************************)
(* Every exponent counts modulo the order, be it negative or too large.    *)
(***************************************************************************)
LEMMA ExponentModuloQ ==
  ASSUME NEW s \in Int
  PROVE  ModExp(G, s, P) = GPow(s % Q) /\ s % Q \in 0 .. Q - 1
<1>1. CASE s \in Nat
  BY <1>1, GPowPeriod, GPowLaws
<1>2. CASE s < 0
  BY <1>2, GPowNegative
<1> QED
  BY <1>1, <1>2

(***************************************************************************)
(* The equation holds for an answer if and only if it is the honest one    *)
(* modulo the order of the group.                                          *)
(***************************************************************************)
THEOREM EquationDecides ==
  ASSUME NEW x \in Nat, NEW k \in Nat, NEW c \in Nat, NEW s \in Int
  PROVE  ProofHolds(s, Commitment(k), PublicKey(x), c)
           <=> s % Q = Answer(k, c, x)
<1>1. PICK n \in Nat : n = k + c * x /\ c * x = x * c /\ x * c \in Nat
  OBVIOUS
<1>2. Answer(k, c, x) = n % Q /\ n % Q \in 0 .. Q - 1 /\ GPow(n) = GPow(n % Q)
  BY <1>1, GPowPeriod DEF Answer
<1>3. Commitment(k) = GPow(k) /\ PublicKey(x) = GPow(x) /\ GPow(x) \in Nat
  BY GPowLaws DEF Commitment, PublicKey
<1>4. ModExp(GPow(x), c, P) = GPow(x * c)
  <2>1. ModExp(GPow(x), c, P) = Powers(GPow(x), P)[c]
    BY DEF ModExp
  <2>2. Powers(Powers(G, P)[x], P)[c] = Powers(G, P)[x * c]
    BY GroupAssumption, PowersOfPowers
  <2> QED
    BY <2>1, <2>2 DEF GPow
<1>5. (GPow(k) * GPow(x * c)) % P = GPow(n)
  BY <1>1, GPowLaws DEF Mul
<1>6. ModExp(G, s, P) = GPow(s % Q) /\ s % Q \in 0 .. Q - 1
  BY ExponentModuloQ
<1>7. ProofHolds(s, Commitment(k), PublicKey(x), c)
        <=> GPow(s % Q) = GPow(n % Q)
  BY <1>2, <1>3, <1>4, <1>5, <1>6 DEF ProofHolds
<1>8. PICK a \in 0 .. Q - 1, b \in 0 .. Q - 1 : a = s % Q /\ b = n % Q
  BY <1>2, <1>6
<1>9. GPow(a) = GPow(b) <=> a = b
  <2>1. a < b \/ b < a \/ a = b
    BY GroupAssumption
  <2> QED
    BY <2>1, GPowInjective
<1> QED
  BY <1>2, <1>7, <1>8, <1>9

(***************************************************************************)
(* The honest answer is below the order.                                   *)
(***************************************************************************)
LEMMA AnswerIsReduced ==
  ASSUME NEW x \in Nat, NEW k \in Nat, NEW c \in Nat
  PROVE  Answer(k, c, x) \in Nat /\ Answer(k, c, x) % Q = Answer(k, c, x)
<1>1. k + c * x \in Int
  OBVIOUS
<1>2. Answer(k, c, x) \in 0 .. Q - 1
  BY <1>1, ModuloQ DEF Answer
<1>3. \A a \in 0 .. Q - 1 : a \in Nat /\ a % Q = a
  BY GroupAssumption
<1> QED
  BY <1>2, <1>3

-----------------------------------------------------------------------------
(* The session.                                                            *)

(***************************************************************************)
(* The inputs are numbers, what an honest client sends is the answer, and  *)
(* the verdict is what the equation says.                                  *)
(***************************************************************************)
SessionInv ==
  /\ secret \in Nat /\ nonce \in Nat /\ challenge \in Nat /\ answer \in Int
  /\ stage \in {"inputs", "sent", "checked"}
  /\ honest => answer = Answer(nonce, challenge, secret)
  /\ stage = "checked" =>
       (verdict <=>
          ProofHolds(answer, Commitment(nonce), PublicKey(secret), challenge))

(***************************************************************************)
(* The invariant holds in every session.                                   *)
(***************************************************************************)
THEOREM SessionInvariance == Spec => []SessionInv
<1>1. Init => SessionInv
  BY GroupAssumption DEF Init, SessionInv, randomInRange
<1>2. SessionInv /\ [Next]_vars => SessionInv'
  <2> SUFFICES ASSUME SessionInv, [Next]_vars PROVE SessionInv'
    OBVIOUS
  <2>1. ASSUME NEW c \in Digests, Prove(c) PROVE SessionInv'
    <3>1. c \in Nat /\ Answer(nonce, c, secret) \in Int
      BY InputAssumption, AnswerIsReduced DEF SessionInv
    <3> QED
      BY <2>1, <3>1 DEF Prove, Send, SessionInv
  <2>2. ASSUME NEW c \in Digests, NEW s \in Guesses, Guess(c, s)
        PROVE  SessionInv'
    BY <2>2, InputAssumption DEF Guess, Send, SessionInv
  <2>3. CASE Check
    BY <2>3 DEF Check, SessionInv
  <2>4. CASE UNCHANGED vars
    BY <2>4 DEF SessionInv, vars
  <2> QED
    BY <2>1, <2>2, <2>3, <2>4 DEF Next, Finished
<1> QED
  BY <1>1, <1>2, PTL DEF Spec

(***************************************************************************)
(* Completeness: the server accepts an honest client, whatever secret and  *)
(* nonce it drew, and whatever the digest of the challenge is.             *)
(***************************************************************************)
THEOREM HonestIsAccepted == Spec => []HonestProofAccepted
<1>1. SessionInv => HonestProofAccepted
  <2> SUFFICES ASSUME SessionInv, stage = "checked", honest PROVE verdict
    BY DEF HonestProofAccepted
  <2>1. answer % Q = Answer(nonce, challenge, secret)
    BY AnswerIsReduced DEF SessionInv
  <2> QED
    BY <2>1, EquationDecides DEF SessionInv
<1> QED
  BY <1>1, SessionInvariance, PTL

(***************************************************************************)
(* The server accepts nothing but the honest answer and what equals it     *)
(* modulo the order: negative and oversized answers change nothing.        *)
(***************************************************************************)
THEOREM AcceptedIsTheAnswer == Spec => []OnlyTheAnswerIsAccepted
<1>1. SessionInv => OnlyTheAnswerIsAccepted
  BY EquationDecides DEF SessionInv, OnlyTheAnswerIsAccepted
<1> QED
  BY <1>1, SessionInvariance, PTL
=============================================================================
