---------------------------- MODULE VarintProofs ----------------------------
(***************************************************************************)
(* Proof that the variable-length integers of bytearray.cc are read back,  *)
(* for every width of the integer and of the group, 32 or 64 and 7 bits in *)
(* the code.                                                               *)
(***************************************************************************)
EXTENDS Varint, FiniteSetTheorems, TLAPS

USE SMTT(60), ZenonT(60), SMTT(90), SMTT(120)

-----------------------------------------------------------------------------
(* Powers of two.  The provers know nothing of them; what is needed comes  *)
(* from counting: 2^n is the number of subsets of 1..n.                    *)

LEMMA Subsets ==
    ASSUME NEW n \in Nat
    PROVE  /\ IsFiniteSet(1..n) /\ IsFiniteSet(SUBSET (1..n))
           /\ Cardinality(SUBSET (1..n)) = 2^n
<1>1. IsFiniteSet(1..n) /\ Cardinality(1..n) = n
  BY FS_Interval
<1> QED
  BY ZenonT(60), <1>1, FS_SUBSET

LEMMA PowerPositive ==
    ASSUME NEW n \in Nat
    PROVE  2^n \in Nat \ {0}
<1>1. Cardinality(SUBSET (1..n)) \in Nat
  BY ZenonT(60), Subsets, FS_CardinalityType
<1>2. SUBSET (1..n) # {}
  BY Zenon
<1>3. Cardinality(SUBSET (1..n)) # 0
  BY ZenonT(60), <1>2, Subsets, FS_EmptySet
<1> QED
  BY ZenonT(60), <1>1, <1>3, Subsets

LEMMA PowerZero == 2^0 = 1
<1>1. SUBSET (1..0) = {{}}
  <2>1. 1..0 = {}
    OBVIOUS
  <2> QED
    BY <2>1
<1>2. Cardinality({{}}) = 1
  BY ZenonT(60), FS_Singleton
<1> QED
  BY <1>1, <1>2, Subsets

\* A subset of 1..(a + b) is one of 1..a and one of the rest.
LEMMA PowerSum ==
    ASSUME NEW a \in Nat, NEW b \in Nat
    PROVE  2^(a + b) = 2^a * 2^b
<1> DEFINE A == 1..a
<1> DEFINE B == (a + 1)..(a + b)
<1> DEFINE S == (SUBSET A) \X (SUBSET B)
<1> DEFINE T == SUBSET (1..(a + b))
<1> DEFINE f == [p \in S |-> p[1] \cup p[2]]
<1>1. A \cup B = 1..(a + b) /\ A \cap B = {}
  OBVIOUS
<1>2. IsFiniteSet(SUBSET A) /\ Cardinality(SUBSET A) = 2^a
  BY Subsets
<1>3. IsFiniteSet(SUBSET B) /\ Cardinality(SUBSET B) = 2^b
  <2>1. IsFiniteSet(B) /\ Cardinality(B) = b
    BY FS_Interval
  <2> QED
    BY ZenonT(60), <2>1, FS_SUBSET
<1>4. IsFiniteSet(S) /\ Cardinality(S) = 2^a * 2^b
  <2>1. /\ IsFiniteSet((SUBSET A) \X (SUBSET B))
        /\ Cardinality((SUBSET A) \X (SUBSET B)) = Cardinality(SUBSET A) * Cardinality(SUBSET B)
    BY ZenonT(60), <1>2, <1>3, FS_Product
  <2> QED
    BY ZenonT(60), <1>2, <1>3, <2>1
<1>5. Cardinality(T) = 2^(a + b)
  <2>1. a + b \in Nat
    OBVIOUS
  <2> QED
    BY ZenonT(60), <2>1, Subsets
<1>6. f \in Bijection(S, T)
  <2> HIDE DEF A, B
  <2>1. f \in [S -> T]
    BY <1>1
  <2>2. ASSUME NEW p \in S, NEW q \in S, f[p] = f[q] PROVE p = q
    <3>1. p[1] \cup p[2] = q[1] \cup q[2]
      BY <2>2
    <3>2. p[1] \subseteq A /\ p[2] \subseteq B /\ q[1] \subseteq A /\ q[2] \subseteq B
      OBVIOUS
    <3>3. p[1] = q[1] /\ p[2] = q[2]
      BY <1>1, <3>1, <3>2
    <3> QED
      BY <3>3
  <2>3. ASSUME NEW t \in T PROVE \E p \in S : f[p] = t
    <3>1. <<t \cap A, t \cap B>> \in S /\ (t \cap A) \cup (t \cap B) = t
      BY ZenonT(60), <1>1
    <3>2. f[<<t \cap A, t \cap B>>] = t
      BY <3>1
    <3> QED
      BY ZenonT(60), <3>1, <3>2
  <2> HIDE DEF S, T, f
  <2>4. DOMAIN f = S
    BY ZenonT(60), <2>1
  <2>5. f \in Injection(S, T)
    BY ZenonT(60), <2>1, <2>2, <2>4 DEF Injection, IsInjective
  <2>6. f \in Surjection(S, T)
    BY ZenonT(60), <2>1, <2>3 DEF Surjection
  <2> QED
    BY ZenonT(60), <2>5, <2>6 DEF Bijection
<1> HIDE DEF S, T, f
<1>7. ExistsBijection(S, T)
  BY <1>6 DEF ExistsBijection
<1> QED
  BY <1>4, <1>5, <1>7, FS_Bijection

-----------------------------------------------------------------------------
(* Division.                                                               *)

LEMMA DivMod ==
    ASSUME NEW a \in Nat, NEW b \in Nat \ {0}
    PROVE  /\ a \div b \in Nat /\ a % b \in Nat /\ a % b < b
           /\ a = b * (a \div b) + (a % b)
OBVIOUS

LEMMA ProductPositive ==
    ASSUME NEW a \in Nat \ {0}, NEW b \in Nat \ {0}
    PROVE  a * b \in Nat \ {0}
OBVIOUS

LEMMA Apart ==
    ASSUME NEW b \in Nat \ {0}, NEW k \in Nat, NEW q \in Nat, k > q
    PROVE  b * k >= b * q + b
<1>1. k >= q + 1
  OBVIOUS
<1>2. b * k >= b * (q + 1)
  BY <1>1
<1>3. b * (q + 1) = b * q + b
  OBVIOUS
<1> QED
  BY <1>2, <1>3

\* Quotient and remainder are unique.
LEMMA DivUnique ==
    ASSUME NEW a \in Nat, NEW b \in Nat \ {0}, NEW q \in Nat, NEW r \in Nat,
           a = b * q + r, r < b
    PROVE  a \div b = q /\ a % b = r
<1> DEFINE d == a \div b
<1> DEFINE m == a % b
<1>1. d \in Nat /\ m \in Nat /\ m < b /\ a = b * d + m
  BY DivMod
<1> HIDE DEF d, m
<1> DEFINE x == b * q
<1> DEFINE y == b * d
<1>2. x \in Nat /\ y \in Nat /\ a = x + r /\ a = y + m
  BY <1>1
<1>3. (q > d => x >= y + b) /\ (d > q => y >= x + b)
  BY <1>1, Apart
<1>4. q = d => x = y
  OBVIOUS
<1> HIDE DEF x, y
<1>5. q = d /\ m = r
  BY <1>1, <1>2, <1>3, <1>4
<1> QED
  BY <1>5 DEF d, m

\* Dividing twice: the quotient of the quotient, and the remainder put
\* together from two.
LEMMA DivTwice ==
    ASSUME NEW u \in Nat, NEW p \in Nat \ {0}, NEW b \in Nat \ {0}
    PROVE  /\ u \div (p * b) = (u \div p) \div b
           /\ u % (p * b) = (u % p) + ((u \div p) % b) * p
<1> DEFINE q == u \div p
<1> DEFINE r == u % p
<1> DEFINE s == q \div b
<1> DEFINE t == q % b
<1>1. q \in Nat /\ r \in Nat /\ r < p /\ u = p * q + r
  BY DivMod
<1> HIDE DEF q, r
<1>2. s \in Nat /\ t \in Nat /\ t < b /\ q = b * s + t
  BY <1>1, DivMod
<1> HIDE DEF s, t
<1>3. p * q = (p * b) * s + t * p
  <2>1. p * q = p * (b * s + t)
    BY <1>2
  <2>2. p * (b * s + t) = p * (b * s) + p * t
    BY <1>2
  <2>3. p * (b * s) = (p * b) * s
    BY <1>2
  <2>4. p * t = t * p
    BY <1>2
  <2> QED
    BY <2>1, <2>2, <2>3, <2>4
<1>4. t * p + r \in Nat /\ t * p + r < p * b
  <2>1. p * b >= p * t + p
    BY <1>2, Apart
  <2>2. p * t = t * p /\ t * p \in Nat /\ p * b \in Nat
    BY <1>2
  <2> QED
    BY <1>1, <2>1, <2>2
<1>5. u = (p * b) * s + (t * p + r)
  <2>1. (p * b) * s \in Nat /\ t * p \in Nat
    BY <1>2
  <2> QED
    BY <1>1, <1>3, <2>1
<1>6. u \div (p * b) = s /\ u % (p * b) = t * p + r
  <2> DEFINE c == p * b
  <2> DEFINE z == t * p + r
  <2>1. c \in Nat \ {0} /\ z \in Nat /\ z < c /\ u = c * s + z
    BY <1>4, <1>5, ProductPositive
  <2> HIDE DEF c, z
  <2>2. u \div c = s /\ u % c = z
    BY <1>2, <2>1, DivUnique
  <2> QED
    BY <2>2 DEF c, z
<1>7. t * p + r = r + t * p
  BY <1>1, <1>2
<1> QED
  BY <1>6, <1>7 DEF q, r, s, t

LEMMA DivSmall ==
    ASSUME NEW u \in Nat, NEW p \in Nat \ {0}
    PROVE  /\ u < p => u % p = u
           /\ u % p <= u
           /\ u \div 1 = u /\ u % 1 = 0
OBVIOUS

\* The quotient is below b exactly when the number is below p * b.
LEMMA DivBelow ==
    ASSUME NEW u \in Nat, NEW p \in Nat \ {0}, NEW b \in Nat \ {0}
    PROVE  u \div p < b <=> u < p * b
<1> DEFINE q == u \div p
<1> DEFINE r == u % p
<1>1. q \in Nat /\ r \in Nat /\ r < p /\ u = p * q + r
  BY DivMod
<1> HIDE DEF q, r
<1> DEFINE x == p * q
<1> DEFINE y == p * b
<1>2. x \in Nat /\ y \in Nat /\ u = x + r
  BY <1>1
<1>3. (b > q => y >= x + p) /\ (q > b => x >= y + p) /\ (q = b => x = y)
  BY <1>1, Apart
<1> HIDE DEF x, y
<1>4. q < b <=> u < y
  BY <1>1, <1>2, <1>3
<1> QED
  BY <1>4 DEF q, y

-----------------------------------------------------------------------------
(* The integers: Half is 2^31 or 2^63.                                     *)

Half == 2^(Width - 1)

\* The weight of group n.
Weight(n) == 2^(Group * n)

LEMMA Sizes ==
    /\ Width \in Nat \ {0} /\ Group \in Nat \ {0} /\ Room \in Nat \ {0}
    /\ Half \in Nat \ {0} /\ Modulus = 2 * Half /\ Modulus \in Nat \ {0}
    /\ Byte \in Nat \ {0}
<1>1. Width \in Nat \ {0} /\ Group \in Nat \ {0} /\ Room \in Nat \ {0}
  <2>1. Group \in Nat \ {0} /\ Room \in Nat \ {0} /\ Width \in Nat
    BY VarintAssumption
  <2>2. Group * (Room - 1) >= 0
    BY <2>1
  <2>3. Group * (Room - 1) < Width /\ Group * (Room - 1) \in Int
    BY <2>1, VarintAssumption
  <2> QED
    BY <2>1, <2>2, <2>3
<1>2. Half \in Nat \ {0} /\ Byte \in Nat \ {0} /\ Modulus \in Nat \ {0} /\ 2^1 \in Nat \ {0}
  BY <1>1, PowerPositive DEF Half, Byte, Modulus
<1>3. 2^1 = 2
  <2>1. IsFiniteSet({1}) /\ Cardinality({1}) = 1
    BY ZenonT(60), FS_Singleton
  <2>2. SUBSET {1} = {{}, {1}}
    OBVIOUS
  <2>3. Cardinality({{}} \cup {{1}}) = 2
    <3>1. IsFiniteSet({{}}) /\ Cardinality({{}}) = 1
      BY ZenonT(60), FS_Singleton
    <3>2. {1} \notin {{}}
      OBVIOUS
    <3>3. Cardinality({{}} \cup {{1}}) = Cardinality({{}}) + 1
      BY ZenonT(60), <3>1, <3>2, FS_AddElement
    <3>4. 1 + 1 = 2
      OBVIOUS
    <3> QED
      BY ZenonT(60), <3>1, <3>3, <3>4
  <2>4. {{}} \cup {{1}} = {{}, {1}}
    OBVIOUS
  <2> QED
    BY <2>1, <2>2, <2>3, <2>4, FS_SUBSET
<1>4. 2^Width = 2^1 * 2^(Width - 1)
  <2>1. Width = 1 + (Width - 1) /\ Width - 1 \in Nat
    BY <1>1
  <2>2. 2^(1 + (Width - 1)) = 2^1 * 2^(Width - 1)
    BY ZenonT(60), <2>1, PowerSum
  <2> QED
    BY <2>1, <2>2
<1> QED
  BY <1>1, <1>2, <1>3, <1>4 DEF Half, Modulus

LEMMA Weights ==
    /\ Weight(0) = 1
    /\ \A n \in Nat : Weight(n) \in Nat \ {0} /\ Weight(n + 1) = Weight(n) * Byte
<1>1. Weight(0) = 1
  <2>1. Group * 0 = 0
    BY Sizes
  <2> QED
    BY ZenonT(60), <2>1, PowerZero DEF Weight
<1>2. ASSUME NEW n \in Nat
      PROVE  Weight(n) \in Nat \ {0} /\ Weight(n + 1) = Weight(n) * Byte
  <2>1. Group * n \in Nat /\ Group * (n + 1) = Group * n + Group /\ Group \in Nat
    BY Sizes
  <2> QED
    BY <2>1, PowerPositive, PowerSum DEF Weight, Byte
<1> QED
  BY <1>1, <1>2

\* An integer of Width bits has at most Room groups.
LEMMA Fits ==
    ASSUME NEW n \in Nat, NEW u \in Nat, u < Modulus, Weight(n) <= u
    PROVE  n < Room
<1>1. SUFFICES ASSUME n >= Room PROVE FALSE
  BY Sizes
<1>2. Group * n >= Group * Room
  BY <1>1, Sizes
<1>3. Group * n \in Nat /\ Group * Room \in Nat /\ Width <= Group * Room
  BY Sizes, VarintAssumption
<1> DEFINE d == Group * n - Width
<1>4. d \in Nat /\ Group * n = Width + d
  BY <1>2, <1>3, Sizes
<1> HIDE DEF d
<1>5. Weight(n) = Modulus * 2^d /\ 2^d \in Nat \ {0}
  BY ZenonT(60), <1>4, PowerSum, PowerPositive, Sizes DEF Weight, Modulus
<1>6. Modulus * 2^d >= Modulus
  BY <1>5, Sizes
<1> QED
  BY <1>5, <1>6, Sizes, Weights

Encoded(c) == IF c.signed THEN EncodeZigzag(c.input) ELSE c.input

\* EncodeZigzag and DecodeZigzag are inverse, the most negative integer
\* included.
LEMMA Zigzag ==
    ASSUME NEW v \in Signed
    PROVE  /\ EncodeZigzag(v) \in 0..(Modulus - 1)
           /\ DecodeZigzag(EncodeZigzag(v)) = v
<1>1. Modulus \div 2 = Half
  BY Sizes
<1>2. v \in -Half..(Half - 1) /\ v \in Int
  BY <1>1, Sizes DEF Signed
<1>3. CASE v < 0
  <2>1. (-v) % Modulus = -v
    BY <1>2, <1>3, Sizes, DivSmall
  <2>2. (-v) * 2 - 1 \in Nat /\ (-v) * 2 - 1 < Modulus
    BY <1>2, <1>3, Sizes
  <2>3. ((-v) * 2 - 1) % Modulus = (-v) * 2 - 1
    BY <2>2, Sizes, DivSmall
  <2>4. EncodeZigzag(v) = (-v) * 2 - 1
    BY <1>3, <2>1, <2>3 DEF EncodeZigzag
  <2>5. ((-v) * 2 - 1) % 2 = 1 /\ ((-v) * 2 - 1) \div 2 = -v - 1
    BY <1>2
  <2> QED
    BY <1>2, <2>2, <2>4, <2>5, Sizes DEF DecodeZigzag
<1>4. CASE v >= 0
  <2>1. v * 2 \in Nat /\ v * 2 < Modulus
    BY <1>2, <1>4, Sizes
  <2>2. EncodeZigzag(v) = v * 2
    BY <1>2, <1>4, <2>1, Sizes, DivSmall DEF EncodeZigzag
  <2>3. (v * 2) % 2 = 0 /\ (v * 2) \div 2 = v
    BY <1>2
  <2> QED
    BY <2>1, <2>2, <2>3, Sizes DEF DecodeZigzag
<1> QED
  BY <1>2, <1>3, <1>4

-----------------------------------------------------------------------------
(* The inductive invariant.                                                *)

Integer == [at : {"write", "read", "done"}, signed : BOOLEAN, input : Int, value : Nat,
            tmp : Seq(Nat), i : Nat, result : Nat]

\* Group k of the integer u.
Digit(u, k) == (u \div Weight(k)) % Byte

\* The bytes before byte n hold the groups, each with the bit for more.
Groups(c, n) == \A j \in 1..(n - 1) : c.tmp[j] = Digit(Encoded(c), j - 1) + Byte

WrittenOK(c) ==
    c.at = "write" =>
        /\ Len(c.tmp) < Room /\ c.i = 0 /\ c.result = 0
        /\ c.value = Encoded(c) \div Weight(Len(c.tmp))
        /\ Groups(c, Len(c.tmp) + 1)

\* The bytes read so far give the integer up to the weight of the next one.
ReadOK(c) ==
    c.at = "read" =>
        /\ Len(c.tmp) <= Room /\ c.i < Len(c.tmp)
        /\ c.result = Encoded(c) % Weight(c.i)
        /\ Groups(c, Len(c.tmp))
        /\ c.tmp[Len(c.tmp)] = Encoded(c) \div Weight(Len(c.tmp) - 1)
        /\ c.tmp[Len(c.tmp)] < Byte

VarintInv ==
    /\ var \in Integer
    /\ var.input \in IF var.signed THEN Signed ELSE 0..(Modulus - 1)
    /\ WrittenOK(var) /\ ReadOK(var)
    /\ var.at = "done" => /\ Len(var.tmp) <= Room /\ var.i = Len(var.tmp)
                          /\ var.result = Encoded(var)

LEMMA EncodedType ==
    ASSUME var.signed \in BOOLEAN,
           var.input \in IF var.signed THEN Signed ELSE 0..(Modulus - 1)
    PROVE  Encoded(var) \in Nat /\ Encoded(var) < Modulus
<1>1. CASE var.signed
  BY <1>1, Zigzag, Sizes DEF Encoded
<1>2. CASE ~var.signed
  BY <1>2, Sizes DEF Encoded
<1> QED
  BY <1>1, <1>2

LEMMA VarintStart == VarintInit => VarintInv
<1> SUFFICES ASSUME NEW s \in BOOLEAN, NEW v \in IF s THEN Signed ELSE 0..(Modulus - 1),
                    var = NewInteger(s, v)
             PROVE  VarintInv
  BY ZenonT(60) DEF VarintInit
<1>1. v \in Int
  BY Sizes DEF Signed
<1>2. /\ var.at = "write" /\ var.signed = s /\ var.input = v /\ var.tmp = <<>>
      /\ var.i = 0 /\ var.result = 0 /\ var.value = Encoded(var)
  BY DEF NewInteger, Encoded
<1>3. Encoded(var) \in Nat /\ Encoded(var) < Modulus
  BY <1>2, EncodedType
<1>4. var \in Integer
  BY <1>1, <1>2, <1>3 DEF NewInteger, Integer
<1>5. WrittenOK(var)
  <2>1. Len(var.tmp) = 0 /\ 1..(Len(var.tmp) + 1 - 1) = {}
    BY <1>2
  <2>2. Encoded(var) \div Weight(0) = Encoded(var)
    BY <1>3, Weights, DivSmall
  <2> QED
    BY <1>2, <2>1, <2>2, Sizes DEF WrittenOK, Groups
<1> QED
  BY <1>2, <1>4, <1>5 DEF VarintInv, ReadOK

LEMMA WriteMoreKeeps == VarintInv /\ WriteMore => VarintInv'
<1> SUFFICES ASSUME VarintInv, WriteMore PROVE VarintInv'
  OBVIOUS
<1> DEFINE u == Encoded(var)
<1> DEFINE n == Len(var.tmp)
<1>1. /\ var.at = "write" /\ var.value >= Byte /\ var \in Integer
      /\ n < Room /\ var.i = 0 /\ var.result = 0 /\ var.value = u \div Weight(n)
      /\ Groups(var, n + 1) /\ var.tmp \in Seq(Nat) /\ n \in Nat
  BY DEF VarintInv, WrittenOK, WriteMore, Integer
<1>2. u \in Nat /\ u < Modulus
  BY EncodedType DEF VarintInv, Integer
<1>3. /\ var'.at = "write" /\ var'.signed = var.signed /\ var'.input = var.input
      /\ var'.i = 0 /\ var'.result = 0
      /\ var'.tmp = Append(var.tmp, (var.value % Byte) + Byte)
      /\ var'.value = var.value \div Byte
  BY <1>1 DEF WriteMore, Integer
<1>4. Encoded(var') = u
  BY <1>3 DEF Encoded
<1>5. /\ var.value % Byte \in Nat /\ var.value \div Byte \in Nat
      /\ (var.value % Byte) + Byte \in Nat
  <2>1. var.value \in Nat /\ Byte \in Nat \ {0}
    BY <1>1, Sizes DEF Integer
  <2>2. var.value % Byte \in Nat /\ var.value \div Byte \in Nat
    BY ZenonT(60), <2>1, DivMod
  <2> QED
    BY <2>1, <2>2
<1>6. var' \in Integer
  <2>1. Append(var.tmp, (var.value % Byte) + Byte) \in Seq(Nat)
    BY <1>1, <1>5
  <2> QED
    BY ZenonT(60), <1>1, <1>5, <2>1 DEF WriteMore, Integer
<1>7. /\ Len(var'.tmp) = n + 1 /\ var'.tmp[n + 1] = (var.value % Byte) + Byte
      /\ \A j \in 1..n : var'.tmp[j] = var.tmp[j]
  BY <1>1, <1>3, <1>5
<1> HIDE DEF u, n
<1>8. n + 1 < Room
  <2>1. Weight(n) \in Nat \ {0} /\ Byte \in Nat \ {0} /\ Weight(n + 1) = Weight(n) * Byte
    BY <1>1, Weights, Sizes
  <2>2. ~(u \div Weight(n) < Byte)
    BY <1>1, <2>1 DEF Integer
  <2>3. ~(u < Weight(n) * Byte)
    BY <1>2, <2>1, <2>2, DivBelow
  <2>4. Weight(n + 1) <= u /\ n + 1 \in Nat
    <3>1. n + 1 \in Nat /\ Weight(n + 1) \in Nat
      BY <1>1, Weights
    <3>2. ~(u < Weight(n + 1))
      BY ZenonT(60), <2>1, <2>3
    <3> QED
      BY <1>2, <3>1, <3>2
  <2> QED
    BY <1>2, <2>4, Fits
<1>9. var'.value = u \div Weight(n + 1)
  <2>1. Weight(n) \in Nat \ {0} /\ Byte \in Nat \ {0} /\ Weight(n + 1) = Weight(n) * Byte
    BY <1>1, Weights, Sizes
  <2>2. u \div (Weight(n) * Byte) = (u \div Weight(n)) \div Byte
    BY ZenonT(60), <1>2, <2>1, DivTwice
  <2> QED
    BY <1>1, <1>3, <2>1, <2>2
<1>10. Groups(var', (n + 1) + 1)
  <2>1. ASSUME NEW j \in 1..(n + 1) PROVE var'.tmp[j] = Digit(u, j - 1) + Byte
    <3>1. CASE j = n + 1
      <4>1. j - 1 = n
        BY <1>1, <3>1
      <4> QED
        BY <1>1, <1>7, <3>1, <4>1 DEF Digit
    <3>2. CASE j # n + 1
      <4>1. j \in 1..n /\ 1..n = 1..((n + 1) - 1)
        BY <1>1, <3>2
      <4> QED
        BY <1>1, <1>7, <4>1 DEF Groups, u
    <3> QED
      BY <3>1, <3>2
  <2>2. 1..(((n + 1) + 1) - 1) = 1..(n + 1)
    BY <1>1
  <2> QED
    BY ZenonT(60), <1>4, <2>1, <2>2 DEF Groups
<1> QED
  BY ZenonT(60), <1>3, <1>4, <1>6, <1>7, <1>8, <1>9, <1>10 DEF VarintInv, WrittenOK, ReadOK

LEMMA WriteLastKeeps == VarintInv /\ WriteLast => VarintInv'
<1> SUFFICES ASSUME VarintInv, WriteLast PROVE VarintInv'
  OBVIOUS
<1> DEFINE u == Encoded(var)
<1> DEFINE n == Len(var.tmp)
<1>1. /\ var.at = "write" /\ var.value < Byte /\ var \in Integer
      /\ n < Room /\ var.i = 0 /\ var.result = 0 /\ var.value = u \div Weight(n)
      /\ Groups(var, n + 1) /\ var.tmp \in Seq(Nat) /\ n \in Nat /\ var.value \in Nat
  BY DEF VarintInv, WrittenOK, WriteLast, Integer
<1>2. u \in Nat /\ u < Modulus
  BY EncodedType DEF VarintInv, Integer
<1>3. /\ var'.at = "read" /\ var'.signed = var.signed /\ var'.input = var.input
      /\ var'.i = 0 /\ var'.result = 0 /\ var'.tmp = Append(var.tmp, var.value)
  BY <1>1 DEF WriteLast, Integer
<1>4. Encoded(var') = u
  BY <1>3 DEF Encoded
<1>5. var' \in Integer
  <2>1. Append(var.tmp, var.value) \in Seq(Nat)
    BY <1>1
  <2> QED
    BY ZenonT(60), <1>1, <2>1 DEF WriteLast, Integer
<1>6. /\ Len(var'.tmp) = n + 1 /\ var'.tmp[n + 1] = var.value
      /\ \A j \in 1..n : var'.tmp[j] = var.tmp[j]
  BY <1>1, <1>3
<1> HIDE DEF u, n
<1>7. (n + 1) - 1 = n /\ n + 1 <= Room /\ 0 < n + 1
  BY <1>1, Sizes
<1>8. u % Weight(0) = 0
  BY <1>2, Weights, DivSmall
<1>9. Groups(var', n + 1)
  BY ZenonT(60), <1>1, <1>4, <1>6, <1>7 DEF Groups, u
<1> QED
  BY ZenonT(60), <1>1, <1>3, <1>4, <1>5, <1>6, <1>7, <1>8, <1>9 DEF VarintInv, WrittenOK, ReadOK

\* The next byte holds the next group, and it is the last one exactly when
\* the loop ends.
LEMMA NextByte ==
    ASSUME VarintInv, var.at = "read"
    PROVE  LET b == var.tmp[var.i + 1]
               more == b < Byte \/ Group * (var.i + 1) >= Width
           IN  /\ b % Byte = Digit(Encoded(var), var.i)
               /\ more <=> var.i + 1 = Len(var.tmp)
<1> DEFINE u == Encoded(var)
<1> DEFINE n == Len(var.tmp)
<1> DEFINE i == var.i
<1> DEFINE b == var.tmp[i + 1]
<1>1. /\ n \in Nat /\ i \in Nat /\ i < n /\ n <= Room /\ Groups(var, n)
      /\ var.tmp[n] = u \div Weight(n - 1) /\ var.tmp[n] < Byte /\ var.tmp[n] \in Nat
  BY DEF VarintInv, ReadOK, Integer
<1>2. u \in Nat
  BY EncodedType DEF VarintInv, Integer
<1> HIDE DEF u, n, i
<1>3. Weight(i) \in Nat \ {0} /\ Byte \in Nat \ {0}
  BY <1>1, Weights, Sizes
<1>4. CASE i + 1 = n
  <2>1. n - 1 = i /\ b = u \div Weight(i)
    BY <1>1, <1>4
  <2>2. b \in Nat /\ b < Byte
    BY <1>1, <1>4
  <2>3. b % Byte = b
    BY <1>3, <2>2, DivSmall
  <2>4. b % Byte = Digit(u, i)
    BY <2>1, <2>3 DEF Digit
  <2> QED
    BY <1>4, <2>2, <2>4 DEF u, n, i
<1>5. CASE i + 1 # n
  <2>1. i + 1 \in 1..(n - 1) /\ (i + 1) - 1 = i
    BY <1>1, <1>5
  <2>2. b = Digit(u, i) + Byte
    BY <1>1, <2>1 DEF Groups, u
  <2> DEFINE d == Digit(u, i)
  <2>3. d \in Nat /\ d < Byte
    BY <1>2, <1>3, DivMod DEF Digit
  <2> HIDE DEF d
  <2>4. (d + Byte) % Byte = d
    <3>1. d + Byte = Byte * 1 + d /\ d + Byte \in Nat
      BY <1>3, <2>3
    <3> QED
      BY <1>3, <2>3, <3>1, DivUnique
  <2>5. b % Byte = d /\ ~(b < Byte)
    BY <1>3, <2>2, <2>3, <2>4 DEF d
  <2>6. ~(Group * (i + 1) >= Width)
    <3>1. Group * (i + 1) <= Group * (Room - 1)
      <4>1. i + 1 <= Room - 1
        BY <1>1, <2>1, Sizes
      <4> QED
        BY <1>1, <4>1, Sizes
    <3>2. Group * (i + 1) \in Nat /\ Group * (Room - 1) \in Nat
      BY <1>1, Sizes
    <3> QED
      BY <3>1, <3>2, Sizes, VarintAssumption
  <2> QED
    BY <1>5, <2>5, <2>6 DEF u, n, i, d
<1> QED
  BY <1>4, <1>5

LEMMA ReadByteKeeps == VarintInv /\ ReadByte => VarintInv'
<1> SUFFICES ASSUME VarintInv, ReadByte PROVE VarintInv'
  OBVIOUS
<1> DEFINE u == Encoded(var)
<1> DEFINE n == Len(var.tmp)
<1> DEFINE i == var.i
<1> DEFINE b == var.tmp[i + 1]
<1> DEFINE r == (u % Weight(i)) + (b % Byte) * Weight(i)
<1>1. /\ var.at = "read" /\ var \in Integer /\ n \in Nat /\ i \in Nat /\ i < n /\ n <= Room
      /\ var.result = u % Weight(i) /\ Groups(var, n)
      /\ var.tmp[n] = u \div Weight(n - 1) /\ var.tmp[n] < Byte
  BY DEF VarintInv, ReadOK, ReadByte, Integer
<1>2. u \in Nat /\ u < Modulus
  BY EncodedType DEF VarintInv, Integer
<1>3. /\ b % Byte = Digit(u, i)
      /\ b < Byte \/ Group * (i + 1) >= Width <=> i + 1 = n
  BY <1>1, NextByte
<1>4. /\ var'.at = IF i + 1 = n THEN "done" ELSE "read"
      /\ var'.signed = var.signed /\ var'.input = var.input /\ var'.tmp = var.tmp
      /\ var'.i = i + 1 /\ var'.result = r % Modulus
      /\ var'.value = var.value
  BY <1>1, <1>3 DEF ReadByte, Integer, Weight
<1>5. Encoded(var') = u /\ Len(var'.tmp) = n
  BY <1>4 DEF Encoded
<1> HIDE DEF u, n, i, b
<1>6. r = u % Weight(i + 1) /\ Weight(i + 1) \in Nat \ {0}
  <2>1. Weight(i) \in Nat \ {0} /\ Byte \in Nat \ {0} /\ Weight(i + 1) = Weight(i) * Byte
    BY <1>1, Weights, Sizes
  <2>2. u % (Weight(i) * Byte) = (u % Weight(i)) + ((u \div Weight(i)) % Byte) * Weight(i)
    BY ZenonT(60), <1>2, <2>1, DivTwice
  <2>3. i + 1 \in Nat
    BY <1>1
  <2> QED
    BY <1>3, <2>1, <2>2, <2>3, Weights DEF Digit
<1> HIDE DEF r
<1>7. r \in Nat /\ r <= u
  BY <1>2, <1>6, DivMod, DivSmall
<1>8. r % Modulus = r
  BY <1>2, <1>7, Sizes, DivSmall
<1>9. var' \in Integer
  <2>1. var'.at \in {"read", "done"} /\ var'.i \in Nat /\ var'.result \in Nat
    BY <1>1, <1>4, <1>7, <1>8
  <2>2. PICK x, y, z : var' = [var EXCEPT !.result = x, !.i = y, !.at = z]
    BY ZenonT(60) DEF ReadByte
  <2>3. x = var'.result /\ y = var'.i /\ z = var'.at
    BY <1>1, <2>2 DEF Integer
  <2> QED
    BY ZenonT(60), <1>1, <2>1, <2>2, <2>3 DEF Integer
<1>10. CASE i + 1 = n
  <2>1. Weight(i) \in Nat \ {0} /\ Byte \in Nat \ {0} /\ Weight(i + 1) = Weight(i) * Byte
    BY <1>1, Weights, Sizes
  <2>2. n - 1 = i /\ u \div Weight(i) < Byte
    BY <1>1, <1>10
  <2>3. u < Weight(i + 1)
    BY <1>2, <2>1, <2>2, DivBelow
  <2>4. r = u
    BY <1>2, <1>6, <2>3, DivSmall
  <2> QED
    BY ZenonT(60), <1>1, <1>4, <1>5, <1>8, <1>9, <1>10, <2>4 DEF VarintInv, WrittenOK, ReadOK
<1>11. CASE i + 1 # n
  <2>1. i + 1 < n
    BY <1>1, <1>11
  <2>2. Groups(var', n)
    BY ZenonT(60), <1>1, <1>4, <1>5 DEF Groups, u
  <2> QED
    BY ZenonT(60), <1>1, <1>4, <1>5, <1>6, <1>8, <1>9, <1>11, <2>1, <2>2
       DEF VarintInv, WrittenOK, ReadOK
<1> QED
  BY <1>10, <1>11

LEMMA VarintReturns == VarintInv => VarintRoundTrip
<1> SUFFICES ASSUME VarintInv PROVE VarintRoundTrip
  OBVIOUS
<1>1. Len(var.tmp) <= Room
  BY Sizes DEF VarintInv, WrittenOK, ReadOK, Integer
<1>2. ASSUME var.at = "done"
      PROVE  var.input = IF var.signed THEN DecodeZigzag(var.result) ELSE var.result
  <2>1. var.result = Encoded(var) /\ var.signed \in BOOLEAN
    BY <1>2 DEF VarintInv, Integer
  <2>2. CASE var.signed
    BY <2>1, <2>2, Zigzag DEF VarintInv, Encoded
  <2>3. CASE ~var.signed
    BY <2>1, <2>3 DEF Encoded
  <2> QED
    BY <2>2, <2>3
<1> QED
  BY <1>1, <1>2 DEF VarintInv, VarintRoundTrip

\* What readInt32/64() and readUint32/64() return is what writeInt32/64() and
\* writeUint32/64() wrote, from exactly the bytes that were written, which fit
\* tmp: for every integer of every width, the most negative one included.
THEOREM VarintsReadBack == VarintSpec => []VarintRoundTrip
<1>1. VarintInv /\ [VarintNext]_var => VarintInv'
  <2>1. VarintInv /\ UNCHANGED var => VarintInv'
    BY DEF VarintInv, WrittenOK, ReadOK, Groups, Encoded
  <2> QED
    BY ZenonT(60), <2>1, WriteMoreKeeps, WriteLastKeeps, ReadByteKeeps DEF VarintNext
<1> QED
  BY <1>1, VarintStart, VarintReturns, PTL DEF VarintSpec

=============================================================================
