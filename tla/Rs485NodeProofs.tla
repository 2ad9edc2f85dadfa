-------------------------- MODULE Rs485NodeProofs --------------------------
(***************************************************************************)
(* A peripheral on the RS-485 bus (Slave) keeps its types, reports of its  *)
(* hardware what ReportsHardware says, and carries out what arrives whole  *)
(* and nothing that has a byte of its address, command, payload or CRC     *)
(* damaged, for any frames, noise, devices and buffers.  The tester that   *)
(* emulates peripherals (Emulator) keeps its types and answers what        *)
(* arrives whole once, as the device asked.                                *)
(***************************************************************************)
EXTENDS ByteNodes, CdcFramingProofs, SequenceTheorems, WellFoundedInduction, TLAPS

SlaveSpec == SlaveInit /\ [][SlaveNext]_slaveVars

-----------------------------------------------------------------------------
(* The CRC. *)

\* Induction over the natural numbers, stated for a set: the least number outside.
LEMMA NatHasLeast ==
  ASSUME NEW T, T \subseteq Nat, T # {}
  PROVE  \E x \in T : \A y \in T : x <= y
<1> DEFINE R == {ss \in Nat \X Nat : ss[1] < ss[2]}
<1>1. IsWellFoundedOn(R, Nat)
  BY NatLessThanWellFounded DEF OpToRel
<1>2. \E x \in T : \A y \in T : ~ (<<y, x>> \in R)
  <2> HIDE DEF R
  <2> QED
    BY <1>1, WFMin, Zenon
<1>3. PICK x \in T : \A y \in T : ~ (<<y, x>> \in R)
  BY <1>2
<1>4. ASSUME NEW y \in T PROVE x <= y
  <2>1. x \in Nat /\ y \in Nat
    OBVIOUS
  <2>2. <<y, x>> \notin R
    BY <1>3
  <2>3. ~ (y < x)
    BY <2>1, <2>2
  <2> QED
    BY <2>1, <2>3
<1> QED
  BY <1>4

LEMMA NatInSet ==
  ASSUME NEW S, 0 \in S, \A n \in Nat : n \in S => n + 1 \in S
  PROVE  Nat \subseteq S
<1> SUFFICES ASSUME Nat \ S # {} PROVE FALSE
  OBVIOUS
<1>1. PICK x \in Nat \ S : \A y \in Nat \ S : x <= y
  BY NatHasLeast
<1>2. x # 0 /\ x - 1 \in Nat
  BY <1>1
<1>3. x - 1 \in S
  BY <1>1, <1>2
<1> QED
  BY <1>1, <1>2, <1>3

\* A value and n steps from it, each by a function of its own.
Moves(T, n) == [1..n -> [T -> T]]

IsRun(g, T, start, n, moves) ==
  /\ g \in [0..n -> T] /\ g[0] = start
  /\ \A k \in 1..n : g[k] = moves[k][g[k - 1]]

LEMMA RunExists ==
  ASSUME NEW T, NEW start \in T, NEW n \in Nat, NEW moves \in Moves(T, n)
  PROVE  \E g : IsRun(g, T, start, n, moves)
<1> USE DEF Moves
<1> DEFINE Good(g, m) == /\ g \in [0..m -> T] /\ g[0] = start
                         /\ \A k \in 1..m : g[k] = moves[k][g[k - 1]]
           S == {m \in Nat : m <= n => \E g : Good(g, m)}
<1>1. 0 \in S
  <2>1. Good([k \in 0..0 |-> start], 0)
    OBVIOUS
  <2> QED
    BY <2>1
<1>2. ASSUME NEW m \in Nat, m \in S PROVE m + 1 \in S
  <2> HIDE DEF Good
  <2> SUFFICES ASSUME m + 1 <= n PROVE \E h : Good(h, m + 1)
    OBVIOUS
  <2>1. m <= n /\ m + 1 \in 1..n
    OBVIOUS
  <2>2. PICK g : Good(g, m)
    BY <1>2, <2>1
  <2> DEFINE h == [k \in 0..(m + 1) |-> IF k <= m THEN g[k] ELSE moves[m + 1][g[m]]]
  <2>3. moves[m + 1][g[m]] \in T
    <3>1. g[m] \in T /\ moves[m + 1] \in [T -> T]
      BY <2>1, <2>2 DEF Good
    <3> QED
      BY <3>1
  <2>4. h \in [0..(m + 1) -> T] /\ h[0] = start
    BY <2>2, <2>3 DEF Good
  <2>5. ASSUME NEW k \in 1..(m + 1) PROVE h[k] = moves[k][h[k - 1]]
    <3>1. CASE k <= m
      <4>1. h[k] = g[k] /\ h[k - 1] = g[k - 1] /\ k \in 1..m
        BY <3>1
      <4> QED
        BY <4>1, <2>2 DEF Good
    <3>2. CASE k = m + 1
      <4>1. h[k] = moves[k][g[m]] /\ h[k - 1] = g[k - 1] /\ k - 1 = m
        BY <3>2
      <4> QED
        BY <4>1
    <3> QED
      BY <3>1, <3>2
  <2> QED
    BY <2>4, <2>5 DEF Good
<1>3. n \in S
  <2> HIDE DEF S
  <2> QED
    BY <1>1, <1>2, NatInSet
<1> HIDE DEF Good
<1>4. PICK g : Good(g, n)
  BY <1>3
<1> QED
  BY <1>4 DEF Good, IsRun

LEMMA ByteTypes ==
  /\ Base \in Nat /\ Base >= 8 /\ Base % 2 = 0 /\ Bits \in Nat
  /\ Poly \in Byte /\ Poly % 2 = 1 /\ Sof \in Byte
BY Rs485FrameAssumption

LEMMA XorFacts ==
  /\ \A a, b \in Byte : XorByte(a, b) \in Byte
  /\ \A a, b, c \in Byte : XorByte(a, c) = XorByte(b, c) => a = b
  /\ \A a, b, c \in Byte : XorByte(c, a) = XorByte(c, b) => a = b
  /\ \A a, b \in Byte : XorByte(a, b) = a => b = 0
<1>1. \A a, b \in Byte : XorByte(a, b) \in Byte
  BY XorAssumption
<1>2. \A a, b, c \in Byte : XorByte(a, c) = XorByte(b, c) => a = b
  <2> SUFFICES ASSUME NEW a \in Byte, NEW b \in Byte, NEW c \in Byte, XorByte(a, c) = XorByte(b, c)
               PROVE  a = b
    OBVIOUS
  <2>1. XorByte(XorByte(a, c), c) = a /\ XorByte(XorByte(b, c), c) = b
    BY XorAssumption
  <2> QED
    BY <2>1
<1>3. \A a, b, c \in Byte : XorByte(c, a) = XorByte(c, b) => a = b
  <2> SUFFICES ASSUME NEW a \in Byte, NEW b \in Byte, NEW c \in Byte, XorByte(c, a) = XorByte(c, b)
               PROVE  a = b
    OBVIOUS
  <2>1. XorByte(c, a) = XorByte(a, c) /\ XorByte(c, b) = XorByte(b, c)
    BY XorAssumption
  <2>2. XorByte(a, c) = XorByte(b, c)
    BY <2>1, Zenon
  <2> QED
    BY <1>2, <2>2, Zenon
<1>4. \A a, b \in Byte : XorByte(a, b) = a => b = 0
  <2> SUFFICES ASSUME NEW a \in Byte, NEW b \in Byte, XorByte(a, b) = a PROVE b = 0
    OBVIOUS
  <2>1. 0 \in Byte
    BY ByteTypes DEF Byte
  <2>2. XorByte(a, 0) = a
    BY XorAssumption
  <2> QED
    BY <1>3, <2>1, <2>2
<1> QED
  BY <1>1, <1>2, <1>3, <1>4

\* A step of crc8 loses nothing: the two branches end in different bits.
LEMMA ShiftLosesNothing ==
  /\ \A s \in Byte : Shifted(s) \in Byte
  /\ \A s, t \in Byte : Shifted(s) = Shifted(t) => s = t
<1>1. PICK half \in Nat : Base = 2 * half /\ half > 0
  <2>1. Base = 2 * (Base \div 2) /\ Base \div 2 \in Nat /\ Base \div 2 > 0
    BY ByteTypes
  <2> QED
    BY <2>1
<1>2. Base \div 2 = half
  BY <1>1
<1>3. ASSUME NEW s \in Byte, s < half
      PROVE  Shifted(s) = 2 * s /\ Shifted(s) \in Byte /\ Shifted(s) % 2 = 0
  <2>1. s \in Nat /\ ~ (s >= half) /\ 2 * s \in Byte /\ (2 * s) % 2 = 0
    BY <1>1, <1>3 DEF Byte
  <2> QED
    BY <1>2, <2>1 DEF Shifted
<1>4. ASSUME NEW s \in Byte, s >= half
      PROVE  /\ Shifted(s) = XorByte(2 * s - Base, Poly) /\ 2 * s - Base \in Byte
             /\ Shifted(s) \in Byte /\ Shifted(s) % 2 = 1
  <2>1. s \in Nat /\ 2 * s - Base \in Byte /\ 2 * s - Base = 2 * (s - half) /\ s - half \in Nat
    BY <1>1, <1>4 DEF Byte
  <2>2. (2 * s) % Base = 2 * s - Base
    BY <1>1, <2>1 DEF Byte
  <2>3. Shifted(s) = XorByte(2 * s - Base, Poly)
    BY <1>2, <1>4, <2>2 DEF Shifted
  <2> DEFINE a == 2 * s - Base
  <2>4. a \in Byte /\ Poly \in Byte
    BY <2>1, ByteTypes
  <2>5. a % 2 = 0 /\ Poly % 2 = 1 /\ a \in Nat /\ Poly \in Nat
    BY <1>1, <2>1, ByteTypes DEF Byte
  <2> HIDE DEF a
  <2>6. XorByte(a, Poly) \in Byte /\ XorByte(a, Poly) % 2 = (a + Poly) % 2
    BY <2>4, XorAssumption
  <2>7. (a + Poly) % 2 = 1
    BY <2>5
  <2> QED
    BY <2>3, <2>4, <2>6, <2>7 DEF a
<1>5. ASSUME NEW s \in Byte, NEW t \in Byte, Shifted(s) = Shifted(t)
      PROVE  s = t
  <2>1. s \in Nat /\ t \in Nat
    BY <1>1 DEF Byte
  <2>2. CASE s < half /\ t < half
    BY <1>3, <1>5, <2>1, <2>2
  <2>3. CASE s >= half /\ t >= half
    <3>1. XorByte(2 * s - Base, Poly) = XorByte(2 * t - Base, Poly) /\ 2 * s - Base \in Byte /\ 2 * t - Base \in Byte
      BY <1>4, <1>5, <2>3
    <3>2. 2 * s - Base = 2 * t - Base
      BY <3>1, XorFacts, ByteTypes
    <3> QED
      BY <1>1, <2>1, <3>2
  <2>4. CASE s < half /\ t >= half
    BY <1>3, <1>4, <1>5, <2>4
  <2>5. CASE s >= half /\ t < half
    BY <1>3, <1>4, <1>5, <2>5
  <2> QED
    BY <1>1, <2>1, <2>2, <2>3, <2>4, <2>5
<1> QED
  <2>1. ASSUME NEW s \in Byte PROVE Shifted(s) \in Byte
    <3>1. s \in Nat
      BY <1>1 DEF Byte
    <3> QED
      BY <1>1, <1>3, <1>4, <3>1
  <2> QED
    BY <1>5, <2>1

\* Nor does crc8 over a byte.
LEMMA CrcOfLosesNothing ==
  CrcOf \in [Byte -> Byte] /\ \A a, b \in Byte : CrcOf[a] = CrcOf[b] => a = b
<1> DEFINE Run(g) == g = [k \in 0..Bits |-> IF k = 0 THEN [c \in Byte |-> c]
                                           ELSE [c \in Byte |-> Shifted(g[k - 1][c])]]
           start == [c \in Byte |-> c]
           T == [Byte -> Byte]
           moves == [k \in 1..Bits |-> [f \in T |-> [c \in Byte |-> Shifted(f[c])]]]
<1>1. start \in T /\ moves \in [1..Bits -> [T -> T]]
  BY ShiftLosesNothing
<1>2. \E g : Run(g)
  <2>0. PICK g : IsRun(g, T, start, Bits, moves)
    <3>1. moves \in Moves(T, Bits) /\ Bits \in Nat
      BY <1>1, ByteTypes DEF Moves
    <3> HIDE DEF start, T, moves
    <3> QED
      BY <1>1, <3>1, RunExists, Zenon
  <2>1. g \in [0..Bits -> T] /\ g[0] = start /\ \A k \in 1..Bits : g[k] = moves[k][g[k - 1]]
    BY <2>0 DEF IsRun
  <2>2. ASSUME NEW k \in 0..Bits
        PROVE  g[k] = IF k = 0 THEN start ELSE [c \in Byte |-> Shifted(g[k - 1][c])]
    <3>1. CASE k = 0
      BY <2>1, <3>1
    <3>2. CASE k # 0
      <4>1. k \in 1..Bits /\ k - 1 \in 0..Bits
        BY <3>2, ByteTypes
      <4>2. g[k - 1] \in T /\ g[k] = moves[k][g[k - 1]]
        BY <2>1, <4>1
      <4> QED
        BY <3>2, <4>1, <4>2
    <3> QED
      BY <3>1, <3>2
  <2>3. g = [k \in 0..Bits |-> IF k = 0 THEN start ELSE [c \in Byte |-> Shifted(g[k - 1][c])]]
    BY <2>1, <2>2
  <2> QED
    BY <2>3
<1>3. ASSUME NEW g, Run(g)
      PROVE  g[Bits] \in [Byte -> Byte] /\ \A a, b \in Byte : g[Bits][a] = g[Bits][b] => a = b
  <2> DEFINE S == {k \in Nat : k <= Bits => /\ g[k] \in [Byte -> Byte]
                                            /\ \A a, b \in Byte : g[k][a] = g[k][b] => a = b}
  <2>1. 0 \in S
    <3>1. 0 \in 0..Bits
      BY ByteTypes
    <3>2. g[0] = start
      BY <1>3, <3>1
    <3> QED
      BY <3>2
  <2>2. ASSUME NEW k \in Nat, k \in S PROVE k + 1 \in S
    <3> SUFFICES ASSUME k + 1 <= Bits
                 PROVE  /\ g[k + 1] \in [Byte -> Byte]
                        /\ \A a, b \in Byte : g[k + 1][a] = g[k + 1][b] => a = b
      OBVIOUS
    <3>1. k + 1 \in 0..Bits /\ k + 1 # 0 /\ (k + 1) - 1 = k /\ k <= Bits
      BY ByteTypes
    <3>2. g[k] \in [Byte -> Byte] /\ \A a, b \in Byte : g[k][a] = g[k][b] => a = b
      BY <2>2, <3>1
    <3>3. g[k + 1] = [c \in Byte |-> Shifted(g[k][c])]
      BY <1>3, <3>1
    <3>4. \A c \in Byte : g[k][c] \in Byte
      BY <3>2
    <3> HIDE DEF Run
    <3> QED
      BY <3>2, <3>3, <3>4, ShiftLosesNothing
  <2>3. Bits \in S
    <3> HIDE DEF S
    <3> QED
      BY <2>1, <2>2, NatInSet, ByteTypes
  <2> QED
    BY <2>3, ByteTypes
<1>4. CrcOf = (CHOOSE g : Run(g))[Bits]
  BY DEF CrcOf
<1> HIDE DEF Run
<1> QED
  BY <1>2, <1>3, <1>4

\* The CRC as it comes about, byte by byte.
LEMMA CrcRun ==
  ASSUME NEW s \in Seq(Byte)
  PROVE  \E g \in [0..Len(s) -> Byte] :
           /\ g[0] = 0 /\ \A k \in 1..Len(s) : g[k] = CrcOf[XorByte(g[k - 1], s[k])]
           /\ Crc(s) = g[Len(s)]
<1> DEFINE n == Len(s)
           Run(g) == g = [k \in 0..n |-> IF k = 0 THEN 0 ELSE CrcOf[XorByte(g[k - 1], s[k])]]
           moves == [k \in 1..n |-> [c \in Byte |-> CrcOf[XorByte(c, s[k])]]]
<1>1. n \in Nat /\ (\A k \in 1..n : s[k] \in Byte) /\ 0 \in Byte
  BY ByteTypes DEF Byte
<1>2. ASSUME NEW c \in Byte, NEW k \in 1..n PROVE CrcOf[XorByte(c, s[k])] \in Byte
  <2>1. XorByte(c, s[k]) \in Byte
    BY <1>1, XorFacts
  <2> QED
    BY <2>1, CrcOfLosesNothing
<1>3. moves \in [1..n -> [Byte -> Byte]]
  BY <1>2
<1> HIDE DEF n
<1>4. \E g : Run(g)
  <2>0. PICK g : IsRun(g, Byte, 0, n, moves)
    <3>1. moves \in Moves(Byte, n)
      BY <1>3 DEF Moves
    <3> HIDE DEF moves
    <3> QED
      BY <1>1, <3>1, RunExists, Zenon
  <2>1. g \in [0..n -> Byte] /\ g[0] = 0 /\ \A k \in 1..n : g[k] = moves[k][g[k - 1]]
    BY <2>0 DEF IsRun
  <2>2. ASSUME NEW k \in 0..n
        PROVE  g[k] = IF k = 0 THEN 0 ELSE CrcOf[XorByte(g[k - 1], s[k])]
    <3>1. CASE k = 0
      BY <2>1, <3>1
    <3>2. CASE k # 0
      <4>1. k \in 1..n /\ k - 1 \in 0..n
        BY <1>1, <3>2
      <4>2. g[k - 1] \in Byte /\ g[k] = moves[k][g[k - 1]]
        BY <2>1, <4>1
      <4> QED
        BY <3>2, <4>1, <4>2
    <3> QED
      BY <3>1, <3>2
  <2>3. g = [k \in 0..n |-> IF k = 0 THEN 0 ELSE CrcOf[XorByte(g[k - 1], s[k])]]
    <3>1. g = [k \in 0..n |-> g[k]]
      BY <2>1
    <3> QED
      BY <2>2, <3>1
  <2> QED
    BY <2>3
<1>5. ASSUME NEW g, Run(g)
      PROVE  /\ g \in [0..n -> Byte]
             /\ g[0] = 0 /\ \A k \in 1..n : g[k] = CrcOf[XorByte(g[k - 1], s[k])]
  <2>1. g[0] = 0 /\ \A k \in 1..n : g[k] = CrcOf[XorByte(g[k - 1], s[k])]
    BY <1>1, <1>5
  <2> DEFINE S == {k \in Nat : k <= n => g[k] \in Byte}
  <2>2. 0 \in S
    BY <1>1, <2>1
  <2>3. ASSUME NEW k \in Nat, k \in S PROVE k + 1 \in S
    <3> SUFFICES ASSUME k + 1 <= n PROVE g[k + 1] \in Byte
      OBVIOUS
    <3>1. k + 1 \in 1..n /\ (k + 1) - 1 = k /\ g[k] \in Byte
      BY <1>1, <2>3
    <3>2. g[k + 1] = CrcOf[XorByte(g[k], s[k + 1])]
      BY <2>1, <3>1
    <3> HIDE DEF Run
    <3> QED
      BY <1>2, <3>1, <3>2
  <2>4. Nat \subseteq S
    <3> HIDE DEF S
    <3> QED
      BY <2>2, <2>3, NatInSet
  <2>5. \A k \in 0..n : g[k] \in Byte
    BY <1>1, <2>4
  <2>6. g \in [0..n -> Byte]
    BY <1>5, <2>5
  <2> QED
    BY <2>1, <2>6
<1>6. Crc(s) = (CHOOSE g : Run(g))[n]
  BY DEF Crc, n
<1> HIDE DEF Run
<1> QED
  BY <1>4, <1>5, <1>6 DEF n

LEMMA CrcIsByte ==
  ASSUME NEW s \in Seq(Byte) PROVE Crc(s) \in Byte
<1>1. PICK g \in [0..Len(s) -> Byte] : Crc(s) = g[Len(s)]
  BY CrcRun
<1>2. Len(s) \in 0..Len(s)
  OBVIOUS
<1> QED
  BY <1>1, <1>2

\* A byte that is damaged is always noticed.
LEMMA DamageIsNoticed ==
  ASSUME NEW s \in Seq(Byte), NEW t \in Seq(Byte), Len(s) = Len(t), NEW j \in 1..Len(s),
         s[j] # t[j], \A k \in 1..Len(s) : k # j => s[k] = t[k]
  PROVE  Crc(s) # Crc(t)
<1> DEFINE n == Len(s)
<1>1. PICK g \in [0..n -> Byte] :
        /\ g[0] = 0 /\ \A k \in 1..n : g[k] = CrcOf[XorByte(g[k - 1], s[k])]
        /\ Crc(s) = g[n]
  BY CrcRun
<1>2. PICK h \in [0..n -> Byte] :
        /\ h[0] = 0 /\ \A k \in 1..n : h[k] = CrcOf[XorByte(h[k - 1], t[k])]
        /\ Crc(t) = h[n]
  BY CrcRun
<1>3. n \in Nat /\ \A k \in 1..n : s[k] \in Byte /\ t[k] \in Byte
  OBVIOUS
<1> HIDE DEF n
<1>4. j \in 1..n /\ (\A k \in 1..n : k # j => s[k] = t[k])
  BY DEF n
<1> DEFINE S == {k \in Nat : k <= n => (IF k < j THEN g[k] = h[k] ELSE g[k] # h[k])}
<1>5. 0 \in S
  BY <1>1, <1>2, <1>4
<1>6. ASSUME NEW k \in Nat, k \in S PROVE k + 1 \in S
  <2> SUFFICES ASSUME k + 1 <= n
               PROVE  IF k + 1 < j THEN g[k + 1] = h[k + 1] ELSE g[k + 1] # h[k + 1]
    OBVIOUS
  <2>1. /\ k + 1 \in 1..n /\ (k + 1) - 1 = k /\ k \in 0..n
        /\ IF k < j THEN g[k] = h[k] ELSE g[k] # h[k]
    BY <1>3, <1>6
  <2>2. /\ g[k + 1] = CrcOf[XorByte(g[k], s[k + 1])] /\ h[k + 1] = CrcOf[XorByte(h[k], t[k + 1])]
        /\ g[k] \in Byte /\ h[k] \in Byte /\ s[k + 1] \in Byte /\ t[k + 1] \in Byte
    BY <1>1, <1>2, <1>3, <2>1
  <2>3. XorByte(g[k], s[k + 1]) \in Byte /\ XorByte(h[k], t[k + 1]) \in Byte
    BY <2>2, XorFacts
  <2>4. CASE k + 1 < j
    <3>1. g[k] = h[k] /\ s[k + 1] = t[k + 1]
      BY <1>4, <2>1, <2>4
    <3> QED
      BY <2>2, <2>4, <3>1
  <2>5. CASE k + 1 = j
    <3>1. g[k] = h[k] /\ s[k + 1] # t[k + 1]
      BY <2>1, <2>5
    <3> DEFINE a == g[k]
               b == h[k]
               c == s[k + 1]
               d == t[k + 1]
    <3>2. XorByte(g[k], s[k + 1]) # XorByte(h[k], t[k + 1])
      <4>1. a \in Byte /\ b \in Byte /\ c \in Byte /\ d \in Byte
        BY <2>2
      <4> HIDE DEF a, b, c, d
      <4>2. XorByte(a, c) # XorByte(b, d)
        BY <3>1, <4>1, XorFacts, Zenon DEF a, b, c, d
      <4> QED
        BY <4>2 DEF a, b, c, d
    <3> QED
      BY <2>2, <2>3, <2>5, <3>2, CrcOfLosesNothing
  <2>6. CASE k + 1 > j
    <3>1. g[k] # h[k] /\ s[k + 1] = t[k + 1] /\ ~ (k + 1 < j)
      BY <1>4, <2>1, <2>6
    <3> DEFINE a == g[k]
               b == h[k]
               c == s[k + 1]
               d == t[k + 1]
    <3>2. XorByte(g[k], s[k + 1]) # XorByte(h[k], t[k + 1])
      <4>1. a \in Byte /\ b \in Byte /\ c \in Byte /\ d \in Byte
        BY <2>2
      <4> HIDE DEF a, b, c, d
      <4>2. XorByte(a, c) # XorByte(b, d)
        BY <3>1, <4>1, XorFacts, Zenon DEF a, b, c, d
      <4> QED
        BY <4>2 DEF a, b, c, d
    <3>3. g[k + 1] # h[k + 1]
      BY <2>2, <2>3, <3>2, CrcOfLosesNothing
    <3> QED
      BY <3>1, <3>3
  <2> QED
    BY <1>4, <2>4, <2>5, <2>6
<1>7. n \in S
  <2> HIDE DEF S
  <2> QED
    BY <1>3, <1>5, <1>6, NatInSet
<1> QED
  BY <1>1, <1>2, <1>3, <1>4, <1>7

-----------------------------------------------------------------------------
(* Numbers. *)

\* A word is its low byte and Base times its high byte.
LEMMA WordBytes ==
  ASSUME NEW V \in Nat, V > 1, NEW n \in 0..(V * V - 1)
  PROVE  n % V \in 0..(V - 1) /\ n \div V \in 0..(V - 1)
<1>1. n % V \in 0..(V - 1) /\ n \div V \in Nat
  OBVIOUS
<1>2. n \div V < V
  OBVIOUS
<1> QED
  BY <1>1, <1>2

LEMMA BytesWord ==
  ASSUME NEW V \in Nat, V > 1, NEW a \in 0..(V - 1), NEW b \in 0..(V - 1)
  PROVE  a + b * V \in 0..(V * V - 1)
OBVIOUS

LEMMA WordTop ==
  ASSUME NEW V \in Nat, V > 1
  PROVE  V * V - 1 \in Nat
OBVIOUS

LEMMA SmallerInRange ==
  ASSUME NEW a \in Nat, NEW b \in Nat
  PROVE  Smaller(a, b) \in 0..b
BY DEF Smaller

LEMMA QuotientInt ==
  ASSUME NEW a \in Int
  PROVE  Quotient(a, 2048) \in Int
BY DEF Quotient

LEMMA PulseBounds ==
  ASSUME NEW M \in Nat, M > 0, NEW x \in 0..M
  PROVE  (x * 1000) \div M \in 0..1000
<1>1. x * 1000 \in Nat /\ x * 1000 < 1001 * M
  OBVIOUS
<1>2. (x * 1000) \div M \in Nat /\ (x * 1000) \div M < 1001
  BY <1>1
<1> QED
  BY <1>2

LEMMA HalfPulse ==
  ASSUME NEW M \in Nat, M > 0, M % 2 = 0
  PROVE  M \div 2 \in 0..M /\ ((M \div 2) * 1000) \div M = 500
<1>1. (M \div 2) * 1000 = 500 * M /\ M \div 2 \in 0..M
  OBVIOUS
<1>2. (500 * M) \div M = 500
  OBVIOUS
<1> QED
  BY <1>1, <1>2

-----------------------------------------------------------------------------
(* Frames. *)

Frame == [to: Byte, cmd: Byte, payload: Seq(Byte)]

\* The bytes that the CRC covers.
Covered(to, cmd, p) == <<to, cmd, Len(p)>> \o p

IsCovered(s, to, cmd, p) ==
  /\ s \in Seq(Byte) /\ Len(s) = 3 + Len(p)
  /\ s[1] = to /\ s[2] = cmd /\ s[3] = Len(p)
  /\ \A k \in 1..Len(p) : s[3 + k] = p[k]

LEMMA CoveredBytes ==
  ASSUME NEW to \in Byte, NEW cmd \in Byte, NEW p \in Seq(Byte), Len(p) \in Byte
  PROVE  IsCovered(Covered(to, cmd, p), to, cmd, p)
<1> DEFINE head == <<to, cmd, Len(p)>>
<1>1. /\ head \in Seq(Byte) /\ Len(head) = 3
      /\ head[1] = to /\ head[2] = cmd /\ head[3] = Len(p)
  OBVIOUS
<1>2. Len(p) \in Nat
  OBVIOUS
<1> HIDE DEF head
<1>3. /\ head \o p \in Seq(Byte) /\ Len(head \o p) = Len(head) + Len(p)
      /\ \A i \in 1..(Len(head) + Len(p)) : (head \o p)[i] = IF i <= Len(head) THEN head[i] ELSE p[i - Len(head)]
  BY <1>1, ConcatProperties, Zenon
<1>4. (head \o p)[1] = to /\ (head \o p)[2] = cmd /\ (head \o p)[3] = Len(p)
  <2>1. 1 \in 1..(3 + Len(p)) /\ 2 \in 1..(3 + Len(p)) /\ 3 \in 1..(3 + Len(p))
    BY <1>2
  <2> QED
    BY <1>1, <1>3, <2>1
<1>5. ASSUME NEW k \in 1..Len(p) PROVE (head \o p)[3 + k] = p[k]
  <2>1. 3 + k \in 1..(3 + Len(p)) /\ ~ (3 + k <= 3) /\ (3 + k) - 3 = k
    BY <1>2
  <2> QED
    BY <1>1, <1>3, <2>1
<1> QED
  BY <1>1, <1>3, <1>4, <1>5 DEF Covered, head, IsCovered

LEMMA BytesOfFrame ==
  ASSUME NEW f \in Frame, Len(f.payload) \in Byte
  PROVE  /\ Bytes(f) \in Seq(Byte) /\ Len(Bytes(f)) = 5 + Len(f.payload)
         /\ Bytes(f)[1] = Sof /\ Bytes(f)[2] = f.to /\ Bytes(f)[3] = f.cmd /\ Bytes(f)[4] = Len(f.payload)
         /\ \A k \in 1..Len(f.payload) : Bytes(f)[4 + k] = f.payload[k]
         /\ Bytes(f)[5 + Len(f.payload)] = Crc(Covered(f.to, f.cmd, f.payload))
<1> DEFINE n == Len(f.payload)
           mid == Covered(f.to, f.cmd, f.payload)
<1>1. f.to \in Byte /\ f.cmd \in Byte /\ f.payload \in Seq(Byte) /\ Len(f.payload) \in Byte /\ n \in Nat
  BY DEF Frame
<1>2. /\ mid \in Seq(Byte) /\ Len(mid) = 3 + n
      /\ mid[1] = f.to /\ mid[2] = f.cmd /\ mid[3] = n /\ \A k \in 1..n : mid[3 + k] = f.payload[k]
  <2>1. IsCovered(mid, f.to, f.cmd, f.payload)
    BY <1>1, CoveredBytes, Zenon
  <2> HIDE DEF mid
  <2> QED
    BY <2>1 DEF IsCovered
<1> DEFINE last == <<Crc(mid)>>
<1>3. Bytes(f) = <<Sof>> \o mid \o last
  BY DEF Bytes, Covered
<1> HIDE DEF mid, n
<1>4. last \in Seq(Byte) /\ Len(last) = 1 /\ last[1] = Crc(mid)
  BY <1>2, CrcIsByte
<1>5. <<Sof>> \in Seq(Byte) /\ Len(<<Sof>>) = 1 /\ <<Sof>>[1] = Sof
  BY ByteTypes
<1> HIDE DEF last
<1> DEFINE one == <<Sof>>
           both == one \o mid
<1> HIDE DEF one
<1>6. /\ both \in Seq(Byte) /\ Len(both) = 4 + n
      /\ \A i \in 1..(4 + n) : both[i] = IF i <= 1 THEN Sof ELSE mid[i - 1]
  <2>1. /\ both \in Seq(Byte) /\ Len(both) = Len(one) + Len(mid)
        /\ \A i \in 1..(Len(one) + Len(mid)) : both[i] = IF i <= Len(one) THEN one[i] ELSE mid[i - Len(one)]
    BY <1>2, <1>5, ConcatProperties, ZenonT(30) DEF one
  <2> HIDE DEF both
  <2>2. Len(one) = 1 /\ one[1] = Sof
    BY <1>5 DEF one
  <2> QED
    BY <1>1, <1>2, <2>1, <2>2
<1> HIDE DEF both
<1>7. /\ Bytes(f) \in Seq(Byte) /\ Len(Bytes(f)) = 5 + n
      /\ \A i \in 1..(5 + n) : Bytes(f)[i] = IF i <= 4 + n THEN both[i] ELSE Crc(mid)
  <2>1. /\ both \o last \in Seq(Byte) /\ Len(both \o last) = Len(both) + Len(last)
        /\ \A i \in 1..(Len(both) + Len(last)) :
             (both \o last)[i] = IF i <= Len(both) THEN both[i] ELSE last[i - Len(both)]
    BY <1>4, <1>6, ConcatProperties, Zenon
  <2>2. Bytes(f) = both \o last
    BY <1>3 DEF both, one
  <2> QED
    BY <1>1, <1>4, <1>6, <2>1, <2>2
<1>8. Bytes(f)[1] = Sof /\ Bytes(f)[2] = mid[1] /\ Bytes(f)[3] = mid[2] /\ Bytes(f)[4] = mid[3]
  BY <1>1, <1>6, <1>7, SMTT(30)
<1>9. ASSUME NEW k \in 1..n PROVE Bytes(f)[4 + k] = f.payload[k]
  <2>1. Bytes(f)[4 + k] = mid[3 + k]
    BY <1>1, <1>6, <1>7
  <2> QED
    BY <1>2, <2>1
<1>10. Bytes(f)[5 + n] = Crc(mid)
  BY <1>1, <1>7
<1> QED
  BY <1>2, <1>7, <1>8, <1>9, <1>10 DEF n, mid

-----------------------------------------------------------------------------
(* The applications, and what they report. *)

LEMMA BytesOfWord ==
  ASSUME NEW w \in Word
  PROVE  w % Base \in Byte /\ w \div Base \in Byte
<1>1. Base \in Nat /\ Base > 1 /\ w \in 0..(Base * Base - 1)
  BY ByteTypes DEF Word
<1>2. w % Base \in 0..(Base - 1) /\ w \div Base \in 0..(Base - 1)
  BY <1>1, WordBytes
<1> QED
  BY <1>2 DEF Byte

LEMMA WordOfBytes ==
  ASSUME NEW a \in Byte, NEW b \in Byte
  PROVE  a + b * Base \in Word
<1>1. Base \in Nat /\ Base > 1 /\ a \in 0..(Base - 1) /\ b \in 0..(Base - 1)
  BY ByteTypes DEF Byte
<1> QED
  BY <1>1, BytesWord DEF Word

LEMMA WordsAreNumbers ==
  0 \in Word /\ \A w \in Word : w \in Nat
<1>1. Base \in Nat /\ Base > 1
  BY ByteTypes
<1>2. Base * Base - 1 \in Nat
  BY <1>1, WordTop
<1> QED
  BY <1>2 DEF Word

\* A servo stands where its angle says, or in the middle while the RP2040 board
\* remembers 0.
Stands(angle, us) ==
  \A ch \in {0, 1} : /\ us[ch] = PulseOf(angle[ch]) \/ (mcu # "stm32f1" /\ angle[ch] = 0 /\ us[ch] = 1500)
                     /\ mcu = "stm32f1" => angle[ch] <= MaxDeg

Dark == [colour |-> 0, bright |-> 0]

\* What is so of a device's state whatever the loop is at.  The pin is what was
\* last driven, and stays an output where it was made one; only the light bar with
\* an STM32 has a strip to send.
Sound(d) ==
  /\ d.duty = d.pwm
  /\ Stands(d.angle, d.us)
  /\ mcu = "stm32f1" /\ ~d.dirty => d.strip = [colour |-> d.colour, bright |-> d.bright]
  /\ d.asserted <=> d.int.out /\ d.int.level = 0
  /\ mcu = "stm32f1" => d.int.out
  /\ app # "lightbar" => ~d.dirty
  /\ mcu # "stm32f1" => ~d.dirty /\ d.strip = Dark

LEMMA DegreeFacts ==
  /\ MaxDeg \in Nat /\ MaxDeg > 0 /\ MaxDeg \in Byte /\ MaxDeg \div 2 \in Byte /\ MaxDeg \div 2 <= MaxDeg
  /\ \A deg \in Byte : /\ Smaller(deg, MaxDeg) \in Byte /\ Smaller(deg, MaxDeg) <= MaxDeg
                       /\ PulseOf(deg) \in 1000..2000 /\ PulseOf(Smaller(deg, MaxDeg)) = PulseOf(deg)
  /\ PulseOf(MaxDeg \div 2) = 1500
<1>1. MaxDeg \in Nat /\ MaxDeg > 0 /\ MaxDeg \in Byte /\ MaxDeg % 2 = 0 /\ Base \in Nat
  BY PeripheralAssumption, ByteTypes DEF Byte
<1>2. MaxDeg \div 2 \in Byte /\ MaxDeg \div 2 <= MaxDeg /\ MaxDeg \div 2 \in Nat
  BY <1>1 DEF Byte
<1>3. ASSUME NEW deg \in Byte
      PROVE  /\ Smaller(deg, MaxDeg) \in Byte /\ Smaller(deg, MaxDeg) <= MaxDeg
             /\ PulseOf(deg) \in 1000..2000 /\ PulseOf(Smaller(deg, MaxDeg)) = PulseOf(deg)
  <2>1. deg \in Nat
    BY <1>1 DEF Byte
  <2>2. /\ Smaller(deg, MaxDeg) \in Byte /\ Smaller(deg, MaxDeg) <= MaxDeg /\ Smaller(deg, MaxDeg) \in 0..MaxDeg
        /\ Smaller(Smaller(deg, MaxDeg), MaxDeg) = Smaller(deg, MaxDeg)
    BY <1>1, <2>1 DEF Smaller
  <2>3. (Smaller(deg, MaxDeg) * 1000) \div MaxDeg \in 0..1000
    BY <1>1, <2>2, PulseBounds, SMTT(30)
  <2> DEFINE q == (Smaller(deg, MaxDeg) * 1000) \div MaxDeg
  <2>4. PulseOf(deg) = 1000 + q /\ PulseOf(Smaller(deg, MaxDeg)) = 1000 + q
    BY <2>2 DEF PulseOf
  <2> HIDE DEF q
  <2> QED
    BY <2>2, <2>3, <2>4 DEF q
<1>4. PulseOf(MaxDeg \div 2) = 1500
  <2>1. Smaller(MaxDeg \div 2, MaxDeg) = MaxDeg \div 2
    BY <1>1, <1>2 DEF Smaller
  <2>2. ((MaxDeg \div 2) * 1000) \div MaxDeg = 500
    BY <1>1, HalfPulse
  <2> QED
    BY <2>1, <2>2 DEF PulseOf
<1> QED
  BY <1>1, <1>2, <1>3, <1>4

LEMMA UpdateTypes ==
  ASSUME NEW S, NEW T, NEW f \in [S -> T], NEW x \in S, NEW v \in T
  PROVE  [f EXCEPT ![x] = v] \in [S -> T]
OBVIOUS

LEMMA AnglesAnew ==
  ASSUME dev \in DevType, Sound(dev), app # "lightbar",
         NEW angle \in Angles, NEW us \in Pulses,
         Stands(angle, us),
         NEW d, d = [dev EXCEPT !.angle = angle, !.us = us]
  PROVE  d \in DevType /\ Sound(d) /\ d.raw = dev.raw /\ d.asserted = dev.asserted
<1>1. d \in DevType
  BY DEF DevType
<1>2. /\ d.angle = angle /\ d.us = us /\ d.raw = dev.raw /\ d.duty = dev.duty /\ d.pwm = dev.pwm
      /\ d.dirty = dev.dirty /\ d.strip = dev.strip /\ d.colour = dev.colour /\ d.bright = dev.bright
      /\ d.asserted = dev.asserted /\ d.int = dev.int
  BY DEF DevType
<1>3. Sound(d)
  BY <1>2 DEF Sound
<1> QED
  BY <1>1, <1>2, <1>3

LEMMA AngleSet ==
  ASSUME dev \in DevType, Sound(dev), app # "lightbar", NEW ch \in Byte, NEW deg \in Byte
  PROVE  /\ SetAngle(ch, deg) \in DevType /\ Sound(SetAngle(ch, deg))
         /\ SetAngle(ch, deg).raw = dev.raw /\ SetAngle(ch, deg).asserted = dev.asserted
<1>1. CASE ch > 1
  BY <1>1 DEF SetAngle
<1>2. CASE ~ (ch > 1)
  <2>1. ch \in {0, 1}
    BY <1>2, ByteTypes DEF Byte
  <2>2. PICK a \in Byte : /\ SetAngle(ch, deg) = [dev EXCEPT !.angle[ch] = a, !.us[ch] = PulseOf(deg)]
                          /\ PulseOf(a) = PulseOf(deg) /\ (mcu = "stm32f1" => a <= MaxDeg)
    <3>1. CASE mcu = "stm32f1"
      <4>1. SetAngle(ch, deg) = [dev EXCEPT !.angle[ch] = Smaller(deg, MaxDeg), !.us[ch] = PulseOf(deg)]
        BY <1>2, <3>1 DEF SetAngle
      <4>2. Smaller(deg, MaxDeg) \in Byte /\ Smaller(deg, MaxDeg) <= MaxDeg
            /\ PulseOf(Smaller(deg, MaxDeg)) = PulseOf(deg)
        BY DegreeFacts
      <4> QED
        BY <4>1, <4>2, Zenon
    <3>2. CASE mcu # "stm32f1"
      <4>1. SetAngle(ch, deg) = [dev EXCEPT !.angle[ch] = deg, !.us[ch] = PulseOf(deg)]
        BY <1>2, <3>2 DEF SetAngle
      <4> QED
        BY <3>2, <4>1
    <3> QED
      BY <3>1, <3>2
  <2>3. PulseOf(deg) \in 1000..2000
    BY DegreeFacts, SMTT(30)
  <2> DEFINE angle == [dev.angle EXCEPT ![ch] = a]
             us == [dev.us EXCEPT ![ch] = PulseOf(deg)]
  <2>4. angle \in Angles /\ us \in Pulses
    <3>1. dev.angle \in Angles /\ dev.us \in Pulses
      BY DEF DevType
    <3>2. a \in Byte /\ PulseOf(deg) \in 1000..2000
      BY <2>2, <2>3
    <3>3. angle \in Angles
      BY <2>1, <3>1, <3>2 DEF Angles
    <3>4. PulseOf(deg) \in Pulse
      BY <3>2 DEF Pulse
    <3>5. us \in Pulses
      BY <2>1, <3>1, <3>4 DEF Pulses
    <3> QED
      BY <3>3, <3>5
  <2>5. SetAngle(ch, deg) = [dev EXCEPT !.angle = angle, !.us = us]
    BY <2>2
  <2>6. Stands(angle, us)
    <3> SUFFICES ASSUME NEW c \in {0, 1}
                 PROVE  /\ us[c] = PulseOf(angle[c]) \/ (mcu # "stm32f1" /\ angle[c] = 0 /\ us[c] = 1500)
                        /\ mcu = "stm32f1" => angle[c] <= MaxDeg
      BY DEF Stands
    <3>1. DOMAIN dev.angle = {0, 1} /\ DOMAIN dev.us = {0, 1}
      BY DEF DevType, Angles, Pulses
    <3>2. CASE c = ch
      <4>1. angle[c] = a /\ us[c] = PulseOf(deg)
        BY <3>1, <3>2
      <4> QED
        BY <2>2, <4>1
    <3>3. CASE c # ch
      <4>1. angle[c] = dev.angle[c] /\ us[c] = dev.us[c]
        BY <3>1, <3>3
      <4> QED
        BY <4>1 DEF Sound, Stands
    <3> QED
      BY <3>2, <3>3
  <2> HIDE DEF angle, us
  <2> QED
    BY <2>4, <2>5, <2>6, AnglesAnew
<1> QED
  BY <1>1, <1>2

LEMMA TemperatureByte ==
  ASSUME dev \in DevType
  PROVE  Temperature % Base \in Byte
<1> DEFINE q == Quotient((2048 - dev.raw) * 60, 2048)
<1>1. dev.raw \in Nat
  <2>1. dev.raw \in Raw
    BY DEF DevType
  <2>2. \A r \in Raw : r \in Nat
    BY DEF Raw
  <2> QED
    BY <2>1, <2>2
<1>2. q \in Int
  <2> DEFINE a == (2048 - dev.raw) * 60
  <2>1. a \in Int
    BY <1>1
  <2> HIDE DEF a
  <2>2. Quotient(a, 2048) \in Int
    BY <2>1, QuotientInt
  <2> QED
    BY <2>2 DEF a
<1> HIDE DEF q
<1>3. Temperature \in Int
  <2>1. Temperature = IF 25 + q < -40 THEN -40 ELSE Smaller(25 + q, 125)
    BY DEF Temperature, q
  <2> QED
    BY <1>2, <2>1 DEF Smaller
<1> QED
  BY <1>3, ByteTypes DEF Byte

\* A payload that fits into a frame.
Payload == {p \in Seq(Byte) : Len(p) \in Byte}

LEMMA ShortPayloads ==
  /\ <<>> \in Payload
  /\ \A a \in Byte : <<a>> \in Payload
  /\ \A a, b \in Byte : <<a, b>> \in Payload
  /\ \A a, b, c \in Byte : <<a, b, c>> \in Payload
  /\ \A a, b, c, d \in Byte : <<a, b, c, d>> \in Payload
<1>1. {0, 1, 2, 3, 4} \subseteq Byte
  BY ByteTypes DEF Byte
<1> QED
  BY <1>1 DEF Payload

LEMMA StatusBytes ==
  ASSUME dev \in DevType, app \in Apps
  PROVE  Status \in Payload
<1>1. /\ dev.duty \in Byte /\ dev.bright \in Byte /\ dev.mode \in Byte
      /\ dev.colour \in Word /\ dev.angle \in Angles
  BY DEF DevType
<1>2. {0, 2} \subseteq Byte
  BY ByteTypes DEF Byte
<1>3. CASE app = "searchlight"
  <2>1. Status = <<dev.duty, Temperature % Base, IF Overtemp THEN 2 ELSE 0>>
    BY <1>3 DEF Status
  <2>2. Temperature % Base \in Byte /\ (IF Overtemp THEN 2 ELSE 0) \in Byte
    BY <1>2, TemperatureByte
  <2> QED
    BY <1>1, <2>1, <2>2, ShortPayloads
<1>4. CASE app = "pantilt"
  <2>1. Status = <<dev.angle[0], dev.angle[1], 0>>
    BY <1>4 DEF Status
  <2>2. dev.angle[0] \in Byte /\ dev.angle[1] \in Byte
    BY <1>1 DEF Angles
  <2> QED
    BY <1>2, <2>1, <2>2, ShortPayloads
<1>5. CASE app = "lightbar"
  <2>1. Status = <<dev.bright, dev.mode, dev.colour % Base, dev.colour \div Base>>
    BY <1>5 DEF Status
  <2>2. dev.colour % Base \in Byte /\ dev.colour \div Base \in Byte
    BY <1>1, BytesOfWord
  <2> QED
    BY <1>1, <2>1, <2>2, ShortPayloads
<1> QED
  BY <1>3, <1>4, <1>5 DEF Apps

LEMMA PowerPayload ==
  ASSUME dev \in DevType
  PROVE  PowerBytes \in Payload
<1> DEFINE power == (Pixels * 60 * dev.bright) \div (Base - 1)
           mw == Smaller(power, Base * Base - 1)
<1>1. dev.bright \in Nat /\ Pixels \in Nat /\ Base \in Nat /\ Base > 1
  BY ByteTypes, PeripheralAssumption DEF DevType, Byte
<1>2. power \in Nat
  <2> DEFINE load == Pixels * 60 * dev.bright
  <2>1. load \in Nat
    BY <1>1
  <2> HIDE DEF load
  <2>2. load \div (Base - 1) \in Nat
    BY <1>1, <2>1
  <2> QED
    BY <2>2 DEF load
<1> HIDE DEF power
<1>3. mw \in 0..(Base * Base - 1)
  <2> DEFINE top == Base * Base - 1
  <2>1. top \in Nat
    BY <1>1, WordTop
  <2> HIDE DEF top
  <2>2. Smaller(power, top) \in 0..top
    BY <1>2, <2>1, SmallerInRange
  <2> QED
    BY <2>2 DEF top
<1>4. PowerBytes = <<mw % Base, mw \div Base>>
  BY DEF PowerBytes, power
<1> HIDE DEF mw
<1>5. mw % Base \in Byte /\ mw \div Base \in Byte
  BY <1>1, <1>3, WordBytes DEF Byte
<1> QED
  BY <1>4, <1>5, ShortPayloads

\* A handler answers with a payload, and leaves the device sound and as warm as it was.
Answered(a) ==
  /\ a.answers \in BOOLEAN /\ a.bytes \in Payload /\ a.dev \in DevType
  /\ Sound(a.dev) /\ a.dev.raw = dev.raw /\ a.dev.asserted = dev.asserted

LEMMA AnsweredAnyway ==
  ASSUME dev \in DevType, Sound(dev)
  PROVE  Answered(NoAnswer)
BY ShortPayloads DEF Answered, NoAnswer

LEMMA AnsweredWith ==
  ASSUME NEW p \in Payload, NEW d \in DevType, Sound(d), d.raw = dev.raw, d.asserted = dev.asserted
  PROVE  Answered(Answers(p, d))
BY DEF Answered, Answers

LEMMA LightSet ==
  ASSUME dev \in DevType, Sound(dev), app = "lightbar",
         NEW d, d \in DevType, d = [dev EXCEPT !.bright = d.bright, !.mode = d.mode, !.colour = d.colour,
                                              !.dirty = Dirty]
  PROVE  Sound(d) /\ d.raw = dev.raw /\ d.asserted = dev.asserted
<1>1. /\ d.angle = dev.angle /\ d.us = dev.us /\ d.raw = dev.raw /\ d.duty = dev.duty /\ d.pwm = dev.pwm
      /\ d.asserted = dev.asserted /\ d.int = dev.int /\ d.dirty = Dirty /\ d.strip = dev.strip
  BY DEF DevType
<1> QED
  BY <1>1 DEF Sound, Dirty

LEMMA OutputSet ==
  ASSUME dev \in DevType, Sound(dev), app \in Apps, NEW p \in Payload
  PROVE  Answered(SetOutput(p))
<1>1. CASE Len(p) # 2
  BY <1>1, AnsweredAnyway DEF SetOutput
<1>2. CASE Len(p) = 2
  <2>1. p[1] \in Byte /\ p[2] \in Byte
    BY <1>2, SMTT(30) DEF Payload
  <2>2. CASE app = "pantilt"
    <3>1. SetOutput(p) = Answers(<<>>, SetAngle(p[1], p[2]))
      BY <1>2, <2>2 DEF SetOutput, Answers
    <3>2. /\ SetAngle(p[1], p[2]) \in DevType /\ Sound(SetAngle(p[1], p[2]))
          /\ SetAngle(p[1], p[2]).raw = dev.raw /\ SetAngle(p[1], p[2]).asserted = dev.asserted
      BY <2>1, <2>2, AngleSet
    <3> QED
      BY <3>1, <3>2, ShortPayloads, AnsweredWith
  <2>3. CASE app # "pantilt" /\ p[1] # 0
    <3>1. SetOutput(p) = Answers(<<>>, dev)
      BY <1>2, <2>3 DEF SetOutput, Answers
    <3> QED
      BY <3>1, ShortPayloads, AnsweredWith
  <2>4. CASE app = "searchlight" /\ p[1] = 0
    <3> DEFINE d == [dev EXCEPT !.duty = p[2], !.pwm = p[2]]
    <3>1. SetOutput(p) = Answers(<<>>, d)
      BY <1>2, <2>4 DEF SetOutput
    <3>2. d \in DevType
      BY <2>1 DEF DevType
    <3>3. /\ d.duty = d.pwm /\ d.angle = dev.angle /\ d.us = dev.us /\ d.raw = dev.raw /\ d.dirty = dev.dirty
          /\ d.strip = dev.strip /\ d.colour = dev.colour /\ d.bright = dev.bright
          /\ d.asserted = dev.asserted /\ d.int = dev.int
      BY DEF DevType
    <3>4. Sound(d)
      BY <3>3 DEF Sound
    <3> HIDE DEF d
    <3> QED
      BY <3>1, <3>2, <3>3, <3>4, ShortPayloads, AnsweredWith
  <2>5. CASE app = "lightbar" /\ p[1] = 0
    <3> DEFINE d == [dev EXCEPT !.bright = p[2], !.dirty = Dirty]
    <3>1. SetOutput(p) = Answers(<<>>, d)
      BY <1>2, <2>5 DEF SetOutput
    <3>2. d \in DevType
      BY <2>1 DEF DevType, Dirty
    <3>3. d = [dev EXCEPT !.bright = d.bright, !.mode = d.mode, !.colour = d.colour, !.dirty = Dirty]
      BY DEF DevType
    <3> HIDE DEF d
    <3>4. Sound(d) /\ d.raw = dev.raw /\ d.asserted = dev.asserted
      BY <2>5, <3>2, <3>3, LightSet
    <3> QED
      BY <3>1, <3>2, <3>4, ShortPayloads, AnsweredWith
  <2> QED
    BY <2>2, <2>3, <2>4, <2>5 DEF Apps
<1> QED
  BY <1>1, <1>2

LEMMA ParamSet ==
  ASSUME dev \in DevType, Sound(dev), app = "lightbar", NEW p \in Payload
  PROVE  Answered(SetParam(p))
<1>1. CASE Len(p) # 3 \/ p[1] \notin {1, 2}
  BY <1>1, AnsweredAnyway DEF SetParam
<1>2. CASE Len(p) = 3 /\ p[1] \in {1, 2}
  <2>1. p[1] \in Byte /\ p[2] \in Byte /\ p[3] \in Byte
    BY <1>2 DEF Payload
  <2>2. p[2] + p[3] * Base \in Word
    BY <2>1, WordOfBytes
  <2> DEFINE w == p[2] + p[3] * Base
             d == IF p[1] = 1 THEN [dev EXCEPT !.mode = p[2], !.dirty = Dirty]
                  ELSE [dev EXCEPT !.colour = w, !.dirty = Dirty]
  <2>3. SetParam(p) = Answers(<<>>, d)
    BY <1>2 DEF SetParam
  <2>4. w \in Word
    BY <2>2
  <2> HIDE DEF w
  <2>5. d \in DevType
    BY <2>1, <2>4 DEF DevType, Dirty
  <2>6. d = [dev EXCEPT !.bright = d.bright, !.mode = d.mode, !.colour = d.colour, !.dirty = Dirty]
    BY <2>1, <2>4 DEF DevType
  <2> HIDE DEF d
  <2>7. Sound(d) /\ d.raw = dev.raw /\ d.asserted = dev.asserted
    BY <2>5, <2>6, LightSet
  <2> QED
    BY <2>3, <2>5, <2>7, ShortPayloads, AnsweredWith
<1> QED
  BY <1>1, <1>2

Names == {"PING", "PONG", "SET_OUTPUT", "GET_STATUS", "STATUS", "SET_PARAM",
          "STREAM_ON", "STREAM_OFF", "STREAM_DATA"}

LEMMA Codes ==
  /\ \A name \in Names : Code[name] \in Byte
  /\ \A a, b \in Names : Code[a] = Code[b] => a = b
BY Rs485FrameAssumption, SlaveAssumption DEF Names

\* Whatever an application handles is answered, by a device that stays sound.
LEMMA HandledWell ==
  ASSUME dev \in DevType, Sound(dev), app \in Apps, NEW cmd, NEW p \in Payload, Handles(cmd)
  PROVE  Answered(Handled(cmd, p)) /\ AnswerCode(cmd) \in Byte
<1>1. /\ Code.SET_OUTPUT # Code.GET_STATUS /\ Code.SET_OUTPUT # Code.SET_PARAM
      /\ Code.GET_STATUS # Code.SET_PARAM
      /\ {Code.SET_OUTPUT, Code.GET_STATUS, Code.SET_PARAM, Code.STATUS} \subseteq Byte
  BY Codes DEF Names
<1>2. AnswerCode(cmd) \in Byte
  BY <1>1 DEF AnswerCode, Handles
<1>3. CASE cmd = Code.SET_OUTPUT
  <2>1. Handled(cmd, p) = SetOutput(p)
    BY <1>1, <1>3 DEF Handled
  <2> QED
    BY <1>2, <2>1, OutputSet
<1>4. CASE cmd = Code.GET_STATUS
  <2>1. Handled(cmd, p) = Answers(Status, dev)
    BY <1>1, <1>4 DEF Handled
  <2> QED
    BY <1>2, <2>1, StatusBytes, AnsweredWith
<1>5. CASE cmd = Code.SET_PARAM
  <2>1. Handled(cmd, p) = SetParam(p) /\ app = "lightbar"
    BY <1>1, <1>5 DEF Handled, Handles, HasParams
  <2> QED
    BY <1>2, <2>1, ParamSet
<1> QED
  BY <1>3, <1>4, <1>5 DEF Handles

\* Between two polls the pin follows the temperature.
LEMMA Followed ==
  ASSUME dev \in DevType, Sound(dev), app \in Apps
  PROVE  /\ FollowTemperature \in DevType /\ Sound(FollowTemperature)
         /\ FollowTemperature.raw = dev.raw /\ FollowTemperature.dirty = dev.dirty
         /\ app = "searchlight" => FollowTemperature.asserted = Overtemp
<1>1. CASE app = "searchlight" /\ Overtemp # dev.asserted
  <2> DEFINE hot == Overtemp
             pin == IntDriven(dev.int, hot)
             d == [dev EXCEPT !.asserted = hot, !.int = pin]
  <2>1. FollowTemperature = d
    BY <1>1 DEF FollowTemperature
  <2>2. hot \in BOOLEAN
    BY DEF Overtemp
  <2>3. dev.int \in IntPins
    BY DEF DevType
  <2> HIDE DEF hot
  <2>4. /\ pin \in IntPins /\ (hot <=> pin.out /\ pin.level = 0)
        /\ mcu = "stm32f1" => pin.out
    <3>1. CASE mcu = "stm32f1"
      <4>1. dev.int.out = TRUE
        BY <2>3, <3>1 DEF Sound, IntPins
      <4> QED
        BY <2>2, <2>3, <3>1, <4>1 DEF IntDriven, IntPins
    <3>2. CASE mcu # "stm32f1"
      BY <2>2, <2>3, <3>2 DEF IntDriven, IntPins
    <3> QED
      BY <3>1, <3>2
  <2> HIDE DEF pin
  <2>5. d \in DevType
    BY <2>2, <2>4 DEF DevType
  <2>6. /\ d.duty = dev.duty /\ d.pwm = dev.pwm /\ d.angle = dev.angle /\ d.us = dev.us /\ d.raw = dev.raw
        /\ d.dirty = dev.dirty /\ d.strip = dev.strip /\ d.colour = dev.colour /\ d.bright = dev.bright
        /\ d.asserted = hot /\ d.int = pin
    BY DEF DevType
  <2> HIDE DEF d
  <2>7. Sound(d)
    BY <2>4, <2>6 DEF Sound
  <2> QED
    BY <2>1, <2>5, <2>6, <2>7 DEF hot
<1>2. CASE ~ (app = "searchlight" /\ Overtemp # dev.asserted)
  <2>1. FollowTemperature = dev
    BY <1>2 DEF FollowTemperature
  <2>2. dev.asserted \in BOOLEAN /\ Overtemp \in BOOLEAN
    BY DEF DevType, Overtemp
  <2> QED
    BY <1>2, <2>1, <2>2
<1> QED
  BY <1>1, <1>2

-----------------------------------------------------------------------------
(* The types of the slave. *)

Rcv == [state: {"sof", "addr", "cmd", "len", "payload", "crc"},
        addr: Byte, cmd: Byte, plen: Byte, buf: Seq(Byte), age: 0..Stall]

RcvOK(r) == r \in Rcv /\ Len(r.buf) <= r.plen /\ (r.state = "payload" => Len(r.buf) < r.plen)

StreamOK(s) == s \in [interval: Word, age: Nat] /\ s.age <= s.interval

\* The inductive invariant behind the types and the reports.
DevSound      == app \in Apps /\ mcu \in Mcus /\ dev \in DevType /\ Sound(dev)
ReceiverSound == RcvOK(rcv) /\ quiet \in 0..Gap /\ StreamOK(stream)
BytesHeld     == /\ uart \in Seq(Byte) /\ Len(uart) <= RxDepth[mcu]
                 /\ left \in Seq(Byte) /\ pipe \in Seq(Byte) /\ Len(pipe) <= TxDepth[mcu]
BusSound      == /\ coming \in Seq(Byte) /\ asked \in BusFrames[app]
                 /\ dur \in 0..MaxDur /\ rest \in 0..Stall
LoopSound     == /\ at \in {"drain", "send", "sendStream", "strip"}
                 /\ de = (at \in {"send", "sendStream"})
                 /\ looped \in BOOLEAN
                 /\ at = "strip" => app = "lightbar" /\ mcu = "stm32f1"
Settled       == /\ looped => uart = <<>> /\ ~dev.dirty
                 /\ app = "searchlight" /\ looped => dev.asserted = Overtemp
                 /\ at = "sendStream" => uart = <<>>

SlaveInv == DevSound /\ ReceiverSound /\ BytesHeld /\ BusSound /\ LoopSound /\ Settled

LEMMA InvTypes == SlaveInv => SlaveTypeOK
<1> SUFFICES ASSUME SlaveInv PROVE SlaveTypeOK
  OBVIOUS
<1>1. DevTypeOK
  BY Zenon DEF SlaveInv, DevSound, DevTypeOK
<1>2. /\ rcv \in Rcv
      /\ Len(rcv.buf) <= rcv.plen /\ (rcv.state = "payload" => Len(rcv.buf) < rcv.plen)
      /\ quiet \in 0..Gap
      /\ stream \in [interval: Word, age: Nat] /\ stream.age <= stream.interval
  BY Zenon DEF SlaveInv, ReceiverSound, RcvOK, StreamOK
<1>3. /\ at \in {"drain", "send", "sendStream", "strip"}
      /\ uart \in Seq(Byte) /\ Len(uart) <= RxDepth[mcu]
      /\ left \in Seq(Byte) /\ pipe \in Seq(Byte) /\ Len(pipe) <= TxDepth[mcu]
      /\ de = (at \in {"send", "sendStream"})
      /\ dur \in 0..MaxDur /\ rest \in 0..Stall /\ looped \in BOOLEAN
  BY Zenon DEF SlaveInv, BytesHeld, BusSound, LoopSound
<1> QED
  BY <1>1, <1>2, <1>3, Zenon DEF SlaveTypeOK, Rcv

LEMMA InvReports == SlaveInv => ReportsHardware
<1> SUFFICES ASSUME SlaveInv PROVE ReportsHardware
  OBVIOUS
<1>0. /\ mcu \in Mcus /\ dev \in DevType /\ Sound(dev)
      /\ looped => ~dev.dirty
      /\ app = "searchlight" /\ looped => dev.asserted = Overtemp
  BY DEF SlaveInv, DevSound, Settled
<1>1. ASSUME app = "searchlight", looped
      PROVE  Status = <<dev.pwm, Temperature % Base, IF IntLow THEN 2 ELSE 0>>
  <2>1. Status = <<dev.duty, Temperature % Base, IF Overtemp THEN 2 ELSE 0>>
    BY <1>1 DEF Status
  <2>2. dev.duty = dev.pwm
    BY <1>0 DEF Sound
  <2>3. Overtemp <=> IntLow
    BY <1>0, <1>1 DEF Sound, IntLow
  <2> QED
    BY <2>1, <2>2, <2>3
<1>2. ASSUME app = "pantilt", NEW ch \in {0, 1}
      PROVE  \/ dev.us[ch] = PulseOf(Status[ch + 1]) /\ (mcu = "stm32f1" => Status[ch + 1] <= MaxDeg)
             \/ mcu = "rp2040" /\ Status[ch + 1] = 0 /\ dev.us[ch] = 1500
  <2>1. Status[ch + 1] = dev.angle[ch]
    BY <1>2 DEF Status
  <2>2. mcu # "stm32f1" => mcu = "rp2040"
    BY <1>0 DEF Mcus
  <2> QED
    BY <1>0, <2>1, <2>2 DEF Sound, Stands
<1>3. ASSUME app = "lightbar", mcu = "stm32f1", looped
      PROVE  Status = <<dev.strip.bright, dev.mode, dev.strip.colour % Base, dev.strip.colour \div Base>>
  <2>1. Status = <<dev.bright, dev.mode, dev.colour % Base, dev.colour \div Base>>
    BY <1>3 DEF Status
  <2>2. dev.strip = [colour |-> dev.colour, bright |-> dev.bright]
    BY <1>0, <1>3 DEF Sound
  <2> QED
    BY <2>1, <2>2
<1>4. mcu = "rp2040" => dev.strip = [colour |-> 0, bright |-> 0]
  BY <1>0 DEF Sound, Dark
<1> QED
  BY <1>1, <1>2, <1>3, <1>4 DEF ReportsHardware

LEMMA SlaveFacts ==
  /\ Me \in Byte /\ Me # Everyone /\ Stall \in Nat /\ Gap \in Nat /\ MaxDur \in Nat /\ MaxDur < Stall
  /\ Errors \subseteq Byte \ {0} /\ Strays \subseteq Byte
  /\ \A m \in Mcus : RxDepth[m] \in Nat \ {0} /\ TxDepth[m] \in Nat \ {0, 1}
  /\ \A a \in Apps : BusFrames[a] \subseteq Frame /\ BusFrames[a] # {}
  /\ \A a \in Apps : \A f \in BusFrames[a] : Len(f.payload) \in Byte
BY SlaveAssumption DEF Frame

LEMMA BusFrameBytes ==
  ASSUME app \in Apps, NEW f \in BusFrames[app]
  PROVE  /\ f \in Frame /\ Len(f.payload) \in Byte /\ f.to \in Byte /\ f.cmd \in Byte
         /\ f.payload \in Seq(Byte) /\ f.payload \in Payload
         /\ Bytes(f) \in Seq(Byte)
<1>1. f \in Frame /\ Len(f.payload) \in Byte
  BY SlaveFacts
<1>2. Bytes(f) \in Seq(Byte)
  BY <1>1, BytesOfFrame
<1> QED
  BY <1>1, <1>2 DEF Frame, Payload

LEMMA AnswerBytes ==
  ASSUME NEW cmd \in Byte, NEW p \in Payload
  PROVE  Answer(cmd, p) \in Seq(Byte)
<1> DEFINE f == [to |-> Me, cmd |-> cmd, payload |-> p]
<1>1. f \in Frame /\ Len(f.payload) \in Byte
  BY SlaveFacts DEF Frame, Payload
<1>2. Answer(cmd, p) = Bytes(f)
  BY DEF Answer
<1> HIDE DEF f
<1> QED
  BY <1>1, <1>2, BytesOfFrame

\* What a dispatched frame does.
LEMMA Dispatched ==
  ASSUME SlaveInv, NEW to, NEW cmd, NEW p \in Payload, Dispatch(to, cmd, p)
  PROVE  /\ dev' \in DevType /\ Sound(dev') /\ dev'.raw = dev.raw /\ dev'.asserted = dev.asserted
         /\ StreamOK(stream')
         /\ \/ NoFrame
            \/ \E bytes \in Seq(Byte) : Transmit(bytes, "send")
<1>0. dev \in DevType /\ Sound(dev) /\ StreamOK(stream) /\ app \in Apps
  BY DEF SlaveInv, DevSound, ReceiverSound
<1>1. \A a, b \in Names : Code[a] = Code[b] => a = b
  BY Codes
<1>2. CASE cmd = Code.PING
  <2>1. /\ NoFrame \/ Transmit(Answer(Code.PONG, <<1>>), "send")
        /\ UNCHANGED <<stream, dev>>
    BY <1>1, <1>2 DEF Dispatch, Names, Handles
  <2>2. Answer(Code.PONG, <<1>>) \in Seq(Byte)
    <3>1. 1 \in Byte /\ Code.PONG \in Byte
      BY ByteTypes, Codes DEF Byte, Names
    <3> QED
      BY <3>1, ShortPayloads, AnswerBytes
  <2> QED
    BY <1>0, <2>1, <2>2
<1>3. CASE cmd = Code.STREAM_ON
  <2>1. cmd # Code.PING
    BY <1>1, <1>3 DEF Names
  <2>2. /\ stream' = IF Streams /\ Len(p) >= 2 THEN [interval |-> p[1] + p[2] * Base, age |-> 0] ELSE stream
        /\ NoFrame /\ UNCHANGED dev
    BY <1>1, <1>3 DEF Dispatch, Names, Handles
  <2>3. CASE Streams /\ Len(p) >= 2
    <3>1. p[1] + p[2] * Base \in Word
      <4>1. p[1] \in Byte /\ p[2] \in Byte
        BY <2>3 DEF Payload
      <4> QED
        BY <4>1, WordOfBytes
    <3> DEFINE w == p[1] + p[2] * Base
    <3>2. w \in Word /\ stream' = [interval |-> w, age |-> 0]
      BY <2>2, <2>3, <3>1
    <3> HIDE DEF w
    <3>3. w \in Nat
      BY <3>2, WordsAreNumbers
    <3>4. StreamOK(stream')
      BY <3>2, <3>3 DEF StreamOK
    <3> QED
      BY <1>0, <2>2, <3>4
  <2>4. CASE ~ (Streams /\ Len(p) >= 2)
    BY <1>0, <2>2, <2>4
  <2> QED
    BY <2>3, <2>4
<1>4. CASE cmd = Code.STREAM_OFF
  <2>1. /\ stream' = [interval |-> 0, age |-> 0]
        /\ NoFrame /\ UNCHANGED dev
    BY <1>1, <1>4 DEF Dispatch, Names, Handles
  <2>2. 0 \in Word
    BY WordsAreNumbers
  <2>3. StreamOK(stream')
    BY <2>1, <2>2 DEF StreamOK
  <2> QED
    BY <1>0, <2>1, <2>3
<1>5. CASE Handles(cmd)
  <2>1. cmd \notin {Code.PING, Code.STREAM_ON, Code.STREAM_OFF}
    BY <1>1, <1>5 DEF Handles, Names
  <2> DEFINE a == Handled(cmd, p)
  <2>2. /\ dev' = a.dev
        /\ NoFrame \/ Transmit(Answer(AnswerCode(cmd), a.bytes), "send")
        /\ UNCHANGED stream
    BY <1>5, <2>1 DEF Dispatch
  <2>3. Answered(a) /\ AnswerCode(cmd) \in Byte
    BY <1>0, <1>5, HandledWell
  <2> HIDE DEF a
  <2>4. Answer(AnswerCode(cmd), a.bytes) \in Seq(Byte)
    BY <2>3, AnswerBytes DEF Answered
  <2> QED
    BY <1>0, <2>2, <2>3, <2>4 DEF Answered
<1>6. CASE cmd \notin {Code.PING, Code.STREAM_ON, Code.STREAM_OFF} /\ ~ Handles(cmd)
  <2>1. NoFrame /\ UNCHANGED <<stream, dev>>
    BY <1>6 DEF Dispatch
  <2> QED
    BY <1>0, <2>1
<1> QED
  BY <1>2, <1>3, <1>4, <1>5, <1>6

LEMMA SoundStays ==
  ASSUME Sound(dev'), UNCHANGED <<app, mcu>>
  PROVE  Sound(dev)'
BY DEF Sound, Stands

LEMMA ReceivedWell ==
  ASSUME RcvOK(rcv), NEW b \in Byte
  PROVE  RcvOK(Received(b))
<1>1. rcv \in Rcv /\ Len(rcv.buf) <= rcv.plen /\ (rcv.state = "payload" => Len(rcv.buf) < rcv.plen)
  BY DEF RcvOK
<1>2. rcv.buf \in Seq(Byte) /\ rcv.plen \in Nat /\ rcv.plen \in Byte /\ Len(rcv.buf) \in Nat
  <2>1. rcv.buf \in Seq(Byte) /\ rcv.plen \in Byte
    BY <1>1 DEF Rcv
  <2>2. \A x \in Byte : x \in Nat
    BY ByteTypes DEF Byte
  <2> QED
    BY <2>1, <2>2
<1>3. 0 \in Byte /\ 0 \in 0..Stall
  BY ByteTypes, SlaveFacts DEF Byte
<1>4. RcvOK(Idle)
  BY <1>3 DEF RcvOK, Rcv, Idle
<1>5. CASE rcv.state = "sof"
  <2>1. Received(b) = IF b = Sof THEN [Idle EXCEPT !.state = "addr"] ELSE rcv
    BY <1>5 DEF Received
  <2>2. [Idle EXCEPT !.state = "addr"]
          = [state |-> "addr", addr |-> 0, cmd |-> 0, plen |-> 0, buf |-> <<>>, age |-> 0]
    BY DEF Idle
  <2>3. RcvOK([state |-> "addr", addr |-> 0, cmd |-> 0, plen |-> 0, buf |-> <<>>, age |-> 0])
    BY <1>3 DEF RcvOK, Rcv
  <2> QED
    BY <2>1, <2>2, <2>3
<1>6. CASE rcv.state = "addr"
  <2>1. Received(b) = [rcv EXCEPT !.addr = b, !.state = "cmd"]
    BY <1>6 DEF Received
  <2> QED
    BY <1>1, <2>1 DEF RcvOK, Rcv
<1>7. CASE rcv.state = "cmd"
  <2>1. Received(b) = [rcv EXCEPT !.cmd = b, !.state = "len"]
    BY <1>7 DEF Received
  <2> QED
    BY <1>1, <2>1 DEF RcvOK, Rcv
<1>8. CASE rcv.state = "len"
  <2>1. Received(b) = [rcv EXCEPT !.plen = b, !.buf = <<>>, !.state = IF b = 0 THEN "crc" ELSE "payload"]
    BY <1>8 DEF Received, WithLength
  <2>2. b \in Nat /\ Len(<<>>) = 0 /\ <<>> \in Seq(Byte)
    BY ByteTypes DEF Byte
  <2> DEFINE st == IF b = 0 THEN "crc" ELSE "payload"
             r == [rcv EXCEPT !.plen = b, !.buf = <<>>, !.state = st]
  <2>3. st \in {"crc", "payload"} /\ (st = "payload" => b > 0)
    BY <2>2
  <2> HIDE DEF st
  <2>4. r \in Rcv /\ r.buf = <<>> /\ r.plen = b /\ r.state = st
    BY <1>1, <2>2, <2>3 DEF Rcv
  <2>5. RcvOK(r)
    BY <2>2, <2>3, <2>4 DEF RcvOK
  <2> QED
    BY <2>1, <2>5 DEF st
<1>9. CASE rcv.state = "payload"
  <2> DEFINE st == IF Len(rcv.buf) + 1 >= rcv.plen THEN "crc" ELSE "payload"
             buf == Append(rcv.buf, b)
             r == [rcv EXCEPT !.buf = buf, !.state = st]
  <2>1. Received(b) = r
    BY <1>9 DEF Received
  <2>2. buf \in Seq(Byte) /\ Len(buf) = Len(rcv.buf) + 1
    BY <1>2
  <2>3. st \in {"crc", "payload"} /\ (st = "payload" => Len(buf) < rcv.plen)
    BY <1>2, <2>2
  <2> HIDE DEF st, buf
  <2>4. r \in Rcv /\ r.buf = buf /\ r.plen = rcv.plen /\ r.state = st
    BY <1>1, <2>2, <2>3 DEF Rcv
  <2>5. Len(buf) <= rcv.plen
    BY <1>1, <1>2, <1>9, <2>2
  <2>6. RcvOK(r)
    BY <2>3, <2>4, <2>5 DEF RcvOK
  <2> QED
    BY <2>1, <2>6
<1>10. CASE rcv.state = "crc"
  <2>1. Received(b) = Idle
    BY <1>10 DEF Received
  <2> QED
    BY <1>4, <2>1
<1> QED
  BY <1>1, <1>5, <1>6, <1>7, <1>8, <1>9, <1>10 DEF Rcv

LEMMA InitSound ==
  ASSUME SlaveInit
  PROVE  SlaveInv
<1>1. app \in Apps /\ mcu \in Mcus
  BY PeripheralAssumption DEF SlaveInit, DevInit
<1>2. 0 \in Byte /\ 0 \in Word /\ 2048 \in Raw /\ 0 \in 0..Stall /\ 0 \in 0..Gap /\ 0 \in 0..MaxDur
  BY ByteTypes, WordsAreNumbers, SlaveFacts DEF Byte, Raw
<1>3. StartAngle(mcu) \in Byte /\ 1500 \in Pulse /\ IntReleased(mcu) \in IntPins
  BY <1>2, DegreeFacts DEF StartAngle, Pulse, IntReleased, IntPins
<1> DEFINE angle == [ch \in {0, 1} |-> StartAngle(mcu)]
           us == [ch \in {0, 1} |-> 1500]
           strip == [colour |-> 0, bright |-> 0]
           wet == mcu = "stm32f1" /\ app = "lightbar"
<1>4. angle \in Angles /\ us \in Pulses /\ strip \in Strips /\ wet \in BOOLEAN
  BY <1>2, <1>3 DEF Angles, Pulses, Strips
<1>5. dev = [duty |-> 0, pwm |-> 0, raw |-> 2048, asserted |-> FALSE, int |-> IntReleased(mcu),
             angle |-> angle, us |-> us, bright |-> 0, mode |-> 0, colour |-> 0,
             dirty |-> wet, strip |-> strip]
  BY DEF SlaveInit, DevInit
<1>6. Stands(angle, us)
  BY DegreeFacts DEF StartAngle, Stands
<1> HIDE DEF angle, us
<1>7. dev \in DevType
  BY <1>2, <1>3, <1>4, <1>5 DEF DevType
<1>8. Sound(dev)
  <2>1. /\ dev.duty = 0 /\ dev.pwm = 0 /\ dev.asserted = FALSE /\ dev.int = IntReleased(mcu)
        /\ dev.angle = angle /\ dev.us = us /\ dev.bright = 0 /\ dev.colour = 0 /\ dev.dirty = wet
        /\ dev.strip = [colour |-> 0, bright |-> 0]
    BY <1>5
  <2>2. /\ ~ (dev.int.out /\ dev.int.level = 0)
        /\ mcu = "stm32f1" => dev.int.out
    BY <2>1 DEF IntReleased
  <2> HIDE DEF wet
  <2>3. (app # "lightbar" => ~ wet) /\ (mcu # "stm32f1" => ~ wet)
    BY DEF wet
  <2> QED
    BY <1>6, <2>1, <2>2, <2>3 DEF Sound, Dark
<1>9. RcvOK(rcv) /\ StreamOK(stream)
  <2>1. rcv = Idle /\ stream = [interval |-> 0, age |-> 0]
    BY DEF SlaveInit
  <2> QED
    BY <1>2, <2>1 DEF RcvOK, Rcv, Idle, StreamOK
<1>10. asked \in BusFrames[app]
  BY <1>1, SlaveFacts DEF SlaveInit
<1>11. Len(<<>>) <= RxDepth[mcu] /\ Len(<<>>) <= TxDepth[mcu] /\ <<>> \in Seq(Byte)
  BY <1>1, SlaveFacts
<1>12. /\ quiet = 0 /\ at = "drain" /\ uart = <<>> /\ left = <<>> /\ pipe = <<>> /\ de = FALSE
       /\ coming = <<>> /\ dur = 0 /\ rest = 0 /\ looped = FALSE
  BY DEF SlaveInit
<1>13. /\ quiet \in 0..Gap /\ at \in {"drain", "send", "sendStream", "strip"}
       /\ dur \in 0..MaxDur /\ rest \in 0..Stall
       /\ at = "strip" => app = "lightbar" /\ mcu = "stm32f1"
  BY <1>2, <1>12
<1>17. looped \in BOOLEAN
  BY <1>12
<1>14. de = (at \in {"send", "sendStream"})
  <2>1. (at \in {"send", "sendStream"}) = FALSE
    BY <1>12
  <2> QED
    BY <1>12, <2>1
<1>15. /\ uart \in Seq(Byte) /\ Len(uart) <= RxDepth[mcu]
       /\ left \in Seq(Byte) /\ pipe \in Seq(Byte) /\ Len(pipe) <= TxDepth[mcu]
       /\ coming \in Seq(Byte)
  BY <1>11, <1>12
<1>16. ~looped /\ at # "sendStream"
  BY <1>12
<1> QED
  BY <1>1, <1>7, <1>8, <1>9, <1>10, <1>13, <1>14, <1>15, <1>16, <1>17
  DEF SlaveInv, DevSound, ReceiverSound, BytesHeld, BusSound, LoopSound, Settled

LEMMA SameTemperature ==
  ASSUME dev'.raw = dev.raw PROVE Overtemp' = Overtemp
BY DEF Overtemp, Temperature

LEMMA BooleanAt == at \in {"send", "sendStream"} <=> Sending
BY DEF Sending

LEMMA HeadAndTail ==
  ASSUME NEW T, NEW s \in Seq(T), s # <<>>
  PROVE  /\ Head(s) \in T /\ Tail(s) \in Seq(T) /\ Len(Tail(s)) = Len(s) - 1 /\ Len(s) \in Nat \ {0}
         /\ Head(s) = s[1] /\ \A k \in 1..(Len(s) - 1) : Tail(s)[k] = s[k + 1]
OBVIOUS

LEMMA AppendFacts ==
  ASSUME NEW T, NEW s \in Seq(T), NEW b \in T
  PROVE  Append(s, b) \in Seq(T) /\ Len(Append(s, b)) = Len(s) + 1
OBVIOUS

\* What Transmit and NoFrame do to the loop, the device staying as warm.
LEMMA LoopSoundStill ==
  ASSUME LoopSound, at = "drain", at' \in {"drain", "send", "sendStream"}, UNCHANGED looped,
         \/ at' = "drain" /\ de' = de
         \/ at' \in {"send", "sendStream"} /\ de' = TRUE
  PROVE  LoopSound'
<1>1. de' = (at' \in {"send", "sendStream"})
  <2>1. CASE at' = "drain"
    <3>1. de = (at \in {"send", "sendStream"})
      BY DEF LoopSound
    <3>2. (at \in {"send", "sendStream"}) = FALSE /\ (at' \in {"send", "sendStream"}) = FALSE /\ de' = de
      BY <2>1
    <3> QED
      BY <3>1, <3>2
  <2>2. CASE at' \in {"send", "sendStream"}
    <3>1. (at' \in {"send", "sendStream"}) = TRUE /\ de' = TRUE
      BY <2>2
    <3> QED
      BY <3>1
  <2> QED
    BY <2>1, <2>2
<1>2. looped' \in BOOLEAN
  BY DEF LoopSound
<1> QED
  BY <1>1, <1>2 DEF LoopSound

LEMMA RcvPayload ==
  ASSUME RcvOK(rcv)
  PROVE  rcv.buf \in Payload
<1>1. rcv.buf \in Seq(Byte) /\ rcv.plen \in Byte /\ Len(rcv.buf) <= rcv.plen
  BY DEF RcvOK, Rcv
<1>2. \A x \in Byte, n \in Nat : n <= x => n \in Byte
  BY ByteTypes DEF Byte
<1> QED
  BY <1>1, <1>2 DEF Payload

LEMMA FeedByteSound ==
  ASSUME SlaveInv, FeedByte
  PROVE  SlaveInv'
<1> DEFINE b == Head(uart)
<1>0. DevSound /\ ReceiverSound /\ BytesHeld /\ BusSound /\ LoopSound /\ Settled
  BY DEF SlaveInv
<1>1. /\ at = "drain" /\ uart # <<>> /\ uart' = Tail(uart) /\ quiet' = 0 /\ rcv' = Received(b)
      /\ UNCHANGED <<app, mcu, pipe, coming, asked, dur, rest, looped>>
  BY DEF FeedByte
<1>2. b \in Byte /\ Tail(uart) \in Seq(Byte) /\ Len(Tail(uart)) <= RxDepth[mcu]
  <2>1. uart \in Seq(Byte) /\ Len(uart) <= RxDepth[mcu] /\ RxDepth[mcu] \in Nat
    BY <1>0, SlaveFacts DEF BytesHeld, DevSound
  <2>2. Head(uart) \in Byte /\ Tail(uart) \in Seq(Byte) /\ Len(Tail(uart)) = Len(uart) - 1 /\ Len(uart) \in Nat \ {0}
    BY <1>1, <2>1, HeadAndTail
  <2> QED
    BY <2>1, <2>2
<1>3. \/ Dispatch(rcv.addr, rcv.cmd, rcv.buf) /\ rcv.state = "crc"
      \/ NoFrame /\ UNCHANGED <<stream, dev>>
  BY DEF FeedByte, Accepts
<1> HIDE DEF b
<1>4. /\ dev' \in DevType /\ Sound(dev') /\ dev'.raw = dev.raw /\ dev'.asserted = dev.asserted
      /\ StreamOK(stream')
      /\ \/ NoFrame
         \/ \E bytes \in Seq(Byte) : Transmit(bytes, "send")
  <2>1. CASE Dispatch(rcv.addr, rcv.cmd, rcv.buf) /\ rcv.state = "crc"
    <3>1. rcv.buf \in Payload
      BY <1>0, RcvPayload DEF ReceiverSound
    <3> QED
      BY <2>1, <3>1, Dispatched
  <2>2. CASE NoFrame /\ UNCHANGED <<stream, dev>>
    BY <1>0, <2>2 DEF DevSound, ReceiverSound
  <2> QED
    BY <1>3, <2>1, <2>2
<1>5. left' \in Seq(Byte) /\ ((at' = "drain" /\ de' = de) \/ (at' = "send" /\ de' = TRUE))
  <2>1. CASE NoFrame
    <3>1. at' = at /\ left' = left /\ de' = de
      BY <2>1 DEF NoFrame
    <3>2. left \in Seq(Byte)
      BY <1>0 DEF BytesHeld
    <3>3. at' = "drain" /\ left' \in Seq(Byte)
      BY <1>1, <3>1, <3>2
    <3> QED
      BY <3>1, <3>3, Zenon
  <2>2. CASE \E bytes \in Seq(Byte) : Transmit(bytes, "send")
    <3>1. PICK bytes \in Seq(Byte) : Transmit(bytes, "send")
      BY <2>2
    <3>2. left' = bytes /\ at' = "send" /\ de' = TRUE
      BY <3>1 DEF Transmit
    <3> QED
      BY <3>2
  <2> QED
    BY <1>4, <2>1, <2>2
<1>6. DevSound'
  BY <1>0, <1>1, <1>4, SoundStays DEF DevSound
<1>7. ReceiverSound'
  <2>1. RcvOK(rcv')
    BY <1>0, <1>1, <1>2, ReceivedWell DEF ReceiverSound
  <2>2. quiet' \in 0..Gap
    BY <1>1, SlaveFacts
  <2> QED
    BY <1>4, <2>1, <2>2 DEF ReceiverSound
<1>8. BytesHeld'
  BY <1>0, <1>1, <1>2, <1>5 DEF BytesHeld
<1>9. BusSound'
  BY <1>0, <1>1 DEF BusSound
<1>10. LoopSound'
  BY <1>0, <1>1, <1>5, LoopSoundStill
<1>11. Settled'
  <2>1. ~looped
    BY <1>0, <1>1 DEF Settled
  <2>2. ~looped' /\ at' # "sendStream"
    BY <1>1, <1>5, <2>1
  <2> QED
    BY <2>2 DEF Settled
<1> QED
  BY <1>6, <1>7, <1>8, <1>9, <1>10, <1>11 DEF SlaveInv

LEMMA WriteSound ==
  ASSUME SlaveInv, Write
  PROVE  SlaveInv'
<1>0. DevSound /\ ReceiverSound /\ BytesHeld /\ BusSound /\ LoopSound /\ Settled
  BY DEF SlaveInv
<1>1. /\ left # <<>> /\ Len(pipe) < TxDepth[mcu]
      /\ pipe' = Append(pipe, Head(left)) /\ left' = Tail(left)
      /\ UNCHANGED <<app, mcu, dev, rcv, quiet, stream, at, uart, de, coming, asked, dur, rest, looped>>
  BY DEF Write, devVars
<1>2. left \in Seq(Byte) /\ pipe \in Seq(Byte) /\ TxDepth[mcu] \in Nat
  BY <1>0, SlaveFacts DEF BytesHeld, DevSound
<1>3. Head(left) \in Byte /\ Tail(left) \in Seq(Byte)
  BY <1>1, <1>2, HeadAndTail
<1>4. pipe' \in Seq(Byte) /\ Len(pipe') <= TxDepth[mcu]
  <2>1. pipe' \in Seq(Byte) /\ Len(pipe') = Len(pipe) + 1
    BY <1>1, <1>2, <1>3, AppendFacts
  <2> QED
    BY <1>1, <1>2, <2>1
<1>5. DevSound'
  BY <1>0, <1>1, SoundStays DEF DevSound
<1>6. BytesHeld'
  BY <1>0, <1>1, <1>3, <1>4 DEF BytesHeld
<1>7. ReceiverSound' /\ BusSound' /\ LoopSound'
  BY <1>0, <1>1 DEF ReceiverSound, BusSound, LoopSound
<1>8. Settled'
  BY <1>0, <1>1, SameTemperature DEF Settled
<1> QED
  BY <1>5, <1>6, <1>7, <1>8 DEF SlaveInv

LEMMA ShiftSound ==
  ASSUME SlaveInv, Shift
  PROVE  SlaveInv'
<1>0. DevSound /\ ReceiverSound /\ BytesHeld /\ BusSound /\ LoopSound /\ Settled
  BY DEF SlaveInv
<1>1. /\ pipe # <<>> /\ pipe' = Tail(pipe)
      /\ UNCHANGED <<app, mcu, dev, rcv, quiet, stream, at, uart, left, de, coming, asked, dur, rest, looped>>
  BY DEF Shift, devVars
<1>2. pipe \in Seq(Byte) /\ Len(pipe) <= TxDepth[mcu] /\ TxDepth[mcu] \in Nat
  BY <1>0, SlaveFacts DEF BytesHeld, DevSound
<1>3. Tail(pipe) \in Seq(Byte) /\ Len(Tail(pipe)) <= TxDepth[mcu]
  <2>1. Tail(pipe) \in Seq(Byte) /\ Len(Tail(pipe)) = Len(pipe) - 1 /\ Len(pipe) \in Nat
    BY <1>1, <1>2, HeadAndTail
  <2> QED
    BY <1>2, <2>1
<1>4. DevSound'
  BY <1>0, <1>1, SoundStays DEF DevSound
<1>5. BytesHeld'
  BY <1>0, <1>1, <1>3 DEF BytesHeld
<1>6. ReceiverSound' /\ BusSound' /\ LoopSound'
  BY <1>0, <1>1 DEF ReceiverSound, BusSound, LoopSound
<1>7. Settled'
  BY <1>0, <1>1, SameTemperature DEF Settled
<1> QED
  BY <1>4, <1>5, <1>6, <1>7 DEF SlaveInv

\* What main does after a poll.
LEMMA MainEndsSound ==
  ASSUME DevSound, LoopSound, MainEnds, UNCHANGED <<app, mcu, uart>>, uart = <<>>, de' = FALSE
  PROVE  DevSound' /\ LoopSound' /\ Settled' /\ dev'.raw = dev.raw
<1>1. /\ FollowTemperature \in DevType /\ Sound(FollowTemperature)
      /\ FollowTemperature.raw = dev.raw /\ FollowTemperature.dirty = dev.dirty
      /\ app = "searchlight" => FollowTemperature.asserted = Overtemp
  BY Followed DEF DevSound
<1>2. dev' = FollowTemperature /\ at' = (IF dev.dirty THEN "strip" ELSE "drain") /\ looped' = ~dev.dirty
  BY DEF MainEnds
<1>3. dev.dirty \in BOOLEAN /\ (dev.dirty => app = "lightbar" /\ mcu = "stm32f1")
  <2>1. dev.dirty \in BOOLEAN
    BY DEF DevSound, DevType
  <2> QED
    BY <2>1 DEF DevSound, Sound
<1> HIDE DEF MainEnds
<1>4. DevSound'
  BY <1>1, <1>2, SoundStays DEF DevSound
<1>5. LoopSound'
  <2>1. (at' \in {"send", "sendStream"}) = FALSE
    BY <1>2
  <2>2. de' = (at' \in {"send", "sendStream"})
    BY <2>1
  <2>3. looped' \in BOOLEAN
    BY <1>2, <1>3
  <2>4. at' \in {"drain", "send", "sendStream", "strip"} /\ (at' = "strip" => app' = "lightbar" /\ mcu' = "stm32f1")
    BY <1>2, <1>3
  <2> QED
    BY <2>2, <2>3, <2>4 DEF LoopSound
<1>6. Settled'
  <2>1. dev'.raw = dev.raw
    BY <1>1, <1>2
  <2>2. Overtemp' = Overtemp
    BY <2>1, SameTemperature
  <2>3. at' # "sendStream" /\ (looped' => ~dev'.dirty)
    BY <1>1, <1>2
  <2> QED
    BY <1>1, <1>2, <2>2, <2>3 DEF Settled
<1> QED
  BY <1>1, <1>2, <1>4, <1>5, <1>6

LEMMA SendEndsSound ==
  ASSUME SlaveInv, SendEnds
  PROVE  SlaveInv'
<1>0. DevSound /\ ReceiverSound /\ BytesHeld /\ BusSound /\ LoopSound /\ Settled
  BY DEF SlaveInv
<1>1. /\ de' = FALSE
      /\ UNCHANGED <<app, mcu, rcv, quiet, uart, left, pipe, coming, asked, dur, rest>>
  BY DEF SendEnds
<1>2. \/ at' = "drain" /\ UNCHANGED <<dev, stream, looped>>
      \/ at = "sendStream" /\ MainEnds /\ stream' = [stream EXCEPT !.age = 0]
  BY DEF SendEnds
<1>3. BytesHeld' /\ BusSound'
  BY <1>0, <1>1 DEF BytesHeld, BusSound
<1>4. CASE at' = "drain" /\ UNCHANGED <<dev, stream, looped>>
  <2>1. DevSound'
    BY <1>0, <1>1, <1>4, SoundStays DEF DevSound
  <2>2. ReceiverSound'
    BY <1>0, <1>1, <1>4 DEF ReceiverSound
  <2>3. LoopSound'
    <3>1. (at' \in {"send", "sendStream"}) = FALSE
      BY <1>4
    <3>2. de' = (at' \in {"send", "sendStream"})
      BY <1>1, <3>1
    <3>3. looped' \in BOOLEAN
      BY <1>0, <1>4 DEF LoopSound
    <3> QED
      BY <1>4, <3>2, <3>3 DEF LoopSound
  <2>4. Settled'
    BY <1>0, <1>1, <1>4, SameTemperature DEF Settled
  <2> QED
    BY <1>3, <2>1, <2>2, <2>3, <2>4 DEF SlaveInv
<1>5. CASE at = "sendStream" /\ MainEnds /\ stream' = [stream EXCEPT !.age = 0]
  <2>1. DevSound' /\ LoopSound' /\ Settled'
    <3>1. uart = <<>>
      BY <1>0, <1>5 DEF Settled
    <3> QED
      BY <1>0, <1>1, <1>5, <3>1, MainEndsSound
  <2>2. StreamOK(stream')
    <3>1. stream \in [interval: Word, age: Nat]
      BY <1>0 DEF ReceiverSound, StreamOK
    <3>2. stream.interval \in Nat
      BY <3>1, WordsAreNumbers
    <3>3. stream' \in [interval: Word, age: Nat] /\ stream'.age = 0 /\ stream'.interval = stream.interval
      BY <1>5, <3>1
    <3> QED
      BY <3>2, <3>3 DEF StreamOK
  <2>3. ReceiverSound'
    BY <1>0, <1>1, <2>2 DEF ReceiverSound
  <2> QED
    BY <1>3, <2>1, <2>3 DEF SlaveInv
<1> QED
  BY <1>2, <1>4, <1>5

LEMMA LoopEndsSound ==
  ASSUME SlaveInv, LoopEnds
  PROVE  SlaveInv'
<1>0. DevSound /\ ReceiverSound /\ BytesHeld /\ BusSound /\ LoopSound /\ Settled
  BY DEF SlaveInv
<1>1. /\ at = "drain" /\ uart = <<>> /\ rcv' = Unstalled
      /\ UNCHANGED <<app, mcu, quiet, stream, uart, pipe, coming, asked, dur, rest>>
  BY DEF LoopEnds
<1>2. \/ Transmit(Answer(Code.STREAM_DATA, PowerBytes), "sendStream") /\ UNCHANGED <<dev, looped>>
      \/ MainEnds /\ UNCHANGED <<left, de, reply, heard>>
  BY DEF LoopEnds
<1>3. ReceiverSound' /\ BusSound'
  <2>1. RcvOK(Idle)
    BY ByteTypes, SlaveFacts DEF RcvOK, Rcv, Idle, Byte
  <2>2. RcvOK(rcv')
    BY <1>0, <1>1, <2>1 DEF Unstalled, ReceiverSound
  <2> QED
    BY <1>0, <1>1, <2>2 DEF ReceiverSound, BusSound
<1>4. CASE Transmit(Answer(Code.STREAM_DATA, PowerBytes), "sendStream") /\ UNCHANGED <<dev, looped>>
  <2>1. Answer(Code.STREAM_DATA, PowerBytes) \in Seq(Byte)
    BY <1>0, Codes, PowerPayload, AnswerBytes DEF DevSound, Names
  <2>2. at' = "sendStream" /\ de' = TRUE /\ left' = Answer(Code.STREAM_DATA, PowerBytes)
    BY <1>4 DEF Transmit
  <2>3. BytesHeld'
    BY <1>0, <1>1, <2>1, <2>2 DEF BytesHeld
  <2>4. DevSound'
    BY <1>0, <1>1, <1>4, SoundStays DEF DevSound
  <2>5. LoopSound'
    BY <1>0, <1>1, <1>4, <2>2, LoopSoundStill
  <2>6. Settled'
    BY <1>0, <1>1, <1>4, SameTemperature DEF Settled
  <2> QED
    BY <1>3, <2>3, <2>4, <2>5, <2>6 DEF SlaveInv
<1>5. CASE MainEnds /\ UNCHANGED <<left, de, reply, heard>>
  <2>1. de' = FALSE
    <3>1. de = (at \in {"send", "sendStream"})
      BY <1>0 DEF LoopSound
    <3>2. (at \in {"send", "sendStream"}) = FALSE /\ de' = de
      BY <1>1, <1>5
    <3> QED
      BY <3>1, <3>2
  <2>2. DevSound' /\ LoopSound' /\ Settled'
    BY <1>0, <1>1, <1>5, <2>1, MainEndsSound
  <2>3. BytesHeld'
    BY <1>0, <1>1, <1>5 DEF BytesHeld
  <2> QED
    BY <1>3, <2>2, <2>3 DEF SlaveInv
<1> QED
  BY <1>2, <1>4, <1>5

LEMMA StripEndsSound ==
  ASSUME SlaveInv, StripEnds
  PROVE  SlaveInv'
<1>0. DevSound /\ ReceiverSound /\ BytesHeld /\ BusSound /\ LoopSound /\ Settled
  BY DEF SlaveInv
<1>1. /\ at = "strip" /\ at' = "drain"
      /\ dev' = [StripSent EXCEPT !.dirty = FALSE]
      /\ looped' = (uart = <<>>)
      /\ UNCHANGED <<app, mcu, rcv, quiet, stream, uart, left, pipe, de, coming, asked, dur, rest>>
  BY DEF StripEnds
<1>2. dev \in DevType /\ Sound(dev) /\ app = "lightbar" /\ mcu = "stm32f1"
  BY <1>0, <1>1 DEF DevSound, LoopSound
<1> DEFINE strip == [colour |-> dev.colour, bright |-> dev.bright]
           d == [dev EXCEPT !.strip = strip, !.dirty = FALSE]
<1>3. dev' = d
  BY <1>1, <1>2 DEF StripSent, DevType
<1>4. strip \in Strips
  BY <1>2 DEF Strips, DevType
<1>5. d \in DevType
  BY <1>2, <1>4 DEF DevType
<1>6. /\ d.angle = dev.angle /\ d.us = dev.us /\ d.raw = dev.raw /\ d.duty = dev.duty /\ d.pwm = dev.pwm
      /\ d.asserted = dev.asserted /\ d.int = dev.int /\ d.dirty = FALSE /\ d.strip = strip
      /\ d.colour = dev.colour /\ d.bright = dev.bright
  BY <1>2 DEF DevType
<1> HIDE DEF d
<1>7. Sound(d)
  BY <1>2, <1>6 DEF Sound
<1>8. DevSound'
  BY <1>0, <1>1, <1>3, <1>5, <1>7, SoundStays DEF DevSound
<1>9. ReceiverSound' /\ BytesHeld' /\ BusSound'
  BY <1>0, <1>1 DEF ReceiverSound, BytesHeld, BusSound
<1>10. LoopSound'
  <2>1. de = (at \in {"send", "sendStream"})
    BY <1>0 DEF LoopSound
  <2>2. (at \in {"send", "sendStream"}) = FALSE /\ (at' \in {"send", "sendStream"}) = FALSE
    BY <1>1
  <2>3. de' = (at' \in {"send", "sendStream"})
    BY <1>1, <2>1, <2>2
  <2>4. looped' \in BOOLEAN
    BY <1>1
  <2> QED
    BY <1>1, <2>3, <2>4 DEF LoopSound
<1>11. Settled'
  <2>1. uart' = uart /\ (looped' <=> uart = <<>>) /\ ~dev'.dirty /\ at' # "sendStream" /\ app' # "searchlight"
    BY <1>1, <1>2, <1>3, <1>6
  <2> QED
    BY <2>1 DEF Settled
<1> QED
  BY <1>8, <1>9, <1>10, <1>11 DEF SlaveInv

LEMMA FrameBeginsSound ==
  ASSUME SlaveInv, NEW f \in BusFrames[app], FrameBegins(f)
  PROVE  SlaveInv'
<1>0. DevSound /\ ReceiverSound /\ BytesHeld /\ BusSound /\ LoopSound /\ Settled
  BY DEF SlaveInv
<1>1. /\ asked' = f /\ coming' = Bytes(f) /\ dur' = 0
      /\ UNCHANGED <<app, mcu, dev, rcv, quiet, stream, at, uart, left, pipe, de, rest, looped>>
  BY DEF FrameBegins, devVars
<1>2. Bytes(f) \in Seq(Byte) /\ 0 \in 0..MaxDur
  BY <1>0, BusFrameBytes, SlaveFacts DEF DevSound
<1>3. DevSound' /\ Settled'
  BY <1>0, <1>1, SoundStays, SameTemperature DEF DevSound, Settled
<1>4. ReceiverSound' /\ BytesHeld' /\ LoopSound'
  BY <1>0, <1>1 DEF ReceiverSound, BytesHeld, LoopSound
<1>5. BusSound'
  BY <1>0, <1>1, <1>2 DEF BusSound
<1> QED
  BY <1>3, <1>4, <1>5 DEF SlaveInv

\* A byte that arrives, or is lost.
LEMMA ArrivesSound ==
  ASSUME SlaveInv, UNCHANGED uart \/ (Heard /\ \E b \in Byte : Arrives(b)), coming' \in Seq(Byte),
         rest' = 0, looped' = FALSE,
         UNCHANGED <<app, mcu, dev, rcv, quiet, stream, at, left, pipe, de, asked, dur>>
  PROVE  SlaveInv'
<1>0. DevSound /\ ReceiverSound /\ BytesHeld /\ BusSound /\ LoopSound /\ Settled
  BY DEF SlaveInv
<1>1. DevSound'
  BY <1>0, SoundStays DEF DevSound
<1>2. ReceiverSound'
  BY <1>0 DEF ReceiverSound
<1>3. uart' \in Seq(Byte) /\ Len(uart') <= RxDepth[mcu]
  <2>1. uart \in Seq(Byte) /\ Len(uart) <= RxDepth[mcu] /\ RxDepth[mcu] \in Nat
    BY <1>0, SlaveFacts DEF BytesHeld, DevSound
  <2>2. CASE UNCHANGED uart
    BY <2>1, <2>2
  <2>3. CASE Heard /\ \E b \in Byte : Arrives(b)
    <3>1. PICK b \in Byte : uart' = Append(uart, b)
      BY <2>3 DEF Arrives
    <3>2. Len(uart) < RxDepth[mcu]
      BY <2>3 DEF Heard
    <3>3. uart' \in Seq(Byte) /\ Len(uart') = Len(uart) + 1
      BY <2>1, <3>1, AppendFacts
    <3> QED
      BY <2>1, <3>2, <3>3
  <2> QED
    BY <2>2, <2>3
<1>4. BytesHeld'
  BY <1>0, <1>3 DEF BytesHeld
<1>5. BusSound'
  BY <1>0, SlaveFacts DEF BusSound
<1>6. LoopSound'
  <2>1. looped' \in BOOLEAN
    OBVIOUS
  <2> QED
    BY <1>0, <2>1 DEF LoopSound
<1>7. Settled'
  <2>1. UNCHANGED uart \/ at # "sendStream"
    BY DEF Heard, Sending
  <2> QED
    BY <1>0, <2>1 DEF Settled
<1> QED
  BY <1>1, <1>2, <1>4, <1>5, <1>6, <1>7 DEF SlaveInv

LEMMA ByteArrivesSound ==
  ASSUME SlaveInv, ByteArrives
  PROVE  SlaveInv'
<1>1. /\ coming # <<>> /\ coming' = Tail(coming) /\ rest' = 0 /\ looped' = FALSE
      /\ UNCHANGED <<app, mcu, dev, rcv, quiet, stream, at, left, pipe, de, asked, dur>>
  BY DEF ByteArrives, devVars
<1>2. coming \in Seq(Byte)
  BY DEF SlaveInv, BusSound
<1>3. Head(coming) \in Byte /\ Tail(coming) \in Seq(Byte)
  BY <1>1, <1>2, HeadAndTail
<1>4. UNCHANGED uart \/ (Heard /\ \E b \in Byte : Arrives(b))
  <2>1. \/ Heard /\ Arrives(Head(coming))
        \/ Heard /\ \E e \in Errors : Arrives(XorByte(Head(coming), e))
        \/ UNCHANGED uart
    BY DEF ByteArrives
  <2>2. \A e \in Errors : XorByte(Head(coming), e) \in Byte
    BY <1>3, XorFacts, SlaveFacts
  <2> QED
    BY <1>3, <2>1, <2>2
<1> QED
  BY <1>1, <1>3, <1>4, ArrivesSound

LEMMA StrayByteSound ==
  ASSUME SlaveInv, StrayByte
  PROVE  SlaveInv'
<1>1. /\ Heard /\ (\E b \in Strays : Arrives(b)) /\ rest' = 0 /\ looped' = FALSE
      /\ UNCHANGED <<app, mcu, dev, rcv, quiet, stream, at, left, pipe, de, coming, asked, dur>>
  BY DEF StrayByte, devVars
<1>2. \E b \in Byte : Arrives(b)
  BY <1>1, SlaveFacts
<1>3. coming' \in Seq(Byte)
  BY <1>1 DEF SlaveInv, BusSound
<1> QED
  BY <1>1, <1>2, <1>3, ArrivesSound

LEMMA AgedInRange ==
  ASSUME NEW limit \in Nat, NEW n \in 0..limit
  PROVE  Aged(n, limit) \in 0..limit
BY DEF Aged

LEMMA TickSound ==
  ASSUME SlaveInv, Tick
  PROVE  SlaveInv'
<1>0. DevSound /\ ReceiverSound /\ BytesHeld /\ BusSound /\ LoopSound /\ Settled
  BY DEF SlaveInv
<1>1. /\ looped' = FALSE
      /\ IF coming = <<>> THEN dur' = 0 ELSE dur < MaxDur /\ dur' = dur + 1
      /\ rest' = Aged(rest, Stall) /\ quiet' = Aged(quiet, Gap)
      /\ stream' = [stream EXCEPT !.age = Aged(@, stream.interval)]
      /\ rcv' = (IF rcv.state = "sof" THEN rcv ELSE [rcv EXCEPT !.age = Aged(@, Stall)])
      /\ UNCHANGED <<app, mcu, dev, at, uart, left, pipe, de, coming, asked>>
  BY DEF Tick, devVars
<1>2. DevSound'
  BY <1>0, <1>1, SoundStays DEF DevSound
<1>3. BytesHeld'
  BY <1>0, <1>1 DEF BytesHeld
<1>4. dur' \in 0..MaxDur /\ rest' \in 0..Stall /\ quiet' \in 0..Gap
  <2>1. dur \in 0..MaxDur /\ rest \in 0..Stall /\ quiet \in 0..Gap /\ MaxDur \in Nat /\ Stall \in Nat /\ Gap \in Nat
    BY <1>0, SlaveFacts DEF BusSound, ReceiverSound
  <2>2. Aged(rest, Stall) \in 0..Stall /\ Aged(quiet, Gap) \in 0..Gap
    BY <2>1, AgedInRange
  <2>3. dur' \in 0..MaxDur
    BY <1>1, <2>1
  <2> QED
    BY <1>1, <2>2, <2>3
<1>5. BusSound'
  BY <1>0, <1>1, <1>4 DEF BusSound
<1>6. StreamOK(stream')
  <2>1. stream \in [interval: Word, age: Nat] /\ stream.age <= stream.interval /\ stream.age \in Nat
    BY <1>0 DEF ReceiverSound, StreamOK
  <2>2. stream.interval \in Nat
    BY <2>1, WordsAreNumbers
  <2>3. Aged(stream.age, stream.interval) \in 0..stream.interval
    BY <2>1, <2>2, AgedInRange
  <2> DEFINE aged == Aged(stream.age, stream.interval)
  <2>4. stream' = [stream EXCEPT !.age = aged] /\ aged \in 0..stream.interval
    BY <1>1, <2>3
  <2> HIDE DEF aged
  <2>5. stream' \in [interval: Word, age: Nat] /\ stream'.age = aged /\ stream'.interval = stream.interval
    BY <2>1, <2>2, <2>4
  <2>6. stream'.age <= stream'.interval
    BY <2>2, <2>4, <2>5
  <2> QED
    BY <2>5, <2>6 DEF StreamOK
<1>7. RcvOK(rcv')
  <2>1. RcvOK(rcv)
    BY <1>0 DEF ReceiverSound
  <2>2. CASE rcv.state # "sof"
    <3> DEFINE aged == Aged(rcv.age, Stall)
    <3>1. aged \in 0..Stall
      <4>1. rcv.age \in 0..Stall
        BY <2>1 DEF RcvOK, Rcv
      <4> QED
        BY <4>1, AgedInRange, SlaveFacts
    <3>2. rcv' = [rcv EXCEPT !.age = aged]
      BY <1>1, <2>2
    <3> HIDE DEF aged
    <3>3. rcv' \in Rcv /\ rcv'.buf = rcv.buf /\ rcv'.plen = rcv.plen /\ rcv'.state = rcv.state
      BY <2>1, <3>1, <3>2 DEF RcvOK, Rcv
    <3> QED
      BY <2>1, <3>3 DEF RcvOK
  <2> QED
    BY <1>1, <2>1, <2>2
<1>8. ReceiverSound'
  BY <1>4, <1>6, <1>7 DEF ReceiverSound
<1>9. LoopSound'
  <2>1. looped' \in BOOLEAN
    BY <1>1
  <2> QED
    BY <1>0, <1>1, <2>1 DEF LoopSound
<1>10. Settled'
  BY <1>0, <1>1 DEF Settled
<1> QED
  BY <1>2, <1>3, <1>5, <1>8, <1>9, <1>10 DEF SlaveInv

LEMMA HeatsSound ==
  ASSUME SlaveInv, Heats
  PROVE  SlaveInv'
<1>0. DevSound /\ ReceiverSound /\ BytesHeld /\ BusSound /\ LoopSound /\ Settled
  BY DEF SlaveInv
<1>1. /\ Heat /\ looped' = FALSE
      /\ UNCHANGED <<app, mcu, rcv, quiet, stream, at, uart, left, pipe, de, coming, asked, dur, rest>>
  BY DEF Heats
<1>2. PICK raw \in Samples : dev' = [dev EXCEPT !.raw = raw]
  BY <1>1 DEF Heat
<1>3. raw \in Raw
  BY PeripheralAssumption DEF Raw
<1>4. dev' \in DevType
  BY <1>0, <1>2, <1>3 DEF DevSound, DevType
<1>5. /\ dev'.angle = dev.angle /\ dev'.us = dev.us /\ dev'.duty = dev.duty /\ dev'.pwm = dev.pwm
      /\ dev'.asserted = dev.asserted /\ dev'.int = dev.int /\ dev'.dirty = dev.dirty /\ dev'.strip = dev.strip
      /\ dev'.colour = dev.colour /\ dev'.bright = dev.bright
  BY <1>0, <1>2 DEF DevSound, DevType
<1>6. Sound(dev')
  BY <1>0, <1>5 DEF DevSound, Sound
<1>7. DevSound'
  BY <1>0, <1>1, <1>4, <1>6, SoundStays DEF DevSound
<1>8. ReceiverSound' /\ BytesHeld' /\ BusSound'
  BY <1>0, <1>1 DEF ReceiverSound, BytesHeld, BusSound
<1>9. LoopSound'
  <2>1. looped' \in BOOLEAN
    BY <1>1
  <2> QED
    BY <1>0, <1>1, <2>1 DEF LoopSound
<1>10. Settled'
  BY <1>0, <1>1 DEF Settled
<1> QED
  BY <1>7, <1>8, <1>9, <1>10 DEF SlaveInv

LEMMA SlaveInvIsInvariant == SlaveSpec => []SlaveInv
<1>1. SlaveInit => SlaveInv
  BY InitSound
<1>2. SlaveInv /\ [SlaveNext]_slaveVars => SlaveInv'
  <2> SUFFICES ASSUME SlaveInv, [SlaveNext]_slaveVars PROVE SlaveInv'
    OBVIOUS
  <2>1. CASE FeedByte
    BY <2>1, FeedByteSound
  <2>2. CASE Write
    BY <2>2, WriteSound
  <2>3. CASE Shift
    BY <2>3, ShiftSound
  <2>4. CASE SendEnds
    BY <2>4, SendEndsSound
  <2>5. CASE LoopEnds
    BY <2>5, LoopEndsSound
  <2>6. CASE StripEnds
    BY <2>6, StripEndsSound
  <2>7. ASSUME NEW f \in BusFrames[app], FrameBegins(f) PROVE SlaveInv'
    BY <2>7, FrameBeginsSound
  <2>8. CASE ByteArrives
    BY <2>8, ByteArrivesSound
  <2>9. CASE StrayByte
    BY <2>9, StrayByteSound
  <2>10. CASE Tick
    BY <2>10, TickSound
  <2>11. CASE Heats
    BY <2>11, HeatsSound
  <2>12. CASE UNCHANGED slaveVars
    <3>1. UNCHANGED <<app, mcu, dev, rcv, quiet, stream, at, uart, left, pipe, de, coming, asked, dur, rest, looped>>
      BY <2>12 DEF slaveVars, devVars
    <3>2. DevSound' /\ Settled'
      BY <3>1, SoundStays, SameTemperature DEF SlaveInv, DevSound, Settled
    <3>3. ReceiverSound' /\ BytesHeld' /\ BusSound' /\ LoopSound'
      BY <3>1 DEF SlaveInv, ReceiverSound, BytesHeld, BusSound, LoopSound
    <3> QED
      BY <3>2, <3>3 DEF SlaveInv
  <2> QED
    BY <2>1, <2>2, <2>3, <2>4, <2>5, <2>6, <2>7, <2>8, <2>9, <2>10, <2>11, <2>12 DEF SlaveNext
<1> QED
  BY <1>1, <1>2, PTL DEF SlaveSpec

\* Every variable of a peripheral keeps its type: what is received stays inside
\* s_rx_buf and the UART's buffers, and DE is on exactly while a frame is sent.
THEOREM SlaveTypeCorrect == SlaveSpec => []SlaveTypeOK
BY SlaveInvIsInvariant, InvTypes, PTL

\* Whatever arrives in which order: once main has come round, the bytes GET_STATUS
\* would answer are the duty of the searchlight's PWM and the overheating of its /INT
\* pin, or the brightness and colour on the strip of the STM32's light bar; the
\* STM32's pan-tilt unit reports the angle its servos have.  What is only reported as
\* it was asked for is said to be so: an angle of the RP2040's pan-tilt unit beyond
\* the end of the servo and 0 before the first command, the mode of the light bar,
\* and everything the RP2040's light bar, which stays dark, reports.
THEOREM ReportsAreTrue == SlaveSpec => []ReportsHardware
BY SlaveInvIsInvariant, InvReports, PTL

-----------------------------------------------------------------------------
(* What happens to a frame. *)

WholeAsked == Bytes(asked)
Arrived    == Len(WholeAsked) - Len(coming)
Processed  == Arrived - Len(uart)

\* The receiver r after the first p bytes of seen, the bytes of a frame of n.
ReceivedUpTo(r, seen, p, n) ==
  /\ p \in {0, n} => r.state = "sof"
  /\ p = 1 => r.state = "addr"
  /\ p = 2 => r.state = "cmd"
  /\ p = 3 => r.state = "len"
  /\ p \in 4..(n - 2) => r.state = "payload"
  /\ p = n - 1 => r.state = "crc"
  /\ p \in 2..(n - 1) => r.addr = seen[2]
  /\ p \in 3..(n - 1) => r.cmd = seen[3]
  /\ p \in 4..(n - 1) => /\ r.plen = seen[4] /\ Len(r.buf) = p - 4
                         /\ \A k \in 1..(p - 4) : r.buf[k] = seen[4 + k]

\* The receiver has had the first bytes of seen and the UART holds those that
\* arrived since.
Carried(seen) ==
  /\ Processed >= 0 /\ \A k \in 1..Len(uart) : uart[k] = seen[Processed + k]
  /\ Len(coming) <= Len(WholeAsked) /\ \A k \in 1..Len(coming) : coming[k] = WholeAsked[Arrived + k]
  /\ ReceivedUpTo(rcv, seen, Processed, Len(WholeAsked))

\* The j-th byte was taken for v.
Sighting(j, v) ==
  /\ hurt = "none" => v = WholeAsked[j]
  /\ hurt = "one" => v # WholeAsked[j] /\ j <= Arrived /\ j \notin {1, 4}
  /\ Carried([WholeAsked EXCEPT ![j] = v])

DoneRight ==
  IF Processed = Len(WholeAsked) /\ hurt = "none" /\ asked.to \in {Me, Everyone} THEN did = <<asked>> ELSE did = <<>>

NotStalled ==
  rcv.state # "sof" => rcv.age <= MaxDur /\ (coming # <<>> => rcv.age <= dur)

Carrying == inTime /\ hurt # "bad"

FrameSound ==
  Carrying => /\ \E j \in 1..Len(WholeAsked), v \in Byte : Sighting(j, v)
              /\ DoneRight /\ NotStalled

\* A receiver that is in step between two frames waits for an SOF.
StepSound ==
  /\ hurt \in {"none", "one", "bad"}
  /\ step => inTime
  /\ step /\ hurt = "bad" /\ coming = <<>> => rcv.state = "sof" /\ uart = <<>>

\* After Stall ms without a byte it does, too.
StallSound ==
  /\ uart # <<>> => rest = 0 /\ looped = FALSE
  /\ at = "sendStream" => uart = <<>>
  /\ looped \/ at \in {"sendStream", "strip"} => rcv.state = "sof" \/ rcv.age < Stall
  /\ IF rcv.state = "sof" THEN rcv.age = 0 ELSE rest <= rcv.age

\* What is answered is on the bus, in the transmitter, or still to be written.
ReplySound ==
  /\ reply \in Seq(Byte) /\ heard \in Seq(Byte)
  /\ ~ Sending => pipe = <<>> /\ left = <<>>
  /\ hurt # "bad" => reply = heard \o pipe \o left

FrameInv == FrameSound /\ StepSound /\ StallSound /\ ReplySound

LEMMA MoreFacts ==
  /\ Stall \in Nat /\ Stall > 0 /\ MaxDur \in Nat /\ MaxDur < Stall /\ 0 \in Byte
  /\ \A e \in Errors : e \in Byte /\ e # 0
<1>1. /\ Stall \in Nat /\ Stall > 0 /\ MaxDur \in Nat /\ MaxDur < Stall
      /\ \A e \in Errors : e \in Byte /\ e # 0
  BY SlaveFacts
<1>2. 0 \in Byte
  BY ByteTypes DEF Byte
<1> QED
  BY <1>1, <1>2

\* What is known of the receiver's age whatever is received.
LEMMA AgeOf ==
  ASSUME SlaveInv
  PROVE  rcv.age \in 0..Stall /\ rest \in 0..Stall /\ dur \in 0..MaxDur
BY DEF SlaveInv, ReceiverSound, RcvOK, Rcv, BusSound

LEMMA AgeWhenReceived ==
  ASSUME RcvOK(rcv), NEW b
  PROVE  Received(b).age \in {0, rcv.age} /\ (Received(b).state = "sof" => Received(b).age = 0 \/ Received(b) = rcv)
<1>1. rcv \in Rcv
  BY DEF RcvOK
<1>2. CASE rcv.state = "sof"
  BY <1>2 DEF Received, Idle
<1>3. CASE rcv.state = "crc"
  BY <1>3 DEF Received, Idle
<1>4. CASE rcv.state = "addr"
  <2>1. Received(b) = [rcv EXCEPT !.addr = b, !.state = "cmd"]
    BY <1>4 DEF Received
  <2> QED
    BY <1>1, <2>1 DEF Rcv
<1>5. CASE rcv.state = "cmd"
  <2>1. Received(b) = [rcv EXCEPT !.cmd = b, !.state = "len"]
    BY <1>5 DEF Received
  <2> QED
    BY <1>1, <2>1 DEF Rcv
<1>6. CASE rcv.state = "len"
  <2>1. Received(b) = [rcv EXCEPT !.plen = b, !.buf = <<>>, !.state = IF b = 0 THEN "crc" ELSE "payload"]
    BY <1>6 DEF Received, WithLength
  <2> QED
    BY <1>1, <2>1 DEF Rcv
<1>7. CASE rcv.state = "payload"
  <2>1. Received(b) = [rcv EXCEPT !.buf = Append(@, b),
                                  !.state = IF Len(rcv.buf) + 1 >= rcv.plen THEN "crc" ELSE "payload"]
    BY <1>7 DEF Received
  <2> QED
    BY <1>1, <2>1 DEF Rcv
<1> QED
  BY <1>1, <1>2, <1>3, <1>4, <1>5, <1>6, <1>7 DEF Rcv

LEMMA StallSoundStep ==
  ASSUME SlaveInv, SlaveInv', StallSound, [SlaveNext]_slaveVars
  PROVE  StallSound'
<1>0. /\ rcv.age \in 0..Stall /\ rest \in 0..Stall /\ Stall \in Nat /\ Stall > 0
      /\ looped \in BOOLEAN
  BY AgeOf, MoreFacts DEF SlaveInv, LoopSound
<1>1. ASSUME UNCHANGED <<rcv, at, uart, rest, looped>> PROVE StallSound'
  BY <1>1 DEF StallSound
<1>2. CASE FeedByte
  <2>1. uart # <<>> /\ rcv' = Received(Head(uart)) /\ at = "drain" /\ UNCHANGED <<rest, looped>>
    BY <1>2 DEF FeedByte
  <2>2. rest' = 0 /\ looped' = FALSE
    BY <2>1 DEF StallSound
  <2>3. at' \in {"drain", "send"}
    <3>1. NoFrame \/ Dispatch(rcv.addr, rcv.cmd, rcv.buf)
      BY <1>2 DEF FeedByte
    <3>2. CASE NoFrame
      BY <2>1, <3>2 DEF NoFrame
    <3>3. CASE Dispatch(rcv.addr, rcv.cmd, rcv.buf)
      <4>1. rcv.buf \in Payload
        BY RcvPayload DEF SlaveInv, ReceiverSound
      <4>2. NoFrame \/ \E bytes \in Seq(Byte) : Transmit(bytes, "send")
        BY <3>3, <4>1, Dispatched
      <4> QED
        BY <2>1, <4>2 DEF NoFrame, Transmit
    <3> QED
      BY <3>1, <3>2, <3>3
  <2>4. rcv'.age \in 0..Stall
    BY AgeOf DEF SlaveInv, ReceiverSound, RcvOK, Rcv
  <2>5. rcv'.state = "sof" => rcv'.age = 0
    <3>1. RcvOK(rcv)
      BY DEF SlaveInv, ReceiverSound
    <3>2. rcv'.state = "sof" => rcv'.age = 0 \/ rcv' = rcv
      BY <2>1, <3>1, AgeWhenReceived
    <3> QED
      BY <3>2 DEF StallSound
  <2> QED
    BY <2>2, <2>3, <2>4, <2>5 DEF StallSound
<1>3. CASE SendEnds
  <2>1. /\ \/ at = "send" /\ at' = "drain" /\ UNCHANGED looped
           \/ at = "sendStream" /\ at' \in {"drain", "strip"} /\ looped' \in BOOLEAN
        /\ UNCHANGED <<rcv, uart, rest>>
    BY <1>3 DEF SendEnds, MainEnds, SlaveInv, LoopSound
  <2> QED
    BY <2>1 DEF StallSound
<1>4. CASE LoopEnds
  <2>1. /\ uart = <<>> /\ rcv' = Unstalled /\ UNCHANGED <<uart, rest>>
    BY <1>4 DEF LoopEnds
  <2>2. \/ Unstalled = rcv /\ rcv.age < Stall
        \/ Unstalled = Idle
    BY <1>0 DEF Unstalled
  <2> QED
    BY <2>1, <2>2 DEF StallSound, Idle
<1>5. CASE StripEnds
  <2>1. at = "strip" /\ at' = "drain" /\ looped' = (uart = <<>>) /\ UNCHANGED <<rcv, uart, rest>>
    BY <1>5 DEF StripEnds
  <2> QED
    BY <2>1 DEF StallSound
<1>6. CASE ByteArrives \/ StrayByte
  <2>1. /\ rest' = 0 /\ looped' = FALSE /\ UNCHANGED <<rcv, at>>
        /\ UNCHANGED uart \/ ~ Sending
    BY <1>6 DEF ByteArrives, StrayByte, Heard
  <2>2. at = "sendStream" => uart' = <<>>
    BY <2>1 DEF StallSound, Sending
  <2> QED
    BY <1>0, <2>1, <2>2 DEF StallSound
<1>7. CASE Tick
  <2>1. /\ at = "drain" /\ looped /\ looped' = FALSE /\ rest' = Aged(rest, Stall)
        /\ rcv' = (IF rcv.state = "sof" THEN rcv ELSE [rcv EXCEPT !.age = Aged(@, Stall)])
        /\ UNCHANGED <<at, uart>>
    BY <1>7 DEF Tick
  <2>2. uart = <<>>
    BY <2>1 DEF StallSound
  <2>3. CASE rcv.state = "sof"
    BY <2>1, <2>2, <2>3 DEF StallSound
  <2>4. CASE rcv.state # "sof"
    <3> DEFINE aged == Aged(rcv.age, Stall)
    <3>1. rest' <= aged
      BY <1>0, <2>1, <2>4 DEF StallSound, Aged
    <3>2. rcv' = [rcv EXCEPT !.age = aged]
      BY <2>1, <2>4
    <3> HIDE DEF aged
    <3>3. rcv'.age = aged /\ rcv'.state = rcv.state
      BY <3>2 DEF SlaveInv, ReceiverSound, RcvOK, Rcv
    <3> QED
      BY <2>1, <2>2, <2>4, <3>1, <3>3 DEF StallSound
  <2> QED
    BY <2>3, <2>4
<1>8. CASE Heats
  <2>1. looped' = FALSE /\ UNCHANGED <<rcv, at, uart, rest>>
    BY <1>8 DEF Heats
  <2> QED
    BY <2>1 DEF StallSound
<1>9. CASE Write \/ Shift \/ UNCHANGED slaveVars
  BY <1>1, <1>9 DEF Write, Shift, slaveVars
<1>10. ASSUME NEW f \in BusFrames[app], FrameBegins(f) PROVE StallSound'
  BY <1>1, <1>10 DEF FrameBegins
<1> QED
  BY <1>2, <1>3, <1>4, <1>5, <1>6, <1>7, <1>8, <1>9, <1>10 DEF SlaveNext

LEMMA FrameBytesOf ==
  ASSUME app \in Apps, NEW f \in BusFrames[app]
  PROVE  /\ Bytes(f) \in Seq(Byte) /\ Len(Bytes(f)) = 5 + Len(f.payload) /\ Len(f.payload) \in Nat
         /\ Bytes(f) # <<>>
<1>1. f \in Frame /\ Len(f.payload) \in Byte
  BY BusFrameBytes
<1>2. Bytes(f) \in Seq(Byte) /\ Len(Bytes(f)) = 5 + Len(f.payload)
  BY <1>1, BytesOfFrame
<1>3. Len(f.payload) \in Nat
  BY <1>1, ByteTypes DEF Byte
<1> QED
  BY <1>2, <1>3

LEMMA StepSoundStep ==
  ASSUME SlaveInv, StepSound, [SlaveNext]_slaveVars
  PROVE  StepSound'
<1>1. ASSUME UNCHANGED <<hurt, inTime, step, coming>>,
             rcv.state = "sof" /\ uart = <<>> => rcv'.state = "sof" /\ uart' = <<>>
      PROVE  StepSound'
  BY <1>1 DEF StepSound
<1>2. CASE FeedByte
  <2>1. uart # <<>> /\ UNCHANGED <<hurt, inTime, step, coming>>
    BY <1>2 DEF FeedByte
  <2> QED
    BY <1>1, <2>1
<1>3. CASE LoopEnds
  <2>1. rcv' = Unstalled /\ UNCHANGED <<hurt, inTime, step, coming, uart>>
    BY <1>3 DEF LoopEnds
  <2>2. rcv.state = "sof" => rcv'.state = "sof"
    BY <2>1 DEF Unstalled, Idle
  <2> QED
    BY <1>1, <2>1, <2>2
<1>4. CASE Tick
  <2>1. /\ rcv' = (IF rcv.state = "sof" THEN rcv ELSE [rcv EXCEPT !.age = Aged(@, Stall)])
        /\ UNCHANGED <<hurt, inTime, step, coming, uart>>
    BY <1>4 DEF Tick
  <2> QED
    BY <1>1, <2>1
<1>5. CASE Write \/ Shift \/ SendEnds \/ StripEnds \/ Heats \/ UNCHANGED slaveVars
  <2>1. UNCHANGED <<hurt, inTime, step, coming, uart, rcv>>
    BY <1>5 DEF Write, Shift, SendEnds, StripEnds, Heats, slaveVars
  <2> QED
    BY <1>1, <2>1
<1>6. ASSUME NEW f \in BusFrames[app], FrameBegins(f) PROVE StepSound'
  <2>1. coming' = Bytes(f) /\ step' = inTime' /\ hurt' \in {"bad", "none"}
    BY <1>6 DEF FrameBegins
  <2>2. coming' # <<>>
    BY <2>1, FrameBytesOf DEF SlaveInv, DevSound
  <2> QED
    BY <2>1, <2>2 DEF StepSound
<1>7. CASE ByteArrives
  <2>1. /\ hurt' \in {hurt, "one", "bad"} /\ step' = (step /\ hurt' # "bad") /\ UNCHANGED inTime
    BY <1>7 DEF ByteArrives
  <2>2. step' => step /\ hurt' # "bad"
    BY <2>1
  <2> QED
    BY <2>1, <2>2 DEF StepSound
<1>8. CASE StrayByte
  <2>1. hurt' = "bad" /\ step' = FALSE /\ UNCHANGED inTime
    BY <1>8 DEF StrayByte
  <2> QED
    BY <2>1 DEF StepSound
<1> QED
  BY <1>2, <1>3, <1>4, <1>5, <1>6, <1>7, <1>8 DEF SlaveNext

\* Concatenation, as the steps of send_frame need it.
LEMMA Passed ==
  ASSUME NEW T, NEW a \in Seq(T), NEW b \in Seq(T), b # <<>>
  PROVE  Append(a, Head(b)) \o Tail(b) = a \o b /\ Append(a, Head(b)) \in Seq(T) /\ Tail(b) \in Seq(T)
<1>1. Head(b) \in T /\ Tail(b) \in Seq(T) /\ Len(Tail(b)) = Len(b) - 1 /\ Len(b) \in Nat \ {0}
      /\ Head(b) = b[1] /\ \A k \in 1..(Len(b) - 1) : Tail(b)[k] = b[k + 1]
  BY HeadAndTail
<1> DEFINE h == Head(b)
           t == Tail(b)
           x == Append(a, h)
<1>2. /\ x \in Seq(T) /\ Len(x) = Len(a) + 1 /\ Len(a) \in Nat
      /\ \A i \in 1..Len(a) : x[i] = a[i]
      /\ x[Len(a) + 1] = h
  BY <1>1
<1>3. /\ t \in Seq(T) /\ Len(t) = Len(b) - 1 /\ h = b[1] /\ \A k \in 1..(Len(b) - 1) : t[k] = b[k + 1]
  BY <1>1
<1>4. Len(b) \in Nat \ {0}
  BY <1>1
<1> HIDE DEF h, t, x
<1>5. /\ x \o t \in Seq(T) /\ Len(x \o t) = Len(x) + Len(t)
      /\ \A i \in 1..(Len(x) + Len(t)) : (x \o t)[i] = IF i <= Len(x) THEN x[i] ELSE t[i - Len(x)]
  BY <1>2, <1>3, ConcatProperties, Zenon
<1>6. /\ a \o b \in Seq(T) /\ Len(a \o b) = Len(a) + Len(b)
      /\ \A i \in 1..(Len(a) + Len(b)) : (a \o b)[i] = IF i <= Len(a) THEN a[i] ELSE b[i - Len(a)]
  BY ConcatProperties, Zenon
<1> DEFINE l == x \o t
           r == a \o b
<1>7. l \in Seq(T) /\ r \in Seq(T) /\ Len(l) = Len(r)
  BY <1>2, <1>3, <1>4, <1>5, <1>6
<1>8. ASSUME NEW i \in 1..Len(l) PROVE l[i] = r[i]
  <2>0. i \in 1..(Len(a) + Len(b)) /\ i \in 1..(Len(x) + Len(t)) /\ i \in Nat
    BY <1>2, <1>3, <1>4, <1>5
  <2>1. l[i] = (IF i <= Len(x) THEN x[i] ELSE t[i - Len(x)]) /\ r[i] = (IF i <= Len(a) THEN a[i] ELSE b[i - Len(a)])
    BY <1>5, <1>6, <2>0
  <2> HIDE DEF l, r
  <2>2. CASE i <= Len(a)
    <3>1. i \in 1..Len(a) /\ i <= Len(x)
      BY <1>2, <2>0, <2>2
    <3> QED
      BY <1>2, <2>1, <2>2, <3>1
  <2>3. CASE i = Len(a) + 1
    <3>1. i <= Len(x) /\ ~ (i <= Len(a)) /\ i - Len(a) = 1
      BY <1>2, <2>0, <2>3
    <3> QED
      BY <1>2, <1>3, <2>1, <2>3, <3>1
  <2>4. CASE i > Len(a) + 1
    <3>1. ~ (i <= Len(x)) /\ ~ (i <= Len(a)) /\ i - Len(x) \in 1..(Len(b) - 1) /\ (i - Len(x)) + 1 = i - Len(a)
      BY <1>2, <1>3, <1>4, <2>0, <2>4
    <3> QED
      BY <1>3, <2>1, <3>1
  <2> QED
    BY <1>2, <2>0, <2>2, <2>3, <2>4
<1>9. l = r
  <2> HIDE DEF l, r
  <2> QED
    BY <1>7, <1>8, SeqEqual
<1> QED
  BY <1>1, <1>2, <1>9 DEF l, r, x, t, h

LEMMA Assoc ==
  ASSUME NEW a \in Seq(Byte), NEW b \in Seq(Byte), NEW c \in Seq(Byte)
  PROVE  (a \o b) \o c = a \o (b \o c)
BY ConcatAssociative

LEMMA ReplySoundStep ==
  ASSUME SlaveInv, SlaveInv', ReplySound, [SlaveNext]_slaveVars
  PROVE  ReplySound'
<1>0. /\ left \in Seq(Byte) /\ pipe \in Seq(Byte) /\ reply \in Seq(Byte) /\ heard \in Seq(Byte)
      /\ left' \in Seq(Byte) /\ pipe' \in Seq(Byte)
      /\ <<>> \in Seq(Byte)
  BY DEF SlaveInv, BytesHeld, ReplySound
<1>1. ASSUME UNCHANGED <<pipe, left, reply, heard>>, Sending => Sending', hurt' # "bad" => hurt # "bad"
      PROVE  ReplySound'
  BY <1>1 DEF ReplySound
<1>2. ASSUME NEW bytes \in Seq(Byte), NEW how \in {"send", "sendStream"}, Transmit(bytes, how), ~ Sending,
             UNCHANGED <<pipe, hurt>>
      PROVE  ReplySound'
  <2>1. pipe' = <<>> /\ left' = bytes /\ heard' = <<>> /\ reply' = (IF hurt = "bad" THEN <<>> ELSE bytes)
    BY <1>2 DEF Transmit, ReplySound
  <2>2. Sending'
    BY <1>2 DEF Transmit, Sending
  <2>3. <<>> \o <<>> \o bytes = bytes
    OBVIOUS
  <2> QED
    BY <1>0, <1>2, <2>1, <2>2, <2>3 DEF ReplySound
<1>3. CASE FeedByte
  <2>1. at = "drain" /\ ~ Sending /\ UNCHANGED <<pipe, hurt>>
    BY <1>3 DEF FeedByte, Sending
  <2>2. NoFrame \/ Dispatch(rcv.addr, rcv.cmd, rcv.buf)
    BY <1>3 DEF FeedByte
  <2>3. NoFrame \/ \E bytes \in Seq(Byte) : Transmit(bytes, "send")
    <3>1. rcv.buf \in Payload
      BY RcvPayload DEF SlaveInv, ReceiverSound
    <3> QED
      BY <2>2, <3>1, Dispatched
  <2>4. CASE NoFrame
    BY <1>1, <2>1, <2>4 DEF NoFrame
  <2>5. CASE \E bytes \in Seq(Byte) : Transmit(bytes, "send")
    BY <1>2, <2>1, <2>5
  <2> QED
    BY <2>3, <2>4, <2>5
<1>4. CASE LoopEnds
  <2>1. ~ Sending /\ UNCHANGED <<pipe, hurt>>
    BY <1>4 DEF LoopEnds, Sending
  <2>2. \/ Transmit(Answer(Code.STREAM_DATA, PowerBytes), "sendStream")
        \/ UNCHANGED <<left, reply, heard>>
    BY <1>4 DEF LoopEnds
  <2>3. Answer(Code.STREAM_DATA, PowerBytes) \in Seq(Byte)
    BY Codes, PowerPayload, AnswerBytes DEF SlaveInv, DevSound, Names
  <2> QED
    BY <1>1, <1>2, <2>1, <2>2, <2>3
<1>5. CASE Write
  <2>1. /\ Sending /\ Sending' /\ left # <<>> /\ pipe' = Append(pipe, Head(left)) /\ left' = Tail(left)
        /\ UNCHANGED <<hurt, reply, heard>>
    BY <1>5 DEF Write, Sending
  <2>2. pipe' \o left' = pipe \o left
    BY <1>0, <2>1, Passed, SMTT(30)
  <2>3. heard \o pipe' \o left' = heard \o pipe \o left
    <3>1. (heard \o pipe') \o left' = heard \o (pipe' \o left')
      <4>1. PICK a \in Seq(Byte), b \in Seq(Byte), c \in Seq(Byte) : a = heard /\ b = pipe' /\ c = left'
        BY <1>0
      <4>2. (a \o b) \o c = a \o (b \o c)
        BY Assoc
      <4> QED
        BY <4>1, <4>2
    <3>3. (heard \o pipe) \o left = heard \o (pipe \o left)
      <4>1. PICK a \in Seq(Byte), b \in Seq(Byte), c \in Seq(Byte) : a = heard /\ b = pipe /\ c = left
        BY <1>0
      <4>2. (a \o b) \o c = a \o (b \o c)
        BY Assoc
      <4> QED
        BY <4>1, <4>2
    <3>2. heard \o (pipe' \o left') = heard \o (pipe \o left)
      BY <2>2, Zenon
    <3> QED
      BY <3>1, <3>2, <3>3, Zenon
  <2> QED
    BY <1>0, <2>1, <2>3 DEF ReplySound
<1>6. CASE Shift
  <2>1. /\ pipe # <<>> /\ pipe' = Tail(pipe)
        /\ heard' = (IF de /\ hurt # "bad" THEN Append(heard, Head(pipe)) ELSE heard)
        /\ UNCHANGED <<hurt, reply, left, at, de>>
    BY <1>6 DEF Shift
  <2>2. Sending /\ Sending' /\ de
    <3>1. Sending
      BY <2>1 DEF ReplySound
    <3>2. at \in {"send", "sendStream"} /\ de = (at \in {"send", "sendStream"})
      BY <3>1 DEF Sending, SlaveInv, LoopSound
    <3>3. de
      <4>1. (at \in {"send", "sendStream"}) = TRUE
        BY <3>2
      <4> QED
        BY <3>2, <4>1
    <3> QED
      BY <2>1, <3>1, <3>3 DEF Sending
  <2>3. Append(heard, Head(pipe)) \o Tail(pipe) = heard \o pipe /\ Append(heard, Head(pipe)) \in Seq(Byte)
    BY <1>0, <2>1, Passed
  <2>4. heard' \in Seq(Byte)
    BY <1>0, <2>1, <2>3
  <2>5. hurt # "bad" => heard' \o pipe' \o left = heard \o pipe \o left
    BY <2>1, <2>2, <2>3
  <2> QED
    BY <1>0, <2>1, <2>2, <2>4, <2>5 DEF ReplySound
<1>7. CASE SendEnds
  <2>1. left = <<>> /\ pipe = <<>> /\ UNCHANGED <<left, pipe, hurt, reply, heard>>
    BY <1>7 DEF SendEnds, Sent
  <2> QED
    BY <2>1 DEF ReplySound
<1>8. CASE StripEnds
  <2>1. ~ Sending /\ UNCHANGED <<left, pipe, hurt, reply, heard>>
    BY <1>8 DEF StripEnds, Sending
  <2> QED
    BY <1>1, <2>1
<1>9. CASE Tick \/ Heats \/ UNCHANGED slaveVars
  <2>1. UNCHANGED <<at, left, pipe, hurt, reply, heard>>
    BY <1>9 DEF Tick, Heats, slaveVars
  <2> QED
    BY <1>1, <2>1 DEF Sending
<1>10. ASSUME NEW f \in BusFrames[app], FrameBegins(f) PROVE ReplySound'
  <2>1. /\ reply' = <<>> /\ heard' = <<>> /\ (hurt' # "bad" => ~ Sending)
        /\ UNCHANGED <<at, left, pipe>>
    BY <1>10 DEF FrameBegins, Forget
  <2>2. hurt' # "bad" => left' = <<>> /\ pipe' = <<>>
    BY <2>1 DEF ReplySound
  <2>3. <<>> \o <<>> \o <<>> = <<>>
    OBVIOUS
  <2> QED
    BY <1>0, <2>1, <2>2, <2>3 DEF ReplySound, Sending
<1>11. CASE ByteArrives
  <2>1. /\ hurt' = "bad" => reply' = <<>> /\ heard' = <<>>
        /\ hurt' # "bad" => hurt # "bad" /\ UNCHANGED <<reply, heard>>
        /\ UNCHANGED <<at, left, pipe>>
    BY <1>11 DEF ByteArrives, Forget
  <2> QED
    BY <1>0, <2>1 DEF ReplySound, Sending
<1>12. CASE StrayByte
  <2>1. hurt' = "bad" /\ reply' = <<>> /\ heard' = <<>> /\ UNCHANGED <<at, left, pipe>>
    BY <1>12 DEF StrayByte, Forget
  <2> QED
    BY <1>0, <2>1 DEF ReplySound, Sending
<1> QED
  BY <1>3, <1>4, <1>5, <1>6, <1>7, <1>8, <1>9, <1>10, <1>11, <1>12 DEF SlaveNext

LEMMA FrameSoundStays ==
  ASSUME FrameSound, UNCHANGED <<rcv, uart, coming, asked, dur, hurt, inTime, did>>
  PROVE  FrameSound'
BY DEF FrameSound, Carrying, Sighting, Carried, DoneRight, NotStalled, Processed, Arrived, WholeAsked

LEMMA WholeFacts ==
  ASSUME SlaveInv
  PROVE  /\ asked \in Frame /\ Len(asked.payload) \in Byte /\ Len(asked.payload) \in Nat
         /\ WholeAsked \in Seq(Byte) /\ Len(WholeAsked) = 5 + Len(asked.payload)
         /\ WholeAsked[1] = Sof /\ WholeAsked[2] = asked.to /\ WholeAsked[3] = asked.cmd /\ WholeAsked[4] = Len(asked.payload)
         /\ \A k \in 1..Len(asked.payload) : WholeAsked[4 + k] = asked.payload[k]
         /\ WholeAsked[5 + Len(asked.payload)] = Crc(Covered(asked.to, asked.cmd, asked.payload))
<1>1. app \in Apps /\ asked \in BusFrames[app]
  BY DEF SlaveInv, DevSound, BusSound
<1>2. asked \in Frame /\ Len(asked.payload) \in Byte /\ Len(asked.payload) \in Nat
  BY <1>1, SlaveFacts, ByteTypes DEF Byte
<1> QED
  BY <1>2, BytesOfFrame DEF WholeAsked

\* A frame with a byte taken for another.
LEMMA Mistaken ==
  ASSUME NEW w \in Seq(Byte), NEW j \in 1..Len(w), NEW v \in Byte
  PROVE  /\ [w EXCEPT ![j] = v] \in Seq(Byte) /\ Len([w EXCEPT ![j] = v]) = Len(w)
         /\ \A k \in 1..Len(w) : [w EXCEPT ![j] = v][k] = IF k = j THEN v ELSE w[k]
OBVIOUS

\* A byte more of a frame.
LEMMA ByteToCome ==
  ASSUME RcvOK(rcv), NEW seen \in Seq(Byte), NEW L \in Nat, NEW n, n = 5 + L, NEW p \in Nat, p < n,
         NEW b \in Byte, b = seen[p + 1], seen[1] = Sof, seen[4] = L,
         ReceivedUpTo(rcv, seen, p, n)
  PROVE  ReceivedUpTo(Received(b), seen, p + 1, n)
<1>1. /\ rcv \in Rcv /\ rcv.buf \in Seq(Byte)
  BY DEF RcvOK, Rcv
<1>2. CASE p = 0
  <2>1. rcv.state = "sof" /\ b = Sof
    BY <1>2 DEF ReceivedUpTo
  <2>2. Received(b).state = "addr"
    BY <2>1 DEF Received, Idle
  <2> QED
    BY <1>2, <2>2 DEF ReceivedUpTo
<1>3. CASE p = 1
  <2>1. rcv.state = "addr" /\ b = seen[2]
    BY <1>3 DEF ReceivedUpTo
  <2>2. Received(b) = [rcv EXCEPT !.addr = b, !.state = "cmd"]
    BY <2>1 DEF Received
  <2>3. Received(b).state = "cmd" /\ Received(b).addr = seen[2]
    BY <1>1, <2>1, <2>2 DEF Rcv
  <2> QED
    BY <1>3, <2>3 DEF ReceivedUpTo
<1>4. CASE p = 2
  <2>1. rcv.state = "cmd" /\ b = seen[3] /\ rcv.addr = seen[2]
    BY <1>4 DEF ReceivedUpTo
  <2>2. Received(b) = [rcv EXCEPT !.cmd = b, !.state = "len"]
    BY <2>1 DEF Received
  <2>3. Received(b).state = "len" /\ Received(b).addr = seen[2] /\ Received(b).cmd = seen[3]
    BY <1>1, <2>1, <2>2 DEF Rcv
  <2> QED
    BY <1>4, <2>3 DEF ReceivedUpTo
<1>5. CASE p = 3
  <2>1. rcv.state = "len" /\ b = seen[4] /\ rcv.addr = seen[2] /\ rcv.cmd = seen[3]
    BY <1>5 DEF ReceivedUpTo
  <2> DEFINE st == IF b = 0 THEN "crc" ELSE "payload"
  <2>2. Received(b) = [rcv EXCEPT !.plen = b, !.buf = <<>>, !.state = st]
    BY <2>1 DEF Received, WithLength
  <2>3. /\ Received(b).addr = seen[2] /\ Received(b).cmd = seen[3] /\ Received(b).plen = seen[4]
        /\ Received(b).buf = <<>> /\ Received(b).state = st
    BY <1>1, <2>1, <2>2 DEF Rcv
  <2>4. Len(Received(b).buf) = 0
    BY <2>3
  <2>5. (n = 5 => Received(b).state = "crc") /\ (n > 5 => Received(b).state = "payload")
    BY <2>1, <2>3
  <2> HIDE DEF st
  <2> QED
    BY <1>5, <2>3, <2>4, <2>5 DEF ReceivedUpTo
<1>6. CASE p \in 4..(n - 2)
  <2>1. /\ rcv.state = "payload" /\ rcv.addr = seen[2] /\ rcv.cmd = seen[3] /\ rcv.plen = L
        /\ Len(rcv.buf) = p - 4 /\ \A k \in 1..(p - 4) : rcv.buf[k] = seen[4 + k]
    BY <1>6, SMTT(30) DEF ReceivedUpTo
  <2> DEFINE st == IF Len(rcv.buf) + 1 >= rcv.plen THEN "crc" ELSE "payload"
             buf == Append(rcv.buf, b)
  <2>2. Received(b) = [rcv EXCEPT !.buf = buf, !.state = st]
    BY <2>1 DEF Received
  <2>3. /\ Received(b).addr = seen[2] /\ Received(b).cmd = seen[3] /\ Received(b).plen = L
        /\ Received(b).buf = buf /\ Received(b).state = st
    BY <1>1, <2>1, <2>2 DEF Rcv
  <2>4. Len(buf) = p - 3 /\ buf[p - 3] = b /\ \A k \in 1..(p - 4) : buf[k] = rcv.buf[k]
    <3>1. PICK x \in Seq(Byte) : x = rcv.buf
      BY <1>1
    <3>2. /\ Len(Append(x, b)) = Len(x) + 1 /\ Append(x, b)[Len(x) + 1] = b
          /\ \A k \in 1..Len(x) : Append(x, b)[k] = x[k]
      OBVIOUS
    <3>3. Len(x) = p - 4 /\ (p - 4) + 1 = p - 3
      BY <1>6, <2>1, <3>1
    <3> QED
      BY <3>1, <3>2, <3>3
  <2>5. (p + 1 = n - 1 => st = "crc") /\ (p + 1 < n - 1 => st = "payload")
    BY <1>6, <2>1
  <2> HIDE DEF st, buf
  <2>6. ASSUME NEW k \in 1..(p + 1 - 4) PROVE buf[k] = seen[4 + k]
    <3>1. CASE k \in 1..(p - 4)
      BY <2>1, <2>4, <3>1
    <3>2. CASE k = p - 3
      <4>1. 4 + k = p + 1
        BY <1>6, <3>2
      <4> QED
        BY <2>4, <3>2, <4>1
    <3> QED
      BY <1>6, <3>1, <3>2
  <2>7. p + 1 \in 5..(n - 1) /\ p + 1 - 4 = p - 3
    BY <1>6
  <2> QED
    BY <2>3, <2>4, <2>5, <2>6, <2>7, SMTT(30) DEF ReceivedUpTo
<1>7. CASE p = n - 1
  <2>1. rcv.state = "crc"
    BY <1>7 DEF ReceivedUpTo
  <2>2. Received(b).state = "sof"
    BY <2>1 DEF Received, Idle
  <2> QED
    BY <1>7, <2>2 DEF ReceivedUpTo
<1> QED
  BY <1>2, <1>3, <1>4, <1>5, <1>6, <1>7

\* What the receiver holds before the CRC.
LEMMA BeforeCrc ==
  ASSUME RcvOK(rcv), NEW seen \in Seq(Byte), NEW L \in Nat, NEW n, n = 5 + L, seen[4] = L, Len(seen) = n,
         ReceivedUpTo(rcv, seen, n - 1, n)
  PROVE  /\ rcv.state = "crc" /\ rcv.addr \in Byte /\ rcv.cmd \in Byte /\ rcv.buf \in Seq(Byte)
         /\ rcv.addr = seen[2] /\ rcv.cmd = seen[3] /\ rcv.plen = L /\ Len(rcv.buf) = L /\ L \in Byte
         /\ \A k \in 1..L : rcv.buf[k] = seen[4 + k]
         /\ <<rcv.addr, rcv.cmd, rcv.plen>> \o rcv.buf = Covered(rcv.addr, rcv.cmd, rcv.buf)
<1>1. rcv \in Rcv
  BY DEF RcvOK
<1>2. rcv.addr \in Byte /\ rcv.cmd \in Byte /\ rcv.buf \in Seq(Byte) /\ rcv.plen \in Byte
  BY <1>1 DEF Rcv
<1>3. /\ rcv.state = "crc" /\ rcv.addr = seen[2] /\ rcv.cmd = seen[3] /\ rcv.plen = seen[4]
      /\ Len(rcv.buf) = n - 1 - 4 /\ \A k \in 1..(n - 1 - 4) : rcv.buf[k] = seen[4 + k]
  <2>1. n - 1 \in 2..(n - 1) /\ n - 1 \in 3..(n - 1) /\ n - 1 \in 4..(n - 1)
    OBVIOUS
  <2> QED
    BY <2>1 DEF ReceivedUpTo
<1>4. n - 1 - 4 = L
  OBVIOUS
<1>5. Len(rcv.buf) = L /\ \A k \in 1..L : rcv.buf[k] = seen[4 + k]
  BY <1>3, <1>4
<1>6. <<rcv.addr, rcv.cmd, rcv.plen>> \o rcv.buf = Covered(rcv.addr, rcv.cmd, rcv.buf)
  BY <1>3, <1>5 DEF Covered
<1> QED
  BY <1>2, <1>3, <1>5, <1>6

\* A frame that arrived whole is what it was, and its CRC is right.
LEMMA Undamaged ==
  ASSUME SlaveInv, ReceivedUpTo(rcv, WholeAsked, Len(WholeAsked) - 1, Len(WholeAsked))
  PROVE  /\ rcv.state = "crc"
         /\ rcv.addr = asked.to /\ rcv.cmd = asked.cmd /\ rcv.buf = asked.payload
         /\ WholeAsked[Len(WholeAsked)] = Crc(<<rcv.addr, rcv.cmd, rcv.plen>> \o rcv.buf)
<1> DEFINE L == Len(asked.payload)
           n == Len(WholeAsked)
<1>1. /\ asked \in Frame /\ L \in Byte /\ L \in Nat
      /\ WholeAsked \in Seq(Byte) /\ n = 5 + L
      /\ WholeAsked[2] = asked.to /\ WholeAsked[3] = asked.cmd /\ WholeAsked[4] = L
      /\ \A k \in 1..L : WholeAsked[4 + k] = asked.payload[k]
      /\ WholeAsked[n] = Crc(Covered(asked.to, asked.cmd, asked.payload))
  BY WholeFacts
<1>2. RcvOK(rcv)
  BY DEF SlaveInv, ReceiverSound
<1>3. asked.payload \in Seq(Byte)
  BY <1>1 DEF Frame
<1> HIDE DEF L
<1>4. /\ rcv.state = "crc" /\ rcv.buf \in Seq(Byte)
      /\ rcv.addr = WholeAsked[2] /\ rcv.cmd = WholeAsked[3] /\ rcv.plen = L /\ Len(rcv.buf) = L
      /\ \A k \in 1..L : rcv.buf[k] = WholeAsked[4 + k]
      /\ <<rcv.addr, rcv.cmd, rcv.plen>> \o rcv.buf = Covered(rcv.addr, rcv.cmd, rcv.buf)
  BY <1>1, <1>2, BeforeCrc
<1>5. rcv.buf = asked.payload
  <2>1. Len(rcv.buf) = Len(asked.payload) /\ \A k \in 1..Len(rcv.buf) : rcv.buf[k] = asked.payload[k]
    BY <1>1, <1>4 DEF L
  <2>2. PICK x \in Seq(Byte), y \in Seq(Byte) : x = rcv.buf /\ y = asked.payload
    BY <1>3, <1>4
  <2>3. x = y
    BY <2>1, <2>2, SeqEqual
  <2> QED
    BY <2>2, <2>3
<1> QED
  BY <1>1, <1>4, <1>5

\* A frame with a byte damaged has a wrong CRC.
LEMMA Damaged ==
  ASSUME SlaveInv, NEW j \in 1..Len(WholeAsked), NEW v \in Byte, v # WholeAsked[j], j \notin {1, 4},
         NEW seen, seen = [WholeAsked EXCEPT ![j] = v],
         ReceivedUpTo(rcv, seen, Len(WholeAsked) - 1, Len(WholeAsked))
  PROVE  seen[Len(WholeAsked)] # Crc(<<rcv.addr, rcv.cmd, rcv.plen>> \o rcv.buf)
<1> DEFINE L == Len(asked.payload)
           n == Len(WholeAsked)
<1>1. /\ asked \in Frame /\ L \in Byte /\ L \in Nat
      /\ WholeAsked \in Seq(Byte) /\ n = 5 + L
      /\ WholeAsked[2] = asked.to /\ WholeAsked[3] = asked.cmd /\ WholeAsked[4] = L
      /\ \A k \in 1..L : WholeAsked[4 + k] = asked.payload[k]
      /\ WholeAsked[n] = Crc(Covered(asked.to, asked.cmd, asked.payload))
  BY WholeFacts
<1>2. RcvOK(rcv)
  BY DEF SlaveInv, ReceiverSound
<1>3. asked.to \in Byte /\ asked.cmd \in Byte /\ asked.payload \in Seq(Byte)
  BY <1>1 DEF Frame
<1>4. seen \in Seq(Byte) /\ Len(seen) = n /\ \A k \in 1..n : seen[k] = IF k = j THEN v ELSE WholeAsked[k]
  BY <1>1, Mistaken
<1> DEFINE s == Covered(rcv.addr, rcv.cmd, rcv.buf)
           t == Covered(asked.to, asked.cmd, asked.payload)
<1>5. IsCovered(t, asked.to, asked.cmd, asked.payload)
  BY <1>1, <1>3, CoveredBytes, Zenon
<1>6. t \in Seq(Byte) /\ Len(t) = 3 + L /\ t[1] = asked.to /\ t[2] = asked.cmd /\ t[3] = L
      /\ \A k \in 1..L : t[3 + k] = asked.payload[k]
  <2> HIDE DEF t
  <2> QED
    BY <1>5 DEF IsCovered
<1> HIDE DEF t
<1>7. WholeAsked[n] = Crc(t)
  BY <1>1 DEF t
<1> HIDE DEF L, n
<1>8. seen[4] = L
  <2>1. 4 \in 1..n
    BY <1>1
  <2> QED
    BY <1>1, <1>4, <2>1
<1>9. /\ rcv.addr \in Byte /\ rcv.cmd \in Byte /\ rcv.buf \in Seq(Byte)
      /\ rcv.addr = seen[2] /\ rcv.cmd = seen[3] /\ Len(rcv.buf) = L
      /\ \A k \in 1..L : rcv.buf[k] = seen[4 + k]
      /\ <<rcv.addr, rcv.cmd, rcv.plen>> \o rcv.buf = s
  <2>1. ReceivedUpTo(rcv, seen, n - 1, n)
    BY DEF n
  <2> QED
    BY <1>1, <1>2, <1>4, <1>8, <2>1, BeforeCrc, ZenonT(30)
<1>10. IsCovered(s, rcv.addr, rcv.cmd, rcv.buf)
  <2>1. Len(rcv.buf) \in Byte
    BY <1>1, <1>9
  <2> QED
    BY <1>9, <2>1, CoveredBytes, Zenon
<1>11. s \in Seq(Byte) /\ Len(s) = 3 + L /\ s[1] = seen[2] /\ s[2] = seen[3] /\ s[3] = L
       /\ \A k \in 1..L : s[3 + k] = seen[4 + k]
  <2> HIDE DEF s
  <2> QED
    BY <1>9, <1>10 DEF IsCovered
<1> HIDE DEF s
<1>12. ASSUME NEW k \in 1..(3 + L) PROVE s[k] = seen[k + 1] /\ t[k] = WholeAsked[k + 1]
  <2>1. CASE k \in {1, 2, 3}
    BY <1>1, <1>6, <1>8, <1>11, <2>1
  <2>2. CASE k > 3
    <3>1. k - 3 \in 1..L /\ 3 + (k - 3) = k /\ 4 + (k - 3) = k + 1
      BY <1>1, <2>2
    <3>2. s[3 + (k - 3)] = seen[4 + (k - 3)]
      BY <1>11, <3>1
    <3>3. t[3 + (k - 3)] = asked.payload[k - 3] /\ WholeAsked[4 + (k - 3)] = asked.payload[k - 3]
      BY <1>1, <1>6, <3>1
    <3> QED
      BY <3>1, <3>2, <3>3
  <2> QED
    BY <1>1, <2>1, <2>2, SMTT(30)
<1>13. CASE j = n
  <2>1. \A k \in 1..(3 + L) : s[k] = t[k]
    <3> SUFFICES ASSUME NEW k \in 1..(3 + L) PROVE s[k] = t[k]
      OBVIOUS
    <3>1. k + 1 \in 1..n /\ k + 1 # n
      BY <1>1
    <3> QED
      BY <1>4, <1>12, <1>13, <3>1
  <2>2. s = t
    BY <1>1, <1>6, <1>11, <2>1, SeqEqual
  <2>3. seen[n] = v /\ v # WholeAsked[n]
    <3>1. n \in 1..n
      BY <1>1
    <3> QED
      BY <1>4, <1>13, <3>1
  <2> QED
    BY <1>7, <1>9, <2>2, <2>3 DEF n
<1>14. CASE j # n
  <2>1. j \in 1..n
    BY DEF n
  <2>2. j - 1 \in 1..(3 + L)
    BY <1>1, <1>14, <2>1
  <2>3. s[j - 1] # t[j - 1]
    <3>1. s[j - 1] = seen[j] /\ t[j - 1] = WholeAsked[j]
      <4>1. (j - 1) + 1 = j
        BY <2>1
      <4> QED
        BY <1>12, <2>2, <4>1
    <3> QED
      BY <1>4, <2>1, <3>1
  <2>4. \A k \in 1..(3 + L) : k # j - 1 => s[k] = t[k]
    <3> SUFFICES ASSUME NEW k \in 1..(3 + L), k # j - 1 PROVE s[k] = t[k]
      OBVIOUS
    <3>1. k + 1 \in 1..n /\ k + 1 # j
      BY <1>1, <2>1
    <3> QED
      BY <1>4, <1>12, <3>1
  <2>5. Crc(s) # Crc(t)
    <3>1. j - 1 \in 1..Len(s) /\ Len(s) = Len(t) /\ \A k \in 1..Len(s) : k # j - 1 => s[k] = t[k]
      BY <1>6, <1>11, <2>2, <2>4
    <3> QED
      BY <1>6, <1>11, <2>3, <3>1, DamageIsNoticed
  <2>6. seen[n] = WholeAsked[n]
    <3>1. n \in 1..n
      BY <1>1
    <3> QED
      BY <1>4, <1>14, <3>1
  <2> QED
    BY <1>7, <1>9, <2>5, <2>6 DEF n
<1> QED
  BY <1>13, <1>14

LEMMA CarriedBytes ==
  ASSUME SlaveInv
  PROVE  /\ uart \in Seq(Byte) /\ coming \in Seq(Byte) /\ Len(uart) \in Nat /\ Len(coming) \in Nat
         /\ Arrived \in Int /\ Processed \in Int /\ Len(WholeAsked) \in Nat /\ Len(WholeAsked) > 4
         /\ Arrived = Len(WholeAsked) - Len(coming) /\ Processed = Arrived - Len(uart)
<1>1. uart \in Seq(Byte) /\ coming \in Seq(Byte)
  BY DEF SlaveInv, BytesHeld, BusSound
<1>2. Len(uart) \in Nat /\ Len(coming) \in Nat
  BY <1>1
<1>3. Len(WholeAsked) = 5 + Len(asked.payload) /\ Len(asked.payload) \in Nat
  BY WholeFacts
<1> QED
  BY <1>1, <1>2, <1>3 DEF Processed, Arrived

\* The receiver takes the next byte.
LEMMA FrameFeedByte ==
  ASSUME SlaveInv, FrameSound, StepSound, FeedByte
  PROVE  FrameSound'
<1> DEFINE n == Len(WholeAsked)
           L == Len(asked.payload)
           b == Head(uart)
<1>1. /\ uart # <<>> /\ uart' = Tail(uart) /\ rcv' = Received(b)
      /\ IF Accepts(b)
           THEN did' = IF hurt = "bad" THEN did
                       ELSE Append(did, [to |-> rcv.addr, cmd |-> rcv.cmd, payload |-> rcv.buf])
           ELSE UNCHANGED did
      /\ UNCHANGED <<coming, asked, dur, hurt, inTime>>
  BY DEF FeedByte
<1>2. SUFFICES ASSUME Carrying
               PROVE  /\ \E j \in 1..n, v \in Byte : Sighting(j, v)'
                      /\ DoneRight' /\ NotStalled'
  <2>1. WholeAsked' = WholeAsked /\ (Carrying' => Carrying)
    BY <1>1 DEF WholeAsked, Carrying
  <2> QED
    BY <2>1 DEF FrameSound
<1>3. PICK j \in 1..n, v \in Byte : Sighting(j, v)
  BY <1>2 DEF FrameSound
<1>4. DoneRight /\ NotStalled
  BY <1>2 DEF FrameSound
<1> DEFINE seen == [WholeAsked EXCEPT ![j] = v]
           p == Processed
<1>5. /\ asked \in Frame /\ L \in Nat /\ WholeAsked \in Seq(Byte) /\ n = 5 + L
      /\ WholeAsked[1] = Sof /\ WholeAsked[4] = L
  BY WholeFacts
<1>6. seen \in Seq(Byte) /\ Len(seen) = n /\ \A k \in 1..n : seen[k] = IF k = j THEN v ELSE WholeAsked[k]
  BY <1>5, Mistaken
<1>7. /\ hurt = "none" => v = WholeAsked[j]
      /\ hurt = "one" => v # WholeAsked[j] /\ j <= Arrived /\ j \notin {1, 4}
      /\ p >= 0 /\ (\A k \in 1..Len(uart) : uart[k] = seen[p + k])
      /\ Len(coming) <= n /\ (\A k \in 1..Len(coming) : coming[k] = WholeAsked[Arrived + k])
      /\ ReceivedUpTo(rcv, seen, p, n)
  BY <1>3 DEF Sighting, Carried
<1>8. hurt \in {"none", "one"}
  BY <1>2 DEF Carrying, StepSound
<1>9. /\ uart \in Seq(Byte) /\ Len(uart) \in Nat /\ Len(coming) \in Nat /\ Arrived \in Int /\ p \in Int
      /\ Arrived = n - Len(coming) /\ p = Arrived - Len(uart)
  BY CarriedBytes
<1>10. /\ b \in Byte /\ Tail(uart) \in Seq(Byte) /\ Len(Tail(uart)) = Len(uart) - 1 /\ Len(uart) \in Nat \ {0}
       /\ b = uart[1] /\ \A k \in 1..(Len(uart) - 1) : Tail(uart)[k] = uart[k + 1]
  BY <1>1, <1>9, HeadAndTail
<1>11. p \in Nat /\ p < n /\ b = seen[p + 1] /\ Arrived <= n
  BY <1>7, <1>9, <1>10
<1>12. /\ WholeAsked' = WholeAsked /\ Arrived' = Arrived
  BY <1>1 DEF WholeAsked, Arrived
<1>13. Processed' = p + 1
  BY <1>1, <1>9, <1>10, <1>12 DEF Processed
<1>14. seen[1] = Sof /\ seen[4] = L
  <2>1. 1 \in 1..n /\ 4 \in 1..n
    BY <1>5
  <2> QED
    BY <1>5, <1>6, <1>7, <1>8, <2>1
<1> HIDE DEF seen, p, b
<1>15. ReceivedUpTo(rcv', seen, p + 1, n)
  <2>1. RcvOK(rcv)
    BY DEF SlaveInv, ReceiverSound
  <2> HIDE DEF L, n
  <2>2. ReceivedUpTo(Received(b), seen, p + 1, n)
    BY <1>5, <1>6, <1>7, <1>10, <1>11, <1>14, <2>1, ByteToCome
  <2> QED
    BY <1>1, <2>2
<1>16. Sighting(j, v)'
  <2>1. /\ hurt' = "none" => v = WholeAsked'[j]
        /\ hurt' = "one" => v # WholeAsked'[j] /\ j <= Arrived' /\ j \notin {1, 4}
    BY <1>1, <1>7, <1>12
  <2>2. \A k \in 1..Len(uart') : uart'[k] = seen[(p + 1) + k]
    <3> SUFFICES ASSUME NEW k \in 1..(Len(uart) - 1) PROVE Tail(uart)[k] = seen[(p + 1) + k]
      BY <1>1, <1>10
    <3>1. Tail(uart)[k] = uart[k + 1] /\ k + 1 \in 1..Len(uart) /\ (p + 1) + k = p + (k + 1)
      BY <1>10, <1>11
    <3> QED
      BY <1>7, <3>1
  <2>3. Len(coming') <= n /\ \A k \in 1..Len(coming') : coming'[k] = WholeAsked'[Arrived' + k]
    BY <1>1, <1>7, <1>12
  <2>4. p + 1 >= 0
    BY <1>11
  <2>5. seen' = seen
    BY <1>12 DEF seen
  <2>6. Carried(seen)'
    <3>1. Processed' >= 0 /\ \A k \in 1..Len(uart') : uart'[k] = seen'[Processed' + k]
      BY <1>13, <2>2, <2>4, <2>5
    <3>2. ReceivedUpTo(rcv', seen', Processed', Len(WholeAsked'))
      BY <1>12, <1>13, <1>15, <2>5, Zenon
    <3> QED
      BY <1>12, <2>3, <3>1, <3>2 DEF Carried
  <2>7. Carried([WholeAsked EXCEPT ![j] = v])'
    BY <2>6 DEF seen
  <2> QED
    BY <2>1, <2>7 DEF Sighting
<1>17. DoneRight'
  <2>1. did = <<>>
    BY <1>4, <1>11 DEF DoneRight, p
  <2>2. CASE p + 1 < n
    <3>1. rcv.state # "crc"
      BY <1>7, <1>11, <2>2 DEF ReceivedUpTo
    <3>2. did' = <<>>
      BY <1>1, <2>1, <3>1 DEF Accepts
    <3>3. Processed' # Len(WholeAsked')
      BY <1>5, <1>11, <1>12, <1>13, <2>2
    <3> QED
      BY <3>2, <3>3 DEF DoneRight
  <2>3. CASE p + 1 = n
    <3>1. p = n - 1 /\ Arrived = n /\ b = seen[n]
      BY <1>5, <1>9, <1>10, <1>11, <2>3
    <3>2. Processed' = Len(WholeAsked')
      BY <1>12, <1>13, <2>3
    <3>3. ReceivedUpTo(rcv, seen, n - 1, n)
      BY <1>7, <3>1
    <3>4. CASE hurt = "none"
      <4>1. seen = WholeAsked
        <5>1. v = WholeAsked[j]
          BY <1>7, <3>4
        <5> QED
          BY <1>5, <5>1 DEF seen
      <4>2. /\ rcv.state = "crc"
            /\ rcv.addr = asked.to /\ rcv.cmd = asked.cmd /\ rcv.buf = asked.payload
            /\ b = Crc(<<rcv.addr, rcv.cmd, rcv.plen>> \o rcv.buf)
        BY <3>1, <3>3, <4>1, Undamaged
      <4>3. Accepts(b) <=> asked.to \in {Me, Everyone}
        BY <4>2 DEF Accepts
      <4>4. [to |-> rcv.addr, cmd |-> rcv.cmd, payload |-> rcv.buf] = asked
        BY <1>5, <4>2 DEF Frame
      <4>5. did' = IF asked.to \in {Me, Everyone} THEN <<asked>> ELSE <<>>
        BY <1>1, <2>1, <3>4, <4>3, <4>4
      <4> QED
        BY <1>1, <3>2, <3>4, <4>5 DEF DoneRight
    <3>5. CASE hurt = "one"
      <4>1. v # WholeAsked[j] /\ j \notin {1, 4}
        BY <1>7, <3>5
      <4>2. b # Crc(<<rcv.addr, rcv.cmd, rcv.plen>> \o rcv.buf)
        BY <3>1, <3>3, <4>1, Damaged DEF seen
      <4>3. did' = <<>>
        BY <1>1, <2>1, <4>2 DEF Accepts
      <4> QED
        BY <1>1, <3>5, <4>3 DEF DoneRight
    <3> QED
      BY <1>8, <3>4, <3>5
  <2> QED
    BY <1>5, <1>11, <2>2, <2>3
<1>18. NotStalled'
  <2>1. RcvOK(rcv)
    BY DEF SlaveInv, ReceiverSound
  <2>2. rcv'.age \in {0, rcv.age}
    BY <1>1, <2>1, AgeWhenReceived
  <2>3. dur \in 0..MaxDur /\ MaxDur \in Nat
    BY AgeOf, MoreFacts
  <2>4. CASE rcv.state # "sof"
    BY <1>1, <1>4, <2>2, <2>3, <2>4 DEF NotStalled
  <2>5. CASE rcv.state = "sof"
    <3>1. rcv'.state # "sof" => rcv'.age = 0
      <4>1. Received(b) = IF b = Sof THEN [Idle EXCEPT !.state = "addr"] ELSE rcv
        BY <2>5 DEF Received
      <4> QED
        BY <1>1, <2>5, <4>1 DEF Idle
    <3> QED
      BY <2>3, <1>1, <3>1 DEF NotStalled
  <2> QED
    BY <2>4, <2>5
<1> QED
  BY <1>16, <1>17, <1>18

\* A receiver that is in step when a frame begins waits for its SOF.
LEMMA InStep ==
  ASSUME SlaveInv, FrameSound, StepSound, StallSound, coming = <<>>, uart = <<>>,
         step \/ (rest = Stall /\ looped)
  PROVE  rcv.state = "sof"
<1>1. CASE rest = Stall /\ looped
  <2>1. rcv.age \in 0..Stall /\ Stall \in Nat
    BY AgeOf, MoreFacts
  <2>2. rcv.state = "sof" \/ rcv.age < Stall
    BY <1>1 DEF StallSound
  <2>3. rcv.state # "sof" => rest <= rcv.age
    BY DEF StallSound
  <2> QED
    BY <1>1, <2>1, <2>2, <2>3
<1>2. CASE step /\ hurt = "bad"
  BY <1>2 DEF StepSound
<1>3. CASE step /\ hurt # "bad"
  <2>1. Carrying
    BY <1>3 DEF StepSound, Carrying
  <2>2. PICK j \in 1..Len(WholeAsked), v \in Byte : Sighting(j, v)
    BY <2>1 DEF FrameSound
  <2>3. ReceivedUpTo(rcv, [WholeAsked EXCEPT ![j] = v], Processed, Len(WholeAsked))
    BY <2>2 DEF Sighting, Carried
  <2>4. Len(coming) = 0 /\ Len(uart) = 0
    OBVIOUS
  <2>5. Processed = Len(WholeAsked)
    BY <2>4, CarriedBytes
  <2> HIDE DEF Processed
  <2>6. Processed \in {0, Len(WholeAsked)}
    BY <2>5
  <2> QED
    BY <2>3, <2>6 DEF ReceivedUpTo
<1> QED
  BY <1>1, <1>2, <1>3

LEMMA FrameFrameBegins ==
  ASSUME SlaveInv, FrameSound, StepSound, StallSound, NEW f \in BusFrames[app], FrameBegins(f)
  PROVE  FrameSound'
<1> DEFINE whole == Bytes(f)
           n == Len(whole)
<1>1. /\ coming = <<>> /\ asked' = f /\ coming' = whole /\ dur' = 0 /\ did' = <<>>
      /\ inTime' = (step \/ (rest = Stall /\ looped))
      /\ hurt' = IF Sending \/ uart # <<>> THEN "bad" ELSE "none"
      /\ UNCHANGED <<rcv, uart>>
  BY DEF FrameBegins, Forget
<1>2. SUFFICES ASSUME Carrying'
               PROVE  /\ \E j \in 1..Len(whole), v \in Byte : Sighting(j, v)'
                      /\ DoneRight' /\ NotStalled'
  <2>1. WholeAsked' = whole
    BY <1>1 DEF WholeAsked
  <2> QED
    BY <2>1 DEF FrameSound
<1>3. inTime' /\ hurt' # "bad"
  BY <1>2 DEF Carrying
<1>4. uart = <<>> /\ hurt' = "none" /\ Len(uart) = 0
  BY <1>1, <1>3
<1>5. rcv.state = "sof"
  BY <1>1, <1>3, <1>4, InStep
<1>6. /\ whole \in Seq(Byte) /\ n \in Nat /\ n > 4 /\ whole[1] = Sof /\ Sof \in Byte
  <2>1. f \in Frame /\ Len(f.payload) \in Byte
    BY BusFrameBytes DEF SlaveInv, DevSound
  <2>2. Len(f.payload) \in Nat
    BY <2>1, ByteTypes DEF Byte
  <2> QED
    BY <2>1, <2>2, BytesOfFrame, ByteTypes
<1> HIDE DEF whole, n
<1>7. WholeAsked' = whole /\ Arrived' = 0 /\ Processed' = 0
  <2>1. WholeAsked' = whole
    BY <1>1 DEF WholeAsked, whole
  <2>2. Arrived' = 0
    BY <1>1, <1>6, <2>1 DEF Arrived, n
  <2>3. Len(uart') = 0
    BY <1>1, <1>4
  <2>4. Processed' = Arrived' - Len(uart')
    BY DEF Processed
  <2> QED
    BY <2>1, <2>2, <2>3, <2>4
<1>8. Sighting(1, Sof)'
  <2>1. [whole EXCEPT ![1] = Sof] = whole
    BY <1>6
  <2>2. Carried([WholeAsked EXCEPT ![1] = Sof])'
    <3>1. Processed' >= 0 /\ \A k \in 1..Len(uart') : uart'[k] = whole[Processed' + k]
      BY <1>1, <1>4, <1>7
    <3>2. Len(coming') <= Len(WholeAsked') /\ \A k \in 1..Len(coming') : coming'[k] = WholeAsked'[Arrived' + k]
      BY <1>1, <1>6, <1>7 DEF n
    <3>3. ReceivedUpTo(rcv', whole, 0, n)
      BY <1>1, <1>5, <1>6 DEF ReceivedUpTo
    <3>4. [WholeAsked' EXCEPT ![1] = Sof] = whole
      BY <1>7, <2>1
    <3>5. ReceivedUpTo(rcv', [WholeAsked' EXCEPT ![1] = Sof], Processed', Len(WholeAsked'))
      BY <1>7, <3>3, <3>4, Zenon DEF n
    <3> QED
      BY <3>1, <3>2, <3>4, <3>5 DEF Carried
  <2>3. hurt' = "none" => Sof = WholeAsked'[1]
    BY <1>6, <1>7
  <2> QED
    BY <1>4, <2>2, <2>3 DEF Sighting
<1>9. DoneRight'
  <2>1. Processed' # Len(WholeAsked')
    BY <1>6, <1>7 DEF n
  <2> QED
    BY <1>1, <2>1 DEF DoneRight
<1>10. NotStalled'
  BY <1>1, <1>5 DEF NotStalled
<1> QED
  <2>1. 1 \in 1..Len(whole)
    BY <1>6 DEF n
  <2> QED
    BY <1>6, <1>8, <1>9, <1>10, <2>1

LEMMA FrameLoopEnds ==
  ASSUME SlaveInv, FrameSound, StallSound, LoopEnds
  PROVE  FrameSound'
<1>1. rcv' = Unstalled /\ UNCHANGED <<uart, coming, asked, dur, hurt, inTime, did>>
  BY DEF LoopEnds
<1>2. CASE ~ Carrying
  BY <1>1, <1>2 DEF FrameSound, Carrying
<1>3. CASE Carrying
  <2>1. rcv.age \in 0..Stall /\ Stall \in Nat /\ Stall > 0 /\ MaxDur \in Nat /\ MaxDur < Stall
    BY AgeOf, MoreFacts
  <2>2. rcv.state = "sof" => rcv.age = 0
    BY DEF StallSound
  <2>3. rcv.state # "sof" => rcv.age <= MaxDur
    BY <1>3 DEF FrameSound, NotStalled
  <2>4. rcv.age < Stall
    BY <2>1, <2>2, <2>3
  <2>5. rcv' = rcv
    BY <1>1, <2>1, <2>4 DEF Unstalled
  <2> QED
    BY <1>1, <2>5, FrameSoundStays
<1> QED
  BY <1>2, <1>3

\* The receiver's age alone changes with the time.
LEMMA FrameTick ==
  ASSUME SlaveInv, FrameSound, StallSound, Tick
  PROVE  FrameSound'
<1>1. /\ looped = TRUE
      /\ IF coming = <<>> THEN dur' = 0 ELSE dur < MaxDur /\ dur' = dur + 1
      /\ rcv' = (IF rcv.state = "sof" THEN rcv ELSE [rcv EXCEPT !.age = Aged(@, Stall)])
      /\ UNCHANGED <<uart, coming, asked, hurt, inTime, did>>
  BY DEF Tick, SlaveInv, LoopSound
<1>2. SUFFICES ASSUME Carrying
               PROVE  /\ \E j \in 1..Len(WholeAsked), v \in Byte : Sighting(j, v)'
                      /\ DoneRight' /\ NotStalled'
  <2>1. WholeAsked' = WholeAsked /\ (Carrying' => Carrying)
    BY <1>1 DEF WholeAsked, Carrying
  <2> QED
    BY <2>1 DEF FrameSound
<1>3. PICK j \in 1..Len(WholeAsked), v \in Byte : Sighting(j, v)
  BY <1>2 DEF FrameSound
<1>4. DoneRight /\ NotStalled
  BY <1>2 DEF FrameSound
<1>5. WholeAsked' = WholeAsked /\ Arrived' = Arrived /\ Processed' = Processed
  BY <1>1 DEF WholeAsked, Arrived, Processed
<1>6. /\ rcv.age \in 0..Stall /\ Stall \in Nat /\ dur \in 0..MaxDur /\ MaxDur \in Nat /\ MaxDur < Stall
      /\ rcv \in Rcv
  BY AgeOf, MoreFacts DEF SlaveInv, ReceiverSound, RcvOK
<1>7. /\ UNCHANGED <<rcv.state, rcv.addr, rcv.cmd, rcv.plen, rcv.buf>>
      /\ rcv'.age = IF rcv.state = "sof" THEN rcv.age ELSE Aged(rcv.age, Stall)
  <2>1. CASE rcv.state = "sof"
    BY <1>1, <2>1
  <2>2. CASE rcv.state # "sof"
    <3>1. rcv' = [rcv EXCEPT !.age = Aged(rcv.age, Stall)]
      BY <1>1, <2>2
    <3> QED
      BY <1>6, <2>2, <3>1 DEF Rcv
  <2> QED
    BY <2>1, <2>2
<1>8. Sighting(j, v)'
  <2> DEFINE seen == [WholeAsked EXCEPT ![j] = v]
  <2>1. seen' = seen
    BY <1>5
  <2>2. /\ hurt = "none" => v = WholeAsked[j]
        /\ hurt = "one" => v # WholeAsked[j] /\ j <= Arrived /\ j \notin {1, 4}
        /\ Carried(seen)
    BY <1>3 DEF Sighting
  <2> HIDE DEF seen
  <2>3. ReceivedUpTo(rcv', seen, Processed, Len(WholeAsked))
    <3>1. ReceivedUpTo(rcv, seen, Processed, Len(WholeAsked))
      BY <2>2 DEF Carried
    <3> QED
      BY <1>7, <3>1 DEF ReceivedUpTo
  <2>4. ReceivedUpTo(rcv', seen', Processed', Len(WholeAsked'))
    BY <1>5, <2>1, <2>3, Zenon
  <2>5. Carried(seen)'
    BY <1>1, <1>5, <2>1, <2>2, <2>4 DEF Carried
  <2>6. Carried([WholeAsked EXCEPT ![j] = v])'
    BY <2>5 DEF seen
  <2> QED
    BY <1>1, <1>5, <2>2, <2>6 DEF Sighting
<1>9. DoneRight'
  BY <1>1, <1>4, <1>5 DEF DoneRight
<1>10. NotStalled'
  <2>1. CASE rcv.state = "sof"
    BY <1>7, <2>1 DEF NotStalled
  <2>2. CASE coming # <<>>
    <3>1. rcv'.age <= rcv.age + 1
      BY <1>6, <1>7 DEF Aged
    <3>2. dur' = dur + 1 /\ dur < MaxDur
      BY <1>1, <2>2
    <3>3. rcv.state # "sof" => rcv.age <= dur
      BY <1>4, <2>2 DEF NotStalled
    <3>4. rcv'.age \in Int
      BY <1>6, <1>7 DEF Aged
    <3>5. rcv.state # "sof" => rcv'.age <= dur' /\ rcv'.age <= MaxDur
      BY <1>6, <3>1, <3>2, <3>3, <3>4
    <3> QED
      BY <1>7, <3>5 DEF NotStalled
  <2>3. CASE coming = <<>>
    <3>1. uart = <<>>
      <4>1. uart # <<>> => looped = FALSE
        BY DEF StallSound
      <4> QED
        BY <1>1, <4>1
    <3>2. Len(coming) = 0 /\ Len(uart) = 0
      BY <2>3, <3>1
    <3>3. Processed \in {0, Len(WholeAsked)}
      BY <3>2, CarriedBytes
    <3>4. rcv.state = "sof"
      <4>1. ReceivedUpTo(rcv, [WholeAsked EXCEPT ![j] = v], Processed, Len(WholeAsked))
        BY <1>3 DEF Sighting, Carried
      <4> QED
        BY <3>3, <4>1 DEF ReceivedUpTo
    <3> QED
      BY <2>1, <3>4
  <2> QED
    BY <2>2, <2>3
<1> QED
  BY <1>8, <1>9, <1>10

\* The bytes that a UART holds when one more arrives.
LEMMA OneMore ==
  ASSUME NEW held \in Seq(Byte), NEW b \in Byte, NEW seen, NEW p \in Int,
         \A k \in 1..Len(held) : held[k] = seen[p + k], b = seen[p + Len(held) + 1]
  PROVE  \A k \in 1..Len(Append(held, b)) : Append(held, b)[k] = seen[p + k]
<1>1. Len(Append(held, b)) = Len(held) + 1 /\ Append(held, b)[Len(held) + 1] = b
      /\ \A k \in 1..Len(held) : Append(held, b)[k] = held[k]
  OBVIOUS
<1>2. ASSUME NEW k \in 1..(Len(held) + 1) PROVE Append(held, b)[k] = seen[p + k]
  <2>1. CASE k \in 1..Len(held)
    BY <1>1, <2>1
  <2>2. CASE k = Len(held) + 1
    <3>1. p + k = p + Len(held) + 1
      BY <2>2
    <3> QED
      BY <1>1, <2>2, <3>1
  <2> QED
    BY <2>1, <2>2
<1> QED
  BY <1>1, <1>2

\* The receiver has not yet seen the bytes after the p-th.
LEMMA NotSeenYet ==
  ASSUME NEW r, NEW seen, NEW other, NEW p \in Nat, NEW n \in Nat, p < n, ReceivedUpTo(r, seen, p, n),
         \A k \in 1..p : other[k] = seen[k]
  PROVE  ReceivedUpTo(r, other, p, n)
<1>1. p \in 2..(n - 1) => 2 \in 1..p
  OBVIOUS
<1>2. p \in 3..(n - 1) => 3 \in 1..p
  OBVIOUS
<1>3. p \in 4..(n - 1) => 4 \in 1..p /\ \A k \in 1..(p - 4) : 4 + k \in 1..p
  OBVIOUS
<1> QED
  BY <1>1, <1>2, <1>3 DEF ReceivedUpTo

\* The byte b that arrives is the next one of the frame with w for its i-th, which
\* is what has arrived of it with v for the j-th.
Continues(b, i, w, j, v) ==
  /\ b = [WholeAsked EXCEPT ![i] = w][Arrived + 1]
  /\ \A k \in 1..Len(WholeAsked) : k <= Arrived => [WholeAsked EXCEPT ![i] = w][k] = [WholeAsked EXCEPT ![j] = v][k]

\* A byte more arrives, whole or damaged.
LEMMA FrameGrows ==
  ASSUME SlaveInv, FrameSound, Carrying, coming # <<>>,
         NEW j \in 1..Len(WholeAsked), NEW v \in Byte, Sighting(j, v),
         NEW i \in 1..Len(WholeAsked), NEW w \in Byte, NEW b \in Byte,
         coming' = Tail(coming), uart' = Append(uart, b), rcv' = rcv, asked' = asked, did' = did, dur' = dur,
         inTime' = inTime, hurt' \in {"none", "one"},
         hurt' = "none" => hurt = "none",
         hurt' = "none" => w = WholeAsked[i],
         hurt' = "one" => w # WholeAsked[i] /\ i <= Arrived + 1 /\ i \notin {1, 4},
         Continues(b, i, w, j, v)
  PROVE  FrameSound'
<1> DEFINE n == Len(WholeAsked)
           L == Len(asked.payload)
           p == Processed
           old == [WholeAsked EXCEPT ![j] = v]
           new == [WholeAsked EXCEPT ![i] = w]
<1>1. DoneRight /\ NotStalled
  BY DEF FrameSound
<1>2. /\ uart \in Seq(Byte) /\ coming \in Seq(Byte) /\ Len(uart) \in Nat /\ Len(coming) \in Nat
      /\ Arrived \in Int /\ p \in Int /\ n \in Nat /\ n > 4
      /\ Arrived = n - Len(coming) /\ p = Arrived - Len(uart)
  BY CarriedBytes
<1>3. /\ p >= 0 /\ (\A k \in 1..Len(uart) : uart[k] = old[p + k])
      /\ Len(coming) <= n /\ (\A k \in 1..Len(coming) : coming[k] = WholeAsked[Arrived + k])
      /\ ReceivedUpTo(rcv, old, p, n)
  BY DEF Sighting, Carried
<1>4. /\ Len(Tail(coming)) = Len(coming) - 1 /\ Len(coming) \in Nat \ {0}
      /\ \A k \in 1..(Len(coming) - 1) : Tail(coming)[k] = coming[k + 1]
  BY <1>2, HeadAndTail
<1>5. Len(Append(uart, b)) = Len(uart) + 1
  BY <1>2
<1>6. WholeAsked' = WholeAsked
  BY DEF WholeAsked
<1>7. Arrived' = Arrived + 1
  <2>1. Arrived' = Len(WholeAsked') - Len(coming')
    BY DEF Arrived
  <2> QED
    BY <1>2, <1>4, <1>6, <2>1
<1>8. Processed' = p
  <2>1. Processed' = Arrived' - Len(uart')
    BY DEF Processed
  <2> QED
    BY <1>2, <1>5, <1>7, <2>1
<1>9. p \in Nat /\ p < n /\ p <= Arrived /\ Arrived < n
  BY <1>2, <1>3, <1>4
<1>10. new' = new
  BY <1>6
<1>11. \A k \in 1..n : k <= Arrived => new[k] = old[k]
  BY Zenon DEF Continues
<1>12. b = new[Arrived + 1]
  BY Zenon DEF Continues
<1> HIDE DEF old, new, p, L, n
<1>13. Carried(new)'
  <2>1. \A k \in 1..Len(uart) : uart[k] = new[p + k]
    <3> SUFFICES ASSUME NEW k \in 1..Len(uart) PROVE uart[k] = new[p + k]
      OBVIOUS
    <3>1. p + k \in 1..n /\ p + k <= Arrived
      BY <1>2, <1>9
    <3> QED
      BY <1>3, <1>11, <3>1
  <2>2. b = new[p + Len(uart) + 1]
    <3>1. p + Len(uart) + 1 = Arrived + 1
      BY <1>2
    <3> QED
      BY <1>12, <3>1
  <2>3. \A k \in 1..Len(Append(uart, b)) : Append(uart, b)[k] = new[p + k]
    <3>1. PICK held \in Seq(Byte) : held = uart
      BY <1>2
    <3>2. PICK q \in Int : q = p
      BY <1>2
    <3>3. PICK s : s = new
      OBVIOUS
    <3>4. (\A k \in 1..Len(held) : held[k] = s[q + k]) /\ b = s[q + Len(held) + 1]
      BY <2>1, <2>2, <3>1, <3>2, <3>3
    <3>5. \A k \in 1..Len(Append(held, b)) : Append(held, b)[k] = s[q + k]
      BY <3>1, <3>2, <3>4, OneMore
    <3> QED
      BY <3>1, <3>2, <3>3, <3>5
  <2>4. Len(coming') <= n /\ \A k \in 1..Len(coming') : coming'[k] = WholeAsked[Arrived + 1 + k]
    <3>1. Len(coming') = Len(coming) - 1 /\ Len(coming') <= n
      BY <1>2, <1>3, <1>4
    <3>2. ASSUME NEW k \in 1..(Len(coming) - 1) PROVE coming'[k] = WholeAsked[Arrived + 1 + k]
      <4>1. coming'[k] = coming[k + 1] /\ k + 1 \in 1..Len(coming) /\ Arrived + (k + 1) = Arrived + 1 + k
        BY <1>2, <1>4
      <4> QED
        BY <1>3, <4>1
    <3> QED
      BY <3>1, <3>2
  <2>5. ReceivedUpTo(rcv, new, p, n)
    <3>1. ASSUME NEW k \in 1..p PROVE new[k] = old[k]
      <4>1. k \in 1..n /\ k <= Arrived
        BY <1>2, <1>9
      <4> QED
        BY <1>11, <4>1
    <3>2. n \in Nat
      BY <1>2
    <3> QED
      BY <1>3, <1>9, <3>1, <3>2, NotSeenYet
  <2>6. Processed' >= 0 /\ \A k \in 1..Len(uart') : uart'[k] = new'[Processed' + k]
    BY <1>8, <1>9, <1>10, <2>3
  <2>7. Len(coming') <= Len(WholeAsked') /\ \A k \in 1..Len(coming') : coming'[k] = WholeAsked'[Arrived' + k]
    BY <1>6, <1>7, <2>4 DEF n
  <2>8. ReceivedUpTo(rcv', new', Processed', Len(WholeAsked'))
    <3>1. Len(WholeAsked') = n /\ rcv' = rcv
      BY <1>6 DEF n
    <3> QED
      BY <1>8, <1>10, <2>5, <3>1, Zenon
  <2> QED
    BY <2>6, <2>7, <2>8 DEF Carried
<1>14. Carried([WholeAsked EXCEPT ![i] = w])'
  BY <1>13 DEF new
<1>15. Sighting(i, w)'
  <2>1. hurt' = "none" => w = WholeAsked'[i]
    BY <1>6
  <2>2. hurt' = "one" => w # WholeAsked'[i] /\ i <= Arrived' /\ i \notin {1, 4}
    BY <1>6, <1>7
  <2> QED
    BY <1>14, <2>1, <2>2 DEF Sighting
<1>16. DoneRight'
  <2>1. Processed # Len(WholeAsked) /\ Processed' # Len(WholeAsked')
    <3>1. p # n
      BY <1>2, <1>9
    <3> QED
      BY <1>6, <1>8, <3>1 DEF p, n
  <2> QED
    BY <1>1, <2>1 DEF DoneRight
<1>17. NotStalled'
  BY <1>1 DEF NotStalled
<1>18. i \in 1..Len(WholeAsked')
  BY <1>6
<1> QED
  BY <1>15, <1>16, <1>17, <1>18 DEF FrameSound

LEMMA FrameByteArrives ==
  ASSUME SlaveInv, FrameSound, StepSound, ByteArrives
  PROVE  FrameSound'
<1>1. /\ coming # <<>> /\ coming' = Tail(coming)
      /\ hurt' # "bad" => did' = did
      /\ UNCHANGED <<rcv, asked, dur, inTime>>
  BY DEF ByteArrives
<1>2. SUFFICES ASSUME Carrying' PROVE FrameSound'
  BY DEF FrameSound
<1>3. inTime /\ hurt' # "bad" /\ hurt # "bad" /\ hurt \in {"none", "one"} /\ did' = did
  <2>1. inTime' /\ hurt' # "bad"
    BY <1>2 DEF Carrying
  <2>2. hurt' = hurt \/ hurt' = IF KeepsBounds /\ hurt = "none" THEN "one" ELSE "bad"
    BY <2>1 DEF ByteArrives
  <2> QED
    BY <1>1, <2>1, <2>2 DEF StepSound
<1>4. Carrying
  BY <1>3 DEF Carrying
<1>5. PICK j \in 1..Len(WholeAsked), v \in Byte : Sighting(j, v)
  BY <1>4 DEF FrameSound
<1>6. /\ hurt = "none" => v = WholeAsked[j]
      /\ hurt = "one" => v # WholeAsked[j] /\ j <= Arrived /\ j \notin {1, 4}
      /\ \A k \in 1..Len(coming) : coming[k] = WholeAsked[Arrived + k]
      /\ Processed >= 0
  BY <1>5 DEF Sighting, Carried
<1>7. /\ uart \in Seq(Byte) /\ coming \in Seq(Byte) /\ Len(uart) \in Nat /\ Len(coming) \in Nat
      /\ Arrived \in Int /\ Processed \in Int /\ Len(WholeAsked) \in Nat
      /\ Arrived = Len(WholeAsked) - Len(coming) /\ Processed = Arrived - Len(uart)
  BY CarriedBytes
<1>8. WholeAsked \in Seq(Byte)
  BY WholeFacts
<1>9. /\ Head(coming) \in Byte /\ Head(coming) = coming[1] /\ Len(coming) \in Nat \ {0}
  BY <1>1, <1>7, HeadAndTail
<1>10. Head(coming) = WholeAsked[Arrived + 1] /\ Arrived + 1 \in 1..Len(WholeAsked) /\ Arrived \in Nat
  <2>1. 1 \in 1..Len(coming)
    BY <1>9
  <2>2. coming[1] = WholeAsked[Arrived + 1]
    BY <1>6, <2>1
  <2> QED
    BY <1>6, <1>7, <1>9, <2>2
<1>11. CASE hurt' = hurt /\ uart' = Append(uart, Head(coming))
  <2>1. Head(coming) = [WholeAsked EXCEPT ![j] = v][Arrived + 1]
    <3>1. CASE hurt = "none"
      BY <1>6, <1>8, <1>10, <3>1
    <3>2. CASE hurt = "one"
      <4>1. j # Arrived + 1
        BY <1>6, <1>10, <3>2
      <4> QED
        BY <1>8, <1>10, <4>1
    <3> QED
      BY <1>3, <3>1, <3>2
  <2>2. hurt' = "one" => v # WholeAsked[j] /\ j <= Arrived + 1 /\ j \notin {1, 4}
    BY <1>6, <1>10, <1>11
  <2>3. /\ hurt' \in {"none", "one"} /\ (hurt' = "none" => hurt = "none") /\ (hurt' = "none" => v = WholeAsked[j])
    BY <1>3, <1>6, <1>11
  <2> QED
    <3>1. Continues(Head(coming), j, v, j, v)
      BY <2>1, Zenon DEF Continues
    <3> QED
      BY <1>1, <1>3, <1>4, <1>5, <1>9, <1>11, <2>2, <2>3, <3>1, FrameGrows
<1>12. ASSUME hurt' = IF KeepsBounds /\ hurt = "none" THEN "one" ELSE "bad",
              NEW e \in Errors, uart' = Append(uart, XorByte(Head(coming), e))
       PROVE  FrameSound'
  <2>1. KeepsBounds /\ hurt = "none" /\ hurt' = "one"
    BY <1>3, <1>12
  <2> DEFINE i == Arrived + 1
             w == XorByte(Head(coming), e)
  <2>2. w \in Byte /\ w # WholeAsked[i]
    <3>1. e \in Byte /\ e # 0
      BY MoreFacts
    <3> QED
      BY <1>9, <1>10, <3>1, XorFacts
  <2>3. i \notin {1, 4}
    <3>1. Arrived \notin {0, 3}
      BY <2>1 DEF KeepsBounds, Arrived, WholeAsked
    <3> QED
      BY <1>10, <3>1
  <2>4. i \in 1..Len(WholeAsked) /\ i <= Arrived + 1 /\ uart' = Append(uart, w)
    BY <1>10, <1>12
  <2> HIDE DEF w
  <2>5. w = [WholeAsked EXCEPT ![i] = w][Arrived + 1]
    BY <1>8, <2>2, <2>4
  <2>6. v = WholeAsked[j]
    BY <1>6, <2>1
  <2>7. ASSUME NEW k \in 1..Len(WholeAsked), k <= Arrived
        PROVE  [WholeAsked EXCEPT ![i] = w][k] = [WholeAsked EXCEPT ![j] = v][k]
    <3>1. k # i
      BY <1>10, <2>7
    <3> QED
      BY <1>8, <2>6, <3>1
  <2>8. /\ hurt' \in {"none", "one"} /\ hurt' # "none"
    BY <2>1
  <2> HIDE DEF i
  <2>9. Continues(w, i, w, j, v)
    BY <2>5, <2>7, Zenon DEF Continues
  <2> QED
    BY <1>1, <1>3, <1>4, <1>5, <2>2, <2>3, <2>4, <2>8, <2>9, FrameGrows
<1> QED
  <2>1. \/ hurt' = hurt /\ uart' = Append(uart, Head(coming))
        \/ /\ \E e \in Errors : uart' = Append(uart, XorByte(Head(coming), e))
           /\ hurt' = IF KeepsBounds /\ hurt = "none" THEN "one" ELSE "bad"
    BY <1>3 DEF ByteArrives, Arrives
  <2> QED
    BY <1>11, <1>12, <2>1

LEMMA FrameSoundStep ==
  ASSUME SlaveInv, FrameSound, StepSound, StallSound, [SlaveNext]_slaveVars
  PROVE  FrameSound'
<1>1. CASE FeedByte
  BY <1>1, FrameFeedByte
<1>2. CASE LoopEnds
  BY <1>2, FrameLoopEnds
<1>3. CASE Tick
  BY <1>3, FrameTick
<1>4. CASE ByteArrives
  BY <1>4, FrameByteArrives
<1>5. ASSUME NEW f \in BusFrames[app], FrameBegins(f) PROVE FrameSound'
  BY <1>5, FrameFrameBegins
<1>6. CASE StrayByte
  <2>1. hurt' = "bad"
    BY <1>6 DEF StrayByte
  <2> QED
    BY <2>1 DEF FrameSound, Carrying
<1>7. CASE Write \/ Shift \/ SendEnds \/ StripEnds \/ Heats \/ UNCHANGED slaveVars
  <2>1. UNCHANGED <<rcv, uart, coming, asked, dur, hurt, inTime, did>>
    BY <1>7 DEF Write, Shift, SendEnds, StripEnds, Heats, slaveVars
  <2> QED
    BY <2>1, FrameSoundStays
<1> QED
  BY <1>1, <1>2, <1>3, <1>4, <1>5, <1>6, <1>7 DEF SlaveNext

LEMMA FrameInvIsInvariant == SlaveSpec => []FrameInv
<1>1. SlaveInit => FrameInv
  <2> SUFFICES ASSUME SlaveInit PROVE FrameInv
    OBVIOUS
  <2>1. /\ rcv = Idle /\ at = "drain" /\ uart = <<>> /\ left = <<>> /\ pipe = <<>> /\ coming = <<>>
        /\ rest = 0 /\ looped = FALSE /\ hurt = "bad" /\ inTime = TRUE /\ step = TRUE
        /\ did = <<>> /\ reply = <<>> /\ heard = <<>>
    BY DEF SlaveInit
  <2>2. FrameSound /\ StepSound
    BY <2>1 DEF FrameSound, StepSound, Carrying, Idle
  <2>3. StallSound /\ ReplySound
    BY <2>1 DEF StallSound, ReplySound, Idle, Sending
  <2> QED
    BY <2>2, <2>3 DEF FrameInv
<1>2. SlaveInv /\ SlaveInv' /\ FrameInv /\ [SlaveNext]_slaveVars => FrameInv'
  BY FrameSoundStep, StepSoundStep, StallSoundStep, ReplySoundStep DEF FrameInv
<1> QED
  BY <1>1, <1>2, SlaveInvIsInvariant, PTL DEF SlaveSpec

LEMMA InvFrame ==
  ASSUME SlaveInv, FrameInv
  PROVE  FrameTaken
<1> SUFFICES ASSUME coming = <<>>, uart = <<>>, ~ Sending, inTime, hurt # "bad"
             PROVE  /\ hurt = "none" => /\ did = IF asked.to \in {Me, Everyone} THEN <<asked>> ELSE <<>>
                                        /\ heard = reply
                    /\ hurt = "one" => did = <<>>
  BY DEF FrameTaken
<1>1. DoneRight
  BY DEF FrameInv, FrameSound, Carrying
<1>2. Processed = Len(WholeAsked)
  <2>1. Len(coming) = 0 /\ Len(uart) = 0
    OBVIOUS
  <2> QED
    BY <2>1, CarriedBytes
<1>3. heard = reply
  <2>1. heard \in Seq(Byte) /\ pipe = <<>> /\ left = <<>> /\ reply = heard \o pipe \o left
    BY DEF FrameInv, ReplySound
  <2>2. heard \o <<>> \o <<>> = heard
    BY <2>1
  <2> QED
    BY <2>1, <2>2
<1> QED
  BY <1>1, <1>2, <1>3 DEF DoneRight

\* A frame that arrives whole at a peripheral that is in step is carried out once
\* or, when it is for another, not at all, what is answered leaves to the last
\* byte, and a frame with one byte of its address, command, payload or CRC damaged is
\* never carried out: the CRC of two frames of one length that differ in one byte
\* differs.  It says nothing of a frame whose SOF or length is damaged: one that is
\* cut short where its length was made less may pass the CRC and be dispatched.
THEOREM FramesAreTaken == SlaveSpec => []FrameTaken
BY SlaveInvIsInvariant, FrameInvIsInvariant, InvFrame, PTL


-----------------------------------------------------------------------------
(* The emulator: the types of its devices and of what they answer. *)

EmuSpec == EmuInit /\ [][EmuNext]_emuVars

Device == [addr: Byte, enabled: BOOLEAN, stream_on: BOOLEAN, interval: Word, due: Word,
           int_pending: BOOLEAN, val: [Fields -> Nat]]

DeviceOK(d) ==
  /\ d \in Device /\ d.due <= d.interval /\ (d.stream_on => d.interval >= MinInterval)
  /\ \A f \in Fields : d.val[f] < Size(f)

EmuNames == {"PING", "PONG", "SET_OUTPUT", "GET_STATUS", "STATUS", "SET_PARAM", "GET_PARAM", "PARAM_VAL",
             "STREAM_ON", "STREAM_OFF", "STREAM_DATA", "ERROR"}

\* The codes of the commands are different bytes.
LEMMA EmuCodes ==
  /\ \A name \in EmuNames : Code[name] \in Byte
  /\ \A a, b \in EmuNames : Code[a] = Code[b] => a = b
BY Rs485FrameAssumption, EmulatorAssumption DEF EmuNames

\* A word holds more than a byte does.
LEMMA Squares ==
  ASSUME NEW M \in Nat, M >= 8
  PROVE  M * M \in Nat /\ M * M >= M
OBVIOUS

\* How many values a field has.
LEMMA SizeFacts ==
  ASSUME NEW f \in Fields
  PROVE  /\ Size(f) \in Nat /\ Size(f) >= Base /\ Size(f) <= Base * Base
         /\ f \notin Words => Size(f) = Base
         /\ f \in Words => Size(f) = Base * Base
<1>1. Base \in Nat /\ Base >= 8
  BY Rs485FrameAssumption
<1>2. Base * Base \in Nat /\ Base * Base >= Base
  BY <1>1, Squares
<1> QED
  BY <1>1, <1>2 DEF Size

\* A device with some fields set to a value that they can hold.
LEMMA WithSound ==
  ASSUME NEW d, DeviceOK(d), NEW fs \in SUBSET Fields, NEW v \in Nat, \A f \in fs : v < Size(f)
  PROVE  DeviceOK(With(d, fs, v)) /\ With(d, fs, v).addr = d.addr /\ With(d, fs, v).enabled = d.enabled
<1> DEFINE val == [f \in Fields |-> IF f \in fs THEN v ELSE d.val[f]]
           w == [d EXCEPT !.val = val]
<1>1. With(d, fs, v) = w
  BY DEF With
<1>2. d \in Device /\ d.due <= d.interval /\ (d.stream_on => d.interval >= MinInterval)
      /\ d.val \in [Fields -> Nat] /\ \A f \in Fields : d.val[f] < Size(f)
  BY DEF DeviceOK, Device
<1>3. val \in [Fields -> Nat] /\ \A f \in Fields : val[f] < Size(f)
  BY <1>2
<1> HIDE DEF val
<1>4. /\ w \in Device /\ w.due = d.due /\ w.interval = d.interval /\ w.stream_on = d.stream_on
      /\ w.addr = d.addr /\ w.enabled = d.enabled /\ w.val = val
  BY <1>2, <1>3 DEF Device
<1> HIDE DEF w
<1> QED
  BY <1>1, <1>2, <1>3, <1>4 DEF DeviceOK

\* SET_OUTPUT writes bytes, SET_PARAM writes words, the command line writes both.
LEMMA FieldSets ==
  /\ \A a, c : OutputFields(a, c) \in SUBSET (Fields \ Words)
  /\ \A a, c : ParamFields(a, c) \in SUBSET Words /\ Words \subseteq Fields
  /\ \A a : SetFields(a) \in SUBSET Fields
<1>1. ASSUME NEW a, NEW c PROVE OutputFields(a, c) \in SUBSET (Fields \ Words)
  BY DEF OutputFields, Fields, Words
<1>2. ASSUME NEW a, NEW c PROVE ParamFields(a, c) \in SUBSET Words
  BY DEF ParamFields, Words
<1>3. Words \subseteq Fields
  BY DEF Words, Fields
<1>4. ASSUME NEW a PROVE SetFields(a) \in SUBSET Fields
  BY DEF SetFields, Fields
<1> QED
  BY <1>1, <1>2, <1>3, <1>4

\* A device that begins to stream.
LEMMA Streaming ==
  ASSUME NEW d, DeviceOK(d), NEW n \in Word, n >= MinInterval
  PROVE  /\ DeviceOK([d EXCEPT !.stream_on = TRUE, !.interval = n, !.due = n])
         /\ [d EXCEPT !.stream_on = TRUE, !.interval = n, !.due = n].addr = d.addr
         /\ [d EXCEPT !.stream_on = TRUE, !.interval = n, !.due = n].enabled = d.enabled
<1> DEFINE w == [d EXCEPT !.stream_on = TRUE, !.interval = n, !.due = n]
<1>1. d \in Device /\ \A f \in Fields : d.val[f] < Size(f)
  BY DEF DeviceOK
<1>2. w \in Device /\ w.due = n /\ w.interval = n /\ w.val = d.val /\ w.addr = d.addr /\ w.enabled = d.enabled
  BY <1>1 DEF Device
<1>3. n <= n
  BY DEF Word
<1> HIDE DEF w
<1>4. DeviceOK(w)
  BY <1>1, <1>2, <1>3 DEF DeviceOK
<1> QED
  BY <1>2, <1>4 DEF w

LEMMA CommandedSound ==
  ASSUME NEW d, DeviceOK(d), NEW cmd \in Byte, NEW p \in Seq(Byte)
  PROVE  DeviceOK(Commanded(d, cmd, p)) /\ Commanded(d, cmd, p).addr = d.addr
         /\ Commanded(d, cmd, p).enabled = d.enabled
<1> DEFINE Good(w) == DeviceOK(w) /\ w.addr = d.addr /\ w.enabled = d.enabled
<1>0. Code.SET_OUTPUT # Code.SET_PARAM /\ Code.SET_OUTPUT # Code.STREAM_ON /\ Code.SET_OUTPUT # Code.STREAM_OFF
      /\ Code.SET_PARAM # Code.STREAM_ON /\ Code.SET_PARAM # Code.STREAM_OFF /\ Code.STREAM_ON # Code.STREAM_OFF
  BY EmuCodes DEF EmuNames
<1>01. Base \in Nat /\ Base >= 8 /\ Byte \subseteq Nat /\ \A b \in Byte : b < Base
  BY ByteTypes DEF Byte
<1>1. CASE cmd = Code.SET_OUTPUT /\ Len(p) >= 2
  <2>1. Commanded(d, cmd, p) = HandleSetOutput(d, p[1], p[2])
    BY <1>0, <1>1 DEF Commanded
  <2>2. p[1] \in Byte /\ p[2] \in Byte /\ p[2] \in Nat /\ p[2] < Base
    BY <1>1, <1>01
  <2> DEFINE e == IF d.addr = 3 THEN With(d, {"pt_moving"}, 1) ELSE d
  <2>3. Good(e)
    <3>1. CASE d.addr = 3
      <4>1. {"pt_moving"} \in SUBSET Fields /\ \A f \in {"pt_moving"} : 1 < Size(f)
        <5>1. "pt_moving" \in Fields
          BY DEF Fields
        <5>2. Size("pt_moving") \in Nat /\ Size("pt_moving") >= Base
          BY <5>1, SizeFacts
        <5> QED
          BY <5>1, <5>2, <1>01
      <4> QED
        BY <3>1, <4>1, WithSound
    <3>2. CASE d.addr # 3
      BY <3>2
    <3> QED
      BY <3>1, <3>2
  <2>4. HandleSetOutput(d, p[1], p[2]) = With(e, OutputFields(d.addr, p[1]), p[2])
    BY DEF HandleSetOutput
  <2> HIDE DEF e
  <2>5. OutputFields(d.addr, p[1]) \in SUBSET Fields /\ \A f \in OutputFields(d.addr, p[1]) : p[2] < Size(f)
    <3>1. OutputFields(d.addr, p[1]) \in SUBSET Fields
      BY FieldSets
    <3>2. ASSUME NEW f \in OutputFields(d.addr, p[1]) PROVE p[2] < Size(f)
      <4>1. Size(f) \in Nat /\ Size(f) >= Base
        BY <3>1, SizeFacts
      <4> QED
        BY <4>1, <2>2, <1>01
    <3> QED
      BY <3>1, <3>2
  <2>6. Good(With(e, OutputFields(d.addr, p[1]), p[2]))
    BY <2>2, <2>3, <2>5, WithSound
  <2> QED
    BY <2>1, <2>4, <2>6
<1>2. CASE cmd = Code.SET_PARAM /\ Len(p) >= 3
  <2> DEFINE v == p[2] + p[3] * Base
  <2>1. Commanded(d, cmd, p) = With(d, ParamFields(d.addr, p[1]), v)
    BY <1>0, <1>2 DEF Commanded, HandleSetParam
  <2>2. v \in Nat /\ v < Base * Base
    <3>1. p[2] \in Byte /\ p[3] \in Byte
      BY <1>2
    <3>2. v \in 0..(Base * Base - 1)
      BY <3>1, WordOfBytes DEF Word
    <3>3. Base * Base \in Nat
      BY <1>01, Squares
    <3> QED
      BY <3>2, <3>3
  <2> HIDE DEF v
  <2>3. ParamFields(d.addr, p[1]) \in SUBSET Fields
    BY FieldSets
  <2>4. ASSUME NEW f \in ParamFields(d.addr, p[1]) PROVE v < Size(f)
    <3>1. f \in Fields /\ f \in Words
      BY FieldSets
    <3> QED
      BY <3>1, <2>2, SizeFacts
  <2> QED
    BY <2>1, <2>2, <2>3, <2>4, WithSound
<1>3. CASE cmd = Code.STREAM_ON /\ Len(p) >= 2
  <2> DEFINE n == p[1] + p[2] * Base
             interval == IF n < MinInterval THEN MinInterval ELSE n
  <2>1. Commanded(d, cmd, p) = [d EXCEPT !.stream_on = TRUE, !.interval = interval, !.due = interval]
    BY <1>0, <1>3 DEF Commanded
  <2>2. n \in Word /\ MinInterval \in Word
    <3>1. p[1] \in Byte /\ p[2] \in Byte
      BY <1>3
    <3> QED
      BY <3>1, WordOfBytes, EmulatorAssumption DEF Word
  <2>3. interval \in Word /\ interval >= MinInterval
    <3> HIDE DEF n
    <3>1. n \in Int /\ MinInterval \in Int
      BY <2>2 DEF Word
    <3> QED
      BY <2>2, <3>1
  <2> HIDE DEF interval, n
  <2>4. Good([d EXCEPT !.stream_on = TRUE, !.interval = interval, !.due = interval])
    BY <2>3, Streaming
  <2> QED
    BY <2>1, <2>4
<1>4. CASE cmd = Code.STREAM_OFF
  <2> DEFINE w == [d EXCEPT !.stream_on = FALSE]
  <2>1. Commanded(d, cmd, p) = w
    BY <1>0, <1>4 DEF Commanded
  <2>2. d \in Device /\ d.due <= d.interval /\ \A f \in Fields : d.val[f] < Size(f)
    BY DEF DeviceOK
  <2>3. /\ w \in Device /\ w.due = d.due /\ w.interval = d.interval /\ w.stream_on = FALSE /\ w.val = d.val
        /\ w.addr = d.addr /\ w.enabled = d.enabled
    BY <2>2 DEF Device
  <2> HIDE DEF w
  <2> QED
    BY <2>1, <2>2, <2>3 DEF DeviceOK
<1>5. CASE /\ ~ (cmd = Code.SET_OUTPUT /\ Len(p) >= 2) /\ ~ (cmd = Code.SET_PARAM /\ Len(p) >= 3)
           /\ ~ (cmd = Code.STREAM_ON /\ Len(p) >= 2) /\ cmd # Code.STREAM_OFF
  <2>1. Commanded(d, cmd, p) = d
    BY <1>5 DEF Commanded
  <2> QED
    BY <2>1
<1> QED
  BY <1>1, <1>2, <1>3, <1>4, <1>5

\* What is sent.
DeviceFrame == {f \in [from: Byte, cmd: Byte, payload: Seq(Byte)] : Len(f.payload) <= 8}

LEMMA Answering ==
  ASSUME NEW a \in Byte, NEW c \in Byte, NEW p \in Seq(Byte), Len(p) <= 8
  PROVE  [from |-> a, cmd |-> c, payload |-> p] \in DeviceFrame
BY DEF DeviceFrame

LEMMA FieldBytes ==
  ASSUME NEW d, DeviceOK(d), NEW f \in Fields
  PROVE  /\ d.val[f] \in Nat /\ d.val[f] \in Word /\ d.val[f] % Base \in Byte /\ d.val[f] \div Base \in Byte
         /\ f \notin Words => d.val[f] \in Byte
<1>1. d.val[f] \in Nat /\ d.val[f] < Size(f)
  BY DEF DeviceOK, Device
<1>2. /\ Size(f) \in Nat /\ Size(f) <= Base * Base /\ (f \notin Words => Size(f) = Base)
      /\ Base \in Nat /\ Base * Base \in Nat
  BY SizeFacts, ByteTypes, Squares
<1>3. d.val[f] \in 0..(Base * Base - 1)
  <2>1. \A x, y, z \in Nat : x < y /\ y <= z => x \in 0..(z - 1)
    OBVIOUS
  <2> QED
    BY <1>1, <1>2, <2>1
<1>4. f \notin Words => d.val[f] \in 0..(Base - 1)
  BY <1>1, <1>2
<1>5. d.val[f] \in Word
  BY <1>3 DEF Word
<1> QED
  BY <1>1, <1>4, <1>5, BytesOfWord DEF Byte

\* What a device reports is made of bytes.
LEMMA StatusSound ==
  ASSUME NEW d, DeviceOK(d)
  PROVE  StatusOf(d) \in Seq(Byte) /\ Len(StatusOf(d)) <= 8
<1> DEFINE fs == StatusFields(d.addr)
           s == [k \in DOMAIN fs |-> d.val[fs[k]] % Base]
           t == IF d.addr = 4 THEN WordOf(d.val["lb_color_rgb565"]) ELSE <<>>
<1>1. fs \in Seq(Fields) /\ Len(fs) <= 3
  <2>1. {"sl_brightness", "sl_temp_c", "sl_faults", "rd_mode", "rd_range_max_m", "rd_sample_rate_hz",
         "pt_pan_deg", "pt_tilt_deg", "pt_moving", "lb_brightness", "lb_mode"} \subseteq Fields
    BY DEF Fields
  <2>2. CASE d.addr = 1
    BY <2>1, <2>2 DEF StatusFields
  <2>3. CASE d.addr = 2
    BY <2>1, <2>3 DEF StatusFields
  <2>4. CASE d.addr = 3
    BY <2>1, <2>4 DEF StatusFields
  <2>5. CASE d.addr = 4
    BY <2>1, <2>5 DEF StatusFields
  <2>6. CASE d.addr \notin {1, 2, 3, 4}
    BY <2>6 DEF StatusFields
  <2> QED
    BY <2>2, <2>3, <2>4, <2>5, <2>6
<1>2. s \in Seq(Byte) /\ Len(s) <= 3
  <2> HIDE DEF fs
  <2>1. PICK x \in Seq(Fields) : x = fs
    BY <1>1
  <2>2. \A k \in DOMAIN x : d.val[x[k]] % Base \in Byte
    <3>1. ASSUME NEW k \in DOMAIN x PROVE d.val[x[k]] % Base \in Byte
      <4>1. x[k] \in Fields
        OBVIOUS
      <4> QED
        BY <4>1, FieldBytes
    <3> QED
      BY <3>1
  <2>3. DOMAIN x = 1..Len(x) /\ Len(x) \in Nat
    OBVIOUS
  <2>4. s \in [1..Len(x) -> Byte]
    BY <2>1, <2>2, <2>3
  <2>5. s \in Seq(Byte) /\ Len(s) = Len(x)
    <3> HIDE DEF s
    <3> QED
      BY <2>3, <2>4
  <2> QED
    BY <1>1, <2>1, <2>5
<1>3. t \in Seq(Byte) /\ Len(t) <= 2
  <2>1. "lb_color_rgb565" \in Fields
    BY DEF Fields
  <2>2. d.val["lb_color_rgb565"] % Base \in Byte /\ d.val["lb_color_rgb565"] \div Base \in Byte
    BY <2>1, FieldBytes
  <2> QED
    BY <2>2 DEF WordOf
<1>4. StatusOf(d) = s \o t
  BY DEF StatusOf
<1> HIDE DEF s, t
<1>5. s \o t \in Seq(Byte) /\ Len(s \o t) = Len(s) + Len(t)
  BY <1>2, <1>3
<1>6. Len(s) \in Nat /\ Len(t) \in Nat
  BY <1>2, <1>3
<1> QED
  BY <1>2, <1>3, <1>4, <1>5, <1>6

Replies == {<<>>} \cup {<<f>> : f \in DeviceFrame}

\* Whether a command has the parameters that its answer needs.
Enough(cmd, p) == Len(p) >= CASE cmd = Code.SET_PARAM -> 3
                              [] cmd = Code.GET_PARAM -> 1
                              [] OTHER                -> 0

\* A device answers a command with one frame or none; one that wants a payload, only when it has it.
LEMMA ReplyOfSound ==
  ASSUME NEW d, DeviceOK(d), NEW cmd \in Byte, NEW p \in Seq(Byte)
  PROVE  IF Enough(cmd, p) THEN \E f \in DeviceFrame : f.from = d.addr /\ ReplyOf(d, cmd, p) = <<f>>
                           ELSE ReplyOf(d, cmd, p) = <<>>
<1> DEFINE OneFrame(c, q) == <<[from |-> d.addr, cmd |-> c, payload |-> q]>>
           Good(r) == \E f \in DeviceFrame : f.from = d.addr /\ r = <<f>>
           Asks == {Code.GET_STATUS, Code.SET_OUTPUT, Code.STREAM_ON, Code.STREAM_OFF}
<1>0. /\ Code.PING \notin Asks /\ Code.PING # Code.SET_PARAM /\ Code.PING # Code.GET_PARAM
      /\ Code.SET_PARAM \notin Asks /\ Code.GET_PARAM \notin Asks /\ Code.SET_PARAM # Code.GET_PARAM
      /\ Code.PONG \in Byte /\ Code.STATUS \in Byte /\ Code.PARAM_VAL \in Byte /\ Code.ERROR \in Byte
  BY EmuCodes DEF EmuNames
<1>1. d.addr \in Byte
  BY DEF DeviceOK, Device
<1>2. ASSUME NEW c \in Byte, NEW q \in Seq(Byte), Len(q) <= 8 PROVE Good(OneFrame(c, q))
  <2>1. [from |-> d.addr, cmd |-> c, payload |-> q] \in DeviceFrame
    BY <1>1, <1>2, Answering
  <2> QED
    BY <2>1
<1>3. Len(p) \in Nat /\ Version \in Byte /\ 1 \in Byte
  BY EmulatorAssumption, ByteTypes DEF Byte
<1>4. CASE cmd = Code.PING
  <2>1. ReplyOf(d, cmd, p) = OneFrame(Code.PONG, <<Version>>)
    BY <1>0, <1>4 DEF ReplyOf
  <2>2. Enough(cmd, p)
    BY <1>0, <1>3, <1>4 DEF Enough
  <2>3. <<Version>> \in Seq(Byte) /\ Len(<<Version>>) <= 8
    BY <1>3
  <2> QED
    BY <1>0, <1>2, <2>1, <2>2, <2>3
<1>5. CASE cmd \in Asks
  <2>1. ReplyOf(d, cmd, p) = OneFrame(Code.STATUS, StatusOf(d))
    BY <1>0, <1>5 DEF ReplyOf
  <2>2. Enough(cmd, p)
    BY <1>0, <1>3, <1>5 DEF Enough
  <2> QED
    BY <1>0, <1>2, <2>1, <2>2, StatusSound
<1>6. CASE cmd = Code.SET_PARAM
  <2>1. ReplyOf(d, cmd, p) = IF Len(p) >= 3 THEN OneFrame(Code.PARAM_VAL, SubSeq(p, 1, 3)) ELSE <<>>
    BY <1>0, <1>6 DEF ReplyOf
  <2>2. Enough(cmd, p) <=> Len(p) >= 3
    BY <1>0, <1>3, <1>6 DEF Enough
  <2>3. Len(p) >= 3 => SubSeq(p, 1, 3) \in Seq(Byte) /\ Len(SubSeq(p, 1, 3)) <= 8
    BY <1>3
  <2> QED
    BY <1>0, <1>2, <2>1, <2>2, <2>3
<1>7. CASE cmd = Code.GET_PARAM
  <2> DEFINE v == HandleGetParam(d, p[1])
             q == <<p[1]>> \o WordOf(v)
  <2>1. ReplyOf(d, cmd, p) = IF Len(p) >= 1 THEN OneFrame(Code.PARAM_VAL, q) ELSE <<>>
    BY <1>0, <1>7 DEF ReplyOf
  <2>2. Enough(cmd, p) <=> Len(p) >= 1
    BY <1>0, <1>3, <1>7 DEF Enough
  <2>3. v \in Word
    <3>1. CASE ParamFields(d.addr, p[1]) = {}
      BY <3>1, WordsAreNumbers DEF HandleGetParam
    <3>2. CASE ParamFields(d.addr, p[1]) # {}
      <4>1. PICK f : f \in ParamFields(d.addr, p[1]) /\ v = d.val[f]
        BY <3>2 DEF HandleGetParam
      <4>2. f \in Fields
        BY <4>1, FieldSets
      <4> QED
        BY <4>1, <4>2, FieldBytes
    <3> QED
      BY <3>1, <3>2
  <2> HIDE DEF v
  <2>4. Len(p) >= 1 => q \in Seq(Byte) /\ Len(q) <= 8
    <3>1. Len(p) >= 1 => p[1] \in Byte
      BY <1>3
    <3>2. v % Base \in Byte /\ v \div Base \in Byte
      BY <2>3, BytesOfWord
    <3> QED
      BY <3>1, <3>2 DEF WordOf
  <2> HIDE DEF q
  <2> QED
    BY <1>0, <1>2, <2>1, <2>2, <2>4
<1>8. CASE cmd # Code.PING /\ cmd \notin Asks /\ cmd # Code.SET_PARAM /\ cmd # Code.GET_PARAM
  <2>1. ReplyOf(d, cmd, p) = OneFrame(Code.ERROR, <<1>>)
    BY <1>8 DEF ReplyOf
  <2>2. Enough(cmd, p)
    BY <1>3, <1>8 DEF Enough
  <2>3. <<1>> \in Seq(Byte) /\ Len(<<1>>) <= 8
    BY <1>3
  <2> QED
    BY <1>0, <1>2, <2>1, <2>2, <2>3
<1> QED
  BY <1>4, <1>5, <1>6, <1>7, <1>8

\* What a device streams is made of bytes.
LEMMA StreamSound ==
  ASSUME NEW d, DeviceOK(d)
  PROVE  StreamOf(d) \in DeviceFrame
<1>1. d.addr \in Byte
  BY DEF DeviceOK, Device
<1>2. Code.STREAM_DATA \in Byte /\ Code.STATUS \in Byte
  BY EmuCodes DEF EmuNames
<1>3. {"rd_distance_mm", "rd_signal", "rd_status", "lb_brightness"} \subseteq Fields /\ "rd_signal" \notin Words
      /\ "rd_status" \notin Words
  BY DEF Fields, Words
<1>4. CASE d.addr = 2
  <2> DEFINE q == WordOf(d.val["rd_distance_mm"]) \o <<d.val["rd_signal"], d.val["rd_status"]>>
  <2>1. StreamOf(d) = [from |-> d.addr, cmd |-> Code.STREAM_DATA, payload |-> q]
    BY <1>4 DEF StreamOf
  <2>2. d.val["rd_distance_mm"] % Base \in Byte /\ d.val["rd_distance_mm"] \div Base \in Byte
        /\ d.val["rd_signal"] \in Byte /\ d.val["rd_status"] \in Byte
    BY <1>3, FieldBytes
  <2>3. q \in Seq(Byte) /\ Len(q) <= 8
    BY <2>2 DEF WordOf
  <2> HIDE DEF q
  <2> QED
    BY <1>1, <1>2, <2>1, <2>3, Answering
<1>5. CASE d.addr = 4
  <2> DEFINE v == (d.val["lb_brightness"] * 47) % (Base * Base)
             q == WordOf(v)
  <2>1. StreamOf(d) = [from |-> d.addr, cmd |-> Code.STREAM_DATA, payload |-> q]
    BY <1>5 DEF StreamOf
  <2>2. d.val["lb_brightness"] \in Nat
    BY <1>3, FieldBytes
  <2>3. v \in Word
    <3>1. Base * Base \in Nat /\ Base * Base > 0
      BY ByteTypes, Squares
    <3>2. \A x, m \in Nat : m > 0 => (x * 47) % m \in 0..(m - 1)
      OBVIOUS
    <3> QED
      BY <2>2, <3>1, <3>2 DEF Word
  <2> HIDE DEF v
  <2>4. v % Base \in Byte /\ v \div Base \in Byte
    BY <2>3, BytesOfWord
  <2>5. q \in Seq(Byte) /\ Len(q) <= 8
    BY <2>4 DEF WordOf
  <2> HIDE DEF q
  <2> QED
    BY <1>1, <1>2, <2>1, <2>5, Answering
<1>6. CASE d.addr \notin {2, 4}
  <2>1. StreamOf(d) = [from |-> d.addr, cmd |-> Code.STATUS, payload |-> StatusOf(d)]
    BY <1>6 DEF StreamOf
  <2> QED
    BY <1>1, <1>2, <2>1, StatusSound, Answering
<1> QED
  BY <1>4, <1>5, <1>6

-----------------------------------------------------------------------------
(* The emulator keeps its types. *)

DevicesSound == devs \in [Slots -> Device] /\ \A i \in Slots : DeviceOK(devs[i])

Parser == [st: {"sof", "addr", "cmd", "len", "pay", "crc"}, addr: Byte, cmd: Byte, len: Byte, buf: Seq(Byte)]

\* A parser, which keeps nothing between two frames.
ParserOK(p) ==
  /\ p \in Parser /\ Len(p.buf) <= p.len
  /\ p.st = "pay" => Len(p.buf) < p.len
  /\ p.st = "sof" => p = NotParsing

EmuSound ==
  /\ DevicesSound
  /\ ParserOK(parser)
  /\ fifo \in Seq(Byte) /\ Len(fifo) <= Fifo /\ line \in Seq(Byte)
  /\ age \in 0..(Silence + 1) /\ lag \in 0..MaxLag /\ calm \in 0..(Silence + MaxLag + 1)
  /\ astray \in 0..MaxAstray /\ drain \in BOOLEAN /\ pinLow \in BOOLEAN
  /\ todo \subseteq Slots /\ (drain => todo = {})
  /\ sends \in Replies

\* These types are those of EmuTypeOK.
LEMMA EmuTypes == EmuSound => EmuTypeOK
<1> SUFFICES ASSUME EmuSound PROVE EmuTypeOK
  OBVIOUS
<1>1. ASSUME NEW i \in Slots
      PROVE  /\ devs[i].addr \in Byte /\ {devs[i].enabled, devs[i].stream_on, devs[i].int_pending} \subseteq BOOLEAN
             /\ devs[i].interval \in 0..(Base * Base - 1) /\ devs[i].due \in 0..devs[i].interval
             /\ \A f \in Fields : devs[i].val[f] \in 0..(Size(f) - 1)
             /\ devs[i].stream_on => devs[i].interval >= MinInterval
  <2>1. DeviceOK(devs[i])
    BY DEF EmuSound, DevicesSound
  <2>2. /\ devs[i].addr \in Byte /\ devs[i].enabled \in BOOLEAN /\ devs[i].stream_on \in BOOLEAN
        /\ devs[i].int_pending \in BOOLEAN /\ devs[i].interval \in Word /\ devs[i].due \in Word
        /\ devs[i].due <= devs[i].interval /\ (devs[i].stream_on => devs[i].interval >= MinInterval)
    BY <2>1 DEF DeviceOK, Device
  <2>3. devs[i].due \in 0..devs[i].interval
    BY <2>2 DEF Word
  <2>4. ASSUME NEW f \in Fields PROVE devs[i].val[f] \in 0..(Size(f) - 1)
    <3>1. devs[i].val[f] \in Nat /\ devs[i].val[f] < Size(f)
      BY <2>1 DEF DeviceOK, Device
    <3>2. Size(f) \in Nat
      BY SizeFacts
    <3> QED
      BY <3>1, <3>2
  <2> QED
    BY <2>2, <2>3, <2>4 DEF Word
<1>2. ParserOK(parser)
  BY DEF EmuSound
<1>3. /\ parser.st \in {"sof", "addr", "cmd", "len", "pay", "crc"}
      /\ {parser.addr, parser.cmd, parser.len} \subseteq Byte
      /\ parser.buf \in Seq(Byte) /\ Len(parser.buf) <= parser.len
  BY <1>2 DEF ParserOK, Parser
<1>4. Len(sends) <= 1 /\ \A k \in DOMAIN sends : sends[k].payload \in Seq(Byte) /\ Len(sends[k].payload) <= 8
  <2>1. CASE sends = <<>>
    BY <2>1
  <2>2. CASE sends # <<>>
    <3>1. PICK f \in DeviceFrame : sends = <<f>>
      BY <2>2 DEF EmuSound, Replies
    <3> QED
      BY <3>1 DEF DeviceFrame
  <2> QED
    BY <2>1, <2>2
<1> QED
  BY <1>1, <1>3, <1>4 DEF EmuSound, EmuTypeOK

LEMMA EmuFacts ==
  /\ Silence \in Nat /\ MaxLag \in Nat /\ Silence >= 2 * MaxLag + 1 /\ MaxAstray \in Nat /\ MaxAstray > 0
  /\ Fifo \in Nat /\ Fifo > 0 /\ MinInterval \in Word
  /\ \A q \in Queries : q \in Frame /\ q.payload \in Seq(Byte) /\ Len(q.payload) \in Byte
  /\ Slots \subseteq Nat
BY EmulatorAssumption DEF Slots, Frame, Word

\* A byte leaves a parser a parser.
LEMMA ParsedSound ==
  ASSUME NEW p, ParserOK(p), NEW b \in Byte
  PROVE  ParserOK(Parsed(p, b))
<1>1. /\ p \in Parser /\ Len(p.buf) <= p.len /\ (p.st = "pay" => Len(p.buf) < p.len)
      /\ p.buf \in Seq(Byte) /\ p.len \in Byte
  BY DEF ParserOK, Parser
<1>2. 0 \in Byte /\ Byte \subseteq Nat
  BY ByteTypes DEF Byte
<1>3. ParserOK(NotParsing)
  BY <1>2 DEF ParserOK, Parser, NotParsing
<1>4. CASE p.st = "sof"
  <2>1. CASE b = Sof
    <3>1. Parsed(p, b) = [st |-> "addr", addr |-> 0, cmd |-> 0, len |-> 0, buf |-> <<>>]
      BY <1>4, <2>1 DEF Parsed, NotParsing
    <3> QED
      BY <1>2, <3>1 DEF ParserOK, Parser
  <2>2. CASE b # Sof
    BY <1>4, <2>2 DEF Parsed
  <2> QED
    BY <2>1, <2>2
<1>5. CASE p.st = "addr"
  <2>1. Parsed(p, b) = [p EXCEPT !.addr = b, !.st = "cmd"]
    BY <1>5 DEF Parsed
  <2> QED
    BY <1>1, <2>1 DEF ParserOK, Parser
<1>6. CASE p.st = "cmd"
  <2>1. Parsed(p, b) = [p EXCEPT !.cmd = b, !.st = "len"]
    BY <1>6 DEF Parsed
  <2> QED
    BY <1>1, <2>1 DEF ParserOK, Parser
<1>7. CASE p.st = "len"
  <2> DEFINE st == IF b = 0 THEN "crc" ELSE "pay"
  <2>1. Parsed(p, b) = [p EXCEPT !.len = b, !.buf = <<>>, !.st = st]
    BY <1>7 DEF Parsed
  <2>2. st \in {"crc", "pay"} /\ (st = "pay" => 0 < b) /\ 0 <= b
    BY <1>2
  <2> HIDE DEF st
  <2> DEFINE r == [p EXCEPT !.len = b, !.buf = <<>>, !.st = st]
  <2>0. <<>> \in Seq(Byte) /\ st \in {"sof", "addr", "cmd", "len", "pay", "crc"}
    BY <2>2
  <2>3. r \in Parser /\ r.len = b /\ r.buf = <<>> /\ r.st = st
    <3> DEFINE none == <<>>
    <3>1. none \in Seq(Byte)
      BY <2>0
    <3> HIDE DEF none
    <3>2. [p EXCEPT !.len = b, !.buf = none, !.st = st] \in Parser
      BY <1>1, <2>0, <3>1 DEF Parser
    <3>3. r.len = b /\ r.buf = <<>> /\ r.st = st
      BY <1>1 DEF Parser
    <3> QED
      BY <3>2, <3>3 DEF none
  <2>4. Len(r.buf) = 0
    BY <2>3
  <2> HIDE DEF r
  <2>5. ParserOK(r)
    BY <2>2, <2>3, <2>4 DEF ParserOK
  <2> QED
    BY <2>1, <2>5 DEF r
<1>8. CASE p.st = "pay"
  <2> DEFINE st == IF Len(p.buf) + 1 >= p.len THEN "crc" ELSE "pay"
             buf == Append(p.buf, b)
  <2>1. Parsed(p, b) = [p EXCEPT !.buf = buf, !.st = st]
    BY <1>8 DEF Parsed
  <2>2. buf \in Seq(Byte) /\ Len(buf) = Len(p.buf) + 1 /\ Len(p.buf) \in Nat
    BY <1>1
  <2>3. st \in {"crc", "pay"} /\ (st = "pay" => Len(buf) < p.len) /\ Len(buf) <= p.len
    <3> HIDE DEF buf
    <3>1. Len(p.buf) < p.len /\ p.len \in Nat
      BY <1>1, <1>2, <1>8
    <3>2. CASE Len(p.buf) + 1 >= p.len
      BY <2>2, <3>1, <3>2
    <3>3. CASE ~ (Len(p.buf) + 1 >= p.len)
      BY <2>2, <3>1, <3>3
    <3> QED
      BY <3>2, <3>3
  <2> HIDE DEF st, buf
  <2> DEFINE r == [p EXCEPT !.buf = buf, !.st = st]
  <2>4. r \in Parser /\ r.len = p.len /\ r.buf = buf /\ r.st = st
    BY <1>1, <2>2, <2>3 DEF Parser
  <2> HIDE DEF r
  <2>5. ParserOK(r)
    BY <2>3, <2>4 DEF ParserOK
  <2> QED
    BY <2>1, <2>5 DEF r
<1>9. CASE p.st = "crc"
  BY <1>3, <1>9 DEF Parsed
<1> QED
  BY <1>1, <1>4, <1>5, <1>6, <1>7, <1>8, <1>9 DEF Parser

-----------------------------------------------------------------------------
(* Its steps. *)

\* dev_find returns an enabled device with the address, when there is one.
LEMMA DevFound ==
  ASSUME DevicesSound, NEW a, HasDev(a)
  PROVE  /\ FindDev(a) \in Slots /\ devs[FindDev(a)].addr = a
         /\ \A j \in 1..(FindDev(a) - 1) : devs[j].addr # a
<1> DEFINE T == {i \in Slots : devs[i].addr = a}
<1>1. T \subseteq Nat /\ T # {}
  BY EmuFacts DEF HasDev
<1>2. PICK x \in T : \A y \in T : x <= y
  <2> HIDE DEF T
  <2> QED
    BY <1>1, NatHasLeast
<1>3. Slots = 1..Len(Devices) /\ Len(Devices) \in Nat
  BY EmulatorAssumption DEF Slots
<1>4. ASSUME NEW j \in 1..(x - 1) PROVE devs[j].addr # a
  <2>1. j \in Slots /\ x \in Slots /\ ~ (x <= j)
    BY <1>2, <1>3
  <2> QED
    BY <1>2, <2>1
<1>5. x \in Slots /\ devs[x].addr = a /\ \A j \in 1..(x - 1) : devs[j].addr # a
  BY <1>2, <1>4
<1> QED
  BY <1>5 DEF FindDev

SameStations == \A i \in Slots : devs'[i].addr = devs[i].addr /\ devs'[i].enabled = devs[i].enabled

\* Devices that stay where they are and as they are answer to the same addresses.
LEMMA StationsKept ==
  ASSUME DevicesSound, DevicesSound', SameStations, NEW a
  PROVE  Ignored(a)' = Ignored(a)
<1>1. HasDev(a)' <=> HasDev(a)
  BY DEF HasDev, SameStations
<1>2. CASE HasDev(a)
  <2> DEFINE i == FindDev(a)
             k == CHOOSE i_1 \in Slots : devs'[i_1].addr = a /\ \A j \in 1..(i_1 - 1) : devs'[j].addr # a
  <2>1. i \in Slots /\ devs[i].addr = a /\ \A j \in 1..(i - 1) : devs[j].addr # a
    BY <1>2, DevFound
  <2>2. Slots = 1..Len(Devices) /\ Len(Devices) \in Nat
    BY EmulatorAssumption DEF Slots
  <2> HIDE DEF i
  <2>3. \A j \in 1..(i - 1) : j \in Slots
    BY <2>1, <2>2
  <2>4. devs'[i].addr = a /\ \A j \in 1..(i - 1) : devs'[j].addr # a
    BY <2>1, <2>3 DEF SameStations
  <2>5. k \in Slots /\ devs'[k].addr = a /\ \A j \in 1..(k - 1) : devs'[j].addr # a
    BY <2>1, <2>4
  <2> HIDE DEF k
  <2>6. k = i
    BY <2>1, <2>2, <2>4, <2>5
  <2>7. FindDev(a)' = FindDev(a)
    BY <2>6 DEF FindDev, i, k
  <2> QED
    BY <1>1, <2>1, <2>7 DEF Ignored, SameStations, i
<1>3. CASE ~ HasDev(a)
  BY <1>1, <1>3 DEF Ignored
<1> QED
  BY <1>2, <1>3

\* A command changes the device it is for, in its values and its stream alone.
LEMMA DispatchedWell ==
  ASSUME DevicesSound, sends \in Replies, NEW a \in Byte, NEW cmd \in Byte, NEW p \in Seq(Byte),
         EmuDispatch(a, cmd, p)
  PROVE  /\ DevicesSound' /\ sends' \in Replies /\ SameStations
         /\ Ignored(a) => said' = said
         /\ ~ Ignored(a) /\ query # <<>> =>
              IF Enough(cmd, p) THEN \E x : sends' = <<x>> /\ x.from = a /\ said' = said \o <<a>>
                                ELSE said' = said \o <<>>
<1>1. CASE Ignored(a)
  <2>1. UNCHANGED <<devs, sends, said>>
    BY <1>1 DEF EmuDispatch
  <2> QED
    BY <1>1, <2>1 DEF DevicesSound, SameStations
<1>2. CASE ~ Ignored(a)
  <2> DEFINE i == FindDev(a)
             d == Commanded(devs[i], cmd, p)
  <2>1. /\ devs' = [devs EXCEPT ![i] = d] /\ sends' = ReplyOf(d, cmd, p)
        /\ said' = IF query = <<>> THEN <<>> ELSE said \o [k \in DOMAIN sends' |-> sends'[k].from]
    BY <1>2 DEF EmuDispatch
  <2>2. i \in Slots /\ devs[i].addr = a
    BY <1>2, DevFound DEF Ignored
  <2>3. devs \in [Slots -> Device] /\ \A j \in Slots : DeviceOK(devs[j])
    BY DEF DevicesSound
  <2> HIDE DEF i
  <2>4. DeviceOK(d) /\ d.addr = devs[i].addr /\ d.enabled = devs[i].enabled
    BY <2>2, <2>3, CommandedSound
  <2> HIDE DEF d
  <2>5. d \in Device
    BY <2>4 DEF DeviceOK
  <2>6. DevicesSound' /\ SameStations
    BY <2>1, <2>2, <2>3, <2>4, <2>5 DEF DevicesSound, SameStations
  <2>7. IF Enough(cmd, p) THEN \E f \in DeviceFrame : f.from = a /\ sends' = <<f>> ELSE sends' = <<>>
    BY <2>1, <2>2, <2>4, ReplyOfSound
  <2>8. CASE Enough(cmd, p)
    <3>1. PICK f \in DeviceFrame : f.from = a /\ sends' = <<f>>
      BY <2>7, <2>8
    <3>2. [k \in DOMAIN sends' |-> sends'[k].from] = <<a>>
      BY <3>1
    <3>3. query # <<>> => said' = said \o <<a>>
      BY <2>1, <3>2
    <3> QED
      BY <1>2, <2>6, <2>8, <3>1, <3>3 DEF Replies
  <2>9. CASE ~ Enough(cmd, p)
    <3>1. sends' = <<>>
      BY <2>7, <2>9
    <3>2. [k \in DOMAIN sends' |-> sends'[k].from] = <<>>
      BY <3>1
    <3>3. query # <<>> => said' = said \o <<>>
      BY <2>1, <3>2
    <3> QED
      BY <1>2, <2>6, <2>9, <3>1, <3>3 DEF Replies
  <2> QED
    BY <2>8, <2>9
<1> QED
  BY <1>1, <1>2

\* What the command line does to a device is of its types.
LEMMA PokedWell ==
  ASSUME DevicesSound, NEW c \in Pokes, PokeDevice(c)
  PROVE  DevicesSound'
<1> DEFINE i == FindDev(c.addr)
           d == devs[i]
           e == CASE c.op = "set"     -> Poked(d, c.field, c.value)
                  [] c.op = "enable"  -> [d EXCEPT !.enabled = TRUE]
                  [] c.op = "disable" -> [d EXCEPT !.enabled = FALSE]
                  [] c.op = "int"     -> [d EXCEPT !.int_pending = TRUE]
                  [] c.op = "clrint"  -> [d EXCEPT !.int_pending = FALSE]
                  [] c.op = "addr"    -> [d EXCEPT !.addr = c.new]
<1>1. devs' = [devs EXCEPT ![i] = e]
  BY DEF PokeDevice, DevicesSound
<1>2. i \in Slots
  BY DevFound DEF PokeDevice
<1>3. devs \in [Slots -> Device] /\ \A j \in Slots : DeviceOK(devs[j])
  BY DEF DevicesSound
<1> HIDE DEF i
<1>4. d \in Device /\ DeviceOK(d) /\ d.due <= d.interval /\ (d.stream_on => d.interval >= MinInterval)
      /\ \A f \in Fields : d.val[f] < Size(f)
  BY <1>2, <1>3 DEF DeviceOK
<1> HIDE DEF d
<1>5. /\ c.op \in {"set", "enable", "disable", "int", "clrint", "addr"}
      /\ c.op = "set" => c.value \in Int
      /\ c.op = "addr" => c.new \in Byte
  BY EmulatorAssumption
<1>6. DeviceOK(e)
  <2>1. CASE c.op = "set"
    <3>1. e = Poked(d, c.field, c.value)
      BY <2>1
    <3>2. CASE c.field \in SetFields(d.addr)
      <4>1. c.field \in Fields /\ {c.field} \in SUBSET Fields
        BY <3>2, FieldSets
      <4>2. Size(c.field) \in Nat /\ Size(c.field) > 0
        BY <4>1, SizeFacts, ByteTypes
      <4>3. c.value % Size(c.field) \in Nat /\ c.value % Size(c.field) < Size(c.field)
        <5>1. \A x \in Int, m \in Nat : m > 0 => x % m \in Nat /\ x % m < m
          OBVIOUS
        <5> QED
          BY <1>5, <2>1, <4>2, <5>1
      <4>4. Poked(d, c.field, c.value) = With(d, {c.field}, c.value % Size(c.field))
        BY <3>2 DEF Poked
      <4> QED
        BY <1>4, <3>1, <4>1, <4>3, <4>4, WithSound
    <3>3. CASE c.field \notin SetFields(d.addr)
      BY <1>4, <3>1, <3>3 DEF Poked
    <3> QED
      BY <3>2, <3>3
  <2>2. CASE c.op = "enable"
    <3>1. e = [d EXCEPT !.enabled = TRUE]
      BY <2>2
    <3> HIDE DEF e
    <3>2. e \in Device /\ e.due = d.due /\ e.interval = d.interval /\ e.stream_on = d.stream_on /\ e.val = d.val
      BY <1>4, <3>1 DEF Device
    <3> QED
      BY <1>4, <3>2 DEF DeviceOK
  <2>3. CASE c.op = "disable"
    <3>1. e = [d EXCEPT !.enabled = FALSE]
      BY <2>3
    <3> HIDE DEF e
    <3>2. e \in Device /\ e.due = d.due /\ e.interval = d.interval /\ e.stream_on = d.stream_on /\ e.val = d.val
      BY <1>4, <3>1 DEF Device
    <3> QED
      BY <1>4, <3>2 DEF DeviceOK
  <2>4. CASE c.op = "int"
    <3>1. e = [d EXCEPT !.int_pending = TRUE]
      BY <2>4
    <3> HIDE DEF e
    <3>2. e \in Device /\ e.due = d.due /\ e.interval = d.interval /\ e.stream_on = d.stream_on /\ e.val = d.val
      BY <1>4, <3>1 DEF Device
    <3> QED
      BY <1>4, <3>2 DEF DeviceOK
  <2>5. CASE c.op = "clrint"
    <3>1. e = [d EXCEPT !.int_pending = FALSE]
      BY <2>5
    <3> HIDE DEF e
    <3>2. e \in Device /\ e.due = d.due /\ e.interval = d.interval /\ e.stream_on = d.stream_on /\ e.val = d.val
      BY <1>4, <3>1 DEF Device
    <3> QED
      BY <1>4, <3>2 DEF DeviceOK
  <2>6. CASE c.op = "addr"
    <3>1. e = [d EXCEPT !.addr = c.new] /\ c.new \in Byte
      BY <1>5, <2>6
    <3> HIDE DEF e
    <3>2. e \in Device /\ e.due = d.due /\ e.interval = d.interval /\ e.stream_on = d.stream_on /\ e.val = d.val
      BY <1>4, <3>1 DEF Device
    <3> QED
      BY <1>4, <3>2 DEF DeviceOK
  <2> QED
    BY <1>5, <2>1, <2>2, <2>3, <2>4, <2>5, <2>6
<1> HIDE DEF e
<1>7. e \in Device
  BY <1>6 DEF DeviceOK
<1> QED
  BY <1>1, <1>2, <1>3, <1>6, <1>7 DEF DevicesSound

\* A device whose stream is due at another time.
LEMMA DueAnew ==
  ASSUME NEW d, DeviceOK(d), NEW n \in Nat, n <= d.interval
  PROVE  /\ DeviceOK([d EXCEPT !.due = n])
         /\ [d EXCEPT !.due = n].addr = d.addr /\ [d EXCEPT !.due = n].enabled = d.enabled
<1> DEFINE w == [d EXCEPT !.due = n]
<1>1. d \in Device /\ (d.stream_on => d.interval >= MinInterval) /\ \A f \in Fields : d.val[f] < Size(f)
  BY DEF DeviceOK
<1>2. n \in Word
  <2>1. d.interval \in Word
    BY <1>1 DEF Device
  <2>2. Base * Base \in Nat
    BY ByteTypes, Squares
  <2> QED
    BY <2>1, <2>2 DEF Word
<1>3. /\ w \in Device /\ w.due = n /\ w.interval = d.interval /\ w.stream_on = d.stream_on
      /\ w.val = d.val /\ w.addr = d.addr /\ w.enabled = d.enabled
  BY <1>1, <1>2 DEF Device
<1> HIDE DEF w
<1>4. DeviceOK(w)
  BY <1>1, <1>3 DEF DeviceOK
<1> QED
  BY <1>3, <1>4 DEF w

\* A step that writes one device keeps the types of all.
LEMMA DevicesAnew ==
  ASSUME DevicesSound, NEW S \in SUBSET Slots, NEW due, \A i \in S : due[i] \in Nat /\ due[i] <= devs[i].interval,
         devs' = [i \in Slots |-> IF i \in S THEN [devs[i] EXCEPT !.due = due[i]] ELSE devs[i]]
  PROVE  DevicesSound' /\ SameStations
<1>1. devs \in [Slots -> Device] /\ \A i \in Slots : DeviceOK(devs[i])
  BY DEF DevicesSound
<1>2. ASSUME NEW i \in Slots
      PROVE  /\ devs'[i] \in Device /\ DeviceOK(devs'[i])
             /\ devs'[i].addr = devs[i].addr /\ devs'[i].enabled = devs[i].enabled
  <2>1. CASE i \in S
    <3>1. devs'[i] = [devs[i] EXCEPT !.due = due[i]]
      BY <2>1
    <3>2. /\ DeviceOK([devs[i] EXCEPT !.due = due[i]])
          /\ [devs[i] EXCEPT !.due = due[i]].addr = devs[i].addr
          /\ [devs[i] EXCEPT !.due = due[i]].enabled = devs[i].enabled
      BY <1>1, <2>1, DueAnew
    <3> QED
      BY <3>1, <3>2 DEF DeviceOK
  <2>2. CASE i \notin S
    <3>1. devs'[i] = devs[i]
      BY <2>2
    <3> QED
      BY <1>1, <3>1
  <2> QED
    BY <2>1, <2>2
<1>3. DOMAIN devs' = Slots /\ devs' = [i \in Slots |-> devs'[i]]
  OBVIOUS
<1> QED
  BY <1>2, <1>3 DEF DevicesSound, SameStations

\* Each step keeps the types: taking a byte,
LEMMA TakeSound ==
  ASSUME EmuSound, TakeRsByte
  PROVE  EmuSound' /\ SameStations
<1>0. /\ DevicesSound /\ ParserOK(parser) /\ fifo \in Seq(Byte) /\ Len(fifo) <= Fifo /\ sends \in Replies
      /\ lag \in 0..MaxLag /\ age \in 0..(Silence + 1) /\ drain \in BOOLEAN
  BY DEF EmuSound
<1>1. Head(fifo) \in Byte /\ fifo' \in Seq(Byte) /\ Len(fifo') <= Fifo
  <2>1. Head(fifo) \in Byte /\ Tail(fifo) \in Seq(Byte) /\ Len(Tail(fifo)) = Len(fifo) - 1 /\ Len(fifo) \in Nat
    BY <1>0, HeadAndTail DEF TakeRsByte
  <2>2. fifo' = Tail(fifo)
    BY DEF TakeRsByte
  <2> QED
    BY <1>0, <2>1, <2>2, EmuFacts
<1>2. ParserOK(parser')
  BY <1>0, <1>1, ParsedSound DEF TakeRsByte
<1>3. age' \in 0..(Silence + 1)
  <2>1. age' = 0 \/ age' = lag
    BY DEF TakeRsByte, AgeWithByte
  <2> QED
    BY <1>0, <2>1, EmuFacts
<1>4. parser.addr \in Byte /\ parser.cmd \in Byte /\ parser.buf \in Seq(Byte)
  BY <1>0 DEF ParserOK, Parser
<1>5. DevicesSound' /\ sends' \in Replies /\ SameStations
  <2>1. CASE EmuDispatch(parser.addr, parser.cmd, parser.buf)
    BY <1>0, <1>4, <2>1, DispatchedWell
  <2>2. CASE UNCHANGED <<devs, sends, said>>
    BY <1>0, <2>2 DEF DevicesSound, SameStations
  <2> QED
    BY <2>1, <2>2 DEF TakeRsByte
<1>6. UNCHANGED <<pinLow, lag, drain, todo, line, calm, trouble, astray, query, steady>>
  BY DEF TakeRsByte
<1> QED
  BY <1>0, <1>1, <1>2, <1>3, <1>5, <1>6 DEF EmuSound

\* What an action that leaves the rest alone keeps.
LEMMA DevicesStill ==
  ASSUME DevicesSound, devs' = devs
  PROVE  DevicesSound' /\ SameStations
BY DEF DevicesSound, SameStations

\* beginning to drain the FIFO,
LEMMA PollSound ==
  ASSUME EmuSound, PollBegins
  PROVE  EmuSound' /\ SameStations
<1>1. ParserOK(NotParsing)
  <2>1. 0 \in Byte
    BY ByteTypes DEF Byte
  <2> QED
    BY <2>1 DEF ParserOK, Parser, NotParsing
<1>2. ParserOK(parser')
  BY <1>1 DEF PollBegins, EmuSound
<1>3. lag' \in 0..MaxLag /\ astray' \in 0..MaxAstray /\ drain' \in BOOLEAN /\ todo' = {}
  BY EmuFacts DEF PollBegins, EmuSound
<1>4. UNCHANGED <<devs, pinLow, fifo, age, todo, sends, line, calm, trouble, query, steady, said>>
  BY DEF PollBegins
<1>5. DevicesSound' /\ SameStations
  BY <1>4, DevicesStill DEF EmuSound
<1> QED
  BY <1>2, <1>3, <1>4, <1>5 DEF EmuSound

\* ending a transmission,
LEMMA TxEndsSound ==
  ASSUME EmuSound, TxEnds
  PROVE  EmuSound' /\ SameStations
<1>1. sends' \in Replies
  BY DEF TxEnds, Replies
<1>2. UNCHANGED <<devs, pinLow, fifo, parser, age, lag, drain, todo, line, calm, trouble,
                  astray, query, steady, said>>
  BY DEF TxEnds
<1>3. DevicesSound' /\ SameStations
  BY <1>2, DevicesStill DEF EmuSound
<1> QED
  BY <1>1, <1>2, <1>3 DEF EmuSound

\* the periodic pass,
LEMMA PeriodicSound ==
  ASSUME EmuSound, PeriodicTick
  PROVE  EmuSound' /\ SameStations
<1> DEFINE due == [i \in Slots |-> devs[i].due + devs[i].interval]
<1>1. devs \in [Slots -> Device] /\ (\A i \in Slots : DeviceOK(devs[i])) /\ DevicesSound
  BY DEF EmuSound, DevicesSound
<1>2. /\ todo' = {i \in Slots : devs[i].enabled /\ devs[i].stream_on /\ devs[i].due = 0}
      /\ devs' = [i \in Slots |-> IF i \in todo' THEN [devs[i] EXCEPT !.due = @ + devs[i].interval] ELSE devs[i]]
  BY DEF PeriodicTick
<1>3. PICK S \in SUBSET Slots : S = todo'
  BY <1>2
<1>4. ASSUME NEW i \in S PROVE due[i] \in Nat /\ due[i] <= devs[i].interval
  <2>1. devs[i].due = 0 /\ devs[i].interval \in Word /\ i \in Slots
    BY <1>1, <1>2, <1>3 DEF Device
  <2>2. devs[i].interval \in Nat
    BY <2>1, WordsAreNumbers
  <2> QED
    BY <2>1, <2>2
<1>5. devs' = [i \in Slots |-> IF i \in S THEN [devs[i] EXCEPT !.due = due[i]] ELSE devs[i]]
  <2>1. ASSUME NEW i \in Slots
        PROVE  (IF i \in todo' THEN [devs[i] EXCEPT !.due = @ + devs[i].interval] ELSE devs[i])
                 = IF i \in S THEN [devs[i] EXCEPT !.due = due[i]] ELSE devs[i]
    <3>1. devs[i] \in Device
      BY <1>1
    <3>2. [devs[i] EXCEPT !.due = @ + devs[i].interval] = [devs[i] EXCEPT !.due = due[i]]
      BY <3>1 DEF Device
    <3> QED
      BY <1>3, <3>2
  <2> QED
    BY <1>2, <2>1
<1> HIDE DEF due
<1>6. DevicesSound' /\ SameStations
  BY <1>1, <1>4, <1>5, DevicesAnew
<1>7. drain' = FALSE /\ pinLow' \in BOOLEAN
      /\ UNCHANGED <<fifo, parser, age, lag, sends, line, calm, trouble, astray, query, steady, said>>
  BY DEF PeriodicTick
<1> QED
  BY <1>3, <1>6, <1>7 DEF EmuSound

\* a stream that is due,
LEMMA StreamsSound ==
  ASSUME EmuSound, SendStream
  PROVE  EmuSound' /\ SameStations
<1> DEFINE i == CHOOSE x \in todo : \A y \in todo : x <= y
<1>1. /\ todo' = todo \ {i}
      /\ IF devs[i].enabled THEN sends' = <<StreamOf(devs[i])>> /\ UNCHANGED devs
                            ELSE devs' = [devs EXCEPT ![i].due = 0] /\ UNCHANGED sends
      /\ UNCHANGED <<pinLow, fifo, parser, age, lag, drain, line, calm, trouble, astray, query, steady, said>>
  BY DEF SendStream
<1>2. i \in todo /\ i \in Slots
  <2>1. todo \subseteq Nat /\ todo # {} /\ todo \subseteq Slots
    BY EmuFacts DEF EmuSound, SendStream
  <2>2. \E x \in todo : \A y \in todo : x <= y
    BY <2>1, NatHasLeast
  <2> QED
    BY <2>1, <2>2
<1> HIDE DEF i
<1>3. devs \in [Slots -> Device] /\ (\A j \in Slots : DeviceOK(devs[j])) /\ DevicesSound
  BY DEF EmuSound, DevicesSound
<1>4. DevicesSound' /\ SameStations /\ sends' \in Replies
  <2>1. CASE devs[i].enabled
    <3>1. StreamOf(devs[i]) \in DeviceFrame
      BY <1>2, <1>3, StreamSound
    <3> QED
      BY <1>1, <1>3, <2>1, <3>1, DevicesStill DEF Replies
  <2>2. CASE ~ devs[i].enabled
    <3> DEFINE w == [devs[i] EXCEPT !.due = 0]
    <3>0. devs[i].interval \in Nat
      <4>1. devs[i] \in Device
        BY <1>2, <1>3
      <4> QED
        BY <4>1, WordsAreNumbers DEF Device
    <3>1. DeviceOK(w) /\ w.addr = devs[i].addr /\ w.enabled = devs[i].enabled
      <4>1. 0 \in Nat /\ 0 <= devs[i].interval
        BY <3>0
      <4> QED
        BY <1>2, <1>3, <4>1, DueAnew
    <3>2. devs' = [devs EXCEPT ![i] = w] /\ sends' = sends
      BY <1>1, <2>2
    <3> HIDE DEF w
    <3>3. w \in Device
      BY <3>1 DEF DeviceOK
    <3>4. DevicesSound' /\ SameStations
      BY <1>2, <1>3, <3>1, <3>2, <3>3 DEF DevicesSound, SameStations
    <3> QED
      BY <3>2, <3>4 DEF EmuSound
  <2> QED
    BY <2>1, <2>2
<1>5. todo' \subseteq Slots /\ (drain' => todo' = {})
  BY <1>1 DEF EmuSound
<1> QED
  BY <1>1, <1>4, <1>5 DEF EmuSound

\* the command line and the web page,
LEMMA PokeSound ==
  ASSUME EmuSound, NEW c \in Pokes, PokeDevice(c)
  PROVE  EmuSound'
<1>1. DevicesSound'
  BY PokedWell DEF EmuSound
<1>2. UNCHANGED <<pinLow, fifo, parser, age, lag, drain, todo, sends, line, calm, astray, query, said>>
  BY DEF PokeDevice
<1> QED
  BY <1>1, <1>2 DEF EmuSound

\* a frame of the master,
LEMMA AskSound ==
  ASSUME EmuSound, NEW q \in Queries, AskBegins(q)
  PROVE  EmuSound' /\ SameStations
<1>1. line' \in Seq(Byte)
  <2>1. q \in Frame /\ Len(q.payload) \in Byte /\ line' = Bytes(q)
    BY EmuFacts DEF AskBegins
  <2> QED
    BY <2>1, BytesOfFrame
<1>2. astray' \in 0..MaxAstray
  <2>1. astray \in 0..MaxAstray
    BY DEF EmuSound
  <2>2. astray' = astray \/ (astray < MaxAstray /\ astray' = astray + 1)
    BY DEF AskBegins
  <2> QED
    BY <2>1, <2>2, EmuFacts
<1>3. UNCHANGED <<devs, pinLow, fifo, parser, age, lag, drain, todo, sends, calm, trouble>>
  BY DEF AskBegins
<1>4. DevicesSound' /\ SameStations
  BY <1>3, DevicesStill DEF EmuSound
<1> QED
  BY <1>1, <1>2, <1>3, <1>4 DEF EmuSound

\* a byte of it that arrives,
LEMMA AskByteSound ==
  ASSUME EmuSound, AskByte
  PROVE  EmuSound' /\ SameStations
<1>0. fifo \in Seq(Byte) /\ Len(fifo) <= Fifo /\ line \in Seq(Byte) /\ astray \in 0..MaxAstray
  BY DEF EmuSound
<1>1. Head(line) \in Byte /\ Tail(line) \in Seq(Byte)
  BY <1>0, HeadAndTail DEF AskByte
<1>2. fifo' \in Seq(Byte) /\ Len(fifo') <= Fifo
  <2>1. CASE fifo' = fifo
    BY <1>0, <2>1
  <2>2. CASE Len(fifo) < Fifo /\ fifo' = Append(fifo, Head(line))
    <3>1. Append(fifo, Head(line)) \in Seq(Byte) /\ Len(Append(fifo, Head(line))) = Len(fifo) + 1 /\ Len(fifo) \in Nat
      BY <1>0, <1>1, AppendFacts
    <3> QED
      BY <2>2, <3>1, EmuFacts
  <2> QED
    BY <2>1, <2>2 DEF AskByte
<1>3. line' \in Seq(Byte) /\ calm' \in 0..(Silence + MaxLag + 1)
  BY <1>1, EmuFacts DEF AskByte
<1>4. astray' \in 0..MaxAstray
  BY <1>0, EmuFacts DEF AskByte
<1>5. UNCHANGED <<devs, pinLow, parser, age, lag, drain, todo, sends>>
  BY DEF AskByte
<1>6. DevicesSound' /\ SameStations
  BY <1>5, DevicesStill DEF EmuSound
<1> QED
  BY <1>2, <1>3, <1>4, <1>5, <1>6 DEF EmuSound

\* and a millisecond.
LEMMA EmuTickSound ==
  ASSUME EmuSound, EmuTick
  PROVE  EmuSound' /\ SameStations
<1> DEFINE due == [i \in Slots |-> IF devs[i].due > 0 THEN devs[i].due - 1 ELSE 0]
<1>1. devs \in [Slots -> Device] /\ (\A i \in Slots : DeviceOK(devs[i])) /\ DevicesSound
  BY DEF EmuSound, DevicesSound
<1>2. ASSUME NEW i \in Slots PROVE due[i] \in Nat /\ due[i] <= devs[i].interval
  <2>1. devs[i].due \in Nat /\ devs[i].interval \in Nat /\ devs[i].due <= devs[i].interval
    <3>1. devs[i] \in Device /\ DeviceOK(devs[i])
      BY <1>1
    <3> QED
      BY <3>1, WordsAreNumbers DEF DeviceOK, Device
  <2> QED
    BY <2>1
<1>3. devs' = [i \in Slots |-> IF i \in Slots THEN [devs[i] EXCEPT !.due = due[i]] ELSE devs[i]]
  <2>1. devs' = [i \in Slots |-> [devs[i] EXCEPT !.due = IF @ > 0 THEN @ - 1 ELSE 0]]
    BY DEF EmuTick
  <2>2. ASSUME NEW i \in Slots
        PROVE  [devs[i] EXCEPT !.due = IF @ > 0 THEN @ - 1 ELSE 0]
                 = IF i \in Slots THEN [devs[i] EXCEPT !.due = due[i]] ELSE devs[i]
    <3>1. devs[i] \in Device
      BY <1>1
    <3> QED
      BY <3>1 DEF Device
  <2> QED
    BY <2>1, <2>2
<1> HIDE DEF due
<1>4. DevicesSound' /\ SameStations
  BY <1>1, <1>2, <1>3, DevicesAnew
<1>5. age' \in 0..(Silence + 1) /\ lag' \in 0..MaxLag /\ calm' \in 0..(Silence + MaxLag + 1)
  <2>1. age \in 0..(Silence + 1) /\ lag \in 0..MaxLag /\ calm \in 0..(Silence + MaxLag + 1)
    BY DEF EmuSound
  <2>2. /\ lag < MaxLag /\ lag' = lag + 1 /\ calm' = Aged(calm, Silence + MaxLag + 1)
        /\ age' = (IF parser.st = "sof" THEN 0 ELSE Aged(age, Silence + 1))
    BY DEF EmuTick
  <2>3. Silence + 1 \in Nat /\ Silence + MaxLag + 1 \in Nat
    BY EmuFacts
  <2>4. Aged(age, Silence + 1) \in 0..(Silence + 1) /\ Aged(calm, Silence + MaxLag + 1) \in 0..(Silence + MaxLag + 1)
    BY <2>1, <2>3 DEF Aged
  <2> QED
    BY <2>1, <2>2, <2>3, <2>4, EmuFacts
<1>6. UNCHANGED <<pinLow, fifo, parser, drain, todo, sends, line, trouble, astray, query, steady, said>>
  BY DEF EmuTick
<1> QED
  BY <1>4, <1>5, <1>6 DEF EmuSound

\* They hold at boot.
LEMMA EmuInitSound == EmuInit => EmuSound
<1> SUFFICES ASSUME EmuInit PROVE EmuSound
  OBVIOUS
<1> DEFINE d == [i \in Slots |-> [addr |-> Devices[i], enabled |-> TRUE, stream_on |-> FALSE, interval |-> 0,
                                  due |-> 0, int_pending |-> FALSE, val |-> AtBoot[i]]]
<1>1. devs = d
  BY DEF EmuInit
<1>2. 0 \in Byte /\ 0 \in Word
  BY ByteTypes, WordsAreNumbers DEF Byte
<1>3. ASSUME NEW i \in Slots PROVE d[i] \in Device /\ DeviceOK(d[i])
  <2>1. Devices[i] \in Byte /\ AtBoot[i] \in [Fields -> Nat] /\ \A f \in Fields : AtBoot[i][f] < Size(f)
    BY EmulatorAssumption DEF Slots
  <2>2. d[i] \in Device
    BY <1>2, <2>1 DEF Device
  <2>3. d[i].due = 0 /\ d[i].interval = 0 /\ d[i].stream_on = FALSE /\ d[i].val = AtBoot[i]
    OBVIOUS
  <2> HIDE DEF d
  <2> QED
    BY <2>1, <2>2, <2>3 DEF DeviceOK
<1>4. DevicesSound
  <2>1. d \in [Slots -> Device]
    BY <1>3
  <2> HIDE DEF d
  <2> QED
    BY <1>1, <1>3, <2>1 DEF DevicesSound
<1>5. ParserOK(parser)
  BY <1>2 DEF EmuInit, ParserOK, Parser, NotParsing
<1>6. /\ pinLow = FALSE /\ fifo = <<>> /\ age = 0 /\ lag = 0 /\ drain = FALSE /\ todo = {} /\ sends = <<>>
      /\ line = <<>> /\ calm = 0 /\ astray = 0
  BY DEF EmuInit
<1>7. Len(fifo) <= Fifo /\ fifo \in Seq(Byte) /\ line \in Seq(Byte)
  BY <1>6, EmuFacts
<1>8. age \in 0..(Silence + 1) /\ lag \in 0..MaxLag /\ calm \in 0..(Silence + MaxLag + 1) /\ astray \in 0..MaxAstray
  BY <1>6, EmuFacts
<1> QED
  BY <1>4, <1>5, <1>6, <1>7, <1>8 DEF EmuSound, Replies

\* Whatever is asked for, the emulator's devices, its receiver and its answers keep
\* their types.
LEMMA EmuSoundIsInvariant == EmuSpec => []EmuSound
<1>1. EmuSound /\ [EmuNext]_emuVars => EmuSound'
  <2> SUFFICES ASSUME EmuSound, [EmuNext]_emuVars PROVE EmuSound'
    OBVIOUS
  <2>1. CASE PollBegins
    BY <2>1, PollSound
  <2>2. CASE TakeRsByte
    BY <2>2, TakeSound
  <2>3. CASE TxEnds
    BY <2>3, TxEndsSound
  <2>4. CASE PeriodicTick
    BY <2>4, PeriodicSound
  <2>5. CASE SendStream
    BY <2>5, StreamsSound
  <2>6. ASSUME NEW c \in Pokes, CliPoll(c) \/ AppHttp(c) PROVE EmuSound'
    BY <2>6, PokeSound DEF CliPoll, AppHttp
  <2>7. ASSUME NEW q \in Queries, AskBegins(q) PROVE EmuSound'
    BY <2>7, AskSound
  <2>8. CASE AskByte
    BY <2>8, AskByteSound
  <2>9. CASE EmuTick
    BY <2>9, EmuTickSound
  <2>10. CASE UNCHANGED emuVars
    BY <2>10 DEF emuVars, EmuSound, DevicesSound
  <2> QED
    BY <2>1, <2>2, <2>3, <2>4, <2>5, <2>6, <2>7, <2>8, <2>9, <2>10 DEF EmuNext
<1> QED
  BY <1>1, EmuInitSound, PTL DEF EmuSpec

\* The emulated devices keep values that the fields of periph_t hold, a stream that never is
\* faster than its least interval, and a receiver whose buffer holds at most the length that
\* came with the frame: through any frames, damaged ones too, lost bytes, and whatever the
\* command line and the web page set.
THEOREM EmulatorTypeCorrect == EmuSpec => []EmuTypeOK
BY EmuSoundIsInvariant, EmuTypes, PTL

-----------------------------------------------------------------------------
(* What the receiver makes of a frame. *)

\* A state of the parser.
InFrame(st, a, c, l, s) == [st |-> st, addr |-> a, cmd |-> c, len |-> l, buf |-> s]

\* The parser after the first p bytes of a frame.
Met(q, p) ==
  LET L == Len(q.payload)
  IN  IF p = 0 \/ p = 5 + L THEN NotParsing
      ELSE IF p = 1 THEN InFrame("addr", 0, 0, 0, <<>>)
      ELSE IF p = 2 THEN InFrame("cmd", q.to, 0, 0, <<>>)
      ELSE IF p = 3 THEN InFrame("len", q.to, q.cmd, 0, <<>>)
      ELSE InFrame(IF p = 4 + L THEN "crc" ELSE "pay", q.to, q.cmd, L, SubSeq(q.payload, 1, p - 4))

LEMMA InFrameIs ==
  ASSUME NEW t, NEW a, NEW c, NEW l, NEW s, NEW r, r \in [st: {t}, addr: {a}, cmd: {c}, len: {l}, buf: {s}]
  PROVE  r = InFrame(t, a, c, l, s)
BY DEF InFrame

\* What the receiver makes of a byte, field by field.
LEMMA ParsedOf ==
  ASSUME NEW a, NEW c, NEW l, NEW s, NEW b
  PROVE  /\ Parsed(InFrame("addr", a, c, l, s), b)
              = InFrame("cmd", b, c, l, s)
         /\ Parsed(InFrame("cmd", a, c, l, s), b)
              = InFrame("len", a, b, l, s)
         /\ Parsed(InFrame("len", a, c, l, s), b)
              = InFrame(IF b = 0 THEN "crc" ELSE "pay", a, c, b, <<>>)
         /\ Parsed(InFrame("pay", a, c, l, s), b)
              = InFrame(IF Len(s) + 1 >= l THEN "crc" ELSE "pay", a, c, l, Append(s, b))
<1> DEFINE R(t) == InFrame(t, a, c, l, s)
<1>1. ASSUME NEW r, r.st = "addr" PROVE Parsed(r, b) = [r EXCEPT !.addr = b, !.st = "cmd"]
  BY <1>1 DEF Parsed
<1>2. ASSUME NEW r, r.st = "cmd" PROVE Parsed(r, b) = [r EXCEPT !.cmd = b, !.st = "len"]
  BY <1>2 DEF Parsed
<1>3. ASSUME NEW r, r.st = "len"
      PROVE  Parsed(r, b) = [r EXCEPT !.len = b, !.buf = <<>>, !.st = IF b = 0 THEN "crc" ELSE "pay"]
  BY <1>3 DEF Parsed
<1>4. ASSUME NEW r, r.st = "pay"
      PROVE  Parsed(r, b) = [r EXCEPT !.buf = Append(@, b), !.st = IF Len(r.buf) + 1 >= r.len THEN "crc" ELSE "pay"]
  BY <1>4 DEF Parsed
<1>5. Parsed(R("addr"), b) = [R("addr") EXCEPT !.addr = b, !.st = "cmd"]
  BY <1>1 DEF InFrame
<1>6. Parsed(R("cmd"), b) = [R("cmd") EXCEPT !.cmd = b, !.st = "len"]
  BY <1>2 DEF InFrame
<1>7. Parsed(R("len"), b) = [R("len") EXCEPT !.len = b, !.buf = <<>>, !.st = IF b = 0 THEN "crc" ELSE "pay"]
  BY <1>3 DEF InFrame
<1>8. Parsed(R("pay"), b) = [R("pay") EXCEPT !.buf = Append(s, b), !.st = IF Len(s) + 1 >= l THEN "crc" ELSE "pay"]
  <2>1. R("pay").st = "pay" /\ R("pay").buf = s /\ R("pay").len = l
    BY DEF InFrame
  <2>2. [R("pay") EXCEPT !.buf = Append(@, b), !.st = IF Len(s) + 1 >= l THEN "crc" ELSE "pay"]
          = [R("pay") EXCEPT !.buf = Append(s, b), !.st = IF Len(s) + 1 >= l THEN "crc" ELSE "pay"]
    BY DEF InFrame
  <2> HIDE DEF R
  <2> QED
    BY <1>4, <2>1, <2>2
<1>9. ASSUME NEW t PROVE [R("addr") EXCEPT !.addr = b, !.st = t] = InFrame(t, b, c, l, s)
  <2> DEFINE r == [R("addr") EXCEPT !.addr = b, !.st = t]
  <2>1. r \in [st: {t}, addr: {b}, cmd: {c}, len: {l}, buf: {s}]
    BY DEF InFrame
  <2> HIDE DEF r, R
  <2>2. r = InFrame(t, b, c, l, s)
    BY <2>1, InFrameIs
  <2> QED
    BY <2>2 DEF r
<1>10. ASSUME NEW t PROVE [R("cmd") EXCEPT !.cmd = b, !.st = t] = InFrame(t, a, b, l, s)
  <2> DEFINE r == [R("cmd") EXCEPT !.cmd = b, !.st = t]
  <2>1. r \in [st: {t}, addr: {a}, cmd: {b}, len: {l}, buf: {s}]
    BY DEF InFrame
  <2> HIDE DEF r, R
  <2>2. r = InFrame(t, a, b, l, s)
    BY <2>1, InFrameIs
  <2> QED
    BY <2>2 DEF r
<1>11. ASSUME NEW t PROVE [R("len") EXCEPT !.len = b, !.buf = <<>>, !.st = t] = InFrame(t, a, c, b, <<>>)
  <2> DEFINE r == [R("len") EXCEPT !.len = b, !.buf = <<>>, !.st = t]
  <2>1. r \in [st: {t}, addr: {a}, cmd: {c}, len: {b}, buf: {<<>>}]
    BY DEF InFrame
  <2> HIDE DEF r, R
  <2>2. r = InFrame(t, a, c, b, <<>>)
    BY <2>1, InFrameIs
  <2> QED
    BY <2>2 DEF r
<1>12. ASSUME NEW t, NEW u PROVE [R("pay") EXCEPT !.buf = u, !.st = t] = InFrame(t, a, c, l, u)
  <2> DEFINE r == [R("pay") EXCEPT !.buf = u, !.st = t]
  <2>1. r \in [st: {t}, addr: {a}, cmd: {c}, len: {l}, buf: {u}]
    BY DEF InFrame
  <2> HIDE DEF r, R
  <2>2. r = InFrame(t, a, c, l, u)
    BY <2>1, InFrameIs
  <2> QED
    BY <2>2 DEF r
<1> HIDE DEF R
<1> QED
  BY <1>5, <1>6, <1>7, <1>8, <1>9, <1>10, <1>11, <1>12, Zenon DEF R

\* A byte of the frame takes the receiver from one place in it to the next.
LEMMA NextMet ==
  ASSUME NEW q \in Frame, Len(q.payload) \in Byte, NEW p \in 0..(4 + Len(q.payload))
  PROVE  Parsed(Met(q, p), Bytes(q)[p + 1]) = Met(q, p + 1)
<1> DEFINE L == Len(q.payload)
           w == Bytes(q)
<1>1. /\ q.to \in Byte /\ q.cmd \in Byte /\ q.payload \in Seq(Byte) /\ L \in Nat
  BY DEF Frame
<1>2. /\ w[1] = Sof /\ w[2] = q.to /\ w[3] = q.cmd /\ w[4] = L
      /\ \A k \in 1..L : w[4 + k] = q.payload[k]
  BY BytesOfFrame
<1> HIDE DEF w
<1>3. CASE p = 0
  <2>1. Met(q, 0) = NotParsing /\ w[p + 1] = Sof
    BY <1>1, <1>2, <1>3 DEF Met
  <2>2. Parsed(NotParsing, Sof) = [NotParsing EXCEPT !.st = "addr"]
    BY DEF Parsed, NotParsing
  <2>3. Met(q, 1) = InFrame("addr", 0, 0, 0, <<>>)
    <3> HIDE DEF L
    <3>1. 1 # 5 + L
      BY <1>1
    <3> QED
      BY <3>1 DEF Met, L
  <2> QED
    BY <1>3, <2>1, <2>2, <2>3 DEF w, NotParsing, InFrame
<1>4. CASE p = 1
  <2>1. Met(q, p) = InFrame("addr", 0, 0, 0, <<>>)
    <3>1. 1 # 5 + L
      BY <1>1
    <3> QED
      BY <1>4, <3>1 DEF Met
  <2>2. Met(q, p + 1) = InFrame("cmd", q.to, 0, 0, <<>>)
    <3>1. p + 1 = 2 /\ 2 # 5 + L
      BY <1>1, <1>4
    <3> QED
      BY <3>1 DEF Met
  <2>3. Parsed(Met(q, p), q.to) = Met(q, p + 1)
    BY <2>1, <2>2, ParsedOf
  <2>4. w[p + 1] = q.to
    BY <1>2, <1>4
  <2> QED
    BY <2>3, <2>4 DEF w
<1>5. CASE p = 2
  <2>1. Met(q, p) = InFrame("cmd", q.to, 0, 0, <<>>)
    <3>1. 2 # 5 + L
      BY <1>1
    <3> QED
      BY <1>5, <3>1 DEF Met
  <2>2. Met(q, p + 1) = InFrame("len", q.to, q.cmd, 0, <<>>)
    <3>1. p + 1 = 3 /\ 3 # 5 + L
      BY <1>1, <1>5
    <3> QED
      BY <3>1 DEF Met
  <2>3. Parsed(Met(q, p), q.cmd) = Met(q, p + 1)
    BY <2>1, <2>2, ParsedOf
  <2>4. w[p + 1] = q.cmd
    BY <1>2, <1>5
  <2> QED
    BY <2>3, <2>4 DEF w
<1>6. CASE p = 3
  <2>1. Met(q, p) = InFrame("len", q.to, q.cmd, 0, <<>>)
    <3>1. 3 # 5 + L
      BY <1>1
    <3> QED
      BY <1>6, <3>1 DEF Met
  <2>2. SubSeq(q.payload, 1, 0) = <<>>
    BY <1>1
  <2>3. Met(q, p + 1) = InFrame(IF L = 0 THEN "crc" ELSE "pay", q.to, q.cmd, L, <<>>)
    <3>1. p + 1 = 4 /\ 4 # 5 + L /\ 4 # 0 /\ 4 # 1 /\ 4 # 2 /\ 4 # 3
      BY <1>1, <1>6
    <3>2. 4 - 4 = 0 /\ (4 = 4 + L <=> L = 0)
      BY <1>1
    <3>3. Met(q, 4) = InFrame(IF 4 = 4 + L THEN "crc" ELSE "pay", q.to, q.cmd, L, SubSeq(q.payload, 1, 4 - 4))
      BY <3>1 DEF Met
    <3>4. CASE L = 0
      BY <2>2, <3>1, <3>2, <3>3, <3>4
    <3>5. CASE L # 0
      BY <2>2, <3>1, <3>2, <3>3, <3>5
    <3> QED
      BY <3>4, <3>5
  <2>4. Parsed(Met(q, p), L) = Met(q, p + 1)
    BY <2>1, <2>3, ParsedOf
  <2>5. w[p + 1] = L
    BY <1>2, <1>6
  <2> QED
    BY <2>4, <2>5 DEF w
<1>7. CASE p \in 4..(3 + L)
  <2> DEFINE k == p - 3
             old == SubSeq(q.payload, 1, p - 4)
             new == SubSeq(q.payload, 1, k)
  <2>1. Met(q, p) = InFrame("pay", q.to, q.cmd, L, old)
    <3>1. p \notin {0, 1, 2, 3} /\ p # 5 + L /\ p # 4 + L /\ p >= 2 /\ p >= 3 /\ p >= 4
      BY <1>1, <1>7
    <3> QED
      BY <3>1 DEF Met
  <2>2. Met(q, p + 1) = InFrame(IF k >= L THEN "crc" ELSE "pay", q.to, q.cmd, L, new)
    <3>1. /\ p + 1 \notin {0, 1, 2, 3} /\ p + 1 # 5 + L /\ (p + 1 = 4 + L <=> k >= L)
          /\ p + 1 >= 2 /\ p + 1 >= 3 /\ p + 1 >= 4 /\ (p + 1) - 4 = k
      BY <1>1, <1>7
    <3> QED
      BY <3>1 DEF Met
  <2>3. new = Append(old, q.payload[k]) /\ Len(old) + 1 = k
    <3>1. PICK x \in Seq(Byte) : x = q.payload
      BY <1>1
    <3>2. k \in 1..Len(x) /\ p - 4 = k - 1 /\ k - 1 \in Nat
      BY <1>1, <1>7, <3>1
    <3> HIDE DEF k
    <3>3. SubSeq(x, 1, k) = Append(SubSeq(x, 1, k - 1), x[k]) /\ Len(SubSeq(x, 1, k - 1)) = k - 1
      BY <3>2
    <3> QED
      BY <3>1, <3>2, <3>3
  <2>4. w[p + 1] = q.payload[k]
    <3>1. k \in 1..L /\ p + 1 = 4 + k
      BY <1>1, <1>7
    <3> QED
      BY <1>2, <3>1
  <2> HIDE DEF k, old, new
  <2>5. Parsed(Met(q, p), q.payload[k]) = InFrame(IF k >= L THEN "crc" ELSE "pay", q.to, q.cmd, L, new)
    BY <2>1, <2>3, ParsedOf
  <2> QED
    BY <2>2, <2>4, <2>5 DEF w
<1>8. CASE p = 4 + L
  <2>1. Met(q, p).st = "crc"
    <3>1. p \notin {0, 1, 2, 3} /\ p # 5 + L
      BY <1>1, <1>8
    <3> QED
      BY <1>8, <3>1 DEF Met, InFrame
  <2>2. Met(q, p + 1) = NotParsing
    <3>1. p + 1 = 5 + L
      BY <1>1, <1>8
    <3> QED
      BY <3>1 DEF Met
  <2> QED
    BY <2>1, <2>2 DEF Parsed, InFrame
<1>9. p \in 0..3 \/ p \in 4..(3 + L) \/ p = 4 + L
  BY <1>1
<1> QED
  BY <1>3, <1>4, <1>5, <1>6, <1>7, <1>8, <1>9

-----------------------------------------------------------------------------
(* What it will make of the bytes that are on their way. *)

\* The k-th byte still to be taken: first those the UART holds, f, then those on
\* the bus, l.
Ahead(f, l, k) == IF k <= Len(f) THEN f[k] ELSE l[k - Len(f)]

\* How they will move the parser p.
Moved(g, p, f, l) ==
  /\ DOMAIN g = 0..(Len(f) + Len(l)) /\ g[0] = p
  /\ \A k \in 1..(Len(f) + Len(l)) : g[k] = Parsed(g[k - 1], Ahead(f, l, k))

\* It is between two frames after the last of them and, when the bus has been calm
\* for more than a millisecond, after the last the UART holds.
Phase(p, f, l, c) ==
  \E g : /\ Moved(g, p, f, l) /\ g[Len(f) + Len(l)] = NotParsing
         /\ c > 1 => g[Len(f)] = NotParsing

\* The UART gives one byte up, or takes one in: the order of those to come stays.
LEMMA AheadTaken ==
  ASSUME NEW f \in Seq(Byte), f # <<>>, NEW l \in Seq(Byte)
  PROVE  /\ Len(Tail(f)) = Len(f) - 1 /\ Len(f) \in Nat \ {0} /\ Len(l) \in Nat /\ Ahead(f, l, 1) = Head(f)
         /\ \A k \in 1..(Len(f) + Len(l) - 1) : Ahead(Tail(f), l, k) = Ahead(f, l, k + 1)
<1>1. /\ Len(Tail(f)) = Len(f) - 1 /\ Len(f) \in Nat \ {0} /\ Len(l) \in Nat /\ Head(f) = f[1]
      /\ \A k \in 1..(Len(f) - 1) : Tail(f)[k] = f[k + 1]
  BY HeadAndTail
<1>2. ASSUME NEW k \in 1..(Len(f) + Len(l) - 1) PROVE Ahead(Tail(f), l, k) = Ahead(f, l, k + 1)
  <2>1. CASE k <= Len(f) - 1
    <3>1. k \in 1..(Len(f) - 1) /\ k <= Len(Tail(f)) /\ k + 1 <= Len(f)
      BY <1>1, <2>1
    <3> QED
      BY <1>1, <3>1 DEF Ahead
  <2>2. CASE ~ (k <= Len(f) - 1)
    <3>1. ~ (k <= Len(Tail(f))) /\ ~ (k + 1 <= Len(f)) /\ k - Len(Tail(f)) = (k + 1) - Len(f)
      BY <1>1, <2>2
    <3> QED
      BY <3>1 DEF Ahead
  <2> QED
    BY <2>1, <2>2
<1>3. Ahead(f, l, 1) = Head(f)
  <2>1. 1 <= Len(f)
    BY <1>1
  <2> QED
    BY <1>1, <2>1 DEF Ahead
<1> QED
  BY <1>1, <1>2, <1>3

LEMMA AheadPassed ==
  ASSUME NEW f \in Seq(Byte), NEW l \in Seq(Byte), l # <<>>
  PROVE  /\ Len(Append(f, Head(l))) = Len(f) + 1 /\ Len(Tail(l)) = Len(l) - 1
         /\ Len(f) \in Nat /\ Len(l) \in Nat \ {0}
         /\ \A k \in 1..(Len(f) + Len(l)) : Ahead(Append(f, Head(l)), Tail(l), k) = Ahead(f, l, k)
<1>1. /\ Head(l) \in Byte /\ Len(Tail(l)) = Len(l) - 1 /\ Len(l) \in Nat \ {0} /\ Head(l) = l[1]
      /\ \A k \in 1..(Len(l) - 1) : Tail(l)[k] = l[k + 1]
  BY HeadAndTail
<1> DEFINE x == Append(f, Head(l))
<1>2. /\ Len(x) = Len(f) + 1 /\ Len(f) \in Nat /\ x[Len(f) + 1] = Head(l)
      /\ \A k \in 1..Len(f) : x[k] = f[k]
  BY <1>1
<1> HIDE DEF x
<1>3. ASSUME NEW k \in 1..(Len(f) + Len(l)) PROVE Ahead(x, Tail(l), k) = Ahead(f, l, k)
  <2>1. CASE k <= Len(f)
    <3>1. k \in 1..Len(f) /\ k <= Len(x)
      BY <1>2, <2>1
    <3> QED
      BY <1>2, <2>1, <3>1 DEF Ahead
  <2>2. CASE k = Len(f) + 1
    <3>1. k <= Len(x) /\ ~ (k <= Len(f)) /\ k - Len(f) = 1
      BY <1>2, <2>2
    <3> QED
      BY <1>1, <1>2, <2>2, <3>1 DEF Ahead
  <2>3. CASE k > Len(f) + 1
    <3>1. /\ ~ (k <= Len(x)) /\ ~ (k <= Len(f)) /\ k - Len(x) \in 1..(Len(l) - 1)
          /\ (k - Len(x)) + 1 = k - Len(f)
      BY <1>1, <1>2, <2>3
    <3> QED
      BY <1>1, <3>1 DEF Ahead
  <2> QED
    BY <1>2, <2>1, <2>2, <2>3
<1> QED
  BY <1>1, <1>2, <1>3 DEF x

\* The phase is kept by a byte that the receiver takes,
LEMMA PhaseTaken ==
  ASSUME NEW p, NEW f \in Seq(Byte), f # <<>>, NEW l \in Seq(Byte), NEW c, Phase(p, f, l, c)
  PROVE  Phase(Parsed(p, Head(f)), Tail(f), l, c)
<1> DEFINE N == Len(f) + Len(l)
           t == Tail(f)
           r == Parsed(p, Head(f))
<1>1. PICK g : Moved(g, p, f, l) /\ g[N] = NotParsing /\ (c > 1 => g[Len(f)] = NotParsing)
  BY DEF Phase
<1>2. /\ Len(t) = Len(f) - 1 /\ Len(f) \in Nat \ {0} /\ Len(l) \in Nat /\ Ahead(f, l, 1) = Head(f)
      /\ \A k \in 1..(N - 1) : Ahead(t, l, k) = Ahead(f, l, k + 1)
  BY AheadTaken
<1>3. g[0] = p /\ \A k \in 1..N : g[k] = Parsed(g[k - 1], Ahead(f, l, k))
  BY <1>1 DEF Moved
<1> HIDE DEF t
<1> DEFINE h == [k \in 0..(N - 1) |-> g[k + 1]]
<1>4. N \in Nat \ {0} /\ Len(t) + Len(l) = N - 1
  BY <1>2
<1> HIDE DEF N
<1>5. h[0] = r
  <2>1. 0 \in 0..(N - 1) /\ 0 + 1 = 1 /\ 1 \in 1..N /\ 1 - 1 = 0
    BY <1>4
  <2>2. g[1] = Parsed(g[0], Ahead(f, l, 1))
    BY <1>3, <2>1
  <2> QED
    BY <1>2, <1>3, <2>1, <2>2
<1>6. ASSUME NEW k \in 1..(N - 1) PROVE h[k] = Parsed(h[k - 1], Ahead(t, l, k))
  <2>1. k \in 0..(N - 1) /\ k - 1 \in 0..(N - 1) /\ k + 1 \in 1..N /\ (k + 1) - 1 = k /\ (k - 1) + 1 = k
    BY <1>4
  <2>2. g[k + 1] = Parsed(g[k], Ahead(f, l, k + 1))
    BY <1>3, <2>1
  <2>3. h[k] = g[k + 1] /\ h[k - 1] = g[k]
    BY <2>1
  <2> QED
    BY <1>2, <2>2, <2>3
<1>7. h[N - 1] = NotParsing /\ (c > 1 => h[Len(t)] = NotParsing)
  <2>1. N - 1 \in 0..(N - 1) /\ (N - 1) + 1 = N /\ Len(t) \in 0..(N - 1) /\ Len(t) + 1 = Len(f)
    BY <1>2, <1>4
  <2> QED
    BY <1>1, <2>1 DEF N
<1>8. DOMAIN h = 0..(N - 1)
  OBVIOUS
<1> HIDE DEF h, r
<1>9. Moved(h, r, t, l)
  BY <1>4, <1>5, <1>6, <1>8 DEF Moved
<1>10. Phase(r, t, l, c)
  BY <1>4, <1>7, <1>9 DEF Phase
<1> QED
  BY <1>10 DEF r, t

\* by a byte that arrives,
LEMMA PhasePassed ==
  ASSUME NEW p, NEW f \in Seq(Byte), NEW l \in Seq(Byte), l # <<>>, NEW c, Phase(p, f, l, c)
  PROVE  Phase(p, Append(f, Head(l)), Tail(l), 0)
<1> DEFINE x == Append(f, Head(l))
           t == Tail(l)
<1>1. PICK g : Moved(g, p, f, l) /\ g[Len(f) + Len(l)] = NotParsing
  BY DEF Phase
<1>2. /\ Len(x) = Len(f) + 1 /\ Len(t) = Len(l) - 1 /\ Len(f) \in Nat /\ Len(l) \in Nat \ {0}
      /\ \A k \in 1..(Len(f) + Len(l)) : Ahead(x, t, k) = Ahead(f, l, k)
  BY AheadPassed
<1> HIDE DEF x, t
<1>3. Len(x) + Len(t) = Len(f) + Len(l)
  BY <1>2
<1>4. Moved(g, p, x, t)
  BY <1>1, <1>2, <1>3 DEF Moved
<1>5. Phase(p, x, t, 0)
  <2>1. ~ (0 > 1)
    OBVIOUS
  <2> QED
    BY <1>1, <1>3, <1>4, <2>1 DEF Phase
<1> QED
  BY <1>5 DEF x, t

\* by a frame that the master begins to send,
LEMMA PhaseAsked ==
  ASSUME NEW p, NEW f \in Seq(Byte), NEW c, Phase(p, f, <<>>, c), NEW q \in Frame, Len(q.payload) \in Byte
  PROVE  Phase(p, f, Bytes(q), c)
<1> DEFINE w == Bytes(q)
           L == Len(q.payload)
           N == Len(f)
<1>1. PICK g : Moved(g, p, f, <<>>) /\ g[N + Len(<<>>)] = NotParsing
  BY DEF Phase
<1>2. N \in Nat /\ N + Len(<<>>) = N /\ w \in Seq(Byte) /\ Len(w) = 5 + L /\ L \in Nat
  BY BytesOfFrame, ByteTypes DEF Byte
<1>3. g[0] = p /\ g[N] = NotParsing /\ \A k \in 1..N : g[k] = Parsed(g[k - 1], f[k])
  <2>1. \A k \in 1..N : Ahead(f, <<>>, k) = f[k]
    BY <1>2 DEF Ahead
  <2> QED
    BY <1>1, <1>2, <2>1 DEF Moved
<1> DEFINE h == [k \in 0..(N + Len(w)) |-> IF k <= N THEN g[k] ELSE Met(q, k - N)]
<1> HIDE DEF N, w
<1>4. Met(q, 0) = NotParsing /\ Met(q, 5 + L) = NotParsing
  BY DEF Met
<1> HIDE DEF L
<1>5. h[0] = p /\ h[N] = NotParsing
  <2>1. 0 \in 0..(N + Len(w)) /\ 0 <= N /\ N \in 0..(N + Len(w)) /\ N <= N
    BY <1>2
  <2> QED
    BY <1>3, <2>1
<1>6. h[N + Len(w)] = NotParsing
  <2>1. N + Len(w) \in 0..(N + Len(w)) /\ ~ (N + Len(w) <= N) /\ (N + Len(w)) - N = 5 + L
    BY <1>2
  <2> QED
    BY <1>4, <2>1
<1>7. ASSUME NEW k \in 1..(N + Len(w)) PROVE h[k] = Parsed(h[k - 1], Ahead(f, w, k))
  <2>0. k \in 0..(N + Len(w)) /\ k - 1 \in 0..(N + Len(w))
    BY <1>2
  <2>1. CASE k <= N
    <3>1. k \in 1..N /\ k - 1 <= N /\ k <= Len(f)
      BY <1>2, <2>1 DEF N
    <3>2. h[k] = g[k] /\ h[k - 1] = g[k - 1] /\ Ahead(f, w, k) = f[k]
      BY <2>0, <2>1, <3>1 DEF Ahead
    <3> QED
      BY <1>3, <3>1, <3>2
  <2>2. CASE ~ (k <= N)
    <3>1. PICK j \in 0..(4 + L) : j = k - N - 1
      BY <1>2, <2>2
    <3>2. k - N = j + 1 /\ ~ (k <= Len(f)) /\ k - Len(f) = j + 1
      BY <1>2, <2>2, <3>1 DEF N
    <3>3. h[k] = Met(q, j + 1) /\ Ahead(f, w, k) = w[j + 1]
      BY <2>0, <2>2, <3>2 DEF Ahead
    <3>4. h[k - 1] = Met(q, j)
      <4>1. CASE j = 0
        <5>1. k - 1 = N
          BY <1>2, <3>1, <4>1
        <5> QED
          BY <1>4, <1>5, <4>1, <5>1
      <4>2. CASE j # 0
        <5>1. ~ (k - 1 <= N) /\ (k - 1) - N = j
          BY <1>2, <3>1, <4>2
        <5> QED
          BY <2>0, <5>1
      <4> QED
        BY <4>1, <4>2
    <3>5. Parsed(Met(q, j), w[j + 1]) = Met(q, j + 1)
      BY NextMet DEF w, L
    <3> QED
      BY <3>3, <3>4, <3>5
  <2> QED
    BY <2>1, <2>2
<1>8. DOMAIN h = 0..(N + Len(w))
  OBVIOUS
<1> HIDE DEF h
<1>9. Moved(h, p, f, w)
  BY <1>5, <1>7, <1>8 DEF Moved, N
<1>10. Phase(p, f, w, c)
  BY <1>5, <1>6, <1>9 DEF Phase, N
<1> QED
  BY <1>10 DEF w

\* and by time, for the bus is calm only when nothing is on its way.
LEMMA PhaseCalmer ==
  ASSUME NEW p, NEW f \in Seq(Byte), NEW l \in Seq(Byte), NEW c \in Nat, NEW d \in Nat, Phase(p, f, l, c),
         d = c \/ d = c + 1, l # <<>> => c = 0
  PROVE  Phase(p, f, l, d)
<1>1. PICK g : Moved(g, p, f, l) /\ g[Len(f) + Len(l)] = NotParsing /\ (c > 1 => g[Len(f)] = NotParsing)
  BY DEF Phase
<1>2. d > 1 => g[Len(f)] = NotParsing
  <2>1. CASE l = <<>>
    <3>1. Len(f) + Len(l) = Len(f)
      BY <2>1
    <3> QED
      BY <1>1, <3>1
  <2>2. CASE l # <<>>
    BY <2>2
  <2> QED
    BY <2>1, <2>2
<1> QED
  BY <1>1, <1>2 DEF Phase

\* With nothing to come it is between two frames.
LEMMA PhaseBetween ==
  \A c : Phase(NotParsing, <<>>, <<>>, c)
<1> DEFINE g == [k \in 0..0 |-> NotParsing]
<1>1. Len(<<>>) + Len(<<>>) = 0 /\ Len(<<>>) = 0
  OBVIOUS
<1>2. DOMAIN g = 0..0 /\ g[0] = NotParsing
  OBVIOUS
<1> HIDE DEF g
<1>3. Moved(g, NotParsing, <<>>, <<>>)
  <2>1. 1..0 = {}
    OBVIOUS
  <2> QED
    BY <1>1, <1>2, <2>1 DEF Moved
<1>4. ASSUME NEW c PROVE Phase(NotParsing, <<>>, <<>>, c)
  BY <1>1, <1>2, <1>3 DEF Phase
<1> QED
  BY <1>4

\* A receiver between two frames with nothing to come is in phase.
LEMMA PhaseNow ==
  ASSUME NEW p, NEW l \in Seq(Byte), NEW c, Phase(p, <<>>, l, c), c > 1 \/ l = <<>>
  PROVE  p = NotParsing
<1>1. PICK g : Moved(g, p, <<>>, l) /\ g[Len(<<>>) + Len(l)] = NotParsing /\ (c > 1 => g[Len(<<>>)] = NotParsing)
  BY DEF Phase
<1>2. g[0] = p
  BY <1>1 DEF Moved
<1>3. Len(<<>>) = 0 /\ (l = <<>> => Len(<<>>) + Len(l) = 0)
  OBVIOUS
<1> QED
  BY <1>1, <1>2, <1>3

-----------------------------------------------------------------------------
(* What becomes of a frame that arrives whole. *)

\* The parser p has had the frame q but for what is on its way.
Carries(q, p, f, l) ==
  LET n == 5 + Len(q.payload)
      N == Len(f) + Len(l)
  IN  /\ N <= n /\ p = Met(q, n - N)
      /\ \A k \in 1..N : Ahead(f, l, k) = Bytes(q)[n - N + k]

\* So it stays as the receiver takes a byte,
LEMMA CarriesTaken ==
  ASSUME NEW q \in Frame, Len(q.payload) \in Byte, NEW p, NEW f \in Seq(Byte), f # <<>>, NEW l \in Seq(Byte),
         Carries(q, p, f, l)
  PROVE  Carries(q, Parsed(p, Head(f)), Tail(f), l)
<1> DEFINE L == Len(q.payload)
           n == 5 + L
           N == Len(f) + Len(l)
           w == Bytes(q)
           t == Tail(f)
<1>1. /\ Len(t) = Len(f) - 1 /\ Len(f) \in Nat \ {0} /\ Len(l) \in Nat /\ Ahead(f, l, 1) = Head(f)
      /\ \A k \in 1..(N - 1) : Ahead(t, l, k) = Ahead(f, l, k + 1)
  BY AheadTaken
<1>2. N <= n /\ p = Met(q, n - N) /\ \A k \in 1..N : Ahead(f, l, k) = w[n - N + k]
  BY DEF Carries
<1>3. L \in Nat
  BY ByteTypes DEF Byte
<1> HIDE DEF t, w
<1>4. N \in Nat \ {0} /\ n \in Nat /\ Len(t) + Len(l) = N - 1
  BY <1>1, <1>3
<1> HIDE DEF N
<1>5. PICK j \in 0..(4 + L) : j = n - N
  BY <1>2, <1>3, <1>4
<1>6. Head(f) = w[j + 1]
  <2>1. 1 \in 1..N
    BY <1>4
  <2> QED
    BY <1>1, <1>2, <1>5, <2>1
<1>7. Parsed(p, Head(f)) = Met(q, j + 1)
  BY <1>2, <1>5, <1>6, NextMet DEF w, L
<1>8. n - (N - 1) = j + 1 /\ N - 1 <= n
  BY <1>2, <1>3, <1>4, <1>5
<1> HIDE DEF n
<1>9. ASSUME NEW k \in 1..(N - 1) PROVE Ahead(t, l, k) = w[(n - (N - 1)) + k]
  <2>1. k + 1 \in 1..N /\ n - N + (k + 1) = (n - (N - 1)) + k
    BY <1>4
  <2> QED
    BY <1>1, <1>2, <2>1
<1>10. Carries(q, Parsed(p, Head(f)), t, l)
  BY <1>4, <1>7, <1>8, <1>9 DEF Carries, n, L, w
<1> QED
  BY <1>10 DEF t

\* and as one arrives.
LEMMA CarriesPassed ==
  ASSUME NEW q \in Frame, NEW p, NEW f \in Seq(Byte), NEW l \in Seq(Byte), l # <<>>, Carries(q, p, f, l)
  PROVE  Carries(q, p, Append(f, Head(l)), Tail(l))
<1> DEFINE x == Append(f, Head(l))
           t == Tail(l)
<1>1. /\ Len(x) = Len(f) + 1 /\ Len(t) = Len(l) - 1 /\ Len(f) \in Nat /\ Len(l) \in Nat \ {0}
      /\ \A k \in 1..(Len(f) + Len(l)) : Ahead(x, t, k) = Ahead(f, l, k)
  BY AheadPassed
<1> HIDE DEF x, t
<1>2. Len(x) + Len(t) = Len(f) + Len(l)
  BY <1>1
<1>3. Carries(q, p, x, t)
  BY <1>1, <1>2 DEF Carries
<1> QED
  BY <1>3 DEF x, t

\* It is so when the frame begins.
LEMMA CarriesAll ==
  ASSUME NEW q \in Frame, Len(q.payload) \in Byte
  PROVE  Carries(q, NotParsing, <<>>, Bytes(q))
<1> DEFINE w == Bytes(q)
           n == 5 + Len(q.payload)
<1>1. w \in Seq(Byte) /\ Len(w) = n /\ n \in Nat /\ Len(<<>>) = 0
  BY BytesOfFrame, ByteTypes DEF Byte
<1> HIDE DEF w, n
<1>2. Len(<<>>) + Len(w) = n /\ n - n = 0 /\ n <= n
  BY <1>1
<1>3. ASSUME NEW k \in 1..n PROVE Ahead(<<>>, w, k) = w[0 + k]
  <2>1. ~ (k <= 0) /\ k - 0 = k /\ 0 + k = k
    OBVIOUS
  <2> QED
    BY <1>1, <2>1 DEF Ahead
<1>4. Met(q, 0) = NotParsing
  BY DEF Met
<1>5. Carries(q, NotParsing, <<>>, w)
  BY <1>2, <1>3, <1>4 DEF Carries, n, w
<1> QED
  BY <1>5 DEF w

\* The CRC is the last of it.
LEMMA CarriesLast ==
  ASSUME NEW q \in Frame, Len(q.payload) \in Byte, NEW p, NEW f \in Seq(Byte), f # <<>>, NEW l \in Seq(Byte),
         Carries(q, p, f, l)
  PROVE  /\ p.st = "crc" <=> Len(f) + Len(l) = 1
         /\ p.st = "crc" => /\ p.addr = q.to /\ p.cmd = q.cmd /\ p.buf = q.payload
                            /\ Head(f) = Crc(<<p.addr, p.cmd, p.len>> \o p.buf)
<1> DEFINE L == Len(q.payload)
           n == 5 + L
           N == Len(f) + Len(l)
<1>1. Len(f) \in Nat \ {0} /\ Len(l) \in Nat /\ Ahead(f, l, 1) = Head(f)
  BY AheadTaken
<1>2. N <= n /\ p = Met(q, n - N) /\ \A k \in 1..N : Ahead(f, l, k) = Bytes(q)[n - N + k]
  BY DEF Carries
<1>3. L \in Nat /\ q.payload \in Seq(Byte)
  BY ByteTypes DEF Byte, Frame
<1>4. N \in Nat \ {0}
  BY <1>1
<1> HIDE DEF N
<1>5. CASE N = 1
  <2>1. n - N = 4 + L /\ 4 + L # 0 /\ 4 + L # 5 + L /\ 4 + L \notin {1, 2, 3} /\ (4 + L) - 4 = L
    BY <1>3, <1>5
  <2>2. SubSeq(q.payload, 1, L) = q.payload
    <3>1. PICK x \in Seq(Byte) : x = q.payload
      BY <1>3
    <3>2. SubSeq(x, 1, Len(x)) = x
      OBVIOUS
    <3> QED
      BY <3>1, <3>2
  <2>3. Met(q, 4 + L) = InFrame("crc", q.to, q.cmd, L, SubSeq(q.payload, 1, (4 + L) - 4))
    BY <2>1 DEF Met
  <2>4. p = InFrame("crc", q.to, q.cmd, L, q.payload)
    BY <1>2, <2>1, <2>2, <2>3
  <2>5. p.st = "crc" /\ p.addr = q.to /\ p.cmd = q.cmd /\ p.len = L /\ p.buf = q.payload
    BY <2>4 DEF InFrame
  <2>6. Head(f) = Bytes(q)[5 + L]
    <3>1. 1 \in 1..N /\ n - N + 1 = 5 + L
      BY <1>3, <1>5
    <3> QED
      BY <1>1, <1>2, <3>1
  <2>7. Bytes(q)[5 + L] = Crc(Covered(q.to, q.cmd, q.payload))
    BY BytesOfFrame
  <2> QED
    BY <1>5, <2>5, <2>6, <2>7 DEF Covered, N
<1>6. CASE N # 1
  <2>1. PICK j \in 0..(3 + L) : j = n - N
    BY <1>2, <1>3, <1>4, <1>6
  <2>2. j # 5 + L /\ j # 4 + L
    BY <1>3, <2>1
  <2>3. Met(q, j).st # "crc"
    <3>1. NotParsing.st # "crc"
      BY DEF NotParsing
    <3>2. \A s, a, c, l_1, b : InFrame(s, a, c, l_1, b).st = s
      BY DEF InFrame
    <3> QED
      BY <2>2, <3>1, <3>2 DEF Met
  <2> QED
    BY <1>2, <1>6, <2>1, <2>3 DEF N
<1> QED
  BY <1>5, <1>6

\* When nothing is on its way.
LEMMA CarriesNone ==
  ASSUME NEW q \in Frame, Len(q.payload) \in Byte, NEW p, Carries(q, p, <<>>, <<>>)
  PROVE  p = NotParsing
<1> DEFINE L == Len(q.payload)
<1>1. L \in Nat /\ Len(<<>>) = 0
  BY ByteTypes DEF Byte
<1>2. Len(<<>>) + Len(<<>>) = 0 /\ (5 + L) - 0 = 5 + L
  BY <1>1
<1>3. p = Met(q, 5 + L)
  BY <1>2 DEF Carries
<1> QED
  BY <1>3 DEF Met

KeepsPhase == astray = 0 => Phase(parser, fifo, line, calm)

\* How long ago, on the clock of the main loop, the last byte of a frame under way
\* was taken, and how long the bus has been calm.
OnTime ==
  /\ astray = 0 /\ parser.st # "sof" =>
       IF fifo = <<>> THEN age <= MaxLag + calm ELSE drain \/ age <= MaxLag + 1 + lag
  /\ fifo # <<>> => calm <= lag + (IF drain THEN MaxLag ELSE 0)
  /\ parser.st # "sof" => calm <= age + MaxLag

\* The one that was asked has answered if and only if it had to.
AnsweredRight(q) ==
  /\ said \in {<<>>, <<q.to>>}
  /\ steady => (said # <<>> <=> ~ Ignored(q.to) /\ Enough(q.cmd, q.payload))

QueryOK(q) ==
  /\ astray = 0 /\ Carries(q, parser, fifo, line)
  /\ IF fifo = <<>> /\ line = <<>> THEN AnsweredRight(q) ELSE said = <<>>

QuerySound == query = <<>> \/ \E q \in Queries : query = <<q>> /\ QueryOK(q)

AnswerInv == KeepsPhase /\ OnTime /\ QuerySound

\* A frame under way is never given up by a receiver in step, and after a silence
\* it always is.
LEMMA GivenUp ==
  ASSUME EmuSound, AnswerInv, PollBegins
  PROVE  /\ astray = 0 => parser' = parser
         /\ fifo = <<>> /\ line = <<>> /\ calm = Silence + MaxLag + 1 => parser' = NotParsing
<1>1. /\ parser' = IF parser.st # "sof" /\ age > Silence THEN NotParsing ELSE parser
      /\ ~ drain
  BY DEF PollBegins
<1>2. /\ age \in Nat /\ lag \in 0..MaxLag /\ calm \in Nat /\ ParserOK(parser) /\ line \in Seq(Byte)
      /\ Silence \in Nat /\ MaxLag \in Nat /\ Silence >= 2 * MaxLag + 1
  BY EmuFacts DEF EmuSound
<1>3. ASSUME astray = 0 PROVE parser' = parser
  <2>1. CASE parser.st = "sof"
    BY <1>1, <2>1
  <2>2. CASE parser.st # "sof" /\ fifo # <<>>
    <3>1. age <= MaxLag + 1 + lag
      BY <1>1, <1>3, <2>2 DEF AnswerInv, OnTime
    <3>2. ~ (age > Silence)
      BY <1>2, <3>1
    <3> QED
      BY <1>1, <3>2
  <2>3. CASE parser.st # "sof" /\ fifo = <<>>
    <3>1. age <= MaxLag + calm
      BY <1>3, <2>3 DEF AnswerInv, OnTime
    <3>2. parser # NotParsing /\ Phase(parser, <<>>, line, calm)
      BY <1>3, <2>3 DEF AnswerInv, KeepsPhase, NotParsing
    <3>3. ~ (calm > 1)
      BY <1>2, <3>2, PhaseNow
    <3>4. ~ (age > Silence)
      BY <1>2, <3>1, <3>3
    <3> QED
      BY <1>1, <3>4
  <2> QED
    BY <2>1, <2>2, <2>3
<1>4. ASSUME calm = Silence + MaxLag + 1 PROVE parser' = NotParsing
  <2>1. CASE parser.st = "sof"
    <3>1. parser = NotParsing
      BY <1>2, <2>1 DEF ParserOK
    <3> QED
      BY <1>1, <2>1, <3>1
  <2>2. CASE parser.st # "sof"
    <3>1. calm <= age + MaxLag
      BY <2>2 DEF AnswerInv, OnTime
    <3>2. age > Silence
      BY <1>2, <1>4, <3>1
    <3> QED
      BY <1>1, <2>2, <3>2
  <2> QED
    BY <2>1, <2>2
<1> QED
  BY <1>3, <1>4

\* What the master asked is kept by a step that says nothing and touches no device,
LEMMA QueryKept ==
  ASSUME EmuSound, EmuSound', QuerySound, UNCHANGED <<query, parser, fifo, line, astray, said>>,
         (SameStations /\ steady' = steady) \/ steady' = FALSE \/ query = <<>>
  PROVE  QuerySound'
<1>1. CASE query = <<>>
  BY <1>1 DEF QuerySound
<1>2. CASE query # <<>>
  <2>1. PICK q \in Queries : query = <<q>> /\ QueryOK(q)
    BY <1>2 DEF QuerySound
  <2>2. AnsweredRight(q) => AnsweredRight(q)'
    <3>1. CASE SameStations /\ steady' = steady
      <4>1. Ignored(q.to)' = Ignored(q.to)
        BY <3>1, StationsKept DEF EmuSound
      <4> QED
        BY <3>1, <4>1 DEF AnsweredRight
    <3>2. CASE steady' = FALSE
      BY <3>2 DEF AnsweredRight
    <3> QED
      BY <1>2, <3>1, <3>2
  <2>3. QueryOK(q)'
    BY <2>1, <2>2 DEF QueryOK
  <2> QED
    BY <2>1, <2>3 DEF QuerySound
<1> QED
  BY <1>1, <1>2

\* and the phase by one that moves no byte.
LEMMA PhaseKept ==
  ASSUME KeepsPhase, OnTime, UNCHANGED <<parser, fifo, line, calm, astray, age, lag, drain>>
  PROVE  KeepsPhase' /\ OnTime'
BY DEF KeepsPhase, OnTime

\* Each step keeps the invariant: beginning to drain the FIFO,
LEMMA PollAnswers ==
  ASSUME EmuSound, EmuSound', AnswerInv, PollBegins
  PROVE  AnswerInv'
<1>1. /\ ~ drain /\ drain' = TRUE /\ lag' = 0
      /\ parser' = IF parser.st # "sof" /\ age > Silence THEN NotParsing ELSE parser
      /\ astray' = IF line = <<>> /\ fifo = <<>> /\ calm = Silence + MaxLag + 1 THEN 0 ELSE astray
      /\ UNCHANGED <<devs, pinLow, fifo, age, todo, sends, line, calm, trouble, query, steady, said>>
  BY DEF PollBegins
<1>2. /\ astray = 0 => parser' = parser
      /\ fifo = <<>> /\ line = <<>> /\ calm = Silence + MaxLag + 1 => parser' = NotParsing
  BY GivenUp
<1>3. /\ lag \in Nat /\ lag <= MaxLag /\ calm \in Nat /\ age \in Nat /\ MaxLag \in Nat
  BY EmuFacts DEF EmuSound
<1>4. KeepsPhase /\ OnTime /\ QuerySound
  BY DEF AnswerInv
<1>5. KeepsPhase'
  <2>1. CASE astray = 0
    BY <1>1, <1>2, <1>4, <2>1 DEF KeepsPhase
  <2>2. CASE astray # 0 /\ astray' = 0
    <3>1. line' = <<>> /\ fifo' = <<>> /\ parser' = NotParsing
      BY <1>1, <1>2, <2>2
    <3> QED
      BY <3>1, PhaseBetween DEF KeepsPhase
  <2> QED
    BY <2>1, <2>2 DEF KeepsPhase
<1>6. OnTime'
  <2>1. ASSUME astray' = 0, parser'.st # "sof", fifo' = <<>> PROVE age' <= MaxLag + calm'
    <3>1. parser' # NotParsing
      BY <2>1 DEF NotParsing
    <3>2. parser' = parser /\ astray = 0
      BY <1>1, <1>2, <2>1, <3>1
    <3> QED
      BY <1>1, <1>4, <2>1, <3>2 DEF OnTime
  <2>2. ASSUME fifo' # <<>> PROVE calm' <= lag' + MaxLag
    <3>1. calm <= lag + 0
      BY <1>1, <1>4, <2>2 DEF OnTime
    <3> QED
      BY <1>1, <1>3, <3>1
  <2>3. ASSUME parser'.st # "sof" PROVE calm' <= age' + MaxLag
    <3>1. parser' = parser
      BY <1>1, <2>3 DEF NotParsing
    <3> QED
      BY <1>1, <1>4, <2>3, <3>1 DEF OnTime
  <2> QED
    BY <1>1, <2>1, <2>2, <2>3 DEF OnTime
<1>7. QuerySound'
  <2>1. CASE query = <<>>
    BY <1>1, <2>1 DEF QuerySound
  <2>2. CASE query # <<>>
    <3>1. astray = 0
      BY <1>4, <2>2 DEF QuerySound, QueryOK
    <3>2. astray' = astray /\ parser' = parser
      BY <1>1, <1>2, <3>1
    <3>3. SameStations
      BY PollSound
    <3> QED
      BY <1>1, <1>4, <3>2, <3>3, QueryKept
  <2> QED
    BY <2>1, <2>2
<1> QED
  BY <1>5, <1>6, <1>7 DEF AnswerInv

\* taking a byte, the last of the frame among them,
LEMMA TakeAnswers ==
  ASSUME EmuSound, EmuSound', AnswerInv, TakeRsByte
  PROVE  AnswerInv'
<1>1. /\ drain = TRUE /\ fifo # <<>> /\ fifo' = Tail(fifo) /\ parser' = Parsed(parser, Head(fifo))
      /\ age' = IF parser'.st = "sof" THEN 0 ELSE lag
      /\ IF parser.st = "crc" /\ Head(fifo) = Crc(<<parser.addr, parser.cmd, parser.len>> \o parser.buf)
           THEN EmuDispatch(parser.addr, parser.cmd, parser.buf) ELSE UNCHANGED <<devs, sends, said>>
      /\ UNCHANGED <<pinLow, lag, drain, todo, line, calm, trouble, astray, query, steady>>
  BY DEF TakeRsByte, AgeWithByte, EmuSound
<1>2. /\ lag \in Nat /\ lag <= MaxLag /\ calm \in Nat /\ MaxLag \in Nat
      /\ fifo \in Seq(Byte) /\ line \in Seq(Byte) /\ DevicesSound /\ sends \in Replies /\ ParserOK(parser)
  BY EmuFacts DEF EmuSound
<1>3. KeepsPhase /\ OnTime /\ QuerySound
  BY DEF AnswerInv
<1>4. KeepsPhase'
  <2>1. Phase(parser, fifo, line, calm) => Phase(parser', fifo', line', calm')
    BY <1>1, <1>2, PhaseTaken
  <2> QED
    BY <1>1, <1>3, <2>1 DEF KeepsPhase
<1>5. OnTime'
  <2>1. calm <= lag + MaxLag
    BY <1>1, <1>3 DEF OnTime
  <2>2. ASSUME parser'.st # "sof" PROVE age' = lag'
    BY <1>1, <2>2
  <2> QED
    BY <1>1, <1>2, <2>1, <2>2 DEF OnTime
<1>6. QuerySound'
  <2>1. CASE query = <<>>
    BY <1>1, <2>1 DEF QuerySound
  <2>2. CASE query # <<>>
    <3>1. PICK q \in Queries : query = <<q>> /\ QueryOK(q)
      BY <1>3, <2>2 DEF QuerySound
    <3>2. q \in Frame /\ Len(q.payload) \in Byte /\ q.to \in Byte /\ q.cmd \in Byte /\ q.payload \in Seq(Byte)
      BY EmuFacts DEF Frame
    <3>3. astray = 0 /\ Carries(q, parser, fifo, line) /\ said = <<>>
      BY <1>1, <3>1 DEF QueryOK
    <3>4. Carries(q, parser', fifo', line')
      BY <1>1, <1>2, <3>2, <3>3, CarriesTaken
    <3>5. /\ parser.st = "crc" <=> Len(fifo) + Len(line) = 1
          /\ parser.st = "crc" => /\ parser.addr = q.to /\ parser.cmd = q.cmd /\ parser.buf = q.payload
                                  /\ Head(fifo) = Crc(<<parser.addr, parser.cmd, parser.len>> \o parser.buf)
      BY <1>1, <1>2, <3>2, <3>3, CarriesLast
    <3>6. (fifo' = <<>> /\ line' = <<>>) <=> Len(fifo) + Len(line) = 1
      <4>1. PICK t \in Seq(Byte), l \in Seq(Byte) : t = fifo' /\ l = line' /\ line = l
        BY <1>1, <1>2, HeadAndTail
      <4>2. Len(t) = Len(fifo) - 1 /\ Len(fifo) \in Nat \ {0}
        BY <1>1, <1>2, <4>1, HeadAndTail
      <4>3. (t = <<>> <=> Len(t) = 0) /\ (l = <<>> <=> Len(l) = 0) /\ Len(t) \in Nat /\ Len(l) \in Nat
        OBVIOUS
      <4> QED
        BY <4>1, <4>2, <4>3
    <3>7. CASE parser.st = "crc"
      <4>1. EmuDispatch(q.to, q.cmd, q.payload)
        BY <1>1, <3>5, <3>7
      <4>2. /\ SameStations
            /\ Ignored(q.to) => said' = said
            /\ ~ Ignored(q.to) /\ query # <<>> =>
                 IF Enough(q.cmd, q.payload) THEN \E x : sends' = <<x>> /\ x.from = q.to /\ said' = said \o <<q.to>>
                                             ELSE said' = said \o <<>>
        BY <1>2, <3>2, <4>1, DispatchedWell
      <4>3. Ignored(q.to)' = Ignored(q.to)
        BY <4>2, StationsKept DEF EmuSound
      <4>4. <<>> \o <<q.to>> = <<q.to>> /\ <<>> \o <<>> = <<>> /\ <<q.to>> # <<>>
        BY <3>2
      <4>5. AnsweredRight(q)'
        <5>1. CASE Ignored(q.to)
          BY <3>3, <4>2, <4>3, <5>1 DEF AnsweredRight
        <5>2. CASE ~ Ignored(q.to) /\ Enough(q.cmd, q.payload)
          <6>1. said' = <<q.to>>
            BY <2>2, <3>3, <4>2, <4>4, <5>2
          <6> QED
            BY <4>3, <4>4, <5>2, <6>1 DEF AnsweredRight
        <5>3. CASE ~ Ignored(q.to) /\ ~ Enough(q.cmd, q.payload)
          <6>1. said' = <<>>
            BY <2>2, <3>3, <4>2, <4>4, <5>3
          <6> QED
            BY <5>3, <6>1 DEF AnsweredRight
        <5> QED
          BY <5>1, <5>2, <5>3
      <4> QED
        BY <1>1, <3>1, <3>3, <3>4, <3>5, <3>6, <3>7, <4>5 DEF QuerySound, QueryOK
    <3>8. CASE parser.st # "crc"
      <4>1. said' = said
        BY <1>1, <3>8
      <4> QED
        BY <1>1, <3>1, <3>3, <3>4, <3>5, <3>6, <3>8, <4>1 DEF QuerySound, QueryOK
    <3> QED
      BY <3>7, <3>8
  <2> QED
    BY <2>1, <2>2
<1> QED
  BY <1>4, <1>5, <1>6 DEF AnswerInv

\* a step that leaves the receiver and the frame alone,
LEMMA StillAnswers ==
  ASSUME EmuSound, EmuSound', AnswerInv,
         UNCHANGED <<parser, fifo, line, calm, astray, age, lag, drain, query, said>>,
         (SameStations /\ steady' = steady) \/ steady' = FALSE \/ query = <<>>
  PROVE  AnswerInv'
BY PhaseKept, QueryKept DEF AnswerInv

\* the periodic pass,
LEMMA PeriodicAnswers ==
  ASSUME EmuSound, EmuSound', AnswerInv, PeriodicTick
  PROVE  AnswerInv'
<1>1. /\ fifo = <<>> /\ SameStations
      /\ UNCHANGED <<fifo, parser, age, lag, sends, line, calm, trouble, astray, query, steady, said>>
  BY PeriodicSound DEF PeriodicTick
<1>2. KeepsPhase' /\ OnTime'
  BY <1>1 DEF AnswerInv, KeepsPhase, OnTime
<1>3. QuerySound'
  BY <1>1, QueryKept DEF AnswerInv
<1> QED
  BY <1>2, <1>3 DEF AnswerInv

\* the command line and the web page,
LEMMA PokeAnswers ==
  ASSUME EmuSound, EmuSound', AnswerInv, NEW c \in Pokes, PokeDevice(c)
  PROVE  AnswerInv'
<1>1. UNCHANGED <<pinLow, fifo, parser, age, lag, drain, todo, sends, line, calm, astray, query, said>>
  BY DEF PokeDevice
<1>2. steady' = FALSE \/ query = <<>>
  BY DEF PokeDevice
<1> QED
  BY <1>1, <1>2, StillAnswers

\* a frame of the master,
LEMMA AskAnswers ==
  ASSUME EmuSound, EmuSound', AnswerInv, NEW q \in Queries, AskBegins(q)
  PROVE  AnswerInv'
<1>1. /\ line = <<>> /\ line' = Bytes(q) /\ said' = <<>>
      /\ IF astray = 0 THEN astray' = astray ELSE astray' = astray + 1
      /\ query' = IF astray = 0 /\ fifo = <<>> THEN <<q>> ELSE <<>>
      /\ UNCHANGED <<devs, pinLow, fifo, parser, age, lag, drain, todo, sends, calm, trouble>>
  BY DEF AskBegins
<1>2. astray' = 0 => astray = 0
  <2>1. astray \in Nat
    BY DEF EmuSound
  <2> QED
    BY <1>1, <2>1
<1>3. q \in Frame /\ Len(q.payload) \in Byte /\ fifo \in Seq(Byte)
  BY EmuFacts DEF EmuSound
<1>4. KeepsPhase /\ OnTime
  BY DEF AnswerInv
<1>5. KeepsPhase'
  <2>1. ASSUME astray = 0 PROVE Phase(parser, fifo, Bytes(q), calm)
    <3>1. Phase(parser, fifo, <<>>, calm)
      BY <1>1, <1>4, <2>1 DEF KeepsPhase
    <3> QED
      BY <1>3, <3>1, PhaseAsked
  <2> QED
    BY <1>1, <1>2, <2>1 DEF KeepsPhase
<1>6. OnTime'
  BY <1>1, <1>2, <1>4 DEF OnTime
<1>7. QuerySound'
  <2>1. CASE astray = 0 /\ fifo = <<>>
    <3>1. parser = NotParsing
      <4>1. Phase(parser, <<>>, <<>>, calm)
        BY <1>1, <1>4, <2>1 DEF KeepsPhase
      <4>2. <<>> \in Seq(Byte)
        OBVIOUS
      <4> QED
        BY <4>1, <4>2, PhaseNow
    <3>2. Carries(q, NotParsing, <<>>, Bytes(q))
      BY <1>3, CarriesAll
    <3>3. Bytes(q) # <<>>
      <4>1. Len(Bytes(q)) = 5 + Len(q.payload) /\ Len(q.payload) \in Nat
        BY <1>3, BytesOfFrame, ByteTypes DEF Byte
      <4> QED
        BY <4>1
    <3>4. QueryOK(q)'
      BY <1>1, <2>1, <3>1, <3>2, <3>3 DEF QueryOK
    <3> QED
      BY <1>1, <2>1, <3>4 DEF QuerySound
  <2>2. CASE ~ (astray = 0 /\ fifo = <<>>)
    BY <1>1, <2>2 DEF QuerySound
  <2> QED
    BY <2>1, <2>2
<1> QED
  BY <1>5, <1>6, <1>7 DEF AnswerInv

\* a byte of it that arrives,
LEMMA ByteAnswers ==
  ASSUME EmuSound, EmuSound', AnswerInv, AskByte
  PROVE  AnswerInv'
<1>1. /\ line # <<>> /\ line' = Tail(line) /\ calm' = 0
      /\ UNCHANGED <<devs, pinLow, parser, age, lag, drain, todo, sends>>
  BY DEF AskByte
<1>2. /\ lag \in Nat /\ calm \in Nat /\ age \in Nat /\ MaxLag \in Nat /\ drain \in BOOLEAN
      /\ fifo \in Seq(Byte) /\ line \in Seq(Byte) /\ Head(line) \in Byte
  BY <1>1, EmuFacts, HeadAndTail DEF EmuSound
<1>3. KeepsPhase /\ OnTime /\ QuerySound
  BY DEF AnswerInv
<1>4. CASE fifo' = Append(fifo, Head(line)) /\ UNCHANGED <<trouble, astray, query, steady, said>>
  <2>1. fifo' # <<>>
    <3>1. Len(Append(fifo, Head(line))) = Len(fifo) + 1 /\ Len(fifo) \in Nat
      BY <1>2
    <3>2. Append(fifo, Head(line)) # <<>>
      BY <3>1
    <3> QED
      BY <1>4, <3>2
  <2>2. KeepsPhase'
    <3>1. Phase(parser, fifo, line, calm) => Phase(parser, Append(fifo, Head(line)), Tail(line), 0)
      BY <1>1, <1>2, PhasePassed
    <3> QED
      BY <1>1, <1>3, <1>4, <3>1 DEF KeepsPhase
  <2>3. ASSUME astray = 0, parser.st # "sof", drain # TRUE PROVE age <= MaxLag + 1 + lag
    <3>1. CASE fifo # <<>>
      BY <1>2, <1>3, <2>3, <3>1 DEF OnTime
    <3>2. CASE fifo = <<>>
      <4>1. age <= MaxLag + calm
        BY <1>3, <2>3, <3>2 DEF OnTime
      <4>2. parser # NotParsing /\ Phase(parser, <<>>, line, calm)
        BY <1>3, <2>3, <3>2 DEF KeepsPhase, NotParsing
      <4>3. ~ (calm > 1)
        BY <1>2, <4>2, PhaseNow
      <4> QED
        BY <1>2, <4>1, <4>3
    <3> QED
      BY <3>1, <3>2
  <2>4. OnTime'
    <3>1. lag + (IF drain THEN MaxLag ELSE 0) >= 0 /\ age + MaxLag >= 0
      BY <1>2
    <3> QED
      BY <1>1, <1>2, <1>4, <2>1, <2>3, <3>1 DEF OnTime
  <2>5. QuerySound'
    <3>1. CASE query = <<>>
      BY <1>4, <3>1 DEF QuerySound
    <3>2. CASE query # <<>>
      <4>1. PICK q \in Queries : query = <<q>> /\ QueryOK(q)
        BY <1>3, <3>2 DEF QuerySound
      <4>2. q \in Frame
        BY EmuFacts
      <4>3. Carries(q, parser, Append(fifo, Head(line)), Tail(line)) /\ said = <<>> /\ astray = 0
        BY <1>1, <1>2, <4>1, <4>2, CarriesPassed DEF QueryOK
      <4>4. QueryOK(q)'
        BY <1>1, <1>4, <2>1, <4>3 DEF QueryOK
      <4> QED
        BY <1>4, <4>1, <4>4 DEF QuerySound
    <3> QED
      BY <3>1, <3>2
  <2> QED
    BY <2>2, <2>4, <2>5 DEF AnswerInv
<1>5. CASE fifo' = fifo /\ astray' = (IF astray = 0 THEN 1 ELSE astray) /\ query' = <<>>
  <2>1. astray' # 0
    BY <1>5
  <2>2. KeepsPhase' /\ QuerySound'
    BY <1>5, <2>1 DEF KeepsPhase, QuerySound
  <2>3. OnTime'
    <3>1. lag + (IF drain THEN MaxLag ELSE 0) >= 0 /\ age + MaxLag >= 0
      BY <1>2
    <3> QED
      BY <1>1, <1>5, <2>1, <3>1 DEF OnTime
  <2> QED
    BY <2>2, <2>3 DEF AnswerInv
<1> QED
  BY <1>4, <1>5 DEF AskByte

\* and a millisecond.
LEMMA TickAnswers ==
  ASSUME EmuSound, EmuSound', AnswerInv, EmuTick
  PROVE  AnswerInv'
<1>1. /\ lag' = lag + 1 /\ (line # <<>> => calm = 0)
      /\ age' = (IF parser.st = "sof" THEN 0 ELSE Aged(age, Silence + 1)) /\ calm' = Aged(calm, Silence + MaxLag + 1)
      /\ UNCHANGED <<pinLow, fifo, parser, drain, todo, sends, line, trouble, astray, query, steady, said>>
  BY DEF EmuTick
<1>2. /\ lag \in Nat /\ calm \in Nat /\ age \in Nat /\ MaxLag \in Nat /\ drain \in BOOLEAN /\ Silence \in Nat
      /\ age <= Silence + 1 /\ calm <= Silence + MaxLag + 1
      /\ fifo \in Seq(Byte) /\ line \in Seq(Byte)
  BY EmuFacts DEF EmuSound
<1>3. KeepsPhase /\ OnTime /\ QuerySound
  BY DEF AnswerInv
<1>4. /\ calm' \in Nat /\ (calm' = calm \/ calm' = calm + 1) /\ calm' <= Silence + MaxLag + 1
      /\ (calm < Silence + MaxLag + 1 => calm' = calm + 1)
  BY <1>1, <1>2 DEF Aged
<1>5. parser.st # "sof" => /\ age' \in Nat /\ (age' = age + 1 \/ age' = Silence + 1) /\ age' <= Silence + 1
                           /\ age' <= age + 1
  BY <1>1, <1>2 DEF Aged
<1>6. KeepsPhase'
  <2>1. Phase(parser, fifo, line, calm) => Phase(parser, fifo, line, calm')
    BY <1>1, <1>2, <1>4, PhaseCalmer
  <2> QED
    BY <1>1, <1>3, <2>1 DEF KeepsPhase
<1>7. OnTime'
  <2>1. ASSUME astray = 0, parser.st # "sof", fifo = <<>> PROVE age' <= MaxLag + calm'
    <3>1. age <= MaxLag + calm
      BY <1>3, <2>1 DEF OnTime
    <3> QED
      BY <1>2, <1>4, <1>5, <2>1, <3>1
  <2>2. ASSUME astray = 0, parser.st # "sof", fifo # <<>>, drain = FALSE PROVE age' <= MaxLag + 1 + lag'
    <3>1. age <= MaxLag + 1 + lag
      BY <1>3, <2>2 DEF OnTime
    <3> QED
      BY <1>1, <1>2, <1>5, <2>2, <3>1
  <2>3. ASSUME fifo # <<>> PROVE calm' <= lag' + (IF drain THEN MaxLag ELSE 0)
    <3>1. calm <= lag + (IF drain THEN MaxLag ELSE 0)
      BY <1>3, <2>3 DEF OnTime
    <3>2. PICK x \in Nat : x = IF drain THEN MaxLag ELSE 0
      BY <1>2
    <3> QED
      BY <1>1, <1>2, <1>4, <3>1, <3>2
  <2>4. ASSUME parser.st # "sof" PROVE calm' <= age' + MaxLag
    <3>1. calm <= age + MaxLag
      BY <1>3, <2>4 DEF OnTime
    <3> QED
      BY <1>2, <1>4, <1>5, <2>4, <3>1
  <2> QED
    BY <1>1, <1>2, <2>1, <2>2, <2>3, <2>4 DEF OnTime
<1>8. QuerySound'
  BY <1>1, <1>3, EmuTickSound, QueryKept
<1> QED
  BY <1>6, <1>7, <1>8 DEF AnswerInv

\* The inductive invariant: the receiver is between two frames once the bytes on their way
\* are taken, what it waits for comes in time, and the frame under way is met byte by byte.
LEMMA AnswerInvIsInvariant == EmuSpec => []AnswerInv
<1>1. EmuInit => AnswerInv
  <2> SUFFICES ASSUME EmuInit PROVE AnswerInv
    OBVIOUS
  <2>1. parser = NotParsing /\ fifo = <<>> /\ line = <<>> /\ calm = 0 /\ query = <<>> /\ parser.st = "sof"
    BY DEF EmuInit, NotParsing
  <2> QED
    BY <2>1, PhaseBetween DEF AnswerInv, KeepsPhase, OnTime, QuerySound
<1>2. EmuSound /\ EmuSound' /\ AnswerInv /\ [EmuNext]_emuVars => AnswerInv'
  <2> SUFFICES ASSUME EmuSound, EmuSound', AnswerInv, [EmuNext]_emuVars PROVE AnswerInv'
    OBVIOUS
  <2>1. CASE PollBegins
    BY <2>1, PollAnswers
  <2>2. CASE TakeRsByte
    BY <2>2, TakeAnswers
  <2>3. CASE TxEnds
    BY <2>3, TxEndsSound, StillAnswers DEF TxEnds
  <2>4. CASE PeriodicTick
    BY <2>4, PeriodicAnswers
  <2>5. CASE SendStream
    BY <2>5, StreamsSound, StillAnswers DEF SendStream
  <2>6. ASSUME NEW c \in Pokes, CliPoll(c) \/ AppHttp(c) PROVE AnswerInv'
    BY <2>6, PokeAnswers DEF CliPoll, AppHttp
  <2>7. ASSUME NEW q \in Queries, AskBegins(q) PROVE AnswerInv'
    BY <2>7, AskAnswers
  <2>8. CASE AskByte
    BY <2>8, ByteAnswers
  <2>9. CASE EmuTick
    BY <2>9, TickAnswers
  <2>10. CASE UNCHANGED emuVars
    <3>1. SameStations /\ UNCHANGED emuVars
      BY <2>10 DEF emuVars, SameStations
    <3> QED
      BY <3>1, StillAnswers DEF emuVars
  <2> QED
    BY <2>1, <2>2, <2>3, <2>4, <2>5, <2>6, <2>7, <2>8, <2>9, <2>10 DEF EmuNext
<1> QED
  BY <1>1, <1>2, EmuSoundIsInvariant, PTL DEF EmuSpec

\* It gives the property.
LEMMA InvAnswers == AnswerInv => AnswersOnce
<1> SUFFICES ASSUME AnswerInv, line = <<>>, fifo = <<>>, NEW k \in DOMAIN query
             PROVE  /\ said \in {<<>>, <<query[k].to>>}
                    /\ steady => (said # <<>> <=> ~ Ignored(query[k].to) /\ Enough(query[k].cmd, query[k].payload))
  BY DEF AnswersOnce, Enough
<1>1. query # <<>>
  OBVIOUS
<1>2. PICK q \in Queries : query = <<q>> /\ QueryOK(q)
  BY <1>1 DEF AnswerInv, QuerySound
<1>3. query[k] = q
  BY <1>2
<1>4. AnsweredRight(q)
  BY <1>2 DEF QueryOK
<1> QED
  BY <1>3, <1>4 DEF AnsweredRight

\* A frame that arrives whole at a receiver in step is answered at most once, and by the
\* device that was asked; if nobody touched the devices meanwhile, it is answered exactly when
\* such a device is enabled and the frame has the parameters its command needs.  The receiver
\* never gives such a frame up, though it measures the silence with a clock that it reads
\* late: the silence is longer than two such delays.  For any devices, frames and FIFO.
THEOREM AnswersAreRight == EmuSpec => []AnswersOnce
BY AnswerInvIsInvariant, InvAnswers, PTL

-----------------------------------------------------------------------------
(* The byte protocols together. *)

LEMMA NodesInit == Init => FramingInit /\ SlaveInit /\ EmuInit
BY DEF Init

LEMMA NodesStep ==
  [Next]_vars => [FramingNext]_framingVars /\ [SlaveNext]_slaveVars /\ [EmuNext]_emuVars
BY Zenon DEF Next, vars

\* The TypeOK of the byte protocols together: no receiver, of the Pico, the Pi, a
\* peripheral or the emulator, leaves its buffer (usb_cdc.c, picolink.cpp,
\* rs485_slave.c, MODBUSTester.c), whatever arrives.
THEOREM NodesTypeCorrect == Spec => []TypeOK
<1>1. Spec => FramingSpec /\ SlaveSpec /\ EmuSpec
  BY NodesInit, NodesStep, PTL DEF Spec, FramingSpec, SlaveSpec, EmuSpec
<1>2. FramingTypeOK /\ SlaveTypeOK /\ EmuTypeOK => TypeOK
  BY DEF TypeOK
<1> QED
  BY <1>1, <1>2, FramingTypeCorrect, SlaveTypeCorrect, EmulatorTypeCorrect, PTL

=============================================================================
