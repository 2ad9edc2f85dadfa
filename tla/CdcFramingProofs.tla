-------------------------- MODULE CdcFramingProofs --------------------------
(***************************************************************************)
(* A receiver either is in phase with the sender (it has the bytes of the  *)
(* frame on its way, or waits for an SOF and none is left in that frame),  *)
(* or it has all bytes since the last loss in what it takes for a frame.   *)
(* It has no room for Longest of them, so that after as many it is in      *)
(* phase, and what is in phase receives whole frames.                      *)
(***************************************************************************)
EXTENDS CdcFraming, SequenceTheorems, WellFoundedInduction, TLAPS

\* A length is the low byte and Values times the high byte.
LEMMA DivisionFacts ==
  ASSUME NEW V \in Nat, V > 1, NEW n \in Nat, n < V * V
  PROVE  n % V \in 0..(V - 1) /\ n \div V \in 0..(V - 1) /\ (n % V) + (n \div V) * V = n
<1>1. n % V \in 0..(V - 1) /\ n \div V \in Nat
  OBVIOUS
<1>2. (n % V) + (n \div V) * V = n
  OBVIOUS
<1>3. n \div V < V
  OBVIOUS
<1> QED
  BY <1>1, <1>2, <1>3

LEMMA ConstantTypes ==
  Values \in Nat /\ Values > 1 /\ MaxPayload \in Nat
  BY CdcFramingAssumption

LEMMA LengthFacts ==
  ASSUME NEW V \in Nat, V > 1, NEW a \in 0..(V - 1), NEW b \in 0..(V - 1)
  PROVE  a + b * V \in 0..(V * V - 1)
OBVIOUS

\* Induction over the natural numbers, stated for a set: the least number outside.
LEMMA LeastNat ==
  ASSUME NEW T, T \subseteq Nat, T # {}
  PROVE  \E x \in T : \A y \in T : x <= y
<1> DEFINE R == {ss \in Nat \X Nat : ss[1] < ss[2]}
<1>1. IsWellFoundedOn(R, Nat)
  BY NatLessThanWellFounded DEF OpToRel
<1>2. \E x \in T : \A y \in T : ~ (<<y, x>> \in R)
  <2> HIDE DEF R
  <2> QED
    BY <1>1, WFMin, Zenon
<1>3. PICK x \in T : \A y \in T : ~ (<<y, x>> \in R)
  BY <1>2
<1>4. ASSUME NEW y \in T PROVE x <= y
  <2>1. x \in Nat /\ y \in Nat
    OBVIOUS
  <2>2. <<y, x>> \notin R
    BY <1>3
  <2>3. ~ (y < x)
    BY <2>1, <2>2
  <2> QED
    BY <2>1, <2>3
<1> QED
  BY <1>4

LEMMA SetInduction ==
  ASSUME NEW S, 0 \in S, \A n \in Nat : n \in S => n + 1 \in S
  PROVE  Nat \subseteq S
<1> SUFFICES ASSUME Nat \ S # {} PROVE FALSE
  OBVIOUS
<1>1. PICK x \in Nat \ S : \A y \in Nat \ S : x <= y
  BY LeastNat
<1>2. x # 0 /\ x - 1 \in Nat
  BY <1>1
<1>3. x - 1 \in S
  BY <1>1, <1>2
<1> QED
  BY <1>1, <1>2, <1>3

\* The recursive function that Checksum chooses exists, and its values are bytes.
LEMMA ChecksumIsByte ==
  ASSUME NEW type \in Octet, NEW len \in Nat, len < Values * Values, NEW payload \in Seq(Octet)
  PROVE  Checksum(type, len, payload) \in Octet
<1> USE CdcFramingAssumption
<1> DEFINE n == Len(payload)
           start == ExOr(ExOr(type, len % Values), len \div Values)
           Next(a, k) == ExOr(a, payload[k])
           Run(g, m) == g = [k \in 0..m |-> IF k = 0 THEN start ELSE Next(g[k - 1], k)]
<1>1. start \in Octet
  <2>1. len % Values \in Octet /\ len \div Values \in Octet
    <3>1. Values \in Nat /\ Values > 1
      OBVIOUS
    <3> QED
      BY <3>1, DivisionFacts DEF Octet
  <2> QED
    BY <2>1
<1>2. n \in Nat /\ \A a \in Octet, k \in 1..n : Next(a, k) \in Octet
  BY ElementOfSeq, LenProperties
<1> HIDE DEF start, Next, n
<1>3. \E g : Run(g, n)
  <2> DEFINE Good(g, m) == /\ g \in [0..m -> Octet]
                           /\ \A k \in 0..m : g[k] = IF k = 0 THEN start ELSE Next(g[k - 1], k)
             S == {m \in Nat : m <= n => \E g : Good(g, m)}
  <2>1. 0 \in S
    <3>1. Good([k \in 0..0 |-> start], 0)
      BY <1>1
    <3> QED
      BY <3>1
  <2>2. ASSUME NEW m \in Nat, m \in S PROVE m + 1 \in S
    <3> HIDE DEF Good
    <3> SUFFICES ASSUME m + 1 <= n PROVE \E h : Good(h, m + 1)
      OBVIOUS
    <3>1. PICK g : Good(g, m)
      <4>1. m <= n
        BY <1>2
      <4> QED
        BY <2>2, <4>1, Zenon
    <3> DEFINE h == [k \in 0..(m + 1) |-> IF k <= m THEN g[k] ELSE Next(g[m], m + 1)]
    <3>2. Next(g[m], m + 1) \in Octet
      <4>1. g[m] \in Octet /\ m + 1 \in 1..n
        BY <3>1, <1>2 DEF Good
      <4> QED
        BY <4>1, <1>2
    <3>3. h \in [0..(m + 1) -> Octet]
      BY <3>1, <3>2 DEF Good
    <3>4. ASSUME NEW k \in 0..(m + 1) PROVE h[k] = IF k = 0 THEN start ELSE Next(h[k - 1], k)
      <4>1. CASE k <= m
        <5>1. h[k] = g[k] /\ k \in 0..m
          BY <4>1
        <5>2. k # 0 => h[k - 1] = g[k - 1]
          BY <4>1
        <5> QED
          BY <5>1, <5>2, <3>1 DEF Good
      <4>2. CASE k = m + 1
        <5>1. h[k] = Next(g[m], k) /\ k # 0 /\ h[k - 1] = g[k - 1] /\ k - 1 = m
          BY <4>2
        <5> QED
          BY <5>1
      <4> QED
        BY <4>1, <4>2
    <3> QED
      BY <3>3, <3>4 DEF Good
  <2> HIDE DEF Good
  <2>3. Nat \subseteq S
    BY <2>1, <2>2, SetInduction
  <2>4. PICK g : Good(g, n)
    BY <2>3, <1>2
  <2> QED
    BY <2>4 DEF Good
<1>4. ASSUME NEW g, Run(g, n) PROVE g[n] \in Octet
  <2> DEFINE S == {m \in Nat : m <= n => g[m] \in Octet}
  <2>1. 0 \in S
    BY <1>1, <1>2, <1>4
  <2>2. ASSUME NEW m \in Nat, m \in S PROVE m + 1 \in S
    BY <2>2, <1>2, <1>4
  <2>3. Nat \subseteq S
    <3> HIDE DEF S
    <3> QED
      BY <2>1, <2>2, SetInduction
  <2> QED
    BY <2>3, <1>2
<1>5. (CHOOSE g : Run(g, n))[n] \in Octet
  <2> HIDE DEF Run
  <2> QED
    BY <1>3, <1>4, Zenon
<1> QED
  BY <1>5, Zenon DEF Checksum, n, start, Next

-----------------------------------------------------------------------------
\* The bytes of a frame that is sent.
LEMMA SerializedFrame ==
  ASSUME NEW f \in Frames, Serialize(f) # <<>>
  PROVE  /\ f = [type |-> f.type, payload |-> f.payload] /\ f.type \in Octet /\ f.payload \in Seq(Octet)
         /\ Len(f.payload) \in 0..MaxPayload /\ Len(f.payload) < Values * Values
         /\ Serialize(f) \in Seq(Octet) /\ Len(Serialize(f)) = 5 + Len(f.payload)
         /\ Serialize(f)[1] = SOF /\ Serialize(f)[2] = f.type
         /\ Serialize(f)[3] = Len(f.payload) % Values /\ Serialize(f)[4] = Len(f.payload) \div Values
         /\ \A k \in 1..Len(f.payload) : Serialize(f)[4 + k] = f.payload[k]
         /\ Serialize(f)[5 + Len(f.payload)] = Checksum(f.type, Len(f.payload), f.payload)
<1> DEFINE n == Len(f.payload)
           head == <<SOF, f.type, n % Values, n \div Values>>
           tail == <<Checksum(f.type, n, f.payload)>>
<1>1. Values \in Nat /\ Values > 1 /\ SOF \in Octet /\ MaxPayload \in Nat /\ BufSize \in Nat
  BY CdcFramingAssumption
<1>2. f \in [type: Octet, payload: Seq(Octet)]
  BY FramesAssumption
<1>3. n \in Nat
  BY <1>2, LenProperties
<1>4. Serialize(f) = head \o f.payload \o tail /\ 5 + n <= BufSize
  <2>1. ~ (BufSize < 5 + n)
    BY SMT DEF Serialize
  <2>2. Serialize(f) = head \o f.payload \o tail
    BY <2>1, Zenon DEF Serialize
  <2> QED
    BY <1>1, <1>3, <2>1, <2>2
<1>5. n <= MaxPayload /\ n < Values * Values
  BY <1>1, <1>3, <1>4, FramesAssumption
<1>6. n % Values \in Octet /\ n \div Values \in Octet
  BY <1>1, <1>3, <1>5, DivisionFacts DEF Octet
<1>7. Checksum(f.type, n, f.payload) \in Octet
  BY <1>2, <1>3, <1>5, ChecksumIsByte
<1> HIDE DEF n
<1>8. /\ head \in Seq(Octet) /\ Len(head) = 4
      /\ head[1] = SOF /\ head[2] = f.type /\ head[3] = n % Values /\ head[4] = n \div Values
  BY <1>1, <1>2, <1>6
<1>9. tail \in Seq(Octet) /\ Len(tail) = 1 /\ tail[1] = Checksum(f.type, n, f.payload)
  BY <1>7
<1> HIDE DEF head, tail
<1>10. /\ head \o f.payload \in Seq(Octet) /\ Len(head \o f.payload) = 4 + n
       /\ \A i \in 1..(4 + n) : (head \o f.payload)[i] = IF i <= 4 THEN head[i] ELSE f.payload[i - 4]
  <2>1. f.payload \in Seq(Octet)
    BY <1>2
  <2>2. /\ head \o f.payload \in Seq(Octet) /\ Len(head \o f.payload) = Len(head) + n
        /\ \A i \in 1..(Len(head) + n) :
             (head \o f.payload)[i] = IF i <= Len(head) THEN head[i] ELSE f.payload[i - Len(head)]
    BY <1>8, <2>1, ConcatProperties, Zenon DEF n
  <2> QED
    BY <1>8, <2>2, Zenon
<1>11. /\ Serialize(f) \in Seq(Octet) /\ Len(Serialize(f)) = 5 + n
       /\ \A i \in 1..(5 + n) : Serialize(f)[i] = IF i <= 4 + n THEN (head \o f.payload)[i] ELSE tail[i - (4 + n)]
  <2> DEFINE both == head \o f.payload
  <2>1. /\ both \o tail \in Seq(Octet) /\ Len(both \o tail) = Len(both) + Len(tail)
        /\ \A i \in 1..(Len(both) + Len(tail)) :
             (both \o tail)[i] = IF i <= Len(both) THEN both[i] ELSE tail[i - Len(both)]
    <3>1. both \in Seq(Octet) /\ tail \in Seq(Octet)
      BY <1>9, <1>10
    <3> HIDE DEF both
    <3> QED
      BY <3>1, ConcatProperties, Zenon
  <2>2. Len(both) = 4 + n /\ Len(tail) = 1 /\ (4 + n) + 1 = 5 + n /\ Serialize(f) = both \o tail
    BY <1>3, <1>4, <1>9, <1>10
  <2> HIDE DEF both
  <2>3. /\ both \o tail \in Seq(Octet) /\ Len(both \o tail) = 5 + n
        /\ \A i \in 1..(5 + n) : (both \o tail)[i] = IF i <= 4 + n THEN both[i] ELSE tail[i - (4 + n)]
    BY <2>1, <2>2
  <2> QED
    BY <2>2, <2>3, Zenon DEF both
<1>12. /\ \A i \in 1..4 : Serialize(f)[i] = head[i]
       /\ \A k \in 1..n : Serialize(f)[4 + k] = f.payload[k]
       /\ Serialize(f)[5 + n] = tail[1]
  <2>1. ASSUME NEW i \in 1..4 PROVE Serialize(f)[i] = head[i]
    <3>1. i <= 4 /\ i \in 1..(5 + n) /\ i <= 4 + n /\ i \in 1..(4 + n)
      BY <1>3
    <3>2. Serialize(f)[i] = (head \o f.payload)[i]
      BY <1>11, <3>1, Zenon
    <3>3. (head \o f.payload)[i] = head[i]
      BY <1>10, <3>1, Zenon
    <3> QED
      BY <3>2, <3>3
  <2>2. ASSUME NEW k \in 1..n PROVE Serialize(f)[4 + k] = f.payload[k]
    <3>1. /\ ~ (4 + k <= 4) /\ 4 + k \in 1..(5 + n) /\ 4 + k <= 4 + n /\ 4 + k \in 1..(4 + n)
          /\ (4 + k) - 4 = k
      BY <1>3
    <3>2. Serialize(f)[4 + k] = (head \o f.payload)[4 + k]
      BY <1>11, <3>1, Zenon
    <3>3. (head \o f.payload)[4 + k] = f.payload[(4 + k) - 4]
      BY <1>10, <3>1, Zenon
    <3> QED
      BY <3>1, <3>2, <3>3
  <2>3. Serialize(f)[5 + n] = tail[1]
    <3>1. 5 + n \in 1..(5 + n) /\ ~ (5 + n <= 4 + n) /\ (5 + n) - (4 + n) = 1
      BY <1>3
    <3> QED
      BY <1>11, <3>1, Zenon
  <2> QED
    BY <2>1, <2>2, <2>3
<1>13. 1 \in 1..4 /\ 2 \in 1..4 /\ 3 \in 1..4 /\ 4 \in 1..4
  OBVIOUS
<1>14. f = [type |-> f.type, payload |-> f.payload] /\ f.type \in Octet /\ f.payload \in Seq(Octet)
  BY <1>2
<1> QED
  BY <1>3, <1>5, <1>8, <1>9, <1>11, <1>12, <1>13, <1>14 DEF n

-----------------------------------------------------------------------------
FrameBytes == Serialize(frame)

\* The bytes of the frame that were handed to the receiver.
SentBytes == Len(FrameBytes) - Len(out)

\* What has still to arrive is the end of the frame.
EndOfFrame ==
  out # <<>> => /\ FrameBytes # <<>> /\ Len(out) <= Len(FrameBytes)
                /\ \A k \in 1..Len(out) : out[k] = FrameBytes[SentBytes + k]

\* The receiver waits for a frame.
PicoHunts == rx.state = "sof"
PiHunts == Len(rxBuf) <= 4 /\ \A i \in 1..Len(rxBuf) : rxBuf[i] # SOF
Hunts == IF side = "pico" THEN PicoHunts ELSE PiHunts

\* It has the first p bytes of the frame; the Pi may have other bytes before them.
PicoHolds(p) ==
  LET n == Len(frame.payload)
  IN  \/ p = 0 /\ rx.state = "sof"
      \/ p = 1 /\ rx.state = "type"
      \/ p = 2 /\ rx.state = "len" /\ rx.type = frame.type
      \/ p = 3 /\ rx.state = "len2" /\ rx.type = frame.type /\ rx.len = n % Values
      \/ /\ p \in 4..(4 + n) /\ rx.type = frame.type /\ rx.len = n
         /\ Len(rx.buf) = p - 4 /\ \A i \in 1..(p - 4) : rx.buf[i] = frame.payload[i]
         /\ rx.state = IF p = 4 + n THEN "checksum" ELSE "payload"
PiHolds(p) ==
  LET before == Len(rxBuf) - p
  IN  /\ before >= 0 /\ (before = 0 \/ Len(rxBuf) <= 4)
      /\ \A i \in 1..before : rxBuf[i] # SOF
      /\ \A i \in 1..p : rxBuf[before + i] = FrameBytes[i]
Holds(p) == IF side = "pico" THEN PicoHolds(p) ELSE PiHolds(p)

\* It will take the next frame for what it is.
InPhase ==
  IF out = <<>> THEN Hunts
  ELSE Holds(SentBytes) \/ (Hunts /\ \A k \in 1..Len(out) : out[k] # SOF)

\* It has n bytes of what it takes for a frame.
Consumed ==
  CASE rx.state = "sof"  -> 0
    [] rx.state = "type" -> 1
    [] rx.state = "len"  -> 2
    [] rx.state = "len2" -> 3
    [] OTHER             -> 4 + Len(rx.buf)
PicoHas(n) == Consumed >= n
PiHas(n) == \E i \in 1..Len(rxBuf) : rxBuf[i] = SOF /\ Len(rxBuf) - i + 1 >= n
Has(n) == n = 0 \/ IF side = "pico" THEN PicoHas(n) ELSE PiHas(n)

\* What the receivers keep is the beginning of something that fits their buffers.
PicoSound ==
  /\ rx.state = "len2" => rx.len < Values
  /\ rx.state = "payload" => rx.len <= MaxPayload /\ Len(rx.buf) < rx.len
  /\ rx.state = "checksum" => Len(rx.buf) = rx.len
PiSound == Len(rxBuf) >= 5 => rxBuf[1] = SOF /\ Len(rxBuf) < Whole(rxBuf)

\* Enough bytes have come, and the frame is whole.
WholeInStep ==
  inStep => /\ since = Longest(side)
            /\ IF out = <<>> THEN got = <<frame>> ELSE Holds(SentBytes) /\ got = <<>>

FramingInv ==
  /\ FramingTypeOK /\ EndOfFrame /\ PicoSound /\ PiSound
  /\ InPhase \/ Has(since)
  /\ WholeInStep

-----------------------------------------------------------------------------
\* What the Pico keeps.
Kept(x) ==
  /\ x \in [state: {"sof", "type", "len", "len2", "payload", "checksum"}, type: Octet,
            len: 0..(Values * Values - 1), buf: Seq(Octet)]
  /\ Len(x.buf) <= MaxPayload

\* What a byte does to the Pico, state by state.
LEMMA PicoSteps ==
  ASSUME FramingTypeOK, PicoSound, NEW b \in Octet, NEW next, next = PicoTakes(b)
  PROVE  /\ rx.state = "sof" => next.state = IF b = SOF THEN "type" ELSE "sof"
         /\ rx.state = "type" => next.state = "len" /\ next.type = b
         /\ rx.state = "len" => next.state = "len2" /\ next.type = rx.type /\ next.len = b
         /\ rx.state = "len2" => /\ next.type = rx.type /\ next.len = rx.len + b * Values /\ next.buf = <<>>
                                 /\ next.state = AfterLength(next.len)
         /\ rx.state = "payload" =>
              /\ next.type = rx.type /\ next.len = rx.len /\ next.buf = Append(rx.buf, b)
              /\ next.state = IF Len(rx.buf) + 1 >= rx.len THEN "checksum" ELSE "payload"
         /\ rx.state = "checksum" => next.state = "sof"
         /\ Kept(next)
<1> DEFINE States == {"sof", "type", "len", "len2", "payload", "checksum"}
           Top == Values * Values - 1
           Fits(x) == x \in [state: States, type: Octet, len: 0..Top, buf: Seq(Octet)] /\ Len(x.buf) <= MaxPayload
<1>1. /\ Values \in Nat /\ Values > 1 /\ MaxPayload \in Nat /\ 0 \in Octet /\ Octet \subseteq 0..Top
      /\ Fits(rx)
  <2>1. Values \in Nat /\ Values > 1 /\ MaxPayload \in Nat
    BY CdcFramingAssumption
  <2>2. ASSUME NEW a \in Octet PROVE a \in 0..Top
    BY <2>1, <2>2, LengthFacts DEF Octet
  <2> QED
    BY <2>1, <2>2 DEF FramingTypeOK, Octet
<1>2. Fits(WaitSof) /\ WaitSof.state = "sof"
  BY <1>1 DEF WaitSof
<1>3. ASSUME rx.state = "len2" PROVE rx.len + b * Values \in 0..Top
  <2>1. rx.len \in Nat /\ rx.len < Values
    <3>1. rx.len \in 0..Top /\ rx.len < Values
      BY <1>1, <1>3 DEF PicoSound
    <3> HIDE DEF Top
    <3> QED
      BY <3>1
  <2>2. rx.len \in 0..(Values - 1) /\ b \in 0..(Values - 1)
    BY <1>1, <2>1 DEF Octet
  <2> QED
    BY <1>1, <2>2, LengthFacts
<1> DEFINE total == rx.len + b * Values
<1> HIDE DEF Top, total
<1>4. AfterLength(total) \in {"checksum", "sof", "payload"}
  BY DEF AfterLength
<1>5. CASE rx.state = "sof"
  <2>1. next = IF b = SOF THEN [rx EXCEPT !.state = "type"] ELSE rx
    BY <1>5 DEF PicoTakes
  <2>2. next.state = (IF b = SOF THEN "type" ELSE "sof") /\ Fits(next)
    BY <1>1, <2>1, <1>5
  <2> QED
    BY <1>5, <2>2 DEF Top, Kept
<1>6. CASE rx.state = "type"
  <2>1. next = [rx EXCEPT !.state = "len", !.type = b]
    BY <1>6 DEF PicoTakes
  <2>2. next.state = "len" /\ next.type = b /\ Fits(next)
    BY <1>1, <2>1
  <2> QED
    BY <1>6, <2>2 DEF Top, Kept
<1>7. CASE rx.state = "len"
  <2>1. next = [rx EXCEPT !.state = "len2", !.len = b]
    BY <1>7 DEF PicoTakes
  <2>2. next.state = "len2" /\ next.type = rx.type /\ next.len = b /\ Fits(next)
    BY <1>1, <2>1
  <2> QED
    BY <1>7, <2>2 DEF Top, Kept
<1>8. CASE rx.state = "len2"
  <2>1. next = [rx EXCEPT !.len = total, !.buf = <<>>, !.state = AfterLength(total)]
    BY <1>8 DEF PicoTakes, total
  <2>2. total \in 0..Top
    BY <1>3, <1>8 DEF total
  <2>3. /\ next.type = rx.type /\ next.len = total /\ next.buf = <<>> /\ next.state = AfterLength(total)
        /\ Fits(next)
    <3> DEFINE after == AfterLength(total)
    <3>1. after \in States /\ <<>> \in Seq(Octet) /\ Len(<<>>) = 0
      BY <1>4
    <3>2. next = [rx EXCEPT !.len = total, !.buf = <<>>, !.state = after]
      BY <2>1
    <3> HIDE DEF after
    <3>3. /\ next.type = rx.type /\ next.len = total /\ next.buf = <<>> /\ next.state = after
          /\ next \in [state: States, type: Octet, len: 0..Top, buf: Seq(Octet)]
      BY <1>1, <2>2, <3>1, <3>2
    <3> QED
      BY <1>1, <3>1, <3>3 DEF after
  <2> QED
    BY <1>8, <2>3 DEF Top, total, Kept
<1>9. CASE rx.state = "payload"
  <2>1. next = [rx EXCEPT !.buf = Append(rx.buf, b),
                          !.state = IF Len(rx.buf) + 1 >= rx.len THEN "checksum" ELSE "payload"]
    BY <1>9 DEF PicoTakes
  <2>2. Append(rx.buf, b) \in Seq(Octet) /\ Len(Append(rx.buf, b)) <= MaxPayload
    BY <1>1, <1>9 DEF PicoSound
  <2>3. /\ next.type = rx.type /\ next.len = rx.len /\ next.buf = Append(rx.buf, b)
        /\ next.state = IF Len(rx.buf) + 1 >= rx.len THEN "checksum" ELSE "payload"
        /\ Fits(next)
    BY <1>1, <2>1, <2>2
  <2> QED
    BY <1>9, <2>3 DEF Top, Kept
<1>10. CASE rx.state = "checksum"
  <2>1. next = WaitSof
    BY <1>10 DEF PicoTakes
  <2> QED
    BY <1>2, <1>10, <2>1 DEF Top, Kept
<1>11. rx.state \in States
  BY <1>1
<1> QED
  BY <1>5, <1>6, <1>7, <1>8, <1>9, <1>10, <1>11

\* A byte that the Pico takes leaves it sound.
LEMMA PicoStaysSound ==
  ASSUME FramingTypeOK, PicoSound, NEW b \in Octet, rx' = PicoTakes(b)
  PROVE  PicoSound'
<1> DEFINE next == rx'
<1>1. Values \in Nat /\ MaxPayload \in Nat /\ b < Values
  BY CdcFramingAssumption DEF Octet
<1>2. rx \in [state: {"sof", "type", "len", "len2", "payload", "checksum"}, type: Octet,
              len: 0..(Values * Values - 1), buf: Seq(Octet)]
  BY DEF FramingTypeOK
<1>3. /\ rx.state = "sof" => next.state \in {"type", "sof"}
      /\ rx.state = "type" => next.state = "len"
      /\ rx.state = "len" => next.state = "len2" /\ next.len = b
      /\ rx.state = "len2" => next.buf = <<>> /\ next.state = AfterLength(next.len)
      /\ rx.state = "payload" =>
           /\ next.len = rx.len /\ next.buf = Append(rx.buf, b)
           /\ next.state = IF Len(rx.buf) + 1 >= rx.len THEN "checksum" ELSE "payload"
      /\ rx.state = "checksum" => next.state = "sof"
      /\ next.len \in Nat
  <2> DEFINE Top == Values * Values - 1
  <2>1. next.len \in 0..Top
    BY PicoSteps DEF Kept
  <2> HIDE DEF Top
  <2>2. next.len \in Nat
    BY <2>1
  <2> QED
    BY <2>2, PicoSteps
<1>4. rx.len \in Nat /\ rx.buf \in Seq(Octet) /\ Len(rx.buf) \in Nat
  <2> DEFINE Top == Values * Values - 1
  <2>1. rx.len \in 0..Top /\ rx.buf \in Seq(Octet)
    BY <1>2
  <2> HIDE DEF Top
  <2> QED
    BY <2>1
<1>5. next.state = "len2" => next.len < Values
  BY <1>1, <1>2, <1>3 DEF AfterLength
<1>6. next.state = "payload" => next.len <= MaxPayload /\ Len(next.buf) < next.len
  <2> SUFFICES ASSUME next.state = "payload" PROVE next.len <= MaxPayload /\ Len(next.buf) < next.len
    OBVIOUS
  <2>1. rx.state \in {"len2", "payload"}
    BY <1>2, <1>3
  <2>2. CASE rx.state = "len2"
    <3>1. next.len # 0 /\ ~ (next.len > MaxPayload) /\ Len(next.buf) = 0
      BY <1>3, <2>2 DEF AfterLength
    <3> QED
      BY <1>1, <1>3, <3>1
  <2>3. CASE rx.state = "payload"
    <3>1. ~ (Len(rx.buf) + 1 >= rx.len) /\ Len(next.buf) = Len(rx.buf) + 1 /\ next.len = rx.len
      BY <1>3, <1>4, <2>3
    <3> QED
      BY <1>4, <2>3, <3>1 DEF PicoSound
  <2> QED
    BY <2>1, <2>2, <2>3
<1>7. next.state = "checksum" => Len(next.buf) = next.len
  <2> SUFFICES ASSUME next.state = "checksum" PROVE Len(next.buf) = next.len
    OBVIOUS
  <2>1. rx.state \in {"len2", "payload"}
    BY <1>2, <1>3
  <2>2. CASE rx.state = "len2"
    <3>1. next.len = 0 /\ Len(next.buf) = 0
      BY <1>3, <2>2 DEF AfterLength
    <3> QED
      BY <3>1
  <2>3. CASE rx.state = "payload"
    <3>1. Len(rx.buf) + 1 >= rx.len /\ Len(next.buf) = Len(rx.buf) + 1 /\ next.len = rx.len
      BY <1>3, <1>4, <2>3
    <3> QED
      BY <1>4, <2>3, <3>1 DEF PicoSound
  <2> QED
    BY <2>1, <2>2, <2>3
<1> QED
  BY <1>5, <1>6, <1>7 DEF PicoSound

\* It holds one byte more of what it takes for a frame, or waits for the next.
LEMMA PicoHasMore ==
  ASSUME FramingTypeOK, PicoSound, NEW b \in Octet, rx' = PicoTakes(b), NEW n \in Nat, n = 0 \/ PicoHas(n)
  PROVE  PicoHas(n + 1)' \/ PicoHunts'
<1> DEFINE next == rx'
<1>1. rx.state \in {"sof", "type", "len", "len2", "payload", "checksum"} /\ Len(rx.buf) \in Nat
  BY DEF FramingTypeOK
<1>2. /\ rx.state = "sof" => next.state \in {"type", "sof"}
      /\ rx.state = "type" => next.state = "len"
      /\ rx.state = "len" => next.state = "len2"
      /\ rx.state = "len2" => next.buf = <<>> /\ next.state \in {"sof", "payload", "checksum"}
      /\ rx.state = "payload" => /\ Len(next.buf) = Len(rx.buf) + 1
                                 /\ next.state \in {"checksum", "payload"}
      /\ rx.state = "checksum" => next.state = "sof"
  <2>1. rx.buf \in Seq(Octet)
    BY DEF FramingTypeOK
  <2> QED
    BY <2>1, PicoSteps DEF AfterLength
<1>3. /\ rx.state = "sof" => Consumed = 0
      /\ rx.state = "type" => Consumed = 1
      /\ rx.state = "len" => Consumed = 2
      /\ rx.state = "len2" => Consumed = 3
      /\ rx.state = "payload" => Consumed = 4 + Len(rx.buf)
  BY DEF Consumed
<1>4. /\ next.state = "type" => Consumed' = 1
      /\ next.state = "len" => Consumed' = 2
      /\ next.state = "len2" => Consumed' = 3
      /\ next.state \in {"payload", "checksum"} => Consumed' = 4 + Len(next.buf)
  BY DEF Consumed
<1>5. CASE rx.state = "len2"
  BY <1>2, <1>3, <1>4, <1>5 DEF PicoHas, PicoHunts
<1>6. CASE rx.state = "payload"
  BY <1>1, <1>2, <1>3, <1>4, <1>6 DEF PicoHas, PicoHunts
<1>7. CASE rx.state \notin {"len2", "payload"}
  BY <1>1, <1>2, <1>3, <1>4, <1>7 DEF PicoHas, PicoHunts
<1> QED
  BY <1>5, <1>6, <1>7

\* It takes one byte more of the frame, and hands the frame over after the last.
LEMMA PicoHoldsMore ==
  ASSUME FramingTypeOK, PicoSound, FrameBytes # <<>>, NEW p \in 0..(Len(FrameBytes) - 1), PicoHolds(p),
         rx' = PicoTakes(FrameBytes[p + 1]), frame' = frame
  PROVE  /\ p + 1 < Len(FrameBytes) => PicoHolds(p + 1)' /\ PicoGets(FrameBytes[p + 1]) = <<>>
         /\ p + 1 = Len(FrameBytes) => PicoHunts' /\ PicoGets(FrameBytes[p + 1]) = <<frame>>
<1> DEFINE next == rx'
           b == FrameBytes[p + 1]
           n == Len(frame.payload)
<1>1. /\ frame = [type |-> frame.type, payload |-> frame.payload] /\ frame.payload \in Seq(Octet)
      /\ n \in 0..MaxPayload /\ n < Values * Values
      /\ FrameBytes \in Seq(Octet) /\ Len(FrameBytes) = 5 + n
      /\ FrameBytes[1] = SOF /\ FrameBytes[2] = frame.type /\ FrameBytes[3] = n % Values /\ FrameBytes[4] = n \div Values
      /\ \A k \in 1..n : FrameBytes[4 + k] = frame.payload[k]
      /\ FrameBytes[5 + n] = Checksum(frame.type, n, frame.payload)
  <2>1. frame \in Frames
    BY DEF FramingTypeOK
  <2> QED
    BY <2>1, SerializedFrame DEF FrameBytes
<1>2. Values \in Nat /\ Values > 1 /\ MaxPayload \in Nat /\ n \in Nat /\ n <= MaxPayload
  <2>1. n \in 0..MaxPayload
    BY <1>1, Zenon
  <2> HIDE DEF n
  <2> QED
    BY <2>1, ConstantTypes
<1>3. b \in Octet /\ rx.buf \in Seq(Octet) /\ Len(rx.buf) \in Nat
  <2>1. p + 1 \in 1..Len(FrameBytes)
    BY <1>1, <1>2
  <2>2. b \in Octet
    BY <1>1, <2>1, ElementOfSeq
  <2> QED
    BY <2>2 DEF FramingTypeOK
<1>4. /\ rx.state = "sof" => next.state = IF b = SOF THEN "type" ELSE "sof"
      /\ rx.state = "type" => next.state = "len" /\ next.type = b
      /\ rx.state = "len" => next.state = "len2" /\ next.type = rx.type /\ next.len = b
      /\ rx.state = "len2" => /\ next.type = rx.type /\ next.len = rx.len + b * Values /\ next.buf = <<>>
                              /\ next.state = AfterLength(next.len)
      /\ rx.state = "payload" =>
           /\ next.type = rx.type /\ next.len = rx.len /\ next.buf = Append(rx.buf, b)
           /\ next.state = IF Len(rx.buf) + 1 >= rx.len THEN "checksum" ELSE "payload"
      /\ rx.state = "checksum" => next.state = "sof"
  BY <1>3, PicoSteps
<1>5. rx.state # "checksum" => PicoGets(b) = <<>>
  BY DEF PicoGets
<1> HIDE DEF next, n
<1>6. CASE p = 0 /\ rx.state = "sof"
  BY <1>1, <1>2, <1>4, <1>5, <1>6 DEF PicoHolds, next, n
<1>7. CASE p = 1 /\ rx.state = "type"
  BY <1>1, <1>2, <1>4, <1>5, <1>7 DEF PicoHolds, next, n
<1>8. CASE p = 2 /\ rx.state = "len" /\ rx.type = frame.type
  BY <1>1, <1>2, <1>4, <1>5, <1>8 DEF PicoHolds, next, n
<1>9. CASE p = 3 /\ rx.state = "len2" /\ rx.type = frame.type /\ rx.len = n % Values
  <2>1. rx.len + b * Values = n
    BY <1>1, <1>2, <1>9, DivisionFacts
  <2>2. /\ next.type = frame.type /\ next.len = n /\ Len(next.buf) = 0
        /\ next.state = IF n = 0 THEN "checksum" ELSE "payload"
    BY <1>2, <1>4, <1>9, <2>1 DEF AfterLength
  <2>3. PicoHolds(4)'
    BY <1>2, <2>2 DEF PicoHolds, next, n
  <2> QED
    BY <1>1, <1>2, <1>5, <1>9, <2>3
<1>10. CASE /\ p \in 4..(4 + n) /\ rx.type = frame.type /\ rx.len = n
            /\ Len(rx.buf) = p - 4 /\ \A i \in 1..(p - 4) : rx.buf[i] = frame.payload[i]
            /\ rx.state = IF p = 4 + n THEN "checksum" ELSE "payload"
  <2>1. CASE p = 4 + n
    <3>1. rx.buf = frame.payload
      <4>1. p - 4 = n
        BY <1>2, <2>1
      <4>2. /\ frame.payload \in Seq(Octet) /\ rx.buf \in Seq(Octet) /\ Len(rx.buf) = Len(frame.payload)
            /\ \A i \in 1..Len(rx.buf) : rx.buf[i] = frame.payload[i]
        BY <1>1, <1>3, <1>10, <4>1 DEF n
      <4> QED
        BY <4>2, SeqEqual
    <3>2. rx.state = "checksum" /\ PicoHunts'
      BY <1>4, <1>10, <2>1 DEF PicoHunts, next
    <3>3. p + 1 = 5 + n
      BY <1>2, <2>1
    <3>4. b = Checksum(rx.type, rx.len, rx.buf)
      BY <1>1, <1>10, <3>1, <3>3
    <3>5. PicoGets(b) = <<[type |-> rx.type, payload |-> rx.buf]>>
      BY <3>2, <3>4 DEF PicoGets
    <3>6. PicoGets(b) = <<frame>>
      BY <1>1, <1>10, <3>1, <3>5
    <3> QED
      BY <1>1, <1>2, <3>2, <3>3, <3>6
  <2>2. CASE p # 4 + n
    <3>1. p \in 4..(3 + n) /\ rx.state = "payload" /\ p - 3 \in 1..n /\ p + 1 = 4 + (p - 3)
      BY <1>2, <1>10, <2>2
    <3>2. b = frame.payload[p - 3]
      BY <1>1, <3>1
    <3>3. /\ Len(next.buf) = p - 3
          /\ \A i \in 1..(p - 3) : next.buf[i] = IF i <= p - 4 THEN rx.buf[i] ELSE b
      <4>1. next.buf = Append(rx.buf, b) /\ Len(rx.buf) = p - 4 /\ (p - 4) + 1 = p - 3
        BY <1>4, <1>10, <3>1
      <4> HIDE DEF b
      <4>2. /\ Len(next.buf) = Len(rx.buf) + 1
            /\ \A i \in 1..(Len(rx.buf) + 1) : next.buf[i] = IF i <= Len(rx.buf) THEN rx.buf[i] ELSE b
        BY <1>3, <4>1
      <4> QED
        BY <4>1, <4>2
    <3>4. \A i \in 1..(p - 3) : next.buf[i] = frame.payload[i]
      BY <1>10, <3>1, <3>2, <3>3
    <3>5. /\ next.type = frame.type /\ next.len = n
          /\ next.state = IF p + 1 = 4 + n THEN "checksum" ELSE "payload"
      BY <1>2, <1>4, <1>10, <3>1
    <3>6. PicoHolds(p + 1)'
      <4>1. p + 1 \in 4..(4 + n) /\ (p + 1) - 4 = p - 3
        BY <1>2, <3>1
      <4>2. /\ Len(next.buf) = (p + 1) - 4
            /\ \A i \in 1..((p + 1) - 4) : next.buf[i] = frame.payload[i]
        BY <3>3, <3>4, <4>1, Zenon
      <4> QED
        BY <3>5, <4>1, <4>2, Zenon DEF PicoHolds, next, n
    <3>7. p + 1 < Len(FrameBytes) /\ p + 1 # Len(FrameBytes)
      <4>1. Len(FrameBytes) = 5 + n
        BY <1>1, Zenon
      <4>2. p \in 4..(3 + n) /\ n \in Nat
        BY <1>2, <3>1, Zenon
      <4> QED
        BY <4>1, <4>2
    <3>8. PicoGets(b) = <<>>
      BY <1>5, <3>1
    <3> QED
      BY <3>6, <3>7, <3>8
  <2> QED
    BY <2>1, <2>2
<1> QED
  BY <1>6, <1>7, <1>8, <1>9, <1>10 DEF PicoHolds, n

-----------------------------------------------------------------------------
\* The payload in a buffer that holds a whole frame.
LEMMA MiddleOfSeq ==
  ASSUME NEW s \in Seq(Octet), NEW m \in Nat, Len(s) = 5 + m
  PROVE  /\ SubSeq(s, 5, 4 + m) \in Seq(Octet) /\ Len(SubSeq(s, 5, 4 + m)) = m
         /\ \A i \in 1..m : SubSeq(s, 5, 4 + m)[i] = s[4 + i]
OBVIOUS

LEMMA TailOfFive ==
  ASSUME NEW s \in Seq(Octet), Len(s) = 5
  PROVE  Tail(s) \in Seq(Octet) /\ Len(Tail(s)) = 4 /\ \A k \in 1..4 : Tail(s)[k] = s[k + 1]
<1>1. s # <<>>
  OBVIOUS
<1>2. /\ Tail(s) \in Seq(Octet) /\ Len(Tail(s)) = Len(s) - 1
      /\ \A k \in 1..Len(Tail(s)) : Tail(s)[k] = s[k + 1]
  BY <1>1, HeadTailProperties
<1>3. Len(Tail(s)) = 4
  BY <1>2
<1> QED
  BY <1>2, <1>3, Zenon

\* What a byte does to the Pi, by what it has then.
PiStep(buf, b, next) ==
  /\ buf \in Seq(Octet) /\ Len(rxBuf) \in Nat /\ Len(buf) = Len(rxBuf) + 1
  /\ buf[Len(buf)] = b /\ \A i \in 1..Len(rxBuf) : buf[i] = rxBuf[i]
  /\ \/ Len(buf) < 5 /\ next = buf
     \/ Len(buf) = 5 /\ buf[1] # SOF /\ next = Tail(buf)
     \/ Len(buf) >= 5 /\ buf[1] = SOF /\ Len(buf) < Whole(buf) /\ next = buf
     \/ Len(buf) >= 5 /\ buf[1] = SOF /\ ~ (Len(buf) < Whole(buf)) /\ next = <<>>
  /\ next \in Seq(Octet) /\ Len(next) < Longest("pi")
  /\ Len(next) >= 5 => next[1] = SOF /\ Len(next) < Whole(next)

LEMMA PiSteps ==
  ASSUME FramingTypeOK, PiSound, NEW b \in Octet
  PROVE  PiStep(Append(rxBuf, b), b, PiTakes(b))
<1> DEFINE buf == Append(rxBuf, b)
           next == PiTakes(b)
<1> DEFINE Top == Values * Values - 1
<1>1. Values \in Nat /\ Values > 1 /\ SOF \in Octet /\ Top \in Nat
  <2>1. Values \in Nat /\ Values > 1 /\ SOF \in Octet
    BY CdcFramingAssumption
  <2>2. 0 \in 0..(Values - 1) /\ 0 + 0 * Values = 0
    BY <2>1
  <2>3. 0 + 0 * Values \in 0..Top
    BY <2>1, <2>2, LengthFacts
  <2> QED
    BY <2>1, <2>2, <2>3
<1>2. rxBuf \in Seq(Octet) /\ Len(rxBuf) \in Nat
  BY DEF FramingTypeOK
<1>3. /\ buf \in Seq(Octet) /\ Len(buf) = Len(rxBuf) + 1
      /\ buf[Len(buf)] = b /\ \A i \in 1..Len(rxBuf) : buf[i] = rxBuf[i]
  BY <1>2
<1>4. Len(buf) >= 5 => Whole(buf) \in Nat /\ Whole(buf) <= Top + 5
  <2> SUFFICES ASSUME Len(buf) >= 5 PROVE Whole(buf) \in Nat /\ Whole(buf) <= Top + 5
    OBVIOUS
  <2>1. buf[3] \in 0..(Values - 1) /\ buf[4] \in 0..(Values - 1)
    <3>1. 3 \in 1..Len(buf) /\ 4 \in 1..Len(buf)
      BY <1>2, <1>3
    <3> HIDE DEF buf
    <3>2. buf[3] \in Octet /\ buf[4] \in Octet
      BY <1>3, <3>1, ElementOfSeq
    <3> QED
      BY <3>2 DEF Octet
  <2>2. buf[3] + buf[4] * Values \in 0..Top
    BY <1>1, <2>1, LengthFacts
  <2>3. Whole(buf) = 5 + (buf[3] + buf[4] * Values)
    BY <1>1, <2>1 DEF Whole
  <2> HIDE DEF Top
  <2> QED
    BY <1>1, <2>2, <2>3
<1>5. /\ Len(buf) < 5 => next = buf
      /\ ~ (Len(buf) < 5) /\ buf[1] # SOF => next = Tail(buf)
      /\ ~ (Len(buf) < 5) /\ buf[1] = SOF /\ Len(buf) < Whole(buf) => next = buf
      /\ ~ (Len(buf) < 5) /\ buf[1] = SOF /\ ~ (Len(buf) < Whole(buf)) => next = <<>>
  BY Zenon DEF PiTakes
<1>6. Len(buf) >= 5 /\ buf[1] # SOF => Len(buf) = 5
  BY <1>2, <1>3 DEF PiSound
<1>7. Longest("pi") = Top + 5
  BY DEF Longest
<1> HIDE DEF Top, buf, next
<1>8. ASSUME Len(buf) < 5 PROVE PiStep(buf, b, next)
  BY <1>1, <1>2, <1>3, <1>5, <1>7, <1>8 DEF PiStep
<1>9. ASSUME ~ (Len(buf) < 5) /\ buf[1] # SOF PROVE PiStep(buf, b, next)
  <2>1. Len(buf) = 5 /\ next = Tail(buf)
    BY <1>2, <1>3, <1>5, <1>6, <1>9
  <2>2. next \in Seq(Octet) /\ Len(next) = 4
    BY <1>3, <2>1, TailOfFive
  <2> QED
    BY <1>1, <1>2, <1>3, <1>7, <1>9, <2>1, <2>2 DEF PiStep
<1>10. ASSUME ~ (Len(buf) < 5) /\ buf[1] = SOF /\ Len(buf) < Whole(buf) PROVE PiStep(buf, b, next)
  <2>1. next = buf /\ Len(buf) >= 5 /\ Len(buf) \in Nat
    BY <1>2, <1>3, <1>5, <1>10
  <2>2. Len(buf) < Longest("pi")
    BY <1>1, <1>4, <1>7, <1>10, <2>1
  <2> QED
    BY <1>2, <1>3, <1>10, <2>1, <2>2 DEF PiStep
<1>11. ASSUME ~ (Len(buf) < 5) /\ buf[1] = SOF /\ ~ (Len(buf) < Whole(buf)) PROVE PiStep(buf, b, next)
  <2>1. next = <<>> /\ Len(buf) >= 5
    BY <1>2, <1>3, <1>5, <1>11
  <2>2. next \in Seq(Octet) /\ Len(next) = 0
    BY <2>1
  <2> QED
    BY <1>1, <1>2, <1>3, <1>7, <1>11, <2>1, <2>2 DEF PiStep
<1> QED
  <2>1. PiStep(buf, b, next)
    BY <1>8, <1>9, <1>10, <1>11
  <2> QED
    BY <2>1 DEF buf, next

\* The lemmas on the Pi, as those on the Pico.
LEMMA PiStaysSound ==
  ASSUME FramingTypeOK, PiSound, NEW b \in Octet, rxBuf' = PiTakes(b)
  PROVE  PiSound'
<1> QED
  BY PiSteps DEF PiStep, PiSound

\* A byte that is no SOF does not begin a frame.
LEMMA PiHuntsOn ==
  ASSUME FramingTypeOK, PiSound, NEW b \in Octet, rxBuf' = PiTakes(b), PiHunts, b # SOF
  PROVE  PiHunts'
<1> DEFINE buf == Append(rxBuf, b)
<1>1. /\ buf \in Seq(Octet) /\ Len(rxBuf) \in Nat /\ Len(buf) = Len(rxBuf) + 1
      /\ buf[Len(buf)] = b /\ \A i \in 1..Len(rxBuf) : buf[i] = rxBuf[i]
      /\ \/ Len(buf) < 5 /\ rxBuf' = buf
         \/ Len(buf) = 5 /\ buf[1] # SOF /\ rxBuf' = Tail(buf)
         \/ Len(buf) >= 5 /\ buf[1] = SOF
  <2>1. PiStep(buf, b, rxBuf')
    BY PiSteps
  <2> HIDE DEF buf
  <2> QED
    BY <2>1 DEF PiStep
<1> HIDE DEF buf
<1>2. Len(buf) <= 5 /\ \A i \in 1..Len(buf) : buf[i] # SOF
  BY <1>1 DEF PiHunts
<1>3. CASE Len(buf) < 5 /\ rxBuf' = buf
  BY <1>1, <1>2, <1>3 DEF PiHunts
<1>4. CASE Len(buf) = 5 /\ rxBuf' = Tail(buf)
  <2>1. Len(rxBuf') = 4 /\ \A i \in 1..4 : rxBuf'[i] = buf[i + 1]
    BY <1>1, <1>4, TailOfFive
  <2> QED
    <3>1. ASSUME NEW i \in 1..4 PROVE rxBuf'[i] # SOF
      <4>1. rxBuf'[i] = buf[i + 1]
        BY <2>1
      <4>2. i + 1 \in 1..5
        OBVIOUS
      <4>3. i + 1 \in 1..Len(buf)
        BY <1>4, <4>2
      <4> QED
        BY <1>2, <4>1, <4>3
    <3> QED
      BY <2>1, <3>1 DEF PiHunts
<1>5. ~ (Len(buf) >= 5 /\ buf[1] = SOF)
  BY <1>1, <1>2
<1> QED
  BY <1>1, <1>3, <1>4, <1>5

LEMMA PiHasMore ==
  ASSUME FramingTypeOK, PiSound, NEW b \in Octet, rxBuf' = PiTakes(b), NEW n \in Nat, n = 0 \/ PiHas(n)
  PROVE  PiHas(n + 1)' \/ PiHunts'
<1> DEFINE buf == Append(rxBuf, b)
<1>1. /\ buf \in Seq(Octet) /\ Len(rxBuf) \in Nat /\ Len(buf) = Len(rxBuf) + 1
      /\ buf[Len(buf)] = b /\ \A i \in 1..Len(rxBuf) : buf[i] = rxBuf[i]
      /\ \/ Len(buf) < 5 /\ rxBuf' = buf
         \/ Len(buf) = 5 /\ buf[1] # SOF /\ rxBuf' = Tail(buf)
         \/ Len(buf) >= 5 /\ buf[1] = SOF /\ rxBuf' = buf
         \/ rxBuf' = <<>>
  <2>1. PiStep(buf, b, rxBuf')
    BY PiSteps
  <2> HIDE DEF buf
  <2> QED
    BY <2>1 DEF PiStep
<1> HIDE DEF buf
<1>2. CASE rxBuf' = <<>>
  BY <1>2 DEF PiHunts
<1>3. CASE \A i \in 1..Len(buf) : buf[i] # SOF
  <2>1. PiHunts /\ b # SOF
    <3>1. \A i \in 1..Len(rxBuf) : rxBuf[i] # SOF
      BY <1>1, <1>3
    <3>2. Len(rxBuf) <= 4
      BY <1>1, <3>1 DEF PiSound
    <3>3. b # SOF
      BY <1>1, <1>3
    <3> QED
      BY <3>1, <3>2, <3>3 DEF PiHunts
  <2> QED
    BY <2>1, PiHuntsOn
<1>4. CASE /\ \E i \in 1..Len(buf) : buf[i] = SOF
           /\ rxBuf' # <<>>
  <2>1. PICK i \in 1..Len(buf) : buf[i] = SOF /\ Len(buf) - i + 1 >= n + 1
    <3>1. CASE PiHas(n)
      <4>1. PICK i \in 1..Len(rxBuf) : rxBuf[i] = SOF /\ Len(rxBuf) - i + 1 >= n
        BY <3>1 DEF PiHas
      <4>2. i \in 1..Len(buf) /\ buf[i] = SOF /\ Len(buf) - i + 1 >= n + 1
        BY <1>1, <4>1
      <4> QED
        BY <4>2
    <3>2. CASE n = 0
      <4>1. PICK i \in 1..Len(buf) : buf[i] = SOF
        BY <1>4
      <4>2. Len(buf) - i + 1 >= n + 1
        BY <1>1, <3>2, <4>1
      <4> QED
        BY <4>1, <4>2
    <3> QED
      BY <3>1, <3>2
  <2>2. CASE rxBuf' = buf
    BY <2>1, <2>2 DEF PiHas
  <2>3. CASE Len(buf) = 5 /\ buf[1] # SOF /\ rxBuf' = Tail(buf)
    <3>1. Len(rxBuf') = 4 /\ \A k \in 1..4 : rxBuf'[k] = buf[k + 1]
      BY <1>1, <2>3, TailOfFive
    <3>2. i - 1 \in 1..4 /\ (i - 1) + 1 = i /\ 4 - (i - 1) + 1 >= n + 1
      BY <1>1, <2>1, <2>3
    <3>3. rxBuf'[i - 1] = SOF
      BY <2>1, <3>1, <3>2
    <3> QED
      BY <3>1, <3>2, <3>3 DEF PiHas
  <2> QED
    BY <1>1, <1>4, <2>2, <2>3
<1> QED
  BY <1>2, <1>3, <1>4

LEMMA PiHoldsMore ==
  ASSUME FramingTypeOK, PiSound, FrameBytes # <<>>, NEW p \in 0..(Len(FrameBytes) - 1), PiHolds(p),
         rxBuf' = PiTakes(FrameBytes[p + 1]), frame' = frame
  PROVE  /\ p + 1 < Len(FrameBytes) => PiHolds(p + 1)' /\ PiGets(FrameBytes[p + 1]) = <<>>
         /\ p + 1 = Len(FrameBytes) => PiHunts' /\ PiGets(FrameBytes[p + 1]) = <<frame>>
<1> DEFINE b == FrameBytes[p + 1]
           n == Len(frame.payload)
           buf == Append(rxBuf, b)
           skip == Len(rxBuf) - p
<1>1. /\ frame = [type |-> frame.type, payload |-> frame.payload] /\ frame.payload \in Seq(Octet)
      /\ n \in 0..MaxPayload /\ n < Values * Values
      /\ FrameBytes \in Seq(Octet) /\ Len(FrameBytes) = 5 + n
      /\ FrameBytes[1] = SOF /\ FrameBytes[2] = frame.type /\ FrameBytes[3] = n % Values /\ FrameBytes[4] = n \div Values
      /\ \A k \in 1..n : FrameBytes[4 + k] = frame.payload[k]
      /\ FrameBytes[5 + n] = Checksum(frame.type, n, frame.payload)
  <2>1. frame \in Frames
    BY DEF FramingTypeOK
  <2> QED
    BY <2>1, SerializedFrame DEF FrameBytes
<1>2. Values \in Nat /\ Values > 1 /\ MaxPayload \in Nat /\ n \in Nat /\ p \in Nat /\ p + 1 \in 1..(5 + n)
  <2>1. n \in 0..MaxPayload /\ Len(FrameBytes) = 5 + n
    BY <1>1, Zenon
  <2> HIDE DEF n
  <2> QED
    BY <2>1, ConstantTypes
<1>3. b \in Octet
  BY <1>1, <1>2, ElementOfSeq
<1>4. PiStep(buf, b, rxBuf')
  BY <1>3, PiSteps
<1>5. PiGets(b) = IF Len(buf) >= 5 /\ buf[1] = SOF /\ Len(buf) >= Whole(buf)
                     /\ b = Checksum(buf[2], Whole(buf) - 5, SubSeq(buf, 5, Len(buf) - 1))
                    THEN <<[type |-> buf[2], payload |-> SubSeq(buf, 5, Len(buf) - 1)]>> ELSE <<>>
  BY Zenon DEF PiGets
<1>6. FrameBytes' = FrameBytes
  BY DEF FrameBytes
<1> HIDE DEF b, n, buf
<1>7. /\ buf \in Seq(Octet) /\ Len(rxBuf) \in Nat /\ Len(buf) = Len(rxBuf) + 1
      /\ buf[Len(buf)] = b /\ \A i \in 1..Len(rxBuf) : buf[i] = rxBuf[i]
  BY <1>4 DEF PiStep
<1>8. /\ skip \in Nat /\ Len(buf) = skip + (p + 1) /\ (skip = 0 \/ Len(rxBuf) <= 4)
      /\ \A i \in 1..skip : buf[i] # SOF
      /\ \A i \in 1..(p + 1) : buf[skip + i] = FrameBytes[i]
  <2>1. /\ skip \in Nat /\ Len(buf) = skip + (p + 1) /\ (skip = 0 \/ Len(rxBuf) <= 4)
    BY <1>2, <1>7 DEF PiHolds
  <2>2. ASSUME NEW i \in 1..skip PROVE buf[i] # SOF
    <3>1. i \in 1..Len(rxBuf) /\ rxBuf[i] # SOF
      BY <1>2, <1>7, <2>1 DEF PiHolds
    <3> QED
      BY <1>7, <3>1
  <2>3. ASSUME NEW i \in 1..(p + 1) PROVE buf[skip + i] = FrameBytes[i]
    <3>1. CASE i = p + 1
      BY <1>7, <2>1, <3>1 DEF b
    <3>2. CASE i # p + 1
      <4>1. i \in 1..p /\ skip + i \in 1..Len(rxBuf)
        BY <1>2, <1>7, <2>1, <3>2
      <4>2. rxBuf[skip + i] = FrameBytes[i]
        BY <4>1 DEF PiHolds
      <4> QED
        BY <1>7, <4>1, <4>2
    <3> QED
      BY <3>1, <3>2
  <2> QED
    BY <2>1, <2>2, <2>3
<1> HIDE DEF skip
<1>9. CASE Len(buf) < 5
  <2>1. rxBuf' = buf /\ PiGets(b) = <<>>
    BY <1>4, <1>5, <1>7, <1>9 DEF PiStep
  <2>2. p + 1 < 5 + n /\ Len(buf) - (p + 1) = skip /\ Len(buf) <= 4
    BY <1>2, <1>7, <1>8, <1>9
  <2>3. PiHolds(p + 1)'
    <3>1. Len(rxBuf') - (p + 1) = skip
      BY <2>1, <2>2
    <3>2. /\ Len(rxBuf') - (p + 1) >= 0 /\ Len(rxBuf') <= 4
          /\ \A i \in 1..(Len(rxBuf') - (p + 1)) : rxBuf'[i] # SOF
          /\ \A i \in 1..(p + 1) : rxBuf'[Len(rxBuf') - (p + 1) + i] = FrameBytes'[i]
      <4>1. /\ skip \in Nat /\ \A i \in 1..skip : buf[i] # SOF
            /\ \A i \in 1..(p + 1) : buf[skip + i] = FrameBytes[i]
        BY <1>8
      <4>2. skip >= 0
        BY <4>1
      <4> QED
        BY <1>6, <2>1, <2>2, <3>1, <4>1, <4>2, Zenon
    <3> QED
      BY <3>2 DEF PiHolds
  <2> QED
    BY <1>1, <1>2, <2>1, <2>2, <2>3 DEF b
<1>10. CASE ~ (Len(buf) < 5) /\ skip # 0
  <2>1. Len(buf) = 5 /\ skip \in 1..5 /\ 1 \in 1..skip
    BY <1>2, <1>7, <1>8, <1>10
  <2>2. buf[1] # SOF
    BY <1>8, <2>1
  <2>3. rxBuf' = Tail(buf) /\ PiGets(b) = <<>>
    <3>1. ~ (5 < 5)
      OBVIOUS
    <3>2. rxBuf' = Tail(buf)
      BY <1>4, <2>1, <2>2, <3>1, Zenon DEF PiStep
    <3> QED
      BY <1>5, <2>2, <3>2, Zenon
  <2>4. Len(rxBuf') = 4 /\ \A k \in 1..4 : rxBuf'[k] = buf[k + 1]
    BY <1>7, <2>1, <2>3, TailOfFive
  <2>5. p + 1 < 5 + n /\ 4 - (p + 1) = skip - 1 /\ skip - 1 \in 0..4 /\ skip - 1 + (p + 1) = 4
    <3>1. skip + (p + 1) = 5 /\ skip \in 1..5
      BY <1>8, <2>1, Zenon
    <3> QED
      BY <1>2, <3>1
  <2>6. ASSUME NEW i \in 1..(skip - 1) PROVE rxBuf'[i] # SOF
    <3>1. i \in 1..4 /\ i + 1 \in 1..skip
      BY <2>1, <2>5
    <3> QED
      BY <1>8, <2>4, <3>1
  <2>7. ASSUME NEW i \in 1..(p + 1) PROVE rxBuf'[skip - 1 + i] = FrameBytes[i]
    <3>1. skip - 1 + i \in 1..4 /\ (skip - 1 + i) + 1 = skip + i
      BY <1>2, <2>1, <2>5
    <3>2. rxBuf'[skip - 1 + i] = buf[skip + i]
      BY <2>4, <3>1
    <3> QED
      BY <1>8, <3>2
  <2>8. PiHolds(p + 1)'
    BY <1>6, <2>4, <2>5, <2>6, <2>7 DEF PiHolds
  <2> QED
    BY <1>1, <1>2, <2>3, <2>5, <2>8 DEF b
<1>11. CASE ~ (Len(buf) < 5) /\ skip = 0
  <2>1. Len(buf) = p + 1 /\ p + 1 >= 5 /\ \A i \in 1..(p + 1) : buf[i] = FrameBytes[i]
    BY <1>2, <1>8, <1>11
  <2>2. buf[1] = SOF /\ buf[2] = frame.type /\ buf[3] = n % Values /\ buf[4] = n \div Values
    <3>1. 1 \in 1..(p + 1) /\ 2 \in 1..(p + 1) /\ 3 \in 1..(p + 1) /\ 4 \in 1..(p + 1)
      BY <1>2, <2>1
    <3> QED
      BY <1>1, <2>1, <3>1
  <2>3. Whole(buf) = 5 + n
    <3>1. (n % Values) + (n \div Values) * Values = n /\ n % Values \in Nat /\ n \div Values \in Nat
      <4>1. n \in Nat /\ n < Values * Values /\ Values \in Nat /\ Values > 1
        BY <1>1, <1>2, Zenon
      <4>2. (n % Values) + (n \div Values) * Values = n
            /\ n % Values \in 0..(Values - 1) /\ n \div Values \in 0..(Values - 1)
        BY <4>1, DivisionFacts, Zenon
      <4> QED
        BY <4>2
    <3>2. Whole(buf) = 5 + (n % Values) + ((n \div Values) * Values)
      BY <2>2, Zenon DEF Whole
    <3> DEFINE low == n % Values
               high == (n \div Values) * Values
    <3>3. high \in Int
      BY <1>2, <3>1
    <3> HIDE DEF low, high
    <3>4. low + high = n /\ low \in Nat /\ Whole(buf) = 5 + low + high
      BY <3>1, <3>2, Zenon DEF low, high
    <3> QED
      BY <1>2, <3>3, <3>4
  <2>4. CASE p + 1 < 5 + n
    <3>1. rxBuf' = buf /\ PiGets(b) = <<>>
      BY <1>2, <1>4, <1>5, <2>1, <2>2, <2>3, <2>4 DEF PiStep
    <3>2. PiHolds(p + 1)'
      BY <1>2, <1>6, <2>1, <3>1 DEF PiHolds
    <3> QED
      BY <1>1, <1>2, <2>4, <3>1, <3>2 DEF b
  <2>5. CASE p + 1 = 5 + n
    <3>1. rxBuf' = <<>>
      BY <1>2, <1>4, <2>1, <2>2, <2>3, <2>5 DEF PiStep
    <3>2. PiHunts'
      BY <3>1 DEF PiHunts
    <3>3. SubSeq(buf, 5, 4 + n) = frame.payload
      <4>1. /\ SubSeq(buf, 5, 4 + n) \in Seq(Octet) /\ Len(SubSeq(buf, 5, 4 + n)) = n
            /\ \A i \in 1..n : SubSeq(buf, 5, 4 + n)[i] = buf[4 + i]
        BY <1>2, <1>7, <2>1, <2>5, MiddleOfSeq
      <4>2. ASSUME NEW i \in 1..n PROVE SubSeq(buf, 5, 4 + n)[i] = frame.payload[i]
        <5>1. 4 + i \in 1..(p + 1)
          BY <1>2, <2>5
        <5> QED
          BY <1>1, <2>1, <4>1, <5>1
      <4> QED
        BY <1>1, <4>1, <4>2, SeqEqual DEF n
    <3>4. b = Checksum(frame.type, n, frame.payload)
      BY <1>1, <2>5 DEF b
    <3>5. Len(buf) - 1 = 4 + n /\ Whole(buf) - 5 = n /\ Len(buf) >= Whole(buf) /\ Len(buf) >= 5
      BY <1>2, <2>1, <2>3, <2>5
    <3>6. PiGets(b) = <<[type |-> frame.type, payload |-> frame.payload]>>
      BY <1>5, <2>2, <3>3, <3>4, <3>5
    <3> QED
      BY <1>1, <1>2, <2>5, <3>2, <3>6 DEF b
  <2> QED
    BY <1>2, <2>4, <2>5
<1> QED
  BY <1>9, <1>10, <1>11

-----------------------------------------------------------------------------
\* The byte that arrives is the next of the frame.
LEMMA NextByte ==
  ASSUME FramingTypeOK, EndOfFrame, TakeByte
  PROVE  /\ Head(out) \in Octet /\ Head(out) = out[1] /\ 1 \in 1..Len(out) /\ out' \in Seq(Octet)
         /\ FrameBytes # <<>> /\ FrameBytes' = FrameBytes
         /\ SentBytes \in 0..(Len(FrameBytes) - 1) /\ Head(out) = FrameBytes[SentBytes + 1] /\ SentBytes' = SentBytes + 1
         /\ out' = <<>> => SentBytes + 1 = Len(FrameBytes)
         /\ out' # <<>> => SentBytes + 1 < Len(FrameBytes)
         /\ EndOfFrame'
         /\ \A k \in 1..Len(out') : k + 1 \in 1..Len(out) /\ out'[k] = out[k + 1]
         /\ Tame(frame) => \A k \in 1..Len(out') : out'[k] # SOF
<1>1. out \in Seq(Octet) /\ out # <<>> /\ out' = Tail(out) /\ frame' = frame /\ frame \in Frames
  BY DEF FramingTypeOK, TakeByte
<1>2. FrameBytes' = FrameBytes /\ FrameBytes # <<>> /\ FrameBytes \in Seq(Octet) /\ Len(FrameBytes) \in Nat
  <2>1. FrameBytes # <<>>
    BY <1>1 DEF EndOfFrame
  <2>2. FrameBytes \in Seq(Octet)
    BY <1>1, <2>1, SerializedFrame DEF FrameBytes
  <2> QED
    BY <1>1, <2>1, <2>2 DEF FrameBytes
<1>3. Len(out) \in 1..Len(FrameBytes) /\ \A k \in 1..Len(out) : out[k] = FrameBytes[SentBytes + k]
  BY <1>1, <1>2 DEF EndOfFrame
<1>4. /\ Head(out) \in Octet /\ Head(out) = out[1] /\ out' \in Seq(Octet)
      /\ Len(out') = Len(out) - 1 /\ \A k \in 1..Len(out') : out'[k] = out[k + 1]
  BY <1>1, HeadTailProperties
<1>5. SentBytes \in 0..(Len(FrameBytes) - 1) /\ SentBytes' = SentBytes + 1
  BY <1>2, <1>3, <1>4 DEF SentBytes
<1>6. Head(out) = FrameBytes[SentBytes + 1] /\ 1 \in 1..Len(out)
  BY <1>2, <1>3, <1>4
<1>7. /\ out' = <<>> => SentBytes + 1 = Len(FrameBytes)
      /\ out' # <<>> => SentBytes + 1 < Len(FrameBytes)
  <2>1. (out' = <<>>) <=> (Len(out') = 0)
    BY <1>4
  <2> QED
    BY <1>2, <1>3, <1>4, <2>1 DEF SentBytes
<1>8. ASSUME NEW k \in 1..Len(out')
      PROVE  /\ k + 1 \in 1..Len(out) /\ out'[k] = FrameBytes[SentBytes' + k]
             /\ SentBytes' + k \in 2..Len(FrameBytes)
  <2>1. k + 1 \in 1..Len(out) /\ SentBytes + (k + 1) = SentBytes' + k /\ SentBytes' + k \in 2..Len(FrameBytes)
    BY <1>2, <1>3, <1>4, <1>5 DEF SentBytes
  <2> QED
    BY <1>3, <1>4, <2>1
<1>9. EndOfFrame'
  BY <1>2, <1>3, <1>4, <1>8 DEF EndOfFrame
<1>10. Tame(frame) => \A k \in 1..Len(out') : out'[k] # SOF
  BY <1>8 DEF Tame, FrameBytes
<1> QED
  BY <1>2, <1>4, <1>5, <1>6, <1>7, <1>8, <1>9, <1>10

\* Whichever the receiver is.
LEMMA ReceiverTakes ==
  ASSUME FramingTypeOK, EndOfFrame, PicoSound, PiSound, TakeByte
  PROVE  /\ Kept(rx')
         /\ rxBuf' \in Seq(Octet) /\ Len(rxBuf') < Longest("pi")
         /\ PicoSound' /\ PiSound'
         /\ Holds(SentBytes) /\ out' = <<>> => Hunts' /\ got' = got \o <<frame>>
         /\ Holds(SentBytes) /\ out' # <<>> => Holds(SentBytes)' /\ got' = got \o <<>>
         /\ Hunts /\ Head(out) # SOF => Hunts'
         /\ \A n \in Nat : Has(n) => Has(n + 1)' \/ Hunts'
<1> DEFINE b == Head(out)
<1>1. /\ b \in Octet /\ FrameBytes # <<>> /\ SentBytes \in 0..(Len(FrameBytes) - 1) /\ b = FrameBytes[SentBytes + 1] /\ SentBytes' = SentBytes + 1
      /\ out' = <<>> => SentBytes + 1 = Len(FrameBytes)
      /\ out' # <<>> => SentBytes + 1 < Len(FrameBytes)
  BY NextByte
<1>2. frame' = frame /\ side' = side
  BY DEF TakeByte
<1>3. Kept(rx) /\ rxBuf \in Seq(Octet) /\ Len(rxBuf) < Longest("pi")
  BY DEF FramingTypeOK, Kept
<1>4. PICK p \in 0..(Len(FrameBytes) - 1) : p = SentBytes
  BY <1>1
<1> HIDE DEF b
<1>5. CASE side = "pico"
  <2>1. rx' = PicoTakes(b) /\ got' = got \o PicoGets(b) /\ rxBuf' = rxBuf
    BY <1>5 DEF TakeByte, b
  <2>2. Kept(rx')
    BY <1>1, <2>1, PicoSteps
  <2>3. PicoSound' /\ PiSound'
    <3>1. PiSound'
      BY <2>1 DEF PiSound, Whole
    <3> QED
      BY <1>1, <2>1, <3>1, PicoStaysSound
  <2>4. PicoHolds(p) => /\ p + 1 < Len(FrameBytes) => PicoHolds(p + 1)' /\ PicoGets(b) = <<>>
                        /\ p + 1 = Len(FrameBytes) => PicoHunts' /\ PicoGets(b) = <<frame>>
    <3>1. b = FrameBytes[p + 1]
      BY <1>1, <1>4
    <3> QED
      BY <1>1, <1>2, <2>1, <3>1, PicoHoldsMore
  <2>5. PicoHunts /\ b # SOF => PicoHunts'
    BY <1>1, <2>1, PicoSteps DEF PicoHunts
  <2>6. ASSUME NEW n \in Nat, n = 0 \/ PicoHas(n) PROVE PicoHas(n + 1)' \/ PicoHunts'
    BY <1>1, <2>1, <2>6, PicoHasMore
  <2>7. PicoHolds(SentBytes) /\ out' # <<>> => PicoHolds(SentBytes)' /\ PicoGets(b) = <<>>
    <3> SUFFICES ASSUME PicoHolds(p), out' # <<>> PROVE PicoHolds(SentBytes)' /\ PicoGets(b) = <<>>
      BY <1>4
    <3>1. PicoHolds(p + 1)' /\ PicoGets(b) = <<>>
      BY <1>1, <1>4, <2>4
    <3>2. SentBytes' = p + 1
      BY <1>1, <1>4
    <3> QED
      BY <3>1, <3>2 DEF PicoHolds
  <2>8. PicoHolds(SentBytes) /\ out' = <<>> => PicoHunts' /\ PicoGets(b) = <<frame>>
    BY <1>1, <1>4, <2>4
  <2> QED
    BY <1>1, <1>2, <1>3, <1>5, <2>1, <2>2, <2>3, <2>5, <2>6, <2>7, <2>8 DEF Holds, Hunts, Has, b
<1>6. CASE side # "pico"
  <2>1. rxBuf' = PiTakes(b) /\ got' = got \o PiGets(b) /\ rx' = rx
    BY <1>6 DEF TakeByte, b
  <2>2. rxBuf' \in Seq(Octet) /\ Len(rxBuf') < Longest("pi")
    BY <1>1, <2>1, PiSteps DEF PiStep
  <2>3. PicoSound' /\ PiSound'
    <3>1. PicoSound'
      BY <2>1 DEF PicoSound
    <3> QED
      BY <1>1, <2>1, <3>1, PiStaysSound
  <2>4. PiHolds(p) => /\ p + 1 < Len(FrameBytes) => PiHolds(p + 1)' /\ PiGets(b) = <<>>
                      /\ p + 1 = Len(FrameBytes) => PiHunts' /\ PiGets(b) = <<frame>>
    <3>1. b = FrameBytes[p + 1]
      BY <1>1, <1>4
    <3> QED
      BY <1>1, <1>2, <2>1, <3>1, PiHoldsMore
  <2>5. PiHunts /\ b # SOF => PiHunts'
    BY <1>1, <2>1, PiHuntsOn
  <2>6. ASSUME NEW n \in Nat, n = 0 \/ PiHas(n) PROVE PiHas(n + 1)' \/ PiHunts'
    BY <1>1, <2>1, <2>6, PiHasMore
  <2>7. PiHolds(SentBytes) /\ out' # <<>> => PiHolds(SentBytes)' /\ PiGets(b) = <<>>
    <3> SUFFICES ASSUME PiHolds(p), out' # <<>> PROVE PiHolds(SentBytes)' /\ PiGets(b) = <<>>
      BY <1>4
    <3>1. PiHolds(p + 1)' /\ PiGets(b) = <<>>
      BY <1>1, <1>4, <2>4
    <3>2. SentBytes' = p + 1
      BY <1>1, <1>4
    <3> QED
      BY <3>1, <3>2 DEF PiHolds
  <2>8. PiHolds(SentBytes) /\ out' = <<>> => PiHunts' /\ PiGets(b) = <<frame>>
    BY <1>1, <1>4, <2>4
  <2> QED
    BY <1>1, <1>2, <1>3, <1>6, <2>1, <2>2, <2>3, <2>5, <2>6, <2>7, <2>8 DEF Holds, Hunts, Has, b
<1> QED
  BY <1>5, <1>6

\* No receiver has as much as that of a frame that does not come.
LEMMA NeverHasAll ==
  ASSUME FramingTypeOK, PicoSound, PiSound
  PROVE  Longest(side) \in Nat /\ Longest(side) > 0 /\ ~ Has(Longest(side))
<1> DEFINE Top == Values * Values - 1
<1>1. Top \in Nat /\ MaxPayload \in Nat
  <2>1. Values \in Nat /\ Values > 1 /\ MaxPayload \in Nat
    BY CdcFramingAssumption
  <2>2. 0 \in 0..(Values - 1) /\ 0 + 0 * Values = 0
    BY <2>1
  <2>3. 0 + 0 * Values \in 0..Top
    BY <2>1, <2>2, LengthFacts
  <2> QED
    BY <2>1, <2>2, <2>3
<1>2. Longest(side) = IF side = "pico" THEN MaxPayload + 5 ELSE Top + 5
  BY DEF Longest
<1>3. Longest("pi") = Top + 5
  BY DEF Longest
<1> HIDE DEF Top
<1>4. Longest(side) \in Nat /\ Longest(side) > 0
  BY <1>1, <1>2
<1>5. CASE side = "pico"
  <2>1. Consumed \in Nat /\ Consumed <= 4 + MaxPayload
    BY <1>1 DEF Consumed, FramingTypeOK
  <2> QED
    BY <1>1, <1>2, <1>4, <1>5, <2>1 DEF Has, PicoHas
<1>6. CASE side # "pico"
  <2>1. Len(rxBuf) \in Nat /\ Len(rxBuf) < Top + 5
    BY <1>3 DEF FramingTypeOK
  <2>2. ~ PiHas(Top + 5)
    BY <1>1, <2>1 DEF PiHas
  <2> QED
    BY <1>2, <1>4, <1>6, <2>2 DEF Has
<1> QED
  BY <1>4, <1>5, <1>6

LEMMA FramingConstants ==
  /\ Kept(WaitSof) /\ <<>> \in Seq(Octet) /\ 0 < Longest("pi")
  /\ \A s : Longest(s) \in Nat
  /\ MaxLosses \in Nat
<1> DEFINE Top == Values * Values - 1
<1>1. Top \in Nat /\ 0 \in 0..Top /\ 0 \in Octet /\ MaxPayload \in Nat /\ MaxLosses \in Nat
  <2>1. Values \in Nat /\ Values > 1 /\ MaxPayload \in Nat /\ MaxLosses \in Nat
    BY CdcFramingAssumption
  <2>2. 0 \in 0..(Values - 1) /\ 0 + 0 * Values = 0
    BY <2>1
  <2>3. 0 + 0 * Values \in 0..Top
    BY <2>1, <2>2, LengthFacts
  <2> QED
    BY <2>1, <2>2, <2>3 DEF Octet
<1>2. \A s : Longest(s) = IF s = "pico" THEN MaxPayload + 5 ELSE Top + 5
  BY DEF Longest
<1>3. Kept(WaitSof) <=> /\ WaitSof \in [state: {"sof", "type", "len", "len2", "payload", "checksum"}, type: Octet,
                                         len: 0..Top, buf: Seq(Octet)]
                         /\ Len(WaitSof.buf) <= MaxPayload
  BY DEF Kept
<1> HIDE DEF Top
<1>4. Kept(WaitSof)
  BY <1>1, <1>3 DEF WaitSof
<1> QED
  BY <1>1, <1>2, <1>4

LEMMA FramingInvStarts == FramingInit => FramingInv
<1> SUFFICES ASSUME FramingInit PROVE FramingInv
  OBVIOUS
<1>1. /\ side \in Sides /\ frame \in Frames /\ out = <<>> /\ rx = WaitSof /\ rxBuf = <<>>
      /\ losses = MaxLosses /\ got = <<frame>> /\ since = Longest(side) /\ inStep = TRUE
  BY DEF FramingInit
<1>2. /\ Kept(WaitSof) /\ <<>> \in Seq(Octet) /\ 0 < Longest("pi") /\ Longest(side) \in Nat /\ MaxLosses \in Nat
  BY FramingConstants
<1>3. FramingTypeOK
  BY <1>1, <1>2 DEF FramingTypeOK, Kept
<1>4. Hunts
  BY <1>1 DEF Hunts, PicoHunts, PiHunts, WaitSof
<1>5. EndOfFrame /\ PicoSound /\ PiSound
  BY <1>1 DEF EndOfFrame, PicoSound, PiSound, WaitSof
<1>6. InPhase /\ WholeInStep
  BY <1>1, <1>4 DEF InPhase, WholeInStep
<1> QED
  BY <1>3, <1>5, <1>6 DEF FramingInv

LEMMA FramingInvKept == FramingInv /\ [FramingNext]_framingVars => FramingInv'
<1> SUFFICES ASSUME FramingInv, [FramingNext]_framingVars PROVE FramingInv'
  OBVIOUS
<1>1. /\ FramingTypeOK /\ EndOfFrame /\ PicoSound /\ PiSound /\ WholeInStep
      /\ InPhase \/ Has(since)
  BY DEF FramingInv
<1>2. /\ side \in Sides /\ frame \in Frames /\ out \in Seq(Octet) /\ Kept(rx)
      /\ rxBuf \in Seq(Octet) /\ Len(rxBuf) < Longest("pi")
      /\ losses \in 0..MaxLosses /\ since \in 0..Longest(side) /\ inStep \in BOOLEAN
  BY <1>1 DEF FramingTypeOK, Kept
<1>3. Longest(side) \in Nat /\ Longest(side) > 0 /\ ~ Has(Longest(side)) /\ MaxLosses \in Nat
  BY <1>1, NeverHasAll, FramingConstants
<1>4. since = Longest(side) => InPhase
  BY <1>1, <1>3
<1>5. ASSUME TakeByte PROVE FramingInv'
  <2>1. /\ out # <<>> /\ side' = side /\ frame' = frame /\ losses' = losses /\ inStep' = inStep
        /\ since' = IF since = Longest(side) THEN since ELSE IF Tame(frame) THEN since + 1 ELSE 0
    BY <1>5 DEF TakeByte
  <2>2. /\ Head(out) = out[1] /\ 1 \in 1..Len(out) /\ out' \in Seq(Octet) /\ EndOfFrame'
        /\ \A k \in 1..Len(out') : k + 1 \in 1..Len(out) /\ out'[k] = out[k + 1]
        /\ Tame(frame) => \A k \in 1..Len(out') : out'[k] # SOF
    BY <1>1, <1>5, NextByte
  <2>3. /\ Kept(rx') /\ rxBuf' \in Seq(Octet) /\ Len(rxBuf') < Longest("pi") /\ PicoSound' /\ PiSound'
        /\ Holds(SentBytes) /\ out' = <<>> => Hunts' /\ got' = got \o <<frame>>
        /\ Holds(SentBytes) /\ out' # <<>> => Holds(SentBytes)' /\ got' = got \o <<>>
        /\ Hunts /\ Head(out) # SOF => Hunts'
        /\ \A n \in Nat : Has(n) => Has(n + 1)' \/ Hunts'
    BY <1>1, <1>5, ReceiverTakes
  <2>4. since' \in 0..Longest(side) /\ Longest(side)' = Longest(side)
    BY <1>2, <1>3, <2>1 DEF Longest
  <2>5. FramingTypeOK'
    BY <1>2, <2>1, <2>2, <2>3, <2>4 DEF FramingTypeOK, Kept
  <2>6. ASSUME InPhase PROVE InPhase'
    <3>1. CASE Holds(SentBytes)
      BY <2>3, <3>1 DEF InPhase
    <3>2. CASE Hunts /\ \A k \in 1..Len(out) : out[k] # SOF
      <4>1. Hunts'
        BY <2>2, <2>3, <3>2
      <4>2. \A k \in 1..Len(out') : out'[k] # SOF
        BY <2>2, <3>2
      <4> QED
        BY <4>1, <4>2 DEF InPhase
    <3> QED
      BY <2>1, <2>6, <3>1, <3>2 DEF InPhase
  <2>7. ASSUME ~ InPhase PROVE InPhase' \/ Has(since)'
    <3>1. since # Longest(side) /\ Has(since)
      BY <1>1, <1>4, <2>7
    <3>2. CASE ~ Tame(frame)
      BY <2>1, <3>1, <3>2 DEF Has
    <3>3. CASE Tame(frame)
      <4>1. PICK n \in Nat : n = since
        BY <1>2, <1>3
      <4>2. Has(n + 1)' \/ Hunts'
        BY <2>3, <3>1, <4>1
      <4>3. since' = n + 1
        BY <2>1, <3>1, <3>3, <4>1
      <4>4. Has(n + 1)' => Has(since)'
        BY <4>3 DEF Has, PicoHas, PiHas
      <4>5. Hunts' => InPhase'
        BY <2>2, <3>3 DEF InPhase
      <4> QED
        BY <4>2, <4>4, <4>5
    <3> QED
      BY <3>2, <3>3
  <2>8. WholeInStep'
    <3> SUFFICES ASSUME inStep PROVE since' = Longest(side)' /\ IF out' = <<>> THEN got' = <<frame'>>
                                                              ELSE Holds(SentBytes)' /\ got' = <<>>
      BY <2>1 DEF WholeInStep
    <3>1. since = Longest(side) /\ Holds(SentBytes) /\ got = <<>>
      BY <1>1, <2>1 DEF WholeInStep
    <3>2. <<>> \o <<frame>> = <<frame>> /\ <<>> \o <<>> = <<>>
      <4>1. <<>> \in Seq(Frames) /\ <<frame>> \in Seq(Frames)
        BY <1>2
      <4> QED
        BY <4>1, ConcatEmptySeq
    <3> QED
      BY <2>1, <2>3, <2>4, <3>1, <3>2
  <2> QED
    BY <2>2, <2>3, <2>5, <2>6, <2>7, <2>8 DEF FramingInv
<1>6. ASSUME NEW f \in Frames, SendFrame(f) PROVE FramingInv'
  <2>1. /\ out = <<>> /\ Serialize(f) # <<>> /\ frame' = f /\ out' = Serialize(f)
        /\ got' = <<>> /\ inStep' = (since = Longest(side)) /\ side' = side
        /\ rx' = rx /\ rxBuf' = rxBuf /\ losses' = losses /\ since' = since
    BY <1>6 DEF SendFrame
  <2>2. Serialize(f) \in Seq(Octet) /\ Len(Serialize(f)) \in Nat
    BY <2>1, SerializedFrame
  <2>3. Longest(side)' = Longest(side) /\ inStep' \in BOOLEAN
    BY <2>1
  <2>4. FramingTypeOK'
    BY <1>2, <2>1, <2>2, <2>3 DEF FramingTypeOK, Kept
  <2>5. FrameBytes' = out' /\ SentBytes' = 0
    BY <2>1, <2>2 DEF FrameBytes, SentBytes
  <2>6. EndOfFrame'
    BY <2>1, <2>2, <2>5 DEF EndOfFrame
  <2>7. PicoSound' /\ PiSound'
    BY <1>1, <2>1 DEF PicoSound, PiSound, Whole
  <2>8. Hunts => Holds(SentBytes)'
    BY <1>2, <2>1, <2>5 DEF Hunts, PicoHunts, PiHunts, Holds, PicoHolds, PiHolds
  <2>9. InPhase => InPhase'
    BY <2>1, <2>8 DEF InPhase
  <2>10. Has(since) => Has(since)'
    BY <2>1 DEF Has, PicoHas, PiHas, Consumed
  <2>11. WholeInStep'
    <3>1. since = Longest(side) => Holds(SentBytes)'
      BY <1>4, <2>1, <2>8 DEF InPhase
    <3> QED
      BY <2>1, <2>3, <3>1 DEF WholeInStep
  <2> QED
    BY <1>1, <2>4, <2>6, <2>7, <2>9, <2>10, <2>11 DEF FramingInv
<1>7. ASSUME LoseRest PROVE FramingInv'
  <2>1. /\ losses > 0 /\ losses' = losses - 1 /\ out' = <<>> /\ since' = 0 /\ inStep' = FALSE
        /\ side' = side /\ frame' = frame /\ rx' = rx /\ rxBuf' = rxBuf
    BY <1>7 DEF LoseRest
  <2>2. FramingTypeOK'
    <3>1. since' \in 0..Longest(side') /\ losses' \in 0..MaxLosses /\ out' \in Seq(Octet)
      BY <1>2, <1>3, <2>1
    <3> QED
      BY <1>2, <2>1, <3>1 DEF FramingTypeOK, Kept
  <2>3. PicoSound' /\ PiSound' /\ EndOfFrame'
    BY <1>1, <2>1 DEF PicoSound, PiSound, Whole, EndOfFrame
  <2>4. Has(since)' /\ WholeInStep'
    BY <2>1 DEF Has, WholeInStep
  <2> QED
    BY <2>2, <2>3, <2>4 DEF FramingInv
<1>8. ASSUME Restart PROVE FramingInv'
  <2>1. /\ losses > 0 /\ losses' = losses - 1 /\ rx' = WaitSof /\ rxBuf' = <<>> /\ since' = 0 /\ inStep' = FALSE
        /\ side' = side /\ frame' = frame /\ out' = out
    BY <1>8 DEF Restart
  <2>2. Kept(WaitSof) /\ <<>> \in Seq(Octet) /\ 0 < Longest("pi")
    BY FramingConstants
  <2>3. FramingTypeOK'
    <3>1. since' \in 0..Longest(side') /\ losses' \in 0..MaxLosses /\ Len(<<>>) = 0
      BY <1>2, <1>3, <2>1
    <3> QED
      BY <1>2, <2>1, <2>2, <3>1 DEF FramingTypeOK, Kept
  <2>4. PicoSound' /\ PiSound'
    BY <2>1 DEF PicoSound, PiSound, WaitSof
  <2>5. EndOfFrame'
    BY <1>1, <2>1 DEF EndOfFrame, FrameBytes, SentBytes
  <2>6. Has(since)' /\ WholeInStep'
    BY <2>1 DEF Has, WholeInStep
  <2> QED
    BY <2>3, <2>4, <2>5, <2>6 DEF FramingInv
<1>9. ASSUME UNCHANGED framingVars PROVE FramingInv'
  <2>1. /\ side' = side /\ frame' = frame /\ out' = out /\ rx' = rx /\ rxBuf' = rxBuf
        /\ losses' = losses /\ got' = got /\ since' = since /\ inStep' = inStep
    BY <1>9 DEF framingVars
  <2>2. FramingTypeOK'
    BY <1>1, <2>1 DEF FramingTypeOK, Longest
  <2>3. EndOfFrame' /\ PicoSound' /\ PiSound'
    BY <1>1, <2>1 DEF EndOfFrame, FrameBytes, SentBytes, PicoSound, PiSound, Whole
  <2>4. (Hunts => Hunts') /\ (Holds(SentBytes) => Holds(SentBytes)')
    BY <2>1 DEF Hunts, PicoHunts, PiHunts, Holds, PicoHolds, PiHolds, SentBytes, FrameBytes
  <2>5. (InPhase => InPhase') /\ (Has(since) => Has(since)')
    BY <2>1, <2>4 DEF InPhase, Has, PicoHas, PiHas, Consumed
  <2>6. WholeInStep'
    BY <1>1, <2>1, <2>4 DEF WholeInStep, Longest
  <2> QED
    BY <1>1, <2>2, <2>3, <2>5, <2>6 DEF FramingInv
<1> QED
  BY <1>5, <1>6, <1>7, <1>8, <1>9 DEF FramingNext

FramingSpec == FramingInit /\ [][FramingNext]_framingVars

\* For every set of frames and every size of a byte, the receivers keep to the
\* room that they have: s_rx_idx stays inside s_rx_buf, m_rxBuf is bounded.
THEOREM FramingTypeCorrect == FramingSpec => []FramingTypeOK
<1>1. FramingInv => FramingTypeOK
  BY DEF FramingInv
<1> QED
  BY <1>1, FramingInvStarts, FramingInvKept, PTL DEF FramingSpec

\* For every set of frames: after losses, wrong starts and restarts, once as many
\* bytes as the receiver can take for one frame have come in frames without an
\* SOF inside, each frame that comes whole is received, once, and nothing else.
THEOREM FramesComeThrough == FramingSpec => []FramesArrive
<1>1. FramingInv => FramesArrive
  BY DEF FramingInv, WholeInStep, FramesArrive
<1> QED
  BY <1>1, FramingInvStarts, FramingInvKept, PTL DEF FramingSpec

=============================================================================
