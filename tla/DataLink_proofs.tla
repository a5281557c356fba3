-------------------------- MODULE DataLink_proofs --------------------------
(***************************************************************************)
(* The two bytes that calculateChecksum appends bring the sums to zero,    *)
(* whole packets of any length are valid, and those with one wrong byte    *)
(* are not.  Packets are compared round by round; an induction on the      *)
(* rounds takes the first one at which what it says would fail.            *)
(***************************************************************************)
EXTENDS DataLink, WellFoundedInduction, SequenceTheorems, TLAPS

\* The remainder of a number below twice the modulus.
LEMMA OneWrap ==
    ASSUME NEW n \in Nat \ {0}, NEW a \in Nat, a < 2 * n
    PROVE  a % n = IF a < n THEN a ELSE a - n
<1>1. CASE a < n
  BY <1>1
<1>2. CASE a >= n
  <2>1. a % n \in 0..(n - 1) /\ a \div n \in Int /\ a = n * (a \div n) + (a % n)
    OBVIOUS
  <2> DEFINE q == a \div n
  <2>2. q \in Int /\ a = n * q + (a % n)
    BY <2>1
  <2> HIDE DEF q
  <2>3. q <= 0 => n * q <= 0
    BY <2>2
  <2>4. q >= 2 => n * q >= 2 * n
    BY <2>2
  <2>5. q = 1
    BY <1>2, <2>1, <2>2, <2>3, <2>4
  <2> QED
    BY <1>2, <2>1, <2>2, <2>5
<1> QED
  BY <1>1, <1>2

\* The same for the sums that Step reduces.
LEMMA SumWraps ==
    ASSUME NEW n \in Nat \ {0}, NEW a \in 0..n, NEW b \in 0..(n - 1)
    PROVE  (b + a) % n = IF b + a < n THEN b + a ELSE b + a - n
<1> DEFINE sum == b + a
<1>1. sum \in Nat /\ sum < 2 * n
  OBVIOUS
<1> HIDE DEF sum
<1>2. sum % n = IF sum < n THEN sum ELSE sum - n
  BY <1>1, OneWrap
<1> QED
  BY <1>2 DEF sum

\* Both sums stay below Base, and a check byte is at most Base.
LEMMA BaseWraps ==
    \A a \in 0..Base, b \in 0..(Base - 1) :
        (b + a) % Base = IF b + a < Base THEN b + a ELSE b + a - Base
BY DataLinkAssumption, SumWraps, Zenon

\* calculateChecksum makes ACCUMULATE_FLETCHER over its own two bytes end in
\* zero, whatever sums the packet has led to.
THEOREM ChecksumCloses ==
    ASSUME NEW s1 \in 0..(Base - 1), NEW s2 \in 0..(Base - 1)
    PROVE  Step(Step(<<s1, s2>>, Check(<<s1, s2>>)[1]), Check(<<s1, s2>>)[2]) = <<0, 0>>
<1> DEFINE r  == (s1 + s2) % Base
           c1 == Base - r
           t1 == (s1 + c1) % Base
           t2 == (s2 + t1) % Base
           c2 == Base - t1
           u1 == (t1 + c2) % Base
           u2 == (t2 + u1) % Base
<1>1. Base \in Nat \ {0}
  BY DataLinkAssumption
<1>2. r = (IF s1 + s2 < Base THEN s1 + s2 ELSE s1 + s2 - Base) /\ r \in 0..(Base - 1)
  <2>1. r = IF s1 + s2 < Base THEN s1 + s2 ELSE s1 + s2 - Base
    <3>1. s2 \in 0..Base
      BY <1>1
    <3> QED
      BY BaseWraps, <3>1, Zenon
  <2> HIDE DEF r
  <2> QED
    BY <1>1, <2>1
<1> HIDE DEF r
<1>3. c1 = Base - r /\ c1 \in 0..Base
  BY <1>1, <1>2
<1> HIDE DEF c1
<1>4. t1 = IF s1 + c1 < Base THEN s1 + c1 ELSE s1 + c1 - Base
  BY BaseWraps, <1>3, Zenon
<1> HIDE DEF t1
<1>5. t1 = (IF s2 = 0 THEN 0 ELSE Base - s2) /\ t1 \in 0..(Base - 1)
  BY <1>1, <1>2, <1>3, <1>4
<1>6. t2 = 0
  <2>1. t2 = IF s2 + t1 < Base THEN s2 + t1 ELSE s2 + t1 - Base
    <3>1. t1 \in 0..Base
      BY <1>1, <1>5
    <3> QED
      BY BaseWraps, <3>1, Zenon
  <2> HIDE DEF t2
  <2> QED
    BY <1>1, <1>5, <2>1
<1> HIDE DEF t2
<1>7. u1 = 0
  <2>1. t1 + c2 = Base /\ Base < 2 * Base
    BY <1>1, <1>5
  <2>2. Base % Base = 0
    BY <1>1, <2>1, OneWrap
  <2> QED
    BY <2>1, <2>2
<1> HIDE DEF c2, u1
<1>8. u2 = 0
  <2>1. t2 + u1 = 0 /\ 0 < 2 * Base
    BY <1>1, <1>6, <1>7
  <2>2. 0 % Base = 0
    BY <1>1, <2>1, OneWrap
  <2> QED
    BY <2>1, <2>2
<1> HIDE DEF u2
<1>9. Check(<<s1, s2>>) = <<c1, c2>>
  BY DEF Check, r, c1, c2, t1
<1>10. Step(<<s1, s2>>, c1) = <<t1, t2>>
  BY DEF Step, t1, t2
<1>11. Step(<<t1, t2>>, c2) = <<u1, u2>>
  BY DEF Step, u1, u2
<1> QED
  BY <1>7, <1>8, <1>9, <1>10, <1>11

-----------------------------------------------------------------------------
(* The sums of a whole packet.                                             *)

Pair == (0..(Base - 1)) \X (0..(Base - 1))

\* The sums before the first byte and after each of the first "many".
IsRun(f, bytes, many) ==
    f = [n \in 0..many |-> IF n = 0 THEN <<Seed, 0>> ELSE Step(f[n - 1], bytes[n])]

Less == {p \in Nat \X Nat : p[1] < p[2]}

LEMMA LessWellFounded == IsWellFoundedOn(Less, Nat)
<1>1. OpToRel(<, Nat) = Less
  BY DEF OpToRel, Less
<1> QED
  BY <1>1, NatLessThanWellFounded

\* Induction, first order: a set of counterexamples has a least element.
LEMMA Least ==
    ASSUME NEW S \in SUBSET Nat, S # {}
    PROVE  \E x \in S : x = 0 \/ (x - 1 \in Nat /\ x - 1 \notin S)
<1>1. \E x \in S : \A y \in S : ~ (<<y, x>> \in Less)
  BY LessWellFounded, WFMin, Zenon
<1>2. PICK x \in S : \A y \in S : ~ (<<y, x>> \in Less)
  BY <1>1
<1>3. CASE x # 0
  <2>1. x \in Nat /\ x - 1 \in Nat /\ x - 1 < x
    BY <1>3
  <2>2. <<x - 1, x>> \in Less
    BY <2>1 DEF Less
  <2> QED
    BY <1>2, <2>1, <2>2
<1> QED
  BY <1>2, <1>3

LEMMA RunExists ==
    ASSUME NEW bytes, NEW many \in Nat
    PROVE  \E f : IsRun(f, bytes, many)
<1> DEFINE S == {k \in Nat : ~ \E f : IsRun(f, bytes, k)}
<1>1. SUFFICES S = {}
  OBVIOUS
<1>2. SUFFICES ASSUME S # {} PROVE FALSE
  OBVIOUS
<1>3. PICK x \in S : x = 0 \/ (x - 1 \in Nat /\ x - 1 \notin S)
  <2> HIDE DEF S
  <2>1. S \in SUBSET Nat
    BY DEF S
  <2> QED
    BY <1>2, <2>1, Least
<1>4. CASE x = 0
  <2> DEFINE f == [n \in 0..0 |-> <<Seed, 0>>]
  <2>1. f = [n \in 0..0 |-> IF n = 0 THEN <<Seed, 0>> ELSE Step(f[n - 1], bytes[n])]
    OBVIOUS
  <2>2. IsRun(f, bytes, 0)
    BY <2>1 DEF IsRun
  <2> QED
    BY <1>4, <2>2
<1>5. CASE x - 1 \in Nat /\ x - 1 \notin S
  <2>1. PICK f : IsRun(f, bytes, x - 1)
    BY <1>5
  <2> DEFINE g == [n \in 0..x |-> IF n = x THEN Step(f[x - 1], bytes[x]) ELSE f[n]]
  <2>2. x \in Nat /\ x > 0
    BY <1>5
  <2>3. \A n \in 0..(x - 1) :
          f[n] = IF n = 0 THEN <<Seed, 0>> ELSE Step(f[n - 1], bytes[n])
    BY <2>1 DEF IsRun
  <2>4. \A n \in 0..x : g[n] = IF n = 0 THEN <<Seed, 0>> ELSE Step(g[n - 1], bytes[n])
    <3> SUFFICES ASSUME NEW n \in 0..x
                 PROVE  g[n] = IF n = 0 THEN <<Seed, 0>> ELSE Step(g[n - 1], bytes[n])
      OBVIOUS
    <3>1. CASE n = x
      <4>1. g[n] = Step(f[x - 1], bytes[x]) /\ g[n - 1] = f[x - 1]
        BY <2>2, <3>1
      <4> QED
        BY <2>2, <3>1, <4>1
    <3>2. CASE n # x
      <4>1. n \in 0..(x - 1) /\ g[n] = f[n]
        BY <2>2, <3>2
      <4>2. n # 0 => g[n - 1] = f[n - 1]
        BY <2>2, <3>2
      <4> QED
        BY <2>3, <4>1, <4>2
    <3> QED
      BY <3>1, <3>2
  <2>5. g = [n \in 0..x |-> IF n = 0 THEN <<Seed, 0>> ELSE Step(g[n - 1], bytes[n])]
    BY <2>4
  <2>6. IsRun(g, bytes, x)
    BY <2>5 DEF IsRun
  <2> QED
    BY <2>6
<1> QED
  BY <1>3, <1>4, <1>5

LEMMA SumsRun ==
    ASSUME NEW bytes \in Seq(Byte)
    PROVE  \E f : IsRun(f, bytes, Len(bytes)) /\ Sums(bytes) = f[Len(bytes)]
<1> DEFINE f == CHOOSE f : IsRun(f, bytes, Len(bytes))
<1>1. IsRun(f, bytes, Len(bytes))
  BY RunExists
<1>2. Sums(bytes) = f[Len(bytes)]
  BY DEF Sums, IsRun
<1> QED
  BY <1>1, <1>2

\* One round keeps both sums below Base.
LEMMA StepType ==
    ASSUME NEW s \in Pair, NEW byte \in Byte
    PROVE  /\ Step(s, byte) \in Pair
           /\ Step(s, byte)[1] = (s[1] + byte) % Base
<1> DEFINE s1 == (s[1] + byte) % Base
<1>1. Base \in Nat \ {0} /\ s[1] \in Nat /\ s[2] \in Nat /\ byte \in Nat
  BY DataLinkAssumption DEF Pair, Byte
<1>2. s1 \in 0..(Base - 1)
  BY <1>1
<1> HIDE DEF s1
<1>3. (s[2] + s1) % Base \in 0..(Base - 1)
  BY <1>1, <1>2
<1>4. Step(s, byte) = <<s1, (s[2] + s1) % Base>>
  BY DEF Step, s1
<1> QED
  BY <1>2, <1>3, <1>4 DEF Pair, s1

LEMMA RunType ==
    ASSUME NEW many \in Nat, NEW bytes, \A n \in 1..many : bytes[n] \in Byte,
           NEW f, IsRun(f, bytes, many)
    PROVE  /\ \A n \in 0..many : f[n] \in Pair
           /\ f[0] = <<Seed, 0>>
           /\ \A n \in 1..many : f[n] = Step(f[n - 1], bytes[n])
<1>1. /\ f[0] = <<Seed, 0>>
      /\ \A n \in 1..many : f[n] = Step(f[n - 1], bytes[n])
  <2>1. \A n \in 0..many : f[n] = IF n = 0 THEN <<Seed, 0>> ELSE Step(f[n - 1], bytes[n])
    BY DEF IsRun
  <2> QED
    BY <2>1
<1> DEFINE S == {k \in 0..many : f[k] \notin Pair}
<1>2. ASSUME S # {} PROVE FALSE
  <2> HIDE DEF S
  <2>1. S \in SUBSET Nat
    BY DEF S
  <2>2. PICK x \in S : x = 0 \/ (x - 1 \in Nat /\ x - 1 \notin S)
    BY <1>2, <2>1, Least
  <2>3. x \in 0..many /\ f[x] \notin Pair
    BY DEF S
  <2>4. <<Seed, 0>> \in Pair
    BY DataLinkAssumption DEF Pair
  <2>5. x # 0
    BY <1>1, <2>3, <2>4
  <2>6. x \in 1..many /\ x - 1 \in 0..many /\ f[x - 1] \in Pair
    BY <2>2, <2>3, <2>5 DEF S
  <2> QED
    BY <1>1, <2>3, <2>6, StepType
<1> QED
  BY <1>1, <1>2

LEMMA SumsType ==
    ASSUME NEW bytes \in Seq(Byte)
    PROVE  Sums(bytes) \in Pair
<1>1. PICK f : IsRun(f, bytes, Len(bytes)) /\ Sums(bytes) = f[Len(bytes)]
  BY SumsRun
<1>2. Len(bytes) \in Nat /\ \A n \in 1..Len(bytes) : bytes[n] \in Byte
  OBVIOUS
<1>3. \A n \in 0..Len(bytes) : f[n] \in Pair
  BY <1>1, <1>2, RunType
<1> QED
  BY <1>1, <1>2, <1>3

LEMMA CheckType ==
    ASSUME NEW s \in Pair
    PROVE  Check(s) = <<Check(s)[1], Check(s)[2]>> /\ Check(s)[1] \in Byte /\ Check(s)[2] \in Byte
<1> DEFINE r1 == (s[1] + s[2]) % Base
           c1 == Base - r1
           r2 == (s[1] + c1) % Base
<1>1. Base \in Nat \ {0} /\ s[1] \in Nat /\ s[2] \in Nat
  BY DataLinkAssumption DEF Pair
<1>2. r1 \in 0..(Base - 1)
  BY <1>1
<1>3. c1 \in 0..Base
  <2> HIDE DEF r1
  <2> QED
    BY <1>1, <1>2
<1> HIDE DEF c1
<1>4. r2 \in 0..(Base - 1)
  BY <1>1, <1>3
<1> HIDE DEF r2
<1>5. Check(s) = <<c1, Base - r2>>
  BY DEF Check, c1, r2, r1
<1> QED
  BY <1>1, <1>3, <1>4, <1>5 DEF Byte

-----------------------------------------------------------------------------
(* A packet on the line and in the slot.                                   *)

Header(body) == <<Len(body)>> \o body

LEMMA PacketShape ==
    ASSUME NEW body \in Seq(Byte), Len(body) \in Byte
    PROVE  /\ Header(body) \in Seq(Byte) /\ Len(Header(body)) = Len(body) + 1
           /\ Packet(body) \in Seq(Byte) /\ Len(Packet(body)) = Len(body) + 3
           /\ Packet(body)[1] = Len(body)
           /\ \A i \in 1..(Len(body) + 1) : Packet(body)[i] = Header(body)[i]
           /\ Packet(body)[Len(body) + 2] = Check(Sums(Header(body)))[1]
           /\ Packet(body)[Len(body) + 3] = Check(Sums(Header(body)))[2]
<1>1. Header(body) \in Seq(Byte) /\ Len(Header(body)) = Len(body) + 1
      /\ Header(body)[1] = Len(body)
  BY DEF Header
<1> DEFINE c == Check(Sums(Header(body)))
<1>2. c = <<c[1], c[2]>> /\ c[1] \in Byte /\ c[2] \in Byte
  BY <1>1, SumsType, CheckType
<1>3. Packet(body) = Header(body) \o c
  BY DEF Packet, Header
<1> HIDE DEF c
<1>4. c \in Seq(Byte) /\ Len(c) = 2
  <2>1. PICK x \in Byte, y \in Byte : c = <<x, y>>
    BY <1>2
  <2> QED
    BY <2>1
<1>5. Packet(body) \in Seq(Byte) /\ Len(Packet(body)) = Len(body) + 3
      /\ \A i \in 1..(Len(body) + 3) :
            Packet(body)[i] = IF i <= Len(body) + 1 THEN Header(body)[i]
                              ELSE c[i - (Len(body) + 1)]
  <2>1. /\ Header(body) \o c \in Seq(Byte)
        /\ Len(Header(body) \o c) = Len(Header(body)) + Len(c)
        /\ \A i \in 1..(Len(Header(body)) + Len(c)) :
              (Header(body) \o c)[i] = IF i <= Len(Header(body)) THEN Header(body)[i]
                                       ELSE c[i - Len(Header(body))]
    BY <1>1, <1>4, ConcatProperties
  <2>2. Len(body) \in Nat /\ (Len(body) + 1) + 2 = Len(body) + 3
    OBVIOUS
  <2> QED
    BY <1>1, <1>3, <1>4, <2>1, <2>2
<1>6. Len(body) \in Nat
  OBVIOUS
<1> QED
  BY <1>1, <1>5, <1>6 DEF c

\* What isChecksumValid sees of a slot that holds the packet but for one byte.
LEMMA SlotSeen ==
    ASSUME NEW body \in Seq(Byte), Len(body) \in Byte,
           NEW s \in [1..SlotSize -> Byte], s[1] = Len(body)
    PROVE  /\ SubSeq(s, 1, Len(body) + 1) \in Seq(Byte)
           /\ Len(SubSeq(s, 1, Len(body) + 1)) = Len(body) + 1
           /\ \A i \in 1..(Len(body) + 1) : SubSeq(s, 1, Len(body) + 1)[i] = s[i]
           /\ IsValid(s) = (Step(Step(Sums(SubSeq(s, 1, Len(body) + 1)), s[Len(body) + 2]),
                                 s[Len(body) + 3]) = <<0, 0>>)
           /\ 1..(Len(body) + 3) \subseteq 1..SlotSize
<1>1. Len(body) \in Nat /\ Len(body) <= Base /\ SlotSize = Base + 3 /\ Base \in Nat
  BY DataLinkAssumption DEF SlotSize, Byte
<1>2. s \in Seq(Byte) /\ Len(s) = SlotSize
  BY <1>1
<1>3. SubSeq(s, 1, Len(body) + 1) = [i \in 1..(Len(body) + 1) |-> s[i]]
  BY <1>1, <1>2
<1> QED
  BY <1>1, <1>2, <1>3 DEF IsValid

LEMMA IntactSlot ==
    ASSUME NEW body \in Seq(Byte), Len(body) \in Byte,
           NEW s \in [1..SlotSize -> Byte],
           \A i \in 1..(Len(body) + 3) : s[i] = Packet(body)[i]
    PROVE  IsValid(s)
<1> DEFINE n == Len(body)
           h == Header(body)
           sums == Sums(h)
<1>1. n \in Nat /\ s[1] = n
  BY PacketShape
<1>2. SubSeq(s, 1, n + 1) = h
  <2>1. /\ h \in Seq(Byte) /\ Len(h) = n + 1
        /\ \A i \in 1..(n + 1) : s[i] = h[i]
    BY <1>1, PacketShape
  <2>2. SubSeq(s, 1, n + 1) \in Seq(Byte) /\ Len(SubSeq(s, 1, n + 1)) = n + 1
        /\ \A i \in 1..(n + 1) : SubSeq(s, 1, n + 1)[i] = s[i]
    BY <1>1, SlotSeen
  <2> QED
    BY <1>1, <2>1, <2>2, SeqEqual
<1>3. s[n + 2] = Check(sums)[1] /\ s[n + 3] = Check(sums)[2]
  BY <1>1, PacketShape
<1>4. sums \in Pair
  BY PacketShape, SumsType
<1>5. IsValid(s) = (Step(Step(sums, s[n + 2]), s[n + 3]) = <<0, 0>>)
  BY <1>1, <1>2, SlotSeen
<1> HIDE DEF sums
<1>6. PICK s1 \in 0..(Base - 1), s2 \in 0..(Base - 1) : sums = <<s1, s2>>
  BY <1>4 DEF Pair
<1> QED
  BY <1>3, <1>5, <1>6, ChecksumCloses

-----------------------------------------------------------------------------
(* A wrong byte changes the first sum, and nothing after it changes that.  *)

\* The sums cannot tell x from y.
Alike(x, y) == x = y \/ (x = 0 /\ y = Base) \/ (x = Base /\ y = 0)

LEMMA SameByte ==
    ASSUME NEW a \in 0..(Base - 1), NEW b \in 0..(Base - 1), a # b, NEW x \in Byte
    PROVE  (a + x) % Base # (b + x) % Base
<1> DEFINE p == (a + x) % Base
           q == (b + x) % Base
<1>1. p = IF a + x < Base THEN a + x ELSE a + x - Base
  BY BaseWraps, Zenon DEF Byte
<1>2. q = IF b + x < Base THEN b + x ELSE b + x - Base
  BY BaseWraps, Zenon DEF Byte
<1> HIDE DEF p, q
<1>3. p # q
  BY <1>1, <1>2, DataLinkAssumption DEF Byte
<1> QED
  BY <1>3 DEF p, q

LEMMA OtherByte ==
    ASSUME NEW a \in 0..(Base - 1), NEW x \in Byte, NEW y \in Byte, ~Alike(x, y)
    PROVE  (a + x) % Base # (a + y) % Base
<1> DEFINE p == (a + x) % Base
           q == (a + y) % Base
<1>1. p = IF a + x < Base THEN a + x ELSE a + x - Base
  BY BaseWraps, Zenon DEF Byte
<1>2. q = IF a + y < Base THEN a + y ELSE a + y - Base
  BY BaseWraps, Zenon DEF Byte
<1>3. x # y /\ ~(x = 0 /\ y = Base) /\ ~(x = Base /\ y = 0)
  BY DEF Alike
<1> HIDE DEF p, q
<1>4. p # q
  BY <1>1, <1>2, <1>3, DataLinkAssumption DEF Byte
<1> QED
  BY <1>4 DEF p, q

\* The same for one round: from equal sums on different bytes, from different
\* first sums on the same byte.
LEMMA StepDiffers ==
    ASSUME NEW s \in Pair, NEW t \in Pair, NEW x \in Byte, NEW y \in Byte,
           \/ s = t /\ ~Alike(x, y)
           \/ s[1] # t[1] /\ x = y
    PROVE  Step(s, x)[1] # Step(t, y)[1]
<1>1. s[1] \in 0..(Base - 1) /\ t[1] \in 0..(Base - 1)
  BY DEF Pair
<1>2. Step(s, x)[1] = (s[1] + x) % Base /\ Step(t, y)[1] = (t[1] + y) % Base
  BY StepType
<1>3. CASE s = t /\ ~Alike(x, y)
  BY <1>1, <1>2, <1>3, OtherByte
<1>4. CASE s[1] # t[1] /\ x = y
  BY <1>1, <1>2, <1>4, SameByte
<1> QED
  BY <1>3, <1>4

\* Two runs of bytes that the sums tell apart at one place only.
OneApart(a, b, many, i) ==
    /\ i \in 1..many /\ ~Alike(a[i], b[i])
    /\ \A n \in 1..many : a[n] \in Byte /\ b[n] \in Byte /\ (n # i => a[n] = b[n])

LEMMA RunsDiffer ==
    ASSUME NEW many \in Nat, NEW a, NEW b, NEW i, OneApart(a, b, many, i),
           NEW f, IsRun(f, a, many), NEW g, IsRun(g, b, many)
    PROVE  f[many][1] # g[many][1]
<1>1. /\ \A n \in 0..many : f[n] \in Pair /\ g[n] \in Pair
      /\ f[0] = <<Seed, 0>> /\ g[0] = <<Seed, 0>>
      /\ \A n \in 1..many : f[n] = Step(f[n - 1], a[n]) /\ g[n] = Step(g[n - 1], b[n])
  BY RunType DEF OneApart
<1> USE DEF OneApart
<1> DEFINE As(k) == IF k < i THEN f[k] = g[k] ELSE f[k][1] # g[k][1]
           S == {k \in 0..many : ~As(k)}
<1>2. ASSUME S # {} PROVE FALSE
  <2>1. PICK x \in S : x = 0 \/ (x - 1 \in Nat /\ x - 1 \notin S)
    <3> HIDE DEF S
    <3>1. S \in SUBSET Nat
      BY DEF S
    <3> QED
      BY <1>2, <3>1, Least
  <2>2. x \in 0..many /\ ~As(x)
    OBVIOUS
  <2>3. x # 0
    BY <1>1, <2>2
  <2>4. x \in 1..many /\ x - 1 \in 0..many /\ As(x - 1)
    BY <2>1, <2>2, <2>3
  <2>5. /\ f[x - 1] \in Pair /\ g[x - 1] \in Pair /\ a[x] \in Byte /\ b[x] \in Byte
        /\ f[x] = Step(f[x - 1], a[x]) /\ g[x] = Step(g[x - 1], b[x])
    BY <1>1, <2>4
  <2>6. CASE x < i
    <3>1. f[x - 1] = g[x - 1] /\ a[x] = b[x]
      BY <2>4, <2>6
    <3> QED
      BY <2>2, <2>5, <2>6, <3>1
  <2>7. CASE x = i
    <3>1. f[x - 1] = g[x - 1] /\ ~Alike(a[x], b[x])
      BY <2>4, <2>7
    <3>2. f[x][1] # g[x][1]
      BY <2>5, <2>7, <3>1, StepDiffers
    <3> QED
      BY <2>2, <2>7, <3>2
  <2>8. CASE x > i
    <3>1. f[x - 1][1] # g[x - 1][1] /\ a[x] = b[x]
      BY <2>4, <2>8
    <3>2. f[x][1] # g[x][1]
      BY <2>5, <3>1, StepDiffers
    <3> QED
      BY <2>2, <2>8, <3>2
  <2> QED
    BY <2>4, <2>6, <2>7, <2>8
<1>3. As(many)
  BY <1>2
<1> QED
  BY <1>3

LEMMA OneWrongByte ==
    ASSUME NEW body \in Seq(Byte), Len(body) \in Byte,
           NEW s \in [1..SlotSize -> Byte], s[1] = Len(body),
           NEW i \in 1..(Len(body) + 3), ~Alike(Packet(body)[i], s[i]),
           \A k \in 1..(Len(body) + 3) : k # i => s[k] = Packet(body)[k]
    PROVE  ~IsValid(s)
<1> DEFINE n == Len(body)
           h == Header(body)
           p == SubSeq(s, 1, n + 1)
           c1 == Check(Sums(h))[1]
           c2 == Check(Sums(h))[2]
<1>1. /\ n \in Nat /\ h \in Seq(Byte) /\ Len(h) = n + 1
      /\ p \in Seq(Byte) /\ Len(p) = n + 1
      /\ \A k \in 1..(n + 1) : h[k] = Packet(body)[k] /\ p[k] = s[k]
      /\ \A k \in 1..(n + 1) : h[k] \in Byte /\ p[k] \in Byte
  <2>1. n \in Nat /\ h \in Seq(Byte) /\ Len(h) = n + 1
        /\ \A k \in 1..(n + 1) : h[k] = Packet(body)[k]
    BY PacketShape
  <2>2. p \in Seq(Byte) /\ Len(p) = n + 1 /\ \A k \in 1..(n + 1) : p[k] = s[k]
    BY SlotSeen
  <2> HIDE DEF h, p, n
  <2>3. \A k \in 1..(n + 1) : h[k] \in Byte /\ p[k] \in Byte
    BY <2>1, <2>2, ElementOfSeq
  <2> QED
    BY <2>1, <2>2, <2>3
<1>2. c1 = Packet(body)[n + 2] /\ c2 = Packet(body)[n + 3]
  BY PacketShape
<1>3. Sums(h) \in Pair /\ Sums(p) \in Pair
  BY <1>1, SumsType
<1>4. c1 \in Byte /\ c2 \in Byte /\ s[n + 2] \in Byte /\ s[n + 3] \in Byte
  <2>1. 1..(n + 3) \subseteq 1..SlotSize
    BY SlotSeen
  <2> QED
    BY <1>1, <1>3, <2>1, CheckType
<1>5. IsValid(s) = (Step(Step(Sums(p), s[n + 2]), s[n + 3]) = <<0, 0>>)
  BY SlotSeen
<1>6. Step(Step(Sums(h), c1), c2)[1] = 0
  <2>1. PICK s1 \in 0..(Base - 1), s2 \in 0..(Base - 1) : Sums(h) = <<s1, s2>>
    BY <1>3 DEF Pair
  <2> QED
    BY <2>1, ChecksumCloses
<1> DEFINE u == Step(Sums(h), c1)
           v == Step(Sums(p), s[n + 2])
<1>7. u \in Pair /\ v \in Pair
  BY <1>3, <1>4, StepType
<1>8. SUFFICES Step(u, c2)[1] # Step(v, s[n + 3])[1]
  <2> DEFINE w == Step(v, s[n + 3])
             z == Step(u, c2)
  <2>1. (IsValid(s) => w = <<0, 0>>) /\ z[1] = 0
    BY <1>5, <1>6
  <2>2. SUFFICES z[1] # w[1] => ~IsValid(s)
    OBVIOUS
  <2> HIDE DEF w, z
  <2> QED
    BY <2>1
<1>9. CASE i <= n + 1
  <2>1. Sums(h)[1] # Sums(p)[1]
    <3>1. PICK f : IsRun(f, h, n + 1) /\ Sums(h) = f[n + 1]
      BY <1>1, SumsRun
    <3>2. PICK g : IsRun(g, p, n + 1) /\ Sums(p) = g[n + 1]
      BY <1>1, SumsRun
    <3> DEFINE many == n + 1
    <3>3. many \in Nat /\ i \in 1..many /\ 1..many \subseteq 1..(n + 3)
      BY <1>1, <1>9
    <3>4. OneApart(h, p, many, i)
      BY <1>1, <3>3 DEF OneApart
    <3>5. IsRun(f, h, many) /\ IsRun(g, p, many)
      BY <3>1, <3>2
    <3> HIDE DEF h, p, many
    <3>6. f[many][1] # g[many][1]
      BY <3>3, <3>4, <3>5, RunsDiffer
    <3> QED
      BY <3>1, <3>2, <3>6 DEF many
  <2>2. c1 = s[n + 2] /\ c2 = s[n + 3]
    BY <1>1, <1>2, <1>9
  <2> HIDE DEF h, p, n, c1, c2
  <2>3. u[1] # v[1]
    BY <1>3, <1>4, <2>1, <2>2, StepDiffers
  <2> HIDE DEF u, v
  <2> QED
    BY <1>4, <1>7, <2>2, <2>3, StepDiffers
<1>10. CASE i > n + 1
  <2>1. h = p
    <3>1. \A k \in 1..(n + 1) : h[k] = p[k]
      BY <1>1, <1>10
    <3> QED
      BY <1>1, <3>1, SeqEqual
  <2>2. CASE i = n + 2
    <3>1. ~Alike(c1, s[n + 2]) /\ c2 = s[n + 3]
      BY <1>1, <1>2, <2>2
    <3> HIDE DEF h, p, n, c1, c2
    <3>2. u[1] # v[1]
      BY <1>3, <1>4, <2>1, <3>1, StepDiffers
    <3> HIDE DEF u, v
    <3> QED
      BY <1>4, <1>7, <3>1, <3>2, StepDiffers
  <2>3. CASE i = n + 3
    <3>1. c1 = s[n + 2] /\ ~Alike(c2, s[n + 3])
      BY <1>1, <1>2, <2>3
    <3>2. u = v
      BY <2>1, <3>1
    <3> HIDE DEF u, v, h, p, n, c1, c2
    <3> QED
      BY <1>4, <1>7, <3>1, <3>2, StepDiffers
  <2> QED
    BY <1>1, <1>10, <2>2, <2>3
<1> QED
  BY <1>1, <1>9, <1>10

-----------------------------------------------------------------------------
(* The slot always holds a packet as far as its length byte goes.          *)

SlotInv ==
    /\ slot \in [1..SlotSize -> Byte]
    /\ \E body \in Seq(Byte) : Len(body) \in Byte /\ sent = Packet(body)
    /\ slot[1] = sent[1]
    /\ damage = "none" => \A i \in 1..Len(sent) : slot[i] = sent[i]

LEMMA Bodies == \A body \in BoundedSeq(Byte, MaxBody) : body \in Seq(Byte) /\ Len(body) \in Byte
<1> SUFFICES ASSUME NEW body \in BoundedSeq(Byte, MaxBody)
             PROVE  body \in Seq(Byte) /\ Len(body) \in Byte
  OBVIOUS
<1>1. PICK m \in 0..MaxBody : body \in [1..m -> Byte]
  BY DEF BoundedSeq, SeqOf
<1>2. m \in Nat /\ m \in Byte
  BY DataLinkAssumption DEF Byte
<1> QED
  BY <1>1, <1>2

LEMMA SlotInvInit == Init => SlotInv
<1> SUFFICES ASSUME Init PROVE SlotInv
  OBVIOUS
<1>1. <<>> \in Seq(Byte) /\ Len(<<>>) = 0 /\ 0 \in Byte
  BY DataLinkAssumption DEF Byte
<1>2. SlotSize \in Nat /\ 1 \in 1..SlotSize
  BY DataLinkAssumption DEF SlotSize
<1>3. Packet(<<>>)[1] = 0
  BY <1>1, PacketShape
<1> QED
  BY <1>1, <1>2, <1>3 DEF Init, SlotInv

\* What arrives replaces the slot from its beginning.
LEMMA Overlaid ==
    ASSUME SlotInv, NEW bytes \in Seq(Byte), bytes # <<>>
    PROVE  /\ Overlay(bytes) \in [1..SlotSize -> Byte]
           /\ \A i \in 1..SlotSize : i <= Len(bytes) => Overlay(bytes)[i] = bytes[i]
           /\ Overlay(bytes)[1] = bytes[1]
<1>1. SlotSize \in Nat /\ 1 \in 1..SlotSize
  BY DataLinkAssumption DEF SlotSize
<1>2. Len(bytes) \in Nat /\ Len(bytes) >= 1 /\ \A i \in 1..Len(bytes) : bytes[i] \in Byte
  OBVIOUS
<1>3. \A i \in 1..SlotSize : i <= Len(bytes) => bytes[i] \in Byte
  BY <1>1, <1>2
<1>4. slot \in [1..SlotSize -> Byte]
  BY DEF SlotInv
<1> QED
  BY <1>1, <1>2, <1>3, <1>4 DEF Overlay

LEMMA SlotInvNext ==
    ASSUME SlotInv, [Next]_vars
    PROVE  SlotInv'
<1>1. CASE UNCHANGED vars
  BY <1>1 DEF vars, SlotInv
<1>2. CASE Transmit
  <2>1. PICK body \in BoundedSeq(Byte, MaxBody) : sent' = Packet(body) /\ (Intact \/ Flip \/ Cut)
    BY <1>2 DEF Transmit
  <2>2. body \in Seq(Byte) /\ Len(body) \in Byte
    BY Bodies
  <2>3. sent' \in Seq(Byte) /\ Len(sent') = Len(body) + 3 /\ Len(body) \in Nat
        /\ Len(body) <= Base /\ Base \in Nat /\ SlotSize = Base + 3
    BY <2>1, <2>2, PacketShape, DataLinkAssumption DEF Byte, SlotSize
  <2>4. ASSUME NEW bytes \in Seq(Byte), bytes # <<>>, bytes[1] = sent'[1],
               NEW what, Receive(bytes, what), what # "none" \/ bytes = sent'
        PROVE  SlotInv'
    <3>1. slot' = Overlay(bytes) /\ damage' = what
      BY <2>4 DEF Receive
    <3>2. slot' \in [1..SlotSize -> Byte] /\ slot'[1] = sent'[1]
          /\ \A i \in 1..SlotSize : i <= Len(bytes) => slot'[i] = bytes[i]
      BY <2>4, <3>1, Overlaid
    <3>3. bytes = sent' => \A i \in 1..Len(sent') : slot'[i] = sent'[i]
      BY <2>3, <3>2
    <3> QED
      BY <2>1, <2>2, <2>4, <3>1, <3>2, <3>3 DEF SlotInv
  <2>5. CASE Intact
    BY <2>3, <2>4, <2>5 DEF Intact
  <2>6. CASE Flip
    <3>1. PICK i \in 2..Len(sent'), b \in Byte : Receive([sent' EXCEPT ![i] = b], "flip")
      BY <2>6 DEF Flip
    <3> DEFINE bytes == [sent' EXCEPT ![i] = b]
    <3>2. bytes \in Seq(Byte) /\ bytes # <<>> /\ bytes[1] = sent'[1]
      <4>1. i \in 1..Len(sent') /\ i # 1 /\ 1 \in 1..Len(sent')
        BY <2>3
      <4>2. bytes \in Seq(Byte) /\ Len(bytes) = Len(sent')
        BY <2>3, <4>1, ExceptSeq
      <4> QED
        BY <2>3, <4>1, <4>2
    <3> QED
      BY <2>4, <3>1, <3>2
  <2>7. CASE Cut
    <3>1. PICK n \in 3..(Len(sent') - 1) : Receive(SubSeq(sent', 1, n), "cut")
      BY <2>7 DEF Cut
    <3> DEFINE bytes == SubSeq(sent', 1, n)
    <3>2. n \in 1..Len(sent')
      BY <2>3
    <3>3. bytes \in Seq(Byte) /\ Len(bytes) = n /\ bytes[1] = sent'[1]
      BY <2>3, <3>2
    <3>4. bytes # <<>>
      BY <3>2, <3>3
    <3> QED
      BY <2>4, <3>1, <3>3, <3>4
  <2> QED
    BY <2>1, <2>5, <2>6, <2>7
<1> QED
  BY <1>1, <1>2 DEF Next

\* isChecksumValid accepts every packet that arrives as calculateChecksum left it,
\* for every body up to the largest length byte, every modulus and every seed.
THEOREM IntactAccepted == Spec => []IntactIsValid
<1>1. SlotInv => IntactIsValid
  <2> SUFFICES ASSUME SlotInv, damage = "none" PROVE IsValid(slot)
    BY DEF IntactIsValid
  <2>1. PICK body \in Seq(Byte) : Len(body) \in Byte /\ sent = Packet(body)
    BY DEF SlotInv
  <2>2. \A i \in 1..(Len(body) + 3) : slot[i] = Packet(body)[i]
    BY <2>1, PacketShape DEF SlotInv
  <2> QED
    BY <2>1, <2>2, IntactSlot DEF SlotInv
<1> QED
  BY <1>1, SlotInvInit, SlotInvNext, PTL DEF Spec

\* One wrong byte anywhere behind the length byte, be it noise or the remains of
\* an earlier packet, is found unless 0x00 and 0xff were exchanged: it changes the
\* first sum, and no byte after it brings that back.
THEOREM WrongByteFound == Spec => []OneByteDetected
<1>1. SlotInv => OneByteDetected
  <2> SUFFICES ASSUME SlotInv, NEW i \in Wrong, Wrong = {i}, IsValid(slot)
               PROVE  Confused(i)
    BY DEF OneByteDetected
  <2>1. PICK body \in Seq(Byte) : Len(body) \in Byte /\ sent = Packet(body)
    BY DEF SlotInv
  <2>2. Len(sent) = Len(body) + 3 /\ sent[1] = Len(body)
    BY <2>1, PacketShape
  <2>3. i \in 1..(Len(body) + 3) /\ slot[i] # sent[i]
        /\ \A k \in 1..(Len(body) + 3) : k # i => slot[k] = Packet(body)[k]
    BY <2>1, <2>2 DEF Wrong
  <2>4. Alike(sent[i], slot[i])
    BY <2>1, <2>2, <2>3, OneWrongByte DEF SlotInv
  <2> QED
    BY <2>3, <2>4 DEF Alike, Confused
<1> QED
  BY <1>1, SlotInvInit, SlotInvNext, PTL DEF Spec

=============================================================================
