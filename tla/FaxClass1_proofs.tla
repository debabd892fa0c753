-------------------------- MODULE FaxClass1_proofs --------------------------
(***************************************************************************)
(* For every order of commands, every line and every host, the fax session *)
(* has the data modem it believes it has, never asks the host for more     *)
(* than tx_fifo can take, gives it no frame twice, answers each of its     *)
(* commands once, and sends what it was given to send.                     *)
(***************************************************************************)
EXTENDS FaxClass1, FiniteSetTheorems, SequenceTheorems, WellFoundedInduction, TLAPS

Byte == 0..255

\* The sizes of the buffers, out of the assumption on the constants.
LEMMA Sizes ==
  /\ FifoSize \in Nat \ { 0 } /\ HostBuffer \in Nat \ { 0 } /\ EtxPad \in Nat \ { 0 }
  /\ HdlcWant \in Nat \ { 0 } /\ Train \in Nat \ { 0 } /\ Quiet \in Nat \ { 0 }
  /\ BytesPerBlock \in [Codes -> Nat \ { 0 }] /\ 3 \notin Codes
<1>1. /\ {SilenceBefore, PreambleMin, PreambleMax, HostLimit, AnswerTone, ScrmSilence,
          Quiet, Train, EtxPad, FifoSize, HdlcWant, HostBuffer, QueueSize, FrameLen,
          SuperSize} \subseteq Nat \ { 0 }
      /\ Codes \subseteq {24, 48, 72, 73, 74, 96, 97, 98, 121, 122, 145, 146}
      /\ BytesPerBlock \in [Codes -> Nat \ { 0 }]
  BY FaxAssumption, Zenon
<1> QED
  BY <1>1

\* A set of naturals that is not empty has a least element.
LEMMA LeastOf ==
  ASSUME NEW S, S \subseteq Nat, S # {}
  PROVE  \E x \in S : \A y \in S : x <= y
<1>1. PICK x \in S : \A y \in S : ~(<< y, x >> \in OpToRel(<, Nat))
  BY NatLessThanWellFounded, WFMin
<1>2. \A y \in S : x <= y
  <2> SUFFICES ASSUME NEW y \in S PROVE x <= y
    OBVIOUS
  <2>1. ~(<< y, x >> \in OpToRel(<, Nat))
    BY <1>1
  <2>2. x \in Nat /\ y \in Nat
    OBVIOUS
  <2>3. ~(y < x)
    BY <2>1, <2>2 DEF OpToRel
  <2> QED
    BY <2>2, <2>3
<1> QED
  BY <1>2

\* What is defined by recursion over 0..n exists: G gives the next value.
Recurs(n, S, a, G, f) ==
  f \in [0..n -> S] /\ f[0] = a /\ \A i \in 1..n : f[i] = G[<< i, f[i - 1] >>]

\* So a recursion over 0..n has a value at every step: the first step that had
\* none would contradict the one before it.
LEMMA Recursion ==
  ASSUME NEW n \in Nat, NEW S, NEW a \in S, NEW G \in [(1..n) \X S -> S]
  PROVE  \E f : Recurs(n, S, a, G, f)
<1> DEFINE P(k) == \E f \in [0..n -> S] :
                     f[0] = a /\ \A i \in 1..k : f[i] = G[<< i, f[i - 1] >>]
           B == { k \in 0..n : ~P(k) }
<1>1. P(0)
  <2> DEFINE g == [i \in 0..n |-> a]
  <2>1. g \in [0..n -> S] /\ g[0] = a /\ \A i \in 1..0 : g[i] = G[<< i, g[i - 1] >>]
    OBVIOUS
  <2> QED
    BY <2>1
<1>2. ASSUME NEW k \in 0..n - 1, P(k) PROVE P(k + 1)
  <2>0. k \in Nat /\ k + 1 \in 0..n /\ k \in 0..n /\ k + 1 \in 1..n /\ (k + 1) - 1 = k
    BY <1>2
  <2>1. PICK f \in [0..n -> S] : f[0] = a /\ \A i \in 1..k : f[i] = G[<< i, f[i - 1] >>]
    BY <1>2
  <2> DEFINE r == G[<< k + 1, f[k] >>]
             g == [f EXCEPT ![k + 1] = r]
  <2>2. << k + 1, f[k] >> \in (1..n) \X S
    BY <2>0, <2>1
  <2>3. r \in S
    BY <2>2
  <2> HIDE DEF r
  <2>4. g \in [0..n -> S] /\ g[k + 1] = r /\ \A i \in 0..n : i # k + 1 => g[i] = f[i]
    BY <2>0, <2>1, <2>3
  <2> HIDE DEF g
  <2>5. ASSUME NEW i \in 1..k + 1 PROVE g[i] = G[<< i, g[i - 1] >>]
    <3>1. i - 1 \in 0..n /\ i - 1 # k + 1
      BY <2>0
    <3>2. g[i - 1] = f[i - 1]
      BY <2>4, <3>1
    <3>3. CASE i = k + 1
      <4>1. g[i] = r /\ i - 1 = k
        BY <2>0, <2>4, <3>3
      <4> QED
        BY <3>2, <3>3, <4>1 DEF r
    <3>4. CASE i # k + 1
      <4>1. i \in 1..k /\ i \in 0..n
        BY <2>0, <3>4
      <4> QED
        BY <2>1, <2>4, <3>2, <3>4, <4>1
    <3> QED
      BY <3>3, <3>4
  <2>6. g[0] = a
    BY <2>0, <2>1, <2>4
  <2> QED
    BY <2>4, <2>5, <2>6
<1>3. B = {}
  <2> SUFFICES ASSUME B # {} PROVE FALSE
    OBVIOUS
  <2>1. B \subseteq Nat
    OBVIOUS
  <2>2. PICK m \in B : \A y \in B : m <= y
    BY <2>1, LeastOf
  <2>3. m \in 0..n /\ ~P(m)
    BY <2>2
  <2>4. m # 0
    BY <1>1, <2>3
  <2>5. m - 1 \in 0..n - 1 /\ m - 1 \in 0..n /\ ~(m <= m - 1) /\ (m - 1) + 1 = m
    BY <2>3, <2>4
  <2>6. m - 1 \notin B
    BY <2>2, <2>5
  <2>7. P(m - 1)
    BY <2>5, <2>6
  <2> HIDE DEF P
  <2>8. P((m - 1) + 1)
    BY <1>2, <2>5, <2>7
  <2> QED
    BY <2>3, <2>5, <2>8
<1>4. n \in 0..n
  OBVIOUS
<1>5. P(n)
  BY <1>3, <1>4
<1>6. PICK f \in [0..n -> S] : f[0] = a /\ \A i \in 1..n : f[i] = G[<< i, f[i - 1] >>]
  BY <1>5
<1>7. Recurs(n, S, a, G, f)
  BY <1>6 DEF Recurs
<1> QED
  BY <1>7

\* A property that 0 has and each k hands on to k + 1 holds up to n: T is the
\* set of those that have it.
LEMMA UpTo ==
  ASSUME NEW n \in Nat, NEW T, 0 \in T, \A k \in 0..n - 1 : k \in T => k + 1 \in T
  PROVE  \A k \in 0..n : k \in T
<1> DEFINE B == { k \in 0..n : k \notin T }
<1> SUFFICES ASSUME B # {} PROVE FALSE
  OBVIOUS
<1>1. B \subseteq Nat
  OBVIOUS
<1>2. PICK m \in B : \A y \in B : m <= y
  BY <1>1, LeastOf
<1>3. m \in 0..n /\ m \notin T /\ m # 0
  BY <1>2
<1>4. m - 1 \in 0..n - 1 /\ m - 1 \in 0..n /\ ~(m <= m - 1) /\ (m - 1) + 1 = m
  BY <1>3
<1>5. m - 1 \in T
  BY <1>2, <1>4
<1>6. (m - 1) + 1 \in T
  BY <1>4, <1>5
<1> QED
  BY <1>3, <1>4, <1>6

-----------------------------------------------------------------------------
(***************************************************************************)
(* The escapes of the host.                                                *)
(***************************************************************************)

\* The first n of some bytes.
LEMMA FirstOf ==
  ASSUME NEW s \in Seq(Byte), NEW n \in Nat, n <= Len(s)
  PROVE  /\ SubSeq(s, 1, n) \in Seq(Byte) /\ Len(SubSeq(s, 1, n)) = n
         /\ \A i \in 1..n : SubSeq(s, 1, n)[i] = s[i]
<1>1. \A i \in 1..n : s[i] \in Byte
  OBVIOUS
<1>2. 1 \in Int /\ n \in Int /\ n - 1 + 1 = n
  OBVIOUS
<1>3. /\ SubSeq(s, 1, n) \in Seq(Byte)
      /\ Len(SubSeq(s, 1, n)) = IF 1 <= n THEN n - 1 + 1 ELSE 0
      /\ \A i \in 1..n - 1 + 1 : SubSeq(s, 1, n)[i] = s[1 + i - 1]
  BY <1>1, <1>2, SubSeqProperties
<1>4. \A i \in 1..n : 1 + i - 1 = i
  OBVIOUS
<1> QED
  BY <1>2, <1>3, <1>4

\* A byte goes behind all that is there.
LEMMA AppendConcat ==
  ASSUME NEW x \in Seq(Byte), NEW q \in Seq(Byte), NEW b \in Byte
  PROVE  Append(x \o q, b) = x \o Append(q, b)
OBVIOUS

\* What dle_seen, the end of the message and its bytes may be.
Ear == [dle : BOOLEAN, done : BOOLEAN, buf : Seq(Byte)]

\* One byte is heard.
LEMMA HeardRight ==
  ASSUME NEW s \in Ear, NEW b \in Byte
  PROVE  Heard(s, b) \in Ear /\ Len(Heard(s, b).buf) <= Len(s.buf) + 1
<1> DEFINE x == Append(s.buf, b)
           y == Append(s.buf, DLE)
<1>1. DLE \in Byte /\ s.buf \in Seq(Byte) /\ Len(s.buf) \in Nat
  BY DEF DLE, Byte, Ear
<1>2. x \in Seq(Byte) /\ Len(x) = Len(s.buf) + 1 /\ y \in Seq(Byte) /\ Len(y) = Len(s.buf) + 1
  BY <1>1
<1>3. Heard(s, b) = IF s.done THEN s
        ELSE IF s.dle THEN [ dle |-> FALSE, done |-> b = ETX, buf |-> IF b = DLE THEN y ELSE s.buf ]
        ELSE [ dle |-> b = DLE, done |-> FALSE, buf |-> IF b = DLE THEN s.buf ELSE x ]
  BY DEF Heard
<1>4. (b = DLE) \in BOOLEAN /\ (b = ETX) \in BOOLEAN
  OBVIOUS
<1> HIDE DEF x, y
<1> QED
  BY <1>1, <1>2, <1>3, <1>4 DEF Ear

\* The states the bytes of in lead through.
Hears(s, in, f) ==
  /\ f \in [0..Len(in) -> Ear]
  /\ f[0] = s /\ \A i \in 1..Len(in) : f[i] = Heard(f[i - 1], in[i])

\* There is a way through the states of the ear, from any s and for any bytes.
LEMMA HearsThere ==
  ASSUME NEW s \in Ear, NEW in \in Seq(Byte)
  PROVE  \E f : Hears(s, in, f)
<1> DEFINE n == Len(in)
           G == [p \in (1..n) \X Ear |-> Heard(p[2], in[p[1]])]
<1>1. n \in Nat
  OBVIOUS
<1>2. ASSUME NEW p \in (1..n) \X Ear PROVE Heard(p[2], in[p[1]]) \in Ear
  <2>1. p[2] \in Ear /\ in[p[1]] \in Byte
    OBVIOUS
  <2> QED
    BY <2>1, HeardRight
<1>3. G \in [(1..n) \X Ear -> Ear]
  BY <1>2
<1>4. \A i \in 1..n : \A x \in Ear : G[<< i, x >>] = Heard(x, in[i])
  OBVIOUS
<1> HIDE DEF G
<1>5. PICK f : Recurs(n, Ear, s, G, f)
  <2> HIDE DEF n
  <2>1. s \in Ear
    OBVIOUS
  <2> QED
    BY <1>1, <1>3, <2>1, Recursion
<1>6. ASSUME NEW i \in 1..n PROVE f[i] = Heard(f[i - 1], in[i])
  <2>1. i - 1 \in 0..n
    BY <1>1
  <2> QED
    BY <1>4, <1>5, <2>1 DEF Recurs
<1> QED
  BY <1>5, <1>6 DEF Hears, Recurs

\* There is only one way through them.
Walk(s, n, in, f) == f[0] = s /\ \A i \in 1..n : f[i] = Heard(f[i - 1], in[i])

\* Two walks over the same bytes from the same state end in the same one.
LEMMA HearsOnce ==
  ASSUME NEW s, NEW n \in Nat, NEW in, NEW f, NEW g, Walk(s, n, in, f), Walk(s, n, in, g)
  PROVE  f[n] = g[n]
<1> DEFINE T == { k \in Nat : f[k] = g[k] }
<1>1. 0 \in T
  BY DEF Walk
<1>2. ASSUME NEW k \in 0..n - 1, k \in T PROVE k + 1 \in T
  <2>1. k + 1 \in 1..n /\ (k + 1) - 1 = k /\ k + 1 \in Nat
    BY <1>2
  <2>2. f[k + 1] = Heard(f[k], in[k + 1]) /\ g[k + 1] = Heard(g[k], in[k + 1])
    BY <2>1 DEF Walk
  <2> QED
    BY <1>2, <2>1, <2>2
<1>3. n \in 0..n
  OBVIOUS
<1>4. \A k \in 0..n : k \in T
  <2> HIDE DEF T
  <2> QED
    BY <1>1, <1>2, UpTo
<1> QED
  BY <1>3, <1>4

\* _handle_hdlc_input and _handle_data_input: what they make of bytes.
LEMMA UnescapeHears ==
  ASSUME NEW s \in Ear, NEW in \in Seq(Byte), NEW f, Hears(s, in, f)
  PROVE  Unescape(s, in) = f[Len(in)]
<1> DEFINE n == Len(in)
           E(g) == [i \in 0..n |-> IF i = 0 THEN s
                      ELSE CHOOSE t \in { Heard(q, in[i]) : q \in { g[i - 1] } } : TRUE]
           F(g) == [i \in 0..n |-> IF i = 0 THEN s ELSE Heard(g[i - 1], in[i])]
           h == CHOOSE g : g = E(g)
<1>1. n \in Nat /\ f \in [0..n -> Ear] /\ f[0] = s
      /\ \A i \in 1..n : f[i] = Heard(f[i - 1], in[i])
  BY DEF Hears
<1>2. Unescape(s, in) = h[n]
  BY DEF Unescape
<1>7. ASSUME NEW g PROVE E(g) = F(g)
  <2>1. ASSUME NEW i \in 0..n
        PROVE  (CHOOSE t \in { Heard(q, in[i]) : q \in { g[i - 1] } } : TRUE) = Heard(g[i - 1], in[i])
    <3>1. { Heard(q, in[i]) : q \in { g[i - 1] } } = { Heard(g[i - 1], in[i]) }
      OBVIOUS
    <3> QED
      BY <3>1
  <2> QED
    BY <2>1
<1>3. f = F(f)
  <2>1. \A i \in 0..n : f[i] = F(f)[i]
    BY <1>1
  <2> QED
    BY <1>1, <2>1
<1>4. h = F(h)
  <2>1. f = E(f)
    BY <1>3, <1>7
  <2>2. h = E(h)
    BY <2>1
  <2> HIDE DEF E, F
  <2> QED
    BY <2>2, <1>7
<1>5. h[0] = s /\ \A i \in 1..n : h[i] = Heard(h[i - 1], in[i])
  <2>1. \A i \in 0..n : h[i] = F(h)[i]
    BY <1>4
  <2> HIDE DEF h
  <2> QED
    BY <1>1, <2>1
<1> HIDE DEF h
<1>6. f[n] = h[n]
  <2>1. Walk(s, n, in, f) /\ Walk(s, n, in, h)
    BY <1>1, <1>5 DEF Walk
  <2> HIDE DEF n
  <2> QED
    BY <1>1, <2>1, HearsOnce
<1> QED
  BY <1>2, <1>6

\* What comes out of it.
LEMMA UnescapeRight ==
  ASSUME NEW s \in Ear, NEW in \in Seq(Byte)
  PROVE  /\ Unescape(s, in) \in Ear
         /\ Len(Unescape(s, in).buf) <= Len(s.buf) + Len(in)
<1>1. PICK f : Hears(s, in, f)
  BY HearsThere
<1> DEFINE n == Len(in)
           T == { k \in Nat : k <= n => Len(f[k].buf) <= Len(s.buf) + k }
<1>2. n \in Nat /\ f \in [0..n -> Ear] /\ f[0] = s
      /\ \A i \in 1..n : f[i] = Heard(f[i - 1], in[i])
  BY <1>1 DEF Hears
<1>3. 0 \in T
  <2>1. Len(s.buf) \in Nat
    BY DEF Ear
  <2> QED
    BY <1>2, <2>1
<1>4. ASSUME NEW k \in 0..n - 1, k \in T PROVE k + 1 \in T
  <2>1. k + 1 \in 1..n /\ (k + 1) - 1 = k /\ k \in 0..n /\ k <= n /\ k + 1 \in 0..n
    BY <1>2, <1>4
  <2>2. f[k + 1] = Heard(f[k], in[k + 1]) /\ f[k] \in Ear /\ in[k + 1] \in Byte
        /\ f[k + 1] \in Ear
    BY <1>2, <2>1
  <2>3. Len(f[k + 1].buf) <= Len(f[k].buf) + 1
    BY <2>2, HeardRight
  <2>4. Len(f[k + 1].buf) \in Nat /\ Len(f[k].buf) \in Nat /\ Len(s.buf) \in Nat
    BY <2>2 DEF Ear
  <2> DEFINE x == Len(f[k].buf)
             y == Len(f[k + 1].buf)
             z == Len(s.buf)
  <2>5. x <= z + k /\ k \in Nat
    BY <1>2, <1>4, <2>1
  <2>6. y <= x + 1 /\ x \in Nat /\ y \in Nat /\ z \in Nat
    BY <2>3, <2>4
  <2> HIDE DEF x, y, z, T
  <2>7. y <= z + (k + 1)
    BY <2>5, <2>6
  <2> QED
    <3>1. k + 1 \in Nat
      BY <2>5
    <3> QED
      BY <2>7, <3>1, Zenon DEF y, z, T
<1>5. n \in 0..n
  BY <1>2
<1>6. n \in T
  <2> HIDE DEF T
  <2> QED
    BY <1>2, <1>3, <1>4, <1>5, UpTo
<1>7. Unescape(s, in) = f[n]
  BY <1>1, UnescapeHears
<1>8. f[n] \in Ear
  BY <1>2, <1>5
<1> QED
  BY <1>2, <1>6, <1>7, <1>8

\* No byte, one byte, and one piece after another.
LEMMA UnescapeNothing ==
  ASSUME NEW s \in Ear
  PROVE  Unescape(s, << >>) = s
<1>1. << >> \in Seq(Byte) /\ Len(<< >>) = 0
  OBVIOUS
<1>2. PICK f : Hears(s, << >>, f)
  BY <1>1, HearsThere
<1>3. f[0] = s
  BY <1>2 DEF Hears
<1> QED
  BY <1>1, <1>2, <1>3, UnescapeHears

\* _handle_hdlc_input on one byte.
LEMMA UnescapeOne ==
  ASSUME NEW s \in Ear, NEW b \in Byte
  PROVE  Unescape(s, << b >>) = Heard(s, b)
<1> DEFINE in == << b >>
<1>1. in \in Seq(Byte) /\ Len(in) = 1 /\ in[1] = b
  OBVIOUS
<1> HIDE DEF in
<1>2. PICK f : Hears(s, in, f)
  BY <1>1, HearsThere
<1>3. f[0] = s /\ f[1] = Heard(f[1 - 1], in[1])
  BY <1>1, <1>2 DEF Hears
<1>4. Unescape(s, in) = f[1]
  BY <1>1, <1>2, UnescapeHears
<1>5. 1 - 1 = 0
  OBVIOUS
<1> QED
  BY <1>1, <1>3, <1>4, <1>5 DEF in

\* Bytes that come in two blocks are heard as if they came in one.
LEMMA UnescapeSplit ==
  ASSUME NEW s \in Ear, NEW a \in Seq(Byte), NEW b \in Seq(Byte)
  PROVE  Unescape(s, a \o b) = Unescape(Unescape(s, a), b)
<1> DEFINE ab == a \o b
           na == Len(a)
           nb == Len(b)
           t == Unescape(s, a)
<1>1. /\ ab \in Seq(Byte) /\ Len(ab) = na + nb /\ na \in Nat /\ nb \in Nat
      /\ \A i \in 1..na : ab[i] = a[i]
      /\ \A i \in 1..nb : ab[na + i] = b[i]
  OBVIOUS
<1>2. t \in Ear
  BY UnescapeRight
<1> HIDE DEF ab, t
<1>3. PICK f : Hears(s, ab, f)
  BY <1>1, HearsThere
<1>4. PICK g : Hears(s, a, g)
  BY HearsThere
<1>5. PICK k : Hears(t, b, k)
  BY <1>2, HearsThere
<1>6. /\ Unescape(s, ab) = f[na + nb] /\ t = g[na] /\ Unescape(t, b) = k[nb]
  <2>1. Unescape(s, ab) = f[Len(ab)]
    BY <1>1, <1>3, UnescapeHears
  <2>2. Unescape(s, a) = g[Len(a)]
    BY <1>4, UnescapeHears
  <2>3. Unescape(t, b) = k[Len(b)]
    BY <1>2, <1>5, UnescapeHears
  <2> QED
    BY <1>1, <2>1, <2>2, <2>3 DEF t
<1> DEFINE n == na + nb
<1>7. /\ f[0] = s /\ \A i \in 1..n : f[i] = Heard(f[i - 1], ab[i])
  BY <1>1, <1>3 DEF Hears
<1>8. f[na] = t
  <2>1. Walk(s, na, a, g)
    BY <1>4 DEF Hears, Walk
  <2>2. Walk(s, na, a, f)
    <3> SUFFICES ASSUME NEW i \in 1..na PROVE f[i] = Heard(f[i - 1], a[i])
      BY <1>7 DEF Walk
    <3>1. i \in 1..n
      BY <1>1
    <3> QED
      BY <1>1, <1>7, <3>1
  <2> HIDE DEF na
  <2> QED
    BY <1>1, <1>6, <2>1, <2>2, HearsOnce
<1> DEFINE h == [i \in 0..nb |-> f[na + i]]
<1>9. k[nb] = h[nb]
  <2>1. Walk(t, nb, b, k)
    BY <1>5 DEF Hears, Walk
  <2>2. Walk(t, nb, b, h)
    <3>1. h[0] = t
      BY <1>1, <1>8
    <3>2. ASSUME NEW i \in 1..nb PROVE h[i] = Heard(h[i - 1], b[i])
      <4>1. na + i \in 1..n /\ (na + i) - 1 = na + (i - 1) /\ i \in 0..nb /\ i - 1 \in 0..nb
        BY <1>1
      <4>2. f[na + i] = Heard(f[na + (i - 1)], ab[na + i])
        BY <1>7, <4>1
      <4>3. h[i] = f[na + i] /\ h[i - 1] = f[na + (i - 1)]
        BY <4>1
      <4> HIDE DEF h
      <4> QED
        BY <1>1, <4>2, <4>3
    <3> HIDE DEF h
    <3> QED
      BY <3>1, <3>2 DEF Walk
  <2> HIDE DEF nb, h
  <2> QED
    BY <1>1, <2>1, <2>2, HearsOnce
<1>10. h[nb] = f[na + nb]
  <2>1. nb \in 0..nb
    BY <1>1
  <2> QED
    BY <2>1
<1> QED
  BY <1>6, <1>9, <1>10 DEF ab, t

\* Behind the end nothing is heard.
LEMMA UnescapeOver ==
  ASSUME NEW s \in Ear, s.done, NEW in \in Seq(Byte)
  PROVE  Unescape(s, in) = s
<1> DEFINE n == Len(in)
<1>1. n \in Nat
  OBVIOUS
<1>2. PICK f : Hears(s, in, f)
  BY HearsThere
<1> DEFINE g == [i \in 0..n |-> s]
<1>3. Walk(s, n, in, f)
  BY <1>2 DEF Hears, Walk
<1>4. Walk(s, n, in, g)
  <2>1. \A b : Heard(s, b) = s
    BY DEF Heard
  <2>2. \A i \in 1..n : i \in 0..n /\ i - 1 \in 0..n
    BY <1>1
  <2>3. g[0] = s /\ \A i \in 1..n : g[i] = s /\ g[i - 1] = s
    BY <1>1, <2>2
  <2> HIDE DEF g
  <2> QED
    BY <2>1, <2>3 DEF Walk
<1>5. f[n] = g[n]
  <2> HIDE DEF n, g
  <2> QED
    BY <1>1, <1>3, <1>4, HearsOnce
<1>6. g[n] = s
  <2>1. n \in 0..n
    BY <1>1
  <2> QED
    BY <2>1
<1> QED
  BY <1>2, <1>5, <1>6, UnescapeHears

\* What was kept before stays in front of what is kept.
Behind(x, s) == [dle |-> s.dle, done |-> s.done, buf |-> x \o s.buf]

\* The ear is its three fields.
LEMMA SameEar ==
  ASSUME NEW u \in Ear, NEW v \in Ear, u.dle = v.dle, u.done = v.done, u.buf = v.buf
  PROVE  u = v
BY DEF Ear

\* The fields after a byte, while the message is not over.
LEMMA HeardFields ==
  ASSUME NEW s \in Ear, ~s.done, NEW b \in Byte
  PROVE  /\ Heard(s, b).dle <=> ~s.dle /\ b = DLE
         /\ Heard(s, b).done <=> s.dle /\ b = ETX
         /\ Heard(s, b).buf = IF s.dle <=> b = DLE THEN Append(s.buf, b) ELSE s.buf
<1>1. CASE s.dle
  <2>1. Heard(s, b) = [ dle |-> FALSE, done |-> b = ETX,
                        buf |-> IF b = DLE THEN Append(s.buf, DLE) ELSE s.buf ]
    BY <1>1, Zenon DEF Heard
  <2>2. Heard(s, b).buf = IF b = DLE THEN Append(s.buf, DLE) ELSE s.buf
    BY <2>1
  <2>3. Heard(s, b).dle = FALSE /\ Heard(s, b).done = (b = ETX)
    BY <2>1
  <2> QED
    BY <1>1, <2>2, <2>3, Zenon
<1>2. CASE ~s.dle
  <2>1. Heard(s, b) = [ dle |-> b = DLE, done |-> FALSE,
                        buf |-> IF b = DLE THEN s.buf ELSE Append(s.buf, b) ]
    BY <1>2, Zenon DEF Heard
  <2>2. Heard(s, b).buf = IF b = DLE THEN s.buf ELSE Append(s.buf, b)
    BY <2>1
  <2>3. Heard(s, b).dle = (b = DLE) /\ Heard(s, b).done = FALSE
    BY <2>1
  <2> QED
    BY <1>2, <2>2, <2>3, Zenon
<1> QED
  BY <1>1, <1>2

\* What was kept does not matter to how the next byte is heard ...
LEMMA HeardBehind ==
  ASSUME NEW x \in Seq(Byte), NEW s \in Ear, NEW b \in Byte
  PROVE  Heard(Behind(x, s), b) = Behind(x, Heard(s, b)) /\ Behind(x, s) \in Ear
<1>1. s.buf \in Seq(Byte) /\ s.dle \in BOOLEAN /\ s.done \in BOOLEAN
  BY DEF Ear
<1>2. Append(x \o s.buf, b) = x \o Append(s.buf, b) /\ x \o s.buf \in Seq(Byte)
  BY <1>1
<1>3. \A e \in Ear : /\ Behind(x, e) \in Ear
                    /\ Behind(x, e).dle = e.dle /\ Behind(x, e).done = e.done
                    /\ Behind(x, e).buf = x \o e.buf
  BY DEF Behind, Ear
<1> DEFINE z == Behind(x, s)
<1>4. z \in Ear /\ Heard(s, b) \in Ear
  BY <1>3, HeardRight
<1>5. Heard(z, b) \in Ear /\ Behind(x, Heard(s, b)) \in Ear
  BY <1>3, <1>4, HeardRight
<1>6. CASE s.done
  <2>1. z.done /\ Heard(s, b) = s
    BY <1>3, <1>6, Zenon DEF Heard
  <2> HIDE DEF z
  <2>2. Heard(z, b) = z
    BY <2>1, Zenon DEF Heard
  <2> QED
    BY <1>4, <2>1, <2>2 DEF z
<1>7. CASE ~s.done
  <2>1. ~z.done /\ (z.dle <=> s.dle) /\ z.buf = x \o s.buf
    BY <1>3, <1>7
  <2> HIDE DEF z
  <2>2. /\ Heard(s, b).dle <=> ~s.dle /\ b = DLE
        /\ Heard(s, b).done <=> s.dle /\ b = ETX
        /\ Heard(s, b).buf = IF s.dle <=> b = DLE THEN Append(s.buf, b) ELSE s.buf
    BY <1>7, HeardFields
  <2>3. /\ Heard(z, b).dle <=> ~z.dle /\ b = DLE
        /\ Heard(z, b).done <=> z.dle /\ b = ETX
        /\ Heard(z, b).buf = IF z.dle <=> b = DLE THEN Append(z.buf, b) ELSE z.buf
    BY <1>4, <2>1, HeardFields
  <2> DEFINE w == Behind(x, Heard(s, b))
  <2>4. w.dle = Heard(s, b).dle /\ w.done = Heard(s, b).done /\ w.buf = x \o Heard(s, b).buf
    BY <1>3, <1>4
  <2> HIDE DEF w
  <2>5. Heard(z, b).buf = w.buf
    <3>1. CASE s.dle <=> b = DLE
      <4>1. Heard(s, b).buf = Append(s.buf, b) /\ Heard(z, b).buf = Append(z.buf, b)
        BY <2>1, <2>2, <2>3, <3>1, Zenon
      <4> QED
        BY <1>2, <2>1, <2>4, <4>1, Zenon
    <3>2. CASE ~(s.dle <=> b = DLE)
      <4>1. Heard(s, b).buf = s.buf /\ Heard(z, b).buf = z.buf
        BY <2>1, <2>2, <2>3, <3>2, Zenon
      <4> QED
        BY <2>1, <2>4, <4>1, Zenon
    <3> QED
      BY <3>1, <3>2, Zenon
  <2>6. Heard(z, b).dle \in BOOLEAN /\ w.dle \in BOOLEAN /\ Heard(z, b).done \in BOOLEAN
        /\ w.done \in BOOLEAN
    BY <1>5 DEF Ear, w
  <2>7. Heard(z, b).dle = w.dle /\ Heard(z, b).done = w.done
    BY <2>1, <2>2, <2>3, <2>4, <2>6, Zenon
  <2>8. w \in Ear
    BY <1>5 DEF w
  <2>9. Heard(z, b) = w
    BY <1>5, <2>5, <2>7, <2>8, SameEar
  <2> QED
    BY <1>4, <2>9 DEF w, z
<1> QED
  BY <1>6, <1>7

\* ... nor to how any number of bytes are.
LEMMA UnescapeBehind ==
  ASSUME NEW x \in Seq(Byte), NEW s \in Ear, NEW in \in Seq(Byte)
  PROVE  Unescape(Behind(x, s), in) = Behind(x, Unescape(s, in))
<1> DEFINE n == Len(in)
           z == Behind(x, s)
<1>1. n \in Nat
  OBVIOUS
<1>2. \A e \in Ear : Behind(x, e) \in Ear /\ \A b \in Byte : Heard(Behind(x, e), b) = Behind(x, Heard(e, b))
  <2>1. 0 \in Byte
    BY DEF Byte
  <2> QED
    BY <2>1, HeardBehind
<1>3. z \in Ear
  BY <1>2
<1> HIDE DEF z
<1>4. PICK f : Hears(s, in, f)
  BY HearsThere
<1>5. PICK h : Hears(z, in, h)
  BY <1>3, HearsThere
<1> DEFINE g == [i \in 0..n |-> Behind(x, f[i])]
<1>6. Walk(z, n, in, h)
  BY <1>5 DEF Hears, Walk
<1>7. Walk(z, n, in, g)
  <2>1. f \in [0..n -> Ear] /\ f[0] = s /\ \A i \in 1..n : f[i] = Heard(f[i - 1], in[i])
    BY <1>4 DEF Hears
  <2>2. g[0] = z
    BY <1>1, <2>1 DEF z
  <2>3. ASSUME NEW i \in 1..n PROVE g[i] = Heard(g[i - 1], in[i])
    <3>1. i \in 0..n /\ i - 1 \in 0..n /\ in[i] \in Byte
      BY <1>1
    <3>2. g[i] = Behind(x, f[i]) /\ g[i - 1] = Behind(x, f[i - 1])
      BY <3>1
    <3> HIDE DEF g
    <3>3. f[i - 1] \in Ear /\ f[i] = Heard(f[i - 1], in[i])
      BY <2>1, <3>1
    <3> QED
      BY <1>2, <3>1, <3>2, <3>3
  <2> HIDE DEF g
  <2> QED
    BY <2>2, <2>3 DEF Walk
<1>8. h[n] = g[n]
  <2> HIDE DEF n, g
  <2> QED
    BY <1>1, <1>6, <1>7, HearsOnce
<1>9. g[n] = Behind(x, f[n])
  <2>1. n \in 0..n
    BY <1>1
  <2> QED
    BY <2>1
<1>10. Unescape(z, in) = h[n] /\ Unescape(s, in) = f[n]
  BY <1>3, <1>4, <1>5, UnescapeHears
<1> HIDE DEF g, n
<1> QED
  BY <1>8, <1>9, <1>10 DEF z

\* The bytes a byte of a message is said with, and those of its first i bytes.
Doubled(b) == IF b = DLE THEN << DLE, DLE >> ELSE << b >>
Says(m, f) ==
  /\ f \in [0..Len(m) -> Seq(Byte)]
  /\ f[0] = << >> /\ \A i \in 1..Len(m) : f[i] = f[i - 1] \o Doubled(m[i])

\* What the host writes for a message.
LEMMA EscapedSays ==
  ASSUME NEW m \in Messages \cup Pages
  PROVE  /\ m \in Seq(Byte)
         /\ \E f : Says(m, f) /\ Escaped[m] = f[Len(m)] \o << DLE, ETX >>
<1>1. m \in Seq(Byte)
  <2>1. m \in Seq(0..255)
    BY FaxAssumption
  <2> QED
    BY <2>1 DEF Byte
<1> DEFINE n == Len(m)
           S == Seq(Byte)
           G == [p \in (1..n) \X S |-> p[2] \o Doubled(m[p[1]])]
           F(g) == [i \in 0..n |->
                      IF i = 0 THEN << >>
                      ELSE g[i - 1] \o (IF m[i] = DLE THEN << DLE, DLE >> ELSE << m[i] >>)]
           h == CHOOSE g : g = F(g)
<1>2. n \in Nat /\ << >> \in S
  BY <1>1
<1>3. ASSUME NEW b \in Byte PROVE Doubled(b) \in S
  <2>1. DLE \in Byte
    BY DEF DLE, Byte
  <2>2. << DLE, DLE >> \in S /\ << b >> \in S
    BY <1>3, <2>1
  <2> HIDE DEF S
  <2> QED
    BY <2>2 DEF Doubled
<1>4. ASSUME NEW p \in (1..n) \X S PROVE p[2] \o Doubled(m[p[1]]) \in S
  <2>1. p[2] \in S /\ m[p[1]] \in Byte
    BY <1>1
  <2>2. Doubled(m[p[1]]) \in S
    BY <1>3, <2>1
  <2> QED
    BY <2>1, <2>2, ConcatProperties
<1>5. G \in [(1..n) \X S -> S]
  BY <1>4
<1>6. \A i \in 1..n : \A x \in S : G[<< i, x >>] = x \o Doubled(m[i])
  OBVIOUS
<1> HIDE DEF G
<1>7. PICK f \in [0..n -> S] : f[0] = << >> /\ \A i \in 1..n : f[i] = G[<< i, f[i - 1] >>]
  <2>1. \E f : Recurs(n, S, << >>, G, f)
    <3> HIDE DEF S, n
    <3> QED
      BY <1>2, <1>5, Recursion
  <2> QED
    BY <2>1 DEF Recurs
<1>8. ASSUME NEW i \in 1..n PROVE f[i] = f[i - 1] \o Doubled(m[i])
  <2>1. i - 1 \in 0..n
    BY <1>2
  <2> QED
    BY <1>6, <1>7, <2>1
<1>9. f = F(f)
  <2>1. ASSUME NEW i \in 0..n PROVE f[i] = F(f)[i]
    <3>1. CASE i = 0
      BY <1>7, <3>1
    <3>2. CASE i # 0
      <4>1. i \in 1..n
        BY <1>2, <3>2
      <4>2. f[i] = f[i - 1] \o Doubled(m[i])
        BY <1>8, <4>1
      <4>3. F(f)[i] = f[i - 1] \o (IF m[i] = DLE THEN << DLE, DLE >> ELSE << m[i] >>)
        BY <3>2, Zenon
      <4> QED
        BY <4>2, <4>3, Zenon DEF Doubled
    <3> QED
      BY <3>1, <3>2
  <2> HIDE DEF F
  <2>2. F(f) = [i \in 0..n |-> F(f)[i]]
    BY DEF F
  <2> QED
    BY <1>7, <2>1, <2>2
<1>10. h = F(h)
  BY <1>9
<1>11. Escaped[m] = h[n] \o << DLE, ETX >>
  BY Zenon DEF Escaped
<1> HIDE DEF h
<1>12. DOMAIN h = 0..n /\ \A i \in 0..n : h[i] = F(h)[i]
  BY <1>10
<1>13. h[0] = << >> /\ \A i \in 1..n : h[i] = h[i - 1] \o Doubled(m[i])
  <2>1. h[0] = << >>
    <3>1. 0 \in 0..n
      BY <1>2
    <3>2. h[0] = F(h)[0]
      BY <1>12, <3>1
    <3> QED
      BY <3>1, <3>2, Zenon
  <2>2. ASSUME NEW i \in 1..n PROVE h[i] = h[i - 1] \o Doubled(m[i])
    <3>1. i \in 0..n /\ i # 0
      BY <1>2
    <3>2. h[i] = F(h)[i]
      BY <1>12, <3>1
    <3> QED
      BY <3>1, <3>2 DEF Doubled
  <2> QED
    BY <2>1, <2>2
<1> DEFINE T == { k \in Nat : f[k] = h[k] }
<1>14. 0 \in T
  BY <1>7, <1>13
<1>15. ASSUME NEW k \in 0..n - 1, k \in T PROVE k + 1 \in T
  <2>1. k + 1 \in 1..n /\ (k + 1) - 1 = k /\ k + 1 \in Nat
    BY <1>2, <1>15
  <2>2. f[k + 1] = f[k] \o Doubled(m[k + 1]) /\ h[k + 1] = h[k] \o Doubled(m[k + 1])
    BY <1>8, <1>13, <2>1
  <2> QED
    BY <1>15, <2>1, <2>2
<1>16. n \in 0..n
  BY <1>2
<1>17. n \in T
  <2> HIDE DEF T
  <2> QED
    BY <1>2, <1>14, <1>15, <1>16, UpTo
<1>18. Escaped[m] = f[n] \o << DLE, ETX >>
  BY <1>11, <1>17
<1>19. Says(m, f)
  BY <1>7, <1>8 DEF Says
<1> QED
  BY <1>1, <1>18, <1>19

\* What the host writes for a message is bytes, and not nothing.
LEMMA EscapedBytes ==
  ASSUME NEW m \in Messages \cup Pages
  PROVE  Escaped[m] \in Seq(Byte) /\ Escaped[m] # << >>
<1>1. PICK f : Says(m, f) /\ Escaped[m] = f[Len(m)] \o << DLE, ETX >>
  BY EscapedSays
<1>2. Len(m) \in Nat
  BY EscapedSays
<1>3. f[Len(m)] \in Seq(Byte)
  BY <1>1, <1>2 DEF Says
<1>4. << DLE, ETX >> \in Seq(Byte) /\ Len(<< DLE, ETX >>) = 2
  BY DEF DLE, ETX, Byte
<1>5. Escaped[m] \in Seq(Byte) /\ Len(Escaped[m]) # 0
  BY <1>1, <1>3, <1>4, ConcatProperties
<1> QED
  BY <1>5

\* What is heard of a byte that is said.
LEMMA DoubledHeard ==
  ASSUME NEW t \in Ear, ~t.done, ~t.dle, NEW b \in Byte
  PROVE  /\ ~Unescape(t, Doubled(b)).dle /\ ~Unescape(t, Doubled(b)).done
         /\ Unescape(t, Doubled(b)).buf = Append(t.buf, b)
<1> DEFINE h == Heard(t, b)
<1>1. h \in Ear
  BY HeardRight
<1>2. /\ h.dle <=> b = DLE
      /\ ~h.done
      /\ h.buf = IF b = DLE THEN t.buf ELSE Append(t.buf, b)
  <2>1. /\ h.dle <=> ~t.dle /\ b = DLE
        /\ h.done <=> t.dle /\ b = ETX
        /\ h.buf = IF t.dle <=> b = DLE THEN Append(t.buf, b) ELSE t.buf
    BY HeardFields
  <2> HIDE DEF h
  <2> QED
    BY <2>1, Zenon
<1>3. CASE b # DLE
  <2>1. Doubled(b) = << b >>
    BY <1>3 DEF Doubled
  <2>2. Unescape(t, Doubled(b)) = h
    BY <2>1, UnescapeOne
  <2> HIDE DEF h
  <2> QED
    BY <1>2, <1>3, <2>2
<1>4. CASE b = DLE
  <2>1. Doubled(b) = << b >> \o << b >> /\ << b >> \in Seq(Byte)
    BY <1>4 DEF Doubled
  <2>2. Unescape(t, << b >>) = h
    BY UnescapeOne
  <2>3. Unescape(t, Doubled(b)) = Unescape(h, << b >>)
    BY <2>1, <2>2, UnescapeSplit
  <2> HIDE DEF h
  <2>4. Unescape(h, << b >>) = Heard(h, b)
    BY <1>1, UnescapeOne
  <2>5. /\ Heard(h, b).dle <=> ~h.dle /\ b = DLE
        /\ Heard(h, b).done <=> h.dle /\ b = ETX
        /\ Heard(h, b).buf = IF h.dle <=> b = DLE THEN Append(h.buf, b) ELSE h.buf
    BY <1>1, <1>2, HeardFields
  <2>6. b # ETX
    BY <1>4 DEF DLE, ETX
  <2> QED
    BY <1>2, <1>4, <2>3, <2>4, <2>5, <2>6, Zenon
<1> QED
  BY <1>3, <1>4

\* r, heard from s on, is the rest of a message whose bytes are m: it ends with
\* r and not before.
Closes(s, r, m) ==
  /\ r \in Seq(Byte) /\ r # << >>
  /\ Unescape(s, r) = [dle |-> FALSE, done |-> TRUE, buf |-> m]
  /\ ~Unescape(s, SubSeq(r, 1, Len(r) - 1)).done

\* A piece of what closes: the rest closes still, if there is any.
LEMMA ClosesPart ==
  ASSUME NEW s \in Ear, NEW m, NEW a \in Seq(Byte), NEW b \in Seq(Byte),
         Closes(s, a \o b, m)
  PROVE  /\ b = << >> => Unescape(s, a) = [dle |-> FALSE, done |-> TRUE, buf |-> m]
         /\ b # << >> => ~Unescape(s, a).done /\ Closes(Unescape(s, a), b, m)
<1>1. CASE b = << >>
  <2>1. a \o b = a
    BY <1>1
  <2> QED
    BY <1>1, <2>1, Zenon DEF Closes
<1>2. CASE b # << >>
  <2> DEFINE t == Unescape(s, a)
             n == Len(b) - 1
             e == SubSeq(b, 1, n)
  <2>1. t \in Ear
    BY UnescapeRight
  <2>2. n \in Nat /\ Len(a) \in Nat /\ Len(b) \in Nat /\ n <= Len(b)
    BY <1>2, EmptySeq
  <2>3. e \in Seq(Byte) /\ Len(e) = n /\ \A i \in 1..n : e[i] = b[i]
    BY <2>2, FirstOf
  <2>4. SubSeq(a \o b, 1, Len(a \o b) - 1) = a \o e
    <3>1. Len(a \o b) - 1 = Len(a) + n
      BY <2>2
    <3> DEFINE x == SubSeq(a \o b, 1, Len(a) + n)
               y == a \o e
    <3>2. Len(e) = n /\ \A i \in 1..n : e[i] = b[i]
      BY <2>3
    <3> HIDE DEF e, n
    <3>3. y \in Seq(Byte) /\ Len(y) = Len(a) + n
      BY <2>3, <3>2
    <3>4. x \in Seq(Byte) /\ Len(x) = Len(a) + n /\ \A i \in 1..Len(a) + n : x[i] = (a \o b)[i]
      BY <2>2, <3>1
    <3>5. ASSUME NEW i \in 1..Len(a) + n PROVE x[i] = y[i]
      <4>1. CASE i <= Len(a)
        BY <2>2, <2>3, <3>4, <4>1
      <4>2. CASE i > Len(a)
        <5> DEFINE j == i - Len(a)
        <5>1. j \in 1..n /\ j \in 1..Len(b) /\ i = Len(a) + j
          BY <2>2, <4>2
        <5> HIDE DEF j
        <5>2. (a \o b)[i] = b[j]
          BY <2>2, <5>1
        <5>3. y[i] = e[j]
          BY <2>2, <2>3, <3>2, <5>1
        <5> HIDE DEF x, y
        <5>4. x[i] = (a \o b)[i] /\ e[j] = b[j]
          BY <3>2, <3>4, <5>1
        <5> QED
          BY <5>2, <5>3, <5>4
      <4>3. i <= Len(a) \/ i > Len(a)
        BY <2>2
      <4> QED
        BY <4>1, <4>2, <4>3
    <3> HIDE DEF x, y
    <3>6. x = y
      BY <3>3, <3>4, <3>5, SeqEqual
    <3> QED
      BY <3>1, <3>6 DEF x, y, n
  <2>5. Unescape(s, a \o e) = Unescape(t, e)
    BY <2>3, UnescapeSplit
  <2>6. ~Unescape(t, e).done
    BY <2>4, <2>5 DEF Closes
  <2>7. Unescape(t, b) = [dle |-> FALSE, done |-> TRUE, buf |-> m]
    BY UnescapeSplit DEF Closes
  <2> HIDE DEF t
  <2>8. ~t.done
    <3> SUFFICES ASSUME t.done PROVE FALSE
      OBVIOUS
    <3>1. Unescape(t, e) = t
      BY <2>1, <2>3, UnescapeOver
    <3> QED
      BY <2>6, <3>1
  <2>9. Closes(t, b, m)
    BY <1>2, <2>6, <2>7 DEF Closes
  <2> QED
    BY <1>2, <2>8, <2>9 DEF t
<1> QED
  BY <1>1, <1>2

\* The first pieces of what the host writes, from the i-th byte on, when the
\* i-th was taken in without a DLE left over: nothing is over, and the bytes
\* are behind what there was.
LEMMA SaidHeard ==
  ASSUME NEW m \in Seq(Byte), NEW f, Says(m, f), NEW s \in Ear,
         NEW i \in 0..Len(m), ~Unescape(s, f[i]).dle, ~Unescape(s, f[i]).done
  PROVE  LET u == Unescape(s, f[Len(m)])
         IN /\ u \in Ear /\ ~u.dle /\ ~u.done
            /\ u.buf = Unescape(s, f[i]).buf \o SubSeq(m, i + 1, Len(m))
<1> DEFINE x == Unescape(s, f[i]).buf
<1>0. x \in Seq(Byte)
  <2>1. f[i] \in Seq(Byte)
    BY DEF Says
  <2> QED
    BY <2>1, UnescapeRight DEF Ear
<1> DEFINE n == Len(m)
           rest(k) == SubSeq(m, i + 1, k)
           U(k) == Unescape(s, f[k])
           R(k) == ~U(k).dle /\ ~U(k).done /\ U(k).buf = x \o rest(k)
           T == { k \in Nat : i + k <= n => R(i + k) }
<1>1. n \in Nat /\ i \in Nat /\ i <= n
  OBVIOUS
<1>2. \A k \in 0..n : f[k] \in Seq(Byte) /\ U(k) \in Ear
  <2>1. \A k \in 0..n : f[k] \in Seq(Byte)
    BY DEF Says
  <2> QED
    BY <2>1, UnescapeRight
<1>3. 0 \in T
  <2>1. i + 0 = i /\ rest(i) = << >>
    BY <1>1, SubSeqEmpty
  <2> HIDE DEF rest, x
  <2>2. x \o << >> = x
    BY <1>0
  <2>3. R(i + 0)
    BY <2>1, <2>2 DEF x
  <2> HIDE DEF R
  <2> QED
    BY <2>3
<1>4. ASSUME NEW k \in 0..n - 1, k \in T PROVE k + 1 \in T
  <2> SUFFICES ASSUME i + (k + 1) <= n PROVE R(i + (k + 1))
    <3> HIDE DEF R
    <3>1. k + 1 \in Nat
      BY <1>1
    <3> QED
      BY <3>1
  <2> DEFINE j == i + k
             b == m[j + 1]
  <2>1. j \in Nat /\ j + 1 = i + (k + 1) /\ j <= n /\ j \in 0..n /\ j + 1 \in 1..n
        /\ (j + 1) - 1 = j /\ k \in Nat
    BY <1>1
  <2>2. ~U(j).dle /\ ~U(j).done /\ U(j).buf = x \o rest(j)
    BY <1>4, <2>1
  <2>3. f[j + 1] = f[j] \o Doubled(b) /\ b \in Byte
    <3>1. f[j + 1] = f[(j + 1) - 1] \o Doubled(b)
      BY <2>1 DEF Says
    <3>2. b \in Byte
      BY <2>1
    <3> QED
      BY <2>1, <3>1, <3>2
  <2>4. Doubled(b) \in Seq(Byte)
    <3>1. DLE \in Byte
      BY DEF DLE, Byte
    <3>2. << DLE, DLE >> \in Seq(Byte) /\ << b >> \in Seq(Byte)
      BY <2>3, <3>1
    <3> HIDE DEF b
    <3> QED
      BY <3>2 DEF Doubled
  <2>5. rest(j + 1) = Append(rest(j), b) /\ rest(j) \in Seq(Byte)
    <3> DEFINE p == rest(j)
               q == rest(j + 1)
               l == IF i + 1 <= j THEN j - (i + 1) + 1 ELSE 0
    <3>1. l = k
      BY <1>1, <2>1
    <3>2. /\ p \in Seq(Byte) /\ Len(p) = k
          /\ \A e \in 1..k : p[e] = m[i + 1 + e - 1]
      <4>1. \A e \in i + 1..j : m[e] \in Byte
        BY <1>1, <2>1
      <4>2. i + 1 \in Int /\ j \in Int /\ j - (i + 1) + 1 = k
        BY <1>1, <2>1
      <4>3. l = IF i + 1 <= j THEN j - (i + 1) + 1 ELSE 0
        OBVIOUS
      <4> HIDE DEF j, l
      <4>4. /\ SubSeq(m, i + 1, j) \in Seq(Byte) /\ Len(SubSeq(m, i + 1, j)) = l
            /\ \A e \in 1..j - (i + 1) + 1 : SubSeq(m, i + 1, j)[e] = m[i + 1 + e - 1]
        BY <4>1, <4>2, <4>3, SubSeqProperties
      <4> QED
        BY <3>1, <4>2, <4>4
    <3>3. /\ q \in Seq(Byte) /\ Len(q) = k + 1
          /\ \A e \in 1..k + 1 : q[e] = m[i + 1 + e - 1]
      <4>1. \A e \in i + 1..j + 1 : m[e] \in Byte
        BY <1>1, <2>1
      <4> DEFINE z == j + 1
      <4>4. i + 1 \in Int /\ z \in Int /\ z - (i + 1) + 1 = k + 1 /\ i + 1 <= z
        BY <1>1, <2>1
      <4> HIDE DEF j, z
      <4>3. \A e \in i + 1..z : m[e] \in Byte
        BY <4>1 DEF z
      <4>5. /\ SubSeq(m, i + 1, z) \in Seq(Byte)
            /\ Len(SubSeq(m, i + 1, z)) = IF i + 1 <= z THEN z - (i + 1) + 1 ELSE 0
            /\ \A e \in 1..z - (i + 1) + 1 : SubSeq(m, i + 1, z)[e] = m[i + 1 + e - 1]
        BY <4>3, <4>4, SubSeqProperties
      <4> DEFINE w == SubSeq(m, i + 1, z)
      <4>6. w \in Seq(Byte) /\ Len(w) = (IF i + 1 <= z THEN z - (i + 1) + 1 ELSE 0)
            /\ \A e \in 1..k + 1 : w[e] = m[i + 1 + e - 1]
        BY <4>4, <4>5
      <4>7. w = q
        BY DEF z
      <4> HIDE DEF w, q
      <4>8. Len(w) = k + 1
        BY <4>4, <4>6
      <4> QED
        BY <4>6, <4>7, <4>8, Zenon
    <3> HIDE DEF p, q
    <3>4. Append(p, b) \in Seq(Byte) /\ Len(Append(p, b)) = k + 1
      BY <2>1, <2>3, <3>2
    <3>5. ASSUME NEW e \in 1..k + 1 PROVE q[e] = Append(p, b)[e]
      <4>1. CASE e = k + 1
        <5>1. i + 1 + e - 1 = j + 1
          BY <1>1, <2>1, <4>1
        <5>2. Append(p, b)[e] = b
          BY <2>3, <3>2, <4>1
        <5> QED
          BY <3>3, <5>1, <5>2
      <4>2. CASE e # k + 1
        <5>1. e \in 1..k
          BY <2>1, <4>2
        <5>2. Append(p, b)[e] = p[e]
          BY <2>3, <3>2, <5>1
        <5> QED
          BY <3>2, <3>3, <5>1, <5>2
      <4> QED
        BY <4>1, <4>2
    <3>6. q = Append(p, b)
      BY <2>1, <3>3, <3>4, <3>5, SeqEqual
    <3> QED
      BY <3>2, <3>6 DEF p, q
  <2> DEFINE t == U(j)
             v == U(j + 1)
  <2>6. t \in Ear /\ f[j] \in Seq(Byte)
    BY <1>2, <2>1
  <2>7. v = Unescape(t, Doubled(b))
    BY <2>3, <2>4, <2>6, UnescapeSplit
  <2> HIDE DEF t, rest
  <2>8. ~t.dle /\ ~t.done /\ t.buf = x \o rest(j)
    BY <2>2 DEF t
  <2> HIDE DEF v, b, j
  <2>9. ~v.dle /\ ~v.done /\ v.buf = Append(t.buf, b)
    BY <2>3, <2>6, <2>7, <2>8, DoubledHeard
  <2>10. Append(x \o rest(j), b) = x \o Append(rest(j), b)
    BY <1>0, <2>3, <2>5, AppendConcat
  <2>11. v.buf = x \o rest(j + 1)
    BY <2>5, <2>8, <2>9, <2>10
  <2>12. R(j + 1)
    BY <2>9, <2>11 DEF v
  <2> HIDE DEF R
  <2> QED
    BY <2>1, <2>12
<1>5. n - i \in 0..n /\ i + (n - i) = n
  BY <1>1
<1>6. n - i \in T
  <2> HIDE DEF T
  <2> QED
    BY <1>1, <1>3, <1>4, <1>5, UpTo
<1>7. ~U(n).dle /\ ~U(n).done /\ U(n).buf = x \o rest(n)
  <2>1. R(i + (n - i))
    <3> HIDE DEF R
    <3>1. i + (n - i) <= n
      BY <1>1, <1>5
    <3> QED
      BY <1>6, <3>1
  <2> QED
    BY <1>5, <2>1
<1>8. U(n) \in Ear
  BY <1>1, <1>2
<1> QED
  BY <1>7, <1>8

\* A message closes: whole when nothing is left over from another, and
\* without its first byte when a DLE is, unless that byte says something with it.
LEMMA EscapedCloses ==
  ASSUME NEW m \in Messages \cup Pages, NEW s \in Ear, ~s.done,
         s.dle => m # << >> /\ m[1] \notin { DLE, ETX }
  PROVE  \E out \in Seq(Byte) :
           Closes(s, Escaped[m], out) /\ (~s.dle => out = s.buf \o m)
<1> DEFINE n == Len(m)
<1>1. PICK f : Says(m, f) /\ Escaped[m] = f[n] \o << DLE, ETX >>
  BY EscapedSays
<1>2. m \in Seq(Byte) /\ n \in Nat /\ s.buf \in Seq(Byte)
  BY EscapedSays DEF Ear
<1>3. /\ f \in [0..n -> Seq(Byte)]
      /\ f[0] = << >> /\ \A i \in 1..n : f[i] = f[i - 1] \o Doubled(m[i])
  BY <1>1 DEF Says
<1> DEFINE u == Unescape(s, f[n])
<1>4. \E out \in Seq(Byte) : /\ u \in Ear /\ ~u.dle /\ ~u.done /\ u.buf = out
                             /\ ~s.dle => out = s.buf \o m
  <2>1. CASE ~s.dle
    <3>1. 0 \in 0..n /\ 0 + 1 = 1
      BY <1>2
    <3>2. Unescape(s, f[0]) = s
      BY <1>3, UnescapeNothing
    <3>3. u \in Ear /\ ~u.dle /\ ~u.done /\ u.buf = s.buf \o SubSeq(m, 0 + 1, n)
      BY <1>1, <1>2, <2>1, <3>1, <3>2, SaidHeard
    <3>4. SubSeq(m, 1, n) = m
      BY <1>2
    <3>5. s.buf \o m \in Seq(Byte)
      BY <1>2
    <3> HIDE DEF u
    <3> QED
      BY <3>1, <3>3, <3>4, <3>5
  <2>2. CASE s.dle
    <3> DEFINE b == m[1]
               x == s.buf
    <3>1. m # << >> /\ b \notin { DLE, ETX }
      BY <2>2
    <3>2. n # 0 /\ 1 \in 0..n /\ 1 \in 1..n /\ 1 - 1 = 0 /\ b \in Byte
      BY <1>2, <3>1
    <3>3. f[1] = << b >>
      <4>1. f[1] = << >> \o Doubled(b)
        BY <1>3, <3>2
      <4>2. Doubled(b) = << b >>
        BY <3>1 DEF Doubled
      <4>3. << >> \o << b >> = << b >>
        BY <3>2
      <4> QED
        BY <4>1, <4>2, <4>3
    <3> HIDE DEF b
    <3>4. Unescape(s, f[1]) = Heard(s, b)
      BY <3>2, <3>3, UnescapeOne
    <3>5. ~Heard(s, b).dle /\ ~Heard(s, b).done /\ Heard(s, b).buf = x
      <4>1. /\ Heard(s, b).dle <=> ~s.dle /\ b = DLE
            /\ Heard(s, b).done <=> s.dle /\ b = ETX
            /\ Heard(s, b).buf = IF s.dle <=> b = DLE THEN Append(s.buf, b) ELSE s.buf
        BY <3>2, HeardFields
      <4> QED
        BY <2>2, <3>1, <4>1, Zenon
    <3>6. u \in Ear /\ ~u.dle /\ ~u.done /\ u.buf = x \o SubSeq(m, 1 + 1, n)
      <4>1. ~Unescape(s, f[1]).dle /\ ~Unescape(s, f[1]).done /\ Unescape(s, f[1]).buf = x
        BY <3>4, <3>5
      <4>2. x \in Seq(Byte) /\ 1 \in 0..Len(m)
        BY <1>2, <3>2
      <4>3. /\ u \in Ear /\ ~u.dle /\ ~u.done
            /\ u.buf = Unescape(s, f[1]).buf \o SubSeq(m, 1 + 1, n)
        BY <1>1, <1>2, <4>1, <4>2, SaidHeard
      <4> QED
        BY <4>1, <4>3
    <3>7. SubSeq(m, 1 + 1, n) \in Seq(Byte)
      BY <1>2
    <3>8. x \o SubSeq(m, 1 + 1, n) \in Seq(Byte)
      BY <1>2, <3>7
    <3> HIDE DEF u
    <3> QED
      BY <2>2, <3>6, <3>8
  <2> QED
    BY <2>1, <2>2
<1>5. PICK out \in Seq(Byte) : /\ u \in Ear /\ ~u.dle /\ ~u.done /\ u.buf = out
                               /\ ~s.dle => out = s.buf \o m
  BY <1>4
<1> DEFINE d == << DLE >>
           e == << ETX >>
           a == f[n]
<1>6. d \in Seq(Byte) /\ e \in Seq(Byte) /\ DLE \in Byte /\ ETX \in Byte /\ DLE # ETX
      /\ << DLE, ETX >> = d \o e
  BY DEF DLE, ETX, Byte
<1>7. a \in Seq(Byte)
  BY <1>2, <1>3
<1> HIDE DEF u
<1>8. Heard(u, DLE) \in Ear /\ Heard(u, DLE).dle /\ ~Heard(u, DLE).done
      /\ Heard(u, DLE).buf = out
  <2>1. /\ Heard(u, DLE).dle <=> ~u.dle /\ DLE = DLE
        /\ Heard(u, DLE).done <=> u.dle /\ DLE = ETX
        /\ Heard(u, DLE).buf = IF u.dle <=> DLE = DLE THEN Append(u.buf, DLE) ELSE u.buf
    BY <1>5, <1>6, HeardFields
  <2>2. Heard(u, DLE) \in Ear
    BY <1>5, <1>6, HeardRight
  <2> QED
    BY <1>5, <2>1, <2>2, Zenon
<1> DEFINE v == Heard(u, DLE)
<1>9. Unescape(s, a \o d) = v /\ a \o d \in Seq(Byte)
  <2>1. Unescape(s, a \o d) = Unescape(u, d)
    BY <1>6, <1>7, UnescapeSplit DEF u
  <2>2. Unescape(u, d) = v
    BY <1>5, <1>6, UnescapeOne
  <2> QED
    BY <1>6, <1>7, <2>1, <2>2
<1>10. Escaped[m] = (a \o d) \o e
  <2> HIDE DEF a, d, e
  <2>1. Escaped[m] = a \o (d \o e)
    BY <1>1, <1>6 DEF a
  <2>2. (a \o d) \o e = a \o (d \o e)
    BY <1>6, <1>7, ConcatAssociative
  <2> QED
    BY <2>1, <2>2
<1>11. Unescape(s, Escaped[m]) = Heard(v, ETX)
  <2>1. Unescape(s, (a \o d) \o e) = Unescape(v, e)
    <3> DEFINE ad == a \o d
    <3> HIDE DEF ad, e, v
    <3>1. ad \in Seq(Byte) /\ Unescape(s, ad) = v
      BY <1>9 DEF ad
    <3>2. Unescape(s, ad \o e) = Unescape(Unescape(s, ad), e)
      BY <1>6, <3>1, UnescapeSplit
    <3> QED
      BY <3>1, <3>2 DEF ad
  <2>2. Unescape(v, e) = Heard(v, ETX)
    BY <1>6, <1>8, UnescapeOne
  <2> QED
    BY <1>10, <2>1, <2>2
<1>12. Heard(v, ETX) = [dle |-> FALSE, done |-> TRUE, buf |-> out]
  <2> HIDE DEF v
  <2>1. v.dle /\ ~v.done /\ v.buf = out
    BY <1>8 DEF v
  <2>2. Heard(v, ETX) = [ dle |-> FALSE, done |-> ETX = ETX,
                          buf |-> IF ETX = DLE THEN Append(v.buf, DLE) ELSE v.buf ]
    BY <2>1, Zenon DEF Heard
  <2>3. ETX # DLE
    BY <1>6
  <2> QED
    BY <2>1, <2>2, <2>3
<1>13. Escaped[m] \in Seq(Byte) /\ Escaped[m] # << >>
  BY EscapedBytes
<1>14. ~Unescape(s, SubSeq(Escaped[m], 1, Len(Escaped[m]) - 1)).done
  <2> DEFINE ad == a \o d
  <2>1. Escaped[m] = Append(ad, ETX) /\ ad \in Seq(Byte)
    BY <1>6, <1>9, <1>10
  <2> HIDE DEF ad
  <2>2. SubSeq(Escaped[m], 1, Len(Escaped[m]) - 1) = ad
    BY <1>6, <2>1
  <2> QED
    BY <1>8, <1>9, <2>2 DEF ad
<1>15. Closes(s, Escaped[m], out)
  BY <1>11, <1>12, <1>13, <1>14 DEF Closes
<1> QED
  BY <1>5, <1>15

-----------------------------------------------------------------------------
(***************************************************************************)
(* The inductive invariant.  The records are typed field by field: an      *)
(* EXCEPT keeps the domain and changes the fields it names.                *)
(***************************************************************************)
CtxFields ==
  { "state", "prev", "countdown", "delayed", "dcount", "code", "dir", "mod", "dle",
    "frame", "done", "latch", "counter", "connect", "enabled", "ready", "closed",
    "lastNul", "cng", "quiet", "superCount", "superIdx" }

\* struct fax_class1 while a handler runs, when the delayed status may have
\* just been set.
Ctx(d) ==
  /\ DOMAIN d = CtxFields
  /\ d.state \in States /\ d.prev \in States /\ d.delayed \in Statuses
  /\ d.dcount \in 0..2 /\ d.code \in Codes \cup { 3 } /\ d.dir \in { "none", "rx", "tx" }
  /\ d.mod \in 0..2 /\ d.countdown \in Int /\ d.quiet \in Nat /\ d.counter \in 0..Train
  /\ d.connect \in -1..2 /\ d.superCount \in Int /\ d.superIdx \in Nat
  /\ d.dle \in BOOLEAN /\ d.done \in BOOLEAN /\ d.latch \in BOOLEAN
  /\ d.enabled \in BOOLEAN /\ d.ready \in BOOLEAN /\ d.closed \in BOOLEAN
  /\ d.lastNul \in BOOLEAN /\ d.cng \in BOOLEAN
  /\ d.frame \in Seq(Byte)

HostFields ==
  { "mode", "cmd", "count", "owes", "script", "sent", "aborted", "cut", "left", "stray" }
HostOK(h) ==
  /\ DOMAIN h = HostFields
  /\ h.mode \in { "command", "waiting", "online", "gone" } /\ h.cmd \in Commands
  /\ h.script \in Seq(Byte)

LineOK(l) ==
  /\ DOMAIN l = { "sig", "turns", "frames" }
  /\ l.sig \in { "silent", "v21", "tail", "data" }

FxOK(x) ==
  /\ DOMAIN x = { "want", "enable" } /\ x.enable \in BOOLEAN /\ x.want \in Int

Replies == { "", "OK", "ERROR", "CONNECT", "NO_CARRIER" }

\* The types of the session, the bytes on their way from the host included.
Typed ==
  /\ Ctx(c) /\ c.dcount \in 0..1
  /\ HostOK(host) /\ LineOK(line) /\ FxOK(fx) /\ reply \in Replies
  /\ tty \in Seq(Byte)

\* The data modem and its tx_fifo.
FifoOK(f) == f \in Seq(Byte) /\ Len(f) <= FifoSize
ModemOK ==
  /\ modem \in [dir : { "none", "rx", "tx" }, mod : 0..2]
  /\ modem.dir = "none" => modem = NoModem
  /\ saves \in Int
  /\ fifo # NoFifo => FifoOK(fifo)

\* A page has the rate code of its command, and starts with an empty tx_fifo.
PageOK ==
  /\ c.state \in DataTx => c.code \in Codes
  /\ c.state = "SILENCE_BEFORE_ONES" => fifo = << >>

SafeInv == Typed /\ ModemOK /\ ModemFits /\ RoomKept /\ PageOK

\* What the invariant says is what the runs check.
LEMMA SafeEnough == SafeInv => SessionInv
BY DEF SafeInv, Typed, ModemOK, SessionInv, TypeOK, Ctx, HostOK, LineOK, FxOK, Replies

\* A part of some bytes.
LEMMA PartOf ==
  ASSUME NEW s \in Seq(Byte), NEW i \in Nat \ { 0 }, NEW n \in Nat, n <= Len(s)
  PROVE  /\ SubSeq(s, i, n) \in Seq(Byte)
         /\ Len(SubSeq(s, i, n)) = IF i <= n THEN n - i + 1 ELSE 0
<1>1. \A k \in i..n : s[k] \in Byte
  OBVIOUS
<1> QED
  BY <1>1, SubSeqProperties

\* The bytes of a block: as many as the host was asked for and has written.
LEMMA TakenBytes ==
  ASSUME tty \in Seq(Byte), FxOK(fx)
  PROVE  /\ Asked \in Nat /\ Taken \in Seq(Byte) /\ Unread \in Seq(Byte)
         /\ Len(Taken) \in Nat /\ Len(Taken) <= Asked
<1>1. Asked \in Nat
  BY Sizes DEF Asked, FxOK
<1>2. Len(tty) \in Nat
  OBVIOUS
<1> DEFINE n == IF Asked < Len(tty) THEN Asked ELSE Len(tty)
<1>3. n \in Nat /\ n <= Asked /\ n <= Len(tty)
  BY <1>1, <1>2
<1>4. Taken = SubSeq(tty, 1, n)
  BY DEF Taken
<1> HIDE DEF n
<1>5. Taken \in Seq(Byte) /\ Len(Taken) = n
  BY <1>2, <1>3, <1>4
<1>6. Unread \in Seq(Byte)
  <2>1. n + 1 \in Nat
    BY <1>3
  <2>2. Unread = SubSeq(tty, n + 1, Len(tty))
    BY <1>5 DEF Unread
  <2>3. n + 1 \in Nat \ { 0 } /\ Len(tty) <= Len(tty)
    BY <1>2, <1>3
  <2> QED
    BY <1>2, <2>2, <2>3, PartOf
<1> QED
  BY <1>1, <1>3, <1>5, <1>6

\* The rest of a block keeps the types, whatever the handler did.
LEMMA BlockKeeps ==
  ASSUME Typed, host.mode # "gone", NEW d, Ctx(d), NEW st \in Statuses, NEW out,
         NEW want \in Int, Block(d, st, out, want)
  PROVE  /\ Ctx(c') /\ c'.dcount \in 0..1 /\ c'.state = d.state /\ c'.code = d.code
         /\ c'.dir = d.dir /\ c'.mod = d.mod /\ c'.closed = d.closed
         /\ HostOK(host') /\ host'.mode # "gone"
         /\ FxOK(fx') /\ fx'.want = want /\ reply' \in Replies /\ tty' \in Seq(Byte)
<1>1. PICK status : /\ status = IF d.dcount = 1 THEN d.delayed ELSE st
                    /\ c' = [d EXCEPT !.prev = d.state, !.dcount = IF @ > 0 THEN @ - 1 ELSE 0]
                    /\ fx' = [ want |-> want,
                         enable |-> status = "CONNECT" \/ (status = "NO_MESSAGE" /\ fx.enable) ]
                    /\ reply' = IF status \in { "NO_MESSAGE", "NO_REPLY" } THEN "" ELSE status
                    /\ HostHears(status)
  BY DEF Block
<1>2. /\ Ctx(c') /\ c'.dcount \in 0..1 /\ c'.state = d.state /\ c'.code = d.code
      /\ c'.dir = d.dir /\ c'.mod = d.mod /\ c'.closed = d.closed
  <2>1. c' = [d EXCEPT !.prev = d.state, !.dcount = IF d.dcount > 0 THEN d.dcount - 1 ELSE 0]
    BY <1>1
  <2> QED
    BY <2>1 DEF Ctx, CtxFields
<1>3. FxOK(fx') /\ fx'.want = want
  BY <1>1 DEF Typed, FxOK
<1>4. status \in Statuses
  BY <1>1 DEF Ctx
<1>5. reply' \in Replies
  BY <1>1, <1>4 DEF Replies, Statuses
<1>6. Unread \in Seq(Byte)
  BY TakenBytes DEF Typed
<1>7. tty' \in Seq(Byte)
  <2>1. tty' = Unread \/ tty' = << >>
    BY <1>1 DEF HostHears
  <2>2. << >> \in Seq(Byte)
    OBVIOUS
  <2> QED
    BY <1>6, <2>1, <2>2, Zenon
<1>8. HostOK(host') /\ host'.mode # "gone"
  <2> DEFINE o1 == host.cmd = "TH" \/ (host.cmd = "TM" /\ host.mode = "waiting")
             s1 == IF host.cmd = "TH" /\ (host.script # << >> \/ Unread # << >>)
                   THEN Front(host.sent) ELSE host.sent
  <2>1. \/ host' = host
        \/ host' = [host EXCEPT !.mode = "online", !.owes = o1]
        \/ host' = [host EXCEPT !.mode = "command", !.owes = FALSE,
                                !.script = << >>, !.sent = s1]
    BY <1>1, Zenon DEF HostHears
  <2> HIDE DEF o1, s1
  <2>2. << >> \in Seq(Byte) /\ HostOK(host)
    BY DEF Typed
  <2>3. CASE host' = [host EXCEPT !.mode = "online", !.owes = o1]
    BY <2>2, <2>3 DEF HostOK, HostFields
  <2>4. CASE host' = [host EXCEPT !.mode = "command", !.owes = FALSE,
                                  !.script = << >>, !.sent = s1]
    BY <2>2, <2>4 DEF HostOK, HostFields
  <2>5. CASE host' = host
    BY <2>2, <2>5
  <2> QED
    BY <2>1, <2>3, <2>4, <2>5
<1> QED
  BY <1>2, <1>3, <1>5, <1>7, <1>8

\* A step that leaves the data modem alone, and the code, the direction and
\* the modulation of the context with it.
LEMMA ModemKept ==
  ASSUME SafeInv, host.mode # "gone", UNCHANGED << modem, saves >>,
         (fifo' # NoFifo) = (fifo # NoFifo), c'.code = c.code, c'.dir = c.dir,
         c'.mod = c.mod, c'.state \in DataTx => c.state \in DataTx,
         c'.state \in DataRx => c.state \in DataRx
  PROVE  ModemFits'
BY DEF SafeInv, ModemFits, Held

\* A context of the same command as the current one, and with the same place
\* in the superframe.
SameModem(d) == Ctx(d) /\ d.code = c.code /\ d.dir = c.dir /\ d.mod = c.mod
SameCommand(d) == SameModem(d) /\ d.superIdx = c.superIdx

\* A step that neither receives nor banks nor gives the host a frame.
SameFrames ==
  /\ c'.superIdx = c.superIdx /\ UNCHANGED << super, line >>
  /\ got' = got \/ got' = got \o << >>

\* What a block does to the frames: only a host that listens gets one.
LEMMA BlockFrames ==
  ASSUME NEW d, Ctx(d), NEW st, NEW out, NEW want, Block(d, st, out, want)
  PROVE  c'.superIdx = d.superIdx /\ (got' = got \/ got' = got \o out)
<1>1. /\ c' = [d EXCEPT !.prev = d.state, !.dcount = IF d.dcount > 0 THEN d.dcount - 1 ELSE 0]
      /\ got' = IF fx.enable THEN got \o out ELSE got
  BY DEF Block
<1> QED
  BY <1>1 DEF Ctx, CtxFields

\* A step of a handler that has nothing to do with the data modem.
LEMMA BlockSafe ==
  ASSUME SafeInv, host.mode # "gone", NEW d, SameModem(d), NEW st \in Statuses, NEW out,
         NEW want \in Int, Block(d, st, out, want), UNCHANGED << modem, saves, fifo >>,
         LineOK(line'), d.state \notin DataTx, d.state \in DataRx => c.state \in DataRx
  PROVE  SafeInv'
<1>0. Ctx(d) /\ d.code = c.code /\ d.dir = c.dir /\ d.mod = c.mod
  BY DEF SameModem
<1>1. Typed
  BY DEF SafeInv
<1>2. /\ Ctx(c') /\ c'.dcount \in 0..1 /\ c'.state = d.state /\ c'.code = d.code
      /\ c'.dir = d.dir /\ c'.mod = d.mod /\ c'.closed = d.closed
      /\ HostOK(host') /\ host'.mode # "gone"
      /\ FxOK(fx') /\ fx'.want = want /\ reply' \in Replies /\ tty' \in Seq(Byte)
  BY <1>0, <1>1, BlockKeeps
<1>3. Typed'
  BY <1>2 DEF Typed
<1>4. ModemOK'
  BY DEF SafeInv, ModemOK, FifoOK
<1>5. ModemFits'
  BY <1>0, <1>2, ModemKept
<1>6. RoomKept' /\ PageOK'
  BY <1>2 DEF SafeInv, RoomKept, PageOK, DataTx
<1> QED
  BY <1>3, <1>4, <1>5, <1>6 DEF SafeInv

\* The same, of a handler that has nothing to do with the frames either.
LEMMA PlainKeeps ==
  ASSUME SafeInv, host.mode # "gone", NEW d, SameCommand(d), NEW st \in Statuses,
         NEW want \in Int, Block(d, st, << >>, want),
         UNCHANGED << modem, saves, fifo, super, line >>,
         LineOK(line'), d.state \notin DataTx, d.state \in DataRx => c.state \in DataRx
  PROVE  SafeInv' /\ SameFrames
<1>1. SameModem(d) /\ d.superIdx = c.superIdx
  BY DEF SameCommand
<1>2. SafeInv'
  BY <1>1, BlockSafe
<1>3. c'.superIdx = d.superIdx /\ (got' = got \/ got' = got \o << >>)
  BY <1>1, BlockFrames DEF SameModem
<1> QED
  BY <1>1, <1>2, <1>3 DEF SameFrames

\* What a handler finds when it starts.
LEMMA Found ==
  ASSUME SafeInv
  PROVE  /\ Typed /\ Ctx(c) /\ LineOK(line)
         /\ Asked \in Nat /\ Taken \in Seq(Byte) /\ Len(Taken) \in Nat /\ Len(Taken) <= Asked
BY TakenBytes DEF SafeInv, Typed

-----------------------------------------------------------------------------
(***************************************************************************)
(* The plain states of class1.c.                                           *)
(***************************************************************************)
LEMMA IdleKeeps == ASSUME SafeInv, Idle PROVE SafeInv' /\ SameFrames
<1>1. host.mode # "gone" /\ c.state = "IDLE" /\ Block(c, "NO_MESSAGE", << >>, Len(Taken))
  BY DEF Idle, Running
<1>2. UNCHANGED << modem, saves, fifo, super, line >>
  BY DEF Idle, lower
<1>3. SameCommand(c) /\ c.state \notin DataTx \cup DataRx
  BY <1>1, Found DEF SameCommand, SameModem, DataTx, DataRx
<1>4. "NO_MESSAGE" \in Statuses /\ Len(Taken) \in Int /\ LineOK(line')
  BY <1>2, Found DEF Statuses
<1> QED
  BY <1>1, <1>2, <1>3, <1>4, PlainKeeps

\* The answer tone moves the countdown only, then starts the preamble.
LEMMA AnswerToneKeeps == ASSUME SafeInv, AnswerToneState PROVE SafeInv' /\ SameFrames
<1> DEFINE d == IF c.countdown < AnswerTone THEN [c EXCEPT !.countdown = c.countdown + 1]
                ELSE PreambleInit(c)
<1>1. host.mode # "gone" /\ c.state = "ANSWER_TONE" /\ Block(d, "NO_MESSAGE", << >>, Len(Taken))
  BY DEF AnswerToneState, Running
<1>2. UNCHANGED << modem, saves, fifo, super, line >>
  BY DEF AnswerToneState, lower
<1>3. SameCommand(d) /\ d.state \notin DataTx \cup DataRx
  <2>1. CASE c.countdown < AnswerTone
    BY <1>1, <2>1, Found DEF SameCommand, SameModem, DataTx, DataRx, Ctx, CtxFields
  <2>2. CASE ~(c.countdown < AnswerTone)
    <3>1. d = PreambleInit(c)
      BY <2>2
    <3>2. SameCommand(PreambleInit(c)) /\ PreambleInit(c).state = "SILENCE_BEFORE_PREAMBLE"
      BY Found DEF SameCommand, SameModem, PreambleInit, Ctx, CtxFields, States, HdlcTx
    <3> QED
      BY <3>1, <3>2 DEF DataTx, DataRx
  <2> QED
    BY <2>1, <2>2
<1> HIDE DEF d
<1>4. "NO_MESSAGE" \in Statuses /\ Len(Taken) \in Int /\ LineOK(line')
  BY <1>2, Found DEF Statuses
<1> QED
  BY <1>1, <1>2, <1>3, <1>4, PlainKeeps

\* A FTS in progress counts down and touches nothing else.
LEMMA SendSilenceKeeps == ASSUME SafeInv, SendSilence PROVE SafeInv' /\ SameFrames
<1> DEFINE d == [c EXCEPT !.countdown = IF c.countdown >= 0 THEN c.countdown - 1 ELSE -1]
           st == IF c.countdown = 1 THEN "OK" ELSE "NO_MESSAGE"
<1>1. host.mode # "gone" /\ c.state = "SEND_SILENCE" /\ Block(d, st, << >>, Len(Taken))
  BY DEF SendSilence, Running
<1>2. UNCHANGED << modem, saves, fifo, super, line >>
  BY DEF SendSilence, lower
<1>3. SameCommand(d) /\ d.state \notin DataTx \cup DataRx
  BY <1>1, Found DEF SameCommand, SameModem, DataTx, DataRx, Ctx, CtxFields
<1>4. st \in Statuses /\ Len(Taken) \in Int /\ LineOK(line')
  BY <1>2, Found DEF Statuses
<1> HIDE DEF d, st
<1> QED
  BY <1>1, <1>2, <1>3, <1>4, PlainKeeps

\* A FRS in progress counts quiet blocks, or ends at a byte of the host.
LEMMA ReceiveSilenceKeeps == ASSUME SafeInv, ReceiveSilence PROVE SafeInv' /\ SameFrames
<1> DEFINE q == c.quiet + 1
           d == IF Taken # << >> THEN To(c, "IDLE")
                ELSE IF line.sig \in { "v21", "data" } THEN [c EXCEPT !.quiet = 0]
                ELSE IF q >= c.countdown THEN [To(c, "IDLE") EXCEPT !.quiet = q]
                ELSE [c EXCEPT !.quiet = q]
           st == IF Taken # << >> THEN "OK"
                 ELSE IF line.sig \in { "v21", "data" } THEN "NO_MESSAGE"
                 ELSE IF q >= c.countdown THEN "OK" ELSE "NO_MESSAGE"
           want == IF Taken # << >> THEN Len(Taken)
                   ELSE IF line.sig \in { "v21", "data" } THEN 5 ELSE 0
<1>1. host.mode # "gone" /\ c.state = "RECEIVE_SILENCE" /\ Block(d, st, << >>, want)
  BY Zenon DEF ReceiveSilence, Running
<1>2. UNCHANGED << modem, saves, fifo, super, line >>
  BY DEF ReceiveSilence, lower
<1>3. SameCommand(d) /\ d.state \notin DataTx \cup DataRx
  BY <1>1, Found DEF SameCommand, SameModem, DataTx, DataRx, Ctx, CtxFields, To, States
<1>4. st \in Statuses /\ want \in Int /\ LineOK(line')
  BY <1>2, Found DEF Statuses
<1> HIDE DEF d, st, want
<1> QED
  BY <1>1, <1>2, <1>3, <1>4, PlainKeeps

-----------------------------------------------------------------------------
(***************************************************************************)
(* cHDLCtx.c.                                                              *)
(***************************************************************************)
LEMMA SilenceBeforePreambleKeeps == ASSUME SafeInv, SilenceBeforePreamble PROVE SafeInv' /\ SameFrames
<1> DEFINE over == c.countdown >= SilenceBefore
           d == IF over THEN [To(c, "PREAMBLE") EXCEPT !.countdown = 1]
                ELSE [c EXCEPT !.countdown = c.countdown + 1]
           st == IF over THEN "CONNECT" ELSE "NO_MESSAGE"
<1>1. /\ host.mode # "gone" /\ c.state = "SILENCE_BEFORE_PREAMBLE"
      /\ Block(d, st, << >>, Len(Taken))
  BY DEF SilenceBeforePreamble, Running
<1>2. UNCHANGED << modem, saves, fifo, super, line >>
  BY DEF SilenceBeforePreamble, lower
<1> HIDE DEF over
<1>3. SameCommand(d) /\ d.state \notin DataTx \cup DataRx
  BY <1>1, Found DEF SameCommand, SameModem, DataTx, DataRx, Ctx, CtxFields, To, States, HdlcTx
<1>4. st \in Statuses /\ Len(Taken) \in Int /\ LineOK(line')
  BY <1>2, Found DEF Statuses
<1> HIDE DEF d, st
<1> QED
  BY <1>1, <1>2, <1>3, <1>4, PlainKeeps

\* _handle_hdlc_input changes what it reads of the frame, and nothing else.
LEMMA HdlcInputRight ==
  ASSUME NEW d, Ctx(d), NEW in \in Seq(Byte)
  PROVE  /\ Ctx(HdlcInput(d, in))
         /\ HdlcInput(d, in).state = d.state /\ HdlcInput(d, in).code = d.code
         /\ HdlcInput(d, in).dir = d.dir /\ HdlcInput(d, in).mod = d.mod
         /\ HdlcInput(d, in).countdown = d.countdown
         /\ HdlcInput(d, in).superIdx = d.superIdx
<1> DEFINE u == Unescape([dle |-> d.dle, done |-> FALSE, buf |-> d.frame], in)
           l == d.latch \/ (u.done /\ Final(u.buf))
<1>1. u.dle \in BOOLEAN /\ u.done \in BOOLEAN /\ u.buf \in Seq(Byte)
  <2>1. [dle |-> d.dle, done |-> FALSE, buf |-> d.frame] \in Ear
    BY DEF Ctx, Ear
  <2>2. u \in Ear
    BY <2>1, UnescapeRight
  <2> HIDE DEF u
  <2> QED
    BY <2>2 DEF Ear
<1>2. l \in BOOLEAN
  OBVIOUS
<1>3. HdlcInput(d, in) = [d EXCEPT !.dle = u.dle, !.frame = u.buf, !.done = u.done, !.latch = l]
  BY DEF HdlcInput
<1> HIDE DEF u, l
<1> QED
  BY <1>1, <1>2, <1>3 DEF Ctx, CtxFields

\* _t30_preabmle_state takes escaped bytes and may queue the first frame.
LEMMA PreambleKeeps == ASSUME SafeInv, Preamble PROVE SafeInv' /\ SameFrames
<1> DEFINE d == IF Taken # << >> THEN HdlcInput(c, Taken) ELSE c
           go == d.countdown >= PreambleMin /\ d.done
           late == d.countdown >= PreambleMax
           s == IF late THEN "IDLE" ELSE IF go THEN "SEND_HDLC" ELSE d.state
           e == [d EXCEPT !.countdown = d.countdown + 1, !.state = s]
           st == IF late THEN "ERROR" ELSE "NO_MESSAGE"
<1>1. host.mode # "gone" /\ c.state = "PREAMBLE"
  BY DEF Preamble, Running
<1>2. Block(e, st, << >>, HdlcWant)
  BY Zenon DEF Preamble
<1>3. UNCHANGED << modem, saves, fifo, super, line >>
  BY DEF Preamble
<1>4. SameCommand(d) /\ d.state = "PREAMBLE"
  BY <1>1, Found, HdlcInputRight DEF SameCommand, SameModem
<1>5. s \in { "IDLE", "SEND_HDLC", "PREAMBLE" }
  BY <1>4
<1> HIDE DEF d, s
<1>6. SameCommand(e) /\ e.state \notin DataTx \cup DataRx
  BY <1>4, <1>5 DEF SameCommand, SameModem, DataTx, DataRx, Ctx, CtxFields, States, HdlcTx
<1>7. st \in Statuses /\ HdlcWant \in Int /\ LineOK(line')
  BY <1>3, Found, Sizes DEF Statuses
<1> HIDE DEF e, st
<1> QED
  BY <1>1, <1>2, <1>3, <1>6, <1>7, PlainKeeps

\* _send_hdlc_buffer_state waits for the queue of the V.21 transmitter.
LEMMA SendHdlcBufferKeeps == ASSUME SafeInv, SendHdlcBuffer PROVE SafeInv' /\ SameFrames
<1> DEFINE d(b) == IF b THEN [Restart(c, "BETWEEN_TX") EXCEPT !.frame = << >>] ELSE c
<1>1. PICK b \in BOOLEAN : Block(d(b), "NO_MESSAGE", << >>, HdlcWant)
  BY DEF SendHdlcBuffer
<1>2. host.mode # "gone" /\ c.state = "SEND_HDLC"
  BY DEF SendHdlcBuffer, Running
<1>3. UNCHANGED << modem, saves, fifo, super, line >>
  BY DEF SendHdlcBuffer
<1>4. SameCommand(d(b)) /\ d(b).state \notin DataTx \cup DataRx
  BY <1>2, Found DEF SameCommand, SameModem, DataTx, DataRx, Ctx, CtxFields, Restart, States, HdlcTx
<1>5. "NO_MESSAGE" \in Statuses /\ HdlcWant \in Int /\ LineOK(line')
  BY <1>3, Found, Sizes DEF Statuses
<1> HIDE DEF d
<1> QED
  BY <1>1, <1>2, <1>3, <1>4, <1>5, PlainKeeps

\* _send_hdlc_between_buffer_state collects the next frame or gives up.
LEMMA SendHdlcBetweenKeeps == ASSUME SafeInv, SendHdlcBetween PROVE SafeInv' /\ SameFrames
<1> DEFINE d == IF Taken # << >> /\ c.countdown > 1 THEN HdlcInput(c, Taken)
                ELSE [c EXCEPT !.done = FALSE]
           over == c.countdown = 2 /\ c.latch
           late == c.countdown + 1 > HostLimit
           s == IF late THEN "IDLE" ELSE IF d.done THEN "SEND_HDLC"
                ELSE IF over THEN "IDLE" ELSE d.state
           e == [d EXCEPT !.countdown = d.countdown + 1, !.done = c.done, !.state = s]
           st == IF late THEN "ERROR" ELSE IF over THEN "OK"
                 ELSE IF c.countdown = 2 THEN "CONNECT" ELSE "NO_MESSAGE"
<1>1. host.mode # "gone" /\ c.state = "BETWEEN_TX"
  BY DEF SendHdlcBetween, Running
<1>2. Block(e, st, << >>, HdlcWant)
  BY Zenon DEF SendHdlcBetween
<1>3. UNCHANGED << modem, saves, fifo, super, line >>
  BY DEF SendHdlcBetween
<1>4. SameCommand(d) /\ d.state = "BETWEEN_TX"
  <2>1. CASE Taken # << >> /\ c.countdown > 1
    BY <1>1, <2>1, Found, HdlcInputRight DEF SameCommand, SameModem
  <2>2. CASE ~(Taken # << >> /\ c.countdown > 1)
    BY <1>1, <2>2, Found DEF SameCommand, SameModem, Ctx, CtxFields
  <2> QED
    BY <2>1, <2>2
<1>5. s \in { "IDLE", "SEND_HDLC", "BETWEEN_TX" } /\ c.done \in BOOLEAN
  BY <1>4, Found DEF Ctx
<1> HIDE DEF d, s
<1>6. SameCommand(e) /\ e.state \notin DataTx \cup DataRx
  BY <1>4, <1>5 DEF SameCommand, SameModem, DataTx, DataRx, Ctx, CtxFields, States, HdlcTx
<1>7. st \in Statuses /\ HdlcWant \in Int /\ LineOK(line')
  BY <1>3, Found, Sizes DEF Statuses
<1> HIDE DEF e, st
<1> QED
  BY <1>1, <1>2, <1>3, <1>6, <1>7, PlainKeeps

-----------------------------------------------------------------------------
(***************************************************************************)
(* The frames: every one has a number of its own, those of the superframe  *)
(* that are still to be given have not been given, and a new one is newer  *)
(* than all of them.                                                       *)
(***************************************************************************)
Frame == [id : Nat, good : BOOLEAN]

\* The host got g; s is banked, and read from i on; n frames have arrived.
Fresh(g, s, i, n) ==
  /\ g \in Seq(Frame) /\ s \in Seq(Frame) /\ i \in Nat /\ n \in Nat
  /\ \A k \in 1..Len(g) : g[k].id <= n
  /\ \A k \in 1..Len(s) : s[k].id <= n
  /\ \A k, j \in 1..Len(g) : k # j => g[k].id # g[j].id
  /\ \A k, j \in 1..Len(s) : k # j => s[k].id # s[j].id
  /\ \A k \in 1..Len(g), j \in 1..Len(s) : j > i => g[k].id # s[j].id

FramesInv == Fresh(got, super, c.superIdx, line.frames)

\* A frame behind others.
LEMMA OneMore ==
  ASSUME NEW s \in Seq(Frame), NEW f \in Frame
  PROVE  /\ s \o << f >> = Append(s, f) /\ Append(s, f) \in Seq(Frame)
         /\ Len(s) \in Nat /\ Len(Append(s, f)) = Len(s) + 1
         /\ \A k \in 1..Len(s) : Append(s, f)[k] = s[k] /\ s[k] \in Frame
         /\ Append(s, f)[Len(s) + 1] = f
OBVIOUS

\* The numbers of the frames.
LEMMA Numbers ==
  ASSUME NEW g, NEW s, NEW i, NEW n, Fresh(g, s, i, n)
  PROVE  /\ \A k \in 1..Len(g) : g[k].id \in Nat /\ g[k].id <= n
         /\ \A k \in 1..Len(s) : s[k].id \in Nat /\ s[k].id <= n
<1>1. /\ g \in Seq(Frame) /\ s \in Seq(Frame)
      /\ \A k \in 1..Len(g) : g[k].id <= n
      /\ \A k \in 1..Len(s) : s[k].id <= n
  BY DEF Fresh
<1>2. /\ \A k \in 1..Len(g) : g[k] \in Frame
      /\ \A k \in 1..Len(s) : s[k] \in Frame
  BY <1>1
<1>3. \A f \in Frame : f.id \in Nat
  BY DEF Frame
<1> QED
  BY <1>1, <1>2, <1>3

\* A frame that arrives and goes to the host.
LEMMA FreshGot ==
  ASSUME NEW g, NEW s, NEW i, NEW n, Fresh(g, s, i, n), NEW f \in Frame, f.id = n + 1
  PROVE  Fresh(Append(g, f), s, i, n + 1)
<1>1. g \in Seq(Frame) /\ s \in Seq(Frame) /\ i \in Nat /\ n \in Nat /\ n + 1 \in Nat
  BY DEF Fresh
<1> DEFINE h == Append(g, f)
<1>2. /\ h \in Seq(Frame) /\ Len(g) \in Nat /\ Len(h) = Len(g) + 1
      /\ \A k \in 1..Len(g) : h[k] = g[k] /\ g[k] \in Frame
      /\ h[Len(g) + 1] = f
  BY <1>1, OneMore
<1> HIDE DEF h
<1>3. \A k \in 1..Len(h) : k \in 1..Len(g) \/ k = Len(g) + 1
  BY <1>2
<1>4. \A k \in 1..Len(g) : g[k].id \in Nat /\ g[k].id <= n
  BY Numbers
<1>5. \A k \in 1..Len(s) : s[k].id \in Nat /\ s[k].id <= n
  BY Numbers
<1>6. \A k \in 1..Len(h) : h[k].id <= n + 1
  BY <1>1, <1>2, <1>3, <1>4
<1>7. \A k, j \in 1..Len(h) : k # j => h[k].id # h[j].id
  <2> SUFFICES ASSUME NEW k \in 1..Len(h), NEW j \in 1..Len(h), k # j
               PROVE  h[k].id # h[j].id
    OBVIOUS
  <2>1. CASE k \in 1..Len(g) /\ j \in 1..Len(g)
    BY <1>2, <2>1 DEF Fresh
  <2>2. CASE k = Len(g) + 1 /\ j \in 1..Len(g)
    BY <1>1, <1>2, <1>4, <2>2
  <2>3. CASE k \in 1..Len(g) /\ j = Len(g) + 1
    BY <1>1, <1>2, <1>4, <2>3
  <2> QED
    BY <1>3, <2>1, <2>2, <2>3
<1>8. \A k \in 1..Len(h), j \in 1..Len(s) : j > i => h[k].id # s[j].id
  <2> SUFFICES ASSUME NEW k \in 1..Len(h), NEW j \in 1..Len(s), j > i
               PROVE  h[k].id # s[j].id
    OBVIOUS
  <2>1. CASE k \in 1..Len(g)
    BY <1>2, <2>1 DEF Fresh
  <2>2. CASE k = Len(g) + 1
    BY <1>1, <1>2, <1>5, <2>2
  <2> QED
    BY <1>3, <2>1, <2>2
<1>9. \A k \in 1..Len(s) : s[k].id <= n + 1
  BY <1>1, <1>5
<1>10. \A k, j \in 1..Len(s) : k # j => s[k].id # s[j].id
  BY DEF Fresh
<1> QED
  BY <1>1, <1>2, <1>6, <1>7, <1>8, <1>9, <1>10 DEF Fresh, h

\* A frame that arrives and goes nowhere.
LEMMA FreshLost ==
  ASSUME NEW g, NEW s, NEW i, NEW n, Fresh(g, s, i, n)
  PROVE  Fresh(g, s, i, n + 1)
<1>1. g \in Seq(Frame) /\ s \in Seq(Frame) /\ i \in Nat /\ n \in Nat /\ n + 1 \in Nat
  BY DEF Fresh
<1>2. \A k \in 1..Len(g) : g[k].id \in Nat /\ g[k].id <= n
  BY Numbers
<1>3. \A k \in 1..Len(s) : s[k].id \in Nat /\ s[k].id <= n
  BY Numbers
<1>4. /\ \A k \in 1..Len(g) : g[k].id <= n + 1
      /\ \A k \in 1..Len(s) : s[k].id <= n + 1
  BY <1>1, <1>2, <1>3
<1> QED
  BY <1>1, <1>4 DEF Fresh

\* A frame that arrives and is banked.
LEMMA FreshBanked ==
  ASSUME NEW g, NEW s, NEW i, NEW n, Fresh(g, s, i, n), NEW f \in Frame, f.id = n + 1
  PROVE  Fresh(g, Append(s, f), i, n + 1)
<1>1. g \in Seq(Frame) /\ s \in Seq(Frame) /\ i \in Nat /\ n \in Nat /\ n + 1 \in Nat
  BY DEF Fresh
<1> DEFINE h == Append(s, f)
<1>2. /\ h \in Seq(Frame) /\ Len(s) \in Nat /\ Len(h) = Len(s) + 1
      /\ \A k \in 1..Len(s) : h[k] = s[k] /\ s[k] \in Frame
      /\ h[Len(s) + 1] = f
  BY <1>1, OneMore
<1> HIDE DEF h
<1>3. \A k \in 1..Len(h) : k \in 1..Len(s) \/ k = Len(s) + 1
  BY <1>2
<1>4. \A k \in 1..Len(s) : s[k].id \in Nat /\ s[k].id <= n
  BY Numbers
<1>5. \A k \in 1..Len(g) : g[k].id \in Nat /\ g[k].id <= n
  BY Numbers
<1>6. \A k \in 1..Len(h) : h[k].id <= n + 1
  BY <1>1, <1>2, <1>3, <1>4
<1>7. \A k, j \in 1..Len(h) : k # j => h[k].id # h[j].id
  <2> SUFFICES ASSUME NEW k \in 1..Len(h), NEW j \in 1..Len(h), k # j
               PROVE  h[k].id # h[j].id
    OBVIOUS
  <2>1. CASE k \in 1..Len(s) /\ j \in 1..Len(s)
    BY <1>2, <2>1 DEF Fresh
  <2>2. CASE k = Len(s) + 1 /\ j \in 1..Len(s)
    BY <1>1, <1>2, <1>4, <2>2
  <2>3. CASE k \in 1..Len(s) /\ j = Len(s) + 1
    BY <1>1, <1>2, <1>4, <2>3
  <2> QED
    BY <1>3, <2>1, <2>2, <2>3
<1>8. \A k \in 1..Len(g), j \in 1..Len(h) : j > i => g[k].id # h[j].id
  <2> SUFFICES ASSUME NEW k \in 1..Len(g), NEW j \in 1..Len(h), j > i
               PROVE  g[k].id # h[j].id
    OBVIOUS
  <2>1. CASE j \in 1..Len(s)
    BY <1>2, <2>1 DEF Fresh
  <2>2. CASE j = Len(s) + 1
    BY <1>1, <1>2, <1>5, <2>2
  <2> QED
    BY <1>3, <2>1, <2>2
<1>9. \A k \in 1..Len(g) : g[k].id <= n + 1
  BY <1>1, <1>5
<1>10. \A k, j \in 1..Len(g) : k # j => g[k].id # g[j].id
  BY DEF Fresh
<1> QED
  BY <1>1, <1>2, <1>6, <1>7, <1>8, <1>9, <1>10 DEF Fresh, h

\* The next frame of the superframe is passed over, or given to the host.
LEMMA FreshSkipped ==
  ASSUME NEW g, NEW s, NEW i, NEW n, Fresh(g, s, i, n)
  PROVE  Fresh(g, s, i + 1, n)
<1>1. i \in Nat /\ i + 1 \in Nat
  BY DEF Fresh
<1>2. \A k \in 1..Len(g), j \in 1..Len(s) : j > i + 1 => g[k].id # s[j].id
  <2> SUFFICES ASSUME NEW k \in 1..Len(g), NEW j \in 1..Len(s), j > i + 1
               PROVE  g[k].id # s[j].id
    OBVIOUS
  <2>1. j > i
    BY <1>1
  <2> QED
    BY <2>1 DEF Fresh
<1> QED
  BY <1>1, <1>2 DEF Fresh

\* Giving the host the next frame of the bank keeps the numbering fresh.
LEMMA FreshGiven ==
  ASSUME NEW g, NEW s, NEW i, NEW n, Fresh(g, s, i, n), i < Len(s)
  PROVE  Fresh(Append(g, s[i + 1]), s, i + 1, n)
<1>1. g \in Seq(Frame) /\ s \in Seq(Frame) /\ i \in Nat /\ n \in Nat /\ Len(s) \in Nat
  BY DEF Fresh
<1>2. i + 1 \in 1..Len(s) /\ i + 1 > i /\ i + 1 \in Nat
  BY <1>1
<1> DEFINE f == s[i + 1]
           h == Append(g, f)
<1>3. f \in Frame
  BY <1>1, <1>2
<1>4. f.id <= n /\ (\A k \in 1..Len(g) : g[k].id # f.id)
  BY <1>2 DEF Fresh
<1>5. \A j \in 1..Len(s) : j > i + 1 => f.id # s[j].id
  <2> SUFFICES ASSUME NEW j \in 1..Len(s), j > i + 1 PROVE f.id # s[j].id
    OBVIOUS
  <2>1. j # i + 1
    BY <1>1
  <2> QED
    BY <1>2, <2>1 DEF Fresh
<1> HIDE DEF f
<1>6. /\ h \in Seq(Frame) /\ Len(g) \in Nat /\ Len(h) = Len(g) + 1
      /\ \A k \in 1..Len(g) : h[k] = g[k] /\ g[k] \in Frame
      /\ h[Len(g) + 1] = f
  BY <1>1, <1>3, OneMore
<1> HIDE DEF h
<1>7. \A k \in 1..Len(h) : k \in 1..Len(g) \/ k = Len(g) + 1
  BY <1>6
<1>8. \A k \in 1..Len(h) : h[k].id <= n
  BY <1>4, <1>6, <1>7 DEF Fresh
<1>9. \A k, j \in 1..Len(h) : k # j => h[k].id # h[j].id
  <2> SUFFICES ASSUME NEW k \in 1..Len(h), NEW j \in 1..Len(h), k # j
               PROVE  h[k].id # h[j].id
    OBVIOUS
  <2>1. CASE k \in 1..Len(g) /\ j \in 1..Len(g)
    BY <1>6, <2>1 DEF Fresh
  <2>2. CASE k = Len(g) + 1 /\ j \in 1..Len(g)
    BY <1>4, <1>6, <2>2
  <2>3. CASE k \in 1..Len(g) /\ j = Len(g) + 1
    BY <1>4, <1>6, <2>3
  <2> QED
    BY <1>7, <2>1, <2>2, <2>3
<1>10. \A k \in 1..Len(h), j \in 1..Len(s) : j > i + 1 => h[k].id # s[j].id
  <2> SUFFICES ASSUME NEW k \in 1..Len(h), NEW j \in 1..Len(s), j > i + 1
               PROVE  h[k].id # s[j].id
    OBVIOUS
  <2>1. j > i
    BY <1>1
  <2>2. CASE k \in 1..Len(g)
    BY <1>6, <2>1, <2>2 DEF Fresh
  <2>3. CASE k = Len(g) + 1
    BY <1>5, <1>6, <2>3
  <2> QED
    BY <1>7, <2>2, <2>3
<1>11. /\ \A k \in 1..Len(s) : s[k].id <= n
       /\ \A k, j \in 1..Len(s) : k # j => s[k].id # s[j].id
  BY DEF Fresh
<1> QED
  BY <1>1, <1>2, <1>6, <1>8, <1>9, <1>10, <1>11 DEF Fresh, h, f

\* The superframe is emptied.
LEMMA FreshEmptied ==
  ASSUME NEW g, NEW s, NEW i, NEW n, Fresh(g, s, i, n), NEW j \in Nat
  PROVE  Fresh(g, << >>, j, n)
<1>1. << >> \in Seq(Frame) /\ Len(<< >>) = 0
  OBVIOUS
<1>2. \A k \in 1..Len(<< >>) : FALSE
  BY <1>1
<1> QED
  BY <1>1, <1>2 DEF Fresh

-----------------------------------------------------------------------------
(***************************************************************************)
(* cHDLCrx.c and cDATArx.c.                                                *)
(***************************************************************************)

\* A frame that arrives is one more of the line.
LEMMA ArriveKeeps ==
  ASSUME NEW f, LineOK(line), Arrive(f)
  PROVE  LineOK(line')
<1>1. line' = line \/ line' = [line EXCEPT !.frames = f.id]
  BY Zenon DEF Arrive
<1> QED
  BY <1>1 DEF LineOK

\* It has the next number.
LEMMA ArrivalNew ==
  ASSUME NEW f \in Arrivals, LineOK(line), line.frames \in Nat, Arrive(f)
  PROVE  /\ f \in Frame
         /\ f = NoFrame => ~f.good /\ line'.frames = line.frames
         /\ f # NoFrame => f.id = line.frames + 1 /\ line'.frames = line.frames + 1
<1>1. f = NoFrame \/ \E b \in BOOLEAN : f = [id |-> line.frames + 1, good |-> b]
  BY DEF Arrivals
<1>2. CASE f = NoFrame
  <2>1. f \in Frame /\ ~f.good
    BY <1>2 DEF NoFrame, Frame
  <2>2. line' = line
    BY <1>2 DEF Arrive
  <2> QED
    BY <1>2, <2>1, <2>2
<1>3. CASE f # NoFrame
  <2>1. f \in Frame /\ f.id = line.frames + 1
    BY <1>1, <1>3 DEF Frame
  <2>2. line' = [line EXCEPT !.frames = f.id]
    BY <1>3 DEF Arrive
  <2>3. line'.frames = f.id
    BY <2>2 DEF LineOK
  <2> QED
    BY <1>3, <2>1, <2>3
<1> QED
  BY <1>2, <1>3

\* What stays of the frames when none comes or goes.
LEMMA NothingMore ==
  ASSUME FramesInv, got' = got \/ got' = got \o << >>
  PROVE  got' = got
<1>1. got \in Seq(Frame)
  BY DEF FramesInv, Fresh
<1> QED
  BY <1>1, ConcatEmptySeq

\* The handlers' ways to change the state.
LEMMA Changes ==
  ASSUME NEW d, SameCommand(d), NEW s \in States, NEW st \in Statuses
  PROVE  /\ SameCommand(To(d, s)) /\ To(d, s).state = s
         /\ SameCommand(Restart(d, s)) /\ Restart(d, s).state = s
         /\ SameCommand(Delay(d, st)) /\ Delay(d, st).state = d.state
BY DEF SameCommand, SameModem, To, Restart, Delay, Ctx, CtxFields

\* _hdlc_receive_look_carrier_state waits for the V.21 carrier and takes no frame.
LEMMA LookHdlcKeeps == ASSUME SafeInv, LookHdlc PROVE SafeInv' /\ SameFrames
<1> DEFINE late == S7 # 0 /\ c.countdown + 1 > S7 /\ ~c.cng
           n == IF c.countdown <= S7 THEN c.countdown + 1 ELSE c.countdown
           d == IF Carrier THEN [Restart(c, "RECEIVE_HDLC") EXCEPT !.cng = FALSE]
                ELSE [c EXCEPT !.state = IF late THEN "IDLE" ELSE c.state, !.countdown = n]
           e == IF Taken # << >> THEN To(d, "IDLE") ELSE d
           st == IF Taken # << >> THEN "OK" ELSE IF Carrier THEN "CONNECT"
                 ELSE IF late THEN "NO_CARRIER" ELSE "NO_MESSAGE"
<1>1. host.mode # "gone" /\ c.state = "LOOK_HDLC"
  BY DEF LookHdlc, Running
<1>2. Block(e, st, << >>, 5)
  BY Zenon DEF LookHdlc
<1>3. UNCHANGED << modem, saves, fifo, super, line >>
  BY DEF LookHdlc, lower
<1>4. n \in Int
  BY Found DEF Ctx
<1> HIDE DEF n, late
<1>5. SameCommand(d) /\ d.state \in { "RECEIVE_HDLC", "IDLE", "LOOK_HDLC" }
  <2>1. CASE Carrier
    BY <1>1, <2>1, Found DEF SameCommand, SameModem, Restart, Ctx, CtxFields, States, HdlcRx
  <2>2. CASE ~Carrier
    BY <1>1, <1>4, <2>2, Found DEF SameCommand, SameModem, Ctx, CtxFields, States, HdlcRx
  <2> QED
    BY <2>1, <2>2
<1>6. "IDLE" \in States /\ "OK" \in Statuses
  BY DEF States, Statuses
<1> HIDE DEF d
<1>7. SameCommand(e) /\ e.state \in { "RECEIVE_HDLC", "IDLE", "LOOK_HDLC" }
  BY <1>5, <1>6, Changes
<1>8. e.state \notin DataTx \cup DataRx /\ st \in Statuses /\ LineOK(line')
  BY <1>3, <1>7, Found DEF Statuses, DataTx, DataRx
<1> HIDE DEF e, st
<1> QED
  BY <1>1, <1>2, <1>3, <1>7, <1>8, PlainKeeps

\* _hdlc_receive_state passes a frame that has just come, or delays its status.
LEMMA HdlcReceiveKeeps == ASSUME SafeInv, FramesInv, HdlcReceive PROVE SafeInv' /\ FramesInv'
<1> DEFINE d1 == IF Carrier THEN c ELSE Delay(To(c, "IDLE"), "NO_CARRIER")
           d2(f) == IF f = NoFrame THEN d1
                    ELSE Delay(To(d1, "BETWEEN_RX"), IF f.good THEN "OK" ELSE "ERROR")
           e(f) == IF Taken # << >> THEN To(d2(f), "IDLE") ELSE d2(f)
           st == IF Taken # << >> THEN "OK"
                 ELSE IF c.prev = "BETWEEN_RX" THEN "CONNECT" ELSE "NO_MESSAGE"
           out(f) == IF Taken # << >> THEN << >> ELSE IF f.good THEN << f >> ELSE << >>
<1>1. host.mode # "gone" /\ c.state = "RECEIVE_HDLC"
  BY DEF HdlcReceive, Running
<1>2. PICK f \in Arrivals : Block(e(f), st, out(f), 5) /\ Arrive(f)
  BY Zenon DEF HdlcReceive
<1>3. UNCHANGED << modem, saves, fifo, super >> /\ LineOK(line')
  BY <1>2, Found, ArriveKeeps DEF HdlcReceive, lower
<1>4. /\ "IDLE" \in States /\ "BETWEEN_RX" \in States /\ "OK" \in Statuses
      /\ "ERROR" \in Statuses /\ "NO_CARRIER" \in Statuses
  BY DEF States, Statuses, HdlcRx
<1>5. SameCommand(c)
  BY Found DEF SameCommand, SameModem
<1>6. SameCommand(d1) /\ d1.state \in { "RECEIVE_HDLC", "IDLE" }
  <2> DEFINE b == To(c, "IDLE")
  <2>1. SameCommand(b) /\ b.state = "IDLE"
    BY <1>4, <1>5, Changes
  <2>2. d1 = c \/ d1 = Delay(b, "NO_CARRIER")
    OBVIOUS
  <2> HIDE DEF b, d1
  <2>3. SameCommand(Delay(b, "NO_CARRIER")) /\ Delay(b, "NO_CARRIER").state = "IDLE"
    BY <1>4, <2>1, Changes
  <2> QED
    BY <1>1, <1>5, <2>2, <2>3
<1> HIDE DEF d1
<1>7. SameCommand(d2(f)) /\ d2(f).state \in { "RECEIVE_HDLC", "IDLE", "BETWEEN_RX" }
  <2> DEFINE s == IF f.good THEN "OK" ELSE "ERROR"
             b == To(d1, "BETWEEN_RX")
  <2>1. s \in Statuses
    BY <1>4
  <2>2. SameCommand(b) /\ b.state = "BETWEEN_RX"
    BY <1>4, <1>6, Changes
  <2>3. d2(f) = d1 \/ d2(f) = Delay(b, s)
    OBVIOUS
  <2> HIDE DEF s, b
  <2>4. SameCommand(Delay(b, s)) /\ Delay(b, s).state = "BETWEEN_RX"
    BY <1>4, <2>1, <2>2, Changes
  <2> HIDE DEF d2
  <2> QED
    BY <1>6, <2>3, <2>4
<1> HIDE DEF d2
<1>8. SameCommand(e(f)) /\ e(f).state \in { "RECEIVE_HDLC", "IDLE", "BETWEEN_RX" }
  BY <1>4, <1>7, Changes
<1> HIDE DEF e
<1>9. e(f).state \notin DataTx \cup DataRx /\ st \in Statuses
  BY <1>8 DEF Statuses, DataTx, DataRx
<1> HIDE DEF st, out
<1>10. SafeInv'
  BY <1>1, <1>2, <1>3, <1>8, <1>9, BlockSafe DEF SameCommand
<1>11. c'.superIdx = c.superIdx /\ (got' = got \/ got' = got \o out(f))
  BY <1>2, <1>8, BlockFrames DEF SameCommand, SameModem
<1> DEFINE n == line.frames
<1>12. /\ Fresh(got, super, c.superIdx, n) /\ n \in Nat /\ got \in Seq(Frame)
  BY DEF FramesInv, Fresh
<1>13. /\ f \in Frame
       /\ f = NoFrame => ~f.good /\ line'.frames = n
       /\ f # NoFrame => f.id = n + 1 /\ line'.frames = n + 1
  BY <1>2, <1>12, Found, ArrivalNew
<1> HIDE DEF n
<1>14. out(f) = << >> \/ (out(f) = << f >> /\ f.good)
  BY DEF out
<1>15. got' = got \/ (got' = Append(got, f) /\ f # NoFrame)
  <2>1. got \o << f >> = Append(got, f)
    BY <1>12, <1>13, OneMore
  <2>2. out(f) = << >> => got' = got
    BY <1>11, NothingMore
  <2> QED
    BY <1>11, <1>13, <1>14, <2>1, <2>2
<1>16. Fresh(got', super, c.superIdx, line'.frames)
  <2>1. Fresh(got, super, c.superIdx, n + 1)
    BY <1>12, FreshLost
  <2>2. f # NoFrame => Fresh(Append(got, f), super, c.superIdx, n + 1)
    BY <1>12, <1>13, FreshGot
  <2> QED
    BY <1>12, <1>13, <1>15, <2>1, <2>2
<1> QED
  BY <1>3, <1>10, <1>11, <1>16 DEF FramesInv

\* _hdlc_receive_between_buffers_state banks what comes between two commands.
LEMMA HdlcReceiveBetweenKeeps ==
  ASSUME SafeInv, FramesInv, HdlcReceiveBetween PROVE SafeInv' /\ FramesInv'
<1> DEFINE d == IF Carrier THEN c ELSE To(c, "IDLE")
           e == IF Taken # << >> THEN To(d, "IDLE") ELSE d
           st == IF Taken # << >> THEN "OK" ELSE IF Carrier THEN "NO_MESSAGE" ELSE "NO_REPLY"
<1>1. host.mode # "gone" /\ c.state = "BETWEEN_RX"
  BY DEF HdlcReceiveBetween, Running
<1>2. PICK f \in Arrivals :
        /\ Block(e, st, << >>, 5) /\ Arrive(f)
        /\ super' = IF f # NoFrame /\ Elements(Append(super, f)) <= SuperSize
                    THEN Append(super, f) ELSE super
  BY Zenon DEF HdlcReceiveBetween
<1>3. UNCHANGED << modem, saves, fifo >> /\ LineOK(line')
  BY <1>2, Found, ArriveKeeps DEF HdlcReceiveBetween, lower
<1>4. "IDLE" \in States /\ "OK" \in Statuses
  BY DEF States, Statuses
<1>5. SameCommand(c)
  BY Found DEF SameCommand, SameModem
<1>6. SameCommand(d) /\ d.state \in { "BETWEEN_RX", "IDLE" }
  BY <1>1, <1>4, <1>5, Changes
<1> HIDE DEF d
<1>7. SameCommand(e) /\ e.state \in { "BETWEEN_RX", "IDLE" }
  BY <1>4, <1>6, Changes
<1> HIDE DEF e
<1>8. e.state \notin DataTx \cup DataRx /\ st \in Statuses
  BY <1>7 DEF Statuses, DataTx, DataRx
<1> HIDE DEF st
<1>9. SafeInv'
  BY <1>1, <1>2, <1>3, <1>7, <1>8, BlockSafe DEF SameCommand
<1>10. c'.superIdx = c.superIdx /\ (got' = got \/ got' = got \o << >>)
  BY <1>2, <1>7, BlockFrames DEF SameCommand, SameModem
<1>11. got' = got
  BY <1>10, NothingMore
<1> DEFINE n == line.frames
<1>12. /\ Fresh(got, super, c.superIdx, n) /\ n \in Nat
  BY DEF FramesInv, Fresh
<1>13. /\ f \in Frame
       /\ f = NoFrame => line'.frames = n
       /\ f # NoFrame => f.id = n + 1 /\ line'.frames = n + 1
  BY <1>2, <1>12, Found, ArrivalNew
<1> HIDE DEF n
<1>14. super' = super \/ (super' = Append(super, f) /\ f # NoFrame)
  BY <1>2
<1>15. Fresh(got, super', c.superIdx, line'.frames)
  <2>1. Fresh(got, super, c.superIdx, n + 1)
    BY <1>12, FreshLost
  <2>2. f # NoFrame => Fresh(got, Append(super, f), c.superIdx, n + 1)
    BY <1>12, <1>13, FreshBanked
  <2> QED
    BY <1>12, <1>13, <1>14, <2>1, <2>2
<1> QED
  BY <1>9, <1>10, <1>11, <1>15 DEF FramesInv

\* _hdlc_emulate_receive_state gives a banked frame and moves the index past it.
LEMMA HdlcEmulateKeeps == ASSUME SafeInv, FramesInv, HdlcEmulate PROVE SafeInv' /\ FramesInv'
<1> DEFINE n == Len(super)
           due == c.superCount <= 0
           give == due /\ c.superIdx < n
           next == IF give THEN c.superIdx + 1 ELSE c.superIdx
           d == IF give THEN [Delay(To(c, "IDLE"), "OK") EXCEPT !.superIdx = next]
                ELSE IF due THEN To(c, "IDLE") ELSE c
           e == [d EXCEPT !.superCount = IF next = n THEN 2 ELSE d.superCount - 1,
                          !.superIdx = IF next = n THEN 0 ELSE d.superIdx]
           st == IF due /\ ~give THEN "NO_REPLY"
                 ELSE IF c.prev # "EMULATE" /\ c.superIdx < n THEN "CONNECT" ELSE "NO_MESSAGE"
           out == IF give THEN << super[next] >> ELSE << >>
<1>1. host.mode # "gone" /\ c.state = "EMULATE"
  BY DEF HdlcEmulate, Running
<1>2. Block(e, st, out, Len(Taken))
  BY Zenon DEF HdlcEmulate
<1>3. UNCHANGED << modem, saves, fifo, line >>
  BY DEF HdlcEmulate, lower
<1>4. "IDLE" \in States /\ "OK" \in Statuses
  BY DEF States, Statuses
<1>5. SameCommand(c)
  BY Found DEF SameCommand, SameModem
<1>6. SameCommand(To(c, "IDLE")) /\ To(c, "IDLE").state = "IDLE"
  BY <1>4, <1>5, Changes
<1>7. /\ SameCommand(Delay(To(c, "IDLE"), "OK"))
      /\ Delay(To(c, "IDLE"), "OK").state = "IDLE"
  BY <1>4, <1>6, Changes
<1>8. /\ next \in Nat /\ c.superIdx \in Nat
      /\ (give /\ next = c.superIdx + 1 /\ c.superIdx < n) \/ (~give /\ next = c.superIdx)
  BY Found DEF Ctx
<1> HIDE DEF next, give, due
<1>9. SameModem(d) /\ d.state \in { "EMULATE", "IDLE" } /\ d.superIdx = next
  <2>1. CASE give
    BY <1>7, <1>8, <2>1 DEF SameCommand, SameModem, Ctx, CtxFields
  <2>2. CASE ~give
    BY <1>1, <1>5, <1>6, <1>8, <2>2 DEF SameCommand
  <2> QED
    BY <2>1, <2>2
<1> HIDE DEF d
<1>10. /\ SameModem(e) /\ e.state \in { "EMULATE", "IDLE" }
       /\ e.superIdx = IF next = n THEN 0 ELSE next
  BY <1>8, <1>9 DEF SameModem, Ctx, CtxFields
<1> HIDE DEF e
<1>11. e.state \notin DataTx \cup DataRx /\ st \in Statuses
  BY <1>10 DEF Statuses, DataTx, DataRx
<1>12. Len(Taken) \in Int /\ LineOK(line')
  BY <1>3, Found
<1> HIDE DEF st
<1>13. SafeInv'
  BY <1>1, <1>2, <1>3, <1>10, <1>11, <1>12, BlockSafe
<1>14. c'.superIdx = e.superIdx /\ (got' = got \/ got' = got \o out)
  BY <1>2, <1>10, BlockFrames DEF SameModem
<1>15. super' = IF next = n THEN << >> ELSE super
  BY DEF HdlcEmulate, next, give, due
<1>16. Fresh(got, super, c.superIdx, line.frames) /\ super \in Seq(Frame) /\ got \in Seq(Frame)
  BY DEF FramesInv, Fresh
<1>17. Fresh(got', super, next, line.frames)
  <2>1. CASE give
    <3>1. super[next] \in Frame
      BY <1>8, <1>16, <2>1
    <3>2. got' = got \/ got' = Append(got, super[next])
      BY <1>14, <1>16, <2>1, <3>1, OneMore
    <3>3. Fresh(got, super, next, line.frames)
      BY <1>8, <1>16, <2>1, FreshSkipped
    <3>4. Fresh(Append(got, super[next]), super, next, line.frames)
      BY <1>8, <1>16, <2>1, FreshGiven
    <3> QED
      BY <3>2, <3>3, <3>4
  <2>2. CASE ~give
    <3>1. got' = got
      BY <1>14, <2>2, NothingMore
    <3> QED
      BY <1>8, <1>16, <2>2, <3>1
  <2> QED
    BY <2>1, <2>2
<1>18. Fresh(got', super', c'.superIdx, line'.frames)
  <2>1. CASE next = n
    <3>1. Fresh(got', << >>, 0, line.frames)
      BY <1>17, FreshEmptied
    <3> QED
      BY <1>3, <1>10, <1>14, <1>15, <2>1, <3>1
  <2>2. CASE next # n
    BY <1>3, <1>10, <1>14, <1>15, <1>17, <2>2
  <2> QED
    BY <2>1, <2>2
<1> QED
  BY <1>13, <1>18 DEF FramesInv

\* _rx_look_carrier_state waits for the carrier of the page.
LEMMA RxLookKeeps == ASSUME SafeInv, RxLookCarrier PROVE SafeInv' /\ SameFrames
<1> DEFINE k == IF c.countdown <= S7 THEN c.countdown + 1 ELSE c.countdown
           n == [c EXCEPT !.countdown = k]
           d(up) == IF Carrier THEN Restart(n, "RECEIVE_HDLC")
                    ELSE IF up THEN To(n, "RX_DATA") ELSE n
           late(up) == S7 # 0 /\ d(up).countdown > S7 /\ ~(line.sig = "data")
           e(up) == IF Taken # << >> \/ late(up) THEN To(d(up), "IDLE") ELSE d(up)
           st(up) == IF Taken # << >> THEN "OK" ELSE IF late(up) THEN "NO_CARRIER"
                     ELSE IF up THEN "CONNECT" ELSE IF Carrier THEN "NO_REPLY" ELSE "NO_MESSAGE"
<1>1. host.mode # "gone" /\ c.state = "RX_LOOK"
  BY DEF RxLookCarrier, Running
<1>2. PICK up \in BOOLEAN : Block(e(up), st(up), << >>, 5)
  BY Zenon DEF RxLookCarrier
<1>3. UNCHANGED << modem, saves, fifo, super, line >> /\ LineOK(line')
  BY Found DEF RxLookCarrier, lower
<1>4. /\ "IDLE" \in States /\ "RECEIVE_HDLC" \in States /\ "RX_DATA" \in States
      /\ "OK" \in Statuses
  BY DEF States, Statuses, HdlcRx, DataRx
<1>5. k \in Int
  BY Found DEF Ctx
<1> HIDE DEF k
<1>6. SameCommand(n) /\ n.state = "RX_LOOK"
  BY <1>1, <1>5, Found DEF SameCommand, SameModem, Ctx, CtxFields
<1> HIDE DEF n
<1>7. SameCommand(d(up)) /\ d(up).state \in { "RX_LOOK", "RX_DATA", "RECEIVE_HDLC" }
  BY <1>4, <1>6, Changes
<1> HIDE DEF d, late
<1>8. SameCommand(e(up)) /\ e(up).state \in { "RX_LOOK", "RX_DATA", "RECEIVE_HDLC", "IDLE" }
  BY <1>4, <1>7, Changes
<1> HIDE DEF e
<1>9. e(up).state \notin DataTx /\ c.state \in DataRx /\ st(up) \in Statuses
  BY <1>1, <1>8 DEF Statuses, DataTx, DataRx
<1> HIDE DEF st
<1> QED
  BY <1>1, <1>2, <1>3, <1>8, <1>9, PlainKeeps

\* _rx_data_state passes the page and leaves the data receiver as it found it.
LEMMA RxDataKeeps == ASSUME SafeInv, RxData PROVE SafeInv' /\ SameFrames
<1> DEFINE on == line.sig = "data"
           d == IF on THEN c ELSE Delay(To(c, "IDLE"), "NO_CARRIER")
           st == IF ~on /\ Taken # << >> THEN "OK" ELSE "NO_MESSAGE"
<1>1. host.mode # "gone" /\ c.state = "RX_DATA"
  BY DEF RxData, Running
<1>2. Block(d, st, << >>, 5)
  BY Zenon DEF RxData
<1>3. UNCHANGED << modem, saves, fifo, super, line >> /\ LineOK(line')
  BY Found DEF RxData, lower
<1>4. "IDLE" \in States /\ "NO_CARRIER" \in Statuses
  BY DEF States, Statuses
<1>5. SameCommand(c)
  BY Found DEF SameCommand, SameModem
<1>6. SameCommand(d) /\ d.state \in { "RX_DATA", "IDLE" }
  BY <1>1, <1>4, <1>5, Changes
<1> HIDE DEF d
<1>7. d.state \notin DataTx /\ c.state \in DataRx /\ st \in Statuses
  BY <1>1, <1>6 DEF Statuses, DataTx, DataRx
<1> HIDE DEF st
<1> QED
  BY <1>1, <1>2, <1>3, <1>6, <1>7, PlainKeeps

-----------------------------------------------------------------------------
(***************************************************************************)
(* cDATAtx.c: tx_fifo has room for what the host is asked for.             *)
(***************************************************************************)

\* _handle_data_input: a page that is still open has grown by no more than
\* what the host wrote.
LEMMA DataInputRight ==
  ASSUME Ctx(c), NEW in \in Seq(Byte)
  PROVE  /\ SameCommand(DataInput(in).d)
         /\ DataInput(in).d.state = c.state /\ DataInput(in).d.countdown = c.countdown
         /\ DataInput(in).d.counter = c.counter
         /\ DataInput(in).bytes \in Seq(Byte)
         /\ ~DataInput(in).d.closed => ~c.closed /\ Len(DataInput(in).bytes) <= Len(in)
<1> DEFINE u == Unescape([dle |-> c.dle, done |-> FALSE, buf |-> << >>], in)
           pad == IF u.done THEN [i \in 1..EtxPad |-> NUL] ELSE << >>
           nul == Last(in) = NUL
           d == [c EXCEPT !.dle = u.dle, !.closed = u.done, !.lastNul = nul]
<1>1. /\ u.dle \in BOOLEAN /\ u.done \in BOOLEAN
      /\ u.buf \in Seq(Byte) /\ Len(u.buf) <= Len(in) /\ Len(in) \in Nat
  <2> DEFINE s == [dle |-> c.dle, done |-> FALSE, buf |-> << >>]
  <2>1. s \in Ear /\ Len(s.buf) = 0
    BY DEF Ctx, Ear
  <2> HIDE DEF s
  <2>2. u \in Ear /\ Len(u.buf) <= Len(s.buf) + Len(in)
    BY <2>1, UnescapeRight DEF s
  <2> HIDE DEF u
  <2>3. Len(in) \in Nat /\ Len(u.buf) \in Nat
    BY <2>2 DEF Ear
  <2> QED
    BY <2>1, <2>2, <2>3 DEF Ear
<1>2. nul \in BOOLEAN
  OBVIOUS
<1>3. CASE c.closed \/ in = << >>
  <2>1. DataInput(in) = [d |-> c, bytes |-> << >>]
    BY <1>3 DEF DataInput
  <2>2. SameCommand(c) /\ << >> \in Seq(Byte) /\ Len(<< >>) = 0
    BY DEF SameCommand, SameModem
  <2>3. DataInput(in).d = c /\ DataInput(in).bytes = << >>
    BY <2>1
  <2> QED
    BY <1>1, <2>2, <2>3
<1>4. CASE ~(c.closed \/ in = << >>)
  <2>1. DataInput(in) = [d |-> d, bytes |-> u.buf \o pad]
    BY <1>4 DEF DataInput
  <2>2. pad \in Seq(Byte) /\ (~u.done => pad = << >>)
    <3>1. [i \in 1..EtxPad |-> NUL] \in Seq(Byte) /\ << >> \in Seq(Byte)
      BY Sizes DEF NUL, Byte
    <3> HIDE DEF u
    <3> QED
      BY <3>1
  <2> HIDE DEF u, pad, nul, d
  <2>3. DataInput(in).d = d /\ DataInput(in).bytes = u.buf \o pad
    BY <2>1
  <2>4. u.buf \o pad \in Seq(Byte)
    BY <1>1, <2>2
  <2>5. ~u.done => u.buf \o pad = u.buf
    BY <1>1, <2>2, ConcatEmptySeq
  <2>6. /\ SameCommand(d) /\ d.state = c.state /\ d.countdown = c.countdown
        /\ d.counter = c.counter /\ d.closed = u.done
    BY <1>1, <1>2 DEF SameCommand, SameModem, Ctx, CtxFields, d
  <2> QED
    BY <1>1, <1>4, <2>3, <2>4, <2>5, <2>6
<1> QED
  BY <1>3, <1>4

\* FIFO_write keeps what was there and never overflows.
LEMMA WrittenRight ==
  ASSUME NEW f, FifoOK(f), NEW b \in Seq(Byte)
  PROVE  /\ FifoOK(Written(f, b)) /\ Len(Written(f, b)) <= Len(f) + Len(b)
<1> DEFINE n == IF Len(b) > FifoSize - Len(f) THEN FifoSize - Len(f) ELSE Len(b)
           s == SubSeq(b, 1, n)
<1>1. Len(b) \in Nat /\ Len(f) \in Nat /\ FifoSize \in Nat /\ f \in Seq(Byte)
  BY Sizes DEF FifoOK
<1>2. n \in Nat /\ n <= Len(b) /\ n <= FifoSize - Len(f)
  BY <1>1 DEF FifoOK
<1>3. Written(f, b) = f \o s
  BY DEF Written
<1> HIDE DEF n
<1>4. s \in Seq(Byte) /\ Len(s) = n
  BY <1>1, <1>2, PartOf
<1> HIDE DEF s
<1>5. f \o s \in Seq(Byte) /\ Len(f \o s) = Len(f) + Len(s)
  BY <1>1, <1>4, ConcatProperties
<1> QED
  BY <1>1, <1>2, <1>3, <1>4, <1>5 DEF FifoOK

\* FIFO_read leaves a shorter tx_fifo.
LEMMA RestRight ==
  ASSUME NEW f, FifoOK(f), c.code \in Codes
  PROVE  FifoOK(Rest(f)) /\ Len(Rest(f)) <= Len(f)
<1> DEFINE n == IF Len(f) > Bpb THEN Bpb ELSE Len(f)
<1>1. Bpb \in Nat \ { 0 } /\ Len(f) \in Nat /\ f \in Seq(Byte) /\ FifoSize \in Nat
  BY Sizes DEF Bpb, FifoOK
<1>2. n \in Nat /\ n <= Len(f) /\ n + 1 \in Nat \ { 0 }
  BY <1>1
<1>3. Read(f) = SubSeq(f, 1, n)
  BY DEF Read
<1> HIDE DEF n
<1>4. Len(Read(f)) = n
  BY <1>1, <1>2, <1>3, PartOf
<1>5. Rest(f) = SubSeq(f, n + 1, Len(f))
  BY <1>4 DEF Rest
<1>6. /\ Rest(f) \in Seq(Byte)
      /\ Len(Rest(f)) = IF n + 1 <= Len(f) THEN Len(f) - (n + 1) + 1 ELSE 0
  BY <1>1, <1>2, <1>5, PartOf
<1>7. Len(Rest(f)) <= Len(f)
  BY <1>1, <1>2, <1>6
<1> QED
  BY <1>1, <1>6, <1>7 DEF FifoOK

\* NoFifo is not a tx_fifo.
LEMMA FifoThere ==
  ASSUME NEW f, FifoOK(f)
  PROVE  f # NoFifo
<1> SUFFICES ASSUME f = NoFifo PROVE FALSE
  OBVIOUS
<1>1. f \in Seq(Byte) /\ Len(f) = 1 /\ f[1] = -1
  BY DEF FifoOK, NoFifo
<1>2. f[1] \in Byte
  BY <1>1
<1> QED
  BY <1>1, <1>2 DEF Byte

\* A step of a handler that sends a page, and asks for what tx_fifo can take.
LEMMA SendKeeps ==
  ASSUME SafeInv, host.mode # "gone", c.state \in { "ONES", "TX_DATA", "TX_NULLS" },
         NEW d, SameCommand(d), NEW st \in Statuses, Block(d, st, << >>, Room),
         UNCHANGED << modem, saves, super, line >>, FifoOK(fifo'),
         d.state \in { "ONES", "TX_DATA", "TX_NULLS", "IDLE" },
         ~d.closed => Len(fifo') < FifoSize
  PROVE  SafeInv' /\ SameFrames
<1>0. Ctx(d) /\ d.code = c.code /\ d.dir = c.dir /\ d.mod = c.mod
  BY DEF SameCommand, SameModem
<1>1. Typed /\ c.state \in DataTx
  BY DEF SafeInv, DataTx
<1> DEFINE n == Len(fifo')
<1>2. n \in Nat /\ n <= FifoSize /\ FifoSize \in Nat /\ HostBuffer \in Nat
  BY Sizes DEF FifoOK
<1>3. Room = FifoSize - n - 1
  BY DEF Room
<1> HIDE DEF n
<1>4. Room \in Int
  BY <1>2, <1>3
<1>5. /\ Ctx(c') /\ c'.dcount \in 0..1 /\ c'.state = d.state /\ c'.code = d.code
      /\ c'.dir = d.dir /\ c'.mod = d.mod /\ c'.closed = d.closed
      /\ HostOK(host') /\ host'.mode # "gone"
      /\ FxOK(fx') /\ fx'.want = Room /\ reply' \in Replies /\ tty' \in Seq(Byte)
  BY <1>0, <1>1, <1>4, BlockKeeps
<1>6. Typed'
  BY <1>1, <1>5 DEF Typed
<1>7. ModemOK'
  BY DEF SafeInv, ModemOK
<1>8. fifo # NoFifo
  BY <1>1 DEF SafeInv, ModemFits
<1>9. ModemFits'
  <2>1. fifo' # NoFifo
    BY FifoThere
  <2>2. c'.state \notin DataRx
    BY <1>5 DEF DataRx
  <2> QED
    BY <1>0, <1>1, <1>5, <1>8, <2>1, <2>2, ModemKept
<1>10. ~c'.closed => Asked' + Len(fifo') < FifoSize
  <2> SUFFICES ASSUME ~c'.closed PROVE Asked' + Len(fifo') < FifoSize
    OBVIOUS
  <2>1. n < FifoSize
    BY <1>5 DEF n
  <2>2. Asked' = 0 \/ (fx'.want \in 0..HostBuffer /\ Asked' = fx'.want)
          \/ (~(fx'.want \in 0..HostBuffer) /\ Asked' = HostBuffer)
    BY DEF Asked
  <2> DEFINE a == Asked'
  <2>3. a + n < FifoSize
    <3>1. a = 0 \/ a = FifoSize - n - 1
            \/ (~(FifoSize - n - 1 \in 0..HostBuffer) /\ a = HostBuffer)
      BY <1>3, <1>5, <2>2
    <3> HIDE DEF a
    <3> QED
      BY <1>2, <2>1, <3>1
  <2> QED
    BY <2>3 DEF n
<1>11. RoomKept'
  BY <1>10, <1>2 DEF RoomKept, n
<1>12. PageOK'
  BY <1>0, <1>1, <1>5 DEF SafeInv, PageOK, DataTx
<1>13. c'.superIdx = d.superIdx /\ (got' = got \/ got' = got \o << >>)
  BY <1>0, BlockFrames
<1>14. SameFrames
  BY <1>13 DEF SameFrames, SameCommand
<1> QED
  BY <1>6, <1>7, <1>9, <1>11, <1>12, <1>14 DEF SafeInv

\* _tx_silence_before_scrm_ones counts the silence before a page.
LEMMA SilenceBeforeOnesKeeps == ASSUME SafeInv, SilenceBeforeOnes PROVE SafeInv' /\ SameFrames
<1> DEFINE s == IF c.countdown + 1 >= ScrmSilence THEN "ONES" ELSE c.state
           d == [c EXCEPT !.countdown = c.countdown + 1, !.state = s]
<1>1. host.mode # "gone" /\ c.state = "SILENCE_BEFORE_ONES"
  BY DEF SilenceBeforeOnes, Running
<1>2. Block(d, "NO_MESSAGE", << >>, 0) /\ UNCHANGED << modem, saves, fifo, super, line >>
  BY Zenon DEF SilenceBeforeOnes, lower
<1>3. s \in { "ONES", "SILENCE_BEFORE_ONES" }
  BY <1>1
<1> HIDE DEF s
<1>4. SameCommand(d) /\ d.state = s
  BY <1>3, Found DEF SameCommand, SameModem, Ctx, CtxFields, States, DataTx
<1> HIDE DEF d
<1>5. "NO_MESSAGE" \in Statuses /\ Typed /\ Ctx(d)
  BY <1>4, Found DEF Statuses, SameCommand, SameModem
<1>6. /\ Ctx(c') /\ c'.dcount \in 0..1 /\ c'.state = d.state /\ c'.code = d.code
      /\ c'.dir = d.dir /\ c'.mod = d.mod /\ c'.closed = d.closed
      /\ HostOK(host') /\ host'.mode # "gone"
      /\ FxOK(fx') /\ fx'.want = 0 /\ reply' \in Replies /\ tty' \in Seq(Byte)
  BY <1>1, <1>2, <1>5, BlockKeeps
<1>7. Typed'
  BY <1>2, <1>5, <1>6 DEF Typed
<1>8. ModemOK'
  BY <1>2 DEF SafeInv, ModemOK, FifoOK
<1>9. c.state \in DataTx /\ c'.state \notin DataRx
  BY <1>1, <1>3, <1>4, <1>6 DEF DataTx, DataRx
<1>10. ModemFits'
  BY <1>1, <1>2, <1>4, <1>6, <1>9, ModemKept DEF SameCommand, SameModem
<1>11. RoomKept'
  <2>1. Asked' = 0
    BY <1>6, Sizes DEF Asked
  <2>2. fifo' = << >> /\ Len(<< >>) = 0
    BY <1>1, <1>2 DEF SafeInv, PageOK
  <2> QED
    BY <2>1, <2>2, Sizes DEF RoomKept
<1>12. PageOK'
  BY <1>1, <1>2, <1>4, <1>6, <1>9 DEF SafeInv, PageOK, SameCommand, SameModem
<1>13. c'.superIdx = d.superIdx /\ (got' = got \/ got' = got \o << >>)
  BY <1>2, <1>5, BlockFrames
<1>14. SameFrames
  BY <1>2, <1>4, <1>13 DEF SameFrames, SameCommand
<1> QED
  BY <1>7, <1>8, <1>10, <1>11, <1>12, <1>14 DEF SafeInv

\* What the bytes of a block make of tx_fifo before any of it is read.
LEMMA PageGrows ==
  ASSUME SafeInv, host.mode # "gone", c.state \in { "ONES", "TX_DATA", "TX_NULLS" }
  PROVE  /\ c.code \in Codes
         /\ FifoOK(Written(fifo, DataInput(Taken).bytes))
         /\ ~DataInput(Taken).d.closed =>
               Len(Written(fifo, DataInput(Taken).bytes)) < FifoSize
<1> DEFINE u == DataInput(Taken)
           f == Written(fifo, u.bytes)
<1>1. c.state \in DataTx /\ c.code \in Codes
  BY DEF SafeInv, PageOK, DataTx
<1>2. fifo # NoFifo /\ FifoOK(fifo)
  BY <1>1 DEF SafeInv, ModemFits, ModemOK
<1>3. /\ u.bytes \in Seq(Byte)
      /\ ~u.d.closed => ~c.closed /\ Len(u.bytes) <= Len(Taken)
  BY Found, DataInputRight
<1> HIDE DEF u
<1>4. FifoOK(f) /\ Len(f) <= Len(fifo) + Len(u.bytes)
  BY <1>2, <1>3, WrittenRight
<1>5. ~c.closed => Asked + Len(fifo) < FifoSize
  BY DEF SafeInv, RoomKept
<1>6. /\ Len(f) \in Nat /\ Len(fifo) \in Nat /\ Len(u.bytes) \in Nat /\ Len(Taken) \in Nat
      /\ Asked \in Nat /\ Len(Taken) <= Asked /\ FifoSize \in Nat
  BY <1>2, <1>3, <1>4, Found, Sizes DEF FifoOK
<1> HIDE DEF f
<1>7. ~u.d.closed => Len(f) < FifoSize
  BY <1>3, <1>4, <1>5, <1>6
<1> QED
  BY <1>1, <1>4, <1>7 DEF f, u

\* _tx_scrambled_ones_state trains and writes what the host has said so far.
LEMMA ScrambledOnesKeeps == ASSUME SafeInv, ScrambledOnes PROVE SafeInv' /\ SameFrames
<1> DEFINE u == DataInput(Taken)
           f == Written(fifo, u.bytes)
           on == c.enabled \/ c.connect = 1
           ready == IF Taken = << >> THEN c.ready ELSE Len(f) >= Bpb
           link == IF c.connect > 0 THEN c.connect - 1
                   ELSE IF c.connect = -1 /\ c.counter + 1 >= Train THEN 2 ELSE c.connect
           k == IF u.d.counter < Train THEN u.d.counter + 1 ELSE u.d.counter
           s == IF on /\ ready THEN "TX_DATA" ELSE u.d.state
           d == [u.d EXCEPT !.counter = k, !.enabled = on, !.connect = link,
                            !.ready = ready, !.state = s]
           st == IF c.counter = 0 THEN "CONNECT" ELSE "NO_MESSAGE"
<1>1. host.mode # "gone" /\ c.state = "ONES"
  BY DEF ScrambledOnes, Running
<1>2. /\ IF on /\ ready THEN Feed(f) ELSE fifo' = f /\ passed' = passed
      /\ Block(d, st, << >>, Room)
  BY DEF ScrambledOnes
<1>3. UNCHANGED << modem, saves, super, line >>
  BY DEF ScrambledOnes
<1>4. c.code \in Codes /\ FifoOK(f) /\ (~u.d.closed => Len(f) < FifoSize)
  BY <1>1, PageGrows
<1>5. SameCommand(u.d) /\ u.d.state = "ONES" /\ u.d.counter = c.counter
  BY <1>1, Found, DataInputRight
<1> HIDE DEF u, f
<1>6. fifo' = f \/ fifo' = Rest(f)
  BY <1>2 DEF Feed
<1>7. FifoOK(Rest(f)) /\ Len(Rest(f)) <= Len(f)
  BY <1>4, RestRight
<1>8. Len(f) \in Nat /\ Len(Rest(f)) \in Nat /\ FifoSize \in Nat
  BY <1>4, <1>7, Sizes DEF FifoOK
<1>9. FifoOK(fifo') /\ (~u.d.closed => Len(fifo') < FifoSize)
  BY <1>4, <1>6, <1>7, <1>8
<1>10. /\ on \in BOOLEAN /\ ready \in BOOLEAN /\ link \in -1..2 /\ k \in 0..Train
       /\ s \in { "ONES", "TX_DATA" }
  <2>1. /\ c.enabled \in BOOLEAN /\ c.ready \in BOOLEAN /\ c.connect \in -1..2
        /\ c.counter \in 0..Train /\ Train \in Nat
    BY Found, Sizes DEF Ctx
  <2>2. on \in BOOLEAN /\ ready \in BOOLEAN
    <3>1. (Len(f) >= Bpb) \in BOOLEAN
      BY <1>4, <1>8, Sizes DEF Bpb
    <3>2. ready \in BOOLEAN
      BY <2>1, <3>1, Zenon
    <3>3. on \in BOOLEAN
      OBVIOUS
    <3> QED
      BY <3>2, <3>3
  <2>3. link \in -1..2
    BY <2>1
  <2>4. k \in 0..Train
    BY <1>5, <2>1
  <2>5. s \in { "ONES", "TX_DATA" }
    BY <1>5
  <2> QED
    BY <2>2, <2>3, <2>4, <2>5
<1> HIDE DEF on, ready, link, k, s
<1>11. SameCommand(d) /\ d.state = s /\ d.closed = u.d.closed
  BY <1>5, <1>10 DEF SameCommand, SameModem, Ctx, CtxFields, States, DataTx
<1>12. st \in Statuses
  BY DEF Statuses
<1> HIDE DEF d, st
<1> QED
  BY <1>1, <1>2, <1>3, <1>9, <1>10, <1>11, <1>12, SendKeeps

\* _tx_data_state empties tx_fifo and writes what the host says to it.
LEMMA TxDataKeeps == ASSUME SafeInv, TxData PROVE SafeInv' /\ SameFrames
<1> DEFINE u == DataInput(Taken)
           f == Written(fifo, u.bytes)
           d == IF Len(f) >= Bpb THEN u.d
                ELSE IF u.d.lastNul THEN Restart(u.d, "TX_NULLS") ELSE To(u.d, "IDLE")
           st == IF Len(f) >= Bpb THEN "NO_MESSAGE" ELSE IF u.d.lastNul THEN "CONNECT" ELSE "OK"
<1>1. host.mode # "gone" /\ c.state = "TX_DATA"
  BY DEF TxData, Running
<1>2. Feed(f) /\ Block(d, st, << >>, Room)
  BY Zenon DEF TxData
<1>3. UNCHANGED << modem, saves, super, line >>
  BY DEF TxData
<1>4. c.code \in Codes /\ FifoOK(f) /\ (~u.d.closed => Len(f) < FifoSize)
  BY <1>1, PageGrows
<1>5. SameCommand(u.d) /\ u.d.state = "TX_DATA"
  BY <1>1, Found, DataInputRight
<1> HIDE DEF u, f
<1>6. fifo' = Rest(f)
  BY <1>2 DEF Feed
<1>7. FifoOK(Rest(f)) /\ Len(Rest(f)) <= Len(f)
  BY <1>4, RestRight
<1>8. Len(f) \in Nat /\ Len(Rest(f)) \in Nat /\ FifoSize \in Nat
  BY <1>4, <1>7, Sizes DEF FifoOK
<1>9. FifoOK(fifo') /\ (~u.d.closed => Len(fifo') < FifoSize)
  BY <1>4, <1>6, <1>7, <1>8
<1>10. /\ SameCommand(d) /\ d.state \in { "TX_DATA", "TX_NULLS", "IDLE" }
       /\ d.closed = u.d.closed
  BY <1>5 DEF SameCommand, SameModem, Ctx, CtxFields, States, DataTx, To, Restart
<1>11. st \in Statuses
  BY DEF Statuses
<1> HIDE DEF d, st
<1> QED
  BY <1>1, <1>2, <1>3, <1>9, <1>10, <1>11, SendKeeps

\* _tx_nulls_state fills the pause of a host that has not closed its page.
LEMMA TxNullsKeeps == ASSUME SafeInv, TxNulls PROVE SafeInv' /\ SameFrames
<1> DEFINE u == DataInput(Taken)
           f == Written(fifo, u.bytes)
           late == c.countdown + 1 > HostLimit
           st == IF late THEN "ERROR" ELSE "NO_MESSAGE"
           n == [c EXCEPT !.countdown = c.countdown + 1]
           d == IF late THEN To(n, "IDLE") ELSE n
           e == [To(u.d, "TX_DATA") EXCEPT !.countdown = To(u.d, "TX_DATA").countdown + 1]
<1>1. host.mode # "gone" /\ c.state = "TX_NULLS"
  BY DEF TxNulls, Running
<1>2. UNCHANGED << modem, saves, super, line >>
  BY DEF TxNulls
<1>3. st \in Statuses
  BY DEF Statuses
<1>4. CASE Taken = << >>
  <2>1. fifo' = fifo /\ Block(d, st, << >>, Room)
    BY <1>4, Zenon DEF TxNulls
  <2>2. FifoOK(fifo)
    BY <1>1 DEF SafeInv, ModemFits, ModemOK, DataTx
  <2>3. ~c.closed => Len(fifo) < FifoSize
    <3>1. ~c.closed => Asked + Len(fifo) < FifoSize
      BY <1>1 DEF SafeInv, RoomKept
    <3>2. Asked \in Nat /\ Len(fifo) \in Nat /\ FifoSize \in Nat
      BY <2>2, Found, Sizes DEF FifoOK
    <3> QED
      BY <3>1, <3>2
  <2> HIDE DEF st, late
  <2>4. SameCommand(d) /\ d.state \in { "TX_NULLS", "IDLE" } /\ d.closed = c.closed
    BY <1>1, Found DEF SameCommand, SameModem, Ctx, CtxFields, States, To
  <2> HIDE DEF d
  <2> QED
    BY <1>1, <1>2, <1>3, <2>1, <2>2, <2>3, <2>4, SendKeeps
<1>5. CASE Taken # << >>
  <2>1. Feed(f) /\ Block(e, st, << >>, Room)
    BY <1>5, Zenon DEF TxNulls
  <2>2. c.code \in Codes /\ FifoOK(f) /\ (~u.d.closed => Len(f) < FifoSize)
    BY <1>1, PageGrows
  <2>3. SameCommand(u.d)
    BY <1>1, Found, DataInputRight
  <2> HIDE DEF u, f, st
  <2>4. fifo' = Rest(f)
    BY <2>1 DEF Feed
  <2>5. FifoOK(Rest(f)) /\ Len(Rest(f)) <= Len(f)
    BY <2>2, RestRight
  <2>6. Len(f) \in Nat /\ Len(Rest(f)) \in Nat /\ FifoSize \in Nat
    BY <2>2, <2>5, Sizes DEF FifoOK
  <2>7. FifoOK(fifo') /\ (~u.d.closed => Len(fifo') < FifoSize)
    BY <2>2, <2>4, <2>5, <2>6
  <2>8. SameCommand(e) /\ e.state = "TX_DATA" /\ e.closed = u.d.closed
    BY <2>3 DEF SameCommand, SameModem, Ctx, CtxFields, States, DataTx, To
  <2> HIDE DEF e
  <2> QED
    BY <1>1, <1>2, <1>3, <2>1, <2>7, <2>8, SendKeeps
<1> QED
  BY <1>4, <1>5

-----------------------------------------------------------------------------
(***************************************************************************)
(* The commands: the data modem is always the one of the last TM or RM.    *)
(***************************************************************************)

\* The saves of a receiver, and the modulation of a rate code.
LEMMA HeldRight ==
  ASSUME NEW m
  PROVE  m.dir # "rx" => Held(m) = 0
BY DEF Held

\* What a receiver holds of the saved state is a number, and no modem holds none.
LEMMA HeldRange ==
  ASSUME NEW m
  PROVE  Held(m) \in Int /\ Held(NoModem) = 0
BY DEF Held, NoModem

\* _set_modem_rate knows three modulations.
LEMMA ModOfRight ==
  ASSUME NEW code
  PROVE  ModOf(code) \in 0..2
<1>1. ModOf(code) = 0 \/ ModOf(code) = 1 \/ ModOf(code) = 2
  BY Zenon DEF ModOf
<1> QED
  BY <1>1

\* The states that the commands lead to.
LEMMA StateNames ==
  /\ "SILENCE_BEFORE_ONES" \in States /\ "RX_LOOK" \in States /\ "LOOK_HDLC" \in States
  /\ "RECEIVE_HDLC" \in States /\ "EMULATE" \in States /\ "SEND_SILENCE" \in States
  /\ "RECEIVE_SILENCE" \in States /\ "ANSWER_TONE" \in States
BY DEF States, HdlcTx, HdlcRx, DataTx, DataRx

\* An empty tx_fifo.
LEMMA EmptyFifo == FifoOK(<< >>) /\ Len(<< >>) = 0 /\ << >> # NoFifo
<1>1. << >> \in Seq(Byte) /\ Len(<< >>) = 0
  OBVIOUS
<1>2. FifoOK(<< >>)
  BY <1>1, Sizes DEF FifoOK
<1> QED
  BY <1>1, <1>2, FifoThere

\* A command that does not touch the data modem.
LEMMA QuietCommand ==
  ASSUME SafeInv, host.mode # "gone", Ctx(c'), c'.dcount \in 0..1, HostOK(host'),
         UNCHANGED << modem, saves, fifo, fx, tty, line >>, reply' \in Replies,
         c'.code = 3 \/ c'.code = c.code, c'.dir = c.dir, c'.mod = c.mod,
         c'.state \notin DataTx \cup DataRx
  PROVE  SafeInv'
<1>1. Typed'
  BY DEF SafeInv, Typed
<1>2. ModemOK'
  BY DEF SafeInv, ModemOK, FifoOK
<1>3. ModemFits'
  BY DEF SafeInv, ModemFits, Held
<1>4. RoomKept' /\ PageOK'
  BY DEF SafeInv, RoomKept, PageOK, DataTx
<1> QED
  BY <1>1, <1>2, <1>3, <1>4 DEF SafeInv

\* What the deletion of the receiver leaves, whatever direction and modulation
\* were before the first command.
LEMMA Freed ==
  ASSUME SafeInv
  PROVE  Deleted("rx").saves = 0
<1>1. /\ modem # NoModem => c.dir = modem.dir /\ c.mod = modem.mod
      /\ saves = Held(modem)
  BY DEF SafeInv, ModemFits
<1>2. modem.dir # "rx" => Held(modem) = 0
  BY HeldRight
<1>3. Held(modem) \in Int /\ Held(NoModem) = 0
  BY HeldRange
<1>4. CASE modem = NoModem \/ c.dir # "rx"
  BY <1>1, <1>2, <1>3, <1>4 DEF Deleted
<1>5. CASE ~(modem = NoModem \/ c.dir # "rx")
  BY <1>1, <1>3, <1>5 DEF Deleted
<1> QED
  BY <1>4, <1>5

\* FTM makes the transmitter of its code, whatever modem was there.
LEMMA TMKeeps ==
  ASSUME SafeInv, host.mode # "gone", NEW code \in Codes, TM(code), HostOK(host'),
         UNCHANGED << fx, tty, line >>, reply' \in Replies
  PROVE  SafeInv'
<1>1. ModOf(code) \in 0..2
  BY ModOfRight
<1>2. /\ Ctx(c') /\ c'.dcount \in 0..1 /\ c'.state = "SILENCE_BEFORE_ONES" /\ c'.code = code
      /\ c'.mod = ModOf(code) /\ c'.dir = "tx"
  <2>1. c' = [c EXCEPT !.state = "SILENCE_BEFORE_ONES", !.countdown = 0, !.code = code,
                       !.mod = ModOf(code), !.dir = "tx", !.connect = -1, !.enabled = FALSE,
                       !.ready = FALSE, !.closed = FALSE, !.counter = 0]
    BY DEF TM
  <2>2. Ctx(c) /\ c.dcount \in 0..1
    BY DEF SafeInv, Typed
  <2>3. /\ DOMAIN c' = DOMAIN c /\ c'.state = "SILENCE_BEFORE_ONES" /\ c'.countdown = 0
        /\ c'.code = code /\ c'.mod = ModOf(code) /\ c'.dir = "tx" /\ c'.connect = -1
        /\ c'.enabled = FALSE /\ c'.ready = FALSE /\ c'.closed = FALSE /\ c'.counter = 0
    BY <2>1, <2>2 DEF Ctx, CtxFields
  <2>4. /\ c'.prev = c.prev /\ c'.delayed = c.delayed /\ c'.dcount = c.dcount /\ c'.dle = c.dle
        /\ c'.done = c.done /\ c'.latch = c.latch /\ c'.lastNul = c.lastNul
        /\ c'.cng = c.cng /\ c'.quiet = c.quiet /\ c'.superCount = c.superCount
        /\ c'.superIdx = c.superIdx /\ c'.frame = c.frame
    BY <2>1, <2>2 DEF Ctx, CtxFields
  <2>5. c'.counter \in 0..Train /\ c'.state \in States /\ c'.code \in Codes \cup { 3 }
    BY <2>3, Sizes, StateNames
  <2>6. c'.connect \in -1..2 /\ c'.countdown \in Int /\ c'.mod \in 0..2 /\ c'.dcount \in 0..1
    BY <1>1, <2>2, <2>3, <2>4
  <2>7. Ctx(c')
    BY <2>2, <2>3, <2>4, <2>5, <2>6 DEF Ctx
  <2> QED
    BY <2>3, <2>6, <2>7
<1>3. modem' = [dir |-> "tx", mod |-> ModOf(code)] /\ saves' = 0 /\ fifo' = << >>
  BY Freed DEF TM, InitTransmitter
<1>4. FifoOK(<< >>) /\ Len(<< >>) = 0 /\ << >> # NoFifo
  BY EmptyFifo
<1>5. /\ modem' \in [dir : { "none", "rx", "tx" }, mod : 0..2] /\ modem'.dir = "tx"
      /\ FifoOK(fifo') /\ Len(fifo') = 0 /\ fifo' # NoFifo
  BY <1>1, <1>3, <1>4
<1>6. Typed'
  BY <1>2 DEF SafeInv, Typed
<1>7. ModemOK'
  BY <1>3, <1>5 DEF ModemOK
<1>8. Held(modem') = 0
  BY <1>5, HeldRight
<1>9. ModemFits'
  BY <1>2, <1>3, <1>5, <1>8 DEF ModemFits, DataRx
<1>10. RoomKept'
  <2>1. Len(fifo') <= FifoSize
    BY <1>5 DEF FifoOK
  <2> QED
    BY <1>2, <2>1 DEF RoomKept
<1>11. PageOK'
  BY <1>2, <1>3 DEF PageOK
<1> QED
  BY <1>6, <1>7, <1>9, <1>10, <1>11 DEF SafeInv

\* FRM makes or restarts the receiver of its code, whatever modem was there.
LEMMA RMKeeps ==
  ASSUME SafeInv, host.mode # "gone", NEW code \in Codes, RM(code), HostOK(host'),
         UNCHANGED << fx, tty, line >>, reply' \in Replies
  PROVE  SafeInv'
<1> DEFINE rx == [dir |-> "rx", mod |-> ModOf(code)]
<1>1. ModOf(code) \in 0..2 /\ code # 3
  BY ModOfRight, Sizes
<1>2. /\ Ctx(c') /\ c'.dcount \in 0..1 /\ c'.state = "RX_LOOK" /\ c'.code = code
      /\ c'.mod = ModOf(code) /\ c'.dir = "rx"
  <2> DEFINE a == [c EXCEPT !.state = "RX_LOOK", !.code = code, !.mod = ModOf(code), !.dir = "rx"]
  <2>1. c' = [a EXCEPT !.countdown = 0, !.dcount = 0, !.state = a.state]
    BY <1>1 DEF RM, HdlcRxInit
  <2>2. Ctx(c)
    BY DEF SafeInv, Typed
  <2>3. /\ Ctx(a) /\ a.state = "RX_LOOK" /\ a.code = code /\ a.mod = ModOf(code)
        /\ a.dir = "rx"
    BY <1>1, <2>2, StateNames DEF Ctx, CtxFields
  <2> HIDE DEF a
  <2> QED
    BY <2>1, <2>3 DEF Ctx, CtxFields
<1>3. /\ modem # NoModem => c.dir = modem.dir /\ c.mod = modem.mod
      /\ saves = Held(modem) /\ (fifo # NoFifo) = (modem.dir = "tx")
      /\ modem \in [dir : { "none", "rx", "tx" }, mod : 0..2]
      /\ modem.dir = "none" => modem = NoModem
  BY DEF SafeInv, ModemFits, ModemOK
<1>4. /\ NoModem.dir = "none" /\ Held(NoModem) = 0 /\ Held(modem) \in Int /\ Held(rx) \in Int
      /\ rx.dir = "rx" /\ rx \in [dir : { "none", "rx", "tx" }, mod : 0..2]
  BY <1>1, HeldRange DEF NoModem
<1> DEFINE now == Deleted("tx")
           kept == now.modem # NoModem /\ c.mod = ModOf(code)
<1>5. /\ modem' = IF kept THEN now.modem ELSE rx
      /\ saves' = IF kept THEN now.saves ELSE now.saves - Held(now.modem) + Held(rx)
      /\ fifo' = now.fifo
  BY DEF RM, InitReceiver
<1>6. /\ now.saves = Held(now.modem) /\ now.fifo = NoFifo
      /\ now.modem = NoModem \/ (now.modem = modem /\ modem.dir = "rx" /\ c.mod = modem.mod)
  <2>1. CASE modem = NoModem
    BY <1>3, <1>4, <2>1 DEF Deleted
  <2>2. CASE modem # NoModem /\ c.dir # "tx"
    BY <1>3, <1>4, <2>2 DEF Deleted
  <2>3. CASE modem # NoModem /\ c.dir = "tx"
    <3>1. Held(modem) = 0
      BY <1>3, <2>3, HeldRight
    <3> QED
      BY <1>3, <1>4, <2>3, <3>1 DEF Deleted
  <2> QED
    BY <2>1, <2>2, <2>3
<1> HIDE DEF now
<1>7. Held(now.modem) \in Int
  BY HeldRange
<1>8. modem' = rx /\ saves' = Held(rx) /\ fifo' = NoFifo
  <2>1. CASE kept
    <3>1. modem.dir = "rx" /\ modem.mod = ModOf(code) /\ modem' = modem
      BY <1>5, <1>6, <2>1
    <3>2. modem = rx
      BY <1>3, <3>1
    <3> QED
      BY <1>5, <1>6, <2>1, <3>1, <3>2
  <2>2. CASE ~kept
    <3>1. now.saves - Held(now.modem) + Held(rx) = Held(rx)
      <4> DEFINE x == Held(now.modem)
                 y == Held(rx)
      <4>1. now.saves = x /\ x \in Int /\ y \in Int
        BY <1>4, <1>6, <1>7
      <4> HIDE DEF x, y
      <4>2. x - x + y = y
        BY <4>1
      <4> QED
        BY <4>1, <4>2 DEF x, y
    <3> QED
      BY <1>5, <1>6, <2>2, <3>1
  <2> QED
    BY <2>1, <2>2
<1>9. Typed'
  BY <1>2 DEF SafeInv, Typed
<1>10. ModemOK'
  <2> HIDE DEF rx
  <2> QED
    BY <1>4, <1>8 DEF ModemOK
<1>11. ModemFits'
  BY <1>2, <1>8 DEF ModemFits, DataTx
<1>12. RoomKept' /\ PageOK'
  BY <1>2, <1>8 DEF RoomKept, PageOK, DataTx
<1> QED
  BY <1>9, <1>10, <1>11, <1>12 DEF SafeInv

\* Every command leaves direction and modulation true of the modem in being.
LEMMA CommandKeeps ==
  ASSUME SafeInv, NEW cmd \in Commands, NEW code \in Args(cmd), Command(cmd, code)
  PROVE  SafeInv'
<1>0. reply' \in Replies
  BY Zenon DEF Command, Replies
<1>1. /\ host.mode # "gone" /\ UNCHANGED << fx, tty, line >>
      /\ Ctx(c) /\ c.dcount \in 0..1 /\ HostOK(host)
  BY Zenon DEF Command, SafeInv, Typed
<1>2. HostOK(host')
  <2>1. \E n, k, l, s : host' = [host EXCEPT !.mode = "waiting", !.cmd = cmd, !.count = n,
                               !.sent = << >>, !.aborted = FALSE, !.cut = k, !.left = l,
                               !.stray = s]
    <3> DEFINE n == host.count + 1
               s == c.dcount > 0
    <3>1. host' = [host EXCEPT !.mode = "waiting", !.cmd = cmd, !.count = n, !.sent = << >>,
                          !.aborted = FALSE, !.cut = c.dle, !.left = queue, !.stray = s]
      BY Zenon DEF Command
    <3> HIDE DEF n, s
    <3> QED
      BY <3>1
  <2>2. PICK n, k, l, s : host' = [host EXCEPT !.mode = "waiting", !.cmd = cmd, !.count = n,
                               !.sent = << >>, !.aborted = FALSE, !.cut = k, !.left = l,
                               !.stray = s]
    BY <2>1
  <2> QED
    BY <1>1, <2>2 DEF HostOK, HostFields
<1>3. /\ cmd = "TH" => TH
      /\ cmd = "TM" => TM(code) /\ code \in Codes
      /\ cmd = "RM" => RM(code) /\ code \in Codes
      /\ cmd = "RH" => RH
      /\ cmd = "TS" => TS
      /\ cmd = "RS" => RS
  BY DEF Command, Args, Commands
<1>4. CASE cmd = "TM"
  BY <1>0, <1>1, <1>2, <1>3, <1>4, TMKeeps
<1>5. CASE cmd = "RM"
  BY <1>0, <1>1, <1>2, <1>3, <1>5, RMKeeps
<1>6. ASSUME NEW d, c' = d, Ctx(d), d.dcount \in 0..1, UNCHANGED << modem, saves, fifo >>,
             d.code = 3 \/ d.code = c.code, d.dir = c.dir, d.mod = c.mod,
             d.state \notin DataTx \cup DataRx
      PROVE  SafeInv'
  BY <1>0, <1>1, <1>2, <1>6, QuietCommand
<1>7. CASE cmd = "TH"
  <2> DEFINE d == PreambleInit([c EXCEPT !.code = 3])
  <2>1. c' = d /\ UNCHANGED << modem, saves, fifo >>
    BY <1>3, <1>7 DEF TH
  <2>2. /\ Ctx(d) /\ d.dcount \in 0..1 /\ d.code = 3 /\ d.dir = c.dir /\ d.mod = c.mod
        /\ d.state \notin DataTx \cup DataRx
    BY <1>1 DEF PreambleInit, Ctx, CtxFields, States, HdlcTx, DataTx, DataRx
  <2> HIDE DEF d
  <2> QED
    BY <1>6, <2>1, <2>2
<1>8. CASE cmd = "TS"
  <2> DEFINE d == [To(c, "SEND_SILENCE") EXCEPT !.countdown = Quiet]
  <2>1. c' = d /\ UNCHANGED << modem, saves, fifo >>
    BY <1>3, <1>8 DEF TS
  <2>2. /\ Ctx(d) /\ d.dcount \in 0..1 /\ d.code = c.code /\ d.dir = c.dir /\ d.mod = c.mod
        /\ d.state = "SEND_SILENCE"
    BY <1>1, Sizes, StateNames DEF To, Ctx, CtxFields
  <2> HIDE DEF d
  <2>3. d.state \notin DataTx \cup DataRx
    BY <2>2 DEF DataTx, DataRx
  <2> QED
    BY <1>6, <2>1, <2>2, <2>3
<1>9. CASE cmd = "RS"
  <2> DEFINE d == [To(c, "RECEIVE_SILENCE") EXCEPT !.countdown = Quiet, !.quiet = 0]
  <2>1. c' = d /\ UNCHANGED << modem, saves, fifo >>
    BY <1>3, <1>9 DEF RS
  <2>2. /\ Ctx(d) /\ d.dcount \in 0..1 /\ d.code = c.code /\ d.dir = c.dir /\ d.mod = c.mod
        /\ d.state = "RECEIVE_SILENCE"
    BY <1>1, Sizes, StateNames DEF To, Ctx, CtxFields
  <2> HIDE DEF d
  <2>3. d.state \notin DataTx \cup DataRx
    BY <2>2 DEF DataTx, DataRx
  <2> QED
    BY <1>6, <2>1, <2>2, <2>3
<1>10. CASE cmd = "RH"
  <2> DEFINE b == IF c.state = "BETWEEN_RX" /\ c.code = 3 THEN Restart(c, "RECEIVE_HDLC")
                  ELSE IF super = << >> THEN HdlcRxInit(c, 3)
                  ELSE [To(c, "EMULATE") EXCEPT !.superCount = 2]
             d == [b EXCEPT !.code = 3]
  <2>1. c' = d /\ UNCHANGED << modem, saves, fifo >>
    BY <1>3, <1>10 DEF RH
  <2>2. /\ Ctx(b) /\ b.dcount \in 0..1 /\ b.dir = c.dir /\ b.mod = c.mod
        /\ b.state \in { "RECEIVE_HDLC", "LOOK_HDLC", "EMULATE" }
    <3>1. CASE c.state = "BETWEEN_RX" /\ c.code = 3
      BY <1>1, <3>1, StateNames DEF Restart, Ctx, CtxFields
    <3>2. CASE ~(c.state = "BETWEEN_RX" /\ c.code = 3) /\ super = << >>
      <4>1. b = [c EXCEPT !.countdown = 0, !.dcount = 0, !.state = "LOOK_HDLC"]
        BY <3>2, Zenon DEF HdlcRxInit
      <4> HIDE DEF b
      <4> QED
        BY <1>1, <4>1, StateNames DEF Ctx, CtxFields
    <3>3. CASE ~(c.state = "BETWEEN_RX" /\ c.code = 3) /\ super # << >>
      BY <1>1, <3>3, StateNames DEF To, Ctx, CtxFields
    <3> QED
      BY <3>1, <3>2, <3>3
  <2> HIDE DEF b
  <2>3. /\ Ctx(d) /\ d.dcount \in 0..1 /\ d.code = 3 /\ d.dir = c.dir /\ d.mod = c.mod
        /\ d.state \notin DataTx \cup DataRx
    BY <2>2 DEF Ctx, CtxFields, DataTx, DataRx
  <2> HIDE DEF d
  <2> QED
    BY <1>6, <2>1, <2>3
<1> QED
  BY <1>4, <1>5, <1>7, <1>8, <1>9, <1>10 DEF Commands

-----------------------------------------------------------------------------
(***************************************************************************)
(* The host, the line, the end of the call, and the whole.                 *)
(***************************************************************************)

\* A step of the host or of the line.
LEMMA OutsideKeeps ==
  ASSUME SafeInv, UNCHANGED << c, modem, saves, fifo, fx >>, host'.mode = host.mode,
         HostOK(host'), LineOK(line'), reply' \in Replies, tty' \in Seq(Byte)
  PROVE  SafeInv'
<1>1. Typed'
  BY DEF SafeInv, Typed
<1>2. ModemOK' /\ PageOK'
  BY DEF SafeInv, ModemOK, PageOK, FifoOK
<1>3. ModemFits'
  BY DEF SafeInv, ModemFits, Held
<1>4. Asked' = Asked
  BY DEF Asked
<1>5. RoomKept'
  BY <1>4 DEF SafeInv, RoomKept
<1> QED
  BY <1>1, <1>2, <1>3, <1>5 DEF SafeInv

\* A host that says a piece of its message respects the room it was told of.
LEMMA SayKeeps ==
  ASSUME SafeInv, NEW script \in Seq(Byte), NEW n \in Nat, n <= Len(script), NEW sent,
         Say(script, n, sent)
  PROVE  SafeInv'
<1>1. UNCHANGED << c, modem, saves, fifo, fx, line >>
  BY Zenon DEF Say, lower
<1>2. reply' \in Replies
  BY Zenon DEF Say, Replies
<1>3. /\ tty \in Seq(Byte) /\ HostOK(host) /\ LineOK(line)
  BY DEF SafeInv, Typed
<1> DEFINE said == SubSeq(script, 1, n)
           rest == SubSeq(script, n + 1, Len(script))
<1>4. Len(script) \in Nat /\ 1 \in Nat \ { 0 } /\ n + 1 \in Nat \ { 0 } /\ Len(script) <= Len(script)
  OBVIOUS
<1>5. said \in Seq(Byte)
  BY <1>4, PartOf
<1>6. rest \in Seq(Byte)
  BY <1>4, PartOf
<1>7. /\ tty' = tty \o said
      /\ host' = [host EXCEPT !.script = rest, !.owes = FALSE, !.sent = sent]
  BY Zenon DEF Say
<1> HIDE DEF said, rest
<1>8. tty' \in Seq(Byte)
  BY <1>3, <1>5, <1>7
<1>9. HostOK(host') /\ host'.mode = host.mode
  BY <1>3, <1>6, <1>7 DEF HostOK, HostFields
<1>10. LineOK(line')
  BY <1>1, <1>3
<1> QED
  BY <1>1, <1>2, <1>8, <1>9, <1>10, OutsideKeeps

\* The host and the line change nothing of the session.
LEMMA HostKeeps ==
  ASSUME SafeInv, HostStarts \/ HostGoesOn \/ HostAborts \/ LineTurns
  PROVE  SafeInv'
<1>0. Typed /\ HostOK(host) /\ LineOK(line) /\ tty \in Seq(Byte) /\ host.script \in Seq(Byte)
  BY DEF SafeInv, Typed, HostOK
<1>1. CASE HostStarts
  <2>1. PICK m \in IF host.cmd = "TH" THEN Messages ELSE Pages :
          \E n \in Splits \cup { Len(Escaped[m]) } :
            n <= Len(Escaped[m]) /\ Say(Escaped[m], n, Append(host.sent, m))
    BY <1>1 DEF HostStarts
  <2>2. PICK n \in Splits \cup { Len(Escaped[m]) } :
          n <= Len(Escaped[m]) /\ Say(Escaped[m], n, Append(host.sent, m))
    BY <2>1
  <2>3. m \in Messages \cup Pages
    OBVIOUS
  <2>4. Escaped[m] \in Seq(Byte)
    BY <2>3, EscapedBytes
  <2> DEFINE e == Escaped[m]
  <2> HIDE DEF e
  <2>5. n \in Nat
    <3>1. Splits \subseteq Nat
      BY FaxAssumption, Zenon
    <3>2. Len(e) \in Nat
      BY <2>4 DEF e
    <3> QED
      BY <2>2, <3>1, <3>2 DEF e
  <2> QED
    BY <2>2, <2>4, <2>5, SayKeeps
<1>2. CASE HostGoesOn
  <2>1. Say(host.script, Len(host.script), host.sent)
    BY <1>2 DEF HostGoesOn
  <2>2. Len(host.script) \in Nat /\ Len(host.script) <= Len(host.script)
    BY <1>0
  <2> QED
    BY <1>0, <2>1, <2>2, SayKeeps
<1>3. CASE HostAborts
  <2>1. UNCHANGED << c, modem, saves, fifo, fx, line >>
    BY <1>3, Zenon DEF HostAborts, lower
  <2>2. reply' \in Replies
    BY <1>3, Zenon DEF HostAborts, Replies
  <2>3. tty' = << CAN >> /\ host' = [host EXCEPT !.aborted = TRUE]
    BY <1>3, Zenon DEF HostAborts
  <2>4. tty' \in Seq(Byte)
    BY <2>3 DEF CAN, Byte
  <2>5. HostOK(host') /\ host'.mode = host.mode
    BY <1>0, <2>3 DEF HostOK, HostFields
  <2>6. LineOK(line')
    BY <1>0, <2>1
  <2> QED
    BY <2>1, <2>2, <2>4, <2>5, <2>6, OutsideKeeps
<1>4. CASE LineTurns
  <2>1. UNCHANGED << c, modem, saves, fifo, fx, host, tty >>
    BY <1>4, Zenon DEF LineTurns, lower
  <2>2. reply' \in Replies
    BY <1>4, Zenon DEF LineTurns, Replies
  <2> DEFINE t == line.turns + 1
  <2>3. PICK s \in { "silent", "v21", "tail", "data" } :
          line' = [line EXCEPT !.sig = s, !.turns = t]
    <3>1. PICK s \in CASE line.sig = "silent" -> { "v21", "data" } [] line.sig = "v21" -> { "tail" }
                       [] OTHER -> { "silent" } :
            line' = [line EXCEPT !.sig = s, !.turns = t]
      BY <1>4, Zenon DEF LineTurns
    <3>2. s \in { "silent", "v21", "tail", "data" }
      OBVIOUS
    <3> QED
      BY <3>1, <3>2
  <2> HIDE DEF t
  <2>4. LineOK(line')
    BY <1>0, <2>3 DEF LineOK
  <2>5. HostOK(host') /\ host'.mode = host.mode /\ tty' \in Seq(Byte)
    BY <1>0, <2>1
  <2> QED
    BY <2>1, <2>2, <2>4, <2>5, OutsideKeeps
<1> QED
  BY <1>1, <1>2, <1>3, <1>4

\* fax_class1_create, whatever it leaves uninitialised.
LEMMA CreatedRight ==
  ASSUME NEW ans \in BOOLEAN, NEW g \in Garbage
  PROVE  /\ Ctx(Created(ans, g)) /\ Created(ans, g).dcount = 0 /\ Created(ans, g).code = 3
         /\ Created(ans, g).state \in { "ANSWER_TONE", "LOOK_HDLC" }
<1>1. g.dir \in { "none", "rx", "tx" } /\ g.mod \in 0..2 /\ g.lastNul \in BOOLEAN
  <2>1. g \in [dir : { "none", "rx", "tx" }, mod : 0..2, lastNul : BOOLEAN]
    BY FaxAssumption, Zenon
  <2> QED
    BY <2>1
<1> DEFINE s == IF ans THEN "ANSWER_TONE" ELSE "LOOK_HDLC"
           k == ~ans
<1>2. s \in { "ANSWER_TONE", "LOOK_HDLC" } /\ s \in States /\ k \in BOOLEAN
  BY StateNames
<1>3. Created(ans, g) =
        [ state |-> s, prev |-> s,
          countdown |-> 0, delayed |-> "NO_MESSAGE", dcount |-> 0, code |-> 3,
          dir |-> g.dir, mod |-> g.mod, dle |-> FALSE, frame |-> << >>, done |-> FALSE,
          latch |-> FALSE, counter |-> 0, connect |-> -1, enabled |-> FALSE,
          ready |-> FALSE, closed |-> FALSE, lastNul |-> g.lastNul, cng |-> k,
          quiet |-> 0, superCount |-> 0, superIdx |-> 0 ]
  BY Zenon DEF Created
<1> HIDE DEF s, k
<1> DEFINE d == Created(ans, g)
<1> HIDE DEF d
<1>4. DOMAIN d = CtxFields
  BY <1>3 DEF d, CtxFields
<1>5. /\ d.state = s /\ d.prev = s /\ d.delayed = "NO_MESSAGE" /\ d.dcount = 0 /\ d.code = 3
      /\ d.dir = g.dir /\ d.mod = g.mod /\ d.countdown = 0 /\ d.quiet = 0 /\ d.counter = 0
      /\ d.connect = -1 /\ d.superCount = 0 /\ d.superIdx = 0
  BY <1>3 DEF d
<1>6. /\ d.dle = FALSE /\ d.done = FALSE /\ d.latch = FALSE /\ d.enabled = FALSE
      /\ d.ready = FALSE /\ d.closed = FALSE /\ d.lastNul = g.lastNul /\ d.cng = k
      /\ d.frame = << >>
  BY <1>3 DEF d
<1>7. d.counter \in 0..Train /\ d.delayed \in Statuses
  BY <1>5, Sizes DEF Statuses
<1>8. Ctx(d)
  <2>1. /\ d.state \in States /\ d.prev \in States /\ d.dcount \in 0..2 /\ d.code \in Codes \cup { 3 }
        /\ d.dir \in { "none", "rx", "tx" } /\ d.mod \in 0..2
    BY <1>1, <1>2, <1>5
  <2>2. /\ d.countdown \in Int /\ d.quiet \in Nat /\ d.connect \in -1..2 /\ d.superCount \in Int
        /\ d.superIdx \in Nat
    BY <1>5
  <2>3. /\ d.dle \in BOOLEAN /\ d.done \in BOOLEAN /\ d.latch \in BOOLEAN
        /\ d.enabled \in BOOLEAN /\ d.ready \in BOOLEAN /\ d.closed \in BOOLEAN
        /\ d.lastNul \in BOOLEAN /\ d.cng \in BOOLEAN
    BY <1>1, <1>2, <1>6
  <2>4. d.frame \in Seq(Byte)
    BY <1>6, EmptySeq
  <2> QED
    BY <1>4, <1>7, <2>1, <2>2, <2>3, <2>4 DEF Ctx
<1> QED
  BY <1>2, <1>5, <1>8 DEF d

\* The host of a call that begins or has ended.
LEMMA CallerRight ==
  ASSUME NEW ans \in BOOLEAN
  PROVE  HostOK(Caller(ans)) /\ HostOK([Caller(ans) EXCEPT !.mode = "gone"])
<1> DEFINE s == IF ans THEN "TH" ELSE "RH"
<1>1. s \in Commands /\ << >> \in Seq(Byte)
  BY DEF Commands
<1>2. Caller(ans) =
        [ mode |-> "waiting", cmd |-> s, count |-> 0, owes |-> FALSE, script |-> << >>,
          sent |-> << >>, aborted |-> FALSE, cut |-> FALSE, left |-> << >>, stray |-> FALSE ]
  BY Zenon DEF Caller
<1> HIDE DEF s
<1> DEFINE h == Caller(ans)
<1> HIDE DEF h
<1>3. HostOK(h)
  BY <1>1, <1>2 DEF HostOK, HostFields, h
<1>4. HostOK([h EXCEPT !.mode = "gone"])
  BY <1>3 DEF HostOK, HostFields
<1> QED
  BY <1>3, <1>4 DEF h

\* Where no data modem exists nothing can be wrong about it.
LEMMA NothingThere ==
  ASSUME NEW d, Ctx(d), d.dcount = 0, d.code = 3, d.state \in { "ANSWER_TONE", "LOOK_HDLC" }
  PROVE  /\ d.dcount \in 0..1 /\ d.state \notin DataTx \cup DataRx
         /\ NoModem \in [dir : { "none", "rx", "tx" }, mod : 0..2]
         /\ Held(NoModem) = 0 /\ NoModem.dir = "none"
BY HeldRange DEF DataTx, DataRx, NoModem

\* FAX_create, with the garbage of fields it never sets, starts in a safe state.
LEMMA InitSafe == Init => SafeInv
<1> SUFFICES ASSUME Init PROVE SafeInv
  OBVIOUS
<1>1. PICK ans \in BOOLEAN, g \in Garbage : c = Created(ans, g) /\ host = Caller(ans)
  BY Zenon DEF Init
<1>2. /\ Ctx(c) /\ c.dcount = 0 /\ c.code = 3 /\ c.state \in { "ANSWER_TONE", "LOOK_HDLC" }
      /\ HostOK(host)
  BY <1>1, CreatedRight, CallerRight
<1>3. reply \in Replies
  BY Zenon DEF Init, Replies
<1>4. /\ modem = NoModem /\ saves = 0 /\ fifo = NoFifo /\ tty = << >>
      /\ fx = [enable |-> FALSE, want |-> 0]
      /\ line = [sig |-> "silent", turns |-> 0, frames |-> 0]
  BY Zenon DEF Init
<1>5. FxOK(fx) /\ LineOK(line) /\ tty \in Seq(Byte)
  BY <1>4 DEF FxOK, LineOK
<1>6. /\ c.dcount \in 0..1 /\ c.state \notin DataTx \cup DataRx
      /\ NoModem \in [dir : { "none", "rx", "tx" }, mod : 0..2]
      /\ Held(NoModem) = 0 /\ NoModem.dir = "none"
  BY <1>2, NothingThere
<1>7. Typed
  BY <1>2, <1>3, <1>5, <1>6 DEF Typed
<1>8. ModemOK
  BY <1>4, <1>6 DEF ModemOK
<1>9. ModemFits
  BY <1>2, <1>4, <1>6 DEF ModemFits
<1>10. RoomKept /\ PageOK
  BY <1>4, <1>6 DEF RoomKept, PageOK, DataTx
<1> QED
  BY <1>7, <1>8, <1>9, <1>10 DEF SafeInv

\* fax_class1_delete tears down the one modem there is.
LEMMA DeleteKeeps == ASSUME SafeInv, Delete PROVE SafeInv'
<1>1. PICK g \in Garbage : c' = Created(TRUE, g)
  BY Zenon DEF Delete
<1>2. /\ Ctx(c') /\ c'.dcount = 0 /\ c'.code = 3 /\ c'.state \in { "ANSWER_TONE", "LOOK_HDLC" }
  BY <1>1, CreatedRight
<1>3. reply' \in Replies
  BY Zenon DEF Delete, Replies
<1>4. /\ modem' = NoModem /\ fifo' = NoFifo /\ tty' = << >>
      /\ saves' = Deleted("rx").saves /\ host' = [Caller(TRUE) EXCEPT !.mode = "gone"]
      /\ fx' = [enable |-> FALSE, want |-> 0]
      /\ line' = [sig |-> "silent", turns |-> 0, frames |-> 0]
  BY Zenon DEF Delete
<1>5. FxOK(fx') /\ LineOK(line') /\ tty' \in Seq(Byte) /\ saves' = 0 /\ HostOK(host')
  <2>1. HostOK(host')
    BY <1>4, CallerRight
  <2>2. saves' = 0
    BY <1>4, Freed
  <2>3. << >> \in Seq(Byte)
    OBVIOUS
  <2>4. FxOK(fx') /\ LineOK(line')
    BY <1>4 DEF FxOK, LineOK
  <2> QED
    BY <1>4, <2>1, <2>2, <2>3, <2>4
<1>6. /\ c'.dcount \in 0..1 /\ c'.state \notin DataTx \cup DataRx
      /\ NoModem \in [dir : { "none", "rx", "tx" }, mod : 0..2]
      /\ Held(NoModem) = 0 /\ NoModem.dir = "none"
  BY <1>2, NothingThere
<1>7. Typed'
  BY <1>2, <1>3, <1>5, <1>6 DEF Typed
<1>8. ModemOK'
  BY <1>4, <1>5, <1>6 DEF ModemOK
<1>9. Held(modem') = 0
  BY <1>4, <1>6
<1>10. ModemFits'
  BY <1>2, <1>4, <1>5, <1>6, <1>9 DEF ModemFits
<1>11. RoomKept' /\ PageOK'
  BY <1>4, <1>6 DEF RoomKept, PageOK, DataTx
<1> QED
  BY <1>7, <1>8, <1>10, <1>11 DEF SafeInv

\* What the frames are after the steps that leave them alone.
LEMMA SameStayFresh == ASSUME FramesInv, SameFrames PROVE FramesInv'
<1>1. got' = got
  BY NothingMore DEF SameFrames
<1>2. c'.superIdx = c.superIdx /\ super' = super /\ line'.frames = line.frames
  BY DEF SameFrames
<1> QED
  BY <1>1, <1>2 DEF FramesInv

\* A command keeps the superframe only when it is FRH, which reads it on.
LEMMA CommandFrames ==
  ASSUME SafeInv, SafeInv', FramesInv, NEW cmd \in Commands, NEW code \in Args(cmd),
         Command(cmd, code)
  PROVE  FramesInv'
<1>1. got' = got /\ line' = line /\ super' = IF cmd = "RH" THEN super ELSE << >>
  BY Zenon DEF Command
<1>2. Fresh(got, super, c.superIdx, line.frames) /\ Ctx(c) /\ c'.superIdx \in Nat
  BY DEF FramesInv, SafeInv, Typed, Ctx
<1>3. CASE cmd # "RH"
  <2>1. Fresh(got, << >>, c'.superIdx, line.frames)
    BY <1>2, FreshEmptied
  <2> QED
    BY <1>1, <1>3, <2>1 DEF FramesInv
<1>4. CASE cmd = "RH"
  <2> DEFINE b == IF c.state = "BETWEEN_RX" /\ c.code = 3 THEN Restart(c, "RECEIVE_HDLC")
                  ELSE IF super = << >> THEN HdlcRxInit(c, 3)
                  ELSE [To(c, "EMULATE") EXCEPT !.superCount = 2]
  <2>1. c' = [b EXCEPT !.code = 3]
    BY <1>4 DEF Command, Commands, RH
  <2>2. b.superIdx = c.superIdx /\ "superIdx" \in DOMAIN b
    <3>1. /\ Restart(c, "RECEIVE_HDLC").superIdx = c.superIdx
          /\ "superIdx" \in DOMAIN Restart(c, "RECEIVE_HDLC")
      BY <1>2 DEF Restart, Ctx, CtxFields
    <3>2. HdlcRxInit(c, 3).superIdx = c.superIdx /\ "superIdx" \in DOMAIN HdlcRxInit(c, 3)
      BY <1>2 DEF HdlcRxInit, Ctx, CtxFields
    <3>3. /\ [To(c, "EMULATE") EXCEPT !.superCount = 2].superIdx = c.superIdx
          /\ "superIdx" \in DOMAIN [To(c, "EMULATE") EXCEPT !.superCount = 2]
      BY <1>2 DEF To, Ctx, CtxFields
    <3> QED
      BY <3>1, <3>2, <3>3
  <2> HIDE DEF b
  <2>3. c'.superIdx = c.superIdx
    BY <2>1, <2>2
  <2> QED
    BY <1>1, <1>2, <1>4, <2>3 DEF FramesInv
<1> QED
  BY <1>3, <1>4

\* What the host says and the line does gives the host no frame.
LEMMA HostFrames ==
  ASSUME SafeInv, FramesInv, HostStarts \/ HostGoesOn \/ HostAborts \/ LineTurns
  PROVE  FramesInv'
<1>1. CASE HostStarts \/ HostGoesOn \/ HostAborts
  <2>1. UNCHANGED << c, super, line, got >>
    BY <1>1, Zenon DEF HostStarts, HostGoesOn, HostAborts, Say
  <2> QED
    BY <2>1 DEF FramesInv
<1>2. CASE LineTurns
  <2>1. UNCHANGED << c, super, got >>
    BY <1>2, Zenon DEF LineTurns
  <2> DEFINE t == line.turns + 1
  <2>2. \E s : line' = [line EXCEPT !.sig = s, !.turns = t]
    BY <1>2, Zenon DEF LineTurns
  <2> HIDE DEF t
  <2>3. line'.frames = line.frames
    BY <2>2 DEF SafeInv, Typed, LineOK
  <2> QED
    BY <2>1, <2>3 DEF FramesInv
<1> QED
  BY <1>1, <1>2

\* A call without frames.
LEMMA NoFrames ==
  ASSUME NEW i \in Nat
  PROVE  Fresh(<< >>, << >>, i, 0)
<1>1. << >> \in Seq(Frame) /\ Len(<< >>) = 0
  OBVIOUS
<1>2. \A k \in 1..Len(<< >>) : FALSE
  BY <1>1
<1> QED
  BY <1>1, <1>2 DEF Fresh

\* A session that is deleted gives no frame.
LEMMA DeleteFrames == ASSUME SafeInv', Delete PROVE FramesInv'
<1>1. got' = << >> /\ super' = << >> /\ line' = [sig |-> "silent", turns |-> 0, frames |-> 0]
  BY Zenon DEF Delete
<1>2. c'.superIdx \in Nat
  BY DEF SafeInv, Typed, Ctx
<1>3. line'.frames = 0
  BY <1>1
<1> QED
  BY <1>1, <1>2, <1>3, NoFrames DEF FramesInv

\* A new session has given no frame.
LEMMA InitFrames == ASSUME SafeInv, Init PROVE FramesInv
<1>1. got = << >> /\ super = << >> /\ line = [sig |-> "silent", turns |-> 0, frames |-> 0]
  BY Zenon DEF Init
<1>2. c.superIdx \in Nat
  BY DEF SafeInv, Typed, Ctx
<1>3. line.frames = 0
  BY <1>1
<1> QED
  BY <1>1, <1>2, <1>3, NoFrames DEF FramesInv

\* The whole invariant, and every step keeps it.
FullInv == SafeInv /\ FramesInv

\* The inductive invariant holds of a new session.
LEMMA InitFull == Init => FullInv
BY InitSafe, InitFrames DEF FullInv

\* Every step keeps the inductive invariant.
LEMMA StepFull == FullInv /\ [Next]_vars => FullInv'
<1> SUFFICES ASSUME SafeInv, FramesInv, [Next]_vars PROVE SafeInv' /\ FramesInv'
  BY DEF FullInv
<1>1. CASE Pump
  <2>1. CASE HdlcReceive
    BY <2>1, HdlcReceiveKeeps
  <2>2. CASE HdlcReceiveBetween
    BY <2>2, HdlcReceiveBetweenKeeps
  <2>3. CASE HdlcEmulate
    BY <2>3, HdlcEmulateKeeps
  <2>4. CASE ~(HdlcReceive \/ HdlcReceiveBetween \/ HdlcEmulate)
    <3>1. SafeInv' /\ SameFrames
      BY <1>1, <2>4, IdleKeeps, AnswerToneKeeps, SendSilenceKeeps, ReceiveSilenceKeeps,
         SilenceBeforePreambleKeeps, PreambleKeeps, SendHdlcBufferKeeps,
         SendHdlcBetweenKeeps, LookHdlcKeeps, SilenceBeforeOnesKeeps, ScrambledOnesKeeps,
         TxDataKeeps, TxNullsKeeps, RxLookKeeps, RxDataKeeps DEF Pump
    <3> QED
      BY <3>1, SameStayFresh
  <2> QED
    BY <2>1, <2>2, <2>3, <2>4
<1>2. CASE \E cmd \in Commands : \E code \in Args(cmd) : Command(cmd, code)
  BY <1>2, CommandKeeps, CommandFrames
<1>3. CASE HostStarts \/ HostGoesOn \/ HostAborts \/ LineTurns
  BY <1>3, HostKeeps, HostFrames
<1>4. CASE Delete
  BY <1>4, DeleteKeeps, DeleteFrames
<1>5. CASE UNCHANGED vars
  <2>1. UNCHANGED << c, modem, saves, fifo, super, fx, host, line, reply, tty, got >>
    BY <1>5 DEF vars, lower
  <2>2. /\ HostOK(host') /\ host'.mode = host.mode /\ LineOK(line') /\ reply' \in Replies
        /\ tty' \in Seq(Byte)
    BY <2>1 DEF SafeInv, Typed
  <2>3. SafeInv'
    BY <2>1, <2>2, OutsideKeeps
  <2> QED
    BY <2>1, <2>3 DEF FramesInv
<1> QED
  BY <1>1, <1>2, <1>3, <1>4, <1>5 DEF Next

\* The session has the types of its state, the data modem that it believes it
\* has (class1.c:1026), and asks the host for no more than tx_fifo can take,
\* whatever the host, the line and the uninitialised fields do.
THEOREM SessionSafe == Spec => []SessionInv
<1>1. FullInv => SessionInv
  BY SafeEnough DEF FullInv
<1> QED
  BY <1>1, InitFull, StepFull, PTL DEF Spec

\* No received frame reaches the host twice, live or out of the superframe,
\* although superframe_read_idx is not reset when a command empties the
\* superframe (cHDLCrx.c).
THEOREM FramesOnce == Spec => []NoFrameTwice
<1>1. FullInv => NoFrameTwice
  <2> SUFFICES ASSUME FullInv, NEW i \in DOMAIN got, NEW j \in DOMAIN got, i # j
               PROVE  got[i].id # got[j].id
    BY DEF NoFrameTwice
  <2>1. got \in Seq(Frame) /\ \A k, l \in 1..Len(got) : k # l => got[k].id # got[l].id
    BY DEF FullInv, FramesInv, Fresh
  <2>2. i \in 1..Len(got) /\ j \in 1..Len(got)
    BY <2>1
  <2> QED
    BY <2>1, <2>2
<1> QED
  BY <1>1, InitFull, StepFull, PTL DEF Spec

-----------------------------------------------------------------------------
(***************************************************************************)
(* One reply per command.                                                  *)
(***************************************************************************)

\* The states in which a command is served.
Serves(cmd, s) ==
  \/ s = "IDLE"
  \/ cmd = "TH" /\ s \in HdlcTx \cup { "ANSWER_TONE" }
  \/ cmd = "RH" /\ s \in HdlcRx
  \/ cmd = "TM" /\ s \in DataTx
  \/ cmd = "RM" /\ s \in DataRx \cup (HdlcRx \ { "EMULATE" })
  \/ cmd = "TS" /\ s = "SEND_SILENCE"
  \/ cmd = "RS" /\ s = "RECEIVE_SILENCE"

\* The states from which no reply comes: of itself BETWEEN_RX reports nothing,
\* and a page that goes on after it was reported failed is a known exception.
Rests(d) ==
  \/ d.state \in { "IDLE", "BETWEEN_RX", "TX_DATA", "TX_NULLS" }
  \/ d.state = "SEND_SILENCE" /\ d.countdown <= 0

\* What _handle_hdlc_input has read of a frame.
Sender(d) == [dle |-> d.dle, done |-> FALSE, buf |-> d.frame]

\* Whose turn it is in a transmission of frames: the host has written nothing
\* that is unread until it is asked for a frame, and nothing beyond its end.
\* r is what it has still to say, or has said and the pump has not read.
FrameTurn(d, r, owes) ==
  /\ owes => r = << >>
  /\ \/ d.state \in { "ANSWER_TONE", "SILENCE_BEFORE_PREAMBLE", "SEND_HDLC" }
     \/ d.state = "BETWEEN_TX" /\ d.countdown <= 2
     \/ d.state = "PREAMBLE" /\ d.done
     => r = << >> /\ ~owes
  /\ d.state = "SILENCE_BEFORE_PREAMBLE" => ~d.done
  /\ d.state \in { "PREAMBLE", "BETWEEN_TX" } /\ r # << >> =>
       \E out : Closes(Sender(d), r, out)

\* The inductive invariant of the replies: a state belongs to the command, a
\* pending status to a state that rests, and a session whose host has its reply
\* is at rest unless such a status came too early.
RepliesInv ==
  host.mode # "gone" =>
    /\ Serves(host.cmd, c.state)
    /\ c.dcount > 0 => Ends(c.delayed) /\ (host.stray \/ c.state \in { "IDLE", "BETWEEN_RX" })
    /\ host.mode = "command" =>
         /\ tty = << >> /\ host.script = << >> /\ ~host.owes
         /\ host.stray \/ Rests(c)
    /\ DelayedOwn
    /\ host.owes \/ host.script # << >> => host.cmd \in { "TH", "TM" }
    /\ host.cmd \in { "RH", "RM" } /\ tty # << >> => host.aborted
    /\ host.cmd = "TH" => FrameTurn(c, tty \o host.script, host.owes)

\* What the block of a handler must leave: the context d and the status st.
Handled(d, st) ==
  /\ Ctx(d) /\ st \in Statuses /\ Serves(host.cmd, d.state)
  /\ d.dcount \in { c.dcount, 2 }
  /\ d.dcount > 0 => Ends(d.delayed) /\ (host.stray \/ d.state \in { "IDLE", "BETWEEN_RX" })
  /\ host.mode = "command" \/ Ends(st) => host.stray \/ (Rests(d) /\ (d.dcount = 2 => host.aborted))
  /\ host.mode = "command" =>
       host.stray \/ c.dcount = 1 \/ st \in { "NO_MESSAGE", "NO_REPLY" }
         \/ c.state \in { "TX_DATA", "TX_NULLS" }
  /\ host.cmd = "TH" =>
       /\ FrameTurn(d, Unread \o host.script, host.owes)
       /\ st = "CONNECT" => FrameTurn(d, Unread \o host.script, TRUE)

\* What the host has written is read from its front.
LEMMA TakenFront ==
  ASSUME Typed
  PROVE  /\ tty = Taken \o Unread
         /\ Taken \in Seq(Byte) /\ Unread \in Seq(Byte)
         /\ tty = << >> => Taken = << >> /\ Unread = << >>
<1>1. /\ Asked \in Nat /\ Taken \in Seq(Byte) /\ Unread \in Seq(Byte) /\ tty \in Seq(Byte)
  BY TakenBytes DEF Typed
<1> DEFINE n == IF Asked < Len(tty) THEN Asked ELSE Len(tty)
<1>2. n \in Nat /\ n <= Len(tty) /\ Len(tty) \in Nat
  BY <1>1
<1>3. Taken = SubSeq(tty, 1, n)
  BY DEF Taken
<1> HIDE DEF n
<1>4. Len(Taken) = n
  BY <1>1, <1>2, <1>3
<1>5. Unread = SubSeq(tty, n + 1, Len(tty))
  BY <1>4 DEF Unread
<1>6. tty = SubSeq(tty, 1, n) \o SubSeq(tty, n + 1, Len(tty))
  <2>1. 1 \in 1..(Len(tty) + 1) /\ n \in 0..Len(tty) /\ Len(tty) \in n..Len(tty)
        /\ n \in (1 - 1)..Len(tty)
    BY <1>2
  <2>2. SubSeq(tty, 1, n) \o SubSeq(tty, n + 1, Len(tty)) = SubSeq(tty, 1, Len(tty))
    BY <1>1, <2>1, ConcatAdjacentSubSeq
  <2> QED
    BY <1>1, <2>2, SubSeqFull
<1>7. tty = Taken \o Unread
  BY <1>3, <1>5, <1>6
<1>8. ASSUME tty = << >> PROVE Taken = << >> /\ Unread = << >>
  <2> DEFINE a == Taken
             b == Unread
  <2>0. a \in Seq(Byte) /\ b \in Seq(Byte) /\ a \o b = << >>
    BY <1>1, <1>7, <1>8
  <2> HIDE DEF a, b
  <2>1. Len(a \o b) = Len(a) + Len(b) /\ Len(a \o b) = 0
    BY <2>0
  <2>2. a = << >> /\ b = << >>
    BY <2>0, <2>1
  <2> QED
    BY <2>2 DEF a, b
<1> QED
  BY <1>1, <1>7, <1>8

\* Whose turn it is depends on these fields only.
LEMMA SameTurn ==
  ASSUME NEW d, NEW e, NEW r, NEW owes, FrameTurn(d, r, owes),
         e.state = d.state, e.countdown = d.countdown, e.dle = d.dle, e.frame = d.frame,
         e.done = d.done
  PROVE  FrameTurn(e, r, owes)
<1>1. Sender(e) = Sender(d)
  BY Zenon DEF Sender
<1> QED
  BY <1>1, Zenon DEF FrameTurn

\* A frame has been said, or none is due.
LEMMA NothingToSay ==
  ASSUME NEW d, NEW r, NEW owes, FrameTurn(d, r, owes)
  PROVE  FrameTurn(d, << >>, FALSE)
BY Zenon DEF FrameTurn

\* The fields of the context that a block leaves as its handler left them.
LEMMA BlockContext ==
  ASSUME NEW d, Ctx(d), NEW st, NEW out, NEW want, Block(d, st, out, want)
  PROVE  /\ c'.state = d.state /\ c'.countdown = d.countdown /\ c'.dle = d.dle
         /\ c'.frame = d.frame /\ c'.done = d.done /\ c'.delayed = d.delayed
         /\ c'.dcount = IF d.dcount > 0 THEN d.dcount - 1 ELSE 0
<1>1. c' = [d EXCEPT !.prev = d.state, !.dcount = IF d.dcount > 0 THEN d.dcount - 1 ELSE 0]
  BY DEF Block
<1> QED
  BY <1>1 DEF Ctx, CtxFields

\* The host as a block leaves it, by the status it hears.
Heeds(status) ==
  /\ host'.cmd = host.cmd /\ host'.aborted = host.aborted /\ host'.stray = host.stray
  /\ \/ /\ host.mode = "command" \/ ~(Ends(status) \/ status = "CONNECT")
        /\ host'.mode = host.mode /\ host'.owes = host.owes /\ host'.script = host.script
        /\ tty' = Unread
     \/ /\ status = "CONNECT" /\ host'.mode = "online" /\ host'.script = host.script
        /\ host'.owes = (host.cmd = "TH" \/ (host.cmd = "TM" /\ host.mode = "waiting"))
        /\ tty' = Unread
     \/ /\ Ends(status) /\ host'.mode = "command" /\ host'.owes = FALSE
        /\ host'.script = << >> /\ tty' = << >>

\* It hears the delayed status when that is due, and the handler's otherwise.
LEMMA BlockHeard ==
  ASSUME Typed, NEW d, Ctx(d), NEW st, NEW out, NEW want, Block(d, st, out, want)
  PROVE  \E status \in { IF d.dcount = 1 THEN d.delayed ELSE st } :
           /\ Heeds(status)
           /\ reply' = IF status \in { "NO_MESSAGE", "NO_REPLY" } THEN "" ELSE status
<1>1. PICK status : /\ status = IF d.dcount = 1 THEN d.delayed ELSE st
                    /\ reply' = IF status \in { "NO_MESSAGE", "NO_REPLY" } THEN "" ELSE status
                    /\ HostHears(status)
  BY DEF Block
<1> DEFINE o1 == host.cmd = "TH" \/ (host.cmd = "TM" /\ host.mode = "waiting")
           s1 == IF host.cmd = "TH" /\ (host.script # << >> \/ Unread # << >>)
                 THEN Front(host.sent) ELSE host.sent
<1>2. \/ /\ host.mode = "command" \/ ~(Ends(status) \/ status = "CONNECT")
         /\ host' = host /\ tty' = Unread
      \/ /\ host' = [host EXCEPT !.mode = "online", !.owes = o1] /\ tty' = Unread
         /\ status = "CONNECT"
      \/ /\ host' = [host EXCEPT !.mode = "command", !.owes = FALSE, !.script = << >>,
                                  !.sent = s1]
         /\ tty' = << >> /\ Ends(status)
  BY <1>1, Zenon DEF HostHears
<1> HIDE DEF o1, s1
<1>3. DOMAIN host = HostFields
  BY DEF Typed, HostOK
<1>4. Heeds(status)
  <2>1. CASE /\ host.mode = "command" \/ ~(Ends(status) \/ status = "CONNECT")
             /\ host' = host /\ tty' = Unread
    BY <2>1, Zenon DEF Heeds
  <2>2. CASE /\ host' = [host EXCEPT !.mode = "online", !.owes = o1] /\ tty' = Unread
             /\ status = "CONNECT"
    <3>1. /\ host'.cmd = host.cmd /\ host'.aborted = host.aborted /\ host'.stray = host.stray
          /\ host'.mode = "online" /\ host'.script = host.script /\ host'.owes = o1
      BY <1>3, <2>2 DEF HostFields
    <3> QED
      BY <2>2, <3>1, Zenon DEF Heeds, o1
  <2>3. CASE /\ host' = [host EXCEPT !.mode = "command", !.owes = FALSE, !.script = << >>,
                                     !.sent = s1]
             /\ tty' = << >> /\ Ends(status)
    <3>1. /\ host'.cmd = host.cmd /\ host'.aborted = host.aborted /\ host'.stray = host.stray
          /\ host'.mode = "command" /\ host'.script = << >> /\ host'.owes = FALSE
      BY <1>3, <2>3 DEF HostFields
    <3> QED
      BY <2>3, <3>1, Zenon DEF Heeds
  <2> QED
    BY <1>2, <2>1, <2>2, <2>3
<1> QED
  BY <1>1, <1>4

\* A block keeps the invariant of the replies, and tells the host what it did
\* not ask for only in the known ways, when its handler does.
LEMMA BlockReplies ==
  ASSUME Typed, RepliesInv, host.mode # "gone", NEW d, NEW st, NEW out, NEW want,
         Block(d, st, out, want), Handled(d, st)
  PROVE  RepliesInv' /\ UnaskedKnown
<1>1. Ctx(d) /\ Ctx(c) /\ c.dcount \in 0..1 /\ d.dcount \in { c.dcount, 2 } /\ st \in Statuses
  BY DEF Handled, Typed
<1>2. /\ c'.state = d.state /\ c'.countdown = d.countdown /\ c'.dle = d.dle
      /\ c'.frame = d.frame /\ c'.done = d.done /\ c'.delayed = d.delayed
      /\ c'.dcount = IF d.dcount > 0 THEN d.dcount - 1 ELSE 0
  BY <1>1, BlockContext
<1>3. PICK status : /\ status = IF d.dcount = 1 THEN d.delayed ELSE st
                    /\ Heeds(status)
                    /\ reply' = IF status \in { "NO_MESSAGE", "NO_REPLY" } THEN "" ELSE status
  BY <1>1, BlockHeard
<1>4. /\ host'.cmd = host.cmd /\ host'.aborted = host.aborted /\ host'.stray = host.stray
      /\ \/ /\ host.mode = "command" \/ ~(Ends(status) \/ status = "CONNECT")
            /\ host'.mode = host.mode /\ host'.owes = host.owes /\ host'.script = host.script
            /\ tty' = Unread
         \/ /\ status = "CONNECT" /\ host'.mode = "online" /\ host'.script = host.script
            /\ host'.owes = (host.cmd = "TH" \/ (host.cmd = "TM" /\ host.mode = "waiting"))
            /\ tty' = Unread
         \/ /\ Ends(status) /\ host'.mode = "command" /\ host'.owes = FALSE
            /\ host'.script = << >> /\ tty' = << >>
  BY <1>3, Zenon DEF Heeds
<1>5. d.dcount = 1 => Ends(status) /\ c'.dcount = 0 /\ c.dcount = 1
  <2> SUFFICES ASSUME d.dcount = 1 PROVE Ends(status) /\ c'.dcount = 0 /\ c.dcount = 1
    OBVIOUS
  <2>1. status = d.delayed
    BY <1>3, Zenon
  <2>2. d.dcount > 0 => Ends(d.delayed)
    BY Zenon DEF Handled
  <2> QED
    BY <1>1, <1>2, <2>1, <2>2
<1>6. d.dcount # 1 => status = st
  BY <1>3, Zenon
<1>7. host'.mode = "command" => (host.mode = "command" \/ Ends(status))
  BY <1>4
<1>8. d.dcount > 0 => Ends(d.delayed) /\ (host.stray \/ d.state \in { "IDLE", "BETWEEN_RX" })
  BY DEF Handled
<1>9. Serves(host'.cmd, c'.state)
  BY <1>2, <1>4, Zenon DEF Handled
<1>10. c'.dcount > 0 => Ends(c'.delayed) /\ (host'.stray \/ c'.state \in { "IDLE", "BETWEEN_RX" })
  BY <1>1, <1>2, <1>4, <1>8
<1>11. host'.mode = "command" => host'.stray \/ Rests(c')
  <2>1. CASE d.dcount = 1
    BY <1>2, <1>4, <1>8, <2>1 DEF Rests
  <2>2. CASE d.dcount # 1
    <3>1. Rests(d) => Rests(c')
      BY <1>2, Zenon DEF Rests
    <3> QED
      BY <1>4, <1>6, <1>7, <2>2, <3>1, Zenon DEF Handled
  <2> QED
    BY <2>1, <2>2
<1>12. DelayedOwn'
  <2> SUFFICES ASSUME host'.mode = "command", c'.dcount > 0
               PROVE  host'.aborted \/ host'.stray
    BY DEF DelayedOwn
  <2>1. d.dcount = 2
    <3>1. d.dcount \in { 0, 1, 2 }
      BY <1>1
    <3>2. d.dcount # 0
      BY <1>2
    <3> QED
      BY <1>5, <3>1, <3>2
  <2>2. status = st
    BY <1>6, <2>1
  <2> QED
    BY <1>4, <1>7, <2>1, <2>2, Zenon DEF Handled
<1>13. tty = << >> => Unread = << >>
  BY TakenFront
<1>14. /\ host.mode = "command" => tty = << >> /\ host.script = << >> /\ ~host.owes
       /\ host.owes \/ host.script # << >> => host.cmd \in { "TH", "TM" }
       /\ host.cmd \in { "RH", "RM" } /\ tty # << >> => host.aborted
  BY Zenon DEF RepliesInv
<1>15. ~Ends("CONNECT")
  BY DEF Ends
<1>16. host'.mode = "command" => tty' = << >> /\ host'.script = << >> /\ ~host'.owes
  BY <1>4, <1>13, <1>14
<1>17. host'.owes \/ host'.script # << >> => host'.cmd \in { "TH", "TM" }
  BY <1>4, <1>14
<1>18. host'.cmd \in { "RH", "RM" } /\ tty' # << >> => host'.aborted
  BY <1>4, <1>13, <1>14
<1>19. host'.cmd = "TH" => FrameTurn(c', tty' \o host'.script, host'.owes)
  <2> SUFFICES ASSUME host.cmd = "TH" PROVE FrameTurn(c', tty' \o host'.script, host'.owes)
    BY <1>4
  <2>1. /\ FrameTurn(d, Unread \o host.script, host.owes)
        /\ st = "CONNECT" => FrameTurn(d, Unread \o host.script, TRUE)
    BY Zenon DEF Handled
  <2>2. /\ FrameTurn(c', Unread \o host.script, host.owes)
        /\ st = "CONNECT" => FrameTurn(c', Unread \o host.script, TRUE)
    BY <1>2, <2>1, SameTurn
  <2>3. FrameTurn(c', << >>, FALSE)
    BY <2>2, NothingToSay
  <2>4. << >> \o << >> = << >>
    OBVIOUS
  <2>5. status = "CONNECT" => st = "CONNECT"
    BY <1>5, <1>6, <1>15
  <2>6. CASE status = "CONNECT" /\ tty' = Unread /\ host'.owes = TRUE /\ host'.script = host.script
    BY <2>2, <2>5, <2>6, Zenon
  <2>7. CASE host'.owes = host.owes /\ host'.script = host.script /\ tty' = Unread
    BY <2>2, <2>7, Zenon
  <2>8. CASE host'.owes = FALSE /\ host'.script = << >> /\ tty' = << >>
    BY <2>3, <2>4, <2>8, Zenon
  <2> QED
    BY <1>4, <2>6, <2>7, <2>8
<1>20. RepliesInv'
  BY <1>9, <1>10, <1>11, <1>12, <1>16, <1>17, <1>18, <1>19, Zenon DEF RepliesInv
<1>21. UnaskedKnown
  <2> SUFFICES ASSUME host.mode = "command", reply' # "", c.dcount # 1
               PROVE  host.stray \/ c.state \in { "TX_DATA", "TX_NULLS" }
    BY Zenon DEF UnaskedKnown
  <2>1. status = st
    BY <1>5, <1>6
  <2>2. status \notin { "NO_MESSAGE", "NO_REPLY" }
    BY <1>3, Zenon
  <2> QED
    BY <2>1, <2>2, Zenon DEF Handled
<1> QED
  BY <1>20, <1>21

\* A handler that sets no delayed status.
LEMMA HandledSame ==
  ASSUME Typed, RepliesInv, host.mode # "gone", NEW d, Ctx(d), NEW st \in Statuses,
         d.dcount = c.dcount, d.delayed = c.delayed, Serves(host.cmd, d.state),
         c.state \in { "IDLE", "BETWEEN_RX" } => d.state \in { "IDLE", "BETWEEN_RX" },
         Ends(st) => Rests(d),
         host.mode = "command" /\ Rests(c) =>
           /\ Rests(d)
           /\ st \in { "NO_MESSAGE", "NO_REPLY" } \/ c.state \in { "TX_DATA", "TX_NULLS" },
         host.cmd = "TH" =>
           /\ FrameTurn(d, Unread \o host.script, host.owes)
           /\ st = "CONNECT" => FrameTurn(d, Unread \o host.script, TRUE)
  PROVE  Handled(d, st)
<1>1. c.dcount \in 0..1
  BY DEF Typed
<1>2. d.dcount \in { c.dcount, 2 } /\ d.dcount # 2
  BY <1>1
<1>3. /\ c.dcount > 0 => Ends(c.delayed) /\ (host.stray \/ c.state \in { "IDLE", "BETWEEN_RX" })
      /\ host.mode = "command" => host.stray \/ Rests(c)
  BY Zenon DEF RepliesInv
<1>4. d.dcount > 0 => Ends(d.delayed) /\ (host.stray \/ d.state \in { "IDLE", "BETWEEN_RX" })
  BY <1>3, Zenon
<1>5. host.mode = "command" \/ Ends(st) => host.stray \/ (Rests(d) /\ (d.dcount = 2 => host.aborted))
  BY <1>2, <1>3, Zenon
<1>6. host.mode = "command" =>
       host.stray \/ c.dcount = 1 \/ st \in { "NO_MESSAGE", "NO_REPLY" }
         \/ c.state \in { "TX_DATA", "TX_NULLS" }
  BY <1>3, Zenon
<1> QED
  BY <1>2, <1>4, <1>5, <1>6, Zenon DEF Handled

\* One that sets one, in a state of the receiver that does not rest.
LEMMA HandledDelayed ==
  ASSUME Typed, RepliesInv, host.mode # "gone", NEW d, Ctx(d), NEW st \in Statuses,
         d.dcount = 2, Ends(d.delayed), d.state \in { "IDLE", "BETWEEN_RX" },
         Serves(host.cmd, d.state), ~Rests(c), host.cmd # "TH",
         Ends(st) => host.aborted
  PROVE  Handled(d, st)
<1>1. host.mode = "command" => host.stray
  BY Zenon DEF RepliesInv
<1>2. Rests(d)
  BY Zenon DEF Rests
<1>3. d.dcount \in { c.dcount, 2 }
  OBVIOUS
<1> QED
  BY <1>1, <1>2, <1>3, Zenon DEF Handled

\* The command of a state that is not idle.
LEMMA ServedBy ==
  ASSUME Typed, RepliesInv, host.mode # "gone"
  PROVE  /\ c.state \in HdlcTx \cup { "ANSWER_TONE" } => host.cmd = "TH"
         /\ c.state \in HdlcRx => host.cmd \in { "RH", "RM" }
         /\ c.state = "EMULATE" => host.cmd = "RH"
         /\ c.state \in DataTx => host.cmd = "TM"
         /\ c.state \in DataRx => host.cmd = "RM"
         /\ c.state = "SEND_SILENCE" => host.cmd = "TS"
         /\ c.state = "RECEIVE_SILENCE" => host.cmd = "RS"
<1>1. Serves(host.cmd, c.state)
  BY Zenon DEF RepliesInv
<1> QED
  BY <1>1 DEF Serves, HdlcTx, HdlcRx, DataTx, DataRx

\* The host's turn with nothing to be read.
LEMMA TurnQuiet ==
  ASSUME NEW d, d.state = "SILENCE_BEFORE_PREAMBLE" => ~d.done
  PROVE  /\ FrameTurn(d, << >>, FALSE)
         /\ \/ d.state = "IDLE" \/ (d.state = "PREAMBLE" /\ ~d.done)
            \/ (d.state = "BETWEEN_TX" /\ ~(d.countdown <= 2))
            => FrameTurn(d, << >>, TRUE)
BY Zenon DEF FrameTurn

\* What is left to read, of nothing.
LEMMA ReadFirst ==
  ASSUME Typed
  PROVE  /\ tty \o host.script = Taken \o (Unread \o host.script)
         /\ Unread \o host.script \in Seq(Byte) /\ host.script \in Seq(Byte)
         /\ Taken \in Seq(Byte)
         /\ tty \o host.script = << >> =>
              Taken = << >> /\ Unread \o host.script = << >> /\ tty = << >> /\ host.script = << >>
<1> DEFINE a == Taken
           b == Unread
           s == host.script
<1>1. /\ tty = a \o b /\ a \in Seq(Byte) /\ b \in Seq(Byte) /\ s \in Seq(Byte)
      /\ tty = << >> => a = << >> /\ b = << >>
  BY TakenFront DEF Typed, HostOK
<1> HIDE DEF a, b, s
<1>2. tty \o s = a \o (b \o s)
  BY <1>1, ConcatAssociative
<1>3. b \o s \in Seq(Byte)
  BY <1>1
<1>4. ASSUME tty \o s = << >> PROVE tty = << >> /\ s = << >>
  <2>1. tty \in Seq(Byte)
    BY <1>1
  <2>2. Len(tty \o s) = Len(tty) + Len(s) /\ Len(tty \o s) = 0
    BY <1>1, <1>4, <2>1
  <2> QED
    BY <1>1, <2>1, <2>2
<1>5. << >> \o << >> = << >>
  OBVIOUS
<1>6. tty \o s = << >> => a = << >> /\ b \o s = << >>
  BY <1>1, <1>4, <1>5
<1> QED
  BY <1>1, <1>2, <1>3, <1>4, <1>6 DEF a, b, s

\* An idle session reads what the host writes and says nothing.
LEMMA IdleReplies ==
  ASSUME SafeInv, RepliesInv, Idle
  PROVE  RepliesInv' /\ UnaskedKnown
<1>1. host.mode # "gone" /\ c.state = "IDLE" /\ Block(c, "NO_MESSAGE", << >>, Len(Taken))
  BY DEF Idle, Running
<1>2. Typed /\ Ctx(c)
  BY Found
<1>3. "NO_MESSAGE" \in Statuses /\ ~Ends("NO_MESSAGE") /\ "NO_MESSAGE" # "CONNECT"
  BY DEF Statuses, Ends
<1>4. host.cmd = "TH" => FrameTurn(c, Unread \o host.script, host.owes)
  <2>1. host.cmd = "TH" => (host.owes => tty \o host.script = << >>)
    BY <1>1, Zenon DEF RepliesInv, FrameTurn
  <2>2. tty \o host.script = << >> => Unread \o host.script = << >>
    BY <1>2, ReadFirst
  <2>3. c.state \notin { "ANSWER_TONE", "SILENCE_BEFORE_PREAMBLE", "SEND_HDLC", "BETWEEN_TX",
                        "PREAMBLE" }
    BY <1>1
  <2> QED
    BY <2>1, <2>2, <2>3, Zenon DEF FrameTurn
<1>5. Serves(host.cmd, c.state) /\ Rests(c)
  BY <1>1, Zenon DEF Serves, Rests
<1>6. Handled(c, "NO_MESSAGE")
  BY <1>1, <1>2, <1>3, <1>4, <1>5, HandledSame
<1> QED
  BY <1>1, <1>2, <1>6, BlockReplies

\* FTS ends once, when its count does.
LEMMA SendSilenceReplies ==
  ASSUME SafeInv, RepliesInv, SendSilence
  PROVE  RepliesInv' /\ UnaskedKnown
<1> DEFINE d == [c EXCEPT !.countdown = IF c.countdown >= 0 THEN c.countdown - 1 ELSE -1]
           st == IF c.countdown = 1 THEN "OK" ELSE "NO_MESSAGE"
<1>1. host.mode # "gone" /\ c.state = "SEND_SILENCE" /\ Block(d, st, << >>, Len(Taken))
  BY DEF SendSilence, Running
<1>2. Typed /\ Ctx(c) /\ c.countdown \in Int
  BY Found DEF Ctx
<1>3. /\ Ctx(d) /\ d.state = "SEND_SILENCE" /\ d.dcount = c.dcount /\ d.delayed = c.delayed
      /\ d.countdown = IF c.countdown >= 0 THEN c.countdown - 1 ELSE -1
  BY <1>1, <1>2 DEF Ctx, CtxFields
<1>4. host.cmd = "TS"
  BY <1>1, <1>2, ServedBy
<1>5. st \in Statuses /\ st # "CONNECT" /\ (Ends(st) => c.countdown = 1)
      /\ (c.countdown # 1 => st = "NO_MESSAGE")
  BY DEF Statuses, Ends
<1> HIDE DEF d, st
<1>6. Serves(host.cmd, d.state) /\ host.cmd # "TH" /\ c.state \notin { "IDLE", "BETWEEN_RX" }
  BY <1>1, <1>3, <1>4 DEF Serves
<1>7. Ends(st) => Rests(d)
  BY <1>2, <1>3, <1>5 DEF Rests
<1>8. Rests(c) => Rests(d) /\ st = "NO_MESSAGE"
  BY <1>1, <1>2, <1>3, <1>5 DEF Rests
<1>9. Handled(d, st)
  BY <1>1, <1>2, <1>3, <1>5, <1>6, <1>7, <1>8, HandledSame
<1> QED
  BY <1>1, <1>2, <1>9, BlockReplies

\* FRS ends once, and is idle then.
LEMMA ReceiveSilenceReplies ==
  ASSUME SafeInv, RepliesInv, ReceiveSilence
  PROVE  RepliesInv' /\ UnaskedKnown
<1> DEFINE q == c.quiet + 1
           d == IF Taken # << >> THEN To(c, "IDLE")
                ELSE IF line.sig \in { "v21", "data" } THEN [c EXCEPT !.quiet = 0]
                ELSE IF q >= c.countdown THEN [To(c, "IDLE") EXCEPT !.quiet = q]
                ELSE [c EXCEPT !.quiet = q]
           st == IF Taken # << >> THEN "OK"
                 ELSE IF line.sig \in { "v21", "data" } THEN "NO_MESSAGE"
                 ELSE IF q >= c.countdown THEN "OK" ELSE "NO_MESSAGE"
           want == IF Taken # << >> THEN Len(Taken)
                   ELSE IF line.sig \in { "v21", "data" } THEN 5 ELSE 0
<1>1. host.mode # "gone" /\ c.state = "RECEIVE_SILENCE" /\ Block(d, st, << >>, want)
  BY Zenon DEF ReceiveSilence, Running
<1>2. Typed /\ Ctx(c) /\ c.quiet \in Nat
  BY Found DEF Ctx
<1>3. /\ Ctx(d) /\ d.dcount = c.dcount /\ d.delayed = c.delayed
      /\ d.state = IF st = "OK" THEN "IDLE" ELSE "RECEIVE_SILENCE"
  BY <1>1, <1>2 DEF Ctx, CtxFields, To, States
<1>4. host.cmd = "RS"
  BY <1>1, <1>2, ServedBy
<1>5. st \in Statuses /\ st # "CONNECT" /\ (Ends(st) => st = "OK")
  BY DEF Statuses, Ends
<1> HIDE DEF d, st, want
<1>6. Serves(host.cmd, d.state) /\ host.cmd # "TH" /\ c.state \notin { "IDLE", "BETWEEN_RX" }
  BY <1>1, <1>3, <1>4 DEF Serves
<1>7. Ends(st) => Rests(d)
  BY <1>3, <1>5 DEF Rests
<1>8. ~Rests(c)
  BY <1>1 DEF Rests
<1>9. Handled(d, st)
  BY <1>1, <1>2, <1>3, <1>5, <1>6, <1>7, <1>8, HandledSame
<1> QED
  BY <1>1, <1>2, <1>9, BlockReplies

\* The same when the host owes nothing.
LEMMA TurnSilent ==
  ASSUME NEW d, d.state = "SILENCE_BEFORE_PREAMBLE" => ~d.done, NEW owes, ~owes
  PROVE  FrameTurn(d, << >>, owes)
BY Zenon DEF FrameTurn

\* A transmission of frames that waits for nothing of the host.
LEMMA TurnNow ==
  ASSUME Typed, RepliesInv, host.mode # "gone", host.cmd = "TH",
         \/ c.state \in { "ANSWER_TONE", "SILENCE_BEFORE_PREAMBLE", "SEND_HDLC" }
         \/ c.state = "BETWEEN_TX" /\ c.countdown <= 2
         \/ c.state = "PREAMBLE" /\ c.done
  PROVE  /\ Taken = << >> /\ Unread \o host.script = << >> /\ ~host.owes
         /\ c.state = "SILENCE_BEFORE_PREAMBLE" => ~c.done
<1>1. FrameTurn(c, tty \o host.script, host.owes)
  BY Zenon DEF RepliesInv
<1>2. tty \o host.script = << >> /\ ~host.owes
  BY <1>1, Zenon DEF FrameTurn
<1>3. c.state = "SILENCE_BEFORE_PREAMBLE" => ~c.done
  BY <1>1, Zenon DEF FrameTurn
<1> QED
  BY <1>2, <1>3, ReadFirst

\* The answer tone and the silence before the preamble come before its turn.
LEMMA AnswerToneReplies ==
  ASSUME SafeInv, RepliesInv, AnswerToneState
  PROVE  RepliesInv' /\ UnaskedKnown
<1> DEFINE d == IF c.countdown < AnswerTone THEN [c EXCEPT !.countdown = c.countdown + 1]
                ELSE PreambleInit(c)
<1>1. host.mode # "gone" /\ c.state = "ANSWER_TONE" /\ Block(d, "NO_MESSAGE", << >>, Len(Taken))
  BY DEF AnswerToneState, Running
<1>2. Typed /\ Ctx(c)
  BY Found
<1>3. /\ Ctx(d) /\ d.dcount = c.dcount /\ d.delayed = c.delayed
      /\ d.state = "ANSWER_TONE" \/ (d.state = "SILENCE_BEFORE_PREAMBLE" /\ d.done = FALSE)
  <2>1. CASE c.countdown < AnswerTone
    BY <1>1, <1>2, <2>1 DEF Ctx, CtxFields
  <2>2. CASE ~(c.countdown < AnswerTone)
    <3>1. d = PreambleInit(c)
      BY <2>2
    <3> HIDE DEF d
    <3>2. << >> \in Seq(Byte)
      OBVIOUS
    <3> QED
      BY <1>2, <3>1, <3>2 DEF PreambleInit, Ctx, CtxFields, States, HdlcTx
  <2> QED
    BY <2>1, <2>2
<1> HIDE DEF d
<1>4. host.cmd = "TH"
  BY <1>1, <1>2, ServedBy
<1>5. Unread \o host.script = << >> /\ ~host.owes
  BY <1>1, <1>2, <1>4, TurnNow
<1>6. FrameTurn(d, << >>, host.owes)
  BY <1>3, <1>5, TurnSilent
<1>7. "NO_MESSAGE" \in Statuses /\ ~Ends("NO_MESSAGE") /\ "NO_MESSAGE" # "CONNECT"
  BY DEF Statuses, Ends
<1>8. ~Rests(c) /\ Serves(host.cmd, d.state) /\ c.state \notin { "IDLE", "BETWEEN_RX" }
  BY <1>1, <1>3, <1>4 DEF Rests, Serves, HdlcTx
<1>9. Handled(d, "NO_MESSAGE")
  BY <1>1, <1>2, <1>3, <1>4, <1>5, <1>6, <1>7, <1>8, HandledSame
<1> QED
  BY <1>1, <1>2, <1>9, BlockReplies

\* It is the host's turn when the preamble begins.
LEMMA SilenceBeforePreambleReplies ==
  ASSUME SafeInv, RepliesInv, SilenceBeforePreamble
  PROVE  RepliesInv' /\ UnaskedKnown
<1> DEFINE over == c.countdown >= SilenceBefore
           d == IF over THEN [To(c, "PREAMBLE") EXCEPT !.countdown = 1]
                ELSE [c EXCEPT !.countdown = c.countdown + 1]
           st == IF over THEN "CONNECT" ELSE "NO_MESSAGE"
<1>1. /\ host.mode # "gone" /\ c.state = "SILENCE_BEFORE_PREAMBLE"
      /\ Block(d, st, << >>, Len(Taken))
  BY DEF SilenceBeforePreamble, Running
<1>2. Typed /\ Ctx(c)
  BY Found
<1>4. host.cmd = "TH"
  BY <1>1, <1>2, ServedBy DEF HdlcTx
<1>5. Unread \o host.script = << >> /\ ~host.owes /\ ~c.done
  BY <1>1, <1>2, <1>4, TurnNow
<1> HIDE DEF over
<1>3. /\ Ctx(d) /\ d.dcount = c.dcount /\ d.delayed = c.delayed /\ d.done = c.done
      /\ d.state = IF over THEN "PREAMBLE" ELSE "SILENCE_BEFORE_PREAMBLE"
  BY <1>1, <1>2 DEF To, Ctx, CtxFields, States, HdlcTx
<1>7. st \in Statuses /\ ~Ends(st) /\ (st = "CONNECT" => over)
  BY DEF Statuses, Ends
<1> HIDE DEF d, st
<1>6. FrameTurn(d, << >>, host.owes) /\ (over => FrameTurn(d, << >>, TRUE))
  <2>1. ~d.done
    BY <1>3, <1>5, Zenon
  <2>2. over => d.state = "PREAMBLE"
    BY <1>3
  <2> QED
    BY <1>5, <2>1, <2>2, TurnSilent, TurnQuiet
<1>8. ~Rests(c) /\ Serves(host.cmd, d.state) /\ c.state \notin { "IDLE", "BETWEEN_RX" }
  BY <1>1, <1>3, <1>4 DEF Rests, Serves, HdlcTx
<1>9. Handled(d, st)
  BY <1>1, <1>2, <1>3, <1>4, <1>5, <1>6, <1>7, <1>8, HandledSame
<1> QED
  BY <1>1, <1>2, <1>9, BlockReplies

\* A frame in the queue is nobody's turn.
LEMMA SendHdlcBufferReplies ==
  ASSUME SafeInv, RepliesInv, SendHdlcBuffer
  PROVE  RepliesInv' /\ UnaskedKnown
<1> DEFINE d(b) == IF b THEN [Restart(c, "BETWEEN_TX") EXCEPT !.frame = << >>] ELSE c
<1>1. PICK b \in BOOLEAN : Block(d(b), "NO_MESSAGE", << >>, HdlcWant)
  BY DEF SendHdlcBuffer
<1>2. host.mode # "gone" /\ c.state = "SEND_HDLC"
  BY DEF SendHdlcBuffer, Running
<1>3. Typed /\ Ctx(c) /\ << >> \in Seq(Byte)
  BY Found
<1>4. /\ Ctx(d(b)) /\ d(b).dcount = c.dcount /\ d(b).delayed = c.delayed
      /\ d(b).state \in { "SEND_HDLC", "BETWEEN_TX" }
  BY <1>2, <1>3 DEF Restart, Ctx, CtxFields, States, HdlcTx
<1> HIDE DEF d
<1>5. host.cmd = "TH"
  BY <1>2, <1>3, ServedBy DEF HdlcTx
<1>6. Unread \o host.script = << >> /\ ~host.owes
  BY <1>2, <1>3, <1>5, TurnNow
<1>7. FrameTurn(d(b), << >>, host.owes)
  BY <1>4, <1>6, TurnSilent
<1>8. "NO_MESSAGE" \in Statuses /\ ~Ends("NO_MESSAGE") /\ "NO_MESSAGE" # "CONNECT"
  BY DEF Statuses, Ends
<1>9. ~Rests(c) /\ Serves(host.cmd, d(b).state) /\ c.state \notin { "IDLE", "BETWEEN_RX" }
  BY <1>2, <1>4, <1>5 DEF Rests, Serves, HdlcTx
<1>10. Handled(d(b), "NO_MESSAGE")
  BY <1>2, <1>3, <1>4, <1>6, <1>7, <1>8, <1>9, HandledSame
<1> QED
  BY <1>1, <1>2, <1>3, <1>10, BlockReplies

\* _handle_hdlc_input, field by field.
LEMMA HdlcInputFields ==
  ASSUME Ctx(c), NEW in \in Seq(Byte)
  PROVE  LET u == Unescape(Sender(c), in) IN
         /\ u \in Ear /\ Sender(c) \in Ear /\ Ctx(HdlcInput(c, in))
         /\ HdlcInput(c, in).dle = u.dle /\ HdlcInput(c, in).frame = u.buf
         /\ HdlcInput(c, in).done = u.done
         /\ HdlcInput(c, in).dcount = c.dcount /\ HdlcInput(c, in).delayed = c.delayed
         /\ HdlcInput(c, in).state = c.state /\ HdlcInput(c, in).countdown = c.countdown
<1> DEFINE u == Unescape(Sender(c), in)
           l == c.latch \/ (u.done /\ Final(u.buf))
<1>1. Sender(c) \in Ear
  BY DEF Ctx, Ear, Sender
<1>2. u \in Ear
  BY <1>1, UnescapeRight
<1>3. HdlcInput(c, in) = [c EXCEPT !.dle = u.dle, !.frame = u.buf, !.done = u.done, !.latch = l]
  BY DEF HdlcInput, Sender
<1>4. Ctx(HdlcInput(c, in))
  BY HdlcInputRight
<1> HIDE DEF u, l
<1>5. /\ HdlcInput(c, in).dle = u.dle /\ HdlcInput(c, in).frame = u.buf
      /\ HdlcInput(c, in).done = u.done
      /\ HdlcInput(c, in).dcount = c.dcount /\ HdlcInput(c, in).delayed = c.delayed
      /\ HdlcInput(c, in).state = c.state /\ HdlcInput(c, in).countdown = c.countdown
  BY <1>3 DEF Ctx, CtxFields
<1> QED
  BY <1>1, <1>2, <1>4, <1>5 DEF u

\* What the host has still to say closes the frame that has been begun, and
\* when the frame ends in this block nothing is left to say.
LEMMA TurnRead ==
  ASSUME Typed, RepliesInv, host.mode # "gone", host.cmd = "TH",
         c.state \in { "PREAMBLE", "BETWEEN_TX" },
         NEW e, e.state = c.state,
         LET u == Unescape(Sender(c), Taken) IN
           /\ e.dle = (IF Taken # << >> THEN u.dle ELSE c.dle)
           /\ e.frame = (IF Taken # << >> THEN u.buf ELSE c.frame)
  PROVE  LET u == Unescape(Sender(c), Taken)
             r == Unread \o host.script
         IN /\ Taken # << >> => ~host.owes /\ (u.done => r = << >>)
            /\ host.owes => r = << >>
            /\ r # << >> => \E out : Closes(Sender(e), r, out)
<1> DEFINE u == Unescape(Sender(c), Taken)
           r == Unread \o host.script
           in == Taken
<1>1. FrameTurn(c, tty \o host.script, host.owes)
  BY Zenon DEF RepliesInv
<1>2. /\ tty \o host.script = in \o r /\ in \in Seq(Byte) /\ r \in Seq(Byte)
      /\ tty \o host.script = << >> => in = << >> /\ r = << >>
  BY ReadFirst
<1>3. u \in Ear /\ Sender(c) \in Ear
  BY <1>2, HdlcInputFields DEF Typed
<1>4. /\ e.dle = (IF in # << >> THEN u.dle ELSE c.dle)
      /\ e.frame = (IF in # << >> THEN u.buf ELSE c.frame)
  OBVIOUS
<1>5. u = Unescape(Sender(c), in)
  OBVIOUS
<1> HIDE DEF u, r, in
<1>6. host.owes => in = << >> /\ r = << >>
  BY <1>1, <1>2, Zenon DEF FrameTurn
<1>7. in # << >> \/ r # << >> => tty \o host.script # << >>
  <2>1. ASSUME tty \o host.script = << >> PROVE in = << >> /\ r = << >>
    BY <1>2, <2>1
  <2> QED
    BY <2>1
<1>8. CASE in = << >> /\ r = << >>
  BY <1>8 DEF u, r, in
<1>9. CASE in # << >> \/ r # << >>
  <2>1. PICK out : Closes(Sender(c), in \o r, out)
    <3>1. \E o : Closes(Sender(c), tty \o host.script, o)
      BY <1>1, <1>7, <1>9, Zenon DEF FrameTurn
    <3> QED
      BY <1>2, <3>1
  <2>2. /\ r = << >> => u = [dle |-> FALSE, done |-> TRUE, buf |-> out]
        /\ r # << >> => ~u.done /\ Closes(u, r, out)
    BY <1>2, <1>3, <1>5, <2>1, ClosesPart
  <2>3. ASSUME r # << >> PROVE Closes(Sender(e), r, out)
    <3>1. CASE in = << >>
      <4>1. Sender(e) = Sender(c)
        BY <1>4, <3>1 DEF Sender
      <4>2. in \o r = r
        BY <1>2, <3>1
      <4> QED
        BY <2>1, <4>1, <4>2
    <3>2. CASE in # << >>
      <4>1. e.dle = u.dle /\ e.frame = u.buf /\ u.done = FALSE
        BY <1>3, <1>4, <2>2, <2>3, <3>2 DEF Ear
      <4>2. Sender(e) \in Ear /\ Sender(e).dle = u.dle /\ Sender(e).done = u.done
            /\ Sender(e).buf = u.buf
        BY <1>3, <4>1 DEF Sender, Ear
      <4>3. Sender(e) = u
        BY <1>3, <4>2, SameEar
      <4> QED
        BY <2>2, <2>3, <4>3
    <3> QED
      BY <3>1, <3>2
  <2>4. in # << >> => ~host.owes /\ (u.done => r = << >>)
    BY <1>6, <2>2
  <2> QED
    BY <1>6, <2>3, <2>4 DEF u, r, in
<1> QED
  BY <1>8, <1>9

\* A preamble in which the host has its say, in time or too late.
LEMMA PreambleReplies ==
  ASSUME SafeInv, RepliesInv, Preamble
  PROVE  RepliesInv' /\ UnaskedKnown
<1> DEFINE u == Unescape(Sender(c), Taken)
           r == Unread \o host.script
           d == IF Taken # << >> THEN HdlcInput(c, Taken) ELSE c
           go == d.countdown >= PreambleMin /\ d.done
           late == d.countdown >= PreambleMax
           s == IF late THEN "IDLE" ELSE IF go THEN "SEND_HDLC" ELSE d.state
           e == [d EXCEPT !.countdown = d.countdown + 1, !.state = s]
           st == IF late THEN "ERROR" ELSE "NO_MESSAGE"
<1>1. host.mode # "gone" /\ c.state = "PREAMBLE"
  BY DEF Preamble, Running
<1>2. Block(e, st, << >>, HdlcWant)
  BY Zenon DEF Preamble
<1>3. Typed /\ Ctx(c) /\ Taken \in Seq(Byte)
  BY Found
<1>4. host.cmd = "TH"
  BY <1>1, <1>3, ServedBy DEF HdlcTx
<1>5. /\ Ctx(d) /\ d.state = "PREAMBLE" /\ d.dcount = c.dcount /\ d.delayed = c.delayed
      /\ d.dle = (IF Taken # << >> THEN u.dle ELSE c.dle)
      /\ d.frame = (IF Taken # << >> THEN u.buf ELSE c.frame)
      /\ d.done = (IF Taken # << >> THEN u.done ELSE c.done)
  <2> HIDE DEF u
  <2>1. CASE Taken # << >>
    BY <1>1, <1>3, <2>1, HdlcInputFields DEF u
  <2>2. CASE Taken = << >>
    <3>1. d = c
      BY <2>2
    <3> HIDE DEF d
    <3> QED
      BY <1>1, <1>3, <2>2, <3>1
  <2> QED
    BY <2>1, <2>2
<1>6. /\ Taken # << >> => ~host.owes /\ (u.done => r = << >>)
      /\ host.owes => r = << >>
      /\ r # << >> => \E out : Closes(Sender(d), r, out)
  <2> HIDE DEF d
  <2> QED
    BY <1>1, <1>3, <1>4, <1>5, TurnRead
<1>7. Taken = << >> /\ c.done => r = << >> /\ ~host.owes
  BY <1>1, <1>3, <1>4, TurnNow
<1> HIDE DEF u, d, r
<1>8. d.done => r = << >> /\ ~host.owes
  BY <1>5, <1>6, <1>7, Zenon
<1>9. /\ s \in { "IDLE", "SEND_HDLC", "PREAMBLE" } /\ (s = "SEND_HDLC" => d.done)
      /\ (late => s = "IDLE")
  BY <1>5
<1> HIDE DEF s, go
<1>10. /\ Ctx(e) /\ e.state = s /\ e.dcount = c.dcount /\ e.delayed = c.delayed
       /\ e.dle = d.dle /\ e.frame = d.frame /\ e.done = d.done
  BY <1>5, <1>9 DEF Ctx, CtxFields, States, HdlcTx
<1>11. st \in Statuses /\ st # "CONNECT" /\ (Ends(st) => late)
  BY DEF Statuses, Ends
<1> HIDE DEF e, st, late
<1>12. FrameTurn(e, r, host.owes)
  <2>1. Sender(e) = Sender(d)
    BY <1>10, Zenon DEF Sender
  <2>2. e.state \in { "IDLE", "SEND_HDLC", "PREAMBLE" } /\ (e.state = "SEND_HDLC" => d.done)
    BY <1>9, <1>10
  <2>3. e.state \notin { "ANSWER_TONE", "SILENCE_BEFORE_PREAMBLE", "BETWEEN_TX" }
    BY <2>2
  <2> QED
    BY <1>6, <1>8, <1>10, <2>1, <2>2, <2>3, Zenon DEF FrameTurn
<1>13. /\ ~Rests(c) /\ Serves(host.cmd, e.state) /\ c.state \notin { "IDLE", "BETWEEN_RX" }
       /\ Ends(st) => Rests(e)
  BY <1>1, <1>4, <1>9, <1>10, <1>11 DEF Rests, Serves, HdlcTx
<1>14. Handled(e, st)
  BY <1>1, <1>3, <1>10, <1>11, <1>12, <1>13, HandledSame DEF r
<1> QED
  BY <1>1, <1>2, <1>3, <1>14, BlockReplies

\* Between two frames: the host is asked for the next, unless the last was
\* final, and has its say, in time or too late.
LEMMA SendHdlcBetweenReplies ==
  ASSUME SafeInv, RepliesInv, SendHdlcBetween
  PROVE  RepliesInv' /\ UnaskedKnown
<1> DEFINE u == Unescape(Sender(c), Taken)
           r == Unread \o host.script
           d == IF Taken # << >> /\ c.countdown > 1 THEN HdlcInput(c, Taken)
                ELSE [c EXCEPT !.done = FALSE]
           over == c.countdown = 2 /\ c.latch
           late == c.countdown + 1 > HostLimit
           s == IF late THEN "IDLE" ELSE IF d.done THEN "SEND_HDLC"
                ELSE IF over THEN "IDLE" ELSE d.state
           e == [d EXCEPT !.countdown = d.countdown + 1, !.done = c.done, !.state = s]
           st == IF late THEN "ERROR" ELSE IF over THEN "OK"
                 ELSE IF c.countdown = 2 THEN "CONNECT" ELSE "NO_MESSAGE"
<1>1. host.mode # "gone" /\ c.state = "BETWEEN_TX"
  BY DEF SendHdlcBetween, Running
<1>2. Block(e, st, << >>, HdlcWant)
  BY Zenon DEF SendHdlcBetween
<1>3. Typed /\ Ctx(c) /\ Taken \in Seq(Byte) /\ c.countdown \in Int /\ c.done \in BOOLEAN
  BY Found DEF Ctx
<1>4. host.cmd = "TH"
  BY <1>1, <1>3, ServedBy DEF HdlcTx
<1>5. c.countdown <= 2 => Taken = << >> /\ r = << >> /\ ~host.owes
  BY <1>1, <1>3, <1>4, TurnNow
<1>6. /\ Ctx(d) /\ d.state = "BETWEEN_TX" /\ d.dcount = c.dcount /\ d.delayed = c.delayed
      /\ d.countdown = c.countdown
      /\ d.dle = (IF Taken # << >> THEN u.dle ELSE c.dle)
      /\ d.frame = (IF Taken # << >> THEN u.buf ELSE c.frame)
      /\ d.done = (IF Taken # << >> THEN u.done ELSE FALSE)
  <2> HIDE DEF u
  <2>1. CASE Taken # << >>
    <3>1. d = HdlcInput(c, Taken)
      BY <1>3, <1>5, <2>1
    <3> HIDE DEF d
    <3> QED
      BY <1>1, <1>3, <2>1, <3>1, HdlcInputFields DEF u
  <2>2. CASE Taken = << >>
    <3>1. d = [c EXCEPT !.done = FALSE]
      BY <2>2
    <3> HIDE DEF d
    <3> QED
      BY <1>1, <1>3, <2>2, <3>1 DEF Ctx, CtxFields
  <2> QED
    BY <2>1, <2>2
<1>7. /\ Taken # << >> => ~host.owes /\ (u.done => r = << >>)
      /\ host.owes => r = << >>
      /\ r # << >> => \E out : Closes(Sender(d), r, out)
  <2> HIDE DEF d
  <2> QED
    BY <1>1, <1>3, <1>4, <1>6, TurnRead
<1> HIDE DEF u, d, r
<1>8. (d.done => Taken # << >> /\ r = << >> /\ ~host.owes) /\ d.done \in BOOLEAN
  BY <1>6, <1>7, Zenon DEF Ctx
<1>9. /\ s \in { "IDLE", "SEND_HDLC", "BETWEEN_TX" } /\ (s = "SEND_HDLC" => d.done)
      /\ (late => s = "IDLE") /\ (over /\ ~d.done => s = "IDLE")
      /\ (~late /\ ~over /\ ~d.done => s = "BETWEEN_TX")
  BY <1>6
<1> HIDE DEF s
<1>10. /\ Ctx(e) /\ e.state = s /\ e.dcount = c.dcount /\ e.delayed = c.delayed
       /\ e.dle = d.dle /\ e.frame = d.frame /\ e.countdown = c.countdown + 1
  BY <1>3, <1>6, <1>9 DEF Ctx, CtxFields, States, HdlcTx
<1>11. /\ st \in Statuses /\ (Ends(st) => late \/ over)
       /\ (st = "CONNECT" => c.countdown = 2 /\ ~late /\ ~over)
  BY DEF Statuses, Ends
<1>12. over => c.countdown = 2
  OBVIOUS
<1> HIDE DEF e, st, late, over
<1>13. FrameTurn(e, r, host.owes)
  <2>1. Sender(e) = Sender(d)
    BY <1>10, Zenon DEF Sender
  <2>2. e.state \in { "IDLE", "SEND_HDLC", "BETWEEN_TX" } /\ (e.state = "SEND_HDLC" => d.done)
    BY <1>9, <1>10
  <2>3. e.state \notin { "ANSWER_TONE", "SILENCE_BEFORE_PREAMBLE", "PREAMBLE" }
    BY <2>2
  <2>4. e.countdown <= 2 => r = << >> /\ ~host.owes
    BY <1>3, <1>5, <1>10
  <2> QED
    BY <1>7, <1>8, <2>1, <2>2, <2>3, <2>4, Zenon DEF FrameTurn
<1>14. st = "CONNECT" => FrameTurn(e, r, TRUE)
  <2> SUFFICES ASSUME st = "CONNECT" PROVE FrameTurn(e, r, TRUE)
    OBVIOUS
  <2>1. c.countdown = 2 /\ ~late /\ ~over
    BY <1>11
  <2>2. r = << >> /\ Taken = << >>
    BY <1>5, <2>1
  <2>3. e.state = "BETWEEN_TX" /\ ~(e.countdown <= 2)
    BY <1>8, <1>9, <1>10, <2>1, <2>2
  <2> QED
    BY <2>2, <2>3, TurnQuiet
<1>15. ~Rests(c) /\ Serves(host.cmd, e.state) /\ c.state \notin { "IDLE", "BETWEEN_RX" }
  BY <1>1, <1>4, <1>9, <1>10 DEF Rests, Serves, HdlcTx
<1>16. Ends(st) => Rests(e)
  <2>1. over => ~d.done
    BY <1>3, <1>5, <1>8, <1>12
  <2> QED
    BY <1>9, <1>10, <1>11, <2>1 DEF Rests
<1>17. Handled(e, st)
  BY <1>1, <1>3, <1>10, <1>11, <1>13, <1>14, <1>15, <1>16, HandledSame DEF r
<1> QED
  BY <1>1, <1>2, <1>3, <1>17, BlockReplies

\* A context whose delayed status is the current one.
SamePending(d) == Ctx(d) /\ d.dcount = c.dcount /\ d.delayed = c.delayed

\* The handlers' ways to change the state, and what they do to that status.
LEMMA PendingChanges ==
  ASSUME NEW d, NEW s \in States
  PROVE  /\ SamePending(d) => /\ SamePending(To(d, s)) /\ To(d, s).state = s
                              /\ SamePending(Restart(d, s)) /\ Restart(d, s).state = s
         /\ Ctx(d) => /\ Ctx(To(d, s)) /\ To(d, s).state = s
                      /\ To(d, s).dcount = d.dcount /\ To(d, s).delayed = d.delayed
BY DEF SamePending, To, Restart, Ctx, CtxFields

\* A status that is delayed to the block after the next.
LEMMA DelayedChanges ==
  ASSUME NEW d, Ctx(d), NEW st \in Statuses
  PROVE  /\ Ctx(Delay(d, st)) /\ Delay(d, st).state = d.state
         /\ Delay(d, st).dcount = 2 /\ Delay(d, st).delayed = st
BY DEF Delay, Ctx, CtxFields

\* A byte in a receiving state is the host's abort.
LEMMA ReadAborts ==
  ASSUME Typed, RepliesInv, host.mode # "gone", host.cmd \in { "RH", "RM" }, Taken # << >>
  PROVE  host.aborted /\ host.mode # "command"
<1>1. tty # << >>
  BY TakenFront
<1> QED
  BY <1>1, Zenon DEF RepliesInv

\* The wait for V.21 ends with a carrier, a byte of the host or its time.
LEMMA LookHdlcReplies ==
  ASSUME SafeInv, RepliesInv, LookHdlc
  PROVE  RepliesInv' /\ UnaskedKnown
<1> DEFINE late == S7 # 0 /\ c.countdown + 1 > S7 /\ ~c.cng
           n == IF c.countdown <= S7 THEN c.countdown + 1 ELSE c.countdown
           d == IF Carrier THEN [Restart(c, "RECEIVE_HDLC") EXCEPT !.cng = FALSE]
                ELSE [c EXCEPT !.state = IF late THEN "IDLE" ELSE c.state, !.countdown = n]
           e == IF Taken # << >> THEN To(d, "IDLE") ELSE d
           st == IF Taken # << >> THEN "OK" ELSE IF Carrier THEN "CONNECT"
                 ELSE IF late THEN "NO_CARRIER" ELSE "NO_MESSAGE"
<1>1. host.mode # "gone" /\ c.state = "LOOK_HDLC"
  BY DEF LookHdlc, Running
<1>2. Block(e, st, << >>, 5)
  BY Zenon DEF LookHdlc
<1>3. Typed /\ Ctx(c) /\ n \in Int
  BY Found DEF Ctx
<1>4. host.cmd \in { "RH", "RM" }
  BY <1>1, <1>3, ServedBy DEF HdlcRx
<1> HIDE DEF n, late
<1>5. /\ SamePending(d) /\ d.state \in { "RECEIVE_HDLC", "IDLE", "LOOK_HDLC" }
      /\ ~Carrier /\ late => d.state = "IDLE"
  <2>1. CASE Carrier
    BY <1>1, <1>3, <2>1 DEF SamePending, Restart, Ctx, CtxFields, States, HdlcRx
  <2>2. CASE ~Carrier
    BY <1>1, <1>3, <2>2 DEF SamePending, Ctx, CtxFields, States, HdlcRx
  <2> QED
    BY <2>1, <2>2
<1>6. "IDLE" \in States /\ "OK" \in Statuses
  BY DEF States, Statuses
<1> HIDE DEF d
<1>7. /\ SamePending(e) /\ e.state \in { "RECEIVE_HDLC", "IDLE", "LOOK_HDLC" }
      /\ Taken # << >> \/ (~Carrier /\ late) => e.state = "IDLE"
  BY <1>5, <1>6, PendingChanges
<1>8. st \in Statuses /\ (Ends(st) => Taken # << >> \/ (~Carrier /\ late))
  BY DEF Statuses, Ends
<1> HIDE DEF e, st
<1>9. /\ ~Rests(c) /\ Serves(host.cmd, e.state) /\ c.state \notin { "IDLE", "BETWEEN_RX" }
      /\ (Ends(st) => Rests(e)) /\ host.cmd # "TH"
  BY <1>1, <1>4, <1>7, <1>8 DEF Rests, Serves, HdlcRx
<1>10. Handled(e, st)
  BY <1>1, <1>3, <1>7, <1>8, <1>9, HandledSame DEF SamePending
<1> QED
  BY <1>1, <1>2, <1>3, <1>10, BlockReplies

\* A frame or the loss of the carrier decides the reply of the next block.
LEMMA HdlcReceiveReplies ==
  ASSUME SafeInv, RepliesInv, HdlcReceive
  PROVE  RepliesInv' /\ UnaskedKnown
<1> DEFINE d1 == IF Carrier THEN c ELSE Delay(To(c, "IDLE"), "NO_CARRIER")
           d2(f) == IF f = NoFrame THEN d1
                    ELSE Delay(To(d1, "BETWEEN_RX"), IF f.good THEN "OK" ELSE "ERROR")
           e(f) == IF Taken # << >> THEN To(d2(f), "IDLE") ELSE d2(f)
           st == IF Taken # << >> THEN "OK"
                 ELSE IF c.prev = "BETWEEN_RX" THEN "CONNECT" ELSE "NO_MESSAGE"
           out(f) == IF Taken # << >> THEN << >> ELSE IF f.good THEN << f >> ELSE << >>
<1>1. host.mode # "gone" /\ c.state = "RECEIVE_HDLC"
  BY DEF HdlcReceive, Running
<1>2. PICK f \in Arrivals : Block(e(f), st, out(f), 5)
  BY Zenon DEF HdlcReceive
<1>3. Typed /\ Ctx(c)
  BY Found
<1>4. host.cmd \in { "RH", "RM" }
  BY <1>1, <1>3, ServedBy DEF HdlcRx
<1>5. /\ "IDLE" \in States /\ "BETWEEN_RX" \in States /\ "OK" \in Statuses
      /\ "ERROR" \in Statuses /\ "NO_CARRIER" \in Statuses
      /\ Ends("OK") /\ Ends("ERROR") /\ Ends("NO_CARRIER")
  BY DEF States, Statuses, HdlcRx, Ends
<1>6. SamePending(c)
  BY <1>3 DEF SamePending
<1>7. \/ d1 = c
      \/ Ctx(d1) /\ d1.state = "IDLE" /\ d1.dcount = 2 /\ Ends(d1.delayed)
  <2> DEFINE b == To(c, "IDLE")
  <2>1. Ctx(b) /\ b.state = "IDLE"
    BY <1>3, <1>5, PendingChanges
  <2>2. d1 = c \/ d1 = Delay(b, "NO_CARRIER")
    OBVIOUS
  <2> HIDE DEF b, d1
  <2>3. /\ Ctx(Delay(b, "NO_CARRIER")) /\ Delay(b, "NO_CARRIER").state = "IDLE"
        /\ Delay(b, "NO_CARRIER").dcount = 2 /\ Delay(b, "NO_CARRIER").delayed = "NO_CARRIER"
    BY <1>5, <2>1, DelayedChanges
  <2> QED
    BY <1>5, <2>2, <2>3
<1> HIDE DEF d1
<1>8. \/ d2(f) = c
      \/ /\ Ctx(d2(f)) /\ d2(f).state \in { "IDLE", "BETWEEN_RX" } /\ d2(f).dcount = 2
         /\ Ends(d2(f).delayed)
  <2> DEFINE s == IF f.good THEN "OK" ELSE "ERROR"
             b == To(d1, "BETWEEN_RX")
  <2>1. s \in Statuses /\ Ends(s)
    BY <1>5
  <2>2. Ctx(b) /\ b.state = "BETWEEN_RX"
    BY <1>3, <1>5, <1>7, PendingChanges
  <2>3. d2(f) = d1 \/ d2(f) = Delay(b, s)
    OBVIOUS
  <2> HIDE DEF s, b
  <2>4. /\ Ctx(Delay(b, s)) /\ Delay(b, s).state = "BETWEEN_RX"
        /\ Delay(b, s).dcount = 2 /\ Delay(b, s).delayed = s
    BY <2>1, <2>2, DelayedChanges
  <2> HIDE DEF d2
  <2> QED
    BY <1>7, <2>1, <2>3, <2>4
<1> HIDE DEF d2
<1>9. st \in Statuses /\ (Ends(st) => Taken # << >>)
  BY DEF Statuses, Ends
<1>10. Taken # << >> => host.aborted
  BY <1>1, <1>3, <1>4, ReadAborts
<1>11. ~Rests(c) /\ host.cmd # "TH" /\ c.state \notin { "IDLE", "BETWEEN_RX" }
  BY <1>1, <1>4 DEF Rests
<1>12. Serves(host.cmd, "IDLE") /\ Serves(host.cmd, "BETWEEN_RX") /\ Serves(host.cmd, "RECEIVE_HDLC")
  BY <1>4 DEF Serves, HdlcRx
<1>13. CASE d2(f) = c
  <2>1. /\ SamePending(e(f)) /\ e(f).state \in { "RECEIVE_HDLC", "IDLE" }
        /\ Taken # << >> => e(f).state = "IDLE"
    BY <1>1, <1>5, <1>6, <1>13, PendingChanges
  <2> HIDE DEF e, st
  <2>2. Ends(st) => Rests(e(f))
    BY <1>9, <2>1 DEF Rests
  <2>3. Serves(host.cmd, e(f).state)
    BY <1>12, <2>1
  <2>4. Handled(e(f), st)
    BY <1>1, <1>3, <1>9, <1>11, <2>1, <2>2, <2>3, HandledSame DEF SamePending
  <2> HIDE DEF out
  <2> QED
    BY <1>1, <1>2, <1>3, <2>4, BlockReplies
<1>14. CASE /\ Ctx(d2(f)) /\ d2(f).state \in { "IDLE", "BETWEEN_RX" } /\ d2(f).dcount = 2
            /\ Ends(d2(f).delayed)
  <2>1. /\ Ctx(e(f)) /\ e(f).state \in { "IDLE", "BETWEEN_RX" } /\ e(f).dcount = 2
        /\ Ends(e(f).delayed)
    BY <1>5, <1>14, PendingChanges
  <2> HIDE DEF e, st
  <2>2. Serves(host.cmd, e(f).state)
    BY <1>12, <2>1
  <2>3. Handled(e(f), st)
    BY <1>1, <1>3, <1>9, <1>10, <1>11, <2>1, <2>2, HandledDelayed
  <2> HIDE DEF out
  <2> QED
    BY <1>1, <1>2, <1>3, <2>3, BlockReplies
<1> QED
  BY <1>8, <1>13, <1>14

\* Between two frames nothing is reported but an abort.
LEMMA HdlcReceiveBetweenReplies ==
  ASSUME SafeInv, RepliesInv, HdlcReceiveBetween
  PROVE  RepliesInv' /\ UnaskedKnown
<1> DEFINE d == IF Carrier THEN c ELSE To(c, "IDLE")
           e == IF Taken # << >> THEN To(d, "IDLE") ELSE d
           st == IF Taken # << >> THEN "OK" ELSE IF Carrier THEN "NO_MESSAGE" ELSE "NO_REPLY"
<1>1. host.mode # "gone" /\ c.state = "BETWEEN_RX"
  BY DEF HdlcReceiveBetween, Running
<1>2. Block(e, st, << >>, 5)
  BY Zenon DEF HdlcReceiveBetween
<1>3. Typed /\ Ctx(c)
  BY Found
<1>4. host.cmd \in { "RH", "RM" }
  BY <1>1, <1>3, ServedBy DEF HdlcRx
<1>5. "IDLE" \in States /\ "OK" \in Statuses
  BY DEF States, Statuses
<1>6. SamePending(d) /\ d.state \in { "IDLE", "BETWEEN_RX" }
  <2>1. SamePending(c)
    BY <1>3 DEF SamePending
  <2>2. SamePending(To(c, "IDLE")) /\ To(c, "IDLE").state = "IDLE"
    BY <1>5, <2>1, PendingChanges
  <2> QED
    BY <1>1, <2>1, <2>2
<1> HIDE DEF d
<1>7. SamePending(e) /\ e.state \in { "IDLE", "BETWEEN_RX" }
  BY <1>5, <1>6, PendingChanges
<1>8. st \in Statuses /\ (Taken = << >> => st \in { "NO_MESSAGE", "NO_REPLY" })
  BY DEF Statuses
<1> HIDE DEF e, st
<1>9. Rests(e) /\ Serves(host.cmd, e.state) /\ host.cmd # "TH"
  BY <1>4, <1>7 DEF Rests, Serves, HdlcRx
<1>10. host.mode = "command" => Taken = << >>
  BY <1>1, <1>3, <1>4, ReadAborts
<1>11. Handled(e, st)
  BY <1>1, <1>3, <1>7, <1>8, <1>9, <1>10, HandledSame DEF SamePending
<1> QED
  BY <1>1, <1>2, <1>3, <1>11, BlockReplies

\* A frame of the superframe is given with CONNECT, and its status follows.
LEMMA HdlcEmulateReplies ==
  ASSUME SafeInv, RepliesInv, HdlcEmulate
  PROVE  RepliesInv' /\ UnaskedKnown
<1> DEFINE n == Len(super)
           due == c.superCount <= 0
           give == due /\ c.superIdx < n
           next == IF give THEN c.superIdx + 1 ELSE c.superIdx
           d == IF give THEN [Delay(To(c, "IDLE"), "OK") EXCEPT !.superIdx = next]
                ELSE IF due THEN To(c, "IDLE") ELSE c
           e == [d EXCEPT !.superCount = IF next = n THEN 2 ELSE d.superCount - 1,
                          !.superIdx = IF next = n THEN 0 ELSE d.superIdx]
           st == IF due /\ ~give THEN "NO_REPLY"
                 ELSE IF c.prev # "EMULATE" /\ c.superIdx < n THEN "CONNECT" ELSE "NO_MESSAGE"
           out == IF give THEN << super[next] >> ELSE << >>
<1>1. host.mode # "gone" /\ c.state = "EMULATE"
  BY DEF HdlcEmulate, Running
<1>2. Block(e, st, out, Len(Taken))
  BY Zenon DEF HdlcEmulate
<1>3. Typed /\ Ctx(c) /\ c.superIdx \in Nat
  BY Found DEF Ctx
<1>4. host.cmd = "RH"
  BY <1>1, <1>3, ServedBy
<1>5. "IDLE" \in States /\ "OK" \in Statuses /\ Ends("OK")
  BY DEF States, Statuses, Ends
<1>6. Ctx(To(c, "IDLE")) /\ To(c, "IDLE").state = "IDLE" /\ SamePending(To(c, "IDLE"))
  BY <1>3, <1>5, PendingChanges DEF SamePending
<1>7. /\ Ctx(Delay(To(c, "IDLE"), "OK")) /\ Delay(To(c, "IDLE"), "OK").state = "IDLE"
      /\ Delay(To(c, "IDLE"), "OK").dcount = 2 /\ Delay(To(c, "IDLE"), "OK").delayed = "OK"
  BY <1>5, <1>6, DelayedChanges
<1>8. next \in Nat
  BY <1>3
<1> HIDE DEF next, give, due
<1>9. \/ SamePending(d) /\ d.state \in { "EMULATE", "IDLE" }
      \/ Ctx(d) /\ d.state = "IDLE" /\ d.dcount = 2 /\ d.delayed = "OK"
  <2>1. CASE give
    BY <1>7, <1>8, <2>1 DEF Ctx, CtxFields
  <2>2. CASE ~give
    BY <1>1, <1>3, <1>6, <2>2 DEF SamePending
  <2> QED
    BY <2>1, <2>2
<1> HIDE DEF d
<1>10. d.superIdx \in Nat /\ d.superCount \in Int
  BY <1>9 DEF SamePending, Ctx
<1> DEFINE k == IF next = n THEN 2 ELSE d.superCount - 1
           x == IF next = n THEN 0 ELSE d.superIdx
<1>11. k \in Int /\ x \in Nat /\ e = [d EXCEPT !.superCount = k, !.superIdx = x]
  BY <1>10
<1> HIDE DEF k, x, e
<1>12. \/ SamePending(e) /\ e.state \in { "EMULATE", "IDLE" }
       \/ Ctx(e) /\ e.state = "IDLE" /\ e.dcount = 2 /\ e.delayed = "OK"
  BY <1>9, <1>11 DEF SamePending, Ctx, CtxFields
<1>13. st \in Statuses /\ ~Ends(st)
  BY DEF Statuses, Ends
<1> HIDE DEF st, out
<1>14. /\ ~Rests(c) /\ Serves(host.cmd, e.state) /\ c.state \notin { "IDLE", "BETWEEN_RX" }
       /\ host.cmd # "TH"
  BY <1>1, <1>4, <1>12 DEF Rests, Serves, HdlcRx
<1>15. CASE SamePending(e)
  <2>1. Handled(e, st)
    BY <1>1, <1>3, <1>13, <1>14, <1>15, HandledSame DEF SamePending
  <2> QED
    BY <1>1, <1>2, <1>3, <2>1, BlockReplies
<1>16. CASE Ctx(e) /\ e.state = "IDLE" /\ e.dcount = 2 /\ e.delayed = "OK"
  <2>1. Handled(e, st)
    BY <1>1, <1>3, <1>5, <1>13, <1>14, <1>16, HandledDelayed
  <2> QED
    BY <1>1, <1>2, <1>3, <2>1, BlockReplies
<1> QED
  BY <1>12, <1>15, <1>16

\* The wait for a data carrier ends with one, with V.21, a byte or its time.
LEMMA RxLookReplies ==
  ASSUME SafeInv, RepliesInv, RxLookCarrier
  PROVE  RepliesInv' /\ UnaskedKnown
<1> DEFINE k == IF c.countdown <= S7 THEN c.countdown + 1 ELSE c.countdown
           n == [c EXCEPT !.countdown = k]
           d(up) == IF Carrier THEN Restart(n, "RECEIVE_HDLC")
                    ELSE IF up THEN To(n, "RX_DATA") ELSE n
           late(up) == S7 # 0 /\ d(up).countdown > S7 /\ ~(line.sig = "data")
           e(up) == IF Taken # << >> \/ late(up) THEN To(d(up), "IDLE") ELSE d(up)
           st(up) == IF Taken # << >> THEN "OK" ELSE IF late(up) THEN "NO_CARRIER"
                     ELSE IF up THEN "CONNECT" ELSE IF Carrier THEN "NO_REPLY" ELSE "NO_MESSAGE"
<1>1. host.mode # "gone" /\ c.state = "RX_LOOK"
  BY DEF RxLookCarrier, Running
<1>2. PICK up \in BOOLEAN : Block(e(up), st(up), << >>, 5)
  BY Zenon DEF RxLookCarrier
<1>3. Typed /\ Ctx(c) /\ k \in Int
  BY Found DEF Ctx
<1>4. host.cmd = "RM"
  BY <1>1, <1>3, ServedBy DEF DataRx
<1>5. "IDLE" \in States /\ "RECEIVE_HDLC" \in States /\ "RX_DATA" \in States
  BY DEF States, HdlcRx, DataRx
<1> HIDE DEF k
<1>6. SamePending(n) /\ n.state = "RX_LOOK"
  BY <1>1, <1>3 DEF SamePending, Ctx, CtxFields
<1> HIDE DEF n
<1>7. SamePending(d(up)) /\ d(up).state \in { "RX_LOOK", "RX_DATA", "RECEIVE_HDLC" }
  BY <1>5, <1>6, PendingChanges
<1> HIDE DEF d
<1>8. st(up) \in Statuses /\ (Ends(st(up)) => Taken # << >> \/ late(up))
  BY DEF Statuses, Ends
<1> HIDE DEF late
<1>9. /\ SamePending(e(up)) /\ e(up).state \in { "RX_LOOK", "RX_DATA", "RECEIVE_HDLC", "IDLE" }
      /\ (Taken # << >> \/ late(up) => e(up).state = "IDLE")
  BY <1>5, <1>7, PendingChanges
<1> HIDE DEF e, st
<1>10. /\ ~Rests(c) /\ Serves(host.cmd, e(up).state) /\ c.state \notin { "IDLE", "BETWEEN_RX" }
       /\ host.cmd # "TH" /\ (Ends(st(up)) => Rests(e(up)))
  BY <1>1, <1>4, <1>8, <1>9 DEF Rests, Serves, HdlcRx, DataRx
<1>11. Handled(e(up), st(up))
  BY <1>1, <1>3, <1>8, <1>9, <1>10, HandledSame DEF SamePending
<1> QED
  BY <1>1, <1>2, <1>3, <1>11, BlockReplies

\* The loss of the data carrier is reported with a delay, an abort at once.
LEMMA RxDataReplies ==
  ASSUME SafeInv, RepliesInv, RxData
  PROVE  RepliesInv' /\ UnaskedKnown
<1> DEFINE on == line.sig = "data"
           d == IF on THEN c ELSE Delay(To(c, "IDLE"), "NO_CARRIER")
           st == IF ~on /\ Taken # << >> THEN "OK" ELSE "NO_MESSAGE"
<1>1. host.mode # "gone" /\ c.state = "RX_DATA"
  BY DEF RxData, Running
<1>2. Block(d, st, << >>, 5)
  BY Zenon DEF RxData
<1>3. Typed /\ Ctx(c)
  BY Found
<1>4. host.cmd = "RM"
  BY <1>1, <1>3, ServedBy DEF DataRx
<1>5. "IDLE" \in States /\ "NO_CARRIER" \in Statuses /\ Ends("NO_CARRIER")
  BY DEF States, Statuses, Ends
<1>6. Ctx(To(c, "IDLE")) /\ To(c, "IDLE").state = "IDLE"
  BY <1>3, <1>5, PendingChanges
<1>7. /\ Ctx(Delay(To(c, "IDLE"), "NO_CARRIER"))
      /\ Delay(To(c, "IDLE"), "NO_CARRIER").state = "IDLE"
      /\ Delay(To(c, "IDLE"), "NO_CARRIER").dcount = 2
      /\ Delay(To(c, "IDLE"), "NO_CARRIER").delayed = "NO_CARRIER"
  BY <1>5, <1>6, DelayedChanges
<1>8. st \in Statuses /\ (Ends(st) => ~on /\ Taken # << >>)
  BY DEF Statuses, Ends
<1>9. Taken # << >> => host.aborted
  BY <1>1, <1>3, <1>4, ReadAborts
<1>10. /\ ~Rests(c) /\ c.state \notin { "IDLE", "BETWEEN_RX" } /\ host.cmd # "TH"
       /\ Serves(host.cmd, "IDLE") /\ Serves(host.cmd, c.state)
  BY <1>1, <1>4 DEF Rests, Serves, DataRx
<1> HIDE DEF st
<1>11. CASE on
  <2>1. d = c
    BY <1>11
  <2> HIDE DEF d, on
  <2>2. Handled(c, st)
    BY <1>1, <1>3, <1>8, <1>10, <1>11, HandledSame
  <2> QED
    BY <1>1, <1>2, <1>3, <2>1, <2>2, BlockReplies
<1>12. CASE ~on
  <2>1. d = Delay(To(c, "IDLE"), "NO_CARRIER")
    BY <1>12
  <2> HIDE DEF d, on
  <2>2. /\ Ctx(d) /\ d.state = "IDLE" /\ d.dcount = 2 /\ Ends(d.delayed)
        /\ Serves(host.cmd, d.state)
    BY <1>5, <1>7, <1>10, <2>1
  <2>3. Handled(d, st)
    BY <1>1, <1>3, <1>8, <1>9, <1>10, <2>2, HandledDelayed
  <2> QED
    BY <1>1, <1>2, <1>3, <2>3, BlockReplies
<1> QED
  BY <1>11, <1>12

\* _handle_data_input touches no delayed status.
LEMMA DataInputPending ==
  ASSUME Ctx(c), NEW in \in Seq(Byte)
  PROVE  SamePending(DataInput(in).d)
<1> DEFINE u == Unescape([dle |-> c.dle, done |-> FALSE, buf |-> << >>], in)
           pad == IF u.done THEN [i \in 1..EtxPad |-> NUL] ELSE << >>
           nul == Last(in) = NUL
           d == [c EXCEPT !.dle = u.dle, !.closed = u.done, !.lastNul = nul]
           y == u.buf \o pad
<1>1. Ctx(DataInput(in).d)
  BY DataInputRight DEF SameCommand, SameModem
<1>2. CASE c.closed \/ in = << >>
  <2>1. DataInput(in) = [d |-> c, bytes |-> << >>]
    BY <1>2 DEF DataInput
  <2>2. DataInput(in).d = c
    BY <2>1
  <2> QED
    BY <2>2 DEF SamePending
<1>3. CASE ~(c.closed \/ in = << >>)
  <2>1. DataInput(in) = [d |-> d, bytes |-> y]
    BY <1>3 DEF DataInput
  <2> HIDE DEF u, nul, y
  <2>2. d.dcount = c.dcount /\ d.delayed = c.delayed
    BY DEF Ctx, CtxFields
  <2> HIDE DEF d
  <2>3. DataInput(in).d = d
    BY <2>1
  <2> QED
    BY <1>1, <2>2, <2>3 DEF SamePending
<1> QED
  BY <1>2, <1>3

\* The silence before the training says nothing.
LEMMA SilenceBeforeOnesReplies ==
  ASSUME SafeInv, RepliesInv, SilenceBeforeOnes
  PROVE  RepliesInv' /\ UnaskedKnown
<1> DEFINE s == IF c.countdown + 1 >= ScrmSilence THEN "ONES" ELSE c.state
           d == [c EXCEPT !.countdown = c.countdown + 1, !.state = s]
<1>1. /\ host.mode # "gone" /\ c.state = "SILENCE_BEFORE_ONES"
      /\ Block(d, "NO_MESSAGE", << >>, 0)
  BY Zenon DEF SilenceBeforeOnes, Running
<1>2. Typed /\ Ctx(c)
  BY Found
<1>3. host.cmd = "TM"
  BY <1>1, <1>2, ServedBy DEF DataTx
<1>4. s \in { "ONES", "SILENCE_BEFORE_ONES" }
  BY <1>1
<1> HIDE DEF s
<1>5. SamePending(d) /\ d.state = s
  BY <1>2, <1>4 DEF SamePending, Ctx, CtxFields, States, DataTx
<1> HIDE DEF d
<1>6. "NO_MESSAGE" \in Statuses /\ ~Ends("NO_MESSAGE")
  BY DEF Statuses, Ends
<1>7. /\ ~Rests(c) /\ Serves(host.cmd, d.state) /\ c.state \notin { "IDLE", "BETWEEN_RX" }
      /\ host.cmd # "TH"
  BY <1>1, <1>3, <1>4, <1>5 DEF Rests, Serves, DataTx
<1>8. Handled(d, "NO_MESSAGE")
  BY <1>1, <1>2, <1>5, <1>6, <1>7, HandledSame DEF SamePending
<1> QED
  BY <1>1, <1>2, <1>8, BlockReplies

\* The training asks for the page with its first block.
LEMMA ScrambledOnesReplies ==
  ASSUME SafeInv, RepliesInv, ScrambledOnes
  PROVE  RepliesInv' /\ UnaskedKnown
<1> DEFINE u == DataInput(Taken)
           f == Written(fifo, u.bytes)
           on == c.enabled \/ c.connect = 1
           ready == IF Taken = << >> THEN c.ready ELSE Len(f) >= Bpb
           link == IF c.connect > 0 THEN c.connect - 1
                   ELSE IF c.connect = -1 /\ c.counter + 1 >= Train THEN 2 ELSE c.connect
           k == IF u.d.counter < Train THEN u.d.counter + 1 ELSE u.d.counter
           s == IF on /\ ready THEN "TX_DATA" ELSE u.d.state
           d == [u.d EXCEPT !.counter = k, !.enabled = on, !.connect = link,
                            !.ready = ready, !.state = s]
           st == IF c.counter = 0 THEN "CONNECT" ELSE "NO_MESSAGE"
<1>1. host.mode # "gone" /\ c.state = "ONES"
  BY DEF ScrambledOnes, Running
<1>2. Block(d, st, << >>, Room)
  BY DEF ScrambledOnes
<1>3. Typed /\ Ctx(c) /\ Taken \in Seq(Byte)
  BY Found
<1>4. c.code \in Codes /\ FifoOK(f)
  BY <1>1, PageGrows
<1>5. SamePending(u.d) /\ u.d.state = "ONES" /\ u.d.counter = c.counter
  BY <1>1, <1>3, DataInputRight, DataInputPending
<1> HIDE DEF u, f
<1>6. /\ on \in BOOLEAN /\ ready \in BOOLEAN /\ link \in -1..2 /\ k \in 0..Train
      /\ s \in { "ONES", "TX_DATA" }
  <2>1. /\ c.enabled \in BOOLEAN /\ c.ready \in BOOLEAN /\ c.connect \in -1..2
        /\ c.counter \in 0..Train /\ Train \in Nat
    BY Found, Sizes DEF Ctx
  <2>2. (Len(f) >= Bpb) \in BOOLEAN
    BY <1>4, Sizes DEF Bpb, FifoOK
  <2>3. ready \in BOOLEAN
    BY <2>1, <2>2, Zenon
  <2>4. on \in BOOLEAN /\ s \in { "ONES", "TX_DATA" }
    BY <1>5
  <2>5. link \in -1..2
    BY <2>1
  <2>6. k \in 0..Train
    BY <1>5, <2>1
  <2> QED
    BY <2>3, <2>4, <2>5, <2>6
<1> HIDE DEF on, ready, link, k, s
<1>7. SamePending(d) /\ d.state = s
  BY <1>5, <1>6 DEF SamePending, Ctx, CtxFields, States, DataTx
<1>8. st \in Statuses /\ ~Ends(st)
  BY DEF Statuses, Ends
<1>9. host.cmd = "TM"
  BY <1>1, <1>3, ServedBy DEF DataTx
<1> HIDE DEF d, st
<1>10. /\ ~Rests(c) /\ Serves(host.cmd, d.state) /\ c.state \notin { "IDLE", "BETWEEN_RX" }
       /\ host.cmd # "TH"
  BY <1>1, <1>6, <1>7, <1>9 DEF Rests, Serves, DataTx
<1>11. Handled(d, st)
  BY <1>1, <1>3, <1>7, <1>8, <1>10, HandledSame DEF SamePending
<1> QED
  BY <1>1, <1>2, <1>3, <1>11, BlockReplies

\* A page that runs dry is over, unless its last byte was a zero.
LEMMA TxDataReplies ==
  ASSUME SafeInv, RepliesInv, TxData
  PROVE  RepliesInv' /\ UnaskedKnown
<1> DEFINE u == DataInput(Taken)
           f == Written(fifo, u.bytes)
           d == IF Len(f) >= Bpb THEN u.d
                ELSE IF u.d.lastNul THEN Restart(u.d, "TX_NULLS") ELSE To(u.d, "IDLE")
           st == IF Len(f) >= Bpb THEN "NO_MESSAGE" ELSE IF u.d.lastNul THEN "CONNECT" ELSE "OK"
<1>1. host.mode # "gone" /\ c.state = "TX_DATA"
  BY DEF TxData, Running
<1>2. Block(d, st, << >>, Room)
  BY Zenon DEF TxData
<1>3. Typed /\ Ctx(c) /\ Taken \in Seq(Byte)
  BY Found
<1>4. SamePending(u.d) /\ u.d.state = "TX_DATA"
  BY <1>1, <1>3, DataInputRight, DataInputPending
<1> HIDE DEF u, f
<1>5. "IDLE" \in States /\ "TX_NULLS" \in States
  BY DEF States, DataTx
<1>6. SamePending(d) /\ d.state \in { "TX_DATA", "TX_NULLS", "IDLE" }
  BY <1>4, <1>5, PendingChanges
<1>7. st \in Statuses
  BY DEF Statuses
<1>8. host.cmd = "TM"
  BY <1>1, <1>3, ServedBy DEF DataTx
<1> HIDE DEF d, st
<1>9. /\ Rests(d) /\ Serves(host.cmd, d.state) /\ c.state \notin { "IDLE", "BETWEEN_RX" }
      /\ host.cmd # "TH"
  BY <1>1, <1>6, <1>8 DEF Rests, Serves, DataTx
<1>10. Handled(d, st)
  BY <1>1, <1>3, <1>6, <1>7, <1>9, HandledSame DEF SamePending
<1> QED
  BY <1>1, <1>2, <1>3, <1>10, BlockReplies

\* A pause in a page ends with a byte or with its time, or with both.
LEMMA TxNullsReplies ==
  ASSUME SafeInv, RepliesInv, TxNulls
  PROVE  RepliesInv' /\ UnaskedKnown
<1> DEFINE u == DataInput(Taken)
           late == c.countdown + 1 > HostLimit
           st == IF late THEN "ERROR" ELSE "NO_MESSAGE"
           n == [c EXCEPT !.countdown = c.countdown + 1]
           b == To(u.d, "TX_DATA")
           d == IF late THEN To(n, "IDLE") ELSE n
           e == [b EXCEPT !.countdown = b.countdown + 1]
<1>1. host.mode # "gone" /\ c.state = "TX_NULLS"
  BY DEF TxNulls, Running
<1>2. Typed /\ Ctx(c) /\ Taken \in Seq(Byte)
  BY Found
<1>3. Block(d, st, << >>, Room) \/ Block(e, st, << >>, Room)
  BY Zenon DEF TxNulls
<1>4. "IDLE" \in States /\ "TX_DATA" \in States
  BY DEF States, DataTx
<1>5. SamePending(u.d)
  BY <1>2, DataInputPending
<1>6. st \in Statuses
  BY DEF Statuses
<1>7. host.cmd = "TM"
  BY <1>1, <1>2, ServedBy DEF DataTx
<1> HIDE DEF u, late
<1>8. SamePending(n) /\ n.state = "TX_NULLS"
  BY <1>1, <1>2 DEF SamePending, Ctx, CtxFields
<1> HIDE DEF n
<1>9. SamePending(d) /\ d.state \in { "TX_NULLS", "IDLE" }
  BY <1>4, <1>8, PendingChanges
<1>10. SamePending(b) /\ b.state = "TX_DATA"
  BY <1>4, <1>5, PendingChanges
<1> HIDE DEF b, d, st
<1>11. SamePending(e) /\ e.state = "TX_DATA"
  BY <1>10 DEF SamePending, Ctx, CtxFields
<1> HIDE DEF e
<1>12. ASSUME NEW x, SamePending(x), x.state \in { "TX_DATA", "TX_NULLS", "IDLE" },
              Block(x, st, << >>, Room)
       PROVE  RepliesInv' /\ UnaskedKnown
  <2>1. /\ Rests(x) /\ Serves(host.cmd, x.state) /\ c.state \notin { "IDLE", "BETWEEN_RX" }
        /\ host.cmd # "TH"
    BY <1>1, <1>7, <1>12 DEF Rests, Serves, DataTx
  <2>2. Handled(x, st)
    BY <1>1, <1>2, <1>6, <1>12, <2>1, HandledSame DEF SamePending
  <2> QED
    BY <1>1, <1>2, <1>12, <2>2, BlockReplies
<1> QED
  BY <1>3, <1>9, <1>11, <1>12

\* What a command makes of the context.
LEMMA CommandContext ==
  ASSUME Typed, NEW cmd \in Commands, NEW code \in Args(cmd), Command(cmd, code)
  PROVE  /\ c'.dcount \in { 0, c.dcount } /\ c'.delayed = c.delayed /\ Serves(cmd, c'.state)
         /\ cmd = "TH" => c'.state = "SILENCE_BEFORE_PREAMBLE" /\ ~c'.done
<1>1. Ctx(c)
  BY DEF Typed
<1>2. /\ cmd = "TH" => TH
      /\ cmd = "TM" => TM(code)
      /\ cmd = "RM" => RM(code)
      /\ cmd = "RH" => RH
      /\ cmd = "TS" => TS
      /\ cmd = "RS" => RS
  BY DEF Command, Commands
<1>3. CASE cmd = "TH"
  <2>1. c' = PreambleInit([c EXCEPT !.code = 3])
    BY <1>2, <1>3 DEF TH
  <2>2. /\ c'.dcount = c.dcount /\ c'.delayed = c.delayed
        /\ c'.state = "SILENCE_BEFORE_PREAMBLE" /\ c'.done = FALSE
    BY <1>1, <2>1 DEF PreambleInit, Ctx, CtxFields
  <2> QED
    BY <1>3, <2>2 DEF Serves, HdlcTx
<1>4. CASE cmd = "TM"
  <2>1. c' = [c EXCEPT !.state = "SILENCE_BEFORE_ONES", !.countdown = 0, !.code = code,
                       !.mod = ModOf(code), !.dir = "tx", !.connect = -1, !.enabled = FALSE,
                       !.ready = FALSE, !.closed = FALSE, !.counter = 0]
    BY <1>2, <1>4 DEF TM
  <2>2. /\ c'.dcount = c.dcount /\ c'.delayed = c.delayed
        /\ c'.state = "SILENCE_BEFORE_ONES"
    BY <1>1, <2>1 DEF Ctx, CtxFields
  <2> QED
    BY <1>4, <2>2 DEF Serves, DataTx
<1>5. CASE cmd = "RM"
  <2> DEFINE b == [c EXCEPT !.state = "RX_LOOK", !.code = code, !.mod = ModOf(code), !.dir = "rx"]
             s == IF code = 3 THEN "LOOK_HDLC" ELSE b.state
  <2>1. c' = [b EXCEPT !.countdown = 0, !.dcount = 0, !.state = s]
    BY <1>2, <1>5, Zenon DEF RM, HdlcRxInit
  <2>2. DOMAIN b = CtxFields /\ b.dcount = c.dcount /\ b.delayed = c.delayed /\ b.state = "RX_LOOK"
    BY <1>1 DEF Ctx, CtxFields
  <2>3. s \in { "LOOK_HDLC", "RX_LOOK" }
    BY <2>2
  <2> HIDE DEF b, s
  <2>4. c'.dcount = 0 /\ c'.delayed = c.delayed /\ c'.state = s
    BY <2>1, <2>2 DEF CtxFields
  <2> QED
    BY <1>5, <2>3, <2>4 DEF Serves, DataRx, HdlcRx
<1>6. CASE cmd = "RH"
  <2> DEFINE b == IF c.state = "BETWEEN_RX" /\ c.code = 3 THEN Restart(c, "RECEIVE_HDLC")
                  ELSE IF super = << >> THEN HdlcRxInit(c, 3)
                  ELSE [To(c, "EMULATE") EXCEPT !.superCount = 2]
  <2>1. c' = [b EXCEPT !.code = 3]
    BY <1>2, <1>6 DEF RH
  <2>2. /\ DOMAIN b = CtxFields /\ b.dcount \in { 0, c.dcount } /\ b.delayed = c.delayed
        /\ b.state \in { "RECEIVE_HDLC", "LOOK_HDLC", "EMULATE" }
    <3>1. CASE c.state = "BETWEEN_RX" /\ c.code = 3
      BY <1>1, <3>1 DEF Restart, Ctx, CtxFields
    <3>2. CASE ~(c.state = "BETWEEN_RX" /\ c.code = 3) /\ super = << >>
      <4>1. b = [c EXCEPT !.countdown = 0, !.dcount = 0, !.state = "LOOK_HDLC"]
        BY <3>2, Zenon DEF HdlcRxInit
      <4> HIDE DEF b
      <4> QED
        BY <1>1, <4>1 DEF Ctx, CtxFields
    <3>3. CASE ~(c.state = "BETWEEN_RX" /\ c.code = 3) /\ super # << >>
      BY <1>1, <3>3 DEF To, Ctx, CtxFields
    <3> QED
      BY <3>1, <3>2, <3>3
  <2> HIDE DEF b
  <2>3. c'.dcount = b.dcount /\ c'.delayed = b.delayed /\ c'.state = b.state
    BY <2>1, <2>2 DEF CtxFields
  <2> QED
    BY <1>6, <2>2, <2>3 DEF Serves, HdlcRx
<1>7. CASE cmd = "TS"
  <2>1. c' = [To(c, "SEND_SILENCE") EXCEPT !.countdown = Quiet]
    BY <1>2, <1>7 DEF TS
  <2>2. c'.dcount = c.dcount /\ c'.delayed = c.delayed /\ c'.state = "SEND_SILENCE"
    BY <1>1, <2>1 DEF To, Ctx, CtxFields
  <2> QED
    BY <1>7, <2>2 DEF Serves
<1>8. CASE cmd = "RS"
  <2>1. c' = [To(c, "RECEIVE_SILENCE") EXCEPT !.countdown = Quiet, !.quiet = 0]
    BY <1>2, <1>8 DEF RS
  <2>2. c'.dcount = c.dcount /\ c'.delayed = c.delayed /\ c'.state = "RECEIVE_SILENCE"
    BY <1>1, <2>1 DEF To, Ctx, CtxFields
  <2> QED
    BY <1>8, <2>2 DEF Serves
<1> QED
  BY <1>3, <1>4, <1>5, <1>6, <1>7, <1>8 DEF Commands

\* A command finds the host with nothing to say, and is the only one whose
\* reply is due unless a delayed status is pending.
LEMMA CommandReplies ==
  ASSUME SafeInv, RepliesInv, NEW cmd \in Commands, NEW code \in Args(cmd), Command(cmd, code)
  PROVE  RepliesInv' /\ UnaskedKnown
<1>1. Typed /\ DOMAIN host = HostFields /\ c.dcount \in 0..1
  BY DEF SafeInv, Typed, HostOK
<1>2. /\ c'.dcount \in { 0, c.dcount } /\ c'.delayed = c.delayed /\ Serves(cmd, c'.state)
      /\ cmd = "TH" => c'.state = "SILENCE_BEFORE_PREAMBLE" /\ ~c'.done
  BY <1>1, CommandContext
<1>3. host.mode = "command" /\ tty' = tty
  BY Zenon DEF Command
<1>4. /\ host'.mode = "waiting" /\ host'.cmd = cmd /\ host'.owes = host.owes
      /\ host'.script = host.script /\ (c.dcount > 0 => host'.stray)
  <2> DEFINE n == host.count + 1
             s == c.dcount > 0
  <2>1. host' = [host EXCEPT !.mode = "waiting", !.cmd = cmd, !.count = n, !.sent = << >>,
                        !.aborted = FALSE, !.cut = c.dle, !.left = queue, !.stray = s]
    BY Zenon DEF Command
  <2> HIDE DEF n, s
  <2>2. /\ host'.mode = "waiting" /\ host'.cmd = cmd /\ host'.owes = host.owes
        /\ host'.script = host.script /\ host'.stray = s
    BY <1>1, <2>1 DEF HostFields
  <2> QED
    BY <2>2, Zenon DEF s
<1>5. /\ tty = << >> /\ host.script = << >> /\ ~host.owes
      /\ c.dcount > 0 => Ends(c.delayed)
  <2>1. host.mode # "gone"
    BY <1>3
  <2> QED
    BY <1>3, <2>1, Zenon DEF RepliesInv
<1>6. c'.dcount > 0 => Ends(c'.delayed) /\ host'.stray
  BY <1>1, <1>2, <1>4, <1>5
<1>7. host'.cmd = "TH" => FrameTurn(c', tty' \o host'.script, host'.owes)
  <2>1. tty' \o host'.script = << >>
    BY <1>3, <1>4, <1>5
  <2>2. ~host'.owes
    BY <1>4, <1>5, Zenon
  <2>3. ASSUME cmd = "TH" PROVE FrameTurn(c', << >>, host'.owes)
    BY <1>2, <2>2, <2>3, TurnSilent
  <2> QED
    BY <1>4, <2>1, <2>3, Zenon
<1>8. tty' = << >> /\ host'.script = << >> /\ ~host'.owes /\ host'.mode # "command"
  BY <1>3, <1>4, <1>5, Zenon
<1>9. Serves(host'.cmd, c'.state)
  BY <1>2, <1>4, Zenon
<1>10. RepliesInv'
  BY <1>6, <1>7, <1>8, <1>9, Zenon DEF RepliesInv, DelayedOwn
<1>11. UnaskedKnown
  BY Zenon DEF Command, UnaskedKnown
<1> QED
  BY <1>10, <1>11

\* What the host says for a CONNECT is its turn, and closes what was begun.
LEMMA SayReplies ==
  ASSUME SafeInv, RepliesInv, host.mode = "online", NEW script, NEW n, NEW sent,
         Say(script, n, sent), host.cmd \in { "TH", "TM" },
         host.cmd = "TH" =>
           FrameTurn(c, (tty \o SubSeq(script, 1, n)) \o SubSeq(script, n + 1, Len(script)), FALSE)
  PROVE  RepliesInv' /\ UnaskedKnown
<1> DEFINE said == SubSeq(script, 1, n)
           rest == SubSeq(script, n + 1, Len(script))
<1>1. DOMAIN host = HostFields
  BY DEF SafeInv, Typed, HostOK
<1>2. /\ tty' = tty \o said /\ c' = c
      /\ host' = [host EXCEPT !.script = rest, !.owes = FALSE, !.sent = sent]
  BY Zenon DEF Say
<1>3. host.cmd = "TH" => FrameTurn(c, (tty \o said) \o rest, FALSE)
  OBVIOUS
<1> HIDE DEF said, rest
<1>4. /\ host'.mode = "online" /\ host'.cmd = host.cmd /\ host'.owes = FALSE
      /\ host'.script = rest /\ host'.stray = host.stray
  BY <1>1, <1>2 DEF HostFields
<1>5. /\ Serves(host.cmd, c.state)
      /\ c.dcount > 0 => Ends(c.delayed) /\ (host.stray \/ c.state \in { "IDLE", "BETWEEN_RX" })
  <2>1. host.mode # "gone"
    OBVIOUS
  <2> QED
    BY <2>1, Zenon DEF RepliesInv
<1>6. host'.cmd = "TH" => FrameTurn(c', tty' \o host'.script, host'.owes)
  BY <1>2, <1>3, <1>4
<1>7. host'.mode # "command" /\ host'.cmd \in { "TH", "TM" } /\ host'.cmd \notin { "RH", "RM" }
  BY <1>4
<1>8. RepliesInv'
  BY <1>2, <1>4, <1>5, <1>6, <1>7, Zenon DEF RepliesInv, DelayedOwn
<1>9. UnaskedKnown
  BY Zenon DEF Say, UnaskedKnown
<1> QED
  BY <1>8, <1>9

\* What the messages of the host must not begin with, after a DLE that was
\* left over from another: its first byte would end the frame or be the DLE.
PlainStart == \A m \in Messages : m[1] \notin { DLE, ETX }

\* The host has its say in the states that wait for it only.
LEMMA HostReplies ==
  ASSUME PlainStart, SafeInv, RepliesInv, HostStarts \/ HostGoesOn \/ HostAborts \/ LineTurns
  PROVE  RepliesInv' /\ UnaskedKnown
<1>0. /\ Typed /\ DOMAIN host = HostFields /\ tty \in Seq(Byte) /\ host.script \in Seq(Byte)
      /\ Ctx(c)
  BY DEF SafeInv, Typed, HostOK
<1>1. CASE HostStarts
  <2>1. PICK m \in IF host.cmd = "TH" THEN Messages ELSE Pages :
          \E n \in Splits \cup { Len(Escaped[m]) } :
            n <= Len(Escaped[m]) /\ Say(Escaped[m], n, Append(host.sent, m))
    BY <1>1 DEF HostStarts
  <2>2. PICK n \in Splits \cup { Len(Escaped[m]) } :
          n <= Len(Escaped[m]) /\ Say(Escaped[m], n, Append(host.sent, m))
    BY <2>1
  <2>3. host.mode = "online" /\ host.owes /\ host.mode # "gone"
    BY <1>1 DEF HostStarts
  <2>4. /\ host.cmd \in { "TH", "TM" }
        /\ host.cmd = "TH" => FrameTurn(c, tty \o host.script, host.owes)
    BY <2>3, Zenon DEF RepliesInv
  <2>5. m \in Messages \cup Pages
    OBVIOUS
  <2>6. Escaped[m] \in Seq(Byte)
    BY <2>5, EscapedBytes
  <2> DEFINE e == Escaped[m]
  <2> HIDE DEF e
  <2>7. n \in Nat /\ n <= Len(e) /\ Len(e) \in Nat
    <3>1. Splits \subseteq Nat
      BY FaxAssumption, Zenon
    <3>2. Len(e) \in Nat
      BY <2>6 DEF e
    <3> QED
      BY <2>2, <3>1, <3>2 DEF e
  <2>8. SubSeq(e, 1, n) \o SubSeq(e, n + 1, Len(e)) = e
    <3>1. /\ 1 \in 1..(Len(e) + 1) /\ n \in (1 - 1)..Len(e) /\ Len(e) \in n..Len(e)
          /\ e \in Seq(Byte)
      BY <2>6, <2>7 DEF e
    <3>2. SubSeq(e, 1, n) \o SubSeq(e, n + 1, Len(e)) = SubSeq(e, 1, Len(e))
      BY <3>1, ConcatAdjacentSubSeq
    <3> QED
      BY <3>1, <3>2, SubSeqFull
  <2>9. ASSUME host.cmd = "TH"
        PROVE  FrameTurn(c, (tty \o SubSeq(e, 1, n)) \o SubSeq(e, n + 1, Len(e)), FALSE)
    <3>1. FrameTurn(c, tty \o host.script, host.owes)
      BY <2>4, <2>9
    <3>2. tty \o host.script = << >>
      BY <2>3, <3>1, Zenon DEF FrameTurn
    <3>3. tty = << >>
      BY <1>0, <3>2, ReadFirst
    <3>4. (tty \o SubSeq(e, 1, n)) \o SubSeq(e, n + 1, Len(e)) = e
      <4> DEFINE a == SubSeq(e, 1, n)
                 b == SubSeq(e, n + 1, Len(e))
      <4>1. a \in Seq(Byte)
        <5>1. 1 \in Nat \ { 0 } /\ e \in Seq(Byte)
          BY <2>6 DEF e
        <5> QED
          BY <2>7, <5>1, PartOf
      <4> HIDE DEF a
      <4>2. tty \o a = a
        BY <3>3, <4>1
      <4> QED
        BY <2>8, <4>2 DEF a
    <3>5. \E out : Closes(Sender(c), e, out)
      <4>1. Sender(c) \in Ear /\ Sender(c).done = FALSE
        BY <1>0 DEF Sender, Ear, Ctx
      <4>2. m \in Messages
        BY <2>9
      <4>3. m # << >> /\ m[1] \notin { DLE, ETX }
        BY <4>2, FaxAssumption DEF PlainStart
      <4> QED
        BY <2>5, <4>1, <4>3, EscapedCloses DEF e
    <3>6. /\ c.state \notin { "ANSWER_TONE", "SILENCE_BEFORE_PREAMBLE", "SEND_HDLC" }
          /\ ~(c.state = "BETWEEN_TX" /\ c.countdown <= 2)
          /\ ~(c.state = "PREAMBLE" /\ c.done)
      BY <2>3, <3>1, Zenon DEF FrameTurn
    <3>7. FrameTurn(c, e, FALSE)
      BY <3>5, <3>6, Zenon DEF FrameTurn
    <3> QED
      BY <3>4, <3>7
  <2> QED
    BY <2>2, <2>3, <2>4, <2>9, SayReplies DEF e
<1>2. CASE HostGoesOn
  <2>1. /\ host.mode = "online" /\ host.script # << >> /\ host.mode # "gone"
        /\ Say(host.script, Len(host.script), host.sent)
    BY <1>2 DEF HostGoesOn
  <2>2. /\ host.cmd \in { "TH", "TM" }
        /\ host.cmd = "TH" => FrameTurn(c, tty \o host.script, host.owes)
    BY <2>1, Zenon DEF RepliesInv
  <2> DEFINE s == host.script
             n == Len(s)
  <2>3. SubSeq(s, 1, n) = s /\ SubSeq(s, n + 1, n) = << >>
    <3> HIDE DEF s
    <3>1. s \in Seq(Byte) /\ Len(s) \in Nat
      BY <1>0 DEF s
    <3>2. SubSeq(s, 1, Len(s)) = s
      BY <3>1, SubSeqFull
    <3>3. SubSeq(s, Len(s) + 1, Len(s)) = << >>
      BY <3>1, SubSeqEmpty
    <3> QED
      BY <3>2, <3>3
  <2>4. ASSUME host.cmd = "TH"
        PROVE  FrameTurn(c, (tty \o SubSeq(s, 1, n)) \o SubSeq(s, n + 1, n), FALSE)
    <3>1. (tty \o s) \o << >> = tty \o s
      BY <1>0, ConcatEmptySeq
    <3>2. FrameTurn(c, tty \o s, FALSE)
      BY <2>2, <2>4, Zenon DEF FrameTurn
    <3> HIDE DEF s, n
    <3> QED
      BY <2>3, <3>1, <3>2
  <2> QED
    BY <2>1, <2>2, <2>4, SayReplies
<1>3. CASE HostAborts
  <2>1. c' = c /\ tty' = << CAN >> /\ host' = [host EXCEPT !.aborted = TRUE]
    BY <1>3, Zenon DEF HostAborts
  <2>2. host.mode = "online" /\ host.cmd \in { "RH", "RM" } /\ host.mode # "gone"
    BY <1>3 DEF HostAborts
  <2>3. /\ host'.mode = "online" /\ host'.cmd = host.cmd /\ host'.owes = host.owes
        /\ host'.script = host.script /\ host'.stray = host.stray /\ host'.aborted = TRUE
    BY <1>0, <2>1, <2>2 DEF HostFields
  <2>4. /\ Serves(host.cmd, c.state)
        /\ c.dcount > 0 => Ends(c.delayed) /\ (host.stray \/ c.state \in { "IDLE", "BETWEEN_RX" })
        /\ host.owes \/ host.script # << >> => host.cmd \in { "TH", "TM" }
    BY <2>2, Zenon DEF RepliesInv
  <2>5. host'.mode # "command" /\ host'.cmd # "TH"
    BY <2>2, <2>3
  <2>6. RepliesInv'
    BY <2>1, <2>3, <2>4, <2>5, Zenon DEF RepliesInv, DelayedOwn
  <2>7. UnaskedKnown
    BY <1>3, Zenon DEF HostAborts, UnaskedKnown
  <2> QED
    BY <2>6, <2>7
<1>4. CASE LineTurns
  <2>1. c' = c /\ host' = host /\ tty' = tty
    BY <1>4, Zenon DEF LineTurns
  <2>2. RepliesInv'
    BY <2>1, Zenon DEF RepliesInv, DelayedOwn
  <2>3. UnaskedKnown
    BY <1>4, Zenon DEF LineTurns, UnaskedKnown
  <2> QED
    BY <2>2, <2>3
<1> QED
  BY <1>1, <1>2, <1>3, <1>4

\* A new session owes its first reply.
LEMMA InitReplies == ASSUME SafeInv, Init PROVE RepliesInv
<1>1. PICK ans \in BOOLEAN, g \in Garbage : c = Created(ans, g) /\ host = Caller(ans)
  BY Zenon DEF Init
<1> DEFINE s == IF ans THEN "ANSWER_TONE" ELSE "LOOK_HDLC"
           k == IF ans THEN "TH" ELSE "RH"
<1>2. c.state = s /\ c.dcount = 0
  BY <1>1 DEF Created
<1>3. /\ host.mode = "waiting" /\ host.cmd = k /\ host.owes = FALSE /\ host.script = << >>
  BY <1>1 DEF Caller
<1>4. tty = << >>
  BY Zenon DEF Init
<1>5. Serves(k, s) /\ s # "SILENCE_BEFORE_PREAMBLE"
  BY DEF Serves, HdlcTx, HdlcRx
<1> HIDE DEF s, k
<1>6. tty \o host.script = << >>
  BY <1>3, <1>4
<1>7. FrameTurn(c, tty \o host.script, host.owes)
  <2>1. c.state # "SILENCE_BEFORE_PREAMBLE" /\ ~host.owes
    BY <1>2, <1>3, <1>5
  <2> QED
    BY <1>6, <2>1, TurnSilent
<1>8. ~(c.dcount > 0) /\ host.mode # "command" /\ ~host.owes
  BY <1>2, <1>3
<1>9. Serves(host.cmd, c.state)
  BY <1>2, <1>3, <1>5
<1> QED
  BY <1>3, <1>4, <1>7, <1>8, <1>9, Zenon DEF RepliesInv, DelayedOwn

\* Every step keeps the invariant of the replies, and gives known ones only.
LEMMA StepReplies ==
  ASSUME PlainStart, SafeInv, RepliesInv, Next
  PROVE  RepliesInv' /\ UnaskedKnown
<1>1. CASE Pump
  BY <1>1, IdleReplies, AnswerToneReplies, SendSilenceReplies, ReceiveSilenceReplies,
     SilenceBeforePreambleReplies, PreambleReplies, SendHdlcBufferReplies,
     SendHdlcBetweenReplies, LookHdlcReplies, HdlcReceiveReplies, HdlcReceiveBetweenReplies,
     HdlcEmulateReplies, SilenceBeforeOnesReplies, ScrambledOnesReplies, TxDataReplies,
     TxNullsReplies, RxLookReplies, RxDataReplies DEF Pump
<1>2. CASE \E cmd \in Commands : \E code \in Args(cmd) : Command(cmd, code)
  BY <1>2, CommandReplies
<1>3. CASE HostStarts \/ HostGoesOn \/ HostAborts \/ LineTurns
  BY <1>3, HostReplies
<1>4. CASE Delete
  <2>1. host' = [Caller(TRUE) EXCEPT !.mode = "gone"]
    BY <1>4, Zenon DEF Delete
  <2>2. host'.mode = "gone"
    BY <2>1 DEF Caller
  <2>3. RepliesInv'
    BY <2>2, Zenon DEF RepliesInv
  <2>4. UnaskedKnown
    BY <1>4, Zenon DEF Delete, UnaskedKnown
  <2> QED
    BY <2>3, <2>4
<1> QED
  BY <1>1, <1>2, <1>3, <1>4 DEF Next

\* One reply per command (class1.c:1026, cHDLCrx.c): no status is left pending
\* when a command ends, and no reply comes that no command asked for, but in the
\* known ways.  The frames begin with an octet that is neither DLE nor ETX, as
\* the HDLC address of T.30 does; the replies of the pump decide nothing else of
\* what the host says.
THEOREM RepliesRight ==
  ASSUME PlainStart
  PROVE  Spec => RepliesKnown
<1>1. Init => FullInv /\ RepliesInv
  BY InitFull, InitReplies DEF FullInv
<1>2. FullInv /\ RepliesInv /\ [Next]_vars => RepliesInv' /\ [DelayedOwn' /\ UnaskedKnown]_vars
  <2> SUFFICES ASSUME FullInv, RepliesInv, [Next]_vars
               PROVE  RepliesInv' /\ [DelayedOwn' /\ UnaskedKnown]_vars
    OBVIOUS
  <2>1. CASE Next
    <3>1. RepliesInv' /\ UnaskedKnown
      BY <2>1, StepReplies DEF FullInv
    <3>2. DelayedOwn'
      <4>1. CASE host'.mode = "gone"
        BY <4>1 DEF DelayedOwn
      <4>2. CASE host'.mode # "gone"
        BY <3>1, <4>2, Zenon DEF RepliesInv
      <4> QED
        BY <4>1, <4>2
    <3> QED
      BY <3>1, <3>2
  <2>2. CASE UNCHANGED vars
    <3>1. c' = c /\ host' = host /\ tty' = tty
      BY <2>2, Zenon DEF vars
    <3>2. RepliesInv'
      BY <3>1, Zenon DEF RepliesInv, DelayedOwn
    <3> QED
      BY <2>2, <3>2
  <2> QED
    BY <2>1, <2>2
<1> QED
  BY <1>1, <1>2, StepFull, PTL DEF Spec, RepliesKnown

-----------------------------------------------------------------------------
(***************************************************************************)
(* What the host sends is what the modem gets.                             *)
(***************************************************************************)

\* A frame, and what of it an empty queue of the V.21 transmitter takes.
Octets == Seq(Byte)
Fits(m) == IF Len(m) + 3 < QueueSize THEN << m >> ELSE << >>

\* The frames that fit, one after the other.
Keeps(s, f) ==
  /\ f \in [0..Len(s) -> Seq(Octets)]
  /\ f[0] = << >> /\ \A i \in 1..Len(s) : f[i] = f[i - 1] \o Fits(s[i])

\* What fits of a frame is a queue of at most that frame.
LEMMA FitsRight ==
  ASSUME NEW m \in Octets
  PROVE  /\ Fits(m) \in Seq(Octets) /\ Len(Fits(m)) <= 1
         /\ \A x \in Seq(Octets) :
              x \o Fits(m) = IF Len(m) + 3 < QueueSize THEN Append(x, m) ELSE x
<1> DEFINE fits == Len(m) + 3 < QueueSize
<1>1. CASE fits
  <2>1. Fits(m) = << m >>
    BY <1>1 DEF Fits
  <2>2. << m >> \in Seq(Octets) /\ Len(<< m >>) = 1
    OBVIOUS
  <2>3. \A x \in Seq(Octets) : x \o << m >> = Append(x, m)
    BY AppendIsConcat
  <2> QED
    BY <1>1, <2>1, <2>2, <2>3
<1>2. CASE ~fits
  <2>1. Fits(m) = << >>
    BY <1>2 DEF Fits
  <2>2. << >> \in Seq(Octets) /\ Len(<< >>) = 0
    OBVIOUS
  <2>3. \A x \in Seq(Octets) : x \o << >> = x
    BY ConcatEmptySeq
  <2> QED
    BY <1>2, <2>1, <2>2, <2>3
<1> QED
  BY <1>1, <1>2

\* A walk over the first n of the frames.
Queued(s, n, f) == f[0] = << >> /\ \A i \in 1..n : f[i] = f[i - 1] \o Fits(s[i])

\* Two walks over the same frames end in the same queue.
LEMMA KeepsOnce ==
  ASSUME NEW s, NEW n \in Nat, NEW f, NEW g, Queued(s, n, f), Queued(s, n, g)
  PROVE  f[n] = g[n]
<1> DEFINE T == { k \in Nat : f[k] = g[k] }
<1>1. 0 \in T
  BY DEF Queued
<1>2. ASSUME NEW k \in 0..n - 1, k \in T PROVE k + 1 \in T
  <2>1. k + 1 \in 1..n /\ (k + 1) - 1 = k /\ k + 1 \in Nat
    BY <1>2
  <2>2. f[k + 1] = f[k] \o Fits(s[k + 1]) /\ g[k + 1] = g[k] \o Fits(s[k + 1])
    BY <2>1 DEF Queued
  <2> QED
    BY <1>2, <2>1, <2>2
<1>3. n \in 0..n
  OBVIOUS
<1>4. \A k \in 0..n : k \in T
  <2> HIDE DEF T
  <2> QED
    BY <1>1, <1>2, UpTo
<1> QED
  BY <1>3, <1>4

\* The queue takes the frames that fit, in their order.
LEMMA FittingKeeps ==
  ASSUME NEW s \in Seq(Octets)
  PROVE  \E f : Keeps(s, f) /\ Fitting(s) = f[Len(s)]
<1> DEFINE n == Len(s)
           S == Seq(Octets)
           G == [p \in (1..n) \X S |-> p[2] \o Fits(s[p[1]])]
           F(g) == [i \in 0..n |->
                      IF i = 0 THEN << >>
                      ELSE IF Len(s[i]) + 3 < QueueSize THEN Append(g[i - 1], s[i])
                      ELSE g[i - 1]]
           h == CHOOSE g : g = F(g)
<1>1. n \in Nat /\ << >> \in S /\ \A i \in 1..n : s[i] \in Octets
  OBVIOUS
<1>2. ASSUME NEW p \in (1..n) \X S PROVE p[2] \o Fits(s[p[1]]) \in S
  <2>1. p[2] \in S /\ s[p[1]] \in Octets
    BY <1>1
  <2>2. Fits(s[p[1]]) \in S
    BY <2>1, FitsRight
  <2> QED
    BY <2>1, <2>2, ConcatProperties
<1>3. G \in [(1..n) \X S -> S]
  BY <1>2
<1>4. \A i \in 1..n : \A x \in S : G[<< i, x >>] = x \o Fits(s[i])
  OBVIOUS
<1> HIDE DEF G
<1>5. PICK f \in [0..n -> S] : f[0] = << >> /\ \A i \in 1..n : f[i] = G[<< i, f[i - 1] >>]
  <2>1. \E f : Recurs(n, S, << >>, G, f)
    <3> HIDE DEF S, n
    <3> QED
      BY <1>1, <1>3, Recursion
  <2> QED
    BY <2>1 DEF Recurs
<1>6. ASSUME NEW i \in 1..n PROVE f[i] = f[i - 1] \o Fits(s[i])
  <2>1. i - 1 \in 0..n
    BY <1>1
  <2> QED
    BY <1>4, <1>5, <2>1
<1>7. f = F(f)
  <2>1. ASSUME NEW i \in 0..n PROVE f[i] = F(f)[i]
    <3>1. CASE i = 0
      BY <1>5, <3>1
    <3>2. CASE i # 0
      <4>1. i \in 1..n /\ i - 1 \in 0..n
        BY <1>1, <3>2
      <4>2. f[i] = f[i - 1] \o Fits(s[i])
        BY <1>6, <4>1
      <4>3. f[i - 1] \in S /\ s[i] \in Octets
        BY <1>1, <1>5, <4>1
      <4>4. f[i - 1] \o Fits(s[i]) =
              IF Len(s[i]) + 3 < QueueSize THEN Append(f[i - 1], s[i]) ELSE f[i - 1]
        BY <4>3, FitsRight
      <4> QED
        BY <3>2, <4>2, <4>4, Zenon
    <3> QED
      BY <3>1, <3>2
  <2> HIDE DEF F
  <2>2. F(f) = [i \in 0..n |-> F(f)[i]]
    BY DEF F
  <2> QED
    BY <1>5, <2>1, <2>2
<1>8. h = F(h)
  BY <1>7
<1>9. Fitting(s) = h[n]
  BY Zenon DEF Fitting
<1> HIDE DEF h
<1>10. DOMAIN h = 0..n /\ \A i \in 0..n : h[i] = F(h)[i]
  BY <1>8
<1>11. h[0] = << >>
  <2>1. 0 \in 0..n
    BY <1>1
  <2>2. h[0] = F(h)[0]
    BY <1>10, <2>1
  <2> QED
    BY <2>1, <2>2, Zenon
<1>12. \A i \in 1..n : h[i] = IF Len(s[i]) + 3 < QueueSize THEN Append(h[i - 1], s[i]) ELSE h[i - 1]
  <2> SUFFICES ASSUME NEW i \in 1..n
               PROVE  h[i] = IF Len(s[i]) + 3 < QueueSize THEN Append(h[i - 1], s[i]) ELSE h[i - 1]
    OBVIOUS
  <2>1. i \in 0..n /\ i # 0
    BY <1>1
  <2>2. h[i] = F(h)[i]
    BY <1>10, <2>1
  <2> QED
    BY <2>1, <2>2, Zenon
<1>13. \A i \in 1..n : f[i] = IF Len(s[i]) + 3 < QueueSize THEN Append(f[i - 1], s[i]) ELSE f[i - 1]
  <2> SUFFICES ASSUME NEW i \in 1..n
               PROVE  f[i] = IF Len(s[i]) + 3 < QueueSize THEN Append(f[i - 1], s[i]) ELSE f[i - 1]
    OBVIOUS
  <2>1. i - 1 \in 0..n
    BY <1>1
  <2>2. f[i - 1] \in S /\ s[i] \in Octets
    BY <1>1, <1>5, <2>1
  <2> QED
    BY <1>6, <2>2, FitsRight
<1> DEFINE T == { k \in Nat : f[k] = h[k] }
<1>14. 0 \in T
  BY <1>5, <1>11
<1>15. ASSUME NEW k \in 0..n - 1, k \in T PROVE k + 1 \in T
  <2>1. k + 1 \in 1..n /\ (k + 1) - 1 = k /\ k + 1 \in Nat
    BY <1>1, <1>15
  <2> QED
    BY <1>12, <1>13, <1>15, <2>1
<1>16. n \in 0..n
  BY <1>1
<1>17. n \in T
  <2> HIDE DEF T
  <2> QED
    BY <1>1, <1>14, <1>15, <1>16, UpTo
<1>18. Fitting(s) = f[n]
  BY <1>9, <1>17
<1>19. Keeps(s, f)
  BY <1>5, <1>6 DEF Keeps
<1> QED
  BY <1>18, <1>19

\* No frame, and one frame more.
LEMMA FittingRight ==
  /\ Fitting(<< >>) = << >>
  /\ \A s \in Seq(Octets) :
       /\ Fitting(s) \in Seq(Octets)
       /\ \A m \in Octets : Fitting(Append(s, m)) = Fitting(s) \o Fits(m)
<1>1. Fitting(<< >>) = << >>
  <2>1. << >> \in Seq(Octets) /\ Len(<< >>) = 0
    OBVIOUS
  <2>2. PICK f : Keeps(<< >>, f) /\ Fitting(<< >>) = f[Len(<< >>)]
    BY <2>1, FittingKeeps
  <2> QED
    BY <2>1, <2>2 DEF Keeps
<1>2. ASSUME NEW s \in Seq(Octets)
      PROVE  /\ Fitting(s) \in Seq(Octets)
             /\ \A m \in Octets : Fitting(Append(s, m)) = Fitting(s) \o Fits(m)
  <2>1. PICK f : Keeps(s, f) /\ Fitting(s) = f[Len(s)]
    BY FittingKeeps
  <2> DEFINE n == Len(s)
  <2>2. n \in Nat /\ n \in 0..n
    OBVIOUS
  <2>3. f \in [0..n -> Seq(Octets)] /\ f[0] = << >> /\ \A i \in 1..n : f[i] = f[i - 1] \o Fits(s[i])
    BY <2>1 DEF Keeps
  <2>4. Fitting(s) \in Seq(Octets)
    BY <2>1, <2>2, <2>3
  <2>5. ASSUME NEW m \in Octets PROVE Fitting(Append(s, m)) = Fitting(s) \o Fits(m)
    <3> DEFINE t == Append(s, m)
    <3>1. t \in Seq(Octets) /\ Len(t) = n + 1 /\ (\A i \in 1..n : t[i] = s[i]) /\ t[n + 1] = m
      BY AppendProperties
    <3> HIDE DEF t
    <3>2. PICK g : Keeps(t, g) /\ Fitting(t) = g[n + 1]
      BY <3>1, FittingKeeps
    <3>3. /\ g[0] = << >> /\ \A i \in 1..n : g[i] = g[i - 1] \o Fits(s[i])
          /\ g[n + 1] = g[(n + 1) - 1] \o Fits(m)
      <4>1. /\ g[0] = << >> /\ \A i \in 1..n + 1 : g[i] = g[i - 1] \o Fits(t[i])
        BY <3>1, <3>2 DEF Keeps
      <4>2. n + 1 \in 1..n + 1 /\ \A i \in 1..n : i \in 1..n + 1
        BY <2>2
      <4> QED
        BY <3>1, <4>1, <4>2
    <3>4. f[n] = g[n]
      <4>1. Queued(s, n, f) /\ Queued(s, n, g)
        BY <2>3, <3>3 DEF Queued
      <4> HIDE DEF n
      <4> QED
        BY <2>2, <4>1, KeepsOnce
    <3>5. (n + 1) - 1 = n
      BY <2>2
    <3> QED
      BY <2>1, <3>2, <3>3, <3>4, <3>5 DEF t
  <2> QED
    BY <2>4, <2>5
<1> QED
  BY <1>1, <1>2

\* All frames but the last, and the last.
LEMMA FrontRight ==
  ASSUME NEW S, NEW s \in Seq(S)
  PROVE  /\ Front(s) \in Seq(S)
         /\ s # << >> => Last(s) \in S /\ Append(Front(s), Last(s)) = s
         /\ \A m \in S : Front(Append(s, m)) = s /\ Last(Append(s, m)) = m
<1>1. ASSUME NEW t \in Seq(S), NEW m \in S
      PROVE  Front(Append(t, m)) = t /\ Last(Append(t, m)) = m
  <2> DEFINE a == Append(t, m)
  <2>1. /\ a \in Seq(S) /\ Len(a) = Len(t) + 1 /\ (\A i \in 1..Len(t) : a[i] = t[i])
        /\ a[Len(t) + 1] = m /\ Len(t) \in Nat
    BY AppendProperties
  <2> HIDE DEF a
  <2>2. SubSeq(a, 1, Len(a) - 1) = t
    <3>1. Len(a) - 1 = Len(t)
      BY <2>1
    <3> DEFINE x == SubSeq(a, 1, Len(t))
    <3>2. \A i \in 1..Len(t) : a[i] \in S
      BY <2>1
    <3>3. /\ x \in Seq(S) /\ Len(x) = IF 1 <= Len(t) THEN Len(t) - 1 + 1 ELSE 0
          /\ \A i \in 1..Len(t) - 1 + 1 : x[i] = a[1 + i - 1]
      BY <2>1, <3>2, SubSeqProperties
    <3> HIDE DEF x
    <3>4. Len(x) = Len(t) /\ \A i \in 1..Len(t) : x[i] = t[i]
      BY <2>1, <3>3
    <3>5. x = t
      BY <3>3, <3>4, SeqEqual
    <3> QED
      BY <3>1, <3>5 DEF x
  <2> QED
    BY <2>1, <2>2 DEF Front, Last, a
<1>2. CASE s = << >>
  <2>1. Len(s) - 1 < 1 /\ Len(s) - 1 = -1
    BY <1>2
  <2>2. SubSeq(s, 1, -1) = << >>
    BY SubSeqEmpty
  <2>3. Front(s) = << >>
    BY <2>1, <2>2 DEF Front
  <2>4. << >> \in Seq(S)
    OBVIOUS
  <2> QED
    BY <1>1, <1>2, <2>3, <2>4
<1>3. CASE s # << >>
  <2>1. PICK t \in Seq(S), m \in S : s = Append(t, m)
    BY <1>3, SequenceEmptyOrAppend
  <2>2. Front(s) = t /\ Last(s) = m
    BY <1>1, <2>1
  <2> QED
    BY <1>1, <2>1, <2>2
<1> QED
  BY <1>2, <1>3

\* The V.21 transmitter has room for a frame that fits when its queue is empty.
LEMMA LoadNothing ==
  ASSUME queue = << >>
  PROVE  Load = 0
<1> DEFINE F(g) == [i \in 0..Len(queue) |->
                      IF i = 0 THEN 0 ELSE g[i - 1] + Len(queue[i]) + 3]
           h == CHOOSE g : g = F(g)
           f == [i \in 0..Len(queue) |-> 0]
<1>1. Len(queue) = 0
  OBVIOUS
<1>2. f = F(f)
  BY <1>1
<1>3. h = F(h)
  <2> HIDE DEF F, f
  <2> QED
    BY <1>2
<1>4. Load = h[Len(queue)]
  BY Zenon DEF Load
<1> HIDE DEF h
<1>5. h[0] = 0
  <2>1. h[0] = F(h)[0]
    BY <1>3, Zenon
  <2>2. 0 \in 0..Len(queue)
    BY <1>1
  <2> QED
    BY <2>1, <2>2, Zenon
<1> QED
  BY <1>1, <1>4, <1>5

\* A block of the V.21 transmitter keeps the order of what it is given, and
\* empties a queue of one frame.
LEMMA TransmitRight ==
  ASSUME queue \in Seq(Octets), aired \in Seq(Octets), Len(queue) <= 1,
         NEW new \in BOOLEAN, NEW f \in Octets, Transmit(new, f), new => queue = << >>
  PROVE  /\ queue' \in Seq(Octets) /\ aired' \in Seq(Octets) /\ Len(queue') <= 1
         /\ ~new => queue' = << >> /\ aired' \o queue' = aired \o queue
         /\ new => aired' \o queue' = (aired \o queue) \o Fits(f)
<1> DEFINE x == IF new /\ Accepts(f) THEN << f >> ELSE << >>
<1>1. /\ queue' = (IF queue = << >> THEN << >> ELSE Tail(queue)) \o x
      /\ aired' = IF queue = << >> THEN aired ELSE Append(aired, Head(queue))
  BY Zenon DEF Transmit
<1>2. /\ x \in Seq(Octets) /\ Len(x) <= 1 /\ (~new => x = << >>)
      /\ (queue = << >> /\ new => x = Fits(f))
  <2>1. << f >> \in Seq(Octets) /\ Len(<< f >>) = 1 /\ << >> \in Seq(Octets) /\ Len(<< >>) = 0
    OBVIOUS
  <2>2. x \in { << f >>, << >> } /\ (~new => x = << >>)
    OBVIOUS
  <2>3. ASSUME queue = << >>, new PROVE x = Fits(f)
    <3>1. Load = 0
      BY <2>3, LoadNothing
    <3>2. Len(f) \in Nat
      BY DEF Octets
    <3>3. Accepts(f) = (Len(f) + 3 < QueueSize)
      BY <3>1, <3>2 DEF Accepts
    <3> QED
      BY <2>3, <3>3, Zenon DEF Fits
  <2> HIDE DEF x
  <2>4. x \in Seq(Octets) /\ Len(x) <= 1
    <3>1. CASE x = << f >>
      BY <2>1, <3>1
    <3>2. CASE x = << >>
      BY <2>1, <3>2
    <3> QED
      BY <2>2, <3>1, <3>2
  <2> QED
    BY <2>2, <2>3, <2>4
<1> HIDE DEF x
<1>3. CASE queue = << >>
  <2>1. queue' = << >> \o x /\ aired' = aired
    BY <1>1, <1>3
  <2>2. queue' = x /\ aired \o queue = aired
    BY <1>2, <1>3, <2>1, ConcatEmptySeq
  <2>3. ~new => aired' \o queue' = aired \o queue
    BY <1>2, <1>3, <2>1, <2>2
  <2>4. new => aired' \o queue' = (aired \o queue) \o Fits(f)
    BY <1>2, <1>3, <2>1, <2>2
  <2> QED
    BY <1>2, <2>1, <2>2, <2>3, <2>4
<1>4. CASE queue # << >>
  <2>1. ~new /\ x = << >>
    BY <1>2, <1>4
  <2>2. Head(queue) \in Octets /\ Tail(queue) \in Seq(Octets) /\ Len(Tail(queue)) = Len(queue) - 1
    BY <1>4, HeadTailProperties
  <2> DEFINE q == queue
             n == Len(queue)
  <2>3. n \in Nat /\ n # 0 /\ n <= 1
    BY <1>4
  <2>4. n = 1
    <3> HIDE DEF n
    <3> QED
      BY <2>3
  <2>5. Tail(queue) = << >>
    <3> DEFINE t == Tail(queue)
    <3>1. t \in Seq(Octets) /\ Len(t) = 0
      BY <2>2, <2>4
    <3> HIDE DEF t
    <3>2. t = << >>
      BY <3>1
    <3> QED
      BY <3>2 DEF t
  <2>6. queue = << Head(queue) >>
    <3>1. q \in Seq(Octets) /\ Len(q) = 1
      BY <2>4
    <3> HIDE DEF q
    <3>2. q = << q[1] >> /\ Head(q) = q[1]
      BY <3>1
    <3> QED
      BY <3>2 DEF q
  <2>7. queue' = << >> /\ aired' = Append(aired, Head(queue))
    BY <1>1, <1>4, <2>1, <2>5
  <2>8. aired' \in Seq(Octets) /\ aired' \o queue' = aired'
    BY <2>2, <2>7, AppendProperties, ConcatEmptySeq
  <2>9. aired \o queue = Append(aired, Head(queue))
    BY <2>2, <2>6, AppendIsConcat
  <2> QED
    BY <2>1, <2>7, <2>8, <2>9
<1> QED
  BY <1>3, <1>4

\* One of the frames is final.
FinalIn(s) == \E i \in DOMAIN s : Final(s[i])

\* A frame more is final itself, or one of those before it is.
LEMMA FinalOne ==
  /\ ~FinalIn(<< >>)
  /\ \A s \in Seq(Octets) : \A m \in Octets : FinalIn(Append(s, m)) <=> (FinalIn(s) \/ Final(m))
<1>1. ~FinalIn(<< >>)
  BY DEF FinalIn
<1>2. ASSUME NEW s \in Seq(Octets), NEW m \in Octets
      PROVE  FinalIn(Append(s, m)) <=> (FinalIn(s) \/ Final(m))
  <2> DEFINE a == Append(s, m)
  <2>1. /\ DOMAIN a = 1..Len(s) + 1 /\ DOMAIN s = 1..Len(s) /\ Len(s) \in Nat
        /\ (\A i \in 1..Len(s) : a[i] = s[i]) /\ a[Len(s) + 1] = m
    BY AppendProperties
  <2> HIDE DEF a
  <2>2. ASSUME NEW i \in DOMAIN a, Final(a[i]) PROVE FinalIn(s) \/ Final(m)
    <3>1. CASE i = Len(s) + 1
      BY <2>1, <2>2, <3>1
    <3>2. CASE i # Len(s) + 1
      <4>1. i \in DOMAIN s /\ a[i] = s[i]
        BY <2>1, <2>2, <3>2
      <4> QED
        BY <2>2, <4>1, Zenon DEF FinalIn
    <3> QED
      BY <3>1, <3>2
  <2>3. ASSUME NEW i \in DOMAIN s, Final(s[i]) PROVE FinalIn(a)
    <3>1. i \in DOMAIN a /\ a[i] = s[i]
      BY <2>1
    <3> QED
      BY <2>3, <3>1, Zenon DEF FinalIn
  <2>4. ASSUME Final(m) PROVE FinalIn(a)
    <3>1. Len(s) + 1 \in DOMAIN a
      BY <2>1
    <3>2. Final(a[Len(s) + 1])
      BY <2>1, <2>4, Zenon
    <3> QED
      BY <3>1, <3>2, Zenon DEF FinalIn
  <2>5. FinalIn(a) => FinalIn(s) \/ Final(m)
    BY <2>2, Zenon DEF FinalIn
  <2>6. FinalIn(s) => FinalIn(a)
    BY <2>3, Zenon DEF FinalIn
  <2> QED
    BY <2>4, <2>5, <2>6, Zenon DEF a
<1> QED
  BY <1>1, <1>2

\* What some bytes begin with.
LEMMA BeginsWith ==
  ASSUME NEW x \in Seq(Byte), NEW z \in Seq(Byte)
  PROVE  IsPrefix(x, x \o z)
<1> DEFINE y == x \o z
<1>1. /\ y \in Seq(Byte) /\ Len(y) = Len(x) + Len(z) /\ Len(x) \in Nat /\ Len(z) \in Nat
      /\ \A i \in 1..Len(x) : y[i] = x[i]
  BY ConcatProperties
<1> HIDE DEF y
<1>2. Len(x) <= Len(y)
  BY <1>1
<1> DEFINE a == SubSeq(x, 1, Len(x))
           b == SubSeq(y, 1, Len(x))
<1>3. a \in Seq(Byte) /\ Len(a) = Len(x) /\ \A i \in 1..Len(x) : a[i] = x[i]
  BY <1>1, FirstOf
<1>4. b \in Seq(Byte) /\ Len(b) = Len(x) /\ \A i \in 1..Len(x) : b[i] = y[i]
  BY <1>1, <1>2, FirstOf
<1> HIDE DEF a, b
<1>5. \A i \in 1..Len(a) : a[i] = b[i]
  BY <1>1, <1>3, <1>4
<1>6. a = b
  BY <1>3, <1>4, <1>5, SeqEqual
<1> QED
  BY <1>2, <1>6 DEF IsPrefix, a, b, y

\* What closes has been begun by what was kept of it.
LEMMA ClosesBegun ==
  ASSUME NEW s \in Ear, ~s.done, NEW r, NEW m, Closes(s, r, m)
  PROVE  \E z \in Seq(Byte) : m = s.buf \o z
<1> DEFINE e == [dle |-> s.dle, done |-> FALSE, buf |-> << >>]
           t == Unescape(e, r)
<1>1. s.dle \in BOOLEAN /\ s.done = FALSE /\ s.buf \in Seq(Byte) /\ r \in Seq(Byte)
  BY DEF Ear, Closes
<1>2. e \in Ear /\ e.dle = s.dle /\ e.done = FALSE /\ e.buf = << >>
  BY <1>1 DEF Ear
<1> HIDE DEF e
<1>3. t \in Ear
  BY <1>1, <1>2, UnescapeRight
<1>4. Behind(s.buf, e) = s
  <2>1. s.buf \o << >> = s.buf
    BY <1>1, ConcatEmptySeq
  <2>2. Behind(s.buf, e) = [dle |-> s.dle, done |-> FALSE, buf |-> s.buf]
    BY <1>2, <2>1, Zenon DEF Behind
  <2> QED
    BY <1>1, <2>2 DEF Ear
<1>5. Unescape(s, r) = Behind(s.buf, t)
  BY <1>1, <1>2, <1>4, UnescapeBehind
<1>6. Unescape(s, r).buf = m
  BY DEF Closes
<1>7. Behind(s.buf, t).buf = s.buf \o t.buf
  BY DEF Behind
<1>8. t.buf \in Seq(Byte)
  BY <1>3 DEF Ear
<1> QED
  BY <1>5, <1>6, <1>7, <1>8

\* The frames that the host has ended, when r is what it has still to say.
Whole(sent, r) == IF r = << >> THEN sent ELSE Front(sent)

\* What V.21 has been given of them in the state s.
OnAir(s, w) == IF s \in { "SEND_HDLC", "BETWEEN_TX" } THEN Fitting(w) ELSE << >>

\* The states in which the bytes of a frame are collected.
Collects(d) == d.state = "BETWEEN_TX" \/ (d.state = "PREAMBLE" /\ ~d.done)

\* A transmission of frames: w are those that are ended, r is the rest of the
\* one that is not, last, and the host is deaf when its command is over.
FrameFlow(d, w, r, last, deaf) ==
  /\ d.state \in { "ANSWER_TONE", "SILENCE_BEFORE_PREAMBLE" } => w = << >> /\ ~d.dle
  /\ d.state = "SILENCE_BEFORE_PREAMBLE" => d.frame = << >> /\ ~d.latch
  /\ d.state = "PREAMBLE" =>
       /\ w = IF d.done THEN << d.frame >> ELSE << >>
       /\ d.latch <=> (d.done /\ Final(d.frame))
       /\ d.done => ~d.dle
  /\ d.state \in { "SEND_HDLC", "BETWEEN_TX" } => (d.latch <=> FinalIn(w))
  /\ d.state = "SEND_HDLC" => ~d.dle
  /\ Collects(d) =>
       /\ r # << >> => Closes(Sender(d), r, last)
       /\ r = << >> /\ ~deaf => ~d.dle /\ d.frame = << >>

\* That, of the frames the host has sent and of the V.21 transmitter.
FramesFlow ==
  host.mode # "gone" /\ host.cmd = "TH" /\ ~host.cut /\ c.state # "IDLE" =>
    /\ aired \o queue = host.left \o OnAir(c.state, Whole(host.sent, tty \o host.script))
    /\ tty \o host.script # << >> => host.sent # << >>
    /\ FrameFlow(c, Whole(host.sent, tty \o host.script), tty \o host.script,
                 Last(host.sent), host.mode = "command")

\* An old frame has left the queue before a new one can be put there.
Drained(d, q) ==
  /\ d.state = "BETWEEN_TX" => q = << >>
  /\ d.state = "PREAMBLE" => d.countdown >= 1 /\ (d.countdown >= 2 => q = << >>)

\* The types of what is sent.
Sending ==
  /\ queue \in Seq(Octets) /\ aired \in Seq(Octets) /\ Len(queue) <= 1
  /\ host.left \in Seq(Octets) /\ host.sent \in Seq(Octets) /\ passed \in Seq(Byte)
  /\ host.mode = "gone" => host.cmd = "TH"
  /\ host.mode # "gone" => Drained(c, queue)

\* The host as a block leaves it, what it has sent included.
Heeded(status) ==
  \/ /\ host.mode = "command" \/ ~(Ends(status) \/ status = "CONNECT")
     /\ host'.mode = host.mode /\ host'.owes = host.owes /\ host'.script = host.script
     /\ host'.sent = host.sent /\ tty' = Unread
  \/ /\ host.mode # "command" /\ status = "CONNECT" /\ host'.mode = "online"
     /\ host'.owes = (host.cmd = "TH" \/ (host.cmd = "TM" /\ host.mode = "waiting"))
     /\ host'.script = host.script /\ host'.sent = host.sent /\ tty' = Unread
  \/ /\ host.mode # "command" /\ Ends(status) /\ host'.mode = "command" /\ host'.owes = FALSE
     /\ host'.script = << >> /\ tty' = << >>
     /\ host'.sent = IF host.cmd = "TH" THEN Whole(host.sent, Unread \o host.script)
                     ELSE host.sent

\* That, and the reply it has read.
HeededAs(status) ==
  /\ Heeded(status)
  /\ reply' = IF status \in { "NO_MESSAGE", "NO_REPLY" } THEN "" ELSE status

\* A block leaves the host, the command and the fields of the context so.
LEMMA BlockHeeded ==
  ASSUME Typed, NEW d, Ctx(d), NEW st, NEW out, NEW want, Block(d, st, out, want)
  PROVE  /\ host'.cmd = host.cmd /\ host'.cut = host.cut /\ host'.left = host.left
         /\ c'.latch = d.latch /\ c'.closed = d.closed
         /\ HeededAs(IF d.dcount = 1 THEN d.delayed ELSE st)
<1>1. PICK status : /\ status = IF d.dcount = 1 THEN d.delayed ELSE st
                    /\ reply' = IF status \in { "NO_MESSAGE", "NO_REPLY" } THEN "" ELSE status
                    /\ HostHears(status)
  BY DEF Block
<1> DEFINE o1 == host.cmd = "TH" \/ (host.cmd = "TM" /\ host.mode = "waiting")
           cond == host.cmd = "TH" /\ (host.script # << >> \/ Unread # << >>)
           s1 == IF cond THEN Front(host.sent) ELSE host.sent
<1>2. \/ /\ host.mode = "command" \/ ~(Ends(status) \/ status = "CONNECT")
         /\ host' = host /\ tty' = Unread
      \/ /\ host' = [host EXCEPT !.mode = "online", !.owes = o1] /\ tty' = Unread
         /\ status = "CONNECT" /\ host.mode # "command"
      \/ /\ host' = [host EXCEPT !.mode = "command", !.owes = FALSE, !.script = << >>,
                                  !.sent = s1]
         /\ tty' = << >> /\ Ends(status) /\ host.mode # "command"
  BY <1>1, Zenon DEF HostHears
<1>3. s1 = IF host.cmd = "TH" THEN Whole(host.sent, Unread \o host.script) ELSE host.sent
  <2>1. host.script \in Seq(Byte) /\ Unread \in Seq(Byte)
    BY TakenFront DEF Typed, HostOK
  <2>2. (Unread \o host.script = << >>) <=> (Unread = << >> /\ host.script = << >>)
    BY <2>1, ConcatEqualIffEmpty
  <2>3. CASE host.cmd = "TH"
    BY <2>2, <2>3, Zenon DEF Whole
  <2>4. CASE host.cmd # "TH"
    BY <2>4, Zenon
  <2> QED
    BY <2>3, <2>4
<1> HIDE DEF o1, s1, cond
<1>4. DOMAIN host = HostFields
  BY DEF Typed, HostOK
<1>5. Heeded(status) /\ host'.cmd = host.cmd /\ host'.cut = host.cut /\ host'.left = host.left
  <2>1. CASE /\ host.mode = "command" \/ ~(Ends(status) \/ status = "CONNECT")
             /\ host' = host /\ tty' = Unread
    BY <2>1, Zenon DEF Heeded
  <2>2. CASE /\ host' = [host EXCEPT !.mode = "online", !.owes = o1] /\ tty' = Unread
             /\ status = "CONNECT" /\ host.mode # "command"
    <3>1. /\ host'.mode = "online" /\ host'.script = host.script /\ host'.owes = o1
          /\ host'.sent = host.sent
          /\ host'.cmd = host.cmd /\ host'.cut = host.cut /\ host'.left = host.left
      BY <1>4, <2>2 DEF HostFields
    <3> QED
      BY <2>2, <3>1, Zenon DEF Heeded, o1
  <2>3. CASE /\ host' = [host EXCEPT !.mode = "command", !.owes = FALSE, !.script = << >>,
                                     !.sent = s1]
             /\ tty' = << >> /\ Ends(status) /\ host.mode # "command"
    <3>1. /\ host'.mode = "command" /\ host'.script = << >> /\ host'.owes = FALSE
          /\ host'.sent = s1
          /\ host'.cmd = host.cmd /\ host'.cut = host.cut /\ host'.left = host.left
      BY <1>4, <2>3 DEF HostFields
    <3> QED
      BY <1>3, <2>3, <3>1, Zenon DEF Heeded
  <2> QED
    BY <1>2, <2>1, <2>2, <2>3
<1>6. c'.latch = d.latch /\ c'.closed = d.closed
  <2>1. c' = [d EXCEPT !.prev = d.state, !.dcount = IF d.dcount > 0 THEN d.dcount - 1 ELSE 0]
    BY DEF Block
  <2> QED
    BY <2>1 DEF Ctx, CtxFields
<1>7. HeededAs(status)
  BY <1>1, <1>5, Zenon DEF HeededAs
<1> QED
  BY <1>1, <1>5, <1>6, <1>7, Zenon

\* What flows depends on these fields only.
LEMMA SameFlow ==
  ASSUME NEW d, NEW e, NEW w, NEW r, NEW last, NEW deaf, FrameFlow(d, w, r, last, deaf),
         e.state = d.state, e.dle = d.dle, e.frame = d.frame, e.done = d.done,
         e.latch = d.latch
  PROVE  FrameFlow(e, w, r, last, deaf)
<1>1. Sender(e) = Sender(d)
  BY Zenon DEF Sender
<1> QED
  BY <1>1, Zenon DEF FrameFlow, Collects

\* The frames flow on when the rest of one that is not ended is dropped.
LEMMA FlowDropped ==
  ASSUME NEW d, NEW w, NEW r, NEW last, NEW deaf, NEW any, FrameFlow(d, w, r, last, deaf)
  PROVE  FrameFlow(d, w, << >>, any, TRUE)
BY Zenon DEF FrameFlow

\* A block keeps the types, and lets the frames flow, when its handler does.
LEMMA BlockAired ==
  ASSUME Typed, Sending, host.mode # "gone", NEW d, Ctx(d), NEW st, NEW out, NEW want,
         Block(d, st, out, want),
         queue' \in Seq(Octets), aired' \in Seq(Octets), Len(queue') <= 1,
         passed' \in Seq(Byte), Drained(d, queue'),
         LET r == Unread \o host.script
             w == Whole(host.sent, r)
         IN host.cmd = "TH" /\ ~host.cut /\ d.state # "IDLE" =>
              /\ aired' \o queue' = host.left \o OnAir(d.state, w)
              /\ r # << >> => host.sent # << >>
              /\ FrameFlow(d, w, r, Last(host.sent), host.mode = "command")
  PROVE  Sending' /\ FramesFlow' /\ host'.mode # "gone" /\ host'.cmd = host.cmd
<1> DEFINE r == Unread \o host.script
           w == Whole(host.sent, r)
           flows(x, q, deaf) == FrameFlow(x, w, q, Last(host.sent), deaf)
<1>1. /\ c'.state = d.state /\ c'.countdown = d.countdown /\ c'.dle = d.dle
      /\ c'.frame = d.frame /\ c'.done = d.done
  BY BlockContext
<1>2. /\ host'.cmd = host.cmd /\ host'.cut = host.cut /\ host'.left = host.left
      /\ c'.latch = d.latch
  BY BlockHeeded
<1>3. PICK status : Heeded(status)
  BY BlockHeeded DEF HeededAs
<1>4. \/ /\ host'.mode = host.mode /\ host'.script = host.script /\ host'.sent = host.sent
         /\ tty' = Unread
      \/ /\ host'.mode = "online" /\ host.mode # "command"
         /\ host'.script = host.script /\ host'.sent = host.sent /\ tty' = Unread
      \/ /\ host'.mode = "command" /\ host'.script = << >> /\ tty' = << >>
         /\ host'.sent = IF host.cmd = "TH" THEN w ELSE host.sent
  BY <1>3, Zenon DEF Heeded
<1>5. host'.mode # "gone"
  BY <1>4
<1>6. w \in Seq(Octets) /\ host.sent \in Seq(Octets)
  <2>1. host.sent \in Seq(Octets)
    BY DEF Sending
  <2>2. Front(host.sent) \in Seq(Octets)
    BY <2>1, FrontRight
  <2> QED
    BY <2>1, <2>2, Zenon DEF Whole
<1>7. Sending'
  <2>1. host'.sent \in Seq(Octets)
    BY <1>4, <1>6
  <2>2. host'.left \in Seq(Octets)
    BY <1>2 DEF Sending
  <2>3. Drained(c', queue')
    BY <1>1, Zenon DEF Drained
  <2> QED
    BY <1>5, <2>1, <2>2, <2>3 DEF Sending
<1>8. FramesFlow'
  <2> SUFFICES ASSUME host.cmd = "TH", ~host.cut, c'.state # "IDLE"
               PROVE  /\ aired' \o queue' = host'.left \o OnAir(c'.state, Whole(host'.sent, tty' \o host'.script))
                      /\ tty' \o host'.script # << >> => host'.sent # << >>
                      /\ FrameFlow(c', Whole(host'.sent, tty' \o host'.script), tty' \o host'.script,
                                   Last(host'.sent), host'.mode = "command")
    BY <1>2, Zenon DEF FramesFlow
  <2>1. /\ aired' \o queue' = host.left \o OnAir(d.state, w)
        /\ r # << >> => host.sent # << >>
        /\ FrameFlow(d, w, r, Last(host.sent), host.mode = "command")
    BY <1>1
  <2>2. FrameFlow(c', w, r, Last(host.sent), host.mode = "command")
    BY <1>1, <1>2, <2>1, SameFlow
  <2>3. CASE tty' = Unread /\ host'.script = host.script /\ host'.sent = host.sent
             /\ (host'.mode = host.mode \/ (host'.mode = "online" /\ host.mode # "command"))
    <3>1. tty' \o host'.script = r
      BY <2>3
    <3>2. (host'.mode = "command") = (host.mode = "command")
      BY <2>3
    <3> QED
      BY <1>1, <1>2, <2>1, <2>2, <2>3, <3>1, <3>2, Zenon
  <2>4. CASE host'.mode = "command" /\ host'.script = << >> /\ tty' = << >> /\ host'.sent = w
    <3>1. tty' \o host'.script = << >>
      BY <2>4
    <3>2. Whole(host'.sent, << >>) = w
      BY <2>4, Zenon DEF Whole
    <3>3. FrameFlow(c', w, << >>, Last(host'.sent), TRUE)
      BY <2>2, FlowDropped
    <3>4. (host'.mode = "command") = TRUE
      BY <2>4
    <3> QED
      BY <1>1, <1>2, <2>1, <3>1, <3>2, <3>3, <3>4, Zenon
  <2> QED
    BY <1>4, <2>3, <2>4
<1> QED
  BY <1>2, <1>5, <1>7, <1>8

\* What a step of the frames' handlers leaves.
Flows == Sending' /\ FramesFlow' /\ host'.mode # "gone" /\ host'.cmd = host.cmd

\* The bytes of a block end the frame that they belong to, or go on with it.
LEMMA FrameRead ==
  ASSUME Ctx(c), NEW in \in Seq(Byte), NEW r \in Seq(Byte), NEW m,
         Closes(Sender(c), in \o r, m)
  PROVE  LET d == HdlcInput(c, in) IN
         /\ r = << >> => d.done /\ d.frame = m /\ ~d.dle /\ (d.latch <=> (c.latch \/ Final(m)))
         /\ r # << >> => ~d.done /\ Closes(Sender(d), r, m) /\ (d.latch <=> c.latch)
<1> DEFINE u == Unescape(Sender(c), in)
           d == HdlcInput(c, in)
<1>1. /\ u \in Ear /\ Sender(c) \in Ear
      /\ d.dle = u.dle /\ d.frame = u.buf /\ d.done = u.done
  BY HdlcInputFields
<1>2. d.latch = (c.latch \/ (u.done /\ Final(u.buf)))
  <2> DEFINE l == c.latch \/ (u.done /\ Final(u.buf))
  <2>1. HdlcInput(c, in) = [c EXCEPT !.dle = u.dle, !.frame = u.buf, !.done = u.done, !.latch = l]
    BY DEF HdlcInput, Sender
  <2> HIDE DEF u, l
  <2>2. HdlcInput(c, in).latch = l
    BY <2>1 DEF Ctx, CtxFields
  <2> QED
    BY <2>2 DEF l
<1>3. /\ r = << >> => u = [dle |-> FALSE, done |-> TRUE, buf |-> m]
      /\ r # << >> => ~u.done /\ Closes(u, r, m)
  BY <1>1, ClosesPart
<1> HIDE DEF u, d
<1>4. ASSUME r = << >>
      PROVE  d.done /\ d.frame = m /\ ~d.dle /\ (d.latch <=> (c.latch \/ Final(m)))
  <2>1. u = [dle |-> FALSE, done |-> TRUE, buf |-> m]
    BY <1>3, <1>4
  <2>2. u.dle = FALSE /\ u.done = TRUE /\ u.buf = m
    BY <2>1
  <2> QED
    BY <1>1, <1>2, <2>2, Zenon
<1>5. ASSUME r # << >>
      PROVE  ~d.done /\ Closes(Sender(d), r, m) /\ (d.latch <=> c.latch)
  <2>1. ~u.done /\ Closes(u, r, m)
    BY <1>3, <1>5
  <2>2. Sender(d) \in Ear /\ Sender(d).dle = u.dle /\ Sender(d).done = u.done
        /\ Sender(d).buf = u.buf
    BY <1>1, <2>1 DEF Sender, Ear
  <2>3. Sender(d) = u
    BY <1>1, <2>2, SameEar
  <2> QED
    BY <1>1, <1>2, <2>1, <2>3, Zenon
<1> QED
  BY <1>4, <1>5 DEF d

\* So a frame that ends is one more of those that are whole.
LEMMA CollectRight ==
  ASSUME Typed, Sending, FramesFlow, host.mode # "gone", host.cmd = "TH", ~host.cut,
         c.state \in { "PREAMBLE", "BETWEEN_TX" }, Collects(c), Taken # << >>
  PROVE  LET d == HdlcInput(c, Taken)
             r == Unread \o host.script
             w == Whole(host.sent, tty \o host.script)
         IN /\ host.sent # << >> /\ w \in Seq(Octets) /\ d.frame \in Octets
            /\ r = << >> => /\ d.done /\ ~d.dle /\ (d.latch <=> (c.latch \/ Final(d.frame)))
                            /\ Whole(host.sent, r) = Append(w, d.frame)
            /\ r # << >> => /\ ~d.done /\ Closes(Sender(d), r, Last(host.sent))
                            /\ (d.latch <=> c.latch) /\ Whole(host.sent, r) = w
<1> DEFINE d == HdlcInput(c, Taken)
           r == Unread \o host.script
           t == tty \o host.script
           m == Last(host.sent)
<1>1. /\ t = Taken \o r /\ r \in Seq(Byte) /\ Taken \in Seq(Byte) /\ (t = << >> => Taken = << >>)
  BY ReadFirst
<1>2. t # << >>
  BY <1>1
<1>3. /\ t # << >> => host.sent # << >>
      /\ FrameFlow(c, Whole(host.sent, t), t, m, host.mode = "command")
  <2>1. c.state # "IDLE"
    OBVIOUS
  <2> QED
    BY <2>1, Zenon DEF FramesFlow
<1>4. host.sent # << >> /\ Closes(Sender(c), t, m)
  BY <1>2, <1>3, Zenon DEF FrameFlow
<1>5. host.sent \in Seq(Octets)
  BY DEF Sending
<1>6. Front(host.sent) \in Seq(Octets) /\ m \in Octets /\ Append(Front(host.sent), m) = host.sent
  BY <1>4, <1>5, FrontRight
<1>7. Whole(host.sent, t) = Front(host.sent)
  BY <1>2, Zenon DEF Whole
<1>8. Ctx(c) /\ d.frame \in Octets
  <2>1. Ctx(c)
    BY DEF Typed
  <2>2. Ctx(d)
    BY <1>1, <2>1, HdlcInputFields
  <2> QED
    BY <2>1, <2>2 DEF Ctx, Octets
<1>9. /\ r = << >> => d.done /\ d.frame = m /\ ~d.dle /\ (d.latch <=> (c.latch \/ Final(m)))
      /\ r # << >> => ~d.done /\ Closes(Sender(d), r, m) /\ (d.latch <=> c.latch)
  <2> HIDE DEF r, m, t
  <2>1. Closes(Sender(c), Taken \o r, m)
    BY <1>1, <1>4
  <2> QED
    BY <1>1, <1>8, <2>1, FrameRead DEF d
<1>10. r = << >> => Whole(host.sent, r) = host.sent
  BY Zenon DEF Whole
<1>11. r # << >> => Whole(host.sent, r) = Front(host.sent)
  BY Zenon DEF Whole
<1> HIDE DEF d, r, t, m
<1>12. ASSUME r = << >>
       PROVE  /\ d.done /\ ~d.dle /\ (d.latch <=> (c.latch \/ Final(d.frame)))
              /\ Whole(host.sent, r) = Append(Whole(host.sent, t), d.frame)
  BY <1>6, <1>7, <1>9, <1>10, <1>12, Zenon
<1>13. ASSUME r # << >>
       PROVE  /\ ~d.done /\ Closes(Sender(d), r, m)
              /\ (d.latch <=> c.latch) /\ Whole(host.sent, r) = Whole(host.sent, t)
  BY <1>7, <1>9, <1>11, <1>13, Zenon
<1> QED
  BY <1>4, <1>6, <1>7, <1>8, <1>12, <1>13 DEF d, r, t, m

\* Nothing is sent in a block that leaves the queue alone.
LEMMA QueueKept ==
  ASSUME Sending, UNCHANGED << queue, aired, passed >>
  PROVE  /\ queue' \in Seq(Octets) /\ aired' \in Seq(Octets) /\ Len(queue') <= 1
         /\ passed' \in Seq(Byte)
BY DEF Sending

\* What the frames are in a state that has nothing to read.
LEMMA FlowNow ==
  ASSUME FramesFlow, host.mode # "gone", host.cmd = "TH", ~host.cut, c.state # "IDLE",
         tty \o host.script = Unread \o host.script
  PROVE  LET r == Unread \o host.script
             w == Whole(host.sent, r)
         IN /\ aired \o queue = host.left \o OnAir(c.state, w)
            /\ r # << >> => host.sent # << >>
            /\ FrameFlow(c, w, r, Last(host.sent), host.mode = "command")
BY Zenon DEF FramesFlow

\* The answer tone and the silence before the preamble send nothing.
LEMMA AnswerToneSent ==
  ASSUME SafeInv, RepliesInv, Sending, FramesFlow, AnswerToneState
  PROVE  Flows
<1> DEFINE d == IF c.countdown < AnswerTone THEN [c EXCEPT !.countdown = c.countdown + 1]
                ELSE PreambleInit(c)
           r == Unread \o host.script
           w == Whole(host.sent, r)
<1>1. host.mode # "gone" /\ c.state = "ANSWER_TONE" /\ Block(d, "NO_MESSAGE", << >>, Len(Taken))
  BY DEF AnswerToneState, Running
<1>2. Typed /\ Ctx(c)
  BY Found
<1>3. /\ Ctx(d) /\ d.dle = c.dle
      /\ \/ d.state = "ANSWER_TONE"
         \/ d.state = "SILENCE_BEFORE_PREAMBLE" /\ d.frame = << >> /\ d.latch = FALSE
  <2>1. CASE c.countdown < AnswerTone
    BY <1>1, <1>2, <2>1 DEF Ctx, CtxFields
  <2>2. CASE ~(c.countdown < AnswerTone)
    <3>1. d = PreambleInit(c)
      BY <2>2
    <3> HIDE DEF d
    <3>2. << >> \in Seq(Byte)
      OBVIOUS
    <3> QED
      BY <1>2, <3>1, <3>2 DEF PreambleInit, Ctx, CtxFields, States, HdlcTx
  <2> QED
    BY <2>1, <2>2
<1> HIDE DEF d
<1>4. host.cmd = "TH"
  BY <1>1, <1>2, ServedBy
<1>5. r = << >> /\ tty \o host.script = r
  <2>1. Unread \o host.script = << >> /\ Taken = << >>
    BY <1>1, <1>2, <1>4, TurnNow
  <2>2. tty \o host.script = Taken \o (Unread \o host.script) /\ Unread \o host.script \in Seq(Byte)
    BY <1>2, ReadFirst
  <2> QED
    BY <2>1, <2>2
<1>6. UNCHANGED << queue, aired, passed >>
  BY DEF AnswerToneState, lower
<1>7. d.state \in { "ANSWER_TONE", "SILENCE_BEFORE_PREAMBLE" }
  BY <1>3
<1>8. ASSUME ~host.cut
      PROVE  /\ aired' \o queue' = host.left \o OnAir(d.state, w)
             /\ r # << >> => host.sent # << >>
             /\ FrameFlow(d, w, r, Last(host.sent), host.mode = "command")
  <2>1. /\ aired \o queue = host.left \o OnAir(c.state, w)
        /\ FrameFlow(c, w, r, Last(host.sent), host.mode = "command")
    BY <1>1, <1>4, <1>5, <1>8, FlowNow
  <2>2. w = << >> /\ ~c.dle
    BY <1>1, <2>1, Zenon DEF FrameFlow
  <2>3. OnAir(c.state, w) = OnAir(d.state, w)
    BY <1>1, <1>7 DEF OnAir
  <2>4. d.state \notin { "PREAMBLE", "SEND_HDLC", "BETWEEN_TX" }
    BY <1>7
  <2>5. FrameFlow(d, w, r, Last(host.sent), host.mode = "command")
    <3> HIDE DEF w, r
    <3> QED
      BY <1>3, <2>2, <2>4, Zenon DEF FrameFlow, Collects
  <2> QED
    BY <1>5, <1>6, <2>1, <2>3, <2>5
<1>9. Drained(d, queue')
  BY <1>7 DEF Drained
<1> QED
  BY <1>1, <1>2, <1>3, <1>6, <1>8, <1>9, QueueKept, BlockAired DEF Flows

\* Nor does the silence before the preamble, after which the host is asked.
LEMMA SilenceBeforePreambleSent ==
  ASSUME SafeInv, RepliesInv, Sending, FramesFlow, SilenceBeforePreamble
  PROVE  Flows
<1> DEFINE over == c.countdown >= SilenceBefore
           d == IF over THEN [To(c, "PREAMBLE") EXCEPT !.countdown = 1]
                ELSE [c EXCEPT !.countdown = c.countdown + 1]
           st == IF over THEN "CONNECT" ELSE "NO_MESSAGE"
           r == Unread \o host.script
           w == Whole(host.sent, r)
<1>1. /\ host.mode # "gone" /\ c.state = "SILENCE_BEFORE_PREAMBLE"
      /\ Block(d, st, << >>, Len(Taken))
  BY DEF SilenceBeforePreamble, Running
<1>2. Typed /\ Ctx(c)
  BY Found
<1> HIDE DEF over
<1>3. /\ Ctx(d) /\ d.dle = c.dle /\ d.frame = c.frame /\ d.latch = c.latch /\ d.done = c.done
      /\ \/ d.state = "SILENCE_BEFORE_PREAMBLE"
         \/ d.state = "PREAMBLE" /\ d.countdown = 1
  BY <1>1, <1>2 DEF To, Ctx, CtxFields, States, HdlcTx
<1> HIDE DEF d, st
<1>4. host.cmd = "TH"
  BY <1>1, <1>2, ServedBy DEF HdlcTx
<1>5. r = << >> /\ tty \o host.script = r /\ ~c.done
  <2>1. Unread \o host.script = << >> /\ Taken = << >> /\ ~c.done
    BY <1>1, <1>2, <1>4, TurnNow
  <2>2. tty \o host.script = Taken \o (Unread \o host.script) /\ Unread \o host.script \in Seq(Byte)
    BY <1>2, ReadFirst
  <2> QED
    BY <2>1, <2>2
<1>6. UNCHANGED << queue, aired, passed >>
  BY DEF SilenceBeforePreamble, lower
<1>7. d.state \in { "PREAMBLE", "SILENCE_BEFORE_PREAMBLE" }
  BY <1>3
<1>8. ASSUME ~host.cut
      PROVE  /\ aired' \o queue' = host.left \o OnAir(d.state, w)
             /\ r # << >> => host.sent # << >>
             /\ FrameFlow(d, w, r, Last(host.sent), host.mode = "command")
  <2>1. /\ aired \o queue = host.left \o OnAir(c.state, w)
        /\ FrameFlow(c, w, r, Last(host.sent), host.mode = "command")
    BY <1>1, <1>4, <1>5, <1>8, FlowNow
  <2>2. w = << >> /\ ~c.dle /\ c.frame = << >> /\ ~c.latch
    BY <1>1, <2>1, Zenon DEF FrameFlow
  <2>3. OnAir(c.state, w) = OnAir(d.state, w)
    BY <1>1, <1>7 DEF OnAir
  <2>4. d.state \notin { "ANSWER_TONE", "SEND_HDLC", "BETWEEN_TX" }
    BY <1>7
  <2>5. FrameFlow(d, w, r, Last(host.sent), host.mode = "command")
    <3>1. ~d.dle /\ ~d.latch /\ ~d.done /\ d.frame = << >>
      BY <1>3, <1>5, <2>2
    <3> HIDE DEF w, r
    <3> QED
      BY <1>5, <2>2, <2>4, <3>1, Zenon DEF FrameFlow, Collects
  <2> QED
    BY <1>5, <1>6, <2>1, <2>3, <2>5
<1>9. Drained(d, queue')
  BY <1>3 DEF Drained
<1> QED
  BY <1>1, <1>2, <1>3, <1>6, <1>8, <1>9, QueueKept, BlockAired DEF Flows

\* The bytes of a block of the preamble leave the first frame whole, or begun.
LEMMA PreambleRead ==
  ASSUME Typed, RepliesInv, Sending, FramesFlow, host.mode # "gone", host.cmd = "TH",
         ~host.cut, c.state = "PREAMBLE",
         NEW d, d = (IF Taken # << >> THEN HdlcInput(c, Taken) ELSE c)
  PROVE  LET r == Unread \o host.script
             w == Whole(host.sent, r)
         IN /\ aired \o queue = host.left \o << >>
            /\ r # << >> => host.sent # << >>
            /\ FrameFlow(d, w, r, Last(host.sent), host.mode = "command")
<1> DEFINE r == Unread \o host.script
           t == tty \o host.script
           w == Whole(host.sent, r)
           v == Whole(host.sent, t)
           m == Last(host.sent)
           deaf == host.mode = "command"
<1>1. /\ t = Taken \o r /\ r \in Seq(Byte) /\ Taken \in Seq(Byte)
  BY ReadFirst
<1>2. /\ aired \o queue = host.left \o OnAir(c.state, v)
      /\ t # << >> => host.sent # << >>
      /\ FrameFlow(c, v, t, m, deaf)
  <2>1. c.state # "IDLE"
    OBVIOUS
  <2> QED
    BY <2>1, Zenon DEF FramesFlow
<1>3. OnAir(c.state, v) = << >>
  BY DEF OnAir
<1>4. CASE Taken = << >>
  <2>1. d = c /\ t = r
    BY <1>1, <1>4
  <2> QED
    BY <1>2, <1>3, <2>1
<1>5. CASE Taken # << >>
  <2>1. d = HdlcInput(c, Taken) /\ d.state = "PREAMBLE" /\ Ctx(d)
    <3>1. d = HdlcInput(c, Taken)
      BY <1>5
    <3>2. Ctx(c)
      BY DEF Typed
    <3> QED
      BY <1>1, <3>1, <3>2, HdlcInputFields
  <2>2. ~c.done
    BY <1>5, TurnNow
  <2>3. Collects(c)
    BY <2>2, Zenon DEF Collects
  <2>4. v = << >> /\ ~c.latch
    BY <1>2, <2>2, Zenon DEF FrameFlow
  <2>5. /\ host.sent # << >> /\ v \in Seq(Octets) /\ d.frame \in Octets
        /\ r = << >> => /\ d.done /\ ~d.dle /\ (d.latch <=> (c.latch \/ Final(d.frame)))
                        /\ w = Append(v, d.frame)
        /\ r # << >> => /\ ~d.done /\ Closes(Sender(d), r, m)
                        /\ (d.latch <=> c.latch) /\ w = v
    BY <1>5, <2>1, <2>3, CollectRight
  <2>6. Append(<< >>, d.frame) = << d.frame >>
    OBVIOUS
  <2>7. d.state \notin { "ANSWER_TONE", "SILENCE_BEFORE_PREAMBLE", "SEND_HDLC", "BETWEEN_TX" }
    BY <2>1
  <2> HIDE DEF r, t, w, v, m, deaf
  <2>8. ASSUME r = << >> PROVE FrameFlow(d, w, r, m, deaf)
    <3>1. d.done /\ ~d.dle /\ (d.latch <=> Final(d.frame)) /\ w = << d.frame >>
      BY <2>4, <2>5, <2>6, <2>8, Zenon
    <3> QED
      BY <2>7, <2>8, <3>1, Zenon DEF FrameFlow, Collects
  <2>9. ASSUME r # << >> PROVE FrameFlow(d, w, r, m, deaf)
    <3>1. ~d.done /\ ~d.latch /\ w = << >> /\ Closes(Sender(d), r, m)
      BY <2>4, <2>5, <2>9, Zenon
    <3> QED
      BY <2>7, <2>9, <3>1, Zenon DEF FrameFlow, Collects
  <2>10. FrameFlow(d, w, r, m, deaf)
    BY <2>8, <2>9
  <2> QED
    BY <1>2, <1>3, <2>5, <2>10 DEF r, t, w, v, m, deaf
<1> QED
  BY <1>4, <1>5

\* The first frame of a transmission.
LEMMA FirstFrame ==
  ASSUME NEW f \in Octets
  PROVE  << f >> \in Seq(Octets) /\ Fitting(<< f >>) = Fits(f) /\ (FinalIn(<< f >>) <=> Final(f))
<1>1. << >> \in Seq(Octets) /\ Append(<< >>, f) = << f >>
  OBVIOUS
<1>2. Fitting(<< f >>) = << >> \o Fits(f)
  BY <1>1, FittingRight
<1>3. << >> \o Fits(f) = Fits(f)
  BY FitsRight, ConcatEmptySeq
<1>4. FinalIn(<< f >>) <=> Final(f)
  BY <1>1, FinalOne
<1> QED
  BY <1>2, <1>3, <1>4

\* The preamble is long enough for what was left in the queue, and the first
\* frame follows it.
LEMMA PreambleSent ==
  ASSUME PreambleMin >= 2, SafeInv, RepliesInv, Sending, FramesFlow, Preamble
  PROVE  Flows
<1> DEFINE d == IF Taken # << >> THEN HdlcInput(c, Taken) ELSE c
           go == d.countdown >= PreambleMin /\ d.done
           late == d.countdown >= PreambleMax
           s == IF late THEN "IDLE" ELSE IF go THEN "SEND_HDLC" ELSE d.state
           e == [d EXCEPT !.countdown = d.countdown + 1, !.state = s]
           st == IF late THEN "ERROR" ELSE "NO_MESSAGE"
           r == Unread \o host.script
           w == Whole(host.sent, r)
           m == Last(host.sent)
           deaf == host.mode = "command"
<1>1. host.mode # "gone" /\ c.state = "PREAMBLE"
  BY DEF Preamble, Running
<1>2. Block(e, st, << >>, HdlcWant) /\ Transmit(go, d.frame)
  BY Zenon DEF Preamble
<1>3. Typed /\ Ctx(c) /\ Taken \in Seq(Byte)
  BY Found
<1>4. host.cmd = "TH"
  BY <1>1, <1>3, ServedBy DEF HdlcTx
<1>5. Ctx(d) /\ d.state = "PREAMBLE" /\ d.countdown = c.countdown
  <2>1. CASE Taken # << >>
    BY <1>1, <1>3, <2>1, HdlcInputFields
  <2>2. CASE Taken = << >>
    BY <1>1, <1>3, <2>2
  <2> QED
    BY <2>1, <2>2
<1>6. ~host.cut => /\ aired \o queue = host.left \o << >>
                   /\ r # << >> => host.sent # << >>
                   /\ FrameFlow(d, w, r, m, deaf)
  BY <1>1, <1>3, <1>4, PreambleRead
<1> HIDE DEF d, r, w, m, deaf
<1>7. go \in BOOLEAN /\ d.frame \in Octets /\ c.countdown \in Int
  BY <1>3, <1>5 DEF Ctx, Octets
<1>8. go => queue = << >>
  <2>1. ASSUME go PROVE c.countdown >= 2
    <3>1. PreambleMin \in Nat /\ c.countdown >= PreambleMin
      BY <1>5, <2>1, FaxAssumption
    <3> QED
      BY <1>7, <3>1
  <2>2. Drained(c, queue)
    BY <1>1 DEF Sending
  <2> QED
    BY <1>1, <2>1, <2>2 DEF Drained
<1>9. /\ queue' \in Seq(Octets) /\ aired' \in Seq(Octets) /\ Len(queue') <= 1
      /\ ~go => queue' = << >> /\ aired' \o queue' = aired \o queue
      /\ go => aired' \o queue' = (aired \o queue) \o Fits(d.frame)
  <2> HIDE DEF go
  <2> QED
    BY <1>2, <1>7, <1>8, TransmitRight DEF Sending
<1>10. /\ s \in { "IDLE", "SEND_HDLC", "PREAMBLE" } /\ (s = "SEND_HDLC" => go /\ d.done)
       /\ (s = "PREAMBLE" => ~go)
  BY <1>5
<1> HIDE DEF s
<1>11. /\ Ctx(e) /\ e.state = s /\ e.countdown = c.countdown + 1
       /\ e.dle = d.dle /\ e.frame = d.frame /\ e.done = d.done /\ e.latch = d.latch
  BY <1>5, <1>7, <1>10 DEF Ctx, CtxFields, States, HdlcTx
<1> HIDE DEF e, st, late, go
<1>12. ASSUME ~host.cut, e.state # "IDLE"
       PROVE  /\ aired' \o queue' = host.left \o OnAir(e.state, w)
              /\ r # << >> => host.sent # << >>
              /\ FrameFlow(e, w, r, m, deaf)
  <2>1. /\ aired \o queue = host.left \o << >>
        /\ r # << >> => host.sent # << >>
        /\ FrameFlow(d, w, r, m, deaf)
    BY <1>6, <1>12
  <2>2. CASE s = "PREAMBLE"
    <3>1. FrameFlow(e, w, r, m, deaf)
      BY <1>5, <1>11, <2>1, <2>2, SameFlow
    <3>2. OnAir(e.state, w) = << >>
      BY <1>11, <2>2 DEF OnAir
    <3> QED
      BY <1>9, <1>10, <2>1, <2>2, <3>1, <3>2
  <2>3. CASE s = "SEND_HDLC"
    <3>1. go /\ d.done
      BY <1>10, <2>3
    <3>2. w = << d.frame >> /\ ~d.dle /\ (d.latch <=> Final(d.frame))
      BY <1>5, <2>1, <3>1, Zenon DEF FrameFlow
    <3>3. e.state = "SEND_HDLC" /\ ~e.dle /\ (e.latch <=> FinalIn(w))
      BY <1>7, <1>11, <2>3, <3>2, FirstFrame, Zenon
    <3>4. e.state \notin { "ANSWER_TONE", "SILENCE_BEFORE_PREAMBLE", "PREAMBLE", "BETWEEN_TX" }
      BY <3>3
    <3>5. FrameFlow(e, w, r, m, deaf)
      BY <3>3, <3>4, Zenon DEF FrameFlow, Collects
    <3>6. OnAir(e.state, w) = Fits(d.frame)
      BY <1>7, <3>2, <3>3, FirstFrame DEF OnAir
    <3>7. host.left \in Seq(Octets)
      BY DEF Sending
    <3>8. host.left \o << >> = host.left
      BY <3>7, ConcatEmptySeq
    <3> QED
      BY <1>9, <2>1, <3>1, <3>5, <3>6, <3>8
  <2> QED
    BY <1>10, <1>11, <1>12, <2>2, <2>3
<1>13. Drained(e, queue')
  <2>1. c.countdown >= 1
    <3>1. Drained(c, queue)
      BY <1>1 DEF Sending
    <3> QED
      BY <1>1, <3>1 DEF Drained
  <2>2. e.state = "PREAMBLE" => queue' = << >>
    BY <1>9, <1>10, <1>11
  <2>3. e.state # "BETWEEN_TX" /\ e.countdown >= 1
    BY <1>7, <1>10, <1>11, <2>1
  <2> QED
    BY <2>2, <2>3, Zenon DEF Drained
<1>14. passed' \in Seq(Byte)
  BY DEF Preamble, Sending
<1> QED
  BY <1>1, <1>2, <1>3, <1>9, <1>11, <1>12, <1>13, <1>14, BlockAired DEF Flows, r, w, m, deaf

\* While a frame is on the air the host is not heard.
LEMMA SendHdlcBufferSent ==
  ASSUME SafeInv, RepliesInv, Sending, FramesFlow, SendHdlcBuffer
  PROVE  Flows
<1> DEFINE d == IF queue' = << >> THEN [Restart(c, "BETWEEN_TX") EXCEPT !.frame = << >>] ELSE c
           r == Unread \o host.script
           w == Whole(host.sent, r)
           m == Last(host.sent)
           deaf == host.mode = "command"
<1>1. /\ host.mode # "gone" /\ c.state = "SEND_HDLC"
      /\ Block(d, "NO_MESSAGE", << >>, HdlcWant) /\ Transmit(FALSE, c.frame)
  BY DEF SendHdlcBuffer, Running
<1>2. Typed /\ Ctx(c) /\ << >> \in Seq(Byte) /\ c.frame \in Octets
  BY Found DEF Ctx, Octets
<1>3. /\ Ctx(d) /\ d.dle = c.dle /\ d.latch = c.latch
      /\ \/ d.state = "SEND_HDLC"
         \/ d.state = "BETWEEN_TX" /\ d.frame = << >> /\ queue' = << >>
  <2>1. CASE queue' = << >>
    BY <1>2, <2>1 DEF Restart, Ctx, CtxFields, States, HdlcTx
  <2>2. CASE queue' # << >>
    <3>1. d = c
      BY <2>2
    <3> HIDE DEF d
    <3> QED
      BY <1>1, <1>2, <3>1
  <2> QED
    BY <2>1, <2>2
<1> HIDE DEF d
<1>4. host.cmd = "TH"
  BY <1>1, <1>2, ServedBy DEF HdlcTx
<1>5. r = << >> /\ tty \o host.script = r
  <2>1. Unread \o host.script = << >> /\ Taken = << >>
    BY <1>1, <1>2, <1>4, TurnNow
  <2>2. tty \o host.script = Taken \o (Unread \o host.script) /\ Unread \o host.script \in Seq(Byte)
    BY <1>2, ReadFirst
  <2> QED
    BY <2>1, <2>2
<1>6. /\ queue' \in Seq(Octets) /\ aired' \in Seq(Octets) /\ Len(queue') <= 1
      /\ aired' \o queue' = aired \o queue
  BY <1>1, <1>2, TransmitRight DEF Sending
<1>7. d.state \in { "SEND_HDLC", "BETWEEN_TX" }
  BY <1>3
<1>8. ASSUME ~host.cut
      PROVE  /\ aired' \o queue' = host.left \o OnAir(d.state, w)
             /\ r # << >> => host.sent # << >>
             /\ FrameFlow(d, w, r, m, deaf)
  <2>1. /\ aired \o queue = host.left \o OnAir(c.state, w)
        /\ FrameFlow(c, w, r, m, deaf)
    BY <1>1, <1>4, <1>5, <1>8, FlowNow
  <2>2. ~c.dle /\ (c.latch <=> FinalIn(w))
    BY <1>1, <2>1, Zenon DEF FrameFlow
  <2>3. OnAir(c.state, w) = OnAir(d.state, w)
    BY <1>1, <1>7 DEF OnAir
  <2>4. d.state \notin { "ANSWER_TONE", "SILENCE_BEFORE_PREAMBLE", "PREAMBLE" }
    BY <1>7
  <2>5. FrameFlow(d, w, r, m, deaf)
    <3>1. Collects(d) => d.frame = << >>
      BY <1>3 DEF Collects
    <3> HIDE DEF w, r, m, deaf
    <3>2. ~d.dle /\ (d.latch <=> FinalIn(w))
      BY <1>3, <2>2, Zenon
    <3> QED
      BY <1>5, <2>4, <3>1, <3>2, Zenon DEF FrameFlow
  <2> QED
    BY <1>5, <1>6, <2>1, <2>3, <2>5
<1>9. Drained(d, queue')
  BY <1>3 DEF Drained
<1>10. passed' \in Seq(Byte)
  BY DEF SendHdlcBuffer, Sending
<1> HIDE DEF m, deaf
<1> QED
  BY <1>1, <1>2, <1>3, <1>6, <1>8, <1>9, <1>10, BlockAired DEF Flows, m, deaf

\* The bytes of a block between two frames leave the next one whole, or begun.
LEMMA BetweenRead ==
  ASSUME Typed, RepliesInv, Sending, FramesFlow, host.mode # "gone", host.cmd = "TH",
         ~host.cut, c.state = "BETWEEN_TX",
         NEW d, Ctx(d), d.state = "BETWEEN_TX", d.frame \in Octets,
         Taken # << >> => d = HdlcInput(c, Taken),
         Taken = << >> => d.dle = c.dle /\ d.frame = c.frame /\ d.latch = c.latch /\ ~d.done
  PROVE  LET r == Unread \o host.script
             w == Whole(host.sent, r)
             m == Last(host.sent)
             deaf == host.mode = "command"
         IN /\ r # << >> => host.sent # << >>
            /\ d.latch <=> FinalIn(w)
            /\ d.done => ~d.dle /\ (aired \o queue) \o Fits(d.frame) = host.left \o Fitting(w)
            /\ ~d.done => /\ aired \o queue = host.left \o Fitting(w)
                          /\ r # << >> => Closes(Sender(d), r, m)
                          /\ r = << >> /\ ~deaf => ~d.dle /\ d.frame = << >>
<1> DEFINE r == Unread \o host.script
           t == tty \o host.script
           w == Whole(host.sent, r)
           v == Whole(host.sent, t)
           m == Last(host.sent)
           deaf == host.mode = "command"
<1>1. /\ t = Taken \o r /\ r \in Seq(Byte) /\ Taken \in Seq(Byte)
  BY ReadFirst
<1>2. /\ aired \o queue = host.left \o OnAir(c.state, v)
      /\ t # << >> => host.sent # << >>
      /\ FrameFlow(c, v, t, m, deaf)
  <2>1. c.state # "IDLE"
    OBVIOUS
  <2> QED
    BY <2>1, Zenon DEF FramesFlow
<1>3. OnAir(c.state, v) = Fitting(v)
  BY DEF OnAir
<1>4. Collects(c)
  BY Zenon DEF Collects
<1>5. c.latch <=> FinalIn(v)
  BY <1>2, Zenon DEF FrameFlow
<1>6. CASE Taken = << >>
  <2>1. t = r
    BY <1>1, <1>6
  <2>2. Sender(d) = Sender(c)
    BY <1>6, Zenon DEF Sender
  <2>3. /\ r # << >> => Closes(Sender(c), r, m)
        /\ r = << >> /\ ~deaf => ~c.dle /\ c.frame = << >>
    BY <1>2, <1>4, <2>1, Zenon DEF FrameFlow
  <2>4. v = w
    BY <2>1
  <2> HIDE DEF r, t, v, w, m, deaf
  <2>5. /\ r # << >> => host.sent # << >>
        /\ d.latch <=> FinalIn(w)
        /\ ~d.done
        /\ aired \o queue = host.left \o Fitting(w)
        /\ r # << >> => Closes(Sender(d), r, m)
        /\ r = << >> /\ ~deaf => ~d.dle /\ d.frame = << >>
    BY <1>2, <1>3, <1>5, <1>6, <2>1, <2>2, <2>3, <2>4, Zenon
  <2> QED
    BY <2>5, Zenon DEF r, w, m, deaf
<1>7. CASE Taken # << >>
  <2>1. d = HdlcInput(c, Taken)
    BY <1>7
  <2>2. /\ host.sent # << >> /\ v \in Seq(Octets)
        /\ r = << >> => /\ d.done /\ ~d.dle /\ (d.latch <=> (c.latch \/ Final(d.frame)))
                        /\ w = Append(v, d.frame)
        /\ r # << >> => /\ ~d.done /\ Closes(Sender(d), r, m)
                        /\ (d.latch <=> c.latch) /\ w = v
    BY <1>4, <1>7, <2>1, CollectRight
  <2> HIDE DEF r, t, v, w, m, deaf
  <2>3. ASSUME r = << >>
        PROVE  /\ d.done /\ ~d.dle /\ (d.latch <=> FinalIn(w))
               /\ (aired \o queue) \o Fits(d.frame) = host.left \o Fitting(w)
    <3>0. w = Append(v, d.frame) /\ v \in Seq(Octets) /\ d.frame \in Octets
      BY <2>2, <2>3
    <3>1. FinalIn(w) <=> (FinalIn(v) \/ Final(d.frame))
      BY <3>0, FinalOne, Zenon
    <3>6. Fitting(w) = Fitting(v) \o Fits(d.frame)
      BY <3>0, FittingRight, Zenon
    <3>2. d.latch <=> FinalIn(w)
      BY <1>5, <2>2, <2>3, <3>1, Zenon
    <3>3. host.left \in Seq(Octets) /\ Fitting(v) \in Seq(Octets) /\ Fits(d.frame) \in Seq(Octets)
      BY <3>0, FittingRight, FitsRight, Zenon DEF Sending
    <3> DEFINE x == host.left
               y == Fitting(v)
               z == Fits(d.frame)
    <3>7. x \in Seq(Octets) /\ y \in Seq(Octets) /\ z \in Seq(Octets)
      BY <3>3
    <3>4. (x \o y) \o z = x \o (y \o z)
      <4> HIDE DEF x, y, z
      <4> QED
        BY <3>7, ConcatAssociative
    <3>5. (aired \o queue) \o Fits(d.frame) = host.left \o Fitting(w)
      BY <1>2, <1>3, <3>4, <3>6, Zenon
    <3> QED
      BY <2>2, <2>3, <3>2, <3>5, Zenon
  <2>4. ASSUME r # << >>
        PROVE  /\ ~d.done /\ (d.latch <=> FinalIn(w)) /\ Closes(Sender(d), r, m)
               /\ aired \o queue = host.left \o Fitting(w)
    BY <1>2, <1>3, <1>5, <2>2, <2>4, Zenon
  <2>5. /\ r # << >> => host.sent # << >>
        /\ d.latch <=> FinalIn(w)
        /\ d.done => ~d.dle /\ (aired \o queue) \o Fits(d.frame) = host.left \o Fitting(w)
        /\ ~d.done => /\ aired \o queue = host.left \o Fitting(w)
                      /\ r # << >> => Closes(Sender(d), r, m)
                      /\ r = << >> /\ ~deaf => ~d.dle /\ d.frame = << >>
    BY <2>2, <2>3, <2>4, Zenon
  <2> QED
    BY <2>5, Zenon DEF r, w, m, deaf
<1> QED
  BY <1>6, <1>7

\* A frame that ends between two frames follows those before it.
LEMMA SendHdlcBetweenSent ==
  ASSUME SafeInv, RepliesInv, Sending, FramesFlow, SendHdlcBetween
  PROVE  Flows
<1> DEFINE d == IF Taken # << >> /\ c.countdown > 1 THEN HdlcInput(c, Taken)
                ELSE [c EXCEPT !.done = FALSE]
           over == c.countdown = 2 /\ c.latch
           late == c.countdown + 1 > HostLimit
           s == IF late THEN "IDLE" ELSE IF d.done THEN "SEND_HDLC"
                ELSE IF over THEN "IDLE" ELSE d.state
           e == [d EXCEPT !.countdown = d.countdown + 1, !.done = c.done, !.state = s]
           st == IF late THEN "ERROR" ELSE IF over THEN "OK"
                 ELSE IF c.countdown = 2 THEN "CONNECT" ELSE "NO_MESSAGE"
           r == Unread \o host.script
           w == Whole(host.sent, r)
           m == Last(host.sent)
           deaf == host.mode = "command"
<1>1. host.mode # "gone" /\ c.state = "BETWEEN_TX"
  BY DEF SendHdlcBetween, Running
<1>2. Block(e, st, << >>, HdlcWant) /\ Transmit(d.done, d.frame)
  BY Zenon DEF SendHdlcBetween
<1>3. Typed /\ Ctx(c) /\ Taken \in Seq(Byte) /\ c.countdown \in Int /\ c.done \in BOOLEAN
  BY Found DEF Ctx
<1>4. host.cmd = "TH"
  BY <1>1, <1>3, ServedBy DEF HdlcTx
<1>5. c.countdown <= 2 => Taken = << >>
  BY <1>1, <1>3, <1>4, TurnNow
<1>6. /\ Ctx(d) /\ d.state = "BETWEEN_TX"
      /\ Taken # << >> => d = HdlcInput(c, Taken)
      /\ Taken = << >> => d.dle = c.dle /\ d.frame = c.frame /\ d.latch = c.latch /\ ~d.done
  <2>1. CASE Taken # << >>
    <3>1. d = HdlcInput(c, Taken)
      BY <1>3, <1>5, <2>1
    <3> HIDE DEF d
    <3> QED
      BY <1>1, <1>3, <2>1, <3>1, HdlcInputFields
  <2>2. CASE Taken = << >>
    <3>1. d = [c EXCEPT !.done = FALSE]
      BY <2>2
    <3> HIDE DEF d
    <3> QED
      BY <1>1, <1>3, <2>2, <3>1 DEF Ctx, CtxFields
  <2> QED
    BY <2>1, <2>2
<1> HIDE DEF d
<1>7. d.frame \in Octets /\ d.done \in BOOLEAN
  BY <1>6 DEF Ctx, Octets
<1>8. ~host.cut =>
        /\ r # << >> => host.sent # << >>
        /\ d.latch <=> FinalIn(w)
        /\ d.done => ~d.dle /\ (aired \o queue) \o Fits(d.frame) = host.left \o Fitting(w)
        /\ ~d.done => /\ aired \o queue = host.left \o Fitting(w)
                      /\ r # << >> => Closes(Sender(d), r, m)
                      /\ r = << >> /\ ~deaf => ~d.dle /\ d.frame = << >>
  BY <1>1, <1>3, <1>4, <1>6, <1>7, BetweenRead
<1> HIDE DEF r, w, m, deaf
<1>9. queue = << >>
  <2>1. Drained(c, queue)
    BY <1>1 DEF Sending
  <2> QED
    BY <1>1, <2>1 DEF Drained
<1>10. /\ queue' \in Seq(Octets) /\ aired' \in Seq(Octets) /\ Len(queue') <= 1
       /\ ~d.done => queue' = << >> /\ aired' \o queue' = aired \o queue
       /\ d.done => aired' \o queue' = (aired \o queue) \o Fits(d.frame)
  BY <1>2, <1>7, <1>9, TransmitRight DEF Sending
<1>11. /\ s \in { "IDLE", "SEND_HDLC", "BETWEEN_TX" } /\ (s = "SEND_HDLC" => d.done)
       /\ (s = "BETWEEN_TX" => ~d.done)
  BY <1>6
<1> HIDE DEF s
<1>12. /\ Ctx(e) /\ e.state = s /\ e.dle = d.dle /\ e.frame = d.frame /\ e.latch = d.latch
  BY <1>3, <1>6, <1>11 DEF Ctx, CtxFields, States, HdlcTx
<1> HIDE DEF e, st, late, over
<1>13. ASSUME ~host.cut, e.state # "IDLE"
       PROVE  /\ aired' \o queue' = host.left \o OnAir(e.state, w)
              /\ r # << >> => host.sent # << >>
              /\ FrameFlow(e, w, r, m, deaf)
  <2>1. e.state \in { "SEND_HDLC", "BETWEEN_TX" }
    BY <1>11, <1>12, <1>13
  <2>2. OnAir(e.state, w) = Fitting(w)
    BY <2>1 DEF OnAir
  <2>3. aired' \o queue' = host.left \o Fitting(w)
    BY <1>7, <1>8, <1>10, <1>13
  <2>4. Sender(e) = Sender(d)
    BY <1>12, Zenon DEF Sender
  <2>5. e.latch <=> FinalIn(w)
    BY <1>8, <1>12, <1>13, Zenon
  <2>6. e.state \notin { "ANSWER_TONE", "SILENCE_BEFORE_PREAMBLE", "PREAMBLE" }
    BY <2>1
  <2>7. CASE e.state = "SEND_HDLC"
    <3>1. d.done /\ ~e.dle
      BY <1>8, <1>11, <1>12, <1>13, <2>7, Zenon
    <3>2. e.state # "BETWEEN_TX"
      BY <2>7
    <3>3. FrameFlow(e, w, r, m, deaf)
      BY <2>5, <2>6, <3>1, <3>2, Zenon DEF FrameFlow, Collects
    <3> QED
      BY <1>8, <1>13, <2>2, <2>3, <3>3
  <2>8. CASE e.state = "BETWEEN_TX"
    <3>1. ~d.done
      BY <1>11, <1>12, <2>8
    <3>2. /\ r # << >> => Closes(Sender(e), r, m)
          /\ r = << >> /\ ~deaf => ~e.dle /\ e.frame = << >>
      BY <1>8, <1>12, <1>13, <2>4, <3>1, Zenon
    <3>3. e.state # "SEND_HDLC"
      BY <2>8
    <3>4. FrameFlow(e, w, r, m, deaf)
      BY <2>5, <2>6, <3>2, <3>3, Zenon DEF FrameFlow, Collects
    <3> QED
      BY <1>8, <1>13, <2>2, <2>3, <3>4
  <2> QED
    BY <2>1, <2>7, <2>8
<1>14. Drained(e, queue')
  <2>1. e.state = "BETWEEN_TX" => queue' = << >>
    BY <1>10, <1>11, <1>12
  <2>2. e.state # "PREAMBLE"
    BY <1>11, <1>12
  <2> QED
    BY <2>1, <2>2, Zenon DEF Drained
<1>15. passed' \in Seq(Byte)
  BY DEF SendHdlcBetween, Sending
<1> QED
  BY <1>1, <1>2, <1>3, <1>10, <1>12, <1>13, <1>14, <1>15, BlockAired DEF Flows, r, w, m, deaf

-----------------------------------------------------------------------------
\* The padding of a page.
Pad == [i \in 1..EtxPad |-> NUL]

\* It is made of bytes.
LEMMA PadRight == Pad \in Seq(Byte)
<1>1. EtxPad \in Nat /\ NUL \in Byte
  BY Sizes DEF NUL, Byte
<1> QED
  BY <1>1 DEF Pad

\* FIFO_write puts a first part of the bytes behind those that are there, and
\* all of an a that there is room for.
LEMMA WrittenMore ==
  ASSUME NEW f, FifoOK(f), NEW a \in Seq(Byte), NEW b \in Seq(Byte), Len(f) + Len(a) <= FifoSize
  PROVE  \E y \in Seq(Byte), z \in Seq(Byte) :
           /\ Written(f, a \o b) = f \o (a \o y) /\ b = y \o z
           /\ b = << >> => Written(f, a \o b) = f \o a
<1> DEFINE s == a \o b
           n == IF Len(s) > FifoSize - Len(f) THEN FifoSize - Len(f) ELSE Len(s)
           na == Len(a)
           nb == Len(b)
           y == SubSeq(b, 1, n - na)
           z == SubSeq(b, n - na + 1, nb)
<1>1. /\ s \in Seq(Byte) /\ Len(s) = na + nb /\ na \in Nat /\ nb \in Nat
      /\ \A i \in 1..na : s[i] = a[i]
      /\ \A i \in 1..nb : s[na + i] = b[i]
  BY ConcatProperties
<1>2. f \in Seq(Byte) /\ Len(f) \in Nat /\ FifoSize \in Nat /\ na <= FifoSize - Len(f)
  BY Sizes DEF FifoOK
<1>3. Written(f, s) = f \o SubSeq(s, 1, n)
  BY DEF Written
<1> HIDE DEF s
<1>4. n \in Nat /\ na <= n /\ n <= na + nb
  BY <1>1, <1>2
<1> HIDE DEF n
<1>5. y \in Seq(Byte) /\ Len(y) = n - na /\ \A i \in 1..n - na : y[i] = b[i]
  <2>1. n - na \in Nat /\ n - na <= nb
    BY <1>1, <1>4
  <2> HIDE DEF na
  <2> QED
    BY <2>1, FirstOf
<1>6. z \in Seq(Byte)
  <2>1. n - na + 1 \in Nat \ { 0 } /\ nb <= Len(b) /\ nb \in Nat
    BY <1>1, <1>4
  <2> HIDE DEF na
  <2> QED
    BY <2>1, PartOf
<1>7. b = y \o z
  <2>1. /\ 1 \in 1..(nb + 1) /\ n - na \in 0..nb /\ nb \in (n - na)..nb
        /\ n - na \in (1 - 1)..nb
    BY <1>1, <1>4
  <2>2. SubSeq(b, 1, n - na) \o SubSeq(b, n - na + 1, nb) = SubSeq(b, 1, nb)
    <3> HIDE DEF na
    <3> QED
      BY <2>1, ConcatAdjacentSubSeq
  <2>3. SubSeq(b, 1, nb) = b
    BY SubSeqFull
  <2> QED
    BY <2>2, <2>3
<1>8. SubSeq(s, 1, n) = a \o y
  <2> DEFINE p == SubSeq(s, 1, n)
             q == a \o y
  <2>1. p \in Seq(Byte) /\ Len(p) = n /\ \A i \in 1..n : p[i] = s[i]
    BY <1>1, <1>4, FirstOf
  <2>2. /\ q \in Seq(Byte) /\ Len(q) = na + Len(y)
        /\ \A i \in 1..na : q[i] = a[i]
        /\ \A i \in 1..Len(y) : q[na + i] = y[i]
    <3>1. y \in Seq(Byte)
      BY <1>5
    <3> HIDE DEF y
    <3> QED
      BY <3>1, ConcatProperties
  <2> HIDE DEF p, q, y, na, nb
  <2>3. Len(q) = n
    BY <1>1, <1>4, <1>5, <2>2
  <2>4. ASSUME NEW i \in 1..n PROVE p[i] = q[i]
    <3>1. CASE i <= na
      <4>1. i \in 1..na
        BY <1>4, <3>1
      <4> QED
        BY <1>1, <2>1, <2>2, <4>1
    <3>2. CASE i > na
      <4>1. i - na \in 1..n - na /\ i - na \in 1..nb /\ na + (i - na) = i /\ i - na \in 1..Len(y)
        BY <1>1, <1>4, <1>5, <3>2
      <4>2. q[na + (i - na)] = y[i - na] /\ y[i - na] = b[i - na] /\ s[na + (i - na)] = b[i - na]
        BY <1>1, <1>5, <2>2, <4>1
      <4> QED
        BY <2>1, <4>1, <4>2
    <3> QED
      BY <1>1, <1>4, <3>1, <3>2
  <2>5. p = q
    BY <2>1, <2>2, <2>3, <2>4, SeqEqual
  <2> QED
    BY <2>5 DEF p, q
<1>9. ASSUME b = << >> PROVE a \o y = a
  <2>1. y = << >>
    <3>1. nb = 0
      BY <1>9
    <3>2. Len(y) = 0
      BY <1>1, <1>4, <1>5, <3>1
    <3> QED
      BY <1>5, <3>2, EmptySeq
  <2> QED
    BY <2>1, ConcatEmptySeq
<1> QED
  BY <1>3, <1>5, <1>6, <1>7, <1>8, <1>9 DEF s

\* What _handle_data_input has read of a page, when the modem and tx_fifo have
\* the bytes p of it.
Pager(d, p) == [dle |-> d.dle, done |-> FALSE, buf |-> p]

\* What some bytes begin with, said without IsPrefix.
Begun(x, p) == \E z \in Seq(Byte) : p = x \o z

\* A transmission of a page: r is what the host has still to say of it.
PageFlow(d, r, sent, p) ==
  /\ Len(sent) <= 1
  /\ sent = << >> => r = << >> /\ ~d.closed /\ ~d.dle /\ p = << >>
  /\ sent # << >> => Begun(p, sent[1] \o Pad)
  /\ d.closed => r = << >> /\ Begun(sent[1], p)
  /\ ~d.closed /\ r # << >> => Closes(Pager(d, p), r, sent[1])

\* That, of the page the host has sent, and of the data modem and its tx_fifo.
PagesFlow ==
  host.mode # "gone" /\ host.cmd = "TM" /\ ~host.cut =>
    /\ FifoOK(fifo)
    /\ host.mode = "waiting" => host.sent = << >> /\ ~host.owes
    /\ host.owes => host.sent = << >>
    /\ c.state = "SILENCE_BEFORE_ONES" => host.sent = << >> /\ ~host.owes
    /\ c.state = "IDLE" => host.mode = "command"
    /\ c.dcount > 0 => c.state = "SILENCE_BEFORE_ONES"
    /\ PageFlow(c, tty \o host.script, host.sent, passed \o fifo)
    /\ host.mode = "command" /\ reply = "OK" /\ c.closed => Begun(host.sent[1], passed)

\* What flows depends on these fields only, and goes on when the rest of a
\* page is dropped.
LEMMA SamePage ==
  ASSUME NEW d, NEW e, NEW r, NEW sent, NEW p, PageFlow(d, r, sent, p),
         e.dle = d.dle, e.closed = d.closed
  PROVE  PageFlow(e, r, sent, p) /\ PageFlow(e, << >>, sent, p)
<1>1. Pager(e, p) = Pager(d, p)
  BY Zenon DEF Pager
<1> QED
  BY <1>1, Zenon DEF PageFlow

\* A block lets the page flow on when its handler does.
LEMMA BlockPaged ==
  ASSUME Typed, PagesFlow, host.mode # "gone", host.cmd = "TM" => host.sent \in Seq(Octets),
         NEW d, Ctx(d), NEW st, NEW out, NEW want, Block(d, st, out, want),
         host.cmd = "TM" /\ ~host.cut =>
           /\ FifoOK(fifo')
           /\ d.dcount = c.dcount /\ (d.dcount = 1 => Ends(d.delayed) /\ d.state # "IDLE")
           /\ d.state = "SILENCE_BEFORE_ONES" => c.state = "SILENCE_BEFORE_ONES" /\ st # "CONNECT"
           /\ d.state = "IDLE" => host.mode = "command" \/ Ends(st)
           /\ st = "OK" /\ d.closed => Begun(host.sent[1], passed')
           /\ PageFlow(d, Unread \o host.script, host.sent, passed' \o fifo')
  PROVE  PagesFlow'
<1>1. /\ c'.state = d.state /\ c'.dle = d.dle
      /\ c'.dcount = IF d.dcount > 0 THEN d.dcount - 1 ELSE 0
  BY BlockContext
<1>2. host'.cmd = host.cmd /\ host'.cut = host.cut /\ c'.closed = d.closed
  BY BlockHeeded
<1> DEFINE status == IF d.dcount = 1 THEN d.delayed ELSE st
<1>3. /\ HeededAs(status) /\ Heeded(status)
      /\ reply' = IF status \in { "NO_MESSAGE", "NO_REPLY" } THEN "" ELSE status
  <2>1. HeededAs(status)
    BY BlockHeeded
  <2> HIDE DEF status
  <2> QED
    BY <2>1, Zenon DEF HeededAs
<1> SUFFICES ASSUME host.cmd = "TM", ~host.cut
             PROVE  /\ FifoOK(fifo')
                    /\ host'.mode = "waiting" => host'.sent = << >> /\ ~host'.owes
                    /\ host'.owes => host'.sent = << >>
                    /\ c'.state = "SILENCE_BEFORE_ONES" => host'.sent = << >> /\ ~host'.owes
                    /\ c'.state = "IDLE" => host'.mode = "command"
                    /\ c'.dcount > 0 => c'.state = "SILENCE_BEFORE_ONES"
                    /\ PageFlow(c', tty' \o host'.script, host'.sent, passed' \o fifo')
                    /\ host'.mode = "command" /\ reply' = "OK" /\ c'.closed =>
                         Begun(host'.sent[1], passed')
  BY <1>2, Zenon DEF PagesFlow
<1>4. /\ FifoOK(fifo')
      /\ d.dcount = c.dcount /\ (d.dcount = 1 => Ends(d.delayed) /\ d.state # "IDLE")
      /\ d.state = "SILENCE_BEFORE_ONES" => c.state = "SILENCE_BEFORE_ONES" /\ st # "CONNECT"
      /\ d.state = "IDLE" => host.mode = "command" \/ Ends(st)
      /\ st = "OK" /\ d.closed => Begun(host.sent[1], passed')
      /\ PageFlow(d, Unread \o host.script, host.sent, passed' \o fifo')
  OBVIOUS
<1>5. /\ host.mode = "waiting" => host.sent = << >> /\ ~host.owes
      /\ host.owes => host.sent = << >>
      /\ c.state = "SILENCE_BEFORE_ONES" => host.sent = << >> /\ ~host.owes
      /\ c.dcount > 0 => c.state = "SILENCE_BEFORE_ONES"
  BY Zenon DEF PagesFlow
<1>6. \/ /\ host.mode = "command" \/ ~(Ends(status) \/ status = "CONNECT")
         /\ host'.mode = host.mode /\ host'.owes = host.owes /\ host'.script = host.script
         /\ host'.sent = host.sent /\ tty' = Unread
      \/ /\ host.mode # "command" /\ status = "CONNECT" /\ host'.mode = "online"
         /\ host'.owes = (host.mode = "waiting")
         /\ host'.script = host.script /\ host'.sent = host.sent /\ tty' = Unread
      \/ /\ host.mode # "command" /\ Ends(status) /\ host'.mode = "command" /\ host'.owes = FALSE
         /\ host'.script = << >> /\ tty' = << >> /\ host'.sent = host.sent
  <2>1. "TM" # "TH"
    OBVIOUS
  <2> QED
    <3> HIDE DEF status
    <3> QED
      BY <1>3, <2>1, Zenon DEF Heeded
<1>7. /\ d.dcount = 1 => status = d.delayed
      /\ d.dcount # 1 => status = st
  BY Zenon
<1> HIDE DEF status
<1>8. ~Ends("CONNECT")
  BY DEF Ends
<1>9. host'.sent = host.sent
  BY <1>6
<1>10. host'.mode = "waiting" => host'.sent = << >> /\ ~host'.owes
  BY <1>5, <1>6
<1>11. host'.owes => host'.sent = << >>
  BY <1>5, <1>6
<1>12. c'.state = "SILENCE_BEFORE_ONES" => host'.sent = << >> /\ ~host'.owes
  <2> SUFFICES ASSUME d.state = "SILENCE_BEFORE_ONES" PROVE host'.sent = << >> /\ ~host'.owes
    BY <1>1
  <2>1. host.sent = << >> /\ ~host.owes
    BY <1>4, <1>5
  <2>2. status # "CONNECT"
    BY <1>4, <1>7, <1>8
  <2> QED
    BY <1>6, <2>1, <2>2
<1>13. c'.state = "IDLE" => host'.mode = "command"
  <2> SUFFICES ASSUME d.state = "IDLE" PROVE host'.mode = "command"
    BY <1>1
  <2>1. status = st
    BY <1>4, <1>7
  <2>2. host.mode = "command" \/ Ends(status)
    BY <1>4, <2>1
  <2> QED
    BY <1>6, <1>8, <2>2
<1>14. c'.dcount = 0
  BY <1>1, <1>4 DEF Typed
<1>15. PageFlow(c', tty' \o host'.script, host'.sent, passed' \o fifo')
  <2> DEFINE r == Unread \o host.script
             p == passed' \o fifo'
  <2>1. PageFlow(d, r, host.sent, p)
    BY <1>4
  <2>2. << >> \o << >> = << >>
    OBVIOUS
  <2> HIDE DEF r, p
  <2>3. PageFlow(c', r, host.sent, p) /\ PageFlow(c', << >>, host.sent, p)
    BY <1>1, <1>2, <2>1, SamePage
  <2>4. tty' \o host'.script = r \/ tty' \o host'.script = << >>
    BY <1>6, <2>2, Zenon DEF r
  <2>5. PageFlow(c', tty' \o host'.script, host'.sent, p)
    BY <1>9, <2>3, <2>4, Zenon
  <2> QED
    BY <2>5, Zenon DEF p
<1>16. ASSUME host'.mode = "command", reply' = "OK", c'.closed
       PROVE  Begun(host'.sent[1], passed')
  <2>1. status = "OK"
    <3>1. "" # "OK"
      OBVIOUS
    <3> QED
      BY <1>3, <1>16, <3>1, Zenon
  <2>2. d.closed
    BY <1>2, <1>16
  <2>3. d.dcount # 1
    <3> SUFFICES ASSUME d.dcount = 1 PROVE FALSE
      OBVIOUS
    <3>1. host.sent = << >>
      BY <1>4, <1>5
    <3>2. PageFlow(d, Unread \o host.script, host.sent, passed' \o fifo')
      BY <1>4
    <3> QED
      BY <2>2, <3>1, <3>2, Zenon DEF PageFlow
  <2>4. st = "OK"
    BY <1>7, <2>1, <2>3
  <2>5. Begun(host.sent[1], passed')
    BY <1>4, <2>2, <2>4
  <2> QED
    BY <1>9, <2>5
<1>17. c'.dcount > 0 => c'.state = "SILENCE_BEFORE_ONES"
  BY <1>14
<1> QED
  BY <1>4, <1>10, <1>11, <1>12, <1>13, <1>15, <1>16, <1>17, Zenon

\* Three pieces of what the host writes.
Bytes(x, y, z) == x \in Seq(Byte) /\ y \in Seq(Byte) /\ z \in Seq(Byte)

\* They can be joined from either end.
LEMMA Regroup ==
  ASSUME NEW x, NEW y, NEW z, Bytes(x, y, z)
  PROVE  (x \o y) \o z = x \o (y \o z)
BY ConcatAssociative DEF Bytes

\* What the bytes of a block make of a page that is not over.
PageEar(in) == Unescape([dle |-> c.dle, done |-> FALSE, buf |-> << >>], in)

\* _handle_data_input reads the bytes of a page until its end, and pads it.
LEMMA DataInputBytes ==
  ASSUME Ctx(c), NEW in \in Seq(Byte)
  PROVE  /\ c.closed \/ in = << >> => DataInput(in).d = c /\ DataInput(in).bytes = << >>
         /\ ~c.closed /\ in # << >> =>
              /\ PageEar(in) \in Ear /\ Len(PageEar(in).buf) <= Len(in)
              /\ DataInput(in).d.dle = PageEar(in).dle
              /\ DataInput(in).d.closed = PageEar(in).done
              /\ DataInput(in).bytes = PageEar(in).buf \o (IF PageEar(in).done THEN Pad ELSE << >>)
<1> DEFINE u == PageEar(in)
           pad == IF u.done THEN [i \in 1..EtxPad |-> NUL] ELSE << >>
           nul == Last(in) = NUL
           d == [c EXCEPT !.dle = u.dle, !.closed = u.done, !.lastNul = nul]
           y == u.buf \o pad
<1>1. CASE c.closed \/ in = << >>
  <2>1. DataInput(in) = [d |-> c, bytes |-> << >>]
    BY <1>1 DEF DataInput
  <2>2. DataInput(in).d = c /\ DataInput(in).bytes = << >>
    BY <2>1
  <2> QED
    BY <1>1, <2>2
<1>2. CASE ~(c.closed \/ in = << >>)
  <2>1. DataInput(in) = [d |-> d, bytes |-> y]
    BY <1>2 DEF DataInput, PageEar
  <2>2. u \in Ear /\ Len(u.buf) <= Len(in)
    <3> DEFINE s == [dle |-> c.dle, done |-> FALSE, buf |-> << >>]
    <3>1. s \in Ear /\ Len(s.buf) = 0 /\ Len(in) \in Nat
      BY DEF Ctx, Ear
    <3>2. u = Unescape(s, in)
      BY DEF PageEar
    <3> HIDE DEF s, u
    <3>3. u \in Ear /\ Len(u.buf) <= Len(s.buf) + Len(in)
      BY <3>1, <3>2, UnescapeRight
    <3> QED
      BY <3>1, <3>3
  <2>3. y = u.buf \o (IF u.done THEN Pad ELSE << >>)
    BY DEF Pad
  <2> HIDE DEF u, nul, y
  <2>4. d.dle = u.dle /\ d.closed = u.done
    BY DEF Ctx, CtxFields
  <2> HIDE DEF d
  <2>5. DataInput(in).d = d /\ DataInput(in).bytes = y
    BY <2>1
  <2>6. /\ u \in Ear /\ Len(u.buf) <= Len(in)
        /\ DataInput(in).d.dle = u.dle /\ DataInput(in).d.closed = u.done
        /\ DataInput(in).bytes = u.buf \o (IF u.done THEN Pad ELSE << >>)
    BY <2>2, <2>3, <2>4, <2>5
  <2> QED
    BY <1>2, <2>6 DEF u
<1> QED
  BY <1>1, <1>2

\* The bytes of a block end the page, or go on with it.
LEMMA PageRead ==
  ASSUME Ctx(c), ~c.closed, NEW p \in Seq(Byte), NEW r \in Seq(Byte), NEW m,
         NEW in \in Seq(Byte), in # << >>, Closes(Pager(c, p), in \o r, m)
  PROVE  LET u == PageEar(in) IN
         /\ r = << >> => u.done /\ ~u.dle /\ p \o u.buf = m
         /\ r # << >> => ~u.done /\ Closes(Pager(u, p \o u.buf), r, m)
<1> DEFINE u == PageEar(in)
           e == [dle |-> c.dle, done |-> FALSE, buf |-> << >>]
           s == Pager(c, p)
           t == Behind(p, u)
<1>1. e \in Ear /\ s \in Ear /\ u = Unescape(e, in)
  BY DEF Ear, Ctx, Pager, PageEar
<1>2. Behind(p, e) = s
  <2>1. p \o << >> = p
    BY ConcatEmptySeq
  <2>2. Behind(p, e) = [dle |-> c.dle, done |-> FALSE, buf |-> p \o << >>]
    BY DEF Behind
  <2> QED
    BY <2>1, <2>2 DEF Pager
<1> HIDE DEF e, s, u
<1>3. u \in Ear
  BY <1>1, UnescapeRight
<1>4. Unescape(s, in) = t
  BY <1>1, <1>2, UnescapeBehind
<1>5. t.dle = u.dle /\ t.done = u.done /\ t.buf = p \o u.buf
  BY DEF Behind
<1>6. Closes(s, in \o r, m)
  BY DEF s
<1>7. /\ r = << >> => t = [dle |-> FALSE, done |-> TRUE, buf |-> m]
      /\ r # << >> => ~t.done /\ Closes(t, r, m)
  BY <1>1, <1>4, <1>6, ClosesPart
<1>8. ASSUME r = << >> PROVE u.done /\ ~u.dle /\ p \o u.buf = m
  <2> HIDE DEF t
  <2>1. t.done = TRUE /\ t.dle = FALSE /\ t.buf = m
    BY <1>7, <1>8
  <2> QED
    BY <1>5, <2>1
<1>9. ASSUME r # << >> PROVE ~u.done /\ Closes(Pager(u, p \o u.buf), r, m)
  <2>1. ~u.done
    BY <1>5, <1>7, <1>9
  <2>2. u.done = FALSE
    BY <1>3, <2>1 DEF Ear
  <2>3. t = Pager(u, p \o u.buf)
    BY <2>2 DEF Behind, Pager
  <2> QED
    BY <1>7, <1>9, <2>1, <2>3
<1> QED
  BY <1>8, <1>9 DEF u

\* The bytes of a block go into tx_fifo, behind those of the page before them.
LEMMA PageGoesOn ==
  ASSUME Ctx(c), FifoOK(fifo), passed \in Seq(Byte), host.sent \in Seq(Octets),
         NEW in \in Seq(Byte), NEW r \in Seq(Byte),
         ~c.closed => Len(in) + Len(fifo) < FifoSize,
         PageFlow(c, in \o r, host.sent, passed \o fifo)
  PROVE  PageFlow(DataInput(in).d, r, host.sent,
                  passed \o Written(fifo, DataInput(in).bytes))
<1> DEFINE d == DataInput(in).d
           bytes == DataInput(in).bytes
           u == PageEar(in)
           p == passed \o fifo
           m == host.sent[1]
<1>1. fifo \in Seq(Byte) /\ Len(fifo) \in Nat /\ FifoSize \in Nat /\ Len(fifo) <= FifoSize
  BY Sizes DEF FifoOK
<1>2. p \in Seq(Byte)
  BY <1>1
<1>3. ASSUME in = << >> PROVE PageFlow(d, r, host.sent, passed \o Written(fifo, bytes))
  <2>1. d = c /\ bytes = << >>
    BY <1>3, DataInputBytes
  <2>2. Written(fifo, << >>) = fifo
    <3>1. << >> \in Seq(Byte) /\ Len(<< >>) = 0 /\ << >> \o << >> = << >>
      OBVIOUS
    <3>2. Len(fifo) + Len(<< >>) <= FifoSize
      BY <1>1, <3>1
    <3>3. Written(fifo, << >> \o << >>) = fifo \o << >>
      BY <3>1, <3>2, WrittenMore
    <3>4. fifo \o << >> = fifo
      BY <1>1, ConcatEmptySeq
    <3> QED
      BY <3>1, <3>3, <3>4
  <2>3. in \o r = r
    BY <1>3, ConcatEmptySeq
  <2> HIDE DEF d, bytes
  <2> QED
    BY <2>1, <2>2, <2>3
<1>4. ASSUME in # << >> PROVE PageFlow(d, r, host.sent, passed \o Written(fifo, bytes))
  <2>1. in \o r # << >>
    BY <1>4, ConcatEqualIffEmpty
  <2>2. ~c.closed /\ Len(host.sent) <= 1 /\ host.sent # << >> /\ Closes(Pager(c, p), in \o r, m)
    BY <2>1, Zenon DEF PageFlow
  <2>3. m \in Seq(Byte)
    <3>1. Len(host.sent) \in Nat /\ Len(host.sent) # 0
      BY <2>2, EmptySeq
    <3> QED
      BY <3>1 DEF Octets
  <2>4. /\ u \in Ear /\ Len(u.buf) <= Len(in) /\ d.dle = u.dle /\ d.closed = u.done
        /\ bytes = u.buf \o (IF u.done THEN Pad ELSE << >>)
    BY <1>4, <2>2, DataInputBytes
  <2> HIDE DEF p, m
  <2>5. /\ r = << >> => u.done /\ ~u.dle /\ p \o u.buf = m
        /\ r # << >> => ~u.done /\ Closes(Pager(u, p \o u.buf), r, m)
    BY <1>2, <1>4, <2>2, PageRead
  <2> HIDE DEF u, d, bytes
  <2>6. u.buf \in Seq(Byte) /\ u.dle \in BOOLEAN /\ u.done \in BOOLEAN
    BY <2>4 DEF Ear
  <2>7. Len(fifo) + Len(u.buf) <= FifoSize
    <3>1. Len(in) \in Nat /\ Len(u.buf) \in Nat
      BY <2>6
    <3> QED
      BY <1>1, <2>2, <2>4, <3>1
  <2> DEFINE b == IF u.done THEN Pad ELSE << >>
             x == u.buf
  <2>8. b \in Seq(Byte) /\ (~u.done => b = << >>)
    BY PadRight
  <2>9. PICK y \in Seq(Byte), z \in Seq(Byte) :
          /\ Written(fifo, x \o b) = fifo \o (x \o y) /\ b = y \o z
          /\ b = << >> => Written(fifo, x \o b) = fifo \o x
    <3> HIDE DEF b
    <3> QED
      BY <2>6, <2>7, <2>8, WrittenMore
  <2> DEFINE q == passed \o Written(fifo, bytes)
  <2>10. x \in Seq(Byte) /\ bytes = x \o b
    BY <2>4, <2>6
  <2> HIDE DEF b, x
  <2>12. p \o x \in Seq(Byte) /\ x \o y \in Seq(Byte) /\ y \in Seq(Byte) /\ z \in Seq(Byte)
    BY <1>2, <2>9, <2>10
  <2>11. q = (p \o x) \o y
    <3>1. q = passed \o (fifo \o (x \o y))
      BY <2>9, <2>10
    <3>2. (passed \o fifo) \o (x \o y) = passed \o (fifo \o (x \o y))
      <4> DEFINE w == x \o y
      <4>1. Bytes(passed, fifo, w)
        BY <1>1, <2>12 DEF Bytes
      <4>2. (passed \o fifo) \o w = passed \o (fifo \o w)
        <5> HIDE DEF w
        <5> QED
          BY <4>1, Regroup
      <4> QED
        BY <4>2
    <3>3. (p \o x) \o y = p \o (x \o y)
      <4>1. Bytes(p, x, y)
        BY <1>2, <2>10 DEF Bytes
      <4> QED
        BY <4>1, Regroup
    <3> QED
      BY <3>1, <3>2, <3>3, Zenon DEF p
  <2>13. CASE r = << >>
    <3>1. u.done /\ ~u.dle /\ p \o x = m /\ b = Pad
      BY <2>5, <2>13, Zenon DEF x, b
    <3>2. q = m \o y
      BY <2>11, <3>1
    <3>3. m \o Pad = q \o z
      <4>1. (m \o y) \o z = m \o (y \o z)
        <5>1. Bytes(m, y, z)
          BY <2>3, <2>12 DEF Bytes
        <5> QED
          BY <5>1, Regroup
      <4> QED
        BY <2>9, <3>1, <3>2, <4>1, Zenon
    <3>4. Begun(m, q) /\ Begun(q, m \o Pad)
      BY <2>9, <3>2, <3>3, Zenon DEF Begun
    <3> HIDE DEF q
    <3>5. PageFlow(d, r, host.sent, q)
      BY <2>2, <2>4, <2>13, <3>1, <3>4, Zenon DEF PageFlow, m
    <3> QED
      BY <3>5 DEF q
  <2>14. CASE r # << >>
    <3>1. ~u.done /\ Closes(Pager(u, p \o x), r, m) /\ b = << >>
      BY <2>5, <2>8, <2>14, Zenon DEF x
    <3>2. q = p \o x
      <4>1. q = passed \o (fifo \o x)
        BY <2>9, <2>10, <3>1
      <4>2. (passed \o fifo) \o x = passed \o (fifo \o x)
        <5>1. Bytes(passed, fifo, x)
          BY <1>1, <2>10 DEF Bytes
        <5> QED
          BY <5>1, Regroup
      <4> QED
        BY <4>1, <4>2, Zenon DEF p
    <3> DEFINE k == p \o x
    <3>3. k \in Seq(Byte)
      BY <2>12
    <3> HIDE DEF k
    <3>4. \E v \in Seq(Byte) : m = k \o v
      <4> DEFINE s == Pager(u, k)
      <4>1. s \in Ear /\ ~s.done /\ s.buf = k
        BY <2>6, <3>3 DEF Pager, Ear
      <4>2. Closes(s, r, m)
        BY <3>1 DEF k
      <4> HIDE DEF s
      <4> QED
        <5>1. \E v \in Seq(Byte) : m = s.buf \o v
          BY <4>1, <4>2, ClosesBegun
        <5> QED
          BY <4>1, <5>1
    <3>5. PICK v \in Seq(Byte) : m = k \o v
      BY <3>4
    <3>6. m \o Pad = k \o (v \o Pad) /\ v \o Pad \in Seq(Byte)
      <4>1. (k \o v) \o Pad = k \o (v \o Pad)
        <5>1. Bytes(k, v, Pad)
          BY <3>3, PadRight DEF Bytes
        <5> QED
          BY <5>1, Regroup
      <4>2. v \o Pad \in Seq(Byte)
        BY <3>5, PadRight
      <4> QED
        BY <3>5, <4>1, <4>2, Zenon
    <3>7. Begun(k, m \o Pad)
      BY <3>6, Zenon DEF Begun
    <3>8. Pager(d, k) = Pager(u, k)
      BY <2>4, Zenon DEF Pager
    <3>9. q = k
      BY <3>2 DEF k
    <3>10. ~d.closed /\ Closes(Pager(d, k), r, m)
      BY <2>4, <3>1, <3>8 DEF k
    <3>11. PageFlow(d, r, host.sent, k)
      BY <2>2, <3>7, <3>10, Zenon DEF PageFlow, m
    <3> HIDE DEF q
    <3>12. PageFlow(d, r, host.sent, q)
      BY <3>9, <3>11
    <3> QED
      BY <3>12 DEF q
  <2> QED
    BY <2>13, <2>14
<1> QED
  BY <1>3, <1>4

\* FIFO_read takes the first bytes of tx_fifo, all of them when there is less
\* than a block.
LEMMA FeedRight ==
  ASSUME NEW f, FifoOK(f), c.code \in Codes, passed \in Seq(Byte), Feed(f)
  PROVE  /\ passed' \in Seq(Byte) /\ FifoOK(fifo') /\ passed' \o fifo' = passed \o f
         /\ ~(Len(f) >= Bpb) => passed' = passed \o f
<1> DEFINE n == IF Len(f) > Bpb THEN Bpb ELSE Len(f)
           a == Read(f)
           b == Rest(f)
<1>1. Bpb \in Nat \ { 0 } /\ Len(f) \in Nat /\ f \in Seq(Byte)
  BY Sizes DEF Bpb, FifoOK
<1>2. n \in Nat /\ n <= Len(f) /\ (~(Len(f) >= Bpb) => n = Len(f))
  BY <1>1
<1>3. a = SubSeq(f, 1, n)
  BY DEF Read
<1> HIDE DEF n
<1>4. Len(a) = n /\ a \in Seq(Byte)
  BY <1>1, <1>2, <1>3, PartOf
<1>5. b = SubSeq(f, n + 1, Len(f))
  BY <1>4 DEF Rest
<1>6. a \o b = f
  <2>1. 1 \in 1..(Len(f) + 1) /\ n \in 0..Len(f) /\ Len(f) \in n..Len(f)
        /\ n \in (1 - 1)..Len(f)
    BY <1>1, <1>2
  <2>2. SubSeq(f, 1, n) \o SubSeq(f, n + 1, Len(f)) = SubSeq(f, 1, Len(f))
    BY <1>1, <2>1, ConcatAdjacentSubSeq
  <2>3. SubSeq(f, 1, Len(f)) = f
    BY <1>1, SubSeqFull
  <2> QED
    BY <1>3, <1>5, <2>2, <2>3
<1>7. FifoOK(b)
  BY RestRight
<1>8. fifo' = b /\ passed' = passed \o a
  BY DEF Feed
<1>9. ~(Len(f) >= Bpb) => a = f
  <2>1. SubSeq(f, 1, Len(f)) = f
    BY <1>1, SubSeqFull
  <2> QED
    BY <1>2, <1>3, <2>1
<1> HIDE DEF a, b
<1>10. b \in Seq(Byte)
  BY <1>7 DEF FifoOK
<1>11. passed' \o fifo' = passed \o f /\ passed' \in Seq(Byte)
  <2>1. (passed \o a) \o b = passed \o (a \o b)
    <3>1. Bytes(passed, a, b)
      BY <1>4, <1>10 DEF Bytes
    <3> QED
      BY <3>1, Regroup
  <2>2. passed \o a \in Seq(Byte)
    BY <1>4
  <2> QED
    BY <1>6, <1>8, <2>1, <2>2, Zenon
<1> QED
  BY <1>7, <1>8, <1>9, <1>11

-----------------------------------------------------------------------------
\* What is sent goes on as it should, frames and pages.
AllFlows == Sending' /\ FramesFlow' /\ PagesFlow'

\* A block that has nothing to do with the V.21 transmitter.
LEMMA BlockOther ==
  ASSUME Typed, Sending, host.mode # "gone", host.cmd # "TH", NEW d, Ctx(d), NEW st, NEW out,
         NEW want, Block(d, st, out, want), UNCHANGED << queue, aired >>,
         passed' \in Seq(Byte), d.state \notin HdlcTx
  PROVE  Sending' /\ FramesFlow' /\ host'.mode # "gone" /\ host'.cmd = host.cmd
<1>1. queue' \in Seq(Octets) /\ aired' \in Seq(Octets) /\ Len(queue') <= 1
  BY DEF Sending
<1>2. Drained(d, queue')
  <2>1. d.state # "BETWEEN_TX" /\ d.state # "PREAMBLE"
    BY DEF HdlcTx
  <2> QED
    BY <2>1, Zenon DEF Drained
<1> QED
  BY <1>1, <1>2, BlockAired

\* A block that sends a page.
LEMMA BlockSends ==
  ASSUME SafeInv, RepliesInv, Sending, PagesFlow, host.mode # "gone", c.state \in DataTx,
         NEW d, Ctx(d), NEW st, NEW out, NEW want, Block(d, st, out, want),
         UNCHANGED << queue, aired >>, passed' \in Seq(Byte), d.state \in DataTx \cup { "IDLE" },
         ~host.cut =>
           /\ FifoOK(fifo') /\ SamePending(d)
           /\ d.state = "SILENCE_BEFORE_ONES" => c.state = "SILENCE_BEFORE_ONES" /\ st # "CONNECT"
           /\ d.state = "IDLE" => Ends(st) /\ c.state # "SILENCE_BEFORE_ONES"
           /\ st = "OK" /\ d.closed => Begun(host.sent[1], passed')
           /\ PageFlow(d, Unread \o host.script, host.sent, passed' \o fifo')
  PROVE  AllFlows
<1>1. Typed /\ host.cmd = "TM"
  BY Found, ServedBy
<1>2. host.sent \in Seq(Octets)
  BY DEF Sending
<1>3. d.state \notin HdlcTx
  BY DEF HdlcTx, DataTx
<1>4. Sending' /\ FramesFlow'
  BY <1>1, <1>3, BlockOther
<1>5. ASSUME ~host.cut
      PROVE  /\ FifoOK(fifo')
             /\ d.dcount = c.dcount /\ (d.dcount = 1 => Ends(d.delayed) /\ d.state # "IDLE")
             /\ d.state = "SILENCE_BEFORE_ONES" => c.state = "SILENCE_BEFORE_ONES" /\ st # "CONNECT"
             /\ d.state = "IDLE" => host.mode = "command" \/ Ends(st)
             /\ st = "OK" /\ d.closed => Begun(host.sent[1], passed')
             /\ PageFlow(d, Unread \o host.script, host.sent, passed' \o fifo')
  <2>1. d.dcount = c.dcount /\ d.delayed = c.delayed
    BY <1>5 DEF SamePending
  <2>2. c.dcount > 0 => Ends(c.delayed)
    BY Zenon DEF RepliesInv
  <2>3. c.dcount > 0 => c.state = "SILENCE_BEFORE_ONES"
    BY <1>1, <1>5, Zenon DEF PagesFlow
  <2>4. d.dcount = 1 => Ends(d.delayed) /\ d.state # "IDLE"
    BY <1>5, <2>1, <2>2, <2>3
  <2> QED
    BY <1>5, <2>1, <2>4, Zenon
<1>6. PagesFlow'
  BY <1>1, <1>2, <1>5, BlockPaged
<1> QED
  BY <1>4, <1>6 DEF AllFlows

\* Nothing of the page is there while the silence before it lasts.
LEMMA SilenceBeforeOnesSent ==
  ASSUME SafeInv, RepliesInv, Sending, PagesFlow, SilenceBeforeOnes
  PROVE  AllFlows
<1> DEFINE s == IF c.countdown + 1 >= ScrmSilence THEN "ONES" ELSE c.state
           d == [c EXCEPT !.countdown = c.countdown + 1, !.state = s]
           st == "NO_MESSAGE"
<1>1. host.mode # "gone" /\ c.state = "SILENCE_BEFORE_ONES" /\ c.state \in DataTx
  BY DEF SilenceBeforeOnes, Running, DataTx
<1>2. Block(d, st, << >>, 0) /\ UNCHANGED << queue, aired, passed, fifo >>
  BY Zenon DEF SilenceBeforeOnes, lower
<1>3. Typed /\ Ctx(c)
  BY Found
<1>4. s \in { "ONES", "SILENCE_BEFORE_ONES" }
  BY <1>1
<1> HIDE DEF s
<1>5. SamePending(d) /\ d.state = s /\ d.dle = c.dle /\ d.closed = c.closed
  BY <1>3, <1>4 DEF SamePending, Ctx, CtxFields, States, DataTx
<1>6. Ctx(d)
  BY <1>5 DEF SamePending
<1>7. d.state \in DataTx \cup { "IDLE" } /\ d.state # "IDLE" /\ st # "CONNECT" /\ st # "OK"
  BY <1>4, <1>5 DEF DataTx
<1>8. passed' \in Seq(Byte)
  BY <1>2 DEF Sending
<1>9. host.cmd = "TM"
  BY <1>1, <1>3, ServedBy
<1> HIDE DEF d
<1>10. ASSUME ~host.cut
       PROVE  FifoOK(fifo') /\ PageFlow(d, Unread \o host.script, host.sent, passed' \o fifo')
  <2>1. FifoOK(fifo) /\ PageFlow(c, tty \o host.script, host.sent, passed \o fifo)
        /\ host.sent = << >>
    BY <1>1, <1>9, <1>10, Zenon DEF PagesFlow
  <2>2. tty \o host.script = << >>
    BY <2>1, Zenon DEF PageFlow
  <2>3. Unread \o host.script = << >>
    BY <1>3, <2>2, ReadFirst
  <2>4. PageFlow(d, << >>, host.sent, passed \o fifo)
    BY <1>5, <2>1, SamePage
  <2> QED
    BY <1>2, <2>1, <2>3, <2>4
<1> HIDE DEF st
<1> QED
  BY <1>1, <1>2, <1>5, <1>6, <1>7, <1>8, <1>10, BlockSends

\* What the bytes of a block make of the page.
LEMMA PageStep ==
  ASSUME SafeInv, Sending, PagesFlow, host.mode # "gone", host.cmd = "TM", ~host.cut,
         c.state \in { "ONES", "TX_DATA", "TX_NULLS" }
  PROVE  /\ FifoOK(fifo)
         /\ PageFlow(DataInput(Taken).d, Unread \o host.script, host.sent,
                     passed \o Written(fifo, DataInput(Taken).bytes))
<1> DEFINE r == Unread \o host.script
<1>1. /\ Typed /\ Ctx(c) /\ Taken \in Seq(Byte) /\ Len(Taken) \in Nat /\ Len(Taken) <= Asked
      /\ Asked \in Nat
  BY Found
<1>2. tty \o host.script = Taken \o r /\ r \in Seq(Byte)
  BY <1>1, ReadFirst
<1>3. FifoOK(fifo) /\ PageFlow(c, tty \o host.script, host.sent, passed \o fifo)
  BY Zenon DEF PagesFlow
<1> HIDE DEF r
<1>4. PageFlow(c, Taken \o r, host.sent, passed \o fifo)
  BY <1>2, <1>3
<1>5. ~c.closed => Asked + Len(fifo) < FifoSize
  BY DEF SafeInv, RoomKept
<1>6. Len(fifo) \in Nat /\ FifoSize \in Nat
  BY <1>3, Sizes DEF FifoOK
<1>7. ~c.closed => Len(Taken) + Len(fifo) < FifoSize
  BY <1>1, <1>5, <1>6
<1>8. passed \in Seq(Byte) /\ host.sent \in Seq(Octets)
  BY DEF Sending
<1>9. PageFlow(DataInput(Taken).d, r, host.sent, passed \o Written(fifo, DataInput(Taken).bytes))
  BY <1>1, <1>2, <1>3, <1>4, <1>7, <1>8, PageGoesOn
<1> QED
  BY <1>3, <1>9 DEF r

\* The training puts into tx_fifo what the host has said so far.
LEMMA ScrambledOnesSent ==
  ASSUME SafeInv, RepliesInv, Sending, PagesFlow, ScrambledOnes
  PROVE  AllFlows
<1> DEFINE u == DataInput(Taken)
           f == Written(fifo, u.bytes)
           on == c.enabled \/ c.connect = 1
           ready == IF Taken = << >> THEN c.ready ELSE Len(f) >= Bpb
           link == IF c.connect > 0 THEN c.connect - 1
                   ELSE IF c.connect = -1 /\ c.counter + 1 >= Train THEN 2 ELSE c.connect
           k == IF u.d.counter < Train THEN u.d.counter + 1 ELSE u.d.counter
           s == IF on /\ ready THEN "TX_DATA" ELSE u.d.state
           d == [u.d EXCEPT !.counter = k, !.enabled = on, !.connect = link,
                            !.ready = ready, !.state = s]
           st == IF c.counter = 0 THEN "CONNECT" ELSE "NO_MESSAGE"
           r == Unread \o host.script
<1>1. host.mode # "gone" /\ c.state = "ONES" /\ c.state \in DataTx
  BY DEF ScrambledOnes, Running, DataTx
<1>2. /\ IF on /\ ready THEN Feed(f) ELSE fifo' = f /\ passed' = passed
      /\ Block(d, st, << >>, Room)
  BY DEF ScrambledOnes
<1>3. UNCHANGED << queue, aired >>
  BY DEF ScrambledOnes
<1>4. Typed /\ Ctx(c) /\ Taken \in Seq(Byte)
  BY Found
<1>5. c.code \in Codes /\ FifoOK(f)
  BY <1>1, PageGrows
<1>6. SamePending(u.d) /\ u.d.state = "ONES" /\ u.d.counter = c.counter
  BY <1>1, <1>4, DataInputRight, DataInputPending
<1>7. host.cmd = "TM"
  BY <1>1, <1>4, ServedBy
<1>8. ~host.cut => PageFlow(u.d, r, host.sent, passed \o f)
  BY <1>1, <1>7, PageStep
<1> HIDE DEF u, f, r
<1>9. passed \in Seq(Byte)
  BY DEF Sending
<1>10. passed' \in Seq(Byte) /\ FifoOK(fifo') /\ passed' \o fifo' = passed \o f
  BY <1>2, <1>5, <1>9, FeedRight
<1>11. /\ on \in BOOLEAN /\ ready \in BOOLEAN /\ link \in -1..2 /\ k \in 0..Train
       /\ s \in { "ONES", "TX_DATA" }
  <2>1. /\ c.enabled \in BOOLEAN /\ c.ready \in BOOLEAN /\ c.connect \in -1..2
        /\ c.counter \in 0..Train /\ Train \in Nat
    BY Found, Sizes DEF Ctx
  <2>2. (Len(f) >= Bpb) \in BOOLEAN
    BY <1>5, Sizes DEF Bpb, FifoOK
  <2>3. ready \in BOOLEAN
    BY <2>1, <2>2, Zenon
  <2>4. on \in BOOLEAN /\ s \in { "ONES", "TX_DATA" }
    BY <1>6
  <2>5. link \in -1..2
    BY <2>1
  <2>6. k \in 0..Train
    BY <1>6, <2>1
  <2> QED
    BY <2>3, <2>4, <2>5, <2>6
<1> HIDE DEF on, ready, link, k, s
<1>12. SamePending(d) /\ d.state = s /\ d.dle = u.d.dle /\ d.closed = u.d.closed
  BY <1>6, <1>11 DEF SamePending, Ctx, CtxFields, States, DataTx
<1>13. st # "OK"
  OBVIOUS
<1> HIDE DEF d, st
<1>14. Ctx(d) /\ d.state \in DataTx \cup { "IDLE" } /\ d.state \notin { "IDLE", "SILENCE_BEFORE_ONES" }
  BY <1>11, <1>12 DEF SamePending, DataTx
<1>15. ~host.cut => PageFlow(d, r, host.sent, passed' \o fifo')
  BY <1>8, <1>10, <1>12, SamePage
<1> QED
  BY <1>1, <1>2, <1>3, <1>10, <1>12, <1>13, <1>14, <1>15, BlockSends DEF r

\* A page that runs dry has been given to the modem.
LEMMA TxDataSent ==
  ASSUME SafeInv, RepliesInv, Sending, PagesFlow, TxData
  PROVE  AllFlows
<1> DEFINE u == DataInput(Taken)
           f == Written(fifo, u.bytes)
           d == IF Len(f) >= Bpb THEN u.d
                ELSE IF u.d.lastNul THEN Restart(u.d, "TX_NULLS") ELSE To(u.d, "IDLE")
           st == IF Len(f) >= Bpb THEN "NO_MESSAGE" ELSE IF u.d.lastNul THEN "CONNECT" ELSE "OK"
           r == Unread \o host.script
<1>1. host.mode # "gone" /\ c.state = "TX_DATA" /\ c.state \in DataTx
  BY DEF TxData, Running, DataTx
<1>2. Feed(f) /\ Block(d, st, << >>, Room)
  BY Zenon DEF TxData
<1>3. UNCHANGED << queue, aired >>
  BY DEF TxData
<1>4. Typed /\ Ctx(c) /\ Taken \in Seq(Byte)
  BY Found
<1>5. c.code \in Codes /\ FifoOK(f)
  BY <1>1, PageGrows
<1>6. SamePending(u.d) /\ u.d.state = "TX_DATA"
  BY <1>1, <1>4, DataInputRight, DataInputPending
<1>7. host.cmd = "TM"
  BY <1>1, <1>4, ServedBy
<1>8. ~host.cut => PageFlow(u.d, r, host.sent, passed \o f)
  BY <1>1, <1>7, PageStep
<1> HIDE DEF u, f, r
<1>9. passed \in Seq(Byte)
  BY DEF Sending
<1>10. /\ passed' \in Seq(Byte) /\ FifoOK(fifo') /\ passed' \o fifo' = passed \o f
       /\ ~(Len(f) >= Bpb) => passed' = passed \o f
  BY <1>2, <1>5, <1>9, FeedRight
<1>11. "IDLE" \in States /\ "TX_NULLS" \in States
  BY DEF States, DataTx
<1>12. SamePending(d) /\ d.state \in { "TX_DATA", "TX_NULLS", "IDLE" }
  BY <1>6, <1>11, PendingChanges
<1>13. d.dle = u.d.dle /\ d.closed = u.d.closed
  BY <1>6 DEF SamePending, Ctx, CtxFields, To, Restart
<1>14. st = "OK" => ~(Len(f) >= Bpb)
  OBVIOUS
<1>15. d.state = "IDLE" => Ends(st)
  <2>1. CASE Len(f) >= Bpb
    BY <1>6, <2>1
  <2>2. CASE ~(Len(f) >= Bpb) /\ u.d.lastNul
    <3>1. d.state = "TX_NULLS"
      BY <1>6, <1>11, <2>2, PendingChanges
    <3> QED
      BY <3>1
  <2>3. CASE ~(Len(f) >= Bpb) /\ ~u.d.lastNul
    BY <2>3 DEF Ends
  <2> QED
    BY <2>1, <2>2, <2>3
<1> HIDE DEF d, st
<1>16. ~host.cut => PageFlow(d, r, host.sent, passed' \o fifo')
  BY <1>8, <1>10, <1>13, SamePage
<1>17. ~host.cut /\ st = "OK" /\ d.closed => Begun(host.sent[1], passed')
  BY <1>8, <1>10, <1>13, <1>14, Zenon DEF PageFlow
<1>18. Ctx(d) /\ d.state \in DataTx \cup { "IDLE" } /\ d.state # "SILENCE_BEFORE_ONES"
  BY <1>12 DEF SamePending, DataTx
<1> QED
  BY <1>1, <1>2, <1>3, <1>10, <1>12, <1>15, <1>16, <1>17, <1>18, BlockSends DEF r

\* A pause in a page leaves what there is of it.
LEMMA TxNullsSent ==
  ASSUME SafeInv, RepliesInv, Sending, PagesFlow, TxNulls
  PROVE  AllFlows
<1> DEFINE u == DataInput(Taken)
           f == Written(fifo, u.bytes)
           late == c.countdown + 1 > HostLimit
           st == IF late THEN "ERROR" ELSE "NO_MESSAGE"
           n == [c EXCEPT !.countdown = c.countdown + 1]
           b == To(u.d, "TX_DATA")
           d == IF late THEN To(n, "IDLE") ELSE n
           e == [b EXCEPT !.countdown = b.countdown + 1]
           r == Unread \o host.script
<1>1. host.mode # "gone" /\ c.state = "TX_NULLS" /\ c.state \in DataTx
  BY DEF TxNulls, Running, DataTx
<1>2. UNCHANGED << queue, aired >>
  BY DEF TxNulls
<1>3. Typed /\ Ctx(c) /\ Taken \in Seq(Byte)
  BY Found
<1>4. host.cmd = "TM"
  BY <1>1, <1>3, ServedBy
<1>5. st # "OK" /\ st # "CONNECT" /\ (late => Ends(st))
  BY DEF Ends
<1>6. "IDLE" \in States /\ "TX_DATA" \in States
  BY DEF States, DataTx
<1>7. passed \in Seq(Byte)
  BY DEF Sending
<1>8. ~host.cut => FifoOK(fifo) /\ PageFlow(u.d, r, host.sent, passed \o f)
  BY <1>1, <1>4, PageStep
<1>9. CASE Taken = << >>
  <2>1. fifo' = fifo /\ passed' = passed /\ Block(d, st, << >>, Room)
    BY <1>9, Zenon DEF TxNulls
  <2> HIDE DEF st
  <2>2. SamePending(n) /\ n.state = "TX_NULLS" /\ n.dle = c.dle /\ n.closed = c.closed
    BY <1>1, <1>3 DEF SamePending, Ctx, CtxFields
  <2> HIDE DEF n, late
  <2>3. SamePending(d) /\ d.state \in { "TX_NULLS", "IDLE" } /\ (d.state = "IDLE" => Ends(st))
    BY <1>5, <1>6, <2>2, PendingChanges
  <2>4. d.dle = c.dle /\ d.closed = c.closed
    BY <2>2 DEF To, SamePending, Ctx, CtxFields
  <2>5. ~host.cut => PageFlow(c, tty \o host.script, host.sent, passed \o fifo)
    BY <1>1, <1>4, Zenon DEF PagesFlow
  <2>6. tty \o host.script = r
    BY <1>3, <1>9, ReadFirst
  <2> HIDE DEF d, r
  <2>7. ~host.cut => PageFlow(d, r, host.sent, passed' \o fifo')
    BY <2>1, <2>4, <2>5, <2>6, SamePage
  <2>8. Ctx(d) /\ d.state \in DataTx \cup { "IDLE" } /\ d.state # "SILENCE_BEFORE_ONES"
    BY <2>3 DEF SamePending, DataTx
  <2>9. passed' \in Seq(Byte) /\ (~host.cut => FifoOK(fifo'))
    BY <1>7, <1>8, <2>1
  <2> QED
    BY <1>1, <1>2, <1>5, <2>1, <2>3, <2>7, <2>8, <2>9, BlockSends DEF r
<1>10. CASE Taken # << >>
  <2>1. Feed(f) /\ Block(e, st, << >>, Room)
    BY <1>10, Zenon DEF TxNulls
  <2>2. c.code \in Codes /\ FifoOK(f)
    BY <1>1, PageGrows
  <2>3. SamePending(u.d)
    BY <1>3, DataInputPending
  <2> HIDE DEF u, f, st, r
  <2>4. passed' \in Seq(Byte) /\ FifoOK(fifo') /\ passed' \o fifo' = passed \o f
    BY <1>7, <2>1, <2>2, FeedRight
  <2>5. SamePending(b) /\ b.state = "TX_DATA"
    BY <1>6, <2>3, PendingChanges
  <2>6. b.dle = u.d.dle /\ b.closed = u.d.closed
    BY <2>3 DEF To, SamePending, Ctx, CtxFields
  <2> HIDE DEF b
  <2>7. SamePending(e) /\ e.state = "TX_DATA" /\ e.dle = b.dle /\ e.closed = b.closed
    BY <2>5 DEF SamePending, Ctx, CtxFields
  <2> HIDE DEF e
  <2>8. ~host.cut => PageFlow(e, r, host.sent, passed' \o fifo')
    BY <1>8, <2>4, <2>6, <2>7, SamePage
  <2>9. Ctx(e) /\ e.state \in DataTx \cup { "IDLE" } /\ e.state \notin { "IDLE", "SILENCE_BEFORE_ONES" }
    BY <2>7 DEF SamePending, DataTx
  <2> QED
    BY <1>1, <1>2, <1>5, <2>1, <2>4, <2>7, <2>8, <2>9, BlockSends DEF r
<1> QED
  BY <1>9, <1>10

-----------------------------------------------------------------------------
\* An idle session sends nothing.
LEMMA IdleSent ==
  ASSUME SafeInv, RepliesInv, Sending, PagesFlow, Idle
  PROVE  AllFlows
<1> DEFINE st == "NO_MESSAGE"
           n == Len(Taken)
<1>1. host.mode # "gone" /\ c.state = "IDLE"
  BY DEF Idle, Running
<1>2. Block(c, st, << >>, n) /\ UNCHANGED << queue, aired, passed, fifo >>
  BY Zenon DEF Idle, lower
<1>3. Typed /\ Ctx(c)
  BY Found
<1>4. st # "OK" /\ st # "CONNECT"
  OBVIOUS
<1> HIDE DEF st, n
<1>5. /\ queue' \in Seq(Octets) /\ aired' \in Seq(Octets) /\ Len(queue') <= 1
      /\ passed' \in Seq(Byte) /\ host.sent \in Seq(Octets)
  BY <1>2 DEF Sending
<1>6. Drained(c, queue')
  BY <1>1, Zenon DEF Drained
<1>7. Sending' /\ FramesFlow'
  BY <1>1, <1>2, <1>3, <1>5, <1>6, BlockAired
<1>8. ASSUME host.cmd = "TM", ~host.cut
      PROVE  /\ FifoOK(fifo') /\ c.dcount # 1 /\ host.mode = "command"
             /\ PageFlow(c, Unread \o host.script, host.sent, passed' \o fifo')
  <2>1. /\ FifoOK(fifo) /\ host.mode = "command" /\ ~(c.dcount > 0)
        /\ PageFlow(c, tty \o host.script, host.sent, passed \o fifo)
    <3>1. c.state # "SILENCE_BEFORE_ONES"
      BY <1>1
    <3> QED
      BY <1>1, <1>8, <3>1, Zenon DEF PagesFlow
  <2>2. tty = << >> /\ host.script = << >>
    BY <1>1, <2>1, Zenon DEF RepliesInv
  <2>3. tty \o host.script = << >>
    BY <2>2
  <2>4. Unread \o host.script = << >>
    BY <1>3, <2>3, ReadFirst
  <2>5. c.dcount # 1
    BY <2>1
  <2> QED
    BY <1>2, <2>1, <2>3, <2>4, <2>5
<1>9. c.state # "SILENCE_BEFORE_ONES"
  BY <1>1
<1>10. PagesFlow'
  BY <1>1, <1>2, <1>3, <1>4, <1>5, <1>8, <1>9, BlockPaged
<1> QED
  BY <1>7, <1>10 DEF AllFlows

\* A step that a command other than TH and TM serves, or that changes nothing
\* of what is sent.
LEMMA OtherSent ==
  ASSUME Sending, RepliesInv', host'.cmd \notin { "TH", "TM" }, host'.mode # "gone",
         host'.sent \in Seq(Octets), host'.left \in Seq(Octets),
         queue' = queue, aired' \in Seq(Octets), passed' \in Seq(Byte)
  PROVE  AllFlows
<1>1. Serves(host'.cmd, c'.state)
  BY Zenon DEF RepliesInv
<1>2. c'.state # "BETWEEN_TX" /\ c'.state # "PREAMBLE"
  BY <1>1 DEF Serves, HdlcTx, HdlcRx, DataTx, DataRx
<1>3. Drained(c', queue')
  BY <1>2, Zenon DEF Drained
<1>4. Sending'
  BY <1>3 DEF Sending
<1>5. FramesFlow' /\ PagesFlow'
  BY DEF FramesFlow, PagesFlow
<1> QED
  BY <1>4, <1>5 DEF AllFlows

\* What the host hears does not change what it has sent but for a frame.
LEMMA HeardSent ==
  ASSUME Typed, host.mode # "gone", NEW status, HostHears(status)
  PROVE  /\ host'.cmd = host.cmd /\ host'.left = host.left /\ host'.mode # "gone"
         /\ host.cmd # "TH" => host'.sent = host.sent
<1> DEFINE o1 == host.cmd = "TH" \/ (host.cmd = "TM" /\ host.mode = "waiting")
           s1 == IF host.cmd = "TH" /\ (host.script # << >> \/ Unread # << >>)
                 THEN Front(host.sent) ELSE host.sent
<1>1. \/ host' = host
      \/ host' = [host EXCEPT !.mode = "online", !.owes = o1]
      \/ host' = [host EXCEPT !.mode = "command", !.owes = FALSE, !.script = << >>,
                              !.sent = s1]
  BY Zenon DEF HostHears
<1>2. host.cmd # "TH" => s1 = host.sent
  BY Zenon
<1> HIDE DEF o1, s1
<1>3. DOMAIN host = HostFields
  BY DEF Typed, HostOK
<1>4. CASE host' = host
  BY <1>4
<1>5. CASE host' = [host EXCEPT !.mode = "online", !.owes = o1]
  BY <1>3, <1>5 DEF HostFields
<1>6. CASE host' = [host EXCEPT !.mode = "command", !.owes = FALSE, !.script = << >>,
                                !.sent = s1]
  BY <1>2, <1>3, <1>6 DEF HostFields
<1> QED
  BY <1>1, <1>4, <1>5, <1>6

\* A block tells the host its status.
LEMMA BlockHears ==
  ASSUME NEW d, NEW st, NEW out, NEW want, Block(d, st, out, want)
  PROVE  \E status : HostHears(status)
BY DEF Block

\* The handlers that send nothing: silences and receivers.
LEMMA ReceiversSent ==
  ASSUME SafeInv, RepliesInv, RepliesInv', Sending,
         SendSilence \/ ReceiveSilence \/ LookHdlc \/ HdlcReceive \/ HdlcReceiveBetween
           \/ HdlcEmulate \/ RxLookCarrier \/ RxData
  PROVE  AllFlows
<1>1. /\ host.mode # "gone"
      /\ c.state \in { "SEND_SILENCE", "RECEIVE_SILENCE", "LOOK_HDLC", "RECEIVE_HDLC",
                       "BETWEEN_RX", "EMULATE", "RX_LOOK", "RX_DATA" }
  BY DEF SendSilence, ReceiveSilence, LookHdlc, HdlcReceive, HdlcReceiveBetween,
         HdlcEmulate, RxLookCarrier, RxData, Running
<1>2. UNCHANGED << queue, aired, passed >>
  BY Zenon DEF SendSilence, ReceiveSilence, LookHdlc, HdlcReceive, HdlcReceiveBetween,
         HdlcEmulate, RxLookCarrier, RxData, lower
<1>3. \E d, st, out, want : Block(d, st, out, want)
  BY Zenon DEF SendSilence, ReceiveSilence, LookHdlc, HdlcReceive, HdlcReceiveBetween,
         HdlcEmulate, RxLookCarrier, RxData
<1>4. Typed
  BY Found
<1>5. host.cmd \notin { "TH", "TM" }
  <2>1. c.state \in HdlcRx \cup DataRx \cup { "SEND_SILENCE", "RECEIVE_SILENCE" }
    BY <1>1 DEF HdlcRx, DataRx
  <2> QED
    BY <1>1, <1>4, <2>1, ServedBy
<1>6. PICK status : HostHears(status)
  BY <1>3, BlockHears
<1>7. /\ host'.cmd = host.cmd /\ host'.left = host.left /\ host'.mode # "gone"
      /\ host.cmd # "TH" => host'.sent = host.sent
  BY <1>1, <1>4, <1>6, HeardSent
<1>8. /\ host'.cmd \notin { "TH", "TM" } /\ host'.sent \in Seq(Octets)
      /\ host'.left \in Seq(Octets)
  BY <1>5, <1>7 DEF Sending
<1>9. queue' = queue /\ aired' \in Seq(Octets) /\ passed' \in Seq(Byte)
  BY <1>2 DEF Sending
<1> QED
  BY <1>7, <1>8, <1>9, OtherSent

\* The handlers that send frames have no page to send.
LEMMA FlowsAll ==
  ASSUME SafeInv, RepliesInv, host.mode # "gone", c.state \in HdlcTx \cup { "ANSWER_TONE" },
         Flows
  PROVE  AllFlows
<1>1. Typed
  BY Found
<1>2. host.cmd = "TH"
  BY <1>1, ServedBy
<1>3. host'.cmd # "TM"
  BY <1>2 DEF Flows
<1>4. PagesFlow'
  BY <1>3, Zenon DEF PagesFlow
<1> QED
  BY <1>4 DEF AllFlows, Flows

-----------------------------------------------------------------------------
\* FTH keeps dle_seen and starts with no frame.
LEMMA THContext ==
  ASSUME Ctx(c), TH
  PROVE  /\ c'.state = "SILENCE_BEFORE_PREAMBLE" /\ c'.frame = << >> /\ c'.latch = FALSE
         /\ c'.dle = c.dle
<1>1. c' = PreambleInit([c EXCEPT !.code = 3])
  BY DEF TH
<1> QED
  BY <1>1 DEF PreambleInit, Ctx, CtxFields

\* FTM keeps dle_seen too, and starts with an empty tx_fifo.
LEMMA TMContext ==
  ASSUME Ctx(c), NEW code, TM(code)
  PROVE  /\ c'.state = "SILENCE_BEFORE_ONES" /\ c'.closed = FALSE /\ c'.dle = c.dle
         /\ c'.dcount = c.dcount /\ fifo' = << >>
<1>1. c' = [c EXCEPT !.state = "SILENCE_BEFORE_ONES", !.countdown = 0, !.code = code,
                     !.mod = ModOf(code), !.dir = "tx", !.connect = -1, !.enabled = FALSE,
                     !.ready = FALSE, !.closed = FALSE, !.counter = 0]
  BY DEF TM
<1>2. fifo' = << >>
  BY DEF TM, InitTransmitter
<1> QED
  BY <1>1, <1>2 DEF Ctx, CtxFields

\* A command begins with nothing sent, but with what the queue still holds.
LEMMA CommandSent ==
  ASSUME SafeInv, RepliesInv, Sending, NEW cmd \in Commands, NEW code \in Args(cmd),
         Command(cmd, code), RepliesInv'
  PROVE  AllFlows
<1>1. Typed /\ DOMAIN host = HostFields /\ Ctx(c)
  BY DEF SafeInv, Typed, HostOK
<1>2. /\ host.mode = "command" /\ tty' = tty /\ queue' = queue /\ aired' = << >>
      /\ passed' = << >>
  BY Zenon DEF Command
<1>3. /\ host'.mode = "waiting" /\ host'.cmd = cmd /\ host'.owes = host.owes
      /\ host'.script = host.script /\ host'.sent = << >> /\ host'.cut = c.dle
      /\ host'.left = queue
  <2> DEFINE n == host.count + 1
             s == c.dcount > 0
  <2>1. host' = [host EXCEPT !.mode = "waiting", !.cmd = cmd, !.count = n, !.sent = << >>,
                        !.aborted = FALSE, !.cut = c.dle, !.left = queue, !.stray = s]
    BY Zenon DEF Command
  <2> HIDE DEF n, s
  <2> QED
    BY <1>1, <2>1 DEF HostFields
<1>4. tty = << >> /\ host.script = << >> /\ ~host.owes
  <2>1. host.mode # "gone"
    BY <1>2
  <2> QED
    BY <1>2, <2>1, Zenon DEF RepliesInv
<1>5. tty' \o host'.script = << >> /\ ~host'.owes
  BY <1>2, <1>3, <1>4
<1>6. /\ queue' \in Seq(Octets) /\ aired' \in Seq(Octets) /\ Len(queue') <= 1
      /\ host'.left \in Seq(Octets) /\ host'.sent \in Seq(Octets) /\ passed' \in Seq(Byte)
  <2>1. << >> \in Seq(Octets) /\ << >> \in Seq(Byte)
    OBVIOUS
  <2> QED
    BY <1>2, <1>3, <2>1 DEF Sending
<1>7. CASE cmd = "TH"
  <2>1. TH
    BY <1>7 DEF Command
  <2>2. /\ c'.state = "SILENCE_BEFORE_PREAMBLE" /\ c'.frame = << >> /\ c'.latch = FALSE
        /\ c'.dle = c.dle
    BY <1>1, <2>1, THContext
  <2>3. Drained(c', queue')
    BY <2>2 DEF Drained
  <2>4. Sending'
    BY <1>3, <1>6, <2>3 DEF Sending
  <2>5. Whole(host'.sent, tty' \o host'.script) = << >>
    BY <1>3, <1>5 DEF Whole
  <2>6. OnAir(c'.state, Whole(host'.sent, tty' \o host'.script)) = << >>
    BY <2>2 DEF OnAir
  <2>7. aired' \o queue' = host'.left \o << >>
    <3>1. queue \in Seq(Octets)
      BY DEF Sending
    <3>2. << >> \o queue = queue /\ queue \o << >> = queue
      BY <3>1, ConcatEmptySeq
    <3> QED
      BY <1>2, <1>3, <3>2
  <2>8. ~Collects(c')
    BY <2>2 DEF Collects
  <2> DEFINE l == Last(host'.sent)
             h == host'.mode = "command"
  <2> HIDE DEF l, h
  <2>9. ASSUME ~host'.cut PROVE FrameFlow(c', << >>, << >>, l, h)
    <3>1. ~c'.dle
      BY <1>3, <2>2, <2>9
    <3> QED
      BY <2>2, <2>8, <3>1 DEF FrameFlow
  <2>10. FramesFlow'
    BY <1>5, <2>5, <2>6, <2>7, <2>9, Zenon DEF FramesFlow, l, h
  <2>11. PagesFlow'
    BY <1>3, <1>7 DEF PagesFlow
  <2> QED
    BY <2>4, <2>10, <2>11 DEF AllFlows
<1>8. CASE cmd = "TM"
  <2>1. TM(code)
    BY <1>8 DEF Command
  <2>2. /\ c'.state = "SILENCE_BEFORE_ONES" /\ c'.closed = FALSE /\ c'.dle = c.dle
        /\ c'.dcount = c.dcount /\ fifo' = << >>
    BY <1>1, <2>1, TMContext
  <2>3. Drained(c', queue')
    BY <2>2 DEF Drained
  <2>4. Sending'
    BY <1>3, <1>6, <2>3 DEF Sending
  <2>5. FramesFlow'
    BY <1>3, <1>8 DEF FramesFlow
  <2>6. FifoOK(fifo') /\ passed' \o fifo' = << >>
    BY <1>2, <2>2, EmptyFifo
  <2>7. ASSUME ~host'.cut PROVE PageFlow(c', << >>, << >>, << >>)
    <3>1. ~c'.dle
      BY <1>3, <2>2, <2>7
    <3> QED
      BY <2>2, <3>1 DEF PageFlow
  <2>8. host'.mode # "command" /\ c'.state # "IDLE"
    BY <1>3, <2>2
  <2>9. PagesFlow'
    BY <1>3, <1>5, <2>2, <2>6, <2>7, <2>8, Zenon DEF PagesFlow
  <2> QED
    BY <2>4, <2>5, <2>9 DEF AllFlows
<1>9. CASE cmd \notin { "TH", "TM" }
  <2>1. host'.cmd \notin { "TH", "TM" } /\ host'.mode # "gone"
    BY <1>3, <1>9
  <2> QED
    BY <1>2, <1>6, <2>1, OtherSent
<1> QED
  BY <1>7, <1>8, <1>9

-----------------------------------------------------------------------------
\* What the host says goes on with what it sends.
LEMMA SaySent ==
  ASSUME SafeInv, Sending, PagesFlow, host.mode = "online", NEW script, NEW n,
         NEW sent \in Seq(Octets), Say(script, n, sent), NEW r,
         r = (tty \o SubSeq(script, 1, n)) \o SubSeq(script, n + 1, Len(script)),
         host.cmd = "TH" /\ ~host.cut /\ c.state # "IDLE" =>
           /\ aired \o queue = host.left \o OnAir(c.state, Whole(sent, r))
           /\ r # << >> => sent # << >>
           /\ FrameFlow(c, Whole(sent, r), r, Last(sent), FALSE),
         host.cmd = "TM" /\ ~host.cut =>
           c.state # "SILENCE_BEFORE_ONES" /\ PageFlow(c, r, sent, passed \o fifo)
  PROVE  AllFlows
<1> DEFINE said == SubSeq(script, 1, n)
           rest == SubSeq(script, n + 1, Len(script))
<1>1. DOMAIN host = HostFields
  BY DEF SafeInv, Typed, HostOK
<1>2. /\ tty' = tty \o said /\ c' = c /\ fifo' = fifo /\ queue' = queue
      /\ host' = [host EXCEPT !.script = rest, !.owes = FALSE, !.sent = sent]
      /\ aired' = aired /\ passed' = passed
  BY Zenon DEF Say, lower
<1>3. r = (tty \o said) \o rest
  OBVIOUS
<1> HIDE DEF said, rest
<1>4. /\ host'.mode = "online" /\ host'.cmd = host.cmd /\ host'.owes = FALSE
      /\ host'.script = rest /\ host'.cut = host.cut /\ host'.sent = sent
      /\ host'.left = host.left
  BY <1>1, <1>2 DEF HostFields
<1>5. tty' \o host'.script = r /\ (host'.mode = "command") = FALSE
  BY <1>2, <1>3, <1>4
<1>6. host.mode # "gone" /\ host'.mode # "gone" /\ host'.mode # "command" /\ host'.mode # "waiting"
  BY <1>4
<1>7. Drained(c', queue')
  BY <1>2, <1>6, Zenon DEF Sending
<1>8. Sending'
  BY <1>2, <1>4, <1>6, <1>7, Zenon DEF Sending
<1>9. FramesFlow'
  BY <1>2, <1>4, <1>5, <1>6, Zenon DEF FramesFlow
<1>10. PagesFlow'
  <2>1. SUFFICES ASSUME host'.cmd = "TM", ~host'.cut
                 PROVE  /\ FifoOK(fifo') /\ c'.state # "SILENCE_BEFORE_ONES" /\ c'.state # "IDLE"
                        /\ c'.dcount > 0 => c'.state = "SILENCE_BEFORE_ONES"
                        /\ PageFlow(c', r, sent, passed' \o fifo')
    BY <1>4, <1>5, <1>6, Zenon DEF PagesFlow
  <2>2. host.cmd = "TM" /\ ~host.cut
    BY <1>4, <2>1, Zenon
  <2>3. /\ FifoOK(fifo) /\ (c.state = "IDLE" => host.mode = "command")
        /\ c.dcount > 0 => c.state = "SILENCE_BEFORE_ONES"
    BY <1>6, <2>2, Zenon DEF PagesFlow
  <2>4. c.state # "SILENCE_BEFORE_ONES" /\ PageFlow(c, r, sent, passed \o fifo)
    BY <2>2
  <2>5. c.state # "IDLE"
    BY <2>3
  <2> QED
    BY <1>2, <2>3, <2>4, <2>5, Zenon
<1> QED
  BY <1>8, <1>9, <1>10 DEF AllFlows

\* A frame that the host begins closes what was collected of it, which is nothing.
LEMMA StartsFrame ==
  ASSUME SafeInv, RepliesInv, Sending, FramesFlow, host.mode = "online", host.owes,
         host.cmd = "TH", ~host.cut, c.state # "IDLE", NEW m \in Messages, NEW e, e = Escaped[m]
  PROVE  LET sent == Append(host.sent, m) IN
         /\ aired \o queue = host.left \o OnAir(c.state, Whole(sent, e))
         /\ sent # << >> /\ FrameFlow(c, Whole(sent, e), e, Last(sent), FALSE)
<1> DEFINE sent == Append(host.sent, m)
           r == tty \o host.script
           deaf == host.mode = "command"
<1>1. /\ host.mode # "gone" /\ Ctx(c)
  BY DEF SafeInv, Typed
<1>2. FrameTurn(c, tty \o host.script, host.owes)
  BY <1>1, Zenon DEF RepliesInv
<1>3. r = << >>
  BY <1>2, Zenon DEF FrameTurn
<1>4. /\ aired \o queue = host.left \o OnAir(c.state, Whole(host.sent, r))
      /\ FrameFlow(c, Whole(host.sent, r), r, Last(host.sent), deaf)
  BY <1>1, Zenon DEF FramesFlow
<1>5. Whole(host.sent, r) = host.sent /\ ~deaf
  BY <1>3 DEF Whole
<1>6. m \in Octets /\ host.sent \in Seq(Octets)
  BY FaxAssumption DEF Octets, Byte, Sending
<1>7. Front(sent) = host.sent /\ Last(sent) = m
  BY <1>6, FrontRight
<1>8. sent # << >>
  BY <1>6, AppendProperties
<1>9. m \in Messages \cup Pages
  OBVIOUS
<1>10. Collects(c) => Closes(Sender(c), e, m)
  <2> SUFFICES ASSUME Collects(c) PROVE Closes(Sender(c), e, m)
    OBVIOUS
  <2>1. ~c.dle /\ c.frame = << >>
    BY <1>3, <1>4, <1>5, Zenon DEF FrameFlow
  <2>2. Sender(c) \in Ear /\ Sender(c).done = FALSE /\ ~Sender(c).dle /\ Sender(c).buf = << >>
    BY <1>1, <2>1 DEF Sender, Ear, Ctx
  <2>3. PICK out \in Seq(Byte) :
          Closes(Sender(c), Escaped[m], out) /\ (~Sender(c).dle => out = Sender(c).buf \o m)
    BY <1>9, <2>2, EscapedCloses
  <2>4. << >> \o m = m
    BY <1>6, ConcatEmptySeq DEF Octets
  <2>5. out = m
    BY <2>2, <2>3, <2>4
  <2> QED
    BY <2>3, <2>5
<1>11. e # << >>
  BY <1>9, EscapedBytes
<1>12. Whole(sent, e) = host.sent
  BY <1>7, <1>11 DEF Whole
<1> HIDE DEF r, deaf
<1>13. FrameFlow(c, host.sent, e, m, FALSE)
  BY <1>4, <1>5, <1>10, <1>11, Zenon DEF FrameFlow
<1> QED
  BY <1>4, <1>5, <1>7, <1>8, <1>12, <1>13

\* The same of a page.
LEMMA StartsPage ==
  ASSUME SafeInv, RepliesInv, Sending, PagesFlow, host.mode = "online", host.owes,
         host.cmd = "TM", ~host.cut, NEW m \in Pages, NEW e, e = Escaped[m]
  PROVE  /\ tty \o host.script = << >> /\ c.state # "SILENCE_BEFORE_ONES"
         /\ PageFlow(c, e, Append(host.sent, m), passed \o fifo)
<1> DEFINE sent == Append(host.sent, m)
           r == tty \o host.script
           p == passed \o fifo
<1>1. /\ host.mode # "gone" /\ Ctx(c)
  BY DEF SafeInv, Typed
<1>2. /\ host.sent = << >> /\ c.state # "SILENCE_BEFORE_ONES"
      /\ PageFlow(c, r, host.sent, p)
  BY <1>1, Zenon DEF PagesFlow
<1>3. r = << >> /\ ~c.closed /\ ~c.dle /\ p = << >>
  BY <1>2, Zenon DEF PageFlow
<1>4. m \in Seq(Byte) /\ m \in Messages \cup Pages
  BY FaxAssumption DEF Byte
<1>5. sent = << m >> /\ Len(sent) = 1 /\ sent[1] = m
  BY <1>2
<1> HIDE DEF sent, r, p
<1>6. Begun(p, m \o Pad)
  <2>1. m \o Pad \in Seq(Byte)
    BY <1>4, PadRight
  <2>2. << >> \o (m \o Pad) = m \o Pad
    BY <2>1, ConcatEmptySeq
  <2> QED
    BY <1>3, <2>1, <2>2, Zenon DEF Begun
<1>7. Closes(Pager(c, p), e, m)
  <2>1. /\ Pager(c, p) \in Ear /\ ~Pager(c, p).done /\ ~Pager(c, p).dle
        /\ Pager(c, p).buf = << >>
    BY <1>1, <1>3 DEF Pager, Ear, Ctx
  <2>2. PICK out \in Seq(Byte) :
          Closes(Pager(c, p), Escaped[m], out)
          /\ (~Pager(c, p).dle => out = Pager(c, p).buf \o m)
    BY <1>4, <2>1, EscapedCloses
  <2>3. << >> \o m = m
    BY <1>4, ConcatEmptySeq
  <2>4. out = m
    BY <2>1, <2>2, <2>3
  <2> QED
    BY <2>2, <2>4
<1>8. PageFlow(c, e, sent, p)
  <2>1. sent # << >> /\ Len(sent) <= 1
    BY <1>5
  <2> QED
    BY <1>3, <1>5, <1>6, <1>7, <2>1, Zenon DEF PageFlow
<1> QED
  BY <1>2, <1>3, <1>8 DEF r, p, sent

\* Nothing but what the host says, and to whom, is sent by the host.
LEMMA HostSent ==
  ASSUME PlainStart, SafeInv, RepliesInv, RepliesInv', Sending, FramesFlow, PagesFlow,
         HostStarts \/ HostGoesOn \/ HostAborts \/ LineTurns
  PROVE  AllFlows
<1>0. /\ Typed /\ DOMAIN host = HostFields /\ tty \in Seq(Byte) /\ host.script \in Seq(Byte)
      /\ Ctx(c) /\ host.sent \in Seq(Octets)
  BY DEF SafeInv, Typed, HostOK, Sending
<1>1. CASE HostStarts
  <2>1. PICK m \in IF host.cmd = "TH" THEN Messages ELSE Pages :
          \E n \in Splits \cup { Len(Escaped[m]) } :
            n <= Len(Escaped[m]) /\ Say(Escaped[m], n, Append(host.sent, m))
    BY <1>1 DEF HostStarts
  <2>2. PICK n \in Splits \cup { Len(Escaped[m]) } :
          n <= Len(Escaped[m]) /\ Say(Escaped[m], n, Append(host.sent, m))
    BY <2>1
  <2>3. host.mode = "online" /\ host.owes /\ host.mode # "gone"
    BY <1>1 DEF HostStarts
  <2>4. /\ host.cmd \in { "TH", "TM" }
        /\ host.cmd = "TH" => FrameTurn(c, tty \o host.script, host.owes)
    BY <2>3, Zenon DEF RepliesInv
  <2>5. m \in Messages \cup Pages
    OBVIOUS
  <2>6. Escaped[m] \in Seq(Byte) /\ Escaped[m] # << >>
    BY <2>5, EscapedBytes
  <2>7. m \in Octets
    BY <2>5, FaxAssumption DEF Octets, Byte
  <2> DEFINE e == Escaped[m]
             sent == Append(host.sent, m)
  <2> HIDE DEF e
  <2>8. n \in Nat /\ n <= Len(e) /\ Len(e) \in Nat
    <3>1. Splits \subseteq Nat
      BY FaxAssumption, Zenon
    <3>2. Len(e) \in Nat
      BY <2>6 DEF e
    <3> QED
      BY <2>2, <3>1, <3>2 DEF e
  <2>9. SubSeq(e, 1, n) \o SubSeq(e, n + 1, Len(e)) = e
    <3>1. /\ 1 \in 1..(Len(e) + 1) /\ n \in (1 - 1)..Len(e) /\ Len(e) \in n..Len(e)
          /\ e \in Seq(Byte)
      BY <2>6, <2>8 DEF e
    <3>2. SubSeq(e, 1, n) \o SubSeq(e, n + 1, Len(e)) = SubSeq(e, 1, Len(e))
      BY <3>1, ConcatAdjacentSubSeq
    <3> QED
      BY <3>1, <3>2, SubSeqFull
  <2>10. tty \o host.script = << >> =>
           e = (tty \o SubSeq(e, 1, n)) \o SubSeq(e, n + 1, Len(e))
    <3> SUFFICES ASSUME tty \o host.script = << >>
                 PROVE  e = (tty \o SubSeq(e, 1, n)) \o SubSeq(e, n + 1, Len(e))
      OBVIOUS
    <3> DEFINE a == SubSeq(e, 1, n)
               b == SubSeq(e, n + 1, Len(e))
    <3>1. a \in Seq(Byte)
      <4>1. 1 \in Nat \ { 0 } /\ e \in Seq(Byte)
        BY <2>6 DEF e
      <4> QED
        BY <2>8, <4>1, PartOf
    <3>2. tty = << >>
      BY <1>0, ReadFirst
    <3> HIDE DEF a
    <3>3. tty \o a = a
      BY <3>1, <3>2
    <3> QED
      BY <2>9, <3>3 DEF a
  <2>11. sent \in Seq(Octets)
    BY <1>0, <2>7
  <2>12. ASSUME host.cmd = "TH", ~host.cut, c.state # "IDLE"
         PROVE  /\ aired \o queue = host.left \o OnAir(c.state, Whole(sent, e))
                /\ sent # << >> /\ FrameFlow(c, Whole(sent, e), e, Last(sent), FALSE)
    <3>1. m \in Messages
      BY <2>12
    <3> QED
      BY <2>3, <2>12, <3>1, StartsFrame DEF e
  <2>13. ASSUME host.cmd = "TM", ~host.cut
         PROVE  /\ tty \o host.script = << >> /\ c.state # "SILENCE_BEFORE_ONES"
                /\ PageFlow(c, e, sent, passed \o fifo)
    <3>1. m \in Pages
      BY <2>13
    <3> QED
      BY <2>3, <2>13, <3>1, StartsPage DEF e
  <2>14. host.cmd = "TH" => tty \o host.script = << >>
    BY <2>3, <2>4, Zenon DEF FrameTurn
  <2>15. ASSUME host.cmd = "TH" \/ ~host.cut PROVE AllFlows
    <3>1. e = (tty \o SubSeq(e, 1, n)) \o SubSeq(e, n + 1, Len(e))
      BY <2>4, <2>10, <2>13, <2>14, <2>15, Zenon
    <3>2. Say(e, n, sent)
      BY <2>2 DEF e
    <3> HIDE DEF sent
    <3> QED
      BY <2>3, <2>11, <2>12, <2>13, <3>1, <3>2, SaySent
  <2>16. ASSUME host.cmd = "TM", host.cut PROVE AllFlows
    <3>1. Say(e, n, sent)
      BY <2>2 DEF e
    <3> HIDE DEF sent
    <3> QED
      BY <2>3, <2>11, <2>16, <3>1, SaySent
  <2> QED
    BY <2>4, <2>15, <2>16, Zenon
<1>2. CASE HostGoesOn
  <2>1. /\ host.mode = "online" /\ host.script # << >> /\ host.mode # "gone"
        /\ Say(host.script, Len(host.script), host.sent)
    BY <1>2 DEF HostGoesOn
  <2> DEFINE s == host.script
             n == Len(s)
             r == tty \o s
  <2>2. SubSeq(s, 1, n) = s /\ SubSeq(s, n + 1, n) = << >>
    <3> HIDE DEF s
    <3>1. s \in Seq(Byte) /\ Len(s) \in Nat
      BY <1>0 DEF s
    <3>2. SubSeq(s, 1, Len(s)) = s
      BY <3>1, SubSeqFull
    <3>3. SubSeq(s, Len(s) + 1, Len(s)) = << >>
      BY <3>1, SubSeqEmpty
    <3> QED
      BY <3>2, <3>3
  <2>3. r = (tty \o SubSeq(s, 1, n)) \o SubSeq(s, n + 1, n)
    <3>1. (tty \o s) \o << >> = tty \o s
      BY <1>0, ConcatEmptySeq
    <3> HIDE DEF s, n
    <3> QED
      BY <2>2, <3>1 DEF r
  <2>4. r # << >>
    BY <1>0, <2>1, ConcatEqualIffEmpty
  <2>5. ASSUME host.cmd = "TH", ~host.cut, c.state # "IDLE"
        PROVE  /\ aired \o queue = host.left \o OnAir(c.state, Whole(host.sent, r))
               /\ r # << >> => host.sent # << >>
               /\ FrameFlow(c, Whole(host.sent, r), r, Last(host.sent), FALSE)
    <3>1. (host.mode = "command") = FALSE
      BY <2>1
    <3> QED
      BY <2>1, <2>5, <3>1, Zenon DEF FramesFlow
  <2>6. ASSUME host.cmd = "TM", ~host.cut
        PROVE  c.state # "SILENCE_BEFORE_ONES" /\ PageFlow(c, r, host.sent, passed \o fifo)
    <3>1. /\ PageFlow(c, r, host.sent, passed \o fifo)
          /\ c.state = "SILENCE_BEFORE_ONES" => host.sent = << >>
      BY <2>1, <2>6, Zenon DEF PagesFlow
    <3>2. host.sent # << >>
      BY <2>4, <3>1, Zenon DEF PageFlow
    <3> QED
      BY <3>1, <3>2
  <2>7. Say(s, n, host.sent)
    BY <2>1
  <2> HIDE DEF r
  <2> QED
    BY <1>0, <2>1, <2>3, <2>5, <2>6, <2>7, SaySent
<1>3. CASE HostAborts
  <2>1. /\ host' = [host EXCEPT !.aborted = TRUE]
        /\ queue' = queue /\ aired' = aired /\ passed' = passed
    BY <1>3, Zenon DEF HostAborts, lower
  <2>2. host.mode = "online" /\ host.cmd \in { "RH", "RM" }
    BY <1>3 DEF HostAborts
  <2>3. /\ host'.mode = "online" /\ host'.cmd = host.cmd /\ host'.sent = host.sent
        /\ host'.left = host.left
    BY <1>0, <2>1, <2>2 DEF HostFields
  <2>4. /\ host'.cmd \notin { "TH", "TM" } /\ host'.mode # "gone" /\ queue' = queue
        /\ host'.sent \in Seq(Octets) /\ host'.left \in Seq(Octets)
        /\ aired' \in Seq(Octets) /\ passed' \in Seq(Byte)
    BY <2>1, <2>2, <2>3 DEF Sending
  <2> QED
    BY <2>4, OtherSent
<1>4. CASE LineTurns
  <2>1. /\ c' = c /\ host' = host /\ tty' = tty /\ queue' = queue /\ aired' = aired
        /\ passed' = passed /\ fifo' = fifo
    BY <1>4, Zenon DEF LineTurns, lower
  <2>2. (reply' = "OK") = FALSE
    <3>1. reply' = ""
      BY <1>4, Zenon DEF LineTurns
    <3> QED
      BY <3>1
  <2>3. Sending'
    BY <2>1, Zenon DEF Sending, Drained
  <2>4. FramesFlow'
    BY <2>1, Zenon DEF FramesFlow
  <2>5. PagesFlow'
    BY <2>1, <2>2, Zenon DEF PagesFlow
  <2> QED
    BY <2>3, <2>4, <2>5 DEF AllFlows
<1> QED
  BY <1>1, <1>2, <1>3, <1>4

-----------------------------------------------------------------------------
\* A new session has sent nothing.
LEMMA InitSent == ASSUME Init PROVE Sending /\ FramesFlow /\ PagesFlow
<1>1. PICK ans \in BOOLEAN, g \in Garbage : c = Created(ans, g) /\ host = Caller(ans)
  BY Zenon DEF Init
<1> DEFINE s == IF ans THEN "ANSWER_TONE" ELSE "LOOK_HDLC"
           k == IF ans THEN "TH" ELSE "RH"
<1>2. c.state = s /\ c.dle = FALSE
  BY <1>1 DEF Created
<1>3. /\ host.mode = "waiting" /\ host.cmd = k /\ host.script = << >> /\ host.sent = << >>
      /\ host.left = << >>
  BY <1>1 DEF Caller
<1>4. tty = << >> /\ queue = << >> /\ aired = << >> /\ passed = << >>
  BY Zenon DEF Init
<1>5. k # "TM" /\ (k = "TH" => s = "ANSWER_TONE") /\ s \notin { "BETWEEN_TX", "PREAMBLE" }
  OBVIOUS
<1> HIDE DEF s, k
<1>6. Sending
  BY <1>2, <1>3, <1>4, <1>5 DEF Sending, Drained
<1>7. FramesFlow
  <2> SUFFICES ASSUME host.cmd = "TH" PROVE FramesFlow
    BY DEF FramesFlow
  <2>1. c.state = "ANSWER_TONE" /\ host.mode # "command" /\ ~c.dle
    BY <1>2, <1>3, <1>5
  <2>2. tty \o host.script = << >> /\ aired \o queue = << >> /\ host.left \o << >> = << >>
    BY <1>3, <1>4
  <2>3. Whole(host.sent, << >>) = << >> /\ OnAir("ANSWER_TONE", << >>) = << >>
    BY <1>3 DEF Whole, OnAir
  <2> DEFINE l == Last(host.sent)
  <2> HIDE DEF l
  <2>4. FrameFlow(c, << >>, << >>, l, FALSE)
    BY <2>1 DEF FrameFlow, Collects
  <2>5. (host.mode = "command") = FALSE
    BY <2>1
  <2> QED
    BY <1>3, <2>1, <2>2, <2>3, <2>4, <2>5 DEF FramesFlow, l
<1>8. PagesFlow
  BY <1>3, <1>5 DEF PagesFlow
<1> QED
  BY <1>6, <1>7, <1>8

\* Nothing is sent in a session that is over.
LEMMA DeleteSent == ASSUME Delete PROVE AllFlows
<1>1. /\ host' = [Caller(TRUE) EXCEPT !.mode = "gone"]
      /\ queue' = << >> /\ aired' = << >> /\ passed' = << >>
  BY Zenon DEF Delete
<1>2. /\ host'.mode = "gone" /\ host'.cmd = "TH" /\ host'.sent = << >> /\ host'.left = << >>
  BY <1>1 DEF Caller
<1>3. Sending'
  <2>1. << >> \in Seq(Octets) /\ << >> \in Seq(Byte) /\ Len(<< >>) <= 1
    OBVIOUS
  <2>2. (host'.mode # "gone") = FALSE
    BY <1>2
  <2> QED
    BY <1>1, <1>2, <2>1, <2>2, Zenon DEF Sending
<1>4. FramesFlow' /\ PagesFlow'
  BY <1>2 DEF FramesFlow, PagesFlow
<1> QED
  BY <1>3, <1>4 DEF AllFlows

\* The inductive invariant of what is sent.
SentInv == Sending /\ FramesFlow /\ PagesFlow

\* Every step keeps it.
LEMMA StepSent ==
  ASSUME PlainStart, PreambleMin >= 2, SafeInv, RepliesInv, RepliesInv', SentInv, Next
  PROVE  SentInv'
<1>0. Sending /\ FramesFlow /\ PagesFlow
  BY DEF SentInv
<1>1. ASSUME AnswerToneState \/ SilenceBeforePreamble \/ Preamble \/ SendHdlcBuffer
               \/ SendHdlcBetween
      PROVE  AllFlows
  <2>1. Flows
    BY <1>0, <1>1, AnswerToneSent, SilenceBeforePreambleSent, PreambleSent,
       SendHdlcBufferSent, SendHdlcBetweenSent
  <2>2. host.mode # "gone" /\ c.state \in HdlcTx \cup { "ANSWER_TONE" }
    BY <1>1 DEF AnswerToneState, SilenceBeforePreamble, Preamble, SendHdlcBuffer,
       SendHdlcBetween, Running, HdlcTx
  <2> QED
    BY <2>1, <2>2, FlowsAll
<1>2. ASSUME Idle \/ SilenceBeforeOnes \/ ScrambledOnes \/ TxData \/ TxNulls PROVE AllFlows
  BY <1>0, <1>2, IdleSent, SilenceBeforeOnesSent, ScrambledOnesSent, TxDataSent, TxNullsSent
<1>3. ASSUME SendSilence \/ ReceiveSilence \/ LookHdlc \/ HdlcReceive \/ HdlcReceiveBetween
               \/ HdlcEmulate \/ RxLookCarrier \/ RxData
      PROVE  AllFlows
  BY <1>0, <1>3, ReceiversSent
<1>4. ASSUME \E cmd \in Commands : \E code \in Args(cmd) : Command(cmd, code) PROVE AllFlows
  BY <1>0, <1>4, CommandSent
<1>5. ASSUME HostStarts \/ HostGoesOn \/ HostAborts \/ LineTurns PROVE AllFlows
  BY <1>0, <1>5, HostSent
<1>6. AllFlows
  BY <1>1, <1>2, <1>3, <1>4, <1>5, DeleteSent DEF Next, Pump
<1> QED
  BY <1>6 DEF AllFlows, SentInv

\* What the host has written to the end.
LEMMA CompleteWhole ==
  ASSUME Typed
  PROVE  Complete = Whole(host.sent, tty \o host.script)
<1>1. tty \in Seq(Byte) /\ host.script \in Seq(Byte)
  BY DEF Typed, HostOK
<1>2. tty \o host.script = << >> <=> (tty = << >> /\ host.script = << >>)
  BY <1>1, ConcatEqualIffEmpty
<1> QED
  BY <1>2, Zenon DEF Complete, Whole

\* The invariant says what the runs check.
LEMMA SentEnough == ASSUME SafeInv, RepliesInv, SentInv PROVE SentWhole
<1>0. Typed /\ Sending /\ FramesFlow /\ PagesFlow /\ ModemOK /\ c.closed \in BOOLEAN
  BY Found DEF SentInv, SafeInv, Typed, Ctx
<1>1. FramesSent
  <2> SUFFICES ASSUME c.state \in { "SEND_HDLC", "BETWEEN_TX" }, host.mode # "gone", ~host.cut
               PROVE  /\ aired \o queue = host.left \o Fitting(Complete)
                      /\ c.latch = \E i \in DOMAIN Complete : Final(Complete[i])
    BY Zenon DEF FramesSent
  <2>1. c.state # "IDLE" /\ c.state \in HdlcTx
    BY DEF HdlcTx
  <2>2. host.cmd = "TH"
    BY <1>0, <2>1, ServedBy
  <2> DEFINE w == Whole(host.sent, tty \o host.script)
             r == tty \o host.script
  <2>3. /\ aired \o queue = host.left \o OnAir(c.state, w)
        /\ FrameFlow(c, w, r, Last(host.sent), host.mode = "command")
    BY <1>0, <2>1, <2>2, Zenon DEF FramesFlow
  <2>4. Complete = w
    BY <1>0, CompleteWhole
  <2> HIDE DEF w, r
  <2>5. OnAir(c.state, w) = Fitting(w)
    BY DEF OnAir
  <2>6. c.latch <=> FinalIn(w)
    BY <2>3, Zenon DEF FrameFlow
  <2>7. c.latch = FinalIn(w)
    <3>1. c.latch \in BOOLEAN
      BY <1>0 DEF Typed, Ctx
    <3> QED
      BY <2>6, <3>1 DEF FinalIn
  <2> QED
    BY <2>3, <2>4, <2>5, <2>7, Zenon DEF FinalIn
<1>2. PageSent
  <2> SUFFICES ASSUME host.cmd = "TM", host.sent # << >>, ~host.cut
               PROVE  /\ IsPrefix(IF fifo = NoFifo THEN passed ELSE passed \o fifo,
                                  host.sent[1] \o Pad)
                      /\ host.mode = "command" /\ reply = "OK" /\ c.closed
                           => IsPrefix(host.sent[1], passed)
    BY Zenon DEF PageSent, Pad
  <2>1. host.mode # "gone"
    <3>1. host.cmd # "TH"
      OBVIOUS
    <3> QED
      BY <1>0, <3>1, Zenon DEF Sending
  <2>2. /\ FifoOK(fifo) /\ PageFlow(c, tty \o host.script, host.sent, passed \o fifo)
        /\ host.mode = "command" /\ reply = "OK" /\ c.closed => Begun(host.sent[1], passed)
    BY <1>0, <2>1, Zenon DEF PagesFlow
  <2>3. fifo # NoFifo
    BY <2>2, FifoThere
  <2>4. Begun(passed \o fifo, host.sent[1] \o Pad)
    BY <2>2, Zenon DEF PageFlow
  <2>5. passed \in Seq(Byte) /\ fifo \in Seq(Byte) /\ host.sent \in Seq(Octets)
    BY <1>0, <2>2 DEF Sending, FifoOK
  <2>6. passed \o fifo \in Seq(Byte)
    BY <2>5
  <2>7. host.sent[1] \in Seq(Byte)
    BY <2>5, EmptySeq DEF Octets
  <2> DEFINE x == passed \o fifo
             s == host.sent[1]
             y == s \o Pad
  <2> HIDE DEF x, s, y
  <2>8. \A u \in Seq(Byte) : \A v : Begun(u, v) => IsPrefix(u, v)
    BY BeginsWith DEF Begun
  <2>9. IsPrefix(x, y)
    BY <2>4, <2>6, <2>8, Zenon DEF x, s, y
  <2>10. Begun(s, passed) => IsPrefix(s, passed)
    BY <2>7, <2>8, Zenon DEF s
  <2> QED
    BY <2>2, <2>3, <2>9, <2>10, Zenon DEF x, s, y
<1> QED
  BY <1>1, <1>2 DEF SentWhole

\* What the host sends is what the modem gets (cHDLCtx.c, cDATAtx.c), whatever
\* the sizes of buffers and blocks, the frames, the pages and the pauses of the
\* host: every frame that ends, whole and in order, and the bytes of the page.
\* The preamble lasts two blocks at least, so that a frame left over in the
\* queue is on the air before the first new one is queued: of its 8000 samples
\* a block has 160.
THEOREM SentRight ==
  ASSUME PlainStart, PreambleMin >= 2
  PROVE  Spec => []SentWhole
<1>1. Init => FullInv /\ RepliesInv /\ SentInv
  BY InitFull, InitReplies, InitSent DEF FullInv, SentInv
<1>2. FullInv /\ RepliesInv /\ SentInv /\ [Next]_vars => RepliesInv' /\ SentInv'
  <2> SUFFICES ASSUME FullInv, RepliesInv, SentInv, [Next]_vars
               PROVE  RepliesInv' /\ SentInv'
    OBVIOUS
  <2>1. CASE Next
    <3>1. RepliesInv'
      BY <2>1, StepReplies DEF FullInv
    <3>2. SafeInv
      BY DEF FullInv
    <3> QED
      BY <2>1, <3>1, <3>2, StepSent
  <2>2. CASE UNCHANGED vars
    <3>1. /\ c' = c /\ host' = host /\ tty' = tty /\ queue' = queue /\ aired' = aired
          /\ passed' = passed /\ fifo' = fifo /\ reply' = reply
      BY <2>2, Zenon DEF vars, lower
    <3>2. RepliesInv'
      BY <3>1, Zenon DEF RepliesInv, DelayedOwn
    <3>3. SentInv'
      BY <3>1, Zenon DEF SentInv, Sending, Drained, FramesFlow, PagesFlow
    <3> QED
      BY <3>2, <3>3
  <2> QED
    BY <2>1, <2>2
<1>3. FullInv /\ RepliesInv /\ SentInv => SentWhole
  BY SentEnough DEF FullInv
<1> QED
  BY <1>1, <1>2, <1>3, StepFull, PTL DEF Spec

=============================================================================
