------------------------- MODULE PacketBufferProofs -------------------------
(***************************************************************************)
(* Theorems about PacketBuffer, for every set of packets and slices, every *)
(* limit and every way the ring grows: the ring implements the FIFO of     *)
(* PacketQueue byte for byte, no write that passed the limit check fails,  *)
(* and no packet waits for a sleeping reader.                              *)
(***************************************************************************)
EXTENDS PacketBuffer, FiniteSetTheorems, SequenceTheorems, TLAPS

(* The indices are inside the ring, and the ring is not above its limit.     *)
InRange ==
    /\ Len(data) <= LimitSize + 1
    /\ \/ data = <<>> /\ head = 0 /\ tail = 0
       \/ head < Len(data) /\ tail < Len(data)

(* The j-th byte after head.                                                 *)
At(j) == Cell(head + j)

(* off says where each packet begins: one after the other from head to tail, *)
(* each with its length before it.                                           *)
LaidOut(off) ==
    /\ off[1] = 0 /\ off[Len(stored) + 1] = Size
    /\ \A k \in 1 .. Len(stored) :
          /\ off[k + 1] = off[k] + Len(stored[k]) + 2
          /\ \A i \in 1 .. Len(stored[k]) + 2 : At(off[k] + i - 1) = Encoded(stored[k])[i]
StoredInRing == \E off \in [1 .. Len(stored) + 1 -> 0 .. Size] : LaidOut(off)

(* A reader that goes to sleep will be told of the next packet.              *)
ReaderIsTold ==
    reader = "parked" \/ (reader = "wait" /\ ~permit) => subs /\ stored = <<>>

IInv == TypeOK /\ InRange /\ StoredInRing /\ ReaderIsTold /\ GrowNeverFails /\ count = Len(stored)

-----------------------------------------------------------------------------
(* How the ring grows.                                                       *)

(* A set of natural numbers has a least element.                             *)
LEMMA LeastNatural ==
    ASSUME NEW T \in SUBSET Nat, T # {}
    PROVE  \E x \in T : \A y \in T : x <= y
<1>1. IsWellFoundedOn(OpToRel(<, Nat), Nat)
  BY NatLessThanWellFounded
<1>2. \E x \in T : \A y \in T : ~(<<y, x>> \in OpToRel(<, Nat))
  BY <1>1, WFMin, Zenon
<1>3. PICK x \in T : \A y \in T : ~(<<y, x>> \in OpToRel(<, Nat))
  BY <1>2
<1>4. ASSUME NEW y \in T PROVE x <= y
  <2>1. ~(y < x)
    BY <1>3, <1>4 DEF OpToRel
  <2> QED
    BY <2>1
<1> QED
  BY <1>3, <1>4

(* A ring that has not its limit can grow.                                   *)
LEMMA GrownSpec ==
    ASSUME NEW c \in 0 .. LimitSize + 1
    PROVE  Grown(c) \in 0 .. LimitSize + 1 /\ (c # LimitSize + 1 => Grown(c) > c)
<1> DEFINE doubled == IF c < CutoffSize THEN 2 * c ELSE (5 * c) \div 4
           atLeast == IF doubled < MinSize THEN MinSize ELSE doubled
<1>1. /\ c \in Nat /\ LimitSize \in Nat /\ MinSize \in Nat \ {0} /\ CutoffSize \in Nat \ {0}
      /\ (MinSize >= 4 \/ CutoffSize >= 4) /\ c <= LimitSize + 1
  BY BufferAssumption
<1>2. Grown(c) = IF atLeast > LimitSize + 1 THEN LimitSize + 1 ELSE atLeast
  BY DEF Grown
<1>3. (5 * c) \div 4 \in Nat /\ (c >= 4 => (5 * c) \div 4 > c)
  BY <1>1
<1>4. doubled \in Nat /\ (c >= 1 /\ c < CutoffSize => doubled > c) /\ (c >= 4 => doubled > c)
  BY <1>1, <1>3
<1> HIDE DEF doubled
<1>5. atLeast \in Nat /\ atLeast > c
  BY <1>1, <1>4
<1> HIDE DEF atLeast
<1> QED
  BY <1>1, <1>2, <1>5

(* The function that the loop of write computes exists.                      *)
LoopBody(f, n) ==
    [c \in 0 .. LimitSize + 1 |-> IF Available(c, n) \/ Grown(c) <= c THEN c ELSE f[Grown(c)]]

(* The loop of grow ends: a function that computes its result exists.        *)
LEMMA LoopExists ==
    ASSUME NEW n
    PROVE  \E f : f = LoopBody(f, n)
<1> DEFINE L == LimitSize + 1
           Stops(c) == Available(c, n) \/ Grown(c) <= c
           Partial(k, f) == \A c \in k .. L : f[c] = IF Stops(c) THEN c ELSE f[Grown(c)]
           Reach == {d \in 0 .. L : \E f \in [L - d .. L -> 0 .. L] : Partial(L - d, f)}
           Bad == (0 .. L) \ Reach
<1>0. L \in Nat /\ \A c \in 0 .. L : Grown(c) \in 0 .. L /\ (c # L => Grown(c) > c)
  BY GrownSpec, BufferAssumption
<1> HIDE DEF L, Stops
<1>1. ASSUME Bad # {} PROVE FALSE
  <2>1. PICK d \in Bad : \A y \in Bad : d <= y
    <3>1. Bad \in SUBSET Nat
      BY <1>0
    <3> HIDE DEF Bad
    <3> QED
      BY <1>1, <3>1, LeastNatural
  <2>2. d \in 0 .. L /\ ~\E f \in [L - d .. L -> 0 .. L] : Partial(L - d, f)
    OBVIOUS
  <2>3. CASE d = 0
    <3> DEFINE g == [c \in L .. L |-> L]
    <3>1. g \in [L .. L -> 0 .. L]
      BY <1>0
    <3>2. Partial(L, g)
      <4>1. \A c \in L .. L : c = L /\ Stops(c) /\ g[c] = c
        BY <1>0 DEF Stops
      <4> QED
        BY <4>1
    <3>3. L - d = L
      BY <1>0, <2>3
    <3> HIDE DEF g
    <3> QED
      BY <2>2, <3>1, <3>2, <3>3
  <2>4. CASE d # 0
    <3>1. d - 1 \in 0 .. L /\ d - 1 \notin Bad
      <4>1. d - 1 \in 0 .. L /\ d - 1 < d
        BY <1>0, <2>2, <2>4
      <4> HIDE DEF Bad
      <4> QED
        BY <1>0, <2>1, <2>2, <4>1
    <3>2. PICK f \in [L - (d - 1) .. L -> 0 .. L] : Partial(L - (d - 1), f)
      BY <3>1
    <3> DEFINE k == L - d
               g == [c \in k .. L |-> IF c = k THEN IF Stops(k) THEN k ELSE f[Grown(k)] ELSE f[c]]
    <3>3. k \in 0 .. L /\ k # L /\ L - (d - 1) = k + 1
      BY <1>0, <2>2, <2>4
    <3>4. f \in [k + 1 .. L -> 0 .. L] /\ Partial(k + 1, f)
      BY <3>2, <3>3
    <3> HIDE DEF k
    <3>5. Grown(k) \in k + 1 .. L
      <4>1. Grown(k) \in 0 .. L /\ Grown(k) > k
        BY <1>0, <3>3
      <4> QED
        BY <1>0, <3>3, <4>1
    <3>6. f[Grown(k)] \in 0 .. L
      BY <3>4, <3>5
    <3>7. g \in [k .. L -> 0 .. L]
      <4> SUFFICES ASSUME NEW c \in k .. L
                   PROVE  (IF c = k THEN IF Stops(k) THEN k ELSE f[Grown(k)] ELSE f[c]) \in 0 .. L
        OBVIOUS
      <4>1. CASE c = k
        BY <3>3, <3>6, <4>1
      <4>2. CASE c # k
        <5>1. c \in k + 1 .. L
          BY <1>0, <3>3, <4>2
        <5> QED
          BY <3>4, <4>2, <5>1
      <4> QED
        BY <4>1, <4>2
    <3>8. Partial(k, g)
      <4> SUFFICES ASSUME NEW c \in k .. L
                   PROVE  g[c] = IF Stops(c) THEN c ELSE g[Grown(c)]
        OBVIOUS
      <4>1. CASE c = k
        <5>1. g[c] = IF Stops(k) THEN k ELSE f[Grown(k)]
          BY <4>1
        <5>2. g[Grown(k)] = f[Grown(k)]
          BY <1>0, <3>3, <3>5
        <5> HIDE DEF g
        <5> QED
          BY <4>1, <5>1, <5>2
      <4>2. CASE c # k
        <5>1. c \in k + 1 .. L /\ c \in 0 .. L
          BY <1>0, <3>3, <4>2
        <5>2. g[c] = f[c]
          BY <4>2
        <5>3. f[c] = IF Stops(c) THEN c ELSE f[Grown(c)]
          BY <3>4, <5>1
        <5>4. CASE Stops(c)
          BY <5>2, <5>3, <5>4
        <5>5. CASE ~Stops(c)
          <6>1. Grown(c) \in k .. L /\ Grown(c) # k
            <7>1. ~(Grown(c) <= c) /\ Grown(c) \in 0 .. L
              BY <1>0, <5>1, <5>5 DEF Stops
            <7>2. L \in Int /\ k \in Int /\ c \in Int /\ c > k /\ Grown(c) \in Int /\ Grown(c) <= L
              BY <1>0, <3>3, <5>1, <7>1
            <7>3. k < Grown(c)
              BY <7>1, <7>2
            <7> QED
              BY <7>2, <7>3
          <6>2. g[Grown(c)] = f[Grown(c)]
            BY <6>1
          <6> HIDE DEF g
          <6> QED
            BY <5>2, <5>3, <5>5, <6>2
        <5> QED
          BY <5>4, <5>5
      <4> QED
        BY <4>1, <4>2
    <3> HIDE DEF g
    <3> QED
      BY <2>2, <3>7, <3>8 DEF k
  <2> QED
    BY <2>3, <2>4
<1>2. L \in 0 .. L /\ L - L = 0
  BY <1>0
<1>3. PICK f \in [0 .. L -> 0 .. L] : Partial(0, f)
  <2>1. L \in Reach
    BY <1>1, <1>2
  <2>2. \E f \in [L - L .. L -> 0 .. L] : Partial(L - L, f)
    BY <2>1
  <2> HIDE DEF Partial
  <2> QED
    BY <1>2, <2>2
<1>4. f = [c \in 0 .. L |-> IF Stops(c) THEN c ELSE f[Grown(c)]]
  BY <1>3
<1>5. f = LoopBody(f, n)
  BY <1>4 DEF LoopBody, L, Stops
<1> QED
  BY <1>5

(* The loop of write stops at a size at which the packet fits or nothing     *)
(* more is to be had.                                                        *)
LEMMA SizeForSpec ==
    ASSUME NEW n, Len(data) \in 0 .. LimitSize + 1
    PROVE  /\ SizeFor(n) \in Len(data) .. LimitSize + 1
           /\ Available(SizeFor(n), n) \/ SizeFor(n) = LimitSize + 1
<1> DEFINE L == LimitSize + 1
           Good(c, r) == r \in c .. L /\ (Available(r, n) \/ r = L)
           loop == CHOOSE f : f = LoopBody(f, n)
<1>0. L \in Nat /\ \A c \in 0 .. L : Grown(c) \in 0 .. L /\ (c # L => Grown(c) > c)
  BY GrownSpec, BufferAssumption
<1>1. loop = LoopBody(loop, n)
  BY LoopExists
<1>2. SizeFor(n) = loop[Len(data)]
  BY DEF SizeFor, LoopBody
<1> HIDE DEF loop
<1>3. \A c \in 0 .. L : loop[c] = IF Available(c, n) \/ Grown(c) <= c THEN c ELSE loop[Grown(c)]
  BY <1>1, Zenon DEF LoopBody
<1> HIDE DEF L
<1> DEFINE Bad == {d \in 0 .. L : ~Good(L - d, loop[L - d])}
<1>4. ASSUME Bad # {} PROVE FALSE
  <2>1. PICK d \in Bad : \A y \in Bad : d <= y
    <3>1. Bad \in SUBSET Nat
      BY <1>0
    <3> HIDE DEF Bad
    <3> QED
      BY <1>4, <3>1, LeastNatural
  <2> DEFINE c == L - d
  <2>2. d \in 0 .. L /\ ~Good(c, loop[c])
    OBVIOUS
  <2>3. c \in 0 .. L
    BY <1>0, <2>2
  <2>4. loop[c] = IF Available(c, n) \/ Grown(c) <= c THEN c ELSE loop[Grown(c)]
    BY <1>3, <2>3
  <2>5. Grown(c) \in 0 .. L /\ (c # L => Grown(c) > c)
    BY <1>0, <2>3
  <2> HIDE DEF c
  <2>6. CASE Available(c, n) \/ Grown(c) <= c
    <3>1. loop[c] = c
      BY <2>4, <2>6
    <3>2. Available(c, n) \/ c = L
      <4>1. L \in Int /\ c \in Int /\ Grown(c) \in Int
        BY <1>0, <2>3, <2>5
      <4>2. Grown(c) <= c => c = L
        BY <2>5, <4>1
      <4> QED
        BY <2>6, <4>2
    <3>3. c \in c .. L
      BY <1>0, <2>3
    <3> QED
      BY <2>2, <3>1, <3>2, <3>3
  <2>7. CASE ~(Available(c, n) \/ Grown(c) <= c)
    <3> DEFINE g == Grown(c)
    <3>1. loop[c] = loop[g]
      BY <2>4, <2>7
    <3>2. g \in Int /\ c \in Int /\ L \in Int /\ g <= L /\ ~(g <= c) /\ 0 <= c
      BY <1>0, <2>3, <2>5, <2>7
    <3> HIDE DEF g
    <3>3. L - g \in 0 .. L /\ L - (L - g) = g
      BY <3>2
    <3>4. L - g < d /\ d \in Int
      BY <1>0, <2>2, <3>2 DEF c
    <3>5. L - g \notin Bad
      <4> HIDE DEF Bad
      <4>1. L - g \in Int
        BY <3>2
      <4> QED
        BY <2>1, <3>4, <4>1
    <3>6. Good(L - (L - g), loop[L - (L - g)])
      BY <3>3, <3>5
    <3>7. Good(g, loop[g])
      <4> HIDE DEF Good
      <4> QED
        BY <3>3, <3>6
    <3>8. loop[g] \in c .. L
      BY <3>2, <3>7
    <3> QED
      BY <2>2, <3>1, <3>7, <3>8
  <2> QED
    BY <2>6, <2>7
<1>5. Good(Len(data), loop[Len(data)])
  <2> DEFINE d == L - Len(data)
  <2>0. Len(data) \in Int /\ 0 <= Len(data) /\ Len(data) <= L
    BY <1>0 DEF L
  <2>1. d \in 0 .. L /\ L - d = Len(data)
    BY <1>0, <2>0
  <2> HIDE DEF d
  <2>2. Good(L - d, loop[L - d])
    BY <1>4, <2>1
  <2> HIDE DEF Good
  <2> QED
    BY <2>1, <2>2
<1> QED
  BY <1>2, <1>5 DEF L

(* A packet that is not above the limit fits after the loop.                 *)
LEMMA FitsAfterLoop ==
    ASSUME NEW n \in Nat, Len(data) \in 0 .. LimitSize + 1, Size \in Nat,
           ~(Size + 2 + n > LimitSize)
    PROVE  Available(SizeFor(n), n)
<1>1. Available(SizeFor(n), n) \/ SizeFor(n) = LimitSize + 1
  BY SizeForSpec
<1> HIDE DEF Size
<1>2. Available(LimitSize + 1, n)
  BY BufferAssumption DEF Available
<1> QED
  BY <1>1, <1>2

-----------------------------------------------------------------------------
(* The bytes of the ring.                                                    *)

Byte == 0 .. Base - 1

(* A length below Base^2 fits two bytes, and the two bytes give it back.     *)
LEMMA TwoBytes ==
    ASSUME NEW n \in Nat, n < Base * Base
    PROVE  n \div Base \in Byte /\ n % Base \in Byte /\ (n \div Base) * Base + (n % Base) = n
<1>1. Base \in Nat /\ Base > 1
  BY BufferAssumption
<1>2. n % Base \in 0 .. Base - 1 /\ n \div Base \in Nat
  BY <1>1
<1>3. (n \div Base) * Base + (n % Base) = n
  BY <1>1
<1>4. n \div Base < Base
  BY <1>1
<1> QED
  BY <1>1, <1>2, <1>3, <1>4 DEF Byte

(* What write stores for a packet.                                           *)
LEMMA EncodedSpec ==
    ASSUME NEW p \in Packet
    PROVE  /\ p \in Seq(Byte) /\ Len(p) \in Nat
           /\ Encoded(p) \in Seq(Byte) /\ Len(Encoded(p)) = Len(p) + 2
           /\ Encoded(p)[1] * Base + Encoded(p)[2] = Len(p)
           /\ \A i \in 1 .. Len(p) : Encoded(p)[i + 2] = p[i]
<1> DEFINE l == <<Len(p) \div Base, Len(p) % Base>>
<1>1. p \in Seq(Byte) /\ Len(p) \in Nat /\ Len(p) < Base * Base
  BY BufferAssumption DEF Byte
<1>2. /\ Len(p) \div Base \in Byte /\ Len(p) % Base \in Byte
      /\ (Len(p) \div Base) * Base + (Len(p) % Base) = Len(p)
  BY <1>1, TwoBytes
<1>3. l \in Seq(Byte) /\ Len(l) = 2 /\ l[1] = Len(p) \div Base /\ l[2] = Len(p) % Base
  BY <1>2
<1>4. Encoded(p) = l \o p
  BY DEF Encoded
<1> HIDE DEF l
<1>5. /\ l \o p \in Seq(Byte) /\ Len(l \o p) = 2 + Len(p)
      /\ \A i \in 1 .. 2 + Len(p) : (l \o p)[i] = IF i <= 2 THEN l[i] ELSE p[i - 2]
  <2>1. l \o p \in Seq(Byte)
    BY <1>1, <1>3
  <2>2. Len(l \o p) = Len(l) + Len(p)
    BY <1>1, <1>3, ConcatProperties
  <2>3. \A i \in 1 .. Len(l) + Len(p) : (l \o p)[i] = IF i <= Len(l) THEN l[i] ELSE p[i - Len(l)]
    BY <1>1, <1>3, ConcatProperties
  <2> QED
    BY <1>3, <2>1, <2>2, <2>3
<1>6. (l \o p)[1] = l[1] /\ (l \o p)[2] = l[2]
  BY <1>1, <1>5
<1>7. ASSUME NEW i \in 1 .. Len(p) PROVE (l \o p)[i + 2] = p[i]
  <2>1. i + 2 \in 1 .. 2 + Len(p) /\ ~(i + 2 <= 2) /\ (i + 2) - 2 = i
    BY <1>1
  <2> QED
    BY <1>5, <2>1
<1> QED
  BY <1>1, <1>2, <1>3, <1>4, <1>5, <1>6, <1>7

(* tail is Size bytes after head.                                            *)
LEMMA SizeSpec ==
    ASSUME TypeOK, InRange
    PROVE  /\ Len(data) \in 0 .. LimitSize + 1
           /\ Size \in Nat /\ (Size = 0 <=> head = tail)
           /\ data = <<>> => Len(data) = 0 /\ Size = 0
           /\ data # <<>> => /\ Size < Len(data) /\ head \in 0 .. Len(data) - 1
                            /\ tail = Wrap(head + Size, Len(data))
<1>1. /\ Len(data) \in Nat /\ head \in Nat /\ tail \in Nat /\ LimitSize \in Nat
      /\ (data = <<>> => Len(data) = 0)
  BY BufferAssumption DEF TypeOK
<1>2. CASE data = <<>>
  BY <1>1, <1>2 DEF InRange, Size
<1>3. CASE data # <<>>
  <2>1. head < Len(data) /\ tail < Len(data) /\ Len(data) <= LimitSize + 1
    BY <1>3 DEF InRange
  <2> QED
    BY <1>1, <1>3, <2>1 DEF Size, Wrap
<1> QED
  BY <1>2, <1>3

(* ... and nothing else is.                                                  *)
LEMMA SizeUnique ==
    ASSUME NEW N \in Nat, NEW h \in 0 .. N - 1, NEW s \in 0 .. N - 1,
           Len(data) = N, head = h, tail = Wrap(h + s, N)
    PROVE  Size = s /\ tail \in 0 .. N - 1
BY DEF Size, Wrap

(* Bytes stored after the contents leave the contents alone.                 *)
LEMMA StoreSpec ==
    ASSUME NEW d \in Seq(Byte), NEW e \in Seq(Byte),
           NEW h \in 0 .. Len(d) - 1, NEW s \in Nat, s + Len(e) < Len(d)
    PROVE  LET t == Wrap(h + s, Len(d))
               r == Store(d, t, e)
           IN  /\ r \in Seq(Byte) /\ Len(r) = Len(d)
               /\ \A j \in 0 .. s - 1 : r[Wrap(h + j, Len(d)) + 1] = d[Wrap(h + j, Len(d)) + 1]
               /\ \A i \in 1 .. Len(e) : r[Wrap(h + s + i - 1, Len(d)) + 1] = e[i]
               /\ Wrap(t + Len(e), Len(d)) = Wrap(h + (s + Len(e)), Len(d))
<1> DEFINE N == Len(d)
           m == Len(e)
           t == Wrap(h + s, N)
           K(i) == IF i > t THEN i - t ELSE i - t + N
           r == Store(d, t, e)
<1>1. N \in Nat /\ m \in Nat /\ h \in Nat /\ h < N /\ s + m < N
  OBVIOUS
<1>2. r = [i \in 1 .. N |-> IF K(i) <= m THEN e[K(i)] ELSE d[i]]
  BY DEF Store
<1>3. \A i \in 1 .. m : e[i] \in Byte
  BY ElementOfSeq
<1>4. \A i \in 1 .. N : d[i] \in Byte
  BY ElementOfSeq
<1> HIDE DEF N, m, r
<1>5. t \in 0 .. N - 1
  BY <1>1 DEF Wrap
<1>6. \A i \in 1 .. N : K(i) \in 1 .. N
  <2> HIDE DEF t
  <2> QED
    BY <1>1, <1>5
<1>7. r \in [1 .. N -> Byte]
  <2> HIDE DEF K
  <2>1. ASSUME NEW i \in 1 .. N PROVE (IF K(i) <= m THEN e[K(i)] ELSE d[i]) \in Byte
    <3>1. CASE K(i) <= m
      <4>1. K(i) \in 1 .. m
        BY <1>1, <1>6, <3>1
      <4> QED
        BY <1>3, <3>1, <4>1
    <3> QED
      BY <1>4, <3>1
  <2> QED
    BY <1>2, <2>1
<1>8. r \in Seq(Byte) /\ Len(r) = N
  BY <1>1, <1>7
<1>9. ASSUME NEW j \in 0 .. s - 1 PROVE r[Wrap(h + j, N) + 1] = d[Wrap(h + j, N) + 1]
  <2> DEFINE i == Wrap(h + j, N) + 1
  <2>1. i \in 1 .. N /\ ~(K(i) <= m)
    BY <1>1 DEF Wrap
  <2> HIDE DEF i, K
  <2> QED
    BY <1>2, <2>1 DEF i
<1>10. ASSUME NEW i \in 1 .. m PROVE r[Wrap(h + s + i - 1, N) + 1] = e[i]
  <2> DEFINE x == Wrap(h + s + i - 1, N) + 1
  <2>1. x \in 1 .. N /\ K(x) = i /\ i <= m
    BY <1>1 DEF Wrap
  <2> HIDE DEF x, K
  <2> QED
    BY <1>2, <2>1 DEF x
<1>11. Wrap(t + m, N) = Wrap(h + (s + m), N)
  BY <1>1 DEF Wrap
<1> QED
  BY <1>8, <1>9, <1>10, <1>11 DEF N, m, r

-----------------------------------------------------------------------------
(* What write and read do to the bytes.                                      *)

(* The j-th byte after h in the ring d.                                      *)
Nth(d, h, j) == d[Wrap(h + j, Len(d)) + 1]

(* At with the state as parameters, before and after a step.                 *)
LEMMA AtIsNth ==
    ASSUME NEW j
    PROVE  At(j) = Nth(data, head, j) /\ At(j)' = Nth(data', head', j)
BY DEF At, Cell, Nth

(* The contents as grow moves them to the front of a larger ring.            *)
LEMMA ContentsMoved ==
    ASSUME TypeOK, InRange, NEW c \in Nat, Size < c
    PROVE  LET d == Contents \o [i \in 1 .. c - Size |-> 0]
           IN  /\ d \in Seq(Byte) /\ Len(d) = c
               /\ \A j \in 0 .. Size - 1 : Nth(d, 0, j) = Nth(data, head, j)
<1> DEFINE z == [i \in 1 .. c - Size |-> 0]
           d == Contents \o z
<1>1. /\ Size \in Nat /\ c - Size \in Nat /\ data \in Seq(Byte) /\ Len(data) \in Nat
      /\ (data = <<>> => Size = 0)
      /\ (data # <<>> => Size < Len(data) /\ head \in 0 .. Len(data) - 1)
  <2>1. /\ Size \in Nat /\ (data = <<>> => Size = 0)
        /\ (data # <<>> => Size < Len(data) /\ head \in 0 .. Len(data) - 1)
    BY SizeSpec
  <2>2. data \in Seq(Byte) /\ Len(data) \in Nat
    BY DEF TypeOK, Byte
  <2> HIDE DEF Size
  <2> QED
    BY <2>1, <2>2
<1>2. \A i \in 1 .. Size : Contents[i] = Nth(data, head, i - 1)
  <2>1. ASSUME NEW i \in 1 .. Size PROVE head + i - 1 = head + (i - 1)
    <3>1. head \in Nat
      BY DEF TypeOK
    <3> QED
      BY <1>1, <3>1
  <2> QED
    BY <2>1 DEF Contents, Cell, Nth
<1>3. DOMAIN Contents = 1 .. Size /\ Contents = [i \in 1 .. Size |-> Contents[i]]
  BY DEF Contents
<1> HIDE DEF Size
<1>4. ASSUME NEW i \in 1 .. Size PROVE Contents[i] \in Byte
  <2>1. data # <<>> /\ Size < Len(data) /\ head \in 0 .. Len(data) - 1
    BY <1>1
  <2>2. Wrap(head + (i - 1), Len(data)) + 1 \in 1 .. Len(data)
    BY <1>1, <2>1 DEF Wrap
  <2>3. data[Wrap(head + (i - 1), Len(data)) + 1] \in Byte
    BY <1>1, <2>2, ElementOfSeq
  <2> QED
    BY <1>2, <2>3 DEF Nth
<1>5. Contents \in Seq(Byte) /\ Len(Contents) = Size
  <2> HIDE DEF Contents
  <2>1. Contents \in [1 .. Size -> Byte]
    BY <1>3, <1>4
  <2> QED
    BY <1>1, <2>1
<1>6. z \in Seq(Byte) /\ Len(z) = c - Size
  <2>1. 0 \in Byte
    BY BufferAssumption DEF Byte
  <2> QED
    BY <1>1, <2>1
<1> HIDE DEF z, Contents
<1>7. /\ d \in Seq(Byte) /\ Len(d) = Len(Contents) + Len(z)
      /\ \A i \in 1 .. Len(Contents) + Len(z) :
            d[i] = IF i <= Len(Contents) THEN Contents[i] ELSE z[i - Len(Contents)]
  <2>1. Len(d) = Len(Contents) + Len(z)
    BY <1>5, <1>6, ConcatProperties
  <2> QED
    BY <1>5, <1>6, <2>1, ConcatProperties
<1> HIDE DEF d
<1>8. Len(d) = c
  BY <1>1, <1>5, <1>6, <1>7
<1>9. ASSUME NEW j \in 0 .. Size - 1 PROVE Nth(d, 0, j) = Nth(data, head, j)
  <2>1. /\ j + 1 \in 1 .. Len(Contents) + Len(z) /\ j + 1 <= Len(Contents) /\ j + 1 \in 1 .. Size
        /\ (j + 1) - 1 = j /\ Wrap(0 + j, c) + 1 = j + 1
    BY <1>1, <1>5, <1>6 DEF Wrap
  <2>2. d[j + 1] = Contents[j + 1]
    BY <1>7, <2>1
  <2>3. Contents[j + 1] = Nth(data, head, j)
    BY <1>2, <2>1
  <2>4. Nth(d, 0, j) = d[j + 1]
    BY <1>8, <2>1 DEF Nth
  <2> QED
    BY <2>2, <2>3, <2>4
<1> QED
  BY <1>7, <1>8, <1>9 DEF d, z

(* A write that is not refused adds the bytes of the packet after the others.*)
BytesAdded(p) ==
    /\ data' \in Seq(Byte) /\ head' \in Nat /\ tail' \in Nat
    /\ InRange' /\ head' < Len(data') /\ tail' < Len(data')
    /\ Size' = Size + Len(p) + 2
    /\ \A j \in 0 .. Size - 1 : Nth(data', head', j) = Nth(data, head, j)
    /\ \A i \in 1 .. Len(p) + 2 : Nth(data', head', Size + i - 1) = Encoded(p)[i]

(* A write is refused because of the limit, or adds exactly its bytes.       *)
LEMMA WriteBytes ==
    ASSUME TypeOK, InRange, NEW p \in Packet, Write(p)
    PROVE  \/ Size + 2 + Len(p) > LimitSize /\ full' = "limit" /\ UNCHANGED <<ring, notify>>
           \/ /\ ~(Size + 2 + Len(p) > LimitSize) /\ full' = "no"
              /\ count' = count + 1 /\ stored' = Append(stored, p) /\ WakeReader
              /\ BytesAdded(p)
<1> DEFINE c == SizeFor(Len(p))
           n == Len(p)
           grew == c # Len(data)
           d == IF grew THEN Contents \o [i \in 1 .. c - Size |-> 0] ELSE data
           t == IF grew THEN Size ELSE tail
           h == IF grew THEN 0 ELSE head
<1>1. /\ full' = IF Size + 2 + n > LimitSize THEN "limit" ELSE IF Available(c, n) THEN "no" ELSE "grow"
      /\ IF Size + 2 + n > LimitSize
           THEN UNCHANGED <<ring, notify>>
           ELSE /\ head' = h
                /\ Available(c, n) =>
                     /\ data' = Store(d, t, Encoded(p)) /\ tail' = Wrap(t + n + 2, c)
                     /\ count' = count + 1 /\ stored' = Append(stored, p) /\ WakeReader
  <2> HIDE DEF c
  <2>1. PICK x \in Len(data) .. LimitSize + 1 :
          LET g == x # Len(data)
              dd == IF g THEN Contents \o [i \in 1 .. x - Size |-> 0] ELSE data
              tt == IF g THEN Size ELSE tail
              tooMuch == Size + 2 + Len(p) > LimitSize
              fits == Available(x, Len(p))
          IN  /\ x = SizeFor(Len(p))
              /\ full' = IF tooMuch THEN "limit" ELSE IF fits THEN "no" ELSE "grow"
              /\ IF tooMuch
                   THEN UNCHANGED <<ring, notify>>
                   ELSE /\ head' = IF g THEN 0 ELSE head
                        /\ IF fits
                             THEN /\ data' = Store(dd, tt, Encoded(p))
                                  /\ tail' = Wrap(tt + Len(p) + 2, x)
                                  /\ count' = count + 1
                                  /\ stored' = Append(stored, p)
                                  /\ WakeReader
                             ELSE /\ data' = dd /\ tail' = tt
                                  /\ UNCHANGED <<count, stored, notify>>
    BY Zenon DEF Write
  <2>2. x = c
    BY <2>1 DEF c
  <2> QED
    BY <2>1, <2>2, Zenon
<1>2. /\ Len(data) \in 0 .. LimitSize + 1 /\ Size \in Nat
      /\ data = <<>> => Len(data) = 0 /\ Size = 0
      /\ data # <<>> => /\ Size < Len(data) /\ head \in 0 .. Len(data) - 1
                       /\ tail = Wrap(head + Size, Len(data))
  BY SizeSpec
<1>3. data \in Seq(Byte) /\ LimitSize \in Nat
  BY BufferAssumption DEF TypeOK, Byte
<1>4. n \in Nat /\ Encoded(p) \in Seq(Byte) /\ Len(Encoded(p)) = n + 2
  BY EncodedSpec
<1>5. CASE Size + 2 + n > LimitSize
  BY <1>1, <1>5
<1>6. CASE ~(Size + 2 + n > LimitSize)
  <2>1. Available(c, n) /\ c \in Len(data) .. LimitSize + 1
    BY <1>2, <1>4, <1>6, FitsAfterLoop, SizeForSpec
  <2> HIDE DEF c, Size
  <2>2. n + 2 < c - Size /\ c \in Nat /\ c <= LimitSize + 1 /\ Size < c /\ Size + (n + 2) < c
    <3>1. n + 2 < c - Size /\ Size \in Nat
      BY <1>2, <2>1 DEF Available
    <3>2. c \in Nat /\ c <= LimitSize + 1
      BY <1>2, <1>3, <2>1
    <3> QED
      BY <1>4, <3>1, <3>2
  <2>3. /\ d \in Seq(Byte) /\ Len(d) = c /\ h \in 0 .. c - 1 /\ t = Wrap(h + Size, c)
        /\ \A j \in 0 .. Size - 1 : Nth(d, h, j) = Nth(data, head, j)
    <3>1. CASE grew
      <4>1. t = Size /\ h = 0 /\ d = Contents \o [i \in 1 .. c - Size |-> 0]
        BY <3>1
      <4> HIDE DEF t, h, d
      <4>2. t = Wrap(h + Size, c) /\ h \in 0 .. c - 1
        <5>1. ~(0 + Size >= c) /\ 0 + Size = Size /\ 0 \in 0 .. c - 1
          BY <1>2, <2>2
        <5> QED
          BY <4>1, <5>1 DEF Wrap
      <4>3. /\ d \in Seq(Byte) /\ Len(d) = c
            /\ \A j \in 0 .. Size - 1 : Nth(d, 0, j) = Nth(data, head, j)
        BY <2>2, <4>1, ContentsMoved
      <4> QED
        BY <4>1, <4>2, <4>3
    <3>2. CASE ~grew
      <4>1. t = tail /\ h = head /\ d = data /\ Len(data) = c
        BY <3>2
      <4>2. data # <<>>
        BY <1>2, <2>2, <4>1
      <4> QED
        BY <1>2, <1>3, <4>1, <4>2
    <3> QED
      BY <3>1, <3>2
  <2>4. head' = h /\ data' = Store(d, t, Encoded(p)) /\ tail' = Wrap(t + n + 2, c)
    BY <1>1, <1>6, <2>1
  <2> HIDE DEF d, t, h, n
  <2>5. t + n + 2 = t + (n + 2)
    BY <1>2, <1>4, <2>2, <2>3 DEF Wrap
  <2>6. /\ data' \in Seq(Byte) /\ Len(data') = c
        /\ \A j \in 0 .. Size - 1 : data'[Wrap(h + j, c) + 1] = d[Wrap(h + j, c) + 1]
        /\ \A i \in 1 .. n + 2 : data'[Wrap(h + Size + i - 1, c) + 1] = Encoded(p)[i]
        /\ tail' = Wrap(h + (Size + (n + 2)), c)
    <3> DEFINE e == Encoded(p)
               s == Size
    <3>1. /\ d \in Seq(Byte) /\ e \in Seq(Byte) /\ h \in 0 .. Len(d) - 1 /\ s \in Nat
          /\ s + Len(e) < Len(d) /\ t = Wrap(h + s, Len(d)) /\ Len(e) = n + 2
      BY <1>2, <1>4, <2>2, <2>3
    <3>2. data' = Store(d, t, e) /\ tail' = Wrap(t + Len(e), Len(d))
      BY <2>3, <2>4, <2>5, <3>1
    <3> HIDE DEF e, s
    <3>3. /\ data' \in Seq(Byte) /\ Len(data') = Len(d)
          /\ \A j \in 0 .. s - 1 : data'[Wrap(h + j, Len(d)) + 1] = d[Wrap(h + j, Len(d)) + 1]
          /\ \A i \in 1 .. Len(e) : data'[Wrap(h + s + i - 1, Len(d)) + 1] = e[i]
          /\ tail' = Wrap(h + (s + Len(e)), Len(d))
      BY <3>1, <3>2, StoreSpec, ZenonT(60)
    <3> QED
      BY <2>3, <3>1, <3>3 DEF e, s
  <2>7. Size' = Size + (n + 2) /\ tail' \in 0 .. c - 1
    <3>1. Size + (n + 2) \in 0 .. c - 1
      BY <1>2, <1>4, <2>2
    <3>2. h \in 0 .. c - 1 /\ c \in Nat
      BY <2>2, <2>3
    <3>3. (Len(data') = c /\ head' = h /\ tail' = Wrap(h + (Size + (n + 2)), c))
      BY <2>4, <2>6
    <3> DEFINE s == Size + (n + 2)
    <3> HIDE DEF s
    <3>4. tail' = Wrap(h + s, c) /\ s \in 0 .. c - 1
      BY <3>1, <3>3 DEF s
    <3>5. tail' \in 0 .. c - 1
      BY <3>2, <3>4 DEF Wrap
    <3>6. Size' = s
      BY <3>2, <3>3, <3>4 DEF Size, Wrap
    <3> QED
      BY <3>5, <3>6 DEF s
  <2>8. InRange' /\ head' \in Nat /\ tail' \in Nat /\ head' < Len(data') /\ tail' < Len(data')
    <3>1. head' \in Nat /\ tail' \in Nat /\ head' < Len(data') /\ tail' < Len(data')
      BY <2>2, <2>3, <2>4, <2>6, <2>7
    <3>2. Len(data') <= LimitSize + 1
      BY <2>2, <2>6
    <3> QED
      BY <3>1, <3>2 DEF InRange
  <2>9. \A j \in 0 .. Size - 1 : Nth(data', head', j) = Nth(data, head, j)
    BY <2>3, <2>4, <2>6 DEF Nth
  <2>10. \A i \in 1 .. n + 2 : Nth(data', head', Size + i - 1) = Encoded(p)[i]
    <3>1. ASSUME NEW i \in 1 .. n + 2 PROVE h + (Size + i - 1) = h + Size + i - 1
      BY <1>2, <1>4, <2>2, <2>3
    <3> QED
      BY <2>4, <2>6, <3>1 DEF Nth
  <2>11. Size + (n + 2) = Size + n + 2
    BY <1>2, <1>4
  <2>12. BytesAdded(p)
    BY <2>6, <2>7, <2>8, <2>9, <2>10, <2>11 DEF BytesAdded, n
  <2> QED
    BY <1>1, <1>6, <2>1, <2>12 DEF n
<1> QED
  BY <1>5, <1>6

(* The first packet of the queue is what the ring has after head.            *)
LEMMA FirstInRing ==
    ASSUME TypeOK, InRange, StoredInRing
    PROVE  /\ stored = <<>> <=> Size = 0
           /\ stored # <<>> =>
                /\ Head(stored) \in Packet /\ Len(Head(stored)) + 2 <= Size
                /\ \A i \in 1 .. Len(Head(stored)) + 2 : At(i - 1) = Encoded(Head(stored))[i]
<1>1. PICK off \in [1 .. Len(stored) + 1 -> 0 .. Size] : LaidOut(off)
  BY DEF StoredInRing
<1>2. /\ off[1] = 0 /\ off[Len(stored) + 1] = Size
      /\ \A k \in 1 .. Len(stored) :
          /\ off[k + 1] = off[k] + Len(stored[k]) + 2
          /\ \A i \in 1 .. Len(stored[k]) + 2 : At(off[k] + i - 1) = Encoded(stored[k])[i]
  BY <1>1 DEF LaidOut
<1>3. Size \in Nat
  BY SizeSpec
<1> HIDE DEF Size
<1>4. CASE stored = <<>>
  <2>1. Len(stored) + 1 = 1
    BY <1>4
  <2> QED
    BY <1>2, <1>4, <2>1
<1>5. CASE stored # <<>>
  <2>1. stored \in Seq(Packet)
    BY DEF TypeOK
  <2>2. Len(stored) \in Nat /\ 1 \in 1 .. Len(stored) /\ 2 \in 1 .. Len(stored) + 1
    BY <1>5, <2>1, EmptySeq
  <2>3. Head(stored) = stored[1] /\ stored[1] \in Packet
    BY <1>5, <2>1, <2>2, ElementOfSeq
  <2> DEFINE p == stored[1]
  <2>4. Len(p) \in Nat
    BY <2>3, EncodedSpec
  <2>5. /\ off[1 + 1] = off[1] + Len(p) + 2
        /\ \A i \in 1 .. Len(p) + 2 : At(off[1] + i - 1) = Encoded(p)[i]
    BY <1>2, <2>2
  <2> HIDE DEF p
  <2>6. off[2] = Len(p) + 2 /\ off[2] \in 0 .. Size
    <3>1. off[2] \in 0 .. Size
      BY <2>2
    <3>2. 1 + 1 = 2
      OBVIOUS
    <3>3. off[2] = 0 + Len(p) + 2
      BY <1>2, <2>5, <3>2
    <3> QED
      BY <2>4, <3>1, <3>3
  <2>7. \A i \in 1 .. Len(p) + 2 : At(i - 1) = Encoded(p)[i]
    <3>1. ASSUME NEW i \in 1 .. Len(p) + 2 PROVE off[1] + i - 1 = i - 1
      BY <1>2, <2>4
    <3> QED
      BY <2>5, <3>1
  <2>8. Len(p) + 2 <= Size /\ Size # 0
    BY <1>3, <2>4, <2>6
  <2> QED
    BY <1>5, <2>3, <2>7, <2>8 DEF p
<1> QED
  BY <1>4, <1>5

(* A read takes the bytes of the first packet, and the packet is what they   *)
(* decode to.                                                                *)
LEMMA ReadBytes ==
    ASSUME TypeOK, InRange, StoredInRing, NEW n \in Lens, ReadPacket(n)
    PROVE  LET p == Head(stored)
               m == Len(p) + 2
           IN  /\ stored # <<>> /\ p \in Packet /\ m <= Size
               /\ head' \in Nat /\ tail' \in Nat /\ head' < Len(data) /\ tail' < Len(data)
               /\ InRange' /\ Size' = Size - m
               /\ \A j \in 0 .. Size - m - 1 : Nth(data', head', j) = Nth(data, head, m + j)
               /\ result' = IF Len(p) <= n THEN Got(p) ELSE Failed("short")
<1> DEFINE p == Head(stored)
           m == Len(p) + 2
           N == Len(data)
           length == Cell(head) * Base + Cell(head + 1)
           next == Wrap(head + 2 + length, N)
<1>1. /\ head # tail
      /\ head' = IF next = tail THEN 0 ELSE next
      /\ tail' = IF next = tail THEN 0 ELSE tail
      /\ result' = IF length <= n THEN Got([i \in 1 .. length |-> Cell(head + 1 + i)])
                                  ELSE Failed("short")
      /\ data' = data
  BY DEF ReadPacket
<1>2. /\ N \in 0 .. LimitSize + 1 /\ Size \in Nat /\ (Size = 0 <=> head = tail)
      /\ (data = <<>> => Size = 0)
      /\ (data # <<>> => Size < N /\ head \in 0 .. N - 1 /\ tail = Wrap(head + Size, N))
  BY SizeSpec
<1>3. data # <<>> /\ stored # <<>> /\ Size # 0
  BY <1>1, <1>2, FirstInRing
<1>4. /\ p \in Packet /\ m <= Size
      /\ \A i \in 1 .. m : At(i - 1) = Encoded(p)[i]
  BY <1>3, FirstInRing
<1>5. /\ p \in Seq(Byte) /\ Len(p) \in Nat
      /\ Encoded(p)[1] * Base + Encoded(p)[2] = Len(p)
      /\ \A i \in 1 .. Len(p) : Encoded(p)[i + 2] = p[i]
  BY <1>4, EncodedSpec
<1>6. /\ N \in Nat /\ LimitSize \in Nat /\ N <= LimitSize + 1 /\ Size \in Nat /\ Size < N
      /\ head \in Nat /\ head < N /\ tail = Wrap(head + Size, N)
  <2>1. LimitSize \in Nat
    BY BufferAssumption
  <2>2. N \in Int /\ 0 <= N /\ N <= LimitSize + 1 /\ head \in 0 .. N - 1
    BY <1>2, <1>3, <2>1
  <2> HIDE DEF Size, N
  <2> QED
    BY <1>2, <1>3, <2>1, <2>2
<1>7. length = Len(p)
  <2>1. 1 \in 1 .. m /\ 2 \in 1 .. m /\ 1 - 1 = 0 /\ 2 - 1 = 1 /\ head + 0 = head
    BY <1>5, <1>6
  <2>2. At(0) = Encoded(p)[1] /\ At(1) = Encoded(p)[2]
    <3> HIDE DEF m, p
    <3> QED
      BY <1>4, <2>1
  <2> QED
    BY <1>5, <2>1, <2>2 DEF At
<1>8. [i \in 1 .. length |-> Cell(head + 1 + i)] = p
  <2> DEFINE q == [i \in 1 .. Len(p) |-> Cell(head + 1 + i)]
  <2>1. ASSUME NEW i \in 1 .. Len(p) PROVE Cell(head + 1 + i) = p[i]
    <3>1. i + 2 \in 1 .. m /\ head + 1 + i = head + (i + 2 - 1)
      BY <1>5, <1>6
    <3>2. At(i + 2 - 1) = Encoded(p)[i + 2]
      BY <1>4, <3>1
    <3>3. Cell(head + 1 + i) = At(i + 2 - 1)
      BY <3>1 DEF At
    <3> QED
      BY <1>5, <3>2, <3>3
  <2>2. p = [i \in 1 .. Len(p) |-> p[i]]
    <3> HIDE DEF p
    <3> QED
      BY <1>5
  <2>3. q = [i \in 1 .. Len(p) |-> p[i]]
    BY <2>1
  <2>4. [i \in 1 .. length |-> Cell(head + 1 + i)] = q
    BY <1>7
  <2> QED
    BY <2>2, <2>3, <2>4
<1>9. result' = IF Len(p) <= n THEN Got(p) ELSE Failed("short")
  BY <1>1, <1>7, <1>8
<1>10. next = Wrap(head + m, N) /\ m \in Nat
  <2> HIDE DEF length, p, N
  <2>1. Len(p) \in Nat /\ head \in Nat
    BY <1>5, <1>6
  <2>2. head + 2 + Len(p) = head + m /\ m \in Nat
    BY <2>1
  <2> HIDE DEF m
  <2> QED
    BY <1>7, <2>2
<1> DEFINE s == Size
<1>11. s \in Nat /\ s < N /\ m <= s /\ tail = Wrap(head + s, N)
  BY <1>4, <1>6
<1> HIDE DEF next, m, N, s
<1>12. (next = tail <=> m = s) /\ next \in 0 .. N - 1 /\ tail \in 0 .. N - 1
  BY <1>6, <1>10, <1>11 DEF Wrap
<1>13. Len(data') = N
  BY <1>1 DEF N
<1>14. /\ head' \in Nat /\ tail' \in Nat /\ head' < N /\ tail' < N
  BY <1>1, <1>6, <1>12
<1>15. InRange'
  BY <1>6, <1>13, <1>14 DEF InRange
<1>16. Size' = s - m
  <2>1. CASE next = tail
    <3>1. head' = 0 /\ tail' = 0 /\ s - m = 0
      BY <1>1, <1>10, <1>11, <1>12, <2>1
    <3> QED
      BY <3>1 DEF Size
  <2>2. CASE next # tail
    <3>1. head' = next /\ tail' = tail
      BY <1>1, <2>2
    <3> QED
      BY <1>6, <1>10, <1>11, <1>13, <3>1 DEF Size, Wrap
  <2> QED
    BY <2>1, <2>2
<1>17. ASSUME NEW j \in 0 .. s - m - 1 PROVE Nth(data', head', j) = Nth(data, head, m + j)
  <2>1. next # tail
    BY <1>10, <1>11, <1>12
  <2>2. head' = next
    BY <1>1, <2>1
  <2>3. Wrap(next + j, N) = Wrap(head + (m + j), N)
    BY <1>6, <1>10, <1>11 DEF Wrap
  <2> QED
    BY <1>1, <2>2, <2>3 DEF Nth, N
<1> QED
  BY <1>3, <1>4, <1>9, <1>11, <1>14, <1>15, <1>16, <1>17 DEF N, s, m

-----------------------------------------------------------------------------
(* The packets of the ring.                                                  *)

(* Packets laid out in a ring d from h on, over s bytes.                     *)
Laid(d, h, s, q, off) ==
    /\ off \in [1 .. Len(q) + 1 -> 0 .. s]
    /\ off[1] = 0 /\ off[Len(q) + 1] = s
    /\ \A k \in 1 .. Len(q) :
          /\ off[k + 1] = off[k] + Len(q[k]) + 2
          /\ \A i \in 1 .. Len(q[k]) + 2 : Nth(d, h, off[k] + i - 1) = Encoded(q[k])[i]

(* StoredInRing with the state as parameters, before and after a step.       *)
LEMMA StoredIsLaid ==
    /\ StoredInRing => \E off : Laid(data, head, Size, stored, off)
    /\ (\E off : Laid(data', head', Size', stored', off)) => StoredInRing'
<1>1. StoredInRing => \E off : Laid(data, head, Size, stored, off)
  <2> HIDE DEF Size
  <2>1. ASSUME NEW off \in [1 .. Len(stored) + 1 -> 0 .. Size], LaidOut(off)
        PROVE  Laid(data, head, Size, stored, off)
    BY <2>1, AtIsNth, Zenon DEF LaidOut, Laid
  <2> QED
    BY <2>1, Zenon DEF StoredInRing
<1>2. ASSUME NEW off, Laid(data', head', Size', stored', off) PROVE StoredInRing'
  <2>1. LaidOut(off)'
    BY <1>2, AtIsNth, Zenon DEF LaidOut, Laid
  <2>2. off \in [1 .. Len(stored') + 1 -> 0 .. Size']
    BY <1>2, Zenon DEF Laid
  <2> QED
    BY <2>1, <2>2, Zenon DEF StoredInRing
<1> QED
  BY <1>1, <1>2

(* An offset inside the packets is before the end.                           *)
LEMMA LaidBefore ==
    ASSUME NEW d, NEW h, NEW s \in Nat, NEW q \in Seq(Packet), NEW off, Laid(d, h, s, q, off),
           NEW k \in 1 .. Len(q)
    PROVE  /\ q[k] \in Packet /\ Len(q[k]) \in Nat /\ off[k] \in Nat
           /\ off[k + 1] = off[k] + Len(q[k]) + 2 /\ off[k + 1] <= s
<1>1. q[k] \in Packet
  BY ElementOfSeq
<1>2. Len(q[k]) \in Nat
  BY <1>1, EncodedSpec
<1>3. k \in 1 .. Len(q) + 1 /\ k + 1 \in 1 .. Len(q) + 1
  BY LenProperties
<1>4. off[k] \in 0 .. s /\ off[k + 1] \in 0 .. s
  BY <1>3 DEF Laid
<1>5. off[k + 1] = off[k] + Len(q[k]) + 2
  BY DEF Laid
<1> QED
  BY <1>1, <1>2, <1>4, <1>5

(* The new packet follows the others.                                        *)
LEMMA LaidAppend ==
    ASSUME NEW d, NEW h, NEW s \in Nat, NEW q \in Seq(Packet), NEW off, Laid(d, h, s, q, off),
           NEW p \in Packet, NEW e, NEW g,
           \A j \in 0 .. s - 1 : Nth(e, g, j) = Nth(d, h, j),
           \A i \in 1 .. Len(p) + 2 : Nth(e, g, s + i - 1) = Encoded(p)[i]
    PROVE  \E new : Laid(e, g, s + Len(p) + 2, Append(q, p), new)
<1> DEFINE L == Len(q)
           r == Append(q, p)
           u == s + Len(p) + 2
           new == [k \in 1 .. L + 2 |-> IF k = L + 2 THEN u ELSE off[k]]
<1>1. L \in Nat /\ Len(p) \in Nat /\ u \in Nat /\ u >= s
  <2>1. Len(p) \in Nat
    BY EncodedSpec
  <2> QED
    BY <2>1, LenProperties
<1>2. Len(r) = L + 1 /\ r[L + 1] = p /\ \A k \in 1 .. L : r[k] = q[k]
  <2>1. /\ Len(Append(q, p)) = Len(q) + 1 /\ Append(q, p)[Len(q) + 1] = p
        /\ \A k \in 1 .. Len(q) : Append(q, p)[k] = q[k]
    BY AppendProperties
  <2> QED
    BY <2>1
<1>3. /\ off[1] = 0 /\ off[L + 1] = s /\ \A k \in 1 .. L + 1 : off[k] \in 0 .. s
  BY DEF Laid
<1>4. \A k \in 1 .. L :
        /\ Len(q[k]) \in Nat /\ off[k] \in Nat
        /\ off[k + 1] = off[k] + Len(q[k]) + 2 /\ off[k + 1] <= s
  BY LaidBefore
<1>5. \A k \in 1 .. L : \A i \in 1 .. Len(q[k]) + 2 : Nth(d, h, off[k] + i - 1) = Encoded(q[k])[i]
  BY DEF Laid
<1> HIDE DEF L, r, u
<1>6. new \in [1 .. L + 2 -> 0 .. u]
  <2>1. ASSUME NEW k \in 1 .. L + 2, k # L + 2 PROVE off[k] \in 0 .. u
    <3>1. k \in 1 .. L + 1
      BY <1>1, <2>1
    <3>2. off[k] \in 0 .. s
      BY <1>3, <3>1
    <3> QED
      BY <1>1, <3>2
  <2>2. u \in 0 .. u
    BY <1>1
  <2> QED
    BY <2>1, <2>2
<1>7. new[L + 2] = u /\ \A k \in 1 .. L + 1 : new[k] = off[k]
  <2>1. L + 2 \in 1 .. L + 2 /\ \A k \in 1 .. L + 1 : k \in 1 .. L + 2 /\ k # L + 2
    BY <1>1
  <2> QED
    BY <2>1
<1> HIDE DEF new
<1>8. ASSUME NEW k \in 1 .. L + 1
      PROVE  /\ new[k + 1] = new[k] + Len(r[k]) + 2
             /\ \A i \in 1 .. Len(r[k]) + 2 : Nth(e, g, new[k] + i - 1) = Encoded(r[k])[i]
  <2>1. CASE k = L + 1
    <3>1. new[k] = s /\ r[k] = p /\ k + 1 = L + 2
      BY <1>1, <1>2, <1>3, <1>7, <2>1
    <3>2. new[k + 1] = s + Len(p) + 2
      BY <1>7, <3>1 DEF u
    <3> QED
      BY <3>1, <3>2
  <2>2. CASE k # L + 1
    <3>1. k \in 1 .. L /\ k + 1 \in 1 .. L + 1
      BY <1>1, <2>2
    <3>2. r[k] = q[k] /\ new[k] = off[k] /\ new[k + 1] = off[k + 1]
      BY <1>2, <1>7, <3>1
    <3>3. /\ Len(q[k]) \in Nat /\ off[k] \in Nat
          /\ off[k + 1] = off[k] + Len(q[k]) + 2 /\ off[k + 1] <= s
      BY <1>4, <3>1
    <3>4. ASSUME NEW i \in 1 .. Len(q[k]) + 2
          PROVE  Nth(e, g, off[k] + i - 1) = Encoded(q[k])[i]
      <4>1. off[k] + i - 1 \in 0 .. s - 1
        BY <3>3, SMTT(30)
      <4>2. Nth(d, h, off[k] + i - 1) = Encoded(q[k])[i]
        BY <1>5, <3>1
      <4> QED
        BY <4>1, <4>2
    <3> QED
      BY <3>2, <3>3, <3>4
  <2> QED
    BY <2>1, <2>2
<1>9. new[1] = 0
  <2>1. 1 \in 1 .. L + 1
    BY <1>1
  <2> QED
    BY <1>3, <1>7, <2>1
<1>10. Len(r) + 1 = L + 2
  BY <1>1, <1>2
<1>11. Laid(e, g, u, r, new)
  BY <1>2, <1>6, <1>7, <1>8, <1>9, <1>10 DEF Laid
<1> QED
  BY <1>11 DEF u, r

(* An offset from the end of the first packet is one from head.              *)
LEMMA Shifted ==
    ASSUME NEW m \in Int, NEW a \in Int, NEW i \in Int
    PROVE  m + ((a - m) + i - 1) = a + i - 1
OBVIOUS

(* Without the first packet the others begin at its end.                     *)
LEMMA LaidTail ==
    ASSUME NEW d, NEW h, NEW s \in Nat, NEW q \in Seq(Packet), NEW off, Laid(d, h, s, q, off),
           q # <<>>, NEW m, m = Len(Head(q)) + 2, NEW e, NEW g,
           \A j \in 0 .. s - m - 1 : Nth(e, g, j) = Nth(d, h, m + j)
    PROVE  \E new : Laid(e, g, s - m, Tail(q), new)
<1> DEFINE L == Len(q)
           r == Tail(q)
           new == [k \in 1 .. L |-> off[k + 1] - m]
<1>1. L \in Nat /\ L >= 1 /\ Head(q) = q[1]
  BY EmptySeq, LenProperties
<1>2. Len(r) = L - 1 /\ \A k \in 1 .. L - 1 : r[k] = q[k + 1]
  <2>1. Len(Tail(q)) = Len(q) - 1 /\ \A k \in 1 .. Len(q) - 1 : Tail(q)[k] = q[k + 1]
    BY HeadTailProperties
  <2> QED
    BY <2>1
<1>3. off[1] = 0 /\ off[L + 1] = s
  BY DEF Laid
<1>4. \A k \in 1 .. L :
        /\ Len(q[k]) \in Nat /\ off[k] \in Nat
        /\ off[k + 1] = off[k] + Len(q[k]) + 2 /\ off[k + 1] <= s
  BY LaidBefore
<1>5. \A k \in 1 .. L : \A i \in 1 .. Len(q[k]) + 2 : Nth(d, h, off[k] + i - 1) = Encoded(q[k])[i]
  BY DEF Laid
<1> HIDE DEF L, r
<1>6. off[2] = m /\ m \in Nat
  <2>1. 1 \in 1 .. L /\ 1 + 1 = 2
    BY <1>1
  <2>2. Len(q[1]) \in Nat /\ off[1 + 1] = off[1] + Len(q[1]) + 2
    BY <1>4, <2>1
  <2>3. m = Len(q[1]) + 2
    BY <1>1
  <2>4. off[2] = 0 + Len(q[1]) + 2
    BY <1>3, <2>1, <2>2
  <2> QED
    BY <2>2, <2>3, <2>4
<1>7. \A k \in 2 .. L + 1 : off[k] \in Nat /\ off[k] >= m /\ off[k] <= s
  <2> DEFINE Bad == {k \in 2 .. L + 1 : ~(off[k] >= m)}
  <2>0. \A k \in 2 .. L + 1 : off[k] \in Nat /\ off[k] <= s
    <3>1. ASSUME NEW k \in 2 .. L + 1 PROVE off[k] \in 0 .. s
      <4>1. k \in 1 .. L + 1
        BY <1>1
      <4> QED
        BY <4>1 DEF Laid, L
    <3> QED
      BY <3>1
  <2>1. ASSUME Bad # {} PROVE FALSE
    <3>1. PICK k \in Bad : \A y \in Bad : k <= y
      <4>1. Bad \in SUBSET Nat
        BY <1>1
      <4> HIDE DEF Bad
      <4> QED
        BY <2>1, <4>1, LeastNatural
    <3>2. k \in 2 .. L + 1 /\ ~(off[k] >= m)
      OBVIOUS
    <3>3. k # 2
      BY <1>6, <3>2
    <3>4. k - 1 \in 2 .. L + 1 /\ k - 1 \in 1 .. L /\ (k - 1) + 1 = k /\ ~(k <= k - 1)
      BY <1>1, <3>2, <3>3
    <3>5. off[k - 1] >= m
      <4>1. k - 1 \notin Bad
        BY <3>1, <3>4
      <4> QED
        BY <3>4, <4>1
    <3>6. Len(q[k - 1]) \in Nat /\ off[k - 1] \in Nat /\ off[(k - 1) + 1] = off[k - 1] + Len(q[k - 1]) + 2
      BY <1>4, <3>4
    <3>7. off[k] = off[k - 1] + Len(q[k - 1]) + 2
      BY <3>4, <3>6
    <3> QED
      BY <1>6, <3>2, <3>5, <3>6, <3>7
  <2> QED
    BY <2>0, <2>1
<1>8. \A k \in 1 .. L : off[k + 1] \in Nat /\ off[k + 1] >= m /\ off[k + 1] <= s /\ new[k] = off[k + 1] - m
  <2>1. ASSUME NEW k \in 1 .. L PROVE k + 1 \in 2 .. L + 1
    BY <1>1
  <2> QED
    BY <1>7, <2>1
<1>9. new \in [1 .. L -> 0 .. s - m]
  <2>1. ASSUME NEW k \in 1 .. L PROVE off[k + 1] - m \in 0 .. s - m
    <3>1. off[k + 1] \in Nat /\ off[k + 1] >= m /\ off[k + 1] <= s
      BY <1>8
    <3> QED
      BY <1>6, <3>1
  <2> QED
    BY <2>1
<1> HIDE DEF new
<1>10. new[1] = 0 /\ new[L] = s - m
  <2>1. 1 \in 1 .. L /\ L \in 1 .. L /\ 1 + 1 = 2
    BY <1>1
  <2>2. new[1] = off[2] - m /\ new[L] = off[L + 1] - m
    BY <1>8, <2>1
  <2> QED
    BY <1>3, <1>6, <2>2
<1>11. ASSUME NEW k \in 1 .. L - 1
       PROVE  /\ new[k + 1] = new[k] + Len(r[k]) + 2
              /\ \A i \in 1 .. Len(r[k]) + 2 : Nth(e, g, new[k] + i - 1) = Encoded(r[k])[i]
  <2>1. k \in 1 .. L /\ k + 1 \in 1 .. L
    BY <1>1
  <2> DEFINE x == k + 1
  <2>2. r[k] = q[x] /\ new[k] = off[x] - m /\ new[x] = off[x + 1] - m
    BY <1>2, <1>8, <2>1
  <2>3. /\ Len(q[x]) \in Nat /\ off[x] \in Nat /\ off[x] >= m
        /\ off[x + 1] = off[x] + Len(q[x]) + 2 /\ off[x + 1] <= s
    BY <1>4, <1>8, <2>1
  <2>4. \A i \in 1 .. Len(q[x]) + 2 : Nth(d, h, off[x] + i - 1) = Encoded(q[x])[i]
    BY <1>5, <2>1
  <2>5. new[x] = new[k] + Len(r[k]) + 2
    <3> DEFINE a == off[x]
               b == Len(q[x])
    <3>1. a \in Nat /\ b \in Nat /\ new[k] = a - m /\ new[x] = (a + b + 2) - m /\ Len(r[k]) = b
      BY <2>2, <2>3, Zenon
    <3> HIDE DEF x, a, b
    <3>2. (a + b + 2) - m = (a - m) + b + 2
      BY <1>6, <3>1
    <3> QED
      BY <3>1, <3>2, Zenon
  <2> HIDE DEF x
  <2>6. ASSUME NEW i \in 1 .. Len(q[x]) + 2
        PROVE  Nth(e, g, new[k] + i - 1) = Encoded(q[x])[i]
    <3> DEFINE j == new[k] + i - 1
    <3>1. j \in 0 .. s - m - 1 /\ m + j = off[x] + i - 1
      <4> DEFINE a == off[x]
                 b == Len(q[x])
      <4>1. a \in Nat /\ b \in Nat /\ a >= m /\ a + b + 2 <= s /\ i \in 1 .. b + 2
        BY <2>3, Zenon
      <4>2. new[k] = a - m
        BY <2>2, Zenon
      <4> HIDE DEF a, b
      <4>3. (a - m) + i - 1 \in 0 .. s - m - 1 /\ m + ((a - m) + i - 1) = a + i - 1
        <5>1. i \in Int /\ 1 <= i /\ i <= b + 2
          BY <4>1
        <5>2. (a - m) + i - 1 >= 0 /\ (a - m) + i - 1 \in Int
          BY <1>6, <4>1, <5>1
        <5>3. (a - m) + i - 1 <= s - m - 1
          BY <1>6, <4>1, <5>1
        <5>4. m + ((a - m) + i - 1) = a + i - 1
          <6>1. m \in Int /\ a \in Int /\ i \in Int
            BY <1>6, <4>1, <5>1
          <6> QED
            BY <6>1, Shifted
        <5> QED
          BY <1>6, <5>2, <5>3, <5>4
      <4> QED
        BY <4>2, <4>3, Zenon DEF a
    <3>2. Nth(d, h, off[x] + i - 1) = Encoded(q[x])[i]
      BY <2>4
    <3> HIDE DEF j
    <3>3. Nth(e, g, j) = Nth(d, h, m + j)
      BY <3>1
    <3> QED
      BY <3>1, <3>2, <3>3 DEF j
  <2> QED
    BY <2>2, <2>5, <2>6 DEF x
<1>12. Len(r) + 1 = L /\ Len(r) = L - 1
  BY <1>1, <1>2
<1>13. Laid(e, g, s - m, r, new)
  BY <1>9, <1>10, <1>11, <1>12 DEF Laid
<1> QED
  BY <1>13 DEF r

-----------------------------------------------------------------------------
(* The steps.                                                                *)

(* A new buffer is empty.                                                    *)
LEMMA InitIsGood == Init => IInv
<1> SUFFICES ASSUME Init PROVE IInv
  OBVIOUS
<1>1. data = <<>> /\ Len(data) = 0 /\ stored = <<>> /\ Len(stored) = 0 /\ Size = 0
  BY DEF Init, Size
<1>2. TypeOK
  <2>1. result.kind = "none"
    BY DEF Init, Failed
  <2>2. <<>> \in Seq(0 .. Base - 1) /\ <<>> \in Seq(Packet)
    OBVIOUS
  <2>3. head = 0 /\ tail = 0 /\ count = 0 /\ 0 \in 0 .. Len(data)
    BY <1>1 DEF Init
  <2>4. closed = FALSE /\ subs = FALSE /\ permit = FALSE /\ reader = "read" /\ full = "no"
    BY DEF Init
  <2>5. data \in Seq(0 .. Base - 1) /\ stored \in Seq(Packet)
    BY <1>1, <2>2
  <2> HIDE DEF Init
  <2> QED
    BY <2>1, <2>3, <2>4, <2>5 DEF TypeOK
<1>3. InRange
  BY <1>1, BufferAssumption DEF Init, InRange
<1>4. StoredInRing
  <2> DEFINE off == [k \in 1 .. 1 |-> 0]
  <2>1. off \in [1 .. Len(stored) + 1 -> 0 .. Size] /\ off[1] = 0 /\ off[Len(stored) + 1] = Size
    <3>1. Len(stored) + 1 = 1 /\ 0 \in 0 .. Size /\ 1 \in 1 .. 1
      BY <1>1
    <3> QED
      BY <1>1, <3>1
  <2>2. 1 .. Len(stored) = {}
    BY <1>1
  <2> HIDE DEF off
  <2>3. LaidOut(off)
    BY <2>1, <2>2 DEF LaidOut
  <2> QED
    BY <2>1, <2>3 DEF StoredInRing
<1> QED
  BY <1>1, <1>2, <1>3, <1>4 DEF Init, ReaderIsTold, GrowNeverFails, IInv

(* A step that leaves the ring alone leaves the packets where they are.      *)
LEMMA RingUnchanged ==
    ASSUME TypeOK, InRange, StoredInRing, UNCHANGED ring
    PROVE  /\ InRange' /\ StoredInRing' /\ Size' = Size
           /\ UNCHANGED <<data, head, tail, count, stored>>
<1>1. UNCHANGED <<data, head, tail, count, stored>>
  BY DEF ring
<1>2. Size' = Size /\ InRange'
  BY <1>1 DEF Size, InRange
<1>3. PICK off : Laid(data, head, Size, stored, off)
  BY StoredIsLaid
<1>4. Laid(data', head', Size', stored', off)
  BY <1>1, <1>2, <1>3
<1> QED
  BY <1>1, <1>2, <1>4, StoredIsLaid

(* A write that is not refused is a Put of the queue.                        *)
LEMMA WriteStep ==
    ASSUME IInv, NEW p \in Packet, Write(p)
    PROVE  /\ IInv'
           /\ Queue!Put(p) \/ UNCHANGED <<stored, Size, closed, result>>
<1> USE DEF IInv
<1>0. ~closed /\ UNCHANGED <<closed, result>>
  BY Zenon DEF Write
<1>1. CASE Size + 2 + Len(p) > LimitSize /\ full' = "limit" /\ UNCHANGED <<ring, notify>>
  <2>1. /\ InRange' /\ StoredInRing' /\ Size' = Size
        /\ UNCHANGED <<data, head, tail, count, stored>>
    BY <1>1, RingUnchanged
  <2>2. UNCHANGED <<subs, permit, reader>>
    BY <1>1 DEF notify
  <2>3. TypeOK' /\ ReaderIsTold' /\ GrowNeverFails' /\ (count = Len(stored))'
    BY <1>0, <1>1, <2>1, <2>2 DEF TypeOK, ReaderIsTold, GrowNeverFails
  <2> QED
    BY <1>0, <2>1, <2>3
<1>2. CASE /\ ~(Size + 2 + Len(p) > LimitSize) /\ full' = "no"
           /\ count' = count + 1 /\ stored' = Append(stored, p) /\ WakeReader
           /\ BytesAdded(p)
  <2>1. /\ data' \in Seq(Byte) /\ head' \in Nat /\ tail' \in Nat
        /\ InRange' /\ head' < Len(data') /\ tail' < Len(data')
        /\ Size' = Size + Len(p) + 2
        /\ \A j \in 0 .. Size - 1 : Nth(data', head', j) = Nth(data, head, j)
        /\ \A i \in 1 .. Len(p) + 2 : Nth(data', head', Size + i - 1) = Encoded(p)[i]
    BY <1>2 DEF BytesAdded
  <2>2. stored \in Seq(Packet) /\ Size \in Nat /\ Len(p) \in Nat /\ LimitSize \in Nat
    BY SizeSpec, EncodedSpec, BufferAssumption DEF TypeOK
  <2>3. /\ stored' \in Seq(Packet) /\ stored' # <<>> /\ Len(stored') = Len(stored) + 1
    BY <1>2, <2>2, AppendProperties
  <2>4. StoredInRing'
    <3>1. PICK off : Laid(data, head, Size, stored, off)
      BY StoredIsLaid
    <3> HIDE DEF Size
    <3>2. \E new : Laid(data', head', Size + Len(p) + 2, Append(stored, p), new)
      BY <2>1, <2>2, <3>1, LaidAppend
    <3>3. \E new : Laid(data', head', Size', stored', new)
      BY <1>2, <2>1, <3>2
    <3> QED
      BY <3>3, StoredIsLaid
  <2>5. /\ subs' \in BOOLEAN /\ permit' \in BOOLEAN /\ reader' \in {"read", "wait", "parked"}
        /\ reader' # "parked" /\ (reader' = "wait" => permit')
    <3>1. /\ subs \in BOOLEAN /\ permit \in BOOLEAN /\ reader \in {"read", "wait", "parked"}
          /\ (reader = "parked" \/ (reader = "wait" /\ ~permit) => subs)
      BY DEF TypeOK, ReaderIsTold
    <3>2. CASE subs
      <4>1. NotifyOne /\ subs' = FALSE
        BY <1>2, <3>2 DEF WakeReader
      <4> QED
        BY <3>1, <4>1 DEF NotifyOne
    <3>3. CASE ~subs
      <4>1. UNCHANGED <<subs, permit, reader>>
        BY <1>2, <3>3 DEF WakeReader, notify
      <4> QED
        BY <3>1, <3>3, <4>1
    <3> QED
      BY <3>2, <3>3
  <2>6. TypeOK'
    <3>1. head' \in 0 .. Len(data') /\ tail' \in 0 .. Len(data')
      <4>1. Len(data') \in Nat
        BY <2>1
      <4> QED
        BY <2>1, <4>1
    <3>2. count' \in Nat
      BY <1>2 DEF TypeOK
    <3>3. closed' \in BOOLEAN /\ result'.kind \in {"none", "ok", "short", "closed"}
      BY <1>0 DEF TypeOK
    <3> QED
      BY <1>2, <2>1, <2>3, <2>5, <3>1, <3>2, <3>3 DEF TypeOK, Byte
  <2>7. ReaderIsTold' /\ GrowNeverFails' /\ (count = Len(stored))'
    BY <1>2, <2>3, <2>5 DEF ReaderIsTold, GrowNeverFails
  <2>8. Queue!Put(p)
    <3> HIDE DEF Size
    <3>1. Size + (Len(p) + 2) <= LimitSize /\ Size' = Size + (Len(p) + 2)
      BY <1>2, <2>1, <2>2
    <3> QED
      BY <1>0, <1>2, <3>1 DEF Queue!Put, Queue!Cost
  <2> QED
    BY <2>1, <2>4, <2>6, <2>7, <2>8
<1> QED
  BY <1>1, <1>2, WriteBytes

(* A read of the bytes is a Get of the queue.                                *)
LEMMA ReadStep ==
    ASSUME IInv, NEW n \in Lens, ReadPacket(n)
    PROVE  IInv' /\ Queue!Get(n)
<1> USE DEF IInv
<1> DEFINE p == Head(stored)
           m == Len(p) + 2
<1>1. /\ stored # <<>> /\ p \in Packet /\ m <= Size
      /\ head' \in Nat /\ tail' \in Nat /\ head' < Len(data) /\ tail' < Len(data)
      /\ InRange' /\ Size' = Size - m
      /\ \A j \in 0 .. Size - m - 1 : Nth(data', head', j) = Nth(data, head, m + j)
      /\ result' = IF Len(p) <= n THEN Got(p) ELSE Failed("short")
  BY ReadBytes
<1>2. /\ reader = "read" /\ count' = count - 1 /\ stored' = Tail(stored)
      /\ data' = data /\ closed' = closed /\ full' = full /\ UNCHANGED <<subs, permit, reader>>
  BY DEF ReadPacket, notify
<1>3. stored \in Seq(Packet) /\ Size \in Nat
  BY SizeSpec DEF TypeOK
<1>4. stored' \in Seq(Packet) /\ Len(stored') = Len(stored) - 1 /\ Len(stored) \in Nat /\ Len(stored) >= 1
  <2>1. Tail(stored) \in Seq(Packet) /\ Len(Tail(stored)) = Len(stored) - 1
    BY <1>1, <1>3, HeadTailProperties
  <2>2. Len(stored) \in Nat /\ Len(stored) # 0
    BY <1>1, <1>3, EmptySeq
  <2> QED
    BY <1>2, <2>1, <2>2
<1>5. StoredInRing'
  <2>1. PICK off : Laid(data, head, Size, stored, off)
    BY StoredIsLaid
  <2> HIDE DEF Size, m
  <2>2. m = Len(Head(stored)) + 2
    BY DEF m
  <2>3. \E new : Laid(data', head', Size - m, Tail(stored), new)
    BY <1>1, <1>3, <2>1, <2>2, LaidTail, ZenonT(60)
  <2>4. \E new : Laid(data', head', Size', stored', new)
    BY <1>1, <1>2, <2>3
  <2> QED
    BY <2>4, StoredIsLaid
<1>6. result'.kind \in {"ok", "short"}
  BY <1>1 DEF Got, Failed
<1>7. TypeOK'
  <2>1. head' \in 0 .. Len(data') /\ tail' \in 0 .. Len(data')
    <3>1. Len(data) \in Nat
      BY DEF TypeOK
    <3> QED
      BY <1>1, <1>2, <3>1
  <2>2. count' \in Nat
    BY <1>2, <1>4 DEF TypeOK
  <2> QED
    BY <1>2, <1>4, <1>6, <2>1, <2>2 DEF TypeOK
<1>8. ReaderIsTold' /\ GrowNeverFails' /\ (count = Len(stored))'
  BY <1>2, <1>4 DEF ReaderIsTold, GrowNeverFails
<1>9. Queue!Get(n)
  BY <1>1, <1>2 DEF Queue!Get, Queue!Cost, Queue!Got, Queue!Failed, Got, Failed
<1> QED
  BY <1>1, <1>5, <1>7, <1>8, <1>9

(* The steps that leave the ring alone.                                      *)
LEMMA OtherSteps ==
    ASSUME IInv, ReadEmpty \/ Await \/ Close \/ UNCHANGED vars
    PROVE  /\ IInv'
           /\ \/ Queue!GetClosed \/ Queue!Close
              \/ UNCHANGED <<stored, Size, closed, result>>
<1> USE DEF IInv
<1>1. UNCHANGED ring
  BY DEF ReadEmpty, Await, Close, vars
<1>2. /\ InRange' /\ StoredInRing' /\ Size' = Size
      /\ UNCHANGED <<data, head, tail, count, stored>>
  BY <1>1, RingUnchanged
<1>3. head = tail => stored = <<>>
  BY SizeSpec, FirstInRing
<1> HIDE DEF Size
<1>4. CASE ReadEmpty
  <2>1. /\ reader = "read" /\ stored = <<>> /\ subs' = TRUE
        /\ closed' = closed /\ permit' = permit /\ full' = full
    BY <1>3, <1>4 DEF ReadEmpty
  <2>2. CASE closed
    <3>1. result' = Failed("closed") /\ reader' = reader
      BY <1>4, <2>2 DEF ReadEmpty
    <3>2. result'.kind = "closed"
      BY <3>1 DEF Failed
    <3>3. TypeOK' /\ ReaderIsTold' /\ GrowNeverFails'
      BY <1>2, <2>1, <3>1, <3>2 DEF TypeOK, ReaderIsTold, GrowNeverFails
    <3>4. Queue!GetClosed
      BY <1>2, <2>1, <2>2, <3>1 DEF Queue!GetClosed, Queue!Failed, Failed
    <3> QED
      BY <1>2, <3>3, <3>4
  <2>3. CASE ~closed
    <3>1. reader' = "wait" /\ result' = result
      BY <1>4, <2>3 DEF ReadEmpty
    <3>2. TypeOK' /\ ReaderIsTold' /\ GrowNeverFails'
      BY <1>2, <2>1, <3>1 DEF TypeOK, ReaderIsTold, GrowNeverFails
    <3> QED
      BY <1>2, <2>1, <3>1, <3>2
  <2> QED
    BY <2>2, <2>3
<1>5. CASE Await
  <2>1. /\ reader = "wait" /\ permit' = FALSE
        /\ reader' = IF permit THEN "read" ELSE "parked"
        /\ UNCHANGED <<closed, subs, result, full>>
    BY <1>5 DEF Await
  <2>2. TypeOK' /\ ReaderIsTold' /\ GrowNeverFails'
    BY <1>2, <2>1 DEF TypeOK, ReaderIsTold, GrowNeverFails
  <2> QED
    BY <1>2, <2>1, <2>2
<1>6. CASE Close
  <2>1. /\ closed' = TRUE /\ reader' = IF reader = "parked" THEN "read" ELSE reader
        /\ UNCHANGED <<subs, permit, result, full>>
    BY <1>6 DEF Close
  <2>2. TypeOK' /\ ReaderIsTold' /\ GrowNeverFails'
    BY <1>2, <2>1 DEF TypeOK, ReaderIsTold, GrowNeverFails
  <2>3. Queue!Close
    BY <1>2, <2>1 DEF Queue!Close
  <2> QED
    BY <1>2, <2>2, <2>3
<1>7. CASE UNCHANGED vars
  <2>1. UNCHANGED <<closed, subs, permit, reader, result, full>>
    BY <1>7 DEF vars, notify
  <2>2. TypeOK' /\ ReaderIsTold' /\ GrowNeverFails'
    BY <1>2, <2>1 DEF TypeOK, ReaderIsTold, GrowNeverFails
  <2> QED
    BY <1>2, <2>1, <2>2
<1> QED
  BY <1>4, <1>5, <1>6, <1>7

-----------------------------------------------------------------------------
(* IInv holds throughout.                                                    *)
LEMMA Inductive == Spec => []IInv
<1>1. IInv /\ [Next]_vars => IInv'
  <2> SUFFICES ASSUME IInv, [Next]_vars PROVE IInv'
    OBVIOUS
  <2>1. ASSUME NEW p \in Packet, Write(p) PROVE IInv'
    BY <2>1, WriteStep
  <2>2. ASSUME NEW n \in Lens, ReadPacket(n) PROVE IInv'
    BY <2>2, ReadStep
  <2>3. CASE ReadEmpty \/ Await \/ Close \/ UNCHANGED vars
    BY <2>3, OtherSteps
  <2> QED
    BY <2>1, <2>2, <2>3 DEF Next
<1> QED
  BY <1>1, InitIsGood, PTL DEF Spec

(* The ring's indices stay inside it, count is the number of packets, and    *)
(* grow never fails for a write that passed the limit check: the bytes that  *)
(* grow adds at last cover the byte that available keeps free.               *)
THEOREM BufferSafe == Spec => []BufferInv
<1>1. IInv => BufferInv
  <2> SUFFICES ASSUME IInv PROVE BufferInv
    OBVIOUS
  <2>1. TypeOK /\ GrowNeverFails /\ count = Len(stored)
    BY DEF IInv
  <2>2. head = tail <=> stored = <<>>
    BY SizeSpec, FirstInRing DEF IInv
  <2> QED
    BY <2>1, <2>2 DEF BufferInv, CountAgrees
<1> QED
  BY <1>1, Inductive, PTL

(* A reader never sleeps on a packet, whatever the order of its poll of      *)
(* notified() and the write: subs is set before the lock is released.        *)
THEOREM NoPacketSleeps == Spec => []NoPacketAsleep
<1>1. IInv => NoPacketAsleep
  BY DEF IInv, ReaderIsTold, NoPacketAsleep
<1> QED
  BY <1>1, Inductive, PTL

(* The ring is a FIFO of packets: every read returns the packet that was     *)
(* written first, byte for byte, over every wrap, growth and reset of the    *)
(* indices, and only the limit refuses a write.                              *)
THEOREM RingIsQueue == Spec => ImplementsQueue
<1>1. Init => Queue!Init
  BY DEF Init, Size, Failed, Queue!Init, Queue!Failed
<1>2. IInv /\ [Next]_vars => [Queue!Next]_<<stored, Size, closed, result>>
  <2> SUFFICES ASSUME IInv, [Next]_vars
               PROVE  Queue!Next \/ UNCHANGED <<stored, Size, closed, result>>
    OBVIOUS
  <2>1. ASSUME NEW p \in Packet, Write(p)
        PROVE  Queue!Next \/ UNCHANGED <<stored, Size, closed, result>>
    BY <2>1, WriteStep, Zenon DEF Queue!Next
  <2>2. ASSUME NEW n \in Lens, ReadPacket(n) PROVE Queue!Next
    BY <2>2, ReadStep, Zenon DEF Queue!Next
  <2>3. CASE ReadEmpty \/ Await \/ Close \/ UNCHANGED vars
    BY <2>3, OtherSteps, Zenon DEF Queue!Next
  <2> QED
    BY <2>1, <2>2, <2>3, Zenon DEF Next
<1> QED
  BY <1>1, <1>2, Inductive, PTL DEF Spec, ImplementsQueue, Queue!Spec, Queue!vars
=============================================================================
