-------------------- MODULE UnhandledPacketsBufferProofs --------------------
(***************************************************************************)
(* UnhandledPacketsBuffer for every capacity, every set of streams and     *)
(* every number of packets: the ring implements PacketStash, and hands     *)
(* packets out in order until a backfill leaves some behind.               *)
(*                                                                         *)
(* First what the loop of BackfillPackets takes from a list of any length, *)
(* by induction on its rounds (as a least counterexample), then the places *)
(* it reads in a ring that wraps around, then the steps.                   *)
(***************************************************************************)
EXTENDS UnhandledPacketsBuffer, SequenceTheorems, FiniteSetTheorems, TLAPS

\* The packets there may be.
Packets == [ssrc : Ssrcs, number : Nat]

-----------------------------------------------------------------------------
(* One pass over a list *)

\* A set of numbers that is not empty has a least one: the induction that the
\* lemmas below use.
LEMMA LeastNumber ==
    ASSUME NEW T \in SUBSET Nat, T # {}
    PROVE  \E x \in T : \A y \in T : x <= y
<1>1. PICK x \in T : \A y \in T : ~(<<y, x>> \in OpToRel(<, Nat))
  BY WFMin, NatLessThanWellFounded
<1>2. \A y \in Nat : y < x => <<y, x>> \in OpToRel(<, Nat)
  BY Zenon DEF OpToRel
<1>3. \A y \in T : ~(y < x)
  BY <1>1, <1>2
<1> QED BY <1>3

\* One round of the loop.
StepOf(packets, ssrcs, n, before) ==
    IF packets[n].ssrc \in ssrcs THEN Append(before, packets[n]) ELSE before

\* What the loop has taken after each of its first n rounds.
IsPass(g, packets, ssrcs, n) ==
    /\ DOMAIN g = 0 .. n
    /\ g[0] = <<>>
    /\ \A m \in 1 .. n : g[m] = StepOf(packets, ssrcs, m, g[m - 1])

\* The loop ends: there is a pass over any list.
LEMMA PassExists ==
    ASSUME NEW packets, NEW ssrcs, Len(packets) \in Nat
    PROVE  \E g : IsPass(g, packets, ssrcs, Len(packets))
<1> DEFINE P(n) == \E g : IsPass(g, packets, ssrcs, n)
           T == {n \in Nat : ~P(n)}
<1>1. P(0)
  <2> DEFINE g == [n \in {0} |-> <<>>]
  <2>1. DOMAIN g = 0 .. 0 /\ g[0] = <<>>
    OBVIOUS
  <2> HIDE DEF g
  <2>2. IsPass(g, packets, ssrcs, 0)
    BY <2>1 DEF IsPass
  <2> QED BY <2>2
<1>2. ASSUME NEW n \in Nat, P(n) PROVE P(n + 1)
  <2>1. PICK g : IsPass(g, packets, ssrcs, n)
    BY <1>2
  <2> DEFINE h == [m \in 0 .. n + 1 |-> IF m = n + 1 THEN StepOf(packets, ssrcs, n + 1, g[n])
                                        ELSE g[m]]
  <2>2. /\ DOMAIN h = 0 .. n + 1 /\ h[n + 1] = StepOf(packets, ssrcs, n + 1, g[n])
        /\ \A m \in 0 .. n : h[m] = g[m]
    OBVIOUS
  <2> HIDE DEF h
  <2>3. h[0] = <<>>
    BY <2>1, <2>2 DEF IsPass
  <2>4. ASSUME NEW m \in 1 .. n + 1
        PROVE  h[m] = StepOf(packets, ssrcs, m, h[m - 1])
    <3>1. CASE m = n + 1
      <4>1. m - 1 = n /\ h[n] = g[n]
        BY <3>1, <2>2
      <4> QED BY <3>1, <4>1, <2>2
    <3>2. CASE m # n + 1
      <4>1. m \in 1 .. n /\ m \in 0 .. n /\ m - 1 \in 0 .. n
        BY <3>2
      <4>2. h[m] = g[m] /\ h[m - 1] = g[m - 1]
        BY <4>1, <2>2
      <4>3. g[m] = StepOf(packets, ssrcs, m, g[m - 1])
        BY <4>1, <2>1 DEF IsPass
      <4> QED BY <4>2, <4>3
    <3> QED BY <3>1, <3>2
  <2>5. IsPass(h, packets, ssrcs, n + 1)
    BY <2>2, <2>3, <2>4 DEF IsPass
  <2> QED BY <2>5
<1> HIDE DEF P
<1>3. CASE T # {}
  <2>1. PICK n \in T : \A m \in T : n <= m
    BY <1>3, LeastNumber
  <2>2. n \in Nat /\ ~P(n) /\ n # 0
    BY <1>1
  <2>3. n - 1 \in Nat /\ n - 1 < n /\ (n - 1) + 1 = n
    BY <2>2
  <2>4. P(n - 1)
    BY <2>1, <2>3
  <2> QED BY <1>2, <2>2, <2>3, <2>4
<1>4. CASE T = {}
  BY <1>4 DEF P
<1> QED BY <1>3, <1>4

\* The recursive function of Of is such a pass.
LEMMA OfIsAPass ==
    ASSUME NEW packets, NEW ssrcs, Len(packets) \in Nat
    PROVE  \E f : /\ IsPass(f, packets, ssrcs, Len(packets))
                  /\ Of(packets, ssrcs) = f[Len(packets)]
<1> DEFINE Equation(f) ==
               f = [n \in 0 .. Len(packets) |->
                       IF n = 0 THEN <<>>
                       ELSE IF packets[n].ssrc \in ssrcs THEN Append(f[n - 1], packets[n])
                       ELSE f[n - 1]]
           f == CHOOSE f : Equation(f)
<1>1. Of(packets, ssrcs) = f[Len(packets)]
  BY DEF Of
<1>2. PICK g : IsPass(g, packets, ssrcs, Len(packets))
  BY PassExists
<1> DEFINE h == [n \in 0 .. Len(packets) |-> g[n]]
<1>3. Equation(h)
  <2>1. \A n \in 0 .. Len(packets) : n # 0 =>
            n - 1 \in 0 .. Len(packets) /\ n \in 1 .. Len(packets)
    OBVIOUS
  <2>2. \A n \in 0 .. Len(packets) :
            g[n] = IF n = 0 THEN <<>>
                   ELSE IF packets[n].ssrc \in ssrcs THEN Append(h[n - 1], packets[n])
                   ELSE h[n - 1]
    BY <1>2, <2>1 DEF IsPass, StepOf
  <2> QED BY <2>2
<1>4. Equation(f)
  <2> HIDE DEF h, Equation
  <2> QED BY <1>3
<1> HIDE DEF f
<1>5. DOMAIN f = 0 .. Len(packets) /\ f[0] = <<>>
  BY <1>4
<1>6. ASSUME NEW m \in 1 .. Len(packets)
      PROVE  f[m] = StepOf(packets, ssrcs, m, f[m - 1])
  <2>1. m \in 0 .. Len(packets) /\ m # 0
    OBVIOUS
  <2> QED BY <1>4, <2>1 DEF StepOf
<1>7. IsPass(f, packets, ssrcs, Len(packets))
  BY <1>5, <1>6 DEF IsPass
<1> QED BY <1>1, <1>7

\* h tells where in packets the packets of s were: in their order, and all
\* that belong to the streams among the first n.
Places(h, s, packets, ssrcs, n) ==
    /\ h \in [1 .. Len(s) -> 1 .. n]
    /\ \A i, j \in 1 .. Len(s) : i < j => h[i] < h[j]
    /\ \A i \in 1 .. Len(s) : s[i] = packets[h[i]] /\ packets[h[i]].ssrc \in ssrcs
    /\ \A k \in 1 .. n : packets[k].ssrc \in ssrcs => \E i \in 1 .. Len(s) : h[i] = k

\* s is the packets of the streams among the first n, in their order.
IsPart(s, packets, ssrcs, n) ==
    /\ s \in Seq(Packets) /\ Len(s) <= n
    /\ \E h : Places(h, s, packets, ssrcs, n)

\* One round keeps it.
LEMMA StepIsPart ==
    ASSUME NEW packets \in Seq(Packets), NEW ssrcs, NEW n \in 1 .. Len(packets),
           NEW s, IsPart(s, packets, ssrcs, n - 1)
    PROVE  IsPart(StepOf(packets, ssrcs, n, s), packets, ssrcs, n)
<1>1. PICK h : Places(h, s, packets, ssrcs, n - 1)
  BY DEF IsPart
<1>2. s \in Seq(Packets) /\ Len(s) \in Nat /\ Len(s) <= n - 1 /\ packets[n] \in Packets
  BY DEF IsPart
<1>3. CASE packets[n].ssrc \notin ssrcs
  <2>1. StepOf(packets, ssrcs, n, s) = s
    BY <1>3 DEF StepOf
  <2>2. h \in [1 .. Len(s) -> 1 .. n]
    BY <1>1 DEF Places
  <2>3. \A k \in 1 .. n : k \in 1 .. n - 1 \/ k = n
    OBVIOUS
  <2>4. Places(h, s, packets, ssrcs, n)
    BY <1>1, <1>3, <2>2, <2>3 DEF Places
  <2> QED BY <1>2, <2>1, <2>4 DEF IsPart
<1>4. CASE packets[n].ssrc \in ssrcs
  <2> DEFINE t == Append(s, packets[n])
             g == [i \in 1 .. Len(s) + 1 |-> IF i = Len(s) + 1 THEN n ELSE h[i]]
  <2>1. /\ t \in Seq(Packets) /\ Len(t) = Len(s) + 1 /\ t[Len(s) + 1] = packets[n]
        /\ \A i \in 1 .. Len(s) : t[i] = s[i]
    BY <1>2
  <2>2. /\ g[Len(s) + 1] = n /\ DOMAIN g = 1 .. Len(s) + 1
        /\ \A i \in 1 .. Len(s) : g[i] = h[i]
    BY <1>2
  <2>3. StepOf(packets, ssrcs, n, s) = t
    BY <1>4 DEF StepOf
  <2>4. \A i \in 1 .. Len(s) : h[i] \in 1 .. n - 1
    BY <1>1 DEF Places
  <2>5. g \in [1 .. Len(t) -> 1 .. n]
    BY <2>1, <2>4, <1>2
  <2>6. \A i \in 1 .. Len(t) : i \in 1 .. Len(s) \/ i = Len(s) + 1
    BY <2>1, <1>2
  <2> HIDE DEF g, t
  <2>7. \A i, j \in 1 .. Len(t) : i < j => g[i] < g[j]
    <3> SUFFICES ASSUME NEW i \in 1 .. Len(t), NEW j \in 1 .. Len(t), i < j
                 PROVE  g[i] < g[j]
      OBVIOUS
    <3>1. i \in 1 .. Len(s)
      BY <2>1, <1>2
    <3>2. CASE j = Len(s) + 1
      BY <3>1, <3>2, <2>2, <2>4
    <3>3. CASE j \in 1 .. Len(s)
      BY <3>1, <3>3, <2>2, <1>1 DEF Places
    <3> QED BY <2>6, <3>2, <3>3
  <2>8. \A i \in 1 .. Len(t) : t[i] = packets[g[i]] /\ packets[g[i]].ssrc \in ssrcs
    BY <1>1, <1>4, <2>1, <2>2, <2>6 DEF Places
  <2>9. ASSUME NEW k \in 1 .. n, packets[k].ssrc \in ssrcs
        PROVE  \E i \in 1 .. Len(t) : g[i] = k
    <3>1. CASE k = n
      <4>1. Len(s) + 1 \in 1 .. Len(t)
        BY <2>1, <1>2
      <4> QED BY <3>1, <4>1, <2>2
    <3>2. CASE k # n
      <4>1. k \in 1 .. n - 1
        BY <3>2
      <4>2. PICK i \in 1 .. Len(s) : h[i] = k
        BY <4>1, <2>9, <1>1 DEF Places
      <4>3. i \in 1 .. Len(t)
        BY <2>1, <1>2
      <4> QED BY <4>2, <4>3, <2>2
    <3> QED BY <3>1, <3>2
  <2>10. Places(g, t, packets, ssrcs, n)
    BY <2>5, <2>7, <2>8, <2>9 DEF Places
  <2> QED BY <1>2, <2>1, <2>3, <2>10 DEF IsPart
<1> QED BY <1>3, <1>4

\* What Of computes, for every list of packets and every set of streams.
LEMMA OfIsPart ==
    ASSUME NEW packets \in Seq(Packets), NEW ssrcs
    PROVE  IsPart(Of(packets, ssrcs), packets, ssrcs, Len(packets))
<1>1. PICK f : /\ IsPass(f, packets, ssrcs, Len(packets))
               /\ Of(packets, ssrcs) = f[Len(packets)]
  BY OfIsAPass
<1> DEFINE P(n) == IsPart(f[n], packets, ssrcs, n)
           T == {n \in 0 .. Len(packets) : ~P(n)}
<1>2. P(0)
  <2>1. f[0] = <<>>
    BY <1>1 DEF IsPass
  <2>2. Places(<<>>, <<>>, packets, ssrcs, 0)
    BY DEF Places
  <2> QED BY <2>1, <2>2 DEF IsPart
<1>3. ASSUME NEW n \in 1 .. Len(packets), P(n - 1) PROVE P(n)
  BY <1>1, <1>3, StepIsPart DEF IsPass
<1> HIDE DEF P
<1>4. CASE T # {}
  <2>1. T \in SUBSET Nat
    OBVIOUS
  <2>2. PICK n \in T : \A m \in T : n <= m
    BY <1>4, <2>1, LeastNumber
  <2>3. n \in 0 .. Len(packets) /\ ~P(n) /\ n # 0
    BY <1>2
  <2>4. n \in 1 .. Len(packets) /\ n - 1 \in 0 .. Len(packets) /\ ~(n <= n - 1)
    BY <2>3
  <2>5. P(n - 1)
    BY <2>2, <2>4
  <2> QED BY <1>3, <2>3, <2>4, <2>5
<1>5. CASE T = {}
  <2>1. P(Len(packets))
    BY <1>5
  <2> QED BY <1>1, <2>1 DEF P
<1> QED BY <1>4, <1>5

-----------------------------------------------------------------------------
(* The ring *)

\* No two packets of a list arrived as the same.
Distinct(s) == \A i, j \in DOMAIN s : s[i].number = s[j].number => i = j

\* The types, with the bounds the code's RTC_DCHECK and reserve rely on: the
\* buffer never outgrows its capacity and insert_pos_ is always in it.
TypeOK ==
    /\ buffer \in Seq(Packets) /\ Len(buffer) <= Capacity
    /\ insertPos \in 0 .. Capacity - 1
    /\ consumed \in Seq(Packets)
    /\ arrived \in Nat /\ leftOver \in BOOLEAN

\* A packet is in the ring once, and the ring holds only packets that have
\* arrived.
RingIsExact ==
    /\ Distinct(buffer)
    /\ \A i \in DOMAIN buffer : buffer[i].number <= arrived

\* Until a backfill leaves packets behind, the ring is read in the order of
\* arrival, and the insert position is the end of a ring that is not full.
RingIsOrdered ==
    ~leftOver => /\ InOrder(Visited)
                 /\ Len(buffer) < Capacity => insertPos = Len(buffer)

\* The inductive invariant.
IInv == TypeOK /\ RingIsExact /\ RingIsOrdered /\ OrderedUntilLeftOver

\* The remainder, without division.
LEMMA Remainder ==
    ASSUME NEW n \in Nat, NEW c \in Nat \ {0}, n < 2 * c
    PROVE  n % c = IF n < c THEN n ELSE n - c
OBVIOUS

\* The place in the buffer that the i-th round of BackfillPackets reads.
Place(i, start) == IF i - 1 + start < Capacity THEN i + start ELSE i + start - Capacity

\* No two rounds read the same place.
LEMMA PlacesDiffer ==
    ASSUME NEW start \in 0 .. Capacity - 1, NEW i \in 1 .. Capacity, NEW j \in 1 .. Capacity,
           Place(i, start) = Place(j, start)
    PROVE  i = j
<1>1. Capacity \in Nat
  BY CapacityAssumption
<1> QED BY <1>1 DEF Place

\* What BackfillPackets reads of a buffer from a position on, and when it
\* does so: a buffer that is not full is read from its beginning.
ReadFrom(b, start) == [i \in 1 .. Len(b) |-> b[((i - 1 + start) % Capacity) + 1]]

CanRead(b, start) ==
    /\ b \in Seq(Packets) /\ start \in 0 .. Capacity - 1
    /\ \/ Len(b) = Capacity
       \/ Len(b) < Capacity /\ start = 0

\* The places are those of the buffer.
LEMMA ReadPlaces ==
    ASSUME NEW b, NEW start, CanRead(b, start), NEW i \in 1 .. Len(b)
    PROVE  Place(i, start) \in 1 .. Len(b) /\ ReadFrom(b, start)[i] = b[Place(i, start)]
<1>1. Len(b) \in Nat /\ start \in 0 .. Capacity - 1 /\ Capacity \in Nat \ {0}
  BY CapacityAssumption DEF CanRead
<1>2. Place(i, start) \in 1 .. Len(b) /\ i <= Capacity
  <2>1. CASE Len(b) < Capacity /\ start = 0
    BY <1>1, <2>1 DEF Place
  <2>2. CASE Len(b) = Capacity
    BY <1>1, <2>2 DEF Place
  <2> QED BY <2>1, <2>2 DEF CanRead
<1>3. PICK n \in Nat : n = i - 1 + start /\ n < 2 * Capacity
  BY <1>1, <1>2
<1>4. n % Capacity = IF n < Capacity THEN n ELSE n - Capacity
  BY <1>1, <1>3, Remainder
<1>5. (n % Capacity) + 1 = Place(i, start)
  BY <1>1, <1>3, <1>4 DEF Place
<1>6. ReadFrom(b, start)[i] = b[(n % Capacity) + 1]
  BY <1>3 DEF ReadFrom
<1> QED BY <1>2, <1>5, <1>6

\* Every packet is read, and once.
LEMMA ReadIsAll ==
    ASSUME NEW b, NEW start, CanRead(b, start)
    PROVE  LET r == ReadFrom(b, start)
           IN  /\ r \in Seq(Packets) /\ Len(r) = Len(b) /\ Range(r) = Range(b)
               /\ Distinct(b) => Distinct(r)
<1> DEFINE r == ReadFrom(b, start)
<1>1. /\ b \in Seq(Packets) /\ Len(b) \in Nat /\ DOMAIN b = 1 .. Len(b)
      /\ start \in 0 .. Capacity - 1 /\ Capacity \in Nat \ {0}
  BY CapacityAssumption DEF CanRead
<1>2. DOMAIN r = 1 .. Len(b) /\ r = [i \in 1 .. Len(b) |-> r[i]]
  BY DEF ReadFrom
<1>3. ASSUME NEW i \in 1 .. Len(b)
      PROVE  Place(i, start) \in 1 .. Len(b) /\ r[i] = b[Place(i, start)] /\ i \in 1 .. Capacity
  <2>1. Len(b) <= Capacity
    <3>1. CASE Len(b) = Capacity
      BY <1>1, <3>1
    <3>2. CASE Len(b) < Capacity
      BY <1>1, <3>2
    <3> QED BY <3>1, <3>2 DEF CanRead
  <2>2. i \in 1 .. Capacity
    BY <1>1, <2>1
  <2> QED BY <2>2, ReadPlaces
<1> HIDE DEF r
<1>4. r \in Seq(Packets) /\ Len(r) = Len(b)
  <2>1. \A i \in 1 .. Len(b) : r[i] \in Packets
    BY <1>1, <1>3
  <2>2. r \in [1 .. Len(b) -> Packets]
    BY <1>2, <2>1
  <2> QED BY <1>1, <2>2
<1>5. ASSUME NEW j \in 1 .. Len(b)
      PROVE  \E i \in 1 .. Len(b) : Place(i, start) = j
  <2> DEFINE i == IF j > start THEN j - start ELSE j - start + Capacity
  <2>1. CASE Len(b) < Capacity /\ start = 0
    <3>1. i \in 1 .. Len(b) /\ Place(i, start) = j
      BY <1>1, <2>1 DEF Place
    <3> QED BY <3>1
  <2>2. CASE Len(b) = Capacity
    <3>1. i \in 1 .. Len(b) /\ Place(i, start) = j
      BY <1>1, <2>2 DEF Place
    <3> QED BY <3>1
  <2> QED BY <2>1, <2>2 DEF CanRead
<1>6. Range(r) = Range(b)
  <2>1. \A i \in DOMAIN r : \E j \in DOMAIN b : r[i] = b[j]
    BY <1>1, <1>2, <1>3
  <2>2. ASSUME NEW j \in DOMAIN b
        PROVE  \E i \in DOMAIN r : r[i] = b[j]
    <3>1. PICK i \in 1 .. Len(b) : Place(i, start) = j
      BY <1>1, <1>5
    <3> QED BY <1>2, <1>3, <3>1
  <2> QED BY <2>1, <2>2 DEF Range
<1>7. Distinct(b) => Distinct(r)
  <2> SUFFICES ASSUME Distinct(b), NEW i \in 1 .. Len(b), NEW j \in 1 .. Len(b),
                      r[i].number = r[j].number
               PROVE  i = j
    BY <1>2 DEF Distinct
  <2>1. Place(i, start) = Place(j, start)
    <3>1. /\ Place(i, start) \in DOMAIN b /\ r[i] = b[Place(i, start)]
          /\ Place(j, start) \in DOMAIN b /\ r[j] = b[Place(j, start)]
      BY <1>1, <1>3
    <3> QED BY <3>1 DEF Distinct
  <2> QED BY <1>1, <1>3, <2>1, PlacesDiffer
<1> QED BY <1>4, <1>6, <1>7 DEF r

\* A part of a list keeps its order, and holds all its packets of the streams.
LEMMA PartKeeps ==
    ASSUME NEW packets \in Seq(Packets), NEW ssrcs, NEW s,
           IsPart(s, packets, ssrcs, Len(packets))
    PROVE  /\ s \in Seq(Packets) /\ Len(s) <= Len(packets)
           /\ Range(s) = {p \in Range(packets) : p.ssrc \in ssrcs}
           /\ InOrder(packets) => InOrder(s)
           /\ Distinct(packets) => Distinct(s)
<1>1. s \in Seq(Packets) /\ Len(s) \in Nat /\ DOMAIN s = 1 .. Len(s) /\ Len(s) <= Len(packets)
  BY DEF IsPart
<1>2. Len(packets) \in Nat /\ DOMAIN packets = 1 .. Len(packets)
  OBVIOUS
<1>3. PICK h : Places(h, s, packets, ssrcs, Len(packets))
  BY DEF IsPart
<1>4. /\ \A i \in DOMAIN s : /\ h[i] \in DOMAIN packets /\ s[i] = packets[h[i]]
                             /\ packets[h[i]].ssrc \in ssrcs
      /\ \A i, j \in DOMAIN s : i < j => h[i] < h[j]
      /\ \A k \in DOMAIN packets : packets[k].ssrc \in ssrcs => \E i \in DOMAIN s : h[i] = k
  BY <1>1, <1>2, <1>3 DEF Places
<1>5. Range(s) = {p \in Range(packets) : p.ssrc \in ssrcs}
  BY <1>4 DEF Range
<1>6. InOrder(packets) => InOrder(s)
  BY <1>4 DEF InOrder
<1>7. Distinct(packets) => Distinct(s)
  <2> SUFFICES ASSUME Distinct(packets), NEW i \in DOMAIN s, NEW j \in DOMAIN s,
                      s[i].number = s[j].number
               PROVE  i = j
    BY DEF Distinct
  <2>1. h[i] = h[j]
    BY <1>4 DEF Distinct
  <2>2. i \in Nat /\ j \in Nat /\ h[i] \in Nat /\ h[j] \in Nat
    BY <1>1, <1>2, <1>4
  <2>3. ~(i < j) /\ ~(j < i)
    BY <1>4, <2>1, <2>2
  <2> QED BY <2>2, <2>3
<1> QED BY <1>1, <1>5, <1>6, <1>7

-----------------------------------------------------------------------------
(* The invariant *)

\* Init establishes it.
LEMMA InitIInv == Init => IInv
<1> SUFFICES ASSUME Init PROVE IInv
  OBVIOUS
<1>1. /\ buffer = <<>> /\ consumed = <<>> /\ insertPos = 0 /\ arrived = 0 /\ leftOver = FALSE
      /\ Len(buffer) = 0 /\ Capacity \in Nat \ {0}
  BY CapacityAssumption DEF Init
<1>2. DOMAIN buffer = {} /\ DOMAIN consumed = {} /\ DOMAIN Visited = {}
  BY <1>1 DEF Visited
<1>3. TypeOK
  <2>1. buffer \in Seq(Packets) /\ consumed \in Seq(Packets)
    BY <1>1
  <2>2. Len(buffer) <= Capacity /\ insertPos \in 0 .. Capacity - 1 /\ arrived \in Nat
    BY <1>1
  <2>3. leftOver \in BOOLEAN
    BY <1>1
  <2> QED BY <2>1, <2>2, <2>3 DEF TypeOK
<1> QED BY <1>1, <1>2, <1>3
       DEF IInv, RingIsExact, Distinct, RingIsOrdered, OrderedUntilLeftOver, InOrder

\* The visited packets are what is read from the start.
LEMMA VisitedIsRead ==
    /\ Visited = ReadFrom(buffer, Start)
    /\ Visited' = ReadFrom(buffer', Start')
BY DEF Visited, At, ReadFrom

\* The ring can be read.
LEMMA CanReadRing == ASSUME TypeOK PROVE CanRead(buffer, Start)
<1>1. /\ buffer \in Seq(Packets) /\ Len(buffer) \in Nat /\ Len(buffer) <= Capacity
      /\ insertPos \in 0 .. Capacity - 1 /\ Capacity \in Nat \ {0}
  BY CapacityAssumption DEF TypeOK
<1>2. CASE Len(buffer) < Capacity
  BY <1>1, <1>2 DEF CanRead, Start
<1>3. CASE ~(Len(buffer) < Capacity)
  <2>1. \A m, n \in Nat : m <= n /\ ~(m < n) => m = n
    OBVIOUS
  <2>2. Len(buffer) = Capacity
    BY <1>1, <1>3, <2>1, Zenon
  <2>3. Start = insertPos
    BY <1>3 DEF Start
  <2> QED BY <1>1, <2>2, <2>3 DEF CanRead
<1> QED BY <1>2, <1>3

\* A backfill preserves it.
LEMMA BackfillIInv ==
    ASSUME IInv, NEW ssrcs \in SUBSET Ssrcs, BackfillPackets(ssrcs)
    PROVE  /\ IInv'
           /\ Range(consumed') = {p \in Range(buffer) : p.ssrc \in ssrcs}
           /\ Range(buffer') = Range(buffer) \ Range(consumed')
<1>1. /\ Visited \in Seq(Packets) /\ Len(Visited) = Len(buffer)
      /\ Range(Visited) = Range(buffer) /\ Distinct(Visited)
  BY CanReadRing, VisitedIsRead, ReadIsAll DEF IInv, RingIsExact
<1>2. /\ consumed' = Of(Visited, ssrcs) /\ buffer' = Of(Visited, Ssrcs \ ssrcs)
      /\ insertPos' = 0 /\ leftOver' = (leftOver \/ buffer' # <<>>) /\ arrived' = arrived
  BY DEF BackfillPackets
<1>3. /\ IsPart(consumed', Visited, ssrcs, Len(Visited))
      /\ IsPart(buffer', Visited, Ssrcs \ ssrcs, Len(Visited))
  BY <1>1, <1>2, OfIsPart
<1>4. /\ consumed' \in Seq(Packets)
      /\ Range(consumed') = {p \in Range(buffer) : p.ssrc \in ssrcs}
      /\ InOrder(Visited) => InOrder(consumed')
  BY <1>1, <1>3, PartKeeps
<1>5. /\ buffer' \in Seq(Packets) /\ Len(buffer') <= Len(buffer)
      /\ Range(buffer') = {p \in Range(buffer) : p.ssrc \in Ssrcs \ ssrcs}
      /\ Distinct(buffer')
  BY <1>1, <1>3, PartKeeps
<1>6. TypeOK'
  <2>1. Len(buffer') <= Capacity /\ insertPos' \in 0 .. Capacity - 1
    BY <1>2, <1>5, CapacityAssumption DEF IInv, TypeOK
  <2>2. leftOver' \in BOOLEAN /\ arrived' \in Nat
    BY <1>2 DEF IInv, TypeOK
  <2> QED BY <1>4, <1>5, <2>1, <2>2 DEF TypeOK
<1>7. RingIsExact'
  <2>1. \A p \in Range(buffer) : p.number <= arrived
    BY DEF IInv, RingIsExact, Range
  <2>2. \A p \in Range(buffer') : p.number <= arrived'
    BY <1>2, <1>5, <2>1
  <2> QED BY <1>5, <2>2 DEF RingIsExact, Range
<1>8. ~leftOver' => ~leftOver /\ buffer' = <<>>
  BY <1>2 DEF IInv, TypeOK
<1>9. RingIsOrdered'
  <2> SUFFICES ASSUME ~leftOver'
               PROVE  InOrder(Visited') /\ (Len(buffer') < Capacity => insertPos' = Len(buffer'))
    BY DEF RingIsOrdered, InOrder
  <2>1. buffer' = <<>> /\ Len(buffer') = 0
    BY <1>8
  <2>2. DOMAIN Visited' = {}
    BY <2>1 DEF Visited
  <2> QED BY <1>2, <2>1, <2>2 DEF InOrder
<1>10. OrderedUntilLeftOver'
  <2>1. ~leftOver' => InOrder(consumed')
    BY <1>4, <1>8 DEF IInv, RingIsOrdered
  <2> QED BY <2>1 DEF OrderedUntilLeftOver, InOrder
<1>11. \A p \in Range(buffer) : p.ssrc \in Ssrcs
  <2>1. Range(buffer) \subseteq Packets
    BY DEF IInv, TypeOK, Range
  <2> QED BY <2>1 DEF Packets
<1>12. Range(buffer') = Range(buffer) \ Range(consumed')
  BY <1>4, <1>5, <1>11
<1> QED BY <1>4, <1>6, <1>7, <1>9, <1>10, <1>12 DEF IInv

\* A packet that arrives is put where there is room or in place of one.
LEMMA AddIInv ==
    ASSUME IInv, NEW ssrc \in Ssrcs, AddPacket(ssrc)
    PROVE  LET packet == [ssrc |-> ssrc, number |-> arrived + 1]
           IN  /\ IInv'
               /\ \/ Len(buffer) < Capacity /\ Range(buffer') = Range(buffer) \cup {packet}
                  \/ /\ Len(buffer) = Capacity
                     /\ \E lost \in Range(buffer) :
                            Range(buffer') = (Range(buffer) \ {lost}) \cup {packet}
<1> DEFINE packet == [ssrc |-> ssrc, number |-> arrived + 1]
<1>1. /\ buffer \in Seq(Packets) /\ Len(buffer) \in Nat /\ Len(buffer) <= Capacity
      /\ DOMAIN buffer = 1 .. Len(buffer)
      /\ insertPos \in 0 .. Capacity - 1 /\ Capacity \in Nat \ {0} /\ arrived \in Nat
  BY CapacityAssumption DEF IInv, TypeOK
<1>2. packet \in Packets /\ packet.number = arrived + 1
  BY <1>1 DEF Packets
<1>3. /\ buffer' = IF Len(buffer) < Capacity THEN Append(buffer, packet)
                   ELSE [buffer EXCEPT ![insertPos + 1] = packet]
      /\ insertPos' = (insertPos + 1) % Capacity
      /\ arrived' = arrived + 1 /\ consumed' = consumed /\ leftOver' = leftOver
  BY DEF AddPacket
<1> HIDE DEF packet
<1>4. insertPos' = IF insertPos + 1 < Capacity THEN insertPos + 1 ELSE 0
  <2>1. PICK n \in Nat : n = insertPos + 1 /\ n < 2 * Capacity /\ n <= Capacity
    BY <1>1
  <2>2. n % Capacity = IF n < Capacity THEN n ELSE n - Capacity
    BY <1>1, <2>1, Remainder
  <2> QED BY <1>1, <1>3, <2>1, <2>2
<1>5. insertPos' \in 0 .. Capacity - 1 /\ arrived' \in Nat
  BY <1>1, <1>3, <1>4
<1>6. /\ \A i \in DOMAIN buffer : buffer[i].number <= arrived /\ buffer[i].number \in Nat
      /\ Distinct(buffer)
  <2>1. \A i \in DOMAIN buffer : buffer[i] \in Packets
    BY <1>1
  <2> QED BY <2>1 DEF IInv, RingIsExact, Packets
<1>7. OrderedUntilLeftOver'
  BY <1>3 DEF IInv, OrderedUntilLeftOver, InOrder
<1>8. CASE Len(buffer) < Capacity
  <2>1. buffer' = Append(buffer, packet)
    BY <1>3, <1>8
  <2>2. /\ buffer' \in Seq(Packets) /\ Len(buffer') = Len(buffer) + 1
        /\ DOMAIN buffer' = 1 .. Len(buffer) + 1
        /\ buffer'[Len(buffer) + 1] = packet
        /\ \A i \in 1 .. Len(buffer) : buffer'[i] = buffer[i]
    BY <1>1, <1>2, <2>1
  <2>3. \A i \in DOMAIN buffer' : i \in 1 .. Len(buffer) \/ i = Len(buffer) + 1
    BY <1>1, <2>2
  <2>4. Len(buffer') <= Capacity
    BY <1>1, <1>8, <2>2
  <2>5. TypeOK'
    BY <1>3, <1>5, <2>2, <2>4 DEF IInv, TypeOK
  <2>6. RingIsExact'
    <3>1. \A i \in DOMAIN buffer' : buffer'[i].number <= arrived'
      BY <1>1, <1>2, <1>3, <1>6, <2>2, <2>3
    <3>2. \A i \in 1 .. Len(buffer) : buffer'[i].number # packet.number
      BY <1>1, <1>2, <1>6, <2>2
    <3>3. Distinct(buffer')
      BY <1>1, <1>6, <2>2, <2>3, <3>2 DEF Distinct
    <3> QED BY <3>1, <3>3 DEF RingIsExact, Distinct
  <2>7. ASSUME ~leftOver
        PROVE  InOrder(Visited') /\ (Len(buffer') < Capacity => insertPos' = Len(buffer'))
    <3>1. insertPos = Len(buffer) /\ InOrder(Visited)
      BY <1>8, <2>7 DEF IInv, RingIsOrdered
    <3>2. Len(buffer') < Capacity => insertPos' = Len(buffer')
      BY <1>1, <1>4, <2>2, <3>1
    <3>3. Start = 0 /\ Start' = 0
      BY <1>1, <1>4, <1>8, <2>2, <3>1 DEF Start
    <3>4. CanRead(buffer, 0) /\ CanRead(buffer', 0)
      <4>1. 0 \in 0 .. Capacity - 1
        BY <1>1
      <4>2. Len(buffer') = Capacity \/ Len(buffer') < Capacity
        BY <1>1, <1>8, <2>2
      <4> QED BY <1>1, <1>8, <2>2, <4>1, <4>2 DEF CanRead
    <3>5. /\ \A i \in 1 .. Len(buffer) : Place(i, 0) = i
          /\ \A i \in 1 .. Len(buffer') : Place(i, 0) = i
      BY <1>1, <2>2, <2>4 DEF Place
    <3>6. \A i \in 1 .. Len(buffer) : Visited[i] = buffer[i]
      BY <3>3, <3>4, <3>5, VisitedIsRead, ReadPlaces
    <3>7. \A i \in 1 .. Len(buffer') : Visited'[i] = buffer'[i]
      BY <3>3, <3>4, <3>5, VisitedIsRead, ReadPlaces
    <3>8. DOMAIN Visited = 1 .. Len(buffer) /\ DOMAIN Visited' = 1 .. Len(buffer')
      BY DEF Visited
    <3>9. ASSUME NEW i \in 1 .. Len(buffer'), NEW j \in 1 .. Len(buffer'), i < j
          PROVE  buffer'[i].number < buffer'[j].number
      <4>1. i \in 1 .. Len(buffer)
        BY <1>1, <2>2, <3>9
      <4>2. CASE j = Len(buffer) + 1
        BY <1>1, <1>2, <1>6, <2>2, <4>1, <4>2
      <4>3. CASE j \in 1 .. Len(buffer)
        BY <2>2, <3>1, <3>6, <3>8, <3>9, <4>1, <4>3 DEF InOrder
      <4> QED BY <1>1, <2>2, <4>2, <4>3
    <3>10. InOrder(Visited')
      BY <3>7, <3>8, <3>9 DEF InOrder
    <3> QED BY <3>2, <3>10
  <2>8. RingIsOrdered'
    BY <1>3, <2>7 DEF RingIsOrdered, InOrder
  <2>9. Range(buffer') = Range(buffer) \cup {packet}
    BY <1>1, <2>2, <2>3 DEF Range
  <2> QED BY <1>7, <1>8, <2>5, <2>6, <2>8, <2>9 DEF IInv, packet
<1>9. CASE Len(buffer) = Capacity
  <2> DEFINE at == insertPos + 1
  <2>1. buffer' = [buffer EXCEPT ![at] = packet] /\ at \in 1 .. Len(buffer)
    BY <1>1, <1>3, <1>9
  <2> HIDE DEF at
  <2>2. /\ buffer' \in Seq(Packets) /\ Len(buffer') = Len(buffer)
        /\ DOMAIN buffer' = 1 .. Len(buffer) /\ buffer'[at] = packet
        /\ \A i \in 1 .. Len(buffer) : i # at => buffer'[i] = buffer[i]
    BY <1>1, <1>2, <2>1, ExceptSeq
  <2>3. TypeOK'
    BY <1>1, <1>3, <1>5, <2>2 DEF IInv, TypeOK
  <2>4. RingIsExact'
    <3>1. ASSUME NEW i \in DOMAIN buffer' PROVE buffer'[i].number <= arrived'
      <4>1. CASE i = at
        <5>1. buffer'[i].number = arrived'
          BY <1>2, <1>3, <2>2, <4>1
        <5> QED BY <1>5, <5>1
      <4>2. CASE i # at
        <5>1. buffer'[i] = buffer[i] /\ i \in DOMAIN buffer
          BY <1>1, <2>2, <4>2
        <5>2. buffer[i].number <= arrived /\ buffer[i].number \in Nat
          BY <1>6, <5>1
        <5> QED BY <1>1, <1>3, <5>1, <5>2
      <4> QED BY <4>1, <4>2
    <3>2. \A i \in 1 .. Len(buffer) : i # at => buffer'[i].number # packet.number
      BY <1>1, <1>2, <1>6, <2>2
    <3>3. Distinct(buffer')
      BY <1>1, <1>6, <2>2, <3>2 DEF Distinct
    <3> QED BY <3>1, <3>3 DEF RingIsExact, Distinct
  <2>5. ASSUME ~leftOver PROVE InOrder(Visited')
    <3>1. InOrder(Visited)
      BY <2>5 DEF IInv, RingIsOrdered
    <3>2. Start = insertPos /\ Start' = insertPos'
      BY <1>1, <1>9, <2>2 DEF Start
    <3>3. CanRead(buffer, insertPos) /\ CanRead(buffer', insertPos')
      BY <1>1, <1>5, <1>9, <2>2 DEF CanRead
    <3>4. DOMAIN Visited = 1 .. Capacity /\ DOMAIN Visited' = 1 .. Capacity
      BY <1>9, <2>2 DEF Visited
    <3>5. ASSUME NEW i \in 1 .. Capacity
          PROVE  /\ Place(i, insertPos) \in 1 .. Len(buffer)
                 /\ Visited[i] = buffer[Place(i, insertPos)]
                 /\ Visited'[i] = buffer'[Place(i, insertPos')]
      <4>1. i \in 1 .. Len(buffer) /\ i \in 1 .. Len(buffer')
        BY <1>9, <2>2
      <4>2. /\ Place(i, insertPos) \in 1 .. Len(buffer)
            /\ ReadFrom(buffer, insertPos)[i] = buffer[Place(i, insertPos)]
        BY <3>3, <4>1, ReadPlaces
      <4>3. ReadFrom(buffer', insertPos')[i] = buffer'[Place(i, insertPos')]
        BY <3>3, <4>1, ReadPlaces
      <4> QED BY <3>2, <4>2, <4>3, VisitedIsRead
    <3>6. Place(Capacity, insertPos') = at
      BY <1>1, <1>4 DEF Place, at
    <3>7. ASSUME NEW i \in 1 .. Capacity - 1
          PROVE  Place(i, insertPos') = Place(i + 1, insertPos) /\ Place(i + 1, insertPos) # at
      BY <1>1, <1>4 DEF Place, at
    <3>8. Visited'[Capacity] = packet
      BY <1>1, <2>2, <3>5, <3>6
    <3>9. ASSUME NEW i \in 1 .. Capacity - 1 PROVE Visited'[i] = Visited[i + 1]
      <4>1. i \in 1 .. Capacity /\ i + 1 \in 1 .. Capacity
        BY <1>1
      <4> QED BY <2>2, <3>5, <3>7, <4>1
    <3>10. ASSUME NEW i \in 1 .. Capacity, NEW j \in 1 .. Capacity, i < j
           PROVE  Visited'[i].number < Visited'[j].number
      <4>1. i \in 1 .. Capacity - 1 /\ i + 1 \in 1 .. Capacity
        BY <1>1, <3>10
      <4>2. CASE j = Capacity
        <5>1. Visited[i + 1].number \in Nat /\ Visited[i + 1].number <= arrived
          BY <1>1, <1>6, <3>5, <4>1
        <5> QED BY <1>1, <1>2, <3>8, <3>9, <4>1, <4>2, <5>1
      <4>3. CASE j \in 1 .. Capacity - 1
        <5>1. j + 1 \in 1 .. Capacity /\ i + 1 < j + 1
          BY <1>1, <3>10, <4>3
        <5> QED BY <3>1, <3>4, <3>9, <4>1, <4>3, <5>1 DEF InOrder
      <4> QED BY <1>1, <4>2, <4>3
    <3> QED BY <3>4, <3>10 DEF InOrder
  <2>6. RingIsOrdered'
    <3>1. ~(Len(buffer') < Capacity)
      BY <1>1, <1>9, <2>2
    <3> QED BY <1>3, <2>5, <3>1 DEF RingIsOrdered, InOrder
  <2>7. /\ Range(buffer') = (Range(buffer) \ {buffer[at]}) \cup {packet}
        /\ buffer[at] \in Range(buffer)
    <3>1. \A i \in 1 .. Len(buffer) : i # at => buffer[i] # buffer[at]
      BY <1>1, <1>6, <2>1 DEF Distinct
    <3> QED BY <1>1, <2>1, <2>2, <3>1 DEF Range
  <2> QED BY <1>7, <1>9, <2>3, <2>4, <2>6, <2>7 DEF IInv, packet
<1>10. Len(buffer) < Capacity \/ Len(buffer) = Capacity
  <2>1. \A m, n \in Nat : m <= n => m < n \/ m = n
    OBVIOUS
  <2> QED BY <1>1, <2>1, Zenon
<1> QED BY <1>8, <1>9, <1>10

-----------------------------------------------------------------------------
(* The theorems *)

\* Every step preserves the inductive invariant.
LEMMA NextIInv == IInv /\ [Next]_vars => IInv'
<1> SUFFICES ASSUME IInv, [Next]_vars PROVE IInv'
  OBVIOUS
<1>1. ASSUME NEW ssrc \in Ssrcs, AddPacket(ssrc) PROVE IInv'
  BY <1>1, AddIInv
<1>2. ASSUME NEW ssrcs \in SUBSET Ssrcs, BackfillPackets(ssrcs) PROVE IInv'
  BY <1>2, BackfillIInv
<1>3. CASE UNCHANGED vars
  BY <1>3 DEF vars, IInv, TypeOK, RingIsExact, Distinct, RingIsOrdered, OrderedUntilLeftOver,
              InOrder, Visited, At, Start
<1> QED BY <1>1, <1>2, <1>3 DEF Next

\* The ring holds each packet once, in at most Capacity places, with
\* insert_pos_ in range at every AddPacket (its RTC_DCHECK_LT), and is read in
\* the order of arrival until a backfill leaves packets behind.
THEOREM Invariance == Spec => []IInv
BY InitIInv, NextIInv, PTL DEF Spec

\* For every capacity, streams get their packets in the order they arrived in
\* as long as every BackfillPackets has emptied the buffer, however often
\* AddPacket has wrapped around in between.
THEOREM OrderedStreams == Spec => []OrderedUntilLeftOver
<1>1. IInv => OrderedUntilLeftOver
  BY DEF IInv
<1> QED BY <1>1, Invariance, PTL

\* The stash has as many packets as the ring.
LEMMA CountRing ==
    ASSUME IInv
    PROVE  Cardinality(Range(buffer)) = Len(buffer)
<1>1. /\ buffer \in Seq(Packets) /\ Len(buffer) \in Nat /\ DOMAIN buffer = 1 .. Len(buffer)
      /\ Distinct(buffer)
  BY DEF IInv, TypeOK, RingIsExact
<1>2. IsFiniteSet(1 .. Len(buffer)) /\ Cardinality(1 .. Len(buffer)) = Len(buffer)
  BY <1>1, FS_Interval
<1>3. buffer \in Bijection(1 .. Len(buffer), Range(buffer))
  BY <1>1 DEF Bijection, Injection, Surjection, IsInjective, Range, Distinct
<1>4. ExistsBijection(1 .. Len(buffer), Range(buffer))
  BY <1>3 DEF ExistsBijection
<1> QED BY <1>2, <1>4, FS_Bijection

\* The abstract specification counts as FiniteSets does.
LEMMA StashCounts == ASSUME NEW S PROVE Stash!Cardinality(S) = Cardinality(S)
BY DEF Cardinality, Stash!Cardinality

\* For every capacity, the ring with its insert position implements the
\* abstract stash: AddPacket gives up a packet only when the ring is full, and
\* then one; BackfillPackets hands out all packets of the streams it is called
\* for, no others, and keeps the rest.
THEOREM RingImplementsStash == Spec => ImplementsStash
<1>1. Init => Stash!Init
  BY DEF Init, Stash!Init, Range
<1>2. IInv /\ [Next]_vars => [Stash!Next]_(Stash!vars)
  <2> SUFFICES ASSUME IInv, [Next]_vars PROVE [Stash!Next]_(Stash!vars)
    OBVIOUS
  <2>1. ASSUME NEW ssrc \in Ssrcs, AddPacket(ssrc) PROVE Stash!Keep(ssrc)
    <3>1. Stash!Packet(ssrc) = [ssrc |-> ssrc, number |-> arrived + 1]
      BY DEF Stash!Packet
    <3>2. Stash!Cardinality(Range(buffer)) = Len(buffer)
      BY CountRing, StashCounts
    <3>3. arrived < MaxPackets /\ arrived' = arrived + 1 /\ consumed' = consumed
      BY <2>1 DEF AddPacket
    <3> QED BY <2>1, <3>1, <3>2, <3>3, AddIInv DEF Stash!Keep
  <2>2. ASSUME NEW ssrcs \in SUBSET Ssrcs, BackfillPackets(ssrcs) PROVE Stash!HandOut(ssrcs)
    <3>1. arrived' = arrived
      BY <2>2 DEF BackfillPackets
    <3> QED BY <2>2, <3>1, BackfillIInv DEF Stash!HandOut
  <2>3. CASE UNCHANGED vars
    BY <2>3 DEF vars, Stash!vars
  <2> QED BY <2>1, <2>2, <2>3 DEF Next, Stash!Next
<1> QED BY <1>1, <1>2, Invariance, PTL DEF Spec, ImplementsStash, Stash!Spec
=============================================================================
