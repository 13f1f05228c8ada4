-------------------------- MODULE VirtionetProofs --------------------------
(***************************************************************************)
(* virtionet.device and the virtio-net engine, proved for every ring size, *)
(* index width, set of requests and traffic: buffers and slots have one    *)
(* owner, the device never fails closed, no completion is stranded,        *)
(* readers see arrival order and a write is answered as it was sent.       *)
(***************************************************************************)
EXTENDS VirtionetDevice, SequenceTheorems, FiniteSetTheorems, WellFoundedInduction, TLAPS

-----------------------------------------------------------------------------
(***************************************************************************)
(* What a split virtqueue holds.  The indices run modulo IdxMod, the ring  *)
(* entry of an index is taken modulo qsize, and what lies between two      *)
(* indices is counted modulo IdxMod: the lemmas turn all three into a      *)
(* queue that is numbered from 0.                                          *)
(***************************************************************************)
(* The least element of a set of numbers: induction without an operator. *)
LEMMA LeastNumber ==
    ASSUME NEW T \in SUBSET Nat, T # {}
    PROVE  \E m \in T : \A k \in T : m <= k
<1> DEFINE R == OpToRel(<, Nat)
<1>1. IsWellFoundedOn(R, Nat)
  BY NatLessThanWellFounded, Zenon
<1> HIDE DEF R
<1>2. PICK m \in T : \A k \in T : ~(<<k, m>> \in R)
  BY <1>1, WFMin, Zenon
<1>3. ASSUME NEW k \in T, k < m PROVE FALSE
  <2>1. <<k, m>> \in R
    BY <1>3 DEF R, OpToRel
  <2> QED
    BY <2>1, <1>2
<1> QED
  BY <1>3

-----------------------------------------------------------------------------
(* Remainders *)

LEMMA DivMod ==
    ASSUME NEW n \in Nat \ {0}, NEW x \in Int
    PROVE  \E d \in Int : x % n = x - n * d
<1>1. x \div n \in Int
  OBVIOUS
<1>2. x % n = x - n * (x \div n)
  OBVIOUS
<1> QED
  BY <1>1, <1>2, Zenon

LEMMA Remainder ==
    ASSUME NEW n \in Nat \ {0}, NEW d \in Int, NEW r \in 0 .. n - 1
    PROVE  (n * d + r) % n = r
OBVIOUS

LEMMA NoMultiple ==
    ASSUME NEW n \in Nat \ {0}, NEW d \in Int, -n < n * d, n * d < n
    PROVE  d = 0
OBVIOUS

LEMMA OneTurnMore ==
    ASSUME NEW n \in Nat \ {0}, NEW x \in Int
    PROVE  (x + n) % n = x % n
<1>1. PICK d \in Int : x % n = x - n * d
  BY DivMod, Zenon
<1>2. PICK r : r = x % n
  OBVIOUS
<1>3. r \in 0 .. n - 1
  BY <1>2
<1>4. x + n = n * (d + 1) + r /\ d + 1 \in Int
  <2>1. r = x - n * d
    BY <1>1, <1>2, Zenon
  <2> QED
    BY <2>1
<1>5. (n * (d + 1) + r) % n = r
  BY <1>3, <1>4, Remainder, Zenon
<1> QED
  BY <1>2, <1>4, <1>5, Zenon

(* Two numbers less than n apart have different remainders. *)
LEMMA Apart ==
    ASSUME NEW n \in Nat \ {0}, NEW x \in Int, NEW y \in Int,
           x % n = y % n, -n < x - y, x - y < n
    PROVE  x = y
<1>1. PICK c \in Int : x % n = x - n * c
  BY DivMod, Zenon
<1>2. PICK d \in Int : y % n = y - n * d
  BY DivMod, Zenon
<1>3. x - n * c = y - n * d
  BY <1>1, <1>2, Zenon
<1>4. x - y = n * (c - d)
  BY <1>3
<1>5. c - d = 0
  BY <1>4, NoMultiple
<1> QED
  BY <1>4, <1>5

(* Taking the remainder by a multiple first makes no difference. *)
LEMMA TwiceReduced ==
    ASSUME NEW n \in Nat \ {0}, NEW m \in Nat \ {0}, m % n = 0, NEW x \in Int
    PROVE  (x % m) % n = x % n
<1>0. m \in Int
  OBVIOUS
<1>1. PICK c \in Int : m % n = m - n * c
  BY <1>0, DivMod, Zenon
<1>2. PICK d \in Int : x % m = x - m * d
  BY DivMod, Zenon
<1>3. PICK e \in Int : x % n = x - n * e
  BY DivMod, Zenon
<1>4. m = n * c
  BY <1>1
<1>5. m * d = n * (c * d)
  BY <1>4
<1>6. PICK r : r = x % n
  OBVIOUS
<1>7. r \in 0 .. n - 1
  BY <1>6
<1>8. r = x - n * e
  BY <1>3, <1>6, Zenon
<1>9. PICK s : s = x % m
  OBVIOUS
<1>10. s = x - m * d
  BY <1>2, <1>9, Zenon
<1>11. s = n * (e - c * d) + r
  BY <1>5, <1>8, <1>10
<1>12. e - c * d \in Int
  OBVIOUS
<1>13. s % n = r
  BY <1>7, <1>11, <1>12, Remainder, Zenon
<1> QED
  BY <1>6, <1>9, <1>13, Zenon

-----------------------------------------------------------------------------
(* Indices *)

Idx == 0 .. IdxMod - 1
Dist(a, b) == (b - a) % IdxMod
Pos(a, k) == ((a + k) % IdxMod) % qsize

LEMMA Sizes ==
    /\ qsize \in Nat \ {0} /\ IdxMod \in Nat \ {0} /\ qsize < IdxMod /\ IdxMod % qsize = 0
    /\ qsize <= QUEUE_SIZE_MAX /\ QUEUE_SIZE_MAX \in Nat \ {0}
    /\ Slots \subseteq 0 .. QUEUE_SIZE_MAX - 1
BY VirtioAssumption, DriverAssumption DEF qsize, Slots

(* The distance between two indices, without the remainder. *)
LEMMA DistDef ==
    ASSUME NEW a \in Idx, NEW b \in Idx
    PROVE  Dist(a, b) = IF a <= b THEN b - a ELSE b - a + IdxMod
BY Sizes DEF Idx, Dist

LEMMA SuccDef ==
    ASSUME NEW a \in Idx
    PROVE  /\ Succ(a) \in Idx
           /\ Succ(a) = IF a = IdxMod - 1 THEN 0 ELSE a + 1
BY Sizes DEF Idx, Succ

LEMMA DistFacts ==
    ASSUME NEW a \in Idx, NEW b \in Idx
    PROVE  /\ Dist(a, b) \in 0 .. IdxMod - 1
           /\ Dist(a, b) = 0 <=> a = b
           /\ Dist(a, b) < IdxMod - 1 => Dist(a, Succ(b)) = Dist(a, b) + 1
           /\ a # b => Dist(Succ(a), b) = Dist(a, b) - 1
<1>1. /\ Succ(a) \in Idx /\ Succ(a) = IF a = IdxMod - 1 THEN 0 ELSE a + 1
      /\ Succ(b) \in Idx /\ Succ(b) = IF b = IdxMod - 1 THEN 0 ELSE b + 1
  BY SuccDef
<1>2. /\ Dist(a, b) = IF a <= b THEN b - a ELSE b - a + IdxMod
      /\ Dist(a, Succ(b)) = IF a <= Succ(b) THEN Succ(b) - a ELSE Succ(b) - a + IdxMod
      /\ Dist(Succ(a), b) = IF Succ(a) <= b THEN b - Succ(a) ELSE b - Succ(a) + IdxMod
  BY <1>1, DistDef, Zenon
<1> QED
  BY <1>1, <1>2, Sizes DEF Idx

(* The ring entry of the k-th index from a. *)
LEMMA PosDef ==
    ASSUME NEW a \in Idx, NEW k \in Nat
    PROVE  Pos(a, k) = (a + k) % qsize
<1>1. a + k \in Int
  BY Sizes DEF Idx
<1> QED
  BY <1>1, Sizes, TwiceReduced, Zenon DEF Pos

LEMMA PosFacts ==
    ASSUME NEW a \in Idx
    PROVE  /\ \A k \in Nat : Pos(a, k) \in Slots
           /\ \A k, l \in 0 .. qsize - 1 : Pos(a, k) = Pos(a, l) => k = l
           /\ \A k \in Nat : Pos(Succ(a), k) = Pos(a, k + 1)
           /\ \A b \in Idx : Pos(a, Dist(a, b)) = b % qsize
           /\ Pos(a, 0) = a % qsize
<1>1. a \in Int /\ a \in Nat
  BY Sizes DEF Idx
<1>2. ASSUME NEW k \in Nat PROVE Pos(a, k) \in Slots
  <2>1. (a + k) % qsize \in 0 .. qsize - 1
    BY <1>1, Sizes
  <2> QED
    BY <2>1, PosDef DEF Slots
<1>3. ASSUME NEW k \in 0 .. qsize - 1, NEW l \in 0 .. qsize - 1, Pos(a, k) = Pos(a, l)
      PROVE  k = l
  <2>1. /\ a + k \in Int /\ a + l \in Int /\ k \in Nat /\ l \in Nat
        /\ -qsize < (a + k) - (a + l) /\ (a + k) - (a + l) < qsize
    BY <1>1, Sizes
  <2>2. (a + k) % qsize = (a + l) % qsize
    BY <1>3, <2>1, PosDef, Zenon
  <2>3. qsize \in Nat \ {0}
    BY Sizes
  <2>4. a + k = a + l
    BY <2>1, <2>2, <2>3, Apart, Zenon
  <2> QED
    BY <1>1, <2>1, <2>4
<1>4. ASSUME NEW k \in Nat PROVE Pos(Succ(a), k) = Pos(a, k + 1)
  <2>1. CASE a = IdxMod - 1
    <3>1. Succ(a) = 0 /\ 0 \in Idx /\ k + 1 \in Nat /\ 0 + k = k /\ k \in Int
      BY <2>1, SuccDef, Sizes DEF Idx
    <3>2. Pos(Succ(a), k) = k % qsize
      BY <3>1, PosDef, Zenon
    <3>3. a + (k + 1) = k + IdxMod
      BY <2>1, Sizes
    <3>4. Pos(a, k + 1) = ((k + IdxMod) % IdxMod) % qsize
      BY <3>3, Zenon DEF Pos
    <3>5. (k + IdxMod) % IdxMod = k % IdxMod
      BY <3>1, Sizes, OneTurnMore
    <3>6. (k % IdxMod) % qsize = k % qsize
      BY <3>1, Sizes, TwiceReduced, Zenon
    <3> QED
      BY <3>2, <3>4, <3>5, <3>6, Zenon
  <2>2. CASE a # IdxMod - 1
    <3>1. Succ(a) = a + 1 /\ (a + 1) + k = a + (k + 1)
      BY <1>1, <2>2, SuccDef
    <3> QED
      BY <3>1, Zenon DEF Pos
  <2> QED
    BY <2>1, <2>2
<1>5. ASSUME NEW b \in Idx PROVE Pos(a, Dist(a, b)) = b % qsize
  <2>0. b \in Int /\ b % IdxMod = b
    BY Sizes DEF Idx
  <2>1. b % IdxMod = b /\ (b + IdxMod) % IdxMod = b % IdxMod
    BY <2>0, Sizes, OneTurnMore, Zenon
  <2>2. a + Dist(a, b) = b \/ a + Dist(a, b) = b + IdxMod
    BY DistDef, Sizes DEF Idx
  <2>3. (a + Dist(a, b)) % IdxMod = b
    BY <2>1, <2>2, Zenon
  <2> QED
    BY <2>3, Zenon DEF Pos
<1>6. Pos(a, 0) = a % qsize
  <2>1. 0 \in Nat /\ a + 0 = a
    BY <1>1
  <2> QED
    BY <2>1, PosDef, Zenon
<1> QED
  BY <1>2, <1>3, <1>4, <1>5, <1>6

-----------------------------------------------------------------------------
(***************************************************************************)
(* What is in flight.  The device completes buffers in the order they were *)
(* made available, so the used elements the driver has not read, followed  *)
(* by the available ones the device has not taken, are one queue.          *)
(***************************************************************************)
Entries == 0 .. QUEUE_SIZE_MAX - 1

Flight(used, avail, la, se, ui, k) ==
    IF k < Dist(se, ui) THEN used[Pos(se, k)].id ELSE avail[Pos(la, k - Dist(se, ui))]

(* A used element, or an entry of the available ring, is written. *)
UsedWritten(used, used2, avail, len, la, ai, se, ui) ==
    /\ DOMAIN used = Entries /\ la \in Idx /\ ai \in Idx /\ se \in Idx /\ ui \in Idx
    /\ la # ai /\ Dist(la, ai) + Dist(se, ui) <= qsize
    /\ used2 = [used EXCEPT ![ui % qsize] = [id |-> avail[la % qsize], len |-> len]]
AvailWritten(avail, avail2, v, la, ai, se, ui) ==
    /\ DOMAIN avail = Entries /\ la \in Idx /\ ai \in Idx /\ se \in Idx /\ ui \in Idx
    /\ Dist(la, ai) < qsize
    /\ avail2 = [avail EXCEPT ![ai % qsize] = v]

(* The device completes the first available buffer: the queue stays. *)
CompletedFlight(used, used2, avail, len, la, ai, se, ui) ==
    /\ Dist(Succ(la), ai) = Dist(la, ai) - 1
    /\ Dist(se, Succ(ui)) = Dist(se, ui) + 1
    /\ \A k \in 0 .. Dist(se, ui) - 1 : used2[Pos(se, k)] = used[Pos(se, k)]
    /\ used2[Pos(se, Dist(se, ui))] = [id |-> avail[la % qsize], len |-> len]
    /\ \A k \in 0 .. Dist(la, ai) + Dist(se, ui) - 1 :
          Flight(used2, avail, Succ(la), se, Succ(ui), k) = Flight(used, avail, la, se, ui, k)

LEMMA FlightCompleted ==
    ASSUME NEW used, NEW used2, NEW avail, NEW len, NEW la, NEW ai, NEW se, NEW ui,
           UsedWritten(used, used2, avail, len, la, ai, se, ui)
    PROVE  CompletedFlight(used, used2, avail, len, la, ai, se, ui)
<1>0. /\ DOMAIN used = Entries /\ la \in Idx /\ ai \in Idx /\ se \in Idx /\ ui \in Idx
      /\ la # ai /\ Dist(la, ai) + Dist(se, ui) <= qsize
      /\ used2 = [used EXCEPT ![ui % qsize] = [id |-> avail[la % qsize], len |-> len]]
  BY Zenon DEF UsedWritten
<1> DEFINE na == Dist(la, ai)
           nu == Dist(se, ui)
<1>1. /\ na \in Nat /\ nu \in Nat /\ na > 0 /\ nu \in 0 .. qsize - 1 /\ nu < IdxMod - 1
      /\ Dist(Succ(la), ai) = na - 1 /\ Dist(se, Succ(ui)) = nu + 1
  BY <1>0, DistFacts, Sizes
<1>2. /\ \A k \in Nat : Pos(se, k) \in Slots
      /\ \A k, l \in 0 .. qsize - 1 : Pos(se, k) = Pos(se, l) => k = l
      /\ Pos(se, nu) = ui % qsize
      /\ \A k \in Nat : Pos(Succ(la), k) = Pos(la, k + 1)
      /\ Pos(la, 0) = la % qsize
  BY <1>0, PosFacts
<1> HIDE DEF na, nu
<1>3. ui % qsize \in Entries
  BY <1>1, <1>2, Sizes DEF Entries
<1>4. ASSUME NEW k \in 0 .. nu - 1 PROVE used2[Pos(se, k)] = used[Pos(se, k)]
  <2>1. k \in Nat /\ k \in 0 .. qsize - 1 /\ k # nu
    BY <1>1, Sizes
  <2>2. Pos(se, k) # Pos(se, nu)
    BY <1>1, <1>2, <2>1, Zenon
  <2>3. Pos(se, k) # ui % qsize /\ Pos(se, k) \in Entries
    BY <1>2, <2>1, <2>2, Sizes, Zenon DEF Entries
  <2> QED
    BY <1>0, <2>3
<1>5. used2[Pos(se, nu)] = [id |-> avail[la % qsize], len |-> len]
  BY <1>0, <1>2, <1>3
<1>6. ASSUME NEW k \in 0 .. na + nu - 1
      PROVE  Flight(used2, avail, Succ(la), se, Succ(ui), k) = Flight(used, avail, la, se, ui, k)
  <2>1. CASE k < nu
    <3>1. k \in 0 .. nu - 1 /\ k < nu + 1
      BY <1>1, <2>1
    <3>2. Flight(used2, avail, Succ(la), se, Succ(ui), k) = used2[Pos(se, k)].id
      BY <1>1, <3>1 DEF Flight
    <3>3. Flight(used, avail, la, se, ui, k) = used[Pos(se, k)].id
      BY <2>1 DEF Flight, nu
    <3> QED
      BY <1>4, <3>1, <3>2, <3>3, Zenon
  <2>2. CASE k = nu
    <3>1. Flight(used2, avail, Succ(la), se, Succ(ui), k) = used2[Pos(se, k)].id
      BY <1>1, <2>2 DEF Flight
    <3>2. Flight(used, avail, la, se, ui, k) = avail[Pos(la, 0)]
      BY <1>1, <2>2 DEF Flight, nu
    <3> QED
      BY <1>2, <1>5, <2>2, <3>1, <3>2
  <2>3. CASE k > nu
    <3>1. k - (nu + 1) \in Nat /\ k - (nu + 1) + 1 = k - nu /\ ~(k < nu + 1) /\ ~(k < nu)
      BY <1>1, <2>3
    <3>2. Flight(used2, avail, Succ(la), se, Succ(ui), k) = avail[Pos(Succ(la), k - (nu + 1))]
      BY <1>1, <3>1 DEF Flight
    <3>3. Flight(used, avail, la, se, ui, k) = avail[Pos(la, k - nu)]
      BY <3>1 DEF Flight, nu
    <3> QED
      BY <1>2, <3>1, <3>2, <3>3
  <2> QED
    BY <1>1, <2>1, <2>2, <2>3
<1> QED
  BY <1>1, <1>4, <1>5, <1>6 DEF na, nu, CompletedFlight

(* The driver writes the ring entry of its next buffer: nobody sees it yet. *)
WrittenFlight(avail, avail2, v, la, ai, se, ui) ==
    /\ avail2[ai % qsize] = v
    /\ \A used : \A k \in 0 .. Dist(la, ai) + Dist(se, ui) - 1 :
          Flight(used, avail2, la, se, ui, k) = Flight(used, avail, la, se, ui, k)

LEMMA FlightWritten ==
    ASSUME NEW avail, NEW avail2, NEW v, NEW la, NEW ai, NEW se, NEW ui,
           AvailWritten(avail, avail2, v, la, ai, se, ui)
    PROVE  WrittenFlight(avail, avail2, v, la, ai, se, ui)
<1>0. /\ DOMAIN avail = Entries /\ la \in Idx /\ ai \in Idx /\ se \in Idx /\ ui \in Idx
      /\ Dist(la, ai) < qsize
      /\ avail2 = [avail EXCEPT ![ai % qsize] = v]
  BY Zenon DEF AvailWritten
<1> DEFINE na == Dist(la, ai)
           nu == Dist(se, ui)
<1>1. na \in Nat /\ nu \in Nat /\ na \in 0 .. qsize - 1
  BY <1>0, DistFacts, Sizes
<1>2. /\ \A k \in Nat : Pos(la, k) \in Slots
      /\ \A k, l \in 0 .. qsize - 1 : Pos(la, k) = Pos(la, l) => k = l
      /\ Pos(la, na) = ai % qsize
  BY <1>0, PosFacts
<1> HIDE DEF na, nu
<1>3. ai % qsize \in Entries
  BY <1>1, <1>2, Sizes DEF Entries
<1>4. ASSUME NEW used, NEW k \in 0 .. na + nu - 1
      PROVE  Flight(used, avail2, la, se, ui, k) = Flight(used, avail, la, se, ui, k)
  <2>1. CASE k < nu
    BY <2>1 DEF Flight, nu
  <2>2. CASE ~(k < nu)
    <3>1. k - nu \in Nat /\ k - nu \in 0 .. qsize - 1 /\ k - nu # na
      BY <1>1, <2>2, Sizes
    <3>2. Pos(la, k - nu) # ai % qsize /\ Pos(la, k - nu) \in Entries
      BY <1>1, <1>2, <3>1, Sizes, Zenon DEF Entries
    <3>3. avail2[Pos(la, k - nu)] = avail[Pos(la, k - nu)]
      BY <1>0, <3>2
    <3> QED
      BY <2>2, <3>3 DEF Flight, nu
  <2> QED
    BY <2>1, <2>2
<1> QED
  BY <1>0, <1>3, <1>4 DEF na, nu, WrittenFlight

(* The driver publishes that entry: it joins the queue at the end. *)
PushedFlight(used, avail, la, ai, se, ui) ==
    /\ Dist(la, Succ(ai)) = Dist(la, ai) + 1
    /\ Flight(used, avail, la, se, ui, Dist(la, ai) + Dist(se, ui)) = avail[ai % qsize]

LEMMA FlightPushed ==
    ASSUME NEW used, NEW avail,
           NEW la \in Idx, NEW ai \in Idx, NEW se \in Idx, NEW ui \in Idx,
           Dist(la, ai) < qsize
    PROVE  PushedFlight(used, avail, la, ai, se, ui)
<1>1. Dist(la, ai) \in Nat /\ Dist(se, ui) \in Nat /\ Dist(la, ai) < IdxMod - 1
  BY DistFacts, Sizes
<1>2. Dist(la, Succ(ai)) = Dist(la, ai) + 1 /\ Pos(la, Dist(la, ai)) = ai % qsize
  BY <1>1, DistFacts, PosFacts
<1>3. /\ ~(Dist(la, ai) + Dist(se, ui) < Dist(se, ui))
      /\ (Dist(la, ai) + Dist(se, ui)) - Dist(se, ui) = Dist(la, ai)
  BY <1>1
<1> QED
  BY <1>2, <1>3 DEF Flight, PushedFlight

(* The driver is done with the first used element: the others move up. *)
TakenFlight(used, avail, la, se, ui) ==
    /\ Dist(Succ(se), ui) = Dist(se, ui) - 1
    /\ \A k \in Nat : Pos(Succ(se), k) = Pos(se, k + 1)
    /\ \A k \in Nat : Flight(used, avail, la, Succ(se), ui, k) = Flight(used, avail, la, se, ui, k + 1)

LEMMA FlightTaken ==
    ASSUME NEW used, NEW avail,
           NEW la \in Idx, NEW se \in Idx, NEW ui \in Idx, se # ui
    PROVE  TakenFlight(used, avail, la, se, ui)
<1>1. Dist(se, ui) \in Nat /\ Dist(Succ(se), ui) = Dist(se, ui) - 1
  BY DistFacts, Sizes
<1>2. \A k \in Nat : Pos(Succ(se), k) = Pos(se, k + 1)
  BY PosFacts
<1>3. ASSUME NEW k \in Nat
      PROVE  Flight(used, avail, la, Succ(se), ui, k) = Flight(used, avail, la, se, ui, k + 1)
  <2>1. /\ k < Dist(se, ui) - 1 <=> k + 1 < Dist(se, ui)
        /\ k - (Dist(se, ui) - 1) = (k + 1) - Dist(se, ui)
    BY <1>1
  <2> QED
    BY <1>1, <1>2, <2>1 DEF Flight
<1> QED
  BY <1>1, <1>2, <1>3 DEF TakenFlight

-----------------------------------------------------------------------------
(* Counting what is in flight *)

Numbers(n, f, T) == /\ n \in Nat /\ f \in [0 .. n - 1 -> T]
                    /\ \A k, l \in 0 .. n - 1 : f[k] = f[l] => k = l
Numbered(n, f) == {f[k] : k \in 0 .. n - 1}

LEMMA Counting ==
    ASSUME NEW n, NEW f, NEW T, Numbers(n, f, T)
    PROVE  IsFiniteSet(Numbered(n, f)) /\ Cardinality(Numbered(n, f)) = n
<1>0. n \in Nat /\ f \in [0 .. n - 1 -> T] /\ \A k, l \in 0 .. n - 1 : f[k] = f[l] => k = l
  BY Zenon DEF Numbers
<1> DEFINE S == 0 .. n - 1
           R == {f[k] : k \in S}
<1>1. IsFiniteSet(S) /\ Cardinality(S) = n
  <2>1. 0 \in Int /\ n - 1 \in Int
    BY <1>0
  <2>2. IsFiniteSet(S) /\ Cardinality(S) = IF 0 > n - 1 THEN 0 ELSE (n - 1) - 0 + 1
    BY <2>1, FS_Interval
  <2> QED
    BY <1>0, <2>2
<1>2. f \in Injection(S, R) /\ f \in Surjection(S, R)
  BY <1>0 DEF Injection, IsInjective, Surjection
<1> HIDE DEF S, R
<1>3. IsFiniteSet(R) /\ Cardinality(R) = Cardinality(S)
  BY <1>1, <1>2, FS_Surjection
<1> QED
  BY <1>1, <1>3 DEF S, R, Numbered

(* As many different slots as there are, are all of them. *)
LEMMA Pigeons ==
    ASSUME NEW n, NEW f, Numbers(n, f, Slots)
    PROVE  n <= qsize /\ (n = qsize => Numbered(n, f) = Slots)
<1> DEFINE R == Numbered(n, f)
<1>1. IsFiniteSet(R) /\ Cardinality(R) = n
  BY Counting, Zenon
<1>2. IsFiniteSet(Slots) /\ Cardinality(Slots) = qsize
  <2>1. 0 \in Int /\ qsize - 1 \in Int
    BY Sizes
  <2>2. IsFiniteSet(Slots) /\ Cardinality(Slots) = IF 0 > qsize - 1 THEN 0 ELSE (qsize - 1) - 0 + 1
    BY <2>1, FS_Interval DEF Slots
  <2> QED
    BY <2>2, Sizes
<1>3. R \in SUBSET Slots
  BY DEF Numbers, Numbered
<1>4. Cardinality(R) <= Cardinality(Slots) /\ (Cardinality(Slots) = Cardinality(R) => Slots = R)
  BY <1>2, <1>3, FS_Subset
<1> QED
  BY <1>1, <1>2, <1>4

(* The indices between two are as many as their distance. *)
LEMMA WindowFacts ==
    ASSUME NEW a \in Idx, NEW b \in Idx
    PROVE  /\ Window(a, b) = {(a + k) % IdxMod : k \in 0 .. Dist(a, b) - 1}
           /\ Cardinality(Window(a, b)) = Dist(a, b)
           /\ Window(a, b) = {} <=> a = b
<1>1. Window(a, b) = {(a + k) % IdxMod : k \in 0 .. Dist(a, b) - 1}
  BY DEF Window, Dist
<1>2. Dist(a, b) \in Nat /\ Dist(a, b) < IdxMod /\ (Dist(a, b) = 0 <=> a = b) /\ a \in Int
  <2>1. Dist(a, b) \in 0 .. IdxMod - 1 /\ (Dist(a, b) = 0 <=> a = b)
    BY DistFacts, Zenon
  <2> QED
    BY <2>1, Sizes DEF Idx
<1> DEFINE n == Dist(a, b)
           f == [k \in 0 .. n - 1 |-> (a + k) % IdxMod]
<1>3. ASSUME NEW k \in 0 .. n - 1, NEW l \in 0 .. n - 1, f[k] = f[l] PROVE k = l
  <2>1. (a + k) % IdxMod = (a + l) % IdxMod
    BY <1>3
  <2>2. a + k \in Int /\ a + l \in Int /\ -IdxMod < (a + k) - (a + l) /\ (a + k) - (a + l) < IdxMod
    BY <1>2, Sizes
  <2>3. a + k = a + l
    BY <2>1, <2>2, Sizes, Apart, Zenon
  <2> QED
    BY <1>2, <2>3
<1>4. Numbered(n, f) = Window(a, b)
  BY <1>1 DEF Numbered
<1>5. Numbers(n, f, Numbered(n, f))
  BY <1>2, <1>3 DEF Numbers, Numbered
<1> HIDE DEF f, n
<1>6. Cardinality(Numbered(n, f)) = n
  BY <1>5, Counting, Zenon
<1>7. Window(a, b) = {} <=> n = 0
  BY <1>1, <1>2 DEF n
<1> QED
  BY <1>1, <1>2, <1>4, <1>6, <1>7 DEF n


-----------------------------------------------------------------------------
(* A queue's registers and ring, by name *)

la(q) == net.queue[q].last_avail
enabled(q) == net.queue[q].enabled
na(q) == Dist(la(q), vring[q].avail_idx)
nu(q) == Dist(seen[q], vring[q].used_idx)
Id(q, k) == Flight(vring[q].used, vring[q].avail, la(q), seen[q], vring[q].used_idx, k)
UsedAt(q, k) == vring[q].used[Pos(seen[q], k)]
NextEntry(q) == vring[q].avail[vring[q].avail_idx % qsize]

FrameOf(i) == [id |-> i, type |-> Arrivals[i].type, len |-> Arrivals[i].len]
Frames == {FrameOf(i) : i \in 1 .. Len(Arrivals)}
Deliveries == [id : 1 .. Len(Arrivals), type : {Arrivals[i].type : i \in 1 .. Len(Arrivals)},
               len : Nat, to : Reads, issue : Nat]
SentData == {<<d>> : d \in Writes \X Nat}
RxDesc == [NoDesc EXCEPT !.len = RxBufSize, !.write = TRUE]
TxDesc(w, r) == [NoDesc EXCEPT !.len = ChainLen(r.len), !.data = <<w, r.issue>>]

(* The used length of a slot whose request is r, and what is then on the wire. *)
UsedLen(r) == IF DeviceTakes(r.len) THEN ChainLen(r.len) ELSE 0
Once(r) == IF DeviceTakes(r.len) THEN 1 ELSE 0

Parts == {"desc", "driver", "device"}
Descriptors == [ram : BOOLEAN, len : Nat, write : BOOLEAN, indirect : BOOLEAN,
                more : BOOLEAN, next : Nat, data : {NoData} \cup (Writes \X Nat)]
StatusBits == {"ACKNOWLEDGE", "DRIVER", "FEATURES_OK", "DRIVER_OK", "FAILED", "NEEDS_RESET"}
Regs == [size : Nat, enabled : BOOLEAN, in_ram : SUBSET Parts, last_avail : Idx, used : Idx]
Rings == [desc : [Entries -> Descriptors], avail : [Entries -> Entries], avail_idx : Idx,
          used : [Entries -> [id : Entries, len : Nat]], used_idx : Idx]
InRunning == {"int_server", "driver_ok", "set_ready", "ready"}
Loading == {"unloaded", "rx_queue", "tx_queue", "buffers"}
Handling == {"out", "isr", "rx_idx", "rx", "rx_post", "rx_push", "tx_idx", "tx", "exit"}

ReqStates == {"done", "checked", "pending", "filling", "sending"}
Results == {"none", "ok", "error"}
ReqRecs == [state : ReqStates, issue : Nat, result : Results, len : Nat]

NetType == [status : SUBSET StatusBits, acked : SUBSET OfferedFeatures, driver_select : Nat,
            queue : [Queues -> Regs], isr : BOOLEAN]

CardTypes ==
    /\ net \in NetType
    /\ vring \in [Queues -> Rings]
    /\ rxbuf \in [Entries -> Frames \cup {NoData}]
    /\ engine \in {"idle", "tx", "rx"} /\ inbox \in Seq(Frames) /\ sent \in Seq(SentData)
    /\ intx \in BOOLEAN /\ ports \in BOOLEAN

UnitTypes ==
    /\ devinit \in Loading \cup InRunning
    /\ unit \in [open : BOOLEAN, configured : BOOLEAN, online : BOOLEAN]
    /\ req \in [Reqs -> ReqRecs]
    /\ pending \in Seq(Reads) /\ slot \in [Slots -> Writes \cup {"free"}]
    /\ shadow \in [Queues -> Idx] /\ seen \in [Queues -> Idx]
    /\ locked \in Writes \cup {"none"}
    /\ pc \in Handling /\ dev_idx \in Idx /\ entry \in Entries
    /\ arrived \in 0 .. Len(Arrivals) /\ delivered \in Seq(Deliveries)

Types == CardTypes /\ UnitTypes

(* How far the driver has come says which queues the device serves. *)
Phases ==
    /\ "NEEDS_RESET" \notin net.status
    /\ devinit \in {"rx_queue", "tx_queue", "buffers", "int_server", "driver_ok"}
          => "FEATURES_OK" \in net.status
    /\ devinit \in {"tx_queue", "buffers"} \cup InRunning => enabled("rx")
    /\ devinit \in {"buffers"} \cup InRunning => enabled("tx")
    /\ devinit = "rx_queue" => ~enabled("rx")
    /\ devinit \in {"rx_queue", "tx_queue"} => ~enabled("tx")
    /\ devinit \in {"driver_ok", "set_ready", "ready"} => intx
    /\ devinit # "ready" => /\ ~unit.open /\ locked = "none" /\ pc = "out"
                            /\ \A i \in Slots : slot[i] = "free"

(* A queue in use has the driver's size and addresses, and the device's copy
   of its used index; the driver's shadow is the available index. *)
RegistersOf(q) ==
    /\ shadow[q] = vring[q].avail_idx
    /\ ~enabled(q) => net.queue[q] = QueueReset
    /\ enabled(q) => /\ net.queue[q].size = qsize /\ net.queue[q].in_ram = Parts
                     /\ net.queue[q].used = vring[q].used_idx
Registers == \A q \in Queues : RegistersOf(q)

(* The receive buffers in flight are those posted so far, each once. *)
Posted == IF Running THEN qsize ELSE shadow["rx"]
RxFlight ==
    enabled("rx") =>
        /\ ~Running => shadow["rx"] < qsize
        /\ na("rx") + nu("rx") = Posted
        /\ \A k \in 0 .. Posted - 1 : Id("rx", k) \in 0 .. Posted - 1
        /\ \A k, l \in 0 .. Posted - 1 : Id("rx", k) = Id("rx", l) => k = l
        /\ \A i \in 0 .. Posted - 1 : vring["rx"].desc[i] = RxDesc

(* The handler is between two used elements, or has one in hand. *)
Handler ==
    /\ pc \in {"rx", "rx_post", "rx_push"} => Dist(seen["rx"], dev_idx) <= nu("rx")
    /\ pc \in {"rx_post", "rx_push"} => seen["rx"] # dev_idx /\ entry = Id("rx", 0)
    /\ pc = "rx_push" => NextEntry("rx") = entry
    /\ pc = "tx" => Dist(seen["tx"], dev_idx) <= nu("tx")

(* A request owns at most one slot, from its allocation to its answer. *)
SlotOwners ==
    /\ \A i, j \in Slots : slot[i] = slot[j] /\ slot[i] # "free" => i = j
    /\ \A i \in Slots : slot[i] # "free" => req[slot[i]].state \in {"filling", "sending"}
    /\ \A r \in Reads : req[r].state \in {"done", "checked", "pending"}
    /\ \A w \in Writes : /\ req[w].state \in {"done", "filling", "sending"}
                         /\ req[w].state # "done" => \E i \in Slots : slot[i] = w
    /\ locked # "none" => req[locked].state = "sending"

(* A slot is in flight from the push to the handler's answer. *)
TxFlight ==
    enabled("tx") =>
        /\ na("tx") + nu("tx") <= qsize
        /\ \A k \in 0 .. na("tx") + nu("tx") - 1 :
              /\ Id("tx", k) \in Slots /\ slot[Id("tx", k)] # "free"
              /\ req[slot[Id("tx", k)]].state = "sending" /\ slot[Id("tx", k)] # locked
        /\ \A k, l \in 0 .. na("tx") + nu("tx") - 1 : Id("tx", k) = Id("tx", l) => k = l
        /\ \A i \in Slots : slot[i] # "free" /\ req[slot[i]].state = "sending" =>
              /\ vring["tx"].desc[i] = TxDesc(slot[i], req[slot[i]])
              /\ slot[i] # locked => \E k \in 0 .. na("tx") + nu("tx") - 1 : Id("tx", k) = i
              /\ slot[i] = locked => NextEntry("tx") = i

(* The list of reads, without duplicates. *)
PendingReads ==
    /\ \A i, j \in 1 .. Len(pending) : pending[i] = pending[j] => i = j
    /\ \A r \in Reads : req[r].state = "pending" <=> \E i \in 1 .. Len(pending) : pending[i] = r
    /\ ~unit.open => \A r \in Reqs : req[r].state \notin {"checked", "pending", "filling"}

(* Frames move in their order: given to readers, in used buffers, in the
   back end, still to arrive. *)
Ascending(s) == \A i, j \in 1 .. Len(s) : i < j => s[i].id < s[j].id
FrameAt(k) == rxbuf[Id("rx", k)]
FirstUnread == IF pc \in {"rx_post", "rx_push"} THEN 1 ELSE 0
FramesInOrder ==
    /\ Ascending(inbox) /\ Ascending(delivered)
    /\ \A j \in 1 .. Len(inbox) : inbox[j].id <= arrived
    /\ \A i \in 1 .. Len(delivered) :
          /\ delivered[i].id <= arrived /\ delivered[i].len > EthHdrLen
          /\ \A j \in 1 .. Len(inbox) : delivered[i].id < inbox[j].id
    /\ enabled("rx") =>
        /\ \A k \in 0 .. nu("rx") - 1 :
              /\ FrameAt(k) \in Frames /\ UsedAt("rx", k).len = HdrLen + FrameAt(k).len
              /\ FrameAt(k).id <= arrived
              /\ \A l \in 0 .. nu("rx") - 1 : k < l => FrameAt(k).id < FrameAt(l).id
              /\ \A j \in 1 .. Len(inbox) : FrameAt(k).id < inbox[j].id
              /\ k >= FirstUnread => \A i \in 1 .. Len(delivered) : delivered[i].id < FrameAt(k).id

(* What readers were given, and what their requests say of it. *)
DeliveredAsAsked(d) ==
    /\ d.type = Arrivals[d.id].type /\ d.len = Arrivals[d.id].len /\ Matches(d.to, d)
    /\ d.issue <= req[d.to].issue
Given(r, n) == \E i \in 1 .. Len(delivered) : delivered[i].to = r /\ delivered[i].issue = n
ReadSaysSo(r) ==
    /\ req[r].state # "done" => req[r].result = "none"
    /\ req[r].result = "ok" <=> Given(r, req[r].issue)
OneFrameARead ==
    \A i, j \in 1 .. Len(delivered) :
       delivered[i].to = delivered[j].to /\ delivered[i].issue = delivered[j].issue => i = j
DeliveriesAnswer ==
    /\ \A i \in 1 .. Len(delivered) : DeliveredAsAsked(delivered[i])
    /\ \A r \in Reads : ReadSaysSo(r)
    /\ OneFrameARead

(* What went to the network, per request. *)
SentOnce ==
    \A w \in Writes :
        /\ \A n \in Nat : n > req[w].issue => Times(<<w, n>>) = 0
        /\ req[w].state = "filling" => Times(<<w, req[w].issue>>) = 0
        /\ req[w].state = "done" /\ req[w].result = "error" => Times(<<w, req[w].issue>>) = 0
        /\ req[w].state = "done" /\ req[w].result = "ok" => Times(<<w, req[w].issue>>) = Once(req[w])
        /\ \A i \in Slots : slot[i] = w /\ req[w].state = "sending" =>
              Times(<<w, req[w].issue>>)
                = IF \E k \in 0 .. nu("tx") - 1 : Id("tx", k) = i THEN Once(req[w]) ELSE 0

(* What the handler has yet to see, it will. *)
Signalled ==
    \A q \in Queues : enabled(q) /\ seen[q] # vring[q].used_idx =>
        \/ net.isr
        \/ pc \in WillRead[q]
        \/ pc \in (IF q = "rx" THEN {"rx", "rx_post", "rx_push"} ELSE {"tx"}) /\ dev_idx = vring[q].used_idx

NetInv == /\ Types /\ Phases /\ Registers /\ RxFlight /\ Handler /\ SlotOwners
          /\ TxFlight /\ PendingReads /\ FramesInOrder
          /\ DeliveriesAnswer /\ SentOnce /\ Signalled

-----------------------------------------------------------------------------
(* What the constants and the register operators are *)

LEMMA Constants ==
    /\ HdrLen \in Nat \ {0} /\ MaxPayload \in Nat \ {0} /\ MaxTotal \in Nat /\ HdrLen <= MaxTotal
    /\ EthHdrLen \in Nat /\ "free" \notin Reqs /\ "none" \notin Reqs /\ Reads \cap Writes = {}
    /\ Len(Arrivals) \in Nat /\ 0 \in Idx /\ 0 \in Entries /\ "rx" \in Queues /\ "tx" \in Queues
    /\ Slots \subseteq Entries /\ "rx" # "tx"
BY VirtioAssumption, DriverAssumption, Sizes DEF MaxTotal, Idx, Entries, Queues

(* A buffer has room for any frame, and a chain for the header. *)
LEMMA Lengths ==
    /\ RxBufSize \in Nat /\ HdrLen + MaxPayload <= RxBufSize
    /\ \A n \in Nat : ChainLen(n) \in Nat /\ HdrLen <= ChainLen(n)
BY VirtioAssumption, DriverAssumption DEF RxBufSize, ChainLen

LEMMA FrameFacts ==
    ASSUME NEW f \in Frames
    PROVE  f.id \in 1 .. Len(Arrivals) /\ f.len \in 0 .. MaxPayload
BY DriverAssumption DEF Frames, FrameOf

(* The operators on the registers, field by field. *)
LEMMA ReadIsr ==
    ASSUME NEW n \in NetType
    PROVE  /\ read_isr(n) \in NetType /\ read_isr(n).queue = n.queue /\ read_isr(n).isr = FALSE
           /\ read_isr(n).status = n.status
BY DEF NetType, read_isr

LEMMA WriteStatus ==
    ASSUME NEW n \in NetType, NEW bits \in SUBSET StatusBits, bits # {}
    PROVE  /\ write_device_status(n, bits) \in NetType
           /\ write_device_status(n, bits).queue = n.queue
           /\ write_device_status(n, bits).isr = n.isr
           /\ write_device_status(n, bits).acked = n.acked
           /\ write_device_status(n, bits).driver_select = n.driver_select
           /\ "FEATURES_OK" \in n.status => write_device_status(n, bits).status =
                 IF "DRIVER_OK" \in bits /\ "FEATURES_OK" \notin bits
                 THEN (bits \ {"DRIVER_OK"}) \cup {"NEEDS_RESET"} ELSE bits
           /\ "DRIVER_OK" \notin bits /\ "NEEDS_RESET" \notin bits
                 => "NEEDS_RESET" \notin write_device_status(n, bits).status
           /\ write_device_status(n, bits).status \subseteq bits \cup {"NEEDS_RESET"}
<1> DEFINE accepted == IF "FEATURES_OK" \notin n.status /\ "VERSION_1" \notin n.acked
                       THEN bits \ {"FEATURES_OK"} ELSE bits
           granted == IF "DRIVER_OK" \in accepted /\ "FEATURES_OK" \notin accepted
                      THEN (accepted \ {"DRIVER_OK"}) \cup {"NEEDS_RESET"} ELSE accepted
<1>1. write_device_status(n, bits) = [n EXCEPT !.status = granted]
  BY Zenon DEF write_device_status
<1>2. granted \in SUBSET StatusBits
  BY DEF StatusBits
<1>3. granted \subseteq bits \cup {"NEEDS_RESET"}
  OBVIOUS
<1>4. "FEATURES_OK" \in n.status => granted =
          IF "DRIVER_OK" \in bits /\ "FEATURES_OK" \notin bits
          THEN (bits \ {"DRIVER_OK"}) \cup {"NEEDS_RESET"} ELSE bits
  OBVIOUS
<1>5. "DRIVER_OK" \notin bits /\ "NEEDS_RESET" \notin bits => "NEEDS_RESET" \notin granted
  OBVIOUS
<1> HIDE DEF granted
<1> QED
  BY <1>1, <1>2, <1>3, <1>4, <1>5 DEF NetType

LEMMA ResetRegisters ==
    /\ Reset \in NetType /\ Reset.status = {}
    /\ \A q \in Queues : Reset.queue[q] = QueueReset
    /\ QueueReset \in Regs /\ QueueReset.enabled = FALSE /\ QueueReset.size = QUEUE_SIZE_MAX
BY Sizes, Constants DEF Reset, NetType, QueueReset, Regs, Parts

LEMMA SetQueue ==
    ASSUME NEW n \in NetType, NEW q \in Queues, NEW r \in Regs
    PROVE  /\ with_queue(n, q, r) \in NetType
           /\ with_queue(n, q, r).status = n.status /\ with_queue(n, q, r).isr = n.isr
           /\ with_queue(n, q, r).queue[q] = r
           /\ \A p \in Queues : p # q => with_queue(n, q, r).queue[p] = n.queue[p]
<1> DEFINE m == with_queue(n, q, r)
<1>1. n.queue \in [Queues -> Regs]
  BY DEF NetType
<1>2. m.queue = [n.queue EXCEPT ![q] = r] /\ m.status = n.status /\ m.isr = n.isr
  BY DEF NetType, with_queue
<1>3. m.queue \in [Queues -> Regs]
  BY <1>1, <1>2
<1>4. m \in NetType
  BY <1>3 DEF NetType, with_queue
<1> QED
  BY <1>1, <1>2, <1>4

(* setup_queue's register writes, on a queue that is not in use. *)
ProgramsQueue(n, q, m) ==
    /\ n \in NetType /\ n.queue[q] = QueueReset
    /\ m = enable_queue(program_queue(n, q, qsize, Parts), q)
QueueProgrammed(n, q, m) ==
    /\ m \in NetType /\ m.status = n.status /\ m.isr = n.isr
    /\ m.queue[q].size = qsize /\ m.queue[q].enabled = TRUE /\ m.queue[q].in_ram = Parts
    /\ m.queue[q].last_avail = 0 /\ m.queue[q].used = 0
    /\ \A p \in Queues : p # q => m.queue[p] = n.queue[p]

LEMMA ProgramQueue ==
    ASSUME NEW q \in Queues, NEW n, NEW m, ProgramsQueue(n, q, m)
    PROVE  QueueProgrammed(n, q, m)
<1>0. n \in NetType /\ n.queue[q] = QueueReset /\ m = enable_queue(program_queue(n, q, qsize, Parts), q)
  BY Zenon DEF ProgramsQueue
<1>1. n.queue[q] \in Regs /\ n.queue[q].enabled = FALSE /\ qsize \in Nat /\ 0 \in Idx
  BY <1>0, ResetRegisters, Sizes, Constants
<1> DEFINE a == program_queue(n, q, qsize, Parts)
           r == [n.queue[q] EXCEPT !.size = qsize, !.in_ram = Parts]
           t == [r EXCEPT !.enabled = TRUE, !.last_avail = 0, !.used = 0]
<1>2. a = with_queue(n, q, r)
  BY <1>1, Zenon DEF program_queue
<1>3. r \in Regs /\ r.size = qsize /\ r.in_ram = Parts /\ r.enabled = FALSE
  BY <1>1 DEF Regs
<1>4. m = enable_queue(a, q)
  BY <1>0
<1> HIDE DEF a, r
<1>5. /\ t \in Regs /\ t.size = qsize /\ t.in_ram = Parts /\ t.enabled = TRUE
      /\ t.last_avail = 0 /\ t.used = 0
  BY <1>1, <1>3 DEF Regs
<1>6. /\ a \in NetType /\ a.status = n.status /\ a.isr = n.isr /\ a.queue[q] = r
      /\ \A p \in Queues : p # q => a.queue[p] = n.queue[p]
  <2> DEFINE b == with_queue(n, q, r)
  <2>1. /\ b \in NetType /\ b.status = n.status /\ b.isr = n.isr /\ b.queue[q] = r
        /\ \A p \in Queues : p # q => b.queue[p] = n.queue[p]
    <3>1. r \in Regs
      BY <1>3
    <3> QED
      BY <1>0, <3>1, SetQueue
  <2> HIDE DEF b
  <2> QED
    BY <1>2, <2>1 DEF b
<1>7. m = with_queue(a, q, [a.queue[q] EXCEPT !.enabled = TRUE, !.last_avail = 0, !.used = 0])
  <2>1. ~a.queue[q].enabled
    BY <1>3, <1>6
  <2> QED
    BY <1>4, <2>1, Zenon DEF enable_queue
<1>8. m = with_queue(a, q, t)
  BY <1>6, <1>7, Zenon
<1> HIDE DEF t
<1>9. /\ m \in NetType /\ m.status = a.status /\ m.isr = a.isr /\ m.queue[q] = t
      /\ \A p \in Queues : p # q => m.queue[p] = a.queue[p]
  <2> DEFINE b == with_queue(a, q, t)
  <2>1. /\ b \in NetType /\ b.status = a.status /\ b.isr = a.isr /\ b.queue[q] = t
        /\ \A p \in Queues : p # q => b.queue[p] = a.queue[p]
    <3>1. t \in Regs /\ a \in NetType
      BY <1>5, <1>6
    <3> QED
      BY <3>1, SetQueue, Zenon
  <2> HIDE DEF b
  <2> QED
    BY <1>8, <2>1 DEF b
<1> QED
  BY <1>5, <1>6, <1>9 DEF QueueProgrammed

(* used_published, the same. *)
LEMMA UsedPublished ==
    ASSUME NEW n \in NetType, NEW q \in Queues
    PROVE  /\ used_published(n, q) \in NetType
           /\ used_published(n, q).status = n.status /\ used_published(n, q).isr = TRUE
           /\ used_published(n, q).queue[q].size = n.queue[q].size
           /\ used_published(n, q).queue[q].enabled = n.queue[q].enabled
           /\ used_published(n, q).queue[q].in_ram = n.queue[q].in_ram
           /\ used_published(n, q).queue[q].last_avail = Succ(n.queue[q].last_avail)
           /\ used_published(n, q).queue[q].used = Succ(n.queue[q].used)
           /\ \A p \in Queues : p # q => used_published(n, q).queue[p] = n.queue[p]
<1> DEFINE m == used_published(n, q)
<1>1. n.queue[q] \in Regs /\ n.queue[q].last_avail \in Idx /\ n.queue[q].used \in Idx
  BY DEF NetType, Regs
<1>2. Succ(n.queue[q].last_avail) \in Idx /\ Succ(n.queue[q].used) \in Idx
  BY <1>1, SuccDef
<1> DEFINE r == [n.queue[q] EXCEPT !.used = Succ(@), !.last_avail = Succ(@)]
           a == with_queue(n, q, r)
<1>3. m = [a EXCEPT !.isr = TRUE]
  BY Zenon DEF used_published
<1>4. /\ r \in Regs /\ r.size = n.queue[q].size /\ r.enabled = n.queue[q].enabled
      /\ r.in_ram = n.queue[q].in_ram
      /\ r.last_avail = Succ(n.queue[q].last_avail) /\ r.used = Succ(n.queue[q].used)
  BY <1>1, <1>2 DEF Regs
<1> HIDE DEF r
<1>5. /\ a \in NetType /\ a.status = n.status /\ a.queue[q] = r
      /\ \A p \in Queues : p # q => a.queue[p] = n.queue[p]
  BY <1>4, SetQueue, Zenon
<1> HIDE DEF a
<1>7. m \in NetType /\ m.queue = a.queue /\ m.status = a.status /\ m.isr = TRUE
  BY <1>3, <1>5 DEF NetType
<1> QED
  BY <1>4, <1>5, <1>7

(* The same for the rings. *)
SetsUsed(v, w, q, i, e, x) == w = [v EXCEPT ![q] = [@ EXCEPT !.used[i] = e, !.used_idx = x]]
SetsAvail(v, w, q, i, k, d) == w = [v EXCEPT ![q] = [@ EXCEPT !.desc[k] = d, !.avail[i] = k]]
SetsAvailIdx(v, w, q, x) == w = [v EXCEPT ![q].avail_idx = x]

LEMMA SetUsed ==
    ASSUME NEW v \in [Queues -> Rings], NEW q \in Queues, NEW i \in Entries,
           NEW e \in [id : Entries, len : Nat], NEW x \in Idx,
           NEW w, SetsUsed(v, w, q, i, e, x)
    PROVE  /\ w \in [Queues -> Rings]
           /\ w[q].used = [v[q].used EXCEPT ![i] = e] /\ w[q].used_idx = x
           /\ w[q].avail = v[q].avail /\ w[q].avail_idx = v[q].avail_idx /\ w[q].desc = v[q].desc
           /\ \A p \in Queues : p # q => w[p] = v[p]
<1> DEFINE r == [v[q] EXCEPT !.used[i] = e, !.used_idx = x]
<1>1. v[q] \in Rings
  OBVIOUS
<1>2. /\ r.used = [v[q].used EXCEPT ![i] = e] /\ r.used_idx = x
      /\ r.avail = v[q].avail /\ r.avail_idx = v[q].avail_idx /\ r.desc = v[q].desc
  BY <1>1 DEF Rings
<1>3. v[q].used \in [Entries -> [id : Entries, len : Nat]]
  BY <1>1 DEF Rings
<1>4. [v[q].used EXCEPT ![i] = e] \in [Entries -> [id : Entries, len : Nat]]
  BY <1>3
<1>5. r \in Rings
  BY <1>1, <1>2, <1>4 DEF Rings
<1>6. w = [v EXCEPT ![q] = r]
  BY DEF SetsUsed
<1> HIDE DEF r
<1>7. w \in [Queues -> Rings] /\ w[q] = r /\ \A p \in Queues : p # q => w[p] = v[p]
  BY <1>5, <1>6
<1> QED
  BY <1>2, <1>7

LEMMA SetAvail ==
    ASSUME NEW v \in [Queues -> Rings], NEW q \in Queues, NEW i \in Entries, NEW k \in Entries,
           NEW d \in Descriptors,
           NEW w, SetsAvail(v, w, q, i, k, d)
    PROVE  /\ w \in [Queues -> Rings]
           /\ w[q].desc = [v[q].desc EXCEPT ![k] = d] /\ w[q].avail = [v[q].avail EXCEPT ![i] = k]
           /\ w[q].used = v[q].used /\ w[q].avail_idx = v[q].avail_idx /\ w[q].used_idx = v[q].used_idx
           /\ \A p \in Queues : p # q => w[p] = v[p]
<1> DEFINE r == [v[q] EXCEPT !.desc[k] = d, !.avail[i] = k]
<1>1. v[q] \in Rings
  OBVIOUS
<1>2. /\ r.desc = [v[q].desc EXCEPT ![k] = d] /\ r.avail = [v[q].avail EXCEPT ![i] = k]
      /\ r.used = v[q].used /\ r.avail_idx = v[q].avail_idx /\ r.used_idx = v[q].used_idx
  BY <1>1 DEF Rings
<1>3. v[q].desc \in [Entries -> Descriptors] /\ v[q].avail \in [Entries -> Entries]
  BY <1>1 DEF Rings
<1>4. /\ [v[q].desc EXCEPT ![k] = d] \in [Entries -> Descriptors]
      /\ [v[q].avail EXCEPT ![i] = k] \in [Entries -> Entries]
  BY <1>3
<1>5. r \in Rings
  BY <1>1, <1>2, <1>4 DEF Rings
<1>6. w = [v EXCEPT ![q] = r]
  BY DEF SetsAvail
<1> HIDE DEF r
<1>7. w \in [Queues -> Rings] /\ w[q] = r /\ \A p \in Queues : p # q => w[p] = v[p]
  BY <1>5, <1>6
<1> QED
  BY <1>2, <1>7

LEMMA SetAvailIdx ==
    ASSUME NEW v \in [Queues -> Rings], NEW q \in Queues, NEW x \in Idx,
           NEW w, SetsAvailIdx(v, w, q, x)
    PROVE  /\ w \in [Queues -> Rings] /\ w[q].avail_idx = x
           /\ w[q].desc = v[q].desc /\ w[q].avail = v[q].avail
           /\ w[q].used = v[q].used /\ w[q].used_idx = v[q].used_idx
           /\ \A p \in Queues : p # q => w[p] = v[p]
BY DEF Rings, SetsAvailIdx

LEMMA EmptyRingFacts ==
    /\ EmptyRing \in Rings /\ EmptyRing.avail_idx = 0 /\ EmptyRing.used_idx = 0
<1>1. NoDesc \in Descriptors
  BY Constants DEF NoDesc, Descriptors
<1> QED
  BY <1>1, Constants DEF EmptyRing, Rings, Entries

(* A chain of one link is over after the first: read whole, or refused. *)
LEMMA FirstLinkDecides ==
    ASSUME NEW q, NEW n, NEW h, NEW done, effective_queue_size(n, q) \in Nat \ {0},
           follow(n, q, ChainStart(h)) = done, done.state # "more"
    PROVE  copy_chain_out(n, q, h) = done
<1> DEFINE size == effective_queue_size(n, q)
           body(f) == [k \in 0 .. size |-> IF k = 0 THEN ChainStart(h) ELSE follow(n, q, f[k - 1])]
           walk == CHOOSE f : f = body(f)
           all == [k \in 0 .. size |-> IF k = 0 THEN ChainStart(h) ELSE done]
<1>1. follow(n, q, ChainStart(h)) = done
  OBVIOUS
<1>2. follow(n, q, done) = done
  BY DEF follow
<1>3. all = body(all)
  <2>1. ASSUME NEW k \in 0 .. size, k # 0 PROVE follow(n, q, all[k - 1]) = done
    <3>1. k - 1 \in 0 .. size
      BY <2>1
    <3>2. all[k - 1] = ChainStart(h) \/ all[k - 1] = done
      BY <3>1
    <3> QED
      BY <1>1, <1>2, <3>2, Zenon
  <2> QED
    BY <2>1
<1>4. walk = body(walk)
  BY <1>3, Zenon
<1>5. copy_chain_out(n, q, h) = walk[size]
  BY Zenon DEF copy_chain_out
<1> HIDE DEF walk
<1>6. \A k \in 0 .. size : walk[k] = IF k = 0 THEN ChainStart(h) ELSE follow(n, q, walk[k - 1])
  BY <1>4
<1>7. ASSUME NEW k \in 1 .. size, walk[k] # done PROVE FALSE
  <2> DEFINE T == {j \in 1 .. size : walk[j] # done}
  <2>1. T \in SUBSET Nat /\ T # {}
    BY <1>7
  <2> HIDE DEF T
  <2>2. PICK m \in T : \A j \in T : m <= j
    BY <2>1, LeastNumber, Zenon
  <2>3. m \in 1 .. size /\ walk[m] # done
    BY DEF T
  <2>4. m - 1 \in 0 .. size /\ m # 0 /\ m \in 0 .. size
    BY <2>3
  <2>5. walk[m] = follow(n, q, walk[m - 1])
    BY <1>6, <2>4
  <2>6. CASE m = 1
    <3>1. walk[m - 1] = ChainStart(h)
      BY <1>6, <2>4, <2>6
    <3> QED
      BY <1>1, <2>3, <2>5, <3>1
  <2>7. CASE m # 1
    <3>1. m - 1 \in 1 .. size /\ ~(m <= m - 1)
      BY <2>3, <2>7
    <3>2. m - 1 \notin T
      BY <2>2, <3>1
    <3>3. walk[m - 1] = done
      BY <3>1, <3>2 DEF T
    <3> QED
      BY <1>2, <2>3, <2>5, <3>3
  <2> QED
    BY <2>6, <2>7
<1> QED
  BY <1>5, <1>7

LEMMA OneLink ==
    ASSUME NEW q \in Queues, NEW n, NEW h, NEW w, NEW r, r.len \in Nat,
           effective_queue_size(n, q) \in Nat \ {0}, read_desc_ok(n, q, h),
           vring[q].desc[h] = TxDesc(w, r)
    PROVE  /\ DeviceTakes(r.len) => copy_chain_out(n, q, h) =
                 [at |-> 0, total |-> ChainLen(r.len), data |-> <<<<w, r.issue>>>>, state |-> "done"]
           /\ ~DeviceTakes(r.len) => copy_chain_out(n, q, h).state = "bad"
<1> DEFINE d == TxDesc(w, r)
           done == [at |-> 0, total |-> ChainLen(r.len), data |-> <<<<w, r.issue>>>>, state |-> "done"]
           bad == [ChainStart(h) EXCEPT !.state = "bad"]
<1>1. /\ ChainStart(h).at = h /\ ChainStart(h).state = "more" /\ ChainStart(h).total = 0
      /\ ChainStart(h).data = <<>> /\ bad.state = "bad"
  BY DEF ChainStart
<1>2. /\ d.write = FALSE /\ d.indirect = FALSE /\ d.ram = TRUE
      /\ d.len = ChainLen(r.len) /\ d.more = FALSE /\ d.next = 0 /\ d.data = <<w, r.issue>>
  BY DEF TxDesc, NoDesc
<1>3. 0 + ChainLen(r.len) = ChainLen(r.len) /\ (DeviceTakes(r.len) <=> ~(ChainLen(r.len) > MaxTotal))
  <2>1. ChainLen(r.len) \in Nat
    BY Lengths
  <2> QED
    BY <2>1, Constants DEF DeviceTakes
<1>4. Append(<<>>, <<w, r.issue>>) = <<<<w, r.issue>>>>
  OBVIOUS
<1> HIDE DEF d
<1>5. follow(n, q, ChainStart(h)) = IF DeviceTakes(r.len) THEN done ELSE bad
  BY <1>1, <1>2, <1>3, <1>4, Zenon DEF follow, d
<1>6. done.state # "more" /\ bad.state # "more"
  BY <1>1
<1> HIDE DEF done, bad
<1>7. copy_chain_out(n, q, h) = IF DeviceTakes(r.len) THEN done ELSE bad
  BY <1>5, <1>6, FirstLinkDecides, Zenon
<1> QED
  BY <1>1, <1>7 DEF done

-----------------------------------------------------------------------------
(* What the invariant says of a queue in use *)

LEMMA RingTypes ==
    ASSUME Types, NEW q \in Queues
    PROVE  /\ la(q) \in Idx /\ vring[q].avail_idx \in Idx /\ vring[q].used_idx \in Idx
           /\ seen[q] \in Idx /\ shadow[q] \in Idx /\ net.queue[q].used \in Idx
           /\ DOMAIN vring[q].used = Entries /\ DOMAIN vring[q].avail = Entries
           /\ \A i \in Entries : vring[q].avail[i] \in Entries /\ vring[q].used[i].id \in Entries
           /\ na(q) \in 0 .. IdxMod - 1 /\ nu(q) \in 0 .. IdxMod - 1
           /\ na(q) \in Nat /\ nu(q) \in Nat
           /\ (na(q) = 0 <=> la(q) = vring[q].avail_idx) /\ (nu(q) = 0 <=> seen[q] = vring[q].used_idx)
<1>1. net.queue[q] \in Regs /\ vring[q] \in Rings
  BY DEF Types, CardTypes, NetType
<1>2. /\ la(q) \in Idx /\ net.queue[q].used \in Idx
      /\ vring[q].avail_idx \in Idx /\ vring[q].used_idx \in Idx
      /\ vring[q].used \in [Entries -> [id : Entries, len : Nat]] /\ vring[q].avail \in [Entries -> Entries]
  BY <1>1 DEF Regs, Rings, la
<1>3. seen[q] \in Idx /\ shadow[q] \in Idx
  BY DEF Types, UnitTypes
<1>4. /\ na(q) \in 0 .. IdxMod - 1 /\ nu(q) \in 0 .. IdxMod - 1
      /\ (na(q) = 0 <=> la(q) = vring[q].avail_idx) /\ (nu(q) = 0 <=> seen[q] = vring[q].used_idx)
  BY <1>2, <1>3, DistFacts, Zenon DEF na, nu
<1>5. na(q) \in Nat /\ nu(q) \in Nat
  BY <1>4, Sizes
<1> QED
  BY <1>2, <1>3, <1>4, <1>5

LEMMA QueueInUse ==
    ASSUME Types, Phases, Registers, RxFlight, TxFlight, NEW q \in Queues, enabled(q)
    PROVE  /\ effective_queue_size(net, q) = qsize /\ net.queue[q].in_ram = Parts
           /\ ~Stopped(q) /\ HeadOf(q) = vring[q].avail[la(q) % qsize]
           /\ na(q) + nu(q) <= qsize
           /\ HeadOf(q) = Id(q, nu(q))
<1>1. net.queue[q].size = qsize /\ net.queue[q].in_ram = Parts
  BY DEF Registers, RegistersOf
<1>2. effective_queue_size(net, q) = qsize
  BY <1>1, Sizes DEF effective_queue_size
<1>3. ~Stopped(q)
  BY DEF Stopped, Phases, needs_reset, enabled
<1>4. HeadOf(q) = vring[q].avail[la(q) % qsize]
  BY <1>2 DEF HeadOf, la
<1>5. na(q) + nu(q) <= qsize
  <2>1. CASE q = "tx"
    BY <2>1 DEF TxFlight
  <2>2. CASE q = "rx"
    <3>1. na("rx") + nu("rx") = Posted /\ (~Running => shadow["rx"] < qsize)
      BY <2>2 DEF RxFlight
    <3>2. shadow["rx"] \in Nat
      BY RingTypes, Constants, Sizes DEF Idx
    <3>3. Posted <= qsize
      BY <3>1, <3>2, Sizes DEF Posted
    <3> QED
      BY <2>2, <3>1, <3>3
  <2> QED
    BY <2>1, <2>2 DEF Queues
<1>6. HeadOf(q) = Id(q, nu(q))
  <2>1. nu(q) \in Nat /\ ~(nu(q) < nu(q)) /\ nu(q) - nu(q) = 0 /\ la(q) \in Idx
    BY RingTypes
  <2>2. Pos(la(q), 0) = la(q) % qsize
    BY <2>1, PosFacts
  <2> QED
    BY <1>4, <2>1, <2>2 DEF Id, Flight, nu
<1> QED
  BY <1>1, <1>2, <1>3, <1>4, <1>5, <1>6

-----------------------------------------------------------------------------
(* What a step does to the queue it touches, and to the one it does not *)

Untouched(p) == net'.queue[p] = net.queue[p] /\ vring'[p] = vring[p] /\ seen'[p] = seen[p]

LEMMA SameQueue ==
    ASSUME NEW p \in Queues, Untouched(p)
    PROVE  /\ la(p)' = la(p) /\ enabled(p)' = enabled(p) /\ na(p)' = na(p) /\ nu(p)' = nu(p)
           /\ NextEntry(p)' = NextEntry(p)
           /\ \A k : Id(p, k)' = Id(p, k) /\ UsedAt(p, k)' = UsedAt(p, k)
BY DEF Untouched, la, enabled, na, nu, NextEntry, Id, UsedAt

(* The engine completes the buffer at the head of what is available. *)
Completes(q, len) ==
    /\ enabled(q) /\ la(q) # vring[q].avail_idx
    /\ net' = used_published(net, q) /\ vring' = complete_used(q, HeadOf(q), len)
    /\ UNCHANGED <<seen, shadow>>

Completed(q, len) ==
    /\ net' \in NetType /\ vring' \in [Queues -> Rings]
    /\ net'.status = net.status /\ net'.isr = TRUE
    /\ net'.queue[q].size = net.queue[q].size /\ enabled(q)' = enabled(q)
    /\ net'.queue[q].in_ram = net.queue[q].in_ram
    /\ net'.queue[q].used = vring'[q].used_idx
    /\ vring'[q].avail_idx = vring[q].avail_idx /\ vring'[q].avail = vring[q].avail
    /\ vring'[q].desc = vring[q].desc
    /\ na(q) > 0 /\ na(q)' = na(q) - 1 /\ nu(q)' = nu(q) + 1
    /\ \A k \in 0 .. na(q) + nu(q) - 1 : Id(q, k)' = Id(q, k)
    /\ \A k \in 0 .. nu(q) - 1 : UsedAt(q, k)' = UsedAt(q, k)
    /\ vring'[q].used[Pos(seen[q], nu(q))] = [id |-> HeadOf(q), len |-> len]
    /\ vring'[q].used_idx = Succ(vring[q].used_idx)
    /\ \A p \in Queues : p # q => Untouched(p)

LEMMA CompletesEffect ==
    ASSUME Types, Phases, Registers, RxFlight, TxFlight,
           NEW q \in Queues, NEW len \in Nat, Completes(q, len)
    PROVE  Completed(q, len)
<1> DEFINE ui == vring[q].used_idx
<1>1. /\ net \in NetType /\ vring \in [Queues -> Rings]
      /\ seen' = seen /\ net' = used_published(net, q) /\ vring' = complete_used(q, HeadOf(q), len)
      /\ enabled(q) /\ la(q) # vring[q].avail_idx
  BY DEF Types, CardTypes, Completes
<1>2. /\ la(q) \in Idx /\ vring[q].avail_idx \in Idx /\ ui \in Idx /\ seen[q] \in Idx
      /\ DOMAIN vring[q].used = Entries
      /\ \A i \in Entries : vring[q].avail[i] \in Entries
      /\ na(q) \in Nat /\ nu(q) \in Nat /\ (na(q) = 0 <=> la(q) = vring[q].avail_idx)
  BY RingTypes
<1>3. /\ effective_queue_size(net, q) = qsize /\ HeadOf(q) = vring[q].avail[la(q) % qsize]
      /\ na(q) + nu(q) <= qsize
  BY <1>1, QueueInUse
<1>4. net.queue[q].used = ui
  BY <1>1 DEF Registers, RegistersOf
<1>5. Pos(ui, 0) = ui % qsize /\ Pos(ui, 0) \in Slots /\ Pos(la(q), 0) = la(q) % qsize /\ Pos(la(q), 0) \in Slots
  BY <1>2, PosFacts
<1>6. ui % qsize \in Entries /\ HeadOf(q) \in Entries /\ Succ(ui) \in Idx
  BY <1>2, <1>3, <1>5, Constants, SuccDef
<1> DEFINE e == [id |-> HeadOf(q), len |-> len]
<1>7. e \in [id : Entries, len : Nat]
  BY <1>6
<1>8. SetsUsed(vring, vring', q, ui % qsize, e, Succ(ui))
  BY <1>1, <1>3, <1>4 DEF complete_used, SetsUsed
<1> HIDE DEF e
<1>9. /\ vring' \in [Queues -> Rings]
      /\ vring'[q].used = [vring[q].used EXCEPT ![ui % qsize] = e] /\ vring'[q].used_idx = Succ(ui)
      /\ vring'[q].avail = vring[q].avail /\ vring'[q].avail_idx = vring[q].avail_idx
      /\ vring'[q].desc = vring[q].desc
      /\ \A p \in Queues : p # q => vring'[p] = vring[p]
  <2>1. vring \in [Queues -> Rings] /\ ui % qsize \in Entries /\ Succ(ui) \in Idx
    BY <1>1, <1>6
  <2> QED
    BY <1>7, <1>8, <2>1, SetUsed
<1>10. /\ net' \in NetType /\ net'.status = net.status /\ net'.isr = TRUE
       /\ net'.queue[q].size = net.queue[q].size /\ net'.queue[q].enabled = net.queue[q].enabled
       /\ net'.queue[q].in_ram = net.queue[q].in_ram
       /\ net'.queue[q].last_avail = Succ(net.queue[q].last_avail)
       /\ net'.queue[q].used = Succ(net.queue[q].used)
       /\ \A p \in Queues : p # q => net'.queue[p] = net.queue[p]
  <2>1. net \in NetType /\ net' = used_published(net, q)
    BY <1>1
  <2> QED
    BY <2>1, UsedPublished
<1>11. la(q)' = Succ(la(q)) /\ enabled(q)' = enabled(q)
  BY <1>10 DEF la, enabled
<1> DEFINE used2 == vring'[q].used
<1>12. UsedWritten(vring[q].used, used2, vring[q].avail, len, la(q), vring[q].avail_idx, seen[q], ui)
  BY <1>1, <1>2, <1>3, <1>9 DEF e, na, nu, UsedWritten
<1> HIDE DEF used2, ui
<1>13. /\ Dist(Succ(la(q)), vring[q].avail_idx) = Dist(la(q), vring[q].avail_idx) - 1
       /\ Dist(seen[q], Succ(ui)) = Dist(seen[q], ui) + 1
       /\ \A k \in 0 .. Dist(seen[q], ui) - 1 : used2[Pos(seen[q], k)] = vring[q].used[Pos(seen[q], k)]
       /\ used2[Pos(seen[q], Dist(seen[q], ui))] = [id |-> vring[q].avail[la(q) % qsize], len |-> len]
       /\ \A k \in 0 .. Dist(la(q), vring[q].avail_idx) + Dist(seen[q], ui) - 1 :
             Flight(used2, vring[q].avail, Succ(la(q)), seen[q], Succ(ui), k)
               = Flight(vring[q].used, vring[q].avail, la(q), seen[q], ui, k)
  <2>1. CompletedFlight(vring[q].used, used2, vring[q].avail, len, la(q), vring[q].avail_idx, seen[q], ui)
    BY <1>12, FlightCompleted, Zenon
  <2> QED
    BY <2>1 DEF CompletedFlight
<1>14. na(q)' = na(q) - 1 /\ nu(q)' = nu(q) + 1
  BY <1>1, <1>9, <1>11, <1>13 DEF na, nu, ui
<1>15. \A k \in 0 .. na(q) + nu(q) - 1 : Id(q, k)' = Id(q, k)
  BY <1>1, <1>9, <1>11, <1>13 DEF na, nu, Id, used2, ui
<1>16. /\ \A k \in 0 .. nu(q) - 1 : UsedAt(q, k)' = UsedAt(q, k)
       /\ vring'[q].used[Pos(seen[q], nu(q))] = [id |-> HeadOf(q), len |-> len]
  BY <1>1, <1>3, <1>13 DEF nu, UsedAt, used2, ui
<1>17. na(q) > 0
  BY <1>1, <1>2
<1>18. net'.queue[q].used = vring'[q].used_idx
  BY <1>4, <1>9, <1>10 DEF ui
<1>19. \A p \in Queues : p # q => Untouched(p)
  BY <1>1, <1>9, <1>10 DEF Untouched
<1> QED
  BY <1>9, <1>10, <1>11, <1>14, <1>15, <1>16, <1>17, <1>18, <1>19 DEF ui, Completed

(* The driver writes a descriptor and the ring entry that will hold it. *)
WritesEntry(q, i, d) ==
    /\ i \in Entries /\ d \in Descriptors
    /\ SetsAvail(vring, vring', q, vring[q].avail_idx % qsize, i, d)
    /\ net'.queue = net.queue /\ seen' = seen

EntryWritten(q, i, d) ==
    /\ vring' \in [Queues -> Rings]
    /\ vring'[q].desc = [vring[q].desc EXCEPT ![i] = d] /\ vring'[q].used = vring[q].used
    /\ vring'[q].avail_idx = vring[q].avail_idx /\ vring'[q].used_idx = vring[q].used_idx
    /\ na(q)' = na(q) /\ nu(q)' = nu(q) /\ la(q)' = la(q) /\ NextEntry(q)' = i
    /\ \A k \in 0 .. na(q) + nu(q) - 1 : Id(q, k)' = Id(q, k)
    /\ \A k : UsedAt(q, k)' = UsedAt(q, k)
    /\ \A p \in Queues : p # q => Untouched(p)

LEMMA WritesEntryEffect ==
    ASSUME Types, NEW q \in Queues, NEW i, NEW d, na(q) < qsize, WritesEntry(q, i, d)
    PROVE  EntryWritten(q, i, d)
<1>1. /\ vring \in [Queues -> Rings] /\ i \in Entries /\ d \in Descriptors
      /\ SetsAvail(vring, vring', q, vring[q].avail_idx % qsize, i, d)
      /\ net'.queue = net.queue /\ seen' = seen
  BY DEF Types, CardTypes, WritesEntry
<1>2. /\ la(q) \in Idx /\ vring[q].avail_idx \in Idx /\ vring[q].used_idx \in Idx /\ seen[q] \in Idx
      /\ DOMAIN vring[q].avail = Entries
  BY RingTypes
<1>3. vring[q].avail_idx % qsize \in Entries
  <2>1. Pos(vring[q].avail_idx, 0) = vring[q].avail_idx % qsize /\ Pos(vring[q].avail_idx, 0) \in Slots
    BY <1>2, PosFacts
  <2> QED
    BY <2>1, Constants
<1>4. /\ vring' \in [Queues -> Rings]
      /\ vring'[q].desc = [vring[q].desc EXCEPT ![i] = d]
      /\ vring'[q].avail = [vring[q].avail EXCEPT ![vring[q].avail_idx % qsize] = i]
      /\ vring'[q].used = vring[q].used /\ vring'[q].avail_idx = vring[q].avail_idx
      /\ vring'[q].used_idx = vring[q].used_idx
      /\ \A p \in Queues : p # q => vring'[p] = vring[p]
  BY <1>1, <1>3, SetAvail
<1>5. la(q)' = la(q)
  BY <1>1 DEF la
<1>6. na(q)' = na(q) /\ nu(q)' = nu(q)
  BY <1>1, <1>4, <1>5 DEF na, nu
<1> DEFINE avail2 == vring'[q].avail
<1>7. AvailWritten(vring[q].avail, avail2, i, la(q), vring[q].avail_idx, seen[q], vring[q].used_idx)
  BY <1>2, <1>4 DEF AvailWritten, na
<1> HIDE DEF avail2
<1>8. WrittenFlight(vring[q].avail, avail2, i, la(q), vring[q].avail_idx, seen[q], vring[q].used_idx)
  BY <1>7, FlightWritten, Zenon
<1>9. NextEntry(q)' = i
  BY <1>4, <1>8 DEF WrittenFlight, NextEntry, avail2
<1>10. \A k \in 0 .. na(q) + nu(q) - 1 : Id(q, k)' = Id(q, k)
  BY <1>1, <1>4, <1>5, <1>8 DEF WrittenFlight, avail2, Id, na, nu
<1>11. \A k : UsedAt(q, k)' = UsedAt(q, k)
  BY <1>1, <1>4 DEF UsedAt
<1>12. \A p \in Queues : p # q => Untouched(p)
  BY <1>1, <1>4 DEF Untouched
<1> QED
  BY <1>4, <1>5, <1>6, <1>9, <1>10, <1>11, <1>12 DEF EntryWritten

(* The driver publishes the entry it has written. *)
PushesEntry(q) ==
    /\ SetsAvailIdx(vring, vring', q, Succ(vring[q].avail_idx))
    /\ net'.queue = net.queue /\ seen' = seen

EntryPushed(q) ==
    /\ vring' \in [Queues -> Rings]
    /\ vring'[q].desc = vring[q].desc /\ vring'[q].used = vring[q].used
    /\ vring'[q].avail_idx = Succ(vring[q].avail_idx) /\ vring'[q].used_idx = vring[q].used_idx
    /\ na(q)' = na(q) + 1 /\ nu(q)' = nu(q) /\ la(q)' = la(q)
    /\ \A k : Id(q, k)' = Id(q, k)
    /\ Id(q, na(q) + nu(q)) = NextEntry(q)
    /\ \A k : UsedAt(q, k)' = UsedAt(q, k)
    /\ \A p \in Queues : p # q => Untouched(p)

LEMMA PushesEntryEffect ==
    ASSUME Types, NEW q \in Queues, na(q) < qsize, PushesEntry(q)
    PROVE  EntryPushed(q)
<1>1. /\ vring \in [Queues -> Rings]
      /\ SetsAvailIdx(vring, vring', q, Succ(vring[q].avail_idx))
      /\ net'.queue = net.queue /\ seen' = seen
  BY DEF Types, CardTypes, PushesEntry
<1>2. /\ la(q) \in Idx /\ vring[q].avail_idx \in Idx /\ vring[q].used_idx \in Idx /\ seen[q] \in Idx
  BY RingTypes
<1>3. Succ(vring[q].avail_idx) \in Idx
  BY <1>2, SuccDef
<1>4. /\ vring' \in [Queues -> Rings] /\ vring'[q].avail_idx = Succ(vring[q].avail_idx)
      /\ vring'[q].desc = vring[q].desc /\ vring'[q].avail = vring[q].avail
      /\ vring'[q].used = vring[q].used /\ vring'[q].used_idx = vring[q].used_idx
      /\ \A p \in Queues : p # q => vring'[p] = vring[p]
  BY <1>1, <1>3, SetAvailIdx
<1>5. la(q)' = la(q)
  BY <1>1 DEF la
<1>6. PushedFlight(vring[q].used, vring[q].avail, la(q), vring[q].avail_idx, seen[q], vring[q].used_idx)
  <2>1. Dist(la(q), vring[q].avail_idx) < qsize
    BY DEF na
  <2> QED
    BY <1>2, <2>1, FlightPushed, Zenon
<1>7. na(q)' = na(q) + 1 /\ nu(q)' = nu(q)
  BY <1>1, <1>4, <1>5, <1>6 DEF na, nu, PushedFlight
<1>8. \A k : Id(q, k)' = Id(q, k)
  BY <1>1, <1>4, <1>5 DEF Id
<1>9. Id(q, na(q) + nu(q)) = NextEntry(q)
  BY <1>6 DEF PushedFlight, Id, NextEntry, na, nu
<1>10. \A k : UsedAt(q, k)' = UsedAt(q, k)
  BY <1>1, <1>4 DEF UsedAt
<1>11. \A p \in Queues : p # q => Untouched(p)
  BY <1>1, <1>4 DEF Untouched
<1> QED
  BY <1>4, <1>5, <1>7, <1>8, <1>9, <1>10, <1>11 DEF EntryPushed

(* The handler is done with the first used element. *)
TakesUsed(q) == seen' = [seen EXCEPT ![q] = Succ(@)] /\ net'.queue = net.queue /\ vring' = vring

UsedTaken(q) ==
    /\ seen' \in [Queues -> Idx] /\ seen'[q] = Succ(seen[q])
    /\ na(q)' = na(q) /\ nu(q)' = nu(q) - 1 /\ la(q)' = la(q)
    /\ \A k \in Nat : Id(q, k)' = Id(q, k + 1) /\ UsedAt(q, k)' = UsedAt(q, k + 1)
    /\ \A p \in Queues : p # q => Untouched(p)

LEMMA TakesUsedEffect ==
    ASSUME Types, NEW q \in Queues, seen[q] # vring[q].used_idx, TakesUsed(q)
    PROVE  UsedTaken(q)
<1>1. seen' = [seen EXCEPT ![q] = Succ(@)] /\ net'.queue = net.queue /\ vring' = vring
  BY DEF TakesUsed
<1>2. /\ la(q) \in Idx /\ vring[q].used_idx \in Idx /\ seen[q] \in Idx /\ seen \in [Queues -> Idx]
  BY RingTypes DEF Types, UnitTypes
<1>3. Succ(seen[q]) \in Idx
  BY <1>2, SuccDef
<1>4. /\ seen' \in [Queues -> Idx] /\ seen'[q] = Succ(seen[q])
      /\ \A p \in Queues : p # q => seen'[p] = seen[p]
  BY <1>1, <1>2, <1>3
<1>5. la(q)' = la(q)
  BY <1>1 DEF la
<1>6. TakenFlight(vring[q].used, vring[q].avail, la(q), seen[q], vring[q].used_idx)
  BY <1>2, FlightTaken, Zenon
<1>7. na(q)' = na(q) /\ nu(q)' = nu(q) - 1
  BY <1>1, <1>4, <1>5, <1>6 DEF na, nu, TakenFlight
<1>8. \A k \in Nat : Id(q, k)' = Id(q, k + 1) /\ UsedAt(q, k)' = UsedAt(q, k + 1)
  BY <1>1, <1>4, <1>5, <1>6 DEF Id, UsedAt, TakenFlight
<1>9. \A p \in Queues : p # q => Untouched(p)
  BY <1>1, <1>4 DEF Untouched
<1> QED
  BY <1>4, <1>5, <1>7, <1>8, <1>9 DEF UsedTaken

(* Re-posting ends: the entry is published and its used element done with. *)
Reposts(q) ==
    /\ SetsAvailIdx(vring, vring', q, Succ(vring[q].avail_idx))
    /\ seen' = [seen EXCEPT ![q] = Succ(@)] /\ net'.queue = net.queue

Reposted(q) ==
    /\ vring' \in [Queues -> Rings] /\ vring'[q].avail_idx = Succ(vring[q].avail_idx)
    /\ vring'[q].desc = vring[q].desc /\ vring'[q].used_idx = vring[q].used_idx
    /\ seen' \in [Queues -> Idx] /\ seen'[q] = Succ(seen[q])
    /\ na(q)' = na(q) + 1 /\ nu(q)' = nu(q) - 1 /\ la(q)' = la(q)
    /\ \A k \in Nat : Id(q, k)' = Id(q, k + 1) /\ UsedAt(q, k)' = UsedAt(q, k + 1)
    /\ Id(q, na(q) + nu(q)) = NextEntry(q)
    /\ \A p \in Queues : p # q => Untouched(p)

LEMMA RepostsEffect ==
    ASSUME Types, NEW q \in Queues, na(q) < qsize, seen[q] # vring[q].used_idx, Reposts(q)
    PROVE  Reposted(q)
<1>1. /\ vring \in [Queues -> Rings]
      /\ SetsAvailIdx(vring, vring', q, Succ(vring[q].avail_idx))
      /\ seen' = [seen EXCEPT ![q] = Succ(@)] /\ net'.queue = net.queue
  BY DEF Types, CardTypes, Reposts
<1>2. /\ la(q) \in Idx /\ vring[q].avail_idx \in Idx /\ vring[q].used_idx \in Idx /\ seen[q] \in Idx
      /\ seen \in [Queues -> Idx]
  BY RingTypes DEF Types, UnitTypes
<1>3. Succ(vring[q].avail_idx) \in Idx /\ Succ(seen[q]) \in Idx
  BY <1>2, SuccDef
<1>4. /\ vring' \in [Queues -> Rings] /\ vring'[q].avail_idx = Succ(vring[q].avail_idx)
      /\ vring'[q].desc = vring[q].desc /\ vring'[q].avail = vring[q].avail
      /\ vring'[q].used = vring[q].used /\ vring'[q].used_idx = vring[q].used_idx
      /\ \A p \in Queues : p # q => vring'[p] = vring[p]
  BY <1>1, <1>3, SetAvailIdx
<1>5. /\ seen' \in [Queues -> Idx] /\ seen'[q] = Succ(seen[q])
      /\ \A p \in Queues : p # q => seen'[p] = seen[p]
  BY <1>1, <1>2, <1>3
<1>6. la(q)' = la(q)
  BY <1>1 DEF la
<1>7. PushedFlight(vring[q].used, vring[q].avail, la(q), vring[q].avail_idx, seen[q], vring[q].used_idx)
  <2>1. Dist(la(q), vring[q].avail_idx) < qsize
    BY DEF na
  <2> QED
    BY <1>2, <2>1, FlightPushed, Zenon
<1>8. TakenFlight(vring[q].used, vring[q].avail, la(q), seen[q], vring[q].used_idx)
  BY <1>2, FlightTaken, Zenon
<1>9. na(q)' = na(q) + 1 /\ nu(q)' = nu(q) - 1
  BY <1>4, <1>5, <1>6, <1>7, <1>8 DEF na, nu, PushedFlight, TakenFlight
<1>10. \A k \in Nat : Id(q, k)' = Id(q, k + 1) /\ UsedAt(q, k)' = UsedAt(q, k + 1)
  BY <1>4, <1>5, <1>6, <1>8 DEF Id, UsedAt, TakenFlight
<1>11. Id(q, na(q) + nu(q)) = NextEntry(q)
  BY <1>7 DEF PushedFlight, Id, NextEntry, na, nu
<1>12. \A p \in Queues : p # q => Untouched(p)
  BY <1>1, <1>4, <1>5 DEF Untouched
<1> QED
  BY <1>4, <1>5, <1>6, <1>9, <1>10, <1>11, <1>12 DEF Reposted

(* A turn of the initial posting: entry and index. *)
PostsNew(q, i, d, v) ==
    /\ i \in Entries /\ d \in Descriptors
    /\ SetsAvail(vring, v, q, vring[q].avail_idx % qsize, i, d)
    /\ SetsAvailIdx(v, vring', q, Succ(vring[q].avail_idx))
    /\ net'.queue = net.queue /\ seen' = seen

PostedNew(q, i, d) ==
    /\ vring' \in [Queues -> Rings] /\ vring'[q].desc = [vring[q].desc EXCEPT ![i] = d]
    /\ vring'[q].avail_idx = Succ(vring[q].avail_idx) /\ vring'[q].used_idx = vring[q].used_idx
    /\ na(q)' = na(q) + 1 /\ nu(q)' = nu(q)
    /\ \A k \in 0 .. na(q) + nu(q) - 1 : Id(q, k)' = Id(q, k)
    /\ \A k : k = na(q) + nu(q) => Id(q, k)' = i
    /\ \A k : UsedAt(q, k)' = UsedAt(q, k)
    /\ \A p \in Queues : p # q => Untouched(p)

LEMMA PostsNewEffect ==
    ASSUME Types, NEW q \in Queues, NEW i, NEW d, NEW v, na(q) < qsize, PostsNew(q, i, d, v)
    PROVE  PostedNew(q, i, d)
<1>1. /\ vring \in [Queues -> Rings] /\ i \in Entries /\ d \in Descriptors
      /\ SetsAvail(vring, v, q, vring[q].avail_idx % qsize, i, d)
      /\ SetsAvailIdx(v, vring', q, Succ(vring[q].avail_idx))
      /\ net'.queue = net.queue /\ seen' = seen
  BY DEF Types, CardTypes, PostsNew
<1>2. /\ la(q) \in Idx /\ vring[q].avail_idx \in Idx /\ vring[q].used_idx \in Idx /\ seen[q] \in Idx
      /\ DOMAIN vring[q].avail = Entries /\ na(q) \in Nat /\ nu(q) \in Nat
  BY RingTypes
<1>3. vring[q].avail_idx % qsize \in Entries /\ Succ(vring[q].avail_idx) \in Idx
  <2>1. Pos(vring[q].avail_idx, 0) = vring[q].avail_idx % qsize /\ Pos(vring[q].avail_idx, 0) \in Slots
    BY <1>2, PosFacts
  <2> QED
    BY <1>2, <2>1, Constants, SuccDef
<1>4. /\ v \in [Queues -> Rings]
      /\ v[q].desc = [vring[q].desc EXCEPT ![i] = d]
      /\ v[q].avail = [vring[q].avail EXCEPT ![vring[q].avail_idx % qsize] = i]
      /\ v[q].used = vring[q].used /\ v[q].avail_idx = vring[q].avail_idx
      /\ v[q].used_idx = vring[q].used_idx
      /\ \A p \in Queues : p # q => v[p] = vring[p]
  BY <1>1, <1>3, SetAvail
<1>5. /\ vring' \in [Queues -> Rings] /\ vring'[q].avail_idx = Succ(vring[q].avail_idx)
      /\ vring'[q].desc = v[q].desc /\ vring'[q].avail = v[q].avail
      /\ vring'[q].used = v[q].used /\ vring'[q].used_idx = v[q].used_idx
      /\ \A p \in Queues : p # q => vring'[p] = v[p]
  BY <1>1, <1>3, <1>4, SetAvailIdx
<1>6. la(q)' = la(q)
  BY <1>1 DEF la
<1> DEFINE avail2 == v[q].avail
<1>7. AvailWritten(vring[q].avail, avail2, i, la(q), vring[q].avail_idx, seen[q], vring[q].used_idx)
  BY <1>2, <1>4 DEF AvailWritten, na
<1> HIDE DEF avail2
<1>8. WrittenFlight(vring[q].avail, avail2, i, la(q), vring[q].avail_idx, seen[q], vring[q].used_idx)
  BY <1>7, FlightWritten, Zenon
<1>9. PushedFlight(vring[q].used, avail2, la(q), vring[q].avail_idx, seen[q], vring[q].used_idx)
  <2>1. Dist(la(q), vring[q].avail_idx) < qsize
    BY DEF na
  <2> QED
    BY <1>2, <2>1, FlightPushed, Zenon
<1>10. na(q)' = na(q) + 1 /\ nu(q)' = nu(q)
  BY <1>1, <1>4, <1>5, <1>6, <1>9 DEF na, nu, PushedFlight
<1>11. \A k : Id(q, k)' = Flight(vring[q].used, avail2, la(q), seen[q], vring[q].used_idx, k)
  BY <1>1, <1>4, <1>5, <1>6 DEF Id, avail2
<1>12. \A k \in 0 .. na(q) + nu(q) - 1 : Id(q, k)' = Id(q, k)
  BY <1>8, <1>11 DEF Id, WrittenFlight, na, nu
<1>13. ASSUME NEW k, k = na(q) + nu(q) PROVE Id(q, k)' = i
  <2>1. Flight(vring[q].used, avail2, la(q), seen[q], vring[q].used_idx, k) = i
    BY <1>8, <1>9, <1>13 DEF WrittenFlight, PushedFlight, na, nu
  <2> QED
    BY <1>11, <2>1
<1>14. \A k : UsedAt(q, k)' = UsedAt(q, k)
  BY <1>1, <1>4, <1>5 DEF UsedAt
<1>15. \A p \in Queues : p # q => Untouched(p)
  BY <1>1, <1>4, <1>5 DEF Untouched
<1> QED
  BY <1>4, <1>5, <1>10, <1>12, <1>13, <1>14, <1>15 DEF PostedNew

(* setup_queue: an empty queue. *)
SetsUp(q) ==
    /\ net.queue[q] = QueueReset
    /\ net' = enable_queue(program_queue(net, q, qsize, Parts), q)
    /\ vring' = [vring EXCEPT ![q] = EmptyRing]
    /\ shadow' = [shadow EXCEPT ![q] = 0] /\ seen' = [seen EXCEPT ![q] = 0]

SetUp(q) ==
    /\ net' \in NetType /\ net'.status = net.status /\ net'.isr = net.isr
    /\ vring' \in [Queues -> Rings] /\ shadow' \in [Queues -> Idx] /\ seen' \in [Queues -> Idx]
    /\ enabled(q)' = TRUE /\ net'.queue[q].size = qsize /\ net'.queue[q].in_ram = Parts
    /\ net'.queue[q].used = 0 /\ vring'[q].used_idx = 0
    /\ shadow'[q] = 0 /\ vring'[q].avail_idx = 0 /\ seen'[q] = 0
    /\ na(q)' = 0 /\ nu(q)' = 0
    /\ \A p \in Queues : p # q => Untouched(p) /\ shadow'[p] = shadow[p]

LEMMA SetsUpEffect ==
    ASSUME Types, NEW q \in Queues, SetsUp(q)
    PROVE  SetUp(q)
<1>1. /\ net.queue[q] = QueueReset /\ net \in NetType
      /\ net' = enable_queue(program_queue(net, q, qsize, Parts), q)
      /\ vring' = [vring EXCEPT ![q] = EmptyRing] /\ vring \in [Queues -> Rings]
      /\ shadow' = [shadow EXCEPT ![q] = 0] /\ seen' = [seen EXCEPT ![q] = 0]
      /\ shadow \in [Queues -> Idx] /\ seen \in [Queues -> Idx]
  BY DEF Types, CardTypes, UnitTypes, SetsUp
<1>2. /\ net' \in NetType /\ net'.status = net.status /\ net'.isr = net.isr
      /\ net'.queue[q].size = qsize /\ net'.queue[q].enabled = TRUE /\ net'.queue[q].in_ram = Parts
      /\ net'.queue[q].last_avail = 0 /\ net'.queue[q].used = 0
      /\ \A p \in Queues : p # q => net'.queue[p] = net.queue[p]
  <2>1. ProgramsQueue(net, q, net')
    BY <1>1 DEF ProgramsQueue
  <2>2. QueueProgrammed(net, q, net')
    BY <2>1, ProgramQueue, Zenon
  <2> QED
    BY <2>2 DEF QueueProgrammed
<1>3. /\ vring' \in [Queues -> Rings] /\ vring'[q].avail_idx = 0 /\ vring'[q].used_idx = 0
      /\ \A p \in Queues : p # q => vring'[p] = vring[p]
  BY <1>1, EmptyRingFacts
<1>4. /\ shadow' \in [Queues -> Idx] /\ seen' \in [Queues -> Idx] /\ shadow'[q] = 0 /\ seen'[q] = 0
      /\ \A p \in Queues : p # q => shadow'[p] = shadow[p] /\ seen'[p] = seen[p]
  BY <1>1, Constants
<1>5. Dist(0, 0) = 0
  BY Constants, DistFacts
<1>6. na(q)' = 0 /\ nu(q)' = 0 /\ enabled(q)' = TRUE
  BY <1>2, <1>3, <1>4, <1>5 DEF na, nu, la, enabled
<1> QED
  BY <1>2, <1>3, <1>4, <1>6 DEF SetUp, Untouched

-----------------------------------------------------------------------------
(* What the engine does with the rings this driver builds: it never fails
   closed, transmits each slot's frame whole and fills each buffer. *)

EngineIdles ==
    /\ UNCHANGED <<net, vring, rxbuf, inbox, sent, intx>>
    /\ engine' \in {"idle", "tx", "rx"} /\ ports' \in BOOLEAN
DataOf(i) == <<<<slot[i], req[slot[i]].issue>>>>
TxSends ==
    /\ Completes("tx", UsedLen(req[slot[HeadOf("tx")]]))
    /\ sent' = IF DeviceTakes(req[slot[HeadOf("tx")]].len) THEN Append(sent, DataOf(HeadOf("tx"))) ELSE sent
    /\ engine' = engine /\ UNCHANGED <<rxbuf, inbox, intx, ports>>
RxReceives ==
    /\ inbox # <<>> /\ Completes("rx", HdrLen + Head(inbox).len)
    /\ inbox' = Tail(inbox) /\ rxbuf' = [rxbuf EXCEPT ![HeadOf("rx")] = Head(inbox)]
    /\ engine' = engine /\ UNCHANGED <<sent, intx, ports>>
DriverRests == UNCHANGED <<devinit, unitVars, shadow, seen, locked, isrVars, arrived, delivered>>

LEMMA TxHead ==
    ASSUME Types, Phases, Registers, RxFlight, TxFlight, enabled("tx"),
           la("tx") # vring["tx"].avail_idx
    PROVE  /\ HeadOf("tx") \in Slots /\ slot[HeadOf("tx")] # "free"
           /\ req[slot[HeadOf("tx")]].state = "sending" /\ slot[HeadOf("tx")] # locked
           /\ nu("tx") \in 0 .. na("tx") + nu("tx") - 1 /\ HeadOf("tx") = Id("tx", nu("tx"))
           /\ req[slot[HeadOf("tx")]].len \in Nat
           /\ DeviceTakes(req[slot[HeadOf("tx")]].len) => copy_chain_out(net, "tx", HeadOf("tx")) =
                [at |-> 0, total |-> ChainLen(req[slot[HeadOf("tx")]].len),
                 data |-> DataOf(HeadOf("tx")), state |-> "done"]
           /\ ~DeviceTakes(req[slot[HeadOf("tx")]].len)
                => copy_chain_out(net, "tx", HeadOf("tx")).state = "bad"
<1>1. /\ effective_queue_size(net, "tx") = qsize /\ net.queue["tx"].in_ram = Parts
      /\ HeadOf("tx") = Id("tx", nu("tx"))
  BY QueueInUse, Constants
<1>2. na("tx") \in Nat /\ nu("tx") \in Nat /\ na("tx") # 0
  BY RingTypes, Constants
<1>3. nu("tx") \in 0 .. na("tx") + nu("tx") - 1
  BY <1>2
<1>4. /\ HeadOf("tx") \in Slots /\ slot[HeadOf("tx")] # "free"
      /\ req[slot[HeadOf("tx")]].state = "sending" /\ slot[HeadOf("tx")] # locked
  BY <1>1, <1>3, Zenon DEF TxFlight
<1>5. vring["tx"].desc[HeadOf("tx")] = TxDesc(slot[HeadOf("tx")], req[slot[HeadOf("tx")]])
  BY <1>4, Zenon DEF TxFlight
<1>6. read_desc_ok(net, "tx", HeadOf("tx")) /\ effective_queue_size(net, "tx") \in Nat \ {0}
  BY <1>1, <1>4, Sizes DEF read_desc_ok, Parts, Slots
<1>7. req[slot[HeadOf("tx")]].len \in Nat
  <2>1. slot[HeadOf("tx")] \in Reqs
    BY <1>4 DEF Types, UnitTypes, Reqs
  <2> QED
    BY <2>1 DEF Types, UnitTypes, ReqRecs
<1>a. PICK w, r : w = slot[HeadOf("tx")] /\ r = req[w]
  OBVIOUS
<1>b. r.len \in Nat /\ vring["tx"].desc[HeadOf("tx")] = TxDesc(w, r) /\ "tx" \in Queues
  BY <1>5, <1>7, <1>a, Constants
<1>8. /\ DeviceTakes(r.len) => copy_chain_out(net, "tx", HeadOf("tx")) =
            [at |-> 0, total |-> ChainLen(r.len), data |-> <<<<w, r.issue>>>>, state |-> "done"]
      /\ ~DeviceTakes(r.len) => copy_chain_out(net, "tx", HeadOf("tx")).state = "bad"
  BY <1>6, <1>b, OneLink
<1> QED
  BY <1>1, <1>3, <1>4, <1>7, <1>8, <1>a DEF DataOf

LEMMA TxEngine ==
    ASSUME Types, Phases, Registers, RxFlight, TxFlight, process_tx, UNCHANGED <<shadow, seen>>
    PROVE  EngineIdles \/ TxSends
<1>1. CASE Stopped("tx") \/ ("driver" \in net.queue["tx"].in_ram /\ NothingAvailable("tx"))
  <2>1. \/ engine' = "rx" /\ UNCHANGED <<net, vring, sent>>
        \/ ~Stopped("tx") /\ "driver" \notin net.queue["tx"].in_ram
    BY <1>1 DEF process_tx
  <2>2. UNCHANGED <<rxbuf, inbox, intx, ports>> /\ ports \in BOOLEAN
    BY DEF process_tx, Types, CardTypes
  <2> QED
    BY <1>1, <2>1, <2>2 DEF EngineIdles
<1>2. CASE ~(Stopped("tx") \/ ("driver" \in net.queue["tx"].in_ram /\ NothingAvailable("tx")))
  <2>1. enabled("tx")
    BY <1>2 DEF Stopped, enabled
  <2>2. net.queue["tx"].in_ram = Parts
    BY <2>1, QueueInUse, Constants
  <2>3. "driver" \in net.queue["tx"].in_ram /\ "device" \in net.queue["tx"].in_ram
    BY <2>2 DEF Parts
  <2>4. la("tx") # vring["tx"].avail_idx
    BY <1>2, <2>3 DEF NothingAvailable, la
  <2> DEFINE chain == copy_chain_out(net, "tx", HeadOf("tx"))
  <2> DEFINE r == req[slot[HeadOf("tx")]]
  <2>5. /\ r.len \in Nat
        /\ DeviceTakes(r.len) => chain = [at |-> 0, total |-> ChainLen(r.len),
                                         data |-> DataOf(HeadOf("tx")), state |-> "done"]
        /\ ~DeviceTakes(r.len) => chain.state = "bad"
    BY <2>1, <2>4, TxHead
  <2> HIDE DEF r
  <2>6. /\ DeviceTakes(r.len) => /\ chain.state = "done" /\ chain.total = ChainLen(r.len)
                                 /\ chain.data = DataOf(HeadOf("tx"))
        /\ ~DeviceTakes(r.len) => chain.state # "done"
    BY <2>5
  <2>7. ChainLen(r.len) >= HdrLen
    BY <2>5, Lengths, Constants
  <2>8. /\ sent' = (IF chain.state = "done" /\ chain.total >= HdrLen THEN Append(sent, chain.data) ELSE sent)
        /\ vring' = complete_used("tx", HeadOf("tx"),
                        IF chain.state = "done" /\ chain.total >= HdrLen THEN chain.total ELSE 0)
        /\ net' = used_published(net, "tx") /\ UNCHANGED <<engine, rxbuf, inbox, intx, ports>>
    BY <1>2, <2>3 DEF process_tx
  <2> HIDE DEF chain
  <2>9. /\ sent' = IF DeviceTakes(r.len) THEN Append(sent, DataOf(HeadOf("tx"))) ELSE sent
        /\ vring' = complete_used("tx", HeadOf("tx"), UsedLen(r))
    BY <2>6, <2>7, <2>8 DEF UsedLen
  <2> QED
    BY <2>1, <2>4, <2>8, <2>9 DEF TxSends, Completes, r
<1> QED
  BY <1>1, <1>2

LEMMA RxHead ==
    ASSUME Types, Phases, Registers, RxFlight, TxFlight, enabled("rx"),
           la("rx") # vring["rx"].avail_idx
    PROVE  /\ HeadOf("rx") \in Slots /\ HeadOf("rx") = Id("rx", nu("rx"))
           /\ nu("rx") \in 0 .. Posted - 1
           /\ vring["rx"].desc[HeadOf("rx")] = RxDesc
<1>1. /\ HeadOf("rx") = Id("rx", nu("rx")) /\ na("rx") + nu("rx") <= qsize
  BY QueueInUse, Constants
<1>2. na("rx") \in Nat /\ nu("rx") \in Nat /\ na("rx") # 0
  BY RingTypes, Constants
<1>3. nu("rx") \in 0 .. Posted - 1 /\ Posted <= qsize /\ Posted \in Nat
  BY <1>1, <1>2 DEF RxFlight
<1>4. HeadOf("rx") \in 0 .. Posted - 1 /\ vring["rx"].desc[HeadOf("rx")] = RxDesc
  <2>1. /\ \A k \in 0 .. Posted - 1 : Id("rx", k) \in 0 .. Posted - 1
        /\ \A i \in 0 .. Posted - 1 : vring["rx"].desc[i] = RxDesc
    BY Zenon DEF RxFlight
  <2> QED
    BY <1>1, <1>3, <2>1, Zenon
<1>5. HeadOf("rx") \in Slots
  BY <1>3, <1>4, Sizes DEF Slots
<1> QED
  BY <1>1, <1>3, <1>4, <1>5

LEMMA RxEngine ==
    ASSUME Types, Phases, Registers, RxFlight, TxFlight, process_rx, UNCHANGED <<shadow, seen>>
    PROVE  EngineIdles \/ RxReceives
<1>0. ports \in BOOLEAN /\ intx \in BOOLEAN /\ net.isr \in BOOLEAN /\ inbox \in Seq(Frames)
  BY DEF Types, CardTypes, NetType
<1>1. CASE Stopped("rx") \/ ("driver" \in net.queue["rx"].in_ram /\ (NothingAvailable("rx") \/ inbox = <<>>))
  <2>1. \/ engine' = "idle" /\ Polled(net) /\ UNCHANGED <<net, vring, rxbuf, inbox>>
        \/ ~Stopped("rx") /\ "driver" \notin net.queue["rx"].in_ram
    BY <1>1 DEF process_rx
  <2>2. UNCHANGED <<sent, intx>>
    BY DEF process_rx
  <2>3. Polled(net) => ports' \in BOOLEAN
    BY <1>0, Zenon DEF Polled
  <2> QED
    BY <1>1, <2>1, <2>2, <2>3 DEF EngineIdles
<1>2. CASE ~(Stopped("rx") \/ ("driver" \in net.queue["rx"].in_ram /\ (NothingAvailable("rx") \/ inbox = <<>>)))
  <2>1. enabled("rx")
    BY <1>2 DEF Stopped, enabled
  <2>2. net.queue["rx"].in_ram = Parts /\ effective_queue_size(net, "rx") = qsize
    BY <2>1, QueueInUse, Constants
  <2>3. /\ "driver" \in net.queue["rx"].in_ram /\ "device" \in net.queue["rx"].in_ram
        /\ "desc" \in net.queue["rx"].in_ram
    BY <2>2 DEF Parts
  <2>4. la("rx") # vring["rx"].avail_idx /\ inbox # <<>>
    BY <1>2, <2>3 DEF NothingAvailable, la
  <2>5. HeadOf("rx") \in Slots /\ vring["rx"].desc[HeadOf("rx")] = RxDesc
    BY <2>1, <2>4, RxHead
  <2>6. read_desc_ok(net, "rx", HeadOf("rx"))
    BY <2>2, <2>3, <2>5, Sizes DEF read_desc_ok, Slots
  <2>7. Head(inbox) \in Frames
    BY <1>0, <2>4
  <2>8. Head(inbox).len \in 0 .. MaxPayload
    BY <2>7, FrameFacts
  <2>9. Receives(RxDesc, Head(inbox).len)
    BY <2>8, Lengths, Constants, VirtioAssumption DEF Receives, RxDesc, NoDesc
  <2>10. /\ inbox' = Tail(inbox) /\ rxbuf' = [rxbuf EXCEPT ![HeadOf("rx")] = Head(inbox)]
         /\ vring' = complete_used("rx", HeadOf("rx"), HdrLen + Head(inbox).len)
         /\ net' = used_published(net, "rx") /\ UNCHANGED <<engine, ports, sent, intx>>
    BY <1>2, <2>3, <2>5, <2>6, <2>9 DEF process_rx
  <2> QED
    BY <2>1, <2>4, <2>10 DEF RxReceives, Completes
<1> QED
  BY <1>1, <1>2

LEMMA EngineSteps ==
    ASSUME Types, Phases, Registers, RxFlight, TxFlight, Device
    PROVE  DriverRests /\ (EngineIdles \/ TxSends \/ RxReceives)
<1>1. DriverRests /\ UNCHANGED <<shadow, seen>> /\ (Tick \/ process_tx \/ process_rx)
  BY DEF Device, Engine, DriverRests
<1>2. CASE Tick
  BY <1>1, <1>2 DEF Tick, EngineIdles, Types, CardTypes
<1>3. CASE process_tx
  BY <1>1, <1>3, TxEngine
<1>4. CASE process_rx
  BY <1>1, <1>4, RxEngine
<1> QED
  BY <1>1, <1>2, <1>3, <1>4

-----------------------------------------------------------------------------
(* What the driver's steps do to the rings *)

InFlightAt(q, i) == \E k \in 0 .. na(q) + nu(q) - 1 : Id(q, k) = i

LEMMA TxRoom ==
    ASSUME Types, TxFlight, enabled("tx"), NEW s \in Slots, ~InFlightAt("tx", s)
    PROVE  na("tx") + nu("tx") < qsize /\ na("tx") < qsize
<1>1. na("tx") \in Nat /\ nu("tx") \in Nat
  BY RingTypes, Constants
<1>2. \A k \in 0 .. na("tx") + nu("tx") - 1 : Id("tx", k) \in Slots /\ Id("tx", k) # s
  <2>1. \A k \in 0 .. na("tx") + nu("tx") - 1 : Id("tx", k) \in Slots
    BY DEF TxFlight
  <2> QED
    BY <2>1, Zenon DEF InFlightAt
<1>3. \A k, l \in 0 .. na("tx") + nu("tx") - 1 : Id("tx", k) = Id("tx", l) => k = l
  BY DEF TxFlight
<1> DEFINE n == na("tx") + nu("tx")
           f == [k \in 0 .. n - 1 |-> Id("tx", k)]
<1>4. /\ n \in Nat /\ \A k \in 0 .. n - 1 : Id("tx", k) \in Slots /\ Id("tx", k) # s
      /\ \A k, l \in 0 .. n - 1 : Id("tx", k) = Id("tx", l) => k = l
  BY <1>1, <1>2, <1>3
<1> HIDE DEF n
<1>5. Numbers(n, f, Slots)
  BY <1>4 DEF Numbers
<1>6. s \notin Numbered(n, f)
  BY <1>4 DEF Numbered
<1> HIDE DEF f
<1>7. n <= qsize /\ (n = qsize => Numbered(n, f) = Slots)
  BY <1>5, Pigeons, Zenon
<1> QED
  BY <1>1, <1>4, <1>6, <1>7, Sizes DEF n

LEMMA OwnSlot ==
    ASSUME SlotOwners, NEW w \in Writes, req[w].state # "done"
    PROVE  SlotOf(w) \in Slots /\ slot[SlotOf(w)] = w
<1>1. \E i \in Slots : slot[i] = w
  BY DEF SlotOwners
<1> QED
  BY <1>1, Zenon DEF SlotOf

LEMMA TxDescType ==
    ASSUME NEW w \in Writes, NEW r, r.issue \in Nat, r.len \in Nat
    PROVE  TxDesc(w, r) \in Descriptors
<1>1. ChainLen(r.len) \in Nat /\ <<w, r.issue>> \in Writes \X Nat
  BY Lengths
<1>2. NoDesc \in Descriptors
  BY Constants DEF NoDesc, Descriptors
<1> QED
  BY <1>1, <1>2 DEF TxDesc, Descriptors

(* A slot with a request belongs to a driver that is up. *)
LEMMA UpWhenOwned ==
    ASSUME Phases, NEW i \in Slots, slot[i] # "free"
    PROVE  devinit = "ready" /\ enabled("tx") /\ enabled("rx") /\ Running
<1>1. devinit = "ready"
  BY DEF Phases
<1> QED
  BY <1>1 DEF Phases, InRunning, Running

LEMMA PublishRing ==
    ASSUME NetInv, NEW w \in Writes, publish(w)
    PROVE  /\ SlotOf(w) \in Slots /\ slot[SlotOf(w)] = w /\ ~InFlightAt("tx", SlotOf(w))
           /\ devinit = "ready" /\ enabled("tx") /\ na("tx") + nu("tx") < qsize
           /\ EntryWritten("tx", SlotOf(w), TxDesc(w, req[w]))
           /\ shadow' = shadow /\ net' = net /\ seen' = seen
<1>0. Types /\ Phases /\ Registers /\ TxFlight /\ SlotOwners
  BY Zenon DEF NetInv
<1>1. req[w].state = "filling" /\ locked = "none"
  BY DEF publish, TaskRuns
<1>2. SlotOf(w) \in Slots /\ slot[SlotOf(w)] = w
  BY <1>0, <1>1, OwnSlot
<1>3. w # "free"
  BY Constants DEF Reqs
<1>4. devinit = "ready" /\ enabled("tx")
  BY <1>0, <1>2, <1>3, UpWhenOwned
<1>5. ~InFlightAt("tx", SlotOf(w))
  <2>1. \A k \in 0 .. na("tx") + nu("tx") - 1 : req[slot[Id("tx", k)]].state = "sending"
    BY <1>0, <1>4, Zenon DEF TxFlight
  <2> QED
    BY <1>1, <1>2, <2>1 DEF InFlightAt
<1>6. na("tx") + nu("tx") < qsize /\ na("tx") < qsize
  BY <1>0, <1>2, <1>4, <1>5, TxRoom
<1>7. WritesEntry("tx", SlotOf(w), TxDesc(w, req[w]))
  <2>1. req[w].issue \in Nat /\ req[w].len \in Nat
    BY <1>0 DEF Types, UnitTypes, Reqs, ReqRecs
  <2>2. TxDesc(w, req[w]) \in Descriptors /\ SlotOf(w) \in Entries
    BY <1>2, <2>1, TxDescType, Constants
  <2>3. shadow["tx"] = vring["tx"].avail_idx
    BY <1>0, Constants DEF Registers, RegistersOf
  <2>4. SetsAvail(vring, vring', "tx", vring["tx"].avail_idx % qsize, SlotOf(w), TxDesc(w, req[w]))
    BY <2>3 DEF publish, SetsAvail, TxDesc
  <2>5. net' = net /\ seen' = seen
    BY DEF publish
  <2> QED
    BY <2>2, <2>4, <2>5 DEF WritesEntry
<1>8. EntryWritten("tx", SlotOf(w), TxDesc(w, req[w]))
  BY <1>0, <1>6, <1>7, WritesEntryEffect, Constants
<1>9. shadow' = shadow /\ net' = net /\ seen' = seen
  BY DEF publish
<1> QED
  BY <1>2, <1>4, <1>5, <1>6, <1>8, <1>9

LEMMA PushRing ==
    ASSUME NetInv, push_avail
    PROVE  /\ SlotOf(locked) \in Slots /\ slot[SlotOf(locked)] = locked
           /\ ~InFlightAt("tx", SlotOf(locked)) /\ NextEntry("tx") = SlotOf(locked)
           /\ locked \in Writes /\ req[locked].state = "sending"
           /\ devinit = "ready" /\ enabled("tx") /\ na("tx") + nu("tx") < qsize
           /\ EntryPushed("tx") /\ net' = net /\ seen' = seen
           /\ shadow'["tx"] = vring'["tx"].avail_idx /\ shadow'["rx"] = shadow["rx"]
           /\ shadow' \in [Queues -> Idx]
<1>0. Types /\ Phases /\ Registers /\ TxFlight /\ SlotOwners
  BY Zenon DEF NetInv
<1>1. locked \in Writes /\ req[locked].state = "sending"
  BY <1>0 DEF push_avail, Types, UnitTypes, SlotOwners
<1>2. SlotOf(locked) \in Slots /\ slot[SlotOf(locked)] = locked
  BY <1>0, <1>1, OwnSlot
<1>3. slot[SlotOf(locked)] # "free" /\ req[slot[SlotOf(locked)]].state = "sending"
  BY <1>1, <1>2, Constants DEF Reqs
<1>4. devinit = "ready" /\ enabled("tx")
  BY <1>0, <1>2, <1>3, UpWhenOwned
<1>5. NextEntry("tx") = SlotOf(locked)
  BY <1>0, <1>2, <1>3, <1>4, Zenon DEF TxFlight
<1>6. ~InFlightAt("tx", SlotOf(locked))
  <2>1. \A k \in 0 .. na("tx") + nu("tx") - 1 : slot[Id("tx", k)] # locked
    BY <1>0, <1>4, Zenon DEF TxFlight
  <2> QED
    BY <1>2, <2>1 DEF InFlightAt
<1>7. na("tx") + nu("tx") < qsize /\ na("tx") < qsize
  BY <1>0, <1>2, <1>4, <1>6, TxRoom
<1>8. shadow["tx"] = vring["tx"].avail_idx /\ shadow \in [Queues -> Idx]
  BY <1>0, Constants DEF Registers, RegistersOf, Types, UnitTypes
<1>9. PushesEntry("tx") /\ net' = net /\ seen' = seen
  BY <1>8 DEF PushesEntry, SetsAvailIdx, push_avail
<1>10. EntryPushed("tx")
  BY <1>0, <1>7, <1>9, PushesEntryEffect, Constants
<1>11. Succ(shadow["tx"]) \in Idx
  BY <1>8, SuccDef, Constants
<1>12. /\ shadow' \in [Queues -> Idx] /\ shadow'["tx"] = Succ(shadow["tx"]) /\ shadow'["rx"] = shadow["rx"]
  BY <1>8, <1>11, Constants DEF push_avail
<1>13. vring'["tx"].avail_idx = Succ(vring["tx"].avail_idx)
  BY <1>10 DEF EntryPushed
<1> QED
  BY <1>1, <1>2, <1>4, <1>5, <1>6, <1>7, <1>8, <1>9, <1>10, <1>12, <1>13

(* The handler runs only in a driver that is up. *)
LEMMA UpWhenServing ==
    ASSUME Phases, pc # "out"
    PROVE  devinit = "ready" /\ enabled("tx") /\ enabled("rx") /\ Running
<1>1. devinit = "ready"
  BY DEF Phases
<1> QED
  BY <1>1 DEF Phases, InRunning, Running

LEMMA InHand ==
    ASSUME NetInv, pc \in {"rx_post", "rx_push"}
    PROVE  /\ enabled("rx") /\ Running /\ seen["rx"] # vring["rx"].used_idx
           /\ nu("rx") > 0 /\ na("rx") < qsize /\ na("rx") + nu("rx") = qsize
           /\ entry = Id("rx", 0) /\ entry \in Slots
<1>0. Types /\ Phases /\ RxFlight /\ Handler
  BY Zenon DEF NetInv
<1>1. enabled("rx") /\ Running
  BY <1>0, UpWhenServing
<1>2. na("rx") + nu("rx") = qsize /\ \A k \in 0 .. qsize - 1 : Id("rx", k) \in 0 .. qsize - 1
  BY <1>0, <1>1 DEF RxFlight, Posted
<1>3. Dist(seen["rx"], dev_idx) <= nu("rx") /\ seen["rx"] # dev_idx /\ entry = Id("rx", 0)
  BY <1>0 DEF Handler
<1>4. seen["rx"] \in Idx /\ dev_idx \in Idx /\ na("rx") \in Nat /\ nu("rx") \in Nat
      /\ (nu("rx") = 0 <=> seen["rx"] = vring["rx"].used_idx)
  BY <1>0, RingTypes, Constants DEF Types, UnitTypes
<1>5. Dist(seen["rx"], dev_idx) # 0 /\ Dist(seen["rx"], dev_idx) \in 0 .. IdxMod - 1
  BY <1>3, <1>4, DistFacts
<1>6. nu("rx") > 0 /\ na("rx") < qsize
  BY <1>2, <1>3, <1>4, <1>5, Sizes
<1>7. 0 \in 0 .. qsize - 1
  BY Sizes
<1> QED
  BY <1>1, <1>2, <1>3, <1>4, <1>6, <1>7 DEF Slots

LEMMA RxPostRing ==
    ASSUME NetInv, rx_post
    PROVE  EntryWritten("rx", entry, RxDesc) /\ shadow' = shadow /\ net' = net /\ seen' = seen
<1>0. Types /\ Registers /\ pc = "rx_post"
  BY DEF NetInv, rx_post, Serves
<1>1. na("rx") < qsize /\ entry \in Slots
  BY <1>0, InHand
<1>2. shadow["rx"] = vring["rx"].avail_idx
  BY <1>0, Constants DEF Registers, RegistersOf
<1>3. SetsAvail(vring, vring', "rx", vring["rx"].avail_idx % qsize, entry, RxDesc)
  BY <1>2 DEF rx_post, PostedRing, SetsAvail, RxDesc
<1>4. net' = net /\ seen' = seen /\ shadow' = shadow
  BY DEF rx_post
<1>5. RxDesc \in Descriptors /\ entry \in Entries
  BY <1>1, Lengths, Constants DEF RxDesc, NoDesc, Descriptors
<1>6. WritesEntry("rx", entry, RxDesc)
  BY <1>3, <1>4, <1>5 DEF WritesEntry
<1> QED
  BY <1>0, <1>1, <1>4, <1>6, WritesEntryEffect, Constants

LEMMA RxPushRing ==
    ASSUME NetInv, rx_push
    PROVE  /\ Reposted("rx") /\ net' = net
           /\ shadow'["rx"] = vring'["rx"].avail_idx /\ shadow'["tx"] = shadow["tx"]
           /\ shadow' \in [Queues -> Idx]
<1>0. Types /\ Registers /\ pc = "rx_push"
  BY DEF NetInv, rx_push, Serves
<1>1. na("rx") < qsize /\ seen["rx"] # vring["rx"].used_idx
  BY <1>0, InHand
<1>2. shadow["rx"] = vring["rx"].avail_idx /\ shadow \in [Queues -> Idx]
  BY <1>0, Constants DEF Registers, RegistersOf, Types, UnitTypes
<1>3. Reposts("rx") /\ net' = net
  BY <1>2 DEF Reposts, SetsAvailIdx, rx_push
<1>4. Reposted("rx")
  BY <1>0, <1>1, <1>3, RepostsEffect, Constants
<1>5. Succ(shadow["rx"]) \in Idx
  BY <1>2, SuccDef, Constants
<1>6. /\ shadow' \in [Queues -> Idx] /\ shadow'["rx"] = Succ(shadow["rx"]) /\ shadow'["tx"] = shadow["tx"]
  BY <1>2, <1>5, Constants DEF rx_push
<1>7. vring'["rx"].avail_idx = Succ(vring["rx"].avail_idx)
  BY <1>4 DEF Reposted
<1> QED
  BY <1>2, <1>3, <1>4, <1>6, <1>7

LEMMA TxEntryRing ==
    ASSUME NetInv, tx_entry, seen["tx"] # dev_idx
    PROVE  /\ UsedTaken("tx") /\ net' = net /\ vring' = vring /\ shadow' = shadow
           /\ UsedEntry("tx").id = Id("tx", 0) /\ enabled("tx") /\ pc = "tx"
           /\ 0 \in 0 .. na("tx") + nu("tx") - 1 /\ nu("tx") > 0
<1>0. Types /\ Phases /\ Handler /\ pc = "tx"
  BY DEF NetInv, tx_entry, Serves
<1>1. enabled("tx")
  BY <1>0, UpWhenServing
<1>2. Dist(seen["tx"], dev_idx) <= nu("tx")
  BY <1>0 DEF Handler
<1>3. seen["tx"] \in Idx /\ dev_idx \in Idx /\ na("tx") \in Nat /\ nu("tx") \in Nat
      /\ (nu("tx") = 0 <=> seen["tx"] = vring["tx"].used_idx)
  BY <1>0, RingTypes, Constants DEF Types, UnitTypes
<1>4. Dist(seen["tx"], dev_idx) # 0 /\ Dist(seen["tx"], dev_idx) \in 0 .. IdxMod - 1
  BY <1>3, DistFacts
<1>5. nu("tx") > 0 /\ seen["tx"] # vring["tx"].used_idx
  BY <1>2, <1>3, <1>4, Sizes
<1>6. TakesUsed("tx") /\ net' = net /\ vring' = vring /\ shadow' = shadow
  BY DEF TakesUsed, tx_entry
<1>7. UsedTaken("tx")
  BY <1>0, <1>5, <1>6, TakesUsedEffect, Constants
<1>8. UsedEntry("tx").id = Id("tx", 0)
  <2>1. Pos(seen["tx"], 0) = seen["tx"] % qsize
    BY <1>3, PosFacts
  <2>2. 0 < Dist(seen["tx"], vring["tx"].used_idx)
    BY <1>3, <1>5 DEF nu
  <2> QED
    BY <2>1, <2>2 DEF UsedEntry, Id, Flight
<1> QED
  BY <1>0, <1>1, <1>3, <1>5, <1>6, <1>7, <1>8

LEMMA SetupRing ==
    ASSUME NetInv, NEW q \in Queues, NEW from, NEW to, setup_queue(q, from, to), ~enabled(q)
    PROVE  SetUp(q)
<1>0. Types /\ Registers
  BY Zenon DEF NetInv
<1>1. net.queue[q] = QueueReset
  BY <1>0 DEF Registers, RegistersOf
<1>2. QueueSize(q) = qsize
  <2>1. net.queue[q].size = QUEUE_SIZE_MAX
    BY <1>1, ResetRegisters
  <2>2. effective_queue_size(net, q) = QUEUE_SIZE_MAX
    BY <2>1, Sizes DEF effective_queue_size
  <2> QED
    BY <2>2 DEF QueueSize, common_read, qsize
<1>3. SetsUp(q)
  BY <1>1, <1>2 DEF SetsUp, setup_queue, Parts
<1> QED
  BY <1>0, <1>3, SetsUpEffect

LEMMA PostRing ==
    ASSUME NetInv, post_rx_buffer
    PROVE  /\ enabled("rx") /\ ~Running /\ devinit = "buffers" /\ shadow["rx"] \in Nat
           /\ shadow["rx"] < qsize /\ na("rx") + nu("rx") = shadow["rx"]
           /\ PostedNew("rx", shadow["rx"], RxDesc) /\ net' = net /\ seen' = seen
           /\ shadow'["rx"] = vring'["rx"].avail_idx /\ shadow'["tx"] = shadow["tx"]
           /\ shadow'["rx"] = shadow["rx"] + 1 /\ shadow' \in [Queues -> Idx]
<1>0. Types /\ Phases /\ Registers /\ RxFlight
  BY Zenon DEF NetInv
<1>1. devinit = "buffers" /\ net' = net /\ seen' = seen
  BY DEF post_rx_buffer, Loads
<1>2. enabled("rx") /\ ~Running
  BY <1>0, <1>1 DEF Phases, Running
<1>3. /\ shadow["rx"] = vring["rx"].avail_idx /\ shadow \in [Queues -> Idx]
      /\ shadow["rx"] \in Idx
  BY <1>0, Constants DEF Registers, RegistersOf, Types, UnitTypes
<1>4. shadow["rx"] < qsize /\ na("rx") + nu("rx") = shadow["rx"]
  BY <1>0, <1>2 DEF RxFlight, Posted
<1>5. na("rx") \in Nat /\ nu("rx") \in Nat
  BY <1>0, RingTypes, Constants
<1>6. na("rx") < qsize /\ shadow["rx"] \in Nat /\ shadow["rx"] \in Entries
  BY <1>3, <1>4, <1>5, Sizes DEF Idx, Entries
<1>7. RxDesc \in Descriptors
  BY Lengths, Constants DEF RxDesc, NoDesc, Descriptors
<1> DEFINE v == PostedRing(shadow["rx"])
<1>8. SetsAvail(vring, v, "rx", vring["rx"].avail_idx % qsize, shadow["rx"], RxDesc)
  BY <1>3, Zenon DEF PostedRing, SetsAvail, RxDesc
<1>9. SetsAvailIdx(v, vring', "rx", Succ(vring["rx"].avail_idx))
  BY <1>3, Zenon DEF post_rx_buffer, SetsAvailIdx
<1> HIDE DEF v
<1>10. PostsNew("rx", shadow["rx"], RxDesc, v)
  BY <1>1, <1>6, <1>7, <1>8, <1>9 DEF PostsNew
<1>11. PostedNew("rx", shadow["rx"], RxDesc)
  BY <1>0, <1>6, <1>10, PostsNewEffect, Constants
<1>12. Succ(shadow["rx"]) \in Idx /\ Succ(shadow["rx"]) = shadow["rx"] + 1
  BY <1>3, <1>4, <1>6, SuccDef, Sizes
<1>13. /\ shadow' \in [Queues -> Idx] /\ shadow'["rx"] = Succ(shadow["rx"]) /\ shadow'["tx"] = shadow["tx"]
  BY <1>3, <1>12, Constants DEF post_rx_buffer
<1>14. vring'["rx"].avail_idx = Succ(vring["rx"].avail_idx)
  BY <1>11 DEF PostedNew
<1> QED
  BY <1>1, <1>2, <1>3, <1>4, <1>6, <1>11, <1>12, <1>13, <1>14

LEMMA MergeFeature ==
    ASSUME NEW n \in NetType, NEW sel \in Nat, NEW bits
    PROVE  LET m == merge_driver_feature([n EXCEPT !.driver_select = sel], bits)
           IN  m \in NetType /\ m.queue = n.queue /\ m.status = n.status
<1> DEFINE o == [n EXCEPT !.driver_select = sel]
           w == FeatureWindow(o.driver_select)
           acked == (o.acked \ w) \cup (bits \cap w \cap OfferedFeatures)
<1>1. o \in NetType /\ o.queue = n.queue /\ o.status = n.status
  BY DEF NetType
<1>2. merge_driver_feature(o, bits) = IF "FEATURES_OK" \in o.status THEN o ELSE [o EXCEPT !.acked = acked]
  BY DEF merge_driver_feature
<1>3. acked \in SUBSET OfferedFeatures
  BY <1>1 DEF NetType
<1> HIDE DEF o, acked
<1>4. [o EXCEPT !.acked = acked] \in NetType /\ [o EXCEPT !.acked = acked].queue = o.queue
      /\ [o EXCEPT !.acked = acked].status = o.status
  BY <1>1, <1>3 DEF NetType
<1>5. merge_driver_feature(o, bits) \in NetType /\ merge_driver_feature(o, bits).queue = n.queue
      /\ merge_driver_feature(o, bits).status = n.status
  BY <1>1, <1>2, <1>4
<1> QED
  BY <1>5 DEF o

LEMMA NegotiateRing ==
    ASSUME negotiate
    PROVE  /\ net' \in NetType /\ \A q \in Queues : net'.queue[q] = QueueReset
           /\ "FEATURES_OK" \in net'.status /\ "NEEDS_RESET" \notin net'.status
           /\ UNCHANGED <<vring, shadow, seen>>
<1> DEFINE a == write_device_status(net, {})
           b == write_device_status(a, {"ACKNOWLEDGE"})
           up == write_device_status(b, {"ACKNOWLEDGE", "DRIVER"})
           mac == merge_driver_feature([up EXCEPT !.driver_select = 0], common_read(up, "DEVICE_FEATURE", 0))
           acked == merge_driver_feature([mac EXCEPT !.driver_select = 1], common_read(mac, "DEVICE_FEATURE", 1))
           done == write_device_status(acked, {"ACKNOWLEDGE", "DRIVER", "FEATURES_OK"})
<1>1. a \in NetType /\ \A q \in Queues : a.queue[q] = QueueReset
  BY ResetRegisters DEF write_device_status
<1>2. net' = done /\ "FEATURES_OK" \in done.status /\ UNCHANGED <<vring, shadow, seen>>
  BY DEF negotiate, common_read
<1> HIDE DEF a
<1>3. b \in NetType /\ b.queue = a.queue
  BY <1>1, WriteStatus DEF StatusBits
<1> HIDE DEF b
<1>4. up \in NetType /\ up.queue = b.queue
  BY <1>3, WriteStatus DEF StatusBits
<1> HIDE DEF up
<1>5. mac \in NetType /\ mac.queue = up.queue
  BY <1>4, MergeFeature
<1> HIDE DEF mac
<1>6. acked \in NetType /\ acked.queue = mac.queue
  BY <1>5, MergeFeature
<1> HIDE DEF acked
<1>7. done \in NetType /\ done.queue = acked.queue /\ "NEEDS_RESET" \notin done.status
  BY <1>6, WriteStatus DEF StatusBits
<1> QED
  BY <1>1, <1>2, <1>3, <1>4, <1>5, <1>6, <1>7

-----------------------------------------------------------------------------
(* What the calls do to a request *)

ReqBecomes(r, s, n, x) ==
    /\ req' \in [Reqs -> ReqRecs]
    /\ req'[r].state = s /\ req'[r].issue = n /\ req'[r].result = x
    /\ s # "filling" => req'[r].len = req[r].len
    /\ \A t \in Reqs : t # r => req'[t] = req[t]

Answered(f, r, s, x) == [f EXCEPT ![r].state = s, ![r].result = x]
LEMMA TwoFields ==
    ASSUME NEW f \in [Reqs -> ReqRecs], NEW r \in Reqs, NEW s \in ReqStates, NEW x \in Results
    PROVE  /\ Answered(f, r, s, x) \in [Reqs -> ReqRecs]
           /\ Answered(f, r, s, x)[r].state = s /\ Answered(f, r, s, x)[r].result = x
           /\ Answered(f, r, s, x)[r].issue = f[r].issue
           /\ Answered(f, r, s, x)[r].len = f[r].len
           /\ \A t \in Reqs : t # r => Answered(f, r, s, x)[t] = f[t]
<1> DEFINE h == [f EXCEPT ![r].state = s]
           g == [h EXCEPT ![r].result = x]
<1>1. h \in [Reqs -> ReqRecs] /\ h[r].state = s /\ h[r].issue = f[r].issue /\ h[r].len = f[r].len
      /\ \A t \in Reqs : t # r => h[t] = f[t]
  BY DEF ReqRecs
<1>2. Answered(f, r, s, x) = g
  BY DEF Answered
<1> HIDE DEF h
<1>3. g \in [Reqs -> ReqRecs] /\ g[r].state = h[r].state /\ g[r].result = x
      /\ g[r].issue = h[r].issue /\ g[r].len = h[r].len /\ \A t \in Reqs : t # r => g[t] = h[t]
  BY <1>1 DEF ReqRecs
<1> HIDE DEF g
<1> QED
  BY <1>1, <1>2, <1>3

LEMMA ReqSets ==
    ASSUME Types, NEW r \in Reqs, NEW s \in ReqStates, NEW x \in Results, NEW m \in Nat
    PROVE  /\ req' = [req EXCEPT ![r].state = s] => ReqBecomes(r, s, req[r].issue, req[r].result)
           /\ req' = Reply(r, x) => ReqBecomes(r, "done", req[r].issue, x)
           /\ req' = [Issued(r) EXCEPT ![r].result = x]
                => ReqBecomes(r, req[r].state, req[r].issue + 1, x)
           /\ req' = [Issued(r) EXCEPT ![r].state = s]
                => ReqBecomes(r, s, req[r].issue + 1, "none")
           /\ req' = [Issued(r) EXCEPT ![r].state = "filling", ![r].len = m]
                => ReqBecomes(r, "filling", req[r].issue + 1, "none")
<1>1. req \in [Reqs -> ReqRecs] /\ req[r] \in ReqRecs
  BY DEF Types, UnitTypes
<1>2. req[r].state \in ReqStates /\ req[r].issue \in Nat /\ req[r].issue + 1 \in Nat /\ req[r].result \in Results
  BY <1>1 DEF ReqRecs
<1>3. /\ Issued(r) \in [Reqs -> ReqRecs] /\ Issued(r)[r].state = req[r].state
      /\ Issued(r)[r].issue = req[r].issue + 1 /\ Issued(r)[r].result = "none"
      /\ Issued(r)[r].len = req[r].len
      /\ \A t \in Reqs : t # r => Issued(r)[t] = req[t]
  BY <1>1, <1>2 DEF Issued, ReqRecs, Results
<1>4. req' = [req EXCEPT ![r].state = s] => ReqBecomes(r, s, req[r].issue, req[r].result)
  BY <1>1, <1>2 DEF ReqBecomes, ReqRecs
<1>5. req' = Reply(r, x) => ReqBecomes(r, "done", req[r].issue, x)
  <2>1. "done" \in ReqStates
    BY DEF ReqStates
  <2>2. Reply(r, x) = Answered(req, r, "done", x)
    BY DEF Reply, Answered
  <2> QED
    BY <1>1, <2>1, <2>2, TwoFields DEF ReqBecomes
<1>6. req' = [Issued(r) EXCEPT ![r].result = x] => ReqBecomes(r, req[r].state, req[r].issue + 1, x)
  BY <1>2, <1>3 DEF ReqBecomes, ReqRecs
<1>7. req' = [Issued(r) EXCEPT ![r].state = s] => ReqBecomes(r, s, req[r].issue + 1, "none")
  BY <1>2, <1>3 DEF ReqBecomes, ReqRecs
<1>8. req' = [Issued(r) EXCEPT ![r].state = "filling", ![r].len = m]
         => ReqBecomes(r, "filling", req[r].issue + 1, "none")
  <2> DEFINE h == [Issued(r) EXCEPT ![r].state = "filling"]
             g == [h EXCEPT ![r].len = m]
  <2>1. /\ h \in [Reqs -> ReqRecs] /\ h[r].state = "filling" /\ h[r].result = "none"
        /\ h[r].issue = req[r].issue + 1 /\ \A t \in Reqs : t # r => h[t] = req[t]
    BY <1>3 DEF ReqRecs, ReqStates
  <2> HIDE DEF h
  <2>2. /\ g \in [Reqs -> ReqRecs] /\ g[r].state = "filling" /\ g[r].result = "none"
        /\ g[r].issue = req[r].issue + 1 /\ \A t \in Reqs : t # r => g[t] = req[t]
    BY <2>1 DEF ReqRecs
  <2>3. [Issued(r) EXCEPT ![r].state = "filling", ![r].len = m] = g
    BY DEF h
  <2> HIDE DEF g
  <2> QED
    BY <2>2, <2>3 DEF ReqBecomes
<1> QED
  BY <1>4, <1>5, <1>6, <1>7, <1>8

-----------------------------------------------------------------------------
(* The steps, by what they do to the rings *)

RingsStay ==
    /\ net' \in NetType /\ net'.queue = net.queue /\ "NEEDS_RESET" \notin net'.status
    /\ UNCHANGED <<vring, seen, shadow>> /\ Running' = Running
SomePublish == \E w \in Writes : publish(w)
TxAnswers == tx_entry /\ seen["tx"] # dev_idx
TxCompletes == DriverRests /\ TxSends
RxCompletes == DriverRests /\ RxReceives
SetsUpRx == setup_queue("rx", "rx_queue", "tx_queue")
SetsUpTx == setup_queue("tx", "tx_queue", "buffers")

LEMMA CallsLeaveRings ==
    ASSUME NetInv, CallLeaves PROVE RingsStay
<1>1. net' = net /\ UNCHANGED <<vring, seen, shadow, devinit>>
  BY DEF CallLeaves, netVars
<1> QED
  BY <1>1 DEF RingsStay, NetInv, Types, CardTypes, Phases, Running

LEMMA RestsLeaveRings ==
    ASSUME NetInv, net' = net, UNCHANGED <<vring, seen, shadow>>, Running' = Running PROVE RingsStay
BY DEF RingsStay, NetInv, Types, CardTypes, Phases

LEMMA StatusLeavesRings ==
    ASSUME NetInv, NEW bits \in SUBSET StatusBits, bits # {}, "NEEDS_RESET" \notin bits,
           "DRIVER_OK" \in bits => "FEATURES_OK" \in bits /\ "FEATURES_OK" \in net.status,
           net' = write_device_status(net, bits),
           UNCHANGED <<vring, seen, shadow>>, Running' = Running
    PROVE  RingsStay /\ ("FEATURES_OK" \in net.status => net'.status = bits)
<1>1. net \in NetType
  BY DEF NetInv, Types, CardTypes
<1> DEFINE m == write_device_status(net, bits)
<1>2. /\ m \in NetType /\ m.queue = net.queue
      /\ "FEATURES_OK" \in net.status => m.status =
           IF "DRIVER_OK" \in bits /\ "FEATURES_OK" \notin bits
           THEN (bits \ {"DRIVER_OK"}) \cup {"NEEDS_RESET"} ELSE bits
      /\ "DRIVER_OK" \notin bits /\ "NEEDS_RESET" \notin bits => "NEEDS_RESET" \notin m.status
  BY <1>1, WriteStatus
<1> HIDE DEF m
<1>3. net' = m
  BY DEF m
<1> QED
  BY <1>2, <1>3 DEF RingsStay

LEMMA Kinds ==
    ASSUME NetInv, [DrvNext]_drvVars
    PROVE  \/ RingsStay \/ SomePublish \/ push_avail \/ rx_post \/ rx_push \/ TxAnswers
           \/ TxCompletes \/ RxCompletes \/ negotiate \/ SetsUpRx \/ SetsUpTx \/ post_rx_buffer
<1>0. Types /\ Phases /\ Registers /\ RxFlight /\ TxFlight
  BY Zenon DEF NetInv
<1>1. CASE UNCHANGED drvVars
  <2>1. net' = net /\ UNCHANGED <<vring, seen, shadow, devinit>>
    BY <1>1 DEF drvVars, netVars
  <2> QED
    BY <2>1, RestsLeaveRings DEF Running
<1>2. CASE DevInit
  <2>1. CASE AllocFails
    <3>1. PICK from \in {"rx_queue", "tx_queue", "buffers"} : LoadFails(from, net)
      BY <2>1 DEF AllocFails
    <3>2. /\ net' = write_device_status(net, {"FAILED"}) /\ UNCHANGED <<vring, shadow, seen>>
          /\ devinit = from /\ devinit' = "unloaded"
      BY <3>1 DEF LoadFails, Loads
    <3>3. Running' = Running
      BY <3>1, <3>2 DEF Running
    <3>4. {"FAILED"} \in SUBSET StatusBits
      BY DEF StatusBits
    <3>5. RingsStay
      BY <3>2, <3>3, <3>4, StatusLeavesRings
    <3> QED
      BY <3>5
  <2>2. CASE add_int_server \/ set_ready
    <3>1. net' = net /\ UNCHANGED <<vring, seen, shadow>> /\ Running' = Running
      BY <2>2 DEF add_int_server, set_ready, Loads, Running
    <3> QED
      BY <3>1, RestsLeaveRings
  <2>3. CASE driver_ok
    <3> DEFINE bits == {"ACKNOWLEDGE", "DRIVER", "FEATURES_OK", "DRIVER_OK"}
    <3>1. /\ net' = write_device_status(net, bits) /\ UNCHANGED <<vring, shadow, seen>>
          /\ devinit = "driver_ok" /\ devinit' = "set_ready"
      BY <2>3 DEF driver_ok, Loads
    <3>2. Running' = Running /\ "FEATURES_OK" \in net.status
      BY <1>0, <3>1 DEF Running, Phases
    <3>3. /\ bits \in SUBSET StatusBits /\ bits # {} /\ "NEEDS_RESET" \notin bits
          /\ "FEATURES_OK" \in bits
      BY DEF StatusBits
    <3> HIDE DEF bits
    <3>4. RingsStay
      BY <3>1, <3>2, <3>3, StatusLeavesRings
    <3> QED
      BY <3>4
  <2> QED
    BY <1>2, <2>1, <2>2, <2>3 DEF DevInit, SetsUpRx, SetsUpTx
<1>3. CASE Client
  <2>1. CallLeaves \/ SomePublish
    BY <1>3 DEF Client, VNetOpen, VNetClose, cmd_flush, cmd_configinterface, cmd_online, cmd_offline,
                Refused, cmd_read, queue_read, VNetAbortIO, cmd_write, copy_fails, SomePublish
  <2> QED
    BY <2>1, CallsLeaveRings
<1>4. CASE TakeInt2
  <2>1. net' = net /\ UNCHANGED <<vring, seen, shadow>> /\ Running' = Running
    BY <1>4 DEF TakeInt2, Serves, Running
  <2> QED
    BY <2>1, RestsLeaveRings
<1>5. CASE vnet_isr_handler
  <2>1. CASE read_isr_byte
    <3>1. net' = read_isr(net) /\ UNCHANGED <<vring, seen, shadow>> /\ Running' = Running /\ net \in NetType
      BY <1>0, <2>1 DEF read_isr_byte, Serves, Running, Types, CardTypes
    <3>2. net' \in NetType /\ net'.queue = net.queue /\ net'.status = net.status
      BY <3>1, ReadIsr
    <3> QED
      BY <1>0, <3>1, <3>2 DEF RingsStay, Phases
  <2>2. CASE read_used_idx("rx", "rx_idx", "rx") \/ read_used_idx("tx", "tx_idx", "tx")
    <3>1. net' = net /\ UNCHANGED <<vring, seen, shadow>> /\ Running' = Running
      BY <2>2 DEF read_used_idx, Serves, Running
    <3> QED
      BY <3>1, RestsLeaveRings
  <2>3. CASE rx_entry
    <3>1. net' = net /\ UNCHANGED <<vring, seen, shadow>> /\ Running' = Running
      BY <2>3 DEF rx_entry, Serves, Running
    <3> QED
      BY <3>1, RestsLeaveRings
  <2>4. CASE tx_entry /\ seen["tx"] = dev_idx
    <3>1. net' = net /\ UNCHANGED <<vring, seen, shadow>> /\ Running' = Running
      BY <2>4 DEF tx_entry, Serves, Running
    <3> QED
      BY <3>1, RestsLeaveRings
  <2>5. CASE ExitInt2
    <3>1. net' = net /\ UNCHANGED <<vring, seen, shadow>> /\ Running' = Running
      BY <2>5 DEF ExitInt2, Serves, Running
    <3> QED
      BY <3>1, RestsLeaveRings
  <2> QED
    BY <1>5, <2>1, <2>2, <2>3, <2>4, <2>5 DEF vnet_isr_handler, TxAnswers
<1>6. CASE FrameArrives
  <2>1. net' = net /\ UNCHANGED <<vring, seen, shadow>> /\ Running' = Running
    BY <1>6 DEF FrameArrives, Running
  <2> QED
    BY <2>1, RestsLeaveRings
<1>7. CASE Device
  <2>1. DriverRests /\ (EngineIdles \/ TxSends \/ RxReceives)
    BY <1>0, <1>7, EngineSteps
  <2>2. CASE EngineIdles
    <3>1. net' = net /\ UNCHANGED <<vring, seen, shadow>> /\ Running' = Running
      BY <2>1, <2>2 DEF EngineIdles, DriverRests, Running
    <3> QED
      BY <3>1, RestsLeaveRings
  <2> QED
    BY <2>1, <2>2 DEF TxCompletes, RxCompletes
<1> QED
  BY <1>1, <1>2, <1>3, <1>4, <1>5, <1>6, <1>7 DEF DrvNext

-----------------------------------------------------------------------------
(* The registers *)

LEMMA TxCompletesRing ==
    ASSUME NetInv, TxCompletes
    PROVE  /\ Completed("tx", UsedLen(req[slot[HeadOf("tx")]])) /\ enabled("tx") /\ la("tx") # vring["tx"].avail_idx
           /\ UNCHANGED <<shadow, seen, devinit>> /\ Running' = Running
<1>0. Types /\ Phases /\ RxFlight /\ TxFlight /\ Registers
  BY Zenon DEF NetInv
<1> DEFINE len == UsedLen(req[slot[HeadOf("tx")]])
<1>1. Completes("tx", len) /\ devinit' = devinit
  BY DEF TxCompletes, TxSends, DriverRests
<1>a. len \in Nat
  BY <1>0, <1>1, TxHead, Lengths DEF Completes, UsedLen
<1> HIDE DEF len
<1>2. Completed("tx", len)
  BY <1>0, <1>1, <1>a, CompletesEffect, Constants
<1> QED
  BY <1>1, <1>2 DEF Completes, Running, len

LEMMA RxCompletesRing ==
    ASSUME NetInv, RxCompletes
    PROVE  /\ Head(inbox) \in Frames /\ HdrLen + Head(inbox).len \in Nat
           /\ Completed("rx", HdrLen + Head(inbox).len) /\ enabled("rx")
           /\ la("rx") # vring["rx"].avail_idx
           /\ UNCHANGED <<shadow, seen, devinit>> /\ Running' = Running
<1>0. Types /\ Phases /\ RxFlight /\ TxFlight /\ Registers
  BY Zenon DEF NetInv
<1>1. Completes("rx", HdrLen + Head(inbox).len) /\ inbox # <<>> /\ devinit' = devinit
  BY DEF RxCompletes, RxReceives, DriverRests
<1>2. Head(inbox) \in Frames
  BY <1>0, <1>1 DEF Types, CardTypes
<1>3. HdrLen + Head(inbox).len \in Nat
  BY <1>2, FrameFacts, Constants, VirtioAssumption
<1>4. Completed("rx", HdrLen + Head(inbox).len)
  BY <1>0, <1>1, <1>3, CompletesEffect, Constants
<1> QED
  BY <1>1, <1>2, <1>3, <1>4 DEF Completes, Running

LEMMA SetsUpRing ==
    ASSUME NetInv
    PROVE  /\ SetsUpRx => /\ SetUp("rx") /\ ~enabled("rx") /\ ~enabled("tx")
                          /\ devinit = "rx_queue" /\ devinit' = "tx_queue"
           /\ SetsUpTx => /\ SetUp("tx") /\ ~enabled("tx") /\ enabled("rx")
                          /\ devinit = "tx_queue" /\ devinit' = "buffers"
<1>1. CASE SetsUpRx
  <2>1. devinit = "rx_queue" /\ devinit' = "tx_queue"
    BY <1>1 DEF SetsUpRx, setup_queue, Loads
  <2>2. ~enabled("rx") /\ ~enabled("tx")
    BY <2>1 DEF NetInv, Phases
  <2>3. SetUp("rx")
    BY <1>1, <2>2, SetupRing, Constants DEF SetsUpRx
  <2> QED
    BY <2>1, <2>2, <2>3 DEF SetsUpTx, setup_queue, Loads
<1>2. CASE SetsUpTx
  <2>1. devinit = "tx_queue" /\ devinit' = "buffers"
    BY <1>2 DEF SetsUpTx, setup_queue, Loads
  <2>2. ~enabled("tx") /\ enabled("rx")
    BY <2>1 DEF NetInv, Phases
  <2>3. SetUp("tx")
    BY <1>2, <2>2, SetupRing, Constants DEF SetsUpTx
  <2> QED
    BY <2>1, <2>2, <2>3 DEF SetsUpRx, setup_queue, Loads
<1> QED
  BY <1>1, <1>2

LEMMA SameRegisters ==
    ASSUME NEW q \in Queues, RegistersOf(q), Untouched(q), shadow'[q] = shadow[q]
    PROVE  RegistersOf(q)'
BY DEF RegistersOf, Untouched, enabled

LEMMA RegistersStep ==
    ASSUME NetInv, [DrvNext]_drvVars
    PROVE  Registers'
<1>0. Types /\ Phases /\ RxFlight /\ TxFlight /\ Registers
  BY Zenon DEF NetInv
<1>1. \A q \in Queues : RegistersOf(q)
  BY <1>0 DEF Registers
<1>2. \A q \in Queues : Untouched(q) /\ shadow'[q] = shadow[q] => RegistersOf(q)'
  BY <1>1, SameRegisters
<1>3. CASE RingsStay
  BY <1>2, <1>3 DEF RingsStay, Untouched, Registers
<1>4. CASE SomePublish
  <2>1. PICK w \in Writes : publish(w)
    BY <1>4 DEF SomePublish
  <2>2. EntryWritten("tx", SlotOf(w), TxDesc(w, req[w])) /\ shadow' = shadow /\ net' = net
    BY <2>1, PublishRing
  <2>3. RegistersOf("tx")'
    BY <1>1, <2>2, Constants DEF EntryWritten, RegistersOf, enabled
  <2>4. RegistersOf("rx")'
    BY <1>2, <2>2, Constants DEF EntryWritten
  <2> QED
    BY <2>3, <2>4 DEF Registers, Queues
<1>5. CASE push_avail
  <2>1. /\ EntryPushed("tx") /\ net' = net
        /\ shadow'["tx"] = vring'["tx"].avail_idx /\ shadow'["rx"] = shadow["rx"]
    BY <1>5, PushRing
  <2>2. RegistersOf("tx")'
    BY <1>1, <2>1, Constants DEF EntryPushed, RegistersOf, enabled
  <2>3. RegistersOf("rx")'
    BY <1>2, <2>1, Constants DEF EntryPushed
  <2> QED
    BY <2>2, <2>3 DEF Registers, Queues
<1>6. CASE rx_post
  <2>1. EntryWritten("rx", entry, RxDesc) /\ shadow' = shadow /\ net' = net
    BY <1>6, RxPostRing
  <2>2. RegistersOf("rx")'
    BY <1>1, <2>1, Constants DEF EntryWritten, RegistersOf, enabled
  <2>3. RegistersOf("tx")'
    BY <1>2, <2>1, Constants DEF EntryWritten
  <2> QED
    BY <2>2, <2>3 DEF Registers, Queues
<1>7. CASE rx_push
  <2>1. /\ Reposted("rx") /\ net' = net
        /\ shadow'["rx"] = vring'["rx"].avail_idx /\ shadow'["tx"] = shadow["tx"]
    BY <1>7, RxPushRing
  <2>2. RegistersOf("rx")'
    BY <1>1, <2>1, Constants DEF Reposted, RegistersOf, enabled
  <2>3. RegistersOf("tx")'
    BY <1>2, <2>1, Constants DEF Reposted
  <2> QED
    BY <2>2, <2>3 DEF Registers, Queues
<1>8. CASE TxAnswers
  <2>1. net' = net /\ vring' = vring /\ shadow' = shadow
    BY <1>8, TxEntryRing DEF TxAnswers
  <2> QED
    BY <1>1, <2>1 DEF Registers, RegistersOf, enabled
<1>9. ASSUME NEW q \in Queues, NEW len, Completed(q, len), enabled(q), shadow' = shadow
      PROVE  Registers'
  <2>1. RegistersOf(q)'
    BY <1>1, <1>9 DEF Completed, RegistersOf
  <2>2. \A p \in Queues : p # q => RegistersOf(p)'
    BY <1>2, <1>9 DEF Completed
  <2> QED
    BY <2>1, <2>2 DEF Registers
<1>10. CASE TxCompletes
  BY <1>9, <1>10, TxCompletesRing, Constants
<1>11. CASE RxCompletes
  BY <1>9, <1>11, RxCompletesRing, Constants
<1>12. CASE negotiate
  <2>1. UNCHANGED <<vring, shadow>> /\ \A q \in Queues : net'.queue[q] = QueueReset
    BY <1>12, NegotiateRing
  <2>2. \A q \in Queues : ~enabled(q)'
    BY <2>1, ResetRegisters DEF enabled
  <2> QED
    BY <1>1, <2>1, <2>2 DEF Registers, RegistersOf
<1>13. ASSUME NEW q \in Queues, SetUp(q) PROVE Registers'
  <2>1. RegistersOf(q)'
    BY <1>13 DEF SetUp, RegistersOf
  <2>2. \A p \in Queues : p # q => RegistersOf(p)'
    BY <1>2, <1>13 DEF SetUp
  <2> QED
    BY <2>1, <2>2 DEF Registers
<1>14. CASE SetsUpRx
  BY <1>13, <1>14, SetsUpRing, Constants
<1>15. CASE SetsUpTx
  BY <1>13, <1>15, SetsUpRing, Constants
<1>16. CASE post_rx_buffer
  <2>1. /\ PostedNew("rx", shadow["rx"], RxDesc) /\ net' = net
        /\ shadow'["rx"] = vring'["rx"].avail_idx /\ shadow'["tx"] = shadow["tx"]
    BY <1>16, PostRing
  <2>2. RegistersOf("rx")'
    BY <1>1, <2>1, Constants DEF PostedNew, RegistersOf, enabled
  <2>3. RegistersOf("tx")'
    BY <1>2, <2>1, Constants DEF PostedNew
  <2> QED
    BY <2>2, <2>3 DEF Registers, Queues
<1> QED
  BY <1>3, <1>4, <1>5, <1>6, <1>7, <1>8, <1>10, <1>11, <1>12, <1>14, <1>15, <1>16, Kinds

-----------------------------------------------------------------------------
(* The receive buffers *)

LEMMA SameRx ==
    ASSUME RxFlight, Untouched("rx"), shadow'["rx"] = shadow["rx"], Running' = Running
    PROVE  RxFlight'
<1>1. /\ enabled("rx")' = enabled("rx") /\ na("rx")' = na("rx") /\ nu("rx")' = nu("rx")
      /\ \A k : Id("rx", k)' = Id("rx", k)
  BY SameQueue, Constants
<1>2. vring'["rx"].desc = vring["rx"].desc /\ Posted' = Posted
  BY DEF Untouched, Posted
<1> QED
  BY <1>1, <1>2 DEF RxFlight

LEMMA RxFlightStep ==
    ASSUME NetInv, [DrvNext]_drvVars
    PROVE  RxFlight'
<1>0. Types /\ Phases /\ RxFlight /\ TxFlight /\ Registers /\ Handler
  BY Zenon DEF NetInv
<1>a. na("rx") \in Nat /\ nu("rx") \in Nat
  BY <1>0, RingTypes, Constants
<1>1. CASE RingsStay
  BY <1>0, <1>1, SameRx DEF RingsStay, Untouched
<1>2. CASE SomePublish
  <2>1. PICK w \in Writes : publish(w)
    BY <1>2 DEF SomePublish
  <2>2. EntryWritten("tx", SlotOf(w), TxDesc(w, req[w])) /\ shadow' = shadow
    BY <2>1, PublishRing
  <2>3. Untouched("rx") /\ devinit' = devinit
    BY <2>1, <2>2, Constants DEF EntryWritten, publish
  <2> QED
    BY <1>0, <2>2, <2>3, SameRx DEF Running
<1>3. CASE push_avail
  <2>1. EntryPushed("tx") /\ shadow'["rx"] = shadow["rx"]
    BY <1>3, PushRing
  <2>2. Untouched("rx") /\ devinit' = devinit
    BY <1>3, <2>1, Constants DEF EntryPushed, push_avail
  <2> QED
    BY <1>0, <2>1, <2>2, SameRx DEF Running
<1>4. CASE TxAnswers
  <2>1. UsedTaken("tx") /\ shadow' = shadow /\ devinit' = devinit
    BY <1>4, TxEntryRing DEF TxAnswers, tx_entry, Serves
  <2>2. Untouched("rx")
    BY <2>1, Constants DEF UsedTaken
  <2> QED
    BY <1>0, <2>1, <2>2, SameRx DEF Running
<1>5. CASE TxCompletes
  <2>1. Completed("tx", UsedLen(req[slot[HeadOf("tx")]])) /\ shadow' = shadow /\ Running' = Running
    BY <1>5, TxCompletesRing
  <2>2. Untouched("rx")
    BY <2>1, Constants DEF Completed
  <2> QED
    BY <1>0, <2>1, <2>2, SameRx
<1>6. CASE SetsUpTx
  <2>1. SetUp("tx") /\ devinit = "tx_queue" /\ devinit' = "buffers"
    BY <1>6, SetsUpRing
  <2>2. Untouched("rx") /\ shadow'["rx"] = shadow["rx"]
    BY <2>1, Constants DEF SetUp
  <2> QED
    BY <1>0, <2>1, <2>2, SameRx DEF Running
<1>7. CASE rx_post
  <2>1. EntryWritten("rx", entry, RxDesc) /\ shadow' = shadow /\ devinit' = devinit /\ pc = "rx_post"
    BY <1>7, RxPostRing DEF rx_post, Serves
  <2>2. Posted' = Posted /\ Posted = na("rx") + nu("rx")
    BY <2>1, <1>0, InHand DEF Posted, Running, RxFlight
  <2>3. /\ na("rx")' = na("rx") /\ nu("rx")' = nu("rx")
        /\ vring'["rx"].desc = [vring["rx"].desc EXCEPT ![entry] = RxDesc]
        /\ \A k \in 0 .. Posted - 1 : Id("rx", k)' = Id("rx", k)
    <3>1. \A k \in 0 .. na("rx") + nu("rx") - 1 : Id("rx", k)' = Id("rx", k)
      BY <2>1, Zenon DEF EntryWritten
    <3>2. ASSUME NEW k \in 0 .. Posted - 1 PROVE Id("rx", k)' = Id("rx", k)
      <4>1. k \in 0 .. na("rx") + nu("rx") - 1
        BY <1>a, <2>2
      <4> QED
        BY <3>1, <4>1, Zenon
    <3> QED
      BY <2>1, <3>2 DEF EntryWritten
  <2>4. enabled("rx") /\ Running /\ Running' = Running
    BY <2>1, InHand DEF Running
  <2>5. /\ na("rx") + nu("rx") = Posted
        /\ \A k \in 0 .. Posted - 1 : Id("rx", k) \in 0 .. Posted - 1
        /\ \A k, l \in 0 .. Posted - 1 : Id("rx", k) = Id("rx", l) => k = l
        /\ \A i \in 0 .. Posted - 1 : vring["rx"].desc[i] = RxDesc
    BY <1>0, <2>4 DEF RxFlight
  <2>6. \A i \in 0 .. Posted - 1 : vring'["rx"].desc[i] = RxDesc
    <3>1. vring["rx"].desc \in [Entries -> Descriptors] /\ Posted = qsize
      BY <1>0, <2>4, Constants DEF Types, CardTypes, Rings, Posted
    <3>2. \A i \in 0 .. Posted - 1 : i \in Entries
      BY <3>1, Constants DEF Slots
    <3> QED
      BY <2>3, <2>5, <3>1, <3>2
  <2> QED
    BY <2>2, <2>3, <2>4, <2>5, <2>6 DEF RxFlight
<1>8. CASE rx_push
  <2>1. Reposted("rx") /\ devinit' = devinit /\ pc = "rx_push"
    BY <1>8, RxPushRing DEF rx_push, Serves
  <2>2. enabled("rx") /\ Running /\ Running' = Running /\ Posted = qsize /\ Posted' = qsize
    BY <2>1, InHand DEF Running, Posted
  <2>3. /\ na("rx") + nu("rx") = qsize
        /\ \A k \in 0 .. qsize - 1 : Id("rx", k) \in 0 .. qsize - 1
        /\ \A k, l \in 0 .. qsize - 1 : Id("rx", k) = Id("rx", l) => k = l
        /\ \A i \in 0 .. qsize - 1 : vring["rx"].desc[i] = RxDesc
    BY <1>0, <2>2 DEF RxFlight
  <2>4. /\ na("rx")' = na("rx") + 1 /\ nu("rx")' = nu("rx") - 1
        /\ vring'["rx"].desc = vring["rx"].desc
        /\ \A k \in Nat : Id("rx", k)' = Id("rx", k + 1)
        /\ Id("rx", qsize) = NextEntry("rx")
    BY <2>1, <2>3 DEF Reposted
  <2>5. Id("rx", qsize) = Id("rx", 0)
    BY <1>0, <2>1, <2>4 DEF Handler
  <2>6. na("rx") \in Nat /\ nu("rx") \in Nat
    BY <1>0, RingTypes, Constants
  <2>7. na("rx")' + nu("rx")' = qsize
    BY <2>3, <2>4, <2>6
  <2> DEFINE Turn(k) == IF k + 1 = qsize THEN 0 ELSE k + 1
  <2>8. \A k \in 0 .. qsize - 1 : Turn(k) \in 0 .. qsize - 1 /\ Id("rx", k)' = Id("rx", Turn(k))
    BY <2>4, <2>5, Sizes
  <2>9. \A k, l \in 0 .. qsize - 1 : Turn(k) = Turn(l) => k = l
    BY Sizes
  <2> HIDE DEF Turn
  <2>10. \A k \in 0 .. qsize - 1 : Id("rx", k)' \in 0 .. qsize - 1
    BY <2>3, <2>8
  <2>11. \A k, l \in 0 .. qsize - 1 : Id("rx", k)' = Id("rx", l)' => k = l
    <3> TAKE k \in 0 .. qsize - 1, l \in 0 .. qsize - 1
    <3> HAVE Id("rx", k)' = Id("rx", l)'
    <3>1. Id("rx", Turn(k)) = Id("rx", Turn(l))
      BY <2>8
    <3>2. Turn(k) = Turn(l)
      BY <2>3, <2>8, <3>1
    <3> QED
      BY <2>9, <3>2
  <2> QED
    BY <2>2, <2>3, <2>4, <2>7, <2>10, <2>11 DEF RxFlight
<1>9. CASE RxCompletes
  <2>1. Completed("rx", HdrLen + Head(inbox).len) /\ shadow' = shadow /\ Running' = Running /\ enabled("rx")
    BY <1>9, RxCompletesRing
  <2>2. Posted' = Posted /\ Posted = na("rx") + nu("rx")
    BY <1>0, <2>1 DEF Posted, RxFlight
  <2>3. /\ na("rx")' = na("rx") - 1 /\ nu("rx")' = nu("rx") + 1
        /\ vring'["rx"].desc = vring["rx"].desc
        /\ \A k \in 0 .. Posted - 1 : Id("rx", k)' = Id("rx", k)
    <3>1. \A k \in 0 .. na("rx") + nu("rx") - 1 : Id("rx", k)' = Id("rx", k)
      BY <2>1, Zenon DEF Completed
    <3>2. ASSUME NEW k \in 0 .. Posted - 1 PROVE Id("rx", k)' = Id("rx", k)
      <4>1. k \in 0 .. na("rx") + nu("rx") - 1
        BY <1>a, <2>2
      <4> QED
        BY <3>1, <4>1, Zenon
    <3> QED
      BY <2>1, <3>2 DEF Completed
  <2>4. na("rx") \in Nat /\ nu("rx") \in Nat
    BY <1>0, RingTypes, Constants
  <2>5. na("rx")' + nu("rx")' = Posted
    BY <2>2, <2>3, <2>4
  <2> QED
    BY <1>0, <2>1, <2>2, <2>3, <2>5 DEF RxFlight
<1>10. CASE negotiate
  <2>1. net'.queue["rx"] = QueueReset
    BY <1>10, NegotiateRing, Constants
  <2>2. ~enabled("rx")'
    BY <2>1, ResetRegisters DEF enabled
  <2> QED
    BY <2>2 DEF RxFlight
<1>11. CASE SetsUpRx
  <2>1. SetUp("rx") /\ devinit' = "tx_queue"
    BY <1>11, SetsUpRing
  <2>2. ~Running' /\ shadow'["rx"] = 0 /\ na("rx")' = 0 /\ nu("rx")' = 0
    BY <2>1 DEF Running, SetUp
  <2>3. Posted' = 0
    BY <2>2 DEF Posted
  <2> QED
    BY <2>2, <2>3, Sizes DEF RxFlight
<1>12. CASE post_rx_buffer
  <2>1. /\ enabled("rx") /\ ~Running /\ shadow["rx"] \in Nat /\ shadow["rx"] < qsize
        /\ na("rx") + nu("rx") = shadow["rx"] /\ shadow'["rx"] = shadow["rx"] + 1
        /\ PostedNew("rx", shadow["rx"], RxDesc) /\ net' = net
    BY <1>12, PostRing
  <2>2. devinit' = IF shadow["rx"] + 1 = qsize THEN "int_server" ELSE "buffers"
    BY <1>12 DEF post_rx_buffer, Loads
  <2>3. Posted = shadow["rx"] /\ Posted' = shadow["rx"] + 1
    BY <2>1, <2>2 DEF Posted, Running
  <2>4. ~Running' => shadow'["rx"] < qsize
    BY <2>1, <2>2, Sizes DEF Running
  <2>5. PICK n : n = shadow["rx"]
    OBVIOUS
  <2>6. /\ n \in Nat /\ n < qsize /\ na("rx") + nu("rx") = n
        /\ na("rx")' = na("rx") + 1 /\ nu("rx")' = nu("rx")
        /\ \A k \in 0 .. n - 1 : Id("rx", k)' = Id("rx", k)
        /\ vring'["rx"].desc = [vring["rx"].desc EXCEPT ![n] = RxDesc]
    <3>1. \A k \in 0 .. na("rx") + nu("rx") - 1 : Id("rx", k)' = Id("rx", k)
      BY <2>1, Zenon DEF PostedNew
    <3>2. ASSUME NEW k \in 0 .. n - 1 PROVE Id("rx", k)' = Id("rx", k)
      <4>1. k \in 0 .. na("rx") + nu("rx") - 1
        BY <1>a, <2>1, <2>5
      <4> QED
        BY <3>1, <4>1, Zenon
    <3> QED
      BY <2>1, <2>5, <3>2 DEF PostedNew
  <2>7. Id("rx", n)' = n
    BY <2>1, <2>5 DEF PostedNew
  <2>8. na("rx")' + nu("rx")' = n + 1
    <3>1. na("rx") \in Nat /\ nu("rx") \in Nat
      BY <1>0, RingTypes, Constants
    <3> QED
      BY <2>6, <3>1
  <2>9. /\ \A k \in 0 .. n - 1 : Id("rx", k) \in 0 .. n - 1
        /\ \A k, l \in 0 .. n - 1 : Id("rx", k) = Id("rx", l) => k = l
        /\ \A i \in 0 .. n - 1 : vring["rx"].desc[i] = RxDesc
    BY <1>0, <2>1, <2>3, <2>5 DEF RxFlight
  <2>10. \A k \in 0 .. n : k \in 0 .. n - 1 \/ k = n
    BY <2>6
  <2>11. \A k \in 0 .. n : Id("rx", k)' \in 0 .. n
    BY <2>6, <2>7, <2>9, <2>10
  <2>12. \A k, l \in 0 .. n : Id("rx", k)' = Id("rx", l)' => k = l
    BY <2>6, <2>7, <2>9, <2>10
  <2>13. \A i \in 0 .. n : vring'["rx"].desc[i] = RxDesc
    <3>1. vring["rx"].desc \in [Entries -> Descriptors]
      BY <1>0, Constants DEF Types, CardTypes, Rings
    <3>2. \A i \in 0 .. n : i \in Entries
      BY <2>6, Sizes DEF Entries
    <3> QED
      BY <2>6, <2>9, <2>10, <3>1, <3>2
  <2>14. Posted' = n + 1 /\ (n + 1) - 1 = n
    BY <2>3, <2>5, <2>6
  <2> QED
    BY <2>4, <2>8, <2>11, <2>12, <2>13, <2>14 DEF RxFlight
<1> QED
  BY <1>1, <1>2, <1>3, <1>4, <1>5, <1>6, <1>7, <1>8, <1>9, <1>10, <1>11, <1>12, Kinds

-----------------------------------------------------------------------------
(* The steps, by what they do to the slots and their owners *)

OwnersStay ==
    /\ slot' = slot /\ locked' = locked /\ req' \in [Reqs -> ReqRecs]
    /\ \A w \in Writes : req'[w] = req[w]
    /\ \A r \in Reads : req'[r].state \in {"done", "checked", "pending"}
(* A write that is answered at once, or gets a slot, or cannot fill it. *)
Declines(w) ==
    /\ CallLeaves /\ slot' = slot /\ req[w].state = "done"
    /\ ReqBecomes(w, "done", req[w].issue + 1, "error")
Allocates(w, i) ==
    /\ CallLeaves /\ slot[i] = "free" /\ slot' = [slot EXCEPT ![i] = w] /\ req[w].state = "done"
    /\ unit.open /\ ReqBecomes(w, "filling", req[w].issue + 1, "none")
GivesUp(w) ==
    /\ CallLeaves /\ slot' = [slot EXCEPT ![SlotOf(w)] = "free"] /\ req[w].state = "filling"
    /\ ReqBecomes(w, "done", req[w].issue, "error")
SomeDeclines == \E w \in Writes : Declines(w)
SomeAllocates == \E w \in Writes, i \in Slots : Allocates(w, i)
SomeGivesUp == \E w \in Writes : GivesUp(w)

LEMMA ReqTypes ==
    ASSUME Types
    PROVE  /\ req \in [Reqs -> ReqRecs]
           /\ \A r \in Reads : r \in Reqs /\ r \notin Writes
           /\ \A w \in Writes : w \in Reqs /\ w \notin Reads /\ w # "free" /\ w # "none"
           /\ pending \in Seq(Reads) /\ slot \in [Slots -> Writes \cup {"free"}]
BY Constants DEF Types, UnitTypes, Reqs

LEMMA OwnersUnchanged ==
    ASSUME NetInv, req' = req, slot' = slot, locked' = locked
    PROVE  OwnersStay
<1>1. Types /\ SlotOwners
  BY Zenon DEF NetInv
<1> QED
  BY <1>1, ReqTypes DEF OwnersStay, SlotOwners

LEMMA OneReadMoves ==
    ASSUME NetInv, NEW r \in Reads, NEW s \in {"done", "checked", "pending"}, NEW n, NEW x,
           ReqBecomes(r, s, n, x), slot' = slot, locked' = locked
    PROVE  OwnersStay
<1>1. Types /\ SlotOwners
  BY Zenon DEF NetInv
<1>2. \A w \in Writes : req'[w] = req[w]
  BY <1>1, ReqTypes DEF ReqBecomes
<1>3. \A t \in Reads : req'[t].state \in {"done", "checked", "pending"}
  BY <1>1, ReqTypes DEF ReqBecomes, SlotOwners
<1> QED
  BY <1>2, <1>3 DEF OwnersStay, ReqBecomes

LEMMA FlushedReads ==
    ASSUME NetInv
    PROVE  /\ Flushed \in [Reqs -> ReqRecs]
           /\ \A w \in Writes : Flushed[w] = req[w]
           /\ \A r \in Reads : /\ r \in ToSet(pending) => /\ Flushed[r].state = "done"
                                                         /\ Flushed[r].result = "error"
                                                         /\ Flushed[r].issue = req[r].issue
                               /\ r \notin ToSet(pending) => Flushed[r] = req[r]
<1>0. Types
  BY Zenon DEF NetInv
<1>1. ToSet(pending) \subseteq Reads
  BY <1>0, ReqTypes DEF ToSet
<1>2. ASSUME NEW r \in Reqs
      PROVE  /\ Flushed[r] \in ReqRecs
             /\ r \in ToSet(pending) => /\ Flushed[r].state = "done" /\ Flushed[r].result = "error"
                                        /\ Flushed[r].issue = req[r].issue
             /\ r \notin ToSet(pending) => Flushed[r] = req[r]
  <2>1. req[r] \in ReqRecs
    BY <1>0, ReqTypes
  <2>2. Flushed[r] = IF r \in ToSet(pending) THEN [req[r] EXCEPT !.state = "done", !.result = "error"]
                     ELSE req[r]
    BY DEF Flushed
  <2>3. /\ [req[r] EXCEPT !.state = "done", !.result = "error"] \in ReqRecs
        /\ [req[r] EXCEPT !.state = "done", !.result = "error"].state = "done"
        /\ [req[r] EXCEPT !.state = "done", !.result = "error"].result = "error"
        /\ [req[r] EXCEPT !.state = "done", !.result = "error"].issue = req[r].issue
    BY <2>1 DEF ReqRecs, ReqStates, Results
  <2> QED
    BY <2>1, <2>2, <2>3, Zenon
<1>3. Flushed \in [Reqs -> ReqRecs]
  <2>1. Flushed = [r \in Reqs |-> Flushed[r]]
    BY DEF Flushed
  <2> QED
    BY <1>2, <2>1
<1> QED
  BY <1>0, <1>1, <1>2, <1>3, ReqTypes

LEMMA OwnerKinds ==
    ASSUME NetInv, [DrvNext]_drvVars
    PROVE  \/ OwnersStay \/ SomeDeclines \/ SomeAllocates \/ SomeGivesUp
           \/ SomePublish \/ push_avail \/ TxAnswers
<1>0. Types /\ Phases /\ Registers /\ RxFlight /\ TxFlight
  BY Zenon DEF NetInv
<1>a. "done" \in ReqStates /\ "checked" \in ReqStates /\ "pending" \in ReqStates
      /\ "filling" \in ReqStates /\ "error" \in Results /\ "ok" \in Results
  BY DEF ReqStates, Results
<1>1. CASE UNCHANGED drvVars
  <2>1. req' = req /\ slot' = slot /\ locked' = locked
    BY <1>1 DEF drvVars, unitVars
  <2> QED
    BY <2>1, OwnersUnchanged
<1>2. CASE DevInit
  <2>1. req' = req /\ slot' = slot /\ locked' = locked
    BY <1>2 DEF DevInit, negotiate, setup_queue, AllocFails, LoadFails, post_rx_buffer,
                add_int_server, driver_ok, set_ready, Loads, unitVars
  <2> QED
    BY <2>1, OwnersUnchanged
<1>3. CASE VNetOpen \/ cmd_configinterface \/ cmd_online \/ cmd_offline
  <2>1. req' = req /\ slot' = slot /\ locked' = locked
    BY <1>3 DEF VNetOpen, cmd_configinterface, cmd_online, cmd_offline, CallLeaves
  <2> QED
    BY <2>1, OwnersUnchanged
<1>4. CASE VNetClose \/ cmd_flush
  <2>1. req' = Flushed /\ slot' = slot /\ locked' = locked
    BY <1>4 DEF VNetClose, cmd_flush, CallLeaves
  <2>2. \A r \in Reads : req[r].state \in {"done", "checked", "pending"}
    BY DEF NetInv, SlotOwners
  <2> QED
    BY <2>1, <2>2, FlushedReads DEF OwnersStay
<1>5. ASSUME NEW r \in Reqs, Refused(r) PROVE OwnersStay \/ SomeDeclines
  <2>1. /\ req' = [Issued(r) EXCEPT ![r].result = "error"] /\ req[r].state = "done"
        /\ slot' = slot /\ CallLeaves /\ locked' = locked
    BY <1>5 DEF Refused, MayIssue, CallLeaves
  <2>2. ReqBecomes(r, req[r].state, req[r].issue + 1, "error")
    BY <1>0, <1>a, <2>1, ReqSets
  <2>3. ReqBecomes(r, "done", req[r].issue + 1, "error")
    BY <2>1, <2>2
  <2>4. CASE r \in Reads
    BY <2>1, <2>3, <2>4, OneReadMoves
  <2>5. CASE r \in Writes
    BY <2>1, <2>3, <2>5 DEF Declines, SomeDeclines
  <2> QED
    BY <2>4, <2>5 DEF Reqs
<1>6. ASSUME NEW r \in Reads, cmd_read(r) \/ queue_read(r) \/ VNetAbortIO(r) PROVE OwnersStay
  <2>1. slot' = slot /\ locked' = locked /\ r \in Reqs
    BY <1>6 DEF cmd_read, queue_read, VNetAbortIO, CallLeaves, Reqs
  <2>2. CASE cmd_read(r)
    <3>1. req' = [Issued(r) EXCEPT ![r].state = "checked"]
      BY <2>2 DEF cmd_read
    <3>2. ReqBecomes(r, "checked", req[r].issue + 1, "none")
      BY <1>0, <1>a, <2>1, <3>1, ReqSets
    <3> QED
      BY <2>1, <3>2, OneReadMoves
  <2>3. CASE queue_read(r)
    <3>1. req' = [req EXCEPT ![r].state = "pending"]
      BY <2>3 DEF queue_read
    <3>2. ReqBecomes(r, "pending", req[r].issue, req[r].result)
      BY <1>0, <1>a, <2>1, <3>1, ReqSets
    <3> QED
      BY <2>1, <3>2, OneReadMoves
  <2>4. CASE VNetAbortIO(r)
    <3>1. req' = Reply(r, "error")
      BY <2>4 DEF VNetAbortIO
    <3>2. ReqBecomes(r, "done", req[r].issue, "error")
      BY <1>0, <1>a, <2>1, <3>1, ReqSets
    <3> QED
      BY <2>1, <3>2, OneReadMoves
  <2> QED
    BY <1>6, <2>2, <2>3, <2>4
<1>7. ASSUME NEW w \in Writes, cmd_write(w) PROVE SomeDeclines \/ SomeAllocates
  <2>1. req[w].state = "done" /\ CallLeaves /\ unit.open /\ w \in Reqs /\ DataLengths[w] \subseteq Nat
    BY <1>7, DriverAssumption DEF cmd_write, MayIssue, Reqs
  <2>2. CASE req' = [Issued(w) EXCEPT ![w].result = "error"] /\ slot' = slot
    <3>1. ReqBecomes(w, "done", req[w].issue + 1, "error")
      BY <1>0, <1>a, <2>1, <2>2, ReqSets
    <3> QED
      BY <2>1, <2>2, <3>1 DEF Declines, SomeDeclines
  <2>3. ASSUME NEW i \in Slots, slot[i] = "free", slot' = [slot EXCEPT ![i] = w],
               NEW m \in DataLengths[w], req' = [Issued(w) EXCEPT ![w].state = "filling", ![w].len = m]
        PROVE  SomeAllocates
    <3>0. m \in Nat
      BY <2>1, <2>3
    <3>1. ReqBecomes(w, "filling", req[w].issue + 1, "none")
      BY <1>0, <1>a, <2>1, <2>3, <3>0, ReqSets
    <3> QED
      BY <2>1, <2>3, <3>1 DEF Allocates, SomeAllocates
  <2> QED
    BY <1>7, <2>2, <2>3 DEF cmd_write
<1>8. ASSUME NEW w \in Writes, copy_fails(w) PROVE SomeGivesUp
  <2>1. /\ req[w].state = "filling" /\ CallLeaves /\ slot' = [slot EXCEPT ![SlotOf(w)] = "free"]
        /\ req' = Reply(w, "error") /\ w \in Reqs
    BY <1>8 DEF copy_fails, Reqs
  <2>2. ReqBecomes(w, "done", req[w].issue, "error")
    BY <1>0, <1>a, <2>1, ReqSets
  <2> QED
    BY <2>1, <2>2 DEF GivesUp, SomeGivesUp
<1>9. CASE Client
  BY <1>3, <1>4, <1>5, <1>6, <1>7, <1>8, <1>9 DEF Client, SomePublish
<1>10. CASE TakeInt2 \/ read_isr_byte \/ read_used_idx("rx", "rx_idx", "rx")
            \/ read_used_idx("tx", "tx_idx", "tx") \/ rx_post \/ rx_push \/ ExitInt2
  <2>1. req' = req /\ slot' = slot /\ locked' = locked
    BY <1>10 DEF TakeInt2, read_isr_byte, read_used_idx, rx_post, rx_push, ExitInt2, Serves
  <2> QED
    BY <2>1, OwnersUnchanged
<1>11. CASE rx_entry
  <2>1. slot' = slot /\ locked' = locked
    BY <1>11 DEF rx_entry, Serves
  <2>2. \/ req' = req
        \/ pending # <<>> /\ (req' = Reply(Head(pending), "ok") \/ req' = Reply(Head(pending), "error"))
    BY <1>11 DEF rx_entry
  <2>3. CASE req' = req
    BY <2>1, <2>3, OwnersUnchanged
  <2>4. CASE req' # req
    <3>1. Head(pending) \in Reads
      BY <1>0, <2>2, <2>4, ReqTypes
    <3>2. PICK r \in Reads : r = Head(pending)
      BY <3>1
    <3>3. r \in Reqs
      BY <1>0, ReqTypes
    <3>4. PICK x \in Results : req' = Reply(r, x)
      BY <1>a, <2>2, <2>4, <3>2
    <3>5. ReqBecomes(r, "done", req[r].issue, x)
      BY <1>0, <1>a, <3>3, <3>4, ReqSets
    <3> QED
      BY <2>1, <3>5, OneReadMoves
  <2> QED
    BY <2>3, <2>4
<1>12. CASE tx_entry /\ seen["tx"] = dev_idx
  <2>1. req' = req /\ slot' = slot /\ locked' = locked
    BY <1>12 DEF tx_entry, Serves
  <2> QED
    BY <2>1, OwnersUnchanged
<1>13. CASE FrameArrives \/ Device
  <2>1. req' = req /\ slot' = slot /\ locked' = locked
    BY <1>13 DEF FrameArrives, Device, unitVars
  <2> QED
    BY <2>1, OwnersUnchanged
<1> QED
  BY <1>1, <1>2, <1>9, <1>10, <1>11, <1>12, <1>13 DEF DrvNext, vnet_isr_handler, TxAnswers

Sends(w) ==
    /\ w \in Writes /\ req[w].state = "filling" /\ locked = "none" /\ locked' = w /\ slot' = slot
    /\ ReqBecomes(w, "sending", req[w].issue, req[w].result)
Answers(w, i) ==
    /\ w \in Writes /\ i \in Slots /\ i = Id("tx", 0) /\ slot[i] = w /\ req[w].state = "sending"
    /\ w # locked /\ locked' = locked /\ slot' = [slot EXCEPT ![i] = "free"]
    /\ ReqBecomes(w, "done", req[w].issue, "ok")

LEMMA PublishSends ==
    ASSUME NetInv, NEW w \in Writes, publish(w)
    PROVE  Sends(w)
<1>1. /\ req' = [req EXCEPT ![w].state = "sending"] /\ req[w].state = "filling"
      /\ locked = "none" /\ locked' = w /\ slot' = slot
  BY DEF publish, TaskRuns
<1>2. Types /\ w \in Reqs /\ "sending" \in ReqStates
  BY DEF NetInv, Reqs, ReqStates
<1>3. "ok" \in Results
  BY DEF Results
<1> QED
  BY <1>1, <1>2, <1>3, ReqSets DEF Sends

LEMMA TxAnswersOwner ==
    ASSUME NetInv, TxAnswers
    PROVE  \E w \in Writes, i \in Slots : Answers(w, i)
<1>0. Types /\ TxFlight
  BY Zenon DEF NetInv
<1>1. /\ UsedEntry("tx").id = Id("tx", 0) /\ enabled("tx") /\ 0 \in 0 .. na("tx") + nu("tx") - 1
  BY TxEntryRing DEF TxAnswers
<1> DEFINE i == Id("tx", 0)
           w == slot[i]
<1>2. i \in Slots /\ w # "free" /\ req[w].state = "sending" /\ w # locked
  BY <1>0, <1>1, Zenon DEF TxFlight
<1>3. w \in Writes /\ w \in Reqs
  BY <1>0, <1>2, ReqTypes
<1>4. req' = Reply(w, "ok") /\ slot' = [slot EXCEPT ![i] = "free"] /\ locked' = locked
  BY <1>1, <1>2 DEF TxAnswers, tx_entry, Serves
<1> HIDE DEF w, i
<1>5. ReqBecomes(w, "done", req[w].issue, "ok")
  <2>1. "ok" \in Results /\ "done" \in ReqStates
    BY DEF Results, ReqStates
  <2> QED
    BY <1>0, <1>3, <1>4, <2>1, ReqSets
<1>6. Answers(w, i)
  BY <1>2, <1>3, <1>4, <1>5 DEF Answers, w, i
<1> QED
  BY <1>2, <1>3, <1>6

-----------------------------------------------------------------------------
(* The owners of the slots *)

LEMMA SlotOwnersStep ==
    ASSUME NetInv, [DrvNext]_drvVars
    PROVE  SlotOwners'
<1>0. Types /\ Phases /\ SlotOwners
  BY Zenon DEF NetInv
<1>a. /\ \A i, j \in Slots : slot[i] = slot[j] /\ slot[i] # "free" => i = j
      /\ \A i \in Slots : slot[i] # "free" => req[slot[i]].state \in {"filling", "sending"}
      /\ \A r \in Reads : req[r].state \in {"done", "checked", "pending"}
      /\ \A w \in Writes : /\ req[w].state \in {"done", "filling", "sending"}
                           /\ req[w].state # "done" => \E i \in Slots : slot[i] = w
      /\ locked # "none" => req[locked].state = "sending"
  BY <1>0 DEF SlotOwners
<1>b. /\ \A r \in Reads : r \in Reqs /\ r \notin Writes
      /\ \A w \in Writes : w \in Reqs /\ w # "free" /\ w # "none"
      /\ slot \in [Slots -> Writes \cup {"free"}] /\ locked \in Writes \cup {"none"}
  BY <1>0, ReqTypes DEF Types, UnitTypes
<1>1. CASE OwnersStay
  BY <1>1, <1>a, <1>b DEF OwnersStay, SlotOwners
<1>2. CASE SomeDeclines
  <2>1. PICK w \in Writes : Declines(w)
    BY <1>2 DEF SomeDeclines
  <2>2. slot' = slot /\ locked' = locked /\ \A t \in Reqs : req'[t].state = req[t].state
    BY <2>1 DEF Declines, ReqBecomes, CallLeaves
  <2> QED
    BY <1>a, <1>b, <2>2 DEF SlotOwners
<1>3. CASE SomeAllocates
  <2>1. PICK w \in Writes, i \in Slots : Allocates(w, i)
    BY <1>3 DEF SomeAllocates
  <2>2. /\ slot[i] = "free" /\ slot' = [slot EXCEPT ![i] = w] /\ req[w].state = "done" /\ locked' = locked
        /\ req'[w].state = "filling" /\ \A t \in Reqs : t # w => req'[t] = req[t]
    BY <2>1 DEF Allocates, ReqBecomes, CallLeaves
  <2>3. \A j \in Slots : slot[j] # w
    BY <1>a, <1>b, <2>2
  <2>4. slot'[i] = w /\ \A j \in Slots : j # i => slot'[j] = slot[j]
    BY <1>b, <2>2
  <2>5. \A j, k \in Slots : slot'[j] = slot'[k] /\ slot'[j] # "free" => j = k
    BY <1>a, <2>3, <2>4
  <2>6. \A j \in Slots : slot'[j] # "free" => req'[slot'[j]].state \in {"filling", "sending"}
    BY <1>a, <1>b, <2>2, <2>3, <2>4
  <2>7. \A t \in Writes : /\ req'[t].state \in {"done", "filling", "sending"}
                          /\ req'[t].state # "done" => \E j \in Slots : slot'[j] = t
    BY <1>a, <1>b, <2>2, <2>4
  <2>8. /\ \A r \in Reads : req'[r].state \in {"done", "checked", "pending"}
        /\ locked' # "none" => req'[locked'].state = "sending"
    BY <1>a, <1>b, <2>2
  <2> QED
    BY <2>5, <2>6, <2>7, <2>8 DEF SlotOwners
<1>4. ASSUME NEW w \in Writes, NEW i \in Slots, slot[i] = w, slot' = [slot EXCEPT ![i] = "free"],
             locked' = locked, w # locked, NEW n, NEW x, ReqBecomes(w, "done", n, x)
      PROVE  SlotOwners'
  <2>1. req'[w].state = "done" /\ \A t \in Reqs : t # w => req'[t] = req[t]
    BY <1>4 DEF ReqBecomes
  <2>2. slot'[i] = "free" /\ \A j \in Slots : j # i => slot'[j] = slot[j] /\ slot[j] # w
    BY <1>a, <1>b, <1>4
  <2>3. \A j, k \in Slots : slot'[j] = slot'[k] /\ slot'[j] # "free" => j = k
    BY <1>a, <2>2
  <2>4. \A j \in Slots : slot'[j] # "free" => req'[slot'[j]].state \in {"filling", "sending"}
    BY <1>a, <1>b, <2>1, <2>2
  <2>5. \A t \in Writes : /\ req'[t].state \in {"done", "filling", "sending"}
                          /\ req'[t].state # "done" => \E j \in Slots : slot'[j] = t
    BY <1>a, <1>b, <1>4, <2>1, <2>2
  <2>6. /\ \A r \in Reads : req'[r].state \in {"done", "checked", "pending"}
        /\ locked' # "none" => req'[locked'].state = "sending"
    BY <1>a, <1>b, <1>4, <2>1
  <2> QED
    BY <2>3, <2>4, <2>5, <2>6 DEF SlotOwners
<1>5. CASE SomeGivesUp
  <2>1. PICK w \in Writes : GivesUp(w)
    BY <1>5 DEF SomeGivesUp
  <2>2. /\ slot' = [slot EXCEPT ![SlotOf(w)] = "free"] /\ req[w].state = "filling"
        /\ ReqBecomes(w, "done", req[w].issue, "error") /\ locked' = locked
    BY <2>1 DEF GivesUp, CallLeaves
  <2>3. SlotOf(w) \in Slots /\ slot[SlotOf(w)] = w
    BY <1>0, <2>2, OwnSlot
  <2>4. w # locked
    BY <1>a, <1>b, <2>2
  <2> QED
    BY <1>4, <2>2, <2>3, <2>4
<1>6. CASE TxAnswers
  <2>1. PICK w \in Writes, i \in Slots : Answers(w, i)
    BY <1>6, TxAnswersOwner
  <2> QED
    BY <1>4, <2>1 DEF Answers
<1>7. CASE SomePublish
  <2>1. PICK w \in Writes : Sends(w)
    BY <1>7, PublishSends DEF SomePublish
  <2>2. /\ slot' = slot /\ locked' = w /\ req'[w].state = "sending" /\ req[w].state = "filling"
        /\ \A t \in Reqs : t # w => req'[t] = req[t]
    BY <2>1 DEF Sends, ReqBecomes
  <2> QED
    BY <1>a, <1>b, <2>2 DEF SlotOwners
<1>8. CASE push_avail
  <2>1. slot' = slot /\ req' = req /\ locked' = "none"
    BY <1>8 DEF push_avail, unitVars
  <2> QED
    BY <1>a, <2>1 DEF SlotOwners
<1> QED
  BY <1>1, <1>2, <1>3, <1>5, <1>6, <1>7, <1>8, OwnerKinds

-----------------------------------------------------------------------------
(* The transmit slots in flight *)

Sender(i) == slot[i] # "free" /\ req[slot[i]].state = "sending"
SendersStay ==
    /\ locked' = locked
    /\ \A i \in Slots : /\ Sender(i)' = Sender(i)
                        /\ Sender(i) => slot'[i] = slot[i] /\ req'[slot[i]] = req[slot[i]]

LEMMA SendersUnchanged ==
    ASSUME NetInv, OwnersStay \/ SomeDeclines \/ SomeAllocates \/ SomeGivesUp
    PROVE  SendersStay
<1>0. Types /\ SlotOwners
  BY Zenon DEF NetInv
<1>a. /\ \A i, j \in Slots : slot[i] = slot[j] /\ slot[i] # "free" => i = j
      /\ \A i \in Slots : slot[i] # "free" => slot[i] \in Writes /\ slot[i] \in Reqs
                                               /\ req[slot[i]].state \in {"filling", "sending"}
      /\ slot \in [Slots -> Writes \cup {"free"}] /\ "free" \notin Writes
  BY <1>0, ReqTypes DEF SlotOwners
<1>1. CASE OwnersStay
  <2>1. slot' = slot /\ locked' = locked /\ \A w \in Writes : req'[w] = req[w]
    BY <1>1 DEF OwnersStay
  <2> QED
    BY <1>a, <2>1 DEF SendersStay, Sender
<1>2. CASE SomeDeclines
  <2>1. PICK w \in Writes : Declines(w)
    BY <1>2 DEF SomeDeclines
  <2>2. slot' = slot /\ locked' = locked /\ req[w].state = "done" /\ \A t \in Reqs : t # w => req'[t] = req[t]
    BY <2>1 DEF Declines, ReqBecomes, CallLeaves
  <2> QED
    BY <1>a, <2>2 DEF SendersStay, Sender
<1>3. CASE SomeAllocates
  <2>1. PICK w \in Writes, i \in Slots : Allocates(w, i)
    BY <1>3 DEF SomeAllocates
  <2>2. /\ slot[i] = "free" /\ slot' = [slot EXCEPT ![i] = w] /\ req[w].state = "done" /\ locked' = locked
        /\ req'[w].state = "filling" /\ \A t \in Reqs : t # w => req'[t] = req[t]
    BY <2>1 DEF Allocates, ReqBecomes, CallLeaves
  <2>3. slot'[i] = w /\ \A j \in Slots : slot[j] # w /\ (j # i => slot'[j] = slot[j])
    BY <1>a, <2>2
  <2> QED
    BY <1>a, <2>2, <2>3 DEF SendersStay, Sender
<1>4. CASE SomeGivesUp
  <2>1. PICK w \in Writes : GivesUp(w)
    BY <1>4 DEF SomeGivesUp
  <2>2. /\ slot' = [slot EXCEPT ![SlotOf(w)] = "free"] /\ req[w].state = "filling"
        /\ \A t \in Reqs : t # w => req'[t] = req[t] /\ locked' = locked
    BY <2>1 DEF GivesUp, CallLeaves, ReqBecomes
  <2>a. locked' = locked
    BY <2>1 DEF GivesUp, CallLeaves
  <2>3. SlotOf(w) \in Slots /\ slot[SlotOf(w)] = w
    BY <1>0, <2>2, OwnSlot
  <2>4. PICK i \in Slots : i = SlotOf(w)
    BY <2>3
  <2>5. slot[i] = w /\ slot'[i] = "free" /\ \A j \in Slots : j # i => slot[j] # w /\ slot'[j] = slot[j]
    BY <1>a, <2>2, <2>3, <2>4
  <2> QED
    BY <1>a, <2>2, <2>a, <2>5 DEF SendersStay, Sender
<1> QED
  BY <1>1, <1>2, <1>3, <1>4

LEMMA TxFlightIs ==
    ASSUME Types, TxFlight, enabled("tx")
    PROVE  /\ na("tx") \in Nat /\ nu("tx") \in Nat /\ na("tx") + nu("tx") <= qsize
           /\ \A k \in 0 .. na("tx") + nu("tx") - 1 :
                 Id("tx", k) \in Slots /\ Sender(Id("tx", k)) /\ slot[Id("tx", k)] # locked
           /\ \A k, l \in 0 .. na("tx") + nu("tx") - 1 : Id("tx", k) = Id("tx", l) => k = l
           /\ \A i \in Slots : Sender(i) =>
                 /\ vring["tx"].desc[i] = TxDesc(slot[i], req[slot[i]])
                 /\ slot[i] # locked => InFlightAt("tx", i)
                 /\ slot[i] = locked => NextEntry("tx") = i
BY RingTypes, Constants DEF TxFlight, Sender, InFlightAt

LEMMA SameTx ==
    ASSUME NetInv, Untouched("tx"), SendersStay
    PROVE  TxFlight'
<1>0. Types /\ TxFlight
  BY Zenon DEF NetInv
<1>1. /\ enabled("tx")' = enabled("tx") /\ na("tx")' = na("tx") /\ nu("tx")' = nu("tx")
      /\ NextEntry("tx")' = NextEntry("tx") /\ \A k : Id("tx", k)' = Id("tx", k)
  BY SameQueue, Constants
<1>2. vring'["tx"].desc = vring["tx"].desc
  BY DEF Untouched
<1>3. CASE ~enabled("tx")
  BY <1>1, <1>3 DEF TxFlight
<1>4. CASE enabled("tx")
  <2>1. \A k \in 0 .. na("tx") + nu("tx") - 1 :
           /\ Id("tx", k)' \in Slots /\ slot'[Id("tx", k)'] # "free"
           /\ req'[slot'[Id("tx", k)']].state = "sending" /\ slot'[Id("tx", k)'] # locked'
    <3> TAKE k \in 0 .. na("tx") + nu("tx") - 1
    <3>1. Id("tx", k) \in Slots /\ Sender(Id("tx", k)) /\ slot[Id("tx", k)] # locked
      BY <1>0, <1>4, TxFlightIs
    <3>2. PICK i \in Slots : i = Id("tx", k)
      BY <3>1
    <3>3. slot'[i] # "free" /\ req'[slot'[i]].state = "sending" /\ slot'[i] # locked'
      BY <3>1, <3>2 DEF SendersStay, Sender
    <3> QED
      BY <1>1, <3>2, <3>3
  <2>2. \A i \in Slots : slot'[i] # "free" /\ req'[slot'[i]].state = "sending" =>
           /\ vring'["tx"].desc[i] = TxDesc(slot'[i], req'[slot'[i]])
           /\ slot'[i] # locked' => \E k \in 0 .. na("tx") + nu("tx") - 1 : Id("tx", k)' = i
           /\ slot'[i] = locked' => NextEntry("tx")' = i
    <3> TAKE i \in Slots
    <3> HAVE slot'[i] # "free" /\ req'[slot'[i]].state = "sending"
    <3>1. Sender(i) /\ slot'[i] = slot[i] /\ req'[slot[i]] = req[slot[i]] /\ locked' = locked
      BY DEF SendersStay, Sender
    <3>2. /\ vring["tx"].desc[i] = TxDesc(slot[i], req[slot[i]])
          /\ slot[i] # locked => InFlightAt("tx", i)
          /\ slot[i] = locked => NextEntry("tx") = i
      BY <1>0, <1>4, <3>1, TxFlightIs
    <3> QED
      BY <1>1, <1>2, <3>1, <3>2 DEF InFlightAt
  <2>3. \A k, l \in 0 .. na("tx") + nu("tx") - 1 : Id("tx", k)' = Id("tx", l)' => k = l
    BY <1>0, <1>1, <1>4, TxFlightIs
  <2>4. na("tx") + nu("tx") <= qsize
    BY <1>0, <1>4, TxFlightIs
  <2> QED
    BY <1>1, <2>1, <2>2, <2>3, <2>4 DEF TxFlight
<1> QED
  BY <1>3, <1>4

(* The same, after a step, with a name for the number in flight. *)
TxFlightNext(n) ==
    /\ n = na("tx")' + nu("tx")' /\ n <= qsize /\ na("tx")' \in Nat /\ nu("tx")' \in Nat
    /\ \A k \in 0 .. n - 1 :
          /\ Id("tx", k)' \in Slots /\ slot'[Id("tx", k)'] # "free"
          /\ req'[slot'[Id("tx", k)']].state = "sending" /\ slot'[Id("tx", k)'] # locked'
    /\ \A k, l \in 0 .. n - 1 : Id("tx", k)' = Id("tx", l)' => k = l
    /\ \A i \in Slots : slot'[i] # "free" /\ req'[slot'[i]].state = "sending" =>
          /\ vring'["tx"].desc[i] = TxDesc(slot'[i], req'[slot'[i]])
          /\ slot'[i] # locked' => \E k \in 0 .. n - 1 : Id("tx", k)' = i
          /\ slot'[i] = locked' => NextEntry("tx")' = i

LEMMA TxFlightAfter ==
    ASSUME NEW n, TxFlightNext(n)
    PROVE  TxFlight'
<1>1. n = na("tx")' + nu("tx")' /\ na("tx")' \in Nat /\ nu("tx")' \in Nat /\ n <= qsize
  BY DEF TxFlightNext
<1>2. 0 .. na("tx")' + nu("tx")' - 1 = 0 .. n - 1
  BY <1>1
<1>3. (\A k \in 0 .. na("tx") + nu("tx") - 1 :
         /\ Id("tx", k) \in Slots /\ slot[Id("tx", k)] # "free"
         /\ req[slot[Id("tx", k)]].state = "sending" /\ slot[Id("tx", k)] # locked)'
  <2>1. \A k \in 0 .. n - 1 :
          /\ Id("tx", k)' \in Slots /\ slot'[Id("tx", k)'] # "free"
          /\ req'[slot'[Id("tx", k)']].state = "sending" /\ slot'[Id("tx", k)'] # locked'
    BY Zenon DEF TxFlightNext
  <2> QED
    BY <1>2, <2>1
<1>4. (\A k, l \in 0 .. na("tx") + nu("tx") - 1 : Id("tx", k) = Id("tx", l) => k = l)'
  <2>1. \A k, l \in 0 .. n - 1 : Id("tx", k)' = Id("tx", l)' => k = l
    BY Zenon DEF TxFlightNext
  <2> QED
    BY <1>2, <2>1
<1>5. (\A i \in Slots : slot[i] # "free" /\ req[slot[i]].state = "sending" =>
         /\ vring["tx"].desc[i] = TxDesc(slot[i], req[slot[i]])
         /\ slot[i] # locked => \E k \in 0 .. na("tx") + nu("tx") - 1 : Id("tx", k) = i
         /\ slot[i] = locked => NextEntry("tx") = i)'
  <2>1. \A i \in Slots : slot'[i] # "free" /\ req'[slot'[i]].state = "sending" =>
          /\ vring'["tx"].desc[i] = TxDesc(slot'[i], req'[slot'[i]])
          /\ slot'[i] # locked' => \E k \in 0 .. n - 1 : Id("tx", k)' = i
          /\ slot'[i] = locked' => NextEntry("tx")' = i
    BY Zenon DEF TxFlightNext
  <2> QED
    BY <1>2, <2>1
<1>6. (na("tx") + nu("tx") <= qsize)'
  BY <1>1
<1> QED
  BY <1>3, <1>4, <1>5, <1>6, Zenon DEF TxFlight

LEMMA TxAfterPublish ==
    ASSUME NetInv, NEW w \in Writes, publish(w)
    PROVE  TxFlight'
<1>0. Types /\ TxFlight /\ SlotOwners
  BY Zenon DEF NetInv
<1>1. PICK s \in Slots : s = SlotOf(w)
  BY PublishRing
<1>2. /\ slot[s] = w /\ ~InFlightAt("tx", s) /\ enabled("tx")
      /\ EntryWritten("tx", s, TxDesc(w, req[w])) /\ net' = net
  BY <1>1, PublishRing
<1>3. /\ req[w].state = "filling" /\ locked = "none" /\ locked' = w /\ slot' = slot
      /\ req'[w].state = "sending" /\ req'[w].issue = req[w].issue /\ req'[w].len = req[w].len
      /\ \A t \in Reqs : t # w => req'[t] = req[t]
  BY PublishSends DEF Sends, ReqBecomes
<1>4. /\ \A i, j \in Slots : slot[i] = slot[j] /\ slot[i] # "free" => i = j
      /\ \A i \in Slots : slot[i] # "free" => slot[i] \in Reqs
      /\ w # "free" /\ "none" \notin Writes
      /\ slot \in [Slots -> Writes \cup {"free"}]
  BY <1>0, ReqTypes DEF SlotOwners
<1>5. PICK n : n = na("tx") + nu("tx")
  OBVIOUS
<1>6. /\ na("tx") \in Nat /\ nu("tx") \in Nat /\ n \in Nat /\ n <= qsize
      /\ \A k \in 0 .. n - 1 : Id("tx", k) \in Slots /\ Sender(Id("tx", k)) /\ Id("tx", k) # s
      /\ \A k, l \in 0 .. n - 1 : Id("tx", k) = Id("tx", l) => k = l
      /\ \A i \in Slots : Sender(i) =>
            /\ vring["tx"].desc[i] = TxDesc(slot[i], req[slot[i]])
            /\ slot[i] # locked => \E k \in 0 .. n - 1 : Id("tx", k) = i
  BY <1>0, <1>2, <1>5, TxFlightIs DEF InFlightAt
<1>7. /\ na("tx")' + nu("tx")' = n /\ na("tx")' \in Nat /\ nu("tx")' \in Nat
      /\ enabled("tx")' = enabled("tx") /\ NextEntry("tx")' = s
      /\ vring'["tx"].desc = [vring["tx"].desc EXCEPT ![s] = TxDesc(w, req[w])]
  BY <1>2, <1>5, <1>6 DEF EntryWritten, enabled
<1>8. ASSUME NEW k \in 0 .. n - 1 PROVE Id("tx", k)' = Id("tx", k)
  <2>1. \A l \in 0 .. na("tx") + nu("tx") - 1 : Id("tx", l)' = Id("tx", l)
    BY <1>2, Zenon DEF EntryWritten
  <2> QED
    BY <1>5, <1>6, <2>1
<1>9. \A k \in 0 .. n - 1 :
         /\ Id("tx", k)' \in Slots /\ slot'[Id("tx", k)'] # "free"
         /\ req'[slot'[Id("tx", k)']].state = "sending" /\ slot'[Id("tx", k)'] # locked'
  <2> TAKE k \in 0 .. n - 1
  <2>1. PICK i \in Slots : i = Id("tx", k)
    BY <1>6
  <2>2. Sender(i) /\ i # s
    BY <1>6, <2>1
  <2>3. slot'[i] = slot[i] /\ slot[i] # w /\ slot[i] # "free" /\ req'[slot[i]] = req[slot[i]]
    BY <1>2, <1>3, <1>4, <2>2 DEF Sender
  <2> QED
    BY <1>3, <1>8, <2>1, <2>2, <2>3 DEF Sender
<1>10. \A k, l \in 0 .. n - 1 : Id("tx", k)' = Id("tx", l)' => k = l
  BY <1>6, <1>8
<1>11. \A i \in Slots : slot'[i] # "free" /\ req'[slot'[i]].state = "sending" =>
          /\ vring'["tx"].desc[i] = TxDesc(slot'[i], req'[slot'[i]])
          /\ slot'[i] # locked' => \E k \in 0 .. n - 1 : Id("tx", k)' = i
          /\ slot'[i] = locked' => NextEntry("tx")' = i
  <2> TAKE i \in Slots
  <2> HAVE slot'[i] # "free" /\ req'[slot'[i]].state = "sending"
  <2>a. vring["tx"].desc \in [Entries -> Descriptors] /\ i \in Entries /\ s \in Entries
    BY <1>0, Constants DEF Types, CardTypes, Rings
  <2>1. CASE i = s
    <3>1. vring'["tx"].desc[i] = TxDesc(w, req[w])
      BY <1>7, <2>1, <2>a
    <3>2. TxDesc(w, req'[w]) = TxDesc(w, req[w])
      BY <1>3 DEF TxDesc
    <3> QED
      BY <1>2, <1>3, <1>7, <2>1, <3>1, <3>2
  <2>2. CASE i # s
    <3>1. slot'[i] = slot[i] /\ slot[i] # w /\ req'[slot[i]] = req[slot[i]] /\ Sender(i)
      BY <1>2, <1>3, <1>4, <2>2 DEF Sender
    <3>2. vring'["tx"].desc[i] = vring["tx"].desc[i]
      BY <1>7, <2>2, <2>a
    <3>3. slot[i] # locked
      BY <1>3, <1>4, <3>1 DEF Sender
    <3>4. PICK k \in 0 .. n - 1 : Id("tx", k) = i
      BY <1>6, <3>1, <3>3
    <3>5. Id("tx", k)' = i
      BY <1>8, <3>4
    <3> QED
      BY <1>3, <1>6, <3>1, <3>2, <3>5
  <2> QED
    BY <2>1, <2>2
<1>12. TxFlightNext(n)
  BY <1>6, <1>7, <1>9, <1>10, <1>11, Zenon DEF TxFlightNext
<1> QED
  BY <1>12, TxFlightAfter

LEMMA TxAfterPush ==
    ASSUME NetInv, push_avail
    PROVE  TxFlight'
<1>0. Types /\ TxFlight /\ SlotOwners
  BY Zenon DEF NetInv
<1>1. PICK s \in Slots : s = SlotOf(locked)
  BY PushRing
<1>2. /\ slot[s] = locked /\ ~InFlightAt("tx", s) /\ enabled("tx") /\ NextEntry("tx") = s
      /\ locked \in Writes /\ req[locked].state = "sending"
      /\ na("tx") + nu("tx") < qsize /\ EntryPushed("tx") /\ net' = net
  BY <1>1, PushRing
<1>3. locked' = "none" /\ slot' = slot /\ req' = req
  BY DEF push_avail, unitVars
<1>4. /\ \A i, j \in Slots : slot[i] = slot[j] /\ slot[i] # "free" => i = j
      /\ locked # "free" /\ "none" \notin Writes /\ "none" # "free"
      /\ slot \in [Slots -> Writes \cup {"free"}]
  BY <1>0, <1>2, ReqTypes DEF SlotOwners
<1>5. PICK n : n = na("tx") + nu("tx")
  OBVIOUS
<1>6. /\ na("tx") \in Nat /\ nu("tx") \in Nat /\ n \in Nat /\ n + 1 <= qsize
      /\ \A k \in 0 .. n - 1 : Id("tx", k) \in Slots /\ Sender(Id("tx", k)) /\ Id("tx", k) # s
      /\ \A k, l \in 0 .. n - 1 : Id("tx", k) = Id("tx", l) => k = l
      /\ \A i \in Slots : Sender(i) =>
            /\ vring["tx"].desc[i] = TxDesc(slot[i], req[slot[i]])
            /\ slot[i] # locked => \E k \in 0 .. n - 1 : Id("tx", k) = i
  <2>1. na("tx") \in Nat /\ nu("tx") \in Nat
    BY <1>0, RingTypes, Constants
  <2>2. n \in Nat /\ n + 1 <= qsize
    BY <1>2, <1>5, <2>1, Sizes
  <2> QED
    BY <1>0, <1>2, <1>5, <2>1, <2>2, TxFlightIs DEF InFlightAt
<1>7. /\ na("tx")' + nu("tx")' = n + 1 /\ na("tx")' \in Nat /\ nu("tx")' \in Nat
      /\ enabled("tx")' = enabled("tx")
      /\ vring'["tx"].desc = vring["tx"].desc /\ \A k : Id("tx", k)' = Id("tx", k)
      /\ Id("tx", n) = s
  <2>1. na("tx")' = na("tx") + 1 /\ nu("tx")' = nu("tx")
    BY <1>2 DEF EntryPushed
  <2>2. na("tx")' + nu("tx")' = n + 1 /\ na("tx")' \in Nat /\ nu("tx")' \in Nat
    BY <1>5, <1>6, <2>1
  <2>3. vring'["tx"].desc = vring["tx"].desc /\ \A k : Id("tx", k)' = Id("tx", k)
    BY <1>2, Zenon DEF EntryPushed
  <2>4. Id("tx", na("tx") + nu("tx")) = NextEntry("tx")
    BY <1>2, Zenon DEF EntryPushed
  <2>5. Id("tx", n) = s
    BY <1>2, <1>5, <2>4, Zenon
  <2>6. enabled("tx")' = enabled("tx")
    BY <1>2 DEF enabled
  <2> QED
    BY <2>2, <2>3, <2>5, <2>6
<1>8. \A k \in 0 .. n : k \in 0 .. n - 1 \/ k = n
  BY <1>6
<1>9. \A k \in 0 .. n :
         /\ Id("tx", k)' \in Slots /\ slot'[Id("tx", k)'] # "free"
         /\ req'[slot'[Id("tx", k)']].state = "sending" /\ slot'[Id("tx", k)'] # locked'
  <2> TAKE k \in 0 .. n
  <2>1. PICK i \in Slots : i = Id("tx", k)
    BY <1>6, <1>7, <1>8
  <2>2. Sender(i)
    BY <1>2, <1>4, <1>6, <1>7, <1>8, <2>1 DEF Sender
  <2>3. slot[i] # "none"
    BY <1>4, <2>2 DEF Sender
  <2> QED
    BY <1>3, <1>7, <2>1, <2>2, <2>3 DEF Sender
<1>10. \A k, l \in 0 .. n : Id("tx", k)' = Id("tx", l)' => k = l
  BY <1>6, <1>7, <1>8
<1>11. \A i \in Slots : slot'[i] # "free" /\ req'[slot'[i]].state = "sending" =>
          /\ vring'["tx"].desc[i] = TxDesc(slot'[i], req'[slot'[i]])
          /\ \E k \in 0 .. n : Id("tx", k)' = i
          /\ slot'[i] # locked'
  <2> TAKE i \in Slots
  <2> HAVE slot'[i] # "free" /\ req'[slot'[i]].state = "sending"
  <2>1. Sender(i) /\ slot[i] # "none"
    BY <1>3, <1>4 DEF Sender
  <2>2. CASE slot[i] = locked
    <3>1. i = s
      BY <1>2, <1>4, <2>2
    <3>2. n \in 0 .. n /\ Id("tx", n)' = i
      BY <1>6, <1>7, <3>1
    <3> QED
      BY <1>3, <1>6, <1>7, <2>1, <3>2
  <2>3. CASE slot[i] # locked
    <3>1. PICK k \in 0 .. n - 1 : Id("tx", k) = i
      BY <1>6, <2>1, <2>3
    <3>2. k \in 0 .. n /\ Id("tx", k)' = i
      BY <1>6, <1>7, <3>1
    <3> QED
      BY <1>3, <1>6, <1>7, <2>1, <3>2
  <2> QED
    BY <2>2, <2>3
<1>12. (n + 1) - 1 = n
  BY <1>6
<1>13. TxFlightNext(n + 1)
  BY <1>6, <1>7, <1>9, <1>10, <1>11, <1>12, Zenon DEF TxFlightNext
<1> QED
  BY <1>13, TxFlightAfter

LEMMA TxAfterAnswer ==
    ASSUME NetInv, TxAnswers
    PROVE  TxFlight'
<1>0. Types /\ TxFlight /\ SlotOwners
  BY Zenon DEF NetInv
<1>1. PICK w \in Writes, s \in Slots : Answers(w, s)
  BY TxAnswersOwner
<1>2. /\ s = Id("tx", 0) /\ slot[s] = w /\ req[w].state = "sending" /\ w # locked /\ locked' = locked
      /\ slot' = [slot EXCEPT ![s] = "free"] /\ req'[w].state = "done"
      /\ \A t \in Reqs : t # w => req'[t] = req[t]
  BY <1>1 DEF Answers, ReqBecomes
<1>3. /\ UsedTaken("tx") /\ net' = net /\ vring' = vring /\ enabled("tx")
      /\ 0 \in 0 .. na("tx") + nu("tx") - 1 /\ nu("tx") > 0
  BY TxEntryRing DEF TxAnswers
<1>4. /\ \A i, j \in Slots : slot[i] = slot[j] /\ slot[i] # "free" => i = j
      /\ \A i \in Slots : slot[i] # "free" => slot[i] \in Reqs
      /\ w # "free" /\ slot \in [Slots -> Writes \cup {"free"}]
  BY <1>0, ReqTypes DEF SlotOwners
<1>5. PICK n : n = na("tx") + nu("tx")
  OBVIOUS
<1>6. /\ na("tx") \in Nat /\ nu("tx") \in Nat /\ n \in Nat /\ n <= qsize /\ n > 0
      /\ \A k \in 0 .. n - 1 : Id("tx", k) \in Slots /\ Sender(Id("tx", k)) /\ slot[Id("tx", k)] # locked
      /\ \A k, l \in 0 .. n - 1 : Id("tx", k) = Id("tx", l) => k = l
      /\ \A i \in Slots : Sender(i) =>
            /\ vring["tx"].desc[i] = TxDesc(slot[i], req[slot[i]])
            /\ slot[i] # locked => \E k \in 0 .. n - 1 : Id("tx", k) = i
            /\ slot[i] = locked => NextEntry("tx") = i
  <2>1. na("tx") \in Nat /\ nu("tx") \in Nat
    BY <1>0, RingTypes, Constants
  <2>2. n \in Nat /\ n > 0
    BY <1>3, <1>5, <2>1
  <2> QED
    BY <1>0, <1>3, <1>5, <2>1, <2>2, TxFlightIs DEF InFlightAt
<1>7. /\ na("tx")' + nu("tx")' = n - 1 /\ na("tx")' \in Nat /\ nu("tx")' \in Nat
      /\ enabled("tx")' = enabled("tx")
      /\ NextEntry("tx")' = NextEntry("tx")
      /\ \A k \in Nat : Id("tx", k)' = Id("tx", k + 1)
  <2>1. na("tx")' = na("tx") /\ nu("tx")' = nu("tx") - 1
    BY <1>3 DEF UsedTaken
  <2>2. na("tx")' + nu("tx")' = n - 1 /\ na("tx")' \in Nat /\ nu("tx")' \in Nat
    BY <1>3, <1>5, <1>6, <2>1
  <2>3. \A k \in Nat : Id("tx", k)' = Id("tx", k + 1)
    BY <1>3, Zenon DEF UsedTaken
  <2>4. enabled("tx")' = enabled("tx") /\ NextEntry("tx")' = NextEntry("tx")
    BY <1>3 DEF enabled, NextEntry
  <2> QED
    BY <2>2, <2>3, <2>4
<1>8. \A k \in 0 .. n - 2 : k \in Nat /\ k + 1 \in 0 .. n - 1 /\ k + 1 # 0
  BY <1>6
<1>9. slot'[s] = "free" /\ \A i \in Slots : i # s => slot'[i] = slot[i] /\ slot[i] # w
  BY <1>2, <1>4
<1>10. \A k \in 0 .. n - 2 :
         /\ Id("tx", k)' \in Slots /\ slot'[Id("tx", k)'] # "free"
         /\ req'[slot'[Id("tx", k)']].state = "sending" /\ slot'[Id("tx", k)'] # locked'
  <2> TAKE k \in 0 .. n - 2
  <2>1. PICK i \in Slots : i = Id("tx", k + 1)
    BY <1>6, <1>8
  <2>2. Sender(i) /\ slot[i] # locked
    BY <1>6, <1>8, <2>1
  <2>3. i # s
    BY <1>2, <1>3, <1>5, <1>6, <1>8, <2>1
  <2>4. slot'[i] = slot[i] /\ slot[i] # w /\ slot[i] # "free" /\ req'[slot[i]] = req[slot[i]]
    BY <1>2, <1>4, <1>9, <2>2, <2>3 DEF Sender
  <2>5. Id("tx", k)' = i
    BY <1>7, <1>8, <2>1
  <2> QED
    BY <1>2, <2>2, <2>4, <2>5 DEF Sender
<1>11. \A k, l \in 0 .. n - 2 : Id("tx", k)' = Id("tx", l)' => k = l
  <2> TAKE k \in 0 .. n - 2, l \in 0 .. n - 2
  <2> HAVE Id("tx", k)' = Id("tx", l)'
  <2>1. Id("tx", k + 1) = Id("tx", l + 1)
    BY <1>7, <1>8
  <2>2. k + 1 = l + 1
    BY <1>6, <1>8, <2>1
  <2> QED
    BY <1>8, <2>2
<1>12. \A i \in Slots : slot'[i] # "free" /\ req'[slot'[i]].state = "sending" =>
          /\ vring'["tx"].desc[i] = TxDesc(slot'[i], req'[slot'[i]])
          /\ slot'[i] # locked' => \E k \in 0 .. n - 2 : Id("tx", k)' = i
          /\ slot'[i] = locked' => NextEntry("tx")' = i
  <2> TAKE i \in Slots
  <2> HAVE slot'[i] # "free" /\ req'[slot'[i]].state = "sending"
  <2>1. i # s
    BY <1>9
  <2>2. slot'[i] = slot[i] /\ slot[i] # w /\ req'[slot[i]] = req[slot[i]] /\ Sender(i)
    BY <1>2, <1>4, <1>9, <2>1 DEF Sender
  <2>3. ASSUME slot[i] # locked PROVE \E k \in 0 .. n - 2 : Id("tx", k)' = i
    <3>1. PICK l \in 0 .. n - 1 : Id("tx", l) = i
      BY <1>6, <2>2, <2>3
    <3>2. l # 0
      BY <1>2, <2>1, <3>1
    <3>3. l - 1 \in 0 .. n - 2 /\ l - 1 \in Nat /\ (l - 1) + 1 = l
      BY <1>6, <3>2
    <3>4. PICK k \in 0 .. n - 2 : k = l - 1
      BY <3>3
    <3>5. Id("tx", k)' = i
      BY <1>7, <3>1, <3>3, <3>4
    <3> QED
      BY <3>5
  <2> QED
    BY <1>2, <1>3, <1>6, <1>7, <2>2, <2>3
<1>13. (n - 1) - 1 = n - 2 /\ n - 1 <= qsize
  BY <1>6, Sizes
<1>14. TxFlightNext(n - 1)
  BY <1>7, <1>10, <1>11, <1>12, <1>13, Zenon DEF TxFlightNext
<1> QED
  BY <1>14, TxFlightAfter

LEMMA TxAfterSend ==
    ASSUME NetInv, TxCompletes
    PROVE  TxFlight'
<1>0. Types /\ TxFlight
  BY Zenon DEF NetInv
<1>1. Completed("tx", UsedLen(req[slot[HeadOf("tx")]])) /\ enabled("tx")
  BY TxCompletesRing
<1>2. slot' = slot /\ req' = req /\ locked' = locked
  BY DEF TxCompletes, DriverRests, unitVars
<1>3. PICK n : n = na("tx") + nu("tx")
  OBVIOUS
<1>4. na("tx") \in Nat /\ nu("tx") \in Nat /\ n \in Nat /\ n <= qsize
  BY <1>0, <1>1, <1>3, TxFlightIs
<1>5. n = na("tx")' + nu("tx")' /\ na("tx")' \in Nat /\ nu("tx")' \in Nat
  <2>1. na("tx") > 0 /\ na("tx")' = na("tx") - 1 /\ nu("tx")' = nu("tx") + 1
    BY <1>1 DEF Completed
  <2> QED
    BY <1>3, <1>4, <2>1
<1>6. NextEntry("tx")' = NextEntry("tx") /\ vring'["tx"].desc = vring["tx"].desc
  <2>1. vring'["tx"].avail = vring["tx"].avail /\ vring'["tx"].avail_idx = vring["tx"].avail_idx
        /\ vring'["tx"].desc = vring["tx"].desc
    BY <1>1 DEF Completed
  <2> QED
    BY <2>1 DEF NextEntry
<1>7. \A k \in 0 .. n - 1 : Id("tx", k)' = Id("tx", k)
  <2>1. \A k \in 0 .. na("tx") + nu("tx") - 1 : Id("tx", k)' = Id("tx", k)
    BY <1>1, Zenon DEF Completed
  <2> QED
    BY <1>3, <1>4, <2>1
<1>8. \A k \in 0 .. n - 1 :
         /\ Id("tx", k) \in Slots /\ slot[Id("tx", k)] # "free"
         /\ req[slot[Id("tx", k)]].state = "sending" /\ slot[Id("tx", k)] # locked
  BY <1>0, <1>1, <1>3, <1>4 DEF TxFlight
<1>9. \A k, l \in 0 .. n - 1 : Id("tx", k) = Id("tx", l) => k = l
  BY <1>0, <1>1, <1>3, <1>4 DEF TxFlight
<1>10. \A i \in Slots : slot[i] # "free" /\ req[slot[i]].state = "sending" =>
          /\ vring["tx"].desc[i] = TxDesc(slot[i], req[slot[i]])
          /\ slot[i] # locked => \E k \in 0 .. n - 1 : Id("tx", k) = i
          /\ slot[i] = locked => NextEntry("tx") = i
  BY <1>0, <1>1, <1>3, <1>4 DEF TxFlight
<1>11. TxFlightNext(n)
  <2>1. \A k \in 0 .. n - 1 :
          /\ Id("tx", k)' \in Slots /\ slot'[Id("tx", k)'] # "free"
          /\ req'[slot'[Id("tx", k)']].state = "sending" /\ slot'[Id("tx", k)'] # locked'
    BY <1>2, <1>7, <1>8
  <2>2. \A k, l \in 0 .. n - 1 : Id("tx", k)' = Id("tx", l)' => k = l
    BY <1>7, <1>9
  <2>3. \A i \in Slots : slot'[i] # "free" /\ req'[slot'[i]].state = "sending" =>
          /\ vring'["tx"].desc[i] = TxDesc(slot'[i], req'[slot'[i]])
          /\ slot'[i] # locked' => \E k \in 0 .. n - 1 : Id("tx", k)' = i
          /\ slot'[i] = locked' => NextEntry("tx")' = i
    BY <1>2, <1>6, <1>7, <1>10
  <2> QED
    BY <1>4, <1>5, <2>1, <2>2, <2>3, Zenon DEF TxFlightNext
<1> QED
  BY <1>11, TxFlightAfter

LEMMA TxAfterSetup ==
    ASSUME NetInv, SetsUpTx
    PROVE  TxFlight'
<1>1. SetUp("tx") /\ devinit = "tx_queue"
  BY SetsUpRing
<1>2. na("tx")' = 0 /\ nu("tx")' = 0
  BY <1>1 DEF SetUp
<1>3. slot' = slot
  BY DEF SetsUpTx, setup_queue, Loads, unitVars
<1>4. \A i \in Slots : slot'[i] = "free"
  BY <1>1, <1>3 DEF NetInv, Phases
<1>5. 0 = na("tx")' + nu("tx")' /\ na("tx")' \in Nat /\ nu("tx")' \in Nat /\ 0 <= qsize /\ \A k : k \notin 0 .. 0 - 1
  BY <1>2, Sizes
<1>6. TxFlightNext(0)
  BY <1>4, <1>5, Zenon DEF TxFlightNext
<1> QED
  BY <1>6, TxFlightAfter

LEMMA RestUntouched ==
    ASSUME RingsStay, NEW q \in Queues
    PROVE  Untouched(q)
BY DEF RingsStay, Untouched

LEMMA TxFlightStep ==
    ASSUME NetInv, [DrvNext]_drvVars
    PROVE  TxFlight'
<1>1. CASE SomeDeclines \/ SomeAllocates \/ SomeGivesUp
  <2>1. CallLeaves
    BY <1>1 DEF SomeDeclines, SomeAllocates, SomeGivesUp, Declines, Allocates, GivesUp
  <2>2. Untouched("tx")
    BY <2>1, CallsLeaveRings, RestUntouched, Constants
  <2> QED
    BY <1>1, <2>2, SameTx, SendersUnchanged
<1>2. CASE SomePublish
  BY <1>2, TxAfterPublish DEF SomePublish
<1>3. CASE push_avail
  BY <1>3, TxAfterPush
<1>4. CASE TxAnswers
  BY <1>4, TxAfterAnswer
<1>5. CASE OwnersStay
  <2>0. Untouched("tx") => TxFlight'
    BY <1>5, SameTx, SendersUnchanged
  <2>1. CASE RingsStay
    BY <2>0, <2>1, RestUntouched, Constants
  <2>2. CASE rx_post
    <3>1. EntryWritten("rx", entry, RxDesc)
      BY <2>2, RxPostRing
    <3> QED
      BY <2>0, <3>1, Constants DEF EntryWritten
  <2>3. CASE rx_push
    BY <2>0, <2>3, RxPushRing, Constants DEF Reposted
  <2>4. CASE TxCompletes
    BY <2>4, TxAfterSend
  <2>5. CASE RxCompletes
    <3>1. PICK len : Completed("rx", len)
      BY <2>5, RxCompletesRing
    <3>2. seen' = seen
      BY <2>5, RxCompletesRing
    <3> QED
      BY <2>0, <3>1, <3>2, Constants DEF Completed, Untouched
  <2>6. CASE negotiate
    <3>1. enabled("tx")' = FALSE
      BY <2>6, NegotiateRing, ResetRegisters, Constants DEF enabled
    <3> QED
      BY <3>1 DEF TxFlight
  <2>7. CASE SetsUpRx
    BY <2>0, <2>7, SetsUpRing, Constants DEF SetUp
  <2>8. CASE SetsUpTx
    BY <2>8, TxAfterSetup
  <2>9. CASE post_rx_buffer
    <3>1. PostedNew("rx", shadow["rx"], RxDesc)
      BY <2>9, PostRing
    <3> QED
      BY <2>0, <3>1, Constants DEF PostedNew
  <2> QED
    BY <1>2, <1>3, <1>4, <2>1, <2>2, <2>3, <2>4, <2>5, <2>6, <2>7, <2>8, <2>9, Kinds
<1> QED
  BY <1>1, <1>2, <1>3, <1>4, <1>5, OwnerKinds

-----------------------------------------------------------------------------
(* The handler's used element, and the reader it goes to *)

RxEnds == /\ pc' = "tx_idx" /\ seen["rx"] = dev_idx /\ UNCHANGED <<req, pending, entry, delivered>>
Reader == Head(pending)
RxLeaves == UNCHANGED <<req, pending, delivered>>
RxGives == /\ pending # <<>> /\ pending' = Tail(pending) /\ req' = Reply(Reader, "ok")
           /\ delivered' = Append(delivered, DeliveredTo(Reader, FrameAt(0)))
           /\ FrameAt(0).len > EthHdrLen /\ Matches(Reader, FrameAt(0))
RxDrops == /\ pending # <<>> /\ pending' = Tail(pending) /\ req' = Reply(Reader, "error")
           /\ delivered' = delivered
RxTakes == /\ pc' = "rx_post" /\ entry' = Id("rx", 0) /\ 0 \in 0 .. nu("rx") - 1
           /\ FrameAt(0) \in Frames /\ seen["rx"] # dev_idx
           /\ RxLeaves \/ RxGives \/ RxDrops

LEMMA RxEntryKinds ==
    ASSUME NetInv, rx_entry
    PROVE  /\ pc = "rx" /\ devinit = "ready" /\ enabled("rx")
           /\ UNCHANGED <<net, vring, ports, slot, shadow, seen, dev_idx, rxbuf, engine, inbox,
                          sent, intx, devinit, unit, locked, arrived>>
           /\ RxEnds \/ RxTakes
<1>0. Types /\ Phases /\ Handler /\ FramesInOrder /\ pc = "rx"
  BY DEF NetInv, rx_entry, Serves
<1>1. enabled("rx") /\ devinit = "ready"
  BY <1>0, UpWhenServing
<1>2. UNCHANGED <<net, vring, ports, slot, shadow, seen, dev_idx, rxbuf, engine, inbox,
                  sent, intx, devinit, unit, locked, arrived>>
  BY DEF rx_entry, Serves
<1>3. CASE seen["rx"] = dev_idx
  BY <1>0, <1>1, <1>2, <1>3 DEF rx_entry, RxEnds
<1>4. CASE seen["rx"] # dev_idx
  <2>1. Dist(seen["rx"], dev_idx) <= nu("rx")
    BY <1>0 DEF Handler
  <2>2. /\ seen["rx"] \in Idx /\ dev_idx \in Idx /\ nu("rx") \in Nat
    BY <1>0, RingTypes, Constants DEF Types, UnitTypes
  <2>3. Dist(seen["rx"], dev_idx) # 0 /\ Dist(seen["rx"], dev_idx) \in 0 .. IdxMod - 1
    BY <1>4, <2>2, DistFacts
  <2>4. nu("rx") > 0 /\ 0 \in 0 .. nu("rx") - 1
    BY <2>1, <2>2, <2>3, Sizes
  <2>5. Pos(seen["rx"], 0) = seen["rx"] % qsize
    BY <2>2, PosFacts
  <2>6. UsedEntry("rx").id = Id("rx", 0) /\ UsedEntry("rx") = UsedAt("rx", 0)
    <3>1. 0 < Dist(seen["rx"], vring["rx"].used_idx)
      BY <2>4 DEF nu
    <3> QED
      BY <2>5, <3>1 DEF UsedEntry, UsedAt, Id, Flight
  <2>7. FrameAt(0) \in Frames /\ UsedAt("rx", 0).len = HdrLen + FrameAt(0).len
    BY <1>0, <1>1, <2>4 DEF FramesInOrder
  <2>8. FrameAt(0).len \in Nat
    BY <2>7, FrameFacts, Constants
  <2>9. UsedEntry("rx").len > HdrLen + EthHdrLen => FrameAt(0).len > EthHdrLen
    BY <2>6, <2>7, <2>8, Constants
  <2>10. rxbuf[UsedEntry("rx").id] = FrameAt(0)
    BY <2>6 DEF FrameAt
  <2>11. pc' = "rx_post" /\ entry' = Id("rx", 0)
    BY <1>4, <2>6 DEF rx_entry
  <2>12. RxLeaves \/ RxGives \/ RxDrops
    BY <1>4, <2>9, <2>10 DEF rx_entry, RxLeaves, RxGives, RxDrops, Reader
  <2> QED
    BY <1>0, <1>1, <1>2, <1>4, <2>4, <2>7, <2>11, <2>12 DEF RxTakes
<1> QED
  BY <1>3, <1>4

-----------------------------------------------------------------------------
(* Types *)

LEMMA RingsTyped ==
    ASSUME NetInv, [DrvNext]_drvVars
    PROVE  /\ net' \in NetType /\ vring' \in [Queues -> Rings]
           /\ shadow' \in [Queues -> Idx] /\ seen' \in [Queues -> Idx]
<1>0. /\ net \in NetType /\ vring \in [Queues -> Rings]
      /\ shadow \in [Queues -> Idx] /\ seen \in [Queues -> Idx]
  BY DEF NetInv, Types, CardTypes, UnitTypes
<1>1. CASE RingsStay
  BY <1>0, <1>1 DEF RingsStay
<1>2. CASE SomePublish
  <2>1. PICK w \in Writes : publish(w)
    BY <1>2 DEF SomePublish
  <2>2. vring' \in [Queues -> Rings] /\ net' = net
    BY <2>1, PublishRing DEF EntryWritten
  <2> QED
    BY <1>0, <2>1, <2>2 DEF publish
<1>3. CASE push_avail
  <2>1. vring' \in [Queues -> Rings] /\ net' = net
    BY <1>3, PushRing DEF EntryPushed
  <2>2. shadow' = [shadow EXCEPT !["tx"] = Succ(@)] /\ seen' = seen
    BY <1>3 DEF push_avail
  <2>3. Succ(shadow["tx"]) \in Idx
    BY <1>0, SuccDef, Constants
  <2> QED
    BY <1>0, <2>1, <2>2, <2>3
<1>4. CASE rx_post
  BY <1>0, <1>4, RxPostRing DEF EntryWritten
<1>5. CASE rx_push
  BY <1>0, <1>5, RxPushRing DEF Reposted
<1>6. CASE TxAnswers
  BY <1>0, <1>6, TxEntryRing DEF UsedTaken, TxAnswers
<1>7. CASE TxCompletes
  BY <1>0, <1>7, TxCompletesRing DEF Completed
<1>8. CASE RxCompletes
  BY <1>0, <1>8, RxCompletesRing DEF Completed
<1>9. CASE negotiate
  BY <1>0, <1>9, NegotiateRing
<1>10. CASE SetsUpRx \/ SetsUpTx
  BY <1>0, <1>10, SetsUpRing DEF SetUp
<1>11. CASE post_rx_buffer
  BY <1>0, <1>11, PostRing DEF PostedNew
<1> QED
  BY <1>1, <1>2, <1>3, <1>4, <1>5, <1>6, <1>7, <1>8, <1>9, <1>10, <1>11, Kinds

LEMMA OwnersTyped ==
    ASSUME NetInv, [DrvNext]_drvVars
    PROVE  /\ req' \in [Reqs -> ReqRecs] /\ slot' \in [Slots -> Writes \cup {"free"}]
           /\ locked' \in Writes \cup {"none"}
<1>0. Types /\ req \in [Reqs -> ReqRecs] /\ slot \in [Slots -> Writes \cup {"free"}]
      /\ locked \in Writes \cup {"none"}
  BY DEF NetInv, Types, UnitTypes
<1>1. CASE OwnersStay
  BY <1>0, <1>1 DEF OwnersStay
<1>2. CASE SomeDeclines \/ SomeAllocates \/ SomeGivesUp
  BY <1>0, <1>2 DEF SomeDeclines, SomeAllocates, SomeGivesUp, Declines, Allocates, GivesUp,
                    ReqBecomes, CallLeaves
<1>3. CASE SomePublish
  <2>1. PICK w \in Writes : Sends(w)
    BY <1>3, PublishSends DEF SomePublish
  <2> QED
    BY <1>0, <2>1 DEF Sends, ReqBecomes
<1>4. CASE push_avail
  BY <1>0, <1>4 DEF push_avail, unitVars
<1>5. CASE TxAnswers
  <2>1. PICK w \in Writes, i \in Slots : Answers(w, i)
    BY <1>5, TxAnswersOwner
  <2> QED
    BY <1>0, <2>1 DEF Answers, ReqBecomes
<1> QED
  BY <1>1, <1>2, <1>3, <1>4, <1>5, OwnerKinds

(* What a frame sent is made of. *)
LEMMA SentTyped ==
    ASSUME NetInv, TxSends
    PROVE  /\ HeadOf("tx") \in Slots /\ slot[HeadOf("tx")] \in Writes
           /\ req[slot[HeadOf("tx")]].issue \in Nat /\ DataOf(HeadOf("tx")) \in SentData
<1>0. Types /\ Phases /\ Registers /\ RxFlight /\ TxFlight
  BY Zenon DEF NetInv
<1>1. enabled("tx") /\ la("tx") # vring["tx"].avail_idx
  BY DEF TxSends, Completes
<1>2. HeadOf("tx") \in Slots /\ slot[HeadOf("tx")] # "free"
  BY <1>0, <1>1, TxHead
<1>3. slot[HeadOf("tx")] \in Writes /\ slot[HeadOf("tx")] \in Reqs
  BY <1>0, <1>2, ReqTypes
<1>4. req[slot[HeadOf("tx")]].issue \in Nat
  BY <1>0, <1>3, ReqTypes DEF ReqRecs
<1> QED
  BY <1>2, <1>3, <1>4 DEF DataOf, SentData

LEMMA DeliveredTyped ==
    ASSUME Types, pending # <<>>, NEW f \in Frames
    PROVE  Reader \in Reads /\ DeliveredTo(Reader, f) \in Deliveries
<1>1. Reader \in Reads /\ Reader \in Reqs
  BY ReqTypes DEF Reader
<1>2. req[Reader].issue \in Nat
  BY <1>1, ReqTypes DEF ReqRecs
<1>3. PICK i \in 1 .. Len(Arrivals) : f = FrameOf(i)
  BY DEF Frames
<1>4. f.id = i /\ f.type = Arrivals[i].type /\ f.len \in Nat
  BY <1>3, FrameFacts, Constants DEF FrameOf
<1> QED
  BY <1>1, <1>2, <1>4 DEF DeliveredTo, Deliveries

(* The rest of the device's state, and of the driver's. *)
WireTypes ==
    /\ rxbuf \in [Entries -> Frames \cup {NoData}] /\ engine \in {"idle", "tx", "rx"}
    /\ inbox \in Seq(Frames) /\ sent \in Seq(SentData) /\ intx \in BOOLEAN /\ ports \in BOOLEAN
    /\ arrived \in 0 .. Len(Arrivals) /\ delivered \in Seq(Deliveries)
StepTypes ==
    /\ devinit \in Loading \cup InRunning
    /\ unit \in [open : BOOLEAN, configured : BOOLEAN, online : BOOLEAN]
    /\ pc \in Handling /\ dev_idx \in Idx /\ entry \in Entries

LEMMA WireTyped ==
    ASSUME NetInv, [DrvNext]_drvVars
    PROVE  WireTypes'
<1>0. Types /\ Phases /\ Registers /\ RxFlight /\ TxFlight
  BY Zenon DEF NetInv
<1>a. WireTypes /\ net \in NetType /\ net.isr \in BOOLEAN
  BY <1>0 DEF WireTypes, Types, CardTypes, UnitTypes, NetType
<1>s. UNCHANGED <<rxbuf, engine, inbox, sent, intx, ports, arrived, delivered>> => WireTypes'
  BY <1>a DEF WireTypes
<1>1. CASE UNCHANGED drvVars
  BY <1>1, <1>s DEF drvVars, netVars
<1>2. CASE DevInit
  <2>1. CASE add_int_server
    <3>1. UNCHANGED <<rxbuf, engine, inbox, sent, arrived, delivered>> /\ intx' = TRUE /\ ports' = net.isr
      BY <2>1 DEF add_int_server, Loads
    <3>2. ports' \in BOOLEAN
      BY <1>a, <3>1, Zenon
    <3> QED
      BY <1>a, <3>1, <3>2 DEF WireTypes
  <2>2. CASE ~add_int_server
    BY <1>2, <1>s, <2>2 DEF DevInit, negotiate, setup_queue, AllocFails, LoadFails, post_rx_buffer,
                driver_ok, set_ready, Loads
  <2> QED
    BY <2>1, <2>2
<1>3. CASE Client
  <2>1. CallLeaves \/ SomePublish
    BY <1>3 DEF Client, VNetOpen, VNetClose, cmd_flush, cmd_configinterface, cmd_online, cmd_offline,
                Refused, cmd_read, queue_read, VNetAbortIO, cmd_write, copy_fails, SomePublish
  <2> QED
    BY <1>s, <2>1 DEF CallLeaves, SomePublish, publish, netVars
<1>4. CASE push_avail
  BY <1>4, <1>s DEF push_avail
<1>5. CASE TakeInt2 \/ ExitInt2
  <2>1. UNCHANGED <<rxbuf, engine, inbox, sent, intx, arrived, delivered>> /\ ports' \in {ports, FALSE}
    BY <1>5 DEF TakeInt2, ExitInt2, Serves
  <2>2. ports' \in BOOLEAN
    BY <1>a, <2>1, Zenon DEF WireTypes
  <2> QED
    BY <1>a, <2>1, <2>2 DEF WireTypes
<1>6. CASE read_isr_byte \/ read_used_idx("rx", "rx_idx", "rx") \/ read_used_idx("tx", "tx_idx", "tx")
           \/ rx_post \/ rx_push \/ tx_entry
  BY <1>6, <1>s DEF read_isr_byte, read_used_idx, rx_post, rx_push, tx_entry, Serves
<1>7. CASE rx_entry
  <2>1. UNCHANGED <<rxbuf, engine, inbox, sent, intx, ports, arrived>> /\ (RxEnds \/ RxTakes)
    BY <1>7, RxEntryKinds
  <2>2. delivered' \in Seq(Deliveries)
    <3>1. CASE delivered' = delivered
      BY <1>a, <3>1 DEF WireTypes
    <3>2. CASE RxTakes /\ RxGives
      <4>1. /\ delivered' = Append(delivered, DeliveredTo(Reader, FrameAt(0))) /\ FrameAt(0) \in Frames
            /\ delivered \in Seq(Deliveries) /\ pending # <<>>
        BY <1>a, <3>2 DEF RxTakes, RxGives, WireTypes
      <4>2. DeliveredTo(Reader, FrameAt(0)) \in Deliveries
        BY <1>0, <4>1, DeliveredTyped
      <4> QED
        BY <4>1, <4>2, AppendProperties
    <3> QED
      BY <2>1, <3>1, <3>2 DEF RxEnds, RxTakes, RxLeaves, RxDrops
  <2> QED
    BY <1>a, <2>1, <2>2 DEF WireTypes
<1>8. CASE FrameArrives
  <2>1. /\ UNCHANGED <<rxbuf, engine, sent, intx, ports, delivered>> /\ arrived' = arrived + 1
        /\ arrived < Len(Arrivals) /\ inbox' = Append(inbox, FrameOf(arrived + 1))
    BY <1>8 DEF FrameArrives, FrameOf
  <2>2. arrived' \in 0 .. Len(Arrivals) /\ arrived + 1 \in 1 .. Len(Arrivals)
    BY <1>a, <2>1, Constants DEF WireTypes
  <2>3. FrameOf(arrived + 1) \in Frames
    BY <2>2 DEF Frames
  <2>4. inbox' \in Seq(Frames)
    BY <1>a, <2>1, <2>3, AppendProperties DEF WireTypes
  <2> QED
    BY <1>a, <2>1, <2>2, <2>4 DEF WireTypes
<1>9. CASE Device
  <2>1. DriverRests /\ (EngineIdles \/ TxSends \/ RxReceives)
    BY <1>0, <1>9, EngineSteps
  <2>2. UNCHANGED <<arrived, delivered>>
    BY <2>1 DEF DriverRests
  <2>3. CASE EngineIdles
    BY <1>a, <2>2, <2>3 DEF EngineIdles, WireTypes
  <2>4. CASE TxSends
    <3>1. /\ sent' = Append(sent, DataOf(HeadOf("tx"))) \/ sent' = sent
          /\ UNCHANGED <<rxbuf, inbox, intx, ports, engine>>
      BY <2>4 DEF TxSends
    <3>2. sent' \in Seq(SentData)
      <4>1. sent \in Seq(SentData) /\ DataOf(HeadOf("tx")) \in SentData
        BY <1>a, <2>4, SentTyped DEF WireTypes
      <4>2. Append(sent, DataOf(HeadOf("tx"))) \in Seq(SentData)
        BY <4>1, AppendProperties
      <4> QED
        BY <3>1, <4>1, <4>2
    <3> QED
      BY <1>a, <2>2, <3>1, <3>2 DEF WireTypes
  <2>5. CASE RxReceives
    <3>1. /\ inbox # <<>> /\ inbox' = Tail(inbox) /\ rxbuf' = [rxbuf EXCEPT ![HeadOf("rx")] = Head(inbox)]
          /\ UNCHANGED <<sent, intx, ports, engine>>
      BY <2>5 DEF RxReceives
    <3>2. inbox' \in Seq(Frames) /\ Head(inbox) \in Frames
      BY <1>a, <3>1, HeadTailProperties DEF WireTypes
    <3>3. rxbuf' \in [Entries -> Frames \cup {NoData}]
      BY <1>a, <3>1, <3>2 DEF WireTypes
    <3> QED
      BY <1>a, <2>2, <3>1, <3>2, <3>3 DEF WireTypes
  <2> QED
    BY <2>1, <2>3, <2>4, <2>5
<1> QED
  BY <1>1, <1>2, <1>3, <1>4, <1>5, <1>6, <1>7, <1>8, <1>9 DEF DrvNext, vnet_isr_handler

LEMMA UnitUpdates ==
    ASSUME NEW u \in [open : BOOLEAN, configured : BOOLEAN, online : BOOLEAN]
    PROVE  /\ [open |-> TRUE, configured |-> FALSE, online |-> FALSE]
                 \in [open : BOOLEAN, configured : BOOLEAN, online : BOOLEAN]
           /\ [u EXCEPT !.open = FALSE, !.online = FALSE]
                 \in [open : BOOLEAN, configured : BOOLEAN, online : BOOLEAN]
           /\ [u EXCEPT !.configured = TRUE] \in [open : BOOLEAN, configured : BOOLEAN, online : BOOLEAN]
           /\ [u EXCEPT !.online = TRUE] \in [open : BOOLEAN, configured : BOOLEAN, online : BOOLEAN]
           /\ [u EXCEPT !.online = FALSE] \in [open : BOOLEAN, configured : BOOLEAN, online : BOOLEAN]
<1>1. [open |-> TRUE, configured |-> FALSE, online |-> FALSE]
          \in [open : BOOLEAN, configured : BOOLEAN, online : BOOLEAN]
  OBVIOUS
<1>2. [u EXCEPT !.configured = TRUE] \in [open : BOOLEAN, configured : BOOLEAN, online : BOOLEAN]
  OBVIOUS
<1>3. [u EXCEPT !.online = TRUE] \in [open : BOOLEAN, configured : BOOLEAN, online : BOOLEAN]
  OBVIOUS
<1>4. [u EXCEPT !.online = FALSE] \in [open : BOOLEAN, configured : BOOLEAN, online : BOOLEAN]
  OBVIOUS
<1>5. [u EXCEPT !.open = FALSE, !.online = FALSE]
          \in [open : BOOLEAN, configured : BOOLEAN, online : BOOLEAN]
  OBVIOUS
<1> QED
  BY <1>1, <1>2, <1>3, <1>4, <1>5

LEMMA StepTyped ==
    ASSUME NetInv, [DrvNext]_drvVars
    PROVE  StepTypes'
<1>0. Types /\ Phases /\ Registers /\ RxFlight /\ TxFlight
  BY Zenon DEF NetInv
<1>a. StepTypes
  BY <1>0 DEF StepTypes, Types, UnitTypes
<1>s. UNCHANGED <<devinit, unit, pc, dev_idx, entry>> => StepTypes'
  BY <1>a DEF StepTypes
<1>1. CASE UNCHANGED drvVars
  BY <1>1, <1>s DEF drvVars, unitVars, isrVars
<1>2. CASE DevInit
  <2>1. UNCHANGED <<unit, pc, dev_idx, entry>>
    BY <1>2 DEF DevInit, negotiate, setup_queue, AllocFails, LoadFails, post_rx_buffer,
                add_int_server, driver_ok, set_ready, Loads, unitVars, isrVars
  <2>2. devinit' \in Loading \cup InRunning
    BY <1>2 DEF DevInit, negotiate, setup_queue, AllocFails, LoadFails, post_rx_buffer,
                add_int_server, driver_ok, set_ready, Loads, Loading, InRunning
  <2> QED
    BY <1>a, <2>1, <2>2 DEF StepTypes
<1>3. CASE Client
  <2>1. UNCHANGED <<devinit, pc, dev_idx, entry>>
    <3>1. CallLeaves \/ SomePublish
      BY <1>3 DEF Client, VNetOpen, VNetClose, cmd_flush, cmd_configinterface, cmd_online, cmd_offline,
                Refused, cmd_read, queue_read, VNetAbortIO, cmd_write, copy_fails, SomePublish
    <3> QED
      BY <3>1 DEF CallLeaves, SomePublish, publish, isrVars
  <2>2. unit' \in [open : BOOLEAN, configured : BOOLEAN, online : BOOLEAN]
    <3>1. CASE unit' = unit
      BY <1>a, <3>1 DEF StepTypes
    <3>2. CASE VNetOpen \/ VNetClose \/ cmd_configinterface \/ cmd_online \/ cmd_offline
      <4>1. \/ unit' = [open |-> TRUE, configured |-> FALSE, online |-> FALSE]
            \/ unit' = [unit EXCEPT !.open = FALSE, !.online = FALSE]
            \/ unit' = [unit EXCEPT !.configured = TRUE]
            \/ unit' = [unit EXCEPT !.online = TRUE]
            \/ unit' = [unit EXCEPT !.online = FALSE]
        BY <3>2 DEF VNetOpen, VNetClose, cmd_configinterface, cmd_online, cmd_offline
      <4>2. unit \in [open : BOOLEAN, configured : BOOLEAN, online : BOOLEAN]
        BY <1>a DEF StepTypes
      <4> QED
        BY <4>1, <4>2, UnitUpdates
    <3> QED
      BY <1>3, <3>1, <3>2 DEF Client, cmd_flush, Refused, cmd_read, queue_read, VNetAbortIO,
                cmd_write, copy_fails, publish
  <2> QED
    BY <1>a, <2>1, <2>2 DEF StepTypes
<1>4. CASE push_avail
  BY <1>4, <1>s DEF push_avail, unitVars, isrVars
<1>5. CASE TakeInt2 \/ read_isr_byte \/ rx_post \/ rx_push \/ tx_entry \/ ExitInt2
  <2>1. UNCHANGED <<devinit, unit>> /\ dev_idx' \in {dev_idx, 0} /\ entry' \in {entry, 0}
    BY <1>5 DEF TakeInt2, read_isr_byte, rx_post, rx_push, tx_entry, ExitInt2, Serves
  <2>2. pc' \in Handling
    BY <1>5 DEF TakeInt2, read_isr_byte, rx_post, rx_push, tx_entry, ExitInt2, Handling
  <2> QED
    BY <1>a, <2>1, <2>2, Constants DEF StepTypes
<1>6. ASSUME NEW q \in Queues, NEW at, NEW to \in {"rx", "tx"}, read_used_idx(q, at, to)
      PROVE  StepTypes'
  <2>1. UNCHANGED <<devinit, unit, entry>> /\ dev_idx' = vring[q].used_idx /\ pc' = to
    BY <1>6 DEF read_used_idx, Serves
  <2>2. dev_idx' \in Idx
    BY <1>0, <2>1, RingTypes
  <2> QED
    BY <1>a, <2>1, <2>2 DEF StepTypes, Handling
<1>7. CASE rx_entry
  <2>1. UNCHANGED <<dev_idx, devinit, unit>> /\ (RxEnds \/ RxTakes)
    BY <1>7, RxEntryKinds
  <2>2. pc' \in {"tx_idx", "rx_post"}
    BY <2>1 DEF RxEnds, RxTakes
  <2>3. entry' \in Entries
    <3>1. CASE seen["rx"] = dev_idx
      BY <1>7, <1>a, <3>1 DEF rx_entry, StepTypes
    <3>2. CASE seen["rx"] # dev_idx
      <4>1. entry' = vring["rx"].used[seen["rx"] % qsize].id /\ seen["rx"] % qsize \in Entries
        <5>1. entry' = vring["rx"].used[seen["rx"] % qsize].id
          BY <1>7, <3>2 DEF rx_entry, UsedEntry
        <5>2. seen["rx"] \in Idx
          BY <1>0, RingTypes, Constants
        <5>3. seen["rx"] % qsize \in Slots
          BY <5>2, Sizes DEF Idx, Slots
        <5> QED
          BY <5>1, <5>3, Constants
      <4> QED
        BY <1>0, <4>1, RingTypes, Constants
    <3> QED
      BY <3>1, <3>2
  <2> QED
    BY <1>a, <2>1, <2>2, <2>3 DEF StepTypes, Handling
<1>8. CASE FrameArrives \/ Device
  BY <1>8, <1>s DEF FrameArrives, Device, unitVars, isrVars
<1> QED
  BY <1>1, <1>2, <1>3, <1>4, <1>5, <1>6, <1>7, <1>8, Constants DEF DrvNext, vnet_isr_handler

-----------------------------------------------------------------------------
(* The list of reads *)

(* p lists the reads of S, each once. *)
Lists(p, S) ==
    /\ p \in Seq(Reads) /\ \A i, j \in 1 .. Len(p) : p[i] = p[j] => i = j
    /\ \A r \in Reads : r \in S <=> \E i \in 1 .. Len(p) : p[i] = r

LEMMA ListAppend ==
    ASSUME NEW p, NEW S, Lists(p, S), NEW r \in Reads, r \notin S
    PROVE  Lists(Append(p, r), S \cup {r})
<1>0. /\ p \in Seq(Reads) /\ \A i, j \in 1 .. Len(p) : p[i] = p[j] => i = j
      /\ \A t \in Reads : t \in S <=> \E i \in 1 .. Len(p) : p[i] = t
  BY Zenon DEF Lists
<1>a. Len(p) \in Nat
  BY <1>0
<1>1. PICK q : q = Append(p, r)
  OBVIOUS
<1>2. /\ q \in Seq(Reads) /\ Len(q) = Len(p) + 1 /\ q[Len(p) + 1] = r
      /\ \A i \in 1 .. Len(p) : q[i] = p[i]
  BY <1>0, <1>1, AppendProperties
<1>3. \A i \in 1 .. Len(p) : p[i] # r
  BY <1>0
<1>4. \A i \in 1 .. Len(q) : i \in 1 .. Len(p) \/ i = Len(p) + 1
  BY <1>2, <1>a
<1>5. \A i, j \in 1 .. Len(q) : q[i] = q[j] => i = j
  BY <1>0, <1>2, <1>3, <1>4
<1>6. ASSUME NEW t \in Reads PROVE t \in S \cup {r} <=> \E i \in 1 .. Len(q) : q[i] = t
  <2>1. ASSUME t \in S PROVE \E i \in 1 .. Len(q) : q[i] = t
    <3>1. PICK i \in 1 .. Len(p) : p[i] = t
      BY <1>0, <2>1
    <3>2. i \in 1 .. Len(q) /\ q[i] = t
      BY <1>2, <1>a, <3>1
    <3> QED
      BY <3>2
  <2>2. ASSUME t = r PROVE \E i \in 1 .. Len(q) : q[i] = t
    <3>1. Len(p) + 1 \in 1 .. Len(q) /\ q[Len(p) + 1] = t
      BY <1>2, <1>a, <2>2
    <3> QED
      BY <3>1
  <2>3. ASSUME NEW i \in 1 .. Len(q), q[i] = t PROVE t \in S \cup {r}
    BY <1>0, <1>2, <1>4, <2>3
  <2> QED
    BY <2>1, <2>2, <2>3
<1> QED
  BY <1>1, <1>2, <1>5, <1>6, Zenon DEF Lists

(* The list without its element at i, in whatever way it is computed. *)
Without(p, i, q) ==
    /\ q \in Seq(Reads) /\ Len(q) = Len(p) - 1
    /\ \A k \in 1 .. Len(q) : q[k] = IF k < i THEN p[k] ELSE p[k + 1]

LEMMA ListWithout ==
    ASSUME NEW p, NEW S, Lists(p, S), NEW i \in 1 .. Len(p), NEW q, Without(p, i, q)
    PROVE  Lists(q, S \ {p[i]})
<1>0. /\ p \in Seq(Reads) /\ \A k, j \in 1 .. Len(p) : p[k] = p[j] => k = j
      /\ \A t \in Reads : t \in S <=> \E k \in 1 .. Len(p) : p[k] = t
  BY Zenon DEF Lists
<1>1. /\ q \in Seq(Reads) /\ Len(q) = Len(p) - 1
      /\ \A k \in 1 .. Len(q) : q[k] = IF k < i THEN p[k] ELSE p[k + 1]
  BY Zenon DEF Without
<1>a. Len(p) \in Nat /\ i \in Nat /\ i <= Len(p) /\ Len(q) \in Nat
  BY <1>0, <1>1
<1> DEFINE old(k) == IF k < i THEN k ELSE k + 1
<1>2. \A k \in 1 .. Len(q) : old(k) \in 1 .. Len(p) /\ old(k) # i /\ q[k] = p[old(k)]
  BY <1>1, <1>a
<1>3. \A k, j \in 1 .. Len(q) : old(k) = old(j) => k = j
  BY <1>1, <1>a
<1>4. ASSUME NEW l \in 1 .. Len(p), l # i PROVE \E k \in 1 .. Len(q) : old(k) = l
  <2>1. CASE l < i
    <3>1. l \in 1 .. Len(q) /\ old(l) = l
      BY <1>1, <1>a, <2>1
    <3> QED
      BY <3>1
  <2>2. CASE l > i
    <3>1. l - 1 \in 1 .. Len(q) /\ old(l - 1) = l
      BY <1>1, <1>a, <2>2
    <3> QED
      BY <3>1
  <2> QED
    BY <1>4, <1>a, <2>1, <2>2
<1> HIDE DEF old
<1>5. \A k, j \in 1 .. Len(q) : q[k] = q[j] => k = j
  <2> TAKE k \in 1 .. Len(q), j \in 1 .. Len(q)
  <2> HAVE q[k] = q[j]
  <2>1. PICK x \in 1 .. Len(p) : x = old(k)
    BY <1>2
  <2>2. PICK y \in 1 .. Len(p) : y = old(j)
    BY <1>2
  <2>3. p[x] = p[y]
    BY <1>2, <2>1, <2>2
  <2>4. x = y
    BY <1>0, <2>3, Zenon
  <2> QED
    BY <1>3, <2>1, <2>2, <2>4
<1>6. ASSUME NEW t \in Reads PROVE t \in S \ {p[i]} <=> \E k \in 1 .. Len(q) : q[k] = t
  <2>1. ASSUME t \in S, t # p[i] PROVE \E k \in 1 .. Len(q) : q[k] = t
    <3>1. PICK l \in 1 .. Len(p) : p[l] = t
      BY <1>0, <2>1
    <3>2. PICK k \in 1 .. Len(q) : old(k) = l
      BY <1>4, <2>1, <3>1
    <3>3. q[k] = t
      BY <1>2, <3>1, <3>2
    <3> QED
      BY <3>3
  <2>2. ASSUME NEW k \in 1 .. Len(q), q[k] = t PROVE t \in S /\ t # p[i]
    <3>1. old(k) \in 1 .. Len(p) /\ old(k) # i /\ p[old(k)] = t
      BY <1>2, <2>2
    <3> QED
      BY <1>0, <3>1
  <2> QED
    BY <2>1, <2>2
<1> QED
  BY <1>1, <1>5, <1>6, Zenon DEF Lists

LEMMA RemovesAt ==
    ASSUME NEW p \in Seq(Reads), NEW i \in 1 .. Len(p)
    PROVE  Without(p, i, RemoveAt(p, i))
<1>a. Len(p) \in Nat /\ i \in Nat /\ 1 <= i /\ i <= Len(p) /\ \A k \in 1 .. Len(p) : p[k] \in Reads
  OBVIOUS
<1> DEFINE a == SubSeq(p, 1, i - 1)
           b == SubSeq(p, i + 1, Len(p))
<1>1. a \in Seq(Reads) /\ Len(a) = i - 1 /\ \A k \in 1 .. i - 1 : a[k] = p[k]
  <2>1. i - 1 \in Int /\ 1 \in Int /\ \A k \in 1 .. i - 1 : p[k] \in Reads
    BY <1>a
  <2>2. /\ a \in Seq(Reads) /\ Len(a) = IF 1 <= i - 1 THEN (i - 1) - 1 + 1 ELSE 0
        /\ \A k \in 1 .. (i - 1) - 1 + 1 : a[k] = p[1 + k - 1]
    BY <2>1, SubSeqProperties
  <2> QED
    BY <1>a, <2>2
<1>2. b \in Seq(Reads) /\ Len(b) = Len(p) - i /\ \A k \in 1 .. Len(p) - i : b[k] = p[i + k]
  <2>1. i + 1 \in Int /\ Len(p) \in Int /\ \A k \in i + 1 .. Len(p) : p[k] \in Reads
    BY <1>a
  <2>2. /\ b \in Seq(Reads) /\ Len(b) = IF i + 1 <= Len(p) THEN Len(p) - (i + 1) + 1 ELSE 0
        /\ \A k \in 1 .. Len(p) - (i + 1) + 1 : b[k] = p[(i + 1) + k - 1]
    BY <2>1, SubSeqProperties
  <2> QED
    BY <1>a, <2>2
<1> HIDE DEF a, b
<1>3. PICK q : q = a \o b
  OBVIOUS
<1>4. /\ q \in Seq(Reads) /\ Len(q) = Len(a) + Len(b)
      /\ \A k \in 1 .. Len(a) + Len(b) : q[k] = IF k <= Len(a) THEN a[k] ELSE b[k - Len(a)]
  BY <1>1, <1>2, <1>3, ConcatProperties
<1>5. Len(q) = Len(p) - 1
  BY <1>1, <1>2, <1>4, <1>a
<1>6. ASSUME NEW k \in 1 .. Len(q) PROVE q[k] = IF k < i THEN p[k] ELSE p[k + 1]
  <2>1. k \in 1 .. Len(a) + Len(b)
    BY <1>4
  <2>2. q[k] = IF k <= Len(a) THEN a[k] ELSE b[k - Len(a)]
    BY <1>4, <2>1
  <2>3. CASE k < i
    <3>1. k <= Len(a) /\ k \in 1 .. i - 1
      BY <1>1, <1>a, <2>3
    <3> QED
      BY <1>1, <2>2, <2>3, <3>1
  <2>4. CASE ~(k < i)
    <3>1. ~(k <= Len(a)) /\ k - Len(a) \in 1 .. Len(p) - i /\ i + (k - Len(a)) = k + 1
      BY <1>1, <1>5, <1>a, <2>4
    <3>2. b[k - Len(a)] = p[i + (k - Len(a))]
      BY <1>2, <3>1
    <3> QED
      BY <2>2, <2>4, <3>1, <3>2
  <2> QED
    BY <2>3, <2>4
<1>7. RemoveAt(p, i) = q
  BY <1>3 DEF RemoveAt, a, b
<1> QED
  BY <1>4, <1>5, <1>6, <1>7, Zenon DEF Without

LEMMA RemovesHead ==
    ASSUME NEW p \in Seq(Reads), p # <<>>
    PROVE  Without(p, 1, Tail(p)) /\ 1 \in 1 .. Len(p) /\ Head(p) = p[1]
<1>1. Len(p) \in Nat /\ Len(p) > 0 /\ Head(p) = p[1]
  OBVIOUS
<1>2. Tail(p) \in Seq(Reads) /\ Len(Tail(p)) = Len(p) - 1 /\ \A i \in 1 .. Len(Tail(p)) : Tail(p)[i] = p[i + 1]
  BY HeadTailProperties
<1>3. \A k \in 1 .. Len(Tail(p)) : ~(k < 1)
  BY <1>1, <1>2
<1> QED
  BY <1>1, <1>2, <1>3 DEF Without

Waiting == {r \in Reads : req[r].state = "pending"}
Busy == {"checked", "pending", "filling"}

LEMMA ListIs ==
    ASSUME Types, PendingReads
    PROVE  Lists(pending, Waiting)
BY ReqTypes DEF PendingReads, Lists, Waiting

LEMMA ListAfter ==
    ASSUME NEW S, Lists(pending', S), \A r \in Reads : r \in S <=> req'[r].state = "pending",
           ~unit'.open => \A r \in Reqs : req'[r].state \notin Busy
    PROVE  pending' \in Seq(Reads) /\ PendingReads'
<1>0. /\ pending' \in Seq(Reads) /\ \A i, j \in 1 .. Len(pending') : pending'[i] = pending'[j] => i = j
      /\ \A r \in Reads : r \in S <=> \E i \in 1 .. Len(pending') : pending'[i] = r
  BY Zenon DEF Lists
<1> QED
  BY <1>0 DEF PendingReads, Busy

(* A step that moves one request, or none, out of the driver's hands or inside them. *)
LEMMA ClosedStays ==
    ASSUME NetInv, unit' = unit, NEW r \in Reqs, unit.open \/ req'[r].state \notin Busy,
           \A t \in Reqs : t # r => req'[t] = req[t]
    PROVE  ~unit'.open => \A t \in Reqs : req'[t].state \notin Busy
<1>1. ~unit.open => \A t \in Reqs : req[t].state \notin Busy
  BY DEF NetInv, PendingReads, Busy
<1> QED
  BY <1>1

LEMMA ReadsUntouched ==
    ASSUME NetInv, pending' = pending, unit' = unit,
           \A r \in Reads : req'[r].state = "pending" <=> req[r].state = "pending",
           ~unit'.open => \A t \in Reqs : req'[t].state \notin Busy
    PROVE  pending' \in Seq(Reads) /\ PendingReads'
<1>1. Types /\ PendingReads
  BY Zenon DEF NetInv
<1>2. Lists(pending', Waiting)
  BY <1>1, ListIs
<1>3. \A r \in Reads : r \in Waiting <=> req'[r].state = "pending"
  BY DEF Waiting
<1> QED
  BY <1>2, <1>3, ListAfter

LEMMA NoRequestMoves ==
    ASSUME NetInv, pending' = pending, unit'.open = unit.open, req' = req
    PROVE  pending' \in Seq(Reads) /\ PendingReads'
BY DEF NetInv, Types, UnitTypes, PendingReads

LEMMA OneMoves ==
    ASSUME NetInv, pending' = pending, unit' = unit, NEW r \in Reqs, NEW s \in ReqStates, NEW n, NEW x,
           ReqBecomes(r, s, n, x), req[r].state # "pending", s # "pending",
           unit.open \/ s \notin Busy
    PROVE  pending' \in Seq(Reads) /\ PendingReads'
<1>1. req'[r].state = s /\ \A t \in Reqs : t # r => req'[t] = req[t]
  BY DEF ReqBecomes
<1>2. ~unit'.open => \A t \in Reqs : req'[t].state \notin Busy
  BY <1>1, ClosedStays
<1>3. \A t \in Reads : req'[t].state = "pending" <=> req[t].state = "pending"
  BY <1>1 DEF Reqs
<1> QED
  BY <1>2, <1>3, ReadsUntouched

LEMMA OneLeavesList ==
    ASSUME NetInv, unit' = unit, NEW r \in Reads, NEW i \in 1 .. Len(pending), pending[i] = r,
           Without(pending, i, pending'), NEW n, NEW x, ReqBecomes(r, "done", n, x)
    PROVE  pending' \in Seq(Reads) /\ PendingReads'
<1>0. Types /\ PendingReads /\ r \in Reqs
  BY Zenon DEF NetInv, Reqs
<1>1. req'[r].state = "done" /\ \A t \in Reqs : t # r => req'[t] = req[t]
  BY DEF ReqBecomes
<1>2. Lists(pending', Waiting \ {r})
  BY <1>0, ListIs, ListWithout
<1>3. "done" \notin Busy
  BY DEF Busy
<1>4. ~unit'.open => \A t \in Reqs : req'[t].state \notin Busy
  BY <1>0, <1>1, <1>3, ClosedStays
<1>5. \A t \in Reads : t \in Waiting \ {r} <=> req'[t].state = "pending"
  BY <1>1 DEF Waiting, Reqs
<1> QED
  BY <1>2, <1>4, <1>5, ListAfter

LEMMA ReadsStep ==
    ASSUME NetInv, [DrvNext]_drvVars
    PROVE  pending' \in Seq(Reads) /\ PendingReads'
<1>0. Types /\ Phases /\ Registers /\ RxFlight /\ TxFlight /\ SlotOwners /\ PendingReads
  BY Zenon DEF NetInv
<1>a. /\ "done" \in ReqStates /\ "checked" \in ReqStates /\ "pending" \in ReqStates
      /\ "filling" \in ReqStates /\ "sending" \in ReqStates /\ "error" \in Results /\ "ok" \in Results
      /\ "done" \notin Busy /\ "sending" \notin Busy
  BY DEF ReqStates, Results, Busy
<1>b. \A r \in Reads : r \in Reqs
  BY DEF Reqs
<1>c. \A w \in Writes : w \in Reqs
  BY DEF Reqs
<1>1. CASE UNCHANGED <<req, pending, unit>>
  BY <1>1, NoRequestMoves
<1>2. CASE DevInit \/ push_avail \/ FrameArrives \/ Device
  <2>1. UNCHANGED <<req, pending, unit>>
    BY <1>2 DEF DevInit, negotiate, setup_queue, AllocFails, LoadFails, post_rx_buffer,
                add_int_server, driver_ok, set_ready, Loads, unitVars, push_avail, FrameArrives, Device
  <2> QED
    BY <1>1, <2>1
<1>3. CASE cmd_configinterface \/ cmd_online \/ cmd_offline
  <2>1. /\ req' = req /\ pending' = pending
        /\ unit' = [unit EXCEPT !.configured = TRUE] \/ unit' = [unit EXCEPT !.online = TRUE]
           \/ unit' = [unit EXCEPT !.online = FALSE]
    BY <1>3 DEF cmd_configinterface, cmd_online, cmd_offline
  <2>2. unit \in [open : BOOLEAN, configured : BOOLEAN, online : BOOLEAN]
    BY <1>0 DEF Types, UnitTypes
  <2>3. unit'.open = unit.open
    BY <2>1, <2>2
  <2> QED
    BY <2>1, <2>3, NoRequestMoves
<1>4. CASE VNetOpen
  <2>1. pending' = <<>> /\ req' = req /\ unit' = [open |-> TRUE, configured |-> FALSE, online |-> FALSE]
        /\ ~unit.open
    BY <1>4 DEF VNetOpen
  <2>2. \A r \in Reads : req[r].state # "pending"
    BY <1>0, <1>b, <2>1 DEF PendingReads
  <2>3. Lists(pending', {})
    BY <2>1 DEF Lists
  <2>4. unit'.open = TRUE
    BY <2>1
  <2> QED
    BY <2>1, <2>2, <2>3, <2>4, ListAfter
<1>5. CASE VNetClose \/ cmd_flush
  <2>1. pending' = <<>> /\ req' = Flushed
    BY <1>5 DEF VNetClose, cmd_flush
  <2>2. /\ \A w \in Writes : req'[w] = req[w]
        /\ \A r \in Reads : /\ r \in ToSet(pending) => req'[r].state = "done"
                            /\ r \notin ToSet(pending) => req'[r] = req[r]
    BY <2>1, FlushedReads
  <2>3. \A r \in Reads : req[r].state = "pending" => r \in ToSet(pending)
    <3>1. \A r \in Reads : req[r].state = "pending" => \E i \in 1 .. Len(pending) : pending[i] = r
      BY <1>0 DEF PendingReads
    <3>2. DOMAIN pending = 1 .. Len(pending)
      BY <1>0, ReqTypes
    <3> QED
      BY <3>1, <3>2 DEF ToSet
  <2>4. \A r \in Reads : req'[r].state # "pending"
    BY <2>2, <2>3
  <2>5. Lists(pending', {})
    BY <2>1 DEF Lists
  <2>6. ~unit'.open => \A r \in Reqs : req'[r].state \notin Busy
    <3>1. CASE VNetClose
      <4>1. \A r \in Reqs : req[r].state \notin {"checked", "filling"}
        BY <3>1 DEF VNetClose
      <4>2. ASSUME NEW r \in Reads PROVE req'[r].state \notin Busy
        BY <1>b, <2>2, <2>4, <4>1 DEF Busy
      <4>3. ASSUME NEW w \in Writes PROVE req'[w].state \notin Busy
        <5>1. req[w].state \in {"done", "filling", "sending"}
          BY <1>0 DEF SlotOwners
        <5> QED
          BY <1>c, <2>2, <4>1, <5>1 DEF Busy
      <4> QED
        BY <4>2, <4>3 DEF Reqs
    <3>2. CASE cmd_flush
      BY <3>2 DEF cmd_flush
    <3> QED
      BY <1>5, <3>1, <3>2
  <2> QED
    BY <2>4, <2>5, <2>6, ListAfter
<1>6. ASSUME NEW r \in Reqs, Refused(r) PROVE pending' \in Seq(Reads) /\ PendingReads'
  <2>1. /\ req' = [Issued(r) EXCEPT ![r].result = "error"] /\ req[r].state = "done"
        /\ pending' = pending /\ unit' = unit
    BY <1>6 DEF Refused, MayIssue
  <2>2. ReqBecomes(r, req[r].state, req[r].issue + 1, "error")
    BY <1>0, <1>a, <2>1, ReqSets
  <2>3. ReqBecomes(r, "done", req[r].issue + 1, "error")
    BY <2>1, <2>2
  <2> QED
    BY <1>a, <2>1, <2>3, OneMoves
<1>7. ASSUME NEW r \in Reads, cmd_read(r) PROVE pending' \in Seq(Reads) /\ PendingReads'
  <2>1. /\ req' = [Issued(r) EXCEPT ![r].state = "checked"] /\ req[r].state = "done"
        /\ pending' = pending /\ unit' = unit /\ unit.open
    BY <1>7 DEF cmd_read, MayIssue
  <2>2. ReqBecomes(r, "checked", req[r].issue + 1, "none")
    BY <1>0, <1>a, <1>b, <2>1, ReqSets
  <2> QED
    BY <1>a, <1>b, <2>1, <2>2, OneMoves
<1>8. ASSUME NEW r \in Reads, queue_read(r) PROVE pending' \in Seq(Reads) /\ PendingReads'
  <2>1. /\ req' = [req EXCEPT ![r].state = "pending"] /\ req[r].state = "checked"
        /\ pending' = Append(pending, r) /\ unit' = unit
    BY <1>8 DEF queue_read
  <2>2. ReqBecomes(r, "pending", req[r].issue, req[r].result)
    BY <1>0, <1>a, <1>b, <2>1, ReqSets
  <2>3. req'[r].state = "pending" /\ \A t \in Reqs : t # r => req'[t] = req[t]
    BY <2>2 DEF ReqBecomes
  <2>4. unit.open
    BY <1>0, <1>b, <2>1 DEF PendingReads
  <2>5. r \notin Waiting
    BY <2>1 DEF Waiting
  <2>6. Lists(pending', Waiting \cup {r})
    BY <1>0, <2>1, <2>5, ListIs, ListAppend
  <2>7. \A t \in Reads : t \in Waiting \cup {r} <=> req'[t].state = "pending"
    BY <1>b, <2>3 DEF Waiting
  <2>8. ~unit'.open => \A t \in Reqs : req'[t].state \notin Busy
    BY <2>1, <2>4
  <2> QED
    BY <2>6, <2>7, <2>8, ListAfter
<1>9. ASSUME NEW r \in Reads, VNetAbortIO(r) PROVE pending' \in Seq(Reads) /\ PendingReads'
  <2>1. PICK i \in 1 .. Len(pending) : pending[i] = r /\ pending' = RemoveAt(pending, i)
    BY <1>9 DEF VNetAbortIO
  <2>2. req' = Reply(r, "error") /\ unit' = unit
    BY <1>9 DEF VNetAbortIO
  <2>3. ReqBecomes(r, "done", req[r].issue, "error")
    BY <1>0, <1>a, <1>b, <2>2, ReqSets
  <2>4. Without(pending, i, pending')
    BY <1>0, <2>1, RemovesAt, ReqTypes
  <2> QED
    BY <2>1, <2>2, <2>3, <2>4, OneLeavesList
<1>10. ASSUME NEW w \in Writes, cmd_write(w) \/ copy_fails(w) \/ publish(w)
       PROVE  pending' \in Seq(Reads) /\ PendingReads'
  <2>1. pending' = pending /\ unit' = unit /\ ((req[w].state = "done" /\ unit.open) \/ req[w].state = "filling")
    BY <1>10 DEF cmd_write, copy_fails, publish, MayIssue
  <2>2. req' \in [Reqs -> ReqRecs] /\ \A t \in Reqs : t # w => req'[t] = req[t]
    <3>1. CASE cmd_write(w)
      <4>0. PICK m \in DataLengths[w] :
               \/ req' = [Issued(w) EXCEPT ![w].result = "error"]
               \/ req' = [Issued(w) EXCEPT ![w].state = "filling", ![w].len = m]
        BY <3>1 DEF cmd_write
      <4>a. m \in Nat
        BY DriverAssumption
      <4>1. CASE req' = [Issued(w) EXCEPT ![w].result = "error"]
        BY <1>0, <1>a, <1>c, <4>1, ReqSets DEF ReqBecomes
      <4>2. CASE req' = [Issued(w) EXCEPT ![w].state = "filling", ![w].len = m]
        BY <1>0, <1>a, <1>c, <4>2, <4>a, ReqSets DEF ReqBecomes
      <4> QED
        BY <4>0, <4>1, <4>2
    <3>2. CASE copy_fails(w)
      <4>1. req' = Reply(w, "error")
        BY <3>2 DEF copy_fails
      <4> QED
        BY <1>0, <1>a, <1>c, <4>1, ReqSets DEF ReqBecomes
    <3>3. CASE publish(w)
      BY <3>3, PublishSends DEF Sends, ReqBecomes
    <3> QED
      BY <1>10, <3>1, <3>2, <3>3
  <2>3. unit.open
    BY <1>0, <1>c, <2>1 DEF PendingReads
  <2>4. \A r \in Reads : req'[r].state = "pending" <=> req[r].state = "pending"
    BY <1>0, <1>b, <2>2, ReqTypes
  <2> QED
    BY <2>1, <2>3, <2>4, ReadsUntouched
<1>11. CASE Client
  BY <1>3, <1>4, <1>5, <1>6, <1>7, <1>8, <1>9, <1>10, <1>11 DEF Client
<1>12. CASE TakeInt2 \/ read_isr_byte \/ read_used_idx("rx", "rx_idx", "rx")
            \/ read_used_idx("tx", "tx_idx", "tx") \/ rx_post \/ rx_push \/ ExitInt2
  <2>1. UNCHANGED <<req, pending, unit>>
    BY <1>12 DEF TakeInt2, read_isr_byte, read_used_idx, rx_post, rx_push, ExitInt2, Serves
  <2> QED
    BY <1>1, <2>1
<1>13. CASE rx_entry
  <2>1. unit' = unit /\ (RxEnds \/ RxTakes)
    BY <1>13, RxEntryKinds
  <2>2. CASE RxEnds \/ RxLeaves
    BY <1>1, <2>1, <2>2 DEF RxEnds, RxLeaves
  <2>3. CASE RxGives \/ RxDrops
    <3>1. pending # <<>> /\ pending' = Tail(pending)
      BY <2>3 DEF RxGives, RxDrops
    <3>2. Without(pending, 1, pending') /\ 1 \in 1 .. Len(pending) /\ Head(pending) = pending[1]
      BY <1>0, <3>1, RemovesHead, ReqTypes
    <3>3. PICK r : r = pending[1]
      OBVIOUS
    <3>4. r \in Reads /\ r \in Reqs
      BY <1>0, <1>b, <3>2, <3>3, ReqTypes
    <3>5. PICK x \in Results : req' = Reply(r, x)
      BY <1>a, <2>3, <3>2, <3>3 DEF RxGives, RxDrops, Reader
    <3>6. ReqBecomes(r, "done", req[r].issue, x)
      BY <1>0, <1>a, <3>4, <3>5, ReqSets
    <3> QED
      BY <2>1, <3>2, <3>3, <3>4, <3>6, OneLeavesList
  <2> QED
    BY <2>1, <2>2, <2>3 DEF RxTakes
<1>14. CASE tx_entry
  <2>1. CASE seen["tx"] = dev_idx
    BY <1>1, <1>14, <2>1 DEF tx_entry, Serves
  <2>2. CASE seen["tx"] # dev_idx
    <3>1. PICK w \in Writes, i \in Slots : Answers(w, i)
      BY <1>14, <2>2, TxAnswersOwner DEF TxAnswers
    <3>2. req[w].state = "sending" /\ ReqBecomes(w, "done", req[w].issue, "ok")
      BY <3>1 DEF Answers
    <3>3. pending' = pending /\ unit' = unit
      BY <1>14 DEF tx_entry, Serves
    <3> QED
      BY <1>a, <1>c, <3>2, <3>3, OneMoves
  <2> QED
    BY <2>1, <2>2
<1>15. CASE UNCHANGED drvVars
  <2>1. UNCHANGED <<req, pending, unit>>
    BY <1>15 DEF drvVars, unitVars
  <2> QED
    BY <1>1, <2>1
<1> QED
  BY <1>2, <1>11, <1>12, <1>13, <1>14, <1>15 DEF DrvNext, vnet_isr_handler

LEMMA TypesStep ==
    ASSUME NetInv, [DrvNext]_drvVars
    PROVE  Types'
<1>1. CardTypes'
  BY RingsTyped, WireTyped DEF CardTypes, WireTypes
<1>2. UnitTypes'
  BY RingsTyped, OwnersTyped, WireTyped, StepTyped, ReadsStep DEF UnitTypes, WireTypes, StepTypes
<1> QED
  BY <1>1, <1>2 DEF Types

-----------------------------------------------------------------------------
(* DevInit's progress *)

(* Only DevInit writes the status, enables a queue, or enables the pin. *)
LEMMA OnlyDevInit ==
    ASSUME NetInv, [DrvNext]_drvVars, ~DevInit
    PROVE  /\ devinit' = devinit /\ intx' = intx /\ net'.status = net.status
           /\ \A q \in Queues : enabled(q)' = enabled(q)
<1>0. Types /\ Phases /\ Registers /\ RxFlight /\ TxFlight /\ net \in NetType
  BY DEF NetInv, Types, CardTypes
<1>s. UNCHANGED <<devinit, intx, net>> =>
        /\ devinit' = devinit /\ intx' = intx /\ net'.status = net.status
        /\ \A q \in Queues : enabled(q)' = enabled(q)
  BY DEF enabled
<1>1. CASE UNCHANGED drvVars
  BY <1>1, <1>s DEF drvVars, netVars
<1>2. CASE Client
  <2>1. CallLeaves \/ SomePublish
    BY <1>2 DEF Client, VNetOpen, VNetClose, cmd_flush, cmd_configinterface, cmd_online, cmd_offline,
                Refused, cmd_read, queue_read, VNetAbortIO, cmd_write, copy_fails, SomePublish
  <2> QED
    BY <1>s, <2>1 DEF CallLeaves, SomePublish, publish, netVars
<1>3. CASE push_avail \/ FrameArrives
  BY <1>3, <1>s DEF push_avail, FrameArrives
<1>4. CASE TakeInt2 \/ ExitInt2 \/ read_used_idx("rx", "rx_idx", "rx") \/ rx_post \/ rx_push
           \/ read_used_idx("tx", "tx_idx", "tx") \/ tx_entry \/ rx_entry
  BY <1>4, <1>s DEF TakeInt2, ExitInt2, read_used_idx, rx_post, rx_push, tx_entry, rx_entry, Serves
<1>5. CASE read_isr_byte
  <2>1. net' = read_isr(net) /\ devinit' = devinit /\ intx' = intx
    BY <1>5 DEF read_isr_byte, Serves
  <2>2. net'.status = net.status /\ net'.queue = net.queue
    BY <1>0, <2>1, ReadIsr
  <2> QED
    BY <2>1, <2>2 DEF enabled
<1>6. CASE Device
  <2>1. DriverRests /\ (EngineIdles \/ TxSends \/ RxReceives)
    BY <1>0, <1>6, EngineSteps
  <2>2. devinit' = devinit /\ intx' = intx
    BY <2>1 DEF DriverRests, EngineIdles, TxSends, RxReceives
  <2>3. CASE EngineIdles
    BY <1>s, <2>2, <2>3 DEF EngineIdles
  <2>4. ASSUME NEW p \in Queues, NEW len, Completed(p, len)
        PROVE  net'.status = net.status /\ \A q \in Queues : enabled(q)' = enabled(q)
    <3>1. net'.status = net.status /\ enabled(p)' = enabled(p)
      BY <2>4 DEF Completed
    <3>2. \A q \in Queues : q # p => enabled(q)' = enabled(q)
      BY <2>4, SameQueue DEF Completed
    <3> QED
      BY <3>1, <3>2
  <2>5. CASE TxSends
    BY <2>1, <2>2, <2>4, <2>5, TxCompletesRing, Constants DEF TxCompletes
  <2>6. CASE RxReceives
    BY <2>1, <2>2, <2>4, <2>6, RxCompletesRing, Constants DEF RxCompletes
  <2> QED
    BY <2>1, <2>3, <2>5, <2>6
<1> QED
  BY <1>1, <1>2, <1>3, <1>4, <1>5, <1>6 DEF DrvNext, vnet_isr_handler

(* Nothing is open, owned or served before the device is ready. *)
AtRest == /\ ~unit.open /\ locked = "none" /\ pc = "out"
          /\ \A i \in Slots : slot[i] = "free"

LEMMA RestsUntilReady ==
    ASSUME NetInv, [DrvNext]_drvVars, devinit # "ready"
    PROVE  AtRest'
<1>0. Types /\ Phases /\ SlotOwners /\ PendingReads
  BY Zenon DEF NetInv
<1>a. AtRest
  BY <1>0 DEF Phases, AtRest
<1>s. UNCHANGED <<unit, locked, pc, slot>> => AtRest'
  BY <1>a DEF AtRest
<1>1. CASE UNCHANGED drvVars
  BY <1>1, <1>s DEF drvVars, unitVars, isrVars
<1>2. CASE DevInit
  BY <1>2, <1>s DEF DevInit, negotiate, setup_queue, AllocFails, LoadFails, post_rx_buffer,
                add_int_server, driver_ok, set_ready, Loads, unitVars, isrVars
<1>3. CASE Client
  <2>1. \A r \in Reqs : req[r].state \notin {"checked", "pending", "filling"}
    BY <1>0, <1>a DEF PendingReads, AtRest
  <2>2. ~unit.open /\ (\A r \in Reads : r \in Reqs) /\ \A w \in Writes : w \in Reqs
    BY <1>a DEF AtRest, Reqs
  <2>3. VNetOpen \/ cmd_flush
    BY <1>3, <2>1, <2>2 DEF Client, VNetClose, cmd_configinterface, cmd_online, cmd_offline, MayIssue,
                Refused, cmd_read, queue_read, VNetAbortIO, cmd_write, copy_fails, publish
  <2> QED
    BY <2>2, <2>3 DEF VNetOpen, cmd_flush
<1>4. CASE push_avail
  BY <1>4, <1>a DEF push_avail, AtRest
<1>5. CASE TakeInt2
  <2>1. pc' = "out" /\ UNCHANGED <<unit, locked, slot>>
    BY <1>5 DEF TakeInt2, Serves
  <2> QED
    BY <1>a, <2>1 DEF AtRest
<1>6. CASE vnet_isr_handler
  BY <1>6, <1>a DEF vnet_isr_handler, read_isr_byte, read_used_idx, rx_entry, rx_post, rx_push, tx_entry,
                ExitInt2, Serves, AtRest
<1>7. CASE FrameArrives \/ Device
  BY <1>7, <1>s DEF FrameArrives, Device, unitVars, isrVars
<1> QED
  BY <1>1, <1>2, <1>3, <1>4, <1>5, <1>6, <1>7 DEF DrvNext

LEMMA PhasesStep ==
    ASSUME NetInv, [DrvNext]_drvVars
    PROVE  Phases'
<1>0. Types /\ Phases
  BY Zenon DEF NetInv
<1>a. devinit' # "ready" \/ devinit = "set_ready" => AtRest'
  <2>1. devinit' # "ready" => devinit # "ready"
    <3>1. ~DevInit => devinit' = devinit
      BY OnlyDevInit
    <3>2. DevInit => devinit # "ready"
      BY DEF DevInit, negotiate, setup_queue, AllocFails, LoadFails, post_rx_buffer,
                add_int_server, driver_ok, set_ready, Loads
    <3> QED
      BY <3>1, <3>2
  <2> QED
    BY <2>1, RestsUntilReady
<1>1. CASE ~DevInit
  <2>1. /\ devinit' = devinit /\ intx' = intx /\ net'.status = net.status
        /\ enabled("rx")' = enabled("rx") /\ enabled("tx")' = enabled("tx")
    BY <1>1, OnlyDevInit, Constants
  <2> QED
    BY <1>0, <1>a, <2>1 DEF Phases, AtRest
<1>2. CASE negotiate
  <2>1. devinit' = "rx_queue"
    BY <1>2 DEF negotiate, Loads
  <2>2. /\ enabled("rx")' = FALSE /\ enabled("tx")' = FALSE
        /\ "FEATURES_OK" \in net'.status /\ "NEEDS_RESET" \notin net'.status
    BY <1>2, NegotiateRing, ResetRegisters, Constants DEF enabled
  <2> QED
    BY <1>a, <2>1, <2>2 DEF Phases, AtRest, InRunning
<1>3. CASE SetsUpRx
  <2>1. SetUp("rx") /\ ~enabled("tx") /\ devinit = "rx_queue" /\ devinit' = "tx_queue"
    BY <1>3, SetsUpRing
  <2>2. enabled("rx")' = TRUE /\ enabled("tx")' = enabled("tx") /\ net'.status = net.status
    BY <2>1, SameQueue, Constants DEF SetUp
  <2> QED
    BY <1>0, <1>a, <2>1, <2>2 DEF Phases, AtRest, InRunning
<1>4. CASE SetsUpTx
  <2>1. SetUp("tx") /\ enabled("rx") /\ devinit = "tx_queue" /\ devinit' = "buffers"
    BY <1>4, SetsUpRing
  <2>2. enabled("tx")' = TRUE /\ enabled("rx")' = enabled("rx") /\ net'.status = net.status
    BY <2>1, SameQueue, Constants DEF SetUp
  <2> QED
    BY <1>0, <1>a, <2>1, <2>2 DEF Phases, AtRest, InRunning
<1>5. CASE AllocFails
  <2>1. PICK from \in {"rx_queue", "tx_queue", "buffers"} : LoadFails(from, net)
    BY <1>5 DEF AllocFails
  <2>2. net' = write_device_status(net, {"FAILED"}) /\ devinit' = "unloaded"
    BY <2>1 DEF LoadFails, Loads
  <2>3. net \in NetType /\ {"FAILED"} \in SUBSET StatusBits /\ {"FAILED"} # {}
        /\ "DRIVER_OK" \notin {"FAILED"} /\ "NEEDS_RESET" \notin {"FAILED"}
    BY <1>0 DEF Types, CardTypes, StatusBits
  <2>4. "NEEDS_RESET" \notin net'.status
    BY <2>2, <2>3, WriteStatus
  <2> QED
    BY <1>a, <2>2, <2>4 DEF Phases, AtRest, InRunning
<1>6. CASE post_rx_buffer
  <2>1. devinit = "buffers" /\ devinit' \in {"int_server", "buffers"} /\ net' = net
    BY <1>6 DEF post_rx_buffer, Loads
  <2> QED
    BY <1>0, <1>a, <2>1 DEF Phases, AtRest, InRunning, enabled
<1>7. CASE add_int_server
  <2>1. devinit = "int_server" /\ devinit' = "driver_ok" /\ net' = net /\ intx' = TRUE
    BY <1>7 DEF add_int_server, Loads
  <2> QED
    BY <1>0, <1>a, <2>1 DEF Phases, AtRest, InRunning, enabled
<1>8. CASE driver_ok
  <2> DEFINE bits == {"ACKNOWLEDGE", "DRIVER", "FEATURES_OK", "DRIVER_OK"}
  <2>1. /\ net' = write_device_status(net, bits) /\ UNCHANGED <<vring, shadow, seen>> /\ intx' = intx
        /\ devinit = "driver_ok" /\ devinit' = "set_ready"
    BY <1>8 DEF driver_ok, Loads
  <2>2. Running' = Running /\ "FEATURES_OK" \in net.status
    BY <1>0, <2>1 DEF Running, Phases
  <2>3. /\ bits \in SUBSET StatusBits /\ bits # {} /\ "NEEDS_RESET" \notin bits
        /\ "FEATURES_OK" \in bits
    BY DEF StatusBits
  <2> HIDE DEF bits
  <2>4. "NEEDS_RESET" \notin net'.status /\ net'.queue = net.queue
    BY <2>1, <2>2, <2>3, StatusLeavesRings DEF RingsStay
  <2> QED
    BY <1>0, <1>a, <2>1, <2>4 DEF Phases, AtRest, InRunning, enabled
<1>9. CASE set_ready
  <2>1. devinit = "set_ready" /\ devinit' = "ready" /\ net' = net /\ intx' = intx
    BY <1>9 DEF set_ready, Loads
  <2> QED
    BY <1>0, <1>a, <2>1 DEF Phases, AtRest, InRunning, enabled
<1> QED
  BY <1>1, <1>2, <1>3, <1>4, <1>5, <1>6, <1>7, <1>8, <1>9 DEF DevInit, SetsUpRx, SetsUpTx

-----------------------------------------------------------------------------
(* The handler *)

LEMMA HandlerKeeps ==
    ASSUME NetInv, UNCHANGED <<pc, dev_idx, entry, seen>>,
           nu("rx")' = nu("rx") \/ nu("rx")' = nu("rx") + 1,
           nu("tx")' = nu("tx") \/ nu("tx")' = nu("tx") + 1,
           pc \in {"rx_post", "rx_push"} => Id("rx", 0)' = Id("rx", 0),
           pc = "rx_push" => NextEntry("rx")' = NextEntry("rx")
    PROVE  Handler'
<1>0. Types /\ Handler
  BY Zenon DEF NetInv
<1>1. /\ nu("rx") \in Nat /\ nu("tx") \in Nat /\ seen["rx"] \in Idx /\ seen["tx"] \in Idx /\ dev_idx \in Idx
  BY <1>0, RingTypes, Constants DEF Types, UnitTypes
<1>2. Dist(seen["rx"], dev_idx) \in Nat /\ Dist(seen["tx"], dev_idx) \in Nat
  BY <1>1, DistFacts, Sizes
<1>3. /\ Dist(seen["rx"], dev_idx) <= nu("rx") => Dist(seen["rx"], dev_idx) <= nu("rx")'
      /\ Dist(seen["tx"], dev_idx) <= nu("tx") => Dist(seen["tx"], dev_idx) <= nu("tx")'
  BY <1>1, <1>2
<1>4. Dist(seen["rx"], dev_idx)' = Dist(seen["rx"], dev_idx) /\ Dist(seen["tx"], dev_idx)' = Dist(seen["tx"], dev_idx)
  BY Zenon
<1> QED
  BY <1>0, <1>3, <1>4 DEF Handler

LEMMA HandlerOut ==
    ASSUME pc' \in {"out", "isr", "rx_idx", "tx_idx", "exit"}
    PROVE  Handler'
BY DEF Handler

LEMMA HandlerStep ==
    ASSUME NetInv, [DrvNext]_drvVars
    PROVE  Handler'
<1>0. Types /\ Phases /\ Registers /\ RxFlight /\ TxFlight /\ Handler
  BY Zenon DEF NetInv
<1>a. /\ nu("rx") \in Nat /\ nu("tx") \in Nat /\ seen["rx"] \in Idx /\ seen["tx"] \in Idx /\ dev_idx \in Idx
  BY <1>0, RingTypes, Constants DEF Types, UnitTypes
<1>1. CASE RingsStay /\ UNCHANGED <<pc, dev_idx, entry>>
  <2>1. Untouched("rx") /\ Untouched("tx") /\ seen' = seen
    BY <1>1, RestUntouched, Constants DEF RingsStay
  <2>2. nu("rx")' = nu("rx") /\ nu("tx")' = nu("tx") /\ Id("rx", 0)' = Id("rx", 0)
        /\ NextEntry("rx")' = NextEntry("rx")
    BY <2>1, SameQueue, Constants
  <2> QED
    BY <1>1, <2>1, <2>2, HandlerKeeps
<1>2. CASE DevInit \/ Client
  <2>1. pc = "out"
    BY <1>2 DEF DevInit, negotiate, setup_queue, AllocFails, LoadFails, post_rx_buffer, add_int_server,
                driver_ok, set_ready, Loads, Client, VNetOpen, VNetClose, cmd_flush, MayIssue,
                cmd_configinterface, cmd_online, cmd_offline, Refused, cmd_read, queue_read, VNetAbortIO,
                cmd_write, copy_fails, publish, TaskRuns
  <2>2. CASE DevInit
    <3>1. pc' = pc
      BY <2>2 DEF DevInit, negotiate, setup_queue, AllocFails, LoadFails, post_rx_buffer, add_int_server,
                driver_ok, set_ready, Loads, isrVars
    <3> QED
      BY <2>1, <3>1, HandlerOut
  <2>3. CASE Client
    <3>1. CallLeaves \/ SomePublish
      BY <2>3 DEF Client, VNetOpen, VNetClose, cmd_flush, cmd_configinterface, cmd_online, cmd_offline,
                Refused, cmd_read, queue_read, VNetAbortIO, cmd_write, copy_fails, SomePublish
    <3>2. pc' = pc
      BY <3>1 DEF CallLeaves, SomePublish, publish, isrVars
    <3> QED
      BY <2>1, <3>2, HandlerOut
  <2> QED
    BY <1>2, <2>2, <2>3
<1>3. CASE push_avail
  <2>1. UNCHANGED <<pc, dev_idx, entry, seen>>
    BY <1>3 DEF push_avail, isrVars
  <2>2. EntryPushed("tx")
    BY <1>3, PushRing
  <2>3. Untouched("rx") /\ nu("tx")' = nu("tx")
    BY <2>2, Constants DEF EntryPushed
  <2>4. nu("rx")' = nu("rx") /\ Id("rx", 0)' = Id("rx", 0) /\ NextEntry("rx")' = NextEntry("rx")
    BY <2>3, SameQueue, Constants
  <2> QED
    BY <2>1, <2>3, <2>4, HandlerKeeps
<1>4. CASE TakeInt2 \/ read_isr_byte \/ ExitInt2
  BY <1>4, HandlerOut DEF TakeInt2, read_isr_byte, ExitInt2
<1>5. ASSUME NEW q \in Queues, NEW at, read_used_idx(q, at, q) PROVE Handler'
  <2>1. pc' = q /\ dev_idx' = vring[q].used_idx /\ UNCHANGED <<vring, seen>>
    BY <1>5 DEF read_used_idx
  <2>2. Dist(seen[q], dev_idx)' = Dist(seen[q], vring[q].used_idx) /\ nu(q)' = Dist(seen[q], vring[q].used_idx)
    BY <2>1 DEF nu
  <2>3. Dist(seen[q], vring[q].used_idx) \in Nat
    BY <1>0, RingTypes DEF nu
  <2> QED
    BY <2>1, <2>2, <2>3 DEF Handler, Queues
<1>6. CASE rx_entry
  <2>1. pc = "rx" /\ UNCHANGED <<net, vring, seen, dev_idx>> /\ (RxEnds \/ RxTakes)
    BY <1>6, RxEntryKinds
  <2>2. CASE RxEnds
    BY <2>2, HandlerOut DEF RxEnds
  <2>3. CASE RxTakes
    <3>1. pc' = "rx_post" /\ entry' = Id("rx", 0) /\ seen["rx"] # dev_idx
      BY <2>3 DEF RxTakes
    <3>2. nu("rx")' = nu("rx") /\ Id("rx", 0)' = Id("rx", 0)
      BY <2>1, SameQueue, Constants DEF Untouched
    <3>3. Dist(seen["rx"], dev_idx) <= nu("rx")
      BY <1>0, <2>1 DEF Handler
    <3> QED
      BY <2>1, <3>1, <3>2, <3>3 DEF Handler
  <2> QED
    BY <2>1, <2>2, <2>3
<1>7. CASE rx_post
  <2>1. pc = "rx_post" /\ pc' = "rx_push" /\ UNCHANGED <<dev_idx, entry, seen>>
    BY <1>7 DEF rx_post, Serves
  <2>2. EntryWritten("rx", entry, RxDesc)
    BY <1>7, RxPostRing
  <2>3. /\ nu("rx") > 0 /\ na("rx") + nu("rx") = qsize /\ entry = Id("rx", 0)
    BY <2>1, InHand
  <2>4. 0 \in 0 .. na("rx") + nu("rx") - 1
    <3>1. na("rx") \in Nat
      BY <1>0, RingTypes, Constants
    <3> QED
      BY <1>a, <2>3, <3>1, Sizes
  <2>5. nu("rx")' = nu("rx") /\ NextEntry("rx")' = entry /\ Id("rx", 0)' = Id("rx", 0)
    BY <2>2, <2>4 DEF EntryWritten
  <2>6. Dist(seen["rx"], dev_idx) <= nu("rx") /\ seen["rx"] # dev_idx
    BY <1>0, <2>1 DEF Handler
  <2> QED
    BY <2>1, <2>3, <2>5, <2>6 DEF Handler
<1>8. CASE rx_push
  <2>1. pc = "rx_push" /\ pc' = "rx" /\ UNCHANGED <<dev_idx, entry>>
    BY <1>8 DEF rx_push, Serves
  <2>2. seen'["rx"] = Succ(seen["rx"]) /\ nu("rx")' = nu("rx") - 1
    BY <1>8, RxPushRing DEF Reposted
  <2>3. Dist(seen["rx"], dev_idx) <= nu("rx") /\ seen["rx"] # dev_idx
    BY <1>0, <2>1 DEF Handler
  <2>4. Dist(seen["rx"], dev_idx) \in Nat /\ Dist(Succ(seen["rx"]), dev_idx) = Dist(seen["rx"], dev_idx) - 1
    BY <1>a, <2>3, DistFacts, Sizes
  <2>5. Dist(seen'["rx"], dev_idx') <= nu("rx")'
    BY <1>a, <2>1, <2>2, <2>3, <2>4
  <2> QED
    BY <2>1, <2>5 DEF Handler
<1>9. CASE tx_entry
  <2>1. CASE seen["tx"] = dev_idx
    BY <1>9, <2>1, HandlerOut DEF tx_entry
  <2>2. CASE seen["tx"] # dev_idx
    <3>1. pc = "tx" /\ pc' = "tx" /\ dev_idx' = dev_idx
      BY <1>9, <2>2 DEF tx_entry, Serves
    <3>2. seen'["tx"] = Succ(seen["tx"]) /\ nu("tx")' = nu("tx") - 1
      BY <1>9, <2>2, TxEntryRing DEF UsedTaken
    <3>3. Dist(seen["tx"], dev_idx) <= nu("tx")
      BY <1>0, <3>1 DEF Handler
    <3>4. Dist(seen["tx"], dev_idx) \in Nat /\ Dist(Succ(seen["tx"]), dev_idx) = Dist(seen["tx"], dev_idx) - 1
      BY <1>a, <2>2, DistFacts, Sizes
    <3>5. Dist(seen'["tx"], dev_idx') <= nu("tx")'
      BY <1>a, <3>1, <3>2, <3>3, <3>4
    <3> QED
      BY <3>1, <3>5 DEF Handler
  <2> QED
    BY <2>1, <2>2
<1>10. CASE FrameArrives
  <2>1. UNCHANGED <<net, vring, seen, pc, dev_idx, entry, devinit, shadow>>
    BY <1>10 DEF FrameArrives, isrVars
  <2>2. RingsStay
    BY <2>1, RestsLeaveRings DEF Running
  <2> QED
    BY <1>1, <2>1, <2>2
<1>11. CASE Device
  <2>1. DriverRests /\ (EngineIdles \/ TxSends \/ RxReceives)
    BY <1>0, <1>11, EngineSteps
  <2>2. UNCHANGED <<seen, pc, dev_idx, entry, devinit, shadow>>
    BY <2>1 DEF DriverRests, isrVars
  <2>3. CASE EngineIdles
    <3>1. RingsStay
      BY <2>2, <2>3, RestsLeaveRings DEF EngineIdles, Running
    <3> QED
      BY <1>1, <2>2, <3>1
  <2>4. CASE TxSends
    <3>1. Completed("tx", UsedLen(req[slot[HeadOf("tx")]]))
      BY <2>1, <2>4, TxCompletesRing DEF TxCompletes
    <3>2. Untouched("rx") /\ nu("tx")' = nu("tx") + 1
      BY <3>1, Constants DEF Completed
    <3>3. nu("rx")' = nu("rx") /\ Id("rx", 0)' = Id("rx", 0) /\ NextEntry("rx")' = NextEntry("rx")
      BY <3>2, SameQueue, Constants
    <3> QED
      BY <2>2, <3>2, <3>3, HandlerKeeps
  <2>5. CASE RxReceives
    <3>1. PICK len : Completed("rx", len)
      BY <2>1, <2>5, RxCompletesRing DEF RxCompletes
    <3>2. Untouched("tx") /\ nu("rx")' = nu("rx") + 1 /\ na("rx") > 0
      BY <3>1, Constants DEF Completed
    <3>3. vring'["rx"].avail_idx = vring["rx"].avail_idx /\ vring'["rx"].avail = vring["rx"].avail
      BY <3>1 DEF Completed
    <3>4. NextEntry("rx")' = NextEntry("rx")
      BY <3>3 DEF NextEntry
    <3>5. na("rx") \in Nat
      BY <1>0, RingTypes, Constants
    <3>6. 0 \in 0 .. na("rx") + nu("rx") - 1
      BY <1>a, <3>2, <3>5
    <3>7. Id("rx", 0)' = Id("rx", 0)
      BY <3>1, <3>6 DEF Completed
    <3>8. nu("tx")' = nu("tx")
      BY <3>2, SameQueue, Constants
    <3> QED
      BY <2>2, <3>2, <3>4, <3>7, <3>8, HandlerKeeps
  <2> QED
    BY <2>1, <2>3, <2>4, <2>5
<1>12. CASE UNCHANGED drvVars
  <2>1. UNCHANGED <<net, vring, seen, pc, dev_idx, entry, devinit, shadow>>
    BY <1>12 DEF drvVars, netVars, isrVars
  <2>2. RingsStay
    BY <2>1, RestsLeaveRings DEF Running
  <2> QED
    BY <1>1, <2>1, <2>2
<1> QED
  BY <1>2, <1>3, <1>4, <1>5, <1>6, <1>7, <1>8, <1>9, <1>10, <1>11, <1>12, Constants DEF DrvNext, vnet_isr_handler

-----------------------------------------------------------------------------
(* Interrupts *)

InLoop(q) == IF q = "rx" THEN {"rx", "rx_post", "rx_push"} ELSE {"tx"}
SignalledFor(q) ==
    enabled(q) /\ seen[q] # vring[q].used_idx =>
        net.isr \/ pc \in WillRead[q] \/ (pc \in InLoop(q) /\ dev_idx = vring[q].used_idx)

LEMMA SignalledParts ==
    /\ Signalled <=> SignalledFor("rx") /\ SignalledFor("tx")
    /\ Signalled' <=> SignalledFor("rx")' /\ SignalledFor("tx")'
    /\ WillRead["rx"] = {"rx_idx"} /\ WillRead["tx"] = {"rx_idx", "rx", "rx_post", "rx_push", "tx_idx"}
    /\ InLoop("rx") = {"rx", "rx_post", "rx_push"} /\ InLoop("tx") = {"tx"}
<1>1. WillRead["rx"] = {"rx_idx"} /\ WillRead["tx"] = {"rx_idx", "rx", "rx_post", "rx_push", "tx_idx"}
  BY DEF WillRead
<1>2. InLoop("rx") = {"rx", "rx_post", "rx_push"} /\ InLoop("tx") = {"tx"}
  BY DEF InLoop
<1>3. Signalled <=> SignalledFor("rx") /\ SignalledFor("tx")
  BY DEF Signalled, SignalledFor, InLoop, Queues
<1>4. Signalled' <=> SignalledFor("rx")' /\ SignalledFor("tx")'
  BY DEF Signalled, SignalledFor, InLoop, Queues
<1> QED
  BY <1>1, <1>2, <1>3, <1>4

(* The handler stands still, and the bit is not cleared. *)
LEMMA SignalKept ==
    ASSUME NetInv, NEW q \in Queues, UNCHANGED <<pc, dev_idx>>, net.isr => net'.isr,
           enabled(q)' => enabled(q), seen'[q] = seen[q], vring'[q].used_idx = vring[q].used_idx
    PROVE  SignalledFor(q)'
<1>1. SignalledFor(q)
  BY SignalledParts DEF NetInv, Queues
<1> QED
  BY <1>1 DEF SignalledFor, InLoop

LEMMA SignalledStep ==
    ASSUME NetInv, [DrvNext]_drvVars
    PROVE  Signalled'
<1>0. Types /\ Phases /\ Registers /\ RxFlight /\ TxFlight /\ SignalledFor("rx") /\ SignalledFor("tx")
  BY SignalledParts DEF NetInv
<1>1. CASE RingsStay /\ UNCHANGED <<pc, dev_idx>> /\ net'.isr = net.isr
  <2>1. /\ seen'["rx"] = seen["rx"] /\ vring'["rx"].used_idx = vring["rx"].used_idx
        /\ seen'["tx"] = seen["tx"] /\ vring'["tx"].used_idx = vring["tx"].used_idx
        /\ enabled("rx")' = enabled("rx") /\ enabled("tx")' = enabled("tx")
    BY <1>1 DEF RingsStay, enabled
  <2> QED
    BY <1>1, <2>1, SignalKept, SignalledParts, Constants
<1>2. CASE DevInit
  <2>a. UNCHANGED <<pc, dev_idx>>
    BY <1>2 DEF DevInit, negotiate, setup_queue, AllocFails, LoadFails, post_rx_buffer, add_int_server,
                driver_ok, set_ready, Loads, isrVars
  <2>1. CASE negotiate
    <3>1. enabled("rx")' = FALSE /\ enabled("tx")' = FALSE
      BY <2>1, NegotiateRing, ResetRegisters, Constants DEF enabled
    <3> QED
      BY <3>1, SignalledParts DEF SignalledFor
  <2>2. ASSUME NEW q \in Queues, NEW p \in Queues, p # q, SetUp(q) PROVE SignalledFor(q)' /\ SignalledFor(p)'
    <3>1. seen'[q] = vring'[q].used_idx /\ net'.isr = net.isr /\ Untouched(p)
      BY <2>2 DEF SetUp
    <3>2. SignalledFor(q)'
      BY <3>1 DEF SignalledFor
    <3>3. enabled(p)' = enabled(p) /\ seen'[p] = seen[p] /\ vring'[p].used_idx = vring[p].used_idx
      BY <3>1, SameQueue DEF Untouched
    <3> QED
      BY <2>a, <3>1, <3>2, <3>3, SignalKept
  <2>3. CASE SetsUpRx
    BY <2>2, <2>3, SetsUpRing, SignalledParts, Constants
  <2>4. CASE SetsUpTx
    BY <2>2, <2>4, SetsUpRing, SignalledParts, Constants
  <2>5. CASE post_rx_buffer
    <3>1. PostedNew("rx", shadow["rx"], RxDesc) /\ net' = net /\ seen' = seen
      BY <2>5, PostRing
    <3>2. vring'["rx"].used_idx = vring["rx"].used_idx /\ vring'["tx"].used_idx = vring["tx"].used_idx
      BY <3>1, Constants DEF PostedNew, Untouched
    <3>3. enabled("rx")' = enabled("rx") /\ enabled("tx")' = enabled("tx")
      BY <3>1 DEF enabled
    <3> QED
      BY <2>a, <3>1, <3>2, <3>3, SignalKept, SignalledParts, Constants
  <2>6. CASE AllocFails \/ driver_ok
    <3>1. PICK bits \in {{"FAILED"}, {"ACKNOWLEDGE", "DRIVER", "FEATURES_OK", "DRIVER_OK"}} :
             net' = write_device_status(net, bits)
      BY <2>6 DEF AllocFails, LoadFails, driver_ok
    <3>2. vring' = vring /\ seen' = seen
      BY <2>6 DEF AllocFails, LoadFails, driver_ok
    <3>3. bits \in SUBSET StatusBits /\ bits # {} /\ net \in NetType
      BY <1>0, <3>1 DEF StatusBits, Types, CardTypes
    <3>4. net'.isr = net.isr /\ net'.queue = net.queue
      BY <3>1, <3>3, WriteStatus
    <3>5. enabled("rx")' = enabled("rx") /\ enabled("tx")' = enabled("tx")
      BY <3>4 DEF enabled
    <3> QED
      BY <2>a, <3>2, <3>4, <3>5, SignalKept, SignalledParts, Constants
  <2>7. CASE add_int_server \/ set_ready
    <3>1. net' = net /\ vring' = vring /\ seen' = seen
      BY <2>7 DEF add_int_server, set_ready
    <3>2. enabled("rx")' = enabled("rx") /\ enabled("tx")' = enabled("tx")
      BY <3>1 DEF enabled
    <3> QED
      BY <2>a, <3>1, <3>2, SignalKept, SignalledParts, Constants
  <2> QED
    BY <1>2, <2>1, <2>3, <2>4, <2>5, <2>6, <2>7 DEF DevInit, SetsUpRx, SetsUpTx
<1>3. CASE Client \/ push_avail \/ FrameArrives \/ UNCHANGED drvVars
  <2>1. CallLeaves \/ SomePublish \/ push_avail \/ FrameArrives \/ UNCHANGED drvVars
    BY <1>3 DEF Client, VNetOpen, VNetClose, cmd_flush, cmd_configinterface, cmd_online, cmd_offline,
                Refused, cmd_read, queue_read, VNetAbortIO, cmd_write, copy_fails, SomePublish
  <2>2. UNCHANGED <<pc, dev_idx, seen, net>>
    BY <2>1 DEF CallLeaves, SomePublish, publish, push_avail, FrameArrives, isrVars, drvVars, netVars
  <2>3. vring'["rx"].used_idx = vring["rx"].used_idx /\ vring'["tx"].used_idx = vring["tx"].used_idx
    <3>1. CASE CallLeaves \/ FrameArrives \/ UNCHANGED drvVars
      BY <3>1 DEF CallLeaves, FrameArrives, drvVars, netVars
    <3>2. CASE SomePublish
      <4>1. PICK w \in Writes : publish(w)
        BY <3>2 DEF SomePublish
      <4> QED
        BY <4>1, PublishRing, Constants DEF EntryWritten, Untouched
    <3>3. CASE push_avail
      BY <3>3, PushRing, Constants DEF EntryPushed, Untouched
    <3> QED
      BY <2>1, <3>1, <3>2, <3>3
  <2>4. enabled("rx")' = enabled("rx") /\ enabled("tx")' = enabled("tx")
    BY <2>2 DEF enabled
  <2> QED
    BY <2>2, <2>3, <2>4, SignalKept, SignalledParts, Constants
<1>4. CASE vnet_isr_handler \/ TakeInt2
  <2>1. CASE TakeInt2 \/ ExitInt2
    <3>1. pc \in {"out", "exit"} /\ UNCHANGED <<net, vring, seen>>
      BY <2>1 DEF TakeInt2, ExitInt2, Serves
    <3> QED
      BY <1>0, <3>1, SignalledParts DEF SignalledFor, enabled
  <2>2. CASE read_isr_byte
    <3>1. pc = "isr" /\ pc' = (IF net.isr THEN "rx_idx" ELSE "exit") /\ UNCHANGED <<vring, seen>>
          /\ net' = read_isr(net)
      BY <2>2 DEF read_isr_byte, Serves
    <3>2. net'.queue = net.queue
      BY <1>0, <3>1, ReadIsr DEF Types, CardTypes
    <3>3. enabled("rx")' = enabled("rx") /\ enabled("tx")' = enabled("tx")
      BY <3>2 DEF enabled
    <3> QED
      BY <1>0, <3>1, <3>3, SignalledParts DEF SignalledFor
  <2>3. CASE read_used_idx("rx", "rx_idx", "rx")
    <3>1. pc' = "rx" /\ dev_idx' = vring["rx"].used_idx /\ UNCHANGED <<net, vring, seen>>
      BY <2>3 DEF read_used_idx
    <3> QED
      BY <3>1, SignalledParts DEF SignalledFor
  <2>4. CASE read_used_idx("tx", "tx_idx", "tx")
    <3>1. pc = "tx_idx" /\ pc' = "tx" /\ dev_idx' = vring["tx"].used_idx /\ UNCHANGED <<net, vring, seen>>
      BY <2>4 DEF read_used_idx, Serves
    <3> QED
      BY <1>0, <3>1, SignalledParts DEF SignalledFor, enabled
  <2>5. CASE rx_entry
    <3>1. pc = "rx" /\ UNCHANGED <<net, vring, seen, dev_idx>> /\ (RxEnds \/ RxTakes)
      BY <2>5, RxEntryKinds
    <3>2. CASE RxEnds
      <4>1. pc' = "tx_idx" /\ seen["rx"] = dev_idx
        BY <3>2 DEF RxEnds
      <4> QED
        BY <1>0, <3>1, <4>1, SignalledParts DEF SignalledFor, enabled
    <3>3. CASE RxTakes
      <4>1. pc' = "rx_post"
        BY <3>3 DEF RxTakes
      <4> QED
        BY <1>0, <3>1, <4>1, SignalledParts DEF SignalledFor, enabled
    <3> QED
      BY <3>1, <3>2, <3>3
  <2>6. CASE rx_post
    <3>1. pc = "rx_post" /\ pc' = "rx_push" /\ UNCHANGED <<net, seen, dev_idx>>
      BY <2>6 DEF rx_post, Serves
    <3>2. vring'["rx"].used_idx = vring["rx"].used_idx
      BY <2>6, RxPostRing DEF EntryWritten
    <3> QED
      BY <1>0, <3>1, <3>2, SignalledParts DEF SignalledFor, enabled
  <2>7. CASE rx_push
    <3>1. pc = "rx_push" /\ pc' = "rx" /\ UNCHANGED <<net, dev_idx>>
      BY <2>7 DEF rx_push, Serves
    <3>2. vring'["rx"].used_idx = vring["rx"].used_idx /\ seen["rx"] # vring["rx"].used_idx
      BY <2>7, <3>1, RxPushRing, InHand DEF Reposted
    <3> QED
      BY <1>0, <3>1, <3>2, SignalledParts DEF SignalledFor, enabled
  <2>8. CASE tx_entry
    <3>1. pc = "tx" /\ UNCHANGED <<net, vring, dev_idx>>
      BY <2>8 DEF tx_entry, Serves
    <3>2. CASE seen["tx"] = dev_idx
      <4>1. pc' = "exit" /\ seen' = seen
        BY <2>8, <3>2 DEF tx_entry
      <4> QED
        BY <1>0, <3>1, <3>2, <4>1, SignalledParts DEF SignalledFor, enabled
    <3>3. CASE seen["tx"] # dev_idx
      <4>1. pc' = "tx"
        BY <2>8, <3>3 DEF tx_entry
      <4>2. UsedTaken("tx") /\ nu("tx") > 0
        BY <2>8, <3>3, TxEntryRing
      <4>3. seen'["rx"] = seen["rx"]
        BY <4>2, Constants DEF UsedTaken, Untouched
      <4>4. seen["tx"] # vring["tx"].used_idx
        <5>1. nu("tx") = 0 <=> seen["tx"] = vring["tx"].used_idx
          BY <1>0, RingTypes, Constants
        <5> QED
          BY <4>2, <5>1
      <4> QED
        BY <1>0, <3>1, <4>1, <4>3, <4>4, SignalledParts DEF SignalledFor, enabled
    <3> QED
      BY <3>2, <3>3
  <2> QED
    BY <1>4, <2>1, <2>2, <2>3, <2>4, <2>5, <2>6, <2>7, <2>8 DEF vnet_isr_handler
<1>5. CASE Device
  <2>1. DriverRests /\ (EngineIdles \/ TxSends \/ RxReceives)
    BY <1>0, <1>5, EngineSteps
  <2>2. CASE EngineIdles
    <3>1. UNCHANGED <<net, vring, seen, shadow, devinit, pc, dev_idx>>
      BY <2>1, <2>2 DEF DriverRests, EngineIdles, isrVars
    <3>2. RingsStay
      BY <3>1, RestsLeaveRings DEF Running
    <3> QED
      BY <1>1, <3>1, <3>2
  <2>3. CASE TxSends \/ RxReceives
    <3>1. net'.isr = TRUE
      BY <2>1, <2>3, TxCompletesRing, RxCompletesRing DEF TxCompletes, RxCompletes, Completed
    <3> QED
      BY <3>1, SignalledParts DEF SignalledFor
  <2> QED
    BY <2>1, <2>2, <2>3
<1> QED
  BY <1>2, <1>3, <1>4, <1>5 DEF DrvNext

-----------------------------------------------------------------------------
(* The frames *)

(* What is known of the used buffer k, and of the frames outside the ring. *)
BufferInOrder(k) ==
    /\ FrameAt(k) \in Frames /\ UsedAt("rx", k).len = HdrLen + FrameAt(k).len
    /\ FrameAt(k).id <= arrived
    /\ \A j \in 1 .. Len(inbox) : FrameAt(k).id < inbox[j].id
    /\ k >= FirstUnread => \A i \in 1 .. Len(delivered) : delivered[i].id < FrameAt(k).id
BeforeBuffer(k, l) == FrameAt(k).id < FrameAt(l).id
OutsideInOrder ==
    /\ Ascending(inbox) /\ Ascending(delivered)
    /\ \A j \in 1 .. Len(inbox) : inbox[j].id <= arrived
    /\ \A i \in 1 .. Len(delivered) :
          /\ delivered[i].id <= arrived /\ delivered[i].len > EthHdrLen
          /\ \A j \in 1 .. Len(inbox) : delivered[i].id < inbox[j].id

LEMMA FramesParts ==
    FramesInOrder <=>
        /\ OutsideInOrder
        /\ enabled("rx") => /\ \A k \in 0 .. nu("rx") - 1 : BufferInOrder(k)
                            /\ \A k, l \in 0 .. nu("rx") - 1 : k < l => BeforeBuffer(k, l)
BY Zenon DEF FramesInOrder, OutsideInOrder, BufferInOrder, BeforeBuffer

LEMMA FramesAfter ==
    ASSUME OutsideInOrder', NEW n, n = nu("rx")',
           \A k \in 0 .. n - 1 : BufferInOrder(k)',
           \A k, l \in 0 .. n - 1 : k < l => BeforeBuffer(k, l)'
    PROVE  FramesInOrder'
<1>1. (\A k \in 0 .. nu("rx") - 1 : BufferInOrder(k))'
  OBVIOUS
<1>2. (\A k, l \in 0 .. nu("rx") - 1 : k < l => BeforeBuffer(k, l))'
  OBVIOUS
<1>3. (FramesInOrder <=>
        /\ OutsideInOrder
        /\ enabled("rx") => /\ \A k \in 0 .. nu("rx") - 1 : BufferInOrder(k)
                            /\ \A k, l \in 0 .. nu("rx") - 1 : k < l => BeforeBuffer(k, l))'
  BY FramesParts, PTL
<1> QED
  BY <1>1, <1>2, <1>3, Zenon

LEMMA FramesOff ==
    ASSUME OutsideInOrder', ~enabled("rx")'
    PROVE  FramesInOrder'
<1>3. (FramesInOrder <=>
        /\ OutsideInOrder
        /\ enabled("rx") => /\ \A k \in 0 .. nu("rx") - 1 : BufferInOrder(k)
                            /\ \A k, l \in 0 .. nu("rx") - 1 : k < l => BeforeBuffer(k, l))'
  BY FramesParts, PTL
<1> QED
  BY <1>3, Zenon

FramesUnmoved == UNCHANGED <<rxbuf, inbox, delivered, arrived>>

(* The used buffers keep their numbers; what has been read of them may only grow. *)
LEMMA FramesKept ==
    ASSUME NetInv, FramesUnmoved, FirstUnread' >= FirstUnread, enabled("rx")' => enabled("rx"),
           nu("rx")' = nu("rx"),
           \A k \in 0 .. nu("rx") - 1 : Id("rx", k)' = Id("rx", k) /\ UsedAt("rx", k)' = UsedAt("rx", k)
    PROVE  FramesInOrder'
<1>0. Types /\ FramesInOrder
  BY Zenon DEF NetInv
<1>1. OutsideInOrder'
  <2>1. OutsideInOrder
    BY <1>0, FramesParts
  <2> QED
    BY <2>1 DEF OutsideInOrder, Ascending, FramesUnmoved
<1>2. CASE ~enabled("rx")'
  BY <1>1, <1>2, FramesOff
<1>3. CASE enabled("rx")'
  <2>1. /\ \A k \in 0 .. nu("rx") - 1 : BufferInOrder(k)
        /\ \A k, l \in 0 .. nu("rx") - 1 : k < l => BeforeBuffer(k, l)
    BY <1>0, <1>3, FramesParts
  <2>2. ASSUME NEW k \in 0 .. nu("rx") - 1 PROVE FrameAt(k)' = FrameAt(k)
    BY DEF FrameAt, FramesUnmoved
  <2>a. nu("rx") \in Nat
    BY <1>0, RingTypes, Constants
  <2>3. ASSUME NEW k \in 0 .. nu("rx") - 1 PROVE BufferInOrder(k)'
    <3>1. BufferInOrder(k)
      BY <2>1
    <3>2. k >= FirstUnread' => k >= FirstUnread
      BY <2>a DEF FirstUnread
    <3>3. /\ FrameAt(k)' = FrameAt(k) /\ UsedAt("rx", k)' = UsedAt("rx", k)
          /\ inbox' = inbox /\ delivered' = delivered /\ arrived' = arrived
      BY <2>2 DEF FramesUnmoved
    <3> QED
      BY <3>1, <3>2, <3>3 DEF BufferInOrder
  <2>4. ASSUME NEW k \in 0 .. nu("rx") - 1, NEW l \in 0 .. nu("rx") - 1, k < l PROVE BeforeBuffer(k, l)'
    BY <2>1, <2>2, <2>4 DEF BeforeBuffer
  <2>5. PICK n : n = nu("rx")
    OBVIOUS
  <2> QED
    BY <1>1, <2>3, <2>4, <2>5, FramesAfter
<1> QED
  BY <1>2, <1>3

LEMMA FramesRest ==
    ASSUME NetInv, FramesUnmoved, FirstUnread' >= FirstUnread, Untouched("rx")
    PROVE  FramesInOrder'
BY FramesKept, SameQueue, Constants

LEMMA AfterArrival ==
    ASSUME NetInv, FrameArrives
    PROVE  FramesInOrder'
<1>0. Types /\ FramesInOrder
  BY Zenon DEF NetInv
<1>1. /\ UNCHANGED <<net, vring, seen, rxbuf, delivered, pc>> /\ arrived' = arrived + 1
      /\ arrived < Len(Arrivals) /\ inbox' = Append(inbox, FrameOf(arrived + 1))
  BY DEF FrameArrives, FrameOf, isrVars
<1>2. /\ arrived \in Nat /\ inbox \in Seq(Frames) /\ delivered \in Seq(Deliveries)
  BY <1>0, Constants DEF Types, CardTypes, UnitTypes
<1>3. FrameOf(arrived + 1) \in Frames /\ FrameOf(arrived + 1).id = arrived + 1
  <2>1. arrived + 1 \in 1 .. Len(Arrivals)
    BY <1>1, <1>2, Constants
  <2> QED
    BY <2>1 DEF Frames, FrameOf
<1>4. /\ Len(inbox') = Len(inbox) + 1 /\ Len(inbox) \in Nat /\ inbox'[Len(inbox) + 1] = FrameOf(arrived + 1)
      /\ \A j \in 1 .. Len(inbox) : inbox'[j] = inbox[j]
  BY <1>1, <1>2, <1>3, AppendProperties
<1>5. \A j \in 1 .. Len(inbox') : j \in 1 .. Len(inbox) \/ j = Len(inbox) + 1
  BY <1>4
<1>6. OutsideInOrder
  BY <1>0, FramesParts
<1>7. \A j \in 1 .. Len(inbox) : inbox[j].id \in Nat
  BY <1>2, FrameFacts
<1>8. \A i \in 1 .. Len(delivered) : delivered[i].id \in Nat
  <2> TAKE i \in 1 .. Len(delivered)
  <2>1. delivered[i] \in Deliveries
    BY <1>2
  <2> QED
    BY <2>1, Constants DEF Deliveries
<1>9. OutsideInOrder'
  <2>1. Ascending(inbox)' 
    <3> SUFFICES ASSUME NEW i \in 1 .. Len(inbox'), NEW j \in 1 .. Len(inbox'), i < j
                 PROVE  inbox'[i].id < inbox'[j].id
      BY DEF Ascending
    <3>1. i \in 1 .. Len(inbox)
      BY <1>4
    <3>2. CASE j \in 1 .. Len(inbox)
      BY <1>4, <1>6, <3>1, <3>2 DEF OutsideInOrder, Ascending
    <3>3. CASE j = Len(inbox) + 1
      <4>1. inbox[i].id <= arrived /\ inbox[i].id \in Nat
        BY <1>6, <1>7, <3>1 DEF OutsideInOrder
      <4> QED
        BY <1>2, <1>3, <1>4, <3>1, <3>3, <4>1
    <3> QED
      BY <1>5, <3>2, <3>3
  <2>2. \A j \in 1 .. Len(inbox') : inbox'[j].id <= arrived'
    <3> TAKE j \in 1 .. Len(inbox')
    <3>1. CASE j \in 1 .. Len(inbox)
      <4>1. inbox[j].id <= arrived /\ inbox[j].id \in Nat
        BY <1>6, <1>7, <3>1 DEF OutsideInOrder
      <4> QED
        BY <1>1, <1>2, <1>4, <3>1, <4>1
    <3>2. CASE j = Len(inbox) + 1
      BY <1>1, <1>2, <1>3, <1>4, <3>2
    <3> QED
      BY <1>5, <3>1, <3>2
  <2>3. ASSUME NEW i \in 1 .. Len(delivered)
        PROVE  /\ delivered[i].id <= arrived' /\ delivered[i].len > EthHdrLen
               /\ \A j \in 1 .. Len(inbox') : delivered[i].id < inbox'[j].id
    <3>1. /\ delivered[i].id <= arrived /\ delivered[i].len > EthHdrLen /\ delivered[i].id \in Nat
          /\ \A j \in 1 .. Len(inbox) : delivered[i].id < inbox[j].id
      BY <1>6, <1>8 DEF OutsideInOrder
    <3>2. ASSUME NEW j \in 1 .. Len(inbox') PROVE delivered[i].id < inbox'[j].id
      <4>1. CASE j \in 1 .. Len(inbox)
        BY <1>4, <3>1, <4>1
      <4>2. CASE j = Len(inbox) + 1
        BY <1>2, <1>3, <1>4, <3>1, <4>2
      <4> QED
        BY <1>5, <4>1, <4>2
    <3>3. delivered[i].id <= arrived'
      BY <1>1, <1>2, <3>1
    <3> QED
      BY <3>1, <3>2, <3>3
  <2>4. Ascending(delivered)'
    BY <1>1, <1>6 DEF OutsideInOrder, Ascending
  <2> QED
    BY <1>1, <2>1, <2>2, <2>3, <2>4 DEF OutsideInOrder
<1>10. /\ enabled("rx")' = enabled("rx") /\ nu("rx")' = nu("rx") /\ FirstUnread' = FirstUnread
       /\ \A k : Id("rx", k)' = Id("rx", k) /\ UsedAt("rx", k)' = UsedAt("rx", k)
  BY <1>1, SameQueue, Constants DEF Untouched, FirstUnread
<1>11. CASE ~enabled("rx")
  BY <1>9, <1>10, <1>11, FramesOff
<1>12. CASE enabled("rx")
  <2>1. /\ \A k \in 0 .. nu("rx") - 1 : BufferInOrder(k)
        /\ \A k, l \in 0 .. nu("rx") - 1 : k < l => BeforeBuffer(k, l)
    BY <1>0, <1>12, FramesParts
  <2>2. \A k : FrameAt(k)' = FrameAt(k)
    BY <1>1, <1>10 DEF FrameAt
  <2>3. ASSUME NEW k \in 0 .. nu("rx") - 1 PROVE BufferInOrder(k)'
    <3>1. BufferInOrder(k)
      BY <2>1
    <3>2. FrameAt(k) \in Frames /\ FrameAt(k).id <= arrived
      BY <3>1 DEF BufferInOrder
    <3>3. FrameAt(k).id \in Nat
      BY <3>2, FrameFacts
    <3>4. FrameAt(k).id <= arrived' /\ FrameAt(k).id < arrived + 1
      BY <1>1, <1>2, <3>2, <3>3
    <3>5. ASSUME NEW j \in 1 .. Len(inbox') PROVE FrameAt(k).id < inbox'[j].id
      <4>1. CASE j \in 1 .. Len(inbox)
        BY <1>4, <3>1, <4>1 DEF BufferInOrder
      <4>2. CASE j = Len(inbox) + 1
        BY <1>3, <1>4, <3>4, <4>2
      <4> QED
        BY <1>5, <4>1, <4>2
    <3> QED
      BY <1>1, <1>10, <2>2, <3>1, <3>4, <3>5 DEF BufferInOrder
  <2>4. ASSUME NEW k \in 0 .. nu("rx") - 1, NEW l \in 0 .. nu("rx") - 1, k < l PROVE BeforeBuffer(k, l)'
    BY <2>1, <2>2, <2>4 DEF BeforeBuffer
  <2>5. PICK n : n = nu("rx")
    OBVIOUS
  <2> QED
    BY <1>9, <1>10, <2>3, <2>4, <2>5, FramesAfter
<1> QED
  BY <1>11, <1>12

LEMMA AfterReceive ==
    ASSUME NetInv, RxCompletes
    PROVE  FramesInOrder'
<1>0. Types /\ Phases /\ Registers /\ RxFlight /\ TxFlight /\ FramesInOrder
  BY Zenon DEF NetInv
<1> DEFINE f == Head(inbox)
           len == HdrLen + f.len
<1>1. f \in Frames /\ Completed("rx", len) /\ enabled("rx") /\ la("rx") # vring["rx"].avail_idx
  BY RxCompletesRing
<1>2. /\ inbox # <<>> /\ inbox' = Tail(inbox) /\ rxbuf' = [rxbuf EXCEPT ![HeadOf("rx")] = f]
      /\ UNCHANGED <<arrived, delivered, pc, seen>>
  BY DEF RxCompletes, RxReceives, DriverRests, isrVars
<1>3. inbox \in Seq(Frames) /\ rxbuf \in [Entries -> Frames \cup {NoData}]
  BY <1>0 DEF Types, CardTypes
<1>4. /\ Len(inbox) \in Nat /\ Len(inbox') = Len(inbox) - 1 /\ 1 \in 1 .. Len(inbox) /\ f = inbox[1]
      /\ \A j \in 1 .. Len(inbox') : inbox'[j] = inbox[j + 1] /\ j + 1 \in 1 .. Len(inbox) /\ 1 < j + 1
  <2>1. Len(inbox) \in Nat /\ Len(inbox) > 0 /\ f = inbox[1]
    BY <1>2, <1>3
  <2>2. Len(inbox') = Len(inbox) - 1 /\ \A j \in 1 .. Len(inbox') : inbox'[j] = inbox[j + 1]
    BY <1>2, <1>3, HeadTailProperties
  <2> QED
    BY <2>1, <2>2
<1>5. OutsideInOrder
  BY <1>0, FramesParts
<1>6. OutsideInOrder'
  <2>1. Ascending(inbox)'
    <3> SUFFICES ASSUME NEW i \in 1 .. Len(inbox'), NEW j \in 1 .. Len(inbox'), i < j
                 PROVE  inbox'[i].id < inbox'[j].id
      BY DEF Ascending
    <3>1. i + 1 < j + 1
      BY <1>4
    <3> QED
      BY <1>4, <1>5, <3>1 DEF OutsideInOrder, Ascending
  <2>2. \A j \in 1 .. Len(inbox') : inbox'[j].id <= arrived'
    BY <1>2, <1>4, <1>5 DEF OutsideInOrder
  <2>3. Ascending(delivered)'
    BY <1>2, <1>5 DEF OutsideInOrder, Ascending
  <2>4. \A i \in 1 .. Len(delivered') :
          /\ delivered'[i].id <= arrived' /\ delivered'[i].len > EthHdrLen
          /\ \A j \in 1 .. Len(inbox') : delivered'[i].id < inbox'[j].id
    BY <1>2, <1>4, <1>5 DEF OutsideInOrder
  <2> QED
    BY <2>1, <2>2, <2>3, <2>4 DEF OutsideInOrder
<1>7. PICK n : n = nu("rx")
  OBVIOUS
<1>8. n \in Nat /\ na("rx") \in Nat /\ na("rx") > 0 /\ nu("rx")' = n + 1
  BY <1>0, <1>1, <1>7, RingTypes, Constants DEF Completed
<1>9. HeadOf("rx") \in Slots /\ HeadOf("rx") = Id("rx", n)
      /\ \A k \in 0 .. n - 1 : Id("rx", k) # HeadOf("rx") /\ Id("rx", k) \in Slots
  <2>1. HeadOf("rx") = Id("rx", nu("rx"))
    BY <1>0, <1>1, QueueInUse, Constants
  <2>2. na("rx") + nu("rx") = Posted
        /\ (\A k \in 0 .. Posted - 1 : Id("rx", k) \in 0 .. Posted - 1)
        /\ \A k, l \in 0 .. Posted - 1 : Id("rx", k) = Id("rx", l) => k = l
    BY <1>0, <1>1, Zenon DEF RxFlight
  <2>3. PICK p : p = Posted
    OBVIOUS
  <2>4. p \in Nat /\ n < p
    BY <1>7, <1>8, <2>2, <2>3
  <2>5. n \in 0 .. p - 1 /\ \A k \in 0 .. n - 1 : k \in 0 .. p - 1 /\ k # n
    BY <1>8, <2>4
  <2>6. p <= qsize
    <3>1. CASE Running
      BY <3>1, <2>3, Sizes DEF Posted
    <3>2. CASE ~Running
      <4>1. shadow["rx"] < qsize /\ p = shadow["rx"] /\ shadow["rx"] \in Nat
        BY <1>0, <1>1, <2>3, <2>4, <3>2 DEF RxFlight, Posted
      <4> QED
        BY <4>1, Sizes
    <3> QED
      BY <3>1, <3>2
  <2>7. 0 .. p - 1 \subseteq Slots
    BY <2>4, <2>6, Sizes DEF Slots
  <2>8. \A k \in 0 .. p - 1 : Id("rx", k) \in Slots
    BY <2>2, <2>3, <2>7
  <2>9. \A k \in 0 .. n - 1 : Id("rx", k) # Id("rx", n)
    BY <2>2, <2>3, <2>5
  <2> QED
    BY <1>7, <2>1, <2>5, <2>8, <2>9
<1>10. /\ \A k \in 0 .. n : Id("rx", k)' = Id("rx", k)
       /\ \A k \in 0 .. n - 1 : UsedAt("rx", k)' = UsedAt("rx", k)
       /\ UsedAt("rx", n)'.len = len
  <2>1. \A k \in 0 .. na("rx") + nu("rx") - 1 : Id("rx", k)' = Id("rx", k)
    BY <1>1, Zenon DEF Completed
  <2>2. \A k \in 0 .. n : k \in 0 .. na("rx") + nu("rx") - 1
    BY <1>7, <1>8
  <2>3. \A k \in 0 .. nu("rx") - 1 : UsedAt("rx", k)' = UsedAt("rx", k)
    BY <1>1, Zenon DEF Completed
  <2>4. vring'["rx"].used[Pos(seen["rx"], nu("rx"))] = [id |-> HeadOf("rx"), len |-> len]
    BY <1>1, Zenon DEF Completed
  <2>5. UsedAt("rx", n)' = vring'["rx"].used[Pos(seen["rx"], nu("rx"))]
    BY <1>2, <1>7 DEF UsedAt
  <2> QED
    BY <1>7, <2>1, <2>2, <2>3, <2>4, <2>5
<1>11. FrameAt(n)' = f /\ \A k \in 0 .. n - 1 : FrameAt(k)' = FrameAt(k)
  <2>1. rxbuf'[HeadOf("rx")] = f /\ \A i \in Slots : i # HeadOf("rx") => rxbuf'[i] = rxbuf[i]
    BY <1>2, <1>3, <1>9, Constants
  <2>2. n \in 0 .. n /\ \A k \in 0 .. n - 1 : k \in 0 .. n
    BY <1>8
  <2>3. FrameAt(n)' = f
    BY <1>9, <1>10, <2>1, <2>2 DEF FrameAt
  <2>4. ASSUME NEW k \in 0 .. n - 1 PROVE FrameAt(k)' = FrameAt(k)
    <3>1. PICK i \in Slots : i = Id("rx", k)
      BY <1>9
    <3>2. i # HeadOf("rx") /\ Id("rx", k)' = i
      BY <1>9, <1>10, <2>2, <3>1
    <3> QED
      BY <2>1, <3>1, <3>2 DEF FrameAt
  <2> QED
    BY <2>3, <2>4
<1>12. /\ \A k \in 0 .. n - 1 : BufferInOrder(k)
       /\ \A k, l \in 0 .. n - 1 : k < l => BeforeBuffer(k, l)
  BY <1>0, <1>1, <1>7, FramesParts
<1>a. FirstUnread' = FirstUnread
  BY <1>2 DEF FirstUnread
<1> HIDE DEF f, len
<1>13. ASSUME NEW k \in 0 .. n - 1 PROVE BufferInOrder(k)' /\ BeforeBuffer(k, n)'
  <2>1. BufferInOrder(k) /\ FrameAt(k)' = FrameAt(k) /\ UsedAt("rx", k)' = UsedAt("rx", k)
    BY <1>10, <1>11, <1>12
  <2>2. \A j \in 1 .. Len(inbox') : FrameAt(k).id < inbox'[j].id
    BY <1>4, <2>1 DEF BufferInOrder
  <2>3. FrameAt(k).id < f.id
    BY <1>4, <2>1 DEF BufferInOrder
  <2> QED
    BY <1>2, <1>11, <1>a, <2>1, <2>2, <2>3 DEF BufferInOrder, BeforeBuffer
<1>14. BufferInOrder(n)'
  <2>1. f.id <= arrived
    BY <1>4, <1>5 DEF OutsideInOrder
  <2>2. \A j \in 1 .. Len(inbox') : f.id < inbox'[j].id
    BY <1>4, <1>5 DEF OutsideInOrder, Ascending
  <2>3. \A i \in 1 .. Len(delivered) : delivered[i].id < f.id
    BY <1>4, <1>5 DEF OutsideInOrder
  <2>4. UsedAt("rx", n)'.len = HdrLen + f.len
    BY <1>10 DEF len
  <2> QED
    BY <1>1, <1>2, <1>11, <2>1, <2>2, <2>3, <2>4 DEF BufferInOrder
<1>15. \A k \in 0 .. (n + 1) - 1 : k \in 0 .. n - 1 \/ k = n
  BY <1>8
<1>16. \A k \in 0 .. (n + 1) - 1 : BufferInOrder(k)'
  BY <1>13, <1>14, <1>15
<1>17. ASSUME NEW k \in 0 .. (n + 1) - 1, NEW l \in 0 .. (n + 1) - 1, k < l PROVE BeforeBuffer(k, l)'
  <2>1. k \in 0 .. n - 1
    BY <1>8, <1>17
  <2>2. CASE l \in 0 .. n - 1
    BY <1>11, <1>12, <1>17, <2>1, <2>2 DEF BeforeBuffer
  <2>3. CASE l = n
    BY <1>13, <2>1, <2>3
  <2> QED
    BY <1>15, <2>2, <2>3
<1> QED
  BY <1>6, <1>8, <1>16, <1>17, FramesAfter

LEMMA AfterTake ==
    ASSUME NetInv, rx_entry
    PROVE  FramesInOrder'
<1>0. Types /\ FramesInOrder
  BY Zenon DEF NetInv
<1>1. /\ UNCHANGED <<net, vring, seen, rxbuf, inbox, arrived>> /\ (RxEnds \/ RxTakes)
      /\ pc = "rx" /\ enabled("rx")
  BY RxEntryKinds
<1>2. FirstUnread = 0 /\ FirstUnread' \in {0, 1} /\ (RxTakes => FirstUnread' = 1)
  BY <1>1 DEF FirstUnread, RxTakes
<1>3. Untouched("rx")
  BY <1>1 DEF Untouched
<1>4. CASE delivered' = delivered
  BY <1>1, <1>2, <1>3, <1>4, FramesRest DEF FramesUnmoved
<1>5. CASE RxTakes /\ RxGives
  <2> DEFINE last == DeliveredTo(Reader, FrameAt(0))
  <2>1. /\ delivered' = Append(delivered, last) /\ FrameAt(0).len > EthHdrLen
        /\ 0 \in 0 .. nu("rx") - 1 /\ FrameAt(0) \in Frames /\ FirstUnread' = 1 /\ pending # <<>>
    BY <1>2, <1>5 DEF RxTakes, RxGives
  <2>2. /\ delivered \in Seq(Deliveries) /\ inbox \in Seq(Frames) /\ nu("rx") \in Nat
        /\ last \in Deliveries
    BY <1>0, <2>1, RingTypes, DeliveredTyped, Constants DEF Types, CardTypes, UnitTypes
  <2>a. last.id = FrameAt(0).id /\ last.len = FrameAt(0).len
    BY DEF DeliveredTo
  <2> HIDE DEF last
  <2>3. /\ Len(delivered') = Len(delivered) + 1 /\ Len(delivered) \in Nat
        /\ delivered'[Len(delivered) + 1].id = FrameAt(0).id
        /\ delivered'[Len(delivered) + 1].len = FrameAt(0).len
        /\ \A i \in 1 .. Len(delivered) : delivered'[i] = delivered[i]
    BY <2>1, <2>2, <2>a, AppendProperties
  <2>4. \A i \in 1 .. Len(delivered') : i \in 1 .. Len(delivered) \/ i = Len(delivered) + 1
    BY <2>3
  <2>5. /\ \A k \in 0 .. nu("rx") - 1 : BufferInOrder(k)
        /\ \A k, l \in 0 .. nu("rx") - 1 : k < l => BeforeBuffer(k, l)
        /\ OutsideInOrder
    BY <1>0, <1>1, FramesParts
  <2>6. /\ FrameAt(0).id <= arrived /\ \A j \in 1 .. Len(inbox) : FrameAt(0).id < inbox[j].id
        /\ \A i \in 1 .. Len(delivered) : delivered[i].id < FrameAt(0).id
    BY <1>2, <2>1, <2>5 DEF BufferInOrder
  <2>7. Ascending(delivered)'
    <3> SUFFICES ASSUME NEW i \in 1 .. Len(delivered'), NEW j \in 1 .. Len(delivered'), i < j
                 PROVE  delivered'[i].id < delivered'[j].id
      BY DEF Ascending
    <3>1. i \in 1 .. Len(delivered)
      BY <2>3
    <3>2. CASE j \in 1 .. Len(delivered)
      BY <2>3, <2>5, <3>1, <3>2 DEF OutsideInOrder, Ascending
    <3>3. CASE j = Len(delivered) + 1
      BY <2>3, <2>6, <3>1, <3>3
    <3> QED
      BY <2>4, <3>2, <3>3
  <2>8. ASSUME NEW i \in 1 .. Len(delivered')
        PROVE  /\ delivered'[i].id <= arrived /\ delivered'[i].len > EthHdrLen
               /\ \A j \in 1 .. Len(inbox) : delivered'[i].id < inbox[j].id
    <3>1. CASE i \in 1 .. Len(delivered)
      BY <2>3, <2>5, <3>1 DEF OutsideInOrder
    <3>2. CASE i = Len(delivered) + 1
      BY <2>1, <2>3, <2>6, <3>2
    <3> QED
      BY <2>4, <3>1, <3>2
  <2>9. OutsideInOrder'
    <3>1. Ascending(inbox)' /\ \A j \in 1 .. Len(inbox) : inbox[j].id <= arrived
      BY <1>1, <2>5 DEF OutsideInOrder, Ascending
    <3> QED
      BY <1>1, <2>7, <2>8, <3>1 DEF OutsideInOrder
  <2>10. nu("rx")' = nu("rx") /\ \A k : Id("rx", k)' = Id("rx", k) /\ UsedAt("rx", k)' = UsedAt("rx", k)
    BY <1>3, SameQueue, Constants
  <2>11. \A k : FrameAt(k)' = FrameAt(k)
    BY <1>1, <2>10 DEF FrameAt
  <2>12. ASSUME NEW k \in 0 .. nu("rx") - 1 PROVE BufferInOrder(k)'
    <3>1. BufferInOrder(k)
      BY <2>5
    <3>2. ASSUME k >= 1 PROVE \A i \in 1 .. Len(delivered') : delivered'[i].id < FrameAt(k).id
      <4> TAKE i \in 1 .. Len(delivered')
      <4>1. CASE i \in 1 .. Len(delivered)
        <5>1. k >= FirstUnread
          BY <1>2, <3>2
        <5> QED
          BY <2>3, <3>1, <4>1, <5>1 DEF BufferInOrder
      <4>2. CASE i = Len(delivered) + 1
        <5>1. 0 < k
          BY <3>2
        <5> QED
          BY <2>1, <2>3, <2>5, <4>2, <5>1 DEF BeforeBuffer
      <4> QED
        BY <2>4, <4>1, <4>2
    <3> QED
      BY <1>1, <2>1, <2>10, <2>11, <3>1, <3>2 DEF BufferInOrder
  <2>13. ASSUME NEW k \in 0 .. nu("rx") - 1, NEW l \in 0 .. nu("rx") - 1, k < l PROVE BeforeBuffer(k, l)'
    BY <2>5, <2>11, <2>13 DEF BeforeBuffer
  <2>14. PICK n : n = nu("rx")
    OBVIOUS
  <2> QED
    BY <2>9, <2>10, <2>12, <2>13, <2>14, FramesAfter
<1> QED
  BY <1>1, <1>4, <1>5 DEF RxEnds, RxTakes, RxLeaves, RxDrops

LEMMA AfterRepost ==
    ASSUME NetInv, rx_push
    PROVE  FramesInOrder'
<1>0. Types /\ FramesInOrder
  BY Zenon DEF NetInv
<1>1. pc = "rx_push" /\ pc' = "rx" /\ UNCHANGED <<rxbuf, inbox, delivered, arrived>>
  BY DEF rx_push, Serves
<1>2. FirstUnread = 1 /\ FirstUnread' = 0
  BY <1>1 DEF FirstUnread
<1>3. Reposted("rx") /\ net' = net
  BY RxPushRing
<1>4. enabled("rx") /\ nu("rx") > 0 /\ nu("rx") \in Nat
  BY <1>0, <1>1, InHand, RingTypes, Constants
<1>5. PICK n : n = nu("rx") - 1
  OBVIOUS
<1>6. /\ n \in Nat /\ nu("rx")' = n
      /\ \A k \in 0 .. n - 1 : k \in Nat /\ k + 1 \in 0 .. nu("rx") - 1 /\ k + 1 >= 1
  BY <1>3, <1>4, <1>5 DEF Reposted
<1>7. \A k \in Nat : Id("rx", k)' = Id("rx", k + 1) /\ UsedAt("rx", k)' = UsedAt("rx", k + 1)
  BY <1>3, Zenon DEF Reposted
<1>8. ASSUME NEW k \in Nat PROVE FrameAt(k)' = FrameAt(k + 1)
  BY <1>1, <1>7 DEF FrameAt
<1>9. /\ \A k \in 0 .. nu("rx") - 1 : BufferInOrder(k)
      /\ \A k, l \in 0 .. nu("rx") - 1 : k < l => BeforeBuffer(k, l)
      /\ OutsideInOrder
  BY <1>0, <1>4, FramesParts
<1>10. OutsideInOrder'
  BY <1>1, <1>9 DEF OutsideInOrder, Ascending
<1>11. ASSUME NEW k \in 0 .. n - 1 PROVE BufferInOrder(k)'
  <2>1. k \in Nat /\ k + 1 \in 0 .. nu("rx") - 1 /\ k + 1 >= FirstUnread
    BY <1>2, <1>6
  <2>2. PICK m : m = k + 1
    OBVIOUS
  <2>3. BufferInOrder(m) /\ m >= FirstUnread
    BY <1>9, <2>1, <2>2
  <2>4. FrameAt(k)' = FrameAt(m) /\ UsedAt("rx", k)' = UsedAt("rx", m)
    BY <1>7, <1>8, <2>1, <2>2
  <2> QED
    BY <1>1, <2>3, <2>4 DEF BufferInOrder
<1>12. ASSUME NEW k \in 0 .. n - 1, NEW l \in 0 .. n - 1, k < l PROVE BeforeBuffer(k, l)'
  <2>1. /\ k \in Nat /\ l \in Nat /\ k + 1 \in 0 .. nu("rx") - 1 /\ l + 1 \in 0 .. nu("rx") - 1
        /\ k + 1 < l + 1
    BY <1>6, <1>12
  <2>2. FrameAt(k + 1).id < FrameAt(l + 1).id
    BY <1>9, <2>1 DEF BeforeBuffer
  <2>3. FrameAt(k)' = FrameAt(k + 1) /\ FrameAt(l)' = FrameAt(l + 1)
    BY <1>8, <2>1
  <2> QED
    BY <2>2, <2>3 DEF BeforeBuffer
<1> QED
  BY <1>6, <1>10, <1>11, <1>12, FramesAfter

LEMMA FrameKinds ==
    ASSUME NetInv, [DrvNext]_drvVars
    PROVE  \/ FrameArrives \/ RxCompletes \/ rx_entry \/ rx_push
           \/ FramesUnmoved /\ FirstUnread' >= FirstUnread
<1>0. Types /\ Phases /\ Registers /\ RxFlight /\ TxFlight
  BY Zenon DEF NetInv
<1>s. ASSUME UNCHANGED pc PROVE FirstUnread' >= FirstUnread
  BY <1>s DEF FirstUnread
<1>1. CASE UNCHANGED drvVars
  BY <1>1, <1>s DEF drvVars, netVars, isrVars, FramesUnmoved
<1>2. CASE DevInit
  <2>1. UNCHANGED <<pc, rxbuf, inbox, delivered, arrived>>
    BY <1>2 DEF DevInit, negotiate, setup_queue, AllocFails, LoadFails, post_rx_buffer, add_int_server,
                driver_ok, set_ready, Loads, isrVars
  <2> QED
    BY <1>s, <2>1 DEF FramesUnmoved
<1>3. CASE Client
  <2>1. CallLeaves \/ SomePublish
    BY <1>3 DEF Client, VNetOpen, VNetClose, cmd_flush, cmd_configinterface, cmd_online, cmd_offline,
                Refused, cmd_read, queue_read, VNetAbortIO, cmd_write, copy_fails, SomePublish
  <2>2. UNCHANGED <<pc, rxbuf, inbox, delivered, arrived>>
    BY <2>1 DEF CallLeaves, SomePublish, publish, netVars, isrVars
  <2> QED
    BY <1>s, <2>2 DEF FramesUnmoved
<1>4. CASE push_avail
  <2>1. UNCHANGED <<pc, rxbuf, inbox, delivered, arrived>>
    BY <1>4 DEF push_avail, isrVars
  <2> QED
    BY <1>s, <2>1 DEF FramesUnmoved
<1>5. CASE TakeInt2 \/ ExitInt2 \/ read_isr_byte \/ tx_entry
           \/ read_used_idx("rx", "rx_idx", "rx") \/ read_used_idx("tx", "tx_idx", "tx")
  <2>1. FramesUnmoved /\ pc \in {"out", "exit", "isr", "tx", "rx_idx", "tx_idx"}
    BY <1>5 DEF TakeInt2, ExitInt2, read_isr_byte, tx_entry, read_used_idx, Serves, FramesUnmoved
  <2>2. FirstUnread = 0 /\ FirstUnread' \in {0, 1}
    BY <2>1 DEF FirstUnread
  <2> QED
    BY <2>1, <2>2
<1>6. CASE rx_post
  <2>1. FramesUnmoved /\ pc = "rx_post" /\ pc' = "rx_push"
    BY <1>6 DEF rx_post, Serves, FramesUnmoved
  <2> QED
    BY <2>1 DEF FirstUnread
<1>7. CASE Device
  <2>1. DriverRests /\ (EngineIdles \/ TxSends \/ RxReceives)
    BY <1>0, <1>7, EngineSteps
  <2>2. UNCHANGED <<pc, delivered, arrived>>
    BY <2>1 DEF DriverRests, isrVars
  <2>3. CASE EngineIdles \/ TxSends
    BY <1>s, <2>2, <2>3 DEF EngineIdles, TxSends, FramesUnmoved
  <2> QED
    BY <2>1, <2>3 DEF RxCompletes
<1> QED
  BY <1>1, <1>2, <1>3, <1>4, <1>5, <1>6, <1>7 DEF DrvNext, vnet_isr_handler

LEMMA FramesStep ==
    ASSUME NetInv, [DrvNext]_drvVars
    PROVE  FramesInOrder'
<1>0. Types /\ FramesInOrder
  BY Zenon DEF NetInv
<1>1. CASE FrameArrives
  BY <1>1, AfterArrival
<1>2. CASE RxCompletes
  BY <1>2, AfterReceive
<1>3. CASE rx_entry
  BY <1>3, AfterTake
<1>4. CASE rx_push
  BY <1>4, AfterRepost
<1>5. CASE FramesUnmoved /\ FirstUnread' >= FirstUnread
  <2>0. Untouched("rx") => FramesInOrder'
    BY <1>5, FramesRest
  <2>a. OutsideInOrder'
    <3>1. OutsideInOrder
      BY <1>0, FramesParts
    <3> QED
      BY <1>5, <3>1 DEF OutsideInOrder, Ascending, FramesUnmoved
  <2>n. na("rx") \in Nat /\ nu("rx") \in Nat
    BY <1>0, RingTypes, Constants
  <2>b. \A k \in 0 .. nu("rx") - 1 : k \in 0 .. na("rx") + nu("rx") - 1
    BY <2>n
  <2>1. CASE RingsStay
    BY <2>0, <2>1, RestUntouched, Constants
  <2>2. CASE rx_post
    <3>1. EntryWritten("rx", entry, RxDesc) /\ net' = net
      BY <2>2, RxPostRing
    <3>2. /\ nu("rx")' = nu("rx") /\ \A k : UsedAt("rx", k)' = UsedAt("rx", k)
          /\ \A k \in 0 .. na("rx") + nu("rx") - 1 : Id("rx", k)' = Id("rx", k)
      BY <3>1, Zenon DEF EntryWritten
    <3>3. enabled("rx")' = enabled("rx")
      BY <3>1 DEF enabled
    <3> QED
      BY <1>5, <2>b, <3>2, <3>3, FramesKept
  <2>3. CASE SomePublish
    BY <2>0, <2>3, PublishRing, Constants DEF EntryWritten, SomePublish
  <2>4. CASE push_avail
    BY <2>0, <2>4, PushRing, Constants DEF EntryPushed
  <2>5. CASE TxAnswers
    BY <2>0, <2>5, TxEntryRing, Constants DEF UsedTaken, TxAnswers
  <2>6. CASE TxCompletes
    BY <2>0, <2>6, TxCompletesRing, Constants DEF Completed
  <2>7. CASE negotiate
    <3>1. enabled("rx")' = FALSE
      BY <2>7, NegotiateRing, ResetRegisters, Constants DEF enabled
    <3> QED
      BY <2>a, <3>1, FramesOff
  <2>8. CASE SetsUpRx
    <3>1. nu("rx")' = 0
      BY <2>8, SetsUpRing DEF SetUp
    <3>2. PICK n : n = 0
      OBVIOUS
    <3>3. 0 .. n - 1 = {}
      BY <3>2
    <3> QED
      BY <2>a, <3>1, <3>2, <3>3, FramesAfter
  <2>9. CASE SetsUpTx
    BY <2>0, <2>9, SetsUpRing, Constants DEF SetUp
  <2>10. CASE post_rx_buffer
    <3>1. PostedNew("rx", shadow["rx"], RxDesc) /\ net' = net
      BY <2>10, PostRing
    <3>2. /\ nu("rx")' = nu("rx") /\ \A k : UsedAt("rx", k)' = UsedAt("rx", k)
          /\ \A k \in 0 .. na("rx") + nu("rx") - 1 : Id("rx", k)' = Id("rx", k)
      BY <3>1, Zenon DEF PostedNew
    <3>3. enabled("rx")' = enabled("rx")
      BY <3>1 DEF enabled
    <3> QED
      BY <1>5, <2>b, <3>2, <3>3, FramesKept
  <2> QED
    BY <1>2, <1>4, <2>1, <2>2, <2>3, <2>4, <2>5, <2>6, <2>7, <2>8, <2>9, <2>10, Kinds
<1> QED
  BY <1>1, <1>2, <1>3, <1>4, <1>5, FrameKinds

-----------------------------------------------------------------------------
(* What the reads were given *)

(* How a read's request moves, when no frame is given to a reader. *)
ReadMoves(r) ==
    \/ /\ req'[r].issue = req[r].issue /\ req'[r].result = req[r].result
       /\ req'[r].state # "done" => req[r].state # "done"
    \/ /\ req'[r].issue = req[r].issue /\ req'[r].result = "error" /\ req'[r].state = "done"
       /\ req[r].state # "done"
    \/ /\ req'[r].issue = req[r].issue + 1 /\ req'[r].result \in {"none", "error"}
       /\ req'[r].state # "done" => req'[r].result = "none"
NothingGiven == delivered' = delivered /\ \A r \in Reads : ReadMoves(r)
Gives == rx_entry /\ RxTakes /\ RxGives

LEMMA WaitingReads ==
    ASSUME NetInv
    PROVE  /\ \A r \in Reads : r \in ToSet(pending) <=> req[r].state = "pending"
           /\ pending # <<>> => Reader \in Reads /\ req[Reader].state = "pending"
<1>1. Types /\ PendingReads
  BY Zenon DEF NetInv
<1>2. pending \in Seq(Reads)
  BY <1>1, ReqTypes
<1>3. \A r : r \in ToSet(pending) <=> \E i \in 1 .. Len(pending) : pending[i] = r
  BY <1>2 DEF ToSet
<1>4. \A r \in Reads : r \in ToSet(pending) <=> req[r].state = "pending"
  BY <1>1, <1>3 DEF PendingReads
<1>5. pending # <<>> => Reader \in Reads /\ Reader = pending[1] /\ 1 \in 1 .. Len(pending)
  BY <1>2, HeadTailProperties DEF Reader
<1> QED
  BY <1>3, <1>4, <1>5

LEMMA OthersStay ==
    ASSUME Types, NEW w \in Reqs,
           Refused(w) \/ (w \in Writes /\ (cmd_write(w) \/ copy_fails(w) \/ publish(w)))
    PROVE  \A t \in Reqs : t # w => req'[t] = req[t]
<1>1. \/ \E x : req' = [Issued(w) EXCEPT ![w].result = x]
      \/ \E s, n : req' = [Issued(w) EXCEPT ![w].state = s, ![w].len = n]
      \/ req' = Reply(w, "error") \/ req' = [req EXCEPT ![w].state = "sending"]
  BY DEF Refused, cmd_write, copy_fails, publish
<1> QED
  BY <1>1 DEF Issued, Reply, Types, UnitTypes

LEMMA ReadKinds ==
    ASSUME NetInv, [DrvNext]_drvVars
    PROVE  NothingGiven \/ Gives
<1>0. Types /\ Phases /\ SlotOwners
  BY Zenon DEF NetInv
<1>a. /\ \A r \in Reads : r \in Reqs /\ r \notin Writes
      /\ "checked" \in ReqStates /\ "pending" \in ReqStates /\ "done" \in ReqStates
      /\ "error" \in Results /\ "ok" \in Results /\ 0 \in Nat
  BY <1>0, ReqTypes DEF ReqStates, Results
<1>b. (\A r \in Reads : req'[r] = req[r]) => \A r \in Reads : ReadMoves(r)
  BY DEF ReadMoves
<1>c. ASSUME NEW r \in Reads, NEW s, NEW n, NEW x, ReqBecomes(r, s, n, x), ReadMoves(r)
      PROVE  \A t \in Reads : ReadMoves(t)
  <2>1. \A t \in Reads : t # r => req'[t] = req[t]
    BY <1>a, <1>c DEF ReqBecomes
  <2> QED
    BY <1>c, <2>1 DEF ReadMoves
<1>1. CASE UNCHANGED drvVars
  BY <1>1, <1>b DEF drvVars, unitVars, NothingGiven
<1>2. CASE DevInit
  <2>1. req' = req /\ delivered' = delivered
    BY <1>2 DEF DevInit, negotiate, setup_queue, AllocFails, LoadFails, post_rx_buffer,
                add_int_server, driver_ok, set_ready, Loads, unitVars
  <2> QED
    BY <1>b, <2>1 DEF NothingGiven
<1>3. CASE VNetOpen \/ cmd_configinterface \/ cmd_online \/ cmd_offline
  <2>1. req' = req /\ delivered' = delivered
    BY <1>3 DEF VNetOpen, cmd_configinterface, cmd_online, cmd_offline, CallLeaves
  <2> QED
    BY <1>b, <2>1 DEF NothingGiven
<1>4. CASE VNetClose \/ cmd_flush
  <2>1. req' = Flushed /\ delivered' = delivered
    BY <1>4 DEF VNetClose, cmd_flush, CallLeaves
  <2>2. ASSUME NEW r \in Reads PROVE ReadMoves(r)
    <3>1. CASE r \in ToSet(pending)
      BY <2>1, <3>1, FlushedReads, WaitingReads DEF ReadMoves
    <3>2. CASE r \notin ToSet(pending)
      BY <2>1, <3>2, FlushedReads DEF ReadMoves
    <3> QED
      BY <3>1, <3>2
  <2> QED
    BY <2>1, <2>2 DEF NothingGiven
<1>5. ASSUME NEW r \in Reads, Refused(r) \/ cmd_read(r) \/ queue_read(r) \/ VNetAbortIO(r)
      PROVE  NothingGiven
  <2>1. delivered' = delivered /\ r \in Reqs
    BY <1>a, <1>5 DEF Refused, cmd_read, queue_read, VNetAbortIO, CallLeaves
  <2>2. CASE Refused(r)
    <3>1. req' = [Issued(r) EXCEPT ![r].result = "error"] /\ req[r].state = "done"
      BY <2>2 DEF Refused, MayIssue
    <3>2. ReqBecomes(r, "done", req[r].issue + 1, "error")
      BY <1>0, <1>a, <2>1, <3>1, ReqSets
    <3>3. ReadMoves(r)
      BY <3>2 DEF ReqBecomes, ReadMoves
    <3> QED
      BY <1>c, <2>1, <3>2, <3>3 DEF NothingGiven
  <2>3. CASE cmd_read(r)
    <3>1. req' = [Issued(r) EXCEPT ![r].state = "checked"]
      BY <2>3 DEF cmd_read
    <3>2. ReqBecomes(r, "checked", req[r].issue + 1, "none")
      BY <1>0, <1>a, <2>1, <3>1, ReqSets
    <3>3. ReadMoves(r)
      BY <3>2 DEF ReqBecomes, ReadMoves
    <3> QED
      BY <1>c, <2>1, <3>2, <3>3 DEF NothingGiven
  <2>4. CASE queue_read(r)
    <3>1. req' = [req EXCEPT ![r].state = "pending"] /\ req[r].state = "checked"
      BY <2>4 DEF queue_read
    <3>2. ReqBecomes(r, "pending", req[r].issue, req[r].result)
      BY <1>0, <1>a, <2>1, <3>1, ReqSets
    <3>3. ReadMoves(r)
      BY <3>1, <3>2 DEF ReqBecomes, ReadMoves
    <3> QED
      BY <1>c, <2>1, <3>2, <3>3 DEF NothingGiven
  <2>5. CASE VNetAbortIO(r)
    <3>1. req' = Reply(r, "error") /\ req[r].state = "pending"
      BY <2>5 DEF VNetAbortIO
    <3>2. ReqBecomes(r, "done", req[r].issue, "error")
      BY <1>0, <1>a, <2>1, <3>1, ReqSets
    <3>3. ReadMoves(r)
      BY <3>1, <3>2 DEF ReqBecomes, ReadMoves
    <3> QED
      BY <1>c, <2>1, <3>2, <3>3 DEF NothingGiven
  <2> QED
    BY <1>5, <2>2, <2>3, <2>4, <2>5
<1>6. ASSUME NEW w \in Writes, Refused(w) \/ cmd_write(w) \/ copy_fails(w) \/ publish(w)
      PROVE  NothingGiven
  <2>1. delivered' = delivered /\ w \in Reqs
    BY <1>0, <1>6, ReqTypes DEF Refused, cmd_write, copy_fails, publish, CallLeaves
  <2>2. \A r \in Reads : r # w
    BY <1>a
  <2>a. \A t \in Reqs : t # w => req'[t] = req[t]
    BY <1>0, <1>6, <2>1, OthersStay
  <2>3. \A r \in Reads : req'[r] = req[r]
    BY <1>a, <2>2, <2>a
  <2> QED
    BY <1>b, <2>1, <2>3 DEF NothingGiven
<1>7. CASE Client
  BY <1>3, <1>4, <1>5, <1>6, <1>7 DEF Client, Reqs
<1>8. CASE push_avail \/ FrameArrives \/ Device
  <2>1. req' = req /\ delivered' = delivered
    BY <1>8 DEF push_avail, FrameArrives, Device, unitVars
  <2> QED
    BY <1>b, <2>1 DEF NothingGiven
<1>9. CASE TakeInt2 \/ read_isr_byte \/ read_used_idx("rx", "rx_idx", "rx")
            \/ read_used_idx("tx", "tx_idx", "tx") \/ rx_post \/ rx_push \/ ExitInt2
  <2>1. req' = req /\ delivered' = delivered
    BY <1>9 DEF TakeInt2, read_isr_byte, read_used_idx, rx_post, rx_push, ExitInt2, Serves
  <2> QED
    BY <1>b, <2>1 DEF NothingGiven
<1>10. CASE tx_entry
  <2>1. delivered' = delivered
    BY <1>10 DEF tx_entry
  <2>2. CASE seen["tx"] = dev_idx
    <3>1. req' = req
      BY <1>10, <2>2 DEF tx_entry
    <3> QED
      BY <1>b, <2>1, <3>1 DEF NothingGiven
  <2>3. CASE seen["tx"] # dev_idx
    <3>1. PICK w \in Writes, i \in Slots : Answers(w, i)
      BY <1>10, <2>3, TxAnswersOwner DEF TxAnswers
    <3>2. \A r \in Reads : req'[r] = req[r]
      BY <1>a, <3>1 DEF Answers, ReqBecomes
    <3> QED
      BY <1>b, <2>1, <3>2 DEF NothingGiven
  <2> QED
    BY <2>2, <2>3
<1>11. CASE rx_entry
  <2>1. RxEnds \/ RxTakes
    BY <1>11, RxEntryKinds
  <2>2. CASE RxEnds \/ RxLeaves
    <3>1. req' = req /\ delivered' = delivered
      BY <2>2 DEF RxEnds, RxLeaves
    <3> QED
      BY <1>b, <3>1 DEF NothingGiven
  <2>3. CASE RxDrops
    <3>1. PICK r \in Reads : r = Reader /\ req[r].state = "pending"
      BY <2>3, WaitingReads DEF RxDrops
    <3>2. req' = Reply(r, "error") /\ delivered' = delivered /\ r \in Reqs
      BY <1>a, <2>3, <3>1 DEF RxDrops
    <3>3. ReqBecomes(r, "done", req[r].issue, "error")
      BY <1>0, <1>a, <3>2, ReqSets
    <3>4. ReadMoves(r)
      BY <3>1, <3>3 DEF ReqBecomes, ReadMoves
    <3> QED
      BY <1>c, <3>2, <3>3, <3>4 DEF NothingGiven
  <2> QED
    BY <1>11, <2>1, <2>2, <2>3 DEF RxTakes, Gives
<1> QED
  BY <1>1, <1>2, <1>7, <1>8, <1>9, <1>10, <1>11 DEF DrvNext, vnet_isr_handler

LEMMA AnswersStay ==
    ASSUME NetInv, NothingGiven
    PROVE  DeliveriesAnswer'
<1>1. delivered' = delivered /\ DeliveriesAnswer /\ delivered \in Seq(Deliveries)
  BY DEF NetInv, NothingGiven, Types, UnitTypes
<1>2. \A r \in Reads : ReadMoves(r) /\ req[r].issue \in Nat
  <2> TAKE r \in Reads
  <2>1. req[r] \in ReqRecs
    BY ReqTypes DEF NetInv
  <2> QED
    BY <2>1 DEF NothingGiven, ReqRecs
<1>3. \A r \in Reads : req'[r].issue = req[r].issue \/ req'[r].issue = req[r].issue + 1
  BY <1>2 DEF ReadMoves
<1>4. ASSUME NEW i \in 1 .. Len(delivered) PROVE DeliveredAsAsked(delivered[i])'
  <2>1. delivered[i] \in Deliveries /\ DeliveredAsAsked(delivered[i])
    BY <1>1 DEF DeliveriesAnswer
  <2>2. delivered[i].to \in Reads /\ delivered[i].issue \in Nat
    BY <2>1 DEF Deliveries
  <2>3. delivered[i].issue <= req[delivered[i].to].issue
    BY <2>1 DEF DeliveredAsAsked
  <2>4. delivered[i].issue <= req'[delivered[i].to].issue
    BY <1>2, <1>3, <2>2, <2>3
  <2> QED
    BY <1>1, <2>1, <2>4 DEF DeliveredAsAsked, Matches
<1>5. ASSUME NEW r \in Reads PROVE ReadSaysSo(r)'
  <2>1. ReadSaysSo(r) /\ ReadMoves(r) /\ req[r].issue \in Nat
    BY <1>1, <1>2 DEF DeliveriesAnswer
  <2>2. \A n : Given(r, n)' <=> Given(r, n)
    BY <1>1 DEF Given
  <2>3. ~Given(r, req[r].issue + 1)
    <3> SUFFICES ASSUME NEW i \in 1 .. Len(delivered), delivered[i].to = r,
                        delivered[i].issue = req[r].issue + 1
                 PROVE  FALSE
      BY DEF Given
    <3>1. delivered[i].issue <= req[r].issue
      BY <1>1 DEF DeliveriesAnswer, DeliveredAsAsked
    <3> QED
      BY <2>1, <3>1
  <2>4. CASE req'[r].issue = req[r].issue
    BY <2>1, <2>2, <2>4 DEF ReadSaysSo, ReadMoves
  <2>5. CASE req'[r].issue = req[r].issue + 1
    <3>n. PICK n \in Nat : n = req[r].issue + 1
      BY <2>1
    <3>1. ~Given(r, n) /\ req'[r].issue = n
      BY <2>3, <2>5, <3>n
    <3>b. \A i \in 1 .. Len(delivered) : ~(delivered[i].to = r /\ delivered[i].issue = n)
      BY <3>1 DEF Given
    <3>a. ~Given(r, req[r].issue)'
      BY <1>1, <3>1, <3>b DEF Given
    <3>2. req'[r].result \in {"none", "error"} /\ (req'[r].state # "done" => req'[r].result = "none")
      BY <2>1, <2>5 DEF ReadMoves
    <3> QED
      BY <3>a, <3>2 DEF ReadSaysSo
  <2> QED
    BY <1>3, <2>4, <2>5
<1>6. OneFrameARead'
  BY <1>1 DEF DeliveriesAnswer, OneFrameARead
<1> QED
  BY <1>1, <1>4, <1>5, <1>6 DEF DeliveriesAnswer

LEMMA AnswersGrow ==
    ASSUME NetInv, Gives
    PROVE  DeliveriesAnswer'
<1>1. /\ DeliveriesAnswer /\ delivered \in Seq(Deliveries) /\ Types /\ pending # <<>>
      /\ FrameAt(0) \in Frames /\ Matches(Reader, FrameAt(0))
      /\ delivered' = Append(delivered, DeliveredTo(Reader, FrameAt(0))) /\ req' = Reply(Reader, "ok")
  BY DEF NetInv, Gives, RxTakes, RxGives, Types, UnitTypes
<1>2. PICK r \in Reads : r = Reader /\ req[r].state = "pending"
  BY <1>1, WaitingReads
<1>3. r \in Reqs /\ "ok" \in Results /\ "done" \in ReqStates /\ 0 \in Nat /\ req[r].issue \in Nat
  <2>1. r \in Reqs
    BY <1>1, ReqTypes
  <2>2. req[r] \in ReqRecs
    BY <1>1, <2>1, ReqTypes
  <2> QED
    BY <2>1, <2>2 DEF Results, ReqStates, ReqRecs
<1>4. ReqBecomes(r, "done", req[r].issue, "ok")
  BY <1>1, <1>2, <1>3, ReqSets
<1>5. /\ req'[r].state = "done" /\ req'[r].result = "ok" /\ req'[r].issue = req[r].issue
      /\ \A t \in Reads : t # r => req'[t] = req[t]
      /\ \A t \in Reads : req'[t].issue = req[t].issue
  BY <1>1, <1>4, ReqTypes DEF ReqBecomes
<1>6. PICK d \in Deliveries : d = DeliveredTo(Reader, FrameAt(0))
  BY <1>1, DeliveredTyped
<1>7. d.to = r /\ d.issue = req[r].issue /\ DeliveredAsAsked(d)'
  <2>1. PICK i \in 1 .. Len(Arrivals) : FrameAt(0) = FrameOf(i)
    BY <1>1 DEF Frames
  <2>2. /\ d.id = i /\ d.type = Arrivals[i].type /\ d.len = Arrivals[i].len
        /\ d.to = r /\ d.issue = req[r].issue /\ d.type = FrameAt(0).type
    BY <1>2, <1>6, <2>1 DEF DeliveredTo, FrameOf
  <2>3. Matches(r, d)
    BY <1>1, <1>2, <2>2 DEF Matches
  <2>4. d.issue <= req'[d.to].issue
    BY <1>3, <1>5, <2>2
  <2> QED
    BY <2>2, <2>3, <2>4 DEF DeliveredAsAsked, Matches
<1>8. PICK m \in Nat : m = Len(delivered)
  BY <1>1
<1>9. /\ Len(delivered') = m + 1 /\ delivered'[m + 1] = d
      /\ \A i \in 1 .. m : delivered'[i] = delivered[i]
  BY <1>1, <1>6, <1>8, AppendProperties
<1>10. \A i \in 1 .. Len(delivered') : i \in 1 .. m \/ i = m + 1
  BY <1>8, <1>9
<1>a. m + 1 \in 1 .. Len(delivered') /\ \A i \in 1 .. m : i \in 1 .. Len(delivered') /\ i # m + 1
  BY <1>8, <1>9
<1>11. ~Given(r, req[r].issue)
  BY <1>1, <1>2 DEF DeliveriesAnswer, ReadSaysSo
<1>12. ASSUME NEW i \in 1 .. Len(delivered') PROVE DeliveredAsAsked(delivered[i])'
  <2>1. CASE i = m + 1
    BY <1>7, <1>9, <2>1 DEF DeliveredAsAsked, Matches
  <2>2. CASE i \in 1 .. m
    <3>1. DeliveredAsAsked(delivered[i]) /\ delivered[i] \in Deliveries
      BY <1>1, <1>8, <2>2 DEF DeliveriesAnswer
    <3>2. delivered[i].to \in Reads
      BY <3>1 DEF Deliveries
    <3>3. delivered'[i] = delivered[i]
      BY <1>9, <2>2
    <3> QED
      BY <1>5, <3>1, <3>2, <3>3 DEF DeliveredAsAsked, Matches
  <2> QED
    BY <1>10, <2>1, <2>2
<1>13. ASSUME NEW t \in Reads PROVE ReadSaysSo(t)'
  <2>1. CASE t = r
    <3>1. \E i \in 1 .. Len(delivered') : delivered'[i].to = r /\ delivered'[i].issue = req'[r].issue
      BY <1>5, <1>7, <1>9, <1>a
    <3>2. Given(r, req[r].issue)'
      BY <1>5, <3>1 DEF Given
    <3> QED
      BY <1>5, <2>1, <3>1 DEF ReadSaysSo, Given
  <2>2. CASE t # r
    <3>1. req'[t] = req[t] /\ ReadSaysSo(t)
      BY <1>1, <1>5, <2>2 DEF DeliveriesAnswer
    <3>2. Given(t, req[t].issue) <=>
            \E i \in 1 .. Len(delivered') : delivered'[i].to = t /\ delivered'[i].issue = req[t].issue
      BY <1>7, <1>8, <1>9, <1>10, <1>a, <2>2 DEF Given
    <3> QED
      BY <3>1, <3>2 DEF ReadSaysSo, Given
  <2> QED
    BY <2>1, <2>2
<1>14. OneFrameARead'
  <2> SUFFICES ASSUME NEW i \in 1 .. Len(delivered'), NEW j \in 1 .. Len(delivered'),
                      delivered'[i].to = delivered'[j].to, delivered'[i].issue = delivered'[j].issue
               PROVE  i = j
    BY DEF OneFrameARead
  <2>1. \A k \in 1 .. m : ~(delivered[k].to = d.to /\ delivered[k].issue = d.issue)
    BY <1>7, <1>8, <1>11 DEF Given
  <2>2. CASE i = m + 1 \/ j = m + 1
    BY <1>9, <1>10, <2>1, <2>2
  <2>3. CASE i \in 1 .. m /\ j \in 1 .. m
    BY <1>1, <1>8, <1>9, <2>3 DEF DeliveriesAnswer, OneFrameARead
  <2> QED
    BY <1>10, <2>2, <2>3
<1> QED
  BY <1>12, <1>13, <1>14 DEF DeliveriesAnswer

LEMMA DeliveriesStep ==
    ASSUME NetInv, [DrvNext]_drvVars
    PROVE  DeliveriesAnswer'
BY ReadKinds, AnswersStay, AnswersGrow

-----------------------------------------------------------------------------
(* What went to the network, counted *)

Count(s, f) == Cardinality({k \in 1 .. Len(s) : s[k] = <<f>>})
InUsed(i) == \E k \in 0 .. nu("tx") - 1 : Id("tx", k) = i
SentFor(w) ==
    /\ \A n \in Nat : n > req[w].issue => Count(sent, <<w, n>>) = 0
    /\ req[w].state = "filling" => Count(sent, <<w, req[w].issue>>) = 0
    /\ req[w].state = "done" /\ req[w].result = "error" => Count(sent, <<w, req[w].issue>>) = 0
    /\ req[w].state = "done" /\ req[w].result = "ok" => Count(sent, <<w, req[w].issue>>) = Once(req[w])
    /\ \A i \in Slots : slot[i] = w /\ req[w].state = "sending" =>
          Count(sent, <<w, req[w].issue>>) = IF InUsed(i) THEN Once(req[w]) ELSE 0

LEMMA SentParts == SentOnce <=> \A w \in Writes : SentFor(w)
BY Zenon DEF SentOnce, SentFor, Times, Count, InUsed

LEMMA SentAfter ==
    ASSUME \A w \in Writes : SentFor(w)'
    PROVE  SentOnce'
<1>1. (SentOnce <=> \A w \in Writes : SentFor(w))'
  BY SentParts, PTL
<1> QED
  BY <1>1, Zenon

(* A frame that goes out is counted once more, every other as before. *)
LEMMA CountAppend ==
    ASSUME NEW S, NEW s \in Seq(S), NEW d, <<d>> \in S, NEW f
    PROVE  /\ Count(s, f) \in Nat
           /\ Count(Append(s, <<d>>), f) = IF f = d THEN Count(s, f) + 1 ELSE Count(s, f)
<1> DEFINE t == Append(s, <<d>>)
           K == {k \in 1 .. Len(s) : s[k] = <<f>>}
           L == {k \in 1 .. Len(t) : t[k] = <<f>>}
           m == Len(s) + 1
<1>1. /\ Len(s) \in Nat /\ Len(t) = Len(s) + 1 /\ t[m] = <<d>>
      /\ \A k \in 1 .. Len(s) : t[k] = s[k]
  BY AppendProperties
<1>2. IsFiniteSet(K) /\ Cardinality(K) \in Nat
  <2>1. IsFiniteSet(1 .. Len(s)) /\ K \in SUBSET (1 .. Len(s))
    BY <1>1, FS_Interval
  <2>2. IsFiniteSet(K)
    BY <2>1, FS_Subset
  <2> QED
    BY <2>2, FS_CardinalityType
<1>3. \A k : k \in 1 .. Len(t) <=> k \in 1 .. Len(s) \/ k = m
  BY <1>1
<1>4. m \notin K
  BY <1>1
<1>5. <<f>> = <<d>> <=> f = d
  OBVIOUS
<1>6. L = IF f = d THEN K \cup {m} ELSE K
  <2> HIDE DEF t, m
  <2>1. \A k : k \in L <=> k \in K \/ (k = m /\ f = d)
    BY <1>1, <1>3, <1>5, Zenon
  <2>2. CASE f = d
    BY <2>1, <2>2, Zenon
  <2>3. CASE f # d
    BY <2>1, <2>3, Zenon
  <2> QED
    BY <2>2, <2>3
<1>7. Cardinality(L) = IF f = d THEN Cardinality(K) + 1 ELSE Cardinality(K)
  <2> HIDE DEF K, L, m
  <2>1. Cardinality(K \cup {m}) = Cardinality(K) + 1
    BY <1>2, <1>4, FS_AddElement
  <2> QED
    BY <1>6, <2>1
<1> QED
  BY <1>2, <1>7 DEF Count

LEMMA SentSteps ==
    ASSUME NetInv, [DrvNext]_drvVars
    PROVE  sent' = sent \/ TxCompletes
<1>0. Types /\ Phases /\ Registers /\ RxFlight /\ TxFlight
  BY Zenon DEF NetInv
<1>1. CASE UNCHANGED drvVars
  BY <1>1 DEF drvVars, netVars
<1>2. CASE DevInit
  BY <1>2 DEF DevInit, negotiate, setup_queue, AllocFails, LoadFails, post_rx_buffer, add_int_server,
              driver_ok, set_ready, Loads
<1>3. CASE Client
  <2>1. CallLeaves \/ SomePublish
    BY <1>3 DEF Client, VNetOpen, VNetClose, cmd_flush, cmd_configinterface, cmd_online, cmd_offline,
                Refused, cmd_read, queue_read, VNetAbortIO, cmd_write, copy_fails, SomePublish
  <2> QED
    BY <2>1 DEF CallLeaves, SomePublish, publish, netVars
<1>4. CASE push_avail \/ FrameArrives
  BY <1>4 DEF push_avail, FrameArrives
<1>5. CASE TakeInt2 \/ vnet_isr_handler
  BY <1>5 DEF TakeInt2, vnet_isr_handler, read_isr_byte, read_used_idx, rx_entry, rx_post, rx_push,
              tx_entry, ExitInt2, Serves
<1>6. CASE Device
  <2>1. DriverRests /\ (EngineIdles \/ TxSends \/ RxReceives)
    BY <1>0, <1>6, EngineSteps
  <2> QED
    BY <2>1 DEF EngineIdles, RxReceives, TxCompletes
<1> QED
  BY <1>1, <1>2, <1>3, <1>4, <1>5, <1>6 DEF DrvNext

(* A request whose frames, record and slot stay. *)
LEMMA SentKept ==
    ASSUME NEW w \in Writes, SentFor(w), req'[w] = req[w],
           \A n \in Nat : Count(sent', <<w, n>>) = Count(sent, <<w, n>>), req[w].issue \in Nat,
           \A i \in Slots : slot'[i] = w => slot[i] = w /\ (InUsed(i)' <=> InUsed(i))
    PROVE  SentFor(w)'
<1>1. \A n \in Nat : n > req[w].issue => Count(sent', <<w, n>>) = 0
  BY DEF SentFor
<1>2. PICK c : c = Count(sent, <<w, req[w].issue>>)
  OBVIOUS
<1>3. c = Count(sent', <<w, req'[w].issue>>)
  BY <1>2
<1>4. /\ req[w].state = "filling" => c = 0
      /\ req[w].state = "done" /\ req[w].result = "error" => c = 0
      /\ req[w].state = "done" /\ req[w].result = "ok" => c = Once(req[w])
      /\ \A i \in Slots : slot[i] = w /\ req[w].state = "sending" => c = IF InUsed(i) THEN Once(req[w]) ELSE 0
  BY <1>2 DEF SentFor
<1>5. /\ req'[w].state = "filling" => c = 0
      /\ req'[w].state = "done" /\ req'[w].result = "error" => c = 0
      /\ req'[w].state = "done" /\ req'[w].result = "ok" => c = Once(req'[w])
      /\ \A i \in Slots : slot'[i] = w /\ req'[w].state = "sending" => c = IF InUsed(i)' THEN Once(req'[w]) ELSE 0
  BY <1>4
<1>6. \A n \in Nat : n > req'[w].issue => Count(sent', <<w, n>>) = 0
  BY <1>1
<1> QED
  BY <1>3, <1>5, <1>6 DEF SentFor

LEMMA SentAtStart ==
    ASSUME NetInv, NEW w \in Writes
    PROVE  /\ SentFor(w) /\ w \in Reqs /\ w # "free" /\ req[w].issue \in Nat
           /\ req[w].issue + 1 > req[w].issue
           /\ \A n \in Nat : n > req[w].issue + 1 => n > req[w].issue
<1>0. Types /\ SentOnce
  BY Zenon DEF NetInv
<1>1. SentFor(w)
  BY <1>0, SentParts
<1>2. w \in Reqs /\ w # "free" /\ req[w] \in ReqRecs
  BY <1>0, ReqTypes
<1>3. req[w].issue \in Nat
  BY <1>2 DEF ReqRecs
<1> QED
  BY <1>1, <1>2, <1>3

(* The frame of the slot at the head of the transmit queue goes out, or is refused. *)
LEMMA SentAfterSend ==
    ASSUME NetInv, TxCompletes, NEW w \in Writes
    PROVE  SentFor(w)'
<1>0. Types /\ Phases /\ Registers /\ RxFlight /\ TxFlight /\ SlotOwners /\ sent \in Seq(SentData)
  BY DEF NetInv, Types, CardTypes
<1>1. Completed("tx", UsedLen(req[slot[HeadOf("tx")]])) /\ enabled("tx") /\ la("tx") # vring["tx"].avail_idx
  BY TxCompletesRing
<1>2. /\ slot' = slot /\ req' = req /\ TxSends
      /\ sent' = IF DeviceTakes(req[slot[HeadOf("tx")]].len) THEN Append(sent, DataOf(HeadOf("tx"))) ELSE sent
  BY DEF TxCompletes, DriverRests, unitVars, TxSends
<1>3. PICK h \in Slots : h = HeadOf("tx")
  BY <1>2, SentTyped
<1>4. PICK v \in Writes : v = slot[h]
  BY <1>2, <1>3, SentTyped
<1>5. PICK d : d = <<v, req[v].issue>>
  OBVIOUS
<1>6. /\ sent' = IF DeviceTakes(req[v].len) THEN Append(sent, <<d>>) ELSE sent
      /\ <<d>> \in SentData
  BY <1>2, <1>3, <1>4, <1>5, SentTyped DEF DataOf
<1>7. PICK n : n = nu("tx")
  OBVIOUS
<1>8. n \in Nat /\ na("tx") \in Nat /\ nu("tx")' = n + 1 /\ na("tx") > 0
  <2>1. nu("tx")' = nu("tx") + 1 /\ na("tx") > 0
    BY <1>1 DEF Completed
  <2> QED
    BY <1>0, <1>1, <1>7, <2>1, TxFlightIs
<1>9. \A k \in 0 .. n : k \in 0 .. na("tx") + nu("tx") - 1
  BY <1>7, <1>8
<1>10. /\ \A k \in 0 .. n : Id("tx", k)' = Id("tx", k)
       /\ \A k, l \in 0 .. n : Id("tx", k) = Id("tx", l) => k = l
       /\ \A k \in 0 .. n : Sender(Id("tx", k))
  <2>1. \A k \in 0 .. na("tx") + nu("tx") - 1 : Id("tx", k)' = Id("tx", k)
    BY <1>1, Zenon DEF Completed
  <2>2. /\ \A k, l \in 0 .. na("tx") + nu("tx") - 1 : Id("tx", k) = Id("tx", l) => k = l
        /\ \A k \in 0 .. na("tx") + nu("tx") - 1 : Sender(Id("tx", k))
    BY <1>0, <1>1, TxFlightIs
  <2> QED
    BY <1>9, <2>1, <2>2
<1>11. h = Id("tx", n)
  BY <1>0, <1>1, <1>3, <1>7, QueueInUse, Constants
<1>12. n \in 0 .. n /\ (\A k \in 0 .. n - 1 : k \in 0 .. n /\ k # n)
       /\ \A k \in 0 .. n : k \in 0 .. n - 1 \/ k = n
  BY <1>8
<1>13. InUsed(h)' /\ ~InUsed(h)
  <2>1. \A k \in 0 .. n - 1 : Id("tx", k) # h
    BY <1>10, <1>11, <1>12
  <2>2. 0 .. nu("tx")' - 1 = 0 .. n
    BY <1>8
  <2>3. \E k \in 0 .. n : Id("tx", k)' = h
    BY <1>10, <1>11, <1>12
  <2>4. InUsed(h)'
    BY <2>2, <2>3 DEF InUsed
  <2> QED
    BY <1>7, <2>1, <2>4 DEF InUsed
<1>14. ASSUME NEW i \in Slots, i # h PROVE InUsed(i)' <=> InUsed(i)
  <2>1. 0 .. nu("tx")' - 1 = 0 .. n
    BY <1>8
  <2>2. (\E k \in 0 .. n : Id("tx", k)' = i) <=> (\E k \in 0 .. n - 1 : Id("tx", k) = i)
    BY <1>10, <1>11, <1>12, <1>14
  <2> QED
    BY <1>7, <2>1, <2>2 DEF InUsed
<1>15. SentFor(w) /\ SentFor(v) /\ req[w].issue \in Nat /\ req[v].issue \in Nat
       /\ v # "free" /\ req[v].state = "sending"
  <2>1. Sender(h)
    BY <1>10, <1>11, <1>12
  <2> QED
    BY <1>4, <2>1, SentAtStart DEF Sender
<1>16. \A f : /\ Count(sent, f) \in Nat
              /\ Count(sent', f) = IF f = d THEN Count(sent, f) + Once(req[v]) ELSE Count(sent, f)
  <2> TAKE f
  <2>1. /\ Count(sent, f) \in Nat
        /\ Count(Append(sent, <<d>>), f) = IF f = d THEN Count(sent, f) + 1 ELSE Count(sent, f)
    BY <1>0, <1>6, CountAppend
  <2>2. CASE DeviceTakes(req[v].len)
    BY <1>6, <2>1, <2>2 DEF Once
  <2>3. CASE ~DeviceTakes(req[v].len)
    <3>1. sent' = sent /\ Once(req[v]) = 0
      BY <1>6, <2>3 DEF Once
    <3>2. Count(sent', f) = Count(sent, f)
      BY <3>1
    <3> QED
      BY <2>1, <3>1, <3>2
  <2> QED
    BY <2>2, <2>3
<1>17. CASE w # v
  <2>1. \A m \in Nat : Count(sent', <<w, m>>) = Count(sent, <<w, m>>)
    <3> TAKE m \in Nat
    <3>1. <<w, m>> # d
      BY <1>5, <1>17
    <3> QED
      BY <1>16, <3>1
  <2>2. \A i \in Slots : slot'[i] = w => slot[i] = w /\ (InUsed(i)' <=> InUsed(i))
    BY <1>2, <1>4, <1>14, <1>17
  <2> QED
    BY <1>2, <1>15, <2>1, <2>2, SentKept
<1>18. CASE w = v
  <2>1. \A m \in Nat : m > req[v].issue => Count(sent', <<v, m>>) = 0
    <3> TAKE m \in Nat
    <3> HAVE m > req[v].issue
    <3>1. <<v, m>> # d
      BY <1>5, <1>15
    <3> QED
      BY <1>15, <1>16, <3>1 DEF SentFor
  <2>2. Count(sent, d) = 0
    BY <1>4, <1>5, <1>13, <1>15 DEF SentFor
  <2>3. Count(sent', d) = Once(req[v])
    BY <1>16, <2>2 DEF Once
  <2>4. \A i \in Slots : slot[i] = v => i = h
    BY <1>0, <1>4, <1>15 DEF SlotOwners
  <2>5. \A i \in Slots : slot'[i] = v => Count(sent', d) = IF InUsed(i)' THEN Once(req'[v]) ELSE 0
    BY <1>2, <1>13, <2>3, <2>4
  <2>6. req'[v] = req[v] /\ req'[v].state = "sending" /\ d = <<v, req'[v].issue>>
    BY <1>2, <1>5, <1>15
  <2>7. \A m \in Nat : m > req'[v].issue => Count(sent', <<v, m>>) = 0
    BY <2>1, <2>6
  <2>8. SentFor(v)'
    BY <2>5, <2>6, <2>7 DEF SentFor
  <2> QED
    BY <1>18, <2>8
<1> QED
  BY <1>17, <1>18

LEMMA SameUsed ==
    ASSUME Untouched("tx"), NEW i
    PROVE  InUsed(i)' <=> InUsed(i)
<1>1. nu("tx")' = nu("tx") /\ \A k : Id("tx", k)' = Id("tx", k)
  BY SameQueue, Constants
<1> QED
  BY <1>1 DEF InUsed

(* The request that moves and is not being sent afterwards. *)
LEMMA SentSettled ==
    ASSUME NEW w \in Writes, NEW s \in {"done", "filling"}, NEW n, NEW x, ReqBecomes(w, s, n, x),
           sent' = sent, \A m \in Nat : m > n => Count(sent, <<w, m>>) = 0,
           s = "filling" \/ x = "error" => Count(sent, <<w, n>>) = 0,
           s = "done" /\ x = "ok" => Count(sent, <<w, n>>) = Once(req[w])
    PROVE  SentFor(w)'
<1>1. /\ req'[w].state = s /\ req'[w].issue = n /\ req'[w].result = x
      /\ s = "done" => Once(req'[w]) = Once(req[w])
  BY DEF ReqBecomes, Once
<1>2. s # "sending"
  OBVIOUS
<1> QED
  BY <1>1, <1>2 DEF SentFor

(* Every other request, when the step is one request's and moves no other slot. *)
LEMMA OthersKept ==
    ASSUME NetInv, NEW w \in Writes, NEW s, NEW n, NEW x, ReqBecomes(w, s, n, x), sent' = sent,
           NEW v \in Writes, v # w,
           \A i \in Slots : slot'[i] = v => slot[i] = v /\ (InUsed(i)' <=> InUsed(i))
    PROVE  SentFor(v)'
<1>1. SentFor(v) /\ v \in Reqs /\ req[v].issue \in Nat
  BY SentAtStart
<1>2. req'[v] = req[v]
  BY <1>1 DEF ReqBecomes
<1> QED
  BY <1>1, <1>2, SentKept

LEMMA SentAfterCall ==
    ASSUME NetInv, SomeDeclines \/ SomeAllocates \/ SomeGivesUp, NEW v \in Writes
    PROVE  SentFor(v)'
<1>0. Types /\ SlotOwners
  BY Zenon DEF NetInv
<1>1. CallLeaves
  BY DEF SomeDeclines, SomeAllocates, SomeGivesUp, Declines, Allocates, GivesUp
<1>2. sent' = sent /\ Untouched("tx")
  BY <1>1, CallsLeaveRings, RestUntouched, Constants DEF CallLeaves, netVars
<1>3. \A i : InUsed(i)' <=> InUsed(i)
  BY <1>2, SameUsed
<1>4. slot \in [Slots -> Writes \cup {"free"}]
  BY <1>0, ReqTypes
<1>5. CASE SomeDeclines
  <2>1. PICK w \in Writes : Declines(w)
    BY <1>5 DEF SomeDeclines
  <2>2. slot' = slot /\ ReqBecomes(w, "done", req[w].issue + 1, "error")
    BY <2>1 DEF Declines
  <2>3. CASE v = w
    <3>1. SentFor(w) /\ req[w].issue \in Nat /\ req[w].issue + 1 > req[w].issue
          /\ \A n \in Nat : n > req[w].issue + 1 => n > req[w].issue
      BY SentAtStart
    <3>2. /\ \A n \in Nat : n > req[w].issue + 1 => Count(sent, <<w, n>>) = 0
          /\ Count(sent, <<w, req[w].issue + 1>>) = 0
      BY <3>1 DEF SentFor
    <3>3. PICK m : m = req[w].issue + 1
      OBVIOUS
    <3> QED
      BY <1>2, <2>2, <2>3, <3>2, <3>3, SentSettled
  <2>4. CASE v # w
    BY <1>2, <1>3, <2>2, <2>4, OthersKept
  <2> QED
    BY <2>3, <2>4
<1>6. CASE SomeAllocates
  <2>1. PICK w \in Writes, i \in Slots : Allocates(w, i)
    BY <1>6 DEF SomeAllocates
  <2>2. slot' = [slot EXCEPT ![i] = w] /\ ReqBecomes(w, "filling", req[w].issue + 1, "none")
    BY <2>1 DEF Allocates
  <2>3. CASE v = w
    <3>1. SentFor(w) /\ req[w].issue \in Nat /\ req[w].issue + 1 > req[w].issue
          /\ \A n \in Nat : n > req[w].issue + 1 => n > req[w].issue
      BY SentAtStart
    <3>2. /\ \A n \in Nat : n > req[w].issue + 1 => Count(sent, <<w, n>>) = 0
          /\ Count(sent, <<w, req[w].issue + 1>>) = 0
      BY <3>1 DEF SentFor
    <3>3. PICK m : m = req[w].issue + 1
      OBVIOUS
    <3> QED
      BY <1>2, <2>2, <2>3, <3>2, <3>3, SentSettled
  <2>4. CASE v # w
    <3>1. \A j \in Slots : slot'[j] = v => slot[j] = v
      BY <1>4, <2>2, <2>4
    <3> QED
      BY <1>2, <1>3, <2>2, <2>4, <3>1, OthersKept
  <2> QED
    BY <2>3, <2>4
<1>7. CASE SomeGivesUp
  <2>1. PICK w \in Writes : GivesUp(w)
    BY <1>7 DEF SomeGivesUp
  <2>2. /\ slot' = [slot EXCEPT ![SlotOf(w)] = "free"] /\ ReqBecomes(w, "done", req[w].issue, "error")
        /\ req[w].state = "filling"
    BY <2>1 DEF GivesUp
  <2>3. CASE v = w
    <3>1. SentFor(w)
      BY SentAtStart
    <3>2. /\ \A n \in Nat : n > req[w].issue => Count(sent, <<w, n>>) = 0
          /\ Count(sent, <<w, req[w].issue>>) = 0
      BY <2>2, <3>1 DEF SentFor
    <3>3. PICK m : m = req[w].issue
      OBVIOUS
    <3> QED
      BY <1>2, <2>2, <2>3, <3>2, <3>3, SentSettled
  <2>4. CASE v # w
    <3>1. SlotOf(w) \in Slots /\ v # "free"
      BY <1>0, <2>2, OwnSlot, ReqTypes
    <3>2. \A j \in Slots : slot'[j] = v => slot[j] = v
      BY <1>4, <2>2, <3>1
    <3> QED
      BY <1>2, <1>3, <2>2, <2>4, <3>2, OthersKept
  <2> QED
    BY <2>3, <2>4
<1> QED
  BY <1>5, <1>6, <1>7

LEMMA SentAfterPublish ==
    ASSUME NetInv, NEW w \in Writes, publish(w), NEW v \in Writes
    PROVE  SentFor(v)'
<1>0. Types /\ TxFlight /\ SlotOwners
  BY Zenon DEF NetInv
<1>1. EntryWritten("tx", SlotOf(w), TxDesc(w, req[w])) /\ enabled("tx")
      /\ SlotOf(w) \in Slots /\ slot[SlotOf(w)] = w /\ ~InFlightAt("tx", SlotOf(w))
  BY PublishRing
<1>2. sent' = sent /\ Sends(w)
  BY PublishSends DEF publish
<1>3. ReqBecomes(w, "sending", req[w].issue, req[w].result) /\ slot' = slot /\ req[w].state = "filling"
  BY <1>2 DEF Sends
<1>4. na("tx") \in Nat /\ nu("tx") \in Nat
  BY <1>0, <1>1, TxFlightIs
<1>5. \A k \in 0 .. nu("tx") - 1 : k \in 0 .. na("tx") + nu("tx") - 1
  BY <1>4
<1>6. /\ nu("tx")' = nu("tx")
      /\ \A k \in 0 .. na("tx") + nu("tx") - 1 : Id("tx", k)' = Id("tx", k)
  BY <1>1, Zenon DEF EntryWritten
<1>7. ASSUME NEW i \in Slots PROVE InUsed(i)' <=> InUsed(i)
  <2>1. \A k \in 0 .. nu("tx") - 1 : Id("tx", k)' = Id("tx", k)
    BY <1>5, <1>6
  <2>2. (\E k \in 0 .. nu("tx") - 1 : Id("tx", k)' = i) <=> InUsed(i)
    BY <2>1 DEF InUsed
  <2> QED
    BY <1>6, <2>2 DEF InUsed
<1>8. CASE v # w
  BY <1>2, <1>3, <1>7, <1>8, OthersKept
<1>9. CASE v = w
  <2>1. SentFor(w) /\ w # "free"
    BY SentAtStart
  <2>2. PICK c : c = Count(sent, <<w, req[w].issue>>)
    OBVIOUS
  <2>3. c = 0 /\ \A n \in Nat : n > req[w].issue => Count(sent, <<w, n>>) = 0
    BY <1>3, <2>1, <2>2 DEF SentFor
  <2>4. \A i \in Slots : slot[i] = w => i = SlotOf(w)
    BY <1>0, <1>1, <2>1 DEF SlotOwners
  <2>5. ~InUsed(SlotOf(w))
    BY <1>1, <1>5, Zenon DEF InUsed, InFlightAt
  <2>6. \A i \in Slots : slot'[i] = w => ~InUsed(i)'
    BY <1>3, <1>7, <2>4, <2>5
  <2>7. req'[w].state = "sending" /\ req'[w].issue = req[w].issue
    BY <1>3 DEF ReqBecomes
  <2>8. c = Count(sent', <<w, req'[w].issue>>) /\ \A n \in Nat : n > req'[w].issue => Count(sent', <<w, n>>) = 0
    BY <1>2, <2>2, <2>3, <2>7
  <2>9. SentFor(w)'
    BY <2>3, <2>6, <2>7, <2>8 DEF SentFor
  <2> QED
    BY <1>9, <2>9
<1> QED
  BY <1>8, <1>9

LEMMA SentAfterAnswer ==
    ASSUME NetInv, TxAnswers, NEW v \in Writes
    PROVE  SentFor(v)'
<1>0. Types /\ TxFlight /\ SlotOwners
  BY Zenon DEF NetInv
<1>1. PICK w \in Writes, s \in Slots : Answers(w, s)
  BY TxAnswersOwner
<1>2. /\ s = Id("tx", 0) /\ slot[s] = w /\ req[w].state = "sending"
      /\ slot' = [slot EXCEPT ![s] = "free"] /\ ReqBecomes(w, "done", req[w].issue, "ok")
  BY <1>1 DEF Answers
<1>3. UsedTaken("tx") /\ enabled("tx") /\ nu("tx") > 0
  BY TxEntryRing DEF TxAnswers
<1>4. sent' = sent
  BY DEF TxAnswers, tx_entry, Serves
<1>5. na("tx") \in Nat /\ nu("tx") \in Nat /\ slot \in [Slots -> Writes \cup {"free"}]
  BY <1>0, <1>3, TxFlightIs, ReqTypes
<1>6. nu("tx")' = nu("tx") - 1 /\ \A k \in Nat : Id("tx", k)' = Id("tx", k + 1)
  BY <1>3, Zenon DEF UsedTaken
<1>7. ASSUME NEW i \in Slots, i # s PROVE InUsed(i)' <=> InUsed(i)
  <2>1. ASSUME InUsed(i) PROVE InUsed(i)'
    <3>1. PICK k \in 0 .. nu("tx") - 1 : Id("tx", k) = i
      BY <2>1 DEF InUsed
    <3>2. k # 0
      BY <1>2, <1>7, <3>1
    <3>3. PICK l : l = k - 1
      OBVIOUS
    <3>4. l \in Nat /\ l \in 0 .. nu("tx")' - 1 /\ l + 1 = k
      BY <1>5, <1>6, <3>2, <3>3
    <3>5. Id("tx", l)' = i
      BY <1>6, <3>1, <3>4
    <3> QED
      BY <3>4, <3>5 DEF InUsed
  <2>2. ASSUME InUsed(i)' PROVE InUsed(i)
    <3>1. PICK k \in 0 .. nu("tx")' - 1 : Id("tx", k)' = i
      BY <2>2 DEF InUsed
    <3>2. k \in Nat /\ k + 1 \in 0 .. nu("tx") - 1
      BY <1>5, <1>6
    <3>3. Id("tx", k + 1) = i
      BY <1>6, <3>1, <3>2
    <3> QED
      BY <3>2, <3>3 DEF InUsed
  <2> QED
    BY <2>1, <2>2
<1>8. CASE v # w
  <2>1. v # "free"
    BY SentAtStart
  <2>2. \A i \in Slots : slot'[i] = v => slot[i] = v /\ i # s
    BY <1>2, <1>5, <1>8, <2>1
  <2> QED
    BY <1>2, <1>4, <1>7, <1>8, <2>2, OthersKept
<1>9. CASE v = w
  <2>1. SentFor(w)
    BY SentAtStart
  <2>2. InUsed(s)
    <3>1. 0 \in 0 .. nu("tx") - 1
      BY <1>3, <1>5
    <3> QED
      BY <1>2, <3>1 DEF InUsed
  <2>3. Count(sent, <<w, req[w].issue>>) = Once(req[w]) /\ \A n \in Nat : n > req[w].issue => Count(sent, <<w, n>>) = 0
    BY <1>2, <2>1, <2>2 DEF SentFor
  <2>4. PICK m : m = req[w].issue
    OBVIOUS
  <2> QED
    BY <1>2, <1>4, <1>9, <2>3, <2>4, SentSettled
<1> QED
  BY <1>8, <1>9

LEMMA SentOnceStep ==
    ASSUME NetInv, [DrvNext]_drvVars
    PROVE  SentOnce'
<1>0. Types /\ Phases /\ slot \in [Slots -> Writes \cup {"free"}]
  BY ReqTypes, Zenon DEF NetInv
<1> SUFFICES ASSUME NEW v \in Writes PROVE SentFor(v)'
  BY SentAfter
<1>a. SentFor(v) /\ v \in Reqs /\ v # "free" /\ req[v].issue \in Nat
  BY SentAtStart
<1>1. CASE SomeDeclines \/ SomeAllocates \/ SomeGivesUp
  BY <1>1, SentAfterCall
<1>2. CASE SomePublish
  BY <1>2, SentAfterPublish DEF SomePublish
<1>3. CASE TxAnswers
  BY <1>3, SentAfterAnswer
<1>4. CASE TxCompletes
  BY <1>4, SentAfterSend
<1>5. CASE push_avail
  <2>1. slot' = slot /\ req' = req /\ sent' = sent
    BY <1>5 DEF push_avail, unitVars
  <2>2. EntryPushed("tx")
    BY <1>5, PushRing
  <2>3. nu("tx")' = nu("tx") /\ \A k : Id("tx", k)' = Id("tx", k)
    BY <2>2, Zenon DEF EntryPushed
  <2>4. \A i : InUsed(i)' <=> InUsed(i)
    BY <2>3 DEF InUsed
  <2> QED
    BY <1>a, <2>1, <2>4, SentKept
<1>6. CASE OwnersStay /\ sent' = sent
  <2>1. slot' = slot /\ req'[v] = req[v]
    BY <1>6 DEF OwnersStay
  <2>2. Untouched("tx") => SentFor(v)'
    BY <1>6, <1>a, <2>1, SameUsed, SentKept
  <2>3. ASSUME \A i \in Slots : slot[i] = "free" PROVE SentFor(v)'
    <3>1. \A i \in Slots : slot'[i] # v
      BY <1>a, <2>1, <2>3
    <3> QED
      BY <1>6, <1>a, <2>1, <3>1, SentKept
  <2>4. CASE RingsStay
    BY <2>2, <2>4, RestUntouched, Constants
  <2>5. CASE rx_post
    <3>1. EntryWritten("rx", entry, RxDesc)
      BY <2>5, RxPostRing
    <3> QED
      BY <2>2, <3>1, Constants DEF EntryWritten
  <2>6. CASE rx_push
    BY <2>2, <2>6, RxPushRing, Constants DEF Reposted
  <2>7. CASE RxCompletes
    <3>1. PICK len : Completed("rx", len)
      BY <2>7, RxCompletesRing
    <3>2. seen' = seen
      BY <2>7, RxCompletesRing
    <3> QED
      BY <2>2, <3>1, <3>2, Constants DEF Completed, Untouched
  <2>8. CASE negotiate \/ SetsUpTx
    <3>1. devinit # "ready"
      BY <2>8 DEF negotiate, SetsUpTx, setup_queue, Loads
    <3> QED
      BY <1>0, <2>3, <3>1 DEF Phases
  <2>9. CASE SetsUpRx
    BY <2>2, <2>9, SetsUpRing, Constants DEF SetUp
  <2>10. CASE post_rx_buffer
    <3>1. PostedNew("rx", shadow["rx"], RxDesc)
      BY <2>10, PostRing
    <3> QED
      BY <2>2, <3>1, Constants DEF PostedNew
  <2> QED
    BY <1>2, <1>3, <1>4, <1>5, <2>4, <2>5, <2>6, <2>7, <2>8, <2>9, <2>10, Kinds
<1> QED
  BY <1>1, <1>2, <1>3, <1>4, <1>5, <1>6, OwnerKinds, SentSteps

-----------------------------------------------------------------------------
(* The invariant *)

LEMMA TypesAtStart ==
    ASSUME DrvInit
    PROVE  /\ Types /\ net = Reset
           /\ \A q \in Queues : vring[q] = EmptyRing /\ shadow[q] = 0 /\ seen[q] = 0
<1>1. /\ net = Reset /\ vring = [q \in Queues |-> EmptyRing]
      /\ rxbuf = [i \in 0 .. QUEUE_SIZE_MAX - 1 |-> NoData]
      /\ engine = "idle" /\ inbox = <<>> /\ sent = <<>> /\ intx = FALSE /\ ports = FALSE
  BY DEF DrvInit, NetInit
<1>2. /\ devinit = "unloaded" /\ unit = [open |-> FALSE, configured |-> FALSE, online |-> FALSE]
      /\ req = [r \in Reqs |-> [state |-> "done", issue |-> 0, result |-> "none", len |-> 0]]
      /\ pending = <<>> /\ slot = [i \in Slots |-> "free"]
      /\ shadow = [q \in Queues |-> 0] /\ seen = [q \in Queues |-> 0]
      /\ locked = "none" /\ pc = "out" /\ dev_idx = 0 /\ entry = 0
      /\ arrived = 0 /\ delivered = <<>>
  BY DEF DrvInit
<1>3. net \in NetType /\ vring \in [Queues -> Rings]
  BY <1>1, ResetRegisters, EmptyRingFacts
<1>4. rxbuf \in [Entries -> Frames \cup {NoData}]
  BY <1>1 DEF Entries
<1>5. CardTypes
  <2>1. inbox \in Seq(Frames) /\ sent \in Seq(SentData)
    BY <1>1, EmptySeq
  <2>2. engine \in {"idle", "tx", "rx"} /\ intx \in BOOLEAN /\ ports \in BOOLEAN
    BY <1>1, Zenon
  <2> QED
    BY <1>3, <1>4, <2>1, <2>2 DEF CardTypes
<1>6. req \in [Reqs -> ReqRecs]
  BY <1>2 DEF ReqRecs, ReqStates, Results
<1>7. UnitTypes
  BY <1>2, <1>6, Constants DEF UnitTypes, Loading, Handling
<1> QED
  BY <1>1, <1>2, <1>5, <1>7 DEF Types

LEMMA InitInv ==
    ASSUME DrvInit
    PROVE  NetInv
<1>1. /\ Types /\ net = Reset
      /\ \A q \in Queues : vring[q] = EmptyRing /\ shadow[q] = 0 /\ seen[q] = 0
  BY TypesAtStart
<1>2. /\ devinit = "unloaded" /\ unit = [open |-> FALSE, configured |-> FALSE, online |-> FALSE]
      /\ req = [r \in Reqs |-> [state |-> "done", issue |-> 0, result |-> "none", len |-> 0]]
      /\ pending = <<>> /\ slot = [i \in Slots |-> "free"]
      /\ locked = "none" /\ pc = "out" /\ inbox = <<>> /\ delivered = <<>> /\ sent = <<>>
  BY DEF DrvInit, NetInit
<1>3. \A q \in Queues : net.queue[q] = QueueReset /\ ~enabled(q)
  BY <1>1, ResetRegisters DEF enabled
<1>4. net.status = {} /\ \A q \in Queues : vring[q].avail_idx = 0 /\ vring[q].used_idx = 0
  BY <1>1, ResetRegisters, EmptyRingFacts
<1>5. Phases
  BY <1>2, <1>4 DEF Phases, InRunning
<1>6. Registers
  BY <1>1, <1>3, <1>4 DEF Registers, RegistersOf
<1>7. RxFlight /\ TxFlight /\ Signalled
  BY <1>3, Constants DEF RxFlight, TxFlight, Signalled
<1>8. Handler
  BY <1>2 DEF Handler
<1>9. SlotOwners /\ PendingReads
  <2>1. /\ \A r \in Reqs : req[r].state = "done"
        /\ \A r \in Reads : r \in Reqs
        /\ \A w \in Writes : w \in Reqs
    BY <1>2 DEF Reqs
  <2>2. Len(pending) = 0 /\ \A i \in Slots : slot[i] = "free"
    BY <1>2
  <2>3. 1 .. Len(pending) = {}
    BY <2>2
  <2>4. SlotOwners
    BY <1>2, <2>1, <2>2 DEF SlotOwners
  <2>5. PendingReads
    BY <2>1, <2>3 DEF PendingReads
  <2> QED
    BY <2>4, <2>5
<1>10. FramesInOrder
  <2>1. 1 .. Len(inbox) = {} /\ 1 .. Len(delivered) = {}
    BY <1>2
  <2>2. OutsideInOrder
    BY <2>1 DEF OutsideInOrder, Ascending
  <2> QED
    BY <1>3, <2>2, FramesParts, Constants
<1>11. SentOnce
  <2>1. \A f : Count(sent, f) = 0
    <3> TAKE f
    <3>1. {k \in 1 .. Len(sent) : sent[k] = <<f>>} = {}
      BY <1>2
    <3> QED
      BY <3>1, FS_EmptySet DEF Count
  <2>2. ASSUME NEW w \in Writes PROVE SentFor(w)
    <3>1. w \in Reqs
      BY DEF Reqs
    <3>2. req[w].state = "done" /\ req[w].result = "none"
      BY <1>2, <3>1
    <3> QED
      BY <2>1, <3>2 DEF SentFor
  <2> QED
    BY <2>2, SentParts
<1>12. DeliveriesAnswer
  <2>1. 1 .. Len(delivered) = {}
    BY <1>2
  <2>2. \A r \in Reads : req[r].state = "done" /\ req[r].result = "none"
    BY <1>2 DEF Reqs
  <2> QED
    BY <2>1, <2>2 DEF DeliveriesAnswer, ReadSaysSo, Given, OneFrameARead
<1> QED
  BY <1>1, <1>5, <1>6, <1>7, <1>8, <1>9, <1>10, <1>11, <1>12 DEF NetInv

LEMMA StepInv ==
    ASSUME NetInv, [DrvNext]_drvVars
    PROVE  NetInv'
<1>1. Types' /\ Phases' /\ Registers' /\ RxFlight' /\ Handler' /\ SlotOwners'
  BY TypesStep, PhasesStep, RegistersStep, RxFlightStep, HandlerStep, SlotOwnersStep
<1>2. TxFlight' /\ PendingReads' /\ FramesInOrder' /\ DeliveriesAnswer' /\ SentOnce' /\ Signalled'
  BY TxFlightStep, ReadsStep, FramesStep, DeliveriesStep, SentOnceStep, SignalledStep
<1> QED
  BY <1>1, <1>2 DEF NetInv

(***************************************************************************)
(* The driver's and the device's state stays sound together, whatever the  *)
(* client, the network and the interleaving: the invariant of              *)
(* virtionet_device.c over the rings of pci.rs' virtio-net function.       *)
(***************************************************************************)
THEOREM DriverAndDeviceAgree == DrvSpec => []NetInv
<1>1. DrvInit => NetInv
  BY InitInv
<1>2. NetInv /\ [DrvNext]_drvVars => NetInv'
  BY StepInv
<1> QED
  BY <1>1, <1>2, PTL DEF DrvSpec

-----------------------------------------------------------------------------
(* What the invariant says of the runs' properties *)

LEMMA IdsInFlight ==
    ASSUME Types, NEW q \in Queues
    PROVE  /\ InFlight(q) = na(q) + nu(q) /\ (Unread(q) <=> seen[q] # vring[q].used_idx)
           /\ \A i : i \in UsedIds(q) <=> \E k \in 0 .. nu(q) - 1 : Id(q, k) = i
           /\ \A i : i \in AvailIds(q) <=> \E k \in nu(q) .. na(q) + nu(q) - 1 : Id(q, k) = i
<1>1. /\ la(q) \in Idx /\ vring[q].avail_idx \in Idx /\ vring[q].used_idx \in Idx /\ seen[q] \in Idx
      /\ na(q) \in Nat /\ nu(q) \in Nat
  BY RingTypes
<1>2. /\ Window(la(q), vring[q].avail_idx) = {(la(q) + k) % IdxMod : k \in 0 .. na(q) - 1}
      /\ Window(seen[q], vring[q].used_idx) = {(seen[q] + k) % IdxMod : k \in 0 .. nu(q) - 1}
      /\ Cardinality(Window(la(q), vring[q].avail_idx)) = na(q)
      /\ Cardinality(Window(seen[q], vring[q].used_idx)) = nu(q)
      /\ (Window(seen[q], vring[q].used_idx) = {} <=> seen[q] = vring[q].used_idx)
  BY <1>1, WindowFacts, Zenon DEF na, nu
<1>3. InFlight(q) = na(q) + nu(q) /\ (Unread(q) <=> seen[q] # vring[q].used_idx)
  BY <1>2 DEF InFlight, Unread, la
<1>4. ASSUME NEW i PROVE i \in UsedIds(q) <=> \E k \in 0 .. nu(q) - 1 : Id(q, k) = i
  <2>1. i \in UsedIds(q) <=> \E k \in 0 .. nu(q) - 1 : vring[q].used[((seen[q] + k) % IdxMod) % qsize].id = i
    BY <1>2, Zenon DEF UsedIds
  <2>2. \A k \in 0 .. nu(q) - 1 : k < Dist(seen[q], vring[q].used_idx)
    BY <1>1 DEF nu
  <2>3. \A k \in 0 .. nu(q) - 1 : Id(q, k) = vring[q].used[Pos(seen[q], k)].id
    BY <2>2 DEF Id, Flight
  <2> QED
    BY <2>1, <2>3, Zenon DEF Pos
<1>5. ASSUME NEW i PROVE i \in AvailIds(q) <=> \E k \in nu(q) .. na(q) + nu(q) - 1 : Id(q, k) = i
  <2>1. i \in AvailIds(q) <=> \E k \in 0 .. na(q) - 1 : vring[q].avail[((la(q) + k) % IdxMod) % qsize] = i
    BY <1>2, Zenon DEF AvailIds, la
  <2>2. i \in AvailIds(q) <=> \E k \in 0 .. na(q) - 1 : vring[q].avail[Pos(la(q), k)] = i
    BY <2>1, Zenon DEF Pos
  <2>3. \A k \in 0 .. na(q) - 1 : /\ k + nu(q) \in nu(q) .. na(q) + nu(q) - 1
                                  /\ ~(k + nu(q) < nu(q)) /\ (k + nu(q)) - nu(q) = k
    BY <1>1
  <2>4. \A k \in nu(q) .. na(q) + nu(q) - 1 : ~(k < nu(q)) /\ k - nu(q) \in 0 .. na(q) - 1
    BY <1>1
  <2>5. \A k : ~(k < nu(q)) => Id(q, k) = vring[q].avail[Pos(la(q), k - nu(q))]
    BY Zenon DEF Id, Flight, nu
  <2>6. ASSUME NEW k \in 0 .. na(q) - 1 PROVE Id(q, k + nu(q)) = vring[q].avail[Pos(la(q), k)]
    BY <2>3, <2>5
  <2> QED
    BY <2>2, <2>3, <2>4, <2>5, <2>6
<1> QED
  BY <1>3, <1>4, <1>5

LEMMA RxOwners ==
    ASSUME NetInv, Running
    PROVE  /\ InFlight("rx") = qsize
           /\ AvailIds("rx") \cup UsedIds("rx") = Slots
           /\ AvailIds("rx") \cap UsedIds("rx") = {}
<1>0. Types /\ Phases /\ RxFlight
  BY Zenon DEF NetInv
<1>1. enabled("rx")
  BY <1>0 DEF Phases, Running, InRunning
<1>2. /\ na("rx") + nu("rx") = qsize
      /\ \A k \in 0 .. qsize - 1 : Id("rx", k) \in Slots
      /\ \A k, l \in 0 .. qsize - 1 : Id("rx", k) = Id("rx", l) => k = l
  BY <1>0, <1>1 DEF RxFlight, Posted, Slots
<1>3. /\ InFlight("rx") = na("rx") + nu("rx")
      /\ \A i : i \in UsedIds("rx") <=> \E k \in 0 .. nu("rx") - 1 : Id("rx", k) = i
      /\ \A i : i \in AvailIds("rx") <=> \E k \in nu("rx") .. na("rx") + nu("rx") - 1 : Id("rx", k) = i
  BY <1>0, IdsInFlight, Constants
<1>4. na("rx") \in Nat /\ nu("rx") \in Nat
  BY <1>0, RingTypes, Constants
<1>5. nu("rx") .. na("rx") + nu("rx") - 1 = nu("rx") .. qsize - 1
  <2>1. na("rx") + nu("rx") - 1 = qsize - 1
    BY <1>2, <1>4
  <2> QED
    BY <2>1, Zenon
<1>6. /\ \A k \in 0 .. nu("rx") - 1 : k \in 0 .. qsize - 1 /\ k \notin nu("rx") .. qsize - 1
      /\ \A k \in nu("rx") .. qsize - 1 : k \in 0 .. qsize - 1 /\ k \notin 0 .. nu("rx") - 1
      /\ \A k \in 0 .. qsize - 1 : k \in 0 .. nu("rx") - 1 \/ k \in nu("rx") .. qsize - 1
  BY <1>2, <1>4, Sizes
<1>7. \A i : i \in AvailIds("rx") \cup UsedIds("rx") <=> \E k \in 0 .. qsize - 1 : Id("rx", k) = i
  BY <1>3, <1>5, <1>6
<1>8. \A i \in Slots : \E k \in 0 .. qsize - 1 : Id("rx", k) = i
  <2> DEFINE f == [k \in 0 .. qsize - 1 |-> Id("rx", k)]
  <2>1. Numbers(qsize, f, Slots)
    BY <1>2, Sizes DEF Numbers
  <2>2. Numbered(qsize, f) = Slots
    BY <2>1, Pigeons
  <2> QED
    BY <2>2 DEF Numbered
<1>9. AvailIds("rx") \cup UsedIds("rx") = Slots
  BY <1>2, <1>7, <1>8
<1>10. AvailIds("rx") \cap UsedIds("rx") = {}
  <2>1. ASSUME NEW i, i \in AvailIds("rx"), i \in UsedIds("rx") PROVE FALSE
    <3>1. PICK k \in nu("rx") .. qsize - 1 : Id("rx", k) = i
      BY <1>3, <1>5, <2>1, Zenon
    <3>2. PICK l \in 0 .. nu("rx") - 1 : Id("rx", l) = i
      BY <1>3, <2>1, Zenon
    <3>3. k \in 0 .. qsize - 1 /\ l \in 0 .. qsize - 1 /\ k # l
      BY <1>6, Zenon
    <3> QED
      BY <1>2, <3>1, <3>2, <3>3, Zenon
  <2> QED
    BY <2>1
<1> QED
  BY <1>2, <1>3, <1>9, <1>10

LEMMA TxOwners ==
    ASSUME NetInv, Running
    PROVE  /\ InFlight("tx") = Cardinality(AvailIds("tx") \cup UsedIds("tx"))
           /\ \A i \in Slots :
                 i \in AvailIds("tx") \cup UsedIds("tx")
                    <=> slot[i] # "free" /\ req[slot[i]].state = "sending" /\ slot[i] # locked
           /\ \A i, j \in Slots : slot[i] = slot[j] /\ slot[i] # "free" => i = j
<1>0. Types /\ Phases /\ TxFlight /\ SlotOwners
  BY Zenon DEF NetInv
<1>1. enabled("tx")
  BY <1>0 DEF Phases, Running, InRunning
<1>2. PICK n : n = na("tx") + nu("tx")
  OBVIOUS
<1>3. na("tx") \in Nat /\ nu("tx") \in Nat /\ n \in Nat
  BY <1>0, <1>2, RingTypes, Constants
<1>4. /\ \A k \in 0 .. n - 1 :
            Id("tx", k) \in Slots /\ Sender(Id("tx", k)) /\ slot[Id("tx", k)] # locked
      /\ \A k, l \in 0 .. n - 1 : Id("tx", k) = Id("tx", l) => k = l
      /\ \A i \in Slots : Sender(i) /\ slot[i] # locked => \E k \in 0 .. n - 1 : Id("tx", k) = i
  <2>1. 0 .. na("tx") + nu("tx") - 1 = 0 .. n - 1
    BY <1>2, <1>3
  <2>2. /\ \A k \in 0 .. na("tx") + nu("tx") - 1 :
              Id("tx", k) \in Slots /\ Sender(Id("tx", k)) /\ slot[Id("tx", k)] # locked
        /\ \A k, l \in 0 .. na("tx") + nu("tx") - 1 : Id("tx", k) = Id("tx", l) => k = l
        /\ \A i \in Slots : Sender(i) /\ slot[i] # locked =>
              \E k \in 0 .. na("tx") + nu("tx") - 1 : Id("tx", k) = i
    BY <1>0, <1>1, TxFlightIs, Zenon DEF InFlightAt
  <2> QED
    BY <2>1, <2>2, Zenon
<1>5. /\ InFlight("tx") = n
      /\ \A i : i \in UsedIds("tx") <=> \E k \in 0 .. nu("tx") - 1 : Id("tx", k) = i
      /\ \A i : i \in AvailIds("tx") <=> \E k \in nu("tx") .. n - 1 : Id("tx", k) = i
  <2>1. nu("tx") .. na("tx") + nu("tx") - 1 = nu("tx") .. n - 1
    BY <1>2, <1>3
  <2>2. /\ InFlight("tx") = na("tx") + nu("tx")
        /\ \A i : i \in UsedIds("tx") <=> \E k \in 0 .. nu("tx") - 1 : Id("tx", k) = i
        /\ \A i : i \in AvailIds("tx") <=> \E k \in nu("tx") .. na("tx") + nu("tx") - 1 : Id("tx", k) = i
    BY <1>0, IdsInFlight, Constants
  <2> QED
    BY <1>2, <2>1, <2>2, Zenon
<1>6. /\ \A k \in 0 .. nu("tx") - 1 : k \in 0 .. n - 1
      /\ \A k \in nu("tx") .. n - 1 : k \in 0 .. n - 1
      /\ \A k \in 0 .. n - 1 : k \in 0 .. nu("tx") - 1 \/ k \in nu("tx") .. n - 1
  BY <1>2, <1>3
<1>7. \A i : i \in AvailIds("tx") \cup UsedIds("tx") <=> \E k \in 0 .. n - 1 : Id("tx", k) = i
  BY <1>5, <1>6
<1>8. Cardinality(AvailIds("tx") \cup UsedIds("tx")) = n
  <2> DEFINE f == [k \in 0 .. n - 1 |-> Id("tx", k)]
  <2>1. Numbers(n, f, Slots)
    BY <1>3, <1>4 DEF Numbers
  <2>2. Cardinality(Numbered(n, f)) = n
    BY <2>1, Counting, Zenon
  <2>3. Numbered(n, f) = AvailIds("tx") \cup UsedIds("tx")
    BY <1>7 DEF Numbered
  <2> QED
    BY <2>2, <2>3
<1>9. \A i \in Slots : i \in AvailIds("tx") \cup UsedIds("tx")
                         <=> slot[i] # "free" /\ req[slot[i]].state = "sending" /\ slot[i] # locked
  BY <1>4, <1>7 DEF Sender
<1> QED
  BY <1>0, <1>5, <1>8, <1>9 DEF SlotOwners

(***************************************************************************)
(* EachBufferHasOneOwner for every ring size and index width: the receive  *)
(* buffers of post_rx_buffers and the transmit slots of                    *)
(* vnet_txslot_alloc are each in one place, across wrap-around, re-posting *)
(* and any interleaving with the engine.                                   *)
(***************************************************************************)
THEOREM BuffersHaveOneOwner == DrvSpec => []EachBufferHasOneOwner
<1>1. NetInv => EachBufferHasOneOwner
  BY RxOwners, TxOwners, Zenon DEF EachBufferHasOneOwner
<1> QED
  BY <1>1, DriverAndDeviceAgree, PTL

(***************************************************************************)
(* NeverFailsClosed: no ring this driver builds makes fail_closed set      *)
(* DEVICE_NEEDS_RESET.                                                     *)
(***************************************************************************)
THEOREM DeviceNeverFailsClosed == DrvSpec => []NeverFailsClosed
<1>1. NetInv => NeverFailsClosed
  BY DEF NetInv, Phases, NeverFailsClosed, needs_reset
<1> QED
  BY <1>1, DriverAndDeviceAgree, PTL

(***************************************************************************)
(* NoCompletionStranded: the order in which vnet_isr_handler reads the ISR *)
(* byte and the used indices leaves no used element unannounced.           *)
(***************************************************************************)
THEOREM CompletionsAreAnnounced == DrvSpec => []NoCompletionStranded
<1>1. ASSUME NetInv, devinit = "ready", NEW q \in Queues, Unread(q)
      PROVE  \/ net.isr /\ intx
             \/ pc \in WillRead[q]
             \/ pc \in (IF q = "rx" THEN {"rx", "rx_post", "rx_push"} ELSE {"tx"})
                  /\ dev_idx = vring[q].used_idx
  <2>0. Types /\ Phases /\ Signalled
    BY <1>1, Zenon DEF NetInv
  <2>1. intx /\ enabled("rx") /\ enabled("tx")
    BY <1>1, <2>0 DEF Phases, InRunning
  <2>2. enabled(q)
    BY <2>1 DEF Queues
  <2>3. seen[q] # vring[q].used_idx
    BY <1>1, <2>0, IdsInFlight
  <2> QED
    BY <2>0, <2>1, <2>2, <2>3, Zenon DEF Signalled
<1>2. NetInv => NoCompletionStranded
  BY <1>1, Zenon DEF NoCompletionStranded
<1> QED
  BY <1>2, DriverAndDeviceAgree, PTL

(***************************************************************************)
(* ReadersSeeArrivalOrder: frames go from the back end through the used    *)
(* ring to vnet_process_rx_used's readers in their order, none twice, each *)
(* of the type its reader asked for; a read is answered without an error   *)
(* exactly when it was given a frame, and the pending list is exactly the  *)
(* reads that wait.                                                        *)
(***************************************************************************)
THEOREM ArrivalOrderIsKept == DrvSpec => []ReadersSeeArrivalOrder
<1>1. ASSUME NetInv PROVE ReadersSeeArrivalOrder
  <2>0. Types /\ FramesInOrder /\ DeliveriesAnswer /\ delivered \in Seq(Deliveries) /\ arrived \in Nat
    BY <1>1, Constants DEF NetInv, Types, UnitTypes
  <2>1. OutsideInOrder
    BY <2>0, FramesParts
  <2>2. /\ \A i, j \in 1 .. Len(delivered) : i < j => delivered[i].id < delivered[j].id
        /\ \A i \in 1 .. Len(delivered) : delivered[i].id <= arrived /\ delivered[i].len > EthHdrLen
    BY <2>1 DEF OutsideInOrder, Ascending
  <2>3. ASSUME NEW i \in 1 .. Len(delivered)
        PROVE  /\ delivered[i].id \in 1 .. arrived
               /\ delivered[i].type = Arrivals[delivered[i].id].type
               /\ delivered[i].len = Arrivals[delivered[i].id].len
               /\ delivered[i].len > EthHdrLen /\ Matches(delivered[i].to, delivered[i])
    <3>1. delivered[i].id \in 1 .. Len(Arrivals)
      <4>1. delivered[i] \in Deliveries
        BY <2>0
      <4> QED
        BY <4>1 DEF Deliveries
    <3>2. delivered[i].id \in 1 .. arrived
      BY <2>0, <2>2, <3>1, Constants
    <3> QED
      BY <2>0, <2>2, <3>2 DEF DeliveriesAnswer, DeliveredAsAsked
  <2>4. \A r \in Reads : req[r].state = "pending" <=> r \in ToSet(pending)
    BY <1>1, WaitingReads
  <2>5. \A r \in Reads : req[r].result = "ok" <=>
           \E i \in 1 .. Len(delivered) : delivered[i].to = r /\ delivered[i].issue = req[r].issue
    BY <2>0 DEF DeliveriesAnswer, ReadSaysSo, Given
  <2>6. \A i, j \in 1 .. Len(delivered) :
           delivered[i].to = delivered[j].to /\ delivered[i].issue = delivered[j].issue => i = j
    BY <2>0 DEF DeliveriesAnswer, OneFrameARead
  <2> QED
    BY <2>2, <2>3, <2>4, <2>5, <2>6 DEF ReadersSeeArrivalOrder
<1> QED
  BY <1>1, DriverAndDeviceAgree, PTL

(***************************************************************************)
(* AnsweredAsSent: vnet_process_tx_used answers a write once the engine    *)
(* has sent its frame, once; a write cmd_write refuses was never sent, nor *)
(* one whose chain process_tx refuses for its length, although the driver  *)
(* answers it without an error.                                            *)
(***************************************************************************)
THEOREM WritesAreAnsweredAsSent == DrvSpec => []AnsweredAsSent
<1>1. ASSUME NetInv PROVE AnsweredAsSent
  <2>0. Types /\ SentOnce
    BY <1>1, Zenon DEF NetInv
  <2> SUFFICES ASSUME NEW w \in Writes, req[w].state = "done", req[w].result # "none"
               PROVE  Times(<<w, req[w].issue>>)
                        = IF req[w].result = "ok" /\ DeviceTakes(req[w].len) THEN 1 ELSE 0
    BY DEF AnsweredAsSent
  <2>1. req[w] \in ReqRecs
    BY <2>0, ReqTypes
  <2>2. req[w].result \in {"ok", "error"}
    BY <2>1 DEF ReqRecs, Results
  <2>3. /\ req[w].result = "error" => Times(<<w, req[w].issue>>) = 0
        /\ req[w].result = "ok" => Times(<<w, req[w].issue>>) = Once(req[w])
    BY <2>0 DEF SentOnce
  <2> QED
    BY <2>2, <2>3 DEF Once
<1> QED
  BY <1>1, DriverAndDeviceAgree, PTL
=============================================================================
