---------------------------- MODULE InputProofs ----------------------------
(***************************************************************************)
(* Theorems about native input.  First the card, for every depth of its    *)
(* queue: what its event queue keeps, whoever pushes, pops and             *)
(* acknowledges, and in whatever order.  Then its driver, for every depth  *)
(* of the card's queue and of the driver's ring, both orders in which exec *)
(* may clear INTREQ, and with or without another device on INT2.           *)
(***************************************************************************)
EXTENDS InputDriver, SequenceTheorems, TLAPS

-----------------------------------------------------------------------------
(* Lemmas about events and about the operations of the queue.              *)

Stamps == 1 .. MaxPushes

LEMMA EventFacts ==
    /\ \A n \in Stamps : /\ Discrete(n) \in Events /\ ~IsMotion(Discrete(n))
                         /\ Stamp(Discrete(n)) = n /\ Discrete(n).code = n
                         /\ Motion(n) \in Events /\ IsMotion(Motion(n))
                         /\ Stamp(Motion(n)) = n
    /\ \A e \in Events : /\ Stamp(e) \in Stamps
                         /\ ~IsMotion(e) => e.code = Stamp(e)
<1>1. \A n \in Stamps : Discrete(n) \in Events /\ Motion(n) \in Events
  BY Zenon DEF Events, Stamps
<1>2. \A n : /\ Discrete(n).type = "DISCRETE" /\ Discrete(n).code = n
             /\ Motion(n).type = "MOTION" /\ Motion(n).x = n
  BY DEF Discrete, Motion
<1>3. "DISCRETE" # "MOTION"
  OBVIOUS
<1>4. \A e \in Events : \E n \in Stamps : e = Discrete(n) \/ e = Motion(n)
  BY Zenon DEF Events, Stamps
<1>5. \A n \in Stamps : /\ ~IsMotion(Discrete(n)) /\ Stamp(Discrete(n)) = n
                          /\ IsMotion(Motion(n)) /\ Stamp(Motion(n)) = n
  BY <1>2, <1>3 DEF IsMotion, Stamp
<1>6. ASSUME NEW e \in Events
      PROVE  Stamp(e) \in Stamps /\ (~IsMotion(e) => e.code = Stamp(e))
  BY <1>4, <1>5 DEF Stamp
<1> QED
  BY <1>1, <1>2, <1>5, <1>6

LEMMA CodesDef ==
    ASSUME NEW s, NEW c
    PROVE  c \in DiscreteCodes(s) <=> \E k \in 1 .. Len(s) : ~IsMotion(s[k]) /\ c = s[k].code
BY DEF DiscreteCodes

(* The code an event adds to those of the discrete events. *)
CodeOf(e) == IF IsMotion(e) THEN {} ELSE {e.code}

LEMMA AppendEvent ==
    ASSUME NEW s \in Seq(Events), NEW e \in Events
    PROVE  /\ Append(s, e) \in Seq(Events) /\ Len(Append(s, e)) = Len(s) + 1
           /\ \A i \in 1 .. Len(s) : Append(s, e)[i] = s[i]
           /\ Append(s, e)[Len(s) + 1] = e
           /\ DiscreteCodes(Append(s, e)) = DiscreteCodes(s) \cup CodeOf(e)
<1>1. /\ Append(s, e) \in Seq(Events) /\ Len(Append(s, e)) = Len(s) + 1
      /\ \A i \in 1 .. Len(s) : Append(s, e)[i] = s[i]
      /\ Append(s, e)[Len(s) + 1] = e
  BY AppendProperties
<1>2. Len(s) \in Nat
  BY LenProperties
<1>3. \A i \in 1 .. Len(s) + 1 : i \in 1 .. Len(s) \/ i = Len(s) + 1
  BY <1>2
<1>4. 1 .. Len(s) \subseteq 1 .. Len(s) + 1 /\ Len(s) + 1 \in 1 .. Len(s) + 1
  BY <1>2
<1> QED
  BY <1>1, <1>3, <1>4 DEF DiscreteCodes, CodeOf

LEMMA PopEvent ==
    ASSUME NEW s \in Seq(Events), s # <<>>
    PROVE  /\ Head(s) \in Events /\ Head(s) = s[1]
           /\ Tail(s) \in Seq(Events) /\ Len(s) \in Nat \ {0} /\ Len(Tail(s)) = Len(s) - 1
           /\ \A i \in 1 .. Len(Tail(s)) : Tail(s)[i] = s[i + 1]
           /\ DiscreteCodes(s) = DiscreteCodes(Tail(s)) \cup CodeOf(Head(s))
<1>1. /\ Head(s) \in Events /\ Head(s) = s[1]
      /\ Tail(s) \in Seq(Events) /\ Len(s) \in Nat \ {0} /\ Len(Tail(s)) = Len(s) - 1
      /\ \A i \in 1 .. Len(Tail(s)) : Tail(s)[i] = s[i + 1]
  BY HeadTailProperties, EmptySeq, SMT
<1>2. \A i \in 1 .. Len(s) : i = 1 \/ \E k \in 1 .. Len(Tail(s)) : i = k + 1
  <2> SUFFICES ASSUME NEW i \in 1 .. Len(s), i # 1
               PROVE  \E k \in 1 .. Len(Tail(s)) : i = k + 1
    OBVIOUS
  <2>1. i - 1 \in 1 .. Len(Tail(s)) /\ i = (i - 1) + 1
    BY <1>1
  <2> QED
    BY <2>1
<1>3. 1 \in 1 .. Len(s) /\ \A k \in 1 .. Len(Tail(s)) : k + 1 \in 1 .. Len(s)
  BY <1>1
<1> QED
  BY <1>1, <1>2, <1>3 DEF DiscreteCodes, CodeOf

(* What eviction leaves: one motion less, the rest in its order. *)
LEMMA RemoveMotion ==
    ASSUME queue \in Seq(Events), NEW i \in motion_index
    PROVE  /\ i \in 1 .. Len(queue) /\ IsMotion(queue[i])
           /\ remove(i) \in Seq(Events) /\ Len(queue) \in Nat \ {0}
           /\ Len(remove(i)) = Len(queue) - 1
           /\ \A k \in 1 .. Len(queue) - 1 :
                 remove(i)[k] = IF k < i THEN queue[k] ELSE queue[k + 1]
           /\ DiscreteCodes(remove(i)) = DiscreteCodes(queue)
<1> DEFINE a == SubSeq(queue, 1, i - 1)
           b == SubSeq(queue, i + 1, Len(queue))
<1>1. Len(queue) \in Nat /\ i \in 1 .. Len(queue) /\ IsMotion(queue[i])
  BY LenProperties DEF motion_index
<1>2. \A k \in 1 .. Len(queue) : queue[k] \in Events
  BY ElementOfSeq
<1>3. a \in Seq(Events) /\ Len(a) = i - 1 /\ \A k \in 1 .. i - 1 : a[k] = queue[k]
  <2>1. 1 \in Int /\ i - 1 \in Int /\ \A k \in 1 .. i - 1 : queue[k] \in Events
    BY <1>1, <1>2
  <2>2. /\ a \in Seq(Events) /\ Len(a) = IF 1 <= i - 1 THEN (i - 1) - 1 + 1 ELSE 0
        /\ \A k \in 1 .. (i - 1) - 1 + 1 : a[k] = queue[1 + k - 1]
    BY <2>1, SubSeqProperties, SMTT(20) DEF a
  <2> HIDE DEF a
  <2>3. \A k \in 1 .. i - 1 : k \in 1 .. (i - 1) - 1 + 1 /\ 1 + k - 1 = k
    BY <1>1
  <2> QED
    BY <1>1, <2>2, <2>3
<1>4. /\ b \in Seq(Events) /\ Len(b) = Len(queue) - i
      /\ \A k \in 1 .. Len(queue) - i : b[k] = queue[k + i]
  <2>1. i + 1 \in Int /\ Len(queue) \in Int /\ \A k \in i + 1 .. Len(queue) : queue[k] \in Events
    BY <1>1, <1>2
  <2>2. /\ b \in Seq(Events) /\ Len(b) = IF i + 1 <= Len(queue) THEN Len(queue) - (i + 1) + 1 ELSE 0
        /\ \A k \in 1 .. Len(queue) - (i + 1) + 1 : b[k] = queue[(i + 1) + k - 1]
    BY <2>1, SubSeqProperties, SMTT(20) DEF b
  <2> HIDE DEF b
  <2>3. \A k \in 1 .. Len(queue) - i :
           k \in 1 .. Len(queue) - (i + 1) + 1 /\ (i + 1) + k - 1 = k + i
    BY <1>1
  <2> QED
    BY <1>1, <2>2, <2>3
<1>5. /\ remove(i) \in Seq(Events) /\ Len(remove(i)) = Len(queue) - 1
      /\ \A k \in 1 .. Len(queue) - 1 :
            remove(i)[k] = IF k < i THEN queue[k] ELSE queue[k + 1]
  <2> HIDE DEF a, b
  <2>1. /\ a \o b \in Seq(Events) /\ Len(a \o b) = Len(a) + Len(b)
        /\ \A k \in 1 .. Len(a) + Len(b) : (a \o b)[k] = IF k <= Len(a) THEN a[k] ELSE b[k - Len(a)]
    BY <1>3, <1>4, ConcatProperties
  <2>2. remove(i) = a \o b
    BY DEF remove, a, b
  <2>3. \A k \in 1 .. Len(queue) - 1 : (a \o b)[k] = IF k < i THEN queue[k] ELSE queue[k + 1]
    <3> SUFFICES ASSUME NEW k \in 1 .. Len(queue) - 1
                 PROVE  (a \o b)[k] = IF k < i THEN queue[k] ELSE queue[k + 1]
      OBVIOUS
    <3>1. CASE k < i
      BY <1>1, <1>3, <1>4, <2>1, <3>1
    <3>2. CASE ~(k < i)
      <4>1. /\ k - (i - 1) \in 1 .. Len(queue) - i /\ (k - (i - 1)) + i = k + 1
            /\ k \in 1 .. Len(a) + Len(b) /\ ~(k <= Len(a)) /\ k - Len(a) = k - (i - 1)
        BY <1>1, <1>3, <1>4, <3>2
      <4>2. (a \o b)[k] = b[k - (i - 1)]
        BY <2>1, <4>1
      <4> QED
        BY <1>4, <3>2, <4>1, <4>2
    <3> QED
      BY <3>1, <3>2
  <2>4. Len(a) + Len(b) = Len(queue) - 1
    BY <1>1, <1>3, <1>4
  <2> QED
    BY <2>1, <2>2, <2>3, <2>4, Zenon
<1> HIDE DEF a, b
<1>6. DiscreteCodes(remove(i)) = DiscreteCodes(queue)
  <2>1. ASSUME NEW k \in 1 .. Len(queue), ~IsMotion(queue[k])
        PROVE  \E j \in 1 .. Len(queue) - 1 : remove(i)[j] = queue[k]
    <3>1. CASE k < i
      BY <1>1, <1>5, <3>1
    <3>2. CASE ~(k < i)
      <4>1. k - 1 \in 1 .. Len(queue) - 1 /\ ~(k - 1 < i) /\ (k - 1) + 1 = k
        BY <1>1, <2>1, <3>2
      <4> QED
        BY <1>5, <4>1
    <3> QED
      BY <3>1, <3>2
  <2>2. ASSUME NEW k \in 1 .. Len(queue) - 1
        PROVE  \E j \in 1 .. Len(queue) : remove(i)[k] = queue[j]
    <3>1. k \in 1 .. Len(queue) /\ k + 1 \in 1 .. Len(queue)
      BY <1>1
    <3> QED
      BY <1>5, <3>1
  <2>3. ASSUME NEW c \in DiscreteCodes(queue)
        PROVE  c \in DiscreteCodes(remove(i))
    <3>1. PICK k \in 1 .. Len(queue) : ~IsMotion(queue[k]) /\ queue[k].code = c
      BY CodesDef
    <3>2. PICK j \in 1 .. Len(queue) - 1 : remove(i)[j] = queue[k]
      BY <2>1, <3>1
    <3>3. j \in 1 .. Len(remove(i)) /\ ~IsMotion(remove(i)[j]) /\ remove(i)[j].code = c
      BY <1>5, <3>1, <3>2, Zenon
    <3> QED
      BY <3>3, CodesDef, Zenon
  <2>4. ASSUME NEW c \in DiscreteCodes(remove(i))
        PROVE  c \in DiscreteCodes(queue)
    <3>1. PICK k \in 1 .. Len(remove(i)) : ~IsMotion(remove(i)[k]) /\ remove(i)[k].code = c
      BY CodesDef
    <3>2. PICK j \in 1 .. Len(queue) : remove(i)[k] = queue[j]
      BY <1>5, <2>2
    <3>3. ~IsMotion(queue[j]) /\ queue[j].code = c
      BY <3>1, <3>2, Zenon
    <3> QED
      BY <3>3, CodesDef, Zenon
  <2> QED
    BY <2>3, <2>4, Zenon
<1> QED
  BY <1>1, <1>5, <1>6

-----------------------------------------------------------------------------
(***************************************************************************)
(* The inductive invariant.  What was popped and what is queued are each   *)
(* in the order of their pushes, all that was popped came before all that  *)
(* is queued, and the next push comes after both: the pairs of             *)
(* DiscreteEventsSurvive, divided at the place where events leave.         *)
(***************************************************************************)
Ordered(s) == \A i, j \in 1 .. Len(s) : i < j => Stamp(s[i]) < Stamp(s[j])
UpTo(s, n) == \A i \in 1 .. Len(s) : Stamp(s[i]) <= n
Precedes(s, t) == \A i \in 1 .. Len(s), j \in 1 .. Len(t) : Stamp(s[i]) < Stamp(t[j])

InOrder(s, t, n) == Ordered(s) /\ Ordered(t) /\ Precedes(s, t) /\ UpTo(s, n) /\ UpTo(t, n)
EventsInOrder == InOrder(popped, queue, pushes)

CodesKept == accepted = DiscreteCodes(popped) \cup DiscreteCodes(queue)

CardInv == TypeOK /\ LatchCoversQueue /\ EventsInOrder /\ CodesKept

LEMMA CardInvHolds == CardInit => CardInv
<1> SUFFICES ASSUME CardInit PROVE CardInv
  OBVIOUS
<1>1. <<>> \in Seq(Events) /\ Len(<<>>) = 0
  BY EmptySeq
<1>2. TypeOK /\ LatchCoversQueue
  <2>1. 0 \in 0 .. CounterLimit - 1 /\ 0 \in 0 .. MaxPushes /\ 0 <= QueueCapacity
    BY InputAssumption
  <2> QED
    BY <1>1, <2>1, Zenon DEF CardInit, TypeOK, LatchCoversQueue
<1>3. EventsInOrder
  BY <1>1 DEF CardInit, EventsInOrder, InOrder, Ordered, UpTo, Precedes
<1>4. CodesKept
  <2>1. 1 .. Len(<<>>) = {}
    BY <1>1
  <2>2. ASSUME NEW c \in DiscreteCodes(<<>>) PROVE FALSE
    <3>1. \E k \in 1 .. Len(<<>>) : ~IsMotion(<<>>[k]) /\ c = <<>>[k].code
      BY CodesDef
    <3> QED
      BY <2>1, <3>1
  <2> QED
    BY <2>2 DEF CardInit, CodesKept
<1> QED
  BY <1>2, <1>3, <1>4 DEF CardInv

(* The invariant says of the state what the property says. *)
LEMMA CardInvSurvive == CardInv => DiscreteEventsSurvive
<1> SUFFICES ASSUME CardInv PROVE DiscreteEventsSurvive
  OBVIOUS
<1> DEFINE events == popped \o queue
<1>1. /\ popped \in Seq(Events) /\ queue \in Seq(Events)
      /\ Len(popped) \in Nat /\ Len(queue) \in Nat
  BY LenProperties DEF CardInv, TypeOK
<1>2. /\ Len(events) = Len(popped) + Len(queue)
      /\ \A i \in 1 .. Len(popped) + Len(queue) :
            events[i] = IF i <= Len(popped) THEN popped[i] ELSE queue[i - Len(popped)]
  BY <1>1, ConcatProperties
<1> HIDE DEF events
<1>3. ASSUME NEW i \in 1 .. Len(events)
      PROVE  \/ i \in 1 .. Len(popped) /\ events[i] = popped[i]
             \/ i - Len(popped) \in 1 .. Len(queue) /\ events[i] = queue[i - Len(popped)] /\ i > Len(popped)
  BY <1>1, <1>2
<1>4. ASSUME NEW i, NEW j, i \in 1 .. Len(events), j \in 1 .. Len(events), i < j
      PROVE  Stamp(events[i]) < Stamp(events[j])
  <2>1. CASE j <= Len(popped)
    <3>1. i \in 1 .. Len(popped) /\ j \in 1 .. Len(popped) /\ events[i] = popped[i] /\ events[j] = popped[j]
      BY <1>1, <1>2, <1>4, <2>1
    <3> QED
      BY <1>4, <3>1 DEF CardInv, EventsInOrder, InOrder, Ordered
  <2>2. CASE i <= Len(popped) /\ ~(j <= Len(popped))
    <3>1. /\ i \in 1 .. Len(popped) /\ j - Len(popped) \in 1 .. Len(queue)
          /\ events[i] = popped[i] /\ events[j] = queue[j - Len(popped)]
      BY <1>1, <1>2, <1>4, <2>2
    <3> QED
      BY <3>1 DEF CardInv, EventsInOrder, InOrder, Precedes
  <2>3. CASE ~(i <= Len(popped))
    <3>1. /\ i - Len(popped) \in 1 .. Len(queue) /\ j - Len(popped) \in 1 .. Len(queue)
          /\ i - Len(popped) < j - Len(popped)
          /\ events[i] = queue[i - Len(popped)] /\ events[j] = queue[j - Len(popped)]
      BY <1>1, <1>2, <1>4, <2>3
    <3> QED
      BY <3>1 DEF CardInv, EventsInOrder, InOrder, Ordered
  <2> QED
    BY <1>1, <1>2, <1>4, <2>1, <2>2, <2>3
<1>5. DiscreteCodes(events) = DiscreteCodes(popped) \cup DiscreteCodes(queue)
  <2>1. \A i \in 1 .. Len(popped) : i \in 1 .. Len(events) /\ events[i] = popped[i]
    BY <1>1, <1>2
  <2>2. ASSUME NEW i \in 1 .. Len(queue)
        PROVE  \E k \in 1 .. Len(events) : events[k] = queue[i]
    <3>1. Len(popped) + i \in 1 .. Len(events) /\ ~(Len(popped) + i <= Len(popped))
      BY <1>1, <1>2
    <3>2. events[Len(popped) + i] = queue[i]
      BY <1>1, <1>2, <3>1
    <3> QED
      BY <3>1, <3>2
  <2>3. ASSUME NEW c \in DiscreteCodes(events)
        PROVE  c \in DiscreteCodes(popped) \cup DiscreteCodes(queue)
    <3>1. PICK k \in 1 .. Len(events) : ~IsMotion(events[k]) /\ c = events[k].code
      BY CodesDef
    <3> QED
      BY <1>3, <3>1, CodesDef
  <2>4. ASSUME NEW c \in DiscreteCodes(popped) \cup DiscreteCodes(queue)
        PROVE  c \in DiscreteCodes(events)
    <3>1. CASE c \in DiscreteCodes(popped)
      <4>1. PICK k \in 1 .. Len(popped) : ~IsMotion(popped[k]) /\ c = popped[k].code
        BY <3>1, CodesDef
      <4> QED
        BY <2>1, <4>1, CodesDef
    <3>2. CASE c \in DiscreteCodes(queue)
      <4>1. PICK k \in 1 .. Len(queue) : ~IsMotion(queue[k]) /\ c = queue[k].code
        BY <3>2, CodesDef
      <4>2. PICK j \in 1 .. Len(events) : events[j] = queue[k]
        BY <2>2
      <4> QED
        BY <4>1, <4>2, CodesDef
    <3> QED
      BY <2>4, <3>1, <3>2
  <2> QED
    BY <2>3, <2>4
<1>6. DiscreteCodes(events) = accepted
  BY <1>5 DEF CardInv, CodesKept
<1> QED
  BY <1>4, <1>6 DEF DiscreteEventsSurvive, events

(* The stamps of what was popped and of what is queued are numbers up to n. *)
LEMMA StampsAreBounded ==
    ASSUME NEW s \in Seq(Events), NEW t \in Seq(Events), NEW n, InOrder(s, t, n)
    PROVE  /\ \A i \in 1 .. Len(s) : Stamp(s[i]) \in Nat /\ Stamp(s[i]) <= n
           /\ \A i \in 1 .. Len(t) : Stamp(t[i]) \in Nat /\ Stamp(t[i]) <= n
<1>1. ASSUME NEW q \in Seq(Events), NEW i \in 1 .. Len(q) PROVE Stamp(q[i]) \in Nat
  <2>1. q[i] \in Events
    BY ElementOfSeq
  <2>2. Stamp(q[i]) \in Stamps
    BY <2>1, EventFacts
  <2> QED
    BY <2>2, InputAssumption DEF Stamps
<1>2. UpTo(s, n) /\ UpTo(t, n)
  BY DEF InOrder
<1> QED
  BY <1>1, <1>2, Zenon DEF UpTo

LEMMA LaterInOrder ==
    ASSUME NEW s \in Seq(Events), NEW t \in Seq(Events), NEW n \in Nat, InOrder(s, t, n)
    PROVE  InOrder(s, t, n + 1)
<1>1. /\ \A i \in 1 .. Len(s) : Stamp(s[i]) \in Nat
      /\ \A i \in 1 .. Len(t) : Stamp(t[i]) \in Nat
  BY ElementOfSeq, EventFacts, InputAssumption DEF Stamps
<1> QED
  BY <1>1 DEF InOrder, UpTo

(* A newer event at the end keeps the order. *)
LEMMA AppendInOrder ==
    ASSUME NEW s \in Seq(Events), NEW t \in Seq(Events), NEW n \in Nat, InOrder(s, t, n),
           NEW e \in Events, Stamp(e) = n + 1
    PROVE  InOrder(s, Append(t, e), n + 1)
<1> DEFINE u == Append(t, e)
<1>1. /\ Len(s) \in Nat /\ Len(t) \in Nat /\ Len(u) = Len(t) + 1 /\ u[Len(t) + 1] = e
      /\ \A i \in 1 .. Len(t) : u[i] = t[i]
  BY AppendEvent, LenProperties
<1>2. /\ \A i \in 1 .. Len(s) : Stamp(s[i]) \in Nat /\ Stamp(s[i]) <= n
      /\ \A i \in 1 .. Len(t) : Stamp(t[i]) \in Nat /\ Stamp(t[i]) <= n
  BY StampsAreBounded
<1> HIDE DEF u
<1>3. \A i \in 1 .. Len(u) : \/ i = Len(t) + 1 /\ Stamp(u[i]) = n + 1
                             \/ i \in 1 .. Len(t) /\ u[i] = t[i] /\ Stamp(u[i]) <= n
  BY <1>1, <1>2
<1>4. Ordered(u)
  <2> SUFFICES ASSUME NEW i \in 1 .. Len(u), NEW j \in 1 .. Len(u), i < j
               PROVE  Stamp(u[i]) < Stamp(u[j])
    BY DEF Ordered
  <2>1. i \in 1 .. Len(t) /\ u[i] = t[i] /\ Stamp(t[i]) \in Nat /\ Stamp(t[i]) <= n
    BY <1>1, <1>2
  <2>2. CASE j = Len(t) + 1
    BY <1>3, <2>1, <2>2
  <2>3. CASE j \in 1 .. Len(t) /\ u[j] = t[j]
    BY <2>1, <2>3 DEF InOrder, Ordered
  <2> QED
    BY <1>3, <2>2, <2>3
<1>5. Precedes(s, u)
  <2> SUFFICES ASSUME NEW i \in 1 .. Len(s), NEW j \in 1 .. Len(u)
               PROVE  Stamp(s[i]) < Stamp(u[j])
    BY DEF Precedes
  <2>1. CASE j = Len(t) + 1
    BY <1>2, <1>3, <2>1
  <2>2. CASE j \in 1 .. Len(t) /\ u[j] = t[j]
    BY <2>2 DEF InOrder, Precedes
  <2> QED
    BY <1>3, <2>1, <2>2
<1>6. UpTo(s, n + 1) /\ UpTo(u, n + 1)
  <2>1. UpTo(s, n + 1)
    BY <1>2 DEF UpTo
  <2>2. ASSUME NEW i \in 1 .. Len(u) PROVE Stamp(u[i]) <= n + 1
    <3>1. CASE Stamp(u[i]) = n + 1
      BY <3>1
    <3>2. CASE i \in 1 .. Len(t) /\ u[i] = t[i]
      <4>1. Stamp(u[i]) \in Nat /\ Stamp(u[i]) <= n
        BY <1>2, <3>2, Zenon
      <4> QED
        BY <4>1
    <3> QED
      BY <1>3, <3>1, <3>2, Zenon
  <2> QED
    BY <2>1, <2>2 DEF UpTo
<1>7. Ordered(s)
  BY DEF InOrder
<1> QED
  BY <1>4, <1>5, <1>6, <1>7 DEF InOrder, u

(* What is left of an ordered queue is in order: f says where each entry
   that is left was before. *)
LEMMA SubsequenceInOrder ==
    ASSUME NEW s, NEW t \in Seq(Events), NEW n, InOrder(s, t, n),
           NEW u \in Seq(Events), NEW f \in [1 .. Len(u) -> 1 .. Len(t)],
           \A i \in 1 .. Len(u) : u[i] = t[f[i]],
           \A i, j \in 1 .. Len(u) : i < j => f[i] < f[j]
    PROVE  InOrder(s, u, n)
BY DEF InOrder, Ordered, Precedes, UpTo

(* The head may leave for the end of what was popped. *)
LEMMA PopInOrder ==
    ASSUME NEW s \in Seq(Events), NEW t \in Seq(Events), NEW n, InOrder(s, t, n), t # <<>>
    PROVE  InOrder(Append(s, Head(t)), Tail(t), n)
<1> DEFINE a == Append(s, Head(t))
           b == Tail(t)
<1>1. /\ Len(t) \in Nat \ {0} /\ Len(b) = Len(t) - 1
      /\ Head(t) \in Events /\ Head(t) = t[1]
      /\ \A i \in 1 .. Len(b) : b[i] = t[i + 1]
  BY PopEvent
<1>2. /\ Len(s) \in Nat /\ Len(a) = Len(s) + 1
      /\ \A i \in 1 .. Len(s) : a[i] = s[i]
      /\ a[Len(s) + 1] = t[1]
  BY <1>1, AppendEvent, LenProperties
<1> HIDE DEF a, b
<1>3. \A i \in 1 .. Len(a) : \/ i = Len(s) + 1 /\ a[i] = t[1]
                             \/ i \in 1 .. Len(s) /\ a[i] = s[i]
  BY <1>2
<1>4. 1 \in 1 .. Len(t) /\ \A i \in 1 .. Len(b) : i + 1 \in 1 .. Len(t) /\ 1 < i + 1
  BY <1>1
<1>5. Ordered(a)
  <2> SUFFICES ASSUME NEW i \in 1 .. Len(a), NEW j \in 1 .. Len(a), i < j
               PROVE  Stamp(a[i]) < Stamp(a[j])
    BY DEF Ordered
  <2>1. i \in 1 .. Len(s) /\ a[i] = s[i]
    BY <1>2
  <2>2. CASE j = Len(s) + 1 /\ a[j] = t[1]
    BY <1>4, <2>1, <2>2 DEF InOrder, Precedes
  <2>3. CASE j \in 1 .. Len(s) /\ a[j] = s[j]
    BY <2>1, <2>3 DEF InOrder, Ordered
  <2> QED
    BY <1>3, <2>2, <2>3
<1>6. Ordered(b)
  <2> SUFFICES ASSUME NEW i \in 1 .. Len(b), NEW j \in 1 .. Len(b), i < j
               PROVE  Stamp(b[i]) < Stamp(b[j])
    BY DEF Ordered
  <2>1. i + 1 < j + 1
    BY <1>1
  <2> QED
    BY <1>1, <1>4, <2>1 DEF InOrder, Ordered
<1>7. Precedes(a, b)
  <2> SUFFICES ASSUME NEW i \in 1 .. Len(a), NEW j \in 1 .. Len(b)
               PROVE  Stamp(a[i]) < Stamp(b[j])
    BY DEF Precedes
  <2>1. CASE a[i] = t[1]
    BY <1>1, <1>4, <2>1 DEF InOrder, Ordered
  <2>2. CASE i \in 1 .. Len(s) /\ a[i] = s[i]
    BY <1>1, <1>4, <2>2 DEF InOrder, Precedes
  <2> QED
    BY <1>3, <2>1, <2>2
<1>8. UpTo(a, n) /\ UpTo(b, n)
  BY <1>1, <1>3, <1>4 DEF InOrder, UpTo
<1> QED
  BY <1>5, <1>6, <1>7, <1>8 DEF InOrder, a, b

(* The newest motion may be made newer in its place. *)
LEMMA CoalesceInOrder ==
    ASSUME NEW s \in Seq(Events), NEW t \in Seq(Events), NEW n \in Nat, InOrder(s, t, n),
           t # <<>>, NEW e \in Events, Stamp(e) = n + 1,
           NEW u \in Seq(Events), Len(u) = Len(t),
           \A i \in 1 .. Len(t) : u[i] = IF i = Len(t) THEN e ELSE t[i]
    PROVE  InOrder(s, u, n + 1)
<1>1. Len(s) \in Nat /\ Len(t) \in Nat \ {0}
  BY LenProperties, EmptySeq
<1>2. /\ \A i \in 1 .. Len(s) : Stamp(s[i]) \in Nat /\ Stamp(s[i]) <= n
      /\ \A i \in 1 .. Len(t) : Stamp(t[i]) \in Nat /\ Stamp(t[i]) <= n
  BY StampsAreBounded
<1>3. \A i \in 1 .. Len(u) : \/ i = Len(t) /\ Stamp(u[i]) = n + 1
                             \/ i # Len(t) /\ i \in 1 .. Len(t) /\ u[i] = t[i] /\ Stamp(u[i]) <= n
  BY <1>1, <1>2
<1>4. Ordered(u)
  <2> SUFFICES ASSUME NEW i \in 1 .. Len(u), NEW j \in 1 .. Len(u), i < j
               PROVE  Stamp(u[i]) < Stamp(u[j])
    BY DEF Ordered
  <2>1. i \in 1 .. Len(t) /\ u[i] = t[i] /\ Stamp(t[i]) \in Nat /\ Stamp(t[i]) <= n
    BY <1>1, <1>2
  <2>2. CASE j = Len(t) /\ Stamp(u[j]) = n + 1
    BY <2>1, <2>2
  <2>3. CASE j \in 1 .. Len(t) /\ u[j] = t[j]
    BY <2>1, <2>3 DEF InOrder, Ordered
  <2> QED
    BY <1>3, <2>2, <2>3
<1>5. Precedes(s, u)
  <2> SUFFICES ASSUME NEW i \in 1 .. Len(s), NEW j \in 1 .. Len(u)
               PROVE  Stamp(s[i]) < Stamp(u[j])
    BY DEF Precedes
  <2>1. CASE Stamp(u[j]) = n + 1
    BY <1>2, <2>1
  <2>2. CASE j \in 1 .. Len(t) /\ u[j] = t[j]
    BY <2>2 DEF InOrder, Precedes
  <2> QED
    BY <1>3, <2>1, <2>2
<1>6. UpTo(s, n + 1) /\ UpTo(u, n + 1)
  <2>1. UpTo(s, n + 1)
    BY <1>2 DEF UpTo
  <2>2. ASSUME NEW i \in 1 .. Len(u) PROVE Stamp(u[i]) <= n + 1
    <3>1. CASE Stamp(u[i]) = n + 1
      BY <3>1
    <3>2. CASE i \in 1 .. Len(t) /\ u[i] = t[i]
      <4>1. Stamp(u[i]) \in Nat /\ Stamp(u[i]) <= n
        BY <1>2, <3>2, Zenon
      <4> QED
        BY <4>1
    <3> QED
      BY <1>3, <3>1, <3>2, Zenon
  <2> QED
    BY <2>1, <2>2 DEF UpTo
<1>7. Ordered(s)
  BY DEF InOrder
<1> QED
  BY <1>4, <1>5, <1>6, <1>7 DEF InOrder

-----------------------------------------------------------------------------
(* The steps.  First the two pushes, then what the guest does.             *)

LEMMA MotionStep == CardInv /\ push_pointer_motion => CardInv'
<1> SUFFICES ASSUME CardInv, push_pointer_motion PROVE CardInv'
  OBVIOUS
<1> DEFINE m == Motion(pushes + 1)
<1>1. /\ queue \in Seq(Events) /\ popped \in Seq(Events)
      /\ Len(queue) \in Nat /\ Len(popped) \in Nat /\ pushes \in Nat
      /\ \A i \in 1 .. Len(queue) : queue[i] \in Events
      /\ \A i \in 1 .. Len(popped) : popped[i] \in Events
  BY LenProperties, ElementOfSeq, InputAssumption DEF CardInv, TypeOK
<1>2. /\ pushes + 1 \in Stamps /\ pushes' = pushes + 1 /\ pushes' \in 0 .. MaxPushes
      /\ UNCHANGED <<overflow, int_enable, ports, accepted, popped>>
  BY <1>1, InputAssumption DEF push_pointer_motion, Stamps
<1>3. m \in Events /\ IsMotion(m) /\ Stamp(m) = pushes + 1
  BY <1>2, EventFacts
<1>4. \A e \in Events : Stamp(e) \in Nat
  BY EventFacts, InputAssumption DEF Stamps
<1> HIDE DEF m
<1>5. CASE /\ tail_motion_index # {} /\ int_status' = TRUE
           /\ queue' = [i \in 1 .. Len(queue) |-> IF i \in tail_motion_index THEN m ELSE queue[i]]
  <2>1. Len(queue) > 0 /\ IsMotion(queue[Len(queue)]) /\ \A i : i \in tail_motion_index <=> i = Len(queue)
    BY <1>5 DEF tail_motion_index
  <2>2. queue' \in Seq(Events) /\ Len(queue') = Len(queue)
    BY <1>1, <1>3, <1>5
  <2>3. \A i \in 1 .. Len(queue) : queue'[i] = IF i = Len(queue) THEN m ELSE queue[i]
    BY <1>5, <2>1
  <2>4. DiscreteCodes(queue') = DiscreteCodes(queue)
    BY <1>3, <2>1, <2>2, <2>3 DEF DiscreteCodes
  <2>5. TypeOK' /\ LatchCoversQueue' /\ CodesKept'
    BY <1>2, <1>5, <2>2, <2>4, Zenon DEF CardInv, TypeOK, LatchCoversQueue, CodesKept
  <2>6. EventsInOrder'
    BY <1>1, <1>2, <1>3, <2>1, <2>2, <2>3, CoalesceInOrder DEF CardInv, EventsInOrder
  <2> QED
    BY <2>5, <2>6 DEF CardInv
<1>6. CASE queue' = Append(queue, m) /\ ~is_full /\ int_status' = TRUE
  <2>1. /\ queue' \in Seq(Events) /\ Len(queue') = Len(queue) + 1
        /\ \A i \in 1 .. Len(queue) : queue'[i] = queue[i]
        /\ queue'[Len(queue) + 1] = m
        /\ DiscreteCodes(queue') = DiscreteCodes(queue)
    <3>1. CodeOf(m) = {}
      BY <1>3 DEF CodeOf
    <3>2. /\ Append(queue, m) \in Seq(Events) /\ Len(Append(queue, m)) = Len(queue) + 1
          /\ \A i \in 1 .. Len(queue) : Append(queue, m)[i] = queue[i]
          /\ Append(queue, m)[Len(queue) + 1] = m
          /\ DiscreteCodes(Append(queue, m)) = DiscreteCodes(queue) \cup CodeOf(m)
      BY <1>1, <1>3, AppendEvent, Zenon
    <3> QED
      BY <1>6, <3>1, <3>2
  <2>2. Len(queue') <= QueueCapacity
    BY <1>1, <1>6, <2>1, InputAssumption DEF CardInv, TypeOK, is_full
  <2>3. TypeOK' /\ LatchCoversQueue' /\ CodesKept'
    BY <1>2, <1>6, <2>1, <2>2, Zenon DEF CardInv, TypeOK, LatchCoversQueue, CodesKept
  <2>4. EventsInOrder'
    BY <1>1, <1>2, <1>3, <1>6, AppendInOrder DEF CardInv, EventsInOrder
  <2> QED
    BY <2>3, <2>4 DEF CardInv
<1>7. CASE UNCHANGED <<queue, int_status>>
  <2>1. TypeOK' /\ LatchCoversQueue' /\ CodesKept'
    BY <1>2, <1>7, Zenon DEF CardInv, TypeOK, LatchCoversQueue, CodesKept
  <2>2. EventsInOrder'
    BY <1>1, <1>2, <1>7, LaterInOrder DEF CardInv, EventsInOrder
  <2> QED
    BY <2>1, <2>2 DEF CardInv
<1> QED
  BY <1>5, <1>6, <1>7 DEF push_pointer_motion, m

LEMMA DiscreteStep == CardInv /\ push_discrete => CardInv'
<1> SUFFICES ASSUME CardInv, push_discrete PROVE CardInv'
  OBVIOUS
<1> DEFINE d == Discrete(pushes + 1)
<1>1. /\ queue \in Seq(Events) /\ popped \in Seq(Events)
      /\ Len(queue) \in Nat /\ Len(popped) \in Nat /\ pushes \in Nat
  BY LenProperties, InputAssumption DEF CardInv, TypeOK
<1>2. /\ pushes + 1 \in Stamps /\ pushes' = pushes + 1 /\ pushes' \in 0 .. MaxPushes
      /\ int_status' = TRUE
      /\ UNCHANGED <<int_enable, ports, popped>>
  BY <1>1, InputAssumption DEF push_discrete, Stamps
<1>3. d \in Events /\ Stamp(d) = pushes + 1 /\ CodeOf(d) = {pushes + 1}
  BY <1>2, EventFacts DEF CodeOf
<1> HIDE DEF d
<1>4. ASSUME NEW q \in Seq(Events), queue' = Append(q, d),
             InOrder(popped, q, pushes), DiscreteCodes(q) = DiscreteCodes(queue),
             Len(q) \in Nat, Len(q) < QueueCapacity,
             accepted' = accepted \cup {pushes + 1}, overflow' = overflow
      PROVE  CardInv'
  <2>1. /\ queue' \in Seq(Events) /\ Len(queue') = Len(q) + 1
        /\ DiscreteCodes(queue') = DiscreteCodes(queue) \cup {pushes + 1}
    <3>1. /\ Append(q, d) \in Seq(Events) /\ Len(Append(q, d)) = Len(q) + 1
          /\ DiscreteCodes(Append(q, d)) = DiscreteCodes(q) \cup CodeOf(d)
      BY <1>3, AppendEvent, Zenon
    <3> QED
      BY <1>3, <1>4, <3>1
  <2>2. Len(queue') <= QueueCapacity /\ accepted' \subseteq 1 .. MaxPushes
    BY <1>2, <1>4, <2>1, InputAssumption DEF CardInv, TypeOK, Stamps
  <2>3. TypeOK' /\ LatchCoversQueue'
    BY <1>2, <1>4, <2>1, <2>2, Zenon DEF CardInv, TypeOK, LatchCoversQueue
  <2>4. CodesKept'
    BY <1>2, <1>4, <2>1 DEF CardInv, CodesKept
  <2>5. EventsInOrder'
    BY <1>1, <1>2, <1>3, <1>4, AppendInOrder DEF EventsInOrder
  <2> QED
    BY <2>3, <2>4, <2>5 DEF CardInv
<1>5. CASE /\ ~is_full /\ queue' = Append(queue, d)
           /\ accepted' = accepted \cup {pushes + 1} /\ UNCHANGED overflow
  <2>1. Len(queue) < QueueCapacity
    BY <1>1, <1>5, InputAssumption DEF CardInv, TypeOK, is_full
  <2> QED
    BY <1>1, <1>4, <1>5, <2>1 DEF CardInv, EventsInOrder
<1>6. CASE /\ is_full /\ \E i \in motion_index : queue' = Append(remove(i), d)
           /\ accepted' = accepted \cup {pushes + 1} /\ UNCHANGED overflow
  <2>1. PICK i \in motion_index : queue' = Append(remove(i), d)
    BY <1>6
  <2>2. /\ i \in 1 .. Len(queue)
        /\ remove(i) \in Seq(Events) /\ Len(queue) \in Nat \ {0}
        /\ Len(remove(i)) = Len(queue) - 1
        /\ \A k \in 1 .. Len(queue) - 1 :
              remove(i)[k] = IF k < i THEN queue[k] ELSE queue[k + 1]
        /\ DiscreteCodes(remove(i)) = DiscreteCodes(queue)
    BY <1>1, RemoveMotion
  <2> DEFINE f == [k \in 1 .. Len(remove(i)) |-> IF k < i THEN k ELSE k + 1]
  <2>3. /\ f \in [1 .. Len(remove(i)) -> 1 .. Len(queue)]
        /\ \A k \in 1 .. Len(remove(i)) : remove(i)[k] = queue[f[k]]
        /\ \A j, k \in 1 .. Len(remove(i)) : j < k => f[j] < f[k]
    BY <2>2
  <2> HIDE DEF f
  <2>4. InOrder(popped, remove(i), pushes)
    BY <1>1, <2>2, <2>3, SubsequenceInOrder DEF CardInv, EventsInOrder
  <2>5. Len(remove(i)) \in Nat /\ Len(remove(i)) < QueueCapacity
    BY <2>2, InputAssumption DEF CardInv, TypeOK
  <2> QED
    BY <1>4, <1>6, <2>1, <2>2, <2>4, <2>5
<1>7. CASE overflow' = (overflow + 1) % CounterLimit /\ UNCHANGED <<queue, accepted>>
  <2>1. overflow' \in 0 .. CounterLimit - 1
    BY <1>7, InputAssumption DEF CardInv, TypeOK
  <2>2. TypeOK' /\ LatchCoversQueue' /\ CodesKept'
    BY <1>2, <1>7, <2>1, Zenon DEF CardInv, TypeOK, LatchCoversQueue, CodesKept
  <2>3. EventsInOrder'
    BY <1>1, <1>2, <1>7, LaterInOrder DEF CardInv, EventsInOrder
  <2> QED
    BY <2>2, <2>3 DEF CardInv
<1> QED
  BY <1>5, <1>6, <1>7 DEF push_discrete, d

(* A step that moves nothing, and clears the latch of an empty queue only. *)
Quiet ==
    /\ int_status' = int_status \/ queue = <<>>
    /\ int_status' \in BOOLEAN /\ int_enable' \in BOOLEAN /\ ports' \in BOOLEAN
    /\ UNCHANGED <<queue, overflow, history>>

LEMMA QuietStep == CardInv /\ Quiet => CardInv'
<1> SUFFICES ASSUME CardInv, Quiet PROVE CardInv'
  OBVIOUS
<1>1. TypeOK'
  BY DEF CardInv, Quiet, TypeOK, history
<1>2. LatchCoversQueue'
  <2>1. queue' = queue
    BY DEF Quiet
  <2>2. queue # <<>> => int_status = TRUE
    BY DEF CardInv, LatchCoversQueue, TypeOK
  <2>3. queue # <<>> => int_status' = TRUE
    BY <2>2 DEF Quiet
  <2> QED
    BY <2>1, <2>3, Zenon DEF LatchCoversQueue
<1>3. EventsInOrder' /\ CodesKept'
  BY DEF CardInv, Quiet, EventsInOrder, CodesKept, history
<1> QED
  BY <1>1, <1>2, <1>3 DEF CardInv

LEMMA AdvanceStep == CardInv /\ Advance => CardInv'
<1> SUFFICES ASSUME CardInv, Advance PROVE CardInv'
  OBVIOUS
<1>1. /\ ports' \in BOOLEAN
      /\ UNCHANGED <<overflow, int_status, int_enable, pushes, accepted>>
  BY DEF CardInv, TypeOK, Advance, RaisePorts, irq_pending
<1>2. CASE queue = <<>>
  <2>1. queue' = queue /\ popped' = popped
    BY <1>2 DEF Advance
  <2>2. Quiet
    BY <1>1, <2>1 DEF Quiet, CardInv, TypeOK, history
  <2> QED
    BY <2>2, QuietStep
<1>3. CASE queue # <<>>
  <2> DEFINE h == Head(queue)
  <2>1. queue' = Tail(queue) /\ popped' = Append(popped, h)
    BY <1>3 DEF Advance
  <2>2. /\ queue \in Seq(Events) /\ popped \in Seq(Events) /\ Len(popped) \in Nat
        /\ pushes \in Nat
    BY LenProperties DEF CardInv, TypeOK
  <2>3. /\ h \in Events /\ h = queue[1]
        /\ queue' \in Seq(Events) /\ Len(queue) \in Nat \ {0} /\ Len(queue') = Len(queue) - 1
        /\ \A i \in 1 .. Len(queue') : queue'[i] = queue[i + 1]
        /\ DiscreteCodes(queue) = DiscreteCodes(queue') \cup CodeOf(h)
    BY <1>3, <2>1, <2>2, PopEvent
  <2>4. /\ popped' \in Seq(Events) /\ Len(popped') = Len(popped) + 1
        /\ \A i \in 1 .. Len(popped) : popped'[i] = popped[i]
        /\ popped'[Len(popped) + 1] = h
        /\ DiscreteCodes(popped') = DiscreteCodes(popped) \cup CodeOf(h)
    BY <2>1, <2>2, <2>3, AppendEvent
  <2> HIDE DEF h
  <2>5. Len(queue') <= QueueCapacity
    BY <2>3, InputAssumption DEF CardInv, TypeOK
  <2>6. TypeOK' /\ LatchCoversQueue'
    BY <1>1, <1>3, <2>3, <2>4, <2>5, Zenon DEF CardInv, TypeOK, LatchCoversQueue
  <2>7. CodesKept'
    BY <1>1, <2>3, <2>4 DEF CardInv, CodesKept
  <2>8. InOrder(popped', queue', pushes)
    BY <2>1, <2>2, <2>3, <2>4, PopInOrder DEF CardInv, EventsInOrder, h
  <2> QED
    BY <1>1, <2>6, <2>7, <2>8 DEF CardInv, EventsInOrder
<1> QED
  BY <1>2, <1>3

LEMMA CardInvNext == CardInv /\ [CardNext]_inputVars => CardInv'
<1> SUFFICES ASSUME CardInv, [CardNext]_inputVars PROVE CardInv'
  OBVIOUS
<1>1. CASE push_pointer_motion
  BY <1>1, MotionStep
<1>2. CASE push_discrete
  BY <1>2, DiscreteStep
<1>3. CASE Advance
  BY <1>3, AdvanceStep
<1>4. CASE Ack
  <2>1. Quiet
    BY <1>4, Zenon DEF Quiet, Ack, RaisePorts, irq_pending, CardInv, TypeOK, history
  <2> QED
    BY <2>1, QuietStep
<1>5. CASE ReadCard /\ UNCHANGED history
  <2>1. Quiet
    BY <1>5, Zenon DEF Quiet, ReadCard, RaisePorts, irq_pending, CardInv, TypeOK
  <2> QED
    BY <2>1, QuietStep
<1>6. CASE \E v \in BOOLEAN : SetIntEnable(v)
  <2>1. Quiet
    BY <1>6, Zenon DEF Quiet, SetIntEnable, RaisePorts, CardInv, TypeOK, history
  <2> QED
    BY <2>1, QuietStep
<1>7. CASE ClearPorts
  <2>1. Quiet
    BY <1>7, Zenon DEF Quiet, ClearPorts, CardInv, TypeOK, history
  <2> QED
    BY <2>1, QuietStep
<1>8. CASE UNCHANGED inputVars
  <2>1. Quiet
    BY <1>8, Zenon DEF Quiet, inputVars, cardVars, CardInv, TypeOK
  <2> QED
    BY <2>1, QuietStep
<1> QED
  BY <1>1, <1>2, <1>3, <1>4, <1>5, <1>6, <1>7, <1>8 DEF CardNext

(***************************************************************************)
(* The queue never holds more than QueueCapacity events, whatever is       *)
(* pushed, and its counter stays a 32-bit one: every operation of the card *)
(* keeps its registers in their types.                                     *)
(***************************************************************************)
THEOREM CardIsTyped == CardSpec => []TypeOK
<1>1. CardInv => TypeOK
  BY DEF CardInv
<1> QED
  BY <1>1, CardInvHolds, CardInvNext, PTL DEF CardSpec

(***************************************************************************)
(* push_discrete and push_pointer_motion, the eviction and the coalescing  *)
(* lose no discrete event and never reorder, for every queue depth.        *)
(***************************************************************************)
THEOREM DiscreteEventsAreKept == CardSpec => []DiscreteEventsSurvive
BY CardInvHolds, CardInvNext, CardInvSurvive, PTL DEF CardSpec

(***************************************************************************)
(* The gate of INT_STATUS's write-1-to-clear keeps the latch set while     *)
(* anything is queued.                                                     *)
(***************************************************************************)
THEOREM LatchIsKept == CardSpec => []LatchCoversQueue
<1>1. CardInv => LatchCoversQueue
  BY DEF CardInv
<1> QED
  BY <1>1, CardInvHolds, CardInvNext, PTL DEF CardSpec

-----------------------------------------------------------------------------
(* The card under this driver.                                             *)

LEMMA DriverKeepsCardInv == CardInv /\ DriverAssumption /\ [DriverNext]_driverVars => CardInv'
<1> SUFFICES ASSUME CardInv, [DriverNext]_driverVars, DriverAssumption PROVE CardInv'
  OBVIOUS
<1>1. CASE HostPush
  BY <1>1, MotionStep, DiscreteStep DEF HostPush
<1>2. CASE WriteAdvance
  BY <1>2, AdvanceStep DEF WriteAdvance
<1>3. CASE WriteAck
  <2>1. Ack
    BY <1>3 DEF WriteAck
  <2> QED
    BY <2>1, CardInvNext DEF CardNext
<1>4. CASE EnableInt2
  <2>1. SetIntEnable(TRUE)
    BY <1>4 DEF EnableInt2
  <2> QED
    BY <2>1, CardInvNext DEF CardNext
<1>5. CASE \/ ReadField("code", "code", "x") \/ ReadField("x", "x", "y")
           \/ ReadField("y", "y", "store")
  <2>1. ReadCard /\ UNCHANGED history
    BY <1>5 DEF ReadField
  <2> QED
    BY <2>1, CardInvNext DEF CardNext
<1>6. CASE ReadType
  <2>1. CASE ReadCard /\ UNCHANGED history
    BY <2>1, CardInvNext DEF CardNext
  <2>2. CASE UNCHANGED <<cardVars, history>>
    <3>1. UNCHANGED inputVars
      BY <2>2 DEF inputVars
    <3> QED
      BY <3>1, CardInvNext
  <2> QED
    BY <1>6, <2>1, <2>2 DEF ReadType
<1>7. CASE TakeInt2 \/ SignalAndExit \/ OtherSource
  <2>1. ports' \in BOOLEAN /\ UNCHANGED <<queue, overflow, int_status, int_enable, history>>
    <3>1. CASE TakeInt2
      BY <3>1 DEF TakeInt2, DriverAssumption
    <3>2. CASE SignalAndExit
      BY <3>2, Zenon DEF SignalAndExit, CardInv, TypeOK
    <3>3. CASE OtherSource
      BY <3>3 DEF OtherSource
    <3> QED
      BY <1>7, <3>1, <3>2, <3>3
  <2>2. Quiet
    BY <2>1 DEF Quiet, CardInv, TypeOK
  <2> QED
    BY <2>2, QuietStep
<1>8. CASE Store \/ Wait \/ drain_and_dispatch \/ UNCHANGED driverVars
  <2>1. UNCHANGED inputVars
    BY <1>8 DEF Store, Wait, drain_and_dispatch, driverVars
  <2> QED
    BY <2>1, CardInvNext
<1> QED
  BY <1>1, <1>2, <1>3, <1>4, <1>5, <1>6, <1>7, <1>8 DEF DriverNext, IntHandler

(***************************************************************************)
(* Under the driver, whatever the host pushes between two of its register  *)
(* accesses, the card loses no discrete event, keeps the order and never   *)
(* leaves an event behind a cleared latch.                                 *)
(***************************************************************************)
THEOREM DriverKeepsEvents == DriverSpec => [](DiscreteEventsSurvive /\ LatchCoversQueue)
<1>1. DriverInit => CardInv
  BY CardInvHolds DEF DriverInit
<1>2. CardInv => DiscreteEventsSurvive /\ LatchCoversQueue
  BY CardInvSurvive DEF CardInv
<1> QED
  BY <1>1, <1>2, DriverKeepsCardInv, DriverAssumption, PTL DEF DriverSpec

-----------------------------------------------------------------------------
(***************************************************************************)
(* The order of what is dispatched.  Dispatched and ring together are the  *)
(* events stored so far; a position n is `Past` if every stored event has  *)
(* a smaller one.  The events queued behind the one being moved, and the   *)
(* next push, are always past what is stored, and so is the head until it  *)
(* is stored; the registers hold, once read, the position of a discrete    *)
(* head, or one a motion head had when it was read.                        *)
(***************************************************************************)
AnyEvent == [type : {"NONE", "DISCRETE", "MOTION"},
             code : 0 .. MaxPushes, x : 0 .. MaxPushes, y : 0 .. MaxPushes]

Sorted(s) == \A i, j \in 1 .. Len(s) :
                i < j /\ Stamp(s[j]) # 0 => Stamp(s[i]) < Stamp(s[j])
Follows(s, t) == \A i \in 1 .. Len(s), j \in 1 .. Len(t) :
                    Stamp(t[j]) # 0 => Stamp(s[i]) < Stamp(t[j])
Below(s, n) == \A i \in 1 .. Len(s) : Stamp(s[i]) < n
Past(n) == Below(dispatched, n) /\ Below(ring, n)

(* Where the events not yet stored begin. *)
Next1 == IF pc = "advance" THEN 2 ELSE 1

DriverTypes ==
    /\ pc \in {"out", "drain", "code", "x", "y", "store", "advance", "ack", "signal"}
    /\ event \in AnyEvent
    /\ ring \in Seq(AnyEvent) /\ dispatched \in Seq(AnyEvent)

StoredInOrder == Sorted(dispatched) /\ Sorted(ring) /\ Follows(dispatched, ring)

QueueIsPast ==
    /\ Past(pushes + 1)
    /\ \A k \in Next1 .. Len(queue) : Past(Stamp(queue[k]))

(* A position that may be stored now. *)
Storable(n) ==
    n = 0 \/ (Past(n) /\ n <= pushes /\ \A k \in 2 .. Len(queue) : n < Stamp(queue[k]))

RegistersAgree ==
    /\ Reading => /\ queue # <<>> /\ event.type \in {"DISCRETE", "MOTION"}
                  /\ event.type = "DISCRETE" => ~IsMotion(queue[1])
    /\ pc \in {"x", "y", "store"} /\ event.type = "DISCRETE" => event.code = Stamp(queue[1])
    /\ pc \in {"y", "store"} /\ event.type = "MOTION" => Storable(event.x)

OrderInv == DriverTypes /\ StoredInOrder /\ QueueIsPast /\ RegistersAgree

LEMMA EventTypes ==
    \A e \in Events : /\ e \in AnyEvent /\ e.type \in {"DISCRETE", "MOTION"}
                      /\ IsMotion(e) <=> e.type = "MOTION"
                      /\ IsMotion(e) => e.x = Stamp(e)
                      /\ ~IsMotion(e) => e.code = Stamp(e) /\ e.x = 0
                      /\ Stamp(e) \in Stamps
<1> SUFFICES ASSUME NEW e \in Events
             PROVE  /\ e \in AnyEvent /\ e.type \in {"DISCRETE", "MOTION"}
                    /\ IsMotion(e) <=> e.type = "MOTION"
                    /\ IsMotion(e) => e.x = Stamp(e)
                    /\ ~IsMotion(e) => e.code = Stamp(e) /\ e.x = 0
                    /\ Stamp(e) \in Stamps
  OBVIOUS
<1>1. PICK n \in Stamps : e = Discrete(n) \/ e = Motion(n)
  BY Zenon DEF Events, Stamps
<1>2. n \in 0 .. MaxPushes /\ 0 \in 0 .. MaxPushes
  BY <1>1, InputAssumption DEF Stamps
<1>3. CASE e = Discrete(n)
  BY <1>1, <1>2, <1>3, EventFacts DEF Discrete, AnyEvent, IsMotion, Stamp
<1>4. CASE e = Motion(n)
  BY <1>1, <1>2, <1>4, EventFacts DEF Motion, AnyEvent, IsMotion, Stamp
<1> QED
  BY <1>1, <1>3, <1>4

LEMMA StampType == \A e \in AnyEvent : Stamp(e) \in Nat
BY InputAssumption DEF AnyEvent, Stamp

(***************************************************************************)
(* What a push does to the queue, seen from the handler: an entry is the   *)
(* new event or one that was at its place or behind it, and the head stays *)
(* unless it is a motion.                                                  *)
(***************************************************************************)
Pushed ==
    /\ pushes' = pushes + 1
    /\ queue' \in Seq(Events)
    /\ \A k \in 1 .. Len(queue') :
          \/ Stamp(queue'[k]) = pushes + 1
          \/ \E j \in 1 .. Len(queue) : k <= j /\ queue'[k] = queue[j]
    /\ queue # <<>> => queue' # <<>> /\ (~IsMotion(queue[1]) => queue'[1] = queue[1])

LEMMA PushShape == CardInv /\ (push_discrete \/ push_pointer_motion) => Pushed
<1> SUFFICES ASSUME CardInv, push_discrete \/ push_pointer_motion PROVE Pushed
  OBVIOUS
<1>1. /\ queue \in Seq(Events) /\ Len(queue) \in Nat /\ pushes \in Nat
      /\ queue # <<>> => Len(queue) \in Nat \ {0}
  BY LenProperties, EmptySeq, InputAssumption DEF CardInv, TypeOK
<1>2. pushes' = pushes + 1 /\ pushes + 1 \in Stamps
  BY <1>1, InputAssumption DEF push_discrete, push_pointer_motion, Stamps
<1>3. /\ Motion(pushes + 1) \in Events /\ Stamp(Motion(pushes + 1)) = pushes + 1
      /\ Discrete(pushes + 1) \in Events /\ Stamp(Discrete(pushes + 1)) = pushes + 1
  BY <1>2, EventFacts
<1>4. CASE UNCHANGED queue
  BY <1>1, <1>2, <1>4 DEF Pushed
<1>5. ASSUME NEW q \in Seq(Events), NEW e \in Events, Stamp(e) = pushes + 1,
             queue' = Append(q, e), Len(q) \in Nat,
             \A k \in 1 .. Len(q) : \E j \in 1 .. Len(queue) : k <= j /\ q[k] = queue[j],
             queue # <<>> /\ ~IsMotion(queue[1]) => 1 \in 1 .. Len(q) /\ q[1] = queue[1]
      PROVE  Pushed
  <2>1. /\ queue' \in Seq(Events) /\ Len(queue') = Len(q) + 1 /\ queue' # <<>>
        /\ \A k \in 1 .. Len(q) : queue'[k] = q[k]
        /\ queue'[Len(q) + 1] = e
    BY <1>5, AppendProperties
  <2>2. ASSUME NEW k \in 1 .. Len(queue')
        PROVE  \/ Stamp(queue'[k]) = pushes + 1
               \/ \E j \in 1 .. Len(queue) : k <= j /\ queue'[k] = queue[j]
    <3>1. k = Len(q) + 1 \/ k \in 1 .. Len(q)
      BY <1>5, <2>1
    <3> QED
      BY <1>5, <2>1, <3>1
  <2>3. ASSUME queue # <<>>, ~IsMotion(queue[1]) PROVE queue'[1] = queue[1]
    BY <1>5, <2>1, <2>3
  <2> QED
    BY <1>2, <2>1, <2>2, <2>3 DEF Pushed
<1>6. ASSUME NEW e \in Events, Stamp(e) = pushes + 1, queue' = Append(queue, e) PROVE Pushed
  <2>1. \A k \in 1 .. Len(queue) : \E j \in 1 .. Len(queue) : k <= j /\ queue[k] = queue[j]
    BY <1>1
  <2>2. queue # <<>> => 1 \in 1 .. Len(queue)
    BY <1>1
  <2> QED
    BY <1>1, <1>5, <1>6, <2>1, <2>2
<1>7. ASSUME NEW i \in motion_index, queue' = Append(remove(i), Discrete(pushes + 1))
      PROVE  Pushed
  <2>1. /\ i \in 1 .. Len(queue) /\ IsMotion(queue[i])
        /\ remove(i) \in Seq(Events) /\ Len(queue) \in Nat \ {0}
        /\ Len(remove(i)) = Len(queue) - 1
        /\ \A k \in 1 .. Len(queue) - 1 :
              remove(i)[k] = IF k < i THEN queue[k] ELSE queue[k + 1]
    BY <1>1, RemoveMotion
  <2>2. \A k \in 1 .. Len(remove(i)) :
           \E j \in 1 .. Len(queue) : k <= j /\ remove(i)[k] = queue[j]
    <3> SUFFICES ASSUME NEW k \in 1 .. Len(queue) - 1
                 PROVE  \E j \in 1 .. Len(queue) : k <= j /\ remove(i)[k] = queue[j]
      BY <2>1
    <3>1. CASE k < i
      BY <2>1, <3>1
    <3>2. CASE ~(k < i)
      <4>1. k + 1 \in 1 .. Len(queue) /\ k <= k + 1 /\ remove(i)[k] = queue[k + 1]
        BY <2>1, <3>2
      <4> QED
        BY <4>1
    <3> QED
      BY <3>1, <3>2
  <2>3. ~IsMotion(queue[1]) => 1 \in 1 .. Len(remove(i)) /\ remove(i)[1] = queue[1]
    <3> SUFFICES ASSUME ~IsMotion(queue[1])
                 PROVE  1 \in 1 .. Len(remove(i)) /\ remove(i)[1] = queue[1]
      OBVIOUS
    <3>1. 1 < i /\ 1 \in 1 .. Len(queue) - 1
      BY <2>1
    <3> QED
      BY <2>1, <3>1
  <2>4. Len(remove(i)) \in Nat
    BY <2>1
  <2> QED
    BY <1>3, <1>5, <1>7, <2>1, <2>2, <2>3, <2>4
<1>8. CASE /\ tail_motion_index # {}
           /\ queue' = [i \in 1 .. Len(queue) |->
                          IF i \in tail_motion_index THEN Motion(pushes + 1) ELSE queue[i]]
  <2>1. /\ Len(queue) > 0 /\ IsMotion(queue[Len(queue)])
        /\ \A i : i \in tail_motion_index <=> i = Len(queue)
    BY <1>8 DEF tail_motion_index
  <2>2. \A i \in 1 .. Len(queue) : queue[i] \in Events
    BY <1>1, ElementOfSeq
  <2>3. queue' \in Seq(Events) /\ Len(queue') = Len(queue)
    BY <1>1, <1>3, <1>8, <2>2
  <2>4. \A i \in 1 .. Len(queue) :
           queue'[i] = IF i = Len(queue) THEN Motion(pushes + 1) ELSE queue[i]
    BY <1>8, <2>1
  <2>5. queue' # <<>> /\ 1 \in 1 .. Len(queue)
    BY <1>1, <2>1, <2>3, EmptySeq
  <2>6. ~IsMotion(queue[1]) => queue'[1] = queue[1]
    BY <2>1, <2>4, <2>5
  <2>7. \A k \in 1 .. Len(queue') :
           \/ Stamp(queue'[k]) = pushes + 1
           \/ \E j \in 1 .. Len(queue) : k <= j /\ queue'[k] = queue[j]
    BY <1>1, <1>3, <2>3, <2>4
  <2> QED
    BY <1>2, <2>3, <2>5, <2>6, <2>7 DEF Pushed
<1>9. CASE push_discrete
  BY <1>3, <1>4, <1>6, <1>7, <1>9 DEF push_discrete
<1>10. CASE push_pointer_motion
  BY <1>3, <1>4, <1>6, <1>8, <1>10 DEF push_pointer_motion
<1> QED
  BY <1>9, <1>10

LEMMA OrderInit == DriverInit => OrderInv
<1> SUFFICES ASSUME DriverInit PROVE OrderInv
  OBVIOUS
<1>1. <<>> \in Seq(AnyEvent) /\ Len(<<>>) = 0
  BY EmptySeq
<1>2. NoEvent \in AnyEvent
  BY InputAssumption DEF NoEvent, AnyEvent
<1> QED
  BY <1>1, <1>2 DEF DriverInit, CardInit, OrderInv, DriverTypes, StoredInOrder, QueueIsPast,
     RegistersAgree, Sorted, Follows, Below, Past, Next1, Reading

(* Steps that leave the queue, the handler's registers and the stored events. *)
LEMMA OrderStill ==
    ASSUME OrderInv, UNCHANGED <<queue, pushes, event, ring, dispatched>>,
           \/ pc' = pc
           \/ /\ pc' \in {"out", "drain", "ack", "signal"}
              /\ pc # "advance"
    PROVE  OrderInv'
<1>1. DriverTypes' /\ StoredInOrder'
  BY DEF OrderInv, DriverTypes, StoredInOrder
<1>2. QueueIsPast'
  BY DEF OrderInv, DriverTypes, QueueIsPast, Past, Next1
<1>3. RegistersAgree'
  BY DEF OrderInv, DriverTypes, RegistersAgree, Reading, Storable, Past
<1> QED
  BY <1>1, <1>2, <1>3 DEF OrderInv

LEMMA OrderPush ==
    ASSUME CardInv, OrderInv, Pushed, UNCHANGED <<pc, event, ring, dispatched>>
    PROVE  OrderInv'
<1>1. DriverTypes' /\ StoredInOrder'
  BY DEF OrderInv, DriverTypes, StoredInOrder
<1>2. /\ pushes \in Nat /\ pushes' = pushes + 1
      /\ Len(queue) \in Nat /\ Len(queue') \in Nat /\ Next1 \in {1, 2} /\ Next1' = Next1
      /\ \A k \in 1 .. Len(queue) : queue[k] \in Events /\ Stamp(queue[k]) \in Nat
  BY LenProperties, ElementOfSeq, EventFacts, InputAssumption
     DEF CardInv, TypeOK, Pushed, Next1, Stamps
<1>3. \A n : Past(n)' <=> Past(n)
  BY DEF Past
<1>4. \A i \in 1 .. Len(dispatched) : Stamp(dispatched[i]) \in Nat
  BY StampType, ElementOfSeq DEF OrderInv, DriverTypes
<1>5. \A i \in 1 .. Len(ring) : Stamp(ring[i]) \in Nat
  BY StampType, ElementOfSeq DEF OrderInv, DriverTypes
<1>6. Past(pushes + 1) /\ Past(pushes' + 1)
  BY <1>2, <1>4, <1>5 DEF OrderInv, QueueIsPast, Past, Below
<1>7. QueueIsPast'
  <2>1. ASSUME NEW k \in Next1 .. Len(queue') PROVE Past(Stamp(queue'[k]))
    <3>1. k \in 1 .. Len(queue')
      BY <1>2
    <3>2. CASE Stamp(queue'[k]) = pushes + 1
      BY <1>6, <3>2
    <3>3. CASE \E j \in 1 .. Len(queue) : k <= j /\ queue'[k] = queue[j]
      <4>1. PICK j \in 1 .. Len(queue) : k <= j /\ queue'[k] = queue[j]
        BY <3>3
      <4>2. j \in Next1 .. Len(queue)
        BY <1>2, <4>1
      <4> QED
        BY <4>1, <4>2 DEF OrderInv, QueueIsPast
    <3> QED
      BY <3>1, <3>2, <3>3 DEF Pushed
  <2> QED
    BY <1>2, <1>3, <1>6, <2>1 DEF QueueIsPast
<1>8. ASSUME NEW n \in Nat, Storable(n) PROVE Storable(n)'
  <2>1. CASE n = 0
    BY <2>1 DEF Storable
  <2>2. CASE Past(n) /\ n <= pushes /\ \A k \in 2 .. Len(queue) : n < Stamp(queue[k])
    <3>1. ASSUME NEW k \in 2 .. Len(queue') PROVE n < Stamp(queue'[k])
      <4>1. k \in 1 .. Len(queue')
        BY <1>2
      <4>2. CASE Stamp(queue'[k]) = pushes + 1
        BY <1>2, <2>2, <4>2
      <4>3. CASE \E j \in 1 .. Len(queue) : k <= j /\ queue'[k] = queue[j]
        <5>1. PICK j \in 1 .. Len(queue) : k <= j /\ queue'[k] = queue[j]
          BY <4>3
        <5>2. j \in 2 .. Len(queue)
          BY <1>2, <5>1
        <5> QED
          BY <2>2, <5>1, <5>2
      <4> QED
        BY <4>1, <4>2, <4>3 DEF Pushed
    <3>2. n <= pushes'
      BY <1>2, <2>2
    <3> QED
      BY <1>3, <2>2, <3>1, <3>2 DEF Storable
  <2> QED
    BY <1>8, <2>1, <2>2 DEF Storable
<1>9. RegistersAgree'
  <2>1. Reading' <=> Reading
    BY DEF Reading
  <2>2. event.x \in Nat
    BY InputAssumption DEF OrderInv, DriverTypes, AnyEvent
  <2>3. Reading' => /\ queue' # <<>> /\ event'.type \in {"DISCRETE", "MOTION"}
                    /\ event'.type = "DISCRETE" => ~IsMotion(queue'[1])
    BY <2>1 DEF OrderInv, RegistersAgree, Pushed
  <2>4. pc' \in {"x", "y", "store"} /\ event'.type = "DISCRETE" => event'.code = Stamp(queue'[1])
    BY DEF OrderInv, RegistersAgree, Pushed, Reading
  <2>5. pc' \in {"y", "store"} /\ event'.type = "MOTION" => Storable(event.x)'
    BY <1>8, <2>2 DEF OrderInv, RegistersAgree
  <2> QED
    BY <2>3, <2>4, <2>5 DEF RegistersAgree
<1> QED
  BY <1>1, <1>7, <1>9 DEF OrderInv

(* What the registers say of the head while the handler reads it. *)
LEMMA HeadFacts ==
    ASSUME CardInv, OrderInv, queue # <<>>, pc # "advance"
    PROVE  /\ peek = queue[1] /\ queue[1] \in Events
           /\ Storable(Stamp(queue[1])) /\ Storable(0)
<1>1. /\ queue \in Seq(Events) /\ Len(queue) \in Nat \ {0} /\ Head(queue) = queue[1]
      /\ queue[1] \in Events
  BY PopEvent DEF CardInv, TypeOK
<1>2. 1 \in Next1 .. Len(queue) /\ 1 \in 1 .. Len(queue)
  BY <1>1 DEF Next1
<1>3. Past(Stamp(queue[1])) /\ Stamp(queue[1]) <= pushes
  BY <1>2 DEF OrderInv, QueueIsPast, CardInv, EventsInOrder, InOrder, UpTo
<1>4. \A k \in 2 .. Len(queue) : Stamp(queue[1]) < Stamp(queue[k])
  <2> SUFFICES ASSUME NEW k \in 2 .. Len(queue) PROVE Stamp(queue[1]) < Stamp(queue[k])
    OBVIOUS
  <2>1. k \in 1 .. Len(queue) /\ 1 < k
    BY <1>1
  <2> QED
    BY <1>2, <2>1 DEF CardInv, EventsInOrder, InOrder, Ordered
<1> QED
  BY <1>1, <1>3, <1>4 DEF Storable, peek

(* A read of one of the head's registers. *)
LEMMA OrderRead ==
    ASSUME CardInv, OrderInv, UNCHANGED <<queue, pushes, ring, dispatched>>,
           \/ /\ pc = "drain" /\ event' = [event EXCEPT !.type = peek.type]
              /\ pc' = IF queue = <<>> THEN "ack" ELSE "code"
           \/ /\ pc = "code" /\ pc' = "x" /\ event' = [event EXCEPT !["code"] = peek["code"]]
           \/ /\ pc = "x" /\ pc' = "y" /\ event' = [event EXCEPT !["x"] = peek["x"]]
           \/ /\ pc = "y" /\ pc' = "store" /\ event' = [event EXCEPT !["y"] = peek["y"]]
    PROVE  OrderInv'
<1>1. StoredInOrder'
  BY DEF OrderInv, StoredInOrder
<1>2. QueueIsPast'
  BY DEF OrderInv, DriverTypes, QueueIsPast, Past, Next1
<1>3. event \in AnyEvent /\ \A n : Storable(n)' <=> Storable(n)
  BY DEF OrderInv, DriverTypes, Storable, Past
<1>4. CASE pc = "drain" /\ queue = <<>>
  <2>1. event' = [event EXCEPT !.type = "NONE"] /\ pc' = "ack"
    BY <1>4 DEF peek, NoEvent
  <2>2. DriverTypes'
    BY <1>3, <2>1 DEF OrderInv, DriverTypes, AnyEvent
  <2>3. RegistersAgree'
    BY <2>1 DEF RegistersAgree, Reading
  <2> QED
    BY <1>1, <1>2, <2>2, <2>3 DEF OrderInv
<1>5. CASE ~(pc = "drain" /\ queue = <<>>)
  <2>1. queue # <<>> /\ pc # "advance"
    BY <1>5 DEF OrderInv, RegistersAgree, Reading
  <2>2. /\ peek = queue[1] /\ queue[1] \in Events
        /\ Storable(Stamp(queue[1])) /\ Storable(0)
    BY <2>1, HeadFacts
  <2>3. /\ peek \in AnyEvent /\ peek.type \in {"DISCRETE", "MOTION"}
        /\ IsMotion(queue[1]) <=> peek.type = "MOTION"
        /\ IsMotion(queue[1]) => peek.x = Stamp(queue[1])
        /\ ~IsMotion(queue[1]) => peek.code = Stamp(queue[1]) /\ peek.x = 0
    BY <2>2, EventTypes
  <2>4. DriverTypes'
    BY <1>3, <2>1, <2>3 DEF OrderInv, DriverTypes, AnyEvent
  <2>5. RegistersAgree'
    <3>1. CASE pc = "drain"
      <4>1. event'.type = peek.type /\ pc' = "code"
        BY <1>3, <1>5, <3>1 DEF AnyEvent
      <4> QED
        BY <2>1, <2>3, <4>1 DEF RegistersAgree, Reading
    <3>2. CASE pc = "code"
      <4>1. event'.type = event.type /\ event'.code = peek.code /\ pc' = "x"
        BY <1>3, <3>2 DEF AnyEvent
      <4> QED
        BY <2>1, <2>3, <3>2, <4>1 DEF OrderInv, RegistersAgree, Reading
    <3>3. CASE pc = "x"
      <4>1. event'.type = event.type /\ event'.code = event.code /\ event'.x = peek.x /\ pc' = "y"
        BY <1>3, <3>3 DEF AnyEvent
      <4>2. Storable(event'.x)
        BY <2>2, <2>3, <4>1
      <4> QED
        BY <1>3, <2>1, <2>3, <3>3, <4>1, <4>2 DEF OrderInv, RegistersAgree, Reading
    <3>4. CASE pc = "y"
      <4>1. event'.type = event.type /\ event'.code = event.code /\ event'.x = event.x /\ pc' = "store"
        BY <1>3, <3>4 DEF AnyEvent
      <4> QED
        BY <1>3, <2>1, <3>4, <4>1 DEF OrderInv, RegistersAgree, Reading
    <3> QED
      BY <3>1, <3>2, <3>3, <3>4
  <2> QED
    BY <1>1, <1>2, <2>4, <2>5 DEF OrderInv
<1> QED
  BY <1>4, <1>5

(* Appending to and taking from a sequence of stored events. *)
LEMMA StoredAppend ==
    ASSUME NEW s \in Seq(AnyEvent), NEW e \in AnyEvent
    PROVE  /\ Append(s, e) \in Seq(AnyEvent)
           /\ Sorted(s) /\ (Stamp(e) # 0 => Below(s, Stamp(e))) => Sorted(Append(s, e))
           /\ \A n : Below(s, n) /\ Stamp(e) < n => Below(Append(s, e), n)
           /\ \A r : Follows(r, s) /\ (Stamp(e) # 0 => Below(r, Stamp(e)))
                        => Follows(r, Append(s, e))
<1> DEFINE u == Append(s, e)
<1>1. /\ u \in Seq(AnyEvent) /\ Len(u) = Len(s) + 1 /\ Len(s) \in Nat
      /\ \A i \in 1 .. Len(s) : u[i] = s[i]
      /\ u[Len(s) + 1] = e
  BY AppendProperties, LenProperties
<1> HIDE DEF u
<1>2. \A i \in 1 .. Len(u) : \/ i = Len(s) + 1 /\ u[i] = e
                             \/ i \in 1 .. Len(s) /\ u[i] = s[i]
  BY <1>1
<1>3. ASSUME Sorted(s), Stamp(e) # 0 => Below(s, Stamp(e)) PROVE Sorted(u)
  <2> SUFFICES ASSUME NEW i \in 1 .. Len(u), NEW j \in 1 .. Len(u), i < j, Stamp(u[j]) # 0
               PROVE  Stamp(u[i]) < Stamp(u[j])
    BY DEF Sorted
  <2>1. i \in 1 .. Len(s) /\ u[i] = s[i]
    BY <1>1
  <2>2. CASE j = Len(s) + 1 /\ u[j] = e
    BY <1>3, <2>1, <2>2 DEF Below
  <2>3. CASE j \in 1 .. Len(s) /\ u[j] = s[j]
    BY <1>3, <2>1, <2>3 DEF Sorted
  <2> QED
    BY <1>2, <2>2, <2>3
<1>4. ASSUME NEW n, Below(s, n), Stamp(e) < n PROVE Below(u, n)
  BY <1>2, <1>4 DEF Below
<1>5. ASSUME NEW r, Follows(r, s), Stamp(e) # 0 => Below(r, Stamp(e)) PROVE Follows(r, u)
  BY <1>2, <1>5 DEF Below, Follows
<1> QED
  BY <1>1, <1>3, <1>4, <1>5 DEF u

LEMMA OrderStore ==
    ASSUME CardInv, OrderInv, pc = "store", pc' = "advance", ring' = Append(ring, event),
           UNCHANGED <<queue, pushes, event, dispatched>>
    PROVE  OrderInv'
<1>1. /\ event \in AnyEvent /\ ring \in Seq(AnyEvent) /\ dispatched \in Seq(AnyEvent)
      /\ queue # <<>> /\ event.type \in {"DISCRETE", "MOTION"} /\ pushes \in Nat
      /\ queue \in Seq(Events) /\ Len(queue) \in Nat
  BY LenProperties, InputAssumption
     DEF OrderInv, DriverTypes, RegistersAgree, Reading, CardInv, TypeOK
<1> DEFINE n == Stamp(event)
<1>2. Storable(n) /\ n \in Nat
  <2>1. CASE event.type = "DISCRETE"
    <3>1. event.code = Stamp(queue[1]) /\ n = event.code
      BY <2>1 DEF OrderInv, RegistersAgree, Stamp, IsMotion
    <3> QED
      BY <1>1, <3>1, HeadFacts, StampType
  <2>2. CASE event.type = "MOTION"
    <3>1. n = event.x
      BY <2>2 DEF Stamp, IsMotion
    <3> QED
      BY <1>1, <2>2, <3>1, StampType DEF OrderInv, RegistersAgree
  <2> QED
    BY <1>1, <2>1, <2>2
<1> HIDE DEF n
<1>3. n # 0 => Below(dispatched, n) /\ Below(ring, n)
  BY <1>2 DEF Storable, Past
<1>4. /\ ring' \in Seq(AnyEvent) /\ Sorted(ring') /\ Follows(dispatched, ring')
      /\ \A m : Below(ring, m) /\ n < m => Below(ring', m)
  BY <1>1, <1>3, StoredAppend DEF OrderInv, StoredInOrder, n
<1>5. DriverTypes' /\ StoredInOrder'
  BY <1>4 DEF OrderInv, DriverTypes, StoredInOrder
<1>6. \A m : Past(m) /\ n < m => Past(m)'
  BY <1>4 DEF Past
<1>7. QueueIsPast'
  <2>1. Past(pushes + 1)'
    BY <1>1, <1>2, <1>6 DEF OrderInv, QueueIsPast, Storable
  <2>2. ASSUME NEW k \in 2 .. Len(queue) PROVE Past(Stamp(queue[k]))'
    <3>1. k \in Next1 .. Len(queue) /\ k \in 1 .. Len(queue) /\ queue[k] \in Events
      BY <1>1, ElementOfSeq DEF Next1
    <3>2. Past(Stamp(queue[k])) /\ Stamp(queue[k]) \in Nat \ {0}
      BY <3>1, EventFacts, InputAssumption DEF OrderInv, QueueIsPast, Stamps
    <3>3. n < Stamp(queue[k])
      BY <1>2, <3>2 DEF Storable
    <3> QED
      BY <1>6, <3>2, <3>3
  <2>3. Next1' = 2
    BY DEF Next1
  <2> QED
    BY <2>1, <2>2, <2>3 DEF QueueIsPast
<1>8. RegistersAgree'
  BY DEF OrderInv, RegistersAgree, Reading
<1> QED
  BY <1>5, <1>7, <1>8 DEF OrderInv

LEMMA OrderAdvance ==
    ASSUME CardInv, OrderInv, WriteAdvance
    PROVE  OrderInv'
<1>1. /\ pc = "advance" /\ pc' = "drain" /\ queue # <<>> /\ queue' = Tail(queue)
      /\ UNCHANGED <<pushes, event, ring, dispatched>>
  BY DEF WriteAdvance, Advance, taskVars, OrderInv, RegistersAgree, Reading
<1>2. /\ Len(queue) \in Nat \ {0} /\ Len(queue') = Len(queue) - 1
      /\ \A k \in 1 .. Len(queue') : queue'[k] = queue[k + 1]
  BY <1>1, PopEvent DEF CardInv, TypeOK
<1>3. DriverTypes' /\ StoredInOrder'
  BY <1>1 DEF OrderInv, DriverTypes, StoredInOrder
<1>4. QueueIsPast'
  <2>1. \A k \in 1 .. Len(queue') : k + 1 \in Next1 .. Len(queue)
    BY <1>1, <1>2 DEF Next1
  <2>2. \A k \in 1 .. Len(queue') : Past(Stamp(queue'[k]))
    BY <1>2, <2>1 DEF OrderInv, QueueIsPast
  <2>3. Next1' = 1
    BY <1>1 DEF Next1
  <2> QED
    BY <1>1, <2>2, <2>3 DEF OrderInv, QueueIsPast, Past
<1>5. RegistersAgree'
  BY <1>1 DEF RegistersAgree, Reading
<1> QED
  BY <1>3, <1>4, <1>5 DEF OrderInv

LEMMA OrderDispatch ==
    ASSUME OrderInv, ring # <<>>, ring' = Tail(ring), dispatched' = Append(dispatched, Head(ring)),
           UNCHANGED <<queue, pushes, event, pc>>
    PROVE  OrderInv'
<1> DEFINE h == Head(ring)
<1>1. ring \in Seq(AnyEvent) /\ dispatched \in Seq(AnyEvent)
  BY DEF OrderInv, DriverTypes
<1>2. /\ h \in AnyEvent /\ h = ring[1] /\ Len(ring) \in Nat \ {0}
      /\ ring' \in Seq(AnyEvent) /\ Len(ring') = Len(ring) - 1
      /\ \A i \in 1 .. Len(ring') : ring'[i] = ring[i + 1]
  BY <1>1, HeadTailProperties, EmptySeq
<1>3. 1 \in 1 .. Len(ring) /\ \A i \in 1 .. Len(ring') : i + 1 \in 1 .. Len(ring) /\ 1 < i + 1
  BY <1>2
<1>4. Stamp(h) # 0 => Below(dispatched, Stamp(h))
  BY <1>2, <1>3 DEF OrderInv, StoredInOrder, Follows, Below
<1> HIDE DEF h
<1>5. /\ dispatched' \in Seq(AnyEvent) /\ Sorted(dispatched')
      /\ \A n : Below(dispatched, n) /\ Stamp(h) < n => Below(dispatched', n)
  BY <1>1, <1>2, <1>4, StoredAppend DEF OrderInv, StoredInOrder, h
<1>6. Sorted(ring')
  <2> SUFFICES ASSUME NEW i \in 1 .. Len(ring'), NEW j \in 1 .. Len(ring'), i < j,
                      Stamp(ring'[j]) # 0
               PROVE  Stamp(ring'[i]) < Stamp(ring'[j])
    BY DEF Sorted
  <2>1. i + 1 < j + 1
    BY <1>2
  <2> QED
    BY <1>2, <1>3, <2>1 DEF OrderInv, StoredInOrder, Sorted
<1>7. Follows(dispatched', ring')
  <2> SUFFICES ASSUME NEW j \in 1 .. Len(ring'), Stamp(ring'[j]) # 0
               PROVE  Below(dispatched', Stamp(ring'[j]))
    BY DEF Follows, Below
  <2>1. Below(dispatched, Stamp(ring'[j]))
    BY <1>2, <1>3 DEF OrderInv, StoredInOrder, Follows, Below
  <2>2. Stamp(h) < Stamp(ring'[j])
    BY <1>2, <1>3 DEF OrderInv, StoredInOrder, Sorted
  <2> QED
    BY <1>5, <2>1, <2>2
<1>8. \A n : Past(n) => Past(n)'
  <2> SUFFICES ASSUME NEW n, Past(n) PROVE Below(dispatched', n) /\ Below(ring', n)
    BY DEF Past
  <2>1. Stamp(h) < n
    BY <1>2, <1>3 DEF Past, Below
  <2> QED
    BY <1>2, <1>3, <1>5, <2>1 DEF Past, Below
<1>9. DriverTypes' /\ StoredInOrder'
  BY <1>2, <1>5, <1>6, <1>7 DEF OrderInv, DriverTypes, StoredInOrder
<1>10. QueueIsPast'
  BY <1>8 DEF OrderInv, QueueIsPast, Next1
<1>11. RegistersAgree'
  BY <1>8 DEF OrderInv, RegistersAgree, Reading, Storable
<1> QED
  BY <1>9, <1>10, <1>11 DEF OrderInv

LEMMA OrderNext == CardInv /\ OrderInv /\ [DriverNext]_driverVars => OrderInv'
<1> SUFFICES ASSUME CardInv, OrderInv, [DriverNext]_driverVars PROVE OrderInv'
  OBVIOUS
<1>1. CASE HostPush
  <2>1. UNCHANGED <<pc, event, ring, dispatched>>
    BY <1>1 DEF HostPush, handlerVars, taskVars
  <2> QED
    BY <1>1, <2>1, PushShape, OrderPush DEF HostPush
<1>2. CASE TakeInt2
  BY <1>2, OrderStill DEF TakeInt2, history, taskVars
<1>3. CASE ReadType
  <2>1. CASE Len(ring) = RingCapacity
    BY <1>3, <2>1, OrderStill DEF ReadType, history, cardVars, taskVars
  <2>2. CASE Len(ring) # RingCapacity
    BY <1>3, <2>2, OrderRead DEF ReadType, ReadCard, history, taskVars
  <2> QED
    BY <2>1, <2>2
<1>4. CASE \/ ReadField("code", "code", "x") \/ ReadField("x", "x", "y")
           \/ ReadField("y", "y", "store")
  BY <1>4, OrderRead DEF ReadField, ReadCard, history, taskVars
<1>5. CASE Store
  BY <1>5, OrderStore DEF Store, inputVars, cardVars, history
<1>6. CASE WriteAdvance
  BY <1>6, OrderAdvance
<1>7. CASE WriteAck
  BY <1>7, OrderStill DEF WriteAck, Ack, history, taskVars
<1>8. CASE SignalAndExit
  BY <1>8, OrderStill DEF SignalAndExit, history
<1>9. CASE EnableInt2
  BY <1>9, OrderStill DEF EnableInt2, SetIntEnable, history, handlerVars
<1>10. CASE Wait
  BY <1>10, OrderStill DEF Wait, inputVars, cardVars, history, handlerVars
<1>11. CASE drain_and_dispatch
  <2>1. CASE ring = <<>>
    BY <1>11, <2>1, OrderStill DEF drain_and_dispatch, inputVars, cardVars, history, handlerVars
  <2>2. CASE ring # <<>>
    BY <1>11, <2>2, OrderDispatch
       DEF drain_and_dispatch, inputVars, cardVars, history, handlerVars
  <2> QED
    BY <2>1, <2>2
<1>12. CASE OtherSource
  BY <1>12, OrderStill DEF OtherSource, history, handlerVars, taskVars
<1>13. CASE UNCHANGED driverVars
  BY <1>13, OrderStill DEF driverVars, inputVars, cardVars, history, handlerVars, taskVars
<1> QED
  BY <1>1, <1>2, <1>3, <1>4, <1>5, <1>6, <1>7, <1>8, <1>9, <1>10, <1>11, <1>12, <1>13
     DEF DriverNext, IntHandler

(***************************************************************************)
(* IntHandler's four reads of the head and its pop are not atomic, and     *)
(* the head may change between them; what the task gives to input.device   *)
(* is in the order of the pushes all the same, for every depth of card     *)
(* queue and ring.                                                         *)
(***************************************************************************)
THEOREM DispatchIsInOrder == DriverSpec => []DispatchesInOrder
<1>1. DriverInit => CardInv /\ OrderInv
  BY CardInvHolds, OrderInit DEF DriverInit
<1>2. OrderInv => DispatchesInOrder
  BY DEF OrderInv, StoredInOrder, Sorted, DispatchesInOrder
<1> QED
  BY <1>1, <1>2, DriverKeepsCardInv, DriverAssumption, OrderNext, PTL DEF DriverSpec
=============================================================================
