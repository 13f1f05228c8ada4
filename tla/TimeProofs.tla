----------------------------- MODULE TimeProofs -----------------------------
(***************************************************************************)
(* Deferred device time is exact: for every ratio of the clocks, every     *)
(* length of a line and a frame, every width of a timer and any sequence   *)
(* of instructions and register accesses, MachineBus behaves as if each    *)
(* instruction moved every device at once, and no interrupt or frame hides *)
(* in the clocks that are still pending.  And what fixed mode is for:      *)
(* replaying a recording gives its registers and its RAM at every hook.    *)
(***************************************************************************)
EXTENDS TimeBase, Replay, WellFoundedInduction, TLAPS

-----------------------------------------------------------------------------
(* Numbers.                                                                *)

(* The least element of a set of numbers: induction without an operator. *)
LEMMA LeastNumber ==
    ASSUME NEW T \in SUBSET Nat, T # {}
    PROVE  \E m \in T : \A k \in T : m <= k
<1> DEFINE R == OpToRel(<, Nat)
<1>1. IsWellFoundedOn(R, Nat)
  BY NatLessThanWellFounded, Zenon
<1> HIDE DEF R
<1>2. PICK m \in T : \A k \in T : ~(<<k, m>> \in R)
  BY <1>1, WFMin, Zenon
<1>3. ASSUME NEW k \in T, k < m PROVE FALSE
  <2>1. <<k, m>> \in R
    BY <1>3 DEF R, OpToRel
  <2> QED
    BY <2>1, <1>2
<1> QED
  BY <1>3

(* A set of numbers that has 0 and with each number the next has them all. *)
LEMMA AllNumbers ==
    ASSUME NEW S, 0 \in S, \A k \in Nat : k \in S => k + 1 \in S
    PROVE  \A k \in Nat : k \in S
<1> DEFINE T == {k \in Nat : k \notin S}
<1> SUFFICES ASSUME T # {} PROVE FALSE
  OBVIOUS
<1>1. PICK m \in T : \A k \in T : m <= k
  <2>1. T \in SUBSET Nat
    OBVIOUS
  <2> HIDE DEF T
  <2> QED
    BY <2>1, LeastNumber
<1>2. m # 0 /\ m \in Nat
  OBVIOUS
<1>3. m - 1 \in Nat /\ m - 1 \notin T
  BY <1>1, <1>2
<1>4. m - 1 \in S
  BY <1>3
<1>5. (m - 1) + 1 \in S
  BY <1>3, <1>4
<1> QED
  BY <1>2, <1>5

LEMMA Division ==
    ASSUME NEW n \in Nat \ {0}, NEW x \in Nat
    PROVE  x \div n \in Nat /\ x % n \in 0 .. n - 1 /\ x = n * (x \div n) + (x % n)
OBVIOUS

LEMMA Quotient ==
    ASSUME NEW n \in Nat \ {0}, NEW q \in Nat, NEW r \in 0 .. n - 1
    PROVE  (n * q + r) \div n = q /\ (n * q + r) % n = r
OBVIOUS

(* Counting m and then k with what the first count left over. *)
CountedInTwo(n, c, m, k) ==
    /\ ((c + m) \div n) + ((((c + m) % n) + k) \div n) = (c + (m + k)) \div n
    /\ (((c + m) % n) + k) % n = (c + (m + k)) % n

LEMMA CountInTwo ==
    ASSUME NEW n \in Nat \ {0}, NEW c \in Nat, NEW m \in Nat, NEW k \in Nat
    PROVE  CountedInTwo(n, c, m, k)
<1> DEFINE left == (c + m) % n
           q1 == (c + m) \div n
           q2 == (left + k) \div n
           r2 == (left + k) % n
<1>1. q1 \in Nat /\ left \in 0 .. n - 1 /\ c + m = n * q1 + left
  <2>1. c + m \in Nat
    OBVIOUS
  <2> QED
    BY <2>1, Division, Zenon
<1>2. q2 \in Nat /\ r2 \in 0 .. n - 1 /\ left + k = n * q2 + r2
  <2>1. left + k \in Nat
    BY <1>1
  <2> HIDE DEF left
  <2> QED
    BY <2>1, Division
<1> HIDE DEF left, q1, q2, r2
<1>3. c + (m + k) = n * (q1 + q2) + r2
  <2>1. c + (m + k) = n * q1 + n * q2 + r2
    BY <1>1, <1>2
  <2>2. n * (q1 + q2) = n * q1 + n * q2
    BY <1>1, <1>2
  <2> QED
    BY <2>1, <2>2, <1>1, <1>2
<1>4. q1 + q2 \in Nat
  BY <1>1, <1>2
<1>5. (n * (q1 + q2) + r2) \div n = q1 + q2 /\ (n * (q1 + q2) + r2) % n = r2
  BY <1>2, <1>4, Quotient
<1> QED
  BY <1>1, <1>3, <1>5 DEF CountedInTwo, left, q1, q2, r2

(* Fewer than q times n is fewer than q whole n. *)
LEMMA FewerThan ==
    ASSUME NEW n \in Nat \ {0}, NEW x \in Nat, NEW q \in Int, x < q * n
    PROVE  x \div n < q
<1> DEFINE d == x \div n
<1>1. d \in Nat /\ n * d <= x
  BY Division
<1> HIDE DEF d
<1> SUFFICES ASSUME d >= q PROVE FALSE
  BY <1>1 DEF d
<1>2. n * d >= n * q
  BY <1>1
<1>3. n * q = q * n
  OBVIOUS
<1> QED
  BY <1>1, <1>2, <1>3

-----------------------------------------------------------------------------
(* Types and the invariant.                                                *)

Cias ==
    [timer_a : Nat, timer_b : Nat, latch_a : Nat, latch_b : Nat,
     cra : Controls, crb : Controls,
     tod : Nat, tod_alarm : Nat, tod_latched : Int,
     tod_stopped : BOOLEAN, tod_matching : BOOLEAN,
     icr_data : SUBSET IcrBits, icr_mask : SUBSET IcrBits, carry : 0 .. EClock - 1]

FrameLength == LineLength * LinesPerFrame
IntreqNames == {"VERTB", "PORTS", "EXTER"} \cup UNION IntreqBits

Devices ==
    [total_colour_clocks : 0 .. FrameLength - 1, carry : 0 .. ColourClock - 1,
     odd_frame : BOOLEAN, intreq : SUBSET IntreqNames,
     cia_a : Cias, cia_b : Cias,
     board : [queued : BOOLEAN, irq : BOOLEAN],
     card  : [enabled : BOOLEAN, vblank_pending : BOOLEAN]]

(* A chip or card that asserts has its bit in INTREQ. *)
Levels(d) ==
    /\ irq_pending(d.cia_a) \/ card_irq_pending(d.card) => "PORTS" \in d.intreq
    /\ irq_pending(d.cia_b) => "EXTER" \in d.intreq

TimeInv ==
    /\ dev \in Devices
    /\ Levels(dev)
    /\ pending_clocks \in Nat
    /\ next_event_clocks = next_event(dev)
    /\ pending_clocks < next_event_clocks
    /\ boundary_request \/ int_level = pending_level(dev)

-----------------------------------------------------------------------------
(* The counting loops of the model, as functions of the number of rounds.  *)

EAfter(c, k) ==
    CHOOSE f : f = [n \in 0 .. k |-> IF n = 0 THEN c ELSE tick_one_eclock(f[n - 1])]

LEMMA EclockLoopExist ==
    ASSUME NEW c, NEW k \in Nat
    PROVE  LET f == EAfter(c, k)
           IN  f = [n \in 0 .. k |-> IF n = 0 THEN c ELSE tick_one_eclock(f[n - 1])]
<1> DEFINE Is(f, j) == f = [n \in 0 .. j |-> IF n = 0 THEN c ELSE tick_one_eclock(f[n - 1])]
           S == {j \in Nat : \E f : Is(f, j)}
<1>1. 0 \in S
  <2> DEFINE f == [n \in 0 .. 0 |-> c]
  <2>1. Is(f, 0)
    OBVIOUS
  <2> QED
    BY <2>1
<1>2. ASSUME NEW j \in Nat, j \in S PROVE j + 1 \in S
  <2>1. PICK f : Is(f, j)
    BY <1>2
  <2> DEFINE g == [n \in 0 .. j + 1 |-> IF n = j + 1 THEN tick_one_eclock(f[j]) ELSE f[n]]
             h == [n \in 0 .. j + 1 |-> IF n = 0 THEN c ELSE tick_one_eclock(g[n - 1])]
  <2>2. ASSUME NEW n \in 0 .. j + 1 PROVE g[n] = h[n]
    <3>1. CASE n = 0
      BY <3>1, <2>1
    <3>2. CASE n = j + 1
      <4>1. g[n - 1] = f[j]
        BY <3>2
      <4> QED
        BY <3>2, <4>1
    <3>3. CASE n # 0 /\ n # j + 1
      <4>1. n - 1 \in 0 .. j + 1 /\ n - 1 # j + 1 /\ n \in 0 .. j
        BY <3>3
      <4>2. g[n - 1] = f[n - 1]
        BY <4>1
      <4>3. f[n] = tick_one_eclock(f[n - 1])
        BY <4>1, <3>3, <2>1
      <4> QED
        BY <3>3, <4>2, <4>3
    <3> QED
      BY <3>1, <3>2, <3>3
  <2>3. Is(g, j + 1)
    <3>1. g = h
      <4>1. h = [n \in 0 .. j + 1 |-> h[n]]
        OBVIOUS
      <4>2. g = [n \in 0 .. j + 1 |-> g[n]]
        OBVIOUS
      <4> HIDE DEF g, h
      <4> QED
        BY <4>1, <4>2, <2>2
    <3> QED
      BY <3>1
  <2> HIDE DEF g
  <2>4. \E e : Is(e, j + 1)
    BY <2>3, Zenon
  <2>5. j + 1 \in Nat
    OBVIOUS
  <2> QED
    BY <2>4, <2>5, Zenon
<1>3. k \in S
  <2> HIDE DEF S
  <2> QED
    BY <1>1, <1>2, AllNumbers
<1> QED
  BY <1>3, Zenon DEF EAfter

(* A longer count starts as a shorter one. *)
LEMMA EclockLoopPrefix ==
    ASSUME NEW c, NEW k \in Nat
    PROVE  \A n \in 0 .. k : EAfter(c, k + 1)[n] = EAfter(c, k)[n]
<1> DEFINE f == EAfter(c, k)
           g == EAfter(c, k + 1)
           S == {n \in Nat : n <= k => g[n] = f[n]}
<1>1. f = [n \in 0 .. k |-> IF n = 0 THEN c ELSE tick_one_eclock(f[n - 1])]
  BY EclockLoopExist
<1>2. g = [n \in 0 .. k + 1 |-> IF n = 0 THEN c ELSE tick_one_eclock(g[n - 1])]
  <2>1. k + 1 \in Nat
    OBVIOUS
  <2> QED
    BY <2>1, EclockLoopExist, Zenon
<1> HIDE DEF f, g
<1>3. \A n \in 0 .. k : f[n] = IF n = 0 THEN c ELSE tick_one_eclock(f[n - 1])
  BY <1>1, Zenon
<1>4. \A n \in 0 .. k + 1 : g[n] = IF n = 0 THEN c ELSE tick_one_eclock(g[n - 1])
  BY <1>2, Zenon
<1>5. 0 \in S
  BY <1>3, <1>4
<1>6. ASSUME NEW n \in Nat, n \in S PROVE n + 1 \in S
  <2> SUFFICES ASSUME n + 1 <= k PROVE g[n + 1] = f[n + 1]
    OBVIOUS
  <2>1. g[n] = f[n]
    BY <1>6
  <2>2. n + 1 \in 0 .. k /\ n + 1 \in 0 .. k + 1 /\ n + 1 # 0 /\ (n + 1) - 1 = n
    OBVIOUS
  <2>3. f[n + 1] = tick_one_eclock(f[n])
    BY <2>2, <1>3
  <2>4. g[n + 1] = tick_one_eclock(g[n])
    BY <2>2, <1>4
  <2> QED
    BY <2>1, <2>3, <2>4
<1>7. \A n \in Nat : n \in S
  <2> HIDE DEF S
  <2> QED
    BY <1>5, <1>6, AllNumbers
<1>8. \A n \in 0 .. k : g[n] = f[n]
  BY <1>7
<1> QED
  BY <1>8 DEF f, g

ESteps(c, k) == EAfter(c, k)[k]

LEMMA EclockLoop ==
    ASSUME NEW c
    PROVE  ESteps(c, 0) = c /\ \A k \in Nat : ESteps(c, k + 1) = tick_one_eclock(ESteps(c, k))
<1>1. ESteps(c, 0) = c
  <2> DEFINE f == EAfter(c, 0)
  <2>1. f = [n \in 0 .. 0 |-> IF n = 0 THEN c ELSE tick_one_eclock(f[n - 1])]
    BY EclockLoopExist
  <2> HIDE DEF f
  <2>2. f[0] = c
    BY <2>1
  <2> QED
    BY <2>2 DEF f, ESteps
<1>2. ASSUME NEW k \in Nat PROVE ESteps(c, k + 1) = tick_one_eclock(ESteps(c, k))
  <2> DEFINE f == EAfter(c, k)
             g == EAfter(c, k + 1)
  <2>1. g = [n \in 0 .. k + 1 |-> IF n = 0 THEN c ELSE tick_one_eclock(g[n - 1])]
    <3>1. k + 1 \in Nat
      OBVIOUS
    <3> QED
      BY <3>1, EclockLoopExist, Zenon
  <2>2. g[k] = f[k]
    BY EclockLoopPrefix
  <2> HIDE DEF f, g
  <2>3. k + 1 \in 0 .. k + 1 /\ k + 1 # 0 /\ (k + 1) - 1 = k
    OBVIOUS
  <2>4. g[k + 1] = tick_one_eclock(g[k])
    BY <2>1, <2>3
  <2> QED
    BY <2>2, <2>4 DEF f, g, ESteps
<1> QED
  BY <1>1, <1>2

TodAfter(c, k) ==
    CHOOSE f : f = [n \in 0 .. k |-> IF n = 0 THEN c ELSE tod_tick(f[n - 1])]

LEMMA TodLoopExist ==
    ASSUME NEW c, NEW k \in Nat
    PROVE  LET f == TodAfter(c, k)
           IN  f = [n \in 0 .. k |-> IF n = 0 THEN c ELSE tod_tick(f[n - 1])]
<1> DEFINE Is(f, j) == f = [n \in 0 .. j |-> IF n = 0 THEN c ELSE tod_tick(f[n - 1])]
           S == {j \in Nat : \E f : Is(f, j)}
<1>1. 0 \in S
  <2> DEFINE f == [n \in 0 .. 0 |-> c]
  <2>1. Is(f, 0)
    OBVIOUS
  <2> QED
    BY <2>1
<1>2. ASSUME NEW j \in Nat, j \in S PROVE j + 1 \in S
  <2>1. PICK f : Is(f, j)
    BY <1>2
  <2> DEFINE g == [n \in 0 .. j + 1 |-> IF n = j + 1 THEN tod_tick(f[j]) ELSE f[n]]
             h == [n \in 0 .. j + 1 |-> IF n = 0 THEN c ELSE tod_tick(g[n - 1])]
  <2>2. ASSUME NEW n \in 0 .. j + 1 PROVE g[n] = h[n]
    <3>1. CASE n = 0
      BY <3>1, <2>1
    <3>2. CASE n = j + 1
      <4>1. g[n - 1] = f[j]
        BY <3>2
      <4> QED
        BY <3>2, <4>1
    <3>3. CASE n # 0 /\ n # j + 1
      <4>1. n - 1 \in 0 .. j + 1 /\ n - 1 # j + 1 /\ n \in 0 .. j
        BY <3>3
      <4>2. g[n - 1] = f[n - 1]
        BY <4>1
      <4>3. f[n] = tod_tick(f[n - 1])
        BY <4>1, <3>3, <2>1
      <4> QED
        BY <3>3, <4>2, <4>3
    <3> QED
      BY <3>1, <3>2, <3>3
  <2>3. Is(g, j + 1)
    <3>1. g = h
      <4>1. h = [n \in 0 .. j + 1 |-> h[n]]
        OBVIOUS
      <4>2. g = [n \in 0 .. j + 1 |-> g[n]]
        OBVIOUS
      <4> HIDE DEF g, h
      <4> QED
        BY <4>1, <4>2, <2>2
    <3> QED
      BY <3>1
  <2> HIDE DEF g
  <2>4. \E e : Is(e, j + 1)
    BY <2>3, Zenon
  <2>5. j + 1 \in Nat
    OBVIOUS
  <2> QED
    BY <2>4, <2>5, Zenon
<1>3. k \in S
  <2> HIDE DEF S
  <2> QED
    BY <1>1, <1>2, AllNumbers
<1> QED
  BY <1>3, Zenon DEF TodAfter

(* A longer count starts as a shorter one. *)
LEMMA TodLoopPrefix ==
    ASSUME NEW c, NEW k \in Nat
    PROVE  \A n \in 0 .. k : TodAfter(c, k + 1)[n] = TodAfter(c, k)[n]
<1> DEFINE f == TodAfter(c, k)
           g == TodAfter(c, k + 1)
           S == {n \in Nat : n <= k => g[n] = f[n]}
<1>1. f = [n \in 0 .. k |-> IF n = 0 THEN c ELSE tod_tick(f[n - 1])]
  BY TodLoopExist
<1>2. g = [n \in 0 .. k + 1 |-> IF n = 0 THEN c ELSE tod_tick(g[n - 1])]
  <2>1. k + 1 \in Nat
    OBVIOUS
  <2> QED
    BY <2>1, TodLoopExist, Zenon
<1> HIDE DEF f, g
<1>3. \A n \in 0 .. k : f[n] = IF n = 0 THEN c ELSE tod_tick(f[n - 1])
  BY <1>1, Zenon
<1>4. \A n \in 0 .. k + 1 : g[n] = IF n = 0 THEN c ELSE tod_tick(g[n - 1])
  BY <1>2, Zenon
<1>5. 0 \in S
  BY <1>3, <1>4
<1>6. ASSUME NEW n \in Nat, n \in S PROVE n + 1 \in S
  <2> SUFFICES ASSUME n + 1 <= k PROVE g[n + 1] = f[n + 1]
    OBVIOUS
  <2>1. g[n] = f[n]
    BY <1>6
  <2>2. n + 1 \in 0 .. k /\ n + 1 \in 0 .. k + 1 /\ n + 1 # 0 /\ (n + 1) - 1 = n
    OBVIOUS
  <2>3. f[n + 1] = tod_tick(f[n])
    BY <2>2, <1>3
  <2>4. g[n + 1] = tod_tick(g[n])
    BY <2>2, <1>4
  <2> QED
    BY <2>1, <2>3, <2>4
<1>7. \A n \in Nat : n \in S
  <2> HIDE DEF S
  <2> QED
    BY <1>5, <1>6, AllNumbers
<1>8. \A n \in 0 .. k : g[n] = f[n]
  BY <1>7
<1> QED
  BY <1>8 DEF f, g

TodSteps(c, k) == TodAfter(c, k)[k]

LEMMA TodLoop ==
    ASSUME NEW c
    PROVE  TodSteps(c, 0) = c /\ \A k \in Nat : TodSteps(c, k + 1) = tod_tick(TodSteps(c, k))
<1>1. TodSteps(c, 0) = c
  <2> DEFINE f == TodAfter(c, 0)
  <2>1. f = [n \in 0 .. 0 |-> IF n = 0 THEN c ELSE tod_tick(f[n - 1])]
    BY TodLoopExist
  <2> HIDE DEF f
  <2>2. f[0] = c
    BY <2>1
  <2> QED
    BY <2>2 DEF f, TodSteps
<1>2. ASSUME NEW k \in Nat PROVE TodSteps(c, k + 1) = tod_tick(TodSteps(c, k))
  <2> DEFINE f == TodAfter(c, k)
             g == TodAfter(c, k + 1)
  <2>1. g = [n \in 0 .. k + 1 |-> IF n = 0 THEN c ELSE tod_tick(g[n - 1])]
    <3>1. k + 1 \in Nat
      OBVIOUS
    <3> QED
      BY <3>1, TodLoopExist, Zenon
  <2>2. g[k] = f[k]
    BY TodLoopPrefix
  <2> HIDE DEF f, g
  <2>3. k + 1 \in 0 .. k + 1 /\ k + 1 # 0 /\ (k + 1) - 1 = k
    OBVIOUS
  <2>4. g[k + 1] = tod_tick(g[k])
    BY <2>1, <2>3
  <2> QED
    BY <2>2, <2>4 DEF f, g, TodSteps
<1> QED
  BY <1>1, <1>2

-----------------------------------------------------------------------------
(* One E clock and one TOD tick, field by field.                           *)

LEMMA SameCia ==
    ASSUME NEW c \in Cias, NEW e \in Cias,
           c.timer_a = e.timer_a, c.timer_b = e.timer_b,
           c.latch_a = e.latch_a, c.latch_b = e.latch_b,
           c.cra = e.cra, c.crb = e.crb,
           c.tod = e.tod, c.tod_alarm = e.tod_alarm, c.tod_latched = e.tod_latched,
           c.tod_stopped = e.tod_stopped, c.tod_matching = e.tod_matching,
           c.icr_data = e.icr_data, c.icr_mask = e.icr_mask, c.carry = e.carry
    PROVE  c = e
BY DEF Cias

AUnderflow(c) == Counts(c.cra, "E") /\ c.timer_a = 0
BCounts(c) == Counts(c.crb, "E") \/ (Counts(c.crb, "TA") /\ AUnderflow(c))
BUnderflow(c) == BCounts(c) /\ c.timer_b = 0

AfterEclock(c, t) ==
    /\ t \in Cias
    /\ t.timer_a = IF Counts(c.cra, "E") THEN step_timer(c.timer_a, c.latch_a) ELSE c.timer_a
    /\ t.timer_b = IF BCounts(c) THEN step_timer(c.timer_b, c.latch_b) ELSE c.timer_b
    /\ t.cra = IF AUnderflow(c) THEN StopIfOneshot(c.cra) ELSE c.cra
    /\ t.crb = IF BUnderflow(c) THEN StopIfOneshot(c.crb) ELSE c.crb
    /\ t.icr_data = c.icr_data \cup If(AUnderflow(c), "TA") \cup If(BUnderflow(c), "TB")
    /\ t.latch_a = c.latch_a /\ t.latch_b = c.latch_b
    /\ t.tod = c.tod /\ t.tod_alarm = c.tod_alarm /\ t.tod_latched = c.tod_latched
    /\ t.tod_stopped = c.tod_stopped /\ t.tod_matching = c.tod_matching
    /\ t.icr_mask = c.icr_mask /\ t.carry = c.carry

LEMMA OneEclock ==
    ASSUME NEW c \in Cias
    PROVE  AfterEclock(c, tick_one_eclock(c))
<1> DEFINE ta == IF Counts(c.cra, "E") THEN step_timer(c.timer_a, c.latch_a) ELSE c.timer_a
           tb == IF BCounts(c) THEN step_timer(c.timer_b, c.latch_b) ELSE c.timer_b
           ca == IF AUnderflow(c) THEN StopIfOneshot(c.cra) ELSE c.cra
           cb == IF BUnderflow(c) THEN StopIfOneshot(c.crb) ELSE c.crb
           icr == c.icr_data \cup If(AUnderflow(c), "TA") \cup If(BUnderflow(c), "TB")
<1>1. tick_one_eclock(c) = [c EXCEPT !.timer_a = ta, !.timer_b = tb, !.cra = ca, !.crb = cb, !.icr_data = icr]
  BY Zenon DEF tick_one_eclock, AUnderflow, BCounts, BUnderflow
<1>2. ta \in Nat /\ tb \in Nat
  BY DEF Cias, step_timer
<1>3. ca \in Controls /\ cb \in Controls
  BY DEF Cias, Controls, StopIfOneshot
<1>4. icr \in SUBSET IcrBits
  BY DEF Cias, IcrBits, If
<1> HIDE DEF ta, tb, ca, cb, icr
<1>5. [c EXCEPT !.timer_a = ta, !.timer_b = tb, !.cra = ca, !.crb = cb, !.icr_data = icr] \in Cias
  BY <1>2, <1>3, <1>4 DEF Cias
<1> DEFINE t == [c EXCEPT !.timer_a = ta, !.timer_b = tb, !.cra = ca, !.crb = cb, !.icr_data = icr]
<1>6. t.timer_a = ta /\ t.timer_b = tb /\ t.cra = ca /\ t.crb = cb /\ t.icr_data = icr
  BY DEF Cias
<1>7. /\ t.latch_a = c.latch_a /\ t.latch_b = c.latch_b
      /\ t.tod = c.tod /\ t.tod_alarm = c.tod_alarm /\ t.tod_latched = c.tod_latched
      /\ t.tod_stopped = c.tod_stopped /\ t.tod_matching = c.tod_matching
      /\ t.icr_mask = c.icr_mask /\ t.carry = c.carry
  BY DEF Cias
<1> HIDE DEF t
<1> QED
  BY <1>1, <1>5, <1>6, <1>7, Zenon DEF AfterEclock, t, ta, tb, ca, cb, icr

TodLimit == Byte * Byte * Byte
TodNext(c) == (c.tod + 1) % TodLimit
Alarm(c) == TodNext(c) = c.tod_alarm

AfterTod(c, t) ==
    /\ t \in Cias
    /\ t.tod = IF c.tod_stopped THEN c.tod ELSE TodNext(c)
    /\ t.tod_matching = IF c.tod_stopped THEN c.tod_matching ELSE Alarm(c)
    /\ t.icr_data = c.icr_data \cup If(~c.tod_stopped /\ Alarm(c) /\ ~c.tod_matching, "ALRM")
    /\ t.timer_a = c.timer_a /\ t.timer_b = c.timer_b
    /\ t.latch_a = c.latch_a /\ t.latch_b = c.latch_b
    /\ t.cra = c.cra /\ t.crb = c.crb
    /\ t.tod_alarm = c.tod_alarm /\ t.tod_latched = c.tod_latched
    /\ t.tod_stopped = c.tod_stopped
    /\ t.icr_mask = c.icr_mask /\ t.carry = c.carry

LEMMA OneTod ==
    ASSUME NEW c \in Cias
    PROVE  AfterTod(c, tod_tick(c))
<1> DEFINE n == TodNext(c)
           al == Alarm(c)
           icr == c.icr_data \cup If(Alarm(c) /\ ~c.tod_matching, "ALRM")
           t == [c EXCEPT !.tod = n, !.icr_data = icr, !.tod_matching = al]
<1>1. CASE c.tod_stopped
  <2>1. tod_tick(c) = c
    BY <1>1 DEF tod_tick
  <2>2. c.icr_data \cup If(~c.tod_stopped /\ Alarm(c) /\ ~c.tod_matching, "ALRM") = c.icr_data
    BY <1>1 DEF If
  <2> QED
    BY <1>1, <2>1, <2>2, Zenon DEF AfterTod
<1>2. CASE ~c.tod_stopped
  <2>1. TodLimit \in Nat \ {0}
    <3>1. Byte * Byte \in Nat \ {0}
      BY CiaAssumption
    <3> QED
      BY <3>1, CiaAssumption DEF TodLimit
  <2>2. n \in Nat
    <3>1. c.tod + 1 \in Nat
      BY DEF Cias
    <3> QED
      BY <3>1, <2>1, Division DEF TodNext
  <2>3. icr \in SUBSET IcrBits
    BY DEF Cias, IcrBits, If
  <2>4. al \in BOOLEAN
    BY DEF Alarm
  <2> DEFINE m == [c EXCEPT !.tod = n]
  <2>5. m.tod = n /\ m.tod_alarm = c.tod_alarm /\ m.tod_matching = c.tod_matching /\ m.icr_data = c.icr_data
    BY DEF Cias
  <2>6. tod_tick(c) = [m EXCEPT !.icr_data = m.icr_data \cup If(m.tod = m.tod_alarm /\ ~m.tod_matching, "ALRM"),
                                !.tod_matching = m.tod = m.tod_alarm]
    BY <1>2, Zenon DEF tod_tick, check_tod_alarm, TodNext, TodLimit
  <2>7. tod_tick(c) = [m EXCEPT !.icr_data = icr, !.tod_matching = al]
    BY <2>5, <2>6, Zenon DEF Alarm
  <2> HIDE DEF n, al, icr
  <2>8. [m EXCEPT !.icr_data = icr, !.tod_matching = al] = t
    BY DEF Cias
  <2>9. t \in Cias
    BY <2>2, <2>3, <2>4 DEF Cias
  <2>10. t.tod = n /\ t.icr_data = icr /\ t.tod_matching = al
    BY DEF Cias
  <2>11. /\ t.timer_a = c.timer_a /\ t.timer_b = c.timer_b
         /\ t.latch_a = c.latch_a /\ t.latch_b = c.latch_b
         /\ t.cra = c.cra /\ t.crb = c.crb
         /\ t.tod_alarm = c.tod_alarm /\ t.tod_latched = c.tod_latched
         /\ t.tod_stopped = c.tod_stopped
         /\ t.icr_mask = c.icr_mask /\ t.carry = c.carry
    BY DEF Cias
  <2>12. icr = c.icr_data \cup If(~c.tod_stopped /\ Alarm(c) /\ ~c.tod_matching, "ALRM")
    BY <1>2, Zenon DEF icr, If
  <2> HIDE DEF t, m
  <2>13. tod_tick(c) = t
    BY <2>7, <2>8, Zenon
  <2> QED
    BY <1>2, <2>9, <2>10, <2>11, <2>12, <2>13, Zenon DEF AfterTod, n, al
<1> QED
  BY <1>1, <1>2, Zenon

(* The two kinds of tick touch different fields, and each only adds its own
   source to ICR. *)
LEMMA TicksCommute ==
    ASSUME NEW c \in Cias
    PROVE  tod_tick(tick_one_eclock(c)) = tick_one_eclock(tod_tick(c))
<1> DEFINE e == tick_one_eclock(c)
           t == tod_tick(c)
           et == tick_one_eclock(t)
           te == tod_tick(e)
<1>1. AfterEclock(c, e) /\ AfterTod(c, t)
  BY OneEclock, OneTod, Zenon
<1>2. AfterEclock(t, et) /\ AfterTod(e, te)
  <2>1. e \in Cias /\ t \in Cias
    BY <1>1, Zenon DEF AfterEclock, AfterTod
  <2> QED
    BY <2>1, OneEclock, OneTod, Zenon
<1> HIDE DEF e, t, et, te
<1>3. /\ AUnderflow(t) <=> AUnderflow(c)
      /\ BUnderflow(t) <=> BUnderflow(c)
      /\ BCounts(t) <=> BCounts(c)
  BY <1>1, Zenon DEF AfterTod, AUnderflow, BUnderflow, BCounts
<1>4. TodNext(e) = TodNext(c) /\ Alarm(e) = Alarm(c) /\ e.tod_stopped = c.tod_stopped /\ e.tod_matching = c.tod_matching
  BY <1>1, Zenon DEF AfterEclock, TodNext, Alarm
<1>5. et.timer_a = te.timer_a /\ et.timer_b = te.timer_b
  BY <1>1, <1>2, <1>3 DEF AfterEclock, AfterTod
<1>6. et.cra = te.cra /\ et.crb = te.crb
  BY <1>1, <1>2, <1>3 DEF AfterEclock, AfterTod
<1>7. et.tod = te.tod
  BY <1>1, <1>2, <1>4 DEF AfterEclock, AfterTod
<1>8. et.tod_matching = te.tod_matching
  BY <1>1, <1>2, <1>4, Zenon DEF AfterEclock, AfterTod
<1>9. /\ et.latch_a = te.latch_a /\ et.latch_b = te.latch_b
      /\ et.tod_alarm = te.tod_alarm /\ et.tod_latched = te.tod_latched
      /\ et.tod_stopped = te.tod_stopped
      /\ et.icr_mask = te.icr_mask /\ et.carry = te.carry
  BY <1>1, <1>2 DEF AfterEclock, AfterTod
<1>10. et.icr_data = te.icr_data
  <2> DEFINE A == If(AUnderflow(c), "TA")
             B == If(BUnderflow(c), "TB")
             C == If(~c.tod_stopped /\ Alarm(c) /\ ~c.tod_matching, "ALRM")
  <2>1. et.icr_data = (c.icr_data \cup C) \cup A \cup B
    BY <1>1, <1>2, <1>3, Zenon DEF AfterEclock, AfterTod, If
  <2>2. te.icr_data = (c.icr_data \cup A \cup B) \cup C
    BY <1>1, <1>2, <1>4, Zenon DEF AfterEclock, AfterTod
  <2> HIDE DEF A, B, C
  <2> QED
    BY <2>1, <2>2
<1>11. et \in Cias /\ te \in Cias
  BY <1>2, Zenon DEF AfterEclock, AfterTod
<1>12. et = te
  BY <1>11, <1>5, <1>6, <1>7, <1>8, <1>9, <1>10, SameCia
<1> QED
  BY <1>12 DEF et, te, e, t

WithCarry(c, x) == [c EXCEPT !.carry = x]

CarryIs(c, x, t) ==
    /\ t \in Cias /\ t.carry = x
    /\ t.timer_a = c.timer_a /\ t.timer_b = c.timer_b
    /\ t.latch_a = c.latch_a /\ t.latch_b = c.latch_b
    /\ t.cra = c.cra /\ t.crb = c.crb
    /\ t.tod = c.tod /\ t.tod_alarm = c.tod_alarm /\ t.tod_latched = c.tod_latched
    /\ t.tod_stopped = c.tod_stopped /\ t.tod_matching = c.tod_matching
    /\ t.icr_data = c.icr_data /\ t.icr_mask = c.icr_mask

LEMMA WithCarryFields ==
    ASSUME NEW c \in Cias, NEW x \in 0 .. EClock - 1
    PROVE  CarryIs(c, x, WithCarry(c, x))
BY DEF WithCarry, CarryIs, Cias


LEMMA CarryEclock ==
    ASSUME NEW c \in Cias, NEW x \in 0 .. EClock - 1
    PROVE  tick_one_eclock(WithCarry(c, x)) = WithCarry(tick_one_eclock(c), x)
<1> DEFINE w == WithCarry(c, x)
           t == tick_one_eclock(c)
           p == tick_one_eclock(w)
           q == WithCarry(t, x)
<1>1. CarryIs(c, x, w) /\ AfterEclock(c, t)
  BY WithCarryFields, OneEclock, Zenon
<1>2. AfterEclock(w, p) /\ CarryIs(t, x, q)
  <2>1. w \in Cias /\ t \in Cias
    BY <1>1, Zenon DEF CarryIs, AfterEclock
  <2> QED
    BY <2>1, WithCarryFields, OneEclock, Zenon
<1> HIDE DEF w, t, p, q
<1>3. /\ AUnderflow(w) <=> AUnderflow(c)
      /\ BUnderflow(w) <=> BUnderflow(c)
      /\ BCounts(w) <=> BCounts(c)
  BY <1>1, Zenon DEF CarryIs, AUnderflow, BUnderflow, BCounts
<1>4. p.timer_a = q.timer_a /\ p.timer_b = q.timer_b
  BY <1>1, <1>2, <1>3 DEF CarryIs, AfterEclock
<1>5. p.cra = q.cra /\ p.crb = q.crb
  BY <1>1, <1>2, <1>3 DEF CarryIs, AfterEclock
<1>6. p.icr_data = q.icr_data
  BY <1>1, <1>2, <1>3, Zenon DEF CarryIs, AfterEclock, If
<1>7. /\ p.latch_a = q.latch_a /\ p.latch_b = q.latch_b
      /\ p.tod = q.tod /\ p.tod_alarm = q.tod_alarm /\ p.tod_latched = q.tod_latched
  BY <1>1, <1>2 DEF CarryIs, AfterEclock
<1>8. /\ p.tod_stopped = q.tod_stopped /\ p.tod_matching = q.tod_matching
      /\ p.icr_mask = q.icr_mask /\ p.carry = q.carry
  BY <1>1, <1>2, Zenon DEF CarryIs, AfterEclock
<1>9. p \in Cias /\ q \in Cias
  BY <1>2, Zenon DEF CarryIs, AfterEclock
<1>10. p = q
  BY <1>4, <1>5, <1>6, <1>7, <1>8, <1>9, SameCia
<1> QED
  BY <1>10 DEF p, q, w, t


LEMMA CarryTod ==
    ASSUME NEW c \in Cias, NEW x \in 0 .. EClock - 1
    PROVE  tod_tick(WithCarry(c, x)) = WithCarry(tod_tick(c), x)
<1> DEFINE w == WithCarry(c, x)
           t == tod_tick(c)
           p == tod_tick(w)
           q == WithCarry(t, x)
<1>1. CarryIs(c, x, w) /\ AfterTod(c, t)
  BY WithCarryFields, OneTod, Zenon
<1>2. AfterTod(w, p) /\ CarryIs(t, x, q)
  <2>1. w \in Cias /\ t \in Cias
    BY <1>1, Zenon DEF CarryIs, AfterTod
  <2> QED
    BY <2>1, WithCarryFields, OneTod, Zenon
<1> HIDE DEF w, t, p, q
<1>3. TodNext(w) = TodNext(c) /\ Alarm(w) = Alarm(c) /\ w.tod_stopped = c.tod_stopped /\ w.tod_matching = c.tod_matching
  BY <1>1, Zenon DEF CarryIs, TodNext, Alarm
<1>4. p.tod = q.tod
  BY <1>1, <1>2, <1>3 DEF CarryIs, AfterTod
<1>5. p.tod_matching = q.tod_matching
  BY <1>1, <1>2, <1>3, Zenon DEF CarryIs, AfterTod
<1>6. p.icr_data = q.icr_data
  BY <1>1, <1>2, <1>3, Zenon DEF CarryIs, AfterTod
<1>7. /\ p.timer_a = q.timer_a /\ p.timer_b = q.timer_b
      /\ p.latch_a = q.latch_a /\ p.latch_b = q.latch_b
      /\ p.cra = q.cra /\ p.crb = q.crb
  BY <1>1, <1>2 DEF CarryIs, AfterTod
<1>8. /\ p.tod_alarm = q.tod_alarm /\ p.tod_latched = q.tod_latched
      /\ p.tod_stopped = q.tod_stopped
      /\ p.icr_mask = q.icr_mask /\ p.carry = q.carry
  BY <1>1, <1>2, Zenon DEF CarryIs, AfterTod
<1>9. p \in Cias /\ q \in Cias
  BY <1>2, Zenon DEF CarryIs, AfterTod
<1>10. p = q
  BY <1>4, <1>5, <1>6, <1>7, <1>8, <1>9, SameCia
<1> QED
  BY <1>10 DEF p, q, w, t


-----------------------------------------------------------------------------
(* Any number of ticks.                                                    *)

LEMMA EStepsType ==
    ASSUME NEW c \in Cias
    PROVE  \A k \in Nat : ESteps(c, k) \in Cias /\ ESteps(c, k).carry = c.carry
<1> DEFINE S == {k \in Nat : ESteps(c, k) \in Cias /\ ESteps(c, k).carry = c.carry}
<1>1. 0 \in S
  BY EclockLoop, Zenon
<1>2. ASSUME NEW k \in Nat, k \in S PROVE k + 1 \in S
  <2>0. ESteps(c, k) \in Cias /\ ESteps(c, k).carry = c.carry
    BY <1>2
  <2>9. ESteps(c, (k + 1)) \in Cias /\ ESteps(c, (k + 1)).carry = c.carry
    <3>1. ESteps(c, k + 1) = tick_one_eclock(ESteps(c, k))
      BY EclockLoop, Zenon
    <3>2. AfterEclock(ESteps(c, k), tick_one_eclock(ESteps(c, k)))
      BY <2>0, OneEclock, Zenon
    <3> QED
      BY <3>1, <3>2, <2>0, Zenon DEF AfterEclock
  <2> QED
    BY <2>9
<1> QED
  <2> HIDE DEF S
  <2>1. \A k \in Nat : k \in S
    BY <1>1, <1>2, AllNumbers
  <2> QED
    BY <2>1 DEF S

LEMMA TodStepsType ==
    ASSUME NEW c \in Cias
    PROVE  \A k \in Nat : TodSteps(c, k) \in Cias /\ TodSteps(c, k).carry = c.carry /\ TodSteps(c, k).cra = c.cra /\ TodSteps(c, k).crb = c.crb
<1> DEFINE S == {k \in Nat : TodSteps(c, k) \in Cias /\ TodSteps(c, k).carry = c.carry /\ TodSteps(c, k).cra = c.cra /\ TodSteps(c, k).crb = c.crb}
<1>1. 0 \in S
  BY TodLoop, Zenon
<1>2. ASSUME NEW k \in Nat, k \in S PROVE k + 1 \in S
  <2>0. TodSteps(c, k) \in Cias /\ TodSteps(c, k).carry = c.carry /\ TodSteps(c, k).cra = c.cra /\ TodSteps(c, k).crb = c.crb
    BY <1>2
  <2>9. TodSteps(c, (k + 1)) \in Cias /\ TodSteps(c, (k + 1)).carry = c.carry /\ TodSteps(c, (k + 1)).cra = c.cra /\ TodSteps(c, (k + 1)).crb = c.crb
    <3>1. TodSteps(c, k + 1) = tod_tick(TodSteps(c, k))
      BY TodLoop, Zenon
    <3>2. AfterTod(TodSteps(c, k), tod_tick(TodSteps(c, k)))
      BY <2>0, OneTod, Zenon
    <3> QED
      BY <3>1, <3>2, <2>0, Zenon DEF AfterTod
  <2> QED
    BY <2>9
<1> QED
  <2> HIDE DEF S
  <2>1. \A k \in Nat : k \in S
    BY <1>1, <1>2, AllNumbers
  <2> QED
    BY <2>1 DEF S

LEMMA EStepsCarry ==
    ASSUME NEW c \in Cias, NEW x \in 0 .. EClock - 1
    PROVE  \A k \in Nat : ESteps(WithCarry(c, x), k) = WithCarry(ESteps(c, k), x)
<1> DEFINE S == {k \in Nat : ESteps(WithCarry(c, x), k) = WithCarry(ESteps(c, k), x)}
<1>1. 0 \in S
  BY EclockLoop, Zenon
<1>2. ASSUME NEW k \in Nat, k \in S PROVE k + 1 \in S
  <2>0. ESteps(WithCarry(c, x), k) = WithCarry(ESteps(c, k), x)
    BY <1>2
  <2>9. ESteps(WithCarry(c, x), (k + 1)) = WithCarry(ESteps(c, (k + 1)), x)
    <3>1. ESteps(c, k) \in Cias
      BY EStepsType, Zenon
    <3>2. tick_one_eclock(WithCarry(ESteps(c, k), x)) = WithCarry(tick_one_eclock(ESteps(c, k)), x)
      BY <3>1, CarryEclock, Zenon
    <3>3. ESteps(WithCarry(c, x), k + 1) = tick_one_eclock(ESteps(WithCarry(c, x), k)) /\ ESteps(c, k + 1) = tick_one_eclock(ESteps(c, k))
      BY EclockLoop, Zenon
    <3> QED
      BY <3>2, <3>3, <2>0, Zenon
  <2> QED
    BY <2>9
<1> QED
  <2> HIDE DEF S
  <2>1. \A k \in Nat : k \in S
    BY <1>1, <1>2, AllNumbers
  <2> QED
    BY <2>1 DEF S

LEMMA TodStepsCarry ==
    ASSUME NEW c \in Cias, NEW x \in 0 .. EClock - 1
    PROVE  \A k \in Nat : TodSteps(WithCarry(c, x), k) = WithCarry(TodSteps(c, k), x)
<1> DEFINE S == {k \in Nat : TodSteps(WithCarry(c, x), k) = WithCarry(TodSteps(c, k), x)}
<1>1. 0 \in S
  BY TodLoop, Zenon
<1>2. ASSUME NEW k \in Nat, k \in S PROVE k + 1 \in S
  <2>0. TodSteps(WithCarry(c, x), k) = WithCarry(TodSteps(c, k), x)
    BY <1>2
  <2>9. TodSteps(WithCarry(c, x), (k + 1)) = WithCarry(TodSteps(c, (k + 1)), x)
    <3>1. TodSteps(c, k) \in Cias
      BY TodStepsType, Zenon
    <3>2. tod_tick(WithCarry(TodSteps(c, k), x)) = WithCarry(tod_tick(TodSteps(c, k)), x)
      BY <3>1, CarryTod, Zenon
    <3>3. TodSteps(WithCarry(c, x), k + 1) = tod_tick(TodSteps(WithCarry(c, x), k)) /\ TodSteps(c, k + 1) = tod_tick(TodSteps(c, k))
      BY TodLoop, Zenon
    <3> QED
      BY <3>2, <3>3, <2>0, Zenon
  <2> QED
    BY <2>9
<1> QED
  <2> HIDE DEF S
  <2>1. \A k \in Nat : k \in S
    BY <1>1, <1>2, AllNumbers
  <2> QED
    BY <2>1 DEF S

LEMMA TodOverEclock ==
    ASSUME NEW c \in Cias
    PROVE  \A k \in Nat : TodSteps(tick_one_eclock(c), k) = tick_one_eclock(TodSteps(c, k))
<1> DEFINE S == {k \in Nat : TodSteps(tick_one_eclock(c), k) = tick_one_eclock(TodSteps(c, k))}
<1>1. 0 \in S
  BY TodLoop, Zenon
<1>2. ASSUME NEW k \in Nat, k \in S PROVE k + 1 \in S
  <2>0. TodSteps(tick_one_eclock(c), k) = tick_one_eclock(TodSteps(c, k))
    BY <1>2
  <2>9. TodSteps(tick_one_eclock(c), (k + 1)) = tick_one_eclock(TodSteps(c, (k + 1)))
    <3>1. TodSteps(c, k) \in Cias
      BY TodStepsType, Zenon
    <3>2. tod_tick(tick_one_eclock(TodSteps(c, k))) = tick_one_eclock(tod_tick(TodSteps(c, k)))
      BY <3>1, TicksCommute, Zenon
    <3>3. /\ TodSteps(tick_one_eclock(c), k + 1) = tod_tick(TodSteps(tick_one_eclock(c), k))
          /\ TodSteps(c, k + 1) = tod_tick(TodSteps(c, k))
      BY TodLoop, Zenon
    <3> QED
      BY <3>2, <3>3, <2>0, Zenon
  <2> QED
    BY <2>9
<1> QED
  <2> HIDE DEF S
  <2>1. \A k \in Nat : k \in S
    BY <1>1, <1>2, AllNumbers
  <2> QED
    BY <2>1 DEF S

LEMMA StepsCommute ==
    ASSUME NEW c \in Cias, NEW f \in Nat
    PROVE  \A k \in Nat : TodSteps(ESteps(c, k), f) = ESteps(TodSteps(c, f), k)
<1> DEFINE S == {k \in Nat : TodSteps(ESteps(c, k), f) = ESteps(TodSteps(c, f), k)}
<1>1. 0 \in S
  BY EclockLoop, Zenon
<1>2. ASSUME NEW k \in Nat, k \in S PROVE k + 1 \in S
  <2>0. TodSteps(ESteps(c, k), f) = ESteps(TodSteps(c, f), k)
    BY <1>2
  <2>9. TodSteps(ESteps(c, (k + 1)), f) = ESteps(TodSteps(c, f), (k + 1))
    <3>1. ESteps(c, k) \in Cias
      BY EStepsType, Zenon
    <3>2. TodSteps(tick_one_eclock(ESteps(c, k)), f) = tick_one_eclock(TodSteps(ESteps(c, k), f))
      BY <3>1, TodOverEclock, Zenon
    <3>3. /\ ESteps(TodSteps(c, f), k + 1) = tick_one_eclock(ESteps(TodSteps(c, f), k))
          /\ ESteps(c, k + 1) = tick_one_eclock(ESteps(c, k))
      BY EclockLoop, Zenon
    <3> QED
      BY <3>2, <3>3, <2>0, Zenon
  <2> QED
    BY <2>9
<1> QED
  <2> HIDE DEF S
  <2>1. \A k \in Nat : k \in S
    BY <1>1, <1>2, AllNumbers
  <2> QED
    BY <2>1 DEF S

LEMMA EStepsAdd ==
    ASSUME NEW c, NEW m \in Nat
    PROVE  \A k \in Nat : ESteps(ESteps(c, m), k) = ESteps(c, m + k)
<1> DEFINE S == {k \in Nat : ESteps(ESteps(c, m), k) = ESteps(c, m + k)}
<1>1. 0 \in S
  <2>1. m + 0 = m
    OBVIOUS
  <2> QED
    BY <2>1, EclockLoop, Zenon
<1>2. ASSUME NEW k \in Nat, k \in S PROVE k + 1 \in S
  <2>0. ESteps(ESteps(c, m), k) = ESteps(c, m + k)
    BY <1>2
  <2>9. ESteps(ESteps(c, m), (k + 1)) = ESteps(c, m + (k + 1))
    <3>1. m + (k + 1) = (m + k) + 1 /\ m + k \in Nat
      OBVIOUS
    <3>2. /\ ESteps(ESteps(c, m), k + 1) = tick_one_eclock(ESteps(ESteps(c, m), k))
          /\ ESteps(c, (m + k) + 1) = tick_one_eclock(ESteps(c, m + k))
      BY <3>1, EclockLoop, Zenon
    <3> QED
      BY <3>1, <3>2, <2>0, Zenon
  <2> QED
    BY <2>9
<1> QED
  <2> HIDE DEF S
  <2>1. \A k \in Nat : k \in S
    BY <1>1, <1>2, AllNumbers
  <2> QED
    BY <2>1 DEF S

(* With both timers stopped an E clock changes nothing: the code may skip
   the loop. *)
LEMMA IdleEclock ==
    ASSUME NEW c \in Cias, is_idle(c)
    PROVE  tick_one_eclock(c) = c
<1> DEFINE t == tick_one_eclock(c)
<1>1. AfterEclock(c, t)
  BY OneEclock, Zenon
<1> HIDE DEF t
<1>2. ~AUnderflow(c) /\ ~BUnderflow(c) /\ ~BCounts(c) /\ ~Counts(c.cra, "E")
  BY Zenon DEF AUnderflow, BUnderflow, BCounts, Counts, is_idle
<1>3. t.icr_data = c.icr_data
  BY <1>1, <1>2 DEF AfterEclock, If
<1>4. t.timer_a = c.timer_a /\ t.timer_b = c.timer_b /\ t.cra = c.cra /\ t.crb = c.crb
  BY <1>1, <1>2 DEF AfterEclock
<1>5. t = c
  BY <1>1, <1>3, <1>4, SameCia DEF AfterEclock
<1> QED
  BY <1>5 DEF t

LEMMA IdleSteps ==
    ASSUME NEW c \in Cias, is_idle(c)
    PROVE  \A k \in Nat : ESteps(c, k) = c
<1> DEFINE S == {k \in Nat : ESteps(c, k) = c}
<1>1. 0 \in S
  BY EclockLoop, Zenon
<1>2. ASSUME NEW k \in Nat, k \in S PROVE k + 1 \in S
  <2>0. ESteps(c, k) = c
    BY <1>2
  <2>9. ESteps(c, (k + 1)) = c
    <3>1. ESteps(c, k + 1) = tick_one_eclock(ESteps(c, k))
      BY EclockLoop, Zenon
    <3> QED
      BY <3>1, <2>0, IdleEclock, Zenon
  <2> QED
    BY <2>9
<1> QED
  <2> HIDE DEF S
  <2>1. \A k \in Nat : k \in S
    BY <1>1, <1>2, AllNumbers
  <2> QED
    BY <2>1 DEF S

(* While no running timer has reached zero, E clocks move the timers and
   nothing else. *)
Quiet(c, k) ==
    /\ Counts(c.cra, "E") => k <= c.timer_a
    /\ Counts(c.crb, "E") => k <= c.timer_b

LEMMA QuietEclock ==
    ASSUME NEW c \in Cias, NEW k \in Nat, Quiet(c, k + 1)
    PROVE  LET t == tick_one_eclock(c)
           IN  /\ Quiet(t, k)
               /\ t.cra = c.cra /\ t.crb = c.crb
               /\ t.icr_data = c.icr_data /\ t.icr_mask = c.icr_mask
<1> DEFINE t == tick_one_eclock(c)
<1>1. AfterEclock(c, t)
  BY OneEclock, Zenon
<1> HIDE DEF t
<1>2. c.timer_a \in Nat /\ c.timer_b \in Nat
  BY DEF Cias
<1>3. ~AUnderflow(c)
  BY <1>2 DEF Quiet, AUnderflow
<1>4. BCounts(c) => Counts(c.crb, "E")
  BY <1>3 DEF BCounts
<1>5. ~BUnderflow(c)
  BY <1>2, <1>4 DEF Quiet, BUnderflow
<1>6. t.cra = c.cra /\ t.crb = c.crb /\ t.icr_data = c.icr_data /\ t.icr_mask = c.icr_mask
  BY <1>1, <1>3, <1>5 DEF AfterEclock, If
<1>7. Counts(c.cra, "E") => k <= t.timer_a
  BY <1>1, <1>2 DEF AfterEclock, Quiet, step_timer
<1>8. Counts(c.crb, "E") => k <= t.timer_b
  BY <1>1, <1>2 DEF AfterEclock, Quiet, step_timer, BCounts
<1>9. Quiet(t, k)
  BY <1>6, <1>7, <1>8, Zenon DEF Quiet
<1> QED
  BY <1>6, <1>9 DEF t

LEMMA QuietSteps ==
    ASSUME NEW c \in Cias, NEW q \in Nat, Quiet(c, q)
    PROVE  ESteps(c, q).icr_data = c.icr_data /\ ESteps(c, q).icr_mask = c.icr_mask
<1> DEFINE P(k) ==
      /\ Quiet(ESteps(c, k), q - k)
      /\ ESteps(c, k).icr_data = c.icr_data /\ ESteps(c, k).icr_mask = c.icr_mask
<1> DEFINE S == {k \in Nat : k <= q => P(k)}
<1>1. 0 \in S
  <2>1. q - 0 = q
    OBVIOUS
  <2>2. ESteps(c, 0) = c
    BY EclockLoop, Zenon
  <2> QED
    BY <2>1, <2>2, Zenon
<1>2. ASSUME NEW k \in Nat, k \in S PROVE k + 1 \in S
  <2> SUFFICES ASSUME k + 1 <= q PROVE P(k + 1)
    OBVIOUS
  <2>1. P(k)
    BY <1>2
  <2>2. q - (k + 1) \in Nat /\ (q - (k + 1)) + 1 = q - k
    OBVIOUS
  <2>3. ESteps(c, k) \in Cias
    BY EStepsType, Zenon
  <2>4. ESteps(c, k + 1) = tick_one_eclock(ESteps(c, k))
    BY EclockLoop, Zenon
  <2>5. Quiet(ESteps(c, k), (q - (k + 1)) + 1)
    BY <2>1, <2>2
  <2> DEFINE e == ESteps(c, k)
             j == q - (k + 1)
  <2>6. e \in Cias /\ j \in Nat /\ Quiet(e, j + 1)
    BY <2>2, <2>3, <2>5, Zenon
  <2> HIDE DEF e, j
  <2>7. /\ Quiet(tick_one_eclock(e), j)
        /\ tick_one_eclock(e).icr_data = e.icr_data /\ tick_one_eclock(e).icr_mask = e.icr_mask
    BY <2>6, QuietEclock, Zenon
  <2> QED
    BY <2>1, <2>4, <2>7, Zenon DEF e, j
<1>3. q \in S
  <2> HIDE DEF S
  <2> QED
    BY <1>1, <1>2, AllNumbers
<1>4. q <= q
  OBVIOUS
<1> HIDE DEF P
<1>5. P(q)
  BY <1>3, <1>4
<1> QED
  BY <1>5 DEF P


-----------------------------------------------------------------------------
(* CPU clocks, through the carry.                                          *)

LEMMA CarryDivision ==
    ASSUME NEW c \in Cias, NEW n \in Nat
    PROVE  /\ c.carry \in Nat /\ c.carry + n \in Nat
           /\ (c.carry + n) \div EClock \in Nat
           /\ (c.carry + n) % EClock \in 0 .. EClock - 1
<1>1. c.carry \in Nat /\ c.carry + n \in Nat
  BY CiaAssumption DEF Cias
<1>2. EClock \in Nat \ {0}
  BY CiaAssumption
<1> QED
  BY <1>1, <1>2, Division, Zenon

LEMMA TodTicksIs ==
    ASSUME NEW c, NEW k
    PROVE  TodTicks(c, k) = TodSteps(c, k)
BY Zenon DEF TodTicks, TodSteps, TodAfter

LEMMA CiaTickIs ==
    ASSUME NEW c \in Cias, NEW n \in Nat
    PROVE  CiaTick(c, n) =
             ESteps(WithCarry(c, (c.carry + n) % EClock), (c.carry + n) \div EClock)
<1> DEFINE q == (c.carry + n) \div EClock
           r == (c.carry + n) % EClock
           w == WithCarry(c, r)
<1>1. q \in Nat /\ r \in 0 .. EClock - 1
  BY CarryDivision, Zenon
<1>2. CiaTick(c, n) = tick_eclock(w, q)
  BY Zenon DEF CiaTick, WithCarry
<1> HIDE DEF q, r
<1>3. w \in Cias
  BY <1>1, WithCarryFields, Zenon DEF CarryIs
<1> HIDE DEF w
<1>4. tick_eclock(w, q) = IF is_idle(w) THEN w ELSE ESteps(w, q)
  BY Zenon DEF tick_eclock, ESteps, EAfter
<1>5. is_idle(w) => ESteps(w, q) = w
  BY <1>1, <1>3, IdleSteps, Zenon
<1>6. CiaTick(c, n) = ESteps(w, q)
  BY <1>2, <1>4, <1>5, Zenon
<1> QED
  BY <1>6 DEF w, q, r

LEMMA CiaTickType ==
    ASSUME NEW c \in Cias, NEW n \in Nat
    PROVE  CiaTick(c, n) \in Cias /\ CiaTick(c, n).carry = (c.carry + n) % EClock
<1> DEFINE q == (c.carry + n) \div EClock
           r == (c.carry + n) % EClock
           w == WithCarry(c, r)
<1>1. q \in Nat /\ r \in 0 .. EClock - 1
  BY CarryDivision, Zenon
<1>2. CiaTick(c, n) = ESteps(w, q)
  BY CiaTickIs, Zenon
<1> HIDE DEF q, r
<1>3. w \in Cias /\ w.carry = r
  BY <1>1, WithCarryFields, Zenon DEF CarryIs
<1> HIDE DEF w
<1>4. ESteps(w, q) \in Cias /\ ESteps(w, q).carry = r
  BY <1>1, <1>3, EStepsType, Zenon
<1> QED
  BY <1>2, <1>4 DEF r

LEMMA CarryTwice ==
    ASSUME NEW c \in Cias, NEW x \in 0 .. EClock - 1, NEW y \in 0 .. EClock - 1
    PROVE  WithCarry(WithCarry(c, x), y) = WithCarry(c, y)
BY DEF WithCarry, Cias

(* Clocks applied in two parts are the clocks applied at once. *)
LEMMA CiaTickAdd ==
    ASSUME NEW c \in Cias, NEW m \in Nat, NEW n \in Nat
    PROVE  CiaTick(CiaTick(c, m), n) = CiaTick(c, m + n)
<1> DEFINE q == (c.carry + m) \div EClock
           r == (c.carry + m) % EClock
           w == WithCarry(c, r)
           e == CiaTick(c, m)
           p == (r + n) \div EClock
           s == (r + n) % EClock
<1>1. q \in Nat /\ r \in 0 .. EClock - 1
  BY CarryDivision, Zenon
<1>2. e \in Cias /\ e.carry = r
  BY CiaTickType, Zenon
<1>3. p \in Nat /\ s \in 0 .. EClock - 1
  <2> HIDE DEF e, r
  <2>1. (e.carry + n) \div EClock \in Nat /\ (e.carry + n) % EClock \in 0 .. EClock - 1
    BY <1>2, CarryDivision, Zenon
  <2> QED
    BY <2>1, <1>2, Zenon
<1>4. CiaTick(e, n) = ESteps(WithCarry(e, s), p)
  <2> HIDE DEF e, r
  <2>1. CiaTick(e, n) = ESteps(WithCarry(e, (e.carry + n) % EClock), (e.carry + n) \div EClock)
    BY <1>2, CiaTickIs, Zenon
  <2> QED
    BY <2>1, <1>2, Zenon
<1>5. e = ESteps(w, q)
  BY CiaTickIs, Zenon
<1>6. q + p = (c.carry + (m + n)) \div EClock /\ s = (c.carry + (m + n)) % EClock
  <2>1. c.carry \in Nat /\ EClock \in Nat \ {0}
    BY CarryDivision, CiaAssumption
  <2>2. CountedInTwo(EClock, c.carry, m, n)
    BY <2>1, CountInTwo, Zenon
  <2> QED
    BY <2>2, Zenon DEF CountedInTwo
<1>7. CiaTick(c, m + n) = ESteps(WithCarry(c, s), q + p)
  <2>1. m + n \in Nat
    OBVIOUS
  <2>2. CiaTick(c, m + n) = ESteps(WithCarry(c, (c.carry + (m + n)) % EClock), (c.carry + (m + n)) \div EClock)
    BY <2>1, CiaTickIs, Zenon
  <2> QED
    BY <2>2, <1>6, Zenon
<1> HIDE DEF q, r, e, p, s
<1>8. w \in Cias
  BY <1>1, WithCarryFields, Zenon DEF CarryIs
<1>9. WithCarry(w, s) = WithCarry(c, s)
  BY <1>1, <1>3, CarryTwice, Zenon
<1> HIDE DEF w
<1>10. WithCarry(e, s) = ESteps(WithCarry(w, s), q)
  BY <1>1, <1>3, <1>5, <1>8, EStepsCarry, Zenon
<1>11. ESteps(ESteps(WithCarry(c, s), q), p) = ESteps(WithCarry(c, s), q + p)
  BY <1>1, <1>3, EStepsAdd, Zenon
<1>12. CiaTick(e, n) = CiaTick(c, m + n)
  BY <1>4, <1>7, <1>9, <1>10, <1>11, Zenon
<1> QED
  BY <1>12 DEF e

LEMMA TodTicksType ==
    ASSUME NEW c \in Cias, NEW f \in Nat
    PROVE  TodTicks(c, f) \in Cias /\ TodTicks(c, f).carry = c.carry
BY TodTicksIs, TodStepsType, Zenon

LEMMA NoTodTicks ==
    ASSUME NEW c
    PROVE  TodTicks(c, 0) = c
BY TodTicksIs, TodLoop, Zenon

LEMMA TodOverClocks ==
    ASSUME NEW c \in Cias, NEW n \in Nat, NEW f \in Nat
    PROVE  TodTicks(CiaTick(c, n), f) = CiaTick(TodTicks(c, f), n)
<1> DEFINE q == (c.carry + n) \div EClock
           r == (c.carry + n) % EClock
           w == WithCarry(c, r)
           t == TodSteps(c, f)
<1>1. q \in Nat /\ r \in 0 .. EClock - 1
  BY CarryDivision, Zenon
<1>2. CiaTick(c, n) = ESteps(w, q)
  BY CiaTickIs, Zenon
<1>3. t \in Cias /\ t.carry = c.carry
  BY TodStepsType, Zenon
<1>4. CiaTick(t, n) = ESteps(WithCarry(t, r), q)
  <2> HIDE DEF t
  <2>1. CiaTick(t, n) = ESteps(WithCarry(t, (t.carry + n) % EClock), (t.carry + n) \div EClock)
    BY <1>3, CiaTickIs, Zenon
  <2> QED
    BY <2>1, <1>3, Zenon
<1> HIDE DEF q, r
<1>5. w \in Cias
  BY <1>1, WithCarryFields, Zenon DEF CarryIs
<1>6. WithCarry(t, r) = TodSteps(w, f)
  BY <1>1, TodStepsCarry, Zenon
<1> HIDE DEF w
<1>7. TodSteps(ESteps(w, q), f) = ESteps(TodSteps(w, f), q)
  BY <1>1, <1>5, StepsCommute, Zenon
<1>8. TodSteps(CiaTick(c, n), f) = CiaTick(t, n)
  BY <1>2, <1>4, <1>6, <1>7, Zenon
<1> QED
  BY <1>8, TodTicksIs, Zenon DEF t

LEMMA CiaTickZero ==
    ASSUME NEW c \in Cias
    PROVE  CiaTick(c, 0) = c
<1>1. c.carry \in 0 .. EClock - 1 /\ c.carry + 0 = c.carry
  BY CiaAssumption DEF Cias
<1>2. c.carry \div EClock = 0 /\ c.carry % EClock = c.carry
  <2>1. (EClock * 0 + c.carry) \div EClock = 0 /\ (EClock * 0 + c.carry) % EClock = c.carry
    BY <1>1, CiaAssumption, Quotient
  <2>2. EClock * 0 + c.carry = c.carry
    BY <1>1, CiaAssumption
  <2> QED
    BY <2>1, <2>2, Zenon
<1>3. CiaTick(c, 0) = ESteps(WithCarry(c, (c.carry + 0) % EClock), (c.carry + 0) \div EClock)
  BY CiaTickIs
<1>4. CiaTick(c, 0) = ESteps(WithCarry(c, c.carry), 0)
  BY <1>1, <1>2, <1>3, Zenon
<1>5. WithCarry(c, c.carry) = c
  BY DEF WithCarry, Cias
<1> QED
  BY <1>4, <1>5, EclockLoop, Zenon

(* Before its deadlines a CIA raises nothing. *)
LEMMA CiaTickQuiet ==
    ASSUME NEW c \in Cias, NEW n \in Nat,
           \A x \in clocks_until_event(c) : n < x
    PROVE  CiaTick(c, n).icr_data = c.icr_data /\ CiaTick(c, n).icr_mask = c.icr_mask
<1> DEFINE q == (c.carry + n) \div EClock
           r == (c.carry + n) % EClock
           w == WithCarry(c, r)
<1>1. q \in Nat /\ r \in 0 .. EClock - 1
  BY CarryDivision, Zenon
<1>2. CiaTick(c, n) = ESteps(w, q)
  BY CiaTickIs, Zenon
<1>3. c.timer_a \in Nat /\ c.timer_b \in Nat /\ c.carry \in Nat /\ EClock \in Nat \ {0} /\ c.carry + n \in Nat
  BY CiaAssumption, CarryDivision DEF Cias
<1>4. ASSUME NEW t \in Nat, n < (t + 1) * EClock - c.carry
      PROVE  q <= t
  <2> DEFINE x == (t + 1) * EClock
  <2>1. x \in Int
    BY <1>3
  <2>2. c.carry + n < x
    <3> HIDE DEF x
    <3>1. n < x - c.carry
      BY <1>4 DEF x
    <3> QED
      BY <3>1, <2>1, <1>3
  <2>3. t + 1 \in Int
    OBVIOUS
  <2>4. q < t + 1
    BY <1>3, <2>2, <2>3, FewerThan
  <2> HIDE DEF q
  <2> QED
    BY <1>1, <2>4
<1>5. Quiet(c, q)
  <2>1. ASSUME Counts(c.cra, "E") PROVE q <= c.timer_a
    <3>1. (c.timer_a + 1) * EClock - c.carry \in clocks_until_event(c)
      BY <2>1, Zenon DEF clocks_until_event, If
    <3>2. n < (c.timer_a + 1) * EClock - c.carry
      BY <3>1, Zenon
    <3> QED
      BY <3>2, <1>3, <1>4, Zenon
  <2>2. ASSUME Counts(c.crb, "E") PROVE q <= c.timer_b
    <3>1. (c.timer_b + 1) * EClock - c.carry \in clocks_until_event(c)
      BY <2>2, Zenon DEF clocks_until_event, If
    <3>2. n < (c.timer_b + 1) * EClock - c.carry
      BY <3>1, Zenon
    <3> QED
      BY <3>2, <1>3, <1>4, Zenon
  <2> QED
    BY <2>1, <2>2, Zenon DEF Quiet
<1> HIDE DEF q, r
<1>6. CarryIs(c, r, w)
  BY <1>1, WithCarryFields, Zenon
<1> HIDE DEF w
<1>7. w \in Cias /\ Quiet(w, q)
  BY <1>5, <1>6, Zenon DEF CarryIs, Quiet
<1>8. ESteps(w, q).icr_data = w.icr_data /\ ESteps(w, q).icr_mask = w.icr_mask
  BY <1>1, <1>7, QuietSteps, Zenon
<1> QED
  BY <1>2, <1>6, <1>8, Zenon DEF CarryIs

-----------------------------------------------------------------------------
(* The beam and the deadlines.                                             *)

LEMMA DivMonotone ==
    ASSUME NEW n \in Nat \ {0}, NEW x \in Nat, NEW y \in Nat, x <= y
    PROVE  x \div n <= y \div n
<1> DEFINE d == y \div n
<1>1. d \in Nat /\ y % n \in 0 .. n - 1 /\ y = n * d + (y % n)
  BY Division
<1> DEFINE r == y % n
<1> HIDE DEF d, r
<1>2. r \in 0 .. n - 1 /\ y = n * d + r
  BY <1>1 DEF r
<1>3. x < (d + 1) * n
  <2>1. (d + 1) * n = n * d + n
    BY <1>1
  <2>2. n * d \in Int
    BY <1>1
  <2> QED
    BY <1>2, <2>1, <2>2
<1>4. d + 1 \in Int
  BY <1>1
<1>5. x \div n < d + 1
  BY <1>3, <1>4, FewerThan
<1>6. x \div n \in Nat
  BY Division
<1> QED
  BY <1>1, <1>5, <1>6 DEF d

LEMMA FrameLengthType == FrameLength \in Nat \ {0}
BY BeamAssumption DEF FrameLength

LEMMA BeamTypes ==
    ASSUME NEW d \in Devices, NEW n \in Nat
    PROVE  /\ d.carry \in Nat /\ d.total_colour_clocks \in Nat
           /\ ColourClocks(d, n) \in Nat
           /\ d.total_colour_clocks + ColourClocks(d, n) \in Nat
           /\ LinesStarted(d, n) \in Nat
           /\ FramesWrapped(d, n) \in Nat
           /\ (d.total_colour_clocks + ColourClocks(d, n)) % FrameLength \in 0 .. FrameLength - 1
           /\ (d.carry + n) % ColourClock \in 0 .. ColourClock - 1
<1>1. d.carry \in Nat /\ d.total_colour_clocks \in Nat
  BY BeamAssumption, FrameLengthType DEF Devices
<1>2. d.carry + n \in Nat
  BY <1>1
<1>3. ColourClocks(d, n) \in Nat /\ (d.carry + n) % ColourClock \in 0 .. ColourClock - 1
  BY <1>2, BeamAssumption, Division, Zenon DEF ColourClocks
<1> DEFINE x == d.total_colour_clocks
           y == d.total_colour_clocks + ColourClocks(d, n)
<1>4. x \in Nat /\ y \in Nat /\ x <= y
  BY <1>1, <1>3
<1> HIDE DEF x, y
<1>5. x \div LineLength \in Nat /\ y \div LineLength \in Nat
  BY <1>4, BeamAssumption, Division, Zenon
<1>6. x \div LineLength <= y \div LineLength
  BY <1>4, BeamAssumption, DivMonotone, Zenon
<1>7. (y \div LineLength) - (x \div LineLength) \in Nat
  BY <1>5, <1>6
<1>8. y \div FrameLength \in Nat /\ y % FrameLength \in 0 .. FrameLength - 1
  BY <1>4, FrameLengthType, Division, Zenon
<1> QED
  BY <1>1, <1>3, <1>4, <1>7, <1>8, Zenon DEF x, y, LinesStarted, FramesWrapped, FrameLength

Deadlines(d) ==
    {clocks_until_line_boundary(d)} \cup clocks_until_event(d.cia_a) \cup clocks_until_event(d.cia_b)

(* A deadline of `count` whole periods, less what is under way. *)
LEMMA WholePeriods ==
    ASSUME NEW n \in Nat \ {0}, NEW t \in Nat \ {0}, NEW carry \in 0 .. n - 1
    PROVE  t * n - carry \in Nat \ {0}
<1>1. t * n \in Int /\ t * n >= n
  <2>1. (t - 1) * n >= 0
    <3>1. t - 1 \in Nat
      OBVIOUS
    <3> QED
      BY <3>1
  <2>2. (t - 1) * n = t * n - n
    OBVIOUS
  <2> QED
    BY <2>1, <2>2
<1> DEFINE x == t * n
<1> HIDE DEF x
<1>2. x \in Int /\ x >= n
  BY <1>1 DEF x
<1>3. x - carry \in Nat \ {0}
  BY <1>2
<1> QED
  BY <1>3 DEF x

LEMMA CiaDeadlines ==
    ASSUME NEW c \in Cias
    PROVE  clocks_until_event(c) \subseteq Nat \ {0}
<1>1. c.timer_a + 1 \in Nat \ {0} /\ c.timer_b + 1 \in Nat \ {0} /\ c.carry \in 0 .. EClock - 1 /\ EClock \in Nat \ {0}
  BY CiaAssumption DEF Cias
<1>2. (c.timer_a + 1) * EClock - c.carry \in Nat \ {0} /\ (c.timer_b + 1) * EClock - c.carry \in Nat \ {0}
  BY <1>1, WholePeriods, Zenon
<1> QED
  BY <1>2, Zenon DEF clocks_until_event, If

LEMMA LineDeadline ==
    ASSUME NEW d \in Devices
    PROVE  /\ d.total_colour_clocks % LineLength \in 0 .. LineLength - 1
           /\ LineLength - (d.total_colour_clocks % LineLength) \in Nat \ {0}
           /\ clocks_until_line_boundary(d) \in Nat \ {0}
<1>1. d.carry \in 0 .. ColourClock - 1 /\ d.total_colour_clocks \in Nat
  BY FrameLengthType DEF Devices
<1> DEFINE r == d.total_colour_clocks % LineLength
<1>2. r \in 0 .. LineLength - 1
  BY <1>1, BeamAssumption, Division, Zenon
<1> HIDE DEF r
<1>3. LineLength - r \in Nat \ {0}
  BY <1>2, BeamAssumption
<1>4. (LineLength - r) * ColourClock - d.carry \in Nat \ {0}
  BY <1>1, <1>3, BeamAssumption, WholePeriods, Zenon
<1> QED
  BY <1>2, <1>3, <1>4, Zenon DEF r, clocks_until_line_boundary

(* The deadline is at least one clock away and no later than any event. *)
LEMMA NextEvent ==
    ASSUME NEW d \in Devices
    PROVE  next_event(d) \in Nat \ {0} /\ \A x \in Deadlines(d) : next_event(d) <= x
<1> DEFINE D == Deadlines(d)
           nearest == CHOOSE c \in D : \A other \in D : c <= other
<1>1. d.cia_a \in Cias /\ d.cia_b \in Cias
  BY DEF Devices
<1>2. D \in SUBSET (Nat \ {0}) /\ D # {}
  BY <1>1, LineDeadline, CiaDeadlines, Zenon DEF Deadlines
<1>3. next_event(d) = IF nearest < 1 THEN 1 ELSE nearest
  BY Zenon DEF next_event, Deadlines
<1> HIDE DEF D
<1>4. \E c \in D : \A other \in D : c <= other
  <2>1. D \in SUBSET Nat
    BY <1>2
  <2> QED
    BY <1>2, <2>1, LeastNumber, Zenon
<1>5. nearest \in D /\ \A other \in D : nearest <= other
  BY <1>4, Zenon
<1> HIDE DEF nearest
<1>6. nearest \in Nat \ {0}
  BY <1>2, <1>5
<1>7. next_event(d) = nearest
  BY <1>3, <1>6
<1> QED
  BY <1>5, <1>6, <1>7 DEF D

(* Fewer clocks than the deadline start no line and no frame. *)
LEMMA QuietBeam ==
    ASSUME NEW d \in Devices, NEW n \in Nat, n < next_event(d)
    PROVE  /\ LinesStarted(d, n) = 0 /\ FramesWrapped(d, n) = 0
           /\ (d.total_colour_clocks + ColourClocks(d, n)) % FrameLength
                = d.total_colour_clocks + ColourClocks(d, n)
<1> DEFINE T == d.total_colour_clocks
           k == ColourClocks(d, n)
           q == T \div LineLength
           r == T % LineLength
<1>1. T \in Nat /\ k \in Nat /\ d.carry \in Nat
  BY BeamTypes, Zenon
<1>2. q \in Nat /\ r \in 0 .. LineLength - 1 /\ T = LineLength * q + r
  BY <1>1, BeamAssumption, Division, Zenon
<1>3. n < (LineLength - r) * ColourClock - d.carry
  <2>1. clocks_until_line_boundary(d) \in Deadlines(d)
    BY Zenon DEF Deadlines
  <2>2. next_event(d) <= clocks_until_line_boundary(d) /\ next_event(d) \in Nat /\ clocks_until_line_boundary(d) \in Nat
    BY <2>1, NextEvent, LineDeadline, Zenon
  <2>3. n < clocks_until_line_boundary(d)
    BY <2>2
  <2> QED
    BY <2>3, Zenon DEF clocks_until_line_boundary
<1>4. T < FrameLength
  BY FrameLengthType DEF Devices
<1>5. k = (d.carry + n) \div ColourClock
  BY Zenon DEF ColourClocks
<1> HIDE DEF T, k, q, r
<1>6. k < LineLength - r
  <2> DEFINE x == (LineLength - r) * ColourClock
  <2>1. x \in Int
    BY <1>2, BeamAssumption
  <2>2. d.carry + n < x
    <3>1. n < x - d.carry
      BY <1>3
    <3> HIDE DEF x
    <3> QED
      BY <3>1, <2>1, <1>1
  <2>3. LineLength - r \in Int /\ d.carry + n \in Nat
    BY <1>1, <1>2, BeamAssumption
  <2> QED
    BY <1>5, <2>2, <2>3, BeamAssumption, FewerThan, Zenon
<1>7. r + k \in 0 .. LineLength - 1
  BY <1>1, <1>2, <1>6, BeamAssumption
<1>8. T + k = LineLength * q + (r + k)
  <2> DEFINE x == LineLength * q
  <2>1. x \in Int /\ T = x + r
    BY <1>2, BeamAssumption
  <2> HIDE DEF x
  <2>2. T + k = x + (r + k)
    BY <2>1, <1>1, <1>2
  <2> QED
    BY <2>2 DEF x
<1>9. (T + k) \div LineLength = q
  BY <1>2, <1>7, <1>8, BeamAssumption, Quotient, Zenon
<1>10. q < LinesPerFrame
  <2>1. T < LinesPerFrame * LineLength
    BY <1>4, BeamAssumption DEF FrameLength
  <2>2. LinesPerFrame \in Int
    BY BeamAssumption
  <2> QED
    BY <1>1, <2>1, <2>2, BeamAssumption, FewerThan, Zenon DEF q
<1>11. T + k < FrameLength
  <2>1. LineLength * (q + 1) <= LineLength * LinesPerFrame
    <3>1. q + 1 <= LinesPerFrame /\ LinesPerFrame - (q + 1) \in Nat
      BY <1>2, <1>10, BeamAssumption
    <3>2. LineLength * (LinesPerFrame - (q + 1)) >= 0
      BY <3>1, BeamAssumption
    <3>3. LineLength * (LinesPerFrame - (q + 1)) = LineLength * LinesPerFrame - LineLength * (q + 1)
      BY <1>2, BeamAssumption
    <3>4. LineLength * LinesPerFrame \in Int /\ LineLength * (q + 1) \in Int
      BY <1>2, BeamAssumption
    <3> QED
      BY <3>2, <3>3, <3>4
  <2>2. LineLength * (q + 1) = LineLength * q + LineLength
    BY <1>2, BeamAssumption
  <2>3. LineLength * q \in Int /\ LineLength * LinesPerFrame \in Int
    BY <1>2, BeamAssumption
  <2>4. LineLength * q + (r + k) < LineLength * q + LineLength
    BY <2>3, <1>7, BeamAssumption
  <2> QED
    BY <2>1, <2>2, <2>3, <2>4, <1>7, <1>8, BeamAssumption DEF FrameLength
<1>12. (T + k) \div FrameLength = 0 /\ (T + k) % FrameLength = T + k
  <2> DEFINE x == T + k
  <2>1. x \in 0 .. FrameLength - 1 /\ FrameLength * 0 + x = x
    BY <1>1, <1>11, FrameLengthType
  <2> HIDE DEF x
  <2>2. (FrameLength * 0 + x) \div FrameLength = 0 /\ (FrameLength * 0 + x) % FrameLength = x
    BY <2>1, FrameLengthType, Quotient
  <2>3. x \div FrameLength = 0 /\ x % FrameLength = x
    BY <2>1, <2>2, Zenon
  <2> QED
    BY <2>3 DEF x
<1>13. q - q = 0
  BY <1>2
<1> QED
  BY <1>9, <1>12, <1>13, Zenon DEF T, k, q, LinesStarted, FramesWrapped, FrameLength

-----------------------------------------------------------------------------
(* All devices.                                                            *)

LEMMA SameDevices ==
    ASSUME NEW d \in Devices, NEW e \in Devices,
           d.total_colour_clocks = e.total_colour_clocks, d.carry = e.carry,
           d.odd_frame = e.odd_frame, d.intreq = e.intreq,
           d.cia_a = e.cia_a, d.cia_b = e.cia_b, d.board = e.board, d.card = e.card
    PROVE  d = e
BY DEF Devices

BoardAfter(d, n) == IF LinesStarted(d, n) > 0 THEN BoardTick(d.board) ELSE d.board
CardAfter(d, n) == IF FramesWrapped(d, n) > 0 THEN Retrace(d.card) ELSE d.card

AfterTick(d, n, t) ==
    /\ t \in Devices
    /\ t.total_colour_clocks = (d.total_colour_clocks + ColourClocks(d, n)) % FrameLength
    /\ t.carry = (d.carry + n) % ColourClock
    /\ t.odd_frame = (d.odd_frame # (FramesWrapped(d, n) % 2 = 1))
    /\ t.cia_a = CiaTick(TodTicks(d.cia_a, FramesWrapped(d, n)), n)
    /\ t.cia_b = CiaTick(TodTicks(d.cia_b, LinesStarted(d, n)), n)
    /\ t.board = BoardAfter(d, n)
    /\ t.card = CardAfter(d, n)
    /\ t.intreq = d.intreq
          \cup If(FramesWrapped(d, n) > 0, "VERTB")
          \cup If(card_irq_pending(t.card) \/ (LinesStarted(d, n) > 0 /\ t.board.irq) \/ irq_pending(t.cia_a), "PORTS")
          \cup If(irq_pending(t.cia_b), "EXTER")

LEMMA TickFields ==
    ASSUME NEW d \in Devices, NEW n \in Nat
    PROVE  AfterTick(d, n, tick_exact(d, n))
<1> DEFINE T == (d.total_colour_clocks + ColourClocks(d, n)) % FrameLength
           k == (d.carry + n) % ColourClock
           o == (d.odd_frame # (FramesWrapped(d, n) % 2 = 1))
           a == CiaTick(TodTicks(d.cia_a, FramesWrapped(d, n)), n)
           b == CiaTick(TodTicks(d.cia_b, LinesStarted(d, n)), n)
           bo == BoardAfter(d, n)
           ca == CardAfter(d, n)
           i == d.intreq
              \cup If(FramesWrapped(d, n) > 0, "VERTB")
              \cup If(card_irq_pending(ca) \/ (LinesStarted(d, n) > 0 /\ bo.irq) \/ irq_pending(a), "PORTS")
              \cup If(irq_pending(b), "EXTER")
           t == [total_colour_clocks |-> T, carry |-> k, odd_frame |-> o,
                 cia_a |-> a, cia_b |-> b, board |-> bo, card |-> ca, intreq |-> i]
<1>1. tick_exact(d, n) = t
  BY Zenon DEF tick_exact, BoardAfter, CardAfter, FrameLength
<1>2. d.cia_a \in Cias /\ d.cia_b \in Cias
  BY DEF Devices
<1>3. FramesWrapped(d, n) \in Nat /\ LinesStarted(d, n) \in Nat
  BY BeamTypes, Zenon
<1>4. a \in Cias /\ b \in Cias
  <2>1. TodTicks(d.cia_a, FramesWrapped(d, n)) \in Cias /\ TodTicks(d.cia_b, LinesStarted(d, n)) \in Cias
    BY <1>2, <1>3, TodTicksType, Zenon
  <2> QED
    BY <2>1, CiaTickType, Zenon
<1>5. T \in 0 .. FrameLength - 1 /\ k \in 0 .. ColourClock - 1
  BY BeamTypes, Zenon
<1>6. bo \in [queued : BOOLEAN, irq : BOOLEAN]
  BY DEF Devices, BoardAfter, BoardTick
<1>7. ca \in [enabled : BOOLEAN, vblank_pending : BOOLEAN]
  BY DEF Devices, CardAfter, Retrace
<1>8. o \in BOOLEAN
  BY Zenon
<1>9. i \in SUBSET IntreqNames
  <2>1. d.intreq \in SUBSET IntreqNames
    BY DEF Devices
  <2>2. "VERTB" \in IntreqNames /\ "PORTS" \in IntreqNames /\ "EXTER" \in IntreqNames
    BY DEF IntreqNames
  <2> QED
    BY <2>1, <2>2, Zenon DEF If
<1> HIDE DEF T, k, o, a, b, bo, ca, i
<1>10. t \in Devices
  BY <1>4, <1>5, <1>6, <1>7, <1>8, <1>9 DEF Devices
<1>11. /\ t.total_colour_clocks = T /\ t.carry = k /\ t.odd_frame = o /\ t.cia_a = a /\ t.cia_b = b
       /\ t.board = bo /\ t.card = ca /\ t.intreq = i
  BY Zenon
<1> HIDE DEF t
<1> QED
  BY <1>1, <1>10, <1>11, Zenon DEF AfterTick, T, k, o, a, b, bo, ca, i

(* A tick leaves every level that asserts in INTREQ. *)
LEMMA TickLevels ==
    ASSUME NEW d \in Devices, NEW n \in Nat
    PROVE  tick_exact(d, n) \in Devices /\ Levels(tick_exact(d, n))
<1> DEFINE t == tick_exact(d, n)
<1>1. AfterTick(d, n, t)
  BY TickFields, Zenon
<1> HIDE DEF t
<1>2. Levels(t)
  BY <1>1, Zenon DEF AfterTick, Levels, If
<1> QED
  BY <1>1, <1>2, Zenon DEF AfterTick, t

(* What fewer clocks than the deadline do. *)
QuietTick(d, n, t) ==
    /\ t \in Devices
    /\ t.total_colour_clocks = d.total_colour_clocks + ColourClocks(d, n)
    /\ t.carry = (d.carry + n) % ColourClock
    /\ t.cia_a = CiaTick(d.cia_a, n) /\ t.cia_b = CiaTick(d.cia_b, n)
    /\ t.cia_a.icr_data = d.cia_a.icr_data /\ t.cia_a.icr_mask = d.cia_a.icr_mask
    /\ t.cia_b.icr_data = d.cia_b.icr_data /\ t.cia_b.icr_mask = d.cia_b.icr_mask
    /\ t.odd_frame = d.odd_frame /\ t.board = d.board /\ t.card = d.card
    /\ t.intreq = d.intreq

LEMMA QuietTicks ==
    ASSUME NEW d \in Devices, NEW n \in Nat, Levels(d), n < next_event(d)
    PROVE  QuietTick(d, n, tick_exact(d, n))
<1> DEFINE t == tick_exact(d, n)
<1>1. AfterTick(d, n, t)
  BY TickFields, Zenon
<1>2. /\ LinesStarted(d, n) = 0 /\ FramesWrapped(d, n) = 0
      /\ (d.total_colour_clocks + ColourClocks(d, n)) % FrameLength
           = d.total_colour_clocks + ColourClocks(d, n)
  BY QuietBeam, Zenon
<1> HIDE DEF t
<1>3. d.cia_a \in Cias /\ d.cia_b \in Cias /\ d.odd_frame \in BOOLEAN /\ d.intreq \in SUBSET IntreqNames
  BY DEF Devices
<1>4. t.cia_a = CiaTick(d.cia_a, n) /\ t.cia_b = CiaTick(d.cia_b, n)
  BY <1>1, <1>2, NoTodTicks, Zenon DEF AfterTick
<1>5. next_event(d) \in Nat /\ \A x \in Deadlines(d) : next_event(d) <= x
  BY NextEvent
<1>6. ASSUME NEW c \in {d.cia_a, d.cia_b}
      PROVE  CiaTick(c, n).icr_data = c.icr_data /\ CiaTick(c, n).icr_mask = c.icr_mask
  <2>1. c \in Cias
    BY <1>3
  <2>2. clocks_until_event(c) \subseteq Deadlines(d)
    BY Zenon DEF Deadlines
  <2>3. clocks_until_event(c) \subseteq Nat
    BY <2>1, CiaDeadlines
  <2>4. \A x \in clocks_until_event(c) : n < x
    BY <1>5, <2>2, <2>3
  <2> QED
    BY <2>1, <2>4, CiaTickQuiet, Zenon
<1>7. /\ t.cia_a.icr_data = d.cia_a.icr_data /\ t.cia_a.icr_mask = d.cia_a.icr_mask
      /\ t.cia_b.icr_data = d.cia_b.icr_data /\ t.cia_b.icr_mask = d.cia_b.icr_mask
  BY <1>4, <1>6, Zenon
<1>8. ~(0 > 0) /\ 0 % 2 = 0 /\ 0 # 1
  OBVIOUS
<1>9. t.board = d.board /\ t.card = d.card
  BY <1>1, <1>2, <1>8, Zenon DEF AfterTick, BoardAfter, CardAfter
<1>10. t.odd_frame = d.odd_frame
  <2>1. ~(FramesWrapped(d, n) % 2 = 1)
    BY <1>2, <1>8
  <2>2. t.odd_frame = (d.odd_frame # FALSE)
    BY <1>1, <2>1, Zenon DEF AfterTick
  <2>3. CASE d.odd_frame = TRUE
    BY <2>2, <2>3, Zenon
  <2>4. CASE d.odd_frame = FALSE
    BY <2>2, <2>4, Zenon
  <2> QED
    BY <1>3, <2>3, <2>4
<1>11. t.intreq = d.intreq
  <2>1. irq_pending(t.cia_a) <=> irq_pending(d.cia_a)
    BY <1>7, Zenon DEF irq_pending
  <2>2. irq_pending(t.cia_b) <=> irq_pending(d.cia_b)
    BY <1>7, Zenon DEF irq_pending
  <2>3. If(FramesWrapped(d, n) > 0, "VERTB") \subseteq d.intreq
    BY <1>2, <1>8, Zenon DEF If
  <2>4. If(card_irq_pending(t.card) \/ (LinesStarted(d, n) > 0 /\ t.board.irq) \/ irq_pending(t.cia_a), "PORTS")
          \subseteq d.intreq
    BY <1>2, <1>8, <1>9, <2>1, Zenon DEF If, Levels
  <2>5. If(irq_pending(t.cia_b), "EXTER") \subseteq d.intreq
    BY <2>2, Zenon DEF If, Levels
  <2>6. t.intreq = d.intreq
          \cup If(FramesWrapped(d, n) > 0, "VERTB")
          \cup If(card_irq_pending(t.card) \/ (LinesStarted(d, n) > 0 /\ t.board.irq) \/ irq_pending(t.cia_a), "PORTS")
          \cup If(irq_pending(t.cia_b), "EXTER")
    BY <1>1, Zenon DEF AfterTick
  <2> QED
    BY <2>3, <2>4, <2>5, <2>6, Zenon
<1> QED
  BY <1>1, <1>2, <1>4, <1>7, <1>9, <1>10, <1>11, Zenon DEF AfterTick, QuietTick, t

LEMMA TickZero ==
    ASSUME NEW d \in Devices, Levels(d)
    PROVE  tick_exact(d, 0) = d
<1> DEFINE t == tick_exact(d, 0)
<1>1. 0 < next_event(d)
  BY NextEvent
<1>2. QuietTick(d, 0, t)
  BY <1>1, QuietTicks
<1> HIDE DEF t
<1>3. d.carry \in 0 .. ColourClock - 1 /\ d.total_colour_clocks \in Nat /\ d.cia_a \in Cias /\ d.cia_b \in Cias
  BY FrameLengthType DEF Devices
<1>4. d.carry + 0 = d.carry
  BY <1>3, BeamAssumption
<1>5. d.carry \div ColourClock = 0 /\ d.carry % ColourClock = d.carry
  <2>1. (ColourClock * 0 + d.carry) \div ColourClock = 0 /\ (ColourClock * 0 + d.carry) % ColourClock = d.carry
    BY <1>3, BeamAssumption, Quotient
  <2>2. ColourClock * 0 + d.carry = d.carry
    BY <1>3, BeamAssumption
  <2> QED
    BY <2>1, <2>2, Zenon
<1>6. t.carry = d.carry
  BY <1>2, <1>4, <1>5, Zenon DEF QuietTick
<1>7. ColourClocks(d, 0) = 0
  BY <1>4, <1>5, Zenon DEF ColourClocks
<1>8. t.total_colour_clocks = d.total_colour_clocks
  BY <1>2, <1>3, <1>7 DEF QuietTick
<1>9. t.cia_a = d.cia_a /\ t.cia_b = d.cia_b
  BY <1>2, <1>3, CiaTickZero, Zenon DEF QuietTick
<1>10. t = d
  BY <1>2, <1>6, <1>8, <1>9, SameDevices, Zenon DEF QuietTick
<1> QED
  BY <1>10 DEF t

(* Clocks deferred short of the deadline and then applied with the next
   ones are the clocks applied one batch after the other. *)
LEMMA TickAdd ==
    ASSUME NEW d \in Devices, NEW m \in Nat, NEW n \in Nat, Levels(d), m < next_event(d)
    PROVE  tick_exact(tick_exact(d, m), n) = tick_exact(d, m + n)
<1> DEFINE t == tick_exact(d, m)
           p == tick_exact(t, n)
           q == tick_exact(d, m + n)
<1>1. m + n \in Nat
  OBVIOUS
<1>2. QuietTick(d, m, t)
  BY QuietTicks, Zenon
<1>3. AfterTick(d, m + n, q)
  BY <1>1, TickFields, Zenon
<1>4. AfterTick(t, n, p)
  <2>1. t \in Devices
    BY <1>2, Zenon DEF QuietTick
  <2> QED
    BY <2>1, TickFields, Zenon
<1> HIDE DEF t, p, q
<1>5. t \in Devices
  BY <1>2, Zenon DEF QuietTick
<1>6. ColourClocks(d, m + n) = ColourClocks(d, m) + ColourClocks(t, n) /\ (t.carry + n) % ColourClock = (d.carry + (m + n)) % ColourClock
  <2>1. CountedInTwo(ColourClock, d.carry, m, n)
    BY BeamTypes, BeamAssumption, CountInTwo, Zenon
  <2>2. t.carry = (d.carry + m) % ColourClock
    BY <1>2, Zenon DEF QuietTick
  <2> QED
    BY <2>1, <2>2, Zenon DEF CountedInTwo, ColourClocks
<1>7. t.total_colour_clocks + ColourClocks(t, n) = d.total_colour_clocks + ColourClocks(d, m + n)
  <2> DEFINE x == d.total_colour_clocks
             y == ColourClocks(d, m)
             z == ColourClocks(t, n)
  <2>1. x \in Nat /\ y \in Nat /\ z \in Nat
    BY <1>5, BeamTypes, Zenon
  <2>2. t.total_colour_clocks = x + y
    BY <1>2, Zenon DEF QuietTick
  <2>3. ColourClocks(d, m + n) = y + z
    BY <1>6, Zenon
  <2> HIDE DEF x, y, z
  <2>4. (x + y) + z = x + (y + z)
    BY <2>1
  <2> QED
    BY <2>2, <2>3, <2>4, Zenon DEF x, z
<1>8. t.total_colour_clocks \div LineLength = d.total_colour_clocks \div LineLength
  <2> DEFINE x == t.total_colour_clocks \div LineLength
             y == d.total_colour_clocks \div LineLength
  <2>1. x - y = 0
    <3>1. LinesStarted(d, m) = 0
      BY QuietBeam, Zenon
    <3> QED
      BY <3>1, <1>2, Zenon DEF QuietTick, LinesStarted
  <2>2. x \in Nat /\ y \in Nat
    BY <1>5, BeamTypes, BeamAssumption, Division, Zenon
  <2> HIDE DEF x, y
  <2>3. x = y
    BY <2>1, <2>2
  <2> QED
    BY <2>3 DEF x, y
<1>9. LinesStarted(t, n) = LinesStarted(d, m + n) /\ FramesWrapped(t, n) = FramesWrapped(d, m + n)
  BY <1>7, <1>8, Zenon DEF LinesStarted, FramesWrapped
<1>10. LinesStarted(t, n) \in Nat /\ FramesWrapped(t, n) \in Nat
  BY <1>5, BeamTypes, Zenon
<1>11. d.cia_a \in Cias /\ d.cia_b \in Cias
  BY DEF Devices
<1>12. ASSUME NEW c \in Cias, NEW f \in Nat
       PROVE  CiaTick(TodTicks(CiaTick(c, m), f), n) = CiaTick(TodTicks(c, f), m + n)
  <2>1. TodTicks(CiaTick(c, m), f) = CiaTick(TodTicks(c, f), m) /\ TodTicks(c, f) \in Cias
    BY TodOverClocks, TodTicksType, Zenon
  <2> DEFINE x == TodTicks(c, f)
  <2>2. x \in Cias /\ TodTicks(CiaTick(c, m), f) = CiaTick(x, m)
    BY <2>1, Zenon
  <2> HIDE DEF x
  <2>3. CiaTick(CiaTick(x, m), n) = CiaTick(x, m + n)
    BY <2>2, CiaTickAdd
  <2> QED
    BY <2>2, <2>3, Zenon DEF x
<1>13. p.cia_a = q.cia_a
  <2>1. p.cia_a = CiaTick(TodTicks(CiaTick(d.cia_a, m), FramesWrapped(t, n)), n)
    BY <1>2, <1>4, Zenon DEF QuietTick, AfterTick
  <2>2. q.cia_a = CiaTick(TodTicks(d.cia_a, FramesWrapped(t, n)), m + n)
    BY <1>3, <1>9, Zenon DEF AfterTick
  <2> QED
    BY <2>1, <2>2, <1>10, <1>11, <1>12, Zenon
<1>14. p.cia_b = q.cia_b
  <2>1. p.cia_b = CiaTick(TodTicks(CiaTick(d.cia_b, m), LinesStarted(t, n)), n)
    BY <1>2, <1>4, Zenon DEF QuietTick, AfterTick
  <2>2. q.cia_b = CiaTick(TodTicks(d.cia_b, LinesStarted(t, n)), m + n)
    BY <1>3, <1>9, Zenon DEF AfterTick
  <2> QED
    BY <2>1, <2>2, <1>10, <1>11, <1>12, Zenon
<1>15. p.total_colour_clocks = q.total_colour_clocks /\ p.carry = q.carry
  BY <1>3, <1>4, <1>6, <1>7, Zenon DEF AfterTick
<1>16. p.odd_frame = q.odd_frame
  BY <1>2, <1>3, <1>4, <1>9, Zenon DEF AfterTick, QuietTick
<1>17. p.board = q.board /\ p.card = q.card
  BY <1>2, <1>3, <1>4, <1>9, Zenon DEF AfterTick, QuietTick, BoardAfter, CardAfter
<1>18. p.intreq = q.intreq
  BY <1>2, <1>3, <1>4, <1>9, <1>13, <1>14, <1>17, Zenon DEF AfterTick, QuietTick
<1>19. p \in Devices /\ q \in Devices
  BY <1>3, <1>4, Zenon DEF AfterTick
<1>20. p = q
  BY <1>13, <1>14, <1>15, <1>16, <1>17, <1>18, <1>19, SameDevices, Zenon
<1> QED
  BY <1>20 DEF p, q, t

-----------------------------------------------------------------------------
(* Register accesses.                                                      *)

LEMMA Reasserted ==
    ASSUME NEW d \in Devices
    PROVE  LET t == reassert_level_irqs(d)
           IN  /\ t \in Devices /\ Levels(t)
               /\ t.total_colour_clocks = d.total_colour_clocks /\ t.carry = d.carry
               /\ t.odd_frame = d.odd_frame
               /\ t.cia_a = d.cia_a /\ t.cia_b = d.cia_b /\ t.board = d.board /\ t.card = d.card
               /\ t.intreq = d.intreq \cup If(irq_pending(d.cia_a) \/ card_irq_pending(d.card), "PORTS")
                                \cup If(irq_pending(d.cia_b), "EXTER")
<1> DEFINE i == d.intreq \cup If(irq_pending(d.cia_a) \/ card_irq_pending(d.card), "PORTS")
                  \cup If(irq_pending(d.cia_b), "EXTER")
           t == [d EXCEPT !.intreq = i]
<1>1. reassert_level_irqs(d) = t
  BY Zenon DEF reassert_level_irqs
<1>2. i \in SUBSET IntreqNames
  <2>1. d.intreq \in SUBSET IntreqNames
    BY DEF Devices
  <2>2. "PORTS" \in IntreqNames /\ "EXTER" \in IntreqNames
    BY DEF IntreqNames
  <2> QED
    BY <2>1, <2>2, Zenon DEF If
<1>3. (irq_pending(d.cia_a) \/ card_irq_pending(d.card) => "PORTS" \in i) /\ (irq_pending(d.cia_b) => "EXTER" \in i)
  BY Zenon DEF If
<1> HIDE DEF i
<1>4. t \in Devices
  BY <1>2 DEF Devices
<1>5. /\ t.total_colour_clocks = d.total_colour_clocks /\ t.carry = d.carry
      /\ t.odd_frame = d.odd_frame
      /\ t.cia_a = d.cia_a /\ t.cia_b = d.cia_b /\ t.board = d.board /\ t.card = d.card
      /\ t.intreq = i
  BY DEF Devices
<1> HIDE DEF t
<1>6. Levels(t)
  BY <1>3, <1>5, Zenon DEF Levels
<1> QED
  BY <1>1, <1>4, <1>5, <1>6, Zenon DEF i

(* The deadlines are read off these fields alone. *)
SameTimers(c, e) ==
    c.timer_a = e.timer_a /\ c.timer_b = e.timer_b /\ c.cra = e.cra /\ c.crb = e.crb /\ c.carry = e.carry

LEMMA SameDeadline ==
    ASSUME NEW d, NEW e,
           d.total_colour_clocks = e.total_colour_clocks, d.carry = e.carry,
           SameTimers(d.cia_a, e.cia_a), SameTimers(d.cia_b, e.cia_b)
    PROVE  next_event(d) = next_event(e)
<1>1. clocks_until_event(d.cia_a) = clocks_until_event(e.cia_a) /\ clocks_until_event(d.cia_b) = clocks_until_event(e.cia_b)
  BY Zenon DEF SameTimers, clocks_until_event
<1>2. clocks_until_line_boundary(d) = clocks_until_line_boundary(e)
  BY Zenon DEF clocks_until_line_boundary
<1> DEFINE Nearest(D) == CHOOSE c \in D : \A other \in D : c <= other
<1>3. Deadlines(d) = Deadlines(e)
  BY <1>1, <1>2, Zenon DEF Deadlines
<1>4. next_event(d) = IF Nearest(Deadlines(d)) < 1 THEN 1 ELSE Nearest(Deadlines(d))
  BY Zenon DEF next_event, Deadlines
<1>5. next_event(e) = IF Nearest(Deadlines(e)) < 1 THEN 1 ELSE Nearest(Deadlines(e))
  BY Zenon DEF next_event, Deadlines
<1>6. Nearest(Deadlines(d)) = Nearest(Deadlines(e))
  BY <1>3, Zenon
<1> DEFINE x == Nearest(Deadlines(d))
           y == Nearest(Deadlines(e))
<1>7. x = y /\ next_event(d) = (IF x < 1 THEN 1 ELSE x) /\ next_event(e) = (IF y < 1 THEN 1 ELSE y)
  BY <1>4, <1>5, <1>6, Zenon
<1> HIDE DEF x, y
<1> QED
  BY <1>7

LEMMA ReadCiaFields ==
    ASSUME NEW c \in Cias, NEW r \in ReadAccesses
    PROVE  LET t == read(c, r).cia
           IN  t \in Cias /\ SameTimers(t, c) /\ t.icr_data \subseteq c.icr_data /\ t.icr_mask = c.icr_mask
<1> DEFINE Good(t) == t \in Cias /\ SameTimers(t, c) /\ t.icr_data \subseteq c.icr_data /\ t.icr_mask = c.icr_mask
<1>1. Good(c)
  BY Zenon DEF SameTimers
<1>2. CASE r.reg \in {"TA", "TB", "CRA", "CRB"}
  <2>1. read(c, r).cia = c
    BY <1>2 DEF read
  <2> QED
    BY <1>1, <2>1, Zenon
<1>3. CASE r.reg = "ICR"
  <2>1. read(c, r).cia = [c EXCEPT !.icr_data = {}]
    BY <1>3 DEF read
  <2> DEFINE t == [c EXCEPT !.icr_data = {}]
  <2>2. Good(t)
    BY DEF Cias, SameTimers
  <2> QED
    BY <2>1, <2>2, Zenon
<1>4. CASE r.reg = "TOD"
  <2> DEFINE v == ReadTod(c, r.byte).cia.tod_latched
  <2>1. read(c, r).cia = ReadTod(c, r.byte).cia
    BY <1>4 DEF read
  <2> DEFINE latched == IF c.tod_latched # NotLatched THEN c.tod_latched
                        ELSE IF r.byte = 2 THEN c.tod ELSE NotLatched
             new == IF r.byte = 0 THEN NotLatched ELSE latched
             t == [c EXCEPT !.tod_latched = new]
  <2>2. ReadTod(c, r.byte).cia = t
    BY DEF ReadTod
  <2>3. new \in Int
    BY DEF NotLatched, Cias
  <2> HIDE DEF new
  <2>4. Good(t)
    BY <2>3 DEF Cias, SameTimers
  <2> QED
    BY <2>1, <2>2, <2>4, Zenon
<1>5. r.reg \in {"TA", "TB", "CRA", "CRB", "ICR", "TOD"}
  BY DEF ReadAccesses
<1> QED
  BY <1>2, <1>3, <1>4, <1>5

LEMMA WeightType ==
    ASSUME NEW i \in 0 .. 2
    PROVE  Weight(i) \in Nat \ {0}
<1>1. Byte \in Nat \ {0} /\ Byte * Byte \in Nat \ {0}
  BY CiaAssumption
<1> DEFINE x == Byte * Byte
<1> HIDE DEF x
<1>2. <<1, Byte, x>>[i + 1] \in Nat \ {0}
  <2>1. x \in Nat \ {0}
    BY <1>1 DEF x
  <2>2. CASE i = 0
    BY <2>2
  <2>3. CASE i = 1
    BY <2>3, <1>1
  <2>4. CASE i = 2
    BY <2>4, <2>1
  <2> QED
    BY <2>2, <2>3, <2>4
<1> QED
  BY <1>2, Zenon DEF Weight, x

(* Replacing a byte never takes a register below zero. *)
LEMMA SetByteType ==
    ASSUME NEW x \in Nat, NEW i \in 0 .. 2, NEW value \in 0 .. Byte - 1
    PROVE  SetByte(x, i, value) \in Nat
<1> DEFINE W == Weight(i)
           y == x \div W
           g == y % Byte
<1>1. W \in Nat \ {0} /\ Byte \in Nat \ {0}
  BY WeightType, CiaAssumption
<1>2. y \in Nat /\ x % W \in 0 .. W - 1 /\ x = W * y + (x % W)
  <2> HIDE DEF W
  <2> QED
    BY <1>1, Division
<1>3. y \div Byte \in Nat /\ g \in 0 .. Byte - 1 /\ y = Byte * (y \div Byte) + g
  <2> HIDE DEF y
  <2> QED
    BY <1>1, <1>2, Division
<1>4. SetByte(x, i, value) = x + (value - g) * W
  BY Zenon DEF SetByte, GetByte
<1> DEFINE k == y \div Byte
           r == x % W
<1> HIDE DEF W, y, g, k, r
<1>5. k \in Nat /\ r \in Nat /\ y \in Nat /\ g \in Nat /\ value \in Nat /\ y = Byte * k + g /\ x = W * y + r
  BY <1>1, <1>2, <1>3 DEF k, r
<1>6. g <= y
  <2>1. Byte * k \in Nat
    BY <1>1, <1>5
  <2> QED
    BY <1>5, <2>1
<1>7. (y - g) * W >= 0
  <2>1. y - g \in Nat
    BY <1>5, <1>6
  <2> QED
    BY <2>1, <1>1
<1>8. value * W >= 0
  BY <1>1, <1>5
<1>9. (value - g) * W = value * W - g * W /\ (y - g) * W = y * W - g * W /\ y * W = W * y
  BY <1>1, <1>5
<1>10. value * W \in Int /\ g * W \in Int /\ y * W \in Int
  BY <1>1, <1>5
<1>11. x + (value - g) * W \in Nat
  BY <1>5, <1>7, <1>8, <1>9, <1>10
<1> QED
  BY <1>4, <1>11

LEMMA AlarmChecked ==
    ASSUME NEW c \in Cias
    PROVE  check_tod_alarm(c) \in Cias
<1> DEFINE eq == c.tod = c.tod_alarm
           icr == c.icr_data \cup If(eq /\ ~c.tod_matching, "ALRM")
<1>1. check_tod_alarm(c) = [c EXCEPT !.icr_data = icr, !.tod_matching = eq]
  BY Zenon DEF check_tod_alarm
<1>2. icr \in SUBSET IcrBits /\ eq \in BOOLEAN
  BY DEF Cias, IcrBits, If
<1> HIDE DEF eq, icr
<1>3. [c EXCEPT !.icr_data = icr, !.tod_matching = eq] \in Cias
  BY <1>2 DEF Cias
<1> QED
  BY <1>1, <1>3

LEMMA WriteCiaType ==
    ASSUME NEW c \in Cias, NEW w \in WriteAccesses
    PROVE  write(c, w) \in Cias
<1>0. c.latch_a \in Nat /\ c.latch_b \in Nat /\ c.timer_a \in Nat /\ c.timer_b \in Nat
      /\ c.tod \in Nat /\ c.tod_alarm \in Nat /\ c.cra \in Controls /\ c.crb \in Controls
      /\ c.icr_mask \in SUBSET IcrBits /\ c.tod_stopped \in BOOLEAN
  BY DEF Cias
<1>1. CASE w.reg = "TA"
  <2>1. write(c, w) = write_latch_a(c, w.byte, w.value)
    BY <1>1 DEF write
  <2>2. w.byte \in 0 .. 2 /\ w.value \in 0 .. Byte - 1
    BY <1>1 DEF WriteAccesses
  <2> DEFINE latch == SetByte(c.latch_a, w.byte, w.value)
             load == w.byte = 1 /\ LoadsOnHigh(c.cra)
             ta == IF load THEN latch ELSE c.timer_a
             ca == IF load THEN StartOneshot(c.cra) ELSE c.cra
  <2>3. latch \in Nat
    BY <1>0, <2>2, SetByteType, Zenon
  <2>4. write_latch_a(c, w.byte, w.value) = [c EXCEPT !.latch_a = latch, !.timer_a = ta, !.cra = ca]
    BY Zenon DEF write_latch_a
  <2> HIDE DEF latch, load
  <2>5. ta \in Nat /\ ca \in Controls
    BY <1>0, <2>3 DEF StartOneshot, Controls
  <2> HIDE DEF ta, ca
  <2>6. [c EXCEPT !.latch_a = latch, !.timer_a = ta, !.cra = ca] \in Cias
    BY <2>3, <2>5 DEF Cias
  <2> QED
    BY <2>1, <2>4, <2>6, Zenon
<1>2. CASE w.reg = "TB"
  <2>1. write(c, w) = write_latch_b(c, w.byte, w.value)
    BY <1>2 DEF write
  <2>2. w.byte \in 0 .. 2 /\ w.value \in 0 .. Byte - 1
    BY <1>2 DEF WriteAccesses
  <2> DEFINE latch == SetByte(c.latch_b, w.byte, w.value)
             load == w.byte = 1 /\ LoadsOnHigh(c.crb)
             tb == IF load THEN latch ELSE c.timer_b
             cb == IF load THEN StartOneshot(c.crb) ELSE c.crb
  <2>3. latch \in Nat
    BY <1>0, <2>2, SetByteType, Zenon
  <2>4. write_latch_b(c, w.byte, w.value) = [c EXCEPT !.latch_b = latch, !.timer_b = tb, !.crb = cb]
    BY Zenon DEF write_latch_b
  <2> HIDE DEF latch, load
  <2>5. tb \in Nat /\ cb \in Controls
    BY <1>0, <2>3 DEF StartOneshot, Controls
  <2> HIDE DEF tb, cb
  <2>6. [c EXCEPT !.latch_b = latch, !.timer_b = tb, !.crb = cb] \in Cias
    BY <2>3, <2>5 DEF Cias
  <2> QED
    BY <2>1, <2>4, <2>6, Zenon
<1>3. CASE w.reg = "TOD"
  <2>1. write(c, w) = write_tod(c, w.byte, w.value)
    BY <1>3 DEF write
  <2>2. w.byte \in 0 .. 2 /\ w.value \in 0 .. Byte - 1
    BY <1>3 DEF WriteAccesses
  <2> DEFINE al == SetByte(c.tod_alarm, w.byte, w.value)
             td == SetByte(c.tod, w.byte, w.value)
             st == IF w.byte = 2 THEN TRUE ELSE IF w.byte = 0 THEN FALSE ELSE c.tod_stopped
  <2>3. al \in Nat /\ td \in Nat
    BY <1>0, <2>2, SetByteType, Zenon
  <2>4. st \in BOOLEAN
    BY <1>0
  <2>5. write_tod(c, w.byte, w.value) =
          check_tod_alarm(IF c.crb.alarm THEN [c EXCEPT !.tod_alarm = al]
                          ELSE [c EXCEPT !.tod = td, !.tod_stopped = st])
    BY Zenon DEF write_tod
  <2> HIDE DEF al, td, st
  <2>6. [c EXCEPT !.tod_alarm = al] \in Cias /\ [c EXCEPT !.tod = td, !.tod_stopped = st] \in Cias
    BY <2>3, <2>4 DEF Cias
  <2> QED
    BY <2>1, <2>5, <2>6, AlarmChecked, Zenon
<1>4. CASE w.reg = "CRA"
  <2> DEFINE ta == IF w.load THEN c.latch_a ELSE c.timer_a
  <2>1. write(c, w) = [c EXCEPT !.cra = w.value, !.timer_a = ta]
    BY <1>4 DEF write
  <2>2. ta \in Nat /\ w.value \in Controls
    BY <1>0, <1>4 DEF WriteAccesses
  <2> HIDE DEF ta
  <2>3. [c EXCEPT !.cra = w.value, !.timer_a = ta] \in Cias
    BY <2>2 DEF Cias
  <2> QED
    BY <2>1, <2>3, Zenon
<1>5. CASE w.reg = "CRB"
  <2> DEFINE tb == IF w.load THEN c.latch_b ELSE c.timer_b
  <2>1. write(c, w) = [c EXCEPT !.crb = w.value, !.timer_b = tb]
    BY <1>5 DEF write
  <2>2. tb \in Nat /\ w.value \in Controls
    BY <1>0, <1>5 DEF WriteAccesses
  <2> HIDE DEF tb
  <2>3. [c EXCEPT !.crb = w.value, !.timer_b = tb] \in Cias
    BY <2>2 DEF Cias
  <2> QED
    BY <2>1, <2>3, Zenon
<1>6. CASE w.reg = "ICR"
  <2> DEFINE mask == IF w.set THEN c.icr_mask \cup w.value ELSE c.icr_mask \ w.value
  <2>1. write(c, w) = [c EXCEPT !.icr_mask = mask]
    BY <1>6 DEF write
  <2>2. mask \in SUBSET IcrBits
    <3>1. w.value \in SUBSET IcrBits
      BY <1>6 DEF WriteAccesses
    <3> QED
      BY <1>0, <3>1
  <2> HIDE DEF mask
  <2>3. [c EXCEPT !.icr_mask = mask] \in Cias
    BY <2>2 DEF Cias
  <2> QED
    BY <2>1, <2>3, Zenon
<1>7. w.reg \in {"TA", "TB", "CRA", "CRB", "ICR", "TOD"}
  BY DEF WriteAccesses
<1> QED
  BY <1>1, <1>2, <1>3, <1>4, <1>5, <1>6, <1>7

LEMMA CiaReadDevices ==
    ASSUME NEW d \in Devices, Levels(d), NEW r \in CiaReads
    PROVE  LET t == CiaRead(d, r)
           IN  t \in Devices /\ Levels(t) /\ next_event(t) = next_event(d) /\ t.intreq = d.intreq
<1>0. r \in ReadAccesses /\ d.cia_a \in Cias /\ d.cia_b \in Cias
  BY AccessAssumption DEF Devices
<1> DEFINE Good(t) == t \in Devices /\ Levels(t) /\ next_event(t) = next_event(d) /\ t.intreq = d.intreq
<1>1. CASE r.cia = "A"
  <2> DEFINE c == read(d.cia_a, r).cia
             t == [d EXCEPT !.cia_a = c]
  <2>1. CiaRead(d, r) = t
    BY <1>1, Zenon DEF CiaRead
  <2>2. c \in Cias /\ SameTimers(c, d.cia_a) /\ c.icr_data \subseteq d.cia_a.icr_data /\ c.icr_mask = d.cia_a.icr_mask
    BY <1>0, ReadCiaFields, Zenon
  <2> HIDE DEF c
  <2>3. /\ t \in Devices /\ t.cia_a = c /\ t.cia_b = d.cia_b
        /\ t.intreq = d.intreq /\ t.card = d.card
        /\ t.total_colour_clocks = d.total_colour_clocks /\ t.carry = d.carry
    BY <2>2 DEF Devices
  <2> HIDE DEF t
  <2>4. SameTimers(t.cia_a, d.cia_a) /\ SameTimers(t.cia_b, d.cia_b)
    BY <2>2, <2>3, Zenon DEF SameTimers
  <2>5. next_event(t) = next_event(d)
    BY <2>3, <2>4, SameDeadline
  <2>6. irq_pending(c) => irq_pending(d.cia_a)
    BY <2>2, Zenon DEF irq_pending
  <2>7. Levels(t)
    BY <2>3, <2>6, Zenon DEF Levels
  <2> QED
    BY <2>1, <2>3, <2>5, <2>7, Zenon
<1>2. CASE r.cia # "A"
  <2> DEFINE c == read(d.cia_b, r).cia
             t == [d EXCEPT !.cia_b = c]
  <2>1. CiaRead(d, r) = t
    BY <1>2, Zenon DEF CiaRead
  <2>2. c \in Cias /\ SameTimers(c, d.cia_b) /\ c.icr_data \subseteq d.cia_b.icr_data /\ c.icr_mask = d.cia_b.icr_mask
    BY <1>0, ReadCiaFields, Zenon
  <2> HIDE DEF c
  <2>3. /\ t \in Devices /\ t.cia_b = c /\ t.cia_a = d.cia_a
        /\ t.intreq = d.intreq /\ t.card = d.card
        /\ t.total_colour_clocks = d.total_colour_clocks /\ t.carry = d.carry
    BY <2>2 DEF Devices
  <2> HIDE DEF t
  <2>4. SameTimers(t.cia_a, d.cia_a) /\ SameTimers(t.cia_b, d.cia_b)
    BY <2>2, <2>3, Zenon DEF SameTimers
  <2>5. next_event(t) = next_event(d)
    BY <2>3, <2>4, SameDeadline
  <2>6. irq_pending(c) => irq_pending(d.cia_b)
    BY <2>2, Zenon DEF irq_pending
  <2>7. Levels(t)
    BY <2>3, <2>6, Zenon DEF Levels
  <2> QED
    BY <2>1, <2>3, <2>5, <2>7, Zenon
<1> QED
  BY <1>1, <1>2, Zenon

LEMMA CiaWriteDevices ==
    ASSUME NEW d \in Devices, NEW w \in CiaWrites
    PROVE  CiaWrite(d, w) \in Devices /\ Levels(CiaWrite(d, w))
<1>0. w \in WriteAccesses /\ d.cia_a \in Cias /\ d.cia_b \in Cias
  BY AccessAssumption DEF Devices
<1> DEFINE e == IF w.cia = "A" THEN [d EXCEPT !.cia_a = write(d.cia_a, w)]
                ELSE [d EXCEPT !.cia_b = write(d.cia_b, w)]
<1>1. e \in Devices
  <2>1. write(d.cia_a, w) \in Cias /\ write(d.cia_b, w) \in Cias
    BY <1>0, WriteCiaType, Zenon
  <2> QED
    BY <2>1 DEF Devices
<1>2. CiaWrite(d, w) = reassert_level_irqs(e)
  BY Zenon DEF CiaWrite
<1> HIDE DEF e
<1> QED
  BY <1>1, <1>2, Reasserted, Zenon

LEMMA IntreqWriteDevices ==
    ASSUME NEW d \in Devices, NEW set \in BOOLEAN, NEW bits \in IntreqBits
    PROVE  LET t == IntreqWrite(d, set, bits)
           IN  t \in Devices /\ Levels(t) /\ next_event(t) = next_event(d)
<1> DEFINE i == IF set THEN d.intreq \cup bits ELSE d.intreq \ bits
           e == [d EXCEPT !.intreq = i]
           t == reassert_level_irqs(e)
<1>1. i \in SUBSET IntreqNames
  <2>1. d.intreq \in SUBSET IntreqNames
    BY DEF Devices
  <2>2. bits \subseteq IntreqNames
    BY DEF IntreqNames
  <2> QED
    BY <2>1, <2>2
<1>2. IntreqWrite(d, set, bits) = t
  BY Zenon DEF IntreqWrite
<1> HIDE DEF i
<1>3. e \in Devices /\ e.total_colour_clocks = d.total_colour_clocks /\ e.carry = d.carry /\ e.cia_a = d.cia_a /\ e.cia_b = d.cia_b
  BY <1>1 DEF Devices
<1> HIDE DEF e
<1>4. /\ t \in Devices /\ Levels(t)
      /\ t.total_colour_clocks = d.total_colour_clocks /\ t.carry = d.carry /\ t.cia_a = d.cia_a /\ t.cia_b = d.cia_b
  BY <1>3, Reasserted, Zenon
<1> HIDE DEF t
<1>5. next_event(t) = next_event(d)
  BY <1>4, SameDeadline, Zenon DEF SameTimers
<1> QED
  BY <1>2, <1>4, <1>5, Zenon

NewBoard(board, ack) == IF ack THEN [board EXCEPT !.irq = FALSE] ELSE [board EXCEPT !.queued = TRUE]

(* A board or card window write leaves what the deadline depends on. *)
AfterBoard(d, ack, t) ==
    /\ t \in Devices /\ Levels(t) /\ next_event(t) = next_event(d)
    /\ t.total_colour_clocks = d.total_colour_clocks /\ t.carry = d.carry
    /\ t.odd_frame = d.odd_frame /\ t.cia_a = d.cia_a /\ t.cia_b = d.cia_b /\ t.card = d.card
    /\ t.board = NewBoard(d.board, ack)
    /\ t.intreq = d.intreq \cup If(NewBoard(d.board, ack).irq, "PORTS")

LEMMA BoardWriteDevices ==
    ASSUME NEW d \in Devices, Levels(d), NEW ack \in BOOLEAN
    PROVE  AfterBoard(d, ack, BoardWrite(d, ack))
<1> DEFINE b == NewBoard(d.board, ack)
           i == d.intreq \cup If(b.irq, "PORTS")
           t == [d EXCEPT !.board = b, !.intreq = i]
<1>1. b \in [queued : BOOLEAN, irq : BOOLEAN]
  BY DEF Devices, NewBoard
<1>2. i \in SUBSET IntreqNames
  <2>1. d.intreq \in SUBSET IntreqNames /\ "PORTS" \in IntreqNames
    BY DEF Devices, IntreqNames
  <2> QED
    BY <2>1, Zenon DEF If
<1>3. BoardWrite(d, ack) = t
  BY Zenon DEF BoardWrite, NewBoard
<1>4. d.intreq \subseteq i
  BY Zenon
<1> HIDE DEF b, i
<1>5. /\ t \in Devices
      /\ t.total_colour_clocks = d.total_colour_clocks /\ t.carry = d.carry
      /\ t.odd_frame = d.odd_frame /\ t.cia_a = d.cia_a /\ t.cia_b = d.cia_b /\ t.card = d.card
      /\ t.board = b /\ t.intreq = i
  BY <1>1, <1>2 DEF Devices
<1> HIDE DEF t
<1>6. Levels(t)
  BY <1>4, <1>5, Zenon DEF Levels
<1>7. next_event(t) = next_event(d)
  BY <1>5, SameDeadline, Zenon DEF SameTimers
<1> QED
  BY <1>3, <1>5, <1>6, <1>7, Zenon DEF AfterBoard, b, i

NewCard(card, cr11) ==
    [enabled |-> cr11 = "enabled", vblank_pending |-> card.vblank_pending /\ cr11 # "clear"]

AfterCard(d, cr11, t) ==
    /\ t \in Devices /\ Levels(t) /\ next_event(t) = next_event(d)
    /\ t.total_colour_clocks = d.total_colour_clocks /\ t.carry = d.carry
    /\ t.odd_frame = d.odd_frame /\ t.cia_a = d.cia_a /\ t.cia_b = d.cia_b /\ t.board = d.board
    /\ t.card = NewCard(d.card, cr11)
    /\ t.intreq = d.intreq
         \cup If(irq_pending(d.cia_a) \/ card_irq_pending(NewCard(d.card, cr11)), "PORTS")
         \cup If(irq_pending(d.cia_b), "EXTER")

LEMMA CardWriteDevices ==
    ASSUME NEW d \in Devices, NEW cr11 \in Cr11Values
    PROVE  AfterCard(d, cr11, CardWrite(d, cr11))
<1> DEFINE c == NewCard(d.card, cr11)
           e == [d EXCEPT !.card = c]
           t == reassert_level_irqs(e)
<1>1. c \in [enabled : BOOLEAN, vblank_pending : BOOLEAN]
  BY DEF Devices, NewCard
<1>2. CardWrite(d, cr11) = t
  BY Zenon DEF CardWrite, NewCard
<1> HIDE DEF c
<1>3. /\ e \in Devices
      /\ e.total_colour_clocks = d.total_colour_clocks /\ e.carry = d.carry
      /\ e.odd_frame = d.odd_frame /\ e.cia_a = d.cia_a /\ e.cia_b = d.cia_b /\ e.board = d.board
      /\ e.card = c /\ e.intreq = d.intreq
  BY <1>1 DEF Devices
<1> HIDE DEF e
<1>4. /\ t \in Devices /\ Levels(t)
      /\ t.total_colour_clocks = d.total_colour_clocks /\ t.carry = d.carry
      /\ t.odd_frame = d.odd_frame /\ t.cia_a = d.cia_a /\ t.cia_b = d.cia_b /\ t.board = d.board
      /\ t.card = c
  BY <1>3, Reasserted, Zenon
<1>5. t.intreq = d.intreq \cup If(irq_pending(d.cia_a) \/ card_irq_pending(c), "PORTS")
                    \cup If(irq_pending(d.cia_b), "EXTER")
  BY <1>3, Reasserted, Zenon
<1> HIDE DEF t
<1>6. next_event(t) = next_event(d)
  BY <1>4, SameDeadline, Zenon DEF SameTimers
<1> QED
  BY <1>2, <1>4, <1>5, <1>6, Zenon DEF AfterCard, c

(* Which is why they need no flush: writing now and catching up later is
   catching up and then writing. *)
LEMMA BoardWriteOverTick ==
    ASSUME NEW d \in Devices, Levels(d), NEW ack \in BOOLEAN, NEW n \in Nat, n < next_event(d)
    PROVE  tick_exact(BoardWrite(d, ack), n) = BoardWrite(tick_exact(d, n), ack)
<1> DEFINE e == BoardWrite(d, ack)
           t == tick_exact(d, n)
           p == tick_exact(e, n)
           q == BoardWrite(t, ack)
<1>1. AfterBoard(d, ack, e) /\ QuietTick(d, n, t) /\ t \in Devices /\ Levels(t)
  BY BoardWriteDevices, QuietTicks, TickLevels, Zenon
<1>2. QuietTick(e, n, p)
  <2> HIDE DEF e
  <2>1. e \in Devices /\ Levels(e) /\ n < next_event(e)
    BY <1>1, Zenon DEF AfterBoard
  <2> QED
    BY <2>1, QuietTicks, Zenon
<1>3. AfterBoard(t, ack, q)
  <2> HIDE DEF t
  <2> QED
    BY <1>1, BoardWriteDevices, Zenon
<1> HIDE DEF e, t, p, q
<1>4. ColourClocks(e, n) = ColourClocks(d, n)
  BY <1>1, Zenon DEF AfterBoard, ColourClocks
<1>5. p.total_colour_clocks = q.total_colour_clocks /\ p.carry = q.carry
  BY <1>1, <1>2, <1>3, <1>4, Zenon DEF AfterBoard, QuietTick
<1>6. p.odd_frame = q.odd_frame /\ p.card = q.card /\ p.board = q.board
  BY <1>1, <1>2, <1>3, Zenon DEF AfterBoard, QuietTick
<1>7. p.cia_a = q.cia_a /\ p.cia_b = q.cia_b
  BY <1>1, <1>2, <1>3, Zenon DEF AfterBoard, QuietTick
<1>8. p.intreq = q.intreq
  BY <1>1, <1>2, <1>3, Zenon DEF AfterBoard, QuietTick
<1>9. p \in Devices /\ q \in Devices
  BY <1>2, <1>3, Zenon DEF AfterBoard, QuietTick
<1>10. p = q
  BY <1>5, <1>6, <1>7, <1>8, <1>9, SameDevices, Zenon
<1> QED
  BY <1>10 DEF p, q, e, t

LEMMA CardWriteOverTick ==
    ASSUME NEW d \in Devices, Levels(d), NEW cr11 \in Cr11Values, NEW n \in Nat, n < next_event(d)
    PROVE  tick_exact(CardWrite(d, cr11), n) = CardWrite(tick_exact(d, n), cr11)
<1> DEFINE e == CardWrite(d, cr11)
           t == tick_exact(d, n)
           p == tick_exact(e, n)
           q == CardWrite(t, cr11)
<1>1. AfterCard(d, cr11, e) /\ QuietTick(d, n, t) /\ t \in Devices
  BY CardWriteDevices, QuietTicks, TickLevels, Zenon
<1>2. QuietTick(e, n, p)
  <2> HIDE DEF e
  <2>1. e \in Devices /\ Levels(e) /\ n < next_event(e)
    BY <1>1, Zenon DEF AfterCard
  <2> QED
    BY <2>1, QuietTicks, Zenon
<1>3. AfterCard(t, cr11, q)
  <2> HIDE DEF t
  <2> QED
    BY <1>1, CardWriteDevices, Zenon
<1> HIDE DEF e, t, p, q
<1>4. ColourClocks(e, n) = ColourClocks(d, n)
  BY <1>1, Zenon DEF AfterCard, ColourClocks
<1>5. p.total_colour_clocks = q.total_colour_clocks /\ p.carry = q.carry
  BY <1>1, <1>2, <1>3, <1>4, Zenon DEF AfterCard, QuietTick
<1>6. p.odd_frame = q.odd_frame /\ p.card = q.card /\ p.board = q.board
  BY <1>1, <1>2, <1>3, Zenon DEF AfterCard, QuietTick
<1>7. p.cia_a = q.cia_a /\ p.cia_b = q.cia_b
  BY <1>1, <1>2, <1>3, Zenon DEF AfterCard, QuietTick
<1>8. p.intreq = q.intreq
  <2>1. irq_pending(t.cia_a) = irq_pending(d.cia_a) /\ irq_pending(t.cia_b) = irq_pending(d.cia_b)
    BY <1>1, Zenon DEF QuietTick, irq_pending
  <2>2. p.intreq = e.intreq /\ t.intreq = d.intreq /\ t.card = d.card
    BY <1>1, <1>2, Zenon DEF QuietTick
  <2> QED
    BY <1>1, <1>3, <2>1, <2>2, Zenon DEF AfterCard
<1>9. p \in Devices /\ q \in Devices
  BY <1>2, <1>3, Zenon DEF AfterCard, QuietTick
<1>10. p = q
  BY <1>5, <1>6, <1>7, <1>8, <1>9, SameDevices, Zenon
<1> QED
  BY <1>10 DEF p, q, e, t

-----------------------------------------------------------------------------
(* The invariant.                                                          *)

LEMMA NewDevicesType == NewDevices \in Devices /\ Levels(NewDevices)
<1> DEFINE full == Byte * Byte - 1
           stopped == Control(FALSE, FALSE, "E", FALSE)
           new == [timer_a |-> full, timer_b |-> full, latch_a |-> full, latch_b |-> full,
                   cra |-> stopped, crb |-> stopped,
                   tod |-> 0, tod_alarm |-> 0, tod_latched |-> NotLatched,
                   tod_stopped |-> FALSE, tod_matching |-> TRUE,
                   icr_data |-> {}, icr_mask |-> {}, carry |-> 0]
<1>1. full \in Nat
  <2>1. Byte * Byte \in Nat \ {0}
    BY CiaAssumption
  <2> DEFINE x == Byte * Byte
  <2> HIDE DEF x
  <2>2. x - 1 \in Nat
    BY <2>1 DEF x
  <2> QED
    BY <2>2 DEF x
<1>2. stopped \in Controls
  BY DEF Controls, Control
<1>3. NewCia = new
  BY Zenon DEF NewCia
<1> HIDE DEF full, stopped
<1>4. new \in Cias
  BY <1>1, <1>2, CiaAssumption DEF Cias, NotLatched
<1>5. new.icr_data = {}
  OBVIOUS
<1> HIDE DEF new
<1>6. NewCia \in Cias /\ NewCia.icr_data = {}
  BY <1>3, <1>4, <1>5
<1>7. NewDevices \in Devices
  BY <1>6, FrameLengthType, BeamAssumption DEF NewDevices, Devices
<1>8. NewDevices.cia_a = NewCia /\ NewDevices.cia_b = NewCia /\ NewDevices.card.vblank_pending = FALSE
  BY DEF NewDevices
<1>9. Levels(NewDevices)
  BY <1>6, <1>8 DEF Levels, irq_pending, card_irq_pending
<1> QED
  BY <1>7, <1>9

LEMMA LevelOfIntreq ==
    ASSUME NEW d, NEW e, d.intreq = e.intreq
    PROVE  pending_level(d) = pending_level(e)
BY Zenon DEF pending_level

(* What a flush leaves, under the invariant. *)
LEMMA FlushedFields ==
    ASSUME TimeInv
    PROVE  /\ Flushed = Now /\ Flushed \in Devices /\ Levels(Flushed)
           /\ Now.intreq = dev.intreq /\ Now.odd_frame = dev.odd_frame
           /\ FlushedEvent = next_event(Flushed)
<1>1. dev \in Devices /\ Levels(dev) /\ pending_clocks \in Nat /\ pending_clocks < next_event(dev) /\ next_event_clocks = next_event(dev)
  BY Zenon DEF TimeInv
<1>2. QuietTick(dev, pending_clocks, Now)
  BY <1>1, QuietTicks, Zenon DEF Now
<1>3. Now \in Devices /\ Levels(Now)
  BY <1>1, TickLevels, Zenon DEF Now
<1>4. Flushed = Now
  <2>1. CASE pending_clocks = 0
    BY <1>1, <2>1, TickZero, Zenon DEF Flushed, Now
  <2>2. CASE pending_clocks # 0
    BY <2>2, Zenon DEF Flushed, Now
  <2> QED
    BY <2>1, <2>2
<1>5. FlushedEvent = next_event(Flushed)
  <2>1. CASE pending_clocks = 0
    BY <1>1, <2>1, Zenon DEF Flushed, FlushedEvent
  <2>2. CASE pending_clocks # 0
    BY <2>2, Zenon DEF FlushedEvent
  <2> QED
    BY <2>1, <2>2
<1> QED
  BY <1>2, <1>3, <1>4, <1>5, Zenon DEF QuietTick

LEMMA InitTimeInv ==
    ASSUME Init
    PROVE  TimeInv
<1>1. dev \in Devices /\ Levels(dev)
  BY NewDevicesType, Zenon DEF Init
<1>2. next_event_clocks = next_event(dev) /\ pending_clocks = 0 /\ int_level = 0
  BY Zenon DEF Init
<1>3. 0 < next_event(dev)
  BY <1>1, NextEvent
<1>4. pending_level(dev) = 0
  <2>1. dev.intreq = {}
    BY DEF Init, NewDevices
  <2>2. Intena \cap dev.intreq = {}
    BY <2>1
  <2>3. {} # {"PORTS"}
    OBVIOUS
  <2> QED
    BY <2>2, <2>3 DEF pending_level
<1> QED
  BY <1>1, <1>2, <1>3, <1>4 DEF TimeInv

LEMMA NextTimeInv ==
    ASSUME TimeInv, [Next]_timeVars
    PROVE  TimeInv'
<1>0. /\ dev \in Devices /\ Levels(dev) /\ pending_clocks \in Nat
      /\ next_event_clocks = next_event(dev) /\ pending_clocks < next_event_clocks
      /\ boundary_request \/ int_level = pending_level(dev)
  BY Zenon DEF TimeInv
<1>f. /\ Flushed = Now /\ Flushed \in Devices /\ Levels(Flushed)
      /\ Flushed.intreq = dev.intreq /\ FlushedEvent = next_event(Flushed)
  BY FlushedFields, Zenon
<1>s. ASSUME dev' \in Devices, Levels(dev'), pending_clocks' = 0, next_event_clocks' = next_event(dev'),
             boundary_request' \/ int_level' = pending_level(dev')
      PROVE  TimeInv'
  <2>1. 0 < next_event(dev')
    BY <1>s, NextEvent
  <2> QED
    BY <1>s, <2>1 DEF TimeInv
<1>1. ASSUME NEW n \in Instructions, tick(n) PROVE TimeInv'
  <2>1. n \in Nat /\ pending_clocks + n \in Nat
    BY <1>0, TimeAssumption
  <2>2. AtBoundary
    BY <1>1, Zenon DEF tick
  <2>3. CASE pending_clocks + n < next_event_clocks
    <3>1. dev' = dev /\ next_event_clocks' = next_event_clocks /\ pending_clocks' = pending_clocks + n
      BY <1>0, <1>1, <2>1, <2>3, NextEvent DEF tick
    <3> QED
      BY <1>0, <2>1, <2>2, <2>3, <3>1 DEF TimeInv, AtBoundary
  <2>4. CASE ~(pending_clocks + n < next_event_clocks)
    <3>1. pending_clocks' = 0 /\ dev' = tick_exact(dev, pending_clocks + n) /\ next_event_clocks' = next_event(dev')
      BY <1>1, <2>4, Zenon DEF tick
    <3>2. dev' \in Devices /\ Levels(dev')
      BY <1>0, <2>1, <3>1, TickLevels, Zenon
    <3> QED
      BY <1>s, <2>2, <3>1, <3>2, Zenon DEF AtBoundary
  <2> QED
    BY <2>3, <2>4
<1>2. ASSUME NEW r \in CiaReads, read_cia(r) PROVE TimeInv'
  <2>1. /\ pending_clocks' = 0 /\ dev' = CiaRead(Flushed, r) /\ next_event_clocks' = FlushedEvent
        /\ boundary_request' = boundary_request /\ int_level' = int_level
    BY <1>2, Zenon DEF read_cia, Access
  <2>2. dev' \in Devices /\ Levels(dev') /\ next_event(dev') = next_event(Flushed) /\ dev'.intreq = Flushed.intreq
    BY <2>1, <1>f, CiaReadDevices, Zenon
  <2>3. pending_level(dev') = pending_level(dev)
    BY <2>2, <1>f, LevelOfIntreq, Zenon
  <2> QED
    BY <1>0, <1>f, <1>s, <2>1, <2>2, <2>3, Zenon
<1>3. ASSUME NEW w \in CiaWrites, write_cia(w) PROVE TimeInv'
  <2>1. /\ pending_clocks' = 0 /\ dev' = CiaWrite(Flushed, w) /\ next_event_clocks' = next_event(dev')
        /\ RequestsBoundary /\ int_level' = int_level
    BY <1>3, Zenon DEF write_cia, Access
  <2>2. dev' \in Devices /\ Levels(dev')
    BY <2>1, <1>f, CiaWriteDevices, Zenon
  <2> QED
    BY <1>0, <1>s, <2>1, <2>2, Zenon DEF RequestsBoundary
<1>4. ASSUME read_custom_word PROVE TimeInv'
  <2>1. /\ pending_clocks' = 0 /\ dev' = Flushed /\ next_event_clocks' = FlushedEvent
        /\ boundary_request' = boundary_request /\ int_level' = int_level
    BY <1>4, Zenon DEF read_custom_word, Access
  <2>2. pending_level(dev') = pending_level(dev)
    BY <2>1, <1>f, LevelOfIntreq, Zenon
  <2> QED
    BY <1>0, <1>f, <1>s, <2>1, <2>2, Zenon
<1>5. ASSUME NEW set \in BOOLEAN, NEW bits \in IntreqBits, write_custom_word(set, bits) PROVE TimeInv'
  <2>1. /\ pending_clocks' = 0 /\ dev' = IntreqWrite(Flushed, set, bits) /\ next_event_clocks' = FlushedEvent
        /\ RequestsBoundary /\ int_level' = int_level
    BY <1>5, Zenon DEF write_custom_word, Access
  <2>2. dev' \in Devices /\ Levels(dev') /\ next_event(dev') = next_event(Flushed)
    BY <2>1, <1>f, IntreqWriteDevices, Zenon
  <2> QED
    BY <1>0, <1>f, <1>s, <2>1, <2>2, Zenon DEF RequestsBoundary
<1>6. ASSUME NEW ack \in BOOLEAN, write_board(ack) PROVE TimeInv'
  <2>1. /\ dev' = BoardWrite(dev, ack) /\ pending_clocks' = pending_clocks /\ next_event_clocks' = next_event_clocks
        /\ RequestsBoundary /\ int_level' = int_level
    BY <1>6, Zenon DEF write_board, Access
  <2>2. dev' \in Devices /\ Levels(dev') /\ next_event(dev') = next_event(dev)
    BY <2>1, <1>0, BoardWriteDevices, Zenon DEF AfterBoard
  <2> QED
    BY <1>0, <2>1, <2>2, Zenon DEF RequestsBoundary, TimeInv
<1>7. ASSUME NEW cr11 \in Cr11Values, write_card(cr11) PROVE TimeInv'
  <2>1. /\ dev' = CardWrite(dev, cr11) /\ pending_clocks' = pending_clocks /\ next_event_clocks' = next_event_clocks
        /\ RequestsBoundary /\ int_level' = int_level
    BY <1>7, Zenon DEF write_card, Access
  <2>2. dev' \in Devices /\ Levels(dev') /\ next_event(dev') = next_event(dev)
    BY <2>1, <1>0, CardWriteDevices, Zenon DEF AfterCard
  <2> QED
    BY <1>0, <2>1, <2>2, Zenon DEF RequestsBoundary, TimeInv
<1>8. CASE UNCHANGED timeVars
  <2>1. /\ dev' = dev /\ pending_clocks' = pending_clocks /\ next_event_clocks' = next_event_clocks
        /\ boundary_request' = boundary_request /\ int_level' = int_level
    BY <1>8 DEF timeVars
  <2> QED
    BY <1>0, <2>1, Zenon DEF TimeInv
<1> QED
  BY <1>1, <1>2, <1>3, <1>4, <1>5, <1>6, <1>7, <1>8, Zenon DEF Next, RegisterAccess

LEMMA TimeInvariant == Spec => []TimeInv
<1>1. Init => TimeInv
  BY InitTimeInv
<1>2. TimeInv /\ [Next]_timeVars => TimeInv'
  BY NextTimeInv
<1> QED
  BY <1>1, <1>2, PTL DEF Spec

(* No interrupt and no frame hides in the pending clocks, which is why
   `pending_irq_level` and `frames` need no flush, and the CPU runs at the
   level the chipset asks for or a boundary is due. *)
THEOREM IrqLevelIsAlwaysCurrent == Spec => []IrqLevelIsCurrent
<1>1. TimeInv => IrqLevelIsCurrent
  <2> SUFFICES ASSUME TimeInv PROVE IrqLevelIsCurrent
    OBVIOUS
  <2>1. Now.intreq = dev.intreq /\ Now.odd_frame = dev.odd_frame
    BY FlushedFields, Zenon
  <2>2. pending_level(Now) = pending_level(dev)
    BY <2>1, LevelOfIntreq, Zenon
  <2> QED
    BY <2>1, <2>2, Zenon DEF TimeInv, IrqLevelIsCurrent
<1> QED
  BY <1>1, TimeInvariant, PTL

-----------------------------------------------------------------------------
(* Refinement.  EagerTime has its own instance of TickExact, whose         *)
(* operators are TimeBase's.                                               *)

LEMMA EagerEclock == ASSUME NEW c, NEW k PROVE Eager!tick_eclock(c, k) = tick_eclock(c, k)
BY Zenon DEF Eager!tick_eclock, Eager!is_idle, Eager!tick_one_eclock, Eager!Counts, Eager!If,
   Eager!step_timer, Eager!StopIfOneshot,
   tick_eclock, is_idle, tick_one_eclock, Counts, If, step_timer, StopIfOneshot

LEMMA EagerTod == ASSUME NEW c, NEW k PROVE Eager!TodTicks(c, k) = TodTicks(c, k)
BY Zenon DEF Eager!TodTicks, Eager!tod_tick, Eager!check_tod_alarm, Eager!If,
   TodTicks, tod_tick, check_tod_alarm, If

LEMMA EagerCiaTick == ASSUME NEW c, NEW k PROVE Eager!CiaTick(c, k) = CiaTick(c, k)
<1>1. \A x, y : Eager!tick_eclock(x, y) = tick_eclock(x, y)
  BY EagerEclock
<1> QED
  BY <1>1, Zenon DEF Eager!CiaTick, CiaTick

LEMMA EagerTick == ASSUME NEW d, NEW n PROVE Eager!tick_exact(d, n) = tick_exact(d, n)
<1>1. \A x, y : Eager!CiaTick(x, y) = CiaTick(x, y)
  BY EagerCiaTick
<1>2. \A x, y : Eager!TodTicks(x, y) = TodTicks(x, y)
  BY EagerTod
<1> QED
  BY <1>1, <1>2, Zenon DEF Eager!tick_exact, Eager!LinesStarted, Eager!FramesWrapped, Eager!ColourClocks,
     Eager!If, Eager!irq_pending, Eager!card_irq_pending, Eager!BoardTick, Eager!Retrace,
     tick_exact, LinesStarted, FramesWrapped, ColourClocks, If,
     irq_pending, card_irq_pending, BoardTick, Retrace

LEMMA EagerNew == Eager!NewDevices = NewDevices
BY Zenon DEF Eager!NewDevices, Eager!NewCia, Eager!Control, Eager!NotLatched, NewDevices, NewCia, Control, NotLatched

LEMMA EagerGetByte == ASSUME NEW x, NEW i PROVE Eager!GetByte(x, i) = GetByte(x, i)
BY Zenon DEF Eager!GetByte, Eager!Weight, GetByte, Weight

LEMMA EagerRead == ASSUME NEW c, NEW r PROVE Eager!read(c, r) = read(c, r)
<1>1. \A x, i : Eager!GetByte(x, i) = GetByte(x, i)
  BY EagerGetByte
<1>2. ASSUME NEW i PROVE Eager!ReadTod(c, i) = ReadTod(c, i)
  BY <1>1, Zenon DEF Eager!ReadTod, Eager!NotLatched, ReadTod, NotLatched
<1>3. Eager!If(Eager!irq_pending(c), "IR") = If(irq_pending(c), "IR")
  BY Zenon DEF Eager!irq_pending, Eager!If, irq_pending, If
<1> QED
  BY <1>1, <1>2, <1>3, Zenon DEF Eager!read, read

LEMMA EagerSetByte == ASSUME NEW x, NEW i, NEW v PROVE Eager!SetByte(x, i, v) = SetByte(x, i, v)
<1>1. \A y, j : Eager!GetByte(y, j) = GetByte(y, j)
  BY EagerGetByte
<1> QED
  BY <1>1, Zenon DEF Eager!SetByte, Eager!Weight, SetByte, Weight

LEMMA EagerWrite == ASSUME NEW c, NEW w PROVE Eager!write(c, w) = write(c, w)
<1>1. \A x, i, v : Eager!SetByte(x, i, v) = SetByte(x, i, v)
  BY EagerSetByte
<1>2. ASSUME NEW i, NEW v PROVE Eager!write_latch_a(c, i, v) = write_latch_a(c, i, v)
  BY <1>1, Zenon DEF Eager!write_latch_a, Eager!LoadsOnHigh, Eager!StartOneshot,
     write_latch_a, LoadsOnHigh, StartOneshot
<1>3. ASSUME NEW i, NEW v PROVE Eager!write_latch_b(c, i, v) = write_latch_b(c, i, v)
  BY <1>1, Zenon DEF Eager!write_latch_b, Eager!LoadsOnHigh, Eager!StartOneshot,
     write_latch_b, LoadsOnHigh, StartOneshot
<1>4. ASSUME NEW x PROVE Eager!check_tod_alarm(x) = check_tod_alarm(x)
  BY Zenon DEF Eager!check_tod_alarm, Eager!If, check_tod_alarm, If
<1>5. ASSUME NEW i, NEW v PROVE Eager!write_tod(c, i, v) = write_tod(c, i, v)
  BY <1>1, <1>4, Zenon DEF Eager!write_tod, write_tod
<1> QED
  BY <1>2, <1>3, <1>5, Zenon DEF Eager!write, write

LEMMA EagerReassert == ASSUME NEW d PROVE Eager!reassert_level_irqs(d) = reassert_level_irqs(d)
BY Zenon DEF Eager!reassert_level_irqs, Eager!irq_pending, Eager!card_irq_pending, Eager!If,
   reassert_level_irqs, irq_pending, card_irq_pending, If

(* Every access does to the eager machine's devices what it does here. *)
LEMMA EagerAccesses ==
    ASSUME NEW d
    PROVE  /\ \A r : Eager!CiaValue(d, r) = CiaValue(d, r) /\ Eager!CiaRead(d, r) = CiaRead(d, r)
           /\ \A w : Eager!CiaWrite(d, w) = CiaWrite(d, w)
           /\ Eager!CustomValue(d) = CustomValue(d)
           /\ \A set, bits : Eager!IntreqWrite(d, set, bits) = IntreqWrite(d, set, bits)
           /\ \A ack : Eager!BoardWrite(d, ack) = BoardWrite(d, ack)
           /\ \A cr11 : Eager!CardWrite(d, cr11) = CardWrite(d, cr11)
<1>1. \A c, r : Eager!read(c, r) = read(c, r)
  BY EagerRead
<1>2. \A c, w : Eager!write(c, w) = write(c, w)
  BY EagerWrite
<1>3. \A e : Eager!reassert_level_irqs(e) = reassert_level_irqs(e)
  BY EagerReassert
<1>4. ASSUME NEW r PROVE Eager!CiaValue(d, r) = CiaValue(d, r)
  BY <1>1, Zenon DEF Eager!CiaValue, CiaValue
<1>5. ASSUME NEW r PROVE Eager!CiaRead(d, r) = CiaRead(d, r)
  BY <1>1, Zenon DEF Eager!CiaRead, CiaRead
<1>6. ASSUME NEW w PROVE Eager!CiaWrite(d, w) = CiaWrite(d, w)
  BY <1>2, <1>3, Zenon DEF Eager!CiaWrite, CiaWrite
<1>7. Eager!CustomValue(d) = CustomValue(d)
  BY Zenon DEF Eager!CustomValue, Eager!vposr, Eager!vhposr, Eager!vpos, Eager!hpos,
     CustomValue, vposr, vhposr, vpos, hpos
<1>8. ASSUME NEW set, NEW bits PROVE Eager!IntreqWrite(d, set, bits) = IntreqWrite(d, set, bits)
  BY <1>3, Zenon DEF Eager!IntreqWrite, IntreqWrite
<1>9. ASSUME NEW ack PROVE Eager!BoardWrite(d, ack) = BoardWrite(d, ack)
  BY Zenon DEF Eager!BoardWrite, Eager!If, BoardWrite, If
<1>10. ASSUME NEW cr11 PROVE Eager!CardWrite(d, cr11) = CardWrite(d, cr11)
  BY <1>3, Zenon DEF Eager!CardWrite, CardWrite
<1> QED
  BY <1>4, <1>5, <1>6, <1>7, <1>8, <1>9, <1>10, Zenon

LEMMA EagerInit ==
    ASSUME Init
    PROVE  Eager!Init
<1>1. dev = NewDevices /\ pending_clocks = 0 /\ access = <<"reset">>
  BY Zenon DEF Init
<1>2. Now = NewDevices
  BY <1>1, NewDevicesType, TickZero, Zenon DEF Now
<1> QED
  BY <1>1, <1>2, EagerNew, Zenon DEF Eager!Init

(* After a flush and an access nothing is pending: time stands at `dev`. *)
LEMMA NothingPending ==
    ASSUME TimeInv', pending_clocks' = 0
    PROVE  Now' = dev'
<1>1. dev' \in Devices /\ Levels(dev')
  BY Zenon DEF TimeInv
<1>2. Now' = tick_exact(dev', 0)
  BY Zenon DEF Now
<1> QED
  BY <1>1, <1>2, TickZero, Zenon

LEMMA EagerStep ==
    ASSUME TimeInv, TimeInv', [Next]_timeVars
    PROVE  [Eager!Next]_<<Now, access>>
<1>0. /\ dev \in Devices /\ Levels(dev) /\ pending_clocks \in Nat /\ pending_clocks < next_event(dev)
      /\ Flushed = Now
  BY FlushedFields, Zenon DEF TimeInv
<1>1. ASSUME NEW n \in Instructions, tick(n) PROVE Eager!Tick
  <2>1. n \in Nat
    BY TimeAssumption
  <2>2. tick_exact(Now, n) = tick_exact(dev, pending_clocks + n)
    BY <1>0, <2>1, TickAdd, Zenon DEF Now
  <2>3. Now' = tick_exact(dev, pending_clocks + n)
    <3>1. CASE pending_clocks' = pending_clocks + n /\ dev' = dev
      BY <3>1, Zenon DEF Now
    <3>2. CASE pending_clocks' = 0 /\ dev' = tick_exact(dev, pending_clocks + n)
      BY <3>2, NothingPending, Zenon
    <3> QED
      BY <1>1, <3>1, <3>2, Zenon DEF tick
  <2>4. Now' = Eager!tick_exact(Now, n)
    BY <2>2, <2>3, EagerTick, Zenon
  <2>5. access' = <<"tick">>
    BY <1>1, Zenon DEF tick
  <2> QED
    BY <2>4, <2>5, Zenon DEF Eager!Tick
<1>2. ASSUME NEW r \in CiaReads, read_cia(r) PROVE Eager!ReadCia
  <2>1. pending_clocks' = 0 /\ dev' = CiaRead(Now, r) /\ access' = <<"read", r, CiaValue(Now, r)>>
    BY <1>0, <1>2, Zenon DEF read_cia
  <2>2. Now' = Eager!CiaRead(Now, r)
    BY <2>1, NothingPending, EagerAccesses, Zenon
  <2>3. access' = <<"read", r, Eager!CiaValue(Now, r)>>
    BY <2>1, EagerAccesses, Zenon
  <2> QED
    BY <2>2, <2>3, Zenon DEF Eager!ReadCia
<1>3. ASSUME NEW w \in CiaWrites, write_cia(w) PROVE Eager!WriteCia
  <2>1. pending_clocks' = 0 /\ dev' = CiaWrite(Now, w) /\ access' = <<"write", w>>
    BY <1>0, <1>3, Zenon DEF write_cia
  <2>2. Now' = Eager!CiaWrite(Now, w)
    BY <2>1, NothingPending, EagerAccesses, Zenon
  <2> QED
    BY <2>1, <2>2, Zenon DEF Eager!WriteCia
<1>4. ASSUME read_custom_word PROVE Eager!ReadCustom
  <2>1. pending_clocks' = 0 /\ dev' = Now /\ access' = <<"custom", CustomValue(Now)>>
    BY <1>0, <1>4, Zenon DEF read_custom_word
  <2>2. Now' = Now
    BY <2>1, NothingPending, Zenon
  <2>3. access' = <<"custom", Eager!CustomValue(Now)>>
    BY <2>1, EagerAccesses, Zenon
  <2> QED
    BY <2>2, <2>3, Zenon DEF Eager!ReadCustom
<1>5. ASSUME NEW set \in BOOLEAN, NEW bits \in IntreqBits, write_custom_word(set, bits) PROVE Eager!WriteIntreq
  <2>1. pending_clocks' = 0 /\ dev' = IntreqWrite(Now, set, bits) /\ access' = <<"intreq", set, bits>>
    BY <1>0, <1>5, Zenon DEF write_custom_word
  <2>2. Now' = Eager!IntreqWrite(Now, set, bits)
    BY <2>1, NothingPending, EagerAccesses, Zenon
  <2> QED
    BY <2>1, <2>2, Zenon DEF Eager!WriteIntreq
<1>6. ASSUME NEW ack \in BOOLEAN, write_board(ack) PROVE Eager!WriteBoard
  <2>1. pending_clocks' = pending_clocks /\ dev' = BoardWrite(dev, ack) /\ access' = <<"board", ack>>
    BY <1>6, Zenon DEF write_board
  <2>2. Now' = tick_exact(BoardWrite(dev, ack), pending_clocks)
    BY <2>1, Zenon DEF Now
  <2>3. Now' = BoardWrite(Now, ack)
    BY <1>0, <2>2, BoardWriteOverTick, Zenon DEF Now
  <2>4. Now' = Eager!BoardWrite(Now, ack)
    BY <2>3, EagerAccesses, Zenon
  <2> QED
    BY <2>1, <2>4, Zenon DEF Eager!WriteBoard
<1>7. ASSUME NEW cr11 \in Cr11Values, write_card(cr11) PROVE Eager!WriteCard
  <2>1. pending_clocks' = pending_clocks /\ dev' = CardWrite(dev, cr11) /\ access' = <<"card", cr11>>
    BY <1>7, Zenon DEF write_card
  <2>2. Now' = tick_exact(CardWrite(dev, cr11), pending_clocks)
    BY <2>1, Zenon DEF Now
  <2>3. Now' = CardWrite(Now, cr11)
    BY <1>0, <2>2, CardWriteOverTick, Zenon DEF Now
  <2>4. Now' = Eager!CardWrite(Now, cr11)
    BY <2>3, EagerAccesses, Zenon
  <2> QED
    BY <2>1, <2>4, Zenon DEF Eager!WriteCard, Eager!Cr11Values, Cr11Values
<1>8. CASE UNCHANGED timeVars
  <2>1. dev' = dev /\ pending_clocks' = pending_clocks /\ access' = access
    BY <1>8 DEF timeVars
  <2>2. Now' = Now
    BY <2>1, Zenon DEF Now
  <2> QED
    BY <2>1, <2>2, Zenon
<1> QED
  BY <1>1, <1>2, <1>3, <1>4, <1>5, <1>6, <1>7, <1>8, Zenon DEF Next, RegisterAccess, Eager!Next

(* `tick` is "exact, not an approximation": whatever the clock ratios, the
   geometry of the screen, the instructions and the accesses, the machine
   that defers device time is the machine that moves every device after
   every instruction, and every register read returns the same value. *)
THEOREM DeferredTimeIsExact == Spec => ImplementsEager
<1>1. Init => Eager!Init
  BY EagerInit
<1>2. TimeInv /\ TimeInv' /\ [Next]_timeVars => [Eager!Next]_<<Now, access>>
  BY EagerStep
<1> QED
  BY <1>1, <1>2, TimeInvariant, PTL DEF Spec, ImplementsEager, Eager!Spec

-----------------------------------------------------------------------------
(***************************************************************************)
(* Record and replay.  When both runs have passed the same hook their      *)
(* states are equal and the log is empty.  When the recording is a hook    *)
(* ahead, executing the same instruction brings the replay to the          *)
(* recording's state but for what the rest of the log brings it: each      *)
(* event left holds what the recording's machine holds now, and what no    *)
(* event brings is equal already.                                          *)
(***************************************************************************)
Ram == [Cells -> Val]
LiveMachine == [overlay : BOOLEAN, fast : BOOLEAN, ram : Ram, dev : Val, level : 0..1]
TwinMachine == [overlay : BOOLEAN, fast : BOOLEAN, ram : Ram, dev : Val]
Cpus == [acc : Val, irq : 0..1, stopped : BOOLEAN]
Tables == {build_page_table(o, f) : o \in BOOLEAN, f \in BOOLEAN}
Recorders == [ordinal : Nat, last_ipl : 0..1, table : Tables]
Players == [ordinal : Nat, table : Tables, divergence : {"none"}]
Spans == [at : Nat, len : Nat \ {0}]
WriteLogs == [spans : Seq(Spans), overflowed : BOOLEAN]

\* A list, whatever it lists.
IsList(s) == Len(s) \in Nat /\ s = [k \in 1..Len(s) |-> s[k]]
PlayState(st) ==
    /\ st = [m |-> st.m, cpu |-> st.cpu, p |-> st.p, log |-> st.log]
    /\ st.m \in TwinMachine /\ st.cpu \in Cpus /\ st.p \in Players /\ IsList(st.log)

\* The recording between two of its steps: nothing is held back.
RecordingInv ==
    /\ live \in LiveMachine /\ master \in Cpus /\ rec \in Recorders
    /\ rec.table = build_page_table(live.overlay, live.fast)
    /\ rec.last_ipl = live.level /\ master.irq = live.level
    /\ write_log = EmptyWriteLog

PlayerInv == PlayState(Played)

Together ==
    /\ twin.fast = live.fast /\ twin.ram = live.ram /\ slave = master
    /\ player.ordinal = rec.ordinal /\ player.table = rec.table
    /\ log = <<>>

\* An event that the hook drains, of a recording whose machine is m and whose
\* CPU is cpu; an End is the last.
Covered(e, c) == e.tag = "DeviceWrite" /\ c \in e.body.addr..(e.body.addr + Len(e.body.bytes) - 1)
Holds(e, m, cpu) ==
    \/ /\ e.tag = "DeviceWrite" /\ e.body.addr \in Nat /\ Len(e.body.bytes) \in Nat \ {0}
       /\ ram_slice(m, e.body.addr, Len(e.body.bytes))
       /\ \A k \in 1..Len(e.body.bytes) : e.body.bytes[k] = m.ram[e.body.addr + k - 1]
    \/ e.tag = "ClassificationTransition" /\ e.body.table = build_page_table(m.overlay, m.fast)
    \/ e.tag = "IplChange" /\ e.body.level = m.level
    \/ e.tag = "Checkpoint" /\ e.body.regs = RegsOf(cpu)
    \/ e.tag = "End" /\ e.body.regs = RegsOf(cpu) /\ e.body.digests = ram_digests(m)
Tagged(s, tag) == \E k \in 1..Len(s) : s[k].tag = tag
Brings(s, st, m, cpu) ==
    /\ \A k \in 1..Len(s) : /\ s[k].ordinal \in Nat /\ s[k].ordinal <= st.p.ordinal + 1
                            /\ Holds(s[k], m, cpu)
                            /\ s[k].tag = "End" => k = Len(s)
    /\ \A c \in Cells : st.m.ram[c] = m.ram[c] \/ \E k \in 1..Len(s) : Covered(s[k], c)
    /\ st.p.table = build_page_table(m.overlay, m.fast) \/ Tagged(s, "ClassificationTransition")
    /\ st.cpu.irq = m.level \/ Tagged(s, "IplChange")

\* The replay pt is a hook behind m and cpu, and its log brings what is missing.
Catches(pt, m, cpu) ==
    /\ PlayState(pt) /\ m \in LiveMachine /\ cpu \in Cpus /\ cpu.irq = m.level
    /\ pt.m.fast = m.fast /\ pt.cpu.acc = cpu.acc /\ pt.cpu.stopped = cpu.stopped
    /\ Brings(pt.log, pt, m, cpu)

\* What the replay does before its hook.
ReplayExecute(i, pt) == IF i[1] = "tick" THEN pt ELSE ExecuteInstr(replay_read, replay_write, pt, i)
Executed == ReplayExecute(instr, Played)
Behind ==
    /\ instr \in Instrs \cup {<<"tick", 0>>}
    /\ instr[1] = "tick" <=> ~Running(slave)
    /\ Executed.p = player
    /\ IF Retires(instr)
       THEN rec.ordinal = player.ordinal + 1 /\ Catches(Executed, live, master)
       ELSE /\ rec.ordinal = player.ordinal /\ PlayState(Executed) /\ Executed.log = <<>>
            /\ Executed.m.fast = live.fast /\ Executed.m.ram = live.ram
            /\ player.table = rec.table /\ Executed.cpu = master

ReplayInv ==
    /\ outcome \in {"running", "aborted", "ReplayClean"}
    /\ turn \in {"record", "replay"}
    /\ outcome # "aborted" => /\ RecordingInv /\ PlayerInv
                              /\ turn = "record" => Together
                              /\ turn = "replay" => outcome = "running" /\ Behind

LEMMA ListIsSeq ==
    ASSUME NEW s, IsList(s), NEW S, \A k \in 1..Len(s) : s[k] \in S
    PROVE  s \in Seq(S)
<1> DEFINE n == Len(s)
           t == [k \in 1..n |-> s[k]]
<1>1. n \in Nat /\ s = t
  BY DEF IsList
<1>2. t \in Seq(S)
  <2> HIDE DEF n
  <2> QED
    BY <1>1
<1> QED
  BY <1>1, <1>2, Zenon

LEMMA SeqIsList ==
    ASSUME NEW S, NEW s \in Seq(S)
    PROVE  IsList(s)
BY DEF IsList

LEMMA NothingIsAList == IsList(<<>>)
<1>1. <<>> \in Seq({})
  OBVIOUS
<1> QED
  BY <1>1, SeqIsList, Zenon

(* What two lists have when the second follows the first. *)
LEMMA ListsJoined ==
    ASSUME NEW s, NEW t, IsList(s), IsList(t)
    PROVE  /\ IsList(s \o t) /\ Len(s \o t) = Len(s) + Len(t)
           /\ \A k \in 1..Len(s) : (s \o t)[k] = s[k]
           /\ \A k \in 1..Len(t) : (s \o t)[Len(s) + k] = t[k]
<1> DEFINE S == {s[k] : k \in 1..Len(s)} \cup {t[k] : k \in 1..Len(t)}
<1>1. s \in Seq(S) /\ t \in Seq(S)
  BY ListIsSeq
<1> HIDE DEF S
<1>2. s \o t \in Seq(S) /\ Len(s) \in Nat /\ Len(t) \in Nat
  BY <1>1
<1>3. IsList(s \o t)
  BY <1>2, SeqIsList, Zenon
<1> QED
  BY <1>1, <1>2, <1>3

Associate(s, t, u) == (s \o t) \o u = s \o (t \o u)

LEMMA ListsAssociate ==
    ASSUME NEW s, NEW t, NEW u, IsList(s), IsList(t), IsList(u)
    PROVE  Associate(s, t, u)
<1> DEFINE S == {s[k] : k \in 1..Len(s)} \cup {t[k] : k \in 1..Len(t)} \cup {u[k] : k \in 1..Len(u)}
<1>1. s \in Seq(S) /\ t \in Seq(S) /\ u \in Seq(S)
  BY ListIsSeq
<1> HIDE DEF S
<1>2. (s \o t) \o u = s \o (t \o u)
  BY <1>1, SMTT(30)
<1> QED
  BY <1>2, Zenon DEF Associate

LEMMA ShortLists ==
    ASSUME NEW e, NEW s, IsList(s)
    PROVE  /\ IsList(<<>>) /\ IsList(<<e>>) /\ Len(<<e>>) = 1 /\ <<e>>[1] = e
           /\ s \o <<>> = s /\ <<>> \o s = s /\ Append(s, e) = s \o <<e>>
           /\ Len(s) = 0 => s = <<>>
<1> DEFINE S == {s[k] : k \in 1..Len(s)} \cup {e}
<1>1. s \in Seq(S) /\ e \in S
  BY ListIsSeq
<1> HIDE DEF S
<1>2. <<>> \in Seq(S) /\ <<e>> \in Seq(S)
  BY <1>1
<1>3. IsList(<<>>) /\ IsList(<<e>>)
  BY <1>2, SeqIsList, Zenon
<1>4. s \o <<>> = s /\ <<>> \o s = s /\ Append(s, e) = s \o <<e>>
  BY <1>1
<1> QED
  BY <1>1, <1>3, <1>4

LEMMA ListHead ==
    ASSUME NEW e, NEW s, IsList(s)
    PROVE  Head(<<e>> \o s) = e /\ Tail(<<e>> \o s) = s /\ <<e>> \o s # <<>>
<1> DEFINE S == {s[k] : k \in 1..Len(s)} \cup {e}
<1>1. s \in Seq(S) /\ e \in S
  BY ListIsSeq
<1> HIDE DEF S
<1>2. <<e>> \in Seq(S) /\ <<e>> \o s \in Seq(S) /\ Len(<<e>> \o s) = 1 + Len(s)
  BY <1>1
<1>3. (<<e>> \o s)[1] = e
  BY <1>1, <1>2
<1>4. Tail(<<e>> \o s) = s
  <2>1. Tail(<<e>> \o s) \in Seq(S) /\ Len(Tail(<<e>> \o s)) = Len(s)
    BY <1>1, <1>2
  <2>2. \A k \in 1..Len(s) : Tail(<<e>> \o s)[k] = s[k]
    BY <1>1, <1>2
  <2> QED
    BY <2>1, <2>2, <1>1
<1> QED
  BY <1>1, <1>2, <1>3, <1>4

-----------------------------------------------------------------------------
(* One access of the recording, and the same access of the replay.         *)

Addresses == Cells \cup {Rom, Dev, Cia, Ac}
RecShape(st) ==
    /\ st = [m |-> st.m, cpu |-> st.cpu, wl |-> st.wl, r |-> st.r, log |-> st.log]
    /\ IsList(st.log)
RecState(st) ==
    /\ RecShape(st)
    /\ st.m \in LiveMachine /\ st.cpu \in Cpus /\ st.wl \in WriteLogs /\ st.r \in Recorders
    /\ st.r.table = build_page_table(st.m.overlay, st.m.fast)

\* The replay is where the recording is, but for what no replay reads.
Twins(st, pt) ==
    /\ pt.m.fast = st.m.fast /\ pt.m.ram = st.m.ram /\ pt.cpu = st.cpu
    /\ pt.p.table = st.r.table /\ pt.p.ordinal = st.r.ordinal

ReadEvents(st, a) ==
    IF st.r.table[PageOf(a)] # "Io" THEN <<>>
    ELSE <<Event(st, "IoRead", [addr |-> a, value |-> MachineRead(st.m, a)])>>
WriteEvents(st, a, v) ==
    IF st.r.table[PageOf(a)] # "Io" THEN <<>>
    ELSE <<Event(st, "IoWrite", [addr |-> a, value |-> v])>>
TableOf(m) == build_page_table(m.overlay, m.fast)
MapEvents(st, m) ==
    IF TableOf(m) = st.r.table THEN <<>>
    ELSE <<Event(st, "ClassificationTransition", [table |-> TableOf(m)])>>
EventLists(st, a, v, m) == IsList(ReadEvents(st, a)) /\ IsList(WriteEvents(st, a, v)) /\ IsList(MapEvents(st, m))

LEMMA EventsAreLists ==
    ASSUME NEW st, NEW a, NEW v, NEW m
    PROVE  EventLists(st, a, v, m)
<1> DEFINE e1 == Event(st, "IoRead", [addr |-> a, value |-> MachineRead(st.m, a)])
           e2 == Event(st, "IoWrite", [addr |-> a, value |-> v])
           e3 == Event(st, "ClassificationTransition", [table |-> TableOf(m)])
<1>1. IsList(<<>>)
  BY NothingIsAList
<1>2. \A e : IsList(<<e>>)
  BY <1>1, ShortLists, Zenon
<1> HIDE DEF e1, e2, e3
<1>3. IsList(<<e1>>) /\ IsList(<<e2>>) /\ IsList(<<e3>>)
  BY <1>2, Zenon
<1>4. /\ ReadEvents(st, a) = <<>> \/ ReadEvents(st, a) = <<e1>>
      /\ WriteEvents(st, a, v) = <<>> \/ WriteEvents(st, a, v) = <<e2>>
      /\ MapEvents(st, m) = <<>> \/ MapEvents(st, m) = <<e3>>
  BY Zenon DEF ReadEvents, WriteEvents, MapEvents, e1, e2, e3
<1> QED
  BY <1>1, <1>3, <1>4, Zenon DEF EventLists

(* What the pages of a table are. *)
LEMMA TableFields ==
    ASSUME NEW o \in BOOLEAN, NEW f \in BOOLEAN
    PROVE  LET t == build_page_table(o, f)
           IN  /\ t \in Tables
               /\ t["low"] = IF o THEN "Io" ELSE "Ram"
               /\ t["chip"] = "Ram" /\ t["fast"] = (IF f THEN "Ram" ELSE "OpenBus")
               /\ t["rom"] = "Rom" /\ t["dev"] = "Io" /\ t["cia"] = "Io" /\ t["ac"] = "Io"
BY DEF build_page_table, Tables

LEMMA Pages ==
    ASSUME NEW a \in Addresses
    PROVE  /\ a \in Cells => a \in Nat
           /\ a \in Low => PageOf(a) = "low" /\ a \in Chip
           /\ a \in Chip \ Low => PageOf(a) = "chip"
           /\ a \in Fast => PageOf(a) = "fast" /\ a \notin Chip
           /\ a = Rom => PageOf(a) = "rom" /\ a \notin Cells
           /\ a = Dev => PageOf(a) = "dev" /\ a \notin Cells
           /\ a = Cia => PageOf(a) = "cia" /\ a \notin Cells
           /\ a = Ac => PageOf(a) = "ac" /\ a \notin Cells
           /\ Chip \subseteq Cells /\ Fast \subseteq Cells
           /\ a \in Low \/ a \in Chip \ Low \/ a \in Fast \/ a \in {Rom, Dev, Cia, Ac}
BY DEF Addresses, PageOf, Cells, Low, Chip, Fast, Rom, Dev, Cia, Ac

LEMMA LiveFields ==
    ASSUME NEW m \in LiveMachine
    PROVE  /\ m.overlay \in BOOLEAN /\ m.fast \in BOOLEAN /\ m.ram \in Ram /\ m.dev \in Val /\ m.level \in 0..1
           /\ \A c \in Cells : m.ram[c] \in Val
BY DEF LiveMachine, Ram

LEMMA MachineReads ==
    ASSUME NEW m \in LiveMachine, NEW a \in Addresses
    PROVE  MachineRead(m, a) \in Val
<1>1. /\ m.overlay \in BOOLEAN /\ m.fast \in BOOLEAN /\ m.dev \in Val
      /\ \A c \in Cells : m.ram[c] \in Val
  BY LiveFields
<1>2. 0 \in Val /\ 1 \in Val
  BY DEF Val
<1> QED
  BY <1>1, <1>2 DEF MachineRead, Addresses, Cells, Chip, Fast, Low, Rom, Dev, Cia, Ac, RomValue, OpenBusValue

WithRam(m, r) == [overlay |-> m.overlay, fast |-> m.fast, ram |-> r, dev |-> m.dev, level |-> m.level]

LEMMA RamPut ==
    ASSUME NEW m \in LiveMachine, NEW a \in Cells, NEW v \in Val
    PROVE  /\ [m EXCEPT !.ram[a] = v] = WithRam(m, [m.ram EXCEPT ![a] = v])
           /\ [m.ram EXCEPT ![a] = v] \in Ram
<1> DEFINE r == [m.ram EXCEPT ![a] = v]
<1>1. [m EXCEPT !.ram[a] = v] = [m EXCEPT !.ram = r]
  BY DEF LiveMachine
<1>2. r \in Ram
  BY DEF LiveMachine, Ram
<1> HIDE DEF r
<1>3. [m EXCEPT !.ram = r] = WithRam(m, r)
  BY DEF LiveMachine, WithRam
<1> QED
  BY <1>1, <1>2, <1>3, Zenon DEF r

\* What a store of v at a leaves of machine m.
Wrote(m, a, v, w) ==
    /\ w \in LiveMachine /\ w.level = m.level
    /\ w.ram = IF a \in Chip \/ (a \in Fast /\ m.fast) THEN [m.ram EXCEPT ![a] = v] ELSE m.ram
    /\ w.fast = (IF a = Ac THEN TRUE ELSE m.fast)

LEMMA MachineWrites ==
    ASSUME NEW m \in LiveMachine, NEW a \in Addresses, NEW v \in Val
    PROVE  Wrote(m, a, v, MachineWrite(m, a, v))
<1>1. /\ m.overlay \in BOOLEAN /\ m.fast \in BOOLEAN /\ m.dev \in Val /\ m.ram \in Ram /\ m.level \in 0..1
      /\ m = WithRam(m, m.ram)
  BY DEF LiveMachine, WithRam
<1> DEFINE w == MachineWrite(m, a, v)
           r == [m.ram EXCEPT ![a] = v]
<1>2. CASE a \in Cells
  <2>1. a # Ac /\ a # Cia /\ a # Dev /\ (a \in Chip \/ a \in Fast) /\ ~(a \in Chip /\ a \in Fast)
    BY <1>2 DEF Cells, Chip, Fast, Ac, Cia, Dev
  <2>2. w = IF a \in Chip \/ m.fast THEN [m EXCEPT !.ram[a] = v] ELSE m
    BY <2>1 DEF MachineWrite
  <2>3. w = IF a \in Chip \/ m.fast THEN WithRam(m, r) ELSE m
    BY <2>2, <1>2, RamPut
  <2>4. r \in Ram
    BY <1>2, RamPut
  <2> HIDE DEF w, r
  <2>5. WithRam(m, r) \in LiveMachine
    BY <1>1, <2>4 DEF LiveMachine, WithRam
  <2> QED
    BY <2>1, <2>3, <2>5 DEF WithRam, r, w, Wrote
<1>3. CASE a \in {Rom, Dev, Cia, Ac}
  <2>1. a \notin Chip /\ a \notin Fast /\ Rom # Ac /\ Rom # Cia /\ Dev # Ac /\ Dev # Cia /\ Cia # Ac
        /\ Rom # Dev
    BY <1>3 DEF Fast, Chip, Rom, Dev, Cia, Ac
  <2>2. /\ a = Rom => w = m
        /\ a = Dev => w = [m EXCEPT !.dev = v]
        /\ a = Cia => w = [m EXCEPT !.overlay = (v = 1)]
        /\ a = Ac => w = [m EXCEPT !.fast = TRUE]
    BY <2>1 DEF MachineWrite
  <2> HIDE DEF w, r
  <2>3. CASE a = Rom
    BY <2>1, <2>2, <2>3 DEF w, Wrote
  <2>4. CASE a = Dev
    BY <2>1, <2>2, <2>4 DEF LiveMachine, w, Wrote
  <2>5. CASE a = Cia
    <3> DEFINE o == v = 1
    <3>1. o \in BOOLEAN
      OBVIOUS
    <3> HIDE DEF o
    <3>2. w = [m EXCEPT !.overlay = o]
      BY <2>2, <2>5, Zenon DEF o
    <3> QED
      BY <2>1, <3>1, <3>2, <2>5 DEF LiveMachine, w, Wrote
  <2>6. CASE a = Ac
    BY <2>1, <2>2, <2>6 DEF LiveMachine, w, Wrote
  <2> QED
    BY <1>3, <2>3, <2>4, <2>5, <2>6
<1> QED
  BY <1>2, <1>3 DEF Addresses

WithAcc(cpu, v) == [acc |-> v, irq |-> cpu.irq, stopped |-> cpu.stopped]
WithTable(r, t) == [ordinal |-> r.ordinal, last_ipl |-> r.last_ipl, table |-> t]

LEMMA Puts ==
    ASSUME NEW st, RecShape(st), NEW e
    PROVE  /\ Put(st, e) = [m |-> st.m, cpu |-> st.cpu, wl |-> st.wl, r |-> st.r, log |-> st.log \o <<e>>]
           /\ RecShape(Put(st, e)) /\ IsList(st.log \o <<e>>)
<1>1. Append(st.log, e) = st.log \o <<e>>
  BY ShortLists, Zenon DEF RecShape
<1>2. Put(st, e) = [m |-> st.m, cpu |-> st.cpu, wl |-> st.wl, r |-> st.r, log |-> Append(st.log, e)]
  <2>1. st = [m |-> st.m, cpu |-> st.cpu, wl |-> st.wl, r |-> st.r, log |-> st.log]
    BY Zenon DEF RecShape
  <2>2. Put(st, e) = [st EXCEPT !.log = Append(st.log, e)]
    BY <2>1 DEF Put
  <2> DEFINE l == Append(st.log, e)
  <2> HIDE DEF l
  <2>3. [st EXCEPT !.log = l] = [m |-> st.m, cpu |-> st.cpu, wl |-> st.wl, r |-> st.r, log |-> l]
    BY <2>1
  <2> QED
    BY <2>2, <2>3, Zenon DEF l
<1>3. IsList(st.log \o <<e>>)
  <2>1. IsList(<<e>>) /\ IsList(st.log)
    BY ShortLists, Zenon DEF RecShape
  <2> QED
    BY <2>1, ListsJoined, Zenon
<1> QED
  BY <1>1, <1>2, <1>3 DEF RecShape

LEMMA BusReads ==
    ASSUME NEW st, RecState(st), NEW a \in Addresses
    PROVE  /\ BusRead(st, a) = [m |-> st.m, cpu |-> WithAcc(st.cpu, MachineRead(st.m, a)), wl |-> st.wl,
                                r |-> st.r, log |-> st.log \o ReadEvents(st, a)]
           /\ RecState(BusRead(st, a))
<1> DEFINE v == MachineRead(st.m, a)
           got == [st EXCEPT !.cpu.acc = v]
           new == [m |-> st.m, cpu |-> WithAcc(st.cpu, v), wl |-> st.wl, r |-> st.r, log |-> st.log]
           e == Event(st, "IoRead", [addr |-> a, value |-> v])
<1>1. v \in Val
  BY MachineReads DEF RecState
<1>2. RecState(st) /\ RecShape(st)
  BY DEF RecState
<1> HIDE DEF v
<1>3. got = new
  <2>1. st = [m |-> st.m, cpu |-> st.cpu, wl |-> st.wl, r |-> st.r, log |-> st.log]
    BY <1>2 DEF RecState, RecShape
  <2>2. [st.cpu EXCEPT !.acc = v] = WithAcc(st.cpu, v)
    BY <1>2 DEF RecState, Cpus, WithAcc
  <2>3. got = [st EXCEPT !.cpu = [st.cpu EXCEPT !.acc = v]]
    BY <2>1
  <2>4. got = [st EXCEPT !.cpu = WithAcc(st.cpu, v)]
    BY <2>2, <2>3, Zenon
  <2> HIDE DEF got
  <2> QED
    BY <2>1, <2>4
<1>4. RecState(new) /\ RecShape(new)
  <2>1. WithAcc(st.cpu, v) \in Cpus
    BY <1>1, <1>2 DEF RecState, Cpus, WithAcc
  <2> QED
    BY <1>2, <2>1 DEF RecState, RecShape
<1> HIDE DEF got
<1>5. BusRead(st, a) = IF st.r.table[PageOf(a)] # "Io" THEN got ELSE log_io(got, "IoRead", a, v)
  BY DEF BusRead, got, v
<1>6. CASE st.r.table[PageOf(a)] # "Io"
  <2>1. ReadEvents(st, a) = <<>> /\ BusRead(st, a) = new
    BY <1>6, <1>5, <1>3, Zenon DEF ReadEvents
  <2>2. st.log \o <<>> = st.log
    BY <1>2, ShortLists, Zenon DEF RecState, RecShape
  <2> QED
    BY <2>1, <2>2, <1>4, Zenon DEF v
<1>7. CASE st.r.table[PageOf(a)] = "Io"
  <2>1. BusRead(st, a) = Put(new, Event(new, "IoRead", [addr |-> a, value |-> v]))
    BY <1>7, <1>5, <1>3, Zenon DEF log_io
  <2>2. Event(new, "IoRead", [addr |-> a, value |-> v]) = e
    BY DEF Event
  <2> DEFINE done == [m |-> new.m, cpu |-> new.cpu, wl |-> new.wl, r |-> new.r, log |-> new.log \o <<e>>]
  <2>3. BusRead(st, a) = done
    <3> HIDE DEF new, e
    <3> QED
      BY <2>1, <2>2, <1>4, Puts, Zenon DEF new
  <2>4. ReadEvents(st, a) = <<e>>
    BY <1>7, Zenon DEF ReadEvents, v
  <2>5. done = [m |-> st.m, cpu |-> WithAcc(st.cpu, v), wl |-> st.wl, r |-> st.r, log |-> st.log \o <<e>>]
    <3> HIDE DEF e
    <3> QED
      OBVIOUS
  <2>6. RecState(done)
    <3>1. IsList(st.log \o <<e>>)
      <4> HIDE DEF e
      <4>1. IsList(<<e>>) /\ IsList(st.log)
        BY <1>2, ShortLists, Zenon DEF RecState, RecShape
      <4> QED
        BY <4>1, ListsJoined, Zenon
    <3> HIDE DEF e
    <3> QED
      BY <1>4, <3>1 DEF RecState, RecShape
  <2> HIDE DEF done
  <2> QED
    BY <2>3, <2>4, <2>5, <2>6, Zenon DEF v
<1> QED
  BY <1>6, <1>7, Zenon

LEMMA BusWrites ==
    ASSUME NEW st, RecState(st), NEW a \in Addresses, NEW v \in Val
    PROVE  LET w == MachineWrite(st.m, a, v)
           IN  /\ BusWrite(st, a, v) =
                     [m |-> w, cpu |-> st.cpu, wl |-> st.wl, r |-> WithTable(st.r, TableOf(w)),
                      log |-> (st.log \o WriteEvents(st, a, v)) \o MapEvents(st, w)]
               /\ RecState(BusWrite(st, a, v))
<1> DEFINE w == MachineWrite(st.m, a, v)
           e1 == Event(st, "IoWrite", [addr |-> a, value |-> v])
           e2 == Event(st, "ClassificationTransition", [table |-> TableOf(w)])
           logged == IF st.r.table[PageOf(a)] # "Io" THEN st ELSE log_io(st, "IoWrite", a, v)
           wrote == [m |-> w, cpu |-> st.cpu, wl |-> st.wl, r |-> st.r, log |-> st.log \o WriteEvents(st, a, v)]
           final == [m |-> w, cpu |-> st.cpu, wl |-> st.wl, r |-> WithTable(st.r, TableOf(w)),
                     log |-> (st.log \o WriteEvents(st, a, v)) \o MapEvents(st, w)]
<1>1. RecShape(st) /\ st.m \in LiveMachine /\ st.cpu \in Cpus /\ st.wl \in WriteLogs /\ st.r \in Recorders
      /\ IsList(st.log)
  BY DEF RecState, RecShape
<1>2. w \in LiveMachine
  BY <1>1, MachineWrites, Zenon DEF Wrote
<1>3. /\ logged = [m |-> st.m, cpu |-> st.cpu, wl |-> st.wl, r |-> st.r, log |-> st.log \o WriteEvents(st, a, v)]
      /\ IsList(st.log \o WriteEvents(st, a, v))
  <2>1. st = [m |-> st.m, cpu |-> st.cpu, wl |-> st.wl, r |-> st.r, log |-> st.log]
    BY <1>1, Zenon DEF RecShape
  <2>2. st.log \o <<>> = st.log
    BY <1>1, ShortLists, Zenon
  <2>3. CASE st.r.table[PageOf(a)] # "Io"
    <3>1. logged = st /\ WriteEvents(st, a, v) = <<>>
      BY <2>3, Zenon DEF WriteEvents
    <3> QED
      BY <2>1, <2>2, <3>1, <1>1, Zenon
  <2>4. CASE st.r.table[PageOf(a)] = "Io"
    <3>1. logged = Put(st, e1) /\ WriteEvents(st, a, v) = <<e1>>
      BY <2>4, Zenon DEF log_io, WriteEvents
    <3> HIDE DEF e1, logged
    <3> QED
      BY <3>1, <1>1, Puts, Zenon
  <2> QED
    BY <2>3, <2>4, Zenon
<1>4. [logged EXCEPT !.m = MachineWrite(@, a, v)] = wrote /\ RecShape(wrote)
  <2> DEFINE l == st.log \o WriteEvents(st, a, v)
  <2> HIDE DEF w, l
  <2>1. logged = [m |-> st.m, cpu |-> st.cpu, wl |-> st.wl, r |-> st.r, log |-> l]
    BY <1>3 DEF l
  <2>2. IsList(l)
    BY <1>3 DEF l
  <2> HIDE DEF logged
  <2>3. [logged EXCEPT !.m = MachineWrite(@, a, v)] = [logged EXCEPT !.m = w]
    BY <2>1 DEF w
  <2>4. [logged EXCEPT !.m = w] = [m |-> w, cpu |-> st.cpu, wl |-> st.wl, r |-> st.r, log |-> l]
    BY <2>1
  <2>5. wrote = [m |-> w, cpu |-> st.cpu, wl |-> st.wl, r |-> st.r, log |-> l]
    BY DEF l
  <2> HIDE DEF wrote
  <2>6. RecShape(wrote)
    BY <2>2, <2>5 DEF RecShape
  <2> QED
    BY <2>3, <2>4, <2>5, <2>6
<1>5. BusWrite(st, a, v) = maybe_transition(wrote)
  <2> HIDE DEF wrote
  <2> QED
    BY <1>4, Zenon DEF BusWrite, logged
<1>6. TableOf(w) \in Tables
  <2>1. w.overlay \in BOOLEAN /\ w.fast \in BOOLEAN
    <3> HIDE DEF w
    <3> QED
      BY <1>2 DEF LiveMachine
  <2> QED
    BY <2>1 DEF TableOf, Tables
<1> DEFINE l == st.log \o WriteEvents(st, a, v)
           t == TableOf(w)
<1>7. IsList(l) /\ wrote = [m |-> w, cpu |-> st.cpu, wl |-> st.wl, r |-> st.r, log |-> l]
  BY <1>3
<1>8. build_page_table(wrote.m.overlay, wrote.m.fast) = t /\ wrote.r = st.r
  BY DEF TableOf
<1>9. BusWrite(st, a, v) = final /\ IsList(final.log)
  <2>1. CASE t = st.r.table
    <3>1. MapEvents(st, w) = <<>>
      BY <2>1, Zenon DEF MapEvents
    <3>2. final.log = l
      <4>1. l \o <<>> = l
        <5> HIDE DEF l
        <5> QED
          BY <1>7, ShortLists, Zenon
      <4> QED
        BY <4>1, <3>1
    <3>3. WithTable(st.r, t) = st.r
      <4> HIDE DEF t
      <4> QED
        BY <2>1, <1>1 DEF WithTable, Recorders
    <3>4. maybe_transition(wrote) = wrote
      <4> HIDE DEF wrote, t
      <4> QED
        BY <1>8, <2>1, Zenon DEF maybe_transition
    <3>5. final = [m |-> w, cpu |-> st.cpu, wl |-> st.wl, r |-> WithTable(st.r, t), log |-> final.log]
      OBVIOUS
    <3> HIDE DEF final, wrote, t, l, w
    <3> QED
      BY <3>2, <3>3, <3>4, <3>5, <1>5, <1>7, Zenon
  <2>2. CASE t # st.r.table
    <3>1. MapEvents(st, w) = <<e2>>
      BY <2>2, Zenon DEF MapEvents
    <3> DEFINE upd == [wrote EXCEPT !.r.table = t]
               shape == [m |-> w, cpu |-> st.cpu, wl |-> st.wl, r |-> WithTable(st.r, t), log |-> l]
    <3>2. maybe_transition(wrote) = Put(upd, Event(wrote, "ClassificationTransition", [table |-> t]))
      <4> HIDE DEF wrote, t
      <4> QED
        BY <1>8, <2>2, Zenon DEF maybe_transition
    <3>3. Event(wrote, "ClassificationTransition", [table |-> t]) = e2
      BY <1>8, Zenon DEF Event
    <3>4. upd = shape
      <4> HIDE DEF t, l, w
      <4>1. wrote = [m |-> w, cpu |-> st.cpu, wl |-> st.wl, r |-> st.r, log |-> l]
        BY <1>7
      <4> HIDE DEF wrote
      <4>2. [st.r EXCEPT !.table = t] = WithTable(st.r, t)
        BY <1>1 DEF Recorders, WithTable
      <4>3. upd = [wrote EXCEPT !.r = [st.r EXCEPT !.table = t]]
        BY <4>1
      <4>4. upd = [wrote EXCEPT !.r = WithTable(st.r, t)]
        BY <4>2, <4>3, Zenon
      <4> HIDE DEF upd
      <4> QED
        BY <4>1, <4>4
    <3>5. RecShape(shape)
      <4> HIDE DEF t, l, w
      <4> QED
        BY <1>7 DEF RecShape
    <3>6. BusWrite(st, a, v) = Put(shape, e2)
      <4> HIDE DEF shape, upd, wrote, t, e2
      <4> QED
        BY <1>5, <3>2, <3>3, <3>4, Zenon
    <3>7. Put(shape, e2) = [m |-> shape.m, cpu |-> shape.cpu, wl |-> shape.wl, r |-> shape.r, log |-> shape.log \o <<e2>>]
          /\ IsList(shape.log \o <<e2>>)
      <4> HIDE DEF shape, e2
      <4> QED
        BY <3>5, Puts, Zenon
    <3>8. final = [m |-> w, cpu |-> st.cpu, wl |-> st.wl, r |-> WithTable(st.r, t), log |-> l \o <<e2>>]
      BY <3>1, Zenon
    <3> HIDE DEF final, e2, t, l, w
    <3> QED
      BY <3>6, <3>7, <3>8
  <2> QED
    BY <2>1, <2>2, Zenon
<1>10. RecState(final)
  <2>1. WithTable(st.r, t) \in Recorders
    <3> HIDE DEF t
    <3> QED
      BY <1>1, <1>6 DEF WithTable, Recorders, t
  <2>2. final.r.table = build_page_table(final.m.overlay, final.m.fast)
    BY DEF TableOf, WithTable
  <2>3. /\ final = [m |-> final.m, cpu |-> final.cpu, wl |-> final.wl, r |-> final.r, log |-> final.log]
        /\ final.m = w /\ final.cpu = st.cpu /\ final.wl = st.wl /\ final.r = WithTable(st.r, t)
    <3> DEFINE x == final.log
    <3> HIDE DEF t, w
    <3> QED
      BY DEF t
  <2> HIDE DEF final, t, w
  <2> QED
    BY <1>1, <1>2, <1>9, <2>1, <2>2, <2>3 DEF RecState, RecShape
<1> HIDE DEF final
<1> QED
  BY <1>9, <1>10, Zenon DEF final, w

(* What the kind of an address' page says of an access there. *)
LEMMA PageKinds ==
    ASSUME NEW m \in LiveMachine, NEW a \in Addresses
    PROVE  LET t == TableOf(m)[PageOf(a)]
           IN  /\ t \in {"Io", "Ram", "Rom", "OpenBus"}
               /\ t = "Ram" => /\ a \in Chip \/ (a \in Fast /\ m.fast)
                               /\ MachineRead(m, a) = m.ram[a]
               /\ t = "Rom" => a = Rom /\ MachineRead(m, a) = RomValue
               /\ t = "OpenBus" => a \in Fast /\ ~m.fast /\ MachineRead(m, a) = OpenBusValue
               /\ t = "Io" => a \in Chip \/ a \in {Dev, Cia, Ac}
<1> DEFINE t == TableOf(m)[PageOf(a)]
           T == TableOf(m)
<1>1. m.overlay \in BOOLEAN /\ m.fast \in BOOLEAN
  BY LiveFields
<1>2. /\ T["low"] = IF m.overlay THEN "Io" ELSE "Ram"
      /\ T["chip"] = "Ram" /\ T["fast"] = (IF m.fast THEN "Ram" ELSE "OpenBus")
      /\ T["rom"] = "Rom" /\ T["dev"] = "Io" /\ T["cia"] = "Io" /\ T["ac"] = "Io"
  BY <1>1, TableFields DEF TableOf
<1> HIDE DEF T
<1>3. t = T[PageOf(a)]
  BY DEF T
<1> HIDE DEF t
<1>a. t = TableOf(m)[PageOf(a)]
  BY DEF t
<1>4. CASE a \in Low
  <2>1. t = T["low"] /\ a \in Chip /\ a \notin Fast
    BY <1>3, <1>4, Pages
  <2>2. MachineRead(m, a) = IF m.overlay THEN RomValue ELSE m.ram[a]
    BY <1>4, <2>1 DEF MachineRead, Low, Chip, Fast, Rom, Dev, Cia, Ac
  <2> QED
    BY <1>1, <1>2, <2>1, <2>2, <1>a
<1>5. CASE a \in Chip \ Low
  <2>1. t = T["chip"] /\ a \in Chip /\ a \notin Low
    BY <1>3, <1>5, Pages
  <2>2. MachineRead(m, a) = m.ram[a]
    BY <1>5, <2>1 DEF MachineRead, Low, Chip, Fast, Rom, Dev, Cia, Ac
  <2> QED
    BY <1>1, <1>2, <2>1, <2>2, <1>a
<1>6. CASE a \in Fast
  <2>1. t = T["fast"] /\ a \notin Low /\ a \notin Chip
    BY <1>3, <1>6, Pages DEF Low, Fast, Chip
  <2>2. MachineRead(m, a) = IF m.fast THEN m.ram[a] ELSE OpenBusValue
    BY <1>6, <2>1 DEF MachineRead, Low, Chip, Fast, Rom, Dev, Cia, Ac
  <2> QED
    BY <1>1, <1>2, <1>6, <2>1, <2>2, <1>a
<1>7. CASE a \in {Rom, Dev, Cia, Ac}
  <2>1. (t = "Rom" /\ a = Rom) \/ (t = "Io" /\ a \in {Dev, Cia, Ac})
    <3>1. /\ a = Rom => PageOf(a) = "rom"
          /\ a = Dev => PageOf(a) = "dev"
          /\ a = Cia => PageOf(a) = "cia"
          /\ a = Ac => PageOf(a) = "ac"
      BY Pages
    <3>2. \/ a = Rom /\ t = T["rom"]
          \/ a = Dev /\ t = T["dev"]
          \/ a = Cia /\ t = T["cia"]
          \/ a = Ac /\ t = T["ac"]
      BY <1>3, <1>7, <3>1
    <3>3. T["rom"] = "Rom" /\ T["dev"] = "Io" /\ T["cia"] = "Io" /\ T["ac"] = "Io"
      BY <1>2
    <3> QED
      BY <3>2, <3>3, Zenon
  <2>2. a = Rom => MachineRead(m, a) = RomValue
    BY DEF MachineRead, Low, Chip, Fast, Rom, Dev, Cia, Ac
  <2> QED
    BY <1>2, <2>1, <2>2, <1>a
<1> QED
  BY <1>4, <1>5, <1>6, <1>7, Pages

LEMMA AccPut ==
    ASSUME NEW pt, NEW x, pt.cpu \in Cpus,
           pt = [m |-> pt.m, cpu |-> pt.cpu, p |-> pt.p, log |-> pt.log]
    PROVE  [pt EXCEPT !.cpu.acc = x] = [m |-> pt.m, cpu |-> WithAcc(pt.cpu, x), p |-> pt.p, log |-> pt.log]
<1>1. [pt.cpu EXCEPT !.acc = x] = WithAcc(pt.cpu, x)
  BY DEF Cpus, WithAcc
<1>2. [pt EXCEPT !.cpu.acc = x] = [pt EXCEPT !.cpu = [pt.cpu EXCEPT !.acc = x]]
  OBVIOUS
<1>3. [pt EXCEPT !.cpu.acc = x] = [pt EXCEPT !.cpu = WithAcc(pt.cpu, x)]
  BY <1>1, <1>2, Zenon
<1> DEFINE c == WithAcc(pt.cpu, x)
<1> HIDE DEF c
<1>4. [pt EXCEPT !.cpu = c] = [m |-> pt.m, cpu |-> c, p |-> pt.p, log |-> pt.log]
  OBVIOUS
<1> QED
  BY <1>3, <1>4, Zenon DEF c

\* The replay is about to make the recording's access; s is the log after it.
ReadTwice(st, pt, a, s) ==
    /\ RecState(st) /\ PlayState(pt) /\ Twins(st, pt) /\ a \in Addresses
    /\ IsList(s) /\ pt.log = ReadEvents(st, a) \o s
WriteTwice(st, pt, a, v, s) ==
    /\ RecState(st) /\ PlayState(pt) /\ Twins(st, pt) /\ a \in Addresses /\ v \in Val
    /\ IsList(s) /\ pt.log = WriteEvents(st, a, v) \o s

Replayed(q, m, cpu, p, l) ==
    /\ PlayState(q) /\ q.m.fast = m.fast /\ q.m.ram = m.ram
    /\ q.cpu = cpu /\ q.p = p /\ q.log = l

WasRead(st, pt, a, s) ==
    replay_read(pt, a) =
        [m |-> pt.m, cpu |-> WithAcc(pt.cpu, MachineRead(st.m, a)), p |-> pt.p, log |-> s]

LEMMA ReplayReads ==
    ASSUME NEW st, NEW pt, NEW a, NEW s, ReadTwice(st, pt, a, s)
    PROVE  WasRead(st, pt, a, s)
<1> DEFINE type == pt.p.table[PageOf(a)]
           v == MachineRead(st.m, a)
           now(x, l) == [m |-> pt.m, cpu |-> WithAcc(pt.cpu, x), p |-> pt.p, log |-> l]
<1>0. RecState(st) /\ PlayState(pt) /\ Twins(st, pt) /\ a \in Addresses /\ IsList(s) /\ pt.log = ReadEvents(st, a) \o s
  BY DEF ReadTwice
<1> SUFFICES replay_read(pt, a) =
               [m |-> pt.m, cpu |-> WithAcc(pt.cpu, MachineRead(st.m, a)), p |-> pt.p, log |-> s]
  BY Zenon DEF WasRead
<1>1. st.m \in LiveMachine /\ st.r.table = TableOf(st.m)
  BY <1>0 DEF RecState, TableOf
<1>2. /\ pt = [m |-> pt.m, cpu |-> pt.cpu, p |-> pt.p, log |-> pt.log]
      /\ pt.cpu \in Cpus /\ pt.p \in Players /\ pt.m \in TwinMachine
  BY <1>0 DEF PlayState
<1>3. pt.m.fast = st.m.fast /\ pt.m.ram = st.m.ram /\ pt.p.table = st.r.table /\ pt.p.ordinal = st.r.ordinal
  BY <1>0 DEF Twins
<1>4. type = TableOf(st.m)[PageOf(a)]
  BY <1>1, <1>3
<1>5. /\ type \in {"Io", "Ram", "Rom", "OpenBus"}
      /\ type = "Ram" => (a \in Chip \/ (a \in Fast /\ st.m.fast)) /\ v = st.m.ram[a]
      /\ type = "Rom" => v = RomValue
      /\ type = "OpenBus" => v = OpenBusValue
  BY <1>4, <1>1, <1>0, PageKinds, Zenon
<1>6. v \in Val
  BY <1>0, <1>1, MachineReads
<1> DEFINE after == [m |-> pt.m, cpu |-> pt.cpu, p |-> pt.p, log |-> s]
<1>7. /\ \A x : [pt EXCEPT !.cpu.acc = x] = now(x, pt.log)
      /\ \A x : [after EXCEPT !.cpu.acc = x] = now(x, s)
      /\ [pt EXCEPT !.log = s] = after
  <2>1. ASSUME NEW x PROVE [pt EXCEPT !.cpu.acc = x] = now(x, pt.log)
    BY <1>2, AccPut, Zenon
  <2>2. ASSUME NEW x PROVE [after EXCEPT !.cpu.acc = x] = now(x, s)
    <3>1. after.m = pt.m /\ after.cpu = pt.cpu /\ after.p = pt.p /\ after.log = s
      OBVIOUS
    <3>2. after = [m |-> after.m, cpu |-> after.cpu, p |-> after.p, log |-> after.log]
      OBVIOUS
    <3> HIDE DEF after
    <3>3. [after EXCEPT !.cpu.acc = x] = [m |-> after.m, cpu |-> WithAcc(after.cpu, x), p |-> after.p, log |-> after.log]
      BY <3>1, <3>2, <1>2, AccPut, Zenon
    <3> QED
      BY <3>1, <3>3, Zenon
  <2>3. [pt EXCEPT !.log = s] = after
    BY <1>2
  <2> HIDE DEF after, now
  <2> QED
    BY <2>1, <2>2, <2>3, Zenon
<1>b. after.p.divergence = "none"
  BY <1>2 DEF Players
<1>8. type # "Io" => pt.log = s
  <2>1. type # "Io" => ReadEvents(st, a) = <<>>
    BY <1>3, Zenon DEF ReadEvents
  <2> QED
    BY <1>0, <2>1, ShortLists, Zenon
<1>9. CASE type = "Rom"
  <2>1. replay_read(pt, a) = [pt EXCEPT !.cpu.acc = RomValue]
    BY <1>9 DEF replay_read
  <2> HIDE DEF after, type, v
  <2> QED
    BY <2>1, <1>9, <1>5, <1>7, <1>8, Zenon DEF v
<1>10. CASE type = "OpenBus"
  <2>1. replay_read(pt, a) = [pt EXCEPT !.cpu.acc = OpenBusValue]
    BY <1>10 DEF replay_read
  <2> HIDE DEF after, type, v
  <2> QED
    BY <2>1, <1>10, <1>5, <1>7, <1>8, Zenon DEF v
<1>11. CASE type = "Ram"
  <2>1. replay_read(pt, a) = read_ram(pt, a)
    BY <1>11 DEF replay_read
  <2>2. ram_slice(pt.m, a, 1)
    BY <1>5, <1>11, <1>3 DEF ram_slice, Chip, Fast
  <2>3. read_ram(pt, a) = [pt EXCEPT !.cpu.acc = pt.m.ram[a]]
    BY <2>2, Zenon DEF read_ram
  <2>4. pt.m.ram[a] = v
    BY <1>11, <1>5, <1>3
  <2> HIDE DEF after, type, v
  <2> QED
    BY <2>1, <2>3, <2>4, <1>11, <1>7, <1>8, Zenon DEF v
<1>12. CASE type = "Io"
  <2> DEFINE e == Event(st, "IoRead", [addr |-> a, value |-> v])
  <2>1. ReadEvents(st, a) = <<e>>
    BY <1>12, <1>3, Zenon DEF ReadEvents
  <2>2. /\ e.tag = "IoRead" /\ e.ordinal = pt.p.ordinal /\ e.body.addr = a /\ e.body.value = v
    BY <1>3 DEF Event
  <2> HIDE DEF e, v
  <2>3. pt.log # <<>> /\ Head(pt.log) = e /\ Tail(pt.log) = s
    BY <1>0, <2>1, ListHead, Zenon
  <2> HIDE DEF after
  <2>4. expect_io(pt, "IoRead", a, Val) = after
    BY <2>2, <2>3, <1>6, <1>7 DEF expect_io
  <2>5. replay_read(pt, a) = [after EXCEPT !.cpu.acc = v]
    <3>1. replay_read(pt, a) =
            LET x == expect_io(pt, "IoRead", a, Val)
            IN  [x EXCEPT !.cpu.acc = IF x.p.divergence # "none" THEN 0 ELSE Head(pt.log).body.value]
      BY <1>12 DEF replay_read
    <3> QED
      BY <3>1, <2>2, <2>3, <2>4, <1>b
  <2> QED
    BY <2>5, <1>7, Zenon DEF v
<1> QED
  BY <1>5, <1>9, <1>10, <1>11, <1>12

LEMMA ReplayWrites ==
    ASSUME NEW st, NEW pt, NEW a, NEW v, NEW s, WriteTwice(st, pt, a, v, s)
    PROVE  Replayed(replay_write(pt, a, v), MachineWrite(st.m, a, v), pt.cpu, pt.p, s)
<1> DEFINE type == pt.p.table[PageOf(a)]
           q == replay_write(pt, a, v)
           w == MachineWrite(st.m, a, v)
           r == [pt.m.ram EXCEPT ![a] = v]
           now(m) == [m |-> m, cpu |-> pt.cpu, p |-> pt.p, log |-> s]
<1>0. /\ RecState(st) /\ PlayState(pt) /\ Twins(st, pt) /\ a \in Addresses /\ v \in Val /\ IsList(s)
      /\ pt.log = WriteEvents(st, a, v) \o s
  BY DEF WriteTwice
<1>1. st.m \in LiveMachine /\ st.r.table = TableOf(st.m)
  BY <1>0 DEF RecState, TableOf
<1>2. /\ pt = [m |-> pt.m, cpu |-> pt.cpu, p |-> pt.p, log |-> pt.log]
      /\ pt.cpu \in Cpus /\ pt.p \in Players /\ pt.m \in TwinMachine
  BY <1>0 DEF PlayState
<1>3. pt.m.fast = st.m.fast /\ pt.m.ram = st.m.ram /\ pt.p.table = st.r.table /\ pt.p.ordinal = st.r.ordinal
  BY <1>0 DEF Twins
<1>4. type = TableOf(st.m)[PageOf(a)]
  BY <1>1, <1>3
<1>5. /\ type \in {"Io", "Ram", "Rom", "OpenBus"}
      /\ type = "Ram" => a \in Chip \/ (a \in Fast /\ st.m.fast)
      /\ type = "Rom" => a = Rom
      /\ type = "OpenBus" => a \in Fast /\ ~st.m.fast
      /\ type = "Io" => a \in Chip \/ a \in {Dev, Cia, Ac}
  BY <1>4, <1>1, <1>0, PageKinds, Zenon
<1>6. /\ w.ram = IF a \in Chip \/ (a \in Fast /\ st.m.fast) THEN r ELSE pt.m.ram
      /\ w.fast = (IF a = Ac THEN TRUE ELSE pt.m.fast)
  <2>1. /\ w.ram = IF a \in Chip \/ (a \in Fast /\ st.m.fast) THEN [st.m.ram EXCEPT ![a] = v] ELSE st.m.ram
        /\ w.fast = (IF a = Ac THEN TRUE ELSE st.m.fast)
    <3>1. Wrote(st.m, a, v, w)
      BY <1>0, <1>1, MachineWrites, Zenon
    <3> QED
      BY <3>1, Zenon DEF Wrote
  <2> HIDE DEF w
  <2> QED
    BY <2>1, <1>3
<1>7. (a \in Chip \/ a \in Fast) => /\ a \in Cells /\ a # Ac /\ a \notin {Rom, Dev, Cia, Ac}
                                    /\ r \in Ram
  <2>1. pt.m.ram \in Ram
    BY <1>2 DEF TwinMachine
  <2> QED
    BY <1>0, <2>1 DEF Chip, Fast, Cells, Ac, Dev, Cia, Rom, Ram
<1>8. type # "Io" => pt.log = s
  <2>1. type # "Io" => WriteEvents(st, a, v) = <<>>
    BY <1>3, Zenon DEF WriteEvents
  <2> QED
    BY <1>0, <2>1, ShortLists, Zenon
\* What the machine of the replay may be afterwards.
<1> DEFINE ram(m) == m \in TwinMachine /\ m.ram = w.ram /\ m.fast = w.fast
<1>9. ASSUME NEW m, ram(m), q = now(m)
      PROVE  Replayed(q, w, pt.cpu, pt.p, s)
  <2> HIDE DEF q, w
  <2> QED
    BY <1>0, <1>9, <1>2 DEF PlayState, Replayed
<1> SUFFICES \E m : ram(m) /\ q = now(m)
  <2> HIDE DEF q, ram, now
  <2>1. PICK m : ram(m) /\ q = now(m)
    OBVIOUS
  <2> QED
    BY <2>1, <1>9, Zenon DEF q
<1> DEFINE put == [overlay |-> pt.m.overlay, fast |-> pt.m.fast, ram |-> r, dev |-> pt.m.dev]
           after == now(pt.m)
<1>10. pt.m = [overlay |-> pt.m.overlay, fast |-> pt.m.fast, ram |-> pt.m.ram, dev |-> pt.m.dev]
  BY <1>2 DEF TwinMachine
<1>11. [pt EXCEPT !.log = s] = after /\ (pt.log = s => pt = after)
  <2>1. [pt EXCEPT !.log = s] = after
    BY <1>2
  <2>2. ASSUME pt.log = s PROVE pt = after
    BY <1>2, <2>2, Zenon
  <2> QED
    BY <2>1, <2>2
<1>12. a \in Cells => [pt.m EXCEPT !.ram[a] = v] = put
  <2>1. [pt.m EXCEPT !.ram[a] = v] = [pt.m EXCEPT !.ram = r]
    BY <1>10
  <2> HIDE DEF r
  <2> QED
    BY <2>1, <1>10
<1>13. CASE type \in {"Rom", "OpenBus"}
  <2>1. q = after
    <3> HIDE DEF after
    <3> QED
      BY <1>13, <1>8, <1>11 DEF replay_write
  <2>2. ram(pt.m)
    <3>1. a \notin Chip /\ a # Ac /\ (a \in Fast => ~st.m.fast)
      BY <1>13, <1>5 DEF Chip, Fast, Rom, Ac
    <3> HIDE DEF r, w
    <3> QED
      BY <3>1, <1>6, <1>2
  <2> QED
    BY <2>1, <2>2
<1>14. CASE type = "Ram"
  <2>1. ram_slice(pt.m, a, 1)
    BY <1>5, <1>14, <1>3 DEF ram_slice, Chip, Fast
  <2>2. q = [pt EXCEPT !.m.ram[a] = v]
    BY <1>14, <2>1 DEF replay_write, write_ram
  <2>3. [pt EXCEPT !.m.ram[a] = v] = [pt EXCEPT !.m = [pt.m EXCEPT !.ram[a] = v]]
    BY <1>2
  <2>4. [pt EXCEPT !.m = put] = now(put)
    <3>1. pt.log = s
      BY <1>8, <1>14
    <3> HIDE DEF put
    <3> QED
      BY <1>2, <3>1
  <2>5. a \in Cells
    BY <1>14, <1>5, <1>7
  <2>6. q = now(put)
    <3> HIDE DEF put, now, q
    <3> QED
      BY <2>2, <2>3, <2>4, <2>5, <1>12, Zenon
  <2>7. ram(put)
    <3> HIDE DEF r, w
    <3> QED
      BY <1>5, <1>14, <1>6, <1>7, <1>2, <1>3 DEF TwinMachine
  <2> QED
    BY <2>6, <2>7
<1>15. CASE type = "Io"
  <2> DEFINE e == Event(st, "IoWrite", [addr |-> a, value |-> v])
  <2>1. WriteEvents(st, a, v) = <<e>>
    BY <1>15, <1>3, Zenon DEF WriteEvents
  <2>2. /\ e.tag = "IoWrite" /\ e.ordinal = pt.p.ordinal /\ e.body.addr = a /\ e.body.value = v
    BY <1>3 DEF Event
  <2> HIDE DEF e
  <2>3. pt.log # <<>> /\ Head(pt.log) = e /\ Tail(pt.log) = s
    BY <1>0, <2>1, ListHead, Zenon
  <2>4. expect_io(pt, "IoWrite", a, {v}) = after
    <3> HIDE DEF after
    <3> QED
      BY <2>2, <2>3, <1>11 DEF expect_io
  <2>5. q = IF replay_write_must_apply(a) THEN [after EXCEPT !.m = MachineWrite(@, a, v)] ELSE after
    <3> HIDE DEF after
    <3> QED
      BY <1>15, <2>4 DEF replay_write
  <2>6. [after EXCEPT !.m = MachineWrite(@, a, v)] = now(MachineWrite(pt.m, a, v))
    <3> DEFINE x == MachineWrite(pt.m, a, v)
    <3>1. [after EXCEPT !.m = MachineWrite(@, a, v)] = [after EXCEPT !.m = x]
      OBVIOUS
    <3> HIDE DEF x
    <3>2. [after EXCEPT !.m = x] = now(x)
      OBVIOUS
    <3> QED
      BY <3>1, <3>2 DEF x
  <2>7. CASE a \in Chip
    <3>1. MachineWrite(pt.m, a, v) = put
      <4>1. MachineWrite(pt.m, a, v) = [pt.m EXCEPT !.ram[a] = v]
        BY <2>7 DEF MachineWrite, Chip, Fast, Dev, Cia, Ac
      <4>2. a \in Cells
        BY <2>7, <1>7
      <4> HIDE DEF put
      <4> QED
        BY <4>1, <4>2, <1>12, Zenon
    <3>2. q = now(put)
      <4>1. replay_write_must_apply(a)
        BY <2>7 DEF replay_write_must_apply
      <4> HIDE DEF q, put, now, after
      <4> QED
        BY <4>1, <2>5, <2>6, <3>1, Zenon
    <3>3. ram(put)
      <4> HIDE DEF r, w
      <4> QED
        BY <2>7, <1>6, <1>7, <1>2, <1>3 DEF TwinMachine
    <3> QED
      BY <3>2, <3>3
  <2>8. CASE a = Ac
    <3> DEFINE placed == [overlay |-> pt.m.overlay, fast |-> TRUE, ram |-> pt.m.ram, dev |-> pt.m.dev]
    <3>1. MachineWrite(pt.m, a, v) = placed
      <4>1. MachineWrite(pt.m, a, v) = [pt.m EXCEPT !.fast = TRUE]
        BY <2>8 DEF MachineWrite, Chip, Fast, Dev, Cia, Ac
      <4> QED
        BY <4>1, <1>10
    <3>2. q = now(placed)
      <4>1. replay_write_must_apply(a)
        BY <2>8 DEF replay_write_must_apply
      <4> HIDE DEF q, placed, now, after
      <4> QED
        BY <4>1, <2>5, <2>6, <3>1, Zenon
    <3>3. ram(placed)
      <4>1. a \notin Chip /\ a \notin Fast
        BY <2>8 DEF Chip, Fast, Ac
      <4> HIDE DEF r, w
      <4> QED
        BY <2>8, <4>1, <1>6, <1>2, <1>3 DEF TwinMachine
    <3> QED
      BY <3>2, <3>3
  <2>9. CASE a \in {Dev, Cia}
    <3>1. a \notin Chip /\ a \notin Fast /\ a # Ac
      BY <2>9 DEF Chip, Fast, Dev, Cia, Ac
    <3>2. q = after
      <4>1. ~replay_write_must_apply(a)
        BY <3>1 DEF replay_write_must_apply
      <4> HIDE DEF q, after
      <4> QED
        BY <4>1, <2>5, Zenon
    <3>3. ram(pt.m)
      <4> HIDE DEF r, w
      <4> QED
        BY <3>1, <1>6, <1>2, <1>3
    <3> QED
      BY <3>2, <3>3
  <2> QED
    BY <1>15, <1>5, <2>7, <2>8, <2>9
<1> QED
  BY <1>5, <1>13, <1>14, <1>15

-----------------------------------------------------------------------------
(* One instruction of the recording, and the same one of the replay.       *)

Stored(st, i) == IF i[1] = "rmw" THEN 1 - MachineRead(st.m, i[2]) ELSE st.cpu.acc
Accesses(st, i) ==
    CASE i[1] = "load" -> ReadEvents(st, i[2])
      [] i[1] = "rmw"  -> ReadEvents(st, i[2]) \o WriteEvents(st, i[2], Stored(st, i))
      [] i[1] = "stop" -> <<>>
      [] OTHER         -> WriteEvents(st, i[2], Stored(st, i))
MachineAfter(st, i) ==
    IF i[1] \in {"load", "stop"} THEN st.m ELSE MachineWrite(st.m, i[2], Stored(st, i))
CpuAfter(st, i) ==
    [acc |-> IF i[1] \in {"load", "rmw"} THEN MachineRead(st.m, i[2]) ELSE st.cpu.acc,
     irq |-> st.cpu.irq, stopped |-> IF i[1] = "stop" THEN TRUE ELSE FALSE]
After(st, i) ==
    [m |-> MachineAfter(st, i), cpu |-> CpuAfter(st, i), wl |-> st.wl,
     r |-> WithTable(st.r, TableOf(MachineAfter(st, i))),
     log |-> Accesses(st, i) \o MapEvents(st, MachineAfter(st, i))]

LEMMA InstrParts ==
    ASSUME NEW i \in Instrs
    PROVE  /\ i[1] \in {"load", "store", "rmw", "stop", "trap"}
           /\ i[1] # "stop" => i[2] \in Addresses
           /\ i[1] = "trap" => i[2] = 2
           /\ Retires(i) <=> i[1] # "trap"
           /\ i[1] # "tick"
BY DEF Instrs, Retires, Addresses, CpuCells, Cells, Chip, Fast, Rom, Dev, Cia, Ac

WithStopped(cpu, b) == [acc |-> cpu.acc, irq |-> cpu.irq, stopped |-> b]
Awake(cpu) == WithStopped(cpu, FALSE)

LEMMA StoppedPut ==
    ASSUME NEW cpu \in Cpus, NEW b
    PROVE  [cpu EXCEPT !.stopped = b] = WithStopped(cpu, b)
BY DEF Cpus, WithStopped

Woken(st) == [m |-> st.m, cpu |-> Awake(st.cpu), wl |-> st.wl, r |-> st.r, log |-> st.log]

LEMMA CpuAwake ==
    ASSUME NEW cpu \in Cpus
    PROVE  Awake(cpu) \in Cpus /\ [cpu EXCEPT !.stopped = FALSE] = Awake(cpu)
           /\ cpu.acc \in Val /\ 1 - cpu.acc \in Val
<1>1. Awake(cpu) \in Cpus /\ cpu.acc \in Val
  BY DEF Cpus, Awake, WithStopped
<1>2. [cpu EXCEPT !.stopped = FALSE] = Awake(cpu)
  BY StoppedPut, Zenon DEF Awake
<1> QED
  BY <1>1, <1>2 DEF Val

LEMMA RecordWoken ==
    ASSUME NEW st, RecState(st)
    PROVE  [st EXCEPT !.cpu.stopped = FALSE] = Woken(st) /\ RecState(Woken(st))
<1>1. st = [m |-> st.m, cpu |-> st.cpu, wl |-> st.wl, r |-> st.r, log |-> st.log] /\ st.cpu \in Cpus
  BY DEF RecState, RecShape
<1>2. [st EXCEPT !.cpu.stopped = FALSE] = [st EXCEPT !.cpu = [st.cpu EXCEPT !.stopped = FALSE]]
  BY <1>1
<1>3. [st EXCEPT !.cpu.stopped = FALSE] = [st EXCEPT !.cpu = Awake(st.cpu)]
  BY <1>1, <1>2, CpuAwake, Zenon
<1> DEFINE c == Awake(st.cpu)
<1>4. c \in Cpus
  BY <1>1, CpuAwake
<1> HIDE DEF c
<1>5. [st EXCEPT !.cpu = c] = [m |-> st.m, cpu |-> c, wl |-> st.wl, r |-> st.r, log |-> st.log]
  BY <1>1
<1>6. Woken(st) = [m |-> st.m, cpu |-> c, wl |-> st.wl, r |-> st.r, log |-> st.log]
  BY DEF Woken, c
<1>7. RecState(Woken(st))
  BY <1>4, <1>6 DEF RecState, RecShape
<1> QED
  BY <1>3, <1>5, <1>6, <1>7, Zenon DEF c

LEMMA RecordExecutes ==
    ASSUME NEW st, RecState(st), st.log = <<>>, NEW i \in Instrs
    PROVE  ExecuteInstr(BusRead, BusWrite, st, i) = After(st, i) /\ RecState(After(st, i))
<1> DEFINE wk == Woken(st)
           ex == ExecuteInstr(BusRead, BusWrite, st, i)
           v == MachineRead(st.m, i[2])
           w == MachineAfter(st, i)
<1>1. [st EXCEPT !.cpu.stopped = FALSE] = wk /\ RecState(wk)
  BY RecordWoken, Zenon
<1>2. /\ wk.m = st.m /\ wk.cpu = Awake(st.cpu) /\ wk.wl = st.wl /\ wk.r = st.r /\ wk.log = <<>>
  BY DEF Woken
<1>3. /\ st.m \in LiveMachine /\ st.cpu \in Cpus /\ st.r \in Recorders
      /\ st.r.table = TableOf(st.m)
  BY DEF RecState, TableOf
<1>4. st.cpu.acc \in Val /\ (i[1] # "stop" => v \in Val /\ 1 - v \in Val /\ i[2] \in Addresses)
  <2>1. i[1] # "stop" => i[2] \in Addresses
    BY InstrParts
  <2>2. i[1] # "stop" => v \in Val
    BY <2>1, <1>3, MachineReads
  <2> HIDE DEF v
  <2> QED
    BY <2>1, <2>2, <1>3, CpuAwake DEF Val
<1>5. \A x, y : EventLists(st, x, y, w)
  BY EventsAreLists
<1>6. \A x, y : ReadEvents(wk, x) = ReadEvents(st, x) /\ WriteEvents(wk, x, y) = WriteEvents(st, x, y)
  BY <1>2 DEF ReadEvents, WriteEvents, Event
<1>7. \A x : MapEvents(wk, x) = MapEvents(st, x)
  BY <1>2 DEF MapEvents, Event
<1>8. WithTable(st.r, TableOf(st.m)) = st.r /\ MapEvents(st, st.m) = <<>>
  BY <1>3 DEF WithTable, Recorders, MapEvents
<1> HIDE DEF wk
<1>9. ex = CASE i[1] = "load"  -> BusRead(wk, i[2])
             [] i[1] = "store" -> BusWrite(wk, i[2], wk.cpu.acc)
             [] i[1] = "rmw"   -> BusWrite(BusRead(wk, i[2]), i[2], 1 - BusRead(wk, i[2]).cpu.acc)
             [] i[1] = "stop"  -> [wk EXCEPT !.cpu.stopped = TRUE]
             [] i[1] = "trap"  -> BusWrite(wk, i[2], wk.cpu.acc)
  BY <1>1, Zenon DEF ExecuteInstr
<1> DEFINE io == Accesses(st, i)
           maps == MapEvents(st, w)
<1>10. MachineAfter(st, i) = w /\ After(st, i) =
         [m |-> w, cpu |-> CpuAfter(st, i), wl |-> st.wl, r |-> WithTable(st.r, TableOf(w)), log |-> io \o maps]
  BY Zenon DEF After
<1>11. \A x : IsList(x) => <<>> \o x = x /\ x \o <<>> = x
  BY ShortLists, Zenon
<1> DEFINE Parts(c) == c = CpuAfter(st, i)
<1>12. CASE i[1] = "load"
  <2> DEFINE rd == ReadEvents(st, i[2])
  <2>1. ex = BusRead(wk, i[2])
    BY <1>9, <1>12
  <2>2. /\ BusRead(wk, i[2]) = [m |-> wk.m, cpu |-> WithAcc(wk.cpu, MachineRead(wk.m, i[2])), wl |-> wk.wl,
                                r |-> wk.r, log |-> wk.log \o ReadEvents(wk, i[2])]
        /\ RecState(BusRead(wk, i[2]))
    BY <1>1, <1>4, <1>12, BusReads
  <2>3. w = st.m /\ io = rd
    BY <1>12 DEF MachineAfter, Accesses
  <2>4. CpuAfter(st, i) = WithAcc(wk.cpu, v)
    BY <1>12, <1>2 DEF CpuAfter, WithAcc, Awake, WithStopped
  <2>5. wk.log \o ReadEvents(wk, i[2]) = rd /\ io \o maps = rd
    <3>1. IsList(rd)
      BY <1>4, <1>5, <1>12 DEF EventLists
    <3>2. maps = <<>> /\ ReadEvents(wk, i[2]) = rd
      BY <2>3, <1>8, <1>6
    <3> HIDE DEF rd, maps, io
    <3> QED
      BY <3>1, <3>2, <1>11, <1>2, <2>3
  <2> HIDE DEF ex, w, io, maps, rd, v
  <2>6. ex = After(st, i)
    BY <2>1, <2>2, <2>3, <2>4, <2>5, <1>2, <1>8, <1>10, Zenon DEF v
  <2> QED
    BY <2>1, <2>2, <2>6, Zenon DEF ex
<1>13. CASE i[1] \in {"store", "trap"}
  <2> DEFINE wr == WriteEvents(st, i[2], st.cpu.acc)
  <2>1. ex = BusWrite(wk, i[2], st.cpu.acc)
    BY <1>9, <1>13, <1>2 DEF Awake, WithStopped
  <2>2. LET x == MachineWrite(wk.m, i[2], st.cpu.acc)
        IN  /\ BusWrite(wk, i[2], st.cpu.acc) =
                 [m |-> x, cpu |-> wk.cpu, wl |-> wk.wl, r |-> WithTable(wk.r, TableOf(x)),
                  log |-> (wk.log \o WriteEvents(wk, i[2], st.cpu.acc)) \o MapEvents(wk, x)]
            /\ RecState(BusWrite(wk, i[2], st.cpu.acc))
    <3>1. i[2] \in Addresses /\ st.cpu.acc \in Val
      BY <1>4, <1>13
    <3> QED
      BY <3>1, <1>1, BusWrites, Zenon
  <2>3. w = MachineWrite(st.m, i[2], st.cpu.acc) /\ io = wr
    BY <1>13 DEF MachineAfter, Accesses, Stored
  <2>4. CpuAfter(st, i) = wk.cpu
    BY <1>13, <1>2 DEF CpuAfter, Awake, WithStopped
  <2>5. (wk.log \o WriteEvents(wk, i[2], st.cpu.acc)) \o MapEvents(wk, w) = io \o maps
    <3>1. IsList(wr)
      BY <1>4, <1>5, <1>13 DEF EventLists
    <3>2. MapEvents(wk, w) = maps /\ WriteEvents(wk, i[2], st.cpu.acc) = wr
      BY <1>7, <1>6
    <3>3. <<>> \o wr = wr
      <4> HIDE DEF wr
      <4> QED
        BY <3>1, <1>11
    <3> HIDE DEF wr, maps, io
    <3> QED
      BY <3>2, <3>3, <1>2, <2>3
  <2> HIDE DEF ex, w, io, maps, wr
  <2>6. ex = After(st, i)
    BY <2>1, <2>2, <2>3, <2>4, <2>5, <1>2, <1>10, Zenon
  <2> QED
    BY <2>1, <2>2, <2>6, Zenon DEF ex
<1>14. CASE i[1] = "rmw"
  <2> DEFINE rd == ReadEvents(st, i[2])
             wr == WriteEvents(st, i[2], 1 - v)
             got == BusRead(wk, i[2])
  <2>1. ex = BusWrite(got, i[2], 1 - got.cpu.acc)
    BY <1>9, <1>14
  <2>2. /\ got = [m |-> wk.m, cpu |-> WithAcc(wk.cpu, MachineRead(wk.m, i[2])), wl |-> wk.wl,
                  r |-> wk.r, log |-> wk.log \o ReadEvents(wk, i[2])]
        /\ RecState(got)
    BY <1>1, <1>4, <1>14, BusReads
  <2>3. IsList(rd) /\ IsList(wr) /\ <<>> \o rd = rd
    <3>1. IsList(rd) /\ IsList(wr)
      BY <1>4, <1>5, <1>14 DEF EventLists
    <3> HIDE DEF rd, wr
    <3> QED
      BY <3>1, <1>11
  <2> HIDE DEF got
  <2>4. /\ got.m = st.m /\ got.cpu = WithAcc(wk.cpu, v) /\ got.wl = st.wl /\ got.r = st.r /\ got.log = rd
    <3>1. wk.log \o ReadEvents(wk, i[2]) = rd
      BY <2>3, <1>6, <1>2
    <3> HIDE DEF rd, v
    <3> QED
      BY <2>2, <3>1, <1>2 DEF v
  <2>5. 1 - got.cpu.acc = 1 - v
    BY <2>4 DEF WithAcc
  <2>6. LET x == MachineWrite(got.m, i[2], 1 - v)
        IN  /\ BusWrite(got, i[2], 1 - v) =
                 [m |-> x, cpu |-> got.cpu, wl |-> got.wl, r |-> WithTable(got.r, TableOf(x)),
                  log |-> (got.log \o WriteEvents(got, i[2], 1 - v)) \o MapEvents(got, x)]
            /\ RecState(BusWrite(got, i[2], 1 - v))
    <3>1. i[2] \in Addresses /\ 1 - v \in Val
      BY <1>4, <1>14
    <3> HIDE DEF v
    <3> QED
      BY <3>1, <2>2, BusWrites, Zenon
  <2>7. w = MachineWrite(st.m, i[2], 1 - v) /\ io = rd \o wr
    BY <1>14 DEF MachineAfter, Accesses, Stored
  <2>8. CpuAfter(st, i) = WithAcc(wk.cpu, v)
    BY <1>14, <1>2 DEF CpuAfter, WithAcc, Awake, WithStopped
  <2>9. WriteEvents(got, i[2], 1 - v) = wr /\ MapEvents(got, w) = maps
    BY <2>4 DEF WriteEvents, MapEvents, Event
  <2> HIDE DEF ex, w, io, maps, wr, rd, v
  <2>10. ex = After(st, i)
    BY <2>1, <2>4, <2>5, <2>6, <2>7, <2>8, <2>9, <1>10, Zenon
  <2> QED
    BY <2>1, <2>5, <2>6, <2>10, Zenon DEF ex
<1>15. CASE i[1] = "stop"
  <2>1. ex = [wk EXCEPT !.cpu.stopped = TRUE]
    BY <1>9, <1>15
  <2>2. w = st.m /\ io = <<>>
    BY <1>15 DEF MachineAfter, Accesses
  <2>3. ex = [m |-> st.m, cpu |-> CpuAfter(st, i), wl |-> st.wl, r |-> st.r, log |-> <<>>]
    <3>1. wk = [m |-> st.m, cpu |-> wk.cpu, wl |-> st.wl, r |-> st.r, log |-> <<>>]
      BY <1>2 DEF Woken, wk
    <3>2. [wk.cpu EXCEPT !.stopped = TRUE] = CpuAfter(st, i)
      <4>1. wk.cpu \in Cpus
        BY <1>2, <1>3, CpuAwake
      <4>2. WithStopped(wk.cpu, TRUE) = CpuAfter(st, i)
        BY <1>2, <1>15 DEF CpuAfter, Awake, WithStopped
      <4> QED
        BY <4>1, <4>2, StoppedPut, Zenon
    <3>3. ex = [wk EXCEPT !.cpu = [wk.cpu EXCEPT !.stopped = TRUE]]
      BY <2>1, <3>1
    <3> DEFINE c == CpuAfter(st, i)
    <3>4. ex = [wk EXCEPT !.cpu = c]
      BY <3>2, <3>3, Zenon
    <3> HIDE DEF c, ex
    <3> QED
      BY <3>1, <3>4 DEF c
  <2>4. io \o maps = <<>>
    BY <2>2, <1>8
  <2> HIDE DEF ex, w, io, maps
  <2>5. ex = After(st, i)
    BY <2>2, <2>3, <2>4, <1>8, <1>10, Zenon
  <2>6. RecState(ex)
    <3>1. CpuAfter(st, i) \in Cpus
      BY <1>3, <1>15 DEF CpuAfter, Cpus
    <3>2. IsList(<<>>)
      BY NothingIsAList
    <3> DEFINE c == CpuAfter(st, i)
    <3> HIDE DEF c
    <3>3. /\ ex.m = st.m /\ ex.cpu = c /\ ex.wl = st.wl /\ ex.r = st.r /\ ex.log = <<>>
          /\ ex = [m |-> ex.m, cpu |-> ex.cpu, wl |-> ex.wl, r |-> ex.r, log |-> ex.log]
      BY <2>3 DEF c
    <3> QED
      BY <3>1, <3>2, <3>3 DEF RecState, RecShape, c
  <2> QED
    BY <2>5, <2>6, Zenon DEF ex
<1> QED
  BY <1>12, <1>13, <1>14, <1>15, InstrParts

PlayWoken(pt) == [m |-> pt.m, cpu |-> Awake(pt.cpu), p |-> pt.p, log |-> pt.log]

LEMMA ReplayWoken ==
    ASSUME NEW pt, PlayState(pt)
    PROVE  [pt EXCEPT !.cpu.stopped = FALSE] = PlayWoken(pt) /\ PlayState(PlayWoken(pt))
<1>1. pt = [m |-> pt.m, cpu |-> pt.cpu, p |-> pt.p, log |-> pt.log] /\ pt.cpu \in Cpus
  BY DEF PlayState
<1>2. [pt EXCEPT !.cpu.stopped = FALSE] = [pt EXCEPT !.cpu = [pt.cpu EXCEPT !.stopped = FALSE]]
  BY <1>1
<1>3. [pt EXCEPT !.cpu.stopped = FALSE] = [pt EXCEPT !.cpu = Awake(pt.cpu)]
  BY <1>1, <1>2, CpuAwake, Zenon
<1> DEFINE c == Awake(pt.cpu)
<1>4. c \in Cpus
  BY <1>1, CpuAwake
<1> HIDE DEF c
<1>5. [pt EXCEPT !.cpu = c] = [m |-> pt.m, cpu |-> c, p |-> pt.p, log |-> pt.log]
  BY <1>1
<1>6. PlayWoken(pt) = [m |-> pt.m, cpu |-> c, p |-> pt.p, log |-> pt.log]
  BY DEF PlayWoken, c
<1>7. PlayState(PlayWoken(pt))
  BY <1>4, <1>6 DEF PlayState
<1> QED
  BY <1>3, <1>5, <1>6, <1>7, Zenon DEF c

LEMMA ReplayExecutes ==
    ASSUME NEW st, RecState(st), st.log = <<>>, NEW pt, PlayState(pt), Twins(st, pt), NEW i \in Instrs,
           NEW s, IsList(s), pt.log = (Accesses(st, i) \o MapEvents(st, MachineAfter(st, i))) \o s
    PROVE  Replayed(ExecuteInstr(replay_read, replay_write, pt, i), MachineAfter(st, i), CpuAfter(st, i), pt.p,
                    MapEvents(st, MachineAfter(st, i)) \o s)
<1> DEFINE wk == Woken(st)
           pk == PlayWoken(pt)
           ex == ExecuteInstr(replay_read, replay_write, pt, i)
           v == MachineRead(st.m, i[2])
           w == MachineAfter(st, i)
           io == Accesses(st, i)
           maps == MapEvents(st, w)
           rest == maps \o s
           Goal == Replayed(ex, w, CpuAfter(st, i), pt.p, rest)
<1> SUFFICES Goal
  OBVIOUS
<1>1. RecState(wk) /\ [pt EXCEPT !.cpu.stopped = FALSE] = pk /\ PlayState(pk)
  BY RecordWoken, ReplayWoken, Zenon
<1>2. /\ wk.m = st.m /\ wk.cpu = Awake(st.cpu) /\ wk.wl = st.wl /\ wk.r = st.r /\ wk.log = <<>>
      /\ pk.m = pt.m /\ pk.cpu = Awake(pt.cpu) /\ pk.p = pt.p /\ pk.log = pt.log
  BY DEF Woken, PlayWoken
<1>3. /\ st.m \in LiveMachine /\ st.cpu \in Cpus /\ st.r.table = TableOf(st.m)
  BY DEF RecState, TableOf
<1>4. st.cpu.acc \in Val /\ (i[1] # "stop" => v \in Val /\ 1 - v \in Val /\ i[2] \in Addresses)
  <2>1. i[1] # "stop" => i[2] \in Addresses
    BY InstrParts
  <2>2. i[1] # "stop" => v \in Val
    BY <2>1, <1>3, MachineReads
  <2> HIDE DEF v
  <2> QED
    BY <2>1, <2>2, <1>3, CpuAwake DEF Val
<1>5. pt.cpu = st.cpu /\ pk.cpu = wk.cpu
  BY <1>2 DEF Twins
<1>6. Twins(wk, pk)
  BY <1>2, <1>5 DEF Twins
<1>7. \A x, y : EventLists(st, x, y, w)
  BY EventsAreLists
<1>8. \A x, y : ReadEvents(wk, x) = ReadEvents(st, x) /\ WriteEvents(wk, x, y) = WriteEvents(st, x, y)
  BY <1>2 DEF ReadEvents, WriteEvents, Event
<1>9. MapEvents(st, st.m) = <<>>
  BY <1>3 DEF MapEvents
<1>10. IsList(maps) /\ IsList(rest)
  <2>1. IsList(maps)
    BY <1>7 DEF EventLists
  <2> HIDE DEF maps
  <2> QED
    BY <2>1, ListsJoined, Zenon
<1> HIDE DEF wk, pk
<1>11. ex = CASE i[1] = "load"  -> replay_read(pk, i[2])
              [] i[1] = "store" -> replay_write(pk, i[2], pk.cpu.acc)
              [] i[1] = "rmw"   -> replay_write(replay_read(pk, i[2]), i[2], 1 - replay_read(pk, i[2]).cpu.acc)
              [] i[1] = "stop"  -> [pk EXCEPT !.cpu.stopped = TRUE]
              [] i[1] = "trap"  -> replay_write(pk, i[2], pk.cpu.acc)
  BY <1>1, Zenon DEF ExecuteInstr
<1>12. CASE i[1] = "load"
  <2> DEFINE rd == ReadEvents(st, i[2])
  <2>1. ex = replay_read(pk, i[2]) /\ w = st.m /\ io = rd
    BY <1>11, <1>12 DEF MachineAfter, Accesses
  <2>2. maps = <<>> /\ IsList(rd)
    BY <2>1, <1>9, <1>7, <1>4, <1>12 DEF EventLists
  <2>3. rest = s /\ pk.log = rd \o s
    <3> HIDE DEF rd, maps, io
    <3>1. rd \o <<>> = rd /\ <<>> \o s = s
      BY <2>2, ShortLists, Zenon
    <3> QED
      BY <3>1, <2>1, <2>2, <1>2 DEF io, maps
  <2>4. ex = [m |-> pk.m, cpu |-> WithAcc(pk.cpu, MachineRead(wk.m, i[2])), p |-> pk.p, log |-> s]
    <3>1. pk.log = ReadEvents(wk, i[2]) \o s
      BY <2>3, <1>8, Zenon
    <3>2. ReadTwice(wk, pk, i[2], s)
      BY <3>1, <1>1, <1>6, <1>4, <1>12 DEF ReadTwice
    <3>3. replay_read(pk, i[2]) = [m |-> pk.m, cpu |-> WithAcc(pk.cpu, MachineRead(wk.m, i[2])), p |-> pk.p, log |-> s]
      <4>1. WasRead(wk, pk, i[2], s)
        BY <3>2, ReplayReads, Zenon
      <4> QED
        BY <4>1, Zenon DEF WasRead
    <3> QED
      BY <3>3, <2>1, Zenon
  <2>5. WithAcc(pk.cpu, v) = CpuAfter(st, i) /\ CpuAfter(st, i) \in Cpus
    <3>1. v \in Val
      BY <1>4, <1>12
    <3> HIDE DEF v
    <3>2. CpuAfter(st, i) = [acc |-> v, irq |-> st.cpu.irq, stopped |-> FALSE]
      BY <1>12 DEF CpuAfter, v
    <3> QED
      BY <3>1, <3>2, <1>2, <1>3, <1>5 DEF WithAcc, Awake, WithStopped, Cpus
  <2>6. pt.m.fast = st.m.fast /\ pt.m.ram = st.m.ram /\ pt.m \in TwinMachine /\ pt.p \in Players
    BY DEF Twins, PlayState
  <2> DEFINE c == CpuAfter(st, i)
  <2>7. ex = [m |-> pt.m, cpu |-> c, p |-> pt.p, log |-> s]
    <3> HIDE DEF ex, c
    <3> QED
      BY <2>4, <2>5, <1>2, Zenon DEF c
  <2> HIDE DEF ex, w, rest, c
  <2> QED
    BY <2>7, <2>6, <2>5, <2>1, <2>3 DEF Replayed, PlayState, c
<1>13. CASE i[1] \in {"store", "trap"}
  <2> DEFINE wr == WriteEvents(st, i[2], st.cpu.acc)
             q == replay_write(pk, i[2], st.cpu.acc)
  <2>1. ex = q /\ w = MachineWrite(st.m, i[2], st.cpu.acc) /\ io = wr
    <3>1. pk.cpu.acc = st.cpu.acc
      BY <1>2, <1>5 DEF Awake, WithStopped
    <3> QED
      BY <3>1, <1>11, <1>13 DEF MachineAfter, Accesses, Stored
  <2>2. IsList(wr)
    BY <1>7, <1>4, <1>13 DEF EventLists
  <2>3. pk.log = WriteEvents(wk, i[2], st.cpu.acc) \o rest
    <3>1. WriteEvents(wk, i[2], st.cpu.acc) = wr
      BY <1>8, Zenon
    <3>2. pk.log = (wr \o maps) \o s
      BY <2>1, <1>2
    <3> HIDE DEF wr, maps
    <3>3. (wr \o maps) \o s = wr \o (maps \o s)
      <4>1. Associate(wr, maps, s)
        BY <2>2, <1>10, ListsAssociate, Zenon
      <4> QED
        BY <4>1, Zenon DEF Associate
    <3> QED
      BY <3>1, <3>2, <3>3
  <2>4. Replayed(q, MachineWrite(wk.m, i[2], st.cpu.acc), pk.cpu, pk.p, rest)
    <3>1. i[2] \in Addresses
      BY <1>4, <1>13
    <3> HIDE DEF rest
    <3>2. WriteTwice(wk, pk, i[2], st.cpu.acc, rest)
      BY <3>1, <2>3, <1>1, <1>6, <1>4, <1>10 DEF WriteTwice
    <3> QED
      BY <3>2, ReplayWrites, Zenon
  <2>5. pk.cpu = CpuAfter(st, i)
    BY <1>13, <1>2, <1>5 DEF CpuAfter, Awake, WithStopped
  <2> HIDE DEF ex, q, w, rest
  <2> QED
    BY <2>1, <2>4, <2>5, <1>2, Zenon DEF Replayed
<1>14. CASE i[1] = "rmw"
  <2> DEFINE rd == ReadEvents(st, i[2])
             wr == WriteEvents(st, i[2], 1 - v)
             got == BusRead(wk, i[2])
             qt == replay_read(pk, i[2])
             q == replay_write(qt, i[2], 1 - v)
  <2>1. ex = replay_write(qt, i[2], 1 - qt.cpu.acc) /\ w = MachineWrite(st.m, i[2], 1 - v) /\ io = rd \o wr
    BY <1>11, <1>14 DEF MachineAfter, Accesses, Stored
  <2>2. IsList(rd) /\ IsList(wr) /\ IsList(wr \o rest) /\ <<>> \o rd = rd
    <3>1. IsList(rd) /\ IsList(wr)
      BY <1>7, <1>4, <1>14 DEF EventLists
    <3> HIDE DEF rd, wr, rest
    <3> QED
      BY <3>1, <1>10, ListsJoined, ShortLists, Zenon
  <2>3. pk.log = rd \o (wr \o rest)
    <3>1. pk.log = ((rd \o wr) \o maps) \o s
      BY <2>1, <1>2
    <3> HIDE DEF rd, wr, maps
    <3>2. IsList(rd \o wr)
      BY <2>2, ListsJoined, Zenon
    <3>3. ((rd \o wr) \o maps) \o s = (rd \o wr) \o (maps \o s)
      <4>1. Associate(rd \o wr, maps, s)
        BY <3>2, <1>10, ListsAssociate, Zenon
      <4> QED
        BY <4>1, Zenon DEF Associate
    <3>4. IsList(maps \o s)
      BY <1>10
    <3>5. (rd \o wr) \o (maps \o s) = rd \o (wr \o (maps \o s))
      <4>1. Associate(rd, wr, maps \o s)
        BY <3>4, <2>2, ListsAssociate, Zenon
      <4> QED
        BY <4>1, Zenon DEF Associate
    <3> QED
      BY <3>1, <3>3, <3>5, Zenon
  <2>4. /\ got = [m |-> wk.m, cpu |-> WithAcc(wk.cpu, v), wl |-> wk.wl, r |-> wk.r, log |-> rd]
        /\ RecState(got)
    <3>1. /\ got = [m |-> wk.m, cpu |-> WithAcc(wk.cpu, MachineRead(wk.m, i[2])), wl |-> wk.wl,
                    r |-> wk.r, log |-> wk.log \o ReadEvents(wk, i[2])]
          /\ RecState(got)
      BY <1>1, <1>4, <1>14, BusReads
    <3>2. wk.log \o ReadEvents(wk, i[2]) = rd
      BY <2>2, <1>8, <1>2
    <3> HIDE DEF rd, got
    <3> QED
      BY <3>1, <3>2, <1>2, Zenon
  <2>5. qt = [m |-> pk.m, cpu |-> WithAcc(pk.cpu, v), p |-> pk.p, log |-> wr \o rest]
    <3>1. pk.log = ReadEvents(wk, i[2]) \o (wr \o rest)
      BY <2>3, <1>8, Zenon
    <3>2. MachineRead(wk.m, i[2]) = v
      BY <1>2
    <3> HIDE DEF wr, rest, v
    <3>3. ReadTwice(wk, pk, i[2], wr \o rest)
      BY <3>1, <1>1, <1>6, <1>4, <1>14, <2>2 DEF ReadTwice
    <3>4. qt = [m |-> pk.m, cpu |-> WithAcc(pk.cpu, MachineRead(wk.m, i[2])), p |-> pk.p, log |-> wr \o rest]
      <4>1. WasRead(wk, pk, i[2], wr \o rest)
        BY <3>3, ReplayReads, Zenon
      <4> QED
        BY <4>1, Zenon DEF WasRead
    <3> QED
      BY <3>2, <3>4, Zenon
  <2> HIDE DEF got, qt, v
  <2>6. /\ got.m = st.m /\ got.cpu = WithAcc(wk.cpu, v) /\ got.r = st.r
        /\ qt.m = pt.m /\ qt.cpu = WithAcc(wk.cpu, v) /\ qt.p = pt.p /\ qt.log = wr \o rest
    BY <2>4, <2>5, <1>2, <1>5
  <2>7. Twins(got, qt)
    BY <2>6, <1>2 DEF Twins
  <2>8. WithAcc(wk.cpu, v) = CpuAfter(st, i) /\ CpuAfter(st, i) \in Cpus /\ qt.cpu.acc = v
    <3>1. v \in Val
      BY <1>4, <1>14
    <3>2. CpuAfter(st, i) = [acc |-> v, irq |-> st.cpu.irq, stopped |-> FALSE]
      BY <1>14 DEF CpuAfter, v
    <3> QED
      BY <3>1, <3>2, <2>6, <1>2, <1>3 DEF WithAcc, Awake, WithStopped, Cpus
  <2>9. PlayState(qt)
    <3>1. pt.m \in TwinMachine /\ pt.p \in Players
      BY DEF PlayState
    <3>2. qt = [m |-> qt.m, cpu |-> qt.cpu, p |-> qt.p, log |-> qt.log]
      BY <2>5
    <3> HIDE DEF wr, rest
    <3> QED
      BY <3>1, <3>2, <2>6, <2>8, <2>2 DEF PlayState
  <2>10. WriteEvents(got, i[2], 1 - v) = wr
    BY <2>6 DEF WriteEvents, Event
  <2>11. Replayed(q, MachineWrite(got.m, i[2], 1 - v), qt.cpu, qt.p, rest)
    <3>1. i[2] \in Addresses /\ 1 - v \in Val
      BY <1>4, <1>14
    <3>2. qt.log = WriteEvents(got, i[2], 1 - v) \o rest
      BY <2>6, <2>10
    <3> HIDE DEF rest
    <3>3. WriteTwice(got, qt, i[2], 1 - v, rest)
      BY <3>1, <3>2, <2>4, <2>7, <2>9, <1>10 DEF WriteTwice
    <3> QED
      BY <3>3, ReplayWrites, Zenon
  <2>12. ex = q
    BY <2>1, <2>8
  <2> HIDE DEF ex, q, w, rest
  <2> QED
    BY <2>1, <2>6, <2>8, <2>11, <2>12, Zenon DEF Replayed
<1>15. CASE i[1] = "stop"
  <2>1. ex = [pk EXCEPT !.cpu.stopped = TRUE] /\ w = st.m /\ io = <<>>
    BY <1>11, <1>15 DEF MachineAfter, Accesses
  <2>2. rest = s /\ pt.log = s
    <3>1. maps = <<>>
      BY <2>1, <1>9
    <3>2. <<>> \o s = s /\ <<>> \o <<>> = <<>>
      BY ShortLists, NothingIsAList, Zenon
    <3> HIDE DEF maps, io
    <3> QED
      BY <3>1, <3>2, <2>1 DEF maps, io
  <2> DEFINE c == CpuAfter(st, i)
  <2>3. ex = [m |-> pt.m, cpu |-> c, p |-> pt.p, log |-> s]
    <3>1. pk = [m |-> pt.m, cpu |-> pk.cpu, p |-> pt.p, log |-> s]
      BY <1>2, <2>2 DEF PlayWoken, pk
    <3>2. [pk.cpu EXCEPT !.stopped = TRUE] = c
      <4>1. pk.cpu \in Cpus
        BY <1>2, <1>5, <1>3, CpuAwake
      <4>2. WithStopped(pk.cpu, TRUE) = c
        BY <1>2, <1>5, <1>15 DEF CpuAfter, Awake, WithStopped
      <4> QED
        BY <4>1, <4>2, StoppedPut, Zenon
    <3>3. ex = [pk EXCEPT !.cpu = [pk.cpu EXCEPT !.stopped = TRUE]]
      BY <2>1, <3>1
    <3>4. ex = [pk EXCEPT !.cpu = c]
      BY <3>2, <3>3, Zenon
    <3> HIDE DEF c, ex
    <3> QED
      BY <3>1, <3>4
  <2>4. pt.m.fast = st.m.fast /\ pt.m.ram = st.m.ram /\ pt.m \in TwinMachine /\ pt.p \in Players
    BY DEF Twins, PlayState
  <2>5. c \in Cpus
    BY <1>3, <1>15 DEF CpuAfter, Cpus
  <2>6. /\ ex = [m |-> ex.m, cpu |-> ex.cpu, p |-> ex.p, log |-> ex.log]
        /\ ex.m = pt.m /\ ex.cpu = c /\ ex.p = pt.p /\ ex.log = s
    <3> HIDE DEF ex, c
    <3> QED
      BY <2>3
  <2> HIDE DEF ex, w, rest, c
  <2> QED
    BY <2>1, <2>2, <2>4, <2>5, <2>6 DEF Replayed, PlayState, c
<1> QED
  BY <1>12, <1>13, <1>14, <1>15, InstrParts

\* An exception frame changes no map and meets no device.
LEMMA TrapEvents ==
    ASSUME NEW st, RecState(st), NEW i \in Instrs, i[1] = "trap"
    PROVE  Accesses(st, i) = <<>> /\ MapEvents(st, MachineAfter(st, i)) = <<>>
<1>1. st.m \in LiveMachine /\ st.cpu \in Cpus /\ st.r.table = TableOf(st.m) /\ i[2] = 2
  BY InstrParts DEF RecState, TableOf
<1>2. PageOf(2) = "chip" /\ 2 \in Cells /\ 2 \in Chip
  BY DEF PageOf, Cells, Chip, Low, Fast, Rom, Dev, Cia, Ac
<1>3. Accesses(st, i) = <<>>
  <2>1. TableOf(st.m)["chip"] = "Ram"
    BY DEF TableOf, build_page_table
  <2>2. WriteEvents(st, 2, Stored(st, i)) = <<>>
    BY <2>1, <1>1, <1>2 DEF WriteEvents
  <2> QED
    BY <2>2, <1>1 DEF Accesses
<1>4. MachineAfter(st, i) = [st.m EXCEPT !.ram[2] = st.cpu.acc]
  BY <1>1, <1>2 DEF MachineAfter, Stored, MachineWrite, Chip, Fast, Dev, Cia, Ac
<1>5. st.cpu.acc \in Val
  BY <1>1, CpuAwake
<1>6. MachineAfter(st, i) = WithRam(st.m, [st.m.ram EXCEPT ![2] = st.cpu.acc])
  <2>1. [st.m EXCEPT !.ram[2] = st.cpu.acc] = WithRam(st.m, [st.m.ram EXCEPT ![2] = st.cpu.acc])
    BY <1>1, <1>2, <1>5, RamPut
  <2> QED
    BY <2>1, <1>4, Zenon
<1>7. TableOf(MachineAfter(st, i)) = TableOf(st.m)
  BY <1>6 DEF TableOf, WithRam
<1> QED
  BY <1>1, <1>3, <1>7 DEF MapEvents

-----------------------------------------------------------------------------
(* Device time.                                                            *)

LEMMA SliceBounds ==
    ASSUME NEW m, NEW at \in Nat, NEW len \in Nat \ {0}
    PROVE  ram_slice(m, at, len) <=> at + len <= 3 \/ (m.fast /\ at >= 4 /\ at + len <= 6)
<1> DEFINE span == at..(at + len - 1)
<1>1. at \in span /\ at + len - 1 \in span /\ at + len \in Nat
  OBVIOUS
<1>2. span \subseteq Chip <=> at + len <= 3
  <2>1. ASSUME span \subseteq Chip PROVE at + len <= 3
    BY <2>1, <1>1 DEF Chip
  <2>2. ASSUME at + len <= 3 PROVE span \subseteq Chip
    BY <2>2 DEF Chip
  <2> QED
    BY <2>1, <2>2
<1>3. span \subseteq Fast <=> at >= 4 /\ at + len <= 6
  <2>1. ASSUME span \subseteq Fast PROVE at >= 4 /\ at + len <= 6
    BY <2>1, <1>1 DEF Fast
  <2>2. ASSUME at >= 4, at + len <= 6 PROVE span \subseteq Fast
    BY <2>2 DEF Fast
  <2> QED
    BY <2>1, <2>2
<1> HIDE DEF span
<1> QED
  BY <1>2, <1>3 DEF ram_slice, span

InSpan(s, c) == c \in s.at..(s.at + s.len - 1)
Logged(wl, c) == \E k \in 1..Len(wl.spans) : InSpan(wl.spans[k], c)
Slices(m, wl) == \A k \in 1..Len(wl.spans) : ram_slice(m, wl.spans[k].at, wl.spans[k].len)
\* The log w2 has what w1 has, and a span more.
LogsMore(m, w1, w2, at, len) ==
    /\ w2 \in WriteLogs /\ Slices(m, w2)
    /\ \/ w2.overflowed
       \/ /\ ~w1.overflowed
          /\ \A c \in Cells : Logged(w1, c) => Logged(w2, c)
          /\ \A c \in Cells : c \in at..(at + len - 1) => Logged(w2, c)

LEMMA LogExtends ==
    ASSUME NEW m, NEW wl \in WriteLogs, Slices(m, wl), NEW at \in Nat, NEW len \in Nat \ {0}, ram_slice(m, at, len)
    PROVE  LogsMore(m, wl, DeviceWriteLogRecord(wl, at, len), at, len)
<1> DEFINE n == Len(wl.spans)
           new == DeviceWriteLogRecord(wl, at, len)
           sp == wl.spans[n]
           grown(s) == [spans |-> [wl.spans EXCEPT ![n] = s], overflowed |-> wl.overflowed]
<1>1. /\ wl = [spans |-> wl.spans, overflowed |-> wl.overflowed]
      /\ wl.spans \in Seq(Spans) /\ wl.overflowed \in BOOLEAN /\ n \in Nat
      /\ \A k \in 1..n : wl.spans[k] \in Spans
  BY DEF WriteLogs
<1>2. \A c \in Cells : c \in Nat
  BY DEF Cells, Chip, Fast
<1>3. n > 0 => /\ sp \in Spans /\ sp.at \in Nat /\ sp.len \in Nat \ {0} /\ n \in 1..n
               /\ ram_slice(m, sp.at, sp.len) /\ sp = [at |-> sp.at, len |-> sp.len]
  <2>1. n > 0 => n \in 1..n /\ sp \in Spans
    BY <1>1
  <2> HIDE DEF n
  <2> QED
    BY <2>1 DEF Spans, Slices, n
<1> HIDE DEF n, sp
\* A wider newest span.
<1>4. ASSUME NEW s \in Spans, n > 0, ram_slice(m, s.at, s.len), new = grown(s),
             \A c \in Cells : InSpan(sp, c) => InSpan(s, c),
             \A c \in Cells : c \in at..(at + len - 1) => InSpan(s, c)
      PROVE  LogsMore(m, wl, new, at, len)
  <2> HIDE DEF new
  <2>1. new.spans = [wl.spans EXCEPT ![n] = s] /\ new.overflowed = wl.overflowed
    BY <1>4
  <2>2. new.spans \in Seq(Spans) /\ Len(new.spans) = n
    BY <2>1, <1>1, <1>4 DEF n
  <2>3. /\ new.spans[n] = s /\ n \in 1..n
        /\ \A k \in 1..n : k # n => new.spans[k] = wl.spans[k]
    BY <2>1, <1>1, <1>3, <1>4 DEF n
  <2>4. new \in WriteLogs
    BY <1>4, <1>1, <2>1, <2>2 DEF WriteLogs
  <2>5. Slices(m, new)
    BY <2>2, <2>3, <1>4 DEF Slices, n
  <2>6. ASSUME NEW c \in Cells, Logged(wl, c) PROVE Logged(new, c)
    <3>1. PICK k \in 1..n : InSpan(wl.spans[k], c)
      BY <2>6 DEF Logged, n
    <3>2. InSpan(new.spans[k], c)
      BY <3>1, <2>3, <1>4 DEF sp
    <3> QED
      BY <3>2, <2>2 DEF Logged
  <2>7. ASSUME NEW c \in Cells, c \in at..(at + len - 1) PROVE Logged(new, c)
    <3>1. InSpan(new.spans[n], c)
      BY <2>7, <2>3, <1>4
    <3> QED
      BY <3>1, <2>2, <2>3 DEF Logged
  <2>8. wl.overflowed = FALSE \/ wl.overflowed = TRUE
    BY <1>1
  <2> QED
    BY <2>1, <2>4, <2>5, <2>6, <2>7, <2>8 DEF LogsMore
<1>5. CASE n > 0 /\ sp.at + sp.len = at
  <2> DEFINE s == [at |-> sp.at, len |-> sp.len + len]
  <2>1. s \in Spans /\ s.at = sp.at /\ s.len = sp.len + len
    BY <1>3, <1>5 DEF Spans
  <2>2. new = grown(s)
    <3>1. new = [wl EXCEPT !.spans[n].len = @ + len]
      BY <1>5, Zenon DEF DeviceWriteLogRecord, n, sp
    <3>2. [sp EXCEPT !.len = @ + len] = s
      BY <1>3, <1>5
    <3>3. [wl EXCEPT !.spans[n].len = @ + len] = [wl EXCEPT !.spans[n] = [sp EXCEPT !.len = @ + len]]
      BY <1>1, <1>3, <1>5 DEF sp
    <3> HIDE DEF s
    <3>4. new = [wl EXCEPT !.spans[n] = s]
      BY <3>1, <3>2, <3>3, Zenon
    <3> DEFINE ss == [wl.spans EXCEPT ![n] = s]
    <3>5. new = [wl EXCEPT !.spans = ss]
      BY <3>4, <1>1
    <3> HIDE DEF ss, new
    <3>6. new = [spans |-> ss, overflowed |-> wl.overflowed]
      BY <3>5, <1>1
    <3> QED
      BY <3>6 DEF ss
  <2> HIDE DEF s, new
  <2>3. ram_slice(m, s.at, s.len)
    <3>1. sp.at + sp.len <= 3 \/ (m.fast /\ sp.at >= 4 /\ sp.at + sp.len <= 6)
      BY <1>3, <1>5, SliceBounds, Zenon
    <3>2. at + len <= 3 \/ (m.fast /\ at >= 4 /\ at + len <= 6)
      BY SliceBounds, Zenon
    <3>3. s.at + s.len <= 3 \/ (m.fast /\ s.at >= 4 /\ s.at + s.len <= 6)
      BY <3>1, <3>2, <2>1, <1>3, <1>5
    <3>4. s.at \in Nat /\ s.len \in Nat \ {0}
      BY <2>1 DEF Spans
    <3> QED
      BY <3>3, <3>4, SliceBounds, Zenon
  <2>4. \A c \in Cells : InSpan(sp, c) => InSpan(s, c)
    BY <2>1, <1>2, <1>3, <1>5 DEF InSpan
  <2>5. \A c \in Cells : c \in at..(at + len - 1) => InSpan(s, c)
    BY <2>1, <1>2, <1>3, <1>5 DEF InSpan
  <2> QED
    BY <1>4, <1>5, <2>1, <2>2, <2>3, <2>4, <2>5 DEF new
<1>6. CASE n > 0 /\ ~(sp.at + sp.len = at) /\ at + len = sp.at
  <2> DEFINE s == [at |-> at, len |-> sp.len + len]
  <2>1. s \in Spans /\ s.at = at /\ s.len = sp.len + len
    BY <1>3, <1>6 DEF Spans
  <2>2. new = grown(s)
    <3>1. new = [wl EXCEPT !.spans[n] = [at |-> at, len |-> @.len + len]]
      BY <1>6, Zenon DEF DeviceWriteLogRecord, n, sp
    <3>2. new = [wl EXCEPT !.spans[n] = s]
      BY <3>1, <1>1 DEF sp
    <3> HIDE DEF s
    <3> DEFINE ss == [wl.spans EXCEPT ![n] = s]
    <3>5. new = [wl EXCEPT !.spans = ss]
      BY <3>2, <1>1
    <3> HIDE DEF ss, new
    <3>6. new = [spans |-> ss, overflowed |-> wl.overflowed]
      BY <3>5, <1>1
    <3> QED
      BY <3>6 DEF ss
  <2> HIDE DEF s, new
  <2>3. ram_slice(m, s.at, s.len)
    <3>1. sp.at + sp.len <= 3 \/ (m.fast /\ sp.at >= 4 /\ sp.at + sp.len <= 6)
      BY <1>3, <1>6, SliceBounds, Zenon
    <3>2. at + len <= 3 \/ (m.fast /\ at >= 4 /\ at + len <= 6)
      BY SliceBounds, Zenon
    <3>3. s.at + s.len <= 3 \/ (m.fast /\ s.at >= 4 /\ s.at + s.len <= 6)
      BY <3>1, <3>2, <2>1, <1>3, <1>6
    <3>4. s.at \in Nat /\ s.len \in Nat \ {0}
      BY <2>1 DEF Spans
    <3> QED
      BY <3>3, <3>4, SliceBounds, Zenon
  <2>4. \A c \in Cells : InSpan(sp, c) => InSpan(s, c)
    BY <2>1, <1>2, <1>3, <1>6 DEF InSpan
  <2>5. \A c \in Cells : c \in at..(at + len - 1) => InSpan(s, c)
    BY <2>1, <1>2, <1>3, <1>6 DEF InSpan
  <2> QED
    BY <1>4, <1>6, <2>1, <2>2, <2>3, <2>4, <2>5 DEF new
<1>7. CASE ~(n > 0 /\ sp.at + sp.len = at) /\ ~(n > 0 /\ at + len = sp.at)
  <2> DEFINE s == [at |-> at, len |-> len]
             ss == Append(wl.spans, s)
  <2>1. s \in Spans /\ s.at = at /\ s.len = len
    BY DEF Spans
  <2>2. new = IF n < LogCapacity THEN [wl EXCEPT !.spans = ss] ELSE [wl EXCEPT !.overflowed = TRUE]
    BY <1>7, <1>1 DEF DeviceWriteLogRecord, n, sp
  <2> HIDE DEF s, new
  <2>3. CASE n < LogCapacity
    <3>1. /\ ss \in Seq(Spans) /\ Len(ss) = n + 1 /\ ss[n + 1] = s
          /\ \A k \in 1..n : ss[k] = wl.spans[k]
      BY <2>1, <1>1 DEF n
    <3> HIDE DEF ss
    <3>2. new = [spans |-> ss, overflowed |-> wl.overflowed]
      BY <2>2, <2>3, <1>1
    <3>3. new.spans = ss /\ new.overflowed = wl.overflowed /\ new \in WriteLogs
      BY <3>1, <3>2, <1>1 DEF WriteLogs
    <3>4. Slices(m, new)
      <4>1. ASSUME NEW k \in 1..(n + 1) PROVE ram_slice(m, ss[k].at, ss[k].len)
        <5>1. CASE k = n + 1
          BY <5>1, <3>1, <2>1
        <5>2. CASE k # n + 1
          <6>1. k \in 1..n
            BY <5>2, <1>1 DEF n
          <6> QED
            BY <6>1, <3>1 DEF Slices, n
        <5> QED
          BY <5>1, <5>2
      <4> QED
        BY <4>1, <3>1, <3>3 DEF Slices
    <3>5. ASSUME NEW c \in Cells, Logged(wl, c) PROVE Logged(new, c)
      <4>1. PICK k \in 1..n : InSpan(wl.spans[k], c)
        BY <3>5 DEF Logged, n
      <4>2. InSpan(ss[k], c) /\ k \in 1..(n + 1)
        BY <4>1, <3>1, <1>1 DEF n
      <4> QED
        BY <4>2, <3>1, <3>3 DEF Logged
    <3>6. ASSUME NEW c \in Cells, c \in at..(at + len - 1) PROVE Logged(new, c)
      <4>1. InSpan(ss[n + 1], c) /\ n + 1 \in 1..(n + 1)
        BY <3>6, <3>1, <2>1, <1>1 DEF InSpan, n
      <4> QED
        BY <4>1, <3>1, <3>3 DEF Logged
    <3>7. wl.overflowed = FALSE \/ wl.overflowed = TRUE
      BY <1>1
    <3> QED
      BY <3>3, <3>4, <3>5, <3>6, <3>7 DEF LogsMore, new
  <2>4. CASE ~(n < LogCapacity)
    <3>1. new = [spans |-> wl.spans, overflowed |-> TRUE]
      BY <2>2, <2>4, <1>1
    <3>2. new \in WriteLogs /\ new.overflowed = TRUE /\ new.spans = wl.spans
      BY <3>1, <1>1 DEF WriteLogs
    <3> QED
      BY <3>2 DEF LogsMore, Slices, new
  <2> QED
    BY <2>3, <2>4
<1> QED
  BY <1>5, <1>6, <1>7

\* The RAM of base with the bytes that the spans of t's log cover changed.
DmaState(base, t) ==
    /\ t = [m |-> WithRam(base.m, t.m.ram), cpu |-> base.cpu, wl |-> t.wl, r |-> base.r, log |-> base.log]
    /\ t.m.ram \in Ram
    /\ t.wl \in WriteLogs /\ Slices(base.m, t.wl)
    /\ t.wl.overflowed \/ \A c \in Cells : t.m.ram[c] = base.m.ram[c] \/ Logged(t.wl, c)

LEMMA DmaStep ==
    ASSUME NEW base, NEW t, base.m \in LiveMachine, DmaState(base, t), NEW span \in Spans
    PROVE  DmaState(base, DeviceWrite(t, span))
<1> DEFINE new == DeviceWrite(t, span)
           cells == span.at..(span.at + span.len - 1)
           ram == [c \in Cells |-> IF c \in cells THEN 1 - t.m.ram[c] ELSE t.m.ram[c]]
           wl == DeviceWriteLogRecord(t.wl, span.at, span.len)
           shape == [m |-> WithRam(base.m, ram), cpu |-> base.cpu, wl |-> wl, r |-> base.r, log |-> base.log]
<1>1. /\ t = [m |-> WithRam(base.m, t.m.ram), cpu |-> base.cpu, wl |-> t.wl, r |-> base.r, log |-> base.log]
      /\ t.m.ram \in Ram /\ t.wl \in WriteLogs /\ Slices(base.m, t.wl)
      /\ t.wl.overflowed \/ \A c \in Cells : t.m.ram[c] = base.m.ram[c] \/ Logged(t.wl, c)
  BY DEF DmaState
<1>2. span.at \in Nat /\ span.len \in Nat \ {0}
  BY DEF Spans
<1>3. t.m = WithRam(base.m, t.m.ram)
  BY <1>1
<1>4. t.m.fast = base.m.fast
  BY <1>3 DEF WithRam
<1>5. CASE ~ram_slice(t.m, span.at, span.len)
  <2>1. new = t
    BY <1>5, Zenon DEF DeviceWrite
  <2> HIDE DEF new
  <2> QED
    BY <2>1, Zenon DEF new
<1>6. CASE ram_slice(t.m, span.at, span.len)
  <2>1. ram \in Ram
    <3>1. \A c \in Cells : t.m.ram[c] \in Val /\ 1 - t.m.ram[c] \in Val
      BY <1>1 DEF Ram, Val
    <3> QED
      BY <3>1 DEF Ram
  <2>2. LogsMore(base.m, t.wl, wl, span.at, span.len)
    <3>1. ram_slice(base.m, span.at, span.len)
      BY <1>4, <1>6, Zenon DEF ram_slice
    <3> QED
      BY <3>1, <1>1, <1>2, LogExtends, Zenon
  <2>3. new = shape
    <3>1. new = [t EXCEPT !.m.ram = ram, !.wl = wl]
      BY <1>1, <1>6 DEF DeviceWrite
    <3> HIDE DEF ram, wl
    <3> DEFINE m == WithRam(base.m, t.m.ram)
    <3>2. [m EXCEPT !.ram = ram] = WithRam(base.m, ram)
      BY DEF WithRam
    <3>3. [t EXCEPT !.m.ram = ram] = [t EXCEPT !.m = [m EXCEPT !.ram = ram]]
      BY <1>1
    <3>4. [t EXCEPT !.m.ram = ram] = [t EXCEPT !.m = WithRam(base.m, ram)]
      BY <3>2, <3>3, Zenon
    <3> DEFINE n == WithRam(base.m, ram)
               old == [t EXCEPT !.m.ram = ram]
    <3> HIDE DEF n
    <3>5. old = [m |-> n, cpu |-> base.cpu, wl |-> t.wl, r |-> base.r, log |-> base.log]
      BY <3>4, <1>1 DEF n
    <3>6. new = [old EXCEPT !.wl = wl]
      BY <3>1
    <3> HIDE DEF old, new
    <3>7. new = [m |-> n, cpu |-> base.cpu, wl |-> wl, r |-> base.r, log |-> base.log]
      BY <3>5, <3>6
    <3> QED
      BY <3>7 DEF n
  <2>4. new.m = WithRam(base.m, ram) /\ new.m.ram = ram /\ new.wl = wl
    <3> HIDE DEF ram, wl, new
    <3> QED
      BY <2>3 DEF WithRam
  <2>5. new = [m |-> WithRam(base.m, new.m.ram), cpu |-> base.cpu, wl |-> new.wl, r |-> base.r, log |-> base.log]
    <3> HIDE DEF ram, wl, new
    <3> QED
      BY <2>3, <2>4, Zenon
  <2>6. wl.overflowed \/ \A c \in Cells : ram[c] = base.m.ram[c] \/ Logged(wl, c)
    <3> SUFFICES ASSUME ~wl.overflowed, NEW c \in Cells, ~Logged(wl, c) PROVE ram[c] = base.m.ram[c]
      BY Zenon
    <3>1. ~t.wl.overflowed /\ ~Logged(t.wl, c) /\ c \notin cells
      <4> HIDE DEF wl
      <4> QED
        BY <2>2, Zenon DEF LogsMore
    <3>2. t.m.ram[c] = base.m.ram[c]
      BY <3>1, <1>1
    <3> HIDE DEF cells
    <3> QED
      BY <3>1, <3>2
  <2> HIDE DEF new, wl, ram
  <2>7. new.m.ram \in Ram /\ new.wl \in WriteLogs /\ Slices(base.m, new.wl)
    BY <2>1, <2>2, <2>4 DEF LogsMore
  <2> QED
    BY <2>4, <2>5, <2>6, <2>7 DEF DmaState, new
<1> QED
  BY <1>5, <1>6

BurstAfter(st, burst, k) ==
    CHOOSE f : f = [n \in 0 .. k |-> IF n = 0 THEN st ELSE DeviceWrite(f[n - 1], burst[n])]

LEMMA BurstExists ==
    ASSUME NEW st, NEW burst, NEW k \in Nat
    PROVE  LET f == BurstAfter(st, burst, k)
           IN  f = [n \in 0 .. k |-> IF n = 0 THEN st ELSE DeviceWrite(f[n - 1], burst[n])]
<1> DEFINE Is(f, j) == f = [n \in 0 .. j |-> IF n = 0 THEN st ELSE DeviceWrite(f[n - 1], burst[n])]
           S == {j \in Nat : \E f : Is(f, j)}
<1>1. 0 \in S
  <2> DEFINE f == [n \in 0 .. 0 |-> st]
  <2>1. Is(f, 0)
    OBVIOUS
  <2> QED
    BY <2>1
<1>2. ASSUME NEW j \in Nat, j \in S PROVE j + 1 \in S
  <2>1. PICK f : Is(f, j)
    BY <1>2
  <2> DEFINE g == [n \in 0 .. j + 1 |-> IF n = j + 1 THEN DeviceWrite(f[j], burst[j + 1]) ELSE f[n]]
             h == [n \in 0 .. j + 1 |-> IF n = 0 THEN st ELSE DeviceWrite(g[n - 1], burst[n])]
  <2>2. ASSUME NEW n \in 0 .. j + 1 PROVE g[n] = h[n]
    <3>1. CASE n = 0
      BY <3>1, <2>1
    <3>2. CASE n = j + 1
      <4>1. g[n - 1] = f[j]
        BY <3>2
      <4> QED
        BY <3>2, <4>1
    <3>3. CASE n # 0 /\ n # j + 1
      <4>1. n - 1 \in 0 .. j + 1 /\ n - 1 # j + 1 /\ n \in 0 .. j
        BY <3>3
      <4>2. g[n - 1] = f[n - 1]
        BY <4>1
      <4>3. f[n] = DeviceWrite(f[n - 1], burst[n])
        BY <4>1, <3>3, <2>1
      <4> QED
        BY <3>3, <4>2, <4>3
    <3> QED
      BY <3>1, <3>2, <3>3
  <2>3. Is(g, j + 1)
    <3>1. g = h
      <4>1. h = [n \in 0 .. j + 1 |-> h[n]]
        OBVIOUS
      <4>2. g = [n \in 0 .. j + 1 |-> g[n]]
        OBVIOUS
      <4> HIDE DEF g, h
      <4> QED
        BY <4>1, <4>2, <2>2
    <3> QED
      BY <3>1
  <2> HIDE DEF g
  <2>4. \E e : Is(e, j + 1)
    BY <2>3, Zenon
  <2>5. j + 1 \in Nat
    OBVIOUS
  <2> QED
    BY <2>4, <2>5, Zenon
<1>3. k \in S
  <2> HIDE DEF S
  <2> QED
    BY <1>1, <1>2, AllNumbers
<1> QED
  BY <1>3, Zenon DEF BurstAfter

TimePassed(m, ram, reg, level) ==
    [overlay |-> m.overlay, fast |-> m.fast, ram |-> ram, dev |-> reg, level |-> level]

LEMMA Ticks ==
    ASSUME NEW st, RecShape(st), st.m \in LiveMachine, st.wl = EmptyWriteLog,
           NEW burst \in Seq(Spans), NEW reg \in Val, NEW level \in 0..1
    PROVE  \E t : /\ DmaState(st, t)
                  /\ Tick(st, burst, reg, level) =
                       [m |-> TimePassed(st.m, t.m.ram, reg, level), cpu |-> st.cpu, wl |-> t.wl,
                        r |-> st.r, log |-> st.log]
<1> DEFINE N == Len(burst)
           f == BurstAfter(st, burst, N)
           t == f[N]
           S == {k \in Nat : k <= N => DmaState(st, f[k])}
<1>1. N \in Nat /\ \A k \in 1..N : burst[k] \in Spans
  OBVIOUS
<1>2. f = [n \in 0 .. N |-> IF n = 0 THEN st ELSE DeviceWrite(f[n - 1], burst[n])]
  <2>1. N \in Nat
    OBVIOUS
  <2> HIDE DEF N
  <2> QED
    BY <2>1, BurstExists
<1> HIDE DEF f, N
<1>3. f[0] = st /\ \A k \in 0..N : k # 0 => f[k] = DeviceWrite(f[k - 1], burst[k])
  <2>1. 0 \in 0..N
    BY <1>1
  <2> QED
    BY <1>2, <2>1
<1>4. DmaState(st, st)
  <2>1. st.m.ram \in Ram /\ st.m = WithRam(st.m, st.m.ram)
    BY DEF LiveMachine, WithRam
  <2>2. st = [m |-> WithRam(st.m, st.m.ram), cpu |-> st.cpu, wl |-> st.wl, r |-> st.r, log |-> st.log]
    BY <2>1, Zenon DEF RecShape
  <2>3. st.wl \in WriteLogs /\ Len(st.wl.spans) = 0
    BY DEF EmptyWriteLog, WriteLogs
  <2>4. Slices(st.m, st.wl)
    BY <2>3 DEF Slices
  <2> QED
    BY <2>1, <2>2, <2>3, <2>4, Zenon DEF DmaState
<1>5. 0 \in S
  BY <1>3, <1>4
<1>6. ASSUME NEW k \in Nat, k \in S PROVE k + 1 \in S
  <2> SUFFICES ASSUME k + 1 <= N PROVE DmaState(st, f[k + 1])
    OBVIOUS
  <2>1. k <= N /\ k + 1 \in 0..N /\ k + 1 # 0 /\ (k + 1) - 1 = k /\ k + 1 \in 1..N
    BY <1>1
  <2>2. DmaState(st, f[k])
    BY <1>6, <2>1
  <2>3. f[k + 1] = DeviceWrite(f[k], burst[k + 1])
    BY <1>3, <2>1
  <2>4. DmaState(st, DeviceWrite(f[k], burst[k + 1]))
    BY <1>1, <2>1, <2>2, DmaStep, Zenon
  <2> QED
    BY <2>3, <2>4, Zenon
<1>7. DmaState(st, t)
  <2>1. \A k \in Nat : k \in S
    <3> HIDE DEF S
    <3> QED
      BY <1>5, <1>6, AllNumbers
  <2> QED
    BY <2>1, <1>1
<1>8. Tick(st, burst, reg, level) = [t EXCEPT !.m.dev = reg, !.m.level = level]
  BY Zenon DEF Tick, f, N, BurstAfter
<1> DEFINE passed == Tick(st, burst, reg, level)
           m == TimePassed(st.m, t.m.ram, reg, level)
           wr == WithRam(st.m, t.m.ram)
<1>9. t = [m |-> wr, cpu |-> st.cpu, wl |-> t.wl, r |-> st.r, log |-> st.log]
  BY <1>7 DEF DmaState
<1>10. passed = [m |-> m, cpu |-> st.cpu, wl |-> t.wl, r |-> st.r, log |-> st.log]
  <2> HIDE DEF t
  <2> DEFINE wr1 == [overlay |-> st.m.overlay, fast |-> st.m.fast, ram |-> t.m.ram, dev |-> reg, level |-> st.m.level]
             t1 == [t EXCEPT !.m.dev = reg]
             x == t.wl
  <2>1. [wr EXCEPT !.dev = reg] = wr1
    BY DEF WithRam
  <2>2. [wr1 EXCEPT !.level = level] = m
    BY DEF TimePassed
  <2> HIDE DEF wr1, wr, m, x
  <2>3. t1 = [m |-> wr1, cpu |-> st.cpu, wl |-> x, r |-> st.r, log |-> st.log]
    <3>1. t = [m |-> wr, cpu |-> st.cpu, wl |-> x, r |-> st.r, log |-> st.log]
      BY <1>9 DEF x
    <3>2. t1 = [t EXCEPT !.m = [wr EXCEPT !.dev = reg]]
      BY <3>1
    <3>3. t1 = [t EXCEPT !.m = wr1]
      BY <2>1, <3>2, Zenon
    <3> HIDE DEF t1
    <3> QED
      BY <3>1, <3>3
  <2>4. passed = [t1 EXCEPT !.m.level = level]
    BY <1>8
  <2> HIDE DEF t1, passed
  <2>5. passed = [t1 EXCEPT !.m = [wr1 EXCEPT !.level = level]]
    BY <2>3, <2>4
  <2>6. passed = [t1 EXCEPT !.m = m]
    BY <2>2, <2>5, Zenon
  <2> QED
    BY <2>3, <2>6 DEF x
<1> HIDE DEF t, passed
<1> QED
  BY <1>7, <1>10, Zenon DEF passed

-----------------------------------------------------------------------------
(* What the hook of the recording appends to the log.                      *)

\* Events of one hook, all of which the machine and the CPU bear out.
Fits(d, ordinal, m, cpu) ==
    /\ IsList(d)
    /\ \A k \in 1..Len(d) : d[k].ordinal = ordinal /\ Holds(d[k], m, cpu)
NoEnd(d) == \A k \in 1..Len(d) : d[k].tag # "End"

LEMMA FitsJoined ==
    ASSUME NEW d, NEW e, NEW o, NEW m, NEW cpu, Fits(d, o, m, cpu), Fits(e, o, m, cpu)
    PROVE  /\ Fits(d \o e, o, m, cpu)
           /\ NoEnd(d) /\ NoEnd(e) => NoEnd(d \o e)
           /\ \A tag : Tagged(d, tag) \/ Tagged(e, tag) => Tagged(d \o e, tag)
           /\ \A c : (\E k \in 1..Len(d) : Covered(d[k], c)) \/ (\E k \in 1..Len(e) : Covered(e[k], c))
                       => \E k \in 1..Len(d \o e) : Covered((d \o e)[k], c)
<1> DEFINE f == d \o e
<1>1. IsList(d) /\ IsList(e) /\ Len(d) \in Nat /\ Len(e) \in Nat
  BY DEF Fits, IsList
<1>2. /\ IsList(f) /\ Len(f) = Len(d) + Len(e)
      /\ \A k \in 1..Len(d) : f[k] = d[k]
      /\ \A k \in 1..Len(e) : f[Len(d) + k] = e[k]
  BY <1>1, ListsJoined
<1> HIDE DEF f
<1>3. \A k \in 1..Len(f) : (k \in 1..Len(d) /\ f[k] = d[k]) \/ (k - Len(d) \in 1..Len(e) /\ f[k] = e[k - Len(d)])
  <2> TAKE k \in 1..Len(f)
  <2>1. CASE k <= Len(d)
    BY <2>1, <1>1, <1>2
  <2>2. CASE ~(k <= Len(d))
    <3>1. k - Len(d) \in 1..Len(e) /\ Len(d) + (k - Len(d)) = k
      BY <2>2, <1>1, <1>2
    <3>2. f[Len(d) + (k - Len(d))] = e[k - Len(d)]
      BY <3>1, <1>2
    <3> QED
      BY <3>1, <3>2
  <2> QED
    BY <2>1, <2>2
<1>4. \A k \in 1..Len(e) : Len(d) + k \in 1..Len(f)
  BY <1>1, <1>2
<1>5. \A k \in 1..Len(d) : k \in 1..Len(f)
  BY <1>1, <1>2
<1>6. Fits(f, o, m, cpu)
  BY <1>2, <1>3, SMTT(30) DEF Fits
<1>7. NoEnd(d) /\ NoEnd(e) => NoEnd(f)
  BY <1>3 DEF NoEnd
<1>8. ASSUME NEW tag, Tagged(d, tag) \/ Tagged(e, tag) PROVE Tagged(f, tag)
  BY <1>8, <1>2, <1>4, <1>5 DEF Tagged
<1>9. ASSUME NEW c, (\E k \in 1..Len(d) : Covered(d[k], c)) \/ (\E k \in 1..Len(e) : Covered(e[k], c))
      PROVE  \E k \in 1..Len(f) : Covered(f[k], c)
  <2>1. CASE \E k \in 1..Len(d) : Covered(d[k], c)
    <3>1. PICK k \in 1..Len(d) : Covered(d[k], c)
      BY <2>1
    <3> QED
      BY <3>1, <1>2, <1>5
  <2>2. CASE \E k \in 1..Len(e) : Covered(e[k], c)
    <3>1. PICK k \in 1..Len(e) : Covered(e[k], c)
      BY <2>2
    <3> QED
      BY <3>1, <1>2, <1>4
  <2> QED
    BY <1>9, <2>1, <2>2
<1> QED
  BY <1>6, <1>7, <1>8, <1>9 DEF f

LEMMA FitsOne ==
    ASSUME NEW e, NEW o, NEW m, NEW cpu, e.ordinal = o, Holds(e, m, cpu)
    PROVE  Fits(<<e>>, o, m, cpu) /\ Tagged(<<e>>, e.tag) /\ Fits(<<>>, o, m, cpu)
           /\ (e.tag # "End" => NoEnd(<<e>>)) /\ NoEnd(<<>>)
<1>1. IsList(<<>>) /\ IsList(<<e>>) /\ Len(<<e>>) = 1 /\ <<e>>[1] = e
  BY NothingIsAList, ShortLists, Zenon
<1>2. Len(<<>>) = 0
  OBVIOUS
<1> DEFINE d == <<e>>
<1> HIDE DEF d
<1>3. Fits(d, o, m, cpu) /\ Tagged(d, e.tag) /\ (e.tag # "End" => NoEnd(d))
  <2>1. \A k \in 1..Len(d) : d[k] = e
    BY <1>1 DEF d
  <2> QED
    BY <1>1, <2>1 DEF d, Fits, Tagged, NoEnd
<1>4. Fits(<<>>, o, m, cpu) /\ NoEnd(<<>>)
  BY <1>1, <1>2 DEF Fits, NoEnd
<1> QED
  BY <1>3, <1>4 DEF d

\* The device writes that the log of spans has become.
Writes(st) ==
    [k \in 1..Len(st.wl.spans) |->
        Event(st, "DeviceWrite",
              [addr |-> st.wl.spans[k].at,
               bytes |-> [j \in 1..st.wl.spans[k].len |-> st.m.ram[st.wl.spans[k].at + j - 1]]])]

LEMMA WritesFit ==
    ASSUME NEW st, NEW cpu, st.wl \in WriteLogs, Slices(st.m, st.wl)
    PROVE  /\ Fits(Writes(st), st.r.ordinal, st.m, cpu) /\ NoEnd(Writes(st))
           /\ \A c : Logged(st.wl, c) => \E k \in 1..Len(Writes(st)) : Covered(Writes(st)[k], c)
<1> DEFINE n == Len(st.wl.spans)
           d == Writes(st)
           bytes(s) == [j \in 1..s.len |-> st.m.ram[s.at + j - 1]]
<1>1. n \in Nat /\ \A k \in 1..n : st.wl.spans[k] \in Spans
  BY DEF WriteLogs
<1>2. ASSUME NEW k \in 1..n
      PROVE  LET s == st.wl.spans[k]
             IN  /\ d[k].tag = "DeviceWrite" /\ d[k].ordinal = st.r.ordinal
                 /\ d[k].body.addr = s.at /\ d[k].body.bytes = bytes(s)
  <2> DEFINE s == st.wl.spans[k]
             b == bytes(s)
  <2>1. d[k] = Event(st, "DeviceWrite", [addr |-> s.at, bytes |-> b])
    BY DEF Writes
  <2> HIDE DEF d, b
  <2>2. d[k] = [tag |-> "DeviceWrite", ordinal |-> st.r.ordinal, body |-> [addr |-> s.at, bytes |-> b]]
    BY <2>1, Zenon DEF Event
  <2> HIDE DEF s
  <2>3. d[k].tag = "DeviceWrite" /\ d[k].ordinal = st.r.ordinal /\ d[k].body.addr = s.at /\ d[k].body.bytes = b
    BY <2>2
  <2> QED
    BY <2>3, Zenon DEF b, s
<1>3. Len(d) = n /\ IsList(d)
  <2> HIDE DEF n
  <2>1. d = [k \in 1..n |-> d[k]]
    BY DEF Writes, n
  <2> HIDE DEF d
  <2> DEFINE D == {d[k] : k \in 1..n}
  <2>2. d \in Seq(D) /\ Len(d) = n
    BY <1>1, <2>1
  <2> HIDE DEF D
  <2> QED
    BY <2>2, SeqIsList, Zenon
<1> HIDE DEF n, d
<1>4. ASSUME NEW k \in 1..n
      PROVE  /\ Holds(d[k], st.m, cpu) /\ d[k].ordinal = st.r.ordinal /\ d[k].tag # "End"
             /\ \A c : InSpan(st.wl.spans[k], c) => Covered(d[k], c)
  <2> DEFINE s == st.wl.spans[k]
             b == bytes(s)
  <2>1. s.at \in Nat /\ s.len \in Nat \ {0} /\ ram_slice(st.m, s.at, s.len)
    BY <1>1 DEF Spans, Slices, n
  <2>2. Len(b) = s.len /\ \A j \in 1..s.len : b[j] = st.m.ram[s.at + j - 1]
    <3> HIDE DEF s
    <3> QED
      BY <2>1, SMTT(30)
  <2>3. d[k].tag = "DeviceWrite" /\ d[k].ordinal = st.r.ordinal /\ d[k].body.addr = s.at /\ d[k].body.bytes = b
    BY <1>2
  <2> HIDE DEF s, b
  <2>4. Holds(d[k], st.m, cpu)
    BY <2>1, <2>2, <2>3 DEF Holds
  <2>5. \A c : InSpan(s, c) => Covered(d[k], c)
    BY <2>1, <2>2, <2>3 DEF InSpan, Covered
  <2> QED
    BY <2>3, <2>4, <2>5 DEF s
<1>5. Fits(d, st.r.ordinal, st.m, cpu) /\ NoEnd(d)
  BY <1>3, <1>4 DEF Fits, NoEnd
<1>6. ASSUME NEW c, Logged(st.wl, c) PROVE \E k \in 1..Len(d) : Covered(d[k], c)
  <2>1. PICK k \in 1..n : InSpan(st.wl.spans[k], c)
    BY <1>6 DEF Logged, n
  <2> QED
    BY <2>1, <1>3, <1>4
<1> QED
  BY <1>5, <1>6 DEF d

State(m, cpu, wl, r, l) == [m |-> m, cpu |-> cpu, wl |-> wl, r |-> r, log |-> l]
WithIrq(cpu, level) == [acc |-> cpu.acc, irq |-> level, stopped |-> cpu.stopped]

StatePut(m, cpu, wl, r, l, e) ==
    Put(State(m, cpu, wl, r, l), e) = State(m, cpu, wl, r, l \o <<e>>) /\ IsList(l \o <<e>>)

LEMMA StatePuts ==
    ASSUME NEW m, NEW cpu, NEW wl, NEW r, NEW l, IsList(l), NEW e
    PROVE  StatePut(m, cpu, wl, r, l, e)
<1> DEFINE st == State(m, cpu, wl, r, l)
<1>1. st.m = m /\ st.cpu = cpu /\ st.wl = wl /\ st.r = r /\ st.log = l
  BY DEF State
<1>2. st = [m |-> st.m, cpu |-> st.cpu, wl |-> st.wl, r |-> st.r, log |-> st.log]
  BY DEF State
<1> HIDE DEF st
<1>3. RecShape(st)
  BY <1>1, <1>2 DEF RecShape
<1>4. /\ Put(st, e) = [m |-> st.m, cpu |-> st.cpu, wl |-> st.wl, r |-> st.r, log |-> st.log \o <<e>>]
      /\ IsList(st.log \o <<e>>)
  BY <1>3, Puts, Zenon
<1> QED
  BY <1>1, <1>4 DEF State, st, StatePut

\* What a hook does: h is st after it, with d appended to the log.
Hooked(st, h, d, level) ==
    /\ h = State(h.m, WithIrq(st.cpu, level), h.wl,
                 [ordinal |-> st.r.ordinal + 1, last_ipl |-> level, table |-> st.r.table], st.log \o d)
    /\ h.m \in LiveMachine /\ h.m.level = level
    /\ h.m.overlay = st.m.overlay /\ h.m.fast = st.m.fast
    /\ Fits(d, st.r.ordinal + 1, h.m, h.cpu) /\ NoEnd(d)
    /\ h.wl.overflowed \/ h.wl = EmptyWriteLog
    /\ h.wl.overflowed \/ \A c \in Cells : st.m.ram[c] = h.m.ram[c] \/ \E k \in 1..Len(d) : Covered(d[k], c)
    /\ st.m.level = level \/ Tagged(d, "IplChange")

LEMMA Hooks ==
    ASSUME NEW st, RecState(st), st.wl = EmptyWriteLog, st.r.last_ipl = st.m.level,
           NEW burst \in Seq(Spans), NEW reg \in Val, NEW level \in 0..1
    PROVE  \E d : Hooked(st, Hook(st, burst, reg, level), d, level)
<1> DEFINE r1 == [ordinal |-> st.r.ordinal + 1, last_ipl |-> st.r.last_ipl, table |-> st.r.table]
           r2 == [ordinal |-> st.r.ordinal + 1, last_ipl |-> level, table |-> st.r.table]
           cpu == WithIrq(st.cpu, level)
           adv == State(st.m, st.cpu, st.wl, r1, st.log)
           o == st.r.ordinal + 1
<1>1. /\ st = State(st.m, st.cpu, st.wl, st.r, st.log)
      /\ st.m \in LiveMachine /\ st.cpu \in Cpus /\ st.r \in Recorders /\ IsList(st.log)
  BY DEF RecState, RecShape, State
<1>2. AdvanceOrdinal(st) = adv
  <2>1. [st.r EXCEPT !.ordinal = @ + 1] = r1
    BY <1>1 DEF Recorders
  <2>2. AdvanceOrdinal(st) = [st EXCEPT !.r = [st.r EXCEPT !.ordinal = @ + 1]]
    BY <1>1 DEF AdvanceOrdinal, State
  <2>3. AdvanceOrdinal(st) = [st EXCEPT !.r = r1]
    BY <2>1, <2>2, Zenon
  <2> HIDE DEF r1
  <2> QED
    BY <2>3, <1>1 DEF State
<1>3. PICK t : /\ DmaState(adv, t)
               /\ Tick(adv, burst, reg, level) =
                    [m |-> TimePassed(adv.m, t.m.ram, reg, level), cpu |-> adv.cpu, wl |-> t.wl,
                     r |-> adv.r, log |-> adv.log]
  <2>1. adv.m = st.m /\ adv.wl = st.wl /\ adv.log = st.log
    BY DEF State
  <2>2. RecShape(adv)
    <3> HIDE DEF r1
    <3> QED
      BY <1>1 DEF RecShape, State
  <2> HIDE DEF adv
  <2> QED
    BY <1>1, <2>1, <2>2, Ticks
<1> DEFINE m == TimePassed(st.m, t.m.ram, reg, level)
           none == [spans |-> <<>>, overflowed |-> t.wl.overflowed]
<1>4. /\ adv.m = st.m /\ adv.cpu = st.cpu /\ adv.r = r1 /\ adv.log = st.log
  <2> HIDE DEF r1
  <2> QED
    BY DEF State
<1>5. Tick(adv, burst, reg, level) = State(m, st.cpu, t.wl, r1, st.log)
  <2> HIDE DEF adv, r1
  <2> QED
    BY <1>3, <1>4, Zenon DEF State
<1>6. /\ m \in LiveMachine /\ m.level = level /\ m.overlay = st.m.overlay /\ m.fast = st.m.fast
      /\ m.ram = t.m.ram
  <2>1. t.m.ram \in Ram
    BY <1>3, Zenon DEF DmaState
  <2> QED
    BY <2>1, <1>1 DEF TimePassed, LiveMachine
<1>7. /\ t.wl \in WriteLogs /\ Slices(m, t.wl)
      /\ t.wl.overflowed \/ \A c \in Cells : m.ram[c] = st.m.ram[c] \/ Logged(t.wl, c)
  <2>1. /\ t.wl \in WriteLogs /\ Slices(st.m, t.wl)
        /\ t.wl.overflowed \/ \A c \in Cells : t.m.ram[c] = st.m.ram[c] \/ Logged(t.wl, c)
    <3> HIDE DEF adv
    <3> QED
      BY <1>3, <1>4, Zenon DEF DmaState
  <2> HIDE DEF m
  <2> QED
    BY <1>6, <2>1 DEF Slices, ram_slice
<1> HIDE DEF adv, m
<1> DEFINE s1 == State(m, cpu, t.wl, r1, st.log)
           ipl == IF level = st.m.level THEN <<>> ELSE <<Event(s1, "IplChange", [level |-> level])>>
           s2 == State(m, cpu, t.wl, r2, st.log \o ipl)
           dws == Writes(s2)
           s3 == State(m, cpu, none, r2, (st.log \o ipl) \o dws)
           ck == IF CheckpointInterval = 0 \/ o % CheckpointInterval # 0 THEN <<>>
                 ELSE <<Event(s3, "Checkpoint", [regs |-> RegsOf(cpu)])>>
           s4 == State(m, cpu, none, r2, ((st.log \o ipl) \o dws) \o ck)
           ticked == Tick(AdvanceOrdinal(st), burst, reg, level)
<1>8. [ticked EXCEPT !.cpu = SetIrq(@, level)] = s1
  <2>1. ticked = State(m, st.cpu, t.wl, r1, st.log)
    BY <1>2, <1>5, Zenon
  <2>2. SetIrq(st.cpu, level) = cpu
    BY <1>1 DEF SetIrq, Cpus, WithIrq
  <2> HIDE DEF ticked, cpu, r1
  <2> QED
    BY <2>1, <2>2 DEF State
<1>9. Hook(st, burst, reg, level) = maybe_checkpoint(log_device_writes(log_ipl_if_changed(s1)))
  <2> HIDE DEF s1, ticked
  <2> QED
    BY <1>8, Zenon DEF Hook, ticked
<1>10. log_ipl_if_changed(s1) = s2 /\ IsList(st.log \o ipl) /\ Fits(ipl, o, m, cpu) /\ NoEnd(ipl)
       /\ (st.m.level = level \/ Tagged(ipl, "IplChange"))
  <2> DEFINE e == Event(s1, "IplChange", [level |-> level])
  <2>1. s1.m = m /\ s1.r = r1 /\ s1.cpu = cpu /\ s1.wl = t.wl /\ s1.log = st.log
    <3> HIDE DEF r1, cpu
    <3> QED
      BY DEF State
  <2>2. e.tag = "IplChange" /\ e.ordinal = o /\ Holds(e, m, cpu)
    <3>1. e = [tag |-> "IplChange", ordinal |-> o, body |-> [level |-> level]]
      <4> HIDE DEF s1
      <4> QED
        BY <2>1 DEF Event
    <3> HIDE DEF e
    <3> QED
      BY <3>1, <1>6 DEF Holds
  <2>3. Fits(<<e>>, o, m, cpu) /\ Tagged(<<e>>, "IplChange") /\ Fits(<<>>, o, m, cpu) /\ NoEnd(<<e>>) /\ NoEnd(<<>>)
    <3> HIDE DEF e, o, cpu
    <3> QED
      BY <2>2, FitsOne
  <2>4. CASE level = st.m.level
    <3>1. ipl = <<>> /\ r2 = r1 /\ st.log \o <<>> = st.log
      BY <2>4, <1>1, ShortLists
    <3>2. s2 = s1
      <4> HIDE DEF r1, r2, cpu, ipl
      <4> QED
        BY <3>1
    <3>3. log_ipl_if_changed(s1) = s1
      <4>1. s1.m.level = s1.r.last_ipl
        BY <2>1, <2>4, <1>6
      <4> HIDE DEF s1
      <4> QED
        BY <4>1, Zenon DEF log_ipl_if_changed
    <3>4. IsList(st.log \o ipl)
      BY <3>1, <1>1
    <3> HIDE DEF s1, s2, ipl
    <3> QED
      BY <3>1, <3>2, <3>3, <3>4, <2>3, <2>4
  <2>5. CASE level # st.m.level
    <3>1. ipl = <<e>>
      BY <2>5, Zenon
    <3> DEFINE u == [s1 EXCEPT !.r.last_ipl = level]
    <3>2. u = State(m, cpu, t.wl, r2, st.log)
      <4>1. [r1 EXCEPT !.last_ipl = level] = r2
        OBVIOUS
      <4>2. u = [s1 EXCEPT !.r = [r1 EXCEPT !.last_ipl = level]]
        <5> HIDE DEF r1, cpu
        <5> QED
          BY DEF State
      <4>3. u = [s1 EXCEPT !.r = r2]
        BY <4>1, <4>2, Zenon
      <4> HIDE DEF u, r1, r2, cpu
      <4> QED
        BY <4>3 DEF State
    <3>3. log_ipl_if_changed(s1) = Put(u, e)
      <4>1. s1.m.level # s1.r.last_ipl /\ s1.m.level = level
        BY <2>1, <2>5, <1>6
      <4> HIDE DEF s1
      <4> QED
        BY <4>1, Zenon DEF log_ipl_if_changed
    <3>4. Put(u, e) = s2 /\ IsList(st.log \o ipl)
      <4> HIDE DEF e, r2, cpu, u, ipl
      <4> QED
        <5>1. /\ Put(State(m, cpu, t.wl, r2, st.log), e) = State(m, cpu, t.wl, r2, st.log \o <<e>>)
              /\ IsList(st.log \o <<e>>)
          <6>1. StatePut(m, cpu, t.wl, r2, st.log, e)
            BY <1>1, StatePuts, Zenon
          <6> QED
            BY <6>1, Zenon DEF StatePut
        <5> QED
          BY <3>1, <3>2, <5>1, Zenon
    <3> HIDE DEF s1, s2, ipl, u, e
    <3> QED
      BY <3>1, <3>3, <3>4, <2>3
  <2> QED
    BY <2>4, <2>5, Zenon
<1> HIDE DEF ipl
<1>11. log_device_writes(s2) = s3 /\ IsList((st.log \o ipl) \o dws) /\ Fits(dws, o, m, cpu) /\ NoEnd(dws)
       /\ \A c : Logged(t.wl, c) => \E k \in 1..Len(dws) : Covered(dws[k], c)
  <2>1. s2.m = m /\ s2.r = r2 /\ s2.cpu = cpu /\ s2.wl = t.wl /\ s2.log = st.log \o ipl /\ r2.ordinal = o
    <3>1. r2.ordinal = o
      OBVIOUS
    <3> DEFINE l == st.log \o ipl
    <3> HIDE DEF r2, cpu, l
    <3> QED
      BY <3>1 DEF State
  <2>2. /\ Fits(dws, o, m, cpu) /\ NoEnd(dws)
        /\ \A c : Logged(t.wl, c) => \E k \in 1..Len(dws) : Covered(dws[k], c)
    <3> HIDE DEF s2, cpu, r2, o
    <3>1. /\ Fits(Writes(s2), s2.r.ordinal, s2.m, cpu) /\ NoEnd(Writes(s2))
          /\ \A c : Logged(s2.wl, c) => \E k \in 1..Len(Writes(s2)) : Covered(Writes(s2)[k], c)
      BY <2>1, <1>7, WritesFit
    <3> QED
      BY <3>1, <2>1
  <2>3. IsList((st.log \o ipl) \o dws)
    <3>1. IsList(dws)
      <4> HIDE DEF dws, o
      <4> QED
        BY <2>2, Zenon DEF Fits
    <3> HIDE DEF dws
    <3> QED
      BY <3>1, <1>10, ListsJoined, Zenon
  <2>4. log_device_writes(s2) = [s2 EXCEPT !.log = s2.log \o dws, !.wl.spans = <<>>]
    <3> HIDE DEF s2
    <3>1. DOMAIN s2.wl.spans = 1..Len(s2.wl.spans)
      BY <2>1, <1>7 DEF WriteLogs
    <3> DEFINE x == [k \in DOMAIN s2.wl.spans |->
                       Event(s2, "DeviceWrite",
                             [addr |-> s2.wl.spans[k].at,
                              bytes |-> [j \in 1..s2.wl.spans[k].len |-> s2.m.ram[s2.wl.spans[k].at + j - 1]]])]
    <3>2. x = dws
      BY <3>1, Zenon DEF Writes
    <3>3. log_device_writes(s2) = [s2 EXCEPT !.log = @ \o x, !.wl.spans = <<>>]
      BY Zenon DEF log_device_writes
    <3> HIDE DEF x, dws
    <3>4. s2 = [m |-> m, cpu |-> cpu, wl |-> t.wl, r |-> r2, log |-> s2.log]
      <4> HIDE DEF cpu, r2
      <4> QED
        BY <2>1 DEF s2, State
    <3> QED
      BY <3>2, <3>3, <3>4
  <2> DEFINE l == s2.log \o dws
             s2a == [s2 EXCEPT !.log = l]
  <2>5. [t.wl EXCEPT !.spans = <<>>] = none
    BY <1>7 DEF WriteLogs
  <2>6. s2a = State(m, cpu, t.wl, r2, l)
    <3> DEFINE x == st.log \o ipl
    <3> HIDE DEF l, cpu, r2, x
    <3> QED
      BY DEF State
  <2>7. log_device_writes(s2) = [s2a EXCEPT !.wl.spans = <<>>]
    BY <2>4, Zenon
  <2> HIDE DEF s2a, l
  <2>8. log_device_writes(s2) = [s2a EXCEPT !.wl = [t.wl EXCEPT !.spans = <<>>]]
    <3> HIDE DEF cpu, r2, s2, none
    <3> QED
      BY <2>6, <2>7 DEF State
  <2>9. log_device_writes(s2) = [s2a EXCEPT !.wl = none]
    BY <2>5, <2>8, Zenon
  <2>10. log_device_writes(s2) = State(m, cpu, none, r2, l)
    <3> HIDE DEF cpu, r2, s2, none
    <3> QED
      BY <2>6, <2>9 DEF State
  <2> HIDE DEF s2, s3
  <2> QED
    BY <2>1, <2>2, <2>3, <2>10, Zenon DEF l, s3
<1> HIDE DEF dws
<1>12. maybe_checkpoint(s3) = s4 /\ Fits(ck, o, m, cpu) /\ NoEnd(ck) /\ IsList(ck)
  <2> DEFINE e == Event(s3, "Checkpoint", [regs |-> RegsOf(cpu)])
             l == (st.log \o ipl) \o dws
  <2>1. s3.m = m /\ s3.r = r2 /\ s3.cpu = cpu /\ s3.wl = none /\ s3.log = l /\ r2.ordinal = o
    <3>1. r2.ordinal = o
      OBVIOUS
    <3>2. s3 = State(m, cpu, none, r2, l)
      OBVIOUS
    <3> HIDE DEF r2, cpu, none, l, s3
    <3> QED
      BY <3>1, <3>2 DEF State
  <2>2. e.tag = "Checkpoint" /\ e.ordinal = o /\ Holds(e, m, cpu)
    <3> DEFINE g == RegsOf(cpu)
    <3> HIDE DEF g
    <3>1. e = [tag |-> "Checkpoint", ordinal |-> o, body |-> [regs |-> g]]
      <4> HIDE DEF s3
      <4> QED
        BY <2>1 DEF Event, g
    <3> HIDE DEF e, cpu
    <3> QED
      BY <3>1 DEF Holds, g
  <2>3. Fits(<<e>>, o, m, cpu) /\ Fits(<<>>, o, m, cpu) /\ NoEnd(<<e>>) /\ NoEnd(<<>>)
    <3> HIDE DEF e, o, cpu
    <3> QED
      BY <2>2, FitsOne
  <2> HIDE DEF l
  <2>4. CASE CheckpointInterval = 0 \/ o % CheckpointInterval # 0
    <3>1. ck = <<>>
      BY <2>4, Zenon
    <3>2. maybe_checkpoint(s3) = s3
      <4>1. s3.r.ordinal = o
        BY <2>1
      <4> HIDE DEF s3, o
      <4> QED
        BY <4>1, <2>4, Zenon DEF maybe_checkpoint
    <3>3. l \o <<>> = l
      BY <1>11, ShortLists, Zenon DEF l
    <3>4. s4 = s3
      <4> HIDE DEF ck, r2, cpu, none
      <4> QED
        BY <3>1, <3>3 DEF l
    <3> HIDE DEF s3, s4, ck, o
    <3> QED
      BY <3>1, <3>2, <3>4, <2>3, NothingIsAList, Zenon
  <2>5. CASE ~(CheckpointInterval = 0 \/ o % CheckpointInterval # 0)
    <3>1. ck = <<e>>
      BY <2>5, Zenon
    <3>2. maybe_checkpoint(s3) = Put(s3, e)
      <4>1. s3.r.ordinal = o /\ s3.cpu = cpu
        BY <2>1
      <4> HIDE DEF s3, o, cpu
      <4> QED
        BY <4>1, <2>5, Zenon DEF maybe_checkpoint
    <3>3. Put(s3, e) = State(m, cpu, none, r2, l \o <<e>>)
      <4>1. IsList(l)
        BY <1>11, Zenon DEF l
      <4>2. s3 = State(m, cpu, none, r2, l)
        BY DEF l
      <4> HIDE DEF s3, e, cpu, none, r2
      <4> QED
        <5>1. Put(State(m, cpu, none, r2, l), e) = State(m, cpu, none, r2, l \o <<e>>)
          <6>1. StatePut(m, cpu, none, r2, l, e)
            BY <4>1, StatePuts, Zenon
          <6> QED
            BY <6>1, Zenon DEF StatePut
        <5> QED
          BY <4>2, <5>1, Zenon
    <3>4. s4 = State(m, cpu, none, r2, l \o <<e>>)
      <4> HIDE DEF e, cpu, none, r2, ck
      <4> QED
        BY <3>1, Zenon DEF l
    <3> HIDE DEF s3, s4, ck, e, o
    <3> QED
      BY <3>1, <3>2, <3>3, <3>4, <2>3, Zenon DEF Fits
  <2> QED
    BY <2>4, <2>5, Zenon
<1> HIDE DEF ck
<1> DEFINE d == (ipl \o dws) \o ck
           h == Hook(st, burst, reg, level)
<1>13. h = s4
  <2> HIDE DEF s1, s2, s3, s4
  <2> QED
    BY <1>9, <1>10, <1>11, <1>12, Zenon
<1>14. ((st.log \o ipl) \o dws) \o ck = st.log \o d
  <2>1. IsList(ipl) /\ IsList(dws) /\ IsList(ck) /\ IsList(ipl \o dws) /\ IsList(st.log)
    <3>1. IsList(ipl) /\ IsList(dws)
      BY <1>10, <1>11, Zenon DEF Fits
    <3> QED
      BY <3>1, <1>1, <1>12, ListsJoined, Zenon
  <2>2. Associate(st.log, ipl, dws) /\ Associate(st.log, ipl \o dws, ck)
    BY <2>1, ListsAssociate, Zenon
  <2> QED
    BY <2>2, Zenon DEF Associate
<1>15. /\ Fits(d, o, m, cpu) /\ NoEnd(d)
       /\ \A c : Logged(t.wl, c) => \E k \in 1..Len(d) : Covered(d[k], c)
       /\ st.m.level = level \/ Tagged(d, "IplChange")
  <2> DEFINE d1 == ipl \o dws
  <2> HIDE DEF o, cpu
  <2>1. /\ Fits(d1, o, m, cpu) /\ NoEnd(d1)
        /\ \A c : Logged(t.wl, c) => \E k \in 1..Len(d1) : Covered(d1[k], c)
        /\ st.m.level = level \/ Tagged(d1, "IplChange")
    BY <1>10, <1>11, FitsJoined
  <2> HIDE DEF d1
  <2>2. /\ Fits(d1 \o ck, o, m, cpu) /\ NoEnd(d1 \o ck)
        /\ \A c : Logged(t.wl, c) => \E k \in 1..Len(d1 \o ck) : Covered((d1 \o ck)[k], c)
        /\ st.m.level = level \/ Tagged(d1 \o ck, "IplChange")
    BY <2>1, <1>12, FitsJoined
  <2> QED
    BY <2>2, Zenon DEF d1
<1>16. /\ h = State(m, cpu, none, r2, st.log \o d)
       /\ h.m = m /\ h.cpu = cpu /\ h.wl = none
  <2>1. h = State(m, cpu, none, r2, st.log \o d)
    <3> HIDE DEF cpu, none, r2, h, d
    <3> QED
      BY <1>13, <1>14, Zenon
  <2> DEFINE l == st.log \o d
  <2> HIDE DEF cpu, none, r2, h, l
  <2>2. h = State(m, cpu, none, r2, l)
    BY <2>1, Zenon DEF l
  <2> QED
    BY <2>1, <2>2 DEF State
<1>17. /\ h.wl.overflowed \/ h.wl = EmptyWriteLog
       /\ h.wl.overflowed = t.wl.overflowed
  <2>1. t.wl.overflowed \in BOOLEAN
    BY <1>7 DEF WriteLogs
  <2> HIDE DEF h
  <2> QED
    <3>1. h.wl.overflowed = t.wl.overflowed
      BY <1>16
    <3> DEFINE b == t.wl.overflowed
    <3> HIDE DEF b
    <3>2. h.wl = [spans |-> <<>>, overflowed |-> b]
      BY <1>16, Zenon DEF b
    <3>3. b = FALSE => h.wl = EmptyWriteLog
      BY <3>2 DEF EmptyWriteLog
    <3>4. b = TRUE \/ b = FALSE
      BY <2>1 DEF b
    <3> QED
      BY <3>1, <3>3, <3>4 DEF b
<1>18. h.wl.overflowed \/ \A c \in Cells : st.m.ram[c] = h.m.ram[c] \/ \E k \in 1..Len(d) : Covered(d[k], c)
  <2> SUFFICES ASSUME ~h.wl.overflowed, NEW c \in Cells, st.m.ram[c] # h.m.ram[c]
               PROVE  \E k \in 1..Len(d) : Covered(d[k], c)
    BY Zenon
  <2> HIDE DEF h, d
  <2>1. Logged(t.wl, c)
    <3>1. h.m.ram[c] = m.ram[c] /\ ~t.wl.overflowed
      BY <1>16, <1>17, SMTT(30)
    <3> QED
      BY <3>1, <1>7
  <2> QED
    BY <2>1, <1>15, Zenon
<1>19. Hooked(st, h, d, level)
  <2>1. h = State(h.m, cpu, h.wl, r2, st.log \o d)
    <3> HIDE DEF h, cpu, none, r2, d
    <3> QED
      BY <1>16, Zenon
  <2> HIDE DEF h, d, none
  <2> QED
    BY <2>1, <1>6, <1>15, <1>16, <1>17, <1>18 DEF Hooked
<1> HIDE DEF h, d
<1> QED
  BY <1>19, Zenon DEF h

-----------------------------------------------------------------------------
(* What draining the log does to the replay.                               *)

DrainState(m, cpu, p, fx, l) == [m |-> m, cpu |-> cpu, p |-> p, fx |-> fx, log |-> l]
Fx(i, c, e) == [ipl |-> i, checkpoint |-> c, end |-> e]
WithTwinRam(m, ram) == [overlay |-> m.overlay, fast |-> m.fast, ram |-> ram, dev |-> m.dev]
PlayTable(p, t) == [ordinal |-> p.ordinal, table |-> t, divergence |-> p.divergence]

Untagged(l, k, tag) == \A j \in 1..k : l[j].tag # tag
\* The replay st after k events of l, each of which m and cpu bear out.
Drained(st, l, m, cpu, k, x) ==
    /\ x = DrainState(x.m, st.cpu, x.p, x.fx, <<>>)
    /\ x.m \in TwinMachine /\ x.m.fast = m.fast
    /\ x.p \in Players /\ x.p.ordinal = st.p.ordinal
    /\ x.fx = Fx(x.fx.ipl, x.fx.checkpoint, x.fx.end)
    /\ x.fx.checkpoint \in {NoRegs, RegsOf(cpu)} /\ x.fx.end \in {NoRegs, RegsOf(cpu)}
    /\ x.p.table = TableOf(m) \/ (x.p.table = st.p.table /\ Untagged(l, k, "ClassificationTransition"))
    /\ x.fx.ipl = m.level \/ (x.fx.ipl = 2 /\ Untagged(l, k, "IplChange"))
    /\ \A c \in Cells : x.m.ram[c] = m.ram[c] \/ (x.m.ram[c] = st.m.ram[c] /\ \A j \in 1..k : ~Covered(l[j], c))

\* What draining l needs.
CanDrain(st, l, m, cpu) ==
    /\ m \in LiveMachine /\ cpu \in Cpus /\ PlayState(st) /\ st.m.fast = m.fast
    /\ IsList(l)
    /\ \A k \in 1..Len(l) : Holds(l[k], m, cpu) /\ (l[k].tag = "End" => k = Len(l))
    /\ \A c \in Cells : st.m.ram[c] = m.ram[c] \/ \E k \in 1..Len(l) : Covered(l[k], c)

LEMMA DigestsAgree ==
    ASSUME NEW m, NEW n, m.fast = n.fast, \A c \in Cells : m.ram[c] = n.ram[c]
    PROVE  ram_digests(m) = ram_digests(n)
<1>1. [c \in Chip |-> m.ram[c]] = [c \in Chip |-> n.ram[c]]
  BY DEF Cells
<1>2. [c \in Fast |-> m.ram[c]] = [c \in Fast |-> n.ram[c]]
  BY DEF Cells
<1> QED
  BY <1>1, <1>2, Zenon DEF ram_digests

LEMMA DrainStep ==
    ASSUME NEW st, NEW l, NEW m, NEW cpu, CanDrain(st, l, m, cpu),
           NEW k \in Nat, k < Len(l), NEW x, Drained(st, l, m, cpu, k, x)
    PROVE  Drained(st, l, m, cpu, k + 1, Apply(x, l[k + 1]))
<1> DEFINE e == l[k + 1]
           y == Apply(x, e)
<1>1. /\ m \in LiveMachine /\ cpu \in Cpus /\ PlayState(st) /\ st.m.fast = m.fast /\ Len(l) \in Nat
      /\ \A c \in Cells : st.m.ram[c] = m.ram[c] \/ \E j \in 1..Len(l) : Covered(l[j], c)
      /\ k + 1 \in 1..Len(l) /\ Holds(e, m, cpu) /\ (e.tag = "End" => k + 1 = Len(l))
      /\ m.ram \in Ram /\ m.level \in 0..1 /\ m.overlay \in BOOLEAN /\ m.fast \in BOOLEAN
  BY DEF CanDrain, IsList, LiveMachine
<1>2. /\ x = DrainState(x.m, st.cpu, x.p, x.fx, <<>>)
      /\ x.m \in TwinMachine /\ x.m.fast = m.fast
      /\ x.p \in Players /\ x.p.ordinal = st.p.ordinal
      /\ x.fx = Fx(x.fx.ipl, x.fx.checkpoint, x.fx.end)
      /\ x.fx.checkpoint \in {NoRegs, RegsOf(cpu)} /\ x.fx.end \in {NoRegs, RegsOf(cpu)}
      /\ x.p.table = TableOf(m) \/ (x.p.table = st.p.table /\ Untagged(l, k, "ClassificationTransition"))
      /\ x.fx.ipl = m.level \/ (x.fx.ipl = 2 /\ Untagged(l, k, "IplChange"))
      /\ \A c \in Cells : x.m.ram[c] = m.ram[c] \/ (x.m.ram[c] = st.m.ram[c] /\ \A j \in 1..k : ~Covered(l[j], c))
  BY DEF Drained
<1>3. \A j \in 1..(k + 1) : j \in 1..k \/ j = k + 1
  OBVIOUS
<1> HIDE DEF e, y
<1>e. e = l[k + 1]
  BY DEF e
<1>4. \A tag : Untagged(l, k, tag) /\ e.tag # tag => Untagged(l, k + 1, tag)
  BY <1>3, <1>e DEF Untagged
<1>5. \A c : (\A j \in 1..k : ~Covered(l[j], c)) /\ ~Covered(e, c) => \A j \in 1..(k + 1) : ~Covered(l[j], c)
  BY <1>3, <1>e
<1>6. e.tag # "DeviceWrite" => \A c : ~Covered(e, c)
  BY DEF Covered
<1>7. CASE e.tag = "DeviceWrite"
  <2> DEFINE a == e.body.addr
             b == e.body.bytes
             r == [c \in Cells |-> IF c \in a..(a + Len(b) - 1) THEN b[c - a + 1] ELSE x.m.ram[c]]
  <2>1. /\ a \in Nat /\ Len(b) \in Nat \ {0} /\ ram_slice(m, a, Len(b))
        /\ \A j \in 1..Len(b) : b[j] = m.ram[a + j - 1]
    BY <1>1, <1>7 DEF Holds
  <2>2. ram_slice(x.m, a, Len(b))
    BY <2>1, <1>2, Zenon DEF ram_slice
  <2>3. y = [x EXCEPT !.m.ram = r]
    <3>1. y = [x EXCEPT !.m.ram = [c \in Cells |-> IF c \in a..(a + Len(b) - 1) THEN b[c - a + 1] ELSE @[c]]]
      BY <1>7, <2>2 DEF Apply, y
    <3>2. x = [m |-> x.m, cpu |-> st.cpu, p |-> x.p, fx |-> x.fx, log |-> <<>>]
      BY <1>2, Zenon DEF DrainState
    <3> QED
      BY <3>1, <3>2
  <2>4. \A c \in Cells : Covered(e, c) => r[c] = m.ram[c]
    <3> TAKE c \in Cells
    <3>1. HAVE Covered(e, c)
    <3>2. c \in a..(a + Len(b) - 1) /\ c \in Nat
      BY <3>1 DEF Covered, Cells, Chip, Fast
    <3>3. c - a + 1 \in 1..Len(b) /\ a + (c - a + 1) - 1 = c
      <4> HIDE DEF a, b
      <4> QED
        BY <3>2, <2>1
    <3>4. b[c - a + 1] = m.ram[a + (c - a + 1) - 1]
      <4> HIDE DEF a, b
      <4> QED
        BY <3>3, <2>1
    <3> QED
      BY <3>2, <3>3, <3>4
  <2>5. \A c \in Cells : ~Covered(e, c) => r[c] = x.m.ram[c]
    BY <1>7 DEF Covered
  <2>6. r \in Ram
    <3>1. \A c \in Cells : m.ram[c] \in Val /\ x.m.ram[c] \in Val
      BY <1>1, <1>2 DEF Ram, TwinMachine
    <3>2. \A c \in Cells : r[c] \in Val
      <4> HIDE DEF r
      <4> QED
        BY <2>4, <2>5, <3>1
    <3> QED
      BY <3>2 DEF Ram
  <2> HIDE DEF a, b, r
  <2>7. y = DrainState(WithTwinRam(x.m, r), st.cpu, x.p, x.fx, <<>>)
    <3>1. [x.m EXCEPT !.ram = r] = WithTwinRam(x.m, r)
      BY <1>2 DEF TwinMachine, WithTwinRam
    <3>2. x = [m |-> x.m, cpu |-> st.cpu, p |-> x.p, fx |-> x.fx, log |-> <<>>]
      BY <1>2, Zenon DEF DrainState
    <3>3. y = [x EXCEPT !.m = [x.m EXCEPT !.ram = r]]
      BY <2>3, <3>2
    <3>4. y = [x EXCEPT !.m = WithTwinRam(x.m, r)]
      BY <3>1, <3>3, Zenon
    <3> DEFINE n == WithTwinRam(x.m, r)
    <3> HIDE DEF n
    <3>5. y = [m |-> n, cpu |-> st.cpu, p |-> x.p, fx |-> x.fx, log |-> <<>>]
      BY <3>2, <3>4 DEF n
    <3> QED
      BY <3>5 DEF n, DrainState
  <2>8. y.m = WithTwinRam(x.m, r) /\ y.p = x.p /\ y.fx = x.fx
    BY <2>7 DEF DrainState
  <2>9. y.m \in TwinMachine /\ y.m.fast = m.fast /\ y.m.ram = r
    BY <2>8, <2>6, <1>2 DEF WithTwinRam, TwinMachine
  <2>10. y = DrainState(y.m, st.cpu, y.p, y.fx, <<>>)
    BY <2>7, <2>8, Zenon
  <2>11. \A c \in Cells : y.m.ram[c] = m.ram[c] \/ (y.m.ram[c] = st.m.ram[c] /\ \A j \in 1..(k + 1) : ~Covered(l[j], c))
    BY <2>4, <2>5, <2>9, <1>2, <1>5
  <2>12. Untagged(l, k, "ClassificationTransition") => Untagged(l, k + 1, "ClassificationTransition")
    BY <1>4, <1>7
  <2>13. Untagged(l, k, "IplChange") => Untagged(l, k + 1, "IplChange")
    BY <1>4, <1>7
  <2> QED
    BY <2>8, <2>9, <2>10, <2>11, <2>12, <2>13, <1>2, Zenon DEF Drained, y, e
<1>8. ASSUME e.tag # "DeviceWrite", y.m = x.m
      PROVE  \A c \in Cells : y.m.ram[c] = m.ram[c] \/ (y.m.ram[c] = st.m.ram[c] /\ \A j \in 1..(k + 1) : ~Covered(l[j], c))
  <2>1. \A c \in Cells : x.m.ram[c] = m.ram[c] \/ (x.m.ram[c] = st.m.ram[c] /\ \A j \in 1..(k + 1) : ~Covered(l[j], c))
    BY <1>2, <1>5, <1>6, <1>8
  <2> QED
    BY <2>1, <1>8
<1>9. /\ x = [m |-> x.m, cpu |-> st.cpu, p |-> x.p, fx |-> x.fx, log |-> <<>>]
      /\ x.fx = [ipl |-> x.fx.ipl, checkpoint |-> x.fx.checkpoint, end |-> x.fx.end]
      /\ x.p = [ordinal |-> x.p.ordinal, table |-> x.p.table, divergence |-> x.p.divergence]
      /\ x.p.divergence = "none" /\ x.p.ordinal \in Nat
  <2>1. x = [m |-> x.m, cpu |-> st.cpu, p |-> x.p, fx |-> x.fx, log |-> <<>>]
    BY <1>2, Zenon DEF DrainState
  <2>2. x.fx = [ipl |-> x.fx.ipl, checkpoint |-> x.fx.checkpoint, end |-> x.fx.end]
    BY <1>2, Zenon DEF Fx
  <2> QED
    BY <2>1, <2>2, <1>2 DEF Players
<1>10. CASE e.tag = "ClassificationTransition"
  <2> DEFINE p == PlayTable(x.p, TableOf(m))
  <2>1. e.body.table = TableOf(m)
    BY <1>1, <1>10 DEF Holds, TableOf
  <2>2. y = [x EXCEPT !.p.table = TableOf(m)]
    BY <1>10, <2>1 DEF Apply, y
  <2>3. [x.p EXCEPT !.table = TableOf(m)] = p
    BY <1>9 DEF PlayTable
  <2>4. y = [x EXCEPT !.p = [x.p EXCEPT !.table = TableOf(m)]]
    BY <2>2, <1>9
  <2>5. y = [x EXCEPT !.p = p]
    BY <2>3, <2>4, Zenon
  <2> HIDE DEF p
  <2>6. y = DrainState(x.m, st.cpu, p, x.fx, <<>>)
    BY <2>5, <1>9 DEF DrainState
  <2>7. y.m = x.m /\ y.p = p /\ y.fx = x.fx
    BY <2>6 DEF DrainState
  <2>8. p \in Players /\ p.ordinal = x.p.ordinal /\ p.table = TableOf(m)
    <3>1. TableOf(m) \in Tables
      BY <1>1 DEF TableOf, Tables
    <3> QED
      BY <3>1, <1>9 DEF p, PlayTable, Players
  <2>9. y = DrainState(y.m, st.cpu, y.p, y.fx, <<>>)
    BY <2>6, <2>7, Zenon
  <2>10. Untagged(l, k, "IplChange") => Untagged(l, k + 1, "IplChange")
    BY <1>4, <1>10
  <2>11. \A c \in Cells : y.m.ram[c] = m.ram[c] \/ (y.m.ram[c] = st.m.ram[c] /\ \A j \in 1..(k + 1) : ~Covered(l[j], c))
    BY <1>8, <1>10, <2>7
  <2> QED
    BY <2>7, <2>8, <2>9, <2>10, <2>11, <1>2, Zenon DEF Drained, y, e
<1>11. ASSUME NEW fx, y = DrainState(x.m, st.cpu, x.p, fx, <<>>), fx = Fx(fx.ipl, fx.checkpoint, fx.end),
              fx.checkpoint \in {NoRegs, RegsOf(cpu)}, fx.end \in {NoRegs, RegsOf(cpu)},
              fx.ipl = m.level \/ (fx.ipl = x.fx.ipl /\ e.tag # "IplChange"),
              e.tag \notin {"DeviceWrite", "ClassificationTransition"}
       PROVE  Drained(st, l, m, cpu, k + 1, y)
  <2>1. y.m = x.m /\ y.p = x.p /\ y.fx = fx
    BY <1>11 DEF DrainState
  <2>2. y = DrainState(y.m, st.cpu, y.p, y.fx, <<>>)
    BY <1>11, <2>1, Zenon
  <2>3. Untagged(l, k, "ClassificationTransition") => Untagged(l, k + 1, "ClassificationTransition")
    BY <1>4, <1>11
  <2>4. y.fx.ipl = m.level \/ (y.fx.ipl = 2 /\ Untagged(l, k + 1, "IplChange"))
    BY <1>2, <1>4, <1>11, <2>1
  <2>5. \A c \in Cells : y.m.ram[c] = m.ram[c] \/ (y.m.ram[c] = st.m.ram[c] /\ \A j \in 1..(k + 1) : ~Covered(l[j], c))
    BY <1>8, <1>11, <2>1
  <2>6. y.fx = Fx(y.fx.ipl, y.fx.checkpoint, y.fx.end)
        /\ y.fx.checkpoint \in {NoRegs, RegsOf(cpu)} /\ y.fx.end \in {NoRegs, RegsOf(cpu)}
    BY <1>11, <2>1, Zenon
  <2>7. /\ y.m \in TwinMachine /\ y.m.fast = m.fast
        /\ y.p \in Players /\ y.p.ordinal = st.p.ordinal
        /\ y.p.table = TableOf(m) \/ (y.p.table = st.p.table /\ Untagged(l, k + 1, "ClassificationTransition"))
    BY <2>1, <2>3, <1>2, Zenon
  <2> QED
    BY <2>2, <2>4, <2>5, <2>6, <2>7, Zenon DEF Drained
<1>12. ASSUME NEW fx PROVE [x EXCEPT !.fx = fx] = DrainState(x.m, st.cpu, x.p, fx, <<>>)
  BY <1>9 DEF DrainState
<1>13. CASE e.tag = "IplChange"
  <2> DEFINE fx == Fx(m.level, x.fx.checkpoint, x.fx.end)
  <2>1. e.body.level = m.level
    BY <1>1, <1>13 DEF Holds
  <2>2. y = [x EXCEPT !.fx.ipl = m.level]
    BY <1>13, <2>1 DEF Apply, y
  <2>3. [x.fx EXCEPT !.ipl = m.level] = fx
    BY <1>9 DEF Fx
  <2>4. y = [x EXCEPT !.fx = [x.fx EXCEPT !.ipl = m.level]]
    BY <2>2, <1>9
  <2>5. y = [x EXCEPT !.fx = fx]
    BY <2>3, <2>4, Zenon
  <2>6. fx.ipl = m.level /\ fx.checkpoint = x.fx.checkpoint /\ fx.end = x.fx.end
    BY DEF Fx
  <2>7. fx = Fx(fx.ipl, fx.checkpoint, fx.end)
    BY <2>6, Zenon
  <2>8. y = DrainState(x.m, st.cpu, x.p, fx, <<>>)
    BY <2>5, <1>12, Zenon
  <2> HIDE DEF fx
  <2>9. Drained(st, l, m, cpu, k + 1, y)
    BY <2>6, <2>7, <2>8, <1>2, <1>11, <1>13
  <2> QED
    BY <2>9, Zenon DEF y, e
<1>14. CASE e.tag = "Checkpoint"
  <2> DEFINE fx == Fx(x.fx.ipl, RegsOf(cpu), x.fx.end)
             g == RegsOf(cpu)
  <2>1. e.body.regs = g
    BY <1>1, <1>14 DEF Holds
  <2>2. y = [x EXCEPT !.fx.checkpoint = g]
    BY <1>14, <2>1 DEF Apply, y
  <2> HIDE DEF g
  <2>3. [x.fx EXCEPT !.checkpoint = g] = fx
    BY <1>9 DEF Fx, g
  <2>4. y = [x EXCEPT !.fx = [x.fx EXCEPT !.checkpoint = g]]
    BY <2>2, <1>9
  <2>5. y = [x EXCEPT !.fx = fx]
    BY <2>3, <2>4, Zenon
  <2>6. fx.ipl = x.fx.ipl /\ fx.checkpoint = RegsOf(cpu) /\ fx.end = x.fx.end
    BY DEF Fx
  <2>7. fx = Fx(fx.ipl, fx.checkpoint, fx.end)
    BY <2>6, Zenon
  <2>8. y = DrainState(x.m, st.cpu, x.p, fx, <<>>)
    BY <2>5, <1>12, Zenon
  <2> HIDE DEF fx
  <2>9. fx.checkpoint \in {NoRegs, RegsOf(cpu)} /\ fx.end \in {NoRegs, RegsOf(cpu)}
    BY <2>6, <1>2
  <2>10. Drained(st, l, m, cpu, k + 1, y)
    BY <2>6, <2>7, <2>8, <2>9, <1>11, <1>14
  <2> QED
    BY <2>10, Zenon DEF y, e
<1>15. CASE e.tag = "End"
  <2> DEFINE fx == Fx(x.fx.ipl, x.fx.checkpoint, RegsOf(cpu))
             g == RegsOf(cpu)
             z == record_divergence(x, "none")
  <2>1. e.body.regs = g /\ e.body.digests = ram_digests(m) /\ k + 1 = Len(l)
    BY <1>1, <1>15 DEF Holds
  <2>2. \A c \in Cells : x.m.ram[c] = m.ram[c]
    <3> SUFFICES ASSUME NEW c \in Cells, x.m.ram[c] # m.ram[c] PROVE FALSE
      BY Zenon
    <3>1. x.m.ram[c] = st.m.ram[c] /\ \A j \in 1..(k + 1) : ~Covered(l[j], c)
      BY <1>2, <1>5, <1>6, <1>15
    <3> QED
      BY <3>1, <2>1, <1>1
  <2>3. ram_digests(x.m) = ram_digests(m)
    BY <2>2, <1>2, DigestsAgree
  <2>4. y = [z EXCEPT !.fx.end = g]
    <3>1. y = [record_divergence(x, IF e.body.digests = ram_digests(x.m) THEN x.p.divergence
                                    ELSE "RamDigestMismatch") EXCEPT !.fx.end = e.body.regs]
      BY <1>15 DEF Apply, y
    <3>2. (IF e.body.digests = ram_digests(x.m) THEN x.p.divergence ELSE "RamDigestMismatch") = "none"
      BY <2>1, <2>3, <1>9
    <3> QED
      BY <3>1, <3>2, <2>1, Zenon
  <2>5. z = x
    <3>1. [x.p EXCEPT !.divergence = "none"] = x.p
      BY <1>9
    <3>2. z = [x EXCEPT !.p.divergence = "none"]
      BY <1>9, Zenon DEF record_divergence
    <3>3. z = [x EXCEPT !.p = [x.p EXCEPT !.divergence = "none"]]
      BY <3>2, <1>9
    <3>4. z = [x EXCEPT !.p = x.p]
      BY <3>1, <3>3, Zenon
    <3> HIDE DEF z
    <3> QED
      BY <3>4, <1>9
  <2>6. y = [x EXCEPT !.fx.end = g]
    BY <2>4, <2>5, Zenon
  <2> HIDE DEF g, z
  <2>7. [x.fx EXCEPT !.end = g] = fx
    BY <1>9 DEF Fx, g
  <2>8. y = [x EXCEPT !.fx = [x.fx EXCEPT !.end = g]]
    BY <2>6, <1>9
  <2>9. y = [x EXCEPT !.fx = fx]
    BY <2>7, <2>8, Zenon
  <2>10. fx.ipl = x.fx.ipl /\ fx.checkpoint = x.fx.checkpoint /\ fx.end = RegsOf(cpu)
    BY DEF Fx
  <2>11. fx = Fx(fx.ipl, fx.checkpoint, fx.end)
    BY <2>10, Zenon
  <2>12. y = DrainState(x.m, st.cpu, x.p, fx, <<>>)
    BY <2>9, <1>12, Zenon
  <2> HIDE DEF fx
  <2>13. fx.checkpoint \in {NoRegs, RegsOf(cpu)} /\ fx.end \in {NoRegs, RegsOf(cpu)}
    BY <2>10, <1>2
  <2>14. Drained(st, l, m, cpu, k + 1, y)
    BY <2>10, <2>11, <2>12, <2>13, <1>11, <1>15
  <2> QED
    BY <2>14, Zenon DEF y, e
<1>16. e.tag \in {"DeviceWrite", "ClassificationTransition", "IplChange", "Checkpoint", "End"}
  BY <1>1 DEF Holds
<1> QED
  BY <1>7, <1>10, <1>13, <1>14, <1>15, <1>16

DrainAfter(st, l, k) ==
    CHOOSE f : f = [n \in 0 .. k |-> IF n = 0 THEN st ELSE Apply(f[n - 1], l[n])]

LEMMA DrainExists ==
    ASSUME NEW st, NEW l, NEW k \in Nat
    PROVE  LET f == DrainAfter(st, l, k)
           IN  f = [n \in 0 .. k |-> IF n = 0 THEN st ELSE Apply(f[n - 1], l[n])]
<1> DEFINE Is(f, j) == f = [n \in 0 .. j |-> IF n = 0 THEN st ELSE Apply(f[n - 1], l[n])]
           S == {j \in Nat : \E f : Is(f, j)}
<1>1. 0 \in S
  <2> DEFINE f == [n \in 0 .. 0 |-> st]
  <2>1. Is(f, 0)
    OBVIOUS
  <2> QED
    BY <2>1
<1>2. ASSUME NEW j \in Nat, j \in S PROVE j + 1 \in S
  <2>1. PICK f : Is(f, j)
    BY <1>2
  <2> DEFINE g == [n \in 0 .. j + 1 |-> IF n = j + 1 THEN Apply(f[j], l[j + 1]) ELSE f[n]]
             h == [n \in 0 .. j + 1 |-> IF n = 0 THEN st ELSE Apply(g[n - 1], l[n])]
  <2>2. ASSUME NEW n \in 0 .. j + 1 PROVE g[n] = h[n]
    <3>1. CASE n = 0
      BY <3>1, <2>1
    <3>2. CASE n = j + 1
      <4>1. g[n - 1] = f[j]
        BY <3>2
      <4> QED
        BY <3>2, <4>1
    <3>3. CASE n # 0 /\ n # j + 1
      <4>1. n - 1 \in 0 .. j + 1 /\ n - 1 # j + 1 /\ n \in 0 .. j
        BY <3>3
      <4>2. g[n - 1] = f[n - 1]
        BY <4>1
      <4>3. f[n] = Apply(f[n - 1], l[n])
        BY <4>1, <3>3, <2>1
      <4> QED
        BY <3>3, <4>2, <4>3
    <3> QED
      BY <3>1, <3>2, <3>3
  <2>3. Is(g, j + 1)
    <3>1. g = h
      <4>1. h = [n \in 0 .. j + 1 |-> h[n]]
        OBVIOUS
      <4>2. g = [n \in 0 .. j + 1 |-> g[n]]
        OBVIOUS
      <4> HIDE DEF g, h
      <4> QED
        BY <4>1, <4>2, <2>2
    <3> QED
      BY <3>1
  <2> HIDE DEF g
  <2>4. \E e : Is(e, j + 1)
    BY <2>3, Zenon
  <2>5. j + 1 \in Nat
    OBVIOUS
  <2> QED
    BY <2>4, <2>5, Zenon
<1>3. k \in S
  <2> HIDE DEF S
  <2> QED
    BY <1>1, <1>2, AllNumbers
<1> QED
  BY <1>3, Zenon DEF DrainAfter


LEMMA DrainsAll ==
    ASSUME NEW st, NEW m, NEW cpu, CanDrain(st, st.log, m, cpu),
           \A k \in 1..Len(st.log) : st.log[k].ordinal <= st.p.ordinal
    PROVE  Drained(st, st.log, m, cpu, Len(st.log), drain_side_effects(st))
<1> DEFINE l == st.log
           N == Len(l)
           stuck == {k \in DOMAIN st.log : ~Drainable(st, st.log[k])}
           n == IF stuck = {} THEN Len(st.log) ELSE (CHOOSE k \in stuck : \A j \in stuck : k <= j) - 1
           start == [m |-> st.m, cpu |-> st.cpu, p |-> st.p, fx |-> NoEffects,
                     log |-> SubSeq(st.log, n + 1, Len(st.log))]
           f == DrainAfter(start, l, n)
           S == {k \in Nat : k <= N => Drained(st, l, m, cpu, k, f[k])}
<1>1. drain_side_effects(st) = f[n]
  BY Zenon DEF drain_side_effects, DrainAfter
<1>2. IsList(l) /\ N \in Nat /\ \A k \in 1..N : Holds(l[k], m, cpu)
  BY DEF CanDrain, IsList
<1>3. DOMAIN l = 1..N /\ SubSeq(l, N + 1, N) = <<>>
  <2> DEFINE T == {l[k] : k \in 1..N}
  <2>1. l \in Seq(T)
    BY <1>2, ListIsSeq
  <2> HIDE DEF T
  <2> QED
    BY <2>1
<1>4. n = N
  <2>1. \A k \in 1..N : l[k].tag \notin {"IoRead", "IoWrite"}
    BY <1>2 DEF Holds
  <2>2. \A k \in 1..N : Drainable(st, st.log[k])
    BY <2>1 DEF Drainable
  <2>3. stuck = {}
    BY <2>2, <1>3
  <2> QED
    BY <2>3, Zenon
<1>5. start = DrainState(st.m, st.cpu, st.p, Fx(2, NoRegs, NoRegs), <<>>)
  <2>1. SubSeq(st.log, n + 1, Len(st.log)) = <<>>
    BY <1>3, <1>4
  <2> HIDE DEF n
  <2>2. NoEffects = Fx(2, NoRegs, NoRegs)
    BY DEF NoEffects, Fx
  <2> QED
    BY <2>1, <2>2, Zenon DEF DrainState
<1> HIDE DEF start, stuck, n
<1>6. f = [j \in 0 .. N |-> IF j = 0 THEN start ELSE Apply(f[j - 1], l[j])]
  <2>1. f = DrainAfter(start, l, N)
    BY <1>4, Zenon
  <2> HIDE DEF f, N, l
  <2> QED
    BY <2>1, <1>2, DrainExists
<1> HIDE DEF f, N
<1>7. f[0] = start /\ \A k \in 0..N : k # 0 => f[k] = Apply(f[k - 1], l[k])
  <2>1. 0 \in 0..N
    BY <1>2
  <2> QED
    BY <1>6, <2>1
<1>8. Drained(st, l, m, cpu, 0, start)
  <2> DEFINE fx == Fx(2, NoRegs, NoRegs)
  <2>1. fx = Fx(fx.ipl, fx.checkpoint, fx.end) /\ fx.ipl = 2 /\ fx.checkpoint = NoRegs /\ fx.end = NoRegs
    <3> DEFINE g == NoRegs
    <3> HIDE DEF g
    <3>1. Fx(2, g, g).ipl = 2 /\ Fx(2, g, g).checkpoint = g /\ Fx(2, g, g).end = g
      BY DEF Fx
    <3> QED
      BY <3>1, Zenon DEF g
  <2> HIDE DEF fx
  <2>2. start = DrainState(st.m, st.cpu, st.p, fx, <<>>)
    BY <1>5, Zenon DEF fx
  <2>3. start.m = st.m /\ start.p = st.p /\ start.fx = fx
    BY <2>2 DEF DrainState
  <2>4. start = DrainState(start.m, st.cpu, start.p, start.fx, <<>>)
    BY <2>2, <2>3, Zenon
  <2>5. st.m \in TwinMachine /\ st.m.fast = m.fast /\ st.p \in Players
    BY DEF CanDrain, PlayState
  <2>6. \A j \in 1..0 : FALSE
    OBVIOUS
  <2>7. start.fx.checkpoint \in {NoRegs, RegsOf(cpu)} /\ start.fx.end \in {NoRegs, RegsOf(cpu)}
    BY <2>1, <2>3
  <2> QED
    BY <2>1, <2>3, <2>4, <2>5, <2>6, <2>7, Zenon DEF Drained, Untagged
<1>9. 0 \in S
  BY <1>7, <1>8
<1>10. ASSUME NEW k \in Nat, k \in S PROVE k + 1 \in S
  <2> SUFFICES ASSUME k + 1 <= N PROVE Drained(st, l, m, cpu, k + 1, f[k + 1])
    OBVIOUS
  <2>1. k <= N /\ k < N /\ k + 1 \in 0..N /\ k + 1 # 0 /\ (k + 1) - 1 = k
    BY <1>2
  <2>2. Drained(st, l, m, cpu, k, f[k])
    BY <1>10, <2>1
  <2>3. f[k + 1] = Apply(f[k], l[k + 1])
    BY <1>7, <2>1
  <2>4. Drained(st, l, m, cpu, k + 1, Apply(f[k], l[k + 1]))
    BY <2>1, <2>2, DrainStep, Zenon DEF N
  <2> QED
    BY <2>3, <2>4, Zenon
<1>11. Drained(st, l, m, cpu, N, f[N])
  <2>1. \A k \in Nat : k \in S
    <3> HIDE DEF S
    <3> QED
      BY <1>9, <1>10, AllNumbers
  <2> QED
    BY <2>1, <1>2
<1> QED
  BY <1>1, <1>4, <1>11, Zenon DEF N

-----------------------------------------------------------------------------
(* The hook of the replay.                                                 *)

NextOrdinal(pt) ==
    [m |-> pt.m, cpu |-> pt.cpu,
     p |-> [ordinal |-> pt.p.ordinal + 1, table |-> pt.p.table, divergence |-> pt.p.divergence], log |-> pt.log]
\* x is where the recording's machine m and CPU cpu are, one hook after pt.
Caught(x, pt, m, cpu) ==
    /\ x = DrainState(x.m, cpu, x.p, x.fx, <<>>)
    /\ x.m \in TwinMachine /\ x.m.fast = m.fast /\ x.m.ram = m.ram
    /\ x.p \in Players /\ x.p.ordinal = pt.p.ordinal + 1 /\ x.p.table = TableOf(m)

Checked(pt, retired) ==
    LET drained == drain_side_effects([pt EXCEPT !.p.ordinal = @ + 1])
        set     == [drained EXCEPT !.cpu = IF drained.fx.ipl = 2 THEN @ ELSE SetIrq(@, drained.fx.ipl)]
    IN  CompareEnd(IF retired THEN CompareCheckpoint(set) ELSE set)

LEMMA CatchesUp ==
    ASSUME NEW pt, NEW m, NEW cpu, NEW retired \in BOOLEAN, Catches(pt, m, cpu)
    PROVE  Caught(Checked(pt, retired), pt, m, cpu)
<1> DEFINE st == NextOrdinal(pt)
           x == drain_side_effects(st)
           l == pt.log
<1>1. /\ pt = [m |-> pt.m, cpu |-> pt.cpu, p |-> pt.p, log |-> pt.log]
      /\ pt.m \in TwinMachine /\ pt.cpu \in Cpus /\ pt.p \in Players /\ IsList(l)
      /\ m \in LiveMachine /\ cpu \in Cpus /\ cpu.irq = m.level
      /\ pt.m.fast = m.fast /\ pt.cpu.acc = cpu.acc /\ pt.cpu.stopped = cpu.stopped
  BY DEF Catches, PlayState
<1>2. /\ \A k \in 1..Len(l) : /\ l[k].ordinal <= pt.p.ordinal + 1
                              /\ Holds(l[k], m, cpu)
                              /\ l[k].tag = "End" => k = Len(l)
      /\ \A c \in Cells : pt.m.ram[c] = m.ram[c] \/ \E k \in 1..Len(l) : Covered(l[k], c)
      /\ pt.p.table = TableOf(m) \/ Tagged(l, "ClassificationTransition")
      /\ pt.cpu.irq = m.level \/ Tagged(l, "IplChange")
  BY DEF Catches, Brings, TableOf
<1>3. [pt EXCEPT !.p.ordinal = @ + 1] = st
  <2> DEFINE p == [ordinal |-> pt.p.ordinal + 1, table |-> pt.p.table, divergence |-> pt.p.divergence]
  <2>1. [pt.p EXCEPT !.ordinal = @ + 1] = p
    BY <1>1 DEF Players
  <2>2. [pt EXCEPT !.p.ordinal = @ + 1] = [pt EXCEPT !.p = [pt.p EXCEPT !.ordinal = @ + 1]]
    BY <1>1
  <2>3. [pt EXCEPT !.p.ordinal = @ + 1] = [pt EXCEPT !.p = p]
    BY <2>1, <2>2, Zenon
  <2> HIDE DEF p
  <2>4. [pt EXCEPT !.p = p] = [m |-> pt.m, cpu |-> pt.cpu, p |-> p, log |-> pt.log]
    BY <1>1
  <2> QED
    BY <2>3, <2>4, Zenon DEF p, NextOrdinal
<1>4. /\ st.m = pt.m /\ st.cpu = pt.cpu /\ st.log = l /\ st.p.ordinal = pt.p.ordinal + 1
      /\ st.p.table = pt.p.table /\ PlayState(st)
  <2> DEFINE p == [ordinal |-> pt.p.ordinal + 1, table |-> pt.p.table, divergence |-> pt.p.divergence]
  <2>1. p \in Players /\ p.ordinal = pt.p.ordinal + 1 /\ p.table = pt.p.table
    BY <1>1 DEF Players
  <2> HIDE DEF p
  <2>2. st = [m |-> pt.m, cpu |-> pt.cpu, p |-> p, log |-> pt.log]
    BY Zenon DEF NextOrdinal, p
  <2> HIDE DEF st
  <2>3. st.m = pt.m /\ st.cpu = pt.cpu /\ st.log = l /\ st.p = p
    BY <2>2
  <2>4. st = [m |-> st.m, cpu |-> st.cpu, p |-> st.p, log |-> st.log]
    BY <2>2, <2>3, Zenon
  <2> QED
    BY <2>1, <2>3, <2>4, <1>1 DEF PlayState
<1> HIDE DEF st
<1>5. CanDrain(st, st.log, m, cpu) /\ \A k \in 1..Len(st.log) : st.log[k].ordinal <= st.p.ordinal
  BY <1>1, <1>2, <1>4 DEF CanDrain
<1>6. Drained(st, l, m, cpu, Len(l), x)
  BY <1>4, <1>5, DrainsAll, Zenon
<1> HIDE DEF x, l
<1>7. /\ x = DrainState(x.m, st.cpu, x.p, x.fx, <<>>)
      /\ x.m \in TwinMachine /\ x.m.fast = m.fast
      /\ x.p \in Players /\ x.p.ordinal = st.p.ordinal
      /\ x.fx = Fx(x.fx.ipl, x.fx.checkpoint, x.fx.end)
      /\ x.fx.checkpoint \in {NoRegs, RegsOf(cpu)} /\ x.fx.end \in {NoRegs, RegsOf(cpu)}
      /\ x.p.table = TableOf(m) \/ (x.p.table = st.p.table /\ Untagged(l, Len(l), "ClassificationTransition"))
      /\ x.fx.ipl = m.level \/ (x.fx.ipl = 2 /\ Untagged(l, Len(l), "IplChange"))
      /\ \A c \in Cells : x.m.ram[c] = m.ram[c] \/ (x.m.ram[c] = st.m.ram[c] /\ \A j \in 1..Len(l) : ~Covered(l[j], c))
  BY <1>6 DEF Drained
<1>8. x.p.table = TableOf(m)
  BY <1>2, <1>4, <1>7 DEF Untagged, Tagged
<1>9. x.m.ram = m.ram
  <2>1. \A c \in Cells : x.m.ram[c] = m.ram[c]
    BY <1>2, <1>4, <1>7
  <2>2. x.m.ram \in Ram /\ m.ram \in Ram
    BY <1>1, <1>7 DEF TwinMachine, LiveMachine
  <2> QED
    BY <2>1, <2>2 DEF Ram
<1> DEFINE set == [x EXCEPT !.cpu = IF x.fx.ipl = 2 THEN @ ELSE SetIrq(@, x.fx.ipl)]
<1>10. (IF x.fx.ipl = 2 THEN st.cpu ELSE SetIrq(st.cpu, x.fx.ipl)) = cpu
  <2>1. m.level \in 0..1
    BY <1>1 DEF LiveMachine
  <2>2. CASE x.fx.ipl = 2
    <3>1. st.cpu.irq = m.level
      BY <2>2, <2>1, <1>2, <1>4, <1>7 DEF Untagged, Tagged
    <3> QED
      BY <3>1, <2>2, <1>1, <1>4 DEF Cpus
  <2>3. CASE x.fx.ipl # 2
    <3>1. x.fx.ipl = m.level
      BY <2>3, <1>7
    <3>2. SetIrq(st.cpu, m.level) = cpu
      BY <1>1, <1>4 DEF SetIrq, Cpus
    <3> QED
      BY <2>3, <3>1, <3>2, Zenon
  <2> QED
    BY <2>2, <2>3
<1>11. set = DrainState(x.m, cpu, x.p, x.fx, <<>>)
  <2>1. x = [m |-> x.m, cpu |-> st.cpu, p |-> x.p, fx |-> x.fx, log |-> <<>>]
    BY <1>7, Zenon DEF DrainState
  <2> DEFINE c == IF x.fx.ipl = 2 THEN st.cpu ELSE SetIrq(st.cpu, x.fx.ipl)
  <2>2. set = [x EXCEPT !.cpu = c]
    BY <2>1
  <2>3. set = [x EXCEPT !.cpu = cpu]
    BY <2>2, <1>10, Zenon
  <2> HIDE DEF set, c
  <2> QED
    BY <2>1, <2>3 DEF DrainState
<1> HIDE DEF set
<1>12. set.m = x.m /\ set.cpu = cpu /\ set.p = x.p /\ set.fx = x.fx
  BY <1>11 DEF DrainState
<1>13. Caught(set, pt, m, cpu)
  <2>1. set = DrainState(set.m, cpu, set.p, set.fx, <<>>)
    BY <1>11, <1>12, Zenon
  <2> QED
    BY <2>1, <1>4, <1>7, <1>8, <1>9, <1>12, Zenon DEF Caught
<1>14. CompareCheckpoint(set) = set /\ CompareEnd(set) = set
  <2>1. set.fx.checkpoint \in {NoRegs, RegsOf(set.cpu)} /\ set.fx.end \in {NoRegs, RegsOf(set.cpu)}
    BY <1>7, <1>12, Zenon
  <2> QED
    BY <2>1, Zenon DEF CompareCheckpoint, CompareEnd
<1>15. Checked(pt, retired) = CompareEnd(IF retired THEN CompareCheckpoint(set) ELSE set)
  BY <1>3, Zenon DEF Checked, set, x
<1>16. Checked(pt, retired) = set
  BY <1>14, <1>15, Zenon
<1> QED
  BY <1>13, <1>16, Zenon

-----------------------------------------------------------------------------
(* A hook of the recording: what it appends, and what that brings.         *)

\* f is the recording one hook after st, with d appended to its log.
HookLogged(st, f, d) ==
    /\ f = State(f.m, WithIrq(st.cpu, f.m.level), EmptyWriteLog,
                 [ordinal |-> st.r.ordinal + 1, last_ipl |-> f.m.level, table |-> st.r.table], st.log \o d)
    /\ f.m \in LiveMachine /\ f.m.overlay = st.m.overlay /\ f.m.fast = st.m.fast
    /\ IsList(d)
    /\ \A k \in 1..Len(d) : /\ d[k].ordinal = st.r.ordinal + 1 /\ Holds(d[k], f.m, f.cpu)
                            /\ d[k].tag = "End" => k = Len(d)
    /\ \A c \in Cells : st.m.ram[c] = f.m.ram[c] \/ \E k \in 1..Len(d) : Covered(d[k], c)
    /\ st.m.level = f.m.level \/ Tagged(d, "IplChange")

LEMMA HookLogs ==
    ASSUME NEW st, RecState(st), NEW h, NEW d, NEW level, Hooked(st, h, d, level),
           ~h.wl.overflowed, NEW last \in BOOLEAN
    PROVE  \E f : HookLogged(st, IF last THEN finish(h) ELSE h, f)
<1> DEFINE r == [ordinal |-> st.r.ordinal + 1, last_ipl |-> level, table |-> st.r.table]
           cpu == WithIrq(st.cpu, level)
           o == st.r.ordinal + 1
           l == st.log \o d
           e == Event(h, "End", [regs |-> RegsOf(h.cpu), digests |-> ram_digests(h.m)])
<1>1. /\ h = State(h.m, cpu, h.wl, r, l)
      /\ h.m \in LiveMachine /\ h.m.level = level
      /\ h.m.overlay = st.m.overlay /\ h.m.fast = st.m.fast
      /\ Fits(d, o, h.m, h.cpu) /\ NoEnd(d)
      /\ h.wl = EmptyWriteLog
      /\ \A c \in Cells : st.m.ram[c] = h.m.ram[c] \/ \E k \in 1..Len(d) : Covered(d[k], c)
      /\ st.m.level = level \/ Tagged(d, "IplChange")
  BY DEF Hooked
<1>2. IsList(st.log) /\ IsList(d) /\ IsList(l) /\ Len(d) \in Nat
  <2>1. IsList(st.log) /\ IsList(d)
    BY <1>1, Zenon DEF RecState, RecShape, Fits
  <2> QED
    BY <2>1, ListsJoined, Zenon DEF IsList
<1>3. h.cpu = cpu /\ h.r.ordinal = o
  <2>1. r.ordinal = o
    OBVIOUS
  <2> HIDE DEF r, cpu, l
  <2> QED
    BY <1>1, <2>1 DEF State
<1> HIDE DEF r, cpu, l, o
<1>4. ASSUME NEW f, NEW g, f = State(h.m, cpu, EmptyWriteLog, r, st.log \o g),
             Fits(g, o, h.m, cpu), \A k \in 1..Len(g) : g[k].tag = "End" => k = Len(g),
             \A c \in Cells : st.m.ram[c] = h.m.ram[c] \/ \E k \in 1..Len(g) : Covered(g[k], c),
             st.m.level = level \/ Tagged(g, "IplChange")
      PROVE  HookLogged(st, f, g)
  <2> DEFINE lg == st.log \o g
  <2> HIDE DEF lg
  <2>1. f = State(h.m, cpu, EmptyWriteLog, r, lg)
    BY <1>4, Zenon DEF lg
  <2>2. f.m = h.m /\ f.cpu = cpu
    BY <2>1 DEF State
  <2>3. f = State(f.m, WithIrq(st.cpu, f.m.level), EmptyWriteLog,
                 [ordinal |-> st.r.ordinal + 1, last_ipl |-> f.m.level, table |-> st.r.table], st.log \o g)
    BY <2>1, <2>2, <1>1, Zenon DEF lg, cpu, r
  <2>4. IsList(g) /\ \A k \in 1..Len(g) : g[k].ordinal = st.r.ordinal + 1 /\ Holds(g[k], f.m, f.cpu)
    BY <1>4, <2>2, Zenon DEF Fits, o
  <2> QED
    BY <2>2, <2>3, <2>4, <1>1, <1>4, Zenon DEF HookLogged
<1>5. CASE ~last
  <2>1. HookLogged(st, h, d)
    <3>1. h = State(h.m, cpu, EmptyWriteLog, r, st.log \o d)
      BY <1>1, Zenon DEF l
    <3>2. \A k \in 1..Len(d) : d[k].tag = "End" => k = Len(d)
      BY <1>1 DEF NoEnd
    <3> QED
      BY <3>1, <3>2, <1>1, <1>3, <1>4, Zenon
  <2> QED
    BY <2>1, <1>5, Zenon
<1>6. CASE last
  <2> DEFINE g == d \o <<e>>
  <2>1. e.tag = "End" /\ e.ordinal = o /\ Holds(e, h.m, cpu)
    <3> DEFINE a == RegsOf(h.cpu)
               b == ram_digests(h.m)
    <3>1. a = RegsOf(cpu) /\ b = ram_digests(h.m)
      BY <1>3, Zenon
    <3> HIDE DEF a, b
    <3>2. e = [tag |-> "End", ordinal |-> o, body |-> [regs |-> a, digests |-> b]]
      BY <1>3, Zenon DEF Event, a, b
    <3> HIDE DEF e
    <3> QED
      BY <3>1, <3>2 DEF Holds
  <2> HIDE DEF e
  <2>2. Fits(<<e>>, o, h.m, cpu)
    BY <2>1, FitsOne, Zenon
  <2>3. Fits(d, o, h.m, cpu)
    BY <1>1, <1>3, Zenon
  <2>4. /\ Fits(g, o, h.m, cpu)
        /\ \A tag : Tagged(d, tag) \/ Tagged(<<e>>, tag) => Tagged(g, tag)
        /\ \A c : (\E k \in 1..Len(d) : Covered(d[k], c)) \/ (\E k \in 1..Len(<<e>>) : Covered(<<e>>[k], c))
                       => \E k \in 1..Len(g) : Covered(g[k], c)
    BY <2>2, <2>3, FitsJoined
  <2>5. IsList(<<e>>) /\ Len(<<e>>) = 1
    BY ShortLists, NothingIsAList, Zenon
  <2>6. Len(g) = Len(d) + 1 /\ \A k \in 1..Len(d) : g[k] = d[k]
    <3> DEFINE w == <<e>>
    <3> HIDE DEF w
    <3>1. IsList(w) /\ Len(w) = 1
      BY <2>5 DEF w
    <3>2. Len(d \o w) = Len(d) + Len(w) /\ \A k \in 1..Len(d) : (d \o w)[k] = d[k]
      BY <3>1, <1>2, ListsJoined
    <3> QED
      BY <3>1, <3>2 DEF w
  <2> HIDE DEF g
  <2>7. \A k \in 1..Len(g) : g[k].tag = "End" => k = Len(g)
    <3> SUFFICES ASSUME NEW k \in 1..Len(g), k # Len(g) PROVE g[k].tag # "End"
      OBVIOUS
    <3>1. k \in 1..Len(d)
      BY <1>2, <2>6
    <3> QED
      BY <3>1, <2>6, <1>1 DEF NoEnd
  <2>8. finish(h) = State(h.m, cpu, EmptyWriteLog, r, st.log \o g)
    <3>1. finish(h) = Put(h, e)
      BY Zenon DEF finish, e
    <3>2. h = State(h.m, cpu, EmptyWriteLog, r, l)
      BY <1>1, Zenon
    <3>3. Put(State(h.m, cpu, EmptyWriteLog, r, l), e) = State(h.m, cpu, EmptyWriteLog, r, l \o <<e>>)
      <4>1. StatePut(h.m, cpu, EmptyWriteLog, r, l, e)
        BY <1>2, StatePuts, Zenon
      <4> QED
        BY <4>1, Zenon DEF StatePut
    <3>4. l \o <<e>> = st.log \o g
      <4>1. Associate(st.log, d, <<e>>)
        BY <1>2, <2>5, ListsAssociate, Zenon
      <4> QED
        BY <4>1, Zenon DEF Associate, l, g
    <3> QED
      BY <3>1, <3>2, <3>3, <3>4, Zenon
  <2>9. HookLogged(st, finish(h), g)
    <3>1. st.m.level = level \/ Tagged(g, "IplChange")
      BY <1>1, <2>4, Zenon
    <3>2. \A c \in Cells : st.m.ram[c] = h.m.ram[c] \/ \E k \in 1..Len(g) : Covered(g[k], c)
      BY <1>1, <2>4, Zenon
    <3> QED
      BY <3>1, <3>2, <2>4, <2>7, <2>8, <1>4, Zenon
  <2> QED
    BY <2>9, <1>6, Zenon
<1> QED
  BY <1>5, <1>6

\* Events that carry the table t.
Remaps(e, o, t) ==
    /\ IsList(e)
    /\ \A k \in 1..Len(e) : e[k].tag = "ClassificationTransition" /\ e[k].ordinal = o /\ e[k].body.table = t
\* The replay q has executed what brought the recording to st, but for the events e.
Follows(q, st, e) ==
    /\ PlayState(q) /\ q.p.ordinal = st.r.ordinal /\ q.m.fast = st.m.fast /\ q.m.ram = st.m.ram
    /\ q.cpu = st.cpu /\ q.cpu.irq = st.m.level
    /\ Remaps(e, st.r.ordinal, TableOf(st.m))
    /\ q.p.table = TableOf(st.m) \/ Tagged(e, "ClassificationTransition")

LEMMA HookCatches ==
    ASSUME NEW st, RecState(st), NEW f, NEW d, HookLogged(st, f, d),
           NEW q, NEW e, Follows(q, st, e), q.log = e \o d
    PROVE  Catches(q, f.m, f.cpu) /\ f.cpu \in Cpus
<1> DEFINE g == e \o d
           o == st.r.ordinal
           lg == st.log \o d
           r == [ordinal |-> st.r.ordinal + 1, last_ipl |-> f.m.level, table |-> st.r.table]
<1>1. /\ f = State(f.m, WithIrq(st.cpu, f.m.level), EmptyWriteLog, r, lg)
      /\ f.m \in LiveMachine /\ f.m.overlay = st.m.overlay /\ f.m.fast = st.m.fast
      /\ IsList(d)
      /\ \A k \in 1..Len(d) : /\ d[k].ordinal = o + 1 /\ Holds(d[k], f.m, f.cpu)
                              /\ d[k].tag = "End" => k = Len(d)
      /\ \A c \in Cells : st.m.ram[c] = f.m.ram[c] \/ \E k \in 1..Len(d) : Covered(d[k], c)
      /\ st.m.level = f.m.level \/ Tagged(d, "IplChange")
  BY DEF HookLogged
<1>2. /\ PlayState(q) /\ q.p.ordinal = o /\ q.m.fast = st.m.fast /\ q.m.ram = st.m.ram
      /\ q.cpu = st.cpu /\ q.cpu.irq = st.m.level /\ IsList(e)
      /\ \A k \in 1..Len(e) : e[k].tag = "ClassificationTransition" /\ e[k].ordinal = o /\ e[k].body.table = TableOf(st.m)
      /\ q.p.table = TableOf(st.m) \/ Tagged(e, "ClassificationTransition")
  BY DEF Follows, Remaps
<1> HIDE DEF r, lg
<1>3. f.cpu = WithIrq(st.cpu, f.m.level)
  BY <1>1 DEF State
<1>4. /\ f.cpu.acc = st.cpu.acc /\ f.cpu.stopped = st.cpu.stopped /\ f.cpu.irq = f.m.level /\ f.cpu \in Cpus
  <2>1. f.m.level \in 0..1 /\ st.cpu \in Cpus
    BY <1>1 DEF LiveMachine, RecState
  <2> QED
    BY <2>1, <1>3 DEF WithIrq, Cpus
<1>5. TableOf(f.m) = TableOf(st.m)
  BY <1>1, Zenon DEF TableOf
<1>6. /\ IsList(g) /\ Len(g) = Len(e) + Len(d) /\ Len(e) \in Nat /\ Len(d) \in Nat /\ o \in Nat
      /\ \A k \in 1..Len(e) : g[k] = e[k]
      /\ \A k \in 1..Len(d) : g[Len(e) + k] = d[k]
  <2>1. Len(e) \in Nat /\ Len(d) \in Nat
    BY <1>1, <1>2, Zenon DEF IsList
  <2>2. o \in Nat
    BY DEF RecState, Recorders
  <2> QED
    BY <1>1, <1>2, <2>1, <2>2, ListsJoined
<1> HIDE DEF g, o
<1>7. \A k \in 1..Len(g) : (k \in 1..Len(e) /\ g[k] = e[k]) \/ (k - Len(e) \in 1..Len(d) /\ g[k] = d[k - Len(e)])
  <2> TAKE k \in 1..Len(g)
  <2>1. CASE k <= Len(e)
    BY <2>1, <1>6
  <2>2. CASE ~(k <= Len(e))
    <3>1. k - Len(e) \in 1..Len(d) /\ Len(e) + (k - Len(e)) = k
      BY <2>2, <1>6
    <3>2. g[Len(e) + (k - Len(e))] = d[k - Len(e)]
      BY <3>1, <1>6
    <3> QED
      BY <3>1, <3>2
  <2> QED
    BY <2>1, <2>2
<1>8. \A k \in 1..Len(d) : Len(e) + k \in 1..Len(g)
  BY <1>6
<1>9. \A k \in 1..Len(e) : k \in 1..Len(g)
  BY <1>6
<1>10. ASSUME NEW k \in 1..Len(g)
       PROVE  /\ g[k].ordinal \in Nat /\ g[k].ordinal <= o + 1 /\ Holds(g[k], f.m, f.cpu)
              /\ g[k].tag = "End" => k = Len(g)
  <2>1. CASE k \in 1..Len(e) /\ g[k] = e[k]
    <3>1. g[k].tag = "ClassificationTransition" /\ g[k].ordinal = o /\ g[k].body.table = TableOf(f.m)
      BY <2>1, <1>2, <1>5
    <3> QED
      BY <3>1, <1>6 DEF Holds, TableOf
  <2>2. CASE k - Len(e) \in 1..Len(d) /\ g[k] = d[k - Len(e)]
    <3>1. d[k - Len(e)].ordinal = o + 1 /\ Holds(d[k - Len(e)], f.m, f.cpu)
          /\ (d[k - Len(e)].tag = "End" => k - Len(e) = Len(d))
      BY <2>2, <1>1
    <3>2. k - Len(e) = Len(d) => k = Len(g)
      BY <1>6
    <3> QED
      BY <3>1, <3>2, <2>2, <1>6
  <2> QED
    BY <2>1, <2>2, <1>7
<1>11. \A c \in Cells : q.m.ram[c] = f.m.ram[c] \/ \E k \in 1..Len(g) : Covered(g[k], c)
  <2> SUFFICES ASSUME NEW c \in Cells, q.m.ram[c] # f.m.ram[c] PROVE \E k \in 1..Len(g) : Covered(g[k], c)
    OBVIOUS
  <2>1. PICK k \in 1..Len(d) : Covered(d[k], c)
    BY <1>1, <1>2
  <2>2. g[Len(e) + k] = d[k]
    BY <1>6
  <2>3. Covered(g[Len(e) + k], c)
    BY <2>1, <2>2, Zenon
  <2> QED
    BY <2>3, <1>8, Zenon
<1>12. q.p.table = TableOf(f.m) \/ Tagged(g, "ClassificationTransition")
  BY <1>2, <1>5, <1>6, <1>9 DEF Tagged
<1>13. q.cpu.irq = f.m.level \/ Tagged(g, "IplChange")
  <2> SUFFICES ASSUME q.cpu.irq # f.m.level PROVE Tagged(g, "IplChange")
    OBVIOUS
  <2>1. Tagged(d, "IplChange")
    BY <1>1, <1>2
  <2> QED
    BY <2>1, <1>6, <1>8 DEF Tagged
<1>14. Brings(g, q, f.m, f.cpu)
  BY <1>10, <1>11, <1>12, <1>13, <1>2 DEF Brings, TableOf
<1>15. q.cpu.acc = f.cpu.acc /\ q.cpu.stopped = f.cpu.stopped /\ q.m.fast = f.m.fast
  BY <1>1, <1>2, <1>4
<1> QED
  BY <1>1, <1>2, <1>4, <1>14, <1>15, Zenon DEF Catches, g

-----------------------------------------------------------------------------
(* The steps of the two runs.                                              *)

Behindhand(st, d) == [m |-> twin, cpu |-> slave, p |-> player, log |-> st.log \o d]

\* The recording has come to st by instruction i, which brings the replay there
\* too but for the events e.
Prepared(i, st, e) ==
    /\ RecState(st) /\ st.wl = EmptyWriteLog /\ st.r.last_ipl = st.m.level /\ st.r.ordinal = rec.ordinal
    /\ i \in Instrs \cup {<<"tick", 0>>} /\ Retires(i) /\ (i[1] = "tick" <=> ~Running(slave))
    /\ \A d : IsList(d) => LET q == ReplayExecute(i, Behindhand(st, d))
                           IN  Follows(q, st, e) /\ q.log = e \o d /\ q.p = player

LEMMA RecordedHook ==
    ASSUME ReplayInv, outcome = "running", turn = "record",
           NEW i, NEW st, NEW e, Prepared(i, st, e), RecordHook(i, st)
    PROVE  ReplayInv'
<1>1. RecordingInv /\ PlayerInv /\ Together
  BY DEF ReplayInv
<1>2. /\ RecState(st) /\ st.wl = EmptyWriteLog /\ st.r.last_ipl = st.m.level /\ st.r.ordinal = rec.ordinal
      /\ i \in Instrs \cup {<<"tick", 0>>} /\ Retires(i) /\ (i[1] = "tick" <=> ~Running(slave))
  BY DEF Prepared
<1>3. PICK burst \in Bursts, reg \in Val, level \in 0..1, last \in BOOLEAN :
         LET hooked == Hook(st, burst, reg, level)
         IN  IF hooked.wl.overflowed
             THEN /\ outcome' = "aborted" /\ Commit(hooked)
                  /\ UNCHANGED <<twin, slave, player, instr, turn>>
             ELSE /\ Commit(IF last THEN finish(hooked) ELSE hooked)
                  /\ instr' = i /\ turn' = "replay"
                  /\ UNCHANGED <<twin, slave, player, outcome>>
  BY ZenonT(60) DEF RecordHook
<1> DEFINE h == Hook(st, burst, reg, level)
<1>4. burst \in Seq(Spans)
  BY ReplayConstants DEF Spans
<1>5. PICK c : Hooked(st, h, c, level)
  BY <1>2, <1>4, Hooks, Zenon
<1> HIDE DEF h
<1>6. CASE h.wl.overflowed
  <2>1. outcome' = "aborted" /\ turn' = turn
    BY <1>3, <1>6 DEF h
  <2> QED
    BY <2>1 DEF ReplayInv
<1>7. CASE ~h.wl.overflowed
  <2> DEFINE f == IF last THEN finish(h) ELSE h
  <2>1. /\ Commit(f) /\ instr' = i /\ turn' = "replay"
        /\ twin' = twin /\ slave' = slave /\ player' = player /\ outcome' = outcome
    BY <1>3, <1>7 DEF h
  <2>2. PICK d : HookLogged(st, f, d)
    BY <1>2, <1>5, <1>7, HookLogs, Zenon
  <2> HIDE DEF f
  <2> DEFINE pt == Behindhand(st, d)
             q == ReplayExecute(i, pt)
             lg == st.log \o d
             r == [ordinal |-> st.r.ordinal + 1, last_ipl |-> f.m.level, table |-> st.r.table]
  <2>3. IsList(d) /\ IsList(lg)
    BY <2>2, <1>2, ListsJoined, Zenon DEF HookLogged, RecState, RecShape
  <2>4. Follows(q, st, e) /\ q.log = e \o d /\ q.p = player
    BY <2>3, Zenon DEF Prepared
  <2> HIDE DEF q, pt
  <2>5. Catches(q, f.m, f.cpu)
    BY <2>2, <2>4, <1>2, HookCatches, Zenon
  <2>6. f = State(f.m, WithIrq(st.cpu, f.m.level), EmptyWriteLog, r, lg)
    BY <2>2, Zenon DEF HookLogged
  <2>7. f.m.overlay = st.m.overlay /\ f.m.fast = st.m.fast
    BY <2>2, Zenon DEF HookLogged
  <2>8. f.wl = EmptyWriteLog /\ f.r = r /\ f.log = lg
    <3> HIDE DEF r, lg
    <3> QED
      BY <2>6 DEF State
  <2>9. live' = f.m /\ master' = f.cpu /\ write_log' = EmptyWriteLog /\ rec' = r /\ log' = lg
    BY <2>1, <2>8, Zenon DEF Commit
  <2>10. RecordingInv'
    <3>1. live' \in LiveMachine /\ master' \in Cpus /\ master'.irq = live'.level
      BY <2>5, <2>9, Zenon DEF Catches
    <3>2. /\ rec' \in Recorders /\ rec'.table = build_page_table(live'.overlay, live'.fast)
          /\ rec'.last_ipl = live'.level
      <4>1. st.r \in Recorders /\ st.r.table = build_page_table(st.m.overlay, st.m.fast)
        BY <1>2, Zenon DEF RecState
      <4>2. f.m.level \in 0..1
        BY <3>1, <2>9 DEF LiveMachine
      <4>3. r \in Recorders /\ r.table = st.r.table /\ r.last_ipl = f.m.level
        BY <4>1, <4>2 DEF Recorders
      <4> QED
        BY <4>1, <4>3, <2>7, <2>9, Zenon
    <3> QED
      BY <3>1, <3>2, <2>9, Zenon DEF RecordingInv
  <2> HIDE DEF lg
  <2>11. PlayerInv'
    <3>1. Played' = [m |-> twin, cpu |-> slave, p |-> player, log |-> lg]
      BY <2>1, <2>9 DEF Played
    <3>2. twin \in TwinMachine /\ slave \in Cpus /\ player \in Players
      BY <1>1 DEF PlayerInv, Played, PlayState
    <3> DEFINE s == [m |-> twin, cpu |-> slave, p |-> player, log |-> lg]
    <3>3. PlayState(s)
      BY <3>2, <2>3 DEF PlayState, lg
    <3> QED
      BY <3>1, <3>3, Zenon DEF PlayerInv
  <2>12. Executed' = q
    <3>1. Played' = pt
      BY <2>1, <2>9 DEF Played, pt, Behindhand, lg
    <3> QED
      BY <3>1, <2>1, Zenon DEF Executed, q
  <2>13. Behind'
    <3>1. rec'.ordinal = player'.ordinal + 1
      BY <2>1, <2>9, <1>1, <1>2 DEF Together
    <3>2. Running(slave') <=> Running(slave)
      BY <2>1
    <3> QED
      BY <3>1, <3>2, <2>1, <2>4, <2>5, <2>9, <2>12, <1>2, Zenon DEF Behind
  <2> QED
    BY <2>1, <2>10, <2>11, <2>13 DEF ReplayInv
<1> QED
  BY <1>6, <1>7

LEMMA RecordingStarts ==
    ASSUME ReplayInv, outcome = "running", turn = "record"
    PROVE  /\ RecState(Recorded) /\ Recorded.log = <<>> /\ Recorded.wl = EmptyWriteLog
           /\ Recorded.m = live /\ Recorded.cpu = master /\ Recorded.r = rec
           /\ rec.last_ipl = live.level /\ master.irq = live.level
           /\ twin.fast = live.fast /\ twin.ram = live.ram /\ slave = master
           /\ player.ordinal = rec.ordinal /\ player.table = rec.table
           /\ twin \in TwinMachine /\ slave \in Cpus /\ player \in Players
<1>1. RecordingInv /\ PlayerInv /\ Together
  BY DEF ReplayInv
<1>2. twin \in TwinMachine /\ slave \in Cpus /\ player \in Players
  BY <1>1 DEF PlayerInv, Played, PlayState
<1>3. EmptyWriteLog \in WriteLogs
  BY DEF EmptyWriteLog, WriteLogs
<1>4. IsList(<<>>)
  BY NothingIsAList
<1>5. Recorded = [m |-> live, cpu |-> master, wl |-> write_log, r |-> rec, log |-> log]
  BY DEF Recorded
<1>6. /\ Recorded.m = live /\ Recorded.cpu = master /\ Recorded.wl = write_log
      /\ Recorded.r = rec /\ Recorded.log = log
  BY <1>5
<1>7. RecState(Recorded)
  BY <1>1, <1>3, <1>4, <1>5, <1>6 DEF RecState, RecShape, RecordingInv, Together
<1> QED
  BY <1>1, <1>2, <1>6, <1>7 DEF RecordingInv, Together

\* What the guest's instruction i does to the recording and to the replay
\* behind it.
LEMMA BothExecute ==
    ASSUME ReplayInv, outcome = "running", turn = "record", Running(master), NEW i \in Instrs
    PROVE  LET st == After(Recorded, i)
               e == MapEvents(Recorded, MachineAfter(Recorded, i))
           IN  /\ RecState(st) /\ st.wl = EmptyWriteLog /\ st.r.last_ipl = st.m.level
               /\ st.r.ordinal = rec.ordinal /\ ExecuteInstr(BusRead, BusWrite, Recorded, i) = st
               /\ \A d : IsList(d) => LET q == ReplayExecute(i, Behindhand(st, d))
                                      IN  Follows(q, st, e) /\ q.log = e \o d /\ q.p = player
<1> DEFINE st == After(Recorded, i)
           w == MachineAfter(Recorded, i)
           e == MapEvents(Recorded, w)
           c == CpuAfter(Recorded, i)
<1>1. /\ RecState(Recorded) /\ Recorded.log = <<>> /\ Recorded.wl = EmptyWriteLog
      /\ Recorded.m = live /\ Recorded.cpu = master /\ Recorded.r = rec
      /\ rec.last_ipl = live.level /\ master.irq = live.level
      /\ twin.fast = live.fast /\ twin.ram = live.ram /\ slave = master
      /\ player.ordinal = rec.ordinal /\ player.table = rec.table
      /\ twin \in TwinMachine /\ slave \in Cpus /\ player \in Players
  BY RecordingStarts
<1>2. ExecuteInstr(BusRead, BusWrite, Recorded, i) = st /\ RecState(st)
  BY <1>1, RecordExecutes, Zenon
<1> DEFINE acc == Accesses(Recorded, i)
           r == WithTable(Recorded.r, TableOf(w))
<1>3. st = [m |-> w, cpu |-> c, wl |-> Recorded.wl, r |-> r, log |-> acc \o e]
  BY Zenon DEF After
<1>4. /\ st.m = w /\ st.cpu = c /\ st.wl = EmptyWriteLog /\ st.r = r /\ st.log = acc \o e
  <2> HIDE DEF w, c, r, acc, e, st
  <2> QED
    BY <1>3, <1>1
<1>5. r.ordinal = rec.ordinal /\ r.last_ipl = rec.last_ipl /\ r.table = TableOf(w)
  BY <1>1 DEF WithTable
<1>6. w.level = live.level
  <2>1. CASE i[1] \in {"load", "stop"}
    BY <2>1, <1>1 DEF MachineAfter
  <2>2. CASE i[1] \notin {"load", "stop"}
    <3> DEFINE v == Stored(Recorded, i)
    <3>1. w = MachineWrite(live, i[2], v)
      BY <2>2, <1>1 DEF MachineAfter
    <3>2. i[2] \in Addresses
      BY <2>2, InstrParts
    <3>3. live \in LiveMachine /\ master \in Cpus
      BY <1>1, Zenon DEF RecState
    <3>4. v \in Val
      <4> DEFINE x == MachineRead(live, i[2])
      <4>1. x \in Val /\ master.acc \in Val
        BY <3>2, <3>3, MachineReads, CpuAwake
      <4>2. v = IF i[1] = "rmw" THEN 1 - x ELSE master.acc
        BY <1>1, Zenon DEF Stored
      <4> HIDE DEF v, x
      <4> QED
        BY <4>1, <4>2 DEF Val
    <3> HIDE DEF v, w
    <3>5. Wrote(live, i[2], v, w)
      BY <3>1, <3>2, <3>3, <3>4, MachineWrites, Zenon
    <3> QED
      BY <3>5 DEF Wrote
  <2> QED
    BY <2>1, <2>2
<1>7. c.irq = live.level
  BY <1>1 DEF CpuAfter
<1>8. i[1] # "tick"
  BY InstrParts
<1>9. Remaps(e, rec.ordinal, TableOf(w)) /\ (rec.table = TableOf(w) \/ Tagged(e, "ClassificationTransition"))
  <2> DEFINE t == TableOf(w)
             ev == Event(Recorded, "ClassificationTransition", [table |-> t])
  <2>1. ev.tag = "ClassificationTransition" /\ ev.ordinal = rec.ordinal /\ ev.body.table = t
    <3> HIDE DEF t
    <3>1. ev = [tag |-> "ClassificationTransition", ordinal |-> rec.ordinal, body |-> [table |-> t]]
      BY <1>1, Zenon DEF Event
    <3> HIDE DEF ev
    <3> QED
      BY <3>1
  <2>2. e = IF t = rec.table THEN <<>> ELSE <<ev>>
    BY <1>1, Zenon DEF MapEvents
  <2> HIDE DEF t, ev, e
  <2>3. IsList(<<>>) /\ IsList(<<ev>>) /\ Len(<<ev>>) = 1 /\ <<ev>>[1] = ev
    BY NothingIsAList, ShortLists, Zenon
  <2>4. CASE t = rec.table
    <3>1. e = <<>> /\ Len(e) = 0
      BY <2>2, <2>4
    <3> QED
      BY <3>1, <2>3, <2>4 DEF Remaps, t
  <2>5. CASE t # rec.table
    <3>1. e = <<ev>>
      BY <2>2, <2>5
    <3>2. IsList(e) /\ Len(e) = 1 /\ e[1] = ev
      BY <3>1, <2>3, Zenon
    <3> QED
      BY <3>2, <2>1 DEF Remaps, Tagged, t
  <2> QED
    BY <2>4, <2>5
<1>10. ASSUME NEW d, IsList(d)
       PROVE  LET q == ReplayExecute(i, Behindhand(st, d))
              IN  Follows(q, st, e) /\ q.log = e \o d /\ q.p = player
  <2> DEFINE pt == Behindhand(st, d)
             q == ReplayExecute(i, pt)
             l == st.log \o d
  <2>1. pt = [m |-> twin, cpu |-> slave, p |-> player, log |-> l]
    BY Zenon DEF Behindhand
  <2>2. IsList(l)
    BY <1>2, <1>10, ListsJoined, Zenon DEF RecState, RecShape
  <2>3. l = (acc \o e) \o d
    BY <1>4, Zenon
  <2> HIDE DEF l, pt, st, w, e, c, acc
  <2>4. pt.m = twin /\ pt.cpu = slave /\ pt.p = player /\ pt.log = l
    BY <2>1
  <2>5. PlayState(pt)
    BY <2>1, <2>2, <2>4, <1>1 DEF PlayState
  <2>6. Twins(Recorded, pt)
    BY <2>4, <1>1, Zenon DEF Twins
  <2>7. Replayed(ExecuteInstr(replay_read, replay_write, pt, i), w, c, pt.p, e \o d)
    BY <2>3, <2>4, <2>5, <2>6, <1>1, <1>10, ReplayExecutes, Zenon DEF w, e, c, acc
  <2>8. q = ExecuteInstr(replay_read, replay_write, pt, i)
    BY <1>8, Zenon DEF ReplayExecute
  <2>9. Replayed(q, w, c, player, e \o d)
    BY <2>4, <2>7, <2>8, Zenon
  <2> HIDE DEF q
  <2>10. PlayState(q) /\ q.m.fast = w.fast /\ q.m.ram = w.ram /\ q.cpu = c /\ q.p = player /\ q.log = e \o d
    BY <2>9, Zenon DEF Replayed
  <2>11. Follows(q, st, e)
    <3>1. q.p.ordinal = st.r.ordinal /\ q.m.fast = st.m.fast /\ q.m.ram = st.m.ram /\ q.cpu = st.cpu
      BY <2>10, <1>1, <1>4, <1>5
    <3>2. q.cpu.irq = st.m.level
      BY <2>10, <1>4, <1>6, <1>7
    <3>3. Remaps(e, st.r.ordinal, TableOf(st.m))
      BY <1>4, <1>5, <1>9, Zenon
    <3>4. q.p.table = TableOf(st.m) \/ Tagged(e, "ClassificationTransition")
      BY <2>10, <1>1, <1>4, <1>9
    <3> QED
      BY <2>10, <3>1, <3>2, <3>3, <3>4, Zenon DEF Follows
  <2> QED
    BY <2>10, <2>11, Zenon DEF q, pt
<1>11. st.r.last_ipl = st.m.level /\ st.r.ordinal = rec.ordinal
  BY <1>1, <1>4, <1>5, <1>6
<1> HIDE DEF st, e
<1>12. \A d : IsList(d) => LET q == ReplayExecute(i, Behindhand(st, d))
                           IN  Follows(q, st, e) /\ q.log = e \o d /\ q.p = player
  BY <1>10
<1> QED
  BY <1>2, <1>4, <1>11, <1>12, Zenon DEF st, e

LEMMA RecordsInstruction ==
    ASSUME ReplayInv, RecordInstruction
    PROVE  ReplayInv'
<1>1. outcome = "running" /\ turn = "record" /\ Running(master)
  BY DEF RecordInstruction
<1>2. PICK i \in Instrs : Retires(i) /\ RecordHook(i, ExecuteInstr(BusRead, BusWrite, Recorded, i))
  BY Zenon DEF RecordInstruction
<1> DEFINE st == After(Recorded, i)
           e == MapEvents(Recorded, MachineAfter(Recorded, i))
<1>3. /\ RecState(st) /\ st.wl = EmptyWriteLog /\ st.r.last_ipl = st.m.level
      /\ st.r.ordinal = rec.ordinal /\ ExecuteInstr(BusRead, BusWrite, Recorded, i) = st
      /\ \A d : IsList(d) => LET q == ReplayExecute(i, Behindhand(st, d))
                             IN  Follows(q, st, e) /\ q.log = e \o d /\ q.p = player
  BY <1>1, BothExecute, Zenon
<1> HIDE DEF st, e
<1>4. RecordHook(i, st)
  BY <1>2, <1>3, Zenon
<1>5. i[1] # "tick" /\ slave = master
  BY <1>1, InstrParts DEF ReplayInv, Together
<1>6. Prepared(i, st, e)
  BY <1>1, <1>2, <1>3, <1>5, Zenon DEF Prepared
<1> QED
  BY <1>1, <1>4, <1>6, RecordedHook, Zenon

LEMMA RecordsStopped ==
    ASSUME ReplayInv, RecordStopped
    PROVE  ReplayInv'
<1> DEFINE i == <<"tick", 0>>
           st == Recorded
<1>1. outcome = "running" /\ turn = "record" /\ ~Running(master) /\ RecordHook(i, st)
  BY Zenon DEF RecordStopped
<1>2. /\ RecState(st) /\ st.log = <<>> /\ st.wl = EmptyWriteLog
      /\ st.m = live /\ st.cpu = master /\ st.r = rec
      /\ rec.last_ipl = live.level /\ master.irq = live.level
      /\ twin.fast = live.fast /\ twin.ram = live.ram /\ slave = master
      /\ player.ordinal = rec.ordinal /\ player.table = rec.table
      /\ twin \in TwinMachine /\ slave \in Cpus /\ player \in Players
  BY <1>1, RecordingStarts
<1> HIDE DEF st
<1>3. i[1] = "tick" /\ i \in Instrs \cup {<<"tick", 0>>} /\ Retires(i)
  BY DEF Retires
<1> HIDE DEF i
<1>4. rec.table = TableOf(live)
  BY <1>2 DEF RecState, TableOf
<1>5. ASSUME NEW d, IsList(d)
      PROVE  LET q == ReplayExecute(i, Behindhand(st, d))
             IN  Follows(q, st, <<>>) /\ q.log = <<>> \o d /\ q.p = player
  <2> DEFINE pt == Behindhand(st, d)
             q == ReplayExecute(i, pt)
             l == st.log \o d
  <2>1. l = d /\ <<>> \o d = d /\ IsList(<<>>)
    BY <1>2, <1>5, ShortLists, Zenon
  <2>2. pt = [m |-> twin, cpu |-> slave, p |-> player, log |-> d]
    BY <2>1, Zenon DEF Behindhand
  <2>3. q = pt
    BY <1>3, Zenon DEF ReplayExecute
  <2> HIDE DEF q, pt
  <2>4. q.m = twin /\ q.cpu = slave /\ q.p = player /\ q.log = d
        /\ q = [m |-> q.m, cpu |-> q.cpu, p |-> q.p, log |-> q.log]
    BY <2>2, <2>3
  <2>5. PlayState(q)
    BY <2>4, <1>2, <1>5 DEF PlayState
  <2>6. Remaps(<<>>, st.r.ordinal, TableOf(st.m))
    <3>1. Len(<<>>) = 0
      OBVIOUS
    <3> QED
      BY <3>1, <2>1 DEF Remaps
  <2>7. Follows(q, st, <<>>)
    BY <2>4, <2>5, <2>6, <1>2, <1>4, Zenon DEF Follows
  <2> QED
    BY <2>1, <2>4, <2>7, Zenon DEF q, pt
<1>6. \A d : IsList(d) => LET q == ReplayExecute(i, Behindhand(st, d))
                          IN  Follows(q, st, <<>>) /\ q.log = <<>> \o d /\ q.p = player
  BY <1>5
<1>7. st.r.last_ipl = st.m.level /\ st.r.ordinal = rec.ordinal
  BY <1>2
<1>8. i[1] = "tick" <=> ~Running(slave)
  BY <1>1, <1>2, <1>3
<1>9. Prepared(i, st, <<>>)
  BY <1>2, <1>3, <1>6, <1>7, <1>8, Zenon DEF Prepared
<1> QED
  BY <1>1, <1>9, RecordedHook, Zenon

LEMMA RecordsTrap ==
    ASSUME ReplayInv, RecordTrap
    PROVE  ReplayInv'
<1>1. /\ outcome = "running" /\ turn = "record" /\ Running(master) /\ turn' = "replay"
      /\ twin' = twin /\ slave' = slave /\ player' = player /\ outcome' = outcome
  BY DEF RecordTrap
<1>2. PICK i \in Instrs : ~Retires(i) /\ Commit(ExecuteInstr(BusRead, BusWrite, Recorded, i)) /\ instr' = i
  BY Zenon DEF RecordTrap
<1> DEFINE st == After(Recorded, i)
           w == MachineAfter(Recorded, i)
           e == MapEvents(Recorded, w)
           pt == Behindhand(st, <<>>)
           q == ReplayExecute(i, pt)
<1>3. /\ RecState(st) /\ st.wl = EmptyWriteLog /\ st.r.last_ipl = st.m.level
      /\ st.r.ordinal = rec.ordinal /\ ExecuteInstr(BusRead, BusWrite, Recorded, i) = st
      /\ \A d : IsList(d) => LET x == ReplayExecute(i, Behindhand(st, d))
                             IN  Follows(x, st, e) /\ x.log = e \o d /\ x.p = player
  BY <1>1, BothExecute, Zenon
<1>4. i[1] = "trap" /\ i[1] # "tick"
  BY <1>2, InstrParts
<1>5. RecState(Recorded) /\ player.ordinal = rec.ordinal /\ player.table = rec.table /\ Recorded.r = rec
      /\ slave = master /\ twin \in TwinMachine /\ slave \in Cpus /\ player \in Players
  BY <1>1, RecordingStarts, Zenon
<1>6. Accesses(Recorded, i) = <<>> /\ e = <<>>
  BY <1>4, <1>5, TrapEvents, Zenon
<1>7. /\ st.m = w /\ st.log = <<>> /\ st.r.table = TableOf(w)
  <2> DEFINE a == Accesses(Recorded, i) \o e
             r == WithTable(Recorded.r, TableOf(w))
             c == CpuAfter(Recorded, i)
  <2>1. a = <<>>
    BY <1>6
  <2>2. r.table = TableOf(w)
    BY DEF WithTable
  <2>3. st = [m |-> w, cpu |-> c, wl |-> Recorded.wl, r |-> r, log |-> a]
    BY Zenon DEF After
  <2> HIDE DEF st, w, c, r, a, e
  <2> QED
    BY <2>1, <2>2, <2>3
<1> HIDE DEF st, w, e
<1>8. IsList(<<>>) /\ <<>> \o <<>> = <<>>
  BY NothingIsAList, ShortLists, Zenon
<1>9. Follows(q, st, <<>>) /\ q.log = <<>> /\ q.p = player
  BY <1>3, <1>6, <1>8, Zenon
<1>10. /\ live' = st.m /\ master' = st.cpu /\ write_log' = st.wl /\ rec' = st.r /\ log' = <<>>
  BY <1>2, <1>3, <1>7, Zenon DEF Commit
<1> HIDE DEF q, pt
<1>11. /\ PlayState(q) /\ q.p.ordinal = st.r.ordinal /\ q.m.fast = st.m.fast /\ q.m.ram = st.m.ram
       /\ q.cpu = st.cpu /\ q.cpu.irq = st.m.level
       /\ q.p.table = TableOf(st.m) \/ Tagged(<<>>, "ClassificationTransition")
  BY <1>9, Zenon DEF Follows
<1>12. RecordingInv'
  <2>1. st.m \in LiveMachine /\ st.cpu \in Cpus /\ st.r \in Recorders
        /\ st.r.table = build_page_table(st.m.overlay, st.m.fast)
    BY <1>3, Zenon DEF RecState
  <2> QED
    BY <2>1, <1>3, <1>10, <1>11 DEF RecordingInv
<1>13. PlayerInv'
  <2> DEFINE s == [m |-> twin, cpu |-> slave, p |-> player, log |-> <<>>]
  <2>1. Played' = s
    BY <1>1, <1>10 DEF Played
  <2>2. PlayState(s)
    BY <1>5, <1>8 DEF PlayState
  <2> QED
    BY <2>1, <2>2, Zenon DEF PlayerInv
<1>14. Executed' = q
  <2>1. Played' = pt
    BY <1>1, <1>7, <1>8, <1>10 DEF Played, pt, Behindhand
  <2> QED
    BY <2>1, <1>2, Zenon DEF Executed, q
<1>15. Behind'
  <2>1. Running(slave') /\ instr' \in Instrs /\ instr'[1] # "tick" /\ ~Retires(instr')
    BY <1>1, <1>2, <1>4, <1>5
  <2>2. q.p.table = TableOf(w)
    <3>1. ~Tagged(<<>>, "ClassificationTransition")
      <4>1. Len(<<>>) = 0
        OBVIOUS
      <4> QED
        BY <4>1 DEF Tagged
    <3> QED
      BY <3>1, <1>7, <1>11
  <2>3. player'.table = rec'.table /\ rec'.ordinal = player'.ordinal
    BY <2>2, <1>1, <1>7, <1>9, <1>10, <1>3, <1>5
  <2> QED
    BY <2>1, <2>3, <1>1, <1>9, <1>10, <1>11, <1>14 DEF Behind
<1> QED
  BY <1>1, <1>12, <1>13, <1>15 DEF ReplayInv

LEMMA ReplayedHook ==
    ASSUME ReplayInv, outcome = "running", turn = "replay", Retires(instr), NEW retired \in BOOLEAN,
           ReplayHook(Executed, retired)
    PROVE  ReplayInv'
<1>1. RecordingInv /\ Behind
  BY DEF ReplayInv
<1>2. Executed.p = player /\ rec.ordinal = player.ordinal + 1 /\ Catches(Executed, live, master)
  BY <1>1 DEF Behind
<1> DEFINE x == Checked(Executed, retired)
<1>3. Caught(x, Executed, live, master)
  BY <1>2, CatchesUp, Zenon
<1>4. /\ twin' = x.m /\ slave' = x.cpu /\ player' = x.p /\ log' = x.log
      /\ outcome' = IF x.p.divergence # "none" THEN "Wedged"
                    ELSE IF x.fx.end # NoRegs THEN "ReplayClean" ELSE outcome
      /\ turn' = "record"
      /\ UNCHANGED <<live, write_log, master, rec, instr>>
  BY Zenon DEF ReplayHook, Checked
<1> HIDE DEF x
<1>5. /\ x = DrainState(x.m, master, x.p, x.fx, <<>>)
      /\ x.m \in TwinMachine /\ x.m.fast = live.fast /\ x.m.ram = live.ram
      /\ x.p \in Players /\ x.p.ordinal = player.ordinal + 1 /\ x.p.table = TableOf(live)
  BY <1>2, <1>3, Zenon DEF Caught
<1>6. x.cpu = master /\ x.log = <<>> /\ x.p.divergence = "none"
  BY <1>5 DEF DrainState, Players
<1>7. master \in Cpus /\ rec.table = TableOf(live) /\ outcome' \in {"running", "ReplayClean"}
  BY <1>1, <1>4, <1>6 DEF RecordingInv, TableOf
<1>8. RecordingInv'
  BY <1>1, <1>4 DEF RecordingInv
<1>9. PlayerInv'
  <2> DEFINE m == x.m
             p == x.p
             s == [m |-> m, cpu |-> master, p |-> p, log |-> <<>>]
  <2>1. Played' = s
    BY <1>4, <1>6 DEF Played
  <2>2. m \in TwinMachine /\ p \in Players /\ IsList(<<>>)
    BY <1>5, NothingIsAList
  <2> HIDE DEF m, p
  <2>3. PlayState(s)
    BY <2>2, <1>7 DEF PlayState
  <2> QED
    BY <2>1, <2>3, Zenon DEF PlayerInv
<1>10. Together'
  BY <1>2, <1>4, <1>5, <1>6, <1>7 DEF Together
<1> QED
  BY <1>4, <1>7, <1>8, <1>9, <1>10 DEF ReplayInv

LEMMA ReplaysInstruction ==
    ASSUME ReplayInv, ReplayInstruction
    PROVE  ReplayInv'
<1>1. outcome = "running" /\ turn = "replay" /\ Retires(instr)
  BY DEF ReplayInstruction
<1>2. ReplayHook(Executed, TRUE)
  BY Zenon DEF ReplayInstruction, Executed, ReplayExecute
<1> QED
  BY <1>1, <1>2, ReplayedHook, Zenon

LEMMA ReplaysStopped ==
    ASSUME ReplayInv, ReplayStopped
    PROVE  ReplayInv'
<1>1. outcome = "running" /\ turn = "replay" /\ ~Running(slave) /\ ReplayHook(Played, FALSE)
  BY Zenon DEF ReplayStopped
<1>2. instr[1] = "tick"
  BY <1>1 DEF ReplayInv, Behind
<1>3. Retires(instr)
  BY <1>2 DEF Retires
<1>4. Executed = Played
  BY <1>2, Zenon DEF Executed, ReplayExecute
<1>5. ReplayHook(Executed, FALSE)
  BY <1>1, <1>4, Zenon
<1> QED
  BY <1>1, <1>3, <1>5, ReplayedHook, Zenon

LEMMA ReplaysTrap ==
    ASSUME ReplayInv, ReplayTrap
    PROVE  ReplayInv'
<1> DEFINE q == ExecuteInstr(replay_read, replay_write, Played, instr)
<1>1. /\ outcome = "running" /\ turn = "replay" /\ Running(slave) /\ ~Retires(instr) /\ turn' = "record"
      /\ twin' = q.m /\ slave' = q.cpu /\ player' = q.p /\ log' = q.log
      /\ UNCHANGED <<live, write_log, master, rec, instr, outcome>>
  BY Zenon DEF ReplayTrap
<1>2. RecordingInv /\ Behind
  BY <1>1 DEF ReplayInv
<1>3. instr[1] # "tick"
  BY <1>1, <1>2 DEF Behind
<1>4. q = Executed
  BY <1>3, Zenon DEF Executed, ReplayExecute
<1> HIDE DEF q
<1>5. /\ q.p = player /\ rec.ordinal = player.ordinal /\ PlayState(q) /\ q.log = <<>>
      /\ q.m.fast = live.fast /\ q.m.ram = live.ram /\ player.table = rec.table /\ q.cpu = master
  BY <1>1, <1>2, <1>4, Zenon DEF Behind
<1>6. RecordingInv'
  BY <1>1, <1>2 DEF RecordingInv
<1>7. PlayerInv'
  <2>1. q = [m |-> q.m, cpu |-> q.cpu, p |-> q.p, log |-> q.log]
    BY <1>5, Zenon DEF PlayState
  <2>2. Played' = q
    BY <2>1, <1>1, Zenon DEF Played
  <2> QED
    BY <2>2, <1>5, Zenon DEF PlayerInv
<1>8. Together'
  BY <1>1, <1>5 DEF Together
<1> QED
  BY <1>1, <1>6, <1>7, <1>8 DEF ReplayInv

LEMMA ReplayStarts ==
    ASSUME ReplayInit
    PROVE  ReplayInv
<1>1. /\ live = [overlay |-> TRUE, fast |-> FALSE, ram |-> [c \in Cells |-> 0], dev |-> 0, level |-> 0]
      /\ write_log = EmptyWriteLog
      /\ rec = [ordinal |-> 0, last_ipl |-> 0, table |-> build_page_table(TRUE, FALSE)]
      /\ twin = [overlay |-> TRUE, fast |-> FALSE, ram |-> [c \in Cells |-> 0], dev |-> 0]
      /\ player = [ordinal |-> 0, table |-> rec.table, divergence |-> "none"]
      /\ master = [acc |-> 0, irq |-> 0, stopped |-> FALSE] /\ slave = master
      /\ log = <<>> /\ turn = "record" /\ outcome = "running"
  BY DEF ReplayInit, Reset
<1> DEFINE ram == [c \in Cells |-> 0]
           table == build_page_table(TRUE, FALSE)
<1>2. ram \in Ram /\ table \in Tables /\ 0 \in Val
  <2>1. TRUE \in BOOLEAN /\ FALSE \in BOOLEAN
    OBVIOUS
  <2>2. table \in Tables
    BY <2>1, TableFields, Zenon
  <2> HIDE DEF table
  <2> QED
    BY <2>2 DEF Ram, Val
<1> HIDE DEF ram, table
<1>3. live \in LiveMachine /\ twin \in TwinMachine /\ master \in Cpus
  BY <1>1, <1>2 DEF LiveMachine, TwinMachine, Cpus, ram
<1>4. rec \in Recorders /\ player \in Players
  <2>1. rec = [ordinal |-> 0, last_ipl |-> 0, table |-> table]
    BY <1>1, Zenon DEF table
  <2>2. player = [ordinal |-> 0, table |-> table, divergence |-> "none"]
    <3>1. rec.table = table
      BY <2>1
    <3>2. player = [ordinal |-> 0, table |-> rec.table, divergence |-> "none"]
      BY <1>1, Zenon
    <3> QED
      BY <3>1, <3>2, Zenon
  <2> QED
    BY <1>2, <2>1, <2>2 DEF Recorders, Players
<1>5. RecordingInv
  BY <1>1, <1>3, <1>4 DEF RecordingInv
<1>6. PlayerInv
  <2>1. Played = [m |-> twin, cpu |-> slave, p |-> player, log |-> <<>>]
    BY <1>1, Zenon DEF Played
  <2>2. IsList(<<>>)
    BY NothingIsAList
  <2>3. slave \in Cpus
    BY <1>1, <1>3
  <2>4. PlayState([m |-> twin, cpu |-> slave, p |-> player, log |-> <<>>])
    BY <2>2, <2>3, <1>3, <1>4 DEF PlayState
  <2> QED
    BY <2>1, <2>4, Zenon DEF PlayerInv
<1>7. Together
  BY <1>1 DEF Together
<1> QED
  BY <1>1, <1>5, <1>6, <1>7 DEF ReplayInv

LEMMA ReplayInvHolds == ReplaySpec => []ReplayInv
<1>1. ReplayInit => ReplayInv
  BY ReplayStarts
<1>2. ReplayInv /\ [ReplayNext]_replayVars => ReplayInv'
  <2> SUFFICES ASSUME ReplayInv, [ReplayNext]_replayVars PROVE ReplayInv'
    OBVIOUS
  <2>1. CASE RecordInstruction
    BY <2>1, RecordsInstruction
  <2>2. CASE RecordTrap
    BY <2>2, RecordsTrap
  <2>3. CASE RecordStopped
    BY <2>3, RecordsStopped
  <2>4. CASE ReplayInstruction
    BY <2>4, ReplaysInstruction
  <2>5. CASE ReplayTrap
    BY <2>5, ReplaysTrap
  <2>6. CASE ReplayStopped
    BY <2>6, ReplaysStopped
  <2>7. CASE UNCHANGED replayVars
    BY <2>7 DEF replayVars, ReplayInv, RecordingInv, PlayerInv, Played, Together, Behind, Executed
  <2>8. CASE Ended
    BY <2>7, <2>8 DEF Ended
  <2> QED
    BY <2>1, <2>2, <2>3, <2>4, <2>5, <2>6, <2>7, <2>8 DEF ReplayNext
<1> QED
  BY <1>1, <1>2, PTL DEF ReplaySpec

(* Whenever both have passed the same hook, replay and recording have the  *)
(* same registers, interrupt level and RAM, the log is used up, and the    *)
(* player has reported no divergence.  This holds for every sequence of    *)
(* device writes, every capacity of the write log and every checkpoint     *)
(* interval: what run_guest_replay's ReplayClean is taken to mean.         *)
THEOREM ReplayIsItsRecording == ReplaySpec => []ReplayFollowsRecording
<1>1. ReplayInv => ReplayFollowsRecording
  <2> SUFFICES ASSUME ReplayInv, turn = "record", outcome # "aborted"
               PROVE  /\ slave = master /\ twin.ram = live.ram
                      /\ player.ordinal = rec.ordinal /\ log = <<>>
                      /\ player.divergence = "none" /\ outcome # "Wedged"
    BY Zenon DEF ReplayFollowsRecording
  <2>1. Together /\ PlayerInv /\ outcome # "Wedged"
    BY DEF ReplayInv
  <2>2. player \in Players
    BY <2>1 DEF PlayerInv, Played, PlayState
  <2> QED
    BY <2>1, <2>2 DEF Together, Players
<1> QED
  BY <1>1, ReplayInvHolds, PTL

=============================================================================
