------------------------------ MODULE HostProofs ------------------------------
(***************************************************************************)
(* The run loops and the host's sources, proved for every command line and *)
(* every guest: the input card keeps its events under a host that services *)
(* it once a frame, the guest's serial output arrives in order, its serial *)
(* input arrives whole, the wedge detector is right, and no key directive  *)
(* of an input script is skipped.                                          *)
(***************************************************************************)
EXTENDS RunLoop, InputProofs, FiniteSetTheorems

-----------------------------------------------------------------------------
(***************************************************************************)
(* The card: whatever the loop does is a step of the card or none.         *)
(***************************************************************************)
LEMMA AccessIsCardStep ==
    ASSUME SerialAccess \/ CardAccess \/ NoAccess
    PROVE  [CardNext]_inputVars
<1>1. CASE SerialAccess \/ NoAccess
  BY <1>1 DEF SerialAccess, NoAccess
<1>2. CASE CardAccess
  BY <1>2 DEF CardAccess, CardNext, history
<1> QED
  BY <1>1, <1>2

LEMMA LoopIsCardStep == HostNext => [CardNext]_inputVars
<1>1. ASSUME MainLoop PROVE [CardNext]_inputVars
  <2>1. CASE HookInstruction \/ ChunkGoesOn
    BY <2>1, AccessIsCardStep DEF HookInstruction, Retires, ChunkGoesOn
  <2>2. CASE HookTrap \/ HookStopped \/ HookCheck
    BY <2>2 DEF HookTrap, HookStopped, HookCheck, Trapped, Parked, RetiredCheck, NoAccess
  <2>3. CASE ChunkEnds \/ ChunkStopped \/ ChunkCheck \/ ChunkTick \/ Sleep \/ CatchUp
    BY <2>3 DEF ChunkEnds, ChunkStopped, ChunkCheck, ChunkTick, Sleep, CatchUp, NoAccess
  <2>4. CASE Drain \/ Drained \/ Service \/ ServiceSerialScript \/ InputScriptWaits \/ ServiceTcp
    BY <2>4 DEF Drain, Drained, Service, ServiceSerialScript, InputScriptWaits, ServiceTcp, NoAccess
  <2>5. CASE InputDirective
    BY <2>5 DEF InputDirective, CardNext
  <2> QED
    BY <1>1, <2>1, <2>2, <2>3, <2>4, <2>5 DEF MainLoop
<1>2. ASSUME BootLoop PROVE [CardNext]_inputVars
  <2>1. CASE BootInstruction
    BY <2>1, AccessIsCardStep DEF BootInstruction, Retires
  <2>2. CASE BootDrain \/ BootCheck \/ BootTrap \/ BootStopped
    BY <2>2 DEF BootDrain, BootCheck, BootTrap, BootStopped, RetiredCheck, Trapped, Parked, NoAccess
  <2> QED
    BY <1>2, <2>1, <2>2 DEF BootLoop
<1>3. ASSUME BootEnds \/ BridgeThread PROVE [CardNext]_inputVars
  BY <1>3 DEF BootEnds, BridgeThread
<1> QED
  BY <1>1, <1>2, <1>3 DEF HostNext

LEMMA HostKeepsCardInv == CardInv /\ [HostNext]_hostVars => CardInv'
<1>1. CASE HostNext
  BY <1>1, LoopIsCardStep, CardInvNext
<1>2. CASE UNCHANGED hostVars
  BY <1>2, CardInvNext DEF hostVars
<1> QED
  BY <1>1, <1>2

(***************************************************************************)
(* Under the run loop, whose input script pushes events once a frame and   *)
(* whose guest reads, pops and acknowledges between them, the card keeps   *)
(* every discrete event, in order, and none behind a cleared latch.        *)
(***************************************************************************)
THEOREM HostKeepsEvents == HostSpec => [](DiscreteEventsSurvive /\ LatchCoversQueue)
<1>1. HostInit => CardInv
  BY CardInvHolds DEF HostInit
<1>2. CardInv /\ [HostNext]_hostVars => CardInv'
  BY HostKeepsCardInv
<1>3. CardInv => DiscreteEventsSurvive /\ LatchCoversQueue
  BY CardInvSurvive DEF CardInv
<1> QED
  BY <1>1, <1>2, <1>3, PTL DEF HostSpec

-----------------------------------------------------------------------------
(***************************************************************************)
(* The serial output.  What the receiver has, what the bridge has taken to *)
(* write, what it holds and what is in the chipset's ring make one line:   *)
(* a byte moves along it, leaves it, or joins it at the end.               *)
(***************************************************************************)
Bytes == Seq(Nat)
Rising(s) == \A i, j \in 1 .. Len(s) : i < j => s[i] < s[j]
Join(s, t) == s \o t
LineOf(r, p, o, q) == Join(Join(Join(r, p), o), q)

(* The line rises, and what it holds and what was lost is what was sent. *)
Kept(s, lost, n) == s \in Bytes /\ n \in Nat /\ Rising(s) /\ Range(s) \cup lost = 1 .. n

(* A sequence's parts, named so that the provers need not look into them. *)
With(s, b) == Append(s, b)
Oldest(s) == Head(s)
Younger(s) == Tail(s)

LEMMA JoinFacts ==
    ASSUME NEW a \in Bytes, NEW b \in Bytes
    PROVE  /\ Join(a, b) \in Bytes /\ Range(Join(a, b)) = Range(a) \cup Range(b)
           /\ <<>> \in Bytes /\ Join(a, <<>>) = a /\ Join(<<>>, a) = a
<1> USE DEF Join, Bytes
<1>1. Join(a, b) \in Bytes
  BY ConcatProperties, Zenon
<1>2. Range(Join(a, b)) = Range(a) \cup Range(b)
  BY RangeConcatenation, Zenon
<1>3. <<>> \in Bytes
  BY EmptySeq, Zenon
<1>4. Join(a, <<>>) = a /\ Join(<<>>, a) = a
  BY ConcatEmptySeq, Zenon
<1> QED
  BY <1>1, <1>2, <1>3, <1>4, Zenon

LEMMA Regroup ==
    ASSUME NEW a \in Bytes, NEW b \in Bytes, NEW c \in Bytes
    PROVE  Join(Join(a, b), c) = Join(a, Join(b, c))
BY ConcatAssociative DEF Join, Bytes

LEMMA LineTypes ==
    ASSUME NEW r \in Bytes, NEW p \in Bytes, NEW o \in Bytes, NEW q \in Bytes
    PROVE  LineOf(r, p, o, q) \in Bytes
BY JoinFacts DEF LineOf

LEMMA JoinsAtEnd ==
    ASSUME NEW s, NEW lost, NEW n, Kept(s, lost, n)
    PROVE  Kept(Append(s, n + 1), lost, n + 1)
<1>1. s \in Seq(Nat) /\ n \in Nat /\ Range(s) \cup lost = 1 .. n /\ Rising(s)
  BY DEF Kept, Bytes
<1> DEFINE t == Append(s, n + 1)
<1>2. /\ t \in Seq(Nat) /\ Len(t) = Len(s) + 1 /\ Len(s) \in Nat
      /\ \A i \in 1 .. Len(s) : t[i] = s[i]
      /\ t[Len(s) + 1] = n + 1
  BY <1>1, AppendProperties, LenProperties
<1>3. Range(s) = {s[i] : i \in 1 .. Len(s)} /\ Range(t) = {t[i] : i \in 1 .. Len(t)}
  BY <1>1, <1>2, RangeEquality, Zenon
<1>4. \A i \in 1 .. Len(s) : s[i] \in 1 .. n
  BY <1>1, <1>3
<1> HIDE DEF t
<1>5. Rising(t)
  <2> SUFFICES ASSUME NEW i \in 1 .. Len(t), NEW j \in 1 .. Len(t), i < j PROVE t[i] < t[j]
    BY DEF Rising
  <2>1. CASE j = Len(s) + 1
    <3>1. i \in 1 .. Len(s)
      BY <1>2, <2>1
    <3>2. t[i] \in 1 .. n
      BY <1>2, <1>4, <3>1
    <3>3. t[j] = n + 1
      BY <1>2, <2>1
    <3> QED
      BY <1>1, <3>2, <3>3
  <2>2. CASE j # Len(s) + 1
    <3>1. i \in 1 .. Len(s) /\ j \in 1 .. Len(s)
      BY <1>2, <2>2
    <3> QED
      BY <1>1, <1>2, <3>1 DEF Rising
  <2> QED
    BY <2>1, <2>2
<1>6. Range(t) = Range(s) \cup {n + 1}
  BY <1>2, <1>3
<1>7. Range(t) \cup lost = 1 .. n + 1
  BY <1>1, <1>6
<1> QED
  BY <1>1, <1>2, <1>5, <1>7 DEF Kept, Bytes, t

LEMMA NeverJoins ==
    ASSUME NEW s, NEW lost, NEW n, Kept(s, lost, n)
    PROVE  Kept(s, lost \cup {n + 1}, n + 1)
BY DEF Kept

(* A part leaves from anywhere in the line. *)
LEMMA PartLeaves ==
    ASSUME NEW a \in Bytes, NEW m \in Bytes, NEW b \in Bytes, NEW lost, NEW n,
           Kept(Join(Join(a, m), b), lost, n)
    PROVE  Kept(Join(a, b), lost \cup Range(m), n)
<1> USE DEF Bytes, Join
<1> DEFINE s == (a \o m) \o b
           t == a \o b
<1>1. Len(a) \in Nat /\ Len(m) \in Nat /\ Len(b) \in Nat
  BY LenProperties, Zenon
<1>2. a \o m \in Seq(Nat) /\ Len(a \o m) = Len(a) + Len(m)
  BY ConcatProperties, Zenon
<1>3. \A i \in 1 .. Len(a) : s[i] = a[i] /\ t[i] = a[i]
  <2>1. \A i \in 1 .. Len(a) : (a \o m)[i] = a[i] /\ t[i] = a[i]
    BY <1>1, ConcatProperties
  <2>2. \A i \in 1 .. Len(a) : s[i] = (a \o m)[i]
    BY <1>1, <1>2, ConcatProperties
  <2> QED
    BY <2>1, <2>2
<1>4. \A i \in Len(a) + 1 .. Len(a) + Len(b) : t[i] = b[i - Len(a)] /\ s[i + Len(m)] = b[i - Len(a)]
  <2>1. \A i \in Len(a) + 1 .. Len(a) + Len(b) : t[i] = b[i - Len(a)]
    BY <1>1, ConcatProperties
  <2>2. \A i \in Len(a) + 1 .. Len(a) + Len(b) : s[i + Len(m)] = b[(i + Len(m)) - (Len(a) + Len(m))]
    BY <1>1, <1>2, ConcatProperties
  <2> QED
    BY <1>1, <2>1, <2>2
<1>5. /\ s \in Seq(Nat) /\ Len(s) = Len(a) + Len(m) + Len(b)
      /\ t \in Seq(Nat) /\ Len(t) = Len(a) + Len(b)
  <2>1. s \in Seq(Nat) /\ Len(s) = Len(a \o m) + Len(b)
    BY <1>2, ConcatProperties, Zenon
  <2>2. t \in Seq(Nat) /\ Len(t) = Len(a) + Len(b)
    BY ConcatProperties, Zenon
  <2> HIDE DEF s, t
  <2> QED
    BY <1>2, <2>1, <2>2
<1>6. Range(s) = (Range(a) \cup Range(m)) \cup Range(b) /\ Range(t) = Range(a) \cup Range(b)
  <2>1. Range(s) = Range(a \o m) \cup Range(b)
    BY <1>2, JoinFacts, Zenon
  <2>2. Range(a \o m) = Range(a) \cup Range(m) /\ Range(t) = Range(a) \cup Range(b)
    BY JoinFacts, Zenon
  <2> HIDE DEF s, t
  <2> QED
    BY <2>1, <2>2
<1>7. Rising(s) /\ n \in Nat /\ Range(s) \cup lost = 1 .. n
  BY DEF Kept
<1> HIDE DEF s, t
<1> DEFINE from(i) == IF i <= Len(a) THEN i ELSE i + Len(m)
<1>8. \A i \in 1 .. Len(t) : t[i] = s[from(i)] /\ from(i) \in 1 .. Len(s)
  <2> SUFFICES ASSUME NEW i \in 1 .. Len(t) PROVE t[i] = s[from(i)] /\ from(i) \in 1 .. Len(s)
    OBVIOUS
  <2>1. CASE i <= Len(a)
    BY <1>1, <1>3, <1>5, <2>1
  <2>2. CASE ~(i <= Len(a))
    <3>1. i \in Len(a) + 1 .. Len(a) + Len(b)
      BY <1>1, <1>5, <2>2
    <3>2. from(i) = i + Len(m)
      BY <2>2
    <3>3. t[i] = s[i + Len(m)]
      BY <1>4, <3>1
    <3>4. i + Len(m) \in 1 .. Len(s)
      BY <1>1, <1>5, <3>1
    <3> QED
      BY <3>2, <3>3, <3>4
  <2> QED
    BY <2>1, <2>2
<1>9. Rising(t)
  <2> SUFFICES ASSUME NEW i \in 1 .. Len(t), NEW j \in 1 .. Len(t), i < j PROVE t[i] < t[j]
    BY DEF Rising
  <2>1. from(i) < from(j)
    BY <1>1
  <2>2. /\ t[i] = s[from(i)] /\ from(i) \in 1 .. Len(s)
        /\ t[j] = s[from(j)] /\ from(j) \in 1 .. Len(s)
    BY <1>8
  <2> HIDE DEF from
  <2> QED
    BY <1>7, <2>1, <2>2 DEF Rising
<1>10. Range(t) \cup (lost \cup Range(m)) = 1 .. n
  BY <1>6, <1>7
<1> QED
  BY <1>5, <1>7, <1>9, <1>10 DEF Kept, t

(* The head of a sequence is its first part. *)
LEMMA HeadAndTail ==
    ASSUME NEW s \in Bytes, s # <<>>
    PROVE  /\ Oldest(s) \in Nat /\ <<Oldest(s)>> \in Bytes /\ Younger(s) \in Bytes
           /\ s = Join(<<Oldest(s)>>, Younger(s))
           /\ Range(<<Oldest(s)>>) = {Oldest(s)}
<1> USE DEF Bytes
<1>1. Oldest(s) \in Nat /\ Younger(s) \in Seq(Nat) /\ Len(s) \in Nat \ {0} /\ Oldest(s) = s[1]
  BY HeadTailProperties, EmptySeq DEF Oldest, Younger
<1>2. SubSeq(s, 1, Len(s)) = <<s[1]>> \o SubSeq(s, 2, Len(s))
  BY <1>1, SubSeqRecursiveFirst
<1>3. SubSeq(s, 1, Len(s)) = s /\ SubSeq(s, 2, Len(s)) = Younger(s)
  BY SubSeqFull, TailIsSubSeq, Zenon DEF Younger
<1>4. <<Oldest(s)>> \in Seq(Nat)
  BY <1>1
<1>5. Range(<<Oldest(s)>>) = {Oldest(s)}
  BY DEF Range
<1> QED
  BY <1>1, <1>2, <1>3, <1>4, <1>5 DEF Join

(* The steps of a byte along the line. *)
LEMMA LineSplit ==
    ASSUME NEW r \in Bytes, NEW p \in Bytes, NEW o \in Bytes, NEW q \in Bytes
    PROVE  /\ LineOf(r, p, o, q) = Join(Join(r, p), Join(o, q))
           /\ LineOf(r, p, o, q) = Join(r, Join(p, Join(o, q)))
<1>1. Join(r, p) \in Bytes /\ Join(o, q) \in Bytes
  BY JoinFacts
<1>2. Join(Join(Join(r, p), o), q) = Join(Join(r, p), Join(o, q))
  BY <1>1, Regroup
<1>3. Join(Join(r, p), Join(o, q)) = Join(r, Join(p, Join(o, q)))
  BY <1>1, Regroup
<1> QED
  BY <1>2, <1>3 DEF LineOf

LEMMA WithIsJoin ==
    ASSUME NEW o \in Bytes, NEW b \in Nat
    PROVE  With(o, b) = Join(o, <<b>>)
BY AppendIsConcat, Zenon DEF With, Join, Bytes

LEMMA Drains ==
    ASSUME NEW r \in Bytes, NEW p \in Bytes, NEW o \in Bytes, NEW q \in Bytes, q # <<>>
    PROVE  /\ With(o, Oldest(q)) \in Bytes /\ Younger(q) \in Bytes
           /\ LineOf(r, p, With(o, Oldest(q)), Younger(q)) = LineOf(r, p, o, q)
<1>1. Oldest(q) \in Nat /\ <<Oldest(q)>> \in Bytes /\ Younger(q) \in Bytes /\ q = Join(<<Oldest(q)>>, Younger(q))
  BY HeadAndTail
<1>2. With(o, Oldest(q)) = Join(o, <<Oldest(q)>>) /\ With(o, Oldest(q)) \in Bytes
  BY <1>1, AppendIsConcat, AppendProperties DEF Bytes, Join, With
<1> DEFINE h == <<Oldest(q)>>
           x == With(o, Oldest(q))
           t == Younger(q)
<1>3. h \in Bytes /\ t \in Bytes /\ q = Join(h, t) /\ x = Join(o, h) /\ x \in Bytes
  BY <1>1, <1>2
<1> HIDE DEF h, x, t
<1>4. LineOf(r, p, x, t) = Join(Join(r, p), Join(x, t)) /\ LineOf(r, p, o, q) = Join(Join(r, p), Join(o, q))
  BY <1>3, LineSplit
<1>5. Join(x, t) = Join(o, q)
  BY <1>3, Regroup
<1> QED
  BY <1>1, <1>2, <1>3, <1>4, <1>5 DEF x, t

LEMMA OldestDropped ==
    ASSUME NEW r \in Bytes, NEW p \in Bytes, NEW o \in Bytes, NEW q \in Bytes, o # <<>>,
           NEW lost, NEW n, Kept(LineOf(r, p, o, q), lost, n)
    PROVE  Younger(o) \in Bytes /\ Kept(LineOf(r, p, Younger(o), q), lost \cup {Oldest(o)}, n)
<1> DEFINE h == <<Oldest(o)>>
           a == Join(r, p)
           b == Join(Younger(o), q)
<1>1. h \in Bytes /\ Younger(o) \in Bytes /\ o = Join(h, Younger(o)) /\ Range(h) = {Oldest(o)}
  BY HeadAndTail
<1> HIDE DEF h
<1>2. a \in Bytes /\ b \in Bytes
  BY <1>1, JoinFacts
<1>3. LineOf(r, p, o, q) = Join(a, Join(o, q)) /\ LineOf(r, p, Younger(o), q) = Join(a, b)
  BY <1>1, LineSplit
<1>4. Join(o, q) = Join(h, b)
  BY <1>1, Regroup
<1>5. Join(a, Join(h, b)) = Join(Join(a, h), b)
  BY <1>1, <1>2, Regroup
<1> HIDE DEF a, b
<1>6. Kept(Join(Join(a, h), b), lost, n)
  BY <1>3, <1>4, <1>5
<1>7. Kept(Join(a, b), lost \cup Range(h), n)
  BY <1>1, <1>2, <1>6, PartLeaves
<1> QED
  BY <1>1, <1>3, <1>7

LEMMA NewestDropped ==
    ASSUME NEW r \in Bytes, NEW p \in Bytes, NEW o \in Bytes, NEW q \in Bytes, q # <<>>,
           NEW lost, NEW n, Kept(LineOf(r, p, o, q), lost, n)
    PROVE  Younger(q) \in Bytes /\ Kept(LineOf(r, p, o, Younger(q)), lost \cup {Oldest(q)}, n)
<1> DEFINE h == <<Oldest(q)>>
           a == Join(Join(r, p), o)
<1>1. h \in Bytes /\ Younger(q) \in Bytes /\ q = Join(h, Younger(q)) /\ Range(h) = {Oldest(q)}
  BY HeadAndTail
<1> HIDE DEF h
<1>2. a \in Bytes
  BY JoinFacts
<1>3. LineOf(r, p, o, q) = Join(a, q) /\ LineOf(r, p, o, Younger(q)) = Join(a, Younger(q))
  BY DEF LineOf
<1> HIDE DEF a
<1>4. Join(a, q) = Join(Join(a, h), Younger(q))
  BY <1>1, <1>2, Regroup
<1>5. Kept(Join(Join(a, h), Younger(q)), lost, n)
  BY <1>3, <1>4
<1>6. Kept(Join(a, Younger(q)), lost \cup Range(h), n)
  BY <1>1, <1>2, <1>5, PartLeaves
<1> QED
  BY <1>1, <1>3, <1>6

(* The bridge takes its queue, writes a part, puts the rest back in front, or
   loses it with its client. *)
LEMMA Taken ==
    ASSUME NEW r \in Bytes, NEW o \in Bytes, NEW q \in Bytes
    PROVE  <<>> \in Bytes /\ LineOf(r, o, <<>>, q) = LineOf(r, <<>>, o, q)
<1>1. <<>> \in Bytes /\ Join(r, <<>>) = r /\ Join(Join(r, o), <<>>) = Join(r, o)
  BY JoinFacts
<1> QED
  BY <1>1 DEF LineOf

LEMMA Written ==
    ASSUME NEW r \in Bytes, NEW p \in Bytes, NEW o \in Bytes, NEW q \in Bytes, NEW k \in 0 .. Len(p)
    PROVE  /\ SubSeq(p, 1, k) \in Bytes /\ SubSeq(p, k + 1, Len(p)) \in Bytes
           /\ Join(r, SubSeq(p, 1, k)) \in Bytes
           /\ LineOf(Join(r, SubSeq(p, 1, k)), SubSeq(p, k + 1, Len(p)), o, q) = LineOf(r, p, o, q)
<1> DEFINE x == SubSeq(p, 1, k)
           y == SubSeq(p, k + 1, Len(p))
<1>1. Len(p) \in Nat /\ \A i \in 1 .. Len(p) : p[i] \in Nat
  BY LenProperties, ElementOfSeq DEF Bytes
<1>2. x \in Bytes /\ y \in Bytes
  BY <1>1, SubSeqProperties DEF Bytes
<1>3. Join(x, y) = p
  <2>1. p \in Seq(Nat) /\ 1 \in 1 .. Len(p) + 1 /\ k \in 1 - 1 .. Len(p) /\ Len(p) \in k .. Len(p)
    BY <1>1 DEF Bytes
  <2>2. x \o y = SubSeq(p, 1, Len(p))
    BY <2>1, ConcatAdjacentSubSeq, Zenon
  <2>3. SubSeq(p, 1, Len(p)) = p
    BY SubSeqFull, Zenon DEF Bytes
  <2> QED
    BY <2>2, <2>3, Zenon DEF Join
<1> HIDE DEF x, y
<1>4. Join(Join(r, x), y) = Join(r, p) /\ Join(r, x) \in Bytes
  BY <1>2, <1>3, Regroup, JoinFacts
<1>5. LineOf(Join(r, x), y, o, q) = LineOf(r, p, o, q)
  BY <1>4 DEF LineOf
<1> QED
  BY <1>2, <1>4, <1>5 DEF x, y

LEMMA WholeWritten ==
    ASSUME NEW r \in Bytes, NEW o \in Bytes, NEW q \in Bytes
    PROVE  Join(r, o) \in Bytes /\ LineOf(Join(r, o), <<>>, <<>>, q) = LineOf(r, <<>>, o, q)
<1>1. /\ Join(r, o) \in Bytes /\ <<>> \in Bytes /\ Join(r, <<>>) = r
      /\ Join(Join(r, o), <<>>) = Join(r, o)
  BY JoinFacts
<1> QED
  BY <1>1 DEF LineOf

LEMMA PutBack ==
    ASSUME NEW r \in Bytes, NEW p \in Bytes, NEW o \in Bytes, NEW q \in Bytes
    PROVE  Join(p, o) \in Bytes /\ LineOf(r, <<>>, Join(p, o), q) = LineOf(r, p, o, q)
<1>1. Join(r, <<>>) = r /\ Join(p, o) \in Bytes
  BY JoinFacts
<1>2. Join(r, Join(p, o)) = Join(Join(r, p), o)
  BY Regroup
<1> QED
  BY <1>1, <1>2 DEF LineOf

LEMMA ClientGone ==
    ASSUME NEW r \in Bytes, NEW p \in Bytes, NEW o \in Bytes, NEW q \in Bytes,
           NEW lost, NEW n, Kept(LineOf(r, p, o, q), lost, n)
    PROVE  Kept(LineOf(r, <<>>, o, q), lost \cup Range(p), n)
<1>1. <<>> \in Bytes /\ Join(r, <<>>) = r /\ Join(o, q) \in Bytes
  BY JoinFacts
<1>2. Kept(Join(Join(r, p), Join(o, q)), lost, n)
  BY LineSplit
<1>3. LineOf(r, <<>>, o, q) = Join(r, Join(o, q))
  BY <1>1, LineSplit
<1> QED
  BY <1>1, <1>2, <1>3, PartLeaves

(***************************************************************************)
(* The invariant: the line is kept; the bridge holds bytes in its hand     *)
(* only between taking its queue and writing or putting back; and with no  *)
(* bridge nothing waits for one.                                           *)
(***************************************************************************)
SerialShape ==
    /\ DOMAIN port = {"out", "in", "overrun", "rbf"}
    /\ DOMAIN bridge = {"at", "client", "pending"}
    /\ DOMAIN wire = {"received", "typed"}
    /\ DOMAIN trail = {"sent", "lost", "read", "typed", "dropped"}

Line == LineOf(wire.received, bridge.pending, output, port.out)

LineInv ==
    /\ rig \in Rigs
    /\ SerialShape
    /\ wire.received \in Bytes /\ bridge.pending \in Bytes /\ output \in Bytes /\ port.out \in Bytes
    /\ Kept(Line, trail.lost, trail.sent)
    /\ bridge.at \notin {"write", "requeue"} => bridge.pending = <<>>
    /\ ~rig.tcp => bridge.pending = <<>>
    /\ ~rig.tcp /\ ~Booting => output = <<>>

LEMMA LineInvHolds == HostInit => LineInv
<1> SUFFICES ASSUME HostInit PROVE LineInv
  OBVIOUS
<1>1. /\ port.out = <<>> /\ output = <<>> /\ bridge.pending = <<>> /\ wire.received = <<>>
      /\ trail.lost = {} /\ trail.sent = 0 /\ SerialShape
  BY DEF HostInit, SerialInit, SerialShape
<1>2. <<>> \in Bytes /\ Len(<<>>) = 0
  BY EmptySeq DEF Bytes
<1>3. Line = <<>>
  <2>1. Join(<<>>, <<>>) = <<>>
    BY <1>2, JoinFacts
  <2> QED
    BY <1>1, <2>1 DEF Line, LineOf
<1>4. Kept(<<>>, {}, 0)
  <2>1. Range(<<>>) = {}
    BY DEF Range
  <2> QED
    BY <1>2, <2>1 DEF Kept, Rising
<1> QED
  BY <1>1, <1>2, <1>3, <1>4 DEF LineInv, HostInit

(* What is proved of a step: where the line's parts are afterwards. *)
Parts(r, p, o, q) ==
    /\ r \in Bytes /\ p \in Bytes /\ o \in Bytes /\ q \in Bytes
    /\ wire'.received = r /\ bridge'.pending = p /\ output' = o /\ port'.out = q
    /\ SerialShape' /\ rig' = rig

LEMMA LineStep ==
    ASSUME LineInv, NEW r, NEW p, NEW o, NEW q, Parts(r, p, o, q),
           Kept(LineOf(r, p, o, q), trail'.lost, trail'.sent),
           bridge'.at \notin {"write", "requeue"} => p = <<>>,
           ~rig.tcp => p = <<>>,
           ~rig.tcp /\ ~Booting => o = <<>>
    PROVE  LineInv'
<1>1. Booting' = Booting
  BY DEF Booting, Parts
<1>2. Line' = LineOf(r, p, o, q)
  BY DEF Line, Parts
<1> QED
  BY <1>1, <1>2 DEF LineInv, Parts

(* A step that leaves the line alone. *)
Quietly ==
    /\ SerialShape' /\ rig' = rig
    /\ wire'.received = wire.received /\ bridge'.pending = bridge.pending
    /\ output' = output /\ port'.out = port.out
    /\ trail'.lost = trail.lost /\ trail'.sent = trail.sent
    /\ bridge'.at \in {"write", "requeue"} \/ bridge.at \notin {"write", "requeue"}

LEMMA LineQuiet == LineInv /\ Quietly => LineInv'
<1> SUFFICES ASSUME LineInv, Quietly PROVE LineInv'
  OBVIOUS
<1>1. Parts(wire.received, bridge.pending, output, port.out)
  BY DEF LineInv, Quietly, Parts
<1>2. Kept(LineOf(wire.received, bridge.pending, output, port.out), trail'.lost, trail'.sent)
  BY DEF LineInv, Quietly, Line
<1>3. /\ bridge'.at \notin {"write", "requeue"} => bridge.pending = <<>>
      /\ ~rig.tcp => bridge.pending = <<>>
      /\ ~rig.tcp /\ ~Booting => output = <<>>
  BY DEF LineInv, Quietly
<1> QED
  BY <1>1, <1>2, <1>3, LineStep

LEMMA StillQuiet == LineInv /\ rig' = rig /\ UNCHANGED serialVars => Quietly
BY DEF LineInv, SerialShape, Quietly, serialVars

(* Input bytes, the script and the guest's reads do not touch the line. *)
LEMMA InByteQuiet ==
    ASSUME SerialShape, NEW b, push_serial_in_byte(b)
    PROVE  DOMAIN port' = DOMAIN port /\ port'.out = port.out
BY DEF SerialShape, push_serial_in_byte

LEMMA ReceiveQuiet == LineInv /\ rig' = rig /\ ReceiveHostByte => Quietly
<1> SUFFICES ASSUME LineInv, rig' = rig, ReceiveHostByte PROVE Quietly
  OBVIOUS
<1>1. DOMAIN port' = DOMAIN port /\ port'.out = port.out
  BY InByteQuiet DEF ReceiveHostByte, LineInv
<1> QED
  BY <1>1 DEF ReceiveHostByte, LineInv, SerialShape, Quietly

LEMMA ScriptQuiet ==
    ASSUME LineInv, rig' = rig, NEW f, StartDirective(f) \/ DirectiveEnds(f) \/ SendByte \/ ScriptWaits(f)
    PROVE  Quietly
<1>1. CASE StartDirective(f)
  BY <1>1 DEF StartDirective, LineInv, SerialShape, Quietly
<1>2. CASE DirectiveEnds(f)
  BY <1>2 DEF DirectiveEnds, LineInv, SerialShape, Quietly
<1>3. CASE SendByte
  <2>1. DOMAIN port' = DOMAIN port /\ port'.out = port.out
    BY <1>3, InByteQuiet DEF SendByte, LineInv
  <2> QED
    BY <1>3, <2>1 DEF SendByte, LineInv, SerialShape, Quietly
<1>4. CASE ScriptWaits(f)
  BY <1>4, StillQuiet DEF ScriptWaits
<1> QED
  BY <1>1, <1>2, <1>3, <1>4

(* The guest writes a byte, or reads, or acknowledges. *)
LEMMA GuestLine ==
    ASSUME LineInv, rig' = rig, SerialAccess \/ CardAccess \/ NoAccess
    PROVE  LineInv'
<1>1. CASE CardAccess \/ NoAccess
  BY <1>1, StillQuiet, LineQuiet DEF CardAccess, NoAccess
<1>2. CASE ClearRbf
  <2>1. Quietly
    BY <1>2 DEF ClearRbf, LineInv, SerialShape, Quietly
  <2> QED
    BY <2>1, LineQuiet
<1>3. CASE read_serdatr
  <2>1. DOMAIN port' = DOMAIN port /\ port'.out = port.out
    BY <1>3 DEF read_serdatr, LineInv, SerialShape
  <2>2. DOMAIN trail' = DOMAIN trail /\ trail'.lost = trail.lost /\ trail'.sent = trail.sent
    BY <1>3 DEF read_serdatr, LineInv, SerialShape
  <2>3. Quietly
    BY <1>3, <2>1, <2>2 DEF read_serdatr, LineInv, SerialShape, Quietly
  <2> QED
    BY <2>3, LineQuiet
<1>4. CASE push_serial_byte
  <2> DEFINE n == trail.sent + 1
             r == wire.received
             p == bridge.pending
  <2>1. CASE Len(port.out) < SerialBufCap
    <3>1. /\ port'.out = Append(port.out, n) /\ DOMAIN port' = DOMAIN port
          /\ DOMAIN trail' = DOMAIN trail /\ trail'.sent = n /\ trail'.lost = trail.lost
          /\ wire' = wire /\ bridge' = bridge /\ output' = output
      BY <1>4, <2>1 DEF push_serial_byte, LineInv, SerialShape
    <3>2. n \in Nat
      BY DEF LineInv, Kept
    <3>3. Append(port.out, n) \in Bytes /\ Append(port.out, n) = Join(port.out, <<n>>) /\ <<n>> \in Bytes
      <4>1. port.out \in Seq(Nat)
        BY DEF LineInv, Bytes
      <4>2. Append(port.out, n) \in Seq(Nat) /\ Append(port.out, n) = port.out \o <<n>>
        BY <3>2, <4>1, AppendProperties, AppendIsConcat, Zenon
      <4>3. <<n>> \in Seq(Nat)
        BY <3>2
      <4> QED
        BY <4>2, <4>3, Zenon DEF Bytes, Join
    <3>4. Append(Line, n) = Join(Line, <<n>>)
      <4>1. Line \in Seq(Nat)
        BY DEF LineInv, Kept, Bytes
      <4> QED
        BY <3>2, <4>1, AppendIsConcat DEF Join
    <3>5. LineOf(r, p, output, Append(port.out, n)) = Append(Line, n)
      <4> DEFINE a == Join(Join(r, p), output)
                 e == <<n>>
                 z == Append(port.out, n)
                 y == Append(Line, n)
      <4>1. a \in Bytes /\ e \in Bytes /\ z = Join(port.out, e) /\ y = Join(Line, e) /\ port.out \in Bytes
        BY <3>3, <3>4, JoinFacts DEF LineInv
      <4>2. LineOf(r, p, output, z) = Join(a, z) /\ Line = Join(a, port.out)
        BY DEF LineOf, Line
      <4> HIDE DEF a, e, z, y
      <4>3. LineOf(r, p, output, z) = y
        BY <4>1, <4>2, Regroup
      <4> QED
        BY <4>3 DEF z, y
    <3>6. Kept(LineOf(r, p, output, Append(port.out, n)), trail'.lost, trail'.sent)
      BY <3>1, <3>5, JoinsAtEnd DEF LineInv
    <3>7. Parts(r, p, output, Append(port.out, n))
      BY <3>1, <3>3 DEF Parts, LineInv, SerialShape
    <3> QED
      BY <3>1, <3>6, <3>7, LineStep DEF LineInv
  <2>2. CASE ~(Len(port.out) < SerialBufCap)
    <3>1. /\ port' = port /\ wire' = wire /\ bridge' = bridge /\ output' = output
          /\ DOMAIN trail' = DOMAIN trail /\ trail'.sent = n /\ trail'.lost = trail.lost \cup {n}
      BY <1>4, <2>2 DEF push_serial_byte, LineInv, SerialShape
    <3>2. Kept(LineOf(r, p, output, port.out), trail'.lost, trail'.sent)
      BY <3>1, NeverJoins DEF LineInv, Line
    <3>3. Parts(r, p, output, port.out)
      BY <3>1 DEF Parts, LineInv, SerialShape
    <3> QED
      BY <3>1, <3>2, <3>3, LineStep DEF LineInv
  <2> QED
    BY <2>1, <2>2
<1> QED
  BY <1>1, <1>2, <1>3, <1>4 DEF SerialAccess

(* The host takes the oldest byte of the ring. *)
LEMMA DrainLine ==
    ASSUME LineInv, rig' = rig, ~Booting, drain_serial(rig.tcp)
    PROVE  LineInv'
<1> DEFINE r == wire.received
           p == bridge.pending
           o == output
           q == port.out
<1>1. /\ q # <<>> /\ port'.out = Younger(q) /\ DOMAIN port' = DOMAIN port /\ bridge' = bridge
  BY DEF drain_serial, take_serial_byte, Younger, LineInv, SerialShape
<1>2. /\ r \in Bytes /\ p \in Bytes /\ o \in Bytes /\ q \in Bytes
      /\ Kept(LineOf(r, p, o, q), trail.lost, trail.sent)
  BY DEF LineInv, Line
<1>3. /\ With(o, Oldest(q)) \in Bytes /\ Younger(q) \in Bytes
      /\ LineOf(r, p, With(o, Oldest(q)), Younger(q)) = LineOf(r, p, o, q)
  <2>1. q # <<>> /\ r \in Bytes /\ p \in Bytes /\ o \in Bytes /\ q \in Bytes
    BY <1>1, <1>2
  <2> HIDE DEF r, p, o, q
  <2> QED
    BY <2>1, Drains
<1>4. CASE rig.tcp /\ Len(output) >= OutputBufCap
  <2>1. /\ output' = With(Younger(o), Oldest(q)) /\ wire' = wire
        /\ DOMAIN trail' = DOMAIN trail /\ trail'.sent = trail.sent
        /\ trail'.lost = trail.lost \cup {Oldest(o)}
    BY <1>4 DEF drain_serial, push_guest_byte, With, Oldest, Younger, LineInv, SerialShape
  <2>2. o # <<>>
    BY <1>4, EmptySeq, SerialConstants DEF Bytes
  <2>3. Younger(o) \in Bytes /\ Kept(LineOf(r, p, Younger(o), q), trail'.lost, trail'.sent)
    BY <1>2, <2>1, <2>2, OldestDropped
  <2>4. /\ With(Younger(o), Oldest(q)) \in Bytes
        /\ LineOf(r, p, With(Younger(o), Oldest(q)), Younger(q)) = LineOf(r, p, Younger(o), q)
    <3>1. q # <<>> /\ r \in Bytes /\ p \in Bytes /\ Younger(o) \in Bytes /\ q \in Bytes
      BY <1>1, <1>2, <2>3
    <3> HIDE DEF r, p, o, q
    <3> QED
      BY <3>1, Drains
  <2>5. Parts(r, p, With(Younger(o), Oldest(q)), Younger(q))
    BY <1>1, <1>2, <1>3, <2>1, <2>4 DEF Parts, LineInv, SerialShape
  <2>6. Kept(LineOf(r, p, With(Younger(o), Oldest(q)), Younger(q)), trail'.lost, trail'.sent)
    BY <2>3, <2>4, Zenon
  <2>7. bridge'.at \notin {"write", "requeue"} => p = <<>>
    BY <1>1 DEF LineInv
  <2> QED
    BY <1>4, <2>5, <2>6, <2>7, LineStep, Zenon
<1>5. CASE rig.tcp /\ ~(Len(output) >= OutputBufCap)
  <2>1. output' = With(o, Oldest(q)) /\ wire' = wire /\ trail' = trail
    BY <1>5 DEF drain_serial, push_guest_byte, With, Oldest, Younger
  <2>2. Parts(r, p, With(o, Oldest(q)), Younger(q))
    BY <1>1, <1>2, <1>3, <2>1 DEF Parts, LineInv, SerialShape
  <2>3. Kept(LineOf(r, p, With(o, Oldest(q)), Younger(q)), trail'.lost, trail'.sent)
    BY <1>2, <1>3, <2>1, Zenon
  <2>4. bridge'.at \notin {"write", "requeue"} => p = <<>>
    BY <1>1 DEF LineInv
  <2> QED
    BY <1>5, <2>2, <2>3, <2>4, LineStep, Zenon
<1>6. CASE ~rig.tcp
  <2>1. p = <<>> /\ o = <<>>
    BY <1>6 DEF LineInv
  <2>2. /\ wire'.received = With(r, Oldest(q)) /\ DOMAIN wire' = DOMAIN wire
        /\ output' = output /\ trail' = trail
    BY <1>6 DEF drain_serial, With, Oldest, LineInv, SerialShape
  <2>3. /\ With(r, Oldest(q)) \in Bytes /\ With(r, Oldest(q)) = Join(r, <<Oldest(q)>>)
        /\ <<Oldest(q)>> \in Bytes /\ q = Join(<<Oldest(q)>>, Younger(q))
    BY <1>1, <1>2, Drains, HeadAndTail, WithIsJoin
  <2>4. LineOf(With(r, Oldest(q)), <<>>, <<>>, Younger(q)) = LineOf(r, <<>>, <<>>, q)
    <3> DEFINE x == With(r, Oldest(q))
               h == <<Oldest(q)>>
               t == Younger(q)
    <3>1. x \in Bytes /\ x = Join(r, h) /\ h \in Bytes /\ t \in Bytes /\ q = Join(h, t)
      BY <1>3, <2>3
    <3> HIDE DEF x, h, t
    <3>2. Join(x, t) = Join(r, q)
      BY <1>2, <3>1, Regroup
    <3>3. <<>> \in Bytes /\ Join(r, <<>>) = r /\ Join(x, <<>>) = x
      BY <1>2, <3>1, JoinFacts
    <3>4. LineOf(x, <<>>, <<>>, t) = LineOf(r, <<>>, <<>>, q)
      BY <3>2, <3>3 DEF LineOf
    <3> QED
      BY <3>4 DEF x, t
  <2>5. Parts(With(r, Oldest(q)), <<>>, <<>>, Younger(q))
    BY <1>1, <1>2, <1>3, <2>1, <2>2, <2>3 DEF Parts, LineInv, SerialShape
  <2>6. Kept(LineOf(With(r, Oldest(q)), <<>>, <<>>, Younger(q)), trail'.lost, trail'.sent)
    BY <1>2, <2>1, <2>2, <2>4, Zenon
  <2> QED
    BY <2>5, <2>6, LineStep, Zenon
<1> QED
  BY <1>4, <1>5, <1>6

(* The boards print a line with the byte that ended it, or lose it. *)
LEMMA FlushLine ==
    ASSUME LineInv, rig' = rig, ~rig.tcp, Booting, bridge' = bridge,
           NEW e \in Bytes, NEW t \in Bytes, port.out = Join(e, t),
           port'.out = t, DOMAIN port' = DOMAIN port,
           flush_line(rig.mode, rig.kind, e)
    PROVE  LineInv'
<1> DEFINE r == wire.received
           o == output
           q == port.out
           oe == Join(o, e)
<1>1. /\ r \in Bytes /\ bridge.pending = <<>> /\ o \in Bytes /\ q \in Bytes /\ q = Join(e, t)
      /\ Kept(LineOf(r, <<>>, o, q), trail.lost, trail.sent)
  BY DEF LineInv, Line
<1>2. output' = <<>> /\ DOMAIN wire' = DOMAIN wire /\ DOMAIN trail' = DOMAIN trail
      /\ trail'.sent = trail.sent
  BY DEF flush_line, LineInv, SerialShape
<1>3. \/ wire'.received = Join(Join(r, o), e) /\ trail'.lost = trail.lost
      \/ wire'.received = r /\ trail'.lost = trail.lost \cup Range(oe)
  BY DEF flush_line, LineInv, SerialShape, Join
<1>4. /\ oe \in Bytes /\ Join(o, q) = Join(oe, t) /\ Join(r, oe) = Join(Join(r, o), e)
      /\ <<>> \in Bytes
  <2>1. oe \in Bytes /\ <<>> \in Bytes
    BY <1>1, JoinFacts, Zenon
  <2>2. Join(o, Join(e, t)) = Join(oe, t)
    BY <1>1, Regroup, Zenon
  <2>3. Join(r, oe) = Join(Join(r, o), e)
    BY <1>1, Regroup, Zenon
  <2> QED
    BY <1>1, <2>1, <2>2, <2>3, Zenon
<1> HIDE DEF oe
<1>5. LineOf(r, <<>>, o, q) = LineOf(r, <<>>, oe, t)
  BY <1>1, <1>4, LineSplit
<1>6. Kept(LineOf(r, <<>>, oe, t), trail.lost, trail.sent)
  BY <1>1, <1>5
<1>7. CASE wire'.received = Join(Join(r, o), e) /\ trail'.lost = trail.lost
  <2>1. Join(r, oe) \in Bytes /\ LineOf(Join(r, oe), <<>>, <<>>, t) = LineOf(r, <<>>, oe, t)
    BY <1>1, <1>4, WholeWritten
  <2>2. Kept(LineOf(Join(r, oe), <<>>, <<>>, t), trail'.lost, trail'.sent)
    BY <1>2, <1>6, <1>7, <2>1
  <2>3. Parts(Join(r, oe), <<>>, <<>>, t)
    BY <1>1, <1>2, <1>4, <1>7, <2>1 DEF Parts, LineInv, SerialShape
  <2> QED
    BY <2>2, <2>3, LineStep
<1>8. CASE wire'.received = r /\ trail'.lost = trail.lost \cup Range(oe)
  <2>1. LineOf(r, <<>>, oe, t) = LineOf(r, oe, <<>>, t)
    BY <1>1, <1>4, Taken
  <2>2. Kept(LineOf(r, oe, <<>>, t), trail.lost, trail.sent)
    BY <1>6, <2>1
  <2>3. Kept(LineOf(r, <<>>, <<>>, t), trail'.lost, trail'.sent)
    BY <1>1, <1>2, <1>4, <1>8, <2>2, ClientGone
  <2>4. Parts(r, <<>>, <<>>, t)
    BY <1>1, <1>2, <1>4, <1>8 DEF Parts, LineInv, SerialShape
  <2> QED
    BY <2>3, <2>4, LineStep
<1> QED
  BY <1>3, <1>7, <1>8

LEMMA BoardHasNoBridge == LineInv /\ Booting => ~rig.tcp
BY RigAssumption DEF LineInv, Booting

LEMMA BootDrainLine ==
    ASSUME LineInv, rig' = rig, Booting, boot_drain_serial(rig.mode, rig.kind)
    PROVE  LineInv'
<1> DEFINE r == wire.received
           p == bridge.pending
           o == output
           q == port.out
           b == Oldest(q)
<1>1. /\ q # <<>> /\ port'.out = Younger(q) /\ DOMAIN port' = DOMAIN port /\ bridge' = bridge
      /\ GuestLinePush(rig.mode, rig.kind, b)
  BY DEF boot_drain_serial, take_serial_byte, Oldest, Younger, LineInv, SerialShape
<1>2. /\ r \in Bytes /\ p \in Bytes /\ o \in Bytes /\ q \in Bytes /\ p = <<>>
      /\ Kept(LineOf(r, p, o, q), trail.lost, trail.sent)
  BY BoardHasNoBridge DEF LineInv, Line
<1>3. <<b>> \in Bytes /\ Younger(q) \in Bytes /\ q = Join(<<b>>, Younger(q))
  BY <1>1, <1>2, HeadAndTail
<1>4. CASE flush_line(rig.mode, rig.kind, <<b>>)
  BY <1>1, <1>3, <1>4, FlushLine, BoardHasNoBridge
<1>5. CASE trail' = [trail EXCEPT !.lost = @ \cup {b}] /\ UNCHANGED <<output, wire>>
  <2>1. /\ DOMAIN trail' = DOMAIN trail /\ trail'.sent = trail.sent /\ trail'.lost = trail.lost \cup {b}
        /\ output' = output /\ wire' = wire
    BY <1>5 DEF LineInv, SerialShape
  <2>2. Kept(LineOf(r, p, o, Younger(q)), trail'.lost, trail'.sent)
    BY <1>1, <1>2, <2>1, NewestDropped
  <2>3. Parts(r, p, o, Younger(q))
    BY <1>1, <1>2, <1>3, <2>1 DEF Parts, LineInv, SerialShape
  <2> QED
    BY <1>2, <2>2, <2>3, LineStep, Zenon
<1>6. CASE output' = With(output, b) /\ UNCHANGED <<wire, trail>>
  <2>1. /\ With(o, b) \in Bytes
        /\ LineOf(r, p, With(o, b), Younger(q)) = LineOf(r, p, o, q)
    <3>1. q # <<>> /\ r \in Bytes /\ p \in Bytes /\ o \in Bytes /\ q \in Bytes
      BY <1>1, <1>2
    <3> HIDE DEF r, p, o, q
    <3> QED
      BY <3>1, Drains
  <2>2. Kept(LineOf(r, p, With(o, b), Younger(q)), trail'.lost, trail'.sent)
    BY <1>2, <1>6, <2>1, Zenon
  <2>3. Parts(r, p, With(o, b), Younger(q))
    BY <1>1, <1>2, <1>3, <1>6, <2>1 DEF Parts, LineInv, SerialShape
  <2> QED
    BY <1>2, <2>2, <2>3, LineStep, Zenon
<1> QED
  BY <1>1, <1>4, <1>5, <1>6 DEF GuestLinePush, With

LEMMA BootEndsLine ==
    ASSUME LineInv, BootEnds
    PROVE  LineInv'
<1>1. /\ <<>> \in Bytes /\ port.out \in Bytes /\ port.out = Join(<<>>, port.out)
      /\ rig' = rig /\ bridge' = bridge /\ port' = port /\ Booting
      /\ flush_line(rig.mode, rig.kind, <<>>)
  <2>1. port.out \in Bytes
    BY DEF LineInv
  <2> QED
    BY <2>1, JoinFacts DEF BootEnds, loopVars
<1> QED
  BY <1>1, FlushLine, BoardHasNoBridge

(* The bridge thread, a step at a time. *)
LEMMA BridgeLine ==
    ASSUME LineInv, BridgeThread
    PROVE  LineInv'
<1> DEFINE r == wire.received
           p == bridge.pending
           o == output
           q == port.out
<1>1. rig' = rig /\ rig.tcp /\ (poll_loop \/ ClientTypes)
  BY DEF BridgeThread, loopVars
<1>2. /\ r \in Bytes /\ p \in Bytes /\ o \in Bytes /\ q \in Bytes
      /\ Kept(LineOf(r, p, o, q), trail.lost, trail.sent)
  BY DEF LineInv, Line
<1>3. CASE Accept \/ FillInput \/ FillAppend \/ ClientTypes
  <2>1. SerialShape'
    BY <1>3 DEF Accept, FillInput, FillAppend, ClientTypes, mainUnchanged, LineInv, SerialShape
  <2>2. wire'.received = wire.received /\ trail'.lost = trail.lost /\ trail'.sent = trail.sent
    BY <1>3 DEF Accept, FillInput, FillAppend, ClientTypes, mainUnchanged, LineInv, SerialShape
  <2>3. /\ bridge'.pending = bridge.pending
        /\ bridge'.at \in {"write", "requeue"} \/ bridge.at \notin {"write", "requeue"}
    BY <1>3 DEF Accept, FillInput, FillAppend, ClientTypes, bridgeAt, LineInv, SerialShape
  <2>4. output' = output /\ port' = port
    BY <1>3 DEF Accept, FillInput, FillAppend, ClientTypes, mainUnchanged
  <2> QED
    BY <1>1, <2>1, <2>2, <2>3, <2>4, LineQuiet DEF Quietly
<1>4. CASE FlushTake
  <2>1. /\ bridge'.pending = o /\ bridge'.at = IF o = <<>> THEN "fill" ELSE "write"
        /\ DOMAIN bridge' = DOMAIN bridge /\ output' = <<>>
        /\ wire' = wire /\ trail' = trail /\ port' = port /\ bridge.at = "flush"
    BY <1>4 DEF FlushTake, bridgeAt, mainUnchanged, LineInv, SerialShape
  <2>2. p = <<>>
    BY <2>1 DEF LineInv
  <2>3. <<>> \in Bytes /\ LineOf(r, o, <<>>, q) = LineOf(r, <<>>, o, q)
    BY <1>2, Taken
  <2>4. Kept(LineOf(r, o, <<>>, q), trail'.lost, trail'.sent)
    BY <1>2, <2>1, <2>2, <2>3, Zenon
  <2>5. Parts(r, o, <<>>, q)
    BY <1>1, <1>2, <2>1, <2>3 DEF Parts, LineInv, SerialShape
  <2>6. bridge'.at \notin {"write", "requeue"} => o = <<>>
    BY <2>1
  <2> QED
    BY <1>1, <2>4, <2>5, <2>6, LineStep, Zenon
<1>5. ASSUME DropClient, output' = output, port' = port PROVE LineInv'
  <2>1. /\ bridge'.pending = <<>> /\ DOMAIN bridge' = {"at", "client", "pending"}
        /\ trail'.lost = trail.lost \cup Range(p) /\ trail'.sent = trail.sent
        /\ DOMAIN trail' = DOMAIN trail
        /\ wire'.received = r /\ DOMAIN wire' = DOMAIN wire
    BY <1>5 DEF DropClient, LineInv, SerialShape
  <2>2. Kept(LineOf(r, <<>>, o, q), trail'.lost, trail'.sent)
    BY <1>2, <2>1, ClientGone
  <2>3. Parts(r, <<>>, o, q)
    <3>1. <<>> \in Bytes
      BY <1>2, Taken
    <3> QED
      BY <1>1, <1>2, <1>5, <2>1, <3>1 DEF Parts, LineInv, SerialShape
  <2> QED
    BY <1>1, <2>1, <2>2, <2>3, LineStep, Zenon
<1>6. CASE ClientLeaves
  BY <1>6, <1>5 DEF ClientLeaves, mainUnchanged
<1>7. CASE FlushWrite
  <2>1. bridge.at = "write" /\ output' = output /\ port' = port
    BY <1>7 DEF FlushWrite, bridgeAt, mainUnchanged
  <2>2. ASSUME NEW n \in 0 .. Len(p),
               wire' = [wire EXCEPT !.received = @ \o SubSeq(p, 1, n)],
               bridge' = [bridge EXCEPT !.pending = SubSeq(@, n + 1, Len(@)),
                            !.at = IF n < Len(bridge.pending) THEN "requeue" ELSE "fill"],
               UNCHANGED trail
        PROVE  LineInv'
    <3> DEFINE x == Join(r, SubSeq(p, 1, n))
               y == SubSeq(p, n + 1, Len(p))
    <3>1. /\ wire'.received = x /\ DOMAIN wire' = DOMAIN wire
          /\ bridge'.pending = y /\ DOMAIN bridge' = DOMAIN bridge
          /\ bridge'.at = IF n < Len(p) THEN "requeue" ELSE "fill"
      BY <2>2 DEF LineInv, SerialShape, Join
    <3>2. x \in Bytes /\ y \in Bytes /\ LineOf(x, y, o, q) = LineOf(r, p, o, q)
      BY <1>2, <2>2, Written
    <3>3. ~(n < Len(p)) => y = <<>>
      <4>1. Len(p) \in Nat
        BY <1>2, LenProperties DEF Bytes
      <4> QED
        BY <2>2, <4>1, SubSeqEmpty
    <3> HIDE DEF x, y
    <3>4. Kept(LineOf(x, y, o, q), trail'.lost, trail'.sent)
      BY <1>2, <2>2, <3>2
    <3>5. Parts(x, y, o, q)
      BY <1>1, <1>2, <2>1, <2>2, <3>1, <3>2 DEF Parts, LineInv, SerialShape
    <3>6. bridge'.at \notin {"write", "requeue"} => y = <<>>
      BY <3>1, <3>3
    <3> QED
      BY <1>1, <3>4, <3>5, <3>6, LineStep, Zenon
  <2>3. ASSUME DropClient PROVE LineInv'
    BY <2>1, <2>3, <1>5
  <2> QED
    BY <1>7, <2>2, <2>3 DEF FlushWrite
<1>8. CASE FlushRequeue
  <2>1. /\ output' = Join(p, o) /\ bridge'.pending = <<>> /\ DOMAIN bridge' = DOMAIN bridge
        /\ wire' = wire /\ trail' = trail /\ port' = port
    BY <1>8 DEF FlushRequeue, mainUnchanged, LineInv, SerialShape, Join
  <2>2. Join(p, o) \in Bytes /\ LineOf(r, <<>>, Join(p, o), q) = LineOf(r, p, o, q)
    BY <1>2, PutBack
  <2>3. Kept(LineOf(r, <<>>, Join(p, o), q), trail'.lost, trail'.sent)
    BY <1>2, <2>1, <2>2
  <2>4. Parts(r, <<>>, Join(p, o), q)
    <3>1. <<>> \in Bytes
      BY <1>2, Taken
    <3> QED
      BY <1>1, <1>2, <2>1, <2>2, <3>1 DEF Parts, LineInv, SerialShape
  <2> QED
    BY <1>1, <2>3, <2>4, LineStep, Zenon
<1> QED
  BY <1>1, <1>3, <1>4, <1>7, <1>8, <1>6 DEF poll_loop

LEMMA LineInvNext == LineInv /\ [HostNext]_hostVars => LineInv'
<1> SUFFICES ASSUME LineInv, [HostNext]_hostVars PROVE LineInv'
  OBVIOUS
<1>1. ASSUME rig' = rig, UNCHANGED serialVars PROVE LineInv'
  BY <1>1, StillQuiet, LineQuiet
<1>2. CASE MainLoop
  <2>1. CASE HookInstruction \/ ChunkGoesOn
    BY <2>1, GuestLine DEF HookInstruction, Retires, ChunkGoesOn
  <2>2. CASE HookTrap \/ HookStopped \/ HookCheck
    BY <2>2, <1>1 DEF HookTrap, HookStopped, HookCheck, Trapped, Parked, RetiredCheck, NoAccess
  <2>3. CASE ChunkEnds \/ ChunkStopped \/ ChunkCheck \/ ChunkTick \/ CatchUp
    BY <2>3, <1>1 DEF ChunkEnds, ChunkStopped, ChunkCheck, ChunkTick, CatchUp, NoAccess
  <2>4. CASE Drain
    BY <2>4, DrainLine DEF Drain, loopVars
  <2>5. CASE Drained \/ Service \/ InputScriptWaits \/ InputDirective
    BY <2>5, <1>1 DEF Drained, Service, InputScriptWaits, InputDirective, NoAccess
  <2>6. CASE Sleep
    <3>1. rig' = rig /\ (ReceiveHostByte \/ UNCHANGED serialVars)
      BY <2>6 DEF Sleep
    <3> QED
      BY <1>1, <3>1, ReceiveQuiet, LineQuiet
  <2>7. CASE ServiceTcp
    <3>1. rig' = rig /\ (ReceiveHostByte \/ UNCHANGED serialVars)
      BY <2>7 DEF ServiceTcp, StayLoop
    <3> QED
      BY <1>1, <3>1, ReceiveQuiet, LineQuiet
  <2>8. CASE ServiceSerialScript
    <3>1. /\ rig' = rig
          /\ StartDirective(frame) \/ DirectiveEnds(frame) \/ SendByte \/ ScriptWaits(frame)
      BY <2>8 DEF ServiceSerialScript, StayLoop
    <3> QED
      BY <3>1, ScriptQuiet, LineQuiet
  <2> QED
    BY <1>2, <2>1, <2>2, <2>3, <2>4, <2>5, <2>6, <2>7, <2>8 DEF MainLoop
<1>3. CASE BootLoop
  <2>1. CASE BootInstruction
    BY <2>1, GuestLine DEF BootInstruction, Retires
  <2>2. CASE BootDrain
    BY <2>2, BootDrainLine DEF BootDrain, loopVars
  <2>3. CASE BootCheck \/ BootTrap \/ BootStopped
    BY <2>3, <1>1 DEF BootCheck, BootTrap, BootStopped, RetiredCheck, Trapped, Parked, NoAccess
  <2> QED
    BY <1>3, <2>1, <2>2, <2>3 DEF BootLoop
<1>4. CASE BootEnds
  BY <1>4, BootEndsLine
<1>5. CASE BridgeThread
  BY <1>5, BridgeLine
<1>6. CASE UNCHANGED hostVars
  BY <1>6, <1>1 DEF hostVars, loopVars
<1> QED
  BY <1>2, <1>3, <1>4, <1>5, <1>6 DEF HostNext

LEMMA LineInvOrder == LineInv => SerialOutInOrder
<1> SUFFICES ASSUME LineInv PROVE SerialOutInOrder
  OBVIOUS
<1>1. Line = wire.received \o bridge.pending \o output \o port.out
  BY Zenon DEF Line, LineOf, Join
<1>2. Line \in Seq(Nat) /\ Rising(Line) /\ Range(Line) \cup trail.lost = 1 .. trail.sent
  BY DEF LineInv, Kept, Bytes
<1>3. Len(Line) \in Nat
  BY <1>2, LenProperties
<1>4. Increasing(Line)
  BY <1>2, <1>3 DEF Increasing, Rising
<1> QED
  BY <1>1, <1>2, <1>4, Zenon DEF SerialOutInOrder

(***************************************************************************)
(* What the guest wrote to SERDAT reaches the TCP client, the console or   *)
(* the board's UART in order and once, whatever run loop and bridge thread *)
(* do to the queue between two locks; a byte is missing only where the     *)
(* code says it drops one.                                                 *)
(***************************************************************************)
THEOREM SerialOutputIsInOrder == HostSpec => []SerialOutInOrder
<1>1. HostInit => LineInv
  BY LineInvHolds
<1>2. LineInv /\ [HostNext]_hostVars => LineInv'
  BY LineInvNext
<1>3. LineInv => SerialOutInOrder
  BY LineInvOrder
<1> QED
  BY <1>1, <1>2, <1>3, PTL DEF HostSpec

-----------------------------------------------------------------------------
(***************************************************************************)
(* The guest's input.  Share counts a sender's bytes; a byte that arrives  *)
(* adds one to its sender's.                                               *)
(***************************************************************************)
InBytes == {"script", "tcp"} \X Nat
Got == trail.read \o port.in
Tally(who, s) == Share(who, s, Len(s))

LEMMA SharesCount ==
    ASSUME NEW who, NEW s, NEW n \in Nat
    PROVE  /\ IsFiniteSet({j \in 1 .. n : s[j][1] = who})
           /\ Share(who, s, n) \in Nat
<1>1. IsFiniteSet(1 .. n)
  BY FS_Interval
<1>2. IsFiniteSet({j \in 1 .. n : s[j][1] = who})
  BY <1>1, FS_Subset
<1> QED
  BY <1>2, FS_CardinalityType DEF Share

LEMMA SharesOfPrefix ==
    ASSUME NEW s \in Seq(InBytes), NEW b \in InBytes, NEW who, NEW n \in 0 .. Len(s)
    PROVE  Share(who, Append(s, b), n) = Share(who, s, n)
<1> DEFINE t == Append(s, b)
<1>1. \A j \in 1 .. n : t[j] = s[j]
  BY AppendProperties
<1>2. {j \in 1 .. n : t[j][1] = who} = {j \in 1 .. n : s[j][1] = who}
  BY <1>1
<1> QED
  BY <1>2 DEF Share

LEMMA TallyOfAppend ==
    ASSUME NEW s \in Seq(InBytes), NEW b \in InBytes, NEW who
    PROVE  /\ Append(s, b) \in Seq(InBytes)
           /\ Tally(who, s) \in Nat
           /\ Tally(who, Append(s, b)) = Tally(who, s) + (IF b[1] = who THEN 1 ELSE 0)
<1> DEFINE t == Append(s, b)
           n == Len(s)
           old == {j \in 1 .. n : s[j][1] = who}
           new == {j \in 1 .. n + 1 : t[j][1] = who}
<1>1. n \in Nat /\ t \in Seq(InBytes) /\ Len(t) = n + 1 /\ t[n + 1] = b /\ \A j \in 1 .. n : t[j] = s[j]
  BY AppendProperties, LenProperties
<1>2. IsFiniteSet(old) /\ Tally(who, s) \in Nat /\ Tally(who, s) = Cardinality(old)
  BY <1>1, SharesCount DEF Tally, Share
<1>3. Tally(who, t) = Cardinality(new)
  BY <1>1 DEF Tally, Share
<1>4. CASE b[1] = who
  <2>1. new = old \cup {n + 1} /\ n + 1 \notin old
    BY <1>1, <1>4
  <2>2. Cardinality(new) = Cardinality(old) + 1
    BY <1>2, <2>1, FS_AddElement
  <2> QED
    BY <1>1, <1>2, <1>3, <1>4, <2>2
<1>5. CASE b[1] # who
  <2>1. new = old
    BY <1>1, <1>5
  <2>2. Tally(who, t) = Tally(who, s)
    BY <1>2, <1>3, <2>1
  <2>3. Tally(who, s) + 0 = Tally(who, s)
    BY <1>2
  <2> QED
    BY <1>1, <1>2, <1>5, <2>2, <2>3, Zenon
<1> QED
  BY <1>4, <1>5

(* The script's bytes have the numbers 1, 2, 3, ... *)
Scripted(s) == \A i \in 1 .. Len(s) : s[i][1] = "script" => s[i][2] = Share("script", s, i)

LEMMA ScriptedAppend ==
    ASSUME NEW s \in Seq(InBytes), NEW b \in InBytes, Scripted(s),
           b[1] = "script" => b[2] = Tally("script", s) + 1
    PROVE  Scripted(Append(s, b))
<1> DEFINE t == Append(s, b)
           n == Len(s)
<1>1. n \in Nat /\ Len(t) = n + 1 /\ t[n + 1] = b /\ \A j \in 1 .. n : t[j] = s[j]
  BY AppendProperties, LenProperties
<1>2. ASSUME NEW i \in 1 .. n, t[i][1] = "script" PROVE t[i][2] = Share("script", t, i)
  <2>1. i \in 0 .. n /\ t[i] = s[i]
    BY <1>1, <1>2
  <2>2. Share("script", t, i) = Share("script", s, i)
    BY <2>1, SharesOfPrefix
  <2> QED
    BY <1>2, <2>1, <2>2 DEF Scripted
<1>3. ASSUME t[n + 1][1] = "script" PROVE t[n + 1][2] = Share("script", t, n + 1)
  <2>1. Tally("script", t) = Tally("script", s) + 1
    BY <1>1, <1>3, TallyOfAppend
  <2> QED
    BY <1>1, <1>3, <2>1 DEF Tally
<1> HIDE DEF t
<1>4. \A i \in 1 .. Len(t) : i \in 1 .. n \/ i = n + 1
  BY <1>1
<1>5. Scripted(t)
  BY <1>2, <1>3, <1>4, Zenon DEF Scripted
<1> QED
  BY <1>5 DEF t

(* Between the guest's read and the ring nothing is lost: a byte read moves *)
(* over, a byte that arrives joins at the end.                              *)
LEMMA ReadKeepsGot ==
    ASSUME NEW r \in Seq(InBytes), NEW q \in Seq(InBytes), q # <<>>
    PROVE  /\ Append(r, Head(q)) \in Seq(InBytes) /\ Tail(q) \in Seq(InBytes)
           /\ Append(r, Head(q)) \o Tail(q) = r \o q
<1>1. Head(q) \in InBytes /\ Tail(q) \in Seq(InBytes) /\ Len(Tail(q)) = Len(q) - 1
      /\ \A i \in 1 .. Len(Tail(q)) : Tail(q)[i] = q[i + 1]
  BY HeadTailProperties
<1>2. Head(q) = q[1] /\ Len(q) \in Nat /\ Len(q) > 0 /\ Len(r) \in Nat
  BY EmptySeq, LenProperties
<1> DEFINE a == Append(r, Head(q))
           t == Tail(q)
<1>3. a \in Seq(InBytes) /\ Len(a) = Len(r) + 1 /\ a[Len(r) + 1] = q[1]
      /\ \A i \in 1 .. Len(r) : a[i] = r[i]
  BY <1>1, <1>2, AppendProperties
<1> HIDE DEF a, t
<1>4. t \in Seq(InBytes) /\ Len(t) = Len(q) - 1 /\ \A i \in 1 .. Len(t) : t[i] = q[i + 1]
  BY <1>1 DEF t
<1>5. /\ a \o t \in Seq(InBytes) /\ Len(a \o t) = Len(r) + Len(q)
      /\ \A i \in 1 .. Len(r) + Len(q) : (a \o t)[i] = IF i <= Len(r) + 1 THEN a[i] ELSE t[i - (Len(r) + 1)]
  <2>1. /\ a \o t \in Seq(InBytes) /\ Len(a \o t) = Len(a) + Len(t)
        /\ \A i \in 1 .. Len(a) + Len(t) : (a \o t)[i] = IF i <= Len(a) THEN a[i] ELSE t[i - Len(a)]
    BY <1>3, <1>4, ConcatProperties, Zenon
  <2>2. Len(a) = Len(r) + 1 /\ Len(a) + Len(t) = Len(r) + Len(q)
    BY <1>2, <1>3, <1>4
  <2> QED
    BY <2>1, <2>2
<1>6. /\ r \o q \in Seq(InBytes) /\ Len(r \o q) = Len(r) + Len(q)
      /\ \A i \in 1 .. Len(r) + Len(q) : (r \o q)[i] = IF i <= Len(r) THEN r[i] ELSE q[i - Len(r)]
  BY <1>2, ConcatProperties
<1>7. \A i \in 1 .. Len(r) + Len(q) : (a \o t)[i] = (r \o q)[i]
  <2>1. TAKE i \in 1 .. Len(r) + Len(q)
  <2>2. CASE i <= Len(r)
    BY <1>2, <1>3, <1>5, <1>6, <2>2
  <2>3. CASE i = Len(r) + 1
    BY <1>2, <1>3, <1>5, <1>6, <2>3
  <2>4. CASE i > Len(r) + 1
    <3>1. i - (Len(r) + 1) \in 1 .. Len(t) /\ i - (Len(r) + 1) + 1 = i - Len(r)
      BY <1>2, <1>4, <2>4
    <3>2. t[i - (Len(r) + 1)] = q[i - Len(r)]
      BY <1>4, <3>1
    <3> QED
      BY <1>2, <1>5, <1>6, <2>4, <3>2
  <2> QED
    <3>1. i \in Int /\ Len(r) \in Int /\ (i <= Len(r) \/ i = Len(r) + 1 \/ i > Len(r) + 1)
      BY <1>2
    <3> QED
      BY <2>2, <2>3, <2>4, <3>1
<1>8. a \o t = r \o q
  BY <1>5, <1>6, <1>7, SeqEqual
<1> QED
  BY <1>1, <1>3, <1>8 DEF a, t

LEMMA ArrivalJoinsGot ==
    ASSUME NEW r \in Seq(InBytes), NEW q \in Seq(InBytes), NEW b \in InBytes
    PROVE  /\ Append(q, b) \in Seq(InBytes) /\ r \o q \in Seq(InBytes)
           /\ r \o Append(q, b) = Append(r \o q, b)
<1> DEFINE a == Append(q, b)
           g == r \o q
<1>1. Len(q) \in Nat /\ Len(r) \in Nat
  BY LenProperties
<1>2. a \in Seq(InBytes) /\ Len(a) = Len(q) + 1 /\ a[Len(q) + 1] = b
      /\ \A i \in 1 .. Len(q) : a[i] = q[i]
  BY AppendProperties
<1>3. /\ g \in Seq(InBytes) /\ Len(g) = Len(r) + Len(q)
      /\ \A i \in 1 .. Len(r) + Len(q) : g[i] = IF i <= Len(r) THEN r[i] ELSE q[i - Len(r)]
  BY <1>1, ConcatProperties
<1> HIDE DEF a, g
<1>4. /\ r \o a \in Seq(InBytes) /\ Len(r \o a) = Len(r) + Len(a)
      /\ \A i \in 1 .. Len(r) + Len(a) : (r \o a)[i] = IF i <= Len(r) THEN r[i] ELSE a[i - Len(r)]
  BY <1>1, <1>2, ConcatProperties, Zenon
<1>5. Append(g, b) \in Seq(InBytes) /\ Len(Append(g, b)) = Len(g) + 1 /\ Append(g, b)[Len(g) + 1] = b
      /\ \A i \in 1 .. Len(g) : Append(g, b)[i] = g[i]
  <2>1. g \in Seq(InBytes) /\ b \in InBytes
    BY <1>3
  <2> QED
    BY ONLY <2>1, AppendProperties
<1>6. \A i \in 1 .. Len(g) + 1 : (r \o a)[i] = Append(g, b)[i]
  <2>1. TAKE i \in 1 .. Len(g) + 1
  <2>2. CASE i <= Len(r)
    BY <1>1, <1>2, <1>3, <1>4, <1>5, <2>2
  <2>3. CASE i > Len(r) /\ i <= Len(g)
    <3>1. i - Len(r) \in 1 .. Len(q) /\ i \in 1 .. Len(g) /\ i \in 1 .. Len(r) + Len(a)
      BY <1>1, <1>2, <1>3, <2>3
    <3>2. (r \o a)[i] = a[i - Len(r)] /\ g[i] = q[i - Len(r)]
      BY <1>1, <1>3, <1>4, <2>3, <3>1
    <3> QED
      BY <1>2, <1>5, <3>1, <3>2, Zenon
  <2>4. CASE i = Len(g) + 1
    BY <1>1, <1>2, <1>3, <1>4, <1>5, <2>4
  <2> QED
    <3>1. i \in Int /\ Len(g) \in Int /\ Len(r) <= Len(g) /\ i <= Len(g) + 1
      BY <1>1, <1>3
    <3>2. i <= Len(r) \/ (i > Len(r) /\ i <= Len(g)) \/ i = Len(g) + 1
      BY <1>1, <3>1
    <3> QED
      BY <2>2, <2>3, <2>4, <3>2
<1>7. r \o a = Append(g, b)
  BY <1>1, <1>2, <1>3, <1>4, <1>5, <1>6, SeqEqual
<1> QED
  BY <1>2, <1>3, <1>7 DEF a, g

(***************************************************************************)
(* The clients' bytes in s are in order, and of the first m they typed     *)
(* they are all but the lost ones.                                         *)
(***************************************************************************)
ClientsInOrder(s, lost, m) ==
    /\ \A i, j \in FromClient(s) : i < j => s[i][2] < s[j][2]
    /\ NumbersOf(s) \cup lost = 1 .. m
    /\ NumbersOf(s) \cap lost = {}

(***************************************************************************)
(* The bytes the guest got, the bridge's queue, the ones that went with    *)
(* their client, and how many of those typed poll_loop has not read.       *)
(***************************************************************************)
Arriving(got, inq, lost, unread, typed) ==
    /\ got \in Seq(InBytes) /\ inq \in Seq(InBytes) /\ Scripted(got)
    /\ \A i \in 1 .. Len(inq) : inq[i][1] = "tcp"
    /\ unread \in Nat /\ typed \in Nat /\ unread <= typed
    /\ ClientsInOrder(got \o inq, lost, typed - unread)

(* The next bytes the clients typed join at the end. *)
LEMMA MoreInOrder ==
    ASSUME NEW s \in Seq(InBytes), NEW f \in Seq(InBytes), NEW lost, NEW m \in Nat, ClientsInOrder(s, lost, m),
           \A i \in 1 .. Len(f) : f[i] = <<"tcp", m + i>>
    PROVE  ClientsInOrder(s \o f, lost, m + Len(f))
<1> DEFINE z == s \o f
           n == Len(s)
           k == Len(f)
<1>1. n \in Nat /\ k \in Nat
  BY LenProperties
<1>2. /\ Len(z) = n + k
      /\ \A i \in 1 .. n + k : z[i] = IF i <= n THEN s[i] ELSE f[i - n]
  BY ConcatProperties
<1> HIDE DEF z, n, k
<1>3. \A i \in 1 .. n : i \in 1 .. n + k /\ z[i] = s[i]
  BY <1>1, <1>2
<1>4. \A i \in n + 1 .. n + k : i \in 1 .. n + k /\ z[i][1] = "tcp" /\ z[i][2] = m + (i - n)
  <2>1. TAKE i \in n + 1 .. n + k
  <2>2. i - n \in 1 .. k /\ i \in 1 .. n + k /\ ~(i <= n)
    BY <1>1
  <2>3. z[i] = f[i - n] /\ f[i - n] = <<"tcp", m + (i - n)>>
    BY <1>2, <2>2 DEF k
  <2> QED
    BY <2>2, <2>3
<1>5. FromClient(s) \subseteq 1 .. n /\ FromClient(z) = FromClient(s) \cup (n + 1 .. n + k)
  <2>1. FromClient(s) = {i \in 1 .. n : s[i][1] = "tcp"} /\ FromClient(z) = {i \in 1 .. n + k : z[i][1] = "tcp"}
    BY <1>2 DEF FromClient, n
  <2>2. \A i \in 1 .. n + k : i \in 1 .. n \/ i \in n + 1 .. n + k
    BY <1>1
  <2> QED
    BY <1>3, <1>4, <2>1, <2>2
<1>6. \A i \in FromClient(s) : s[i][2] \in NumbersOf(s) /\ s[i][2] \in 1 .. m /\ z[i] = s[i]
  BY <1>3, <1>5 DEF ClientsInOrder, NumbersOf
<1>7. ASSUME NEW i \in FromClient(z), NEW j \in FromClient(z), i < j PROVE z[i][2] < z[j][2]
  <2>1. CASE i \in FromClient(s) /\ j \in FromClient(s)
    BY <1>6, <1>7, <2>1 DEF ClientsInOrder
  <2>2. CASE i \in FromClient(s) /\ j \in n + 1 .. n + k
    <3>1. z[i][2] \in 1 .. m
      BY <1>6, <2>2
    <3>2. z[j][2] = m + (j - n)
      BY <1>4, <2>2, Zenon
    <3>3. j - n \in Nat \ {0}
      BY <1>1, <2>2
    <3> QED
      BY <3>1, <3>2, <3>3
  <2>3. CASE i \in n + 1 .. n + k /\ j \in FromClient(s)
    BY <1>1, <1>5, <1>7, <2>3
  <2>4. CASE i \in n + 1 .. n + k /\ j \in n + 1 .. n + k
    <3>1. z[i][2] = m + (i - n) /\ z[j][2] = m + (j - n)
      BY <1>4, <2>4
    <3> QED
      BY <1>1, <1>7, <2>4, <3>1
  <2> QED
    BY <1>5, <2>1, <2>2, <2>3, <2>4
<1>8. NumbersOf(z) = NumbersOf(s) \cup (m + 1 .. m + k)
  <2>1. ASSUME NEW x \in NumbersOf(z) PROVE x \in NumbersOf(s) \cup (m + 1 .. m + k)
    <3>1. PICK i \in FromClient(z) : x = z[i][2]
      BY <2>1 DEF NumbersOf
    <3>2. CASE i \in FromClient(s)
      BY <1>6, <3>1, <3>2
    <3>3. CASE i \in n + 1 .. n + k
      <4>1. x = m + (i - n)
        BY <1>4, <3>1, <3>3
      <4> QED
        BY <1>1, <3>3, <4>1
    <3> QED
      BY <1>5, <3>2, <3>3
  <2>2. ASSUME NEW x \in NumbersOf(s) PROVE x \in NumbersOf(z)
    <3>1. PICK i \in FromClient(s) : x = s[i][2]
      BY <2>2 DEF NumbersOf
    <3>2. i \in FromClient(z) /\ z[i] = s[i]
      BY <1>5, <1>6
    <3> QED
      BY <3>1, <3>2 DEF NumbersOf
  <2>3. ASSUME NEW x \in m + 1 .. m + k PROVE x \in NumbersOf(z)
    <3>1. (x - m) + n \in n + 1 .. n + k /\ m + (((x - m) + n) - n) = x
      BY <1>1, <2>3
    <3>2. z[(x - m) + n][2] = x
      BY <1>4, <3>1
    <3> QED
      BY <1>5, <3>1, <3>2 DEF NumbersOf
  <2> QED
    BY <2>1, <2>2, <2>3
<1>9. NumbersOf(z) \cup lost = 1 .. m + k /\ NumbersOf(z) \cap lost = {}
  <2>1. 1 .. m + k = (1 .. m) \cup (m + 1 .. m + k) /\ (1 .. m) \cap (m + 1 .. m + k) = {}
    BY <1>1
  <2>2. NumbersOf(s) \cup lost = 1 .. m /\ NumbersOf(s) \cap lost = {}
    BY DEF ClientsInOrder
  <2> QED
    BY <1>8, <2>1, <2>2
<1> QED
  BY <1>7, <1>9 DEF ClientsInOrder, z, k

(* A byte of the script anywhere among them changes nothing. *)
LEMMA ScriptByteAside ==
    ASSUME NEW g \in Seq(InBytes), NEW q \in Seq(InBytes), NEW b \in InBytes, b[1] # "tcp",
           NEW lost, NEW m, ClientsInOrder(g \o q, lost, m)
    PROVE  ClientsInOrder(Append(g, b) \o q, lost, m)
<1> DEFINE a == Append(g, b)
           s == g \o q
           z == a \o q
           n == Len(g)
           k == Len(q)
           At(i) == IF i <= n THEN i ELSE i + 1
<1>1. n \in Nat /\ k \in Nat
  BY LenProperties
<1>2. a \in Seq(InBytes) /\ Len(a) = n + 1 /\ a[n + 1] = b /\ \A i \in 1 .. n : a[i] = g[i]
  BY AppendProperties
<1> HIDE DEF a
<1>3. /\ Len(s) = n + k
      /\ \A i \in 1 .. n + k : s[i] = IF i <= n THEN g[i] ELSE q[i - n]
  BY ConcatProperties
<1>4. /\ Len(z) = (n + 1) + k
      /\ \A i \in 1 .. (n + 1) + k : z[i] = IF i <= n + 1 THEN a[i] ELSE q[i - (n + 1)]
  <2>1. /\ Len(z) = Len(a) + k
        /\ \A i \in 1 .. Len(a) + k : z[i] = IF i <= Len(a) THEN a[i] ELSE q[i - Len(a)]
    BY <1>2, ConcatProperties
  <2> QED
    BY <1>2, <2>1
<1> HIDE DEF s, z, n, k
<1>5. ASSUME NEW i \in 1 .. n + k PROVE At(i) \in 1 .. n + 1 + k /\ z[At(i)] = s[i]
  <2>1. CASE i <= n
    <3>1. i \in 1 .. n /\ i <= n + 1 /\ i \in 1 .. (n + 1) + k
      BY <1>1, <2>1
    <3>2. z[i] = a[i] /\ s[i] = g[i] /\ a[i] = g[i]
      BY <1>2, <1>3, <1>4, <2>1, <3>1
    <3> QED
      BY <1>1, <2>1, <3>1, <3>2
  <2>2. CASE ~(i <= n)
    <3>1. PICK j \in 1 .. (n + 1) + k : j = i + 1 /\ ~(j <= n + 1) /\ j - (n + 1) = i - n
      BY <1>1, <2>2
    <3>2. z[j] = q[j - (n + 1)]
      BY <1>4, <3>1, Zenon
    <3>3. s[i] = q[i - n]
      BY <1>3, <2>2, Zenon
    <3>4. z[i + 1] = s[i]
      BY <3>1, <3>2, <3>3
    <3> QED
      BY <1>1, <2>2, <3>1, <3>4
  <2> QED
    BY <2>1, <2>2
<1>6. ASSUME NEW i \in FromClient(z) PROVE \E h \in FromClient(s) : i = At(h) /\ z[i] = s[h]
  <2>1. i \in 1 .. (n + 1) + k /\ z[i][1] = "tcp"
    BY <1>4, <1>6 DEF FromClient
  <2>2. i # n + 1
    <3>1. ASSUME i = n + 1 PROVE FALSE
      <4>1. z[i] = b
        BY <1>1, <1>2, <1>4, <2>1, <3>1
      <4> QED
        BY <2>1, <4>1
    <3> QED
      BY <3>1
  <2>3. \E h \in 1 .. n + k : i = At(h)
    <3>1. CASE i <= n
      <4>1. i \in 1 .. n + k /\ At(i) = i
        BY <1>1, <2>1, <3>1
      <4> QED
        BY <4>1
    <3>2. CASE i > n + 1
      <4>1. i - 1 \in 1 .. n + k /\ At(i - 1) = i
        BY <1>1, <2>1, <3>2
      <4> QED
        BY <4>1
    <3> QED
      BY <1>1, <2>1, <2>2, <3>1, <3>2
  <2>4. PICK h \in 1 .. n + k : i = At(h)
    BY <2>3
  <2>5. z[i] = s[h]
    BY <1>5, <2>4
  <2>6. h \in FromClient(s)
    BY <1>3, <2>1, <2>4, <2>5 DEF FromClient
  <2> QED
    BY <2>4, <2>5, <2>6
<1>7. ASSUME NEW h \in FromClient(s) PROVE At(h) \in FromClient(z) /\ z[At(h)] = s[h]
  <2>1. h \in 1 .. n + k /\ s[h][1] = "tcp"
    BY <1>3, <1>7 DEF FromClient
  <2>2. At(h) \in 1 .. Len(z) /\ z[At(h)] = s[h]
    BY <1>1, <1>4, <1>5, <2>1
  <2> QED
    BY <2>1, <2>2 DEF FromClient
<1>8. \A h, i \in FromClient(s) : At(h) < At(i) => h < i
  <2>1. FromClient(s) \subseteq Int
    BY <1>1, <1>3 DEF FromClient
  <2> QED
    BY <1>1, <2>1
<1> HIDE DEF At
<1>9. ASSUME NEW i \in FromClient(z), NEW j \in FromClient(z), i < j PROVE z[i][2] < z[j][2]
  <2>1. PICK h \in FromClient(s) : i = At(h) /\ z[i] = s[h]
    BY <1>6
  <2>2. PICK l \in FromClient(s) : j = At(l) /\ z[j] = s[l]
    BY <1>6
  <2>3. h < l
    BY <1>8, <1>9, <2>1, <2>2
  <2> QED
    BY <2>1, <2>2, <2>3 DEF ClientsInOrder, s
<1>10. NumbersOf(z) = NumbersOf(s)
  <2>1. ASSUME NEW x \in NumbersOf(z) PROVE x \in NumbersOf(s)
    BY <1>6, <2>1 DEF NumbersOf
  <2>2. ASSUME NEW x \in NumbersOf(s) PROVE x \in NumbersOf(z)
    <3>1. PICK h \in FromClient(s) : x = s[h][2]
      BY <2>2 DEF NumbersOf
    <3> QED
      BY <1>7, <3>1 DEF NumbersOf
  <2> QED
    BY <2>1, <2>2
<1> QED
  BY <1>9, <1>10 DEF ClientsInOrder, s, z, a

LEMMA QueuedByteArrives ==
    ASSUME NEW g, NEW q, NEW l, NEW u, NEW t, Arriving(g, q, l, u, t), q # <<>>
    PROVE  /\ Head(q) \in InBytes
           /\ Arriving(Append(g, Head(q)), Tail(q), l, u, t)
           /\ Tally("script", Append(g, Head(q))) = Tally("script", g)
<1> DEFINE b == Head(q)
           a == Append(g, b)
           z == Tail(q)
<1>1. g \in Seq(InBytes) /\ q \in Seq(InBytes) /\ Scripted(g)
  BY DEF Arriving
<1>2. /\ b \in InBytes /\ z \in Seq(InBytes) /\ Len(z) = Len(q) - 1
      /\ \A i \in 1 .. Len(z) : z[i] = q[i + 1]
  BY <1>1, HeadTailProperties
<1>3. Len(q) \in Nat /\ Len(q) > 0 /\ b = q[1]
  BY <1>1, <1>2, LenProperties, EmptySeq
<1>4. b[1] = "tcp"
  BY <1>3 DEF Arriving
<1>5. a \in Seq(InBytes) /\ Scripted(a) /\ Tally("script", a) = Tally("script", g)
  <2>1. /\ a \in Seq(InBytes) /\ Tally("script", g) \in Nat
        /\ Tally("script", a) = Tally("script", g) + (IF b[1] = "script" THEN 1 ELSE 0)
    BY <1>1, <1>2, TallyOfAppend
  <2>2. Scripted(a)
    BY <1>1, <1>2, <1>4, ScriptedAppend
  <2> QED
    BY <1>4, <2>1, <2>2
<1>6. \A i \in 1 .. Len(z) : z[i][1] = "tcp"
  <2>1. TAKE i \in 1 .. Len(z)
  <2>2. i + 1 \in 1 .. Len(q)
    BY <1>2, <1>3
  <2> QED
    BY <1>2, <2>2 DEF Arriving
<1>7. a \o z = g \o q
  BY <1>1, ReadKeepsGot
<1> QED
  BY <1>2, <1>5, <1>6, <1>7 DEF Arriving

LEMMA ScriptByteArrives ==
    ASSUME NEW g, NEW q, NEW l, NEW u, NEW t, Arriving(g, q, l, u, t),
           NEW b, b = <<"script", Tally("script", g) + 1>>
    PROVE  /\ b \in InBytes
           /\ Arriving(Append(g, b), q, l, u, t)
           /\ Tally("script", Append(g, b)) = Tally("script", g) + 1
<1> DEFINE a == Append(g, b)
           n == Tally("script", g)
<1>1. g \in Seq(InBytes) /\ q \in Seq(InBytes) /\ Scripted(g)
  BY DEF Arriving
<1>2. n \in Nat
  BY <1>1, SharesCount, LenProperties DEF Tally
<1>3. b \in InBytes /\ b[1] = "script" /\ b[2] = n + 1
  BY <1>2 DEF InBytes
<1>4. a \in Seq(InBytes) /\ Tally("script", a) = n + (IF b[1] = "script" THEN 1 ELSE 0)
  BY <1>1, <1>3, TallyOfAppend
<1>5. Scripted(a)
  BY <1>1, <1>3, ScriptedAppend
<1>6. ClientsInOrder(a \o q, l, t - u)
  BY <1>1, <1>3, ScriptByteAside DEF Arriving
<1> QED
  BY <1>3, <1>4, <1>5, <1>6 DEF Arriving

(* fill_input appends what it read of the socket. *)
LEMMA SocketRead ==
    ASSUME NEW g, NEW q, NEW l, NEW u, NEW t, Arriving(g, q, l, u, t), NEW n \in Nat, n <= u
    PROVE  Arriving(g, q \o [i \in 1 .. n |-> <<"tcp", t - u + i>>], l, u - n, t)
<1> DEFINE f == [i \in 1 .. n |-> <<"tcp", t - u + i>>]
<1>1. g \in Seq(InBytes) /\ q \in Seq(InBytes) /\ u \in Nat /\ t \in Nat /\ u <= t /\ Len(q) \in Nat
  BY LenProperties DEF Arriving
<1>2. /\ f \in Seq(InBytes) /\ Len(f) = n
      /\ \A i \in 1 .. n : f[i] = <<"tcp", (t - u) + i>>
  <2>1. \A i \in 1 .. n : <<"tcp", t - u + i>> \in InBytes
    BY <1>1 DEF InBytes
  <2>2. f \in [1 .. n -> InBytes]
    BY <2>1
  <2> QED
    BY <2>2
<1> HIDE DEF f
<1>3. /\ q \o f \in Seq(InBytes) /\ Len(q \o f) = Len(q) + n
      /\ \A i \in 1 .. Len(q) + n : (q \o f)[i] = IF i <= Len(q) THEN q[i] ELSE f[i - Len(q)]
  <2>1. q \o f \in Seq(InBytes) /\ Len(q \o f) = Len(q) + Len(f)
        /\ \A i \in 1 .. Len(q) + Len(f) : (q \o f)[i] = IF i <= Len(q) THEN q[i] ELSE f[i - Len(q)]
    BY <1>1, <1>2, ConcatProperties, Zenon
  <2> QED
    BY <1>2, <2>1
<1>4. \A i \in 1 .. Len(q \o f) : (q \o f)[i][1] = "tcp"
  <2>1. TAKE i \in 1 .. Len(q \o f)
  <2>2. CASE i <= Len(q)
    <3>1. (q \o f)[i] = q[i] /\ i \in 1 .. Len(q)
      BY <1>1, <1>3, <2>2
    <3> QED
      BY <3>1 DEF Arriving
  <2>3. CASE ~(i <= Len(q))
    <3>1. i - Len(q) \in 1 .. n /\ (q \o f)[i] = f[i - Len(q)]
      BY <1>1, <1>3, <2>3
    <3> QED
      BY <1>2, <3>1
  <2> QED
    BY <2>2, <2>3
<1>5. ClientsInOrder(g \o (q \o f), l, t - (u - n))
  <2>1. g \o q \in Seq(InBytes) /\ (g \o q) \o f = g \o (q \o f)
    BY <1>1, <1>2, ConcatProperties, ConcatAssociative
  <2>2. ClientsInOrder(g \o q, l, t - u) /\ t - u \in Nat
    BY <1>1 DEF Arriving
  <2>3. ClientsInOrder((g \o q) \o f, l, (t - u) + n)
    BY <1>2, <2>1, <2>2, MoreInOrder
  <2>4. (t - u) + n = t - (u - n)
    BY <1>1
  <2> QED
    BY <2>1, <2>3, <2>4
<1>6. u - n \in Nat /\ u - n <= t
  BY <1>1
<1> QED
  BY <1>1, <1>3, <1>4, <1>5, <1>6 DEF Arriving, f

(* A client goes with what it typed and nobody read. *)
LEMMA UnreadGone ==
    ASSUME NEW g, NEW q, NEW l, NEW u, NEW t, Arriving(g, q, l, u, t)
    PROVE  Arriving(g, q, l \cup (t - u + 1 .. t), 0, t)
<1>1. u \in Nat /\ t \in Nat /\ u <= t /\ t - 0 = t
  BY DEF Arriving
<1>2. 1 .. t = (1 .. t - u) \cup (t - u + 1 .. t) /\ (1 .. t - u) \cap (t - u + 1 .. t) = {}
  BY <1>1
<1>3. ClientsInOrder(g \o q, l, t - u)
  BY DEF Arriving
<1>4. ClientsInOrder(g \o q, l \cup (t - u + 1 .. t), t)
  BY <1>2, <1>3 DEF ClientsInOrder
<1> QED
  BY <1>1, <1>4 DEF Arriving

LEMMA OneMoreTyped ==
    ASSUME NEW g, NEW q, NEW l, NEW u, NEW t, Arriving(g, q, l, u, t)
    PROVE  Arriving(g, q, l, u + 1, t + 1)
<1>1. u \in Nat /\ t \in Nat /\ u <= t
  BY DEF Arriving
<1>2. u + 1 \in Nat /\ t + 1 \in Nat /\ (t + 1) - (u + 1) = t - u /\ u + 1 <= t + 1
  BY <1>1
<1> QED
  BY <1>2 DEF Arriving

(***************************************************************************)
(* The script: the bytes of the directive in flight are the next of its    *)
(* numbers, and what is sent before each directive behind it is known.     *)
(***************************************************************************)
Left(current) == IF IsSend(current) THEN current.bytes ELSE <<>>

Behind(script, rest, n) ==
    \E sent \in [1 .. (Len(rest) + 1) -> NumbersIn(script)] : sent[1] = n /\ SentBefore(rest, sent)

Sending(script, current, rest, n) ==
    /\ rest \in Seq(Range(script))
    /\ IsSend(current) => DOMAIN current = {"op", "bytes"}
    /\ Left(current) \in Seq(InBytes)
    /\ \A i \in 1 .. Len(Left(current)) : Left(current)[i] = <<"script", n + i>>
    /\ Behind(script, rest, n + Len(Left(current)))

LEMMA ElementsIn ==
    ASSUME NEW S, NEW T, NEW s \in Seq(S), \A i \in 1 .. Len(s) : s[i] \in T
    PROVE  s \in Seq(T)
<1>1. Len(s) \in Nat /\ s \in [1 .. Len(s) -> S]
  BY LenProperties
<1>2. s \in [1 .. Len(s) -> T]
  BY <1>1
<1> QED
  BY <1>1, <1>2

LEMMA IdleSendsNothing == ~IsSend(Idle) /\ Left(Idle) = <<>>
BY DEF IsSend, Idle, Left

LEMMA DirectivesAre ==
    ASSUME NEW r \in Rigs, NEW d \in Range(r.sscript)
    PROVE  /\ d.op \in {"Send", "Wait", "Sleep"}
           /\ IsSend(d) => /\ d.bytes \in Seq(Range(d.bytes))
                           /\ DOMAIN d = {"op", "bytes"}
<1>1. /\ d.op \in {"Send", "Wait", "Sleep"}
      /\ IsSend(d) => d.bytes \in Seq(Range(d.bytes)) /\ d = [op |-> "Send", bytes |-> d.bytes]
  BY ScriptAssumption
<1>2. \A b : DOMAIN [op |-> "Send", bytes |-> b] = {"op", "bytes"}
  OBVIOUS
<1> QED
  BY <1>1, <1>2

(* Taking the next directive off the script. *)
LEMMA BehindNext ==
    ASSUME NEW r \in Rigs, NEW rest \in Seq(Range(r.sscript)), rest # <<>>, NEW n \in Nat,
           Behind(r.sscript, rest, n)
    PROVE  LET d == Head(rest)
           IN  /\ d \in Range(r.sscript) /\ Tail(rest) \in Seq(Range(r.sscript))
               /\ IsSend(d) => /\ \A i \in 1 .. Len(d.bytes) : d.bytes[i] = <<"script", n + i>>
                               /\ Behind(r.sscript, Tail(rest), n + Len(d.bytes))
               /\ ~IsSend(d) => Behind(r.sscript, Tail(rest), n)
<1> DEFINE script == r.sscript
           d == Head(rest)
           z == Tail(rest)
           M == NumbersIn(script)
<1>1. /\ d \in Range(script) /\ z \in Seq(Range(script)) /\ Len(z) = Len(rest) - 1
      /\ \A i \in 1 .. Len(z) : z[i] = rest[i + 1]
  BY HeadTailProperties
<1>2. Len(rest) \in Nat /\ Len(rest) > 0 /\ d = rest[1]
  BY EmptySeq, LenProperties
<1>3. M \subseteq Nat
  BY ScriptAssumption
<1> HIDE DEF M
<1>4. PICK sent \in [1 .. (Len(rest) + 1) -> M] : sent[1] = n /\ SentBefore(rest, sent)
  BY DEF Behind, M
<1> DEFINE later == [i \in 1 .. (Len(z) + 1) |-> sent[i + 1]]
<1>5. later \in [1 .. (Len(z) + 1) -> M] /\ later[1] = sent[2]
  BY <1>1, <1>2
<1>6. SentBefore(z, later)
  <2> SUFFICES ASSUME NEW k \in 1 .. Len(z)
               PROVE  IF IsSend(z[k]) THEN /\ later[k + 1] = later[k] + Len(z[k].bytes)
                                           /\ \A i \in 1 .. Len(z[k].bytes) : z[k].bytes[i] = <<"script", later[k] + i>>
                                      ELSE later[k + 1] = later[k]
    BY DEF SentBefore
  <2>1. k \in 1 .. Len(z) + 1 /\ k + 1 \in 1 .. Len(z) + 1 /\ k + 1 \in 1 .. Len(rest)
    BY <1>1, <1>2
  <2>2. later[k] = sent[k + 1] /\ later[k + 1] = sent[(k + 1) + 1] /\ z[k] = rest[k + 1]
    BY <1>1, <2>1
  <2>3. IF IsSend(rest[k + 1])
        THEN /\ sent[(k + 1) + 1] = sent[k + 1] + Len(rest[k + 1].bytes)
             /\ \A i \in 1 .. Len(rest[k + 1].bytes) : rest[k + 1].bytes[i] = <<"script", sent[k + 1] + i>>
        ELSE sent[(k + 1) + 1] = sent[k + 1]
    BY <1>4, <2>1 DEF SentBefore
  <2> QED
    BY <2>2, <2>3, Zenon
<1>7. IF IsSend(d) THEN /\ sent[2] = n + Len(d.bytes)
                        /\ \A i \in 1 .. Len(d.bytes) : d.bytes[i] = <<"script", n + i>>
                   ELSE sent[2] = n
  <2>1. 1 \in 1 .. Len(rest) /\ 1 + 1 = 2
    BY <1>2
  <2>2. IF IsSend(rest[1])
        THEN /\ sent[1 + 1] = sent[1] + Len(rest[1].bytes)
             /\ \A i \in 1 .. Len(rest[1].bytes) : rest[1].bytes[i] = <<"script", sent[1] + i>>
        ELSE sent[1 + 1] = sent[1]
    BY <1>4, <2>1 DEF SentBefore
  <2> QED
    BY <1>2, <1>4, <2>1, <2>2
<1> HIDE DEF later
<1>8. Behind(script, z, sent[2])
  BY <1>5, <1>6, Zenon DEF Behind, M
<1> QED
  BY <1>1, <1>7, <1>8, Zenon

TakesUp(d, flight) == IF IsSend(d) THEN flight = d ELSE ~IsSend(flight)
NextOf(c) == IF Len(c.bytes) = 1 THEN Idle ELSE [c EXCEPT !.bytes = Tail(@)]

LEMMA DirectiveStarts ==
    ASSUME NEW r \in Rigs, NEW rest, rest # <<>>, NEW n \in Nat, NEW current, ~IsSend(current),
           Sending(r.sscript, current, rest, n),
           NEW flight, TakesUp(Head(rest), flight)
    PROVE  Sending(r.sscript, flight, Tail(rest), n)
<1> DEFINE d == Head(rest)
           z == Tail(rest)
<1>1. rest \in Seq(Range(r.sscript)) /\ Behind(r.sscript, rest, n)
  <2>1. Left(current) = <<>> /\ Len(<<>>) = 0
    BY EmptySeq DEF Left
  <2>2. n + 0 = n
    OBVIOUS
  <2> QED
    BY <2>1, <2>2 DEF Sending
<1>2. /\ d \in Range(r.sscript) /\ z \in Seq(Range(r.sscript))
      /\ IsSend(d) => /\ \A i \in 1 .. Len(d.bytes) : d.bytes[i] = <<"script", n + i>>
                      /\ Behind(r.sscript, z, n + Len(d.bytes))
      /\ ~IsSend(d) => Behind(r.sscript, z, n)
  BY <1>1, BehindNext
<1>3. CASE IsSend(d)
  <2>1. flight = d /\ IsSend(flight) /\ Left(flight) = d.bytes
    BY <1>3 DEF Left, TakesUp
  <2>2. d.bytes \in Seq(Range(d.bytes)) /\ DOMAIN d = {"op", "bytes"}
    BY <1>2, <1>3, DirectivesAre
  <2>3. Len(d.bytes) \in Nat
    BY <2>2, LenProperties
  <2>4. \A i \in 1 .. Len(d.bytes) : <<"script", n + i>> \in InBytes
    BY <2>3 DEF InBytes
  <2>5. \A i \in 1 .. Len(d.bytes) : d.bytes[i] \in InBytes
    BY <1>2, <1>3, <2>4
  <2>6. d.bytes \in Seq(InBytes)
    BY <2>2, <2>5, ElementsIn
  <2> QED
    BY <1>2, <1>3, <2>1, <2>2, <2>6 DEF Sending
<1>4. CASE ~IsSend(d)
  <2>1. Left(flight) = <<>> /\ ~IsSend(flight)
    BY <1>4 DEF Left, TakesUp
  <2>2. <<>> \in Seq(InBytes) /\ Len(<<>>) = 0 /\ n + 0 = n
    BY EmptySeq
  <2>3. \A i \in 1 .. Len(<<>>) : FALSE
    BY <2>2
  <2> QED
    BY <1>2, <1>4, <2>1, <2>2, <2>3 DEF Sending
<1> QED
  BY <1>3, <1>4

LEMMA DirectiveOver ==
    ASSUME NEW script, NEW rest, NEW n \in Nat, NEW current, Left(current) = <<>>,
           Sending(script, current, rest, n)
    PROVE  Sending(script, Idle, rest, n)
<1>1. Left(Idle) = <<>> /\ ~IsSend(Idle)
  BY IdleSendsNothing
<1> QED
  BY <1>1 DEF Sending

LEMMA ByteSent ==
    ASSUME NEW script, NEW rest, NEW n \in Nat, NEW c, IsSend(c), c.bytes # <<>>,
           Sending(script, c, rest, n)
    PROVE  /\ Head(c.bytes) = <<"script", n + 1>>
           /\ Sending(script, NextOf(c), rest, n + 1)
<1> DEFINE e == NextOf(c)
           b == c.bytes
           z == Tail(b)
<1>1. /\ b \in Seq(InBytes) /\ DOMAIN c = {"op", "bytes"} /\ rest \in Seq(Range(script))
      /\ \A i \in 1 .. Len(b) : b[i] = <<"script", n + i>>
      /\ Behind(script, rest, n + Len(b))
  BY DEF Sending, Left
<1>2. /\ z \in Seq(InBytes) /\ Len(z) = Len(b) - 1
      /\ \A i \in 1 .. Len(z) : z[i] = b[i + 1]
  BY <1>1, HeadTailProperties
<1>3. Len(b) \in Nat /\ Len(b) > 0 /\ Head(b) = b[1]
  BY <1>1, EmptySeq, LenProperties
<1>4. \A i \in 1 .. Len(z) : z[i] = <<"script", (n + 1) + i>>
  <2>1. TAKE i \in 1 .. Len(z)
  <2>2. i + 1 \in 1 .. Len(b) /\ n + (i + 1) = (n + 1) + i
    BY <1>2, <1>3
  <2> QED
    BY <1>1, <1>2, <2>2
<1>5. Head(b) = <<"script", n + 1>>
  BY <1>1, <1>3
<1>6. (n + 1) + Len(z) = n + Len(b)
  BY <1>2, <1>3
<1>7. CASE Len(b) = 1
  <2>1. e = Idle /\ Left(e) = <<>> /\ ~IsSend(e)
    BY <1>7, IdleSendsNothing DEF NextOf
  <2>2. <<>> \in Seq(InBytes) /\ Len(<<>>) = 0 /\ (n + 1) + 0 = n + Len(b)
    BY <1>7, EmptySeq
  <2>3. \A i \in 1 .. Len(<<>>) : FALSE
    BY <2>2
  <2> QED
    BY <1>1, <1>5, <2>1, <2>2, <2>3 DEF Sending
<1>8. CASE Len(b) # 1
  <2>1. DOMAIN e = {"op", "bytes"} /\ e.op = c.op /\ e.bytes = z
    BY <1>1, <1>8 DEF NextOf
  <2>2. IsSend(e) /\ Left(e) = z
    BY <2>1 DEF IsSend, Left
  <2> QED
    BY <1>1, <1>2, <1>4, <1>5, <1>6, <2>1, <2>2 DEF Sending
<1> QED
  BY <1>7, <1>8

InInv ==
    /\ DOMAIN sscript = {"remaining", "current"}
    /\ port.overrun = FALSE
    /\ trail.read \in Seq(InBytes) /\ port.in \in Seq(InBytes)
    /\ Arriving(Got, input, trail.dropped, wire.typed, trail.typed)
    /\ Sending(rig.sscript, sscript.current, sscript.remaining, Tally("script", Got))

LEMMA InInvHolds == HostInit => InInv
<1> SUFFICES ASSUME HostInit PROVE InInv
  OBVIOUS
<1>1. /\ sscript = [remaining |-> rig.sscript, current |-> Idle] /\ port.overrun = FALSE
      /\ trail.read = <<>> /\ port.in = <<>> /\ input = <<>> /\ wire.typed = 0 /\ trail.typed = 0
      /\ trail.dropped = {}
      /\ rig \in Rigs
  BY DEF HostInit, SerialInit
<1>2. <<>> \in Seq(InBytes) /\ Len(<<>>) = 0
  BY EmptySeq
<1>3. Got = <<>>
  <2>1. <<>> \o <<>> = <<>>
    BY <1>2, ConcatEmptySeq
  <2> QED
    BY <1>1, <2>1 DEF Got
<1>4. \A who : Tally(who, <<>>) = 0
  <2>1. TAKE who
  <2>2. {j \in 1 .. 0 : <<>>[j][1] = who} = {}
    OBVIOUS
  <2> QED
    BY <1>2, <2>2, FS_EmptySet DEF Tally, Share
<1>5. Arriving(<<>>, <<>>, {}, 0, 0)
  <2>1. \A i \in 1 .. Len(<<>>) : FALSE
    BY <1>2
  <2>2. <<>> \o <<>> = <<>>
    BY <1>2, ConcatEmptySeq
  <2>3. FromClient(<<>>) = {}
    BY <2>1 DEF FromClient
  <2>4. NumbersOf(<<>>) = {}
    BY <2>3 DEF NumbersOf
  <2>5. ClientsInOrder(<<>>, {}, 0)
    BY <2>3, <2>4 DEF ClientsInOrder
  <2> QED
    BY <1>2, <2>1, <2>2, <2>5 DEF Arriving, Scripted
<1>6. Sending(rig.sscript, Idle, rig.sscript, 0)
  <2>1. /\ rig.sscript \in Seq(Range(rig.sscript))
        /\ \E sent \in [1 .. (Len(rig.sscript) + 1) -> NumbersIn(rig.sscript)] :
              sent[1] = 0 /\ SentBefore(rig.sscript, sent)
    BY <1>1, ScriptAssumption
  <2>2. Behind(rig.sscript, rig.sscript, 0 + Len(<<>>))
    BY <1>2, <2>1 DEF Behind
  <2>3. \A i \in 1 .. Len(<<>>) : FALSE
    BY <1>2
  <2> QED
    BY <1>2, <2>1, <2>2, <2>3, IdleSendsNothing DEF Sending
<1> QED
  BY <1>1, <1>2, <1>3, <1>4, <1>5, <1>6 DEF InInv

(* A step that leaves the input alone. *)
InQuiet ==
    /\ rig' = rig /\ sscript' = sscript /\ input' = input
    /\ wire'.typed = wire.typed /\ trail'.typed = trail.typed /\ trail'.read = trail.read
    /\ trail'.dropped = trail.dropped
    /\ port'.in = port.in /\ port'.overrun = port.overrun

LEMMA InStaysQuiet == InInv /\ InQuiet => InInv'
<1> SUFFICES ASSUME InInv, InQuiet PROVE InInv'
  OBVIOUS
<1>1. Got' = Got
  BY DEF Got, InQuiet
<1> QED
  BY <1>1 DEF InInv, InQuiet

LEMMA InUnchanged == rig' = rig /\ UNCHANGED serialVars => InQuiet
BY DEF InQuiet, serialVars

(* What a step does to the input, in terms of its parts afterwards. *)
LEMMA InStep ==
    ASSUME NEW r, NEW i, NEW inq, NEW l, NEW u, NEW t, NEW c, NEW rest,
           r \in Seq(InBytes), i \in Seq(InBytes),
           Arriving(r \o i, inq, l, u, t), Sending(rig.sscript, c, rest, Tally("script", r \o i)),
           rig' = rig, DOMAIN sscript' = {"remaining", "current"},
           sscript'.current = c, sscript'.remaining = rest,
           port'.overrun = FALSE, trail'.read = r, port'.in = i,
           input' = inq, trail'.dropped = l, wire'.typed = u, trail'.typed = t
    PROVE  InInv'
<1>1. Got' = r \o i
  BY DEF Got
<1> QED
  BY <1>1 DEF InInv

LEMMA InFacts ==
    ASSUME LineInv, InInv
    PROVE  /\ rig \in Rigs /\ SerialShape
           /\ Tally("script", Got) \in Nat
           /\ Got \in Seq(InBytes) /\ input \in Seq(InBytes)
<1>1. rig \in Rigs /\ SerialShape /\ Got \in Seq(InBytes) /\ input \in Seq(InBytes)
  BY DEF LineInv, InInv, Arriving
<1> QED
  BY <1>1, SharesCount, LenProperties DEF Tally

(* A byte pushed into a ring that has room. *)
LEMMA RoomTakesByte ==
    ASSUME SerialShape, NEW b, serial_in_has_room, push_serial_in_byte(b)
    PROVE  port'.in = Append(port.in, b) /\ port'.overrun = port.overrun
BY DEF SerialShape, serial_in_has_room, push_serial_in_byte

LEMMA ReceiveKeepsIn ==
    ASSUME LineInv, InInv, rig' = rig, ReceiveHostByte
    PROVE  InInv'
<1>1. CASE serial_in_has_room /\ input # <<>>
  <2> DEFINE b == Head(input)
  <2>1. /\ port'.in = Append(port.in, b) /\ port'.overrun = FALSE /\ input' = Tail(input)
        /\ wire' = wire /\ trail' = trail /\ sscript' = sscript
    BY <1>1, InFacts, RoomTakesByte DEF ReceiveHostByte, InInv
  <2>2. /\ b \in InBytes
        /\ Arriving(Append(Got, b), Tail(input), trail.dropped, wire.typed, trail.typed)
        /\ Tally("script", Append(Got, b)) = Tally("script", Got)
    BY <1>1, QueuedByteArrives DEF InInv
  <2> HIDE DEF b
  <2>3. /\ Append(port.in, b) \in Seq(InBytes)
        /\ trail.read \o Append(port.in, b) = Append(Got, b)
    BY <2>2, ArrivalJoinsGot DEF InInv, Got
  <2>4. Sending(rig.sscript, sscript.current, sscript.remaining, Tally("script", Append(Got, b)))
    BY <2>2 DEF InInv
  <2>5. /\ Arriving(trail.read \o Append(port.in, b), Tail(input), trail.dropped, wire.typed, trail.typed)
        /\ Sending(rig.sscript, sscript.current, sscript.remaining, Tally("script", trail.read \o Append(port.in, b)))
    BY <2>2, <2>3, <2>4
  <2>6. DOMAIN sscript = {"remaining", "current"} /\ trail.read \in Seq(InBytes)
    BY DEF InInv
  <2> QED
    BY <2>1, <2>3, <2>5, <2>6, InStep
<1>2. CASE ~(serial_in_has_room /\ input # <<>>)
  <2>1. InQuiet
    BY <1>2 DEF ReceiveHostByte, InQuiet
  <2> QED
    BY <2>1, InStaysQuiet
<1> QED
  BY <1>1, <1>2

LEMMA ScriptKeepsIn ==
    ASSUME LineInv, InInv, rig' = rig, NEW f,
           StartDirective(f) \/ DirectiveEnds(f) \/ SendByte \/ ScriptWaits(f)
    PROVE  InInv'
<1> DEFINE c == sscript.current
           rest == sscript.remaining
           n == Tally("script", Got)
<1>1. /\ rig \in Rigs /\ SerialShape /\ n \in Nat /\ DOMAIN sscript = {"remaining", "current"}
      /\ trail.read \in Seq(InBytes) /\ port.in \in Seq(InBytes) /\ port.overrun = FALSE
      /\ Arriving(trail.read \o port.in, input, trail.dropped, wire.typed, trail.typed)
      /\ Sending(rig.sscript, c, rest, n)
  BY InFacts DEF InInv, Got
<1>2. ASSUME NEW e, NEW z, DOMAIN sscript' = {"remaining", "current"},
             sscript'.current = e, sscript'.remaining = z, Sending(rig.sscript, e, z, n),
             UNCHANGED <<port, input, wire, trail>>
      PROVE  InInv'
  <2>1. Sending(rig.sscript, e, z, Tally("script", trail.read \o port.in))
    BY <1>2 DEF Got
  <2> QED
    BY <1>1, <1>2, <2>1, InStep
<1>3. CASE StartDirective(f)
  <2>1. /\ c = Idle /\ rest # <<>> /\ UNCHANGED <<port, input, wire, trail>>
        /\ DOMAIN sscript' = {"remaining", "current"} /\ sscript'.remaining = Tail(rest)
        /\ sscript'.current = CASE Head(rest).op = "Send"  -> Head(rest)
                    [] Head(rest).op = "Wait"  -> IF guest_tail_contains(Head(rest).needle) THEN Idle
                                         ELSE [op |-> "Wait", needle |-> Head(rest).needle, due |-> f + Head(rest).frames]
                    [] Head(rest).op = "Sleep" -> [op |-> "Sleep", due |-> f + Head(rest).frames]
    BY <1>3 DEF StartDirective
  <2> DEFINE flight == sscript'.current
             d == Head(rest)
  <2>2. d \in Range(rig.sscript)
    BY <1>1, <2>1, HeadTailProperties DEF Sending
  <2>3. d.op \in {"Send", "Wait", "Sleep"}
    BY <1>1, <2>2, DirectivesAre
  <2>4. ~IsSend(c)
    BY <2>1, IdleSendsNothing
  <2>5. IsSend(d) => flight = d
    BY <2>1 DEF IsSend
  <2>6. ~IsSend(d) => ~IsSend(flight)
    BY <2>1, <2>3, IdleSendsNothing DEF IsSend
  <2>7. Sending(rig.sscript, flight, Tail(rest), n)
    <3>1. rest # <<>> /\ Sending(rig.sscript, c, rest, n) /\ n \in Nat /\ rig \in Rigs
      BY <1>1, <2>1
    <3>2. TakesUp(Head(rest), flight)
      BY <2>5, <2>6 DEF TakesUp
    <3> HIDE DEF flight, n, rest, c, d
    <3> QED
      BY <2>4, <3>1, <3>2, DirectiveStarts
  <2> QED
    BY <1>2, <2>1, <2>7
<1>4. CASE DirectiveEnds(f)
  <2>1. /\ DOMAIN sscript' = {"remaining", "current"} /\ sscript'.current = Idle /\ sscript'.remaining = rest
        /\ UNCHANGED <<port, input, wire, trail>>
    BY <1>1, <1>4 DEF DirectiveEnds, Finish
  <2>2. Left(c) = <<>>
    BY <1>4 DEF DirectiveEnds, Left, IsSend
  <2>3. Sending(rig.sscript, Idle, rest, n)
    BY <1>1, <2>2, DirectiveOver
  <2> QED
    BY <1>2, <2>1, <2>3
<1>5. CASE SendByte /\ serial_in_has_room
  <2> DEFINE b == Head(c.bytes)
             e == NextOf(c)
  <2>1. /\ IsSend(c) /\ c.bytes # <<>> /\ push_serial_in_byte(b)
        /\ sscript' = [sscript EXCEPT !.current = e] /\ UNCHANGED <<input, wire, trail>>
    BY <1>5 DEF SendByte, IsSend, NextOf
  <2>2. /\ DOMAIN sscript' = {"remaining", "current"} /\ sscript'.current = e /\ sscript'.remaining = rest
    BY <1>1, <2>1
  <2>3. b = <<"script", n + 1>> /\ Sending(rig.sscript, e, rest, n + 1)
    BY <1>1, <2>1, ByteSent
  <2>4. port'.in = Append(port.in, b) /\ port'.overrun = FALSE
    BY <1>1, <1>5, <2>1, RoomTakesByte
  <2> HIDE DEF e, b
  <2>5. /\ b \in InBytes
        /\ Arriving(Append(Got, b), input, trail.dropped, wire.typed, trail.typed)
        /\ Tally("script", Append(Got, b)) = n + 1
    BY <2>3, ScriptByteArrives DEF InInv
  <2>6. /\ Append(port.in, b) \in Seq(InBytes)
        /\ trail.read \o Append(port.in, b) = Append(Got, b)
    BY <1>1, <2>5, ArrivalJoinsGot DEF Got
  <2>7. /\ Arriving(trail.read \o Append(port.in, b), input, trail.dropped, wire.typed, trail.typed)
        /\ Sending(rig.sscript, e, rest, Tally("script", trail.read \o Append(port.in, b)))
    BY <2>3, <2>5, <2>6
  <2> QED
    BY <1>1, <2>1, <2>2, <2>4, <2>6, <2>7, InStep
<1>6. CASE SendByte /\ ~serial_in_has_room
  <2>1. InQuiet
    BY <1>6 DEF SendByte, InQuiet
  <2> QED
    BY <2>1, InStaysQuiet
<1>7. CASE ScriptWaits(f)
  BY <1>7, InUnchanged, InStaysQuiet DEF ScriptWaits
<1> QED
  BY <1>3, <1>4, <1>5, <1>6, <1>7

LEMMA GuestKeepsIn ==
    ASSUME LineInv, InInv, rig' = rig, SerialAccess \/ CardAccess \/ NoAccess
    PROVE  InInv'
<1>1. CASE CardAccess \/ NoAccess
  BY <1>1, InUnchanged, InStaysQuiet DEF CardAccess, NoAccess
<1>2. SerialShape
  BY InFacts
<1>3. CASE ClearRbf
  <2>1. InQuiet
    BY <1>2, <1>3 DEF ClearRbf, SerialShape, InQuiet
  <2> QED
    BY <2>1, InStaysQuiet
<1>4. CASE push_serial_byte
  <2>1. port'.in = port.in /\ port'.overrun = port.overrun
    BY <1>2, <1>4 DEF push_serial_byte, SerialShape
  <2>2. trail'.read = trail.read /\ trail'.typed = trail.typed /\ trail'.dropped = trail.dropped
    BY <1>2, <1>4 DEF push_serial_byte, SerialShape
  <2>3. InQuiet
    BY <1>4, <2>1, <2>2 DEF push_serial_byte, InQuiet
  <2> QED
    BY <2>3, InStaysQuiet
<1>5. CASE read_serdatr
  <2>1. /\ DOMAIN sscript = {"remaining", "current"} /\ port.overrun = FALSE
        /\ trail.read \in Seq(InBytes) /\ port.in \in Seq(InBytes)
        /\ Arriving(trail.read \o port.in, input, trail.dropped, wire.typed, trail.typed)
        /\ Sending(rig.sscript, sscript.current, sscript.remaining, Tally("script", trail.read \o port.in))
    BY DEF InInv, Got
  <2>2. sscript' = sscript /\ input' = input /\ wire' = wire /\ port'.overrun = FALSE
        /\ trail'.typed = trail.typed /\ trail'.dropped = trail.dropped
    BY <1>2, <1>5 DEF read_serdatr, SerialShape
  <2>3. CASE port.in = <<>>
    <3>1. port'.in = port.in /\ trail' = trail
      BY <1>2, <1>5, <2>3 DEF read_serdatr, SerialShape
    <3> QED
      BY <2>1, <2>2, <3>1, InStep
  <2>4. CASE port.in # <<>>
    <3>1. port'.in = Tail(port.in) /\ trail'.read = Append(trail.read, Head(port.in))
      BY <1>2, <1>5, <2>4 DEF read_serdatr, SerialShape
    <3>2. /\ Append(trail.read, Head(port.in)) \in Seq(InBytes) /\ Tail(port.in) \in Seq(InBytes)
          /\ Append(trail.read, Head(port.in)) \o Tail(port.in) = trail.read \o port.in
      BY <2>1, <2>4, ReadKeepsGot
    <3> QED
      BY <2>1, <2>2, <3>1, <3>2, InStep
  <2> QED
    BY <2>3, <2>4
<1> QED
  BY <1>1, <1>3, <1>4, <1>5 DEF SerialAccess

(* The host's end of the output does not touch the input. *)
LEMMA OutputKeepsIn ==
    ASSUME LineInv, InInv, rig' = rig,
           drain_serial(rig.tcp) \/ boot_drain_serial(rig.mode, rig.kind)
    PROVE  InInv'
<1>1. SerialShape
  BY InFacts
<1>2. sscript' = sscript /\ input' = input
  BY DEF drain_serial, boot_drain_serial
<1>3. port'.in = port.in /\ port'.overrun = port.overrun
  BY <1>1 DEF drain_serial, boot_drain_serial, take_serial_byte, SerialShape
<1>4. /\ wire'.typed = wire.typed /\ trail'.typed = trail.typed /\ trail'.read = trail.read
      /\ trail'.dropped = trail.dropped
  <2>1. CASE drain_serial(rig.tcp)
    BY <1>1, <2>1 DEF drain_serial, push_guest_byte, SerialShape
  <2>2. CASE boot_drain_serial(rig.mode, rig.kind)
    BY <1>1, <2>2 DEF boot_drain_serial, GuestLinePush, flush_line, SerialShape
  <2> QED
    BY <2>1, <2>2
<1>5. InQuiet
  BY <1>2, <1>3, <1>4 DEF InQuiet
<1> QED
  BY <1>5, InStaysQuiet

LEMMA BootEndsKeepsIn ==
    ASSUME LineInv, InInv, BootEnds
    PROVE  InInv'
<1>1. SerialShape
  BY InFacts
<1>2. /\ wire'.typed = wire.typed /\ trail'.typed = trail.typed /\ trail'.read = trail.read
      /\ trail'.dropped = trail.dropped
  BY <1>1 DEF BootEnds, flush_line, SerialShape
<1>3. InQuiet
  BY <1>2 DEF BootEnds, loopVars, InQuiet
<1> QED
  BY <1>3, InStaysQuiet

(* The bridge thread's input half, and the clients. *)
LEMMA BridgeKeepsIn ==
    ASSUME LineInv, InInv, BridgeThread
    PROVE  InInv'
<1>1. rig' = rig /\ (poll_loop \/ ClientTypes)
  BY DEF BridgeThread, loopVars
<1>2. /\ SerialShape /\ DOMAIN sscript = {"remaining", "current"} /\ port.overrun = FALSE
      /\ trail.read \in Seq(InBytes) /\ port.in \in Seq(InBytes)
      /\ Arriving(trail.read \o port.in, input, trail.dropped, wire.typed, trail.typed)
      /\ Sending(rig.sscript, sscript.current, sscript.remaining, Tally("script", trail.read \o port.in))
  BY InFacts DEF InInv, Got
<1>3. port' = port /\ sscript' = sscript
  BY <1>1 DEF poll_loop, Accept, FlushTake, FlushWrite, FlushRequeue, FillInput, FillAppend, ClientLeaves,
              ClientTypes, mainUnchanged
<1>4. ASSUME NEW q, NEW l, NEW u, NEW t, Arriving(trail.read \o port.in, q, l, u, t),
             input' = q, trail'.dropped = l, wire'.typed = u, trail'.typed = t, trail'.read = trail.read
      PROVE  InInv'
  BY <1>1, <1>2, <1>3, <1>4, InStep
<1>5. CASE Accept \/ FlushTake \/ FlushRequeue \/ FillInput
  <2>1. input' = input /\ wire' = wire /\ trail' = trail
    BY <1>5 DEF Accept, FlushTake, FlushRequeue, FillInput
  <2> QED
    BY <1>2, <1>4, <2>1
<1>6. ASSUME DropClient, input' = input PROVE InInv'
  <2>1. /\ trail'.dropped = trail.dropped \cup Unread /\ trail'.typed = trail.typed
        /\ trail'.read = trail.read /\ wire'.typed = 0
    BY <1>2, <1>6 DEF DropClient, SerialShape
  <2>2. Arriving(trail.read \o port.in, input, trail.dropped \cup Unread, 0, trail.typed)
    BY <1>2, UnreadGone DEF Unread
  <2> QED
    BY <1>4, <1>6, <2>1, <2>2
<1>7. CASE ClientLeaves
  BY <1>6, <1>7 DEF ClientLeaves
<1>8. CASE FlushWrite
  <2>1. input' = input
    BY <1>8 DEF FlushWrite
  <2>2. ASSUME NEW n \in 0 .. Len(bridge.pending),
               wire' = [wire EXCEPT !.received = @ \o SubSeq(bridge.pending, 1, n)],
               UNCHANGED trail
        PROVE  InInv'
    <3>1. wire'.typed = wire.typed
      BY <1>2, <2>2 DEF SerialShape
    <3> QED
      BY <1>2, <1>4, <2>1, <2>2, <3>1
  <2>3. ASSUME DropClient PROVE InInv'
    BY <1>6, <2>1, <2>3
  <2> QED
    BY <1>8, <2>2, <2>3 DEF FlushWrite
<1>9. CASE FillAppend
  <2> DEFINE n == IF wire.typed < ReadSize THEN wire.typed ELSE ReadSize
  <2>1. n \in Nat /\ n <= wire.typed
    BY <1>2, SerialConstants DEF Arriving
  <2>2. /\ input' = input \o [i \in 1..n |-> <<"tcp", trail.typed - wire.typed + i>>]
        /\ wire'.typed = wire.typed - n /\ trail' = trail
    BY <1>2, <1>9 DEF FillAppend, SerialShape
  <2> HIDE DEF n
  <2>3. Arriving(trail.read \o port.in, input \o [i \in 1..n |-> <<"tcp", trail.typed - wire.typed + i>>],
                 trail.dropped, wire.typed - n, trail.typed)
    BY <1>2, <2>1, SocketRead
  <2> QED
    BY <1>4, <2>2, <2>3
<1>10. CASE ClientTypes
  <2>1. /\ input' = input /\ wire'.typed = wire.typed + 1 /\ trail'.typed = trail.typed + 1
        /\ trail'.read = trail.read /\ trail'.dropped = trail.dropped
    BY <1>2, <1>10 DEF ClientTypes, SerialShape
  <2>2. Arriving(trail.read \o port.in, input, trail.dropped, wire.typed + 1, trail.typed + 1)
    BY <1>2, OneMoreTyped
  <2> QED
    BY <1>4, <2>1, <2>2
<1> QED
  BY <1>1, <1>5, <1>8, <1>9, <1>10, <1>7 DEF poll_loop

LEMMA InInvNext == LineInv /\ InInv /\ [HostNext]_hostVars => InInv'
<1> SUFFICES ASSUME LineInv, InInv, [HostNext]_hostVars PROVE InInv'
  OBVIOUS
<1>1. ASSUME rig' = rig, UNCHANGED serialVars PROVE InInv'
  BY <1>1, InUnchanged, InStaysQuiet
<1>2. CASE MainLoop
  <2>1. CASE HookInstruction \/ ChunkGoesOn
    BY <2>1, GuestKeepsIn DEF HookInstruction, Retires, ChunkGoesOn
  <2>2. CASE HookTrap \/ HookStopped \/ HookCheck
    BY <2>2, <1>1 DEF HookTrap, HookStopped, HookCheck, Trapped, Parked, RetiredCheck, NoAccess
  <2>3. CASE ChunkEnds \/ ChunkStopped \/ ChunkCheck \/ ChunkTick \/ CatchUp
    BY <2>3, <1>1 DEF ChunkEnds, ChunkStopped, ChunkCheck, ChunkTick, CatchUp, NoAccess
  <2>4. CASE Drain
    BY <2>4, OutputKeepsIn DEF Drain, loopVars
  <2>5. CASE Drained \/ Service \/ InputScriptWaits \/ InputDirective
    BY <2>5, <1>1 DEF Drained, Service, InputScriptWaits, InputDirective, NoAccess
  <2>6. CASE Sleep
    <3>1. rig' = rig /\ (ReceiveHostByte \/ UNCHANGED serialVars)
      BY <2>6 DEF Sleep
    <3> QED
      BY <1>1, <3>1, ReceiveKeepsIn
  <2>7. CASE ServiceTcp
    <3>1. rig' = rig /\ (ReceiveHostByte \/ UNCHANGED serialVars)
      BY <2>7 DEF ServiceTcp, StayLoop
    <3> QED
      BY <1>1, <3>1, ReceiveKeepsIn
  <2>8. CASE ServiceSerialScript
    <3>1. /\ rig' = rig
          /\ StartDirective(frame) \/ DirectiveEnds(frame) \/ SendByte \/ ScriptWaits(frame)
      BY <2>8 DEF ServiceSerialScript, StayLoop
    <3> QED
      BY <3>1, ScriptKeepsIn
  <2> QED
    BY <1>2, <2>1, <2>2, <2>3, <2>4, <2>5, <2>6, <2>7, <2>8 DEF MainLoop
<1>3. CASE BootLoop
  <2>1. CASE BootInstruction
    BY <2>1, GuestKeepsIn DEF BootInstruction, Retires
  <2>2. CASE BootDrain
    BY <2>2, OutputKeepsIn DEF BootDrain, loopVars
  <2>3. CASE BootCheck \/ BootTrap \/ BootStopped
    BY <2>3, <1>1 DEF BootCheck, BootTrap, BootStopped, RetiredCheck, Trapped, Parked, NoAccess
  <2> QED
    BY <1>3, <2>1, <2>2, <2>3 DEF BootLoop
<1>4. CASE BootEnds
  BY <1>4, BootEndsKeepsIn
<1>5. CASE BridgeThread
  BY <1>5, BridgeKeepsIn
<1>6. CASE UNCHANGED hostVars
  BY <1>6, <1>1 DEF hostVars, loopVars
<1> QED
  BY <1>2, <1>3, <1>4, <1>5, <1>6 DEF HostNext

LEMMA InInvInOrder == InInv => SerialInInOrder
BY DEF InInv, Arriving, ClientsInOrder, Scripted, Got, SerialInInOrder

(***************************************************************************)
(* However the serial script, the bridge's reads of the socket, the run    *)
(* loop and the guest's reads of SERDATR fall, the input reaches the guest *)
(* in order and each byte once, and a byte is missing only where the       *)
(* bridge dropped its client before reading it: the script and the loop    *)
(* look at the ring's room before they push, and fill_input takes what it  *)
(* appends.                                                                *)
(***************************************************************************)
THEOREM SerialInputStaysInOrder == HostSpec => []SerialInInOrder
<1>1. HostInit => LineInv /\ InInv
  BY LineInvHolds, InInvHolds
<1>2. LineInv /\ InInv /\ [HostNext]_hostVars => (LineInv /\ InInv)'
  BY LineInvNext, InInvNext
<1>3. LineInv /\ InInv => SerialInInOrder
  BY InInvInOrder
<1> QED
  BY <1>1, <1>2, <1>3, PTL DEF HostSpec

-----------------------------------------------------------------------------
(***************************************************************************)
(* The wedge detector.  Grip is what it has counted so far, of the         *)
(* Patience it has.  An address covers the window when every PC the window *)
(* has seen is within Reach of it.                                         *)
(***************************************************************************)
Pcs == DOMAIN rig.flow
Covers(v, w) == w <= v.lo /\ v.hi <= w + Reach
Grip == IF Chunked THEN clock.stuck ELSE window.streak

LEMMA MinOfTwo == \A a, b \in Int : Min({a, b}) = IF a <= b THEN a ELSE b
<1> SUFFICES ASSUME NEW a \in Int, NEW b \in Int PROVE Min({a, b}) = IF a <= b THEN a ELSE b
  OBVIOUS
<1> DEFINE m == IF a <= b THEN a ELSE b
<1>1. m \in {a, b} /\ \A y \in {a, b} : m <= y
  OBVIOUS
<1>2. \A x \in {a, b} : (\A y \in {a, b} : x <= y) => x = m
  OBVIOUS
<1> QED
  BY <1>1, <1>2 DEF Min

LEMMA MaxOfTwo == \A a, b \in Int : Max({a, b}) = IF a >= b THEN a ELSE b
<1> SUFFICES ASSUME NEW a \in Int, NEW b \in Int PROVE Max({a, b}) = IF a >= b THEN a ELSE b
  OBVIOUS
<1> DEFINE m == IF a >= b THEN a ELSE b
<1>1. m \in {a, b} /\ \A y \in {a, b} : m >= y
  OBVIOUS
<1>2. \A x \in {a, b} : (\A y \in {a, b} : x >= y) => x = m
  OBVIOUS
<1> QED
  BY <1>1, <1>2 DEF Max

LEMMA Measures ==
    ASSUME rig \in Rigs
    PROVE  /\ Reach \in Nat /\ Slack \in Nat /\ Patience \in Nat \ {0} /\ Longest \in Nat
           /\ Longest >= Patience /\ TightLoop \in Nat /\ WedgeSeconds \in Nat
           /\ Chunked => Patience = WedgeSeconds /\ \A t \in rig.times : t \in Nat /\ t <= Slack
           /\ ~Chunked => Patience = TightLoop /\ Slack = 1 /\ TightLoop > 1
           /\ Pcs \subseteq Nat
<1>1. /\ TightLoop \in Nat \ {0} /\ WedgeSeconds \in Nat \ {0} /\ Span \in Nat \ {0} /\ TightLoop > 1
  BY LoopConstants
<1>2. /\ rig.times \subseteq Nat /\ \E slowest \in rig.times : \A t \in rig.times : t <= slowest
      /\ Pcs \subseteq Nat
  BY RigAssumption DEF Pcs
<1>3. Max(rig.times) \in Nat /\ \A t \in rig.times : t <= Max(rig.times)
  <2>1. PICK m \in rig.times : \A t \in rig.times : t <= m
    BY <1>2
  <2>2. m \in rig.times /\ \A y \in rig.times : m >= y
    BY <1>2, <2>1
  <2>3. Max(rig.times) \in rig.times /\ \A y \in rig.times : Max(rig.times) >= y
    BY <2>2 DEF Max
  <2> QED
    BY <1>2, <2>3
<1>4. Slack \in Nat /\ (~Chunked => Slack = 1) /\ (Chunked => Slack = Max(rig.times))
  BY <1>3 DEF Slack
<1>5. Max({TightLoop, WedgeSeconds}) = IF TightLoop >= WedgeSeconds THEN TightLoop ELSE WedgeSeconds
  BY <1>1, MaxOfTwo
<1>6. Longest \in Nat /\ Longest >= TightLoop /\ Longest >= WedgeSeconds
  BY <1>1, <1>4, <1>5 DEF Longest
<1> QED
  BY <1>1, <1>2, <1>3, <1>4, <1>6 DEF Reach, Patience

WindowType(v) ==
    /\ DOMAIN v = {"lo", "hi", "streak"}
    /\ v.lo \in Pcs /\ v.hi \in Pcs /\ v.streak \in Nat
    /\ v.lo <= v.hi /\ v.hi <= v.lo + Reach

(* What a PC does to the window. *)
LEMMA ExtendFacts ==
    ASSUME rig \in Rigs, NEW v, WindowType(v), NEW loc \in Pcs
    PROVE  /\ WindowType(Extend(v, loc))
           /\ \A w \in Pcs : Covers(v, w) /\ Near(w, loc) => Fits(v, loc)
           /\ Fits(v, loc) =>
                /\ Extend(v, loc).streak = IF v.streak + 1 <= TightLoop THEN v.streak + 1 ELSE TightLoop
                /\ \A w \in Pcs : Covers(Extend(v, loc), w) <=> Covers(v, w) /\ Near(w, loc)
           /\ ~Fits(v, loc) =>
                /\ Extend(v, loc).streak = 1
                /\ \A w \in Pcs : Covers(Extend(v, loc), w) <=> Near(w, loc)
<1>1. /\ Reach \in Nat /\ TightLoop \in Nat /\ Pcs \subseteq Nat
      /\ v.lo \in Nat /\ v.hi \in Nat /\ loc \in Nat /\ v.streak \in Nat
      /\ v.lo <= v.hi /\ v.hi <= v.lo + Reach
  BY Measures DEF WindowType
<1> DEFINE h == IF v.hi >= loc THEN v.hi ELSE loc
           l == IF v.lo <= loc THEN v.lo ELSE loc
           n == IF v.streak + 1 <= TightLoop THEN v.streak + 1 ELSE TightLoop
<1>2. Max({v.hi, loc}) = h /\ Min({v.lo, loc}) = l /\ Min({v.streak + 1, TightLoop}) = n
  BY <1>1, MinOfTwo, MaxOfTwo
<1>3. /\ Fits(v, loc) <=> h - l <= Reach
      /\ Widened(v, loc) = [lo |-> l, hi |-> h, streak |-> n]
  BY <1>2 DEF Fits, Widened
<1>4. l \in Pcs /\ h \in Pcs /\ n \in Nat
  BY <1>1 DEF WindowType
<1>5. CASE Fits(v, loc)
  <2>1. Extend(v, loc) = [lo |-> l, hi |-> h, streak |-> n]
    BY <1>3, <1>5 DEF Extend
  <2>2. l <= h /\ h <= l + Reach
    BY <1>1, <1>3, <1>5
  <2>3. \A w \in Pcs : w <= l /\ h <= w + Reach <=> Covers(v, w) /\ Near(w, loc)
    BY <1>1 DEF Covers, Near
  <2> HIDE DEF l, h, n
  <2>4. WindowType(Extend(v, loc)) /\ Extend(v, loc).streak = n
    BY <1>4, <2>1, <2>2 DEF WindowType
  <2>5. \A w \in Pcs : Covers(Extend(v, loc), w) <=> Covers(v, w) /\ Near(w, loc)
    <3>1. Extend(v, loc).lo = l /\ Extend(v, loc).hi = h
      BY <2>1
    <3> QED
      BY <2>3, <3>1 DEF Covers
  <2> QED
    BY <1>5, <2>4, <2>5 DEF n
<1>6. CASE ~Fits(v, loc)
  <2>1. Extend(v, loc) = [lo |-> loc, hi |-> loc, streak |-> 1]
    BY <1>6 DEF Extend, WindowReset
  <2>2. WindowType(Extend(v, loc)) /\ Extend(v, loc).streak = 1
    BY <1>1, <2>1 DEF WindowType
  <2>3. \A w \in Pcs : Covers(Extend(v, loc), w) <=> Near(w, loc)
    BY <2>1 DEF Covers, Near
  <2>4. \A w \in Pcs : ~(Covers(v, w) /\ Near(w, loc))
    BY <1>1, <1>3, <1>6 DEF Covers, Near
  <2> QED
    BY <1>6, <2>2, <2>3, <2>4
<1> QED
  BY <1>5, <1>6

(***************************************************************************)
(* The invariant.  An address that covers the window has had the PC near   *)
(* it for all the detector has counted; and where the PC has been near an  *)
(* address for longer than that, the window lies within reach of it, and   *)
(* the difference is what was spent there before the window restarted.     *)
(* Between a chunk's end and the look at its PC the count may be full.     *)
(***************************************************************************)
Start == Patience - 1 + Slack

Bounded == \A w \in Pcs : dwell[w] <= Grip \/ (Covers(window, w) /\ dwell[w] <= Grip + Start)

LoopShape ==
    /\ rig \in Rigs
    /\ WindowType(window)
    /\ dwell \in [Pcs -> Int]
    /\ DOMAIN cpu = {"pc", "ppc", "stopped", "exit"} /\ cpu.pc \in Pcs /\ cpu.ppc \in Pcs
    /\ DOMAIN clock = {"lag", "stuck"} /\ clock.stuck \in Nat

Looked == {"service", "sscript", "iscript", "tcp", "check"}

WedgeInv ==
    /\ LoopShape
    /\ \A w \in Pcs : Covers(window, w) => dwell[w] >= Grip
    /\ outcome = "Wedged" => Grip >= Patience
    /\ Chunked /\ cpu.exit = "wedged" => Grip >= Patience /\ at \in Looked
    /\ outcome = "running" /\ ~(Chunked /\ (at = "drain" \/ cpu.exit = "wedged")) =>
         Grip < Patience /\ Bounded
    /\ outcome = "running" /\ Chunked /\ at = "drain" =>
         \/ Grip < Patience /\ Bounded
         \/ Grip = Patience /\ \A w \in Pcs : Covers(window, w) \/ dwell[w] <= Start

LEMMA WedgeInvHolds == HostInit => WedgeInv
<1> SUFFICES ASSUME HostInit PROVE WedgeInv
  OBVIOUS
<1>1. rig \in Rigs /\ at = "run" /\ outcome = "running"
  BY DEF HostInit
<1>2. PICK loc \in Pcs :
         /\ cpu = [pc |-> loc, ppc |-> loc, stopped |-> FALSE, exit |-> "none"]
         /\ window = [lo |-> loc, hi |-> loc, streak |-> FirstStreak]
         /\ dwell = [w \in Pcs |-> IF ~Near(w, loc) THEN -1 ELSE IF Hooked THEN 1 ELSE 0]
  BY DEF HostInit, Pcs
<1>3. DOMAIN clock = {"lag", "stuck"} /\ clock.stuck = 0
  BY DEF HostInit, AnchoredNow
<1>4. /\ Reach \in Nat /\ Slack \in Nat /\ Patience \in Nat \ {0} /\ Pcs \subseteq Nat
      /\ ~Chunked => Patience > 1
  BY <1>1, Measures
<1>5. /\ FirstStreak \in {0, 1} /\ Grip = IF Hooked THEN 1 ELSE 0
  <2>1. rig.mode \in {"hook", "max", "virt", "q35"}
    BY <1>1, RigAssumption
  <2>2. window.streak = FirstStreak
    BY <1>2
  <2> QED
    BY <1>3, <2>1, <2>2 DEF FirstStreak, Hooked, Booting, Chunked, Grip
<1>6. window.lo = loc /\ window.hi = loc /\ window.streak = FirstStreak /\ cpu.exit = "none"
  BY <1>2
<1>7. LoopShape
  <2>1. WindowType(window)
    <3>1. DOMAIN window = {"lo", "hi", "streak"}
      BY <1>2
    <3>2. loc \in Nat /\ FirstStreak \in Nat
      BY <1>4, <1>5
    <3> QED
      BY <3>1, <3>2, <1>6, <1>4 DEF WindowType
  <2>2. dwell \in [Pcs -> Int]
    BY <1>2
  <2>3. DOMAIN cpu = {"pc", "ppc", "stopped", "exit"} /\ cpu.pc \in Pcs /\ cpu.ppc \in Pcs
    BY <1>2
  <2> QED
    BY <1>1, <1>3, <2>1, <2>2, <2>3 DEF LoopShape
<1>8. \A w \in Pcs : Covers(window, w) <=> Near(w, loc)
  BY <1>6 DEF Covers, Near
<1>9. \A w \in Pcs : dwell[w] = IF Near(w, loc) THEN Grip ELSE -1
  BY <1>2, <1>5
<1>10. Grip \in Nat /\ Grip < Patience
  <2>1. Hooked => ~Chunked
    BY DEF Hooked, Chunked
  <2> QED
    BY <1>4, <1>5, <2>1
<1>11. /\ \A w \in Pcs : Covers(window, w) => dwell[w] >= Grip
       /\ Bounded
  BY <1>8, <1>9, <1>10 DEF Bounded
<1> QED
  BY <1>1, <1>6, <1>7, <1>10, <1>11 DEF WedgeInv

(* A step at which nothing is counted. *)
LEMMA WedgeQuiet ==
    ASSUME WedgeInv, rig' = rig, window' = window, dwell' = dwell,
           DOMAIN clock' = DOMAIN clock, clock'.stuck = clock.stuck,
           DOMAIN cpu' = DOMAIN cpu, cpu'.pc \in Pcs, cpu'.ppc \in Pcs,
           outcome' = outcome \/ outcome' \notin {"running", "Wedged"},
           Chunked => \/ at' = at /\ cpu'.exit = cpu.exit
                      \/ at # "drain" /\ cpu.exit # "wedged" /\ cpu'.exit # "wedged"
                      \/ at # "drain" /\ at' \in Looked /\ cpu'.exit = cpu.exit
    PROVE  WedgeInv'
<1>1. Pcs' = Pcs /\ Chunked' = Chunked /\ Booting' = Booting
  BY DEF Pcs, Chunked, Booting
<1>2. Reach' = Reach /\ Patience' = Patience /\ Slack' = Slack
  BY <1>1 DEF Reach, Patience, Slack
<1>3. Grip' = Grip /\ Start' = Start
  BY <1>1, <1>2 DEF Grip, Start
<1>4. \A w : Covers(window, w)' <=> Covers(window, w)
  BY <1>2 DEF Covers
<1>5. Bounded' <=> Bounded
  BY <1>1, <1>3, <1>4 DEF Bounded
<1>6. LoopShape'
  BY <1>1, <1>2 DEF WedgeInv, LoopShape, WindowType
<1>7. (\A w \in Pcs : Covers(window, w) => dwell[w] >= Grip)'
  BY <1>1, <1>3, <1>4 DEF WedgeInv
<1>8. (outcome = "Wedged" => Grip >= Patience)'
  BY <1>2, <1>3 DEF WedgeInv
<1>9. (Chunked /\ cpu.exit = "wedged" => Grip >= Patience /\ at \in Looked)'
  BY <1>1, <1>2, <1>3 DEF WedgeInv, Looked
<1>10. (outcome = "running" /\ ~(Chunked /\ (at = "drain" \/ cpu.exit = "wedged")) =>
          Grip < Patience /\ Bounded)'
  BY <1>1, <1>2, <1>3, <1>5 DEF WedgeInv, Looked
<1>11. (outcome = "running" /\ Chunked /\ at = "drain" =>
          \/ Grip < Patience /\ Bounded
          \/ Grip = Patience /\ \A w \in Pcs : Covers(window, w) \/ dwell[w] <= Start)'
  BY <1>1, <1>2, <1>3, <1>4, <1>5 DEF WedgeInv, Looked
<1> QED
  BY <1>6, <1>7, <1>8, <1>9, <1>10, <1>11 DEF WedgeInv

(* How long the PC has stayed near an address, after a look at it. *)
LEMMA StayFacts ==
    ASSUME rig \in Rigs, dwell \in [Pcs -> Int], NEW loc \in Pcs, NEW n \in Nat
    PROVE  /\ Stay(loc, n) \in [Pcs -> Int]
           /\ \A w \in Pcs : ~Near(w, loc) => Stay(loc, n)[w] = -1
           /\ \A w \in Pcs : Near(w, loc) =>
                LET m == (IF dwell[w] >= 0 THEN dwell[w] ELSE 0) + n
                IN  Stay(loc, n)[w] = IF m <= Longest THEN m ELSE Longest
<1>1. Longest \in Nat
  BY Measures
<1>2. \A w \in Pcs : Max({dwell[w], 0}) = IF dwell[w] >= 0 THEN dwell[w] ELSE 0
  BY MaxOfTwo
<1>3. \A w \in Pcs : LET m == (IF dwell[w] >= 0 THEN dwell[w] ELSE 0) + n
                     IN  Min({Max({dwell[w], 0}) + n, Longest}) = IF m <= Longest THEN m ELSE Longest
  BY <1>1, <1>2, MinOfTwo
<1>4. Stay(loc, n) = [w \in Pcs |-> IF ~Near(w, loc) THEN -1 ELSE Min({Max({dwell[w], 0}) + n, Longest})]
  BY DEF Stay
<1>5. \A w \in Pcs : Stay(loc, n)[w] = IF ~Near(w, loc) THEN -1 ELSE Min({Max({dwell[w], 0}) + n, Longest})
  BY <1>4
<1>6. \A w \in Pcs : Stay(loc, n)[w] \in Int
  <2>1. \A w \in Pcs : Min({Max({dwell[w], 0}) + n, Longest}) \in Int
    BY <1>1, <1>2, MinOfTwo
  <2> SUFFICES ASSUME NEW w \in Pcs PROVE Stay(loc, n)[w] \in Int
    OBVIOUS
  <2>2. CASE ~Near(w, loc)
    <3>1. Stay(loc, n)[w] = -1
      BY <1>5, <2>2, Zenon
    <3> QED
      BY <3>1
  <2>3. CASE Near(w, loc)
    <3>1. Stay(loc, n)[w] = Min({Max({dwell[w], 0}) + n, Longest})
      BY <1>5, <2>3, Zenon
    <3> QED
      BY <2>1, <3>1, Zenon
  <2> QED
    BY <2>2, <2>3
<1>7. Stay(loc, n) \in [Pcs -> Int]
  BY <1>4, <1>6, Zenon
<1>8. \A w \in Pcs : ~Near(w, loc) => Stay(loc, n)[w] = -1
  BY <1>5, Zenon
<1>9. \A w \in Pcs : Near(w, loc) => Stay(loc, n)[w] = Min({Max({dwell[w], 0}) + n, Longest})
  BY <1>5, Zenon
<1> QED
  BY <1>3, <1>7, <1>8, <1>9

(* What a step that counts has to show. *)
Steps == Reach' = Reach /\ Patience' = Patience /\ Slack' = Slack /\ Pcs' = Pcs /\ Chunked' = Chunked

LEMMA SameRig == rig' = rig => Steps /\ Start' = Start /\ \A w : Covers(window, w)' <=> Covers(window', w)
<1> SUFFICES ASSUME rig' = rig PROVE Steps /\ Start' = Start /\ \A w : Covers(window, w)' <=> Covers(window', w)
  OBVIOUS
<1>1. Pcs' = Pcs /\ Chunked' = Chunked /\ Booting' = Booting
  BY DEF Pcs, Chunked, Booting
<1>2. Reach' = Reach /\ Patience' = Patience /\ Slack' = Slack
  BY <1>1 DEF Reach, Patience, Slack
<1> QED
  BY <1>1, <1>2 DEF Steps, Start, Covers

LEMMA WedgeCheck ==
    ASSUME WedgeInv, outcome = "running", ~Chunked, RetiredCheck
    PROVE  WedgeInv'
<1> DEFINE v == Extend(window, cpu.ppc)
<1>1. /\ window' = v /\ dwell' = Stay(cpu.ppc, 1) /\ rig' = rig /\ cpu' = cpu /\ clock' = clock
      /\ outcome' = IF v.streak >= TightLoop THEN "Wedged" ELSE IF Limit THEN "LimitReached" ELSE outcome
  BY DEF RetiredCheck
<1>2. /\ rig \in Rigs /\ WindowType(window) /\ cpu.ppc \in Pcs /\ dwell \in [Pcs -> Int]
      /\ \A w \in Pcs : dwell[w] \in Int
      /\ Grip = window.streak /\ Grip \in Nat /\ Grip < Patience /\ Bounded
      /\ \A w \in Pcs : Covers(window, w) => dwell[w] >= Grip
  BY DEF WedgeInv, LoopShape, WindowType, Grip
<1>3. /\ Patience = TightLoop /\ Slack = 1 /\ TightLoop \in Nat /\ TightLoop > 1
      /\ Longest \in Nat /\ Longest >= Patience /\ Start = TightLoop
  BY <1>2, Measures DEF Start
<1>4. Steps /\ Start' = Start /\ \A w : Covers(window, w)' <=> Covers(v, w)
  BY <1>1, SameRig
<1>5. Grip' = v.streak
  BY <1>1, <1>4 DEF Grip, Steps
<1>6. /\ WindowType(v)
      /\ \A w \in Pcs : Covers(window, w) /\ Near(w, cpu.ppc) => Fits(window, cpu.ppc)
      /\ Fits(window, cpu.ppc) =>
           /\ v.streak = Grip + 1
           /\ \A w \in Pcs : Covers(v, w) <=> Covers(window, w) /\ Near(w, cpu.ppc)
      /\ ~Fits(window, cpu.ppc) =>
           /\ v.streak = 1
           /\ \A w \in Pcs : Covers(v, w) <=> Near(w, cpu.ppc)
  BY <1>2, <1>3, ExtendFacts
<1>7. /\ dwell' \in [Pcs -> Int]
      /\ \A w \in Pcs : ~Near(w, cpu.ppc) => dwell'[w] = -1
      /\ \A w \in Pcs : Near(w, cpu.ppc) =>
           LET m == (IF dwell[w] >= 0 THEN dwell[w] ELSE 0) + 1
           IN  dwell'[w] = IF m <= Longest THEN m ELSE Longest
  BY <1>1, <1>2, StayFacts
<1> HIDE DEF v
<1>8. v.streak \in Nat /\ v.streak <= Patience
  BY <1>2, <1>3, <1>6
<1>9. \A w \in Pcs : Covers(v, w) => dwell'[w] >= v.streak
  <2>1. CASE Fits(window, cpu.ppc)
    BY <1>2, <1>3, <1>6, <1>7, <2>1
  <2>2. CASE ~Fits(window, cpu.ppc)
    BY <1>2, <1>3, <1>6, <1>7, <2>2
  <2> QED
    BY <2>1, <2>2
<1>10. \A w \in Pcs : dwell'[w] <= v.streak \/ (Covers(v, w) /\ dwell'[w] <= v.streak + Start)
  <2> SUFFICES ASSUME NEW w \in Pcs, Near(w, cpu.ppc)
               PROVE  dwell'[w] <= v.streak \/ (Covers(v, w) /\ dwell'[w] <= v.streak + Start)
    BY <1>7, <1>8
  <2>1. dwell'[w] <= (IF dwell[w] >= 0 THEN dwell[w] ELSE 0) + 1
    BY <1>2, <1>3, <1>7
  <2>2. dwell[w] \in Int /\ dwell'[w] \in Int
    BY <1>2, <1>7
  <2>3. dwell[w] <= Grip \/ (Covers(window, w) /\ dwell[w] <= Grip + Start)
    BY <1>2 DEF Bounded
  <2>4. CASE Fits(window, cpu.ppc)
    <3>1. v.streak = Grip + 1 /\ (Covers(v, w) <=> Covers(window, w))
      BY <1>6, <2>4
    <3> QED
      BY <1>2, <1>3, <2>1, <2>2, <2>3, <3>1
  <2>5. CASE ~Fits(window, cpu.ppc)
    <3>1. v.streak = 1 /\ Covers(v, w) /\ ~Covers(window, w)
      BY <1>6, <2>5
    <3> QED
      BY <1>2, <1>3, <2>1, <2>2, <2>3, <3>1
  <2> QED
    BY <2>4, <2>5
<1>11. LoopShape'
  BY <1>1, <1>4, <1>6, <1>7 DEF LoopShape, WedgeInv, WindowType, Steps
<1>12. (\A w \in Pcs : Covers(window, w) => dwell[w] >= Grip)'
  BY <1>4, <1>5, <1>9 DEF Steps
<1>13. outcome' = "Wedged" => Grip' >= Patience'
  BY <1>1, <1>3, <1>4, <1>5 DEF Steps
<1>14. outcome' = "running" => Grip' < Patience'
  BY <1>1, <1>3, <1>4, <1>5, <1>8 DEF Steps
<1>15. Bounded'
  BY <1>4, <1>5, <1>10 DEF Steps, Bounded
<1> QED
  BY <1>4, <1>11, <1>12, <1>13, <1>14, <1>15 DEF WedgeInv, Steps

(* A chunk ends: time has passed, its PC has not been looked at. *)
LEMMA WedgeChunk ==
    ASSUME WedgeInv, outcome = "running", ChunkEnds
    PROVE  WedgeInv'
<1>1. /\ Chunked /\ at = "run" /\ at' = "drain" /\ rig' = rig /\ window' = window /\ outcome' = outcome
  BY DEF ChunkEnds, Running, Goto
<1>2. PICK loc \in rig.flow[cpu.pc], exit \in {"budget", "boundary"} \cup rig.exits, elapsed \in rig.times :
         /\ cpu' = [pc |-> loc, ppc |-> loc, stopped |-> exit = "stopped", exit |-> exit]
         /\ clock' = [lag |-> clock.lag + elapsed, stuck |-> Min({clock.stuck + elapsed, WedgeSeconds})]
         /\ dwell' = [w \in DOMAIN dwell |-> IF dwell[w] < 0 THEN -1 ELSE Min({dwell[w] + elapsed, Longest})]
  BY DEF ChunkEnds
<1>3. /\ rig \in Rigs /\ WindowType(window) /\ cpu.pc \in Pcs /\ dwell \in [Pcs -> Int]
      /\ \A w \in Pcs : dwell[w] \in Int
      /\ Grip = clock.stuck /\ Grip \in Nat /\ Grip < Patience /\ Bounded
      /\ \A w \in Pcs : Covers(window, w) => dwell[w] >= Grip
  BY <1>1 DEF WedgeInv, LoopShape, Grip, Looked
<1>4. /\ Patience = WedgeSeconds /\ Patience \in Nat \ {0} /\ Slack \in Nat
      /\ elapsed \in Nat /\ elapsed <= Slack
      /\ Longest \in Nat /\ Longest >= Patience /\ Start = Patience - 1 + Slack
  BY <1>1, <1>2, <1>3, Measures DEF Start
<1>5. loc \in Pcs /\ exit # "wedged"
  BY <1>2, <1>3, RigAssumption DEF Pcs
<1>6. Steps /\ Start' = Start /\ \A w : Covers(window, w)' <=> Covers(window, w)
  BY <1>1, SameRig
<1> DEFINE g == IF Grip + elapsed <= Patience THEN Grip + elapsed ELSE Patience
<1>7. DOMAIN clock' = {"lag", "stuck"} /\ clock'.stuck = g /\ g \in Nat /\ g <= Patience
  BY <1>2, <1>3, <1>4, MinOfTwo
<1>8. Grip' = g
  BY <1>1, <1>6, <1>7 DEF Grip, Steps
<1>9. /\ dwell' \in [Pcs -> Int]
      /\ \A w \in Pcs : dwell'[w] = IF dwell[w] < 0 THEN -1
                                    ELSE IF dwell[w] + elapsed <= Longest THEN dwell[w] + elapsed ELSE Longest
  <2>1. \A w \in Pcs : Min({dwell[w] + elapsed, Longest}) =
                          IF dwell[w] + elapsed <= Longest THEN dwell[w] + elapsed ELSE Longest
    BY <1>3, <1>4, MinOfTwo
  <2>2. dwell' = [w \in Pcs |-> IF dwell[w] < 0 THEN -1 ELSE Min({dwell[w] + elapsed, Longest})]
    BY <1>2, <1>3
  <2>3. \A w \in Pcs : dwell'[w] = IF dwell[w] < 0 THEN -1
                                    ELSE IF dwell[w] + elapsed <= Longest THEN dwell[w] + elapsed ELSE Longest
    BY <2>1, <2>2
  <2>4. \A w \in Pcs : dwell'[w] \in Int
    BY <1>3, <1>4, <2>3
  <2> QED
    BY <2>2, <2>3, <2>4
<1>10. DOMAIN cpu' = {"pc", "ppc", "stopped", "exit"} /\ cpu'.pc = loc /\ cpu'.ppc = loc /\ cpu'.exit = exit
  BY <1>2
<1> HIDE DEF g
<1>11. \A w \in Pcs : Covers(window, w) => dwell'[w] >= g
  BY <1>3, <1>4, <1>9 DEF g
<1>12. CASE g < Patience
  <2>1. g = Grip + elapsed
    BY <1>3, <1>4, <1>12 DEF g
  <2>2. \A w \in Pcs : dwell'[w] <= g \/ (Covers(window, w) /\ dwell'[w] <= g + Start)
    <3> SUFFICES ASSUME NEW w \in Pcs
                 PROVE  dwell'[w] <= g \/ (Covers(window, w) /\ dwell'[w] <= g + Start)
      OBVIOUS
    <3>1. dwell[w] \in Int /\ (dwell[w] <= Grip \/ (Covers(window, w) /\ dwell[w] <= Grip + Start))
      BY <1>3 DEF Bounded
    <3>2. dwell'[w] = -1 \/ dwell'[w] <= dwell[w] + elapsed
      BY <1>3, <1>4, <1>9
    <3>3. dwell'[w] \in Int
      BY <1>9
    <3> QED
      BY <1>3, <1>4, <2>1, <3>1, <3>2, <3>3
  <2>3. Bounded'
    BY <1>6, <1>8, <2>2 DEF Bounded, Steps
  <2> QED
    BY <1>1, <1>3, <1>5, <1>6, <1>7, <1>8, <1>9, <1>10, <1>11, <1>12, <2>3
       DEF WedgeInv, LoopShape, WindowType, Steps
<1>13. CASE ~(g < Patience)
  <2>1. g = Patience
    BY <1>4, <1>7, <1>13
  <2>2. \A w \in Pcs : Covers(window, w) \/ dwell'[w] <= Start
    <3> SUFFICES ASSUME NEW w \in Pcs, ~Covers(window, w) PROVE dwell'[w] <= Start
      OBVIOUS
    <3>1. dwell[w] \in Int /\ dwell[w] <= Grip
      BY <1>3 DEF Bounded
    <3>2. dwell'[w] = -1 \/ dwell'[w] <= dwell[w] + elapsed
      BY <1>3, <1>4, <1>9
    <3>3. dwell'[w] \in Int
      BY <1>9
    <3> QED
      BY <1>3, <1>4, <3>1, <3>2, <3>3
  <2> QED
    BY <1>1, <1>3, <1>5, <1>6, <1>7, <1>8, <1>9, <1>10, <1>11, <2>1, <2>2
       DEF WedgeInv, LoopShape, WindowType, Steps
<1> QED
  BY <1>12, <1>13

(* The loop looks at the PC a chunk ended at. *)
LEMMA WedgeLook ==
    ASSUME WedgeInv, outcome = "running", Chunked, Drained
    PROVE  WedgeInv'
<1> DEFINE stop == cpu.exit = "stopped"
           inside == Fits(window, cpu.pc)
<1>1. /\ at = "drain" /\ at' \in Looked /\ rig' = rig /\ outcome' = outcome
      /\ window' = IF stop THEN WindowReset(cpu.pc) ELSE Extend(window, cpu.pc)
      /\ clock' = IF stop \/ ~inside THEN [clock EXCEPT !.stuck = 0] ELSE clock
      /\ cpu' = IF ~stop /\ inside /\ clock.stuck >= WedgeSeconds THEN [cpu EXCEPT !.exit = "wedged"] ELSE cpu
      /\ dwell' = IF stop THEN [w \in DOMAIN dwell |-> IF Near(w, cpu.pc) THEN 0 ELSE -1] ELSE Stay(cpu.pc, 0)
  BY DEF Drained, Goto, Looked
<1>2. /\ rig \in Rigs /\ WindowType(window) /\ cpu.pc \in Pcs /\ cpu.ppc \in Pcs /\ dwell \in [Pcs -> Int]
      /\ \A w \in Pcs : dwell[w] \in Int
      /\ Grip = clock.stuck /\ Grip \in Nat
      /\ \A w \in Pcs : Covers(window, w) => dwell[w] >= Grip
      /\ \/ Grip < Patience /\ Bounded
         \/ Grip = Patience /\ \A w \in Pcs : Covers(window, w) \/ dwell[w] <= Start
      /\ cpu.exit # "wedged"
  BY <1>1 DEF WedgeInv, LoopShape, Grip, Looked
<1>3. /\ Patience = WedgeSeconds /\ Patience \in Nat \ {0} /\ Slack \in Nat /\ Reach \in Nat
      /\ Longest \in Nat /\ Longest >= Patience /\ Start = Patience - 1 + Slack /\ Pcs \subseteq Nat
  BY <1>2, Measures DEF Start
<1>4. Steps /\ Start' = Start /\ \A w : Covers(window, w)' <=> Covers(window', w)
  BY <1>1, SameRig
<1>5. /\ DOMAIN cpu' = {"pc", "ppc", "stopped", "exit"} /\ cpu'.pc = cpu.pc /\ cpu'.ppc = cpu.ppc
      /\ cpu'.exit = IF ~stop /\ inside /\ Grip >= Patience THEN "wedged" ELSE cpu.exit
  BY <1>1, <1>2, <1>3 DEF WedgeInv, LoopShape
<1>6. /\ DOMAIN clock' = {"lag", "stuck"}
      /\ clock'.stuck = IF stop \/ ~inside THEN 0 ELSE Grip
  BY <1>1, <1>2 DEF WedgeInv, LoopShape
<1>7. Grip' = clock'.stuck
  BY <1>4 DEF Grip, Steps
<1>8. CASE stop
  <2>1. window' = [lo |-> cpu.pc, hi |-> cpu.pc, streak |-> 1]
    BY <1>1, <1>8 DEF WindowReset
  <2>2. WindowType(window') /\ \A w \in Pcs : Covers(window', w) <=> Near(w, cpu.pc)
    <3>1. /\ DOMAIN window' = {"lo", "hi", "streak"} /\ window'.lo = cpu.pc /\ window'.hi = cpu.pc
          /\ window'.streak = 1
      BY <2>1
    <3>2. cpu.pc \in Nat /\ Reach \in Nat
      BY <1>2, <1>3
    <3>3. WindowType(window')
      BY <1>2, <3>1, <3>2 DEF WindowType
    <3>4. \A w \in Pcs : Covers(window', w) <=> Near(w, cpu.pc)
      BY <3>1 DEF Covers, Near
    <3> QED
      BY <3>3, <3>4
  <2>3. dwell' = [w \in Pcs |-> IF Near(w, cpu.pc) THEN 0 ELSE -1]
    BY <1>1, <1>2, <1>8
  <2>4. dwell' \in [Pcs -> Int] /\ \A w \in Pcs : dwell'[w] = IF Near(w, cpu.pc) THEN 0 ELSE -1
    BY <2>3
  <2>5. Grip' = 0 /\ cpu'.exit # "wedged"
    BY <1>2, <1>5, <1>6, <1>7, <1>8
  <2>6. Bounded'
    BY <1>4, <2>4, <2>5 DEF Bounded, Steps
  <2>7. LoopShape'
    BY <1>1, <1>2, <1>4, <1>5, <1>6, <2>2, <2>4, <1>8 DEF LoopShape, WindowType, Steps
  <2>8. (\A w \in Pcs : Covers(window, w) => dwell[w] >= Grip)'
    BY <1>4, <2>2, <2>4, <2>5 DEF Steps
  <2> QED
    BY <1>1, <1>3, <1>4, <2>5, <2>6, <2>7, <2>8 DEF WedgeInv, Steps, Looked
<1>9. CASE ~stop
  <2>1. window' = Extend(window, cpu.pc) /\ dwell' = Stay(cpu.pc, 0)
    BY <1>1, <1>9
  <2>2. /\ WindowType(window')
        /\ \A w \in Pcs : Covers(window, w) /\ Near(w, cpu.pc) => inside
        /\ inside => \A w \in Pcs : Covers(window', w) <=> Covers(window, w) /\ Near(w, cpu.pc)
        /\ ~inside => \A w \in Pcs : Covers(window', w) <=> Near(w, cpu.pc)
    BY <1>2, <2>1, ExtendFacts
  <2>3. /\ dwell' \in [Pcs -> Int]
        /\ \A w \in Pcs : ~Near(w, cpu.pc) => dwell'[w] = -1
        /\ \A w \in Pcs : Near(w, cpu.pc) =>
             LET m == (IF dwell[w] >= 0 THEN dwell[w] ELSE 0) + 0
             IN  dwell'[w] = IF m <= Longest THEN m ELSE Longest
    BY <1>2, <2>1, StayFacts
  <2>4. \A w \in Pcs : dwell'[w] \in Int
    BY <2>3
  <2>5. LoopShape'
    BY <1>1, <1>2, <1>4, <1>5, <1>6, <2>2, <2>3 DEF LoopShape, WindowType, Steps
  <2>6. CASE inside
    <3>1. Grip' = Grip
      BY <1>6, <1>7, <1>9, <2>6
    <3>2. (\A w \in Pcs : Covers(window, w) => dwell[w] >= Grip)'
      <4>1. \A w \in Pcs : Covers(window', w) => dwell'[w] >= Grip
        <5> SUFFICES ASSUME NEW w \in Pcs, Covers(window', w) PROVE dwell'[w] >= Grip
          OBVIOUS
        <5>1. Near(w, cpu.pc) /\ dwell[w] >= Grip /\ dwell[w] \in Int
          BY <1>2, <2>2, <2>6
        <5>2. Grip <= Longest
          BY <1>2, <1>3
        <5> QED
          BY <1>2, <1>3, <2>3, <5>1, <5>2
      <4> QED
        BY <1>4, <3>1, <4>1 DEF Steps
    <3>3. CASE Grip >= Patience
      <4>1. cpu'.exit = "wedged"
        BY <1>5, <1>9, <2>6, <3>3
      <4> QED
        BY <1>1, <1>4, <2>5, <3>1, <3>2, <3>3, <4>1 DEF WedgeInv, Steps, Looked
    <3>4. CASE ~(Grip >= Patience)
      <4>1. cpu'.exit # "wedged" /\ Grip < Patience /\ Bounded
        BY <1>2, <1>3, <1>5, <3>4
      <4>2. \A w \in Pcs : dwell'[w] <= Grip \/ (Covers(window', w) /\ dwell'[w] <= Grip + Start)
        <5> SUFFICES ASSUME NEW w \in Pcs, Near(w, cpu.pc)
                     PROVE  dwell'[w] <= Grip \/ (Covers(window', w) /\ dwell'[w] <= Grip + Start)
          BY <1>2, <2>3
        <5>1. dwell[w] \in Int /\ (dwell[w] <= Grip \/ (Covers(window, w) /\ dwell[w] <= Grip + Start))
          BY <1>2, <4>1 DEF Bounded
        <5>2. dwell'[w] <= IF dwell[w] >= 0 THEN dwell[w] ELSE 0
          BY <1>3, <2>3, <5>1
        <5>3. Covers(window', w) <=> Covers(window, w)
          BY <2>2, <2>6
        <5> QED
          BY <1>2, <1>3, <2>4, <5>1, <5>2, <5>3
      <4>3. Bounded'
        BY <1>4, <3>1, <4>2 DEF Bounded, Steps
      <4> QED
        BY <1>1, <1>4, <2>5, <3>1, <3>2, <4>1, <4>3 DEF WedgeInv, Steps, Looked
    <3> QED
      BY <3>3, <3>4
  <2>7. CASE ~inside
    <3>1. Grip' = 0 /\ cpu'.exit # "wedged"
      BY <1>2, <1>5, <1>6, <1>7, <2>7
    <3>2. \A w \in Pcs : ~Covers(window, w) => dwell[w] <= Start
      <4> SUFFICES ASSUME NEW w \in Pcs, ~Covers(window, w) PROVE dwell[w] <= Start
        OBVIOUS
      <4>1. CASE Grip < Patience /\ Bounded
        <5>1. dwell[w] <= Grip /\ dwell[w] \in Int
          BY <1>2, <4>1 DEF Bounded
        <5> QED
          BY <1>2, <1>3, <4>1, <5>1
      <4> QED
        BY <1>2, <4>1
    <3>3. \A w \in Pcs : /\ Covers(window', w) => dwell'[w] >= 0
                         /\ dwell'[w] <= 0 \/ (Covers(window', w) /\ dwell'[w] <= Start)
      <4> SUFFICES ASSUME NEW w \in Pcs
                   PROVE  /\ Covers(window', w) => dwell'[w] >= 0
                          /\ dwell'[w] <= 0 \/ (Covers(window', w) /\ dwell'[w] <= Start)
        OBVIOUS
      <4>1. CASE Near(w, cpu.pc)
        <5>1. Covers(window', w) /\ ~Covers(window, w)
          BY <2>2, <2>7, <4>1
        <5>2. dwell[w] \in Int /\ dwell[w] <= Start
          BY <1>2, <3>2, <5>1
        <5>3. dwell'[w] >= 0 /\ dwell'[w] <= IF dwell[w] >= 0 THEN dwell[w] ELSE 0
          BY <1>3, <2>3, <4>1, <5>2
        <5> QED
          BY <1>3, <2>4, <5>1, <5>2, <5>3
      <4>2. CASE ~Near(w, cpu.pc)
        BY <2>2, <2>3, <2>7, <4>2
      <4> QED
        BY <4>1, <4>2
    <3>4. Bounded' /\ (\A w \in Pcs : Covers(window, w) => dwell[w] >= Grip)'
      <4>1. Start \in Int
        BY <1>3
      <4> QED
        BY <1>4, <3>1, <3>3, <4>1 DEF Bounded, Steps
    <3> QED
      BY <1>1, <1>3, <1>4, <2>5, <3>1, <3>4 DEF WedgeInv, Steps, Looked
  <2> QED
    BY <2>6, <2>7
<1> QED
  BY <1>8, <1>9

(* The verdict is set by the look after a chunk and acted on before the next one. *)
LEMMA NotYetWedged == WedgeInv /\ Chunked /\ at \notin Looked => cpu.exit # "wedged"
  BY DEF WedgeInv

(* An exception leaves the guest at one of its addresses. *)
LEMMA ExceptionFacts ==
    ASSUME WedgeInv, NEW kind, TakeException(kind)
    PROVE  /\ DOMAIN cpu' = DOMAIN cpu /\ cpu'.pc \in Pcs /\ cpu'.ppc \in Pcs /\ cpu'.exit = cpu.exit
           /\ outcome' = outcome \/ outcome' \notin {"running", "Wedged"}
<1>1. /\ rig \in Rigs /\ DOMAIN cpu = {"pc", "ppc", "stopped", "exit"} /\ cpu.pc \in Pcs /\ cpu.ppc \in Pcs
  BY DEF WedgeInv, LoopShape
<1>2. \A loc \in rig.flow[cpu.pc] : loc \in Pcs
  BY <1>1, RigAssumption DEF Pcs
<1>3. \/ outcome' = "Storm" /\ cpu' = cpu
      \/ outcome' = outcome /\ \E loc \in rig.flow[cpu.pc] : cpu' = [cpu EXCEPT !.pc = loc]
  BY DEF TakeException
<1>4. CASE outcome' = "Storm" /\ cpu' = cpu
  BY <1>1, <1>4
<1>5. CASE outcome' = outcome /\ \E loc \in rig.flow[cpu.pc] : cpu' = [cpu EXCEPT !.pc = loc]
  BY <1>1, <1>2, <1>5
<1> QED
  BY <1>3, <1>4, <1>5

(* A step of the loop that leaves the PC, the window and what was counted. *)
LEMMA WedgeSame ==
    ASSUME WedgeInv, UNCHANGED <<rig, cpu, window, dwell>>,
           DOMAIN clock' = DOMAIN clock, clock'.stuck = clock.stuck,
           outcome' = outcome \/ outcome' \notin {"running", "Wedged"},
           Chunked => \/ at' = at
                      \/ at # "drain" /\ (cpu.exit # "wedged" \/ at' \in Looked)
    PROVE  WedgeInv'
<1>1. cpu' = cpu /\ cpu.pc \in Pcs /\ cpu.ppc \in Pcs
  BY DEF WedgeInv, LoopShape
<1>2. Chunked => \/ at' = at /\ cpu'.exit = cpu.exit
                 \/ at # "drain" /\ cpu.exit # "wedged" /\ cpu'.exit # "wedged"
                 \/ at # "drain" /\ at' \in Looked /\ cpu'.exit = cpu.exit
  BY <1>1
<1> QED
  BY <1>1, <1>2, WedgeQuiet

LEMMA WedgeRetires ==
    ASSUME WedgeInv, ~Chunked, Retires
    PROVE  WedgeInv'
<1>1. /\ rig' = rig /\ window' = window /\ dwell' = dwell /\ clock' = clock /\ outcome' = outcome
      /\ \E loc \in rig.flow[cpu.pc], stop \in {FALSE, "stopped" \in rig.exits} :
           cpu' = [pc |-> loc, ppc |-> cpu.pc, stopped |-> stop, exit |-> "budget"]
  BY DEF Retires
<1>2. /\ rig \in Rigs /\ DOMAIN cpu = {"pc", "ppc", "stopped", "exit"} /\ cpu.pc \in Pcs
  BY DEF WedgeInv, LoopShape
<1>3. \A loc \in rig.flow[cpu.pc] : loc \in Pcs
  BY <1>2, RigAssumption DEF Pcs
<1>4. DOMAIN cpu' = DOMAIN cpu /\ cpu'.pc \in Pcs /\ cpu'.ppc \in Pcs
  BY <1>1, <1>2, <1>3
<1> QED
  BY <1>1, <1>4, WedgeQuiet

(* Inside a chunk nobody looks at the PC. *)
LEMMA WedgeGoesOn ==
    ASSUME WedgeInv, ChunkGoesOn
    PROVE  WedgeInv'
<1>1. PICK loc \in rig.flow[cpu.pc] : cpu' = [cpu EXCEPT !.pc = loc]
  BY DEF ChunkGoesOn
<1>2. UNCHANGED <<rig, at, window, clock, outcome, dwell>>
  BY DEF ChunkGoesOn
<1>3. /\ rig \in Rigs /\ DOMAIN cpu = {"pc", "ppc", "stopped", "exit"} /\ cpu.pc \in Pcs /\ cpu.ppc \in Pcs
  BY DEF WedgeInv, LoopShape
<1>4. loc \in Pcs
  BY <1>1, <1>3, RigAssumption DEF Pcs
<1>5. DOMAIN cpu' = DOMAIN cpu /\ cpu'.pc \in Pcs /\ cpu'.ppc \in Pcs /\ cpu'.exit = cpu.exit
  BY <1>1, <1>3, <1>4
<1> QED
  BY <1>2, <1>5, WedgeQuiet

LEMMA WedgeTrapped ==
    ASSUME WedgeInv, ~Chunked, Trapped
    PROVE  WedgeInv'
<1>1. PICK kind \in rig.exits \cap Traps : TakeException(kind)
  BY DEF Trapped
<1>2. rig' = rig /\ window' = window /\ dwell' = dwell /\ clock' = clock
  BY DEF Trapped
<1> QED
  BY <1>1, <1>2, ExceptionFacts, WedgeQuiet

(* STOP and what ends it: only the stopped bit and the exit of cpu change. *)
LEMMA WedgeParks ==
    ASSUME WedgeInv, ~Chunked, Parked
    PROVE  WedgeInv'
<1>1. /\ rig' = rig /\ window' = window /\ dwell' = dwell /\ clock' = clock
      /\ outcome' = outcome \/ outcome' \in {"CleanHalt", "LimitReached"}
      /\ cpu' = cpu \/ \E woken \in BOOLEAN : cpu' = [cpu EXCEPT !.stopped = ~woken]
  BY DEF Parked
<1>2. cpu.pc \in Pcs /\ cpu.ppc \in Pcs /\ DOMAIN cpu = {"pc", "ppc", "stopped", "exit"}
  BY DEF WedgeInv, LoopShape
<1>3. DOMAIN cpu' = DOMAIN cpu /\ cpu'.pc \in Pcs /\ cpu'.ppc \in Pcs
  BY <1>1, <1>2
<1> QED
  BY <1>1, <1>3, WedgeQuiet

LEMMA WedgeStops ==
    ASSUME WedgeInv, ChunkStopped
    PROVE  WedgeInv'
<1>1. /\ rig' = rig /\ window' = window /\ dwell' = dwell /\ clock' = clock /\ outcome' = outcome
      /\ at = "run" /\ cpu' = [cpu EXCEPT !.exit = "stopped"] /\ Chunked
  BY DEF ChunkStopped
<1>2. cpu.pc \in Pcs /\ cpu.ppc \in Pcs /\ DOMAIN cpu = {"pc", "ppc", "stopped", "exit"}
  BY DEF WedgeInv, LoopShape
<1>3. DOMAIN cpu' = DOMAIN cpu /\ cpu'.pc \in Pcs /\ cpu'.ppc \in Pcs /\ cpu'.exit = "stopped"
  BY <1>1, <1>2
<1>4. cpu.exit # "wedged"
  BY <1>1, NotYetWedged DEF Looked
<1> QED
  BY <1>1, <1>3, <1>4, WedgeQuiet

LEMMA WedgeWakes ==
    ASSUME WedgeInv, CatchUp
    PROVE  WedgeInv'
<1>1. /\ rig' = rig /\ window' = window /\ dwell' = dwell /\ outcome' = outcome /\ at = "catchup"
      /\ clock' = clock \/ clock' = [clock EXCEPT !.lag = @ - Deadline]
      /\ \/ cpu' = cpu \/ cpu' = [cpu EXCEPT !.stopped = FALSE]
         \/ \E woken \in BOOLEAN : cpu' = [cpu EXCEPT !.stopped = ~woken]
  BY DEF CatchUp
<1>2. /\ cpu.pc \in Pcs /\ cpu.ppc \in Pcs /\ DOMAIN cpu = {"pc", "ppc", "stopped", "exit"}
      /\ DOMAIN clock = {"lag", "stuck"}
  BY DEF WedgeInv, LoopShape
<1>3. DOMAIN cpu' = DOMAIN cpu /\ cpu'.pc \in Pcs /\ cpu'.ppc \in Pcs /\ cpu'.exit = cpu.exit
  BY <1>1, <1>2
<1>4. DOMAIN clock' = DOMAIN clock /\ clock'.stuck = clock.stuck
  BY <1>1, <1>2
<1>5. Chunked => cpu.exit # "wedged"
  BY <1>1, NotYetWedged DEF Looked
<1> QED
  BY <1>1, <1>3, <1>4, <1>5, WedgeQuiet

(* After the service of a chunk: the limits, then what the exit asks for. *)
LEMMA WedgeEnds ==
    ASSUME WedgeInv, outcome = "running", ChunkCheck
    PROVE  WedgeInv'
<1>1. /\ rig' = rig /\ window' = window /\ dwell' = dwell /\ clock' = clock /\ at = "check" /\ Chunked
  BY DEF ChunkCheck
<1>2. \/ cpu.exit = "wedged" /\ outcome' = "Wedged" /\ at' = at /\ cpu' = cpu
      \/ /\ cpu.exit # "wedged" /\ outcome' \in {outcome, "LimitReached", "CleanHalt"} /\ cpu' = cpu
      \/ /\ cpu.exit \in Traps /\ TakeException(cpu.exit)
  BY DEF ChunkCheck, Goto
<1>3. CASE cpu.exit = "wedged" /\ outcome' = "Wedged" /\ at' = at /\ cpu' = cpu
  <2>1. Steps /\ Start' = Start /\ \A w : Covers(window, w)' <=> Covers(window', w)
    BY <1>1, SameRig
  <2>2. Grip' = Grip
    BY <1>1, <2>1 DEF Grip, Steps
  <2>3. Grip >= Patience /\ at \in Looked
    BY <1>1, <1>3 DEF WedgeInv
  <2>4. LoopShape'
    BY <1>1, <1>3, <2>1 DEF WedgeInv, LoopShape, WindowType, Steps
  <2>5. (\A w \in Pcs : Covers(window, w) => dwell[w] >= Grip)'
    BY <1>1, <2>1, <2>2 DEF WedgeInv, Steps
  <2> QED
    BY <1>3, <2>1, <2>2, <2>3, <2>4, <2>5 DEF WedgeInv, Steps
<1>4. CASE cpu.exit # "wedged" /\ outcome' \in {outcome, "LimitReached", "CleanHalt"} /\ cpu' = cpu
  BY <1>1, <1>4, WedgeSame
<1>5. CASE cpu.exit \in Traps /\ TakeException(cpu.exit)
  <2>1. cpu.exit # "wedged"
    BY <1>5 DEF Traps
  <2> QED
    BY <1>1, <1>5, <2>1, ExceptionFacts, WedgeQuiet
<1> QED
  BY <1>2, <1>3, <1>4, <1>5

LEMMA WedgeInvNext == WedgeInv /\ [HostNext]_hostVars => WedgeInv'
<1> SUFFICES ASSUME WedgeInv, [HostNext]_hostVars PROVE WedgeInv'
  OBVIOUS
<1>0. ASSUME UNCHANGED loopVars PROVE WedgeInv'
  BY <1>0, WedgeSame DEF loopVars
<1>1. DOMAIN clock = {"lag", "stuck"}
  BY DEF WedgeInv, LoopShape
<1>2. CASE UNCHANGED hostVars
  BY <1>0, <1>2 DEF hostVars
<1>3. CASE BridgeThread
  BY <1>0, <1>3 DEF BridgeThread
<1>4. CASE BootEnds
  BY <1>0, <1>4 DEF BootEnds
<1>5. CASE BootLoop
  <2>1. outcome = "running" /\ (Booting => ~Chunked)
    BY <1>5 DEF BootLoop, Booting, Chunked
  <2>2. CASE BootInstruction
    BY <2>1, <2>2, WedgeRetires DEF BootInstruction
  <2>3. CASE BootDrain
    BY <1>0, <2>3 DEF BootDrain
  <2>4. CASE BootCheck
    BY <2>1, <2>4, WedgeCheck DEF BootCheck
  <2>5. CASE BootTrap
    BY <2>1, <2>5, WedgeTrapped DEF BootTrap
  <2>6. CASE BootStopped
    BY <2>1, <2>6, WedgeParks DEF BootStopped
  <2> QED
    BY <1>5, <2>2, <2>3, <2>4, <2>5, <2>6 DEF BootLoop
<1>6. CASE MainLoop
  <2>1. outcome = "running" /\ (Hooked => ~Chunked)
    BY <1>6 DEF MainLoop, Hooked, Chunked
  <2>2. CASE HookInstruction
    BY <2>1, <2>2, WedgeRetires DEF HookInstruction
  <2>3. CASE HookTrap
    BY <2>1, <2>3, WedgeTrapped DEF HookTrap
  <2>4. CASE HookStopped
    BY <2>1, <2>4, WedgeParks DEF HookStopped
  <2>5. CASE HookCheck
    BY <2>1, <2>5, WedgeCheck DEF HookCheck
  <2>6. CASE ChunkGoesOn
    BY <2>6, WedgeGoesOn
  <2>7. CASE ChunkEnds
    BY <2>1, <2>7, WedgeChunk
  <2>8. CASE ChunkStopped
    BY <2>8, WedgeStops
  <2>9. CASE ChunkCheck
    BY <2>1, <2>9, WedgeEnds
  <2>10. CASE ChunkTick
    <3>1. UNCHANGED <<rig, cpu, window, dwell, outcome>> /\ at = "tick"
      BY <2>10 DEF ChunkTick
    <3>2. DOMAIN clock' = DOMAIN clock /\ clock'.stuck = clock.stuck
      BY <1>1, <2>10 DEF ChunkTick
    <3>3. Chunked => cpu.exit # "wedged"
      BY <3>1, NotYetWedged DEF Looked
    <3> QED
      BY <3>1, <3>2, <3>3, WedgeSame
  <2>11. CASE Sleep
    <3>1. UNCHANGED <<rig, cpu, window, dwell, outcome>> /\ at = "sleep"
      BY <2>11 DEF Sleep
    <3>2. DOMAIN clock' = DOMAIN clock /\ clock'.stuck = clock.stuck
      BY <1>1, <2>11 DEF Sleep
    <3>3. Chunked => cpu.exit # "wedged"
      BY <3>1, NotYetWedged DEF Looked
    <3> QED
      BY <3>1, <3>2, <3>3, WedgeSame
  <2>12. CASE CatchUp
    BY <2>12, WedgeWakes
  <2>13. CASE Drain
    BY <1>0, <2>13 DEF Drain
  <2>14. CASE Drained
    <3>1. CASE Chunked
      BY <2>1, <2>14, <3>1, WedgeLook
    <3>2. CASE ~Chunked
      <4>1. UNCHANGED <<rig, cpu, window, clock, dwell, outcome>>
        BY <2>14, <3>2 DEF Drained
      <4> QED
        BY <3>2, <4>1, WedgeSame
    <3> QED
      BY <3>1, <3>2
  <2>15. CASE Service
    <3>1. UNCHANGED <<rig, cpu, window, clock, dwell, outcome>> /\ at = "service" /\ at' \in Looked
      BY <2>15 DEF Service, Goto, Looked
    <3> QED
      BY <3>1, WedgeSame
  <2>16. CASE ServiceSerialScript
    <3>1. UNCHANGED <<rig, cpu, window, clock, dwell, outcome>> /\ at = "sscript" /\ at' \in Looked
      BY <2>16 DEF ServiceSerialScript, StayLoop, Goto, Looked
    <3> QED
      BY <3>1, WedgeSame
  <2>17. CASE InputScriptWaits
    <3>1. UNCHANGED <<rig, cpu, window, clock, dwell, outcome>> /\ at = "iscript" /\ at' \in Looked
      BY <2>17 DEF InputScriptWaits, Goto, Looked
    <3> QED
      BY <3>1, WedgeSame
  <2>18. CASE InputDirective
    <3>1. UNCHANGED <<rig, cpu, window, clock, dwell, outcome>> /\ at = "iscript" /\ at' \in Looked
      BY <2>18 DEF InputDirective, Goto, Looked
    <3> QED
      BY <3>1, WedgeSame
  <2>19. CASE ServiceTcp
    <3>1. UNCHANGED <<rig, cpu, window, clock, dwell, outcome>> /\ at = "tcp" /\ at' \in Looked
      BY <2>19 DEF ServiceTcp, StayLoop, Goto, Looked
    <3> QED
      BY <3>1, WedgeSame
  <2> QED
    BY <1>6, <2>2, <2>3, <2>4, <2>5, <2>6, <2>7, <2>8, <2>9, <2>10, <2>11, <2>12, <2>13, <2>14, <2>15,
       <2>16, <2>17, <2>18, <2>19 DEF MainLoop
<1> QED
  BY <1>2, <1>3, <1>4, <1>5, <1>6 DEF HostNext

LEMMA WedgeInvRight == WedgeInv => WedgeVerdictIsRight
<1> SUFFICES ASSUME WedgeInv PROVE WedgeVerdictIsRight
  OBVIOUS
<1>1. /\ rig \in Rigs /\ WindowType(window) /\ dwell \in [Pcs -> Int] /\ DOMAIN dwell = Pcs
      /\ clock.stuck \in Nat /\ window.streak \in Nat
  BY DEF WedgeInv, LoopShape, WindowType
<1>2. Reach \in Nat /\ Slack \in Nat /\ Patience \in Nat \ {0} /\ Pcs \subseteq Nat
  BY <1>1, Measures
<1>3. Grip \in Nat
  BY <1>1 DEF Grip
<1>4. ASSUME outcome = "Wedged" PROVE Confined(Patience)
  <2>1. window.lo \in Pcs /\ Covers(window, window.lo)
    <3>1. window.lo \in Pcs /\ window.hi <= window.lo + Reach
      BY <1>1 DEF WindowType
    <3>2. window.lo \in Nat
      BY <1>2, <3>1
    <3>3. window.lo <= window.lo
      BY <3>2
    <3> QED
      BY <3>1, <3>3, Zenon DEF Covers
  <2>2. dwell[window.lo] >= Grip /\ Grip >= Patience /\ dwell[window.lo] \in Int
    BY <1>1, <1>4, <2>1 DEF WedgeInv
  <2>3. dwell[window.lo] >= Patience
    BY <1>2, <1>3, <2>2
  <2> QED
    BY <1>1, <2>1, <2>3 DEF Confined
<1>5. ASSUME outcome = "running", at = "run" PROVE ~Confined(2 * Patience - 1 + Slack)
  <2>1. Grip < Patience /\ Bounded
    BY <1>5, NotYetWedged DEF WedgeInv, Looked
  <2>2. \A w \in Pcs : dwell[w] \in Int /\ dwell[w] < 2 * Patience - 1 + Slack
    <3> SUFFICES ASSUME NEW w \in Pcs PROVE dwell[w] \in Int /\ dwell[w] < 2 * Patience - 1 + Slack
      OBVIOUS
    <3>1. dwell[w] \in Int
      BY <1>1
    <3>2. dwell[w] <= Grip \/ dwell[w] <= Grip + (Patience - 1 + Slack)
      BY <2>1 DEF Bounded, Start
    <3> QED
      BY <1>2, <1>3, <2>1, <3>1, <3>2
  <2> QED
    BY <1>1, <1>2, <2>2 DEF Confined
<1> QED
  BY <1>4, <1>5 DEF WedgeVerdictIsRight

(***************************************************************************)
(* The wedge verdict of run_guest, run_guest_max and boot_aros is right    *)
(* both ways for every guest, as far as the loop looks: the PC of a guest  *)
(* called wedged was within LOOP_WINDOW_SPAN_BYTES of one address wherever *)
(* the loop looked for the threshold (after every instruction, or in max   *)
(* mode after every chunk), and no guest found there for twice as long,    *)
(* and a chunk, is left running.                                           *)
(***************************************************************************)
THEOREM WedgeVerdictHolds == HostSpec => []WedgeVerdictIsRight
<1>1. HostInit => WedgeInv
  BY WedgeInvHolds
<1>2. WedgeInv /\ [HostNext]_hostVars => WedgeInv'
  BY WedgeInvNext
<1>3. WedgeInv => WedgeVerdictIsRight
  BY WedgeInvRight
<1> QED
  BY <1>1, <1>2, <1>3, PTL DEF HostSpec

-----------------------------------------------------------------------------
(***************************************************************************)
(* The input script.  Keys are counted by where they stand in the script;  *)
(* going past a directive moves those that are left down by one.           *)
(***************************************************************************)
KeysAt(s) == {i \in 1 .. Len(s) : s[i].op = "Key"}
Keys(s) == Cardinality(KeysAt(s))

LEMMA KeysFinite ==
    ASSUME NEW S, NEW s \in Seq(S)
    PROVE  IsFiniteSet(KeysAt(s)) /\ Keys(s) \in Nat
<1>1. Len(s) \in Nat
  BY LenProperties
<1>2. IsFiniteSet(1 .. Len(s))
  BY <1>1, FS_Interval
<1>3. KeysAt(s) \in SUBSET (1 .. Len(s))
  BY DEF KeysAt
<1>4. IsFiniteSet(KeysAt(s))
  BY <1>2, <1>3, FS_Subset
<1> QED
  BY <1>4, FS_CardinalityType DEF Keys

LEMMA KeysOfTail ==
    ASSUME NEW S, NEW s \in Seq(S), s # <<>>
    PROVE  Keys(s) = IF Head(s).op = "Key" THEN Keys(Tail(s)) + 1 ELSE Keys(Tail(s))
<1> DEFINE t == Tail(s)
           A == KeysAt(t)
           B == {i \in KeysAt(s) : i > 1}
           f == [i \in A |-> i + 1]
<1>1. /\ t \in Seq(S) /\ Len(t) = Len(s) - 1 /\ Len(s) \in Nat \ {0} /\ Head(s) = s[1]
      /\ \A i \in 1 .. Len(t) : t[i] = s[i + 1]
  BY HeadTailProperties, LenProperties, EmptySeq
<1>2. A \subseteq Nat /\ \A i \in A : f[i] = i + 1
  BY DEF KeysAt
<1>3. \A i \in A : i + 1 \in B
  BY <1>1 DEF KeysAt
<1>4. \A j \in B : j - 1 \in A /\ f[j - 1] = j
  BY <1>1 DEF KeysAt
<1>5. f \in Bijection(A, B)
  <2>1. f \in [A -> B]
    BY <1>3
  <2>2. \A i, j \in A : f[i] = f[j] => i = j
    BY <1>2
  <2>3. \A j \in B : \E i \in A : f[i] = j
    BY <1>4
  <2> HIDE DEF f, A, B
  <2> QED
    BY <2>1, <2>2, <2>3 DEF Bijection, Injection, Surjection, IsInjective
<1>6. IsFiniteSet(A) /\ Cardinality(A) \in Nat
  BY <1>1, KeysFinite DEF Keys
<1>7. IsFiniteSet(B) /\ Cardinality(B) = Cardinality(A)
  <2>1. ExistsBijection(A, B)
    BY <1>5 DEF ExistsBijection
  <2> HIDE DEF A, B
  <2> QED
    BY <1>6, <2>1, FS_Bijection
<1>8. CASE Head(s).op = "Key"
  <2>1. KeysAt(s) = B \cup {1} /\ 1 \notin B
    BY <1>1, <1>8 DEF KeysAt
  <2> HIDE DEF B, A
  <2>2. Cardinality(B \cup {1}) = Cardinality(B) + 1
    BY <1>7, <2>1, FS_AddElement
  <2> QED
    BY <1>7, <1>8, <2>1, <2>2 DEF Keys, A
<1>9. CASE Head(s).op # "Key"
  <2>1. KeysAt(s) = B
    BY <1>1, <1>9 DEF KeysAt
  <2> QED
    BY <1>7, <1>9, <2>1 DEF Keys
<1> QED
  BY <1>8, <1>9

(* What the script has still to do, and the codes the card has taken so far. *)
ScriptInv ==
    /\ rig \in Rigs
    /\ iscript.remaining \in Seq(Range(rig.iscript))
    /\ DOMAIN iscript = {"remaining", "sleep"}
    /\ pushes \in Nat /\ accepted \subseteq 1 .. pushes
    /\ Cardinality(accepted) + Keys(iscript.remaining) = Keys(rig.iscript)

LEMMA ScriptInvHolds == HostInit => ScriptInv
<1> SUFFICES ASSUME HostInit PROVE ScriptInv
  OBVIOUS
<1>1. /\ rig \in Rigs /\ iscript = [remaining |-> rig.iscript, sleep |-> -1]
      /\ pushes = 0 /\ accepted = {}
  BY DEF HostInit, CardInit
<1>2. rig.iscript \in Seq(Range(rig.iscript))
  BY <1>1, RigAssumption
<1>3. iscript.remaining = rig.iscript /\ DOMAIN iscript = {"remaining", "sleep"}
  BY <1>1
<1>4. Keys(rig.iscript) \in Nat
  BY <1>2, KeysFinite
<1>5. Cardinality(accepted) = 0
  BY <1>1, FS_EmptySet
<1> QED
  BY <1>1, <1>2, <1>3, <1>4, <1>5 DEF ScriptInv

LEMMA AcceptedFinite == ScriptInv => IsFiniteSet(accepted) /\ Cardinality(accepted) \in Nat
<1> SUFFICES ASSUME ScriptInv PROVE IsFiniteSet(accepted) /\ Cardinality(accepted) \in Nat
  OBVIOUS
<1>1. IsFiniteSet(1 .. pushes) /\ accepted \in SUBSET (1 .. pushes)
  BY FS_Interval DEF ScriptInv
<1>2. IsFiniteSet(accepted)
  BY <1>1, FS_Subset
<1> QED
  BY <1>2, FS_CardinalityType

(* The card takes a key exactly when the script goes on. *)
LEMMA ScriptDirective ==
    ASSUME ScriptInv, InputDirective
    PROVE  ScriptInv'
<1> DEFINE d == Head(iscript.remaining)
           R == iscript.remaining
           Dirs == Range(rig.iscript)
<1>1. /\ R # <<>> /\ rig' = rig
      /\ \/ d.op = "Key" /\ push_discrete
         \/ d.op = "Move" /\ push_pointer_motion
         \/ d.op = "Sleep" /\ UNCHANGED inputVars
      /\ DOMAIN iscript' = {"remaining", "sleep"} /\ iscript'.remaining = Rest(d)
  BY DEF InputDirective
<1>2. /\ rig \in Rigs /\ R \in Seq(Dirs) /\ pushes \in Nat /\ accepted \subseteq 1 .. pushes
      /\ Cardinality(accepted) + Keys(R) = Keys(rig.iscript)
  BY DEF ScriptInv
<1>3. Tail(R) \in Seq(Dirs)
  BY <1>1, <1>2, HeadTailProperties
<1>4. /\ Keys(R) = IF d.op = "Key" THEN Keys(Tail(R)) + 1 ELSE Keys(Tail(R))
      /\ Keys(R) \in Nat /\ Keys(Tail(R)) \in Nat
  BY <1>1, <1>2, <1>3, KeysOfTail, KeysFinite
<1>5. iscript'.remaining = (IF Accepts(d) THEN Tail(R) ELSE R) /\ iscript'.remaining \in Seq(Dirs)
  BY <1>1, <1>2, <1>3 DEF Rest
<1>6. IsFiniteSet(accepted) /\ Cardinality(accepted) \in Nat
  BY AcceptedFinite
<1>7. CASE d.op = "Key" /\ push_discrete
  <2>1. pushes' = pushes + 1
    BY <1>7 DEF push_discrete
  <2>2. CASE Accepts(d)
    <3>1. ~(is_full /\ motion_index = {})
      BY <1>7, <2>2 DEF Accepts
    <3>2. accepted' = accepted \cup {pushes + 1}
      BY <1>7, <3>1 DEF push_discrete
    <3>3. pushes + 1 \notin accepted
      BY <1>2
    <3>4. Cardinality(accepted') = Cardinality(accepted) + 1
      BY <1>6, <3>2, <3>3, FS_AddElement
    <3>5. accepted' \subseteq 1 .. pushes'
      BY <1>2, <2>1, <3>2
    <3>6. iscript'.remaining = Tail(R) /\ Keys(R) = Keys(Tail(R)) + 1
      BY <1>4, <1>5, <1>7, <2>2, Zenon
    <3>7. Cardinality(accepted') + Keys(Tail(R)) = Keys(rig.iscript)
      BY <1>2, <1>4, <1>6, <3>4, <3>6
    <3>8. pushes' \in Nat
      BY <1>2, <2>1
    <3>9. Cardinality(accepted') + Keys(iscript'.remaining) = Keys(rig.iscript)
      BY <3>6, <3>7, Zenon
    <3> QED
      BY <1>1, <1>2, <1>5, <3>5, <3>8, <3>9, Zenon DEF ScriptInv
  <2>3. CASE ~Accepts(d)
    <3>1. is_full /\ motion_index = {}
      BY <1>7, <2>3 DEF Accepts
    <3>2. accepted' = accepted
      BY <1>7, <3>1 DEF push_discrete
    <3>3. accepted' \subseteq 1 .. pushes'
      BY <1>2, <2>1, <3>2
    <3> QED
      BY <1>1, <1>2, <1>5, <2>1, <2>3, <3>2, <3>3 DEF ScriptInv
  <2> QED
    BY <2>2, <2>3
<1>8. CASE d.op # "Key" /\ (push_pointer_motion \/ UNCHANGED inputVars)
  <2>1. accepted' = accepted /\ pushes' \in {pushes, pushes + 1}
    BY <1>8 DEF push_pointer_motion, inputVars, history
  <2>2. accepted' \subseteq 1 .. pushes' /\ pushes' \in Nat
    BY <1>2, <2>1
  <2>3. Keys(iscript'.remaining) = Keys(R)
    BY <1>4, <1>5, <1>8, Zenon
  <2>4. Cardinality(accepted') + Keys(iscript'.remaining) = Keys(rig.iscript)
    BY <1>2, <2>1, <2>3
  <2> QED
    BY <1>1, <1>2, <1>5, <2>2, <2>4 DEF ScriptInv
<1> QED
  BY <1>1, <1>7, <1>8

LEMMA ScriptQuietly ==
    ASSUME ScriptInv, rig' = rig, iscript'.remaining = iscript.remaining, DOMAIN iscript' = DOMAIN iscript,
           UNCHANGED <<pushes, accepted>>
    PROVE  ScriptInv'
  BY DEF ScriptInv

(* The guest's accesses offer the card nothing. *)
LEMMA GuestPushesNothing ==
    SerialAccess \/ CardAccess \/ NoAccess => UNCHANGED <<pushes, accepted>>
  BY DEF SerialAccess, CardAccess, NoAccess, Advance, Ack, ClearPorts, SetIntEnable, inputVars, history

LEMMA ScriptInvNext == ScriptInv /\ [HostNext]_hostVars => ScriptInv'
<1> SUFFICES ASSUME ScriptInv, [HostNext]_hostVars PROVE ScriptInv'
  OBVIOUS
<1> USE DEF inputVars, history
<1>1. CASE UNCHANGED hostVars
  BY <1>1, ScriptQuietly DEF hostVars, loopVars
<1>2. CASE BootEnds \/ BridgeThread
  BY <1>2, ScriptQuietly DEF BootEnds, BridgeThread, loopVars
<1>3. CASE BootLoop
  <2>1. CASE BootInstruction
    BY <2>1, ScriptQuietly, GuestPushesNothing DEF BootInstruction, Retires
  <2>2. CASE BootDrain
    BY <2>2, ScriptQuietly DEF BootDrain, loopVars
  <2>3. CASE BootCheck \/ BootTrap \/ BootStopped
    BY <2>3, ScriptQuietly DEF BootCheck, BootTrap, BootStopped, RetiredCheck, Trapped, Parked, NoAccess
  <2> QED
    BY <1>3, <2>1, <2>2, <2>3 DEF BootLoop
<1>4. CASE MainLoop
  <2>1. CASE HookInstruction \/ ChunkGoesOn
    BY <2>1, ScriptQuietly, GuestPushesNothing DEF HookInstruction, Retires, ChunkGoesOn
  <2>2. CASE HookTrap \/ HookStopped \/ HookCheck
    BY <2>2, ScriptQuietly DEF HookTrap, HookStopped, HookCheck, Trapped, Parked, RetiredCheck, NoAccess
  <2>3. CASE ChunkEnds \/ ChunkStopped \/ ChunkCheck \/ ChunkTick \/ Sleep \/ CatchUp
    BY <2>3, ScriptQuietly DEF ChunkEnds, ChunkStopped, ChunkCheck, ChunkTick, Sleep, CatchUp, NoAccess
  <2>4. CASE Drain
    BY <2>4, ScriptQuietly DEF Drain, loopVars
  <2>5. CASE Drained \/ Service \/ ServiceSerialScript \/ ServiceTcp
    BY <2>5, ScriptQuietly DEF Drained, Service, ServiceSerialScript, ServiceTcp, NoAccess, StayLoop
  <2>6. CASE InputScriptWaits
    <3>1. rig' = rig /\ UNCHANGED <<pushes, accepted>>
      BY <2>6 DEF InputScriptWaits, NoAccess
    <3>2. iscript' = [iscript EXCEPT !.sleep = IF AsleepUntil(@) THEN @ ELSE -1]
      BY <2>6 DEF InputScriptWaits
    <3>3. iscript'.remaining = iscript.remaining /\ DOMAIN iscript' = DOMAIN iscript
      BY <3>2 DEF ScriptInv
    <3> QED
      BY <3>1, <3>3, ScriptQuietly
  <2>7. CASE InputDirective
    BY <2>7, ScriptDirective
  <2> QED
    BY <1>4, <2>1, <2>2, <2>3, <2>4, <2>5, <2>6, <2>7 DEF MainLoop
<1> QED
  BY <1>1, <1>2, <1>3, <1>4 DEF HostNext

(***************************************************************************)
(* InputScript::tick goes past a key directive only when the card took it: *)
(* for every script, queue depth and guest, as many keys were taken as the *)
(* script has left behind, a refused one being retried in the next frame.  *)
(***************************************************************************)
THEOREM ScriptSkipsNoKey == HostSpec => []ScriptDirectivesAllAccepted
<1>1. HostInit => ScriptInv
  BY ScriptInvHolds
<1>2. ScriptInv /\ [HostNext]_hostVars => ScriptInv'
  BY ScriptInvNext
<1>3. ScriptInv => ScriptDirectivesAllAccepted
  <2> SUFFICES ASSUME ScriptInv PROVE ScriptDirectivesAllAccepted
    OBVIOUS
  <2>1. Cardinality(accepted) \in Nat
    BY AcceptedFinite
  <2>2. rig.iscript \in Seq(Range(rig.iscript)) /\ iscript.remaining \in Seq(Range(rig.iscript))
    BY RigAssumption DEF ScriptInv
  <2>3. Keys(rig.iscript) \in Nat /\ Keys(iscript.remaining) \in Nat
    BY <2>2, KeysFinite
  <2>4. Cardinality(accepted) = Keys(rig.iscript) - Keys(iscript.remaining)
    BY <2>1, <2>3 DEF ScriptInv
  <2> QED
    BY <2>4, Zenon DEF ScriptDirectivesAllAccepted, Keys, KeysAt
<1> QED
  BY <1>1, <1>2, <1>3, PTL DEF HostSpec
===============================================================================
