------------------------- MODULE OutputChannelProofs -------------------------
(***************************************************************************)
(* The output channel, for every number of writers, every text and every   *)
(* size of the chunks and the buffer.                                      *)
(*                                                                         *)
(* That the channel implements the ordered stream rests on one invariant:  *)
(* while the output is to be read, what was accepted is what was delivered *)
(* followed by what the ready chunks and the pending fragment hold, and    *)
(* queued_bytes is the length of the latter.  The bytes matter: were a     *)
(* chunk larger than the limit, the room that publish_pending computes     *)
(* would be negative, and the prefix that fits would not exist.            *)
(***************************************************************************)
EXTENDS OutputChannel, SequenceTheorems, WellFoundedInduction, NaturalsInduction, TLAPS

-----------------------------------------------------------------------------
(***************************************************************************)
(* The reader's notifications.                                             *)
(***************************************************************************)

\* What is published of an empty fragment into an empty queue.
LEMMA NothingIsPublished == Published(<<>>, <<>>) = <<>>
  BY DEF Published

LEMMA WriterKeepsNotified ==
  ASSUME SleepingReaderIsNotified, NEW w \in Writers, WriterStep(w)
  PROVE  SleepingReaderIsNotified'
<1>1. CASE \E n \in Characters : Emit(w, n)
  BY <1>1 DEF Emit, stateVars, SleepingReaderIsNotified
<1>2. CASE EmitEnds(w)
  BY <1>2 DEF EmitEnds, stateVars, SleepingReaderIsNotified
<1>3. CASE EmitFragment(w)
  BY <1>3 DEF EmitFragment, TakeFragment, SleepingReaderIsNotified
<1>4. CASE EmitAfterPublishing(w)
  BY <1>4 DEF EmitAfterPublishing, TakeFragment, SleepingReaderIsNotified
<1>5. CASE EmitWaits(w)
  BY <1>5, NothingIsPublished DEF EmitWaits, PublishPending, SleepingReaderIsNotified
<1>6. CASE Flush(w)
  BY <1>6 DEF Flush, SleepingReaderIsNotified
<1>7. CASE RequestCancel(w) \/ Finish(w) \/ Stop(w)
  BY <1>7 DEF RequestCancel, Finish, Stop, WakeAll, SleepingReaderIsNotified
<1>8. CASE \E copy \in Writers : Clone(w, copy)
  BY <1>8 DEF Clone, stateVars, SleepingReaderIsNotified
<1>9. CASE Drop(w)
  BY <1>9 DEF Drop, SleepingReaderIsNotified
<1> QED
  BY <1>1, <1>2, <1>3, <1>4, <1>5, <1>6, <1>7, <1>8, <1>9 DEF WriterStep, EmitStep

LEMMA StepKeepsNotified ==
  SleepingReaderIsNotified /\ [Next]_vars => SleepingReaderIsNotified'
<1> SUFFICES ASSUME SleepingReaderIsNotified, [Next]_vars
             PROVE  SleepingReaderIsNotified'
  OBVIOUS
<1>1. CASE \E w \in Writers : WriterStep(w)
  BY <1>1, WriterKeepsNotified
<1>2. CASE ReaderStep
  BY <1>2 DEF ReaderStep, NextChunk, NextIsNone, ReaderWaits, ReaderWakes, stateVars,
    SleepingReaderIsNotified
<1>3. CASE DropRead
  BY <1>3 DEF DropRead, SleepingReaderIsNotified
<1>4. CASE Disconnect
  BY <1>4 DEF Disconnect, WakeAll, SleepingReaderIsNotified
<1>5. CASE UNCHANGED vars
  BY <1>5 DEF vars, stateVars, SleepingReaderIsNotified
<1> QED BY <1>1, <1>2, <1>3, <1>4, <1>5 DEF Next

\* A reader that sleeps over a chunk or over the end of the stream has a
\* notification coming: no interleaving of the writers' publishing, the
\* reader's dropped reads and the end loses the last notification.
THEOREM ReaderIsNotified == Spec => []SleepingReaderIsNotified
<1>1. Init => SleepingReaderIsNotified
  BY DEF Init, SleepingReaderIsNotified
<1> QED BY <1>1, StepKeepsNotified, PTL DEF Spec

-----------------------------------------------------------------------------
(***************************************************************************)
(* Induction on the natural numbers, for the members of a set.             *)
(***************************************************************************)
Less == {ss \in Nat \X Nat : ss[1] < ss[2]}

LEMMA Least ==
  ASSUME NEW T, T \subseteq Nat, T # {}
  PROVE  \E n \in T : \A m \in T : n <= m
<1>1. IsWellFoundedOn(Less, Nat)
  BY NatLessThanWellFounded DEF OpToRel, Less
<1>2. PICK n \in T : \A m \in T : <<m, n>> \notin Less
  BY <1>1, WFMin
<1>3. ASSUME NEW m \in T PROVE n <= m
  <2>1. <<m, n>> \in Nat \X Nat /\ <<m, n>> \notin Less
    BY <1>2, <1>3
  <2> QED BY <2>1 DEF Less
<1> QED BY <1>3

LEMMA Induction ==
  ASSUME NEW T, 0 \in T, \A n \in Nat : n \in T => n + 1 \in T
  PROVE  Nat \subseteq T
<1> SUFFICES ASSUME ~(Nat \subseteq T) PROVE FALSE
  OBVIOUS
<1>1. PICK n \in Nat \ T : \A m \in Nat \ T : n <= m
  BY Least
<1>2. n - 1 \in Nat
  BY <1>1
<1> QED BY <1>1, <1>2

LEMMA Greatest ==
  ASSUME NEW k \in Nat, NEW T \in SUBSET (0..k), T # {}
  PROVE  /\ Max(T) \in T
         /\ \A n \in T : n <= Max(T)
<1> DEFINE D == {k - n : n \in T}
<1>1. PICK d \in D : \A e \in D : d <= e
  <2>1. D \subseteq Nat
    OBVIOUS
  <2>2. PICK n \in T : TRUE
    OBVIOUS
  <2>3. k - n \in D
    OBVIOUS
  <2>4. D # {}
    BY <2>3
  <2> HIDE DEF D
  <2> QED BY <2>1, <2>4, Least
<1>2. PICK n \in T : d = k - n
  BY <1>1
<1>3. \A m \in T : n >= m
  BY <1>1, <1>2
<1> QED BY <1>2, <1>3 DEF Max

-----------------------------------------------------------------------------
(***************************************************************************)
(* The length of a text in bytes.  Bytes folds over the positions of the   *)
(* text; its value is the last of the running totals.                      *)
(***************************************************************************)
\* The recursive function that Bytes(t) folds with, on the first n characters.
IsFold(t, n, g) ==
  g = [s \in SUBSET (1..n) |->
        IF s = {} THEN 0 ELSE g[s \ {Max(s)}] + Width[t[Max(s)]]]

LEMMA GreatestOf ==
  ASSUME NEW n \in Nat, NEW s \in SUBSET (1..n), s # {}
  PROVE  /\ Max(s) \in s
         /\ \A k \in s : k <= Max(s)
<1>1. s \in SUBSET (0..n)
  OBVIOUS
<1> QED BY <1>1, Greatest

LEMMA FoldOfMore ==
  ASSUME NEW t, NEW n \in Nat, NEW g, IsFold(t, n, g)
  PROVE  \E h : IsFold(t, n + 1, h)
<1> DEFINE S == SUBSET (1..n)
           T == SUBSET (1..(n + 1))
           h == [s \in T |-> IF n + 1 \in s THEN g[s \ {n + 1}] + Width[t[n + 1]] ELSE g[s]]
           F(s) == IF s = {} THEN 0 ELSE h[s \ {Max(s)}] + Width[t[Max(s)]]
<1>1. \A s \in S : g[s] = IF s = {} THEN 0 ELSE g[s \ {Max(s)}] + Width[t[Max(s)]]
  BY DEF IsFold
<1>2. ASSUME NEW s \in T PROVE h[s] = F(s)
  <2>1. CASE n + 1 \in s
    <3>1. Max(s) = n + 1
      <4>1. n + 1 \in Nat /\ s \in SUBSET (1..(n + 1)) /\ s # {}
        BY <2>1
      <4> HIDE DEF T
      <4>2. Max(s) \in s /\ n + 1 <= Max(s)
        BY <2>1, <4>1, GreatestOf
      <4>3. Max(s) \in 1..(n + 1)
        BY <4>1, <4>2
      <4> QED BY <4>2, <4>3
    <3>2. s \ {n + 1} \in S /\ s \ {n + 1} \in T /\ n + 1 \notin s \ {n + 1}
      OBVIOUS
    <3>3. h[s \ {n + 1}] = g[s \ {n + 1}]
      BY <3>2
    <3> QED BY <2>1, <3>1, <3>3
  <2>2. CASE n + 1 \notin s
    <3>1. s \in S /\ h[s] = g[s]
      BY <2>2
    <3>2. CASE s = {}
      BY <1>1, <3>1, <3>2
    <3>3. CASE s # {}
      <4>1. s \ {Max(s)} \in T /\ n + 1 \notin s \ {Max(s)}
        BY <2>2
      <4>2. h[s \ {Max(s)}] = g[s \ {Max(s)}]
        BY <4>1
      <4> QED BY <1>1, <3>1, <3>3, <4>2
    <3> QED BY <3>2, <3>3
  <2> QED BY <2>1, <2>2
<1>3. h = [s \in T |-> F(s)]
  BY <1>2
<1> QED BY <1>3 DEF IsFold

LEMMA FoldExists ==
  ASSUME NEW t
  PROVE  \A n \in Nat : \E g : IsFold(t, n, g)
<1> DEFINE T == {n \in Nat : \E g : IsFold(t, n, g)}
<1>1. 0 \in T
  <2> DEFINE g == [s \in SUBSET (1..0) |-> 0]
  <2>1. \A s \in SUBSET (1..0) : s = {}
    OBVIOUS
  <2>2. IsFold(t, 0, g)
    BY <2>1 DEF IsFold
  <2> QED BY <2>2
<1>2. \A n \in Nat : n \in T => n + 1 \in T
  BY FoldOfMore
<1> HIDE DEF T
<1>3. Nat \subseteq T
  BY <1>1, <1>2, Induction
<1> QED BY <1>3 DEF T

\* The running totals of a text.
Totals(t, f) ==
  /\ f \in [0..Len(t) -> Nat]
  /\ f[0] = 0
  /\ \A k \in 1..Len(t) : f[k] = f[k - 1] + Width[t[k]]

LEMMA BytesAreATotal ==
  ASSUME NEW t \in Seq(Characters)
  PROVE  \E f : Totals(t, f) /\ Bytes(t) = f[Len(t)]
<1> DEFINE g == CHOOSE g : IsFold(t, Len(t), g)
           f == [k \in 0..Len(t) |-> g[1..k]]
<1>1. Len(t) \in Nat /\ DOMAIN t = 1..Len(t)
  BY LenProperties
<1>2. IsFold(t, Len(t), g)
  BY <1>1, FoldExists
<1>3. Bytes(t) = g[1..Len(t)]
  BY <1>1 DEF Bytes, FoldLeft, MapThenFoldSet, IsFold
<1> HIDE DEF g
<1>4. f[0] = 0
  <2>1. 1..0 = {} /\ {} \in SUBSET (1..Len(t))
    OBVIOUS
  <2> QED BY <1>1, <1>2, <2>1 DEF IsFold
<1>5. ASSUME NEW k \in 1..Len(t) PROVE f[k] = f[k - 1] + Width[t[k]]
  <2>1. 1..k \in SUBSET (1..Len(t)) /\ 1..k # {}
    BY <1>1
  <2>2. Max(1..k) = k
    <3>1. k \in Nat /\ k \in 1..k /\ 1..k \in SUBSET (1..k)
      BY <1>1
    <3>2. Max(1..k) \in 1..k /\ \A i \in 1..k : i <= Max(1..k)
      BY <2>1, <3>1, GreatestOf
    <3> QED BY <3>1, <3>2
  <2>3. (1..k) \ {k} = 1..(k - 1)
    BY <1>1
  <2>4. g[1..k] = g[1..(k - 1)] + Width[t[k]]
    BY <1>2, <2>1, <2>2, <2>3 DEF IsFold
  <2> QED BY <1>1, <2>4
<1>6. f \in [0..Len(t) -> Nat]
  <2> DEFINE T == {k \in Nat : k <= Len(t) => f[k] \in Nat}
  <2>1. 0 \in T
    BY <1>4
  <2>2. ASSUME NEW k \in Nat, k \in T PROVE k + 1 \in T
    <3>1. CASE k + 1 <= Len(t)
      <4>1. k + 1 \in 1..Len(t) /\ (k + 1) - 1 = k /\ f[k] \in Nat
        BY <1>1, <2>2, <3>1
      <4>2. t[k + 1] \in Characters
        BY <4>1, ElementOfSeq
      <4>3. Width[t[k + 1]] \in Nat
        BY <4>2, ChannelAssumption
      <4>4. f[k + 1] = f[k] + Width[t[k + 1]]
        BY <1>5, <4>1
      <4> QED BY <4>1, <4>3, <4>4
    <3> QED BY <1>1, <3>1
  <2> HIDE DEF T
  <2>3. Nat \subseteq T
    BY <2>1, <2>2, Induction
  <2>4. ASSUME NEW k \in 0..Len(t) PROVE f[k] \in Nat
    <3>1. k \in T
      BY <1>1, <2>3
    <3> HIDE DEF f
    <3> QED BY <1>1, <3>1 DEF T
  <2> QED BY <2>4
<1>7. Bytes(t) = f[Len(t)]
  BY <1>1, <1>3
<1> QED BY <1>4, <1>5, <1>6, <1>7 DEF Totals

LEMMA TotalsAreUnique ==
  ASSUME NEW t \in Seq(Characters), NEW f, NEW h, Totals(t, f), Totals(t, h)
  PROVE  f[Len(t)] = h[Len(t)]
<1>1. Len(t) \in Nat
  BY LenProperties
<1> DEFINE T == {k \in Nat : k <= Len(t) => f[k] = h[k]}
<1>2. 0 \in T
  BY DEF Totals
<1>3. ASSUME NEW k \in Nat, k \in T PROVE k + 1 \in T
  <2>1. CASE k + 1 <= Len(t)
    <3>1. k + 1 \in 1..Len(t) /\ (k + 1) - 1 = k /\ f[k] = h[k]
      BY <1>1, <1>3, <2>1
    <3> QED BY <3>1 DEF Totals
  <2> QED BY <1>1, <2>1
<1> HIDE DEF T
<1>4. Nat \subseteq T
  BY <1>2, <1>3, Induction
<1> QED BY <1>1, <1>4 DEF T

LEMMA BytesOfEmpty == Bytes(<<>>) = 0
<1>1. <<>> \in Seq(Characters) /\ Len(<<>>) = 0
  OBVIOUS
<1> QED BY <1>1, BytesAreATotal DEF Totals

LEMMA BytesType == ASSUME NEW t \in Seq(Characters) PROVE Bytes(t) \in Nat
<1>1. Len(t) \in 0..Len(t)
  BY LenProperties
<1> QED BY <1>1, BytesAreATotal DEF Totals

LEMMA BytesOfConcat ==
  ASSUME NEW s \in Seq(Characters), NEW t \in Seq(Characters)
  PROVE  Bytes(s \o t) = Bytes(s) + Bytes(t)
<1> DEFINE u == s \o t
<1>1. PICK f : Totals(s, f) /\ Bytes(s) = f[Len(s)]
  BY BytesAreATotal
<1>2. PICK g : Totals(t, g) /\ Bytes(t) = g[Len(t)]
  BY BytesAreATotal
<1>0. Len(s) \in Nat /\ Len(t) \in Nat
  BY LenProperties
<1>3. /\ u \in Seq(Characters)
      /\ Len(s) \in Nat /\ Len(t) \in Nat
      /\ Len(u) = Len(s) + Len(t)
      /\ \A i \in 1..(Len(s) + Len(t)) :
           u[i] = IF i <= Len(s) THEN s[i] ELSE t[i - Len(s)]
  BY ConcatProperties, LenProperties
<1>4. PICK h : Totals(u, h) /\ Bytes(u) = h[Len(u)]
  BY <1>3, BytesAreATotal
<1> HIDE DEF u
<1> DEFINE w == [k \in 0..Len(u) |-> IF k <= Len(s) THEN f[k] ELSE f[Len(s)] + g[k - Len(s)]]
<1>5. Totals(u, w)
  <2>1. w \in [0..Len(u) -> Nat]
    <3>1. ASSUME NEW k \in 0..Len(u) PROVE w[k] \in Nat
      <4>1. CASE k <= Len(s)
        BY <1>1, <1>3, <4>1 DEF Totals
      <4>2. CASE ~(k <= Len(s))
        <5>1. k - Len(s) \in 0..Len(t) /\ Len(s) \in 0..Len(s)
          BY <1>0, <1>3, <4>2
        <5>2. f[Len(s)] \in Nat /\ g[k - Len(s)] \in Nat
          BY <1>1, <1>2, <5>1 DEF Totals
        <5>3. w[k] = f[Len(s)] + g[k - Len(s)]
          BY <4>2
        <5> QED BY <5>2, <5>3
      <4> QED BY <4>1, <4>2
    <3> QED BY <3>1
  <2>2. w[0] = 0
    BY <1>1, <1>3 DEF Totals
  <2>3. ASSUME NEW k \in 1..Len(u) PROVE w[k] = w[k - 1] + Width[u[k]]
    <3>0. k \in Nat /\ k - 1 \in 0..Len(u) /\ k \in 0..Len(u)
      BY <1>3
    <3>1. CASE k <= Len(s)
      <4>1. k \in 1..Len(s) /\ u[k] = s[k] /\ w[k] = f[k] /\ w[k - 1] = f[k - 1]
        BY <1>3, <3>0, <3>1
      <4> QED BY <1>1, <4>1 DEF Totals
    <3>2. CASE ~(k <= Len(s))
      <4>1. /\ k - Len(s) \in 1..Len(t) /\ u[k] = t[k - Len(s)]
            /\ w[k] = f[Len(s)] + g[k - Len(s)]
            /\ (k - Len(s)) - 1 = (k - 1) - Len(s)
        BY <1>3, <3>0, <3>2
      <4>2. w[k - 1] = f[Len(s)] + g[(k - Len(s)) - 1]
        <5>1. CASE k - 1 <= Len(s)
          <6>1. k - 1 = Len(s)
            BY <1>0, <3>0, <3>2, <5>1
          <6>2. g[(k - Len(s)) - 1] = 0 /\ f[Len(s)] \in Nat
            BY <1>1, <1>2, <1>3, <4>1, <6>1 DEF Totals
          <6>3. w[k - 1] = f[Len(s)]
            BY <1>3, <3>0, <6>1
          <6> QED BY <6>2, <6>3
        <5>2. CASE ~(k - 1 <= Len(s))
          BY <1>3, <3>0, <4>1, <5>2
        <5> QED BY <5>1, <5>2
      <4>3. g[k - Len(s)] = g[(k - Len(s)) - 1] + Width[u[k]]
        BY <1>2, <4>1 DEF Totals
      <4>4. u[k] \in Characters
        BY <1>3, ElementOfSeq
      <4>5. /\ f[Len(s)] \in Nat /\ Width[u[k]] \in Nat
            /\ g[(k - Len(s)) - 1] \in Nat
        <5>1. Len(s) \in 0..Len(s) /\ (k - Len(s)) - 1 \in 0..Len(t)
          BY <1>0, <4>1
        <5>2. f[Len(s)] \in Nat /\ g[(k - Len(s)) - 1] \in Nat
          BY <1>1, <1>2, <5>1 DEF Totals
        <5> QED BY <4>4, <5>2, ChannelAssumption
      <4> QED BY <4>1, <4>2, <4>3, <4>5
    <3> QED BY <3>1, <3>2
  <2> QED BY <2>1, <2>2, <2>3 DEF Totals
<1>6. h[Len(u)] = w[Len(u)]
  BY <1>3, <1>4, <1>5, TotalsAreUnique
<1>7. w[Len(u)] = f[Len(s)] + g[Len(t)]
  <2>1. Len(u) \in 0..Len(u) /\ (Len(s) + Len(t)) - Len(s) = Len(t)
    BY <1>3
  <2>2. CASE Len(t) = 0
    <3>1. g[Len(t)] = 0 /\ f[Len(s)] \in Nat /\ Len(u) = Len(s)
      BY <1>1, <1>2, <1>3, <2>2 DEF Totals
    <3> QED BY <2>1, <3>1
  <2>3. CASE Len(t) # 0
    <3>1. ~(Len(u) <= Len(s))
      BY <1>3, <2>3
    <3> QED BY <1>3, <2>1, <3>1
  <2> QED BY <2>2, <2>3
<1> QED BY <1>1, <1>2, <1>4, <1>6, <1>7 DEF u

-----------------------------------------------------------------------------
(***************************************************************************)
(* What fits: the prefix of a text, and what is left of it.                *)
(***************************************************************************)
LEMMA Split ==
  ASSUME NEW t \in Seq(Characters), NEW n \in 0..Len(t)
  PROVE  /\ Prefix(t, n) \in Seq(Characters) /\ Rest(t, n) \in Seq(Characters)
         /\ Prefix(t, n) \o Rest(t, n) = t
         /\ Len(Prefix(t, n)) = n /\ Len(Rest(t, n)) = Len(t) - n
         /\ Prefix(t, n) = <<>> <=> n = 0
         /\ Rest(t, n) = <<>> <=> n = Len(t)
<1>1. Len(t) \in Nat /\ \A i \in 1..Len(t) : t[i] \in Characters
  BY LenProperties, ElementOfSeq
<1>2. Prefix(t, n) \in Seq(Characters) /\ Len(Prefix(t, n)) = n
  <2>1. \A i \in 1..n : t[i] \in Characters
    BY <1>1
  <2> QED BY <1>1, <2>1, SubSeqProperties DEF Prefix
<1>3. Rest(t, n) \in Seq(Characters) /\ Len(Rest(t, n)) = Len(t) - n
  <2>1. \A i \in (n + 1)..Len(t) : t[i] \in Characters
    BY <1>1
  <2> QED BY <1>1, <2>1, SubSeqProperties DEF Rest
<1>4. Prefix(t, n) \o Rest(t, n) = t
  <2>1. 1 \in 1..(Len(t) + 1) /\ n \in (1 - 1)..Len(t) /\ Len(t) \in n..Len(t)
    BY <1>1
  <2>2. SubSeq(t, 1, n) \o SubSeq(t, n + 1, Len(t)) = SubSeq(t, 1, Len(t))
    BY <2>1, ConcatAdjacentSubSeq
  <2> QED BY <2>2, SubSeqFull DEF Prefix, Rest
<1>5. ASSUME NEW s \in Seq(Characters) PROVE s = <<>> <=> Len(s) = 0
  BY EmptySeq
<1> QED BY <1>1, <1>2, <1>3, <1>4, <1>5

LEMMA PrefixFits ==
  ASSUME NEW t \in Seq(Characters), NEW limit \in Nat
  PROVE  /\ PrefixLength(t, limit) \in 0..Len(t)
         /\ Bytes(Prefix(t, PrefixLength(t, limit))) <= limit
<1> DEFINE T == {n \in 0..Len(t) : Bytes(Prefix(t, n)) <= limit}
<1>1. Len(t) \in Nat
  BY LenProperties
<1>2. 0 \in T
  <2>1. 0 \in 0..Len(t)
    BY <1>1
  <2>2. Prefix(t, 0) = <<>>
    BY <2>1, Split
  <2> QED BY <2>1, <2>2, BytesOfEmpty
<1>3. T \in SUBSET (0..Len(t))
  OBVIOUS
<1>4. Max(T) \in T
  <2> HIDE DEF T
  <2> QED BY <1>1, <1>2, <1>3, Greatest
<1> QED BY <1>4 DEF PrefixLength

Texts == Seq(Characters)

-----------------------------------------------------------------------------
(***************************************************************************)
(* The unread text.  It is held in the chunks and the pending fragment     *)
(* when there is a function that gives the text from each chunk on: a      *)
(* relation without recursion, that a step on either end preserves.        *)
(***************************************************************************)
Holds(chunks, t, unread) ==
  \E from \in [1..(Len(chunks) + 1) -> Seq(Characters)] :
    /\ from[1] = unread
    /\ from[Len(chunks) + 1] = t
    /\ \A i \in 1..Len(chunks) : from[i] = chunks[i] \o from[i + 1]

\* No chunk is empty, and none is larger than the limit.
Fit(chunks) ==
  \A i \in 1..Len(chunks) : chunks[i] # <<>> /\ Bytes(chunks[i]) <= ChunkBytes

LEMMA TextsAssociate ==
  \A s, t, u \in Seq(Characters) : (s \o t) \o u = s \o (t \o u)
  BY ConcatAssociative

LEMMA HoldsOnlyPending ==
  ASSUME NEW t \in Texts
  PROVE  Holds(<<>>, t, t)
<1> DEFINE from == [i \in 1..(Len(<<>>) + 1) |-> t]
<1>1. Len(<<>>) = 0
  OBVIOUS
<1>2. from \in [1..(Len(<<>>) + 1) -> Texts] /\ from[1] = t /\ from[Len(<<>>) + 1] = t
  BY <1>1 DEF Texts
<1> HIDE DEF from
<1> QED BY <1>1, <1>2 DEF Holds, Texts

LEMMA NothingHeld ==
  ASSUME NEW u, Holds(<<>>, <<>>, u)
  PROVE  u = <<>>
  BY DEF Holds

LEMMA HoldsMore ==
  ASSUME NEW chunks \in Seq(Texts), NEW t \in Texts, NEW u \in Texts,
         NEW p \in Texts, Holds(chunks, t, u)
  PROVE  Holds(chunks, t \o p, u \o p)
<1>1. PICK from \in [1..(Len(chunks) + 1) -> Texts] :
        /\ from[1] = u /\ from[Len(chunks) + 1] = t
        /\ \A i \in 1..Len(chunks) : from[i] = chunks[i] \o from[i + 1]
  BY DEF Holds, Texts
<1> DEFINE more == [i \in 1..(Len(chunks) + 1) |-> from[i] \o p]
<1>2. Len(chunks) \in Nat
  BY LenProperties
<1>3. more \in [1..(Len(chunks) + 1) -> Texts]
  <2>1. ASSUME NEW i \in 1..(Len(chunks) + 1) PROVE from[i] \o p \in Texts
    BY ConcatProperties DEF Texts
  <2> QED BY <2>1
<1>4. more[1] = u \o p /\ more[Len(chunks) + 1] = t \o p
  <2>1. 1 \in 1..(Len(chunks) + 1) /\ Len(chunks) + 1 \in 1..(Len(chunks) + 1)
    BY <1>2
  <2> QED BY <1>1, <2>1
<1>5. ASSUME NEW i \in 1..Len(chunks) PROVE more[i] = chunks[i] \o more[i + 1]
  <2>1. i \in 1..(Len(chunks) + 1) /\ i + 1 \in 1..(Len(chunks) + 1)
    BY <1>2
  <2>2. /\ chunks[i] \in Seq(Characters) /\ from[i + 1] \in Seq(Characters)
        /\ p \in Seq(Characters)
    BY <2>1, ElementOfSeq DEF Texts
  <2>3. (chunks[i] \o from[i + 1]) \o p = chunks[i] \o (from[i + 1] \o p)
    BY <2>2, TextsAssociate
  <2> QED BY <1>1, <2>1, <2>3
<1> HIDE DEF more
<1> QED BY <1>3, <1>4, <1>5 DEF Holds, Texts

LEMMA HoldsWithoutHead ==
  ASSUME NEW chunks \in Seq(Texts), chunks # <<>>, NEW t \in Texts, NEW u \in Texts,
         Holds(chunks, t, u)
  PROVE  \E v \in Texts : u = Head(chunks) \o v /\ Holds(Tail(chunks), t, v)
<1>1. PICK from \in [1..(Len(chunks) + 1) -> Texts] :
        /\ from[1] = u /\ from[Len(chunks) + 1] = t
        /\ \A i \in 1..Len(chunks) : from[i] = chunks[i] \o from[i + 1]
  BY DEF Holds, Texts
<1>2. /\ Len(chunks) \in Nat \ {0}
      /\ Len(Tail(chunks)) = Len(chunks) - 1
      /\ \A i \in 1..Len(Tail(chunks)) : Tail(chunks)[i] = chunks[i + 1]
  BY EmptySeq, HeadTailProperties
<1>3. Head(chunks) = chunks[1]
  BY <1>2
<1> DEFINE later == [i \in 1..Len(chunks) |-> from[i + 1]]
<1>4. later \in [1..(Len(Tail(chunks)) + 1) -> Texts]
  <2>1. ASSUME NEW i \in 1..Len(chunks) PROVE from[i + 1] \in Texts
    BY <1>2
  <2> QED BY <1>2, <2>1
<1>5. later[1] = from[2] /\ later[Len(Tail(chunks)) + 1] = t
  BY <1>1, <1>2
<1>6. ASSUME NEW i \in 1..Len(Tail(chunks))
      PROVE  later[i] = Tail(chunks)[i] \o later[i + 1]
  <2>1. i \in 1..Len(chunks) /\ i + 1 \in 1..Len(chunks)
    BY <1>2
  <2> QED BY <1>1, <1>2, <2>1
<1>7. u = chunks[1] \o from[2] /\ from[2] \in Texts
  <2>1. 1 \in 1..Len(chunks) /\ 1 + 1 = 2 /\ 2 \in 1..(Len(chunks) + 1)
    BY <1>2
  <2> QED BY <1>1, <2>1
<1> HIDE DEF later
<1>8. Holds(Tail(chunks), t, from[2])
  BY <1>4, <1>5, <1>6 DEF Holds, Texts
<1> QED BY <1>3, <1>7, <1>8

LEMMA HoldsAppended ==
  ASSUME NEW chunks \in Seq(Texts), NEW t \in Texts, NEW u \in Texts,
         Holds(chunks, t, u)
  PROVE  Holds(Append(chunks, t), <<>>, u)
<1>1. PICK from \in [1..(Len(chunks) + 1) -> Texts] :
        /\ from[1] = u /\ from[Len(chunks) + 1] = t
        /\ \A i \in 1..Len(chunks) : from[i] = chunks[i] \o from[i + 1]
  BY DEF Holds, Texts
<1> DEFINE longer == [i \in 1..(Len(chunks) + 2) |->
                       IF i <= Len(chunks) + 1 THEN from[i] ELSE <<>>]
<1>2. Len(chunks) \in Nat
  BY LenProperties
<1>3. /\ Len(Append(chunks, t)) = Len(chunks) + 1
      /\ \A i \in 1..Len(chunks) : Append(chunks, t)[i] = chunks[i]
      /\ Append(chunks, t)[Len(chunks) + 1] = t
  BY AppendProperties
<1>4. longer \in [1..((Len(chunks) + 1) + 1) -> Texts]
  <2>1. <<>> \in Texts /\ (Len(chunks) + 1) + 1 = Len(chunks) + 2
    BY <1>2 DEF Texts
  <2>2. ASSUME NEW i \in 1..(Len(chunks) + 2), i <= Len(chunks) + 1 PROVE from[i] \in Texts
    BY <1>2, <2>2
  <2> QED BY <2>1, <2>2
<1>5. longer[1] = u /\ longer[(Len(chunks) + 1) + 1] = <<>>
  BY <1>1, <1>2
<1>6. ASSUME NEW i \in 1..(Len(chunks) + 1)
      PROVE  longer[i] = Append(chunks, t)[i] \o longer[i + 1]
  <2>1. CASE i \in 1..Len(chunks)
    <3>1. longer[i] = from[i] /\ longer[i + 1] = from[i + 1]
      BY <1>2, <2>1
    <3> QED BY <1>1, <1>3, <2>1, <3>1
  <2>2. CASE i = Len(chunks) + 1
    <3>1. longer[i] = t /\ longer[i + 1] = <<>>
      BY <1>1, <1>2, <2>2
    <3>2. t \o <<>> = t
      BY ConcatEmptySeq DEF Texts
    <3> QED BY <1>3, <2>2, <3>1, <3>2
  <2>3. i \in 1..Len(chunks) \/ i = Len(chunks) + 1
    BY <1>2
  <2> QED BY <2>1, <2>2, <2>3
<1> HIDE DEF longer
<1> QED BY <1>3, <1>4, <1>5, <1>6 DEF Holds, Texts

\* One application of publish_pending to the chunks and the fragment.
LEMMA HoldsPublished ==
  ASSUME NEW chunks \in Seq(Texts), Fit(chunks),
         NEW t \in Texts, Bytes(t) <= ChunkBytes,
         NEW u \in Texts, Holds(chunks, t, u)
  PROVE  /\ Published(chunks, t) \in Seq(Texts)
         /\ Fit(Published(chunks, t))
         /\ Holds(Published(chunks, t), <<>>, u)
<1> DEFINE last   == Last(chunks)
           room   == ChunkBytes - Bytes(last)
           n      == IF chunks = <<>> THEN 0 ELSE PrefixLength(t, room)
           grown  == last \o Prefix(t, n)
           filled == IF n = 0 THEN chunks ELSE [chunks EXCEPT ![Len(chunks)] = grown]
<1>1. /\ Published(chunks, t) = IF n = Len(t) THEN filled ELSE Append(filled, Rest(t, n))
  BY Zenon DEF Published, Last
<1>2. Len(t) \in Nat /\ Len(chunks) \in Nat
  BY LenProperties DEF Texts
<1>3. chunks # <<>> =>
        /\ Len(chunks) \in 1..Len(chunks) /\ last \in Texts
        /\ room \in Nat /\ n \in 0..Len(t) /\ Bytes(Prefix(t, n)) <= room
  <2> SUFFICES ASSUME chunks # <<>>
               PROVE  /\ Len(chunks) \in 1..Len(chunks) /\ last \in Texts
                      /\ room \in Nat /\ n \in 0..Len(t) /\ Bytes(Prefix(t, n)) <= room
    OBVIOUS
  <2>1. Len(chunks) \in 1..Len(chunks)
    BY <1>2, EmptySeq
  <2>2. last \in Texts /\ Bytes(last) <= ChunkBytes
    BY <2>1, ElementOfSeq DEF Last, Fit
  <2>3. room \in Nat
    BY <2>2, BytesType, ChannelAssumption DEF Texts
  <2> HIDE DEF room, last
  <2>4. n \in 0..Len(t) /\ Bytes(Prefix(t, n)) <= room
    BY <2>3, PrefixFits DEF Texts
  <2> QED BY <2>1, <2>2, <2>3, <2>4
<1>4. n \in 0..Len(t)
  BY <1>2, <1>3
<1> HIDE DEF room, n
<1>5. /\ Prefix(t, n) \in Texts /\ Rest(t, n) \in Texts /\ Prefix(t, n) \o Rest(t, n) = t
      /\ n = 0 => Rest(t, n) = t
      /\ Rest(t, n) = <<>> <=> n = Len(t)
  <2>1. n = 0 => Prefix(t, n) = <<>> /\ <<>> \o Rest(t, n) = Rest(t, n)
    BY <1>4, Split, ConcatEmptySeq DEF Texts
  <2> QED BY <1>4, <2>1, Split DEF Texts
<1>6. filled \in Seq(Texts) /\ Fit(filled) /\ Holds(filled, Rest(t, n), u)
  <2>1. CASE n = 0
    BY <1>5, <2>1
  <2>2. CASE n # 0
    <3>1. chunks # <<>>
      BY <2>2 DEF n
    <3>2. grown \in Texts /\ grown # <<>> /\ Bytes(grown) <= ChunkBytes
      <4>1. last \in Seq(Characters) /\ Prefix(t, n) \in Seq(Characters)
        BY <1>3, <1>5, <3>1 DEF Texts
      <4>2. /\ Bytes(grown) = Bytes(last) + Bytes(Prefix(t, n))
            /\ Bytes(last) \in Nat /\ Bytes(Prefix(t, n)) \in Nat
        BY <4>1, BytesOfConcat, BytesType
      <4>3. grown \in Seq(Characters) /\ Prefix(t, n) # <<>>
        BY <1>4, <2>2, <4>1, ConcatProperties, Split DEF Texts
      <4>4. grown # <<>>
        BY <4>1, <4>3, ConcatEqualIffEmpty
      <4>5. Bytes(grown) <= ChunkBytes
        BY <1>3, <3>1, <4>2, ChannelAssumption DEF room
      <4> QED BY <4>3, <4>4, <4>5 DEF Texts
    <3> HIDE DEF grown
    <3>3. /\ filled \in Seq(Texts) /\ Len(filled) = Len(chunks)
          /\ \A j \in 1..Len(chunks) :
               filled[j] = IF j = Len(chunks) THEN grown ELSE chunks[j]
      BY <1>3, <2>2, <3>1, <3>2, ExceptSeq
    <3> HIDE DEF filled
    <3>4. Fit(filled)
      BY <3>2, <3>3 DEF Fit
    <3>5. PICK from \in [1..(Len(chunks) + 1) -> Texts] :
            /\ from[1] = u /\ from[Len(chunks) + 1] = t
            /\ \A i \in 1..Len(chunks) : from[i] = chunks[i] \o from[i + 1]
      BY DEF Holds, Texts
    <3> DEFINE later == [from EXCEPT ![Len(chunks) + 1] = Rest(t, n)]
    <3>6. later \in [1..(Len(chunks) + 1) -> Texts]
      BY <1>5
    <3>7. later[1] = u /\ later[Len(chunks) + 1] = Rest(t, n)
      <4>1. 1 \in 1..(Len(chunks) + 1) /\ 1 # Len(chunks) + 1
        BY <1>3, <3>1
      <4>2. Len(chunks) + 1 \in 1..(Len(chunks) + 1)
        BY <1>2
      <4> QED BY <3>5, <4>1, <4>2
    <3>8. ASSUME NEW i \in 1..Len(chunks) PROVE later[i] = filled[i] \o later[i + 1]
      <4>1. /\ i \in 1..(Len(chunks) + 1) /\ i + 1 \in 1..(Len(chunks) + 1)
            /\ i # Len(chunks) + 1
        BY <1>2
      <4>2. CASE i = Len(chunks)
        <5>1. later[i] = last \o t
          BY <3>5, <4>1, <4>2 DEF Last
        <5>2. filled[i] = grown /\ later[i + 1] = Rest(t, n)
          BY <3>3, <4>1, <4>2
        <5>3. last \o t = grown \o Rest(t, n)
          <6>1. /\ last \in Seq(Characters) /\ Prefix(t, n) \in Seq(Characters)
                /\ Rest(t, n) \in Seq(Characters)
            BY <1>3, <1>5, <3>1 DEF Texts
          <6>2. last \o (Prefix(t, n) \o Rest(t, n)) = (last \o Prefix(t, n)) \o Rest(t, n)
            BY <6>1, TextsAssociate
          <6> QED BY <1>5, <6>2 DEF grown
        <5> QED BY <5>1, <5>2, <5>3
      <4>3. CASE i # Len(chunks)
        <5>1. i + 1 # Len(chunks) + 1
          BY <1>2, <4>3
        <5>2. later[i] = from[i] /\ later[i + 1] = from[i + 1] /\ filled[i] = chunks[i]
          BY <3>3, <4>1, <4>3, <5>1
        <5> QED BY <3>5, <5>2
      <4> QED BY <4>2, <4>3
    <3> HIDE DEF later
    <3>9. Holds(filled, Rest(t, n), u)
      BY <3>3, <3>6, <3>7, <3>8 DEF Holds, Texts
    <3> QED BY <3>3, <3>4, <3>9
  <2> QED BY <2>1, <2>2
<1> HIDE DEF filled
<1>7. CASE n = Len(t)
  BY <1>1, <1>5, <1>6, <1>7
<1>8. CASE n # Len(t)
  <2>1. Rest(t, n) \in Texts /\ Rest(t, n) # <<>> /\ Bytes(Rest(t, n)) <= ChunkBytes
    <3>1. Bytes(t) = Bytes(Prefix(t, n)) + Bytes(Rest(t, n))
      BY <1>5, BytesOfConcat DEF Texts
    <3>2. Bytes(Prefix(t, n)) \in Nat /\ Bytes(Rest(t, n)) \in Nat
      BY <1>5, BytesType DEF Texts
    <3> QED BY <1>5, <1>8, <3>1, <3>2, ChannelAssumption
  <2>2. Holds(Append(filled, Rest(t, n)), <<>>, u)
    BY <1>6, <2>1, HoldsAppended
  <2>3. /\ Append(filled, Rest(t, n)) \in Seq(Texts)
        /\ Len(Append(filled, Rest(t, n))) = Len(filled) + 1
        /\ \A i \in 1..Len(filled) : Append(filled, Rest(t, n))[i] = filled[i]
        /\ Append(filled, Rest(t, n))[Len(filled) + 1] = Rest(t, n)
    BY <1>6, <2>1, AppendProperties
  <2>4. Fit(Append(filled, Rest(t, n)))
    <3>1. Len(filled) \in Nat
      BY <1>6, LenProperties
    <3> QED BY <1>6, <2>1, <2>3, <3>1 DEF Fit
  <2> QED BY <1>1, <1>8, <2>2, <2>3, <2>4
<1> QED BY <1>7, <1>8

LEMMA ExtensionIsPrefix ==
  ASSUME NEW s \in Seq(Characters), NEW t \in Seq(Characters)
  PROVE  IsPrefix(s, s \o t)
<1>1. /\ s \o t \in Seq(Characters) /\ Len(s \o t) = Len(s) + Len(t)
      /\ Len(s) \in Nat /\ Len(t) \in Nat
      /\ \A i \in 1..(Len(s) + Len(t)) :
           (s \o t)[i] = IF i <= Len(s) THEN s[i] ELSE t[i - Len(s)]
  BY ConcatProperties, LenProperties
<1>2. SubSeq(s, 1, Len(s)) = s
  BY SubSeqFull
<1>3. SubSeq(s \o t, 1, Len(s)) = s
  <2> DEFINE p == SubSeq(s \o t, 1, Len(s))
  <2>1. \A i \in 1..Len(s) : (s \o t)[i] \in Characters
    BY <1>1, ElementOfSeq
  <2>2. p \in Seq(Characters) /\ Len(p) = Len(s)
    BY <1>1, <2>1, SubSeqProperties
  <2>3. \A i \in 1..Len(s) : p[i] = s[i]
    <3>1. \A i \in 1..(Len(s) - 1 + 1) : p[i] = (s \o t)[1 + i - 1]
      BY <1>1, <2>1, SubSeqProperties
    <3> QED BY <1>1, <3>1
  <2> HIDE DEF p
  <2>4. p = s
    BY <2>2, <2>3, SeqEqual
  <2> QED BY <2>4 DEF p
<1> QED BY <1>1, <1>2, <1>3 DEF IsPrefix

LEMMA ExtensionIsStrict ==
  ASSUME NEW s \in Seq(Characters), NEW t \in Seq(Characters), t # <<>>
  PROVE  IsStrictPrefix(s, s \o t)
<1>1. s \o t # s
  BY ConcatEqualIffEmpty
<1> QED BY <1>1, ExtensionIsPrefix DEF IsStrictPrefix

-----------------------------------------------------------------------------
(***************************************************************************)
(* What the channel holds while its output is to be read.                  *)
(***************************************************************************)
Content(chunks, fragment, queued, in, out) ==
  /\ chunks \in Seq(Texts) /\ fragment \in Texts /\ in \in Texts /\ out \in Texts
  /\ queued \in 0..BufferBytes
  /\ Fit(chunks)
  /\ Bytes(fragment) <= ChunkBytes
  /\ \E unread \in Texts :
       in = out \o unread /\ queued = Bytes(unread) /\ Holds(chunks, fragment, unread)

LEMMA ContentPublished ==
  ASSUME NEW c, NEW f, NEW q, NEW in, NEW out, Content(c, f, q, in, out)
  PROVE  Content(Published(c, f), <<>>, q, in, out)
<1>1. <<>> \in Texts /\ Bytes(<<>>) <= ChunkBytes
  BY BytesOfEmpty, ChannelAssumption DEF Texts
<1>2. PICK u \in Texts : in = out \o u /\ q = Bytes(u) /\ Holds(c, f, u)
  BY DEF Content
<1>3. /\ Published(c, f) \in Seq(Texts) /\ Fit(Published(c, f))
      /\ Holds(Published(c, f), <<>>, u)
  BY <1>2, HoldsPublished DEF Content
<1> QED BY <1>1, <1>2, <1>3 DEF Content

LEMMA ContentMore ==
  ASSUME NEW c, NEW f, NEW q, NEW in, NEW out, Content(c, f, q, in, out),
         NEW x \in Texts, Bytes(f) + Bytes(x) <= ChunkBytes, q + Bytes(x) <= BufferBytes
  PROVE  Content(c, f \o x, q + Bytes(x), in \o x, out)
<1>1. /\ f \in Seq(Characters) /\ x \in Seq(Characters) /\ in \in Seq(Characters)
      /\ out \in Seq(Characters) /\ c \in Seq(Texts) /\ q \in 0..BufferBytes /\ Fit(c)
  BY DEF Content, Texts
<1>2. PICK u \in Texts : in = out \o u /\ q = Bytes(u) /\ Holds(c, f, u)
  BY DEF Content
<1>3. u \in Seq(Characters)
  BY DEF Texts
<1>4. /\ f \o x \in Seq(Characters) /\ in \o x \in Seq(Characters)
      /\ u \o x \in Seq(Characters)
  BY <1>1, <1>3, ConcatProperties
<1>5. Bytes(f \o x) = Bytes(f) + Bytes(x) /\ Bytes(u \o x) = Bytes(u) + Bytes(x)
  BY <1>1, <1>3, BytesOfConcat
<1>6. in \o x = out \o (u \o x)
  BY <1>1, <1>2, <1>3, TextsAssociate
<1>7. Holds(c, f \o x, u \o x)
  BY <1>1, <1>2, HoldsMore DEF Texts
<1>8. Bytes(x) \in Nat
  BY <1>1, BytesType
<1>9. q + Bytes(x) \in 0..BufferBytes
  BY <1>1, <1>8, ChannelAssumption
<1> QED BY <1>1, <1>2, <1>4, <1>5, <1>6, <1>7, <1>9 DEF Content, Texts

LEMMA ContentRead ==
  ASSUME NEW c, NEW f, NEW q, NEW in, NEW out, Content(c, f, q, in, out), c # <<>>
  PROVE  /\ Content(Tail(c), f, q - Bytes(Head(c)), in, out \o Head(c))
         /\ IsStrictPrefix(out, out \o Head(c))
         /\ IsPrefix(out \o Head(c), in)
<1>1. /\ f \in Texts /\ in \in Seq(Characters) /\ out \in Seq(Characters)
      /\ c \in Seq(Texts) /\ q \in 0..BufferBytes /\ Fit(c) /\ Bytes(f) <= ChunkBytes
  BY DEF Content, Texts
<1>2. PICK u \in Texts : in = out \o u /\ q = Bytes(u) /\ Holds(c, f, u)
  BY DEF Content
<1>3. PICK v \in Texts : u = Head(c) \o v /\ Holds(Tail(c), f, v)
  BY <1>1, <1>2, HoldsWithoutHead
<1>4. /\ Len(c) \in Nat \ {0} /\ Tail(c) \in Seq(Texts) /\ Len(Tail(c)) = Len(c) - 1
      /\ \A i \in 1..Len(Tail(c)) : Tail(c)[i] = c[i + 1]
      /\ Head(c) = c[1] /\ Head(c) \in Texts
  BY <1>1, EmptySeq, HeadTailProperties
<1>5. Fit(Tail(c))
  BY <1>1, <1>4 DEF Fit
<1>6. Head(c) # <<>>
  BY <1>1, <1>4 DEF Fit
<1> DEFINE h == Head(c)
<1>7. h \in Seq(Characters) /\ v \in Seq(Characters) /\ u \in Seq(Characters)
  BY <1>4 DEF Texts
<1> HIDE DEF h
<1>8. out \o h \in Seq(Characters) /\ in = (out \o h) \o v
  <2>1. u = h \o v
    BY <1>3 DEF h
  <2> QED BY <1>1, <1>2, <1>7, <2>1, TextsAssociate, ConcatProperties
<1>9. Bytes(u) = Bytes(h) + Bytes(v) /\ Bytes(h) \in Nat /\ Bytes(v) \in Nat
  BY <1>3, <1>7, BytesOfConcat, BytesType DEF h
<1>10. q - Bytes(h) = Bytes(v) /\ q - Bytes(h) \in 0..BufferBytes
  BY <1>1, <1>2, <1>9, ChannelAssumption
<1>11. Content(Tail(c), f, q - Bytes(h), in, out \o h)
  BY <1>1, <1>3, <1>4, <1>5, <1>8, <1>10 DEF Content, Texts
<1>12. IsStrictPrefix(out, out \o h)
  BY <1>1, <1>6, <1>7, ExtensionIsStrict DEF h
<1>13. IsPrefix(out \o h, in)
  BY <1>7, <1>8, ExtensionIsPrefix
<1> QED BY <1>11, <1>12, <1>13 DEF h

LEMMA AllIsRead ==
  ASSUME NEW q, NEW in, NEW out, Content(<<>>, <<>>, q, in, out)
  PROVE  out = in
<1>1. PICK u \in Texts : in = out \o u /\ Holds(<<>>, <<>>, u)
  BY DEF Content
<1>2. u = <<>>
  BY <1>1, NothingHeld
<1> QED BY <1>1, <1>2, ConcatEmptySeq DEF Content, Texts

-----------------------------------------------------------------------------
(***************************************************************************)
(* The invariant.                                                          *)
(***************************************************************************)
Discarded == terminal \in {"Stopped", "Disconnected"}

Kept ==
  IF Discarded THEN ready = <<>> /\ pending = <<>> /\ queuedBytes = 0
  ELSE Content(ready, pending, queuedBytes, accepted, delivered)

EndIsComplete ==
  /\ terminal # "none" => pending = <<>>
  /\ reader \in {"ended", "done"} => terminal # "none"

Inv == TypeOK /\ Kept /\ EndIsComplete

\* A step of the channel maps to a step of the stream, or to none.
StreamStep == [Stream!Next]_(Stream!vars)

LEMMA NoStreamStep ==
  ASSUME UNCHANGED historyVars, Discarded' <=> Discarded,
         (terminal' = "none") <=> (terminal = "none"), terminal \in Terminals \cup {"none"},
         terminal' \in Terminals \cup {"none"},
         (reader' \in {"ended", "done"}) <=> (reader \in {"ended", "done"})
  PROVE  StreamStep
<1> DEFINE fate == CASE terminal = "none" -> "open"
                     [] terminal \in {"Finished", "Cancelled"} -> "draining"
                     [] terminal \in {"Stopped", "Disconnected"} -> "discarded"
           next == CASE terminal' = "none" -> "open"
                     [] terminal' \in {"Finished", "Cancelled"} -> "draining"
                     [] terminal' \in {"Stopped", "Disconnected"} -> "discarded"
<1>1. next = fate
  BY DEF Discarded, Terminals
<1>2. (reader' \in {"ended", "done"}) = (reader \in {"ended", "done"})
  OBVIOUS
<1>3. accepted' = accepted /\ delivered' = delivered
  BY DEF historyVars
<1> HIDE DEF fate, next
<1>4. <<accepted', delivered', next, reader' \in {"ended", "done"}>>
        = <<accepted, delivered, fate, reader \in {"ended", "done"}>>
  BY <1>1, <1>2, <1>3
<1>5. UNCHANGED Stream!vars
  BY <1>4 DEF Stream!vars, next, fate
<1> QED BY <1>5 DEF StreamStep

LEMMA StreamEnds ==
  ASSUME Inv, UNCHANGED historyVars,
         terminal' \in Terminals,
         terminal = "none" \/ terminal' \in {"Stopped", "Disconnected"},
         terminal' # terminal, terminal \notin {"Stopped", "Disconnected"},
         (reader' \in {"ended", "done"}) <=> (reader \in {"ended", "done"})
  PROVE  StreamStep
<1>1. terminal \in Terminals \cup {"none"}
  BY DEF Inv, TypeOK
<1>2. Stream!Close
  BY <1>1 DEF Stream!Close, historyVars, Terminals
<1> QED BY <1>2 DEF StreamStep, Stream!Next

LEMMA PublishKeepsContent ==
  ASSUME Inv, PublishPending, UNCHANGED historyVars, Discarded' <=> Discarded
  PROVE  /\ ready' \in Seq(Seq(Characters)) /\ pending' = <<>>
         /\ queuedBytes' = queuedBytes
         /\ Kept'
<1>1. CASE Discarded
  BY <1>1, NothingIsPublished DEF Inv, Kept, PublishPending, TypeOK
<1>2. CASE ~Discarded
  <2>1. Content(ready', pending', queuedBytes', accepted', delivered')
    BY <1>2, ContentPublished DEF Inv, Kept, PublishPending, historyVars
  <2>2. ready' \in Seq(Seq(Characters))
    BY <2>1 DEF Content, Texts
  <2> QED BY <1>2, <2>1, <2>2 DEF Kept, PublishPending
<1> QED BY <1>1, <1>2

LEMMA RoomIs ==
  ASSUME Inv, ~Discarded, NEW held \in Texts, Bytes(held) <= ChunkBytes
  PROVE  /\ Room(held) \in Nat
         /\ Bytes(held) + Room(held) <= ChunkBytes
         /\ queuedBytes + Room(held) <= BufferBytes
<1> DEFINE a == ChunkBytes - Bytes(held)
           b == BufferBytes - queuedBytes
<1>1. a \in Nat /\ b \in Nat
  BY BytesType, ChannelAssumption DEF Inv, Kept, Content, Texts
<1>2. Room(held) \in {a, b} /\ Room(held) <= a /\ Room(held) <= b
  <2>1. \E x \in {a, b} : \A y \in {a, b} : x <= y
    BY <1>1
  <2> QED BY <2>1 DEF Room, Min
<1>3. Bytes(held) \in Nat /\ queuedBytes \in Nat
  BY BytesType DEF Inv, TypeOK, Texts
<1> QED BY <1>1, <1>2, <1>3, ChannelAssumption

LEMMA FragmentIsTaken ==
  ASSUME Inv, NEW w \in Writers, NEW chunks, NEW held,
         terminal = "none", terminal' = terminal,
         Content(chunks, held, queuedBytes, accepted, delivered),
         TakeFragment(w, chunks, held, PrefixLength(text[w], Room(held))),
         UNCHANGED <<nextCharacter, reader, delivered>>
  PROVE  Inv' /\ StreamStep
<1> DEFINE t == text[w]
           n == PrefixLength(t, Room(held))
           x == Prefix(t, n)
           f == held \o x
           full == Bytes(f) = ChunkBytes
<1>1. t \in Seq(Characters) /\ ~Discarded
  BY DEF Inv, TypeOK, Discarded
<1>2. held \in Texts /\ Bytes(held) <= ChunkBytes
  BY DEF Content
<1>3. /\ Room(held) \in Nat
      /\ Bytes(held) + Room(held) <= ChunkBytes
      /\ queuedBytes + Room(held) <= BufferBytes
  BY <1>1, <1>2, RoomIs
<1>4. n \in 0..Len(t) /\ Bytes(x) <= Room(held)
  BY <1>1, <1>3, PrefixFits
<1>5. /\ n > 0
      /\ pending' = IF full THEN <<>> ELSE f
      /\ ready' = IF full THEN Published(chunks, f) ELSE chunks
      /\ queuedBytes' = queuedBytes + Bytes(x)
      /\ accepted' = accepted \o x
      /\ text' = [text EXCEPT ![w] = Rest(t, n)]
      /\ writer' = [writer EXCEPT ![w] = IF n = Len(t) THEN "idle" ELSE "emitting"]
      /\ permit' \in BOOLEAN
  BY DEF TakeFragment
<1> HIDE DEF n
<1>6. x \in Texts /\ Rest(t, n) \in Seq(Characters) /\ x # <<>>
  BY <1>1, <1>4, <1>5, Split DEF Texts
<1>7. Bytes(x) \in Nat /\ Bytes(held) \in Nat /\ queuedBytes \in Nat
  BY <1>2, <1>6, BytesType DEF Texts, Inv, TypeOK
<1> HIDE DEF x
<1>8. Content(chunks, f, queuedBytes + Bytes(x), accepted \o x, delivered)
  <2>1. Bytes(held) + Bytes(x) <= ChunkBytes /\ queuedBytes + Bytes(x) <= BufferBytes
    BY <1>3, <1>4, <1>7, ChannelAssumption DEF x
  <2> QED BY <1>6, <2>1, ContentMore
<1> HIDE DEF f
<1>9. Content(ready', pending', queuedBytes', accepted', delivered')
  BY <1>5, <1>8, ContentPublished DEF f, x
<1>10. Kept' /\ EndIsComplete'
  BY <1>9 DEF Inv, Kept, Discarded, EndIsComplete
<1>11. TypeOK'
  <2>1. /\ ready' \in Seq(Seq(Characters)) /\ pending' \in Seq(Characters)
        /\ queuedBytes' \in Nat /\ accepted' \in Seq(Characters)
        /\ delivered' \in Seq(Characters)
    BY <1>9, ChannelAssumption DEF Content, Texts
  <2>2. text' \in [Writers -> Seq(Characters)]
    BY <1>5, <1>6 DEF Inv, TypeOK
  <2>3. writer' \in [Writers -> {"absent", "idle", "emitting", "waiting", "dropped"}]
    BY <1>5 DEF Inv, TypeOK
  <2> QED BY <1>5, <2>1, <2>2, <2>3 DEF Inv, TypeOK
<1>12. Stream!Accept
  <2>1. IsStrictPrefix(accepted, accepted')
    BY <1>5, <1>6, ExtensionIsStrict DEF Inv, TypeOK, Texts, x
  <2>2. Stream!IsStrictPrefix(accepted, accepted')
    BY <2>1 DEF Stream!IsStrictPrefix, IsStrictPrefix, Stream!IsPrefix, IsPrefix
  <2> QED BY <2>2 DEF Stream!Accept
<1> QED BY <1>10, <1>11, <1>12 DEF Inv, StreamStep, Stream!Next

-----------------------------------------------------------------------------
(***************************************************************************)
(* The steps.                                                              *)
(***************************************************************************)
LEMMA Facts ==
  ASSUME Inv
  PROVE  /\ terminal \in Terminals \cup {"none"}
         /\ Discarded => ready = <<>> /\ pending = <<>> /\ queuedBytes = 0
         /\ ~Discarded => Content(ready, pending, queuedBytes, accepted, delivered)
         /\ terminal = "none" => ~Discarded
  BY DEF Inv, TypeOK, Kept, Discarded

\* A step that leaves the state that the mutex guards, and the history, alone.
LEMMA StateIsLeft ==
  ASSUME Inv, UNCHANGED <<stateVars, historyVars>>,
         permit' \in BOOLEAN,
         writer' \in [Writers -> {"absent", "idle", "emitting", "waiting", "dropped"}],
         text' \in [Writers -> Seq(Characters)],
         nextCharacter' \in 1..(MaxCharacters + 1),
         reader' \in {"away", "waiting", "woken", "ended", "done", "gone"},
         (reader' \in {"ended", "done"}) <=> (reader \in {"ended", "done"})
  PROVE  Inv' /\ StreamStep
<1>1. /\ ready' = ready /\ pending' = pending /\ queuedBytes' = queuedBytes
      /\ terminal' = terminal /\ accepted' = accepted /\ delivered' = delivered
  BY DEF stateVars, historyVars
<1>2. TypeOK'
  BY <1>1 DEF Inv, TypeOK
<1>3. Kept'
  BY <1>1 DEF Inv, Kept, Discarded
<1>4. EndIsComplete'
  BY <1>1 DEF Inv, EndIsComplete
<1>5. StreamStep
  BY <1>1, Facts, NoStreamStep DEF Discarded, historyVars
<1> QED BY <1>2, <1>3, <1>4, <1>5 DEF Inv

LEMMA EmitKeeps ==
  ASSUME Inv, NEW w \in Writers, NEW n \in Characters, Emit(w, n)
  PROVE  Inv' /\ StreamStep
<1> DEFINE new == [i \in 1..n |-> nextCharacter + i - 1]
<1>1. MaxCharacters \in Nat /\ nextCharacter \in 1..(MaxCharacters + 1)
  BY ChannelAssumption DEF Inv, TypeOK
<1>2. new \in Seq(Characters)
  <2>1. ASSUME NEW i \in 1..n PROVE nextCharacter + i - 1 \in Characters
    BY <1>1 DEF Emit, Characters
  <2>2. n \in Nat
    BY <1>1 DEF Characters
  <2> QED BY <2>1, <2>2, IsASeq
<1>3. nextCharacter' \in 1..(MaxCharacters + 1)
  BY <1>1 DEF Emit, Characters
<1>4. text' \in [Writers -> Seq(Characters)]
  <2>1. text' = [text EXCEPT ![w] = new] /\ text \in [Writers -> Seq(Characters)]
    BY DEF Emit, Inv, TypeOK
  <2> HIDE DEF new
  <2> QED BY <1>2, <2>1
<1>5. writer' \in [Writers -> {"absent", "idle", "emitting", "waiting", "dropped"}]
  BY DEF Emit, Inv, TypeOK
<1>6. UNCHANGED <<stateVars, permit, reader, historyVars>>
  BY DEF Emit
<1> QED BY <1>3, <1>4, <1>5, <1>6, StateIsLeft DEF Inv, TypeOK

LEMMA EmitStepKeeps ==
  ASSUME Inv, NEW w \in Writers, EmitStep(w)
  PROVE  Inv' /\ StreamStep
<1>1. CASE EmitEnds(w)
  <2>1. text' \in [Writers -> Seq(Characters)]
    <3>1. <<>> \in Seq(Characters)
      OBVIOUS
    <3> QED BY <1>1, <3>1 DEF EmitEnds, Inv, TypeOK
  <2>2. writer' \in [Writers -> {"absent", "idle", "emitting", "waiting", "dropped"}]
    BY <1>1 DEF EmitEnds, Inv, TypeOK
  <2>3. UNCHANGED <<stateVars, permit, nextCharacter, reader, historyVars>>
    BY <1>1 DEF EmitEnds
  <2> QED BY <2>1, <2>2, <2>3, StateIsLeft DEF Inv, TypeOK
<1>2. CASE EmitFragment(w)
  <2>1. Content(ready, pending, queuedBytes, accepted, delivered) /\ terminal = "none"
    BY <1>2, Facts DEF EmitFragment
  <2>2. /\ TakeFragment(w, ready, pending, PrefixLength(text[w], Room(pending)))
        /\ UNCHANGED <<terminal, nextCharacter, reader, delivered>>
    BY <1>2 DEF EmitFragment
  <2> QED BY <2>1, <2>2, FragmentIsTaken
<1>3. CASE EmitAfterPublishing(w)
  <2>1. Content(ready, pending, queuedBytes, accepted, delivered) /\ terminal = "none"
    BY <1>3, Facts DEF EmitAfterPublishing
  <2>2. /\ TakeFragment(w, Published(ready, pending), <<>>, PrefixLength(text[w], Room(<<>>)))
        /\ UNCHANGED <<terminal, nextCharacter, reader, delivered>>
    BY <1>3 DEF EmitAfterPublishing
  <2>3. Content(Published(ready, pending), <<>>, queuedBytes, accepted, delivered)
    BY <2>1, ContentPublished
  <2> QED BY <2>1, <2>2, <2>3, FragmentIsTaken
<1>4. CASE EmitWaits(w)
  <2>1. /\ PublishPending /\ terminal = "none" /\ terminal' = terminal
        /\ UNCHANGED <<text, nextCharacter, reader, historyVars>>
        /\ permit' \in BOOLEAN
    BY <1>4 DEF EmitWaits
  <2>2. Discarded' <=> Discarded
    BY <2>1 DEF Discarded
  <2>3. /\ ready' \in Seq(Seq(Characters)) /\ pending' = <<>>
        /\ queuedBytes' = queuedBytes /\ Kept'
    BY <2>1, <2>2, PublishKeepsContent
  <2>4. writer' \in [Writers -> {"absent", "idle", "emitting", "waiting", "dropped"}]
    BY <1>4 DEF EmitWaits, Inv, TypeOK
  <2>5. TypeOK'
    <3>1. <<>> \in Seq(Characters)
      OBVIOUS
    <3> QED BY <2>1, <2>3, <2>4, <3>1 DEF Inv, TypeOK, historyVars
  <2>6. EndIsComplete'
    BY <2>1, <2>3 DEF Inv, EndIsComplete
  <2>7. StreamStep
    BY <2>1, <2>2, Facts, NoStreamStep
  <2> QED BY <2>3, <2>5, <2>6, <2>7 DEF Inv
<1> QED BY <1>1, <1>2, <1>3, <1>4 DEF EmitStep

\* What Flush, RequestCancel and Finish have in common.
LEMMA PublishKeeps ==
  ASSUME Inv, PublishPending, UNCHANGED <<text, nextCharacter, reader, historyVars>>,
         terminal' = terminal \/ (terminal' \in {"Finished", "Cancelled"} /\ ~Discarded),
         permit' \in BOOLEAN,
         writer' \in [Writers -> {"absent", "idle", "emitting", "waiting", "dropped"}]
  PROVE  Inv' /\ StreamStep
<1>0. terminal \in Terminals \cup {"none"} /\ terminal' \in Terminals \cup {"none"}
  BY Facts DEF Terminals
<1>1. Discarded' <=> Discarded
  BY DEF Discarded
<1>2. /\ ready' \in Seq(Seq(Characters)) /\ pending' = <<>>
      /\ queuedBytes' = queuedBytes /\ Kept'
  BY <1>1, PublishKeepsContent
<1>3. TypeOK'
  <2>1. <<>> \in Seq(Characters)
    OBVIOUS
  <2> QED BY <1>0, <1>2, <2>1 DEF Inv, TypeOK, historyVars
<1>4. EndIsComplete'
  BY <1>2 DEF Inv, EndIsComplete
<1>5. StreamStep
  <2>1. CASE (terminal' = "none") <=> (terminal = "none")
    BY <1>0, <1>1, <2>1, NoStreamStep
  <2>2. CASE ~((terminal' = "none") <=> (terminal = "none"))
    <3>1. terminal = "none" /\ terminal' \in {"Finished", "Cancelled"}
      BY <2>2
    <3> QED BY <3>1, StreamEnds DEF Terminals
  <2> QED BY <2>1, <2>2
<1> QED BY <1>2, <1>3, <1>4, <1>5 DEF Inv

\* What Stop, Disconnect and the last Drop have in common.
LEMMA DiscardKeeps ==
  ASSUME Inv, Discard, UNCHANGED <<text, nextCharacter, historyVars>>,
         terminal' \in {"Stopped", "Disconnected"},
         permit' \in BOOLEAN,
         writer' \in [Writers -> {"absent", "idle", "emitting", "waiting", "dropped"}],
         reader' \in {"away", "waiting", "woken", "ended", "done", "gone"},
         (reader' \in {"ended", "done"}) <=> (reader \in {"ended", "done"})
  PROVE  Inv' /\ StreamStep
<1>1. <<>> \in Seq(Characters) /\ <<>> \in Seq(Seq(Characters)) /\ 0 \in Nat
  OBVIOUS
<1>2. TypeOK'
  BY <1>1 DEF Inv, TypeOK, Discard, historyVars, Terminals
<1>3. Kept' /\ EndIsComplete'
  BY DEF Kept, Discarded, EndIsComplete, Discard
<1>4. StreamStep
  <2>1. CASE Discarded
    BY <2>1, Facts, NoStreamStep DEF Discarded, Terminals
  <2>2. CASE ~Discarded
    BY <2>2, StreamEnds DEF Discarded, Terminals
  <2> QED BY <2>1, <2>2
<1> QED BY <1>2, <1>3, <1>4 DEF Inv

LEMMA NotifiedWritersType ==
  ASSUME Inv, NotifyWriters
  PROVE  writer' \in [Writers -> {"absent", "idle", "emitting", "waiting", "dropped"}]
  BY DEF NotifyWriters, Inv, TypeOK

LEMMA WriterKeeps ==
  ASSUME Inv, NEW w \in Writers, WriterStep(w)
  PROVE  Inv' /\ StreamStep
<1>1. CASE \E n \in Characters : Emit(w, n)
  BY <1>1, EmitKeeps
<1>2. CASE EmitStep(w)
  BY <1>2, EmitStepKeeps
<1>3. CASE Flush(w)
  <2>1. /\ UNCHANGED <<terminal, writer, text, nextCharacter, reader, historyVars>>
        /\ permit' = TRUE
    BY <1>3 DEF Flush, writerVars
  <2>2. CASE terminal = "none"
    <3>1. PublishPending
      BY <1>3, <2>2 DEF Flush
    <3> QED BY <2>1, <3>1, PublishKeeps DEF Inv, TypeOK
  <2>3. CASE terminal # "none"
    <3>1. UNCHANGED stateVars
      BY <1>3, <2>1, <2>3 DEF Flush, stateVars
    <3> QED BY <2>1, <3>1, StateIsLeft DEF Inv, TypeOK
  <2> QED BY <2>2, <2>3
<1>4. CASE RequestCancel(w)
  <2>1. /\ PublishPending /\ NotifyWriters /\ permit' = TRUE
        /\ UNCHANGED <<text, nextCharacter, reader, historyVars>>
        /\ terminal' = terminal \/ (terminal' \in {"Finished", "Cancelled"} /\ ~Discarded)
    BY <1>4 DEF RequestCancel, WakeAll, Discarded
  <2> QED BY <2>1, NotifiedWritersType, PublishKeeps
<1>5. CASE Finish(w)
  <2>1. /\ PublishPending /\ NotifyWriters /\ permit' = TRUE
        /\ UNCHANGED <<text, nextCharacter, reader, historyVars>>
        /\ terminal' = terminal \/ (terminal' \in {"Finished", "Cancelled"} /\ ~Discarded)
    BY <1>5 DEF Finish, WakeAll, Discarded
  <2> QED BY <2>1, NotifiedWritersType, PublishKeeps
<1>6. CASE Stop(w)
  <2>1. /\ Discard /\ NotifyWriters /\ permit' = TRUE
        /\ UNCHANGED <<text, nextCharacter, reader, historyVars>>
        /\ terminal' \in {"Stopped", "Disconnected"}
    BY <1>6 DEF Stop, WakeAll
  <2> QED BY <2>1, NotifiedWritersType, DiscardKeeps DEF Inv, TypeOK
<1>7. CASE \E copy \in Writers : Clone(w, copy)
  <2>1. /\ UNCHANGED <<stateVars, permit, text, nextCharacter, reader, historyVars>>
        /\ writer' \in [Writers -> {"absent", "idle", "emitting", "waiting", "dropped"}]
    BY <1>7 DEF Clone, Inv, TypeOK
  <2> QED BY <2>1, StateIsLeft DEF Inv, TypeOK
<1>8. CASE Drop(w)
  <2>1. /\ UNCHANGED <<text, nextCharacter, reader, historyVars>>
        /\ writer' \in [Writers -> {"absent", "idle", "emitting", "waiting", "dropped"}]
        /\ permit' \in BOOLEAN
    BY <1>8 DEF Drop, Inv, TypeOK
  <2>2. CASE Alive = {w} /\ terminal = "none"
    <3>1. Discard /\ terminal' = "Stopped"
      BY <1>8, <2>2 DEF Drop
    <3> QED BY <2>1, <3>1, DiscardKeeps DEF Inv, TypeOK
  <2>3. CASE ~(Alive = {w} /\ terminal = "none")
    <3>1. UNCHANGED stateVars
      BY <1>8, <2>3 DEF Drop, stateVars
    <3> QED BY <2>1, <3>1, StateIsLeft DEF Inv, TypeOK
  <2> QED BY <2>2, <2>3
<1> QED BY <1>1, <1>2, <1>3, <1>4, <1>5, <1>6, <1>7, <1>8 DEF WriterStep

LEMMA NextChunkKeeps ==
  ASSUME Inv, NextChunk
  PROVE  Inv' /\ StreamStep
<1>1. /\ Looks /\ ready # <<>>
      /\ ready' = Tail(ready)
      /\ queuedBytes' = queuedBytes - Bytes(Head(ready))
      /\ delivered' = delivered \o Head(ready)
      /\ reader' = "away" /\ NotifyWriters
      /\ UNCHANGED <<pending, terminal, permit, text, nextCharacter, accepted>>
  BY DEF NextChunk
<1>2. ~Discarded /\ Content(ready, pending, queuedBytes, accepted, delivered)
  BY <1>1, Facts
<1>3. /\ Content(ready', pending', queuedBytes', accepted', delivered')
      /\ IsStrictPrefix(delivered, delivered') /\ IsPrefix(delivered', accepted)
  BY <1>1, <1>2, ContentRead
<1>4. Kept' /\ EndIsComplete'
  BY <1>1, <1>2, <1>3 DEF Inv, Kept, Discarded, EndIsComplete
<1>5. TypeOK'
  <2>1. /\ ready' \in Seq(Seq(Characters)) /\ pending' \in Seq(Characters)
        /\ queuedBytes' \in Nat /\ delivered' \in Seq(Characters)
    BY <1>3, ChannelAssumption DEF Content, Texts
  <2>2. writer' \in [Writers -> {"absent", "idle", "emitting", "waiting", "dropped"}]
    BY <1>1, NotifiedWritersType
  <2> QED BY <1>1, <2>1, <2>2 DEF Inv, TypeOK
<1>6. Stream!Deliver
  <2>1. Stream!IsStrictPrefix(delivered, delivered') /\ Stream!IsPrefix(delivered', accepted)
    BY <1>3 DEF Stream!IsStrictPrefix, IsStrictPrefix, Stream!IsPrefix, IsPrefix
  <2>2. terminal \in {"none", "Finished", "Cancelled"} /\ reader \in {"away", "woken"}
    BY <1>1, <1>2, Facts DEF Discarded, Terminals, Looks
  <2> QED BY <1>1, <2>1, <2>2 DEF Stream!Deliver
<1> QED BY <1>4, <1>5, <1>6 DEF Inv, StreamStep, Stream!Next

LEMMA NextIsNoneKeeps ==
  ASSUME Inv, NextIsNone
  PROVE  Inv' /\ StreamStep
<1>1. /\ Looks /\ ready = <<>> /\ terminal # "none" /\ reader' = "ended"
      /\ UNCHANGED <<stateVars, permit, writerVars, historyVars>>
  BY DEF NextIsNone
<1>2. /\ ready' = ready /\ pending' = pending /\ queuedBytes' = queuedBytes
      /\ terminal' = terminal /\ accepted' = accepted /\ delivered' = delivered
      /\ text' = text /\ writer' = writer /\ nextCharacter' = nextCharacter /\ permit' = permit
  BY <1>1 DEF stateVars, historyVars, writerVars
<1>3. TypeOK'
  BY <1>1, <1>2 DEF Inv, TypeOK
<1>4. Kept' /\ EndIsComplete'
  BY <1>1, <1>2 DEF Inv, Kept, Discarded, EndIsComplete
<1>5. ~Discarded => delivered = accepted
  BY <1>1, Facts, AllIsRead DEF Inv, EndIsComplete
<1>6. Stream!TellTheEnd
  BY <1>1, <1>2, <1>5, Facts DEF Stream!TellTheEnd, Discarded, Terminals
<1> QED BY <1>3, <1>4, <1>6 DEF Inv, StreamStep, Stream!Next

LEMMA ReaderKeeps ==
  ASSUME Inv, ReaderStep \/ DropRead \/ Disconnect
  PROVE  Inv' /\ StreamStep
<1>1. CASE NextChunk
  BY <1>1, NextChunkKeeps
<1>2. CASE NextIsNone
  BY <1>2, NextIsNoneKeeps
<1>3. CASE ReaderWaits \/ ReaderWakes \/ DropRead
  <2>1. /\ UNCHANGED <<stateVars, writer, text, nextCharacter, historyVars>>
        /\ permit' \in BOOLEAN
        /\ reader' \in {"waiting", "woken", "away"} /\ reader \in {"away", "woken", "waiting"}
    BY <1>3 DEF ReaderWaits, ReaderWakes, DropRead, Looks, writerVars, Inv, TypeOK
  <2> QED BY <2>1, StateIsLeft DEF Inv, TypeOK
<1>4. CASE Disconnect
  <2>1. /\ Discard /\ NotifyWriters /\ permit' = TRUE /\ terminal' = "Disconnected"
        /\ UNCHANGED <<text, nextCharacter, historyVars>>
        /\ reader' \in {"done", "gone"}
        /\ (reader' \in {"ended", "done"}) <=> (reader \in {"ended", "done"})
    BY <1>4 DEF Disconnect, WakeAll
  <2> QED BY <2>1, NotifiedWritersType, DiscardKeeps
<1> QED BY <1>1, <1>2, <1>3, <1>4 DEF ReaderStep

LEMMA InitKeeps == Init => Inv /\ Stream!Init
<1> SUFFICES ASSUME Init PROVE Inv /\ Stream!Init
  OBVIOUS
<1>1. /\ <<>> \in Seq(Characters) /\ <<>> \in Texts /\ <<>> \in Seq(Seq(Characters))
      /\ <<>> \in Seq(Texts) /\ <<>> \o <<>> = <<>> /\ Len(<<>>) = 0
  BY DEF Texts
<1>2. TypeOK
  <2>1. /\ text \in [Writers -> Seq(Characters)]
        /\ writer \in [Writers -> {"absent", "idle", "emitting", "waiting", "dropped"}]
    BY <1>1 DEF Init
  <2>2. 1 \in 1..(MaxCharacters + 1)
    BY ChannelAssumption
  <2> QED BY <1>1, <2>1, <2>2 DEF Init, TypeOK
<1>3. Content(<<>>, <<>>, 0, <<>>, <<>>)
  BY <1>1, BytesOfEmpty, HoldsOnlyPending, ChannelAssumption DEF Content, Fit
<1>4. Kept /\ EndIsComplete
  BY <1>3 DEF Init, Kept, Discarded, EndIsComplete
<1>5. Stream!Init
  BY DEF Init, Stream!Init
<1> QED BY <1>2, <1>4, <1>5 DEF Inv

LEMMA StepKeeps == Inv /\ [Next]_vars => Inv' /\ StreamStep
<1> SUFFICES ASSUME Inv, [Next]_vars PROVE Inv' /\ StreamStep
  OBVIOUS
<1>1. CASE \E w \in Writers : WriterStep(w)
  BY <1>1, WriterKeeps
<1>2. CASE ReaderStep \/ DropRead \/ Disconnect
  BY <1>2, ReaderKeeps
<1>3. CASE UNCHANGED vars
  <2>1. UNCHANGED <<stateVars, permit, writer, text, nextCharacter, reader, historyVars>>
    BY <1>3 DEF vars, writerVars
  <2> QED BY <2>1, StateIsLeft DEF Inv, TypeOK
<1> QED BY <1>1, <1>2, <1>3 DEF Next

\* The memory the channel takes is bounded, whatever the writers emit and however
\* slow the reader is: no chunk is larger than a message may be, and all of them
\* with the pending fragment fit into the buffer.
BufferIsBounded ==
  /\ queuedBytes <= BufferBytes
  /\ \A i \in 1..Len(ready) : Bytes(ready[i]) <= ChunkBytes
  /\ Bytes(pending) <= ChunkBytes

\* Every variable of the channel has its type in every reachable state: the byte
\* counter never falls below zero, as the code's subtraction needs.
THEOREM ChannelTypeCorrect == Spec => []TypeOK
<1>1. Inv => TypeOK
  BY DEF Inv
<1> QED BY <1>1, InitKeeps, StepKeeps, PTL DEF Spec

\* The limits of output.rs hold, for every width of the characters.
THEOREM Bounded == Spec => []BufferIsBounded
<1>1. Inv => BufferIsBounded
  <2> SUFFICES ASSUME Inv PROVE BufferIsBounded
    OBVIOUS
  <2>1. CASE Discarded
    BY <2>1, Facts, BytesOfEmpty, ChannelAssumption DEF BufferIsBounded
  <2>2. CASE ~Discarded
    BY <2>2, Facts, ChannelAssumption DEF BufferIsBounded, Content, Fit
  <2> QED BY <2>1, <2>2
<1> QED BY <1>1, InitKeeps, StepKeeps, PTL DEF Spec

\* The reader is given what was accepted, once and in order, whatever the chunks are
\* cut into; and it hears of the end after all of it, or when the output was discarded.
THEOREM ImplementsStream == Spec => StreamSpec
<1>1. Spec => []Inv
  BY InitKeeps, StepKeeps, PTL DEF Spec
<1>2. Init => Stream!Init
  BY InitKeeps
<1>3. Inv /\ [Next]_vars => [Stream!Next]_(Stream!vars)
  BY StepKeeps DEF StreamStep
<1> QED BY <1>1, <1>2, <1>3, PTL DEF Spec, StreamSpec, Stream!Spec
=============================================================================
