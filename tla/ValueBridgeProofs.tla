-------------------------- MODULE ValueBridgeProofs --------------------------
(***************************************************************************)
(* What AutoLISP prints, for every number of forms and events, every depth *)
(* of lists and texts of any length: every line is one value that the      *)
(* reader reads back, and an execution that succeeds printed whole lines.  *)
(*                                                                         *)
(* The reader is taken as its rules: a span that follows from spans is     *)
(* one.  What the printer has printed of a value is described by what any  *)
(* text that goes on from it has to bring for its lists to be values; so   *)
(* every event of the printer is one use of the rules.                     *)
(***************************************************************************)
EXTENDS ValueBridge, SequenceTheorems, WellFoundedInduction, NaturalsInduction, TLAPS

-----------------------------------------------------------------------------
(***************************************************************************)
(* Induction on the natural numbers, for the members of a set.             *)
(***************************************************************************)
Less == {p \in Nat \X Nat : p[1] < p[2]}

\* A set of natural numbers that is not empty has a least one.
LEMMA Least ==
  ASSUME NEW T \in SUBSET Nat, T # {}
  PROVE  \E n \in T : \A m \in T : n <= m
<1>1. IsWellFoundedOn(Less, Nat)
  BY NatLessThanWellFounded DEF OpToRel, Less
<1>2. PICK n \in T : \A m \in T : <<m, n>> \notin Less
  BY <1>1, WFMin
<1>3. ASSUME NEW m \in T PROVE n <= m
  <2>1. <<m, n>> \in Nat \X Nat /\ <<m, n>> \notin Less
    BY <1>2, <1>3
  <2> QED BY <2>1 DEF Less
<1> QED BY <1>3

\* A set with 0 that is closed under the successor has all of Nat.
LEMMA Induction ==
  ASSUME NEW T, 0 \in T, \A n \in Nat : n \in T => n + 1 \in T
  PROVE  Nat \subseteq T
<1> SUFFICES ASSUME ~(Nat \subseteq T) PROVE FALSE
  OBVIOUS
<1>1. PICK n \in Nat \ T : \A m \in Nat \ T : n <= m
  BY Least
<1>2. n - 1 \in Nat
  BY <1>1
<1> QED BY <1>1, <1>2

-----------------------------------------------------------------------------
(***************************************************************************)
(* The reader.  What it finds is closed under its rules: a span that       *)
(* follows from spans is one.                                              *)
(***************************************************************************)
\* The recursive function of Spans, as far as n.
IsUpTo(text, n, g) ==
  g = [m \in 0..n |-> IF m = 0 THEN {} ELSE Longer(text, g[m - 1], m)]

\* The recursive definition is satisfied by a function, for every length.
LEMMA UpToExists ==
  ASSUME NEW text
  PROVE  \A n \in Nat : \E g : IsUpTo(text, n, g)
<1> DEFINE T == {n \in Nat : \E g : IsUpTo(text, n, g)}
<1>1. 0 \in T
  <2> DEFINE g == [m \in 0..0 |-> {}]
  <2>1. \A m \in 0..0 : m = 0
    OBVIOUS
  <2>2. IsUpTo(text, 0, g)
    BY <2>1 DEF IsUpTo
  <2> QED BY <2>2
<1>2. ASSUME NEW n \in Nat, n \in T PROVE n + 1 \in T
  <2>1. PICK g : IsUpTo(text, n, g)
    BY <1>2
  <2> DEFINE h == [m \in 0..(n + 1) |-> IF m = n + 1 THEN Longer(text, g[n], n + 1) ELSE g[m]]
             F(m) == IF m = 0 THEN {} ELSE Longer(text, h[m - 1], m)
  <2>2. ASSUME NEW m \in 0..(n + 1) PROVE h[m] = F(m)
    <3>1. CASE m = n + 1
      <4>1. n \in 0..(n + 1) /\ n # n + 1 /\ m # 0 /\ m - 1 = n
        BY <3>1
      <4>2. h[n] = g[n]
        BY <4>1
      <4> QED BY <3>1, <4>1, <4>2
    <3>2. CASE m # n + 1
      <4>1. m \in 0..n /\ h[m] = g[m]
        BY <3>2
      <4>2. g[m] = IF m = 0 THEN {} ELSE Longer(text, g[m - 1], m)
        BY <2>1, <4>1 DEF IsUpTo
      <4>3. CASE m = 0
        BY <4>1, <4>2, <4>3
      <4>4. CASE m # 0
        <5>1. m - 1 \in 0..(n + 1) /\ m - 1 # n + 1
          BY <4>1, <4>4
        <5>2. h[m - 1] = g[m - 1]
          BY <5>1
        <5> QED BY <4>1, <4>2, <4>4, <5>2
      <4> QED BY <4>3, <4>4
    <3> QED BY <3>1, <3>2
  <2>3. h = [m \in 0..(n + 1) |-> F(m)]
    BY <2>2
  <2>4. IsUpTo(text, n + 1, h)
    BY <2>3 DEF IsUpTo
  <2> QED BY <2>4
<1> HIDE DEF T
<1>3. Nat \subseteq T
  BY <1>1, <1>2, Induction
<1> QED BY <1>3 DEF T

\* The spans of a text are what that function has at its length.
LEMMA SpansUpTo ==
  ASSUME NEW text, Len(text) \in Nat
  PROVE  \E g : IsUpTo(text, Len(text), g) /\ Spans(text) = g[Len(text)]
<1> DEFINE g == CHOOSE g : IsUpTo(text, Len(text), g)
<1>1. IsUpTo(text, Len(text), g)
  BY UpToExists
<1>2. Spans(text) = g[Len(text)]
  BY DEF Spans, IsUpTo
<1> QED BY <1>1, <1>2

\* A span is found as soon as its length is looked for, and stays found.
LEMMA FoundInTime ==
  ASSUME NEW text, Len(text) \in Nat, NEW N \in Nat, NEW g, IsUpTo(text, N, g)
  PROVE  /\ \A k \in 0..N : \A m \in 0..k : g[m] \subseteq g[k]
         /\ \A k \in 0..N : \A w, a, b : <<w, a, b>> \in g[k] =>
              a \in Nat /\ b \in Nat /\ b - a + 1 \in 1..k /\ <<w, a, b>> \in g[b - a + 1]
<1>1. \A k \in 0..N : g[k] = IF k = 0 THEN {} ELSE Longer(text, g[k - 1], k)
  BY DEF IsUpTo
<1>2. \A k \in 0..N : \A m \in 0..k : g[m] \subseteq g[k]
  <2> DEFINE T == {k \in Nat : k <= N => \A m \in 0..k : g[m] \subseteq g[k]}
  <2>1. 0 \in T
    OBVIOUS
  <2>2. ASSUME NEW k \in Nat, k \in T PROVE k + 1 \in T
    <3> SUFFICES ASSUME k + 1 <= N, NEW m \in 0..(k + 1) PROVE g[m] \subseteq g[k + 1]
      OBVIOUS
    <3>1. k + 1 \in 0..N /\ k + 1 # 0 /\ (k + 1) - 1 = k /\ k <= N
      OBVIOUS
    <3>2. g[k + 1] = Longer(text, g[k], k + 1)
      BY <1>1, <3>1
    <3>3. g[k] \subseteq g[k + 1]
      BY <3>2 DEF Longer
    <3>4. m = k + 1 \/ m \in 0..k
      OBVIOUS
    <3> QED BY <2>2, <3>1, <3>3, <3>4
  <2> HIDE DEF T
  <2>3. Nat \subseteq T
    BY <2>1, <2>2, Induction
  <2> QED BY <2>3 DEF T
<1>3. \A k \in 0..N : \A w, a, b : <<w, a, b>> \in g[k] =>
        a \in Nat /\ b \in Nat /\ b - a + 1 \in 1..k /\ <<w, a, b>> \in g[b - a + 1]
  <2> DEFINE T == {k \in Nat : k <= N => \A w, a, b : <<w, a, b>> \in g[k] =>
        a \in Nat /\ b \in Nat /\ b - a + 1 \in 1..k /\ <<w, a, b>> \in g[b - a + 1]}
  <2>1. 0 \in T
    <3>1. 0 <= N => g[0] = {}
      BY <1>1
    <3> QED BY <3>1
  <2>2. ASSUME NEW k \in Nat, k \in T PROVE k + 1 \in T
    <3> SUFFICES ASSUME k + 1 <= N, NEW w, NEW a, NEW b, <<w, a, b>> \in g[k + 1]
                 PROVE  /\ a \in Nat /\ b \in Nat /\ b - a + 1 \in 1..(k + 1)
                        /\ <<w, a, b>> \in g[b - a + 1]
      OBVIOUS
    <3>1. k + 1 \in 0..N /\ k + 1 # 0 /\ (k + 1) - 1 = k /\ k <= N
      OBVIOUS
    <3>2. g[k + 1] = Longer(text, g[k], k + 1)
      BY <1>1, <3>1
    <3>3. CASE <<w, a, b>> \in g[k]
      <4>1. a \in Nat /\ b \in Nat /\ b - a + 1 \in 1..k /\ <<w, a, b>> \in g[b - a + 1]
        BY <2>2, <3>1, <3>3
      <4> QED BY <4>1
    <3>4. CASE <<w, a, b>> \notin g[k]
      <4>1. \E i \in 1..(Len(text) - (k + 1) + 1) : a = i /\ b = i + (k + 1) - 1
        BY <3>2, <3>4 DEF Longer
      <4>2. a \in Nat /\ b \in Nat /\ b - a + 1 = k + 1
        BY <4>1
      <4> QED BY <4>2
    <3> QED BY <3>3, <3>4
  <2> HIDE DEF T
  <2>3. Nat \subseteq T
    BY <2>1, <2>2, Induction
  <2> QED BY <2>3 DEF T
<1> QED BY <1>2, <1>3

\* The reader's rules.
LEMMA SpansClosed ==
  ASSUME NEW text, Len(text) \in Nat, NEW i \in 1..Len(text), NEW j \in i..Len(text)
  PROVE  /\ FormsValue(text, Spans(text), i, j) => <<"value", i, j>> \in Spans(text)
         /\ FormsRest(text, Spans(text), i, j) => <<"rest", i, j>> \in Spans(text)
<1>1. PICK g : IsUpTo(text, Len(text), g) /\ Spans(text) = g[Len(text)]
  BY SpansUpTo
<1> DEFINE n == j - i + 1
<1>2. n \in 1..Len(text) /\ n \in 0..Len(text) /\ n # 0 /\ n - 1 \in 0..Len(text)
  OBVIOUS
<1>3. g[n] = Longer(text, g[n - 1], n)
  BY <1>1, <1>2 DEF IsUpTo
<1>4. g[n] \subseteq Spans(text)
  BY <1>1, <1>2, FoundInTime
<1>5. ASSUME NEW w, NEW a, NEW b, <<w, a, b>> \in Spans(text), b - a + 1 < n
      PROVE  <<w, a, b>> \in g[n - 1]
  <2>1. Len(text) \in 0..Len(text)
    OBVIOUS
  <2>2. a \in Nat /\ b \in Nat /\ b - a + 1 \in 1..Len(text) /\ <<w, a, b>> \in g[b - a + 1]
    BY <1>1, <1>5, <2>1, FoundInTime
  <2>3. b - a + 1 \in 0..(n - 1)
    BY <1>2, <1>5, <2>2
  <2> HIDE DEF n
  <2> QED BY <1>1, <1>2, <2>2, <2>3, FoundInTime
<1>6. i \in 1..(Len(text) - n + 1) /\ i + n - 1 = j
  OBVIOUS
<1>7. ASSUME FormsValue(text, Spans(text), i, j) PROVE <<"value", i, j>> \in Spans(text)
  <2>1. FormsValue(text, g[n - 1], i, j)
    <3>1. CASE \E k \in (i + 1)..(j - 1) :
            <<"value", i + 1, k>> \in Spans(text) /\ <<"rest", k + 1, j>> \in Spans(text)
      <4>1. PICK k \in (i + 1)..(j - 1) :
              <<"value", i + 1, k>> \in Spans(text) /\ <<"rest", k + 1, j>> \in Spans(text)
        BY <3>1
      <4>2. k - (i + 1) + 1 < n /\ j - (k + 1) + 1 < n
        OBVIOUS
      <4>3. <<"value", i + 1, k>> \in g[n - 1] /\ <<"rest", k + 1, j>> \in g[n - 1]
        BY <1>5, <4>1, <4>2
      <4> HIDE DEF n
      <4>4. CASE text[i] = "("
        BY <4>3, <4>4 DEF FormsValue
      <4>5. CASE text[i] # "("
        BY <1>7, <4>5 DEF FormsValue
      <4> QED BY <4>4, <4>5
    <3>2. CASE ~\E k \in (i + 1)..(j - 1) :
            <<"value", i + 1, k>> \in Spans(text) /\ <<"rest", k + 1, j>> \in Spans(text)
      BY <1>7, <3>2 DEF FormsValue
    <3> QED BY <3>1, <3>2
  <2>2. <<"value", i, i + n - 1>> \in g[n]
    <3> HIDE DEF n
    <3> QED BY <1>3, <1>6, <2>1 DEF Longer
  <2> QED BY <1>4, <1>6, <2>2
<1>8. ASSUME FormsRest(text, Spans(text), i, j) PROVE <<"rest", i, j>> \in Spans(text)
  <2>1. FormsRest(text, g[n - 1], i, j)
    <3>1. CASE text[i] = ")" /\ i = j
      BY <3>1 DEF FormsRest
    <3>2. CASE text[i] = "." /\ text[j] = ")" /\ <<"value", i + 1, j - 1>> \in Spans(text)
      <4>1. (j - 1) - (i + 1) + 1 < n
        OBVIOUS
      <4>2. <<"value", i + 1, j - 1>> \in g[n - 1]
        BY <1>5, <3>2, <4>1
      <4> HIDE DEF n
      <4> QED BY <3>2, <4>2 DEF FormsRest
    <3>3. CASE \E k \in i..(j - 1) :
            <<"value", i, k>> \in Spans(text) /\ <<"rest", k + 1, j>> \in Spans(text)
      <4>1. PICK k \in i..(j - 1) :
              <<"value", i, k>> \in Spans(text) /\ <<"rest", k + 1, j>> \in Spans(text)
        BY <3>3
      <4>2. k - i + 1 < n /\ j - (k + 1) + 1 < n
        OBVIOUS
      <4>3. <<"value", i, k>> \in g[n - 1] /\ <<"rest", k + 1, j>> \in g[n - 1]
        BY <1>5, <4>1, <4>2
      <4> HIDE DEF n
      <4> QED BY <4>3 DEF FormsRest
    <3> QED BY <1>8, <3>1, <3>2, <3>3 DEF FormsRest
  <2>2. <<"rest", i, i + n - 1>> \in g[n]
    <3> HIDE DEF n
    <3> QED BY <1>3, <1>6, <2>1 DEF Longer
  <2> QED BY <1>4, <1>6, <2>2
<1> QED BY <1>7, <1>8

-----------------------------------------------------------------------------
(***************************************************************************)
(* What a text is so far, whatever text follows it.                        *)
(***************************************************************************)
\* The texts within a line.
Texts == Seq(Tokens \ {"nl"})

\* The texts that begin with T.
Ext(T) == {t \in Texts : Len(T) <= Len(t) /\ \A i \in 1..Len(T) : t[i] = T[i]}

\* The spans the reader finds.
V(t, i, j) == <<"value", i, j>> \in Spans(t)
R(t, i, j) == <<"rest", i, j>> \in Spans(t)

\* What the reader knows of a list that begins at from, at its place m: what it
\* takes from there for the whole list to be a value.
Has(t, from, m, state) ==
  CASE state = "Empty" -> t[from] = "(" /\ m = from + 1
    [] state = "Values" -> \A j \in m..Len(t) : R(t, m, j) => V(t, from, j)
    [] state = "AwaitingTail" ->
         \A j \in m..(Len(t) - 1) : V(t, m, j) /\ t[j + 1] = ")" => V(t, from, j + 1)
    [] state = "Complete" -> m <= Len(t) /\ t[m] = ")" => V(t, from, m)

\* The lists begin at from[1], from[2], ..., and the value in the last of them at
\* the last place of from: in whatever way the value of one ends, the list around
\* it has the state the printer gave it.
Awaits(T, lists, from) ==
  /\ from \in [1..(Len(lists) + 1) -> 1..(Len(T) + 1)] /\ from[1] = 1
  /\ \A k \in 1..Len(lists) : from[k] < from[k + 1]
  /\ \A t \in Ext(T) : \A k \in 1..Len(lists) : \A m \in (from[k + 1] + 1)..(Len(t) + 1) :
       V(t, from[k + 1], m - 1) => Has(t, from[k], m, lists[k])

\* A string or a symbol whose text begins at i.
InAtom(T, atom, i) ==
  /\ i <= Len(T)
  /\ T[i] = (IF atom = "string" THEN "q" ELSE "s")
  /\ \A k \in (i + 1)..Len(T) : T[k] = (IF atom = "string" THEN "c" ELSE "t")

\* Between two values: of the text, of a list.
Between(T, lists, roots) ==
  CASE roots = 0 -> T = <<>> /\ lists = <<>>
    [] roots # 0 /\ lists = <<>> -> T # <<>> /\ \A t \in Ext(T) : V(t, 1, Len(T))
    [] OTHER ->
         \E from \in [1..Len(lists) -> 1..(Len(T) + 1)] :
           /\ Awaits(T, Front(lists), from) /\ from[Len(lists)] <= Len(T)
           /\ \A t \in Ext(T) : Has(t, from[Len(lists)], Len(T) + 1, lists[Len(lists)])

\* The text T is what printer p says of it.  A second root is an error, but one that
\* the printer reports at the end of the value only.
Shape(T, p) ==
  p.roots <= 1 =>
    IF p.atom \in {"string", "number", "name"}
    THEN /\ p.roots = 1
         /\ \E from \in [1..(Len(p.lists) + 1) -> 1..(Len(T) + 1)] :
              Awaits(T, p.lists, from) /\ InAtom(T, p.atom, from[Len(p.lists) + 1])
    ELSE Between(T, p.lists, p.roots)

-----------------------------------------------------------------------------
(***************************************************************************)
(* The inductive invariant.                                                *)
(***************************************************************************)
\* The printers, the ports, the bridge and the executions that there may be.
Printers == [lists : Seq(ListStates), atom : Atoms, skipped : Nat, roots : Nat, held : Texts,
             active : BOOLEAN]
Ports == [kind : Kinds, generation : Nat, values : Nat, result : Results, printer : Printers]
Bridges == [generation : Nat, openKind : Kinds \cup {"none"}, active : BOOLEAN,
            claimed : BOOLEAN, failure : Failures \cup {"none"}]
Execs == [mode : {"Run", "Eval"},
          phase : {"BetweenForms", "AwaitingForm", "EmitEvalValue", "AwaitingEmit", "Done"},
          forms : 0..MaxForms, cancel : BOOLEAN,
          outcome : {"none", "Success", "Failure", "Cancelled"}]

\* Every variable has its type.
Typed ==
  /\ exec \in Execs /\ bridge \in Bridges /\ port \in Ports \cup {NoPort}
  /\ sink \in {"Continue"} \cup Ends
  /\ line \in Texts /\ last \in Texts /\ lines \in Nat /\ events \in 0..MaxEvents

\* A port has the lease on the output, and the execution waits for it.
Leased ==
  port # NoPort => IsOpen(bridge, port) /\ exec.phase \in {"AwaitingForm", "AwaitingEmit"}

\* What was accepted of the line and what the layout holds back are the value so far;
\* between two values there is none.  A port whose output ended was told so by the output.
Printing ==
  port # NoPort =>
    /\ port.result # "Inactive" /\ (port.result \in Ends => sink # "Continue")
    /\ port.result = "Continue" =>
         /\ IF port.printer.active THEN Shape(line \o port.printer.held, port.printer)
            ELSE line = <<>>
         /\ port.kind = "EvalValue" => lines = port.values

\* No step begins within a line.
Whole ==
  exec.phase \in {"BetweenForms", "EmitEvalValue"} /\ sink = "Continue" => line = <<>>

\* Only an execution that is done has an outcome.
Open == exec.phase # "Done" => exec.outcome = "none"

\* All of it.
Inv ==
  /\ Typed /\ Leased /\ Printing /\ Whole /\ Open
  /\ EveryLineIsOneValue /\ SuccessMeansWholeOutput

-----------------------------------------------------------------------------
(***************************************************************************)
(* The reader and a list that is not closed.                               *)
(***************************************************************************)
\* The rules of the reader, one by one.
LEMMA ReaderRules ==
  ASSUME NEW t \in Texts, NEW i \in 1..Len(t), NEW j \in i..Len(t)
  PROVE  /\ t[i] = "a" => V(t, i, i)
         /\ t[i] = "s" /\ (\A k \in (i + 1)..j : t[k] = "t") => V(t, i, j)
         /\ t[i] = "q" /\ t[j] = "q" /\ i < j /\ (\A k \in (i + 1)..(j - 1) : t[k] = "c") =>
              V(t, i, j)
         /\ t[i] = "(" /\ t[j] = ")" /\ j = i + 1 => V(t, i, j)
         /\ \A k \in (i + 1)..(j - 1) :
              t[i] = "(" /\ V(t, i + 1, k) /\ R(t, k + 1, j) => V(t, i, j)
         /\ t[i] = ")" => R(t, i, i)
         /\ t[i] = "." /\ t[j] = ")" /\ V(t, i + 1, j - 1) => R(t, i, j)
         /\ \A k \in i..(j - 1) : V(t, i, k) /\ R(t, k + 1, j) => R(t, i, j)
<1>1. Len(t) \in Nat
  BY LenProperties DEF Texts
<1>2. i \in i..Len(t)
  OBVIOUS
<1>3. /\ FormsValue(t, Spans(t), i, i) => V(t, i, i)
      /\ FormsRest(t, Spans(t), i, i) => R(t, i, i)
      /\ FormsValue(t, Spans(t), i, j) => V(t, i, j)
      /\ FormsRest(t, Spans(t), i, j) => R(t, i, j)
  BY <1>1, <1>2, SpansClosed DEF V, R
<1>4. t[i] = "a" => V(t, i, i)
  BY <1>3 DEF FormsValue
<1>5. t[i] = "s" /\ (\A k \in (i + 1)..j : t[k] = "t") => V(t, i, j)
  BY <1>3 DEF FormsValue
<1>6. t[i] = "q" /\ t[j] = "q" /\ i < j /\ (\A k \in (i + 1)..(j - 1) : t[k] = "c") => V(t, i, j)
  BY <1>3 DEF FormsValue
<1>7. t[i] = "(" /\ t[j] = ")" /\ j = i + 1 => V(t, i, j)
  BY <1>3 DEF FormsValue
<1>8. \A k \in (i + 1)..(j - 1) : t[i] = "(" /\ V(t, i + 1, k) /\ R(t, k + 1, j) => V(t, i, j)
  BY <1>3 DEF FormsValue, V, R
<1>9. t[i] = ")" => R(t, i, i)
  BY <1>3 DEF FormsRest
<1>10. t[i] = "." /\ t[j] = ")" /\ V(t, i + 1, j - 1) => R(t, i, j)
  BY <1>3 DEF FormsRest, V
<1>11. \A k \in i..(j - 1) : V(t, i, k) /\ R(t, k + 1, j) => R(t, i, j)
  BY <1>3 DEF FormsRest, V, R
<1> QED BY <1>4, <1>5, <1>6, <1>7, <1>8, <1>9, <1>10, <1>11

\* A value is the next of the list, or the one after its dot.
LEMMA ListTakes ==
  ASSUME NEW t \in Texts, NEW from \in 1..Len(t), NEW m \in (from + 1)..Len(t),
         NEW state \in ListStates, state # "Complete", Has(t, from, m, state),
         NEW k \in m..Len(t), V(t, m, k)
  PROVE  Has(t, from, k + 1, IF state = "AwaitingTail" THEN "Complete" ELSE "Values")
<1>1. Len(t) \in Nat
  BY LenProperties DEF Texts
<1>2. CASE state = "Empty"
  <2> SUFFICES ASSUME NEW j \in (k + 1)..Len(t), R(t, k + 1, j) PROVE V(t, from, j)
    BY <1>2 DEF Has
  <2>1. t[from] = "(" /\ m = from + 1
    BY <1>2 DEF Has
  <2>2. j \in from..Len(t) /\ k \in (from + 1)..(j - 1)
    BY <1>1
  <2> QED BY <2>1, <2>2, ReaderRules
<1>3. CASE state = "Values"
  <2> SUFFICES ASSUME NEW j \in (k + 1)..Len(t), R(t, k + 1, j) PROVE V(t, from, j)
    BY <1>3 DEF Has
  <2>1. m \in 1..Len(t) /\ j \in m..Len(t) /\ k \in m..(j - 1)
    BY <1>1
  <2>2. R(t, m, j)
    BY <2>1, ReaderRules
  <2> QED BY <1>3, <2>1, <2>2 DEF Has
<1>4. CASE state = "AwaitingTail"
  <2> SUFFICES ASSUME k + 1 <= Len(t), t[k + 1] = ")" PROVE V(t, from, k + 1)
    BY <1>4 DEF Has
  <2>1. k \in m..(Len(t) - 1)
    BY <1>1
  <2> QED BY <1>4, <2>1 DEF Has
<1> QED BY <1>2, <1>3, <1>4 DEF ListStates

\* A list that is not waiting for the value after its dot may be closed.
LEMMA ListCloses ==
  ASSUME NEW t \in Texts, NEW from \in 1..Len(t), NEW m \in (from + 1)..Len(t),
         NEW state \in ListStates, state # "AwaitingTail", Has(t, from, m, state), t[m] = ")"
  PROVE  V(t, from, m)
<1>1. Len(t) \in Nat
  BY LenProperties DEF Texts
<1>2. CASE state = "Empty"
  <2>1. t[from] = "(" /\ m = from + 1 /\ m \in from..Len(t)
    BY <1>1, <1>2 DEF Has
  <2> QED BY <2>1, ReaderRules
<1>3. CASE state = "Values"
  <2>1. m \in 1..Len(t) /\ m \in m..Len(t)
    BY <1>1
  <2>2. R(t, m, m)
    BY <2>1, ReaderRules
  <2> QED BY <1>3, <2>1, <2>2 DEF Has
<1>4. CASE state = "Complete"
  BY <1>4 DEF Has
<1> QED BY <1>2, <1>3, <1>4 DEF ListStates

\* A dot follows a value.
LEMMA ListDots ==
  ASSUME NEW t \in Texts, NEW from \in 1..Len(t), NEW m \in (from + 1)..Len(t),
         Has(t, from, m, "Values"), t[m] = "."
  PROVE  Has(t, from, m + 1, "AwaitingTail")
<1>1. Len(t) \in Nat
  BY LenProperties DEF Texts
<1> SUFFICES ASSUME NEW j \in (m + 1)..(Len(t) - 1), V(t, m + 1, j), t[j + 1] = ")"
             PROVE  V(t, from, j + 1)
  BY DEF Has
<1>2. m \in 1..Len(t) /\ j + 1 \in m..Len(t) /\ (j + 1) - 1 = j
  BY <1>1
<1>3. R(t, m, j + 1)
  BY <1>2, ReaderRules
<1> QED BY <1>2, <1>3 DEF Has

-----------------------------------------------------------------------------
(***************************************************************************)
(* Texts that grow.                                                        *)
(***************************************************************************)
\* What may follow a longer text may follow a shorter one.
LEMMA Grown ==
  ASSUME NEW T \in Texts, NEW u \in Texts
  PROVE  /\ T \o u \in Texts /\ Len(T \o u) = Len(T) + Len(u) /\ Len(T) \in Nat /\ Len(u) \in Nat
         /\ \A i \in 1..Len(T) : (T \o u)[i] = T[i]
         /\ \A i \in 1..Len(u) : (T \o u)[Len(T) + i] = u[i]
         /\ Ext(T \o u) \subseteq Ext(T)
         /\ \A t \in Ext(T \o u) : \A i \in 1..Len(u) : t[Len(T) + i] = u[i]
<1>1. Len(T) \in Nat /\ Len(u) \in Nat
  BY LenProperties DEF Texts
<1>2. T \o u \in Texts /\ Len(T \o u) = Len(T) + Len(u)
  BY ConcatProperties DEF Texts
<1>3. \A i \in 1..(Len(T) + Len(u)) : (T \o u)[i] = IF i <= Len(T) THEN T[i] ELSE u[i - Len(T)]
  BY ConcatProperties DEF Texts
<1>4. \A i \in 1..Len(T) : (T \o u)[i] = T[i]
  BY <1>1, <1>3
<1>5. \A i \in 1..Len(u) : (T \o u)[Len(T) + i] = u[i]
  <2> TAKE i \in 1..Len(u)
  <2>1. Len(T) + i \in 1..(Len(T) + Len(u)) /\ ~(Len(T) + i <= Len(T)) /\ Len(T) + i - Len(T) = i
    BY <1>1
  <2> QED BY <1>3, <2>1
<1>6. ASSUME NEW t \in Ext(T \o u)
      PROVE  t \in Ext(T) /\ \A i \in 1..Len(u) : t[Len(T) + i] = u[i]
  <2>1. /\ t \in Texts /\ Len(T) + Len(u) <= Len(t)
        /\ \A i \in 1..(Len(T) + Len(u)) : t[i] = (T \o u)[i]
    BY <1>2 DEF Ext
  <2>2. Len(t) \in Nat
    BY <2>1, LenProperties DEF Texts
  <2>3. t \in Ext(T)
    BY <1>1, <1>4, <2>1, <2>2 DEF Ext
  <2>4. \A i \in 1..Len(u) : t[Len(T) + i] = u[i]
    BY <1>1, <1>5, <2>1
  <2> QED BY <2>3, <2>4
<1> QED BY <1>1, <1>2, <1>4, <1>5, <1>6

\* A text that is one token.
LEMMA OneToken ==
  ASSUME NEW x \in Tokens \ {"nl"}
  PROVE  <<x>> \in Texts /\ Len(<<x>>) = 1 /\ <<x>>[1] = x
BY DEF Texts

\* A token that is added.
LEMMA GrownByOne ==
  ASSUME NEW T \in Texts, NEW x \in Tokens \ {"nl"}
  PROVE  /\ T \o <<x>> \in Texts /\ Len(T \o <<x>>) = Len(T) + 1 /\ Len(T) \in Nat
         /\ T \o <<x>> # <<>>
         /\ (T \o <<x>>)[Len(T) + 1] = x /\ \A i \in 1..Len(T) : (T \o <<x>>)[i] = T[i]
         /\ Ext(T \o <<x>>) \subseteq Ext(T)
         /\ \A t \in Ext(T \o <<x>>) : t[Len(T) + 1] = x /\ t \in Texts /\ Len(T) + 1 <= Len(t)
<1>1. <<x>> \in Texts /\ Len(<<x>>) = 1 /\ <<x>>[1] = x /\ 1 \in 1..Len(<<x>>)
  BY OneToken
<1>2. /\ T \o <<x>> \in Texts /\ Len(T \o <<x>>) = Len(T) + 1 /\ Len(T) \in Nat
      /\ (T \o <<x>>)[Len(T) + 1] = x /\ \A i \in 1..Len(T) : (T \o <<x>>)[i] = T[i]
      /\ Ext(T \o <<x>>) \subseteq Ext(T)
      /\ \A t \in Ext(T \o <<x>>) : t[Len(T) + 1] = x
  BY <1>1, Grown
<1>3. T \o <<x>> # <<>>
  <2> SUFFICES ASSUME T \o <<x>> = <<>> PROVE FALSE
    OBVIOUS
  <2>1. Len(<<>>) = 0
    OBVIOUS
  <2> QED BY <1>2, <2>1
<1>4. \A t \in Ext(T \o <<x>>) : t \in Texts /\ Len(T) + 1 <= Len(t)
  BY <1>2 DEF Ext
<1> QED BY <1>2, <1>3, <1>4

-----------------------------------------------------------------------------
(***************************************************************************)
(* Values begin and end.                                                   *)
(***************************************************************************)
\* The lists when a value is placed in the last of them.
Placed(lists) ==
  IF lists = <<>> THEN lists
  ELSE [lists EXCEPT ![Len(lists)] = IF @ = "AwaitingTail" THEN "Complete" ELSE "Values"]

\* A list of lists that is not empty, and what is left without the last.
LEMMA FrontOf ==
  ASSUME NEW lists \in Seq(ListStates), lists # <<>>
  PROVE  /\ Len(lists) \in Nat \ {0} /\ lists[Len(lists)] \in ListStates
         /\ Front(lists) \in Seq(ListStates) /\ Len(Front(lists)) = Len(lists) - 1
         /\ \A k \in 1..(Len(lists) - 1) : Front(lists)[k] = lists[k]
         /\ Placed(lists) \in Seq(ListStates) /\ Len(Placed(lists)) = Len(lists)
         /\ \A k \in 1..(Len(lists) - 1) : Placed(lists)[k] = lists[k]
         /\ Placed(lists)[Len(lists)] =
              IF lists[Len(lists)] = "AwaitingTail" THEN "Complete" ELSE "Values"
<1>1. Len(lists) \in Nat \ {0}
  BY EmptySeq
<1>2. lists[Len(lists)] \in ListStates /\ \A i \in 1..Len(lists) : lists[i] \in ListStates
  BY <1>1, ElementOfSeq
<1> DEFINE n == Len(lists) - 1
<1>3. n \in Nat /\ 1 \in Int /\ n \in Int /\ \A i \in 1..n : lists[i] \in ListStates
  BY <1>1, <1>2
<1>4. Front(lists) = SubSeq(lists, 1, n)
  BY DEF Front
<1>5. /\ SubSeq(lists, 1, n) \in Seq(ListStates)
      /\ Len(SubSeq(lists, 1, n)) = IF 1 <= n THEN n - 1 + 1 ELSE 0
      /\ \A i \in 1..(n - 1 + 1) : SubSeq(lists, 1, n)[i] = lists[1 + i - 1]
  <2> HIDE DEF n
  <2> QED BY <1>3, SubSeqProperties
<1>6. Len(Front(lists)) = n /\ \A k \in 1..n : Front(lists)[k] = lists[k]
  <2>1. n - 1 + 1 = n /\ \A k \in 1..n : 1 + k - 1 = k
    BY <1>3
  <2> HIDE DEF n
  <2>2. 1 <= n \/ n = 0
    BY <1>3
  <2> QED BY <1>4, <1>5, <2>1, <2>2
<1> DEFINE s == IF lists[Len(lists)] = "AwaitingTail" THEN "Complete" ELSE "Values"
<1>7. Placed(lists) = [lists EXCEPT ![Len(lists)] = s]
  BY DEF Placed
<1>8. s \in ListStates
  BY DEF ListStates
<1>9. /\ Placed(lists) \in Seq(ListStates) /\ Len(Placed(lists)) = Len(lists)
      /\ \A k \in 1..Len(lists) : Placed(lists)[k] = IF k = Len(lists) THEN s ELSE lists[k]
  <2> HIDE DEF s
  <2>1. Len(lists) \in 1..Len(lists)
    BY <1>1
  <2> QED BY <1>7, <1>8, <2>1, ExceptSeq
<1>10. Placed(lists)[Len(lists)] = s /\ \A k \in 1..n : Placed(lists)[k] = lists[k]
  BY <1>1, <1>9
<1> QED BY <1>1, <1>2, <1>4, <1>5, <1>6, <1>9, <1>10

\* A longer text awaits what the shorter one did.
LEMMA AwaitsGrown ==
  ASSUME NEW T \in Texts, NEW u \in Texts, NEW lists \in Seq(ListStates), NEW from,
         Awaits(T, lists, from)
  PROVE  /\ Awaits(T \o u, lists, from)
         /\ from \in [1..(Len(lists) + 1) -> 1..(Len(T \o u) + 1)]
<1>1. /\ Len(T \o u) = Len(T) + Len(u) /\ Len(T) \in Nat /\ Len(u) \in Nat
      /\ Ext(T \o u) \subseteq Ext(T)
  BY Grown
<1>2. from \in [1..(Len(lists) + 1) -> 1..(Len(T) + 1)]
  BY DEF Awaits
<1>3. from \in [1..(Len(lists) + 1) -> 1..(Len(T \o u) + 1)]
  BY <1>1, <1>2
<1>4. \A t \in Ext(T \o u) : \A k \in 1..Len(lists) : \A m \in (from[k + 1] + 1)..(Len(t) + 1) :
        V(t, from[k + 1], m - 1) => Has(t, from[k], m, lists[k])
  BY <1>1 DEF Awaits
<1> QED BY <1>3, <1>4 DEF Awaits

\* Between two values the next one may begin: the printer's check of the last list is the
\* reader's.
LEMMA Placing ==
  ASSUME NEW T \in Texts, NEW lists \in Seq(ListStates), NEW roots \in Nat,
         Between(T, lists, roots), lists = <<>> => roots = 0,
         lists # <<>> => lists[Len(lists)] # "Complete"
  PROVE  \E from \in [1..(Len(Placed(lists)) + 1) -> 1..(Len(T) + 1)] :
           Awaits(T, Placed(lists), from) /\ from[Len(Placed(lists)) + 1] = Len(T) + 1
<1>1. Len(T) \in Nat
  BY LenProperties DEF Texts
<1>2. CASE lists = <<>>
  <2> DEFINE from == [i \in 1..1 |-> 1]
  <2>1. T = <<>> /\ Placed(lists) = <<>> /\ Len(T) = 0 /\ Len(Placed(lists)) = 0
    BY <1>2 DEF Between, Placed
  <2>2. from \in [1..(Len(Placed(lists)) + 1) -> 1..(Len(T) + 1)] /\ from[1] = 1
    BY <2>1
  <2> HIDE DEF from
  <2>3. Awaits(T, Placed(lists), from)
    BY <2>1, <2>2 DEF Awaits
  <2> QED BY <2>1, <2>2, <2>3
<1>3. CASE lists # <<>>
  <2> DEFINE D == Len(lists)
  <2>1. /\ D \in Nat \ {0} /\ lists[D] \in ListStates
        /\ Front(lists) \in Seq(ListStates) /\ Len(Front(lists)) = D - 1
        /\ \A k \in 1..(D - 1) : Front(lists)[k] = lists[k]
        /\ Len(Placed(lists)) = D
        /\ \A k \in 1..(D - 1) : Placed(lists)[k] = lists[k]
        /\ Placed(lists)[D] = IF lists[D] = "AwaitingTail" THEN "Complete" ELSE "Values"
    BY <1>3, FrontOf
  <2>2. PICK old \in [1..D -> 1..(Len(T) + 1)] :
          /\ Awaits(T, Front(lists), old) /\ old[D] <= Len(T)
          /\ \A t \in Ext(T) : Has(t, old[D], Len(T) + 1, lists[D])
    BY <1>3 DEF Between
  <2> DEFINE from == [i \in 1..(D + 1) |-> IF i = D + 1 THEN Len(T) + 1 ELSE old[i]]
  <2> HIDE DEF D
  <2>3. \A i \in 1..D : from[i] = old[i] /\ old[i] \in 1..(Len(T) + 1)
    BY <2>1
  <2>4. from[D + 1] = Len(T) + 1 /\ Len(T) + 1 \in 1..(Len(T) + 1)
    BY <1>1, <2>1
  <2>5. from \in [1..(D + 1) -> 1..(Len(T) + 1)]
    BY <2>1, <2>2, <2>4
  <2> HIDE DEF from
  <2>6. /\ (D - 1) + 1 = D /\ old[1] = 1
        /\ \A k \in 1..(D - 1) : old[k] < old[k + 1]
        /\ \A t \in Ext(T) : \A k \in 1..(D - 1) : \A m \in (old[k + 1] + 1)..(Len(t) + 1) :
             V(t, old[k + 1], m - 1) => Has(t, old[k], m, Front(lists)[k])
    BY <2>1, <2>2 DEF Awaits
  <2>7. from[1] = 1
    BY <2>1, <2>3, <2>6
  <2>8. ASSUME NEW k \in 1..D PROVE from[k] < from[k + 1]
    <3>1. CASE k = D
      BY <1>1, <2>1, <2>2, <2>3, <2>4, <3>1
    <3>2. CASE k # D
      <4>1. k \in 1..(D - 1) /\ k \in 1..D /\ k + 1 \in 1..D
        BY <2>1, <3>2
      <4> QED BY <2>3, <2>6, <4>1
    <3> QED BY <3>1, <3>2
  <2>9. ASSUME NEW t \in Ext(T), NEW k \in 1..D, NEW m \in (from[k + 1] + 1)..(Len(t) + 1),
               V(t, from[k + 1], m - 1)
        PROVE  Has(t, from[k], m, Placed(lists)[k])
    <3>1. CASE k = D
      <4>1. t \in Texts /\ Len(t) \in Nat
        BY LenProperties DEF Ext, Texts
      <4>2. from[D] \in 1..(Len(T) + 1) /\ from[D] <= Len(T) /\ from[D + 1] = Len(T) + 1
        BY <2>1, <2>2, <2>3, <2>4
      <4>3. /\ from[D] \in 1..Len(t) /\ Len(T) + 1 \in (from[D] + 1)..Len(t)
            /\ m - 1 \in (Len(T) + 1)..Len(t) /\ (m - 1) + 1 = m
        BY <1>1, <2>9, <3>1, <4>1, <4>2
      <4>4. Has(t, from[D], Len(T) + 1, lists[D]) /\ V(t, Len(T) + 1, m - 1)
        BY <2>1, <2>2, <2>3, <2>9, <3>1, <4>2
      <4>5. lists[D] # "Complete"
        BY <1>3 DEF D
      <4>6. Has(t, from[D], (m - 1) + 1, IF lists[D] = "AwaitingTail" THEN "Complete" ELSE "Values")
        BY <2>1, <4>1, <4>3, <4>4, <4>5, ListTakes
      <4> QED BY <2>1, <3>1, <4>3, <4>6
    <3>2. CASE k # D
      <4>1. k \in 1..(D - 1) /\ k \in 1..D /\ k + 1 \in 1..D
        BY <2>1, <3>2
      <4>2. /\ from[k] = old[k] /\ from[k + 1] = old[k + 1]
            /\ Placed(lists)[k] = Front(lists)[k]
        BY <2>1, <2>3, <4>1
      <4> QED BY <2>6, <2>9, <4>1, <4>2
    <3> QED BY <3>1, <3>2
  <2>10. Awaits(T, Placed(lists), from)
    BY <2>1, <2>5, <2>7, <2>8, <2>9 DEF Awaits
  <2> QED BY <2>1, <2>4, <2>5, <2>10
<1> QED BY <1>2, <1>3

\* When a value has ended, the list it is in is between two values again.
LEMMA Closing ==
  ASSUME NEW T \in Texts, NEW lists \in Seq(ListStates), NEW roots \in Nat \ {0},
         NEW from, Awaits(T, lists, from), from[Len(lists) + 1] <= Len(T),
         \A t \in Ext(T) : V(t, from[Len(lists) + 1], Len(T))
  PROVE  Between(T, lists, roots)
<1>1. Len(T) \in Nat
  BY LenProperties DEF Texts
<1>2. /\ from \in [1..(Len(lists) + 1) -> 1..(Len(T) + 1)] /\ from[1] = 1
      /\ \A k \in 1..Len(lists) : from[k] < from[k + 1]
      /\ \A t \in Ext(T) : \A k \in 1..Len(lists) : \A m \in (from[k + 1] + 1)..(Len(t) + 1) :
           V(t, from[k + 1], m - 1) => Has(t, from[k], m, lists[k])
  BY DEF Awaits
<1>3. CASE lists = <<>>
  <2>1. Len(lists) + 1 = 1
    BY <1>3
  <2>2. \A t \in Ext(T) : V(t, 1, Len(T))
    BY <1>2, <2>1
  <2>3. T # <<>>
    <3>1. 1 <= Len(T) /\ Len(<<>>) = 0
      BY <1>2, <2>1
    <3> QED BY <3>1
  <2> QED BY <1>3, <2>2, <2>3 DEF Between
<1>4. CASE lists # <<>>
  <2> DEFINE D == Len(lists)
             older == [i \in 1..D |-> from[i]]
  <2>1. /\ D \in Nat \ {0} /\ Len(Front(lists)) = D - 1 /\ Front(lists) \in Seq(ListStates)
        /\ \A k \in 1..(D - 1) : Front(lists)[k] = lists[k]
    BY <1>4, FrontOf
  <2> HIDE DEF D
  <2>2. \A i \in 1..D : older[i] = from[i] /\ from[i] \in 1..(Len(T) + 1)
    <3>1. from \in [1..(D + 1) -> 1..(Len(T) + 1)]
      BY <1>2 DEF D
    <3>2. \A i \in 1..D : i \in 1..(D + 1)
      BY <2>1
    <3> QED BY <3>1, <3>2
  <2>3. older \in [1..D -> 1..(Len(T) + 1)]
    BY <2>2
  <2> HIDE DEF older
  <2>4. older[1] = 1 /\ older[D] = from[D] /\ (D - 1) + 1 = D
    BY <1>2, <2>1, <2>2
  <2>5. \A k \in 1..(D - 1) : k \in 1..D /\ k + 1 \in 1..D
    BY <2>1
  <2>6. \A k \in 1..(D - 1) : older[k] < older[k + 1]
    BY <1>2, <2>2, <2>5 DEF D
  <2>7. \A t \in Ext(T) : \A k \in 1..(D - 1) : \A m \in (older[k + 1] + 1)..(Len(t) + 1) :
          V(t, older[k + 1], m - 1) => Has(t, older[k], m, Front(lists)[k])
    BY <1>2, <2>1, <2>2, <2>5 DEF D
  <2>8. Awaits(T, Front(lists), older)
    BY <2>1, <2>3, <2>4, <2>6, <2>7 DEF Awaits
  <2>9. D \in 1..D /\ D + 1 \in 1..(D + 1)
    BY <2>1
  <2>10. from[D] < from[D + 1] /\ from[D + 1] <= Len(T) /\ from[D + 1] \in Nat /\ from[D] \in Nat
    BY <1>2, <2>9 DEF D
  <2>11. older[D] <= Len(T)
    BY <1>1, <2>4, <2>10
  <2>12. ASSUME NEW t \in Ext(T) PROVE Has(t, older[D], Len(T) + 1, lists[D])
    <3>1. Len(t) \in Nat /\ Len(T) <= Len(t)
      BY LenProperties DEF Ext, Texts
    <3>2. Len(T) + 1 \in (from[D + 1] + 1)..(Len(t) + 1) /\ (Len(T) + 1) - 1 = Len(T)
      BY <1>1, <2>10, <3>1
    <3>3. V(t, from[D + 1], Len(T))
      BY DEF D
    <3> QED BY <1>2, <2>4, <2>9, <3>2, <3>3 DEF D
  <2> QED BY <1>4, <2>3, <2>8, <2>11, <2>12 DEF Between, D
<1> QED BY <1>3, <1>4

-----------------------------------------------------------------------------
(***************************************************************************)
(* The printer: what it prints has the shape it keeps of it.               *)
(***************************************************************************)
\* A placed value changes the last list, or is a root.
LEMMA PlaceIs ==
  ASSUME NEW p \in Printers
  PROVE  /\ Place(p) \in Printers
         /\ Place(p).lists = Placed(p.lists)
         /\ Place(p).roots = IF p.lists = <<>> THEN p.roots + 1 ELSE p.roots
         /\ Place(p).atom = p.atom /\ Place(p).skipped = p.skipped
         /\ Place(p).held = p.held /\ Place(p).active = p.active
<1>1. p.lists \in Seq(ListStates) /\ p.roots \in Nat
  BY DEF Printers
<1>2. CASE p.lists = <<>>
  <2>1. Place(p) = [p EXCEPT !.roots = @ + 1] /\ Placed(p.lists) = p.lists
    BY <1>2 DEF Place, Placed
  <2>2. p.roots + 1 \in Nat
    BY <1>1
  <2> QED BY <1>2, <2>1, <2>2 DEF Printers
<1>3. CASE p.lists # <<>>
  <2>1. Place(p) = [p EXCEPT !.lists = Placed(p.lists)]
    BY <1>3 DEF Place, Placed, Printers
  <2>2. Placed(p.lists) \in Seq(ListStates)
    BY <1>1, <1>3, FrontOf
  <2> QED BY <1>3, <2>1, <2>2 DEF Printers
<1> QED BY <1>2, <1>3

\* The text goes on where a value may be placed.
LEMMA PlacesAt ==
  ASSUME NEW p \in Printers, NEW T \in Texts, Shape(T, p), p.atom \in {"none", "symbol"},
         MayPlace(p), Place(p).roots <= 1
  PROVE  /\ Place(p).roots = 1
         /\ \E from \in [1..(Len(Placed(p.lists)) + 1) -> 1..(Len(T) + 1)] :
              Awaits(T, Placed(p.lists), from) /\ from[Len(Placed(p.lists)) + 1] = Len(T) + 1
<1>1. p.lists \in Seq(ListStates) /\ p.roots \in Nat
  BY DEF Printers
<1>2. Place(p).roots = IF p.lists = <<>> THEN p.roots + 1 ELSE p.roots
  BY PlaceIs
<1>3. p.roots <= 1 /\ (p.lists = <<>> => p.roots = 0)
  BY <1>1, <1>2
<1>4. Between(T, p.lists, p.roots)
  BY <1>3 DEF Shape
<1>5. p.lists # <<>> => p.roots = 1
  BY <1>1, <1>3, <1>4 DEF Between
<1>6. p.lists # <<>> => p.lists[Len(p.lists)] # "Complete"
  BY DEF MayPlace
<1> QED BY <1>1, <1>2, <1>3, <1>4, <1>5, <1>6, Placing

\* A value that is printed at once: it is placed, and has ended.
LEMMA ValueShape ==
  ASSUME NEW p \in Printers, NEW T \in Texts, Shape(T, p), p.atom \in {"none", "symbol"},
         MayPlace(p), NEW q, q.lists = Placed(p.lists), q.roots = Place(p).roots, q.atom = "none"
  PROVE  Shape(T \o <<"a">>, q)
<1> SUFFICES ASSUME q.roots <= 1 PROVE Between(T \o <<"a">>, q.lists, q.roots)
  BY DEF Shape
<1> DEFINE U == T \o <<"a">>
<1>1. PICK from \in [1..(Len(q.lists) + 1) -> 1..(Len(T) + 1)] :
        Awaits(T, q.lists, from) /\ from[Len(q.lists) + 1] = Len(T) + 1
  BY PlacesAt
<1>2. q.roots = 1 /\ q.roots \in Nat \ {0}
  BY PlacesAt
<1>3. Place(p) \in Printers /\ q.lists \in Seq(ListStates)
  BY PlaceIs DEF Printers
<1>4. "a" \in Tokens \ {"nl"}
  BY DEF Tokens
<1>5. /\ U \in Texts /\ Len(U) = Len(T) + 1 /\ Len(T) \in Nat
      /\ \A t \in Ext(U) : t[Len(T) + 1] = "a" /\ t \in Texts /\ Len(T) + 1 <= Len(t)
  BY <1>4, GrownByOne
<1>6. Awaits(U, q.lists, from)
  BY <1>1, <1>3, <1>4, OneToken, AwaitsGrown
<1>7. ASSUME NEW t \in Ext(U) PROVE V(t, from[Len(q.lists) + 1], Len(U))
  <2>1. t \in Texts /\ Len(t) \in Nat /\ t[Len(T) + 1] = "a" /\ Len(T) + 1 <= Len(t)
    BY <1>5, LenProperties DEF Texts
  <2>2. Len(T) + 1 \in 1..Len(t) /\ Len(T) + 1 \in (Len(T) + 1)..Len(t)
    BY <1>5, <2>1
  <2>3. V(t, Len(T) + 1, Len(T) + 1)
    BY <2>1, <2>2, ReaderRules
  <2> QED BY <1>1, <1>5, <2>3
<1>8. from[Len(q.lists) + 1] <= Len(U)
  BY <1>1, <1>5
<1> HIDE DEF U
<1>9. Between(U, q.lists, q.roots)
  BY <1>2, <1>3, <1>5, <1>6, <1>7, <1>8, Closing
<1> QED BY <1>9 DEF U

\* A list begins: it is placed, and awaits its first value.
LEMMA ListBeginsShape ==
  ASSUME NEW p \in Printers, NEW T \in Texts, Shape(T, p), p.atom = "none", MayPlace(p),
         NEW q, q.lists = Append(Placed(p.lists), "Empty"), q.roots = Place(p).roots,
         q.atom = "none"
  PROVE  Shape(T \o <<"(">>, q)
<1> SUFFICES ASSUME q.roots <= 1 PROVE Between(T \o <<"(">>, q.lists, q.roots)
  BY DEF Shape
<1> DEFINE U == T \o <<"(">>
           placed == Placed(p.lists)
<1>1. PICK from \in [1..(Len(placed) + 1) -> 1..(Len(T) + 1)] :
        Awaits(T, placed, from) /\ from[Len(placed) + 1] = Len(T) + 1
  BY PlacesAt
<1>2. q.roots = 1 /\ q.roots # 0
  BY PlacesAt
<1>3. placed \in Seq(ListStates)
  BY PlaceIs DEF Printers
<1> HIDE DEF placed
<1>4. "(" \in Tokens \ {"nl"} /\ "Empty" \in ListStates
  BY DEF Tokens, ListStates
<1>5. /\ U \in Texts /\ Len(U) = Len(T) + 1 /\ Len(T) \in Nat
      /\ \A t \in Ext(U) : t[Len(T) + 1] = "(" /\ t \in Texts /\ Len(T) + 1 <= Len(t)
  BY <1>4, GrownByOne
<1>6. Awaits(U, placed, from) /\ from \in [1..(Len(placed) + 1) -> 1..(Len(U) + 1)]
  BY <1>1, <1>3, <1>4, OneToken, AwaitsGrown
<1>7. /\ q.lists \in Seq(ListStates) /\ q.lists # <<>> /\ Len(q.lists) = Len(placed) + 1
      /\ q.lists[Len(placed) + 1] = "Empty"
      /\ \A k \in 1..Len(placed) : q.lists[k] = placed[k]
  BY <1>3, <1>4, AppendProperties DEF placed
<1>8. Front(q.lists) = placed
  <2>1. /\ Front(q.lists) \in Seq(ListStates) /\ Len(Front(q.lists)) = Len(q.lists) - 1
        /\ \A k \in 1..(Len(q.lists) - 1) : Front(q.lists)[k] = q.lists[k]
    BY <1>7, FrontOf
  <2>2. Len(placed) \in Nat /\ Len(q.lists) - 1 = Len(placed)
    BY <1>3, <1>7, LenProperties
  <2> QED BY <1>3, <1>7, <2>1, <2>2, SeqEqual
<1>9. \A t \in Ext(U) : Has(t, from[Len(q.lists)], Len(U) + 1, q.lists[Len(q.lists)])
  BY <1>1, <1>5, <1>7 DEF Has
<1>10. from[Len(q.lists)] <= Len(U)
  BY <1>1, <1>5, <1>7
<1> HIDE DEF U
<1>11. Between(U, q.lists, q.roots)
  BY <1>2, <1>6, <1>7, <1>8, <1>9, <1>10 DEF Between
<1> QED BY <1>11 DEF U

\* What there is of the last list, if there is one.
LEMMA LastList ==
  ASSUME NEW p \in Printers, NEW T \in Texts, Shape(T, p), p.atom = "none", p.roots <= 1,
         p.lists # <<>>
  PROVE  /\ p.roots = 1
         /\ \E from \in [1..Len(p.lists) -> 1..(Len(T) + 1)] :
              /\ Awaits(T, Front(p.lists), from) /\ from[Len(p.lists)] <= Len(T)
              /\ \A t \in Ext(T) :
                   Has(t, from[Len(p.lists)], Len(T) + 1, p.lists[Len(p.lists)])
<1>1. p.lists \in Seq(ListStates) /\ p.roots \in Nat
  BY DEF Printers
<1>2. Between(T, p.lists, p.roots)
  BY DEF Shape
<1>3. p.roots # 0
  BY <1>2 DEF Between
<1> QED BY <1>1, <1>2, <1>3 DEF Between

\* A list ends: it is a value of the list around it.
LEMMA ListEndsShape ==
  ASSUME NEW p \in Printers, NEW T \in Texts, Shape(T, p), p.atom = "none", p.lists # <<>>,
         p.lists[Len(p.lists)] # "AwaitingTail",
         NEW q, q.lists = Front(p.lists), q.roots = p.roots, q.atom = "none"
  PROVE  Shape(T \o <<")">>, q)
<1> SUFFICES ASSUME q.roots <= 1 PROVE Between(T \o <<")">>, q.lists, q.roots)
  BY DEF Shape
<1> DEFINE U == T \o <<")">>
           D == Len(p.lists)
<1>1. /\ p.roots = 1
      /\ \E from \in [1..D -> 1..(Len(T) + 1)] :
           /\ Awaits(T, Front(p.lists), from) /\ from[D] <= Len(T)
           /\ \A t \in Ext(T) : Has(t, from[D], Len(T) + 1, p.lists[D])
  BY LastList
<1>2. PICK from \in [1..D -> 1..(Len(T) + 1)] :
        /\ Awaits(T, Front(p.lists), from) /\ from[D] <= Len(T)
        /\ \A t \in Ext(T) : Has(t, from[D], Len(T) + 1, p.lists[D])
  BY <1>1
<1>3. D \in Nat \ {0} /\ p.lists[D] \in ListStates /\ Front(p.lists) \in Seq(ListStates)
      /\ Len(Front(p.lists)) = D - 1
  BY FrontOf DEF Printers
<1>4. q.roots \in Nat \ {0} /\ q.lists \in Seq(ListStates) /\ Len(q.lists) + 1 = D
  <2> HIDE DEF D
  <2> QED BY <1>1, <1>3
<1>5. ")" \in Tokens \ {"nl"}
  BY DEF Tokens
<1>6. /\ U \in Texts /\ Len(U) = Len(T) + 1 /\ Len(T) \in Nat /\ Ext(U) \subseteq Ext(T)
      /\ \A t \in Ext(U) : t[Len(T) + 1] = ")" /\ t \in Texts /\ Len(T) + 1 <= Len(t)
  BY <1>5, GrownByOne
<1>7. Awaits(U, q.lists, from)
  BY <1>2, <1>4, <1>5, OneToken, AwaitsGrown
<1>8. p.lists[D] # "AwaitingTail"
  OBVIOUS
<1> HIDE DEF D, U
<1>9. ASSUME NEW t \in Ext(U) PROVE V(t, from[D], Len(U))
  <2>1. t \in Texts /\ Len(t) \in Nat /\ t[Len(T) + 1] = ")" /\ Len(T) + 1 <= Len(t)
    BY <1>6, LenProperties DEF Texts
  <2>2. from[D] \in Nat /\ 1 <= from[D] /\ from[D] <= Len(T)
    BY <1>2, <1>3
  <2>3. from[D] \in 1..Len(t) /\ Len(T) + 1 \in (from[D] + 1)..Len(t)
    BY <1>6, <2>1, <2>2
  <2>4. Has(t, from[D], Len(T) + 1, p.lists[D])
    BY <1>2, <1>6
  <2> QED BY <1>3, <1>6, <1>8, <2>1, <2>3, <2>4, ListCloses
<1>10. from[D] <= Len(U)
  <2>1. from[D] \in Nat /\ from[D] <= Len(T)
    BY <1>2, <1>3
  <2> QED BY <1>6, <2>1
<1>11. Between(U, q.lists, q.roots)
  BY <1>4, <1>6, <1>7, <1>9, <1>10, Closing
<1> QED BY <1>11 DEF U

\* A dot in a list.
LEMMA DotShape ==
  ASSUME NEW p \in Printers, NEW T \in Texts, Shape(T, p), p.atom = "none", p.lists # <<>>,
         p.lists[Len(p.lists)] = "Values",
         NEW q, q.lists = [p.lists EXCEPT ![Len(p.lists)] = "AwaitingTail"], q.roots = p.roots,
         q.atom = "none"
  PROVE  Shape(T \o <<".">>, q)
<1> SUFFICES ASSUME q.roots <= 1 PROVE Between(T \o <<".">>, q.lists, q.roots)
  BY DEF Shape
<1> DEFINE U == T \o <<".">>
           D == Len(p.lists)
<1>1. /\ p.roots = 1
      /\ \E from \in [1..D -> 1..(Len(T) + 1)] :
           /\ Awaits(T, Front(p.lists), from) /\ from[D] <= Len(T)
           /\ \A t \in Ext(T) : Has(t, from[D], Len(T) + 1, p.lists[D])
  BY LastList
<1>2. PICK from \in [1..D -> 1..(Len(T) + 1)] :
        /\ Awaits(T, Front(p.lists), from) /\ from[D] <= Len(T)
        /\ \A t \in Ext(T) : Has(t, from[D], Len(T) + 1, p.lists[D])
  BY <1>1
<1>3. /\ D \in Nat \ {0} /\ Front(p.lists) \in Seq(ListStates) /\ Len(Front(p.lists)) = D - 1
      /\ \A k \in 1..(D - 1) : Front(p.lists)[k] = p.lists[k]
  BY FrontOf DEF Printers
<1>4. p.lists \in Seq(ListStates) /\ "AwaitingTail" \in ListStates /\ p.lists[D] = "Values"
  BY DEF Printers, ListStates
<1>5. /\ q.lists \in Seq(ListStates) /\ Len(q.lists) = D
      /\ \A k \in 1..D : q.lists[k] = IF k = D THEN "AwaitingTail" ELSE p.lists[k]
  <2>1. D \in 1..D
    <3> HIDE DEF D
    <3> QED BY <1>3
  <2> QED BY <1>4, <2>1, ExceptSeq
<1> HIDE DEF D
<1>6. q.lists # <<>> /\ q.lists[D] = "AwaitingTail" /\ \A k \in 1..(D - 1) : q.lists[k] = p.lists[k]
  BY <1>3, <1>5
<1>7. Front(q.lists) = Front(p.lists)
  <2>1. /\ Front(q.lists) \in Seq(ListStates) /\ Len(Front(q.lists)) = D - 1
        /\ \A k \in 1..(D - 1) : Front(q.lists)[k] = q.lists[k]
    BY <1>5, <1>6, FrontOf
  <2>2. /\ Len(Front(q.lists)) = Len(Front(p.lists))
        /\ \A i \in 1..Len(Front(q.lists)) : Front(q.lists)[i] = Front(p.lists)[i]
    BY <1>3, <1>6, <2>1
  <2> QED BY <1>3, <2>1, <2>2, SeqEqual
<1>8. "." \in Tokens \ {"nl"}
  BY DEF Tokens
<1>9. /\ U \in Texts /\ Len(U) = Len(T) + 1 /\ Len(T) \in Nat /\ Ext(U) \subseteq Ext(T)
      /\ \A t \in Ext(U) : t[Len(T) + 1] = "." /\ t \in Texts /\ Len(T) + 1 <= Len(t)
  BY <1>8, GrownByOne
<1>10. Awaits(U, Front(p.lists), from)
  BY <1>2, <1>3, <1>8, OneToken, AwaitsGrown
<1> HIDE DEF U
<1>11. from[D] \in Nat /\ 1 <= from[D] /\ from[D] <= Len(T)
  BY <1>2, <1>3
<1>12. ASSUME NEW t \in Ext(U) PROVE Has(t, from[D], Len(U) + 1, q.lists[D])
  <2>1. t \in Texts /\ Len(t) \in Nat /\ t[Len(T) + 1] = "." /\ Len(T) + 1 <= Len(t)
    BY <1>9, LenProperties DEF Texts
  <2>2. from[D] \in 1..Len(t) /\ Len(T) + 1 \in (from[D] + 1)..Len(t)
    BY <1>9, <1>11, <2>1
  <2>3. Has(t, from[D], Len(T) + 1, "Values")
    BY <1>2, <1>4, <1>9
  <2>4. Has(t, from[D], (Len(T) + 1) + 1, "AwaitingTail")
    BY <2>1, <2>2, <2>3, ListDots
  <2> QED BY <1>6, <1>9, <2>4
<1>13. from \in [1..D -> 1..(Len(U) + 1)] /\ from[D] <= Len(U)
  BY <1>2, <1>9, <1>11
<1>14. Between(U, q.lists, q.roots)
  <2>1. /\ from \in [1..Len(q.lists) -> 1..(Len(U) + 1)]
        /\ Awaits(U, Front(q.lists), from) /\ from[Len(q.lists)] <= Len(U)
        /\ \A t \in Ext(U) : Has(t, from[Len(q.lists)], Len(U) + 1, q.lists[Len(q.lists)])
    BY <1>5, <1>7, <1>10, <1>12, <1>13
  <2>2. q.roots # 0 /\ q.lists # <<>>
    BY <1>1, <1>6
  <2> QED BY <2>1, <2>2 DEF Between
<1> QED BY <1>14 DEF U

\* The atoms that are placed, and have not ended.
InText == {"string", "number", "name"}

\* A string or a symbol begins its text.
LEMMA AtomBeginsShape ==
  ASSUME NEW p \in Printers, NEW T \in Texts, Shape(T, p), p.atom \in {"none", "symbol"},
         MayPlace(p), NEW q, q.lists = Placed(p.lists), q.roots = Place(p).roots,
         q.atom \in InText, NEW x, x = (IF q.atom = "string" THEN "q" ELSE "s")
  PROVE  Shape(T \o <<x>>, q)
<1> SUFFICES ASSUME q.roots <= 1
             PROVE  /\ q.roots = 1
                    /\ \E from \in [1..(Len(q.lists) + 1) -> 1..(Len(T \o <<x>>) + 1)] :
                         /\ Awaits(T \o <<x>>, q.lists, from)
                         /\ InAtom(T \o <<x>>, q.atom, from[Len(q.lists) + 1])
  BY DEF Shape, InText
<1> DEFINE U == T \o <<x>>
<1>1. PICK from \in [1..(Len(q.lists) + 1) -> 1..(Len(T) + 1)] :
        Awaits(T, q.lists, from) /\ from[Len(q.lists) + 1] = Len(T) + 1
  BY PlacesAt
<1>2. q.roots = 1
  BY PlacesAt
<1>3. q.lists \in Seq(ListStates)
  BY PlaceIs DEF Printers
<1>4. x \in Tokens \ {"nl"}
  BY DEF Tokens
<1>5. U \in Texts /\ Len(U) = Len(T) + 1 /\ Len(T) \in Nat /\ U[Len(T) + 1] = x
  BY <1>4, GrownByOne
<1>6. Awaits(U, q.lists, from) /\ from \in [1..(Len(q.lists) + 1) -> 1..(Len(U) + 1)]
  BY <1>1, <1>3, <1>4, OneToken, AwaitsGrown
<1> HIDE DEF U
<1>7. InAtom(U, q.atom, Len(T) + 1)
  BY <1>5 DEF InAtom
<1>8. InAtom(U, q.atom, from[Len(q.lists) + 1])
  BY <1>1, <1>7
<1> QED BY <1>2, <1>6, <1>8 DEF U

\* Where the text of the atom begins.
LEMMA AtomAt ==
  ASSUME NEW p \in Printers, NEW T \in Texts, Shape(T, p), p.atom \in InText, p.roots <= 1
  PROVE  /\ p.roots = 1 /\ p.lists \in Seq(ListStates) /\ Len(p.lists) \in Nat
         /\ \E from \in [1..(Len(p.lists) + 1) -> 1..(Len(T) + 1)] :
              /\ Awaits(T, p.lists, from) /\ InAtom(T, p.atom, from[Len(p.lists) + 1])
              /\ from[Len(p.lists) + 1] \in 1..Len(T)
<1>1. p.lists \in Seq(ListStates) /\ Len(p.lists) \in Nat /\ Len(T) \in Nat
  BY LenProperties DEF Printers, Texts
<1>2. p.roots = 1
  BY DEF Shape, InText
<1>3. PICK from \in [1..(Len(p.lists) + 1) -> 1..(Len(T) + 1)] :
        Awaits(T, p.lists, from) /\ InAtom(T, p.atom, from[Len(p.lists) + 1])
  BY DEF Shape, InText
<1>4. Len(p.lists) + 1 \in 1..(Len(p.lists) + 1)
  BY <1>1
<1>5. from[Len(p.lists) + 1] \in 1..(Len(T) + 1) /\ from[Len(p.lists) + 1] <= Len(T)
  BY <1>3, <1>4 DEF InAtom
<1>6. from[Len(p.lists) + 1] \in 1..Len(T)
  BY <1>1, <1>5
<1> QED BY <1>1, <1>2, <1>3, <1>6

\* It goes on.
LEMMA AtomGoesOnShape ==
  ASSUME NEW p \in Printers, NEW T \in Texts, Shape(T, p), p.atom \in InText,
         NEW q, q.lists = p.lists, q.roots = p.roots, q.atom \in InText,
         q.atom = "string" <=> p.atom = "string",
         NEW x, x = (IF q.atom = "string" THEN "c" ELSE "t")
  PROVE  Shape(T \o <<x>>, q)
<1> SUFFICES ASSUME q.roots <= 1
             PROVE  /\ q.roots = 1
                    /\ \E from \in [1..(Len(q.lists) + 1) -> 1..(Len(T \o <<x>>) + 1)] :
                         /\ Awaits(T \o <<x>>, q.lists, from)
                         /\ InAtom(T \o <<x>>, q.atom, from[Len(q.lists) + 1])
  BY DEF Shape, InText
<1> DEFINE U == T \o <<x>>
           n == Len(p.lists) + 1
<1>1. /\ p.roots = 1 /\ p.lists \in Seq(ListStates) /\ Len(p.lists) \in Nat
      /\ \E from \in [1..n -> 1..(Len(T) + 1)] :
           Awaits(T, p.lists, from) /\ InAtom(T, p.atom, from[n]) /\ from[n] \in 1..Len(T)
  BY AtomAt
<1>2. PICK from \in [1..n -> 1..(Len(T) + 1)] :
        Awaits(T, p.lists, from) /\ InAtom(T, p.atom, from[n]) /\ from[n] \in 1..Len(T)
  BY <1>1
<1>3. x \in Tokens \ {"nl"}
  BY DEF Tokens
<1>4. /\ U \in Texts /\ Len(U) = Len(T) + 1 /\ Len(T) \in Nat /\ U[Len(T) + 1] = x
      /\ \A i \in 1..Len(T) : U[i] = T[i]
  BY <1>3, GrownByOne
<1>5. Awaits(U, p.lists, from) /\ from \in [1..n -> 1..(Len(U) + 1)]
  BY <1>1, <1>2, <1>3, OneToken, AwaitsGrown
<1> HIDE DEF U, n
<1>6. InAtom(U, q.atom, from[n])
  <2>1. /\ T[from[n]] = (IF q.atom = "string" THEN "q" ELSE "s")
        /\ \A k \in (from[n] + 1)..Len(T) : T[k] = x
    BY <1>2 DEF InAtom
  <2>2. from[n] <= Len(U) /\ U[from[n]] = T[from[n]]
    BY <1>2, <1>4
  <2>3. ASSUME NEW k \in (from[n] + 1)..Len(U) PROVE U[k] = x
    <3>1. CASE k = Len(T) + 1
      BY <1>4, <3>1
    <3>2. CASE k # Len(T) + 1
      <4>1. k \in (from[n] + 1)..Len(T) /\ k \in 1..Len(T)
        BY <1>2, <1>4, <3>2
      <4> QED BY <1>4, <2>1, <4>1
    <3> QED BY <3>1, <3>2
  <2> QED BY <2>1, <2>2, <2>3 DEF InAtom
<1> QED BY <1>1, <1>5, <1>6 DEF U, n

\* A string ends.
LEMMA StringEndsShape ==
  ASSUME NEW p \in Printers, NEW T \in Texts, Shape(T, p), p.atom = "string",
         NEW q, q.lists = p.lists, q.roots = p.roots, q.atom = "none"
  PROVE  Shape(T \o <<"q">>, q)
<1> SUFFICES ASSUME q.roots <= 1 PROVE Between(T \o <<"q">>, q.lists, q.roots)
  BY DEF Shape
<1> DEFINE U == T \o <<"q">>
           n == Len(p.lists) + 1
<1>1. /\ p.roots = 1 /\ p.lists \in Seq(ListStates) /\ Len(p.lists) \in Nat
      /\ \E from \in [1..n -> 1..(Len(T) + 1)] :
           Awaits(T, p.lists, from) /\ InAtom(T, p.atom, from[n]) /\ from[n] \in 1..Len(T)
  BY AtomAt DEF InText
<1>2. PICK from \in [1..n -> 1..(Len(T) + 1)] :
        Awaits(T, p.lists, from) /\ InAtom(T, p.atom, from[n]) /\ from[n] \in 1..Len(T)
  BY <1>1
<1>3. "q" \in Tokens \ {"nl"}
  BY DEF Tokens
<1>4. /\ U \in Texts /\ Len(U) = Len(T) + 1 /\ Len(T) \in Nat /\ Ext(U) \subseteq Ext(T)
      /\ \A t \in Ext(U) : t[Len(T) + 1] = "q" /\ t \in Texts /\ Len(T) + 1 <= Len(t)
  BY <1>3, GrownByOne
<1>5. Awaits(U, p.lists, from)
  BY <1>1, <1>2, <1>3, OneToken, AwaitsGrown
<1> HIDE DEF U
<1>6. ASSUME NEW t \in Ext(U) PROVE V(t, from[n], Len(U))
  <2> HIDE DEF n
  <2>1. t \in Texts /\ Len(t) \in Nat /\ t[Len(T) + 1] = "q" /\ Len(T) + 1 <= Len(t)
    BY <1>4, LenProperties DEF Texts
  <2>2. \A i \in 1..Len(T) : t[i] = T[i]
    BY <1>4 DEF Ext
  <2>3. T[from[n]] = "q" /\ \A k \in (from[n] + 1)..Len(T) : T[k] = "c"
    BY <1>2 DEF InAtom
  <2>4. t[from[n]] = "q" /\ \A k \in (from[n] + 1)..((Len(T) + 1) - 1) : t[k] = "c"
    BY <1>2, <1>4, <2>2, <2>3
  <2>5. from[n] \in 1..Len(t) /\ Len(T) + 1 \in from[n]..Len(t) /\ from[n] < Len(T) + 1
    BY <1>2, <1>4, <2>1
  <2>6. V(t, from[n], Len(T) + 1)
    BY <2>1, <2>4, <2>5, ReaderRules
  <2> QED BY <1>4, <2>6
<1>7. from[n] <= Len(U)
  BY <1>2, <1>4
<1>8. p.roots \in Nat \ {0} /\ U \in Texts /\ p.lists \in Seq(ListStates)
  BY <1>1, <1>4
<1>9. Between(U, p.lists, p.roots)
  BY <1>5, <1>6, <1>7, <1>8, Closing
<1> QED BY <1>9 DEF U

\* A symbol ends.
LEMMA SymbolEndsShape ==
  ASSUME NEW p \in Printers, NEW T \in Texts, Shape(T, p), p.atom = "name",
         NEW q, q.lists = p.lists, q.roots = p.roots, q.atom = "none"
  PROVE  Shape(T, q)
<1> SUFFICES ASSUME q.roots <= 1 PROVE Between(T, q.lists, q.roots)
  BY DEF Shape
<1> DEFINE n == Len(p.lists) + 1
<1>1. /\ p.roots = 1 /\ p.lists \in Seq(ListStates) /\ Len(p.lists) \in Nat
      /\ \E from \in [1..n -> 1..(Len(T) + 1)] :
           Awaits(T, p.lists, from) /\ InAtom(T, p.atom, from[n]) /\ from[n] \in 1..Len(T)
  BY AtomAt DEF InText
<1>2. PICK from \in [1..n -> 1..(Len(T) + 1)] :
        Awaits(T, p.lists, from) /\ InAtom(T, p.atom, from[n]) /\ from[n] \in 1..Len(T)
  BY <1>1
<1>3. ASSUME NEW t \in Ext(T) PROVE V(t, from[n], Len(T))
  <2> HIDE DEF n
  <2>1. /\ t \in Texts /\ Len(t) \in Nat /\ Len(T) \in Nat /\ Len(T) <= Len(t)
        /\ \A i \in 1..Len(T) : t[i] = T[i]
    BY LenProperties DEF Ext, Texts
  <2>2. T[from[n]] = "s" /\ \A k \in (from[n] + 1)..Len(T) : T[k] = "t"
    BY <1>2 DEF InAtom
  <2>3. t[from[n]] = "s" /\ \A k \in (from[n] + 1)..Len(T) : t[k] = "t"
    BY <1>2, <2>1, <2>2
  <2>4. from[n] \in 1..Len(t) /\ Len(T) \in from[n]..Len(t)
    BY <1>2, <2>1
  <2> QED BY <2>1, <2>3, <2>4, ReaderRules
<1>4. from[n] <= Len(T)
  BY <1>2
<1> QED BY <1>1, <1>2, <1>3, <1>4, Closing

\* Nothing is printed, and nothing changes that the shape depends on.
LEMMA SameShape ==
  ASSUME NEW p \in Printers, NEW T \in Texts, Shape(T, p),
         NEW q, q.lists = p.lists, q.roots = p.roots,
         q.atom = p.atom \/ {p.atom, q.atom} \subseteq {"none", "symbol"}
  PROVE  Shape(T \o <<>>, q)
<1>1. T \o <<>> = T
  BY ConcatEmptySeq DEF Texts
<1> QED BY <1>1 DEF Shape

-----------------------------------------------------------------------------
\* What an event that is accepted makes of the printer.
Goes(p, T, printed) ==
  printed.ok =>
    /\ printed.printer \in Printers /\ printed.printer.active = p.active
    /\ printed.printer.held = p.held
    /\ printed.text \in Texts /\ Shape(T \o printed.text, printed.printer)

\* An error is none.
LEMMA WrongGoes ==
  ASSUME NEW p, NEW T
  PROVE  Goes(p, T, Wrong(p))
BY DEF Goes, Wrong

\* What is printed where a value may be placed.
LEMMA PlacesGoes ==
  ASSUME NEW p, NEW T, NEW q, NEW text,
         MayPlace(p) => /\ q \in Printers /\ q.active = p.active /\ q.held = p.held
                        /\ text \in Texts /\ Shape(T \o text, q)
  PROVE  Goes(p, T, Places(p, q, text))
BY DEF Goes, Places, Prints, Wrong

\* What is printed.
LEMMA PrintsGoes ==
  ASSUME NEW p, NEW T, NEW q, NEW text,
         q \in Printers, q.active = p.active, q.held = p.held,
         text \in Texts, Shape(T \o text, q)
  PROVE  Goes(p, T, Prints(q, text))
BY DEF Goes, Prints

\* In a list that is skipped.
LEMMA SkipsGoes ==
  ASSUME NEW p \in Printers, NEW T \in Texts, Shape(T, p), p.skipped # 0, NEW event
  PROVE  Goes(p, T, Skips(p, event))
<1> DEFINE n == CASE event = "BeginList" -> p.skipped + 1
                  [] event = "EndList" -> p.skipped - 1
                  [] OTHER -> p.skipped
           q == [p EXCEPT !.skipped = n]
<1>1. Skips(p, event) = Prints(q, <<>>)
  BY DEF Skips
<1>2. n \in Nat
  BY DEF Printers
<1> HIDE DEF n
<1>3. /\ q \in Printers /\ q.active = p.active /\ q.held = p.held /\ q.lists = p.lists
      /\ q.roots = p.roots /\ q.atom = p.atom
  BY <1>2 DEF Printers
<1> HIDE DEF q
<1>4. Shape(T \o <<>>, q) /\ <<>> \in Texts
  BY <1>3, SameShape DEF Texts
<1> QED BY <1>1, <1>3, <1>4, PrintsGoes

\* A list begins, ends, or has its dot.
LEMMA ListGoes ==
  ASSUME NEW p \in Printers, NEW T \in Texts, Shape(T, p), p.skipped = 0, NEW event
  PROVE  Goes(p, T, ListEvent(p, event))
<1> DEFINE state == IF p.lists = <<>> THEN "none" ELSE p.lists[Len(p.lists)]
<1>1. CASE p.atom # "none"
  BY <1>1, WrongGoes DEF ListEvent
<1>2. CASE p.atom = "none" /\ event = "BeginList" /\ Len(p.lists) = MaxDepth
  <2> DEFINE q == [Place(p) EXCEPT !.skipped = 1]
  <2>1. ListEvent(p, event) = Places(p, q, <<"a">>)
    BY <1>2 DEF ListEvent
  <2>2. /\ q \in Printers /\ q.active = p.active /\ q.held = p.held
        /\ q.lists = Placed(p.lists) /\ q.roots = Place(p).roots /\ q.atom = "none"
    BY <1>2, PlaceIs DEF Printers
  <2> HIDE DEF q
  <2>3. <<"a">> \in Texts
    BY OneToken DEF Tokens
  <2>4. MayPlace(p) => Shape(T \o <<"a">>, q)
    BY <1>2, <2>2, ValueShape
  <2> QED BY <2>1, <2>2, <2>3, <2>4, PlacesGoes
<1>3. CASE p.atom = "none" /\ event = "BeginList" /\ Len(p.lists) # MaxDepth
  <2> DEFINE q == [Place(p) EXCEPT !.lists = Append(@, "Empty")]
  <2>1. ListEvent(p, event) = Places(p, q, <<"(">>)
    BY <1>3 DEF ListEvent
  <2>2. Append(Placed(p.lists), "Empty") \in Seq(ListStates)
    <3>1. Placed(p.lists) \in Seq(ListStates) /\ "Empty" \in ListStates
      BY PlaceIs DEF Printers, ListStates
    <3> QED BY <3>1, AppendProperties
  <2>3. /\ q \in Printers /\ q.active = p.active /\ q.held = p.held
        /\ q.lists = Append(Placed(p.lists), "Empty") /\ q.roots = Place(p).roots
        /\ q.atom = "none"
    BY <1>3, <2>2, PlaceIs DEF Printers
  <2> HIDE DEF q
  <2>4. <<"(">> \in Texts
    BY OneToken DEF Tokens
  <2>5. MayPlace(p) => Shape(T \o <<"(">>, q)
    BY <1>3, <2>3, ListBeginsShape
  <2> QED BY <2>1, <2>3, <2>4, <2>5, PlacesGoes
<1>4. CASE p.atom = "none" /\ event = "EndList" /\ state \notin {"none", "AwaitingTail"}
  <2> DEFINE q == [p EXCEPT !.lists = Front(@)]
  <2>1. ListEvent(p, event) = Prints(q, <<")">>)
    BY <1>4 DEF ListEvent
  <2>2. p.lists # <<>> /\ p.lists[Len(p.lists)] # "AwaitingTail"
    BY <1>4
  <2>3. Front(p.lists) \in Seq(ListStates)
    BY <2>2, FrontOf DEF Printers
  <2>4. /\ q \in Printers /\ q.active = p.active /\ q.held = p.held
        /\ q.lists = Front(p.lists) /\ q.roots = p.roots /\ q.atom = "none"
    BY <1>4, <2>3 DEF Printers
  <2> HIDE DEF q
  <2>5. <<")">> \in Texts
    BY OneToken DEF Tokens
  <2>6. Shape(T \o <<")">>, q)
    BY <1>4, <2>2, <2>4, ListEndsShape
  <2> QED BY <2>1, <2>4, <2>5, <2>6, PrintsGoes
<1>5. CASE p.atom = "none" /\ event = "Dot" /\ state = "Values"
  <2> DEFINE q == [p EXCEPT !.lists[Len(p.lists)] = "AwaitingTail"]
             dotted == [p.lists EXCEPT ![Len(p.lists)] = "AwaitingTail"]
  <2>1. ListEvent(p, event) = Prints(q, <<".">>)
    BY <1>5 DEF ListEvent
  <2>2. p.lists # <<>> /\ p.lists[Len(p.lists)] = "Values"
    BY <1>5
  <2>3. dotted \in Seq(ListStates)
    <3>1. p.lists \in Seq(ListStates) /\ "AwaitingTail" \in ListStates
      BY DEF Printers, ListStates
    <3>2. Len(p.lists) \in 1..Len(p.lists)
      BY <2>2, <3>1, EmptySeq
    <3> QED BY <3>1, <3>2, ExceptSeq
  <2>4. q = [p EXCEPT !.lists = dotted]
    BY DEF Printers
  <2> HIDE DEF q, dotted
  <2>5. /\ q \in Printers /\ q.active = p.active /\ q.held = p.held
        /\ q.lists = dotted /\ q.roots = p.roots /\ q.atom = "none"
    BY <1>5, <2>3, <2>4 DEF Printers
  <2>6. <<".">> \in Texts
    BY OneToken DEF Tokens
  <2>7. Shape(T \o <<".">>, q)
    BY <1>5, <2>2, <2>5, DotShape DEF dotted
  <2> QED BY <2>1, <2>5, <2>6, <2>7, PrintsGoes
<1>6. CASE /\ p.atom = "none" /\ event # "BeginList"
           /\ ~(event = "EndList" /\ state \notin {"none", "AwaitingTail"})
           /\ ~(event = "Dot" /\ state = "Values")
  <2>1. ListEvent(p, event) = Wrong(p)
    BY <1>6 DEF ListEvent
  <2> QED BY <2>1, WrongGoes
<1> HIDE DEF state
<1> QED BY <1>1, <1>2, <1>3, <1>4, <1>5, <1>6

\* A symbol.
LEMMA SymbolGoes ==
  ASSUME NEW p \in Printers, NEW T \in Texts, Shape(T, p), NEW event
  PROVE  Goes(p, T, SymbolEvent(p, event))
<1> DEFINE next == SymbolAfter(p.atom, event)
<1>1. CASE event = "BeginSymbol" /\ p.atom = "none"
  <2> DEFINE q == [p EXCEPT !.atom = "symbol"]
  <2>1. SymbolEvent(p, event) = Prints(q, <<>>)
    BY <1>1 DEF SymbolEvent
  <2>2. /\ q \in Printers /\ q.active = p.active /\ q.held = p.held
        /\ q.lists = p.lists /\ q.roots = p.roots /\ q.atom = "symbol"
    BY DEF Printers, Atoms
  <2> HIDE DEF q
  <2>3. Shape(T \o <<>>, q) /\ <<>> \in Texts
    BY <1>1, <2>2, SameShape DEF Texts
  <2> QED BY <2>1, <2>2, <2>3, PrintsGoes
<1>2. CASE event \in {"NameChunk", "DigitChunk"} /\ p.atom = "symbol"
  <2> DEFINE q == [Place(p) EXCEPT !.atom = next]
  <2>1. SymbolEvent(p, event) = Places(p, q, <<"s">>)
    BY <1>2 DEF SymbolEvent
  <2>2. next \in {"number", "name"}
    BY DEF SymbolAfter
  <2> HIDE DEF next
  <2>3. /\ q \in Printers /\ q.active = p.active /\ q.held = p.held
        /\ q.lists = Placed(p.lists) /\ q.roots = Place(p).roots /\ q.atom = next
    BY <2>2, PlaceIs DEF Printers, Atoms
  <2> HIDE DEF q
  <2>4. <<"s">> \in Texts
    BY OneToken DEF Tokens
  <2>5. MayPlace(p) => Shape(T \o <<"s">>, q)
    BY <1>2, <2>2, <2>3, AtomBeginsShape DEF InText
  <2> QED BY <2>1, <2>3, <2>4, <2>5, PlacesGoes
<1>3. CASE event \in {"NameChunk", "DigitChunk"} /\ p.atom \in {"number", "name"}
  <2> DEFINE q == [p EXCEPT !.atom = next]
  <2>1. SymbolEvent(p, event) = Prints(q, <<"t">>)
    BY <1>3 DEF SymbolEvent
  <2>2. next \in {"number", "name"}
    BY DEF SymbolAfter
  <2> HIDE DEF next
  <2>3. /\ q \in Printers /\ q.active = p.active /\ q.held = p.held
        /\ q.lists = p.lists /\ q.roots = p.roots /\ q.atom = next
    BY <2>2 DEF Printers, Atoms
  <2> HIDE DEF q
  <2>4. <<"t">> \in Texts
    BY OneToken DEF Tokens
  <2>5. Shape(T \o <<"t">>, q)
    BY <1>3, <2>2, <2>3, AtomGoesOnShape DEF InText
  <2> QED BY <2>1, <2>3, <2>4, <2>5, PrintsGoes
<1>4. CASE event = "EndSymbol" /\ p.atom = "name"
  <2> DEFINE q == [p EXCEPT !.atom = "none"]
  <2>1. SymbolEvent(p, event) = Prints(q, <<>>)
    BY <1>4 DEF SymbolEvent
  <2>2. /\ q \in Printers /\ q.active = p.active /\ q.held = p.held
        /\ q.lists = p.lists /\ q.roots = p.roots /\ q.atom = "none"
    BY DEF Printers, Atoms
  <2> HIDE DEF q
  <2>3. T \o <<>> = T /\ <<>> \in Texts
    BY ConcatEmptySeq DEF Texts
  <2>4. Shape(T \o <<>>, q)
    BY <1>4, <2>2, <2>3, SymbolEndsShape
  <2> QED BY <2>1, <2>2, <2>3, <2>4, PrintsGoes
<1>5. CASE /\ ~(event = "BeginSymbol" /\ p.atom = "none")
           /\ ~(event \in {"NameChunk", "DigitChunk"} /\ p.atom \in {"symbol", "number", "name"})
           /\ ~(event = "EndSymbol" /\ p.atom = "name")
  <2>1. SymbolEvent(p, event) = Wrong(p)
    BY <1>5 DEF SymbolEvent
  <2> QED BY <2>1, WrongGoes
<1> HIDE DEF next
<1> QED BY <1>1, <1>2, <1>3, <1>4, <1>5

\* A value that is printed at once, or a string.
LEMMA AtomGoes ==
  ASSUME NEW p \in Printers, NEW T \in Texts, Shape(T, p), NEW event
  PROVE  Goes(p, T, AtomEvent(p, event))
<1>1. CASE event = "Atom" /\ p.atom = "none"
  <2> DEFINE q == Place(p)
  <2>1. AtomEvent(p, event) = Places(p, q, <<"a">>)
    BY <1>1 DEF AtomEvent
  <2>2. /\ q \in Printers /\ q.active = p.active /\ q.held = p.held
        /\ q.lists = Placed(p.lists) /\ q.roots = Place(p).roots /\ q.atom = "none"
    BY <1>1, PlaceIs
  <2> HIDE DEF q
  <2>3. <<"a">> \in Texts
    BY OneToken DEF Tokens
  <2>4. MayPlace(p) => Shape(T \o <<"a">>, q)
    BY <1>1, <2>2, ValueShape
  <2> QED BY <2>1, <2>2, <2>3, <2>4, PlacesGoes
<1>2. CASE event = "BeginString" /\ p.atom = "none"
  <2> DEFINE q == [Place(p) EXCEPT !.atom = "string"]
  <2>1. AtomEvent(p, event) = Places(p, q, <<"q">>)
    BY <1>2 DEF AtomEvent
  <2>2. /\ q \in Printers /\ q.active = p.active /\ q.held = p.held
        /\ q.lists = Placed(p.lists) /\ q.roots = Place(p).roots /\ q.atom = "string"
    BY PlaceIs DEF Printers, Atoms
  <2> HIDE DEF q
  <2>3. <<"q">> \in Texts
    BY OneToken DEF Tokens
  <2>4. MayPlace(p) => Shape(T \o <<"q">>, q)
    BY <1>2, <2>2, AtomBeginsShape DEF InText
  <2> QED BY <2>1, <2>2, <2>3, <2>4, PlacesGoes
<1>3. CASE event = "StringChunk" /\ p.atom = "string"
  <2>1. AtomEvent(p, event) = Prints(p, <<"c">>)
    BY <1>3 DEF AtomEvent
  <2>2. <<"c">> \in Texts
    BY OneToken DEF Tokens
  <2>3. Shape(T \o <<"c">>, p)
    BY <1>3, AtomGoesOnShape DEF InText
  <2> QED BY <2>1, <2>2, <2>3, PrintsGoes
<1>4. CASE event = "EndString" /\ p.atom = "string"
  <2> DEFINE q == [p EXCEPT !.atom = "none"]
  <2>1. AtomEvent(p, event) = Prints(q, <<"q">>)
    BY <1>4 DEF AtomEvent
  <2>2. /\ q \in Printers /\ q.active = p.active /\ q.held = p.held
        /\ q.lists = p.lists /\ q.roots = p.roots /\ q.atom = "none"
    BY DEF Printers, Atoms
  <2> HIDE DEF q
  <2>3. <<"q">> \in Texts
    BY OneToken DEF Tokens
  <2>4. Shape(T \o <<"q">>, q)
    BY <1>4, <2>2, StringEndsShape
  <2> QED BY <2>1, <2>2, <2>3, <2>4, PrintsGoes
<1>5. CASE /\ ~(event = "Atom" /\ p.atom = "none") /\ ~(event = "BeginString" /\ p.atom = "none")
           /\ ~(event = "StringChunk" /\ p.atom = "string")
           /\ ~(event = "EndString" /\ p.atom = "string")
  <2>1. AtomEvent(p, event) = Wrong(p)
    BY <1>5 DEF AtomEvent
  <2> QED BY <2>1, WrongGoes
<1> QED BY <1>1, <1>2, <1>3, <1>4, <1>5

\* Every event that the printer accepts prints what keeps the shape.
LEMMA PrinterGoes ==
  ASSUME NEW p \in Printers, NEW T \in Texts, Shape(T, p), NEW event
  PROVE  Goes(p, T, PrinterEvent(p, event))
<1>1. CASE event = "BadReal"
  BY <1>1, WrongGoes DEF PrinterEvent
<1>2. CASE event # "BadReal" /\ p.skipped # 0
  BY <1>2, SkipsGoes DEF PrinterEvent
<1>3. CASE event # "BadReal" /\ p.skipped = 0
  <2>1. CASE event \in {"BeginList", "EndList", "Dot"}
    BY <1>3, <2>1, ListGoes DEF PrinterEvent
  <2>2. CASE event \in {"BeginSymbol", "NameChunk", "DigitChunk", "EndSymbol"}
    BY <1>3, <2>2, SymbolGoes DEF PrinterEvent
  <2>3. CASE /\ event \notin {"BeginList", "EndList", "Dot"}
             /\ event \notin {"BeginSymbol", "NameChunk", "DigitChunk", "EndSymbol"}
    BY <1>3, <2>3, AtomGoes DEF PrinterEvent
  <2> QED BY <2>1, <2>2, <2>3
<1> QED BY <1>1, <1>2, <1>3

-----------------------------------------------------------------------------
(***************************************************************************)
(* The output: what of a text it accepts.                                  *)
(***************************************************************************)
\* Three parts of a text.
LEMMA Joined ==
  ASSUME NEW a \in Texts, NEW b \in Texts, NEW c \in Texts
  PROVE  (a \o b) \o c = a \o (b \o c) /\ a \o b \in Texts /\ b \o c \in Texts
<1> DEFINE S == Tokens \ {"nl"}
<1>1. a \in Seq(S) /\ b \in Seq(S) /\ c \in Seq(S)
  BY DEF Texts
<1> HIDE DEF S
<1>2. (a \o b) \o c = a \o (b \o c)
  BY <1>1, ConcatAssociative
<1>3. a \o b \in Seq(S) /\ b \o c \in Seq(S)
  BY <1>1, ConcatProperties
<1> QED BY <1>2, <1>3 DEF S, Texts

\* A text in two parts.
LEMMA Split ==
  ASSUME NEW begun \in Texts, NEW text \in Texts, NEW d \in 0..Len(text)
  PROVE  /\ SubSeq(text, 1, d) \in Texts /\ SubSeq(text, d + 1, Len(text)) \in Texts
         /\ (begun \o SubSeq(text, 1, d)) \o SubSeq(text, d + 1, Len(text)) = begun \o text
<1> DEFINE S == Tokens \ {"nl"}
<1>1. Len(text) \in Nat /\ \A i \in 1..Len(text) : text[i] \in S
  BY LenProperties, ElementOfSeq DEF Texts
<1>2. SubSeq(text, 1, d) \in Seq(S)
  <2>1. \A i \in 1..d : text[i] \in S
    BY <1>1
  <2> HIDE DEF S
  <2> QED BY <1>1, <2>1, SubSeqProperties
<1>3. SubSeq(text, d + 1, Len(text)) \in Seq(S)
  <2>1. \A i \in (d + 1)..Len(text) : text[i] \in S
    BY <1>1
  <2> HIDE DEF S
  <2> QED BY <1>1, <2>1, SubSeqProperties
<1>4. SubSeq(text, 1, d) \o SubSeq(text, d + 1, Len(text)) = text
  <2>1. 1 \in 1..(Len(text) + 1) /\ d \in (1 - 1)..Len(text) /\ Len(text) \in d..Len(text)
    BY <1>1
  <2>2. SubSeq(text, 1, d) \o SubSeq(text, d + 1, Len(text)) = SubSeq(text, 1, Len(text))
    BY <2>1, ConcatAdjacentSubSeq DEF Texts
  <2>3. SubSeq(text, 1, Len(text)) = text
    BY SubSeqFull DEF Texts
  <2> QED BY <2>2, <2>3
<1>5. SubSeq(text, 1, d) \in Texts /\ SubSeq(text, d + 1, Len(text)) \in Texts
  BY <1>2, <1>3 DEF Texts
<1> DEFINE front == SubSeq(text, 1, d)
           back == SubSeq(text, d + 1, Len(text))
<1> HIDE DEF front, back
<1>6. (begun \o front) \o back = begun \o (front \o back)
  BY <1>5, Joined DEF front, back
<1> QED BY <1>4, <1>5, <1>6 DEF front, back

\* A text within a line does not end it.
LEMMA NoEnd ==
  ASSUME NEW text \in Texts
  PROVE  ~EndsLine(text)
<1> SUFFICES ASSUME text # <<>> PROVE text[Len(text)] # "nl"
  BY DEF EndsLine, Last
<1>1. Len(text) \in 1..Len(text)
  BY EmptySeq DEF Texts
<1> QED BY <1>1, ElementOfSeq DEF Texts

\* Output that has ended fails the port, and a line is none that was not one before.
Refuses(p) ==
  /\ sink' \in Ends /\ port' = Fail(p, sink')
  /\ line' \in Texts /\ last' \in Texts /\ lines' \in Nat
  /\ EveryLineIsOneValue'

\* A text within a line is accepted, or the output ends.
LEMMA AcceptsText ==
  ASSUME Typed, EveryLineIsOneValue, NEW p, NEW text \in Texts, Accepts(p, text)
  PROVE  \/ /\ sink' = "Continue" /\ port' = p /\ line' = line \o text
            /\ line' \in Texts /\ UNCHANGED <<last, lines>>
         \/ Refuses(p)
<1>1. line \in Texts /\ last \in Texts /\ lines \in Nat /\ sink \in {"Continue"} \cup Ends
  BY DEF Typed
<1>2. ASSUME NEW u \in Texts, Emitted(u)
      PROVE  line' = line \o u /\ line' \in Texts /\ UNCHANGED <<last, lines>>
  <2>1. ~EndsLine(u)
    BY NoEnd
  <2>2. line' = line \o u /\ UNCHANGED <<last, lines>>
    BY <1>2, <2>1 DEF Emitted
  <2> QED BY <1>1, <2>2, ConcatProperties DEF Texts
<1>3. CASE sink = "Continue" /\ Emitted(text) /\ port' = p /\ UNCHANGED sink
  BY <1>2, <1>3
<1>4. CASE \E n \in 0..Len(text), end \in Ends :
             Emitted(SubSeq(text, 1, n)) /\ sink' = end /\ port' = Fail(p, end)
  <2>1. PICK n \in 0..Len(text) : \E end \in Ends :
          Emitted(SubSeq(text, 1, n)) /\ sink' = end /\ port' = Fail(p, end)
    BY <1>4
  <2>2. SubSeq(text, 1, n) \in Texts
    BY Split
  <2>3. line' \in Texts /\ UNCHANGED <<last, lines>>
    BY <1>2, <2>1, <2>2
  <2>4. EveryLineIsOneValue'
    BY <2>3 DEF EveryLineIsOneValue
  <2> QED BY <1>1, <2>1, <2>3, <2>4 DEF Refuses
<1>5. CASE sink # "Continue" /\ port' = Fail(p, sink) /\ UNCHANGED <<sink, output>>
  <2>1. UNCHANGED <<sink, line, last, lines>>
    BY <1>5 DEF output
  <2>2. EveryLineIsOneValue'
    BY <2>1 DEF EveryLineIsOneValue
  <2> QED BY <1>1, <1>5, <2>1, <2>2 DEF Refuses
<1> QED BY <1>3, <1>4, <1>5 DEF Accepts

\* The rest of a line and its end are accepted, or the output ends before or after.
LEMMA AcceptsLine ==
  ASSUME Typed, EveryLineIsOneValue, NEW p, NEW u \in Texts, NEW text,
         text = u \o <<"nl">>, IsLine(line \o u), Accepts(p, text)
  PROVE  \/ /\ sink' = "Continue" /\ port' = p /\ line' = <<>>
            /\ last' \in Texts /\ lines' = lines + 1 /\ EveryLineIsOneValue'
         \/ Refuses(p)
<1>1. line \in Texts /\ last \in Texts /\ lines \in Nat /\ sink \in {"Continue"} \cup Ends
  BY DEF Typed
<1>2. u \in Seq(Tokens) /\ <<"nl">> \in Seq(Tokens) /\ Len(<<"nl">>) = 1 /\ <<"nl">>[1] = "nl"
  <2>1. u \in Seq(Tokens)
    BY SeqMonotonic DEF Texts
  <2> QED BY <2>1 DEF Tokens
<1>3. /\ text \in Seq(Tokens) /\ Len(text) = Len(u) + 1 /\ Len(u) \in Nat
      /\ \A i \in 1..(Len(u) + 1) : text[i] = IF i <= Len(u) THEN u[i] ELSE <<"nl">>[i - Len(u)]
  BY <1>2, ConcatProperties, LenProperties
<1>4. text[Len(u) + 1] = "nl" /\ \A i \in 1..Len(u) : text[i] = u[i] /\ u[i] \in Tokens \ {"nl"}
  <2>1. text[Len(u) + 1] = "nl"
    <3>1. Len(u) + 1 \in 1..(Len(u) + 1) /\ ~(Len(u) + 1 <= Len(u)) /\ Len(u) + 1 - Len(u) = 1
      BY <1>3
    <3> QED BY <1>2, <1>3, <3>1
  <2>2. \A i \in 1..Len(u) : u[i] \in Tokens \ {"nl"}
    BY ElementOfSeq DEF Texts
  <2> QED BY <1>3, <2>1, <2>2
<1>5. ASSUME NEW n \in 0..Len(u) PROVE SubSeq(text, 1, n) \in Texts
  <2> DEFINE S == Tokens \ {"nl"}
  <2>1. \A i \in 1..n : text[i] \in S
    BY <1>3, <1>4
  <2>2. 1 \in Int /\ n \in Int
    BY <1>3
  <2> HIDE DEF S
  <2>3. SubSeq(text, 1, n) \in Seq(S)
    BY <2>1, <2>2, SubSeqProperties
  <2> QED BY <2>3 DEF Texts, S
<1>6. text # <<>> /\ EndsLine(text)
  <2>1. text # <<>>
    BY <1>3, EmptySeq
  <2> QED BY <1>3, <1>4, <2>1 DEF EndsLine, Last
<1>7. Front(text) = u
  <2>1. Front(text) = SubSeq(text, 1, Len(u))
    BY <1>3 DEF Front
  <2>2. 1 \in Int /\ Len(u) \in Int /\ \A i \in 1..Len(u) : text[i] \in Tokens
    BY <1>3, <1>4
  <2>3. /\ SubSeq(text, 1, Len(u)) \in Seq(Tokens)
        /\ Len(SubSeq(text, 1, Len(u))) = IF 1 <= Len(u) THEN Len(u) - 1 + 1 ELSE 0
        /\ \A i \in 1..(Len(u) - 1 + 1) : SubSeq(text, 1, Len(u))[i] = text[1 + i - 1]
    BY <2>2, SubSeqProperties
  <2>4. (Len(u) - 1 + 1 = Len(u)) /\ (1 <= Len(u) \/ Len(u) = 0)
    BY <1>3
  <2>5. Len(SubSeq(text, 1, Len(u))) = Len(u)
    BY <2>3, <2>4
  <2>6. \A i \in 1..Len(u) : SubSeq(text, 1, Len(u))[i] = u[i]
    <3>1. \A i \in 1..Len(u) : 1 + i - 1 = i
      BY <1>3
    <3> QED BY <1>4, <2>3, <2>4, <3>1
  <2> QED BY <1>2, <2>1, <2>3, <2>5, <2>6, SeqEqual
<1>8. ASSUME Emitted(text)
      PROVE  /\ line' = <<>> /\ line' \in Texts /\ last' \in Texts /\ lines' = lines + 1
             /\ lines' \in Nat /\ EveryLineIsOneValue'
  <2>1. last' = line \o u /\ line' = <<>> /\ lines' = lines + 1
    BY <1>6, <1>7, <1>8 DEF Emitted
  <2>2. last' \in Texts
    BY <1>1, <2>1, ConcatProperties DEF Texts
  <2>3. <<>> \in Texts
    BY DEF Texts
  <2>4. EveryLineIsOneValue'
    BY <2>1 DEF EveryLineIsOneValue, IsLine
  <2> QED BY <1>1, <2>1, <2>2, <2>3, <2>4
<1>9. CASE sink = "Continue" /\ Emitted(text) /\ port' = p /\ UNCHANGED sink
  BY <1>8, <1>9
<1>10. CASE \E n \in 0..Len(text), end \in Ends :
              Emitted(SubSeq(text, 1, n)) /\ sink' = end /\ port' = Fail(p, end)
  <2>1. PICK n \in 0..Len(text) : \E end \in Ends :
          Emitted(SubSeq(text, 1, n)) /\ sink' = end /\ port' = Fail(p, end)
    BY <1>10
  <2>2. CASE n = Len(text)
    <3>1. SubSeq(text, 1, n) = text
      BY <1>3, <2>2, SubSeqFull
    <3>2. Emitted(text)
      BY <2>1, <3>1
    <3> QED BY <1>8, <2>1, <3>2 DEF Refuses
  <2>3. CASE n # Len(text)
    <3>1. n \in 0..Len(u)
      BY <1>3, <2>3
    <3>2. SubSeq(text, 1, n) \in Texts
      BY <1>5, <3>1
    <3>3. line' = line \o SubSeq(text, 1, n) /\ UNCHANGED <<last, lines>>
      BY <2>1, <3>2, NoEnd DEF Emitted
    <3>4. line' \in Texts
      BY <1>1, <3>2, <3>3, ConcatProperties DEF Texts
    <3>5. EveryLineIsOneValue'
      BY <3>3 DEF EveryLineIsOneValue
    <3> QED BY <1>1, <2>1, <3>3, <3>4, <3>5 DEF Refuses
  <2> QED BY <2>2, <2>3
<1>11. CASE sink # "Continue" /\ port' = Fail(p, sink) /\ UNCHANGED <<sink, output>>
  <2>1. UNCHANGED <<sink, line, last, lines>>
    BY <1>11 DEF output
  <2>2. EveryLineIsOneValue'
    BY <2>1 DEF EveryLineIsOneValue
  <2> QED BY <1>1, <1>11, <2>1, <2>2 DEF Refuses
<1> QED BY <1>9, <1>10, <1>11 DEF Accepts

\* A text without a list is drained at once.
LEMMA DrainsLine ==
  ASSUME NEW u \in Texts, \A i \in 1..Len(u) : u[i] # "(", NEW text, text = u \o <<"nl">>,
         NEW p, p.printer.active = FALSE, Drains(p, text)
  PROVE  Accepts(p, text)
<1>1. u \in Seq(Tokens) /\ <<"nl">> \in Seq(Tokens) /\ Len(<<"nl">>) = 1 /\ <<"nl">>[1] = "nl"
  <2>1. u \in Seq(Tokens)
    BY SeqMonotonic DEF Texts
  <2> QED BY <2>1 DEF Tokens
<1>2. /\ text \in Seq(Tokens) /\ Len(text) = Len(u) + 1 /\ Len(u) \in Nat
      /\ DOMAIN text = 1..Len(text)
      /\ \A i \in 1..(Len(u) + 1) : text[i] = IF i <= Len(u) THEN u[i] ELSE <<"nl">>[i - Len(u)]
  BY <1>1, ConcatProperties, LenProperties
<1>3. ASSUME NEW i \in DOMAIN text PROVE text[i] # "("
  <2>1. CASE i <= Len(u)
    BY <1>2, <2>1
  <2>2. CASE ~(i <= Len(u))
    <3>1. i - Len(u) = 1
      BY <1>2, <2>2
    <3>2. text[i] = "nl"
      BY <1>1, <1>2, <2>2, <3>1
    <3> QED BY <3>2
  <2> QED BY <2>1, <2>2
<1>4. Drained(text) = {Len(text)}
  BY <1>3 DEF Drained, Unclosed
<1>5. Accepts(p, SubSeq(text, 1, Len(text)))
  BY <1>4 DEF Drains
<1>6. SubSeq(text, 1, Len(text)) = text
  BY <1>2, SubSeqFull
<1> QED BY <1>5, <1>6

-----------------------------------------------------------------------------
(***************************************************************************)
(* The port: an event leaves it as Printing says.                          *)
(***************************************************************************)
\* The printer of no value.
LEMMA NoPrinterType ==
  NoPrinter \in Printers /\ [NoPrinter EXCEPT !.active = TRUE] \in Printers
<1>1. <<>> \in Seq(ListStates) /\ <<>> \in Texts /\ "none" \in Atoms
  BY DEF Texts, Atoms
<1>2. NoPrinter \in Printers
  BY <1>1 DEF NoPrinter, Printers
<1> QED BY <1>2 DEF Printers

\* A port that is still that of the step.
PortKept(p) ==
  /\ p \in Ports /\ p.kind = port.kind /\ p.generation = port.generation

\* What a write leaves.
Written ==
  /\ PortKept(port') /\ sink' \in {"Continue"} \cup Ends
  /\ line' \in Texts /\ last' \in Texts /\ lines' \in Nat
  /\ Printing' /\ EveryLineIsOneValue'

\* A port that fails prints no more.
LEMMA FailKeeps ==
  ASSUME NEW p \in Ports, NEW result \in Results
  PROVE  /\ Fail(p, result) \in Ports /\ Fail(p, result).kind = p.kind
         /\ Fail(p, result).generation = p.generation /\ Fail(p, result).result = result
BY NoPrinterType DEF Fail, Ports

\* Nor does one whose output has ended.
LEMMA RefusedIsWritten ==
  ASSUME port \in Ports, NEW p, PortKept(p), Refuses(p)
  PROVE  Written
<1>1. sink' \in Ends /\ sink' \in Results /\ sink' # "Continue" /\ sink' # "Inactive"
  BY DEF Refuses, Ends, Results
<1>2. PortKept(port') /\ port'.result = sink'
  BY <1>1, FailKeeps DEF Refuses, PortKept
<1>3. Printing'
  BY <1>1, <1>2 DEF Printing
<1> QED BY <1>1, <1>2, <1>3 DEF Refuses, Written

\* Nothing is written, and the port fails.
LEMMA FailedIsWritten ==
  ASSUME Typed, EveryLineIsOneValue, port \in Ports, NEW result \in Results,
         result \notin Ends \cup {"Continue", "Inactive"},
         port' = Fail(port, result), UNCHANGED <<sink, line, last, lines>>
  PROVE  Written
<1>1. PortKept(port') /\ port'.result = result
  BY FailKeeps DEF PortKept
<1>2. Printing'
  BY <1>1 DEF Printing
<1>3. EveryLineIsOneValue'
  BY DEF EveryLineIsOneValue
<1> QED BY <1>1, <1>2, <1>3 DEF Written, Typed

\* A port that has failed, or whose output has ended, is left as it is.
LEMMA KeptIsWritten ==
  ASSUME Typed, Printing, EveryLineIsOneValue, port \in Ports,
         UNCHANGED <<port, sink, line, last, lines>>
  PROVE  Written
<1>1. Printing' /\ EveryLineIsOneValue'
  BY DEF Printing, EveryLineIsOneValue
<1> QED BY <1>1 DEF Written, PortKept, Typed

\* A value begins.
LEMMA BeginValueWrites ==
  ASSUME Typed, Printing, EveryLineIsOneValue, port \in Ports, port # NoPort,
         port.result = "Continue",
         port' = BeginValue(port).port, UNCHANGED <<sink, line, last, lines>>
  PROVE  Written
<1>1. CASE port.printer.active \/ (port.kind = "EvalValue" /\ port.values # 0)
  <2>1. port' = Fail(port, "InvalidSequence")
    BY <1>1 DEF BeginValue, Invalid, Quiet
  <2> QED BY <2>1, FailedIsWritten DEF Results, Ends
<1>2. CASE ~(port.printer.active \/ (port.kind = "EvalValue" /\ port.values # 0))
  <2> DEFINE q == [NoPrinter EXCEPT !.active = TRUE]
  <2>1. port' = [port EXCEPT !.printer = q]
    BY <1>2 DEF BeginValue, Quiet
  <2>2. /\ q \in Printers /\ q.active /\ q.held = <<>> /\ q.roots = 0 /\ q.lists = <<>>
        /\ q.atom = "none"
    BY NoPrinterType DEF NoPrinter
  <2> HIDE DEF q
  <2>3. /\ port' \in Ports /\ port'.kind = port.kind /\ port'.generation = port.generation
        /\ port'.values = port.values /\ port'.result = "Continue" /\ port'.printer = q
    BY <2>1, <2>2 DEF Ports
  <2>4. line = <<>> /\ (port.kind = "EvalValue" => lines = port.values)
    BY <1>2 DEF Printing
  <2>5. line' \o q.held = <<>>
    BY <2>2, <2>4
  <2>6. Shape(<<>>, q)
    BY <2>2 DEF Shape, Between
  <2>7. Printing'
    BY <2>2, <2>3, <2>4, <2>5, <2>6 DEF Printing, Ends
  <2>8. EveryLineIsOneValue'
    BY DEF EveryLineIsOneValue
  <2> QED BY <2>3, <2>7, <2>8 DEF Written, PortKept, Typed
<1> QED BY <1>1, <1>2

\* A value ends: it is the line.
LEMMA EndValueWrites ==
  ASSUME Typed, Printing, EveryLineIsOneValue, port \in Ports, port # NoPort,
         port.result = "Continue",
         IF EndValue(port).writes THEN Drains(EndValue(port).port, EndValue(port).text)
         ELSE port' = EndValue(port).port /\ UNCHANGED <<sink, line, last, lines>>
  PROVE  Written
<1>1. CASE ~port.printer.active \/ ~MayFinish(port.printer) \/ port.printer.held # <<>>
  <2>1. port' = Fail(port, "InvalidSequence") /\ UNCHANGED <<sink, line, last, lines>>
    BY <1>1 DEF EndValue, Invalid, Quiet
  <2> QED BY <2>1, FailedIsWritten DEF Results, Ends
<1>2. CASE port.printer.active /\ MayFinish(port.printer) /\ port.printer.held = <<>>
  <2> DEFINE p == [port EXCEPT !.printer = NoPrinter, !.values = @ + 1]
  <2>1. Drains(p, <<"nl">>)
    BY <1>2 DEF EndValue, Writes
  <2>2. /\ p \in Ports /\ p.kind = port.kind /\ p.generation = port.generation
        /\ p.values = port.values + 1 /\ p.result = "Continue" /\ p.printer = NoPrinter
    <3>1. port.values + 1 \in Nat /\ NoPrinter \in Printers
      BY NoPrinterType DEF Ports
    <3> QED BY <3>1 DEF Ports
  <2> HIDE DEF p
  <2>3. /\ <<>> \in Texts /\ Len(<<>>) = 0 /\ <<"nl">> = <<>> \o <<"nl">>
        /\ p.printer.active = FALSE
    BY <2>2 DEF Texts, NoPrinter
  <2>4. Accepts(p, <<"nl">>)
    <3>1. \A i \in 1..Len(<<>>) : <<>>[i] # "("
      BY <2>3
    <3> QED BY <2>1, <2>3, <3>1, DrainsLine
  <2>5. line \o <<>> = line /\ line \in Texts
    BY ConcatEmptySeq DEF Typed, Texts
  <2>6. Shape(line, port.printer) /\ (port.kind = "EvalValue" => lines = port.values)
    BY <1>2, <2>5 DEF Printing
  <2>7. Between(line, <<>>, 1)
    BY <1>2, <2>6 DEF Shape, MayFinish
  <2>8. \A t \in Ext(line) : V(t, 1, Len(line))
    BY <2>7 DEF Between
  <2>9. line \in Ext(line)
    BY <2>5, LenProperties DEF Ext, Texts
  <2>10. IsLine(line \o <<>>)
    BY <2>5, <2>8, <2>9 DEF V, IsLine
  <2>11. CASE Refuses(p)
    BY <2>2, <2>11, RefusedIsWritten DEF PortKept
  <2>12. CASE /\ sink' = "Continue" /\ port' = p /\ line' = <<>>
              /\ last' \in Texts /\ lines' = lines + 1 /\ EveryLineIsOneValue'
    <3>1. Printing'
      BY <2>2, <2>6, <2>12 DEF Printing, NoPrinter, Ends
    <3> QED BY <2>2, <2>3, <2>12, <3>1 DEF Written, PortKept, Typed
  <2> QED BY <2>3, <2>4, <2>10, <2>11, <2>12, AcceptsLine
<1> QED BY <1>1, <1>2

\* A println is a line of its own.
LEMMA PrintlnWrites ==
  ASSUME Typed, Printing, EveryLineIsOneValue, port \in Ports, port # NoPort,
         port.result = "Continue", NEW event \in {"Println", "BadPrintln", "LongPrintln"},
         IF Println(port, event).writes
         THEN Drains(Println(port, event).port, Println(port, event).text)
         ELSE port' = Println(port, event).port /\ UNCHANGED <<sink, line, last, lines>>
  PROVE  Written
<1>1. CASE port.kind # "Form" \/ port.printer.active \/ event = "BadPrintln"
  <2>1. port' = Fail(port, "InvalidSequence") /\ UNCHANGED <<sink, line, last, lines>>
    BY <1>1 DEF Println, Invalid, Quiet
  <2> QED BY <2>1, FailedIsWritten DEF Results, Ends
<1>2. CASE port.kind = "Form" /\ ~port.printer.active /\ event = "LongPrintln"
  <2>1. port' = Fail(port, "LimitExceeded") /\ UNCHANGED <<sink, line, last, lines>>
    BY <1>2 DEF Println, Quiet
  <2> QED BY <2>1, FailedIsWritten DEF Results, Ends
<1>3. CASE port.kind = "Form" /\ ~port.printer.active /\ event = "Println"
  <2>1. Drains(port, <<"p", "nl">>)
    BY <1>3 DEF Println, Writes
  <2>2. /\ <<"p">> \in Texts /\ Len(<<"p">>) = 1 /\ <<"p">>[1] = "p"
        /\ <<"p", "nl">> = <<"p">> \o <<"nl">>
    BY OneToken DEF Tokens
  <2>3. port.printer \in Printers /\ port.printer.active = FALSE
    BY <1>3 DEF Ports, Printers
  <2>4. Accepts(port, <<"p", "nl">>)
    <3>1. \A i \in 1..Len(<<"p">>) : <<"p">>[i] # "("
      BY <2>2
    <3> QED BY <2>1, <2>2, <2>3, <3>1, DrainsLine
  <2>5. line = <<>>
    BY <1>3 DEF Printing
  <2>6. line \o <<"p">> = <<"p">>
    BY <2>2, <2>5, ConcatEmptySeq DEF Texts
  <2>7. IsLine(line \o <<"p">>)
    BY <2>6 DEF IsLine
  <2>8. CASE Refuses(port)
    BY <2>8, RefusedIsWritten DEF PortKept
  <2>9. CASE /\ sink' = "Continue" /\ port' = port /\ line' = <<>>
             /\ last' \in Texts /\ lines' = lines + 1 /\ EveryLineIsOneValue'
    <3>1. Printing'
      BY <1>3, <2>9 DEF Printing, Ends
    <3>2. line' \in Texts
      BY <2>9 DEF Texts
    <3> QED BY <2>9, <3>1, <3>2 DEF Written, PortKept, Typed
  <2> QED BY <2>2, <2>4, <2>7, <2>8, <2>9, AcceptsLine
<1> QED BY <1>1, <1>2, <1>3

\* An event of a value goes to the printer, whose text the layout drains as far as it likes.
LEMMA ValueWrites ==
  ASSUME Typed, Printing, EveryLineIsOneValue, port \in Ports, port # NoPort,
         port.result = "Continue", NEW event,
         IF Value(port, event).writes
         THEN Drains(Value(port, event).port, Value(port, event).text)
         ELSE port' = Value(port, event).port /\ UNCHANGED <<sink, line, last, lines>>
  PROVE  Written
<1> DEFINE printed == PrinterEvent(port.printer, event)
<1>1. CASE ~(port.printer.active /\ printed.ok)
  <2>1. port' = Fail(port, "InvalidSequence") /\ UNCHANGED <<sink, line, last, lines>>
    BY <1>1 DEF Value, Invalid, Quiet
  <2> QED BY <2>1, FailedIsWritten DEF Results, Ends
<1>2. CASE port.printer.active /\ printed.ok
  <2> DEFINE T == line \o port.printer.held
             text == port.printer.held \o printed.text
             p == [port EXCEPT !.printer = printed.printer]
  <2>1. Drains(p, text)
    BY <1>2 DEF Value, Writes
  <2>2. port.printer \in Printers /\ port.printer.held \in Texts /\ line \in Texts
    BY DEF Ports, Printers, Typed
  <2>3. T \in Texts /\ Shape(T, port.printer) /\ (port.kind = "EvalValue" => lines = port.values)
    BY <1>2, <2>2, ConcatProperties DEF Printing, Texts
  <2>4. Goes(port.printer, T, printed)
    <3> HIDE DEF T
    <3> QED BY <2>2, <2>3, PrinterGoes
  <2>5. /\ printed.printer \in Printers /\ printed.printer.active /\ printed.text \in Texts
        /\ Shape(T \o printed.text, printed.printer)
    <3> HIDE DEF T
    <3> QED BY <1>2, <2>4 DEF Goes
  <2> HIDE DEF printed
  <2>6. T \o printed.text = line \o text /\ text \in Texts
    BY <2>2, <2>5, Joined
  <2>7. Shape(line \o text, printed.printer)
    BY <2>5, <2>6
  <2>8. /\ p \in Ports /\ p.kind = port.kind /\ p.generation = port.generation
        /\ p.values = port.values /\ p.result = "Continue" /\ p.printer = printed.printer
    BY <2>5 DEF Ports
  <2> HIDE DEF p, text, T
  <2>9. PICK d \in Drained(text) :
          Accepts([p EXCEPT !.printer.held = SubSeq(text, d + 1, Len(text))], SubSeq(text, 1, d))
    BY <2>1, <2>5, <2>8 DEF Drains
  <2>10. d \in 0..Len(text)
    <3>1. Len(text) \in Nat /\ DOMAIN text = 1..Len(text)
      BY <2>6, LenProperties DEF Texts
    <3> QED BY <2>9, <3>1 DEF Drained
  <2> DEFINE rest == SubSeq(text, d + 1, Len(text))
             r == [p EXCEPT !.printer.held = rest]
  <2>11. /\ SubSeq(text, 1, d) \in Texts /\ rest \in Texts
         /\ (line \o SubSeq(text, 1, d)) \o rest = line \o text
    BY <2>2, <2>6, <2>10, Split
  <2> HIDE DEF rest
  <2>12. /\ r \in Ports /\ r.kind = port.kind /\ r.generation = port.generation
         /\ r.values = port.values /\ r.result = "Continue"
         /\ r.printer = [printed.printer EXCEPT !.held = rest]
    BY <2>5, <2>8, <2>11 DEF Ports, Printers
  <2>13. /\ r.printer.active /\ r.printer.held = rest /\ r.printer.roots = printed.printer.roots
         /\ r.printer.lists = printed.printer.lists /\ r.printer.atom = printed.printer.atom
    BY <2>5, <2>12 DEF Printers
  <2>14. Shape(line \o text, r.printer)
    BY <2>7, <2>13 DEF Shape
  <2>15. Accepts(r, SubSeq(text, 1, d))
    BY <2>9 DEF rest
  <2> HIDE DEF r
  <2>16. CASE Refuses(r)
    BY <2>12, <2>16, RefusedIsWritten DEF PortKept
  <2>17. CASE /\ sink' = "Continue" /\ port' = r /\ line' = line \o SubSeq(text, 1, d)
              /\ line' \in Texts /\ UNCHANGED <<last, lines>>
    <3>1. Shape(line' \o r.printer.held, r.printer)
      BY <2>11, <2>13, <2>14, <2>17
    <3>2. Printing'
      BY <2>3, <2>12, <2>13, <2>17, <3>1 DEF Printing, Ends
    <3>3. EveryLineIsOneValue'
      BY <2>17 DEF EveryLineIsOneValue
    <3> QED BY <2>12, <2>17, <3>2, <3>3 DEF Written, PortKept, Typed
  <2> QED BY <2>11, <2>15, <2>16, <2>17, AcceptsText
<1> HIDE DEF printed
<1> QED BY <1>1, <1>2

\* Any event.
LEMMA EventWrites ==
  ASSUME Typed, Leased, Printing, EveryLineIsOneValue, NEW event \in Events, LispWrites(event)
  PROVE  Written
<1>1. port \in Ports /\ port # NoPort /\ IsOpen(bridge, port) /\ port.result # "Inactive"
  BY DEF Typed, Leased, Printing, LispWrites
<1> DEFINE handled == Handle(port, event)
<1>2. IF handled.writes THEN Drains(handled.port, handled.text)
      ELSE port' = handled.port /\ UNCHANGED <<sink, line, last, lines>>
  BY DEF LispWrites, output
<1>3. CASE event = "Malformed"
  <2>1. handled = Invalid(port)
    BY <1>3 DEF Handle
  <2>2. port' = Fail(port, "InvalidSequence") /\ UNCHANGED <<sink, line, last, lines>>
    BY <1>2, <2>1 DEF Invalid, Quiet
  <2> QED BY <1>1, <2>2, FailedIsWritten DEF Results, Ends
<1>4. CASE event # "Malformed" /\ port.result # "Continue"
  <2>1. handled = Quiet(port)
    BY <1>4 DEF Handle
  <2>2. UNCHANGED <<port, sink, line, last, lines>>
    BY <1>2, <2>1 DEF Quiet
  <2> QED BY <1>1, <2>2, KeptIsWritten
<1>5. CASE event # "Malformed" /\ port.result = "Continue"
  <2>1. CASE event = "BeginValue"
    <3>1. handled = BeginValue(port)
      BY <1>1, <1>5, <2>1 DEF Handle
    <3>2. ~BeginValue(port).writes
      BY DEF BeginValue, Invalid, Quiet
    <3>3. port' = BeginValue(port).port /\ UNCHANGED <<sink, line, last, lines>>
      BY <1>2, <3>1, <3>2
    <3> QED BY <1>1, <1>5, <3>3, BeginValueWrites
  <2>2. CASE event = "EndValue"
    <3>1. handled = EndValue(port)
      BY <1>1, <1>5, <2>2 DEF Handle
    <3> HIDE DEF handled
    <3> QED BY <1>1, <1>2, <1>5, <3>1, EndValueWrites
  <2>3. CASE event \in {"Println", "BadPrintln", "LongPrintln"}
    <3>1. handled = Println(port, event)
      BY <1>1, <1>5, <2>3 DEF Handle
    <3> HIDE DEF handled
    <3> QED BY <1>1, <1>2, <1>5, <2>3, <3>1, PrintlnWrites
  <2>4. CASE event \notin {"BeginValue", "EndValue", "Println", "BadPrintln", "LongPrintln"}
    <3>1. handled = Value(port, event)
      BY <1>1, <1>5, <2>4 DEF Handle
    <3> HIDE DEF handled
    <3> QED BY <1>1, <1>2, <1>5, <3>1, ValueWrites
  <2> QED BY <2>1, <2>2, <2>3, <2>4
<1> QED BY <1>3, <1>4, <1>5

-----------------------------------------------------------------------------
(***************************************************************************)
(* The lease, and the steps of the execution.                              *)
(***************************************************************************)
\* A failure is kept.
LEMMA LatchType ==
  ASSUME NEW b \in Bridges, NEW failure \in Failures \cup {"none"}
  PROVE  /\ Latch(b, failure) \in Bridges
         /\ Latch(b, failure).failure = IF b.failure = "none" THEN failure ELSE b.failure
         /\ Latch(b, failure).openKind = b.openKind /\ Latch(b, failure).active = b.active
         /\ Latch(b, failure).claimed = b.claimed
         /\ Latch(b, failure).generation = b.generation
BY DEF Latch, Bridges

\* The output of a step begins, and is leased.
LEMMA BeginType ==
  ASSUME NEW b \in Bridges, NEW kind \in Kinds
  PROVE  /\ BeginValueOutput(b, kind) \in Bridges
         /\ BeginValueOutput(b, kind).openKind = kind
         /\ BeginValueOutput(b, kind).active = FALSE
         /\ BeginValueOutput(b, kind).claimed = FALSE
         /\ AcquireValueOutput(BeginValueOutput(b, kind)) \in Bridges
<1> DEFINE known == IF b.openKind # "none" \/ b.active THEN Latch(b, "Abandoned") ELSE b
<1>1. known \in Bridges
  BY LatchType DEF Failures
<1> HIDE DEF known
<1> DEFINE begun == [known EXCEPT !.generation = @ + 1, !.openKind = kind, !.active = FALSE,
                                  !.claimed = FALSE]
<1>2. known.generation + 1 \in Nat
  BY <1>1 DEF Bridges
<1>3. begun \in Bridges /\ begun.openKind = kind /\ begun.active = FALSE /\ begun.claimed = FALSE
  BY <1>1, <1>2 DEF Bridges
<1>4. BeginValueOutput(b, kind) = begun
  BY DEF BeginValueOutput, known
<1> HIDE DEF begun
<1>5. AcquireValueOutput(begun) \in Bridges
  BY <1>3 DEF AcquireValueOutput, Bridges
<1> QED BY <1>3, <1>4, <1>5

\* The port of the step.
LEMMA NewPortType ==
  ASSUME Typed, NEW b \in Bridges, b.openKind \in Kinds
  PROVE  /\ NewPort(b) \in Ports /\ NewPort(b).kind = b.openKind
         /\ NewPort(b).generation = b.generation /\ NewPort(b).values = 0
         /\ NewPort(b).result = sink /\ NewPort(b).printer = NoPrinter
BY NoPrinterType DEF NewPort, Ports, Bridges, Typed, Results

\* The failure of a step is one of the bridge's.
LEMMA CompletionFailureType ==
  ASSUME NEW p \in Ports
  PROVE  CompletionFailure(p) \in Failures \cup {"none"}
<1>1. BridgeFailure(p) \in Failures \cup {"none"}
  BY DEF BridgeFailure, Failures
<1>2. p.printer.active \in BOOLEAN
  BY DEF Ports, Printers
<1> QED BY <1>1, <1>2 DEF CompletionFailure, Failures

\* A port is released, and the output of its step is closed.
LEMMA FinishType ==
  ASSUME NEW b \in Bridges, NEW p \in Ports
  PROVE  Finish(b, p) \in Bridges
<1> DEFINE failure == CompletionFailure(p)
<1>1. Latch(b, failure) \in Bridges
  BY CompletionFailureType, LatchType
<1>2. [Latch(b, failure) EXCEPT !.active = FALSE] \in Bridges
  <2> DEFINE latched == Latch(b, failure)
  <2> HIDE DEF latched
  <2> SUFFICES [latched EXCEPT !.active = FALSE] \in Bridges
    BY DEF latched
  <2> QED BY <1>1 DEF latched, Bridges
<1> QED BY <1>2 DEF Finish, ReleaseValueOutput

\* The failures that closing finds are latched: none is lost.
LEMMA CloseType ==
  ASSUME NEW b \in Bridges, NEW kind \in Kinds
  PROVE  /\ CloseValueOutput(b, kind).bridge \in Bridges
         /\ CloseValueOutput(b, kind).failure = "none" =>
              b.failure = "none" /\ (kind = "EvalValue" => b.claimed)
<1> DEFINE checked == IF b.openKind # kind THEN Latch(b, "InvalidSequence") ELSE b
           abandoned == IF checked.active THEN Latch(checked, "Abandoned") ELSE checked
           missing == IF kind = "EvalValue" /\ ~b.claimed THEN Latch(abandoned, "MissingValue")
                      ELSE abandoned
<1>1. /\ checked \in Bridges /\ (b.failure # "none" => checked.failure # "none")
  BY LatchType DEF Failures
<1> HIDE DEF checked
<1>2. /\ abandoned \in Bridges /\ (checked.failure # "none" => abandoned.failure # "none")
  BY <1>1, LatchType DEF Failures
<1> HIDE DEF abandoned
<1>3. /\ missing \in Bridges /\ (abandoned.failure # "none" => missing.failure # "none")
      /\ (kind = "EvalValue" /\ ~b.claimed => missing.failure # "none")
  BY <1>2, LatchType DEF Failures
<1>4. /\ CloseValueOutput(b, kind).bridge =
           [missing EXCEPT !.openKind = "none", !.active = FALSE, !.failure = "none"]
      /\ CloseValueOutput(b, kind).failure = missing.failure
  BY DEF CloseValueOutput, checked, abandoned
<1> HIDE DEF missing
<1>5. [missing EXCEPT !.openKind = "none", !.active = FALSE, !.failure = "none"] \in Bridges
  BY <1>3 DEF Bridges
<1> QED BY <1>1, <1>2, <1>3, <1>4, <1>5

\* An execution that is done.
LEMMA EndedType ==
  ASSUME Typed, NEW outcome \in {"Success", "Failure", "Cancelled"}
  PROVE  /\ Ended(outcome) \in Execs /\ Ended(outcome).phase = "Done"
         /\ Ended(outcome).outcome = outcome /\ Ended(outcome).mode = exec.mode
BY DEF Typed, Execs, Ended

\* A step completes.  The hypothesis is what its success says of the output.
LEMMA StepCompletesInv ==
  ASSUME Inv, NEW kind \in Kinds, NEW b \in Bridges, NEW succeeded \in BOOLEAN,
         StepCompletes(kind, b, succeeded), exec.phase # "Done",
         UNCHANGED <<sink, line, last, events>>, lines' = lines \/ lines' = 0,
         succeeded /\ CloseValueOutput(b, kind).failure = "none" /\ sink = "Continue" =>
           line = <<>> /\ (kind = "EvalValue" => lines' = 1)
  PROVE  Inv'
<1> DEFINE closed == CloseValueOutput(b, kind)
<1>1. bridge' = closed.bridge /\ bridge' \in Bridges /\ port' = NoPort
  BY CloseType DEF StepCompletes
<1>2. /\ exec \in Execs /\ sink' \in {"Continue"} \cup Ends /\ line' \in Texts /\ last' \in Texts
      /\ lines' \in Nat /\ events' \in 0..MaxEvents
  BY DEF Inv, Typed
<1>3. EveryLineIsOneValue'
  BY DEF Inv, Typed, EveryLineIsOneValue
<1>4. Leased' /\ Printing'
  BY <1>1 DEF Leased, Printing
<1>5. CASE ~succeeded \/ closed.failure # "none"
  <2>1. exec' = Ended("Failure")
    BY <1>5 DEF StepCompletes
  <2>2. exec' \in Execs /\ exec'.phase = "Done" /\ exec'.outcome = "Failure"
    BY <2>1, EndedType DEF Inv
  <2>3. Whole' /\ Open' /\ SuccessMeansWholeOutput'
    BY <2>2 DEF Whole, Open, SuccessMeansWholeOutput
  <2> QED BY <1>1, <1>2, <1>3, <1>4, <2>2, <2>3 DEF Inv, Typed
<1>6. CASE succeeded /\ closed.failure = "none" /\ kind = "EvalValue"
  <2>1. exec' = Ended("Success")
    BY <1>6 DEF StepCompletes
  <2>2. exec' \in Execs /\ exec'.phase = "Done" /\ exec'.outcome = "Success"
    BY <2>1, EndedType DEF Inv
  <2>3. sink' = "Continue" => line' = <<>> /\ lines' = 1
    BY <1>6
  <2>4. Whole' /\ Open' /\ SuccessMeansWholeOutput'
    BY <2>2, <2>3 DEF Whole, Open, SuccessMeansWholeOutput
  <2> QED BY <1>1, <1>2, <1>3, <1>4, <2>2, <2>4 DEF Inv, Typed
<1>7. CASE succeeded /\ closed.failure = "none" /\ kind # "EvalValue"
  <2>1. exec' = IF exec.cancel THEN Ended("Cancelled") ELSE [exec EXCEPT !.phase = "BetweenForms"]
    BY <1>7 DEF StepCompletes
  <2>2. sink' = "Continue" => line' = <<>>
    BY <1>7
  <2>3. CASE exec.cancel
    <3>1. exec' \in Execs /\ exec'.phase = "Done" /\ exec'.outcome = "Cancelled"
      BY <2>1, <2>3, EndedType DEF Inv
    <3>2. Whole' /\ Open' /\ SuccessMeansWholeOutput'
      BY <3>1 DEF Whole, Open, SuccessMeansWholeOutput
    <3> QED BY <1>1, <1>2, <1>3, <1>4, <3>1, <3>2 DEF Inv, Typed
  <2>4. CASE ~exec.cancel
    <3>1. exec' \in Execs /\ exec'.phase = "BetweenForms" /\ exec'.outcome = exec.outcome
      BY <1>2, <2>1, <2>4 DEF Execs
    <3>2. exec.outcome = "none"
      BY DEF Inv, Open
    <3>3. Whole' /\ Open' /\ SuccessMeansWholeOutput'
      BY <2>2, <3>1, <3>2 DEF Whole, Open, SuccessMeansWholeOutput
    <3> QED BY <1>1, <1>2, <1>3, <1>4, <3>1, <3>3 DEF Inv, Typed
  <2> QED BY <2>3, <2>4
<1> QED BY <1>5, <1>6, <1>7

\* The port of a step is opened where no line has begun.
LEMMA OpenPortInv ==
  ASSUME Inv, NEW kind \in Kinds, NEW phase \in {"AwaitingForm", "AwaitingEmit"},
         OpenPort(kind, phase), exec.phase \in {"BetweenForms", "EmitEvalValue"},
         kind = "Form" => exec.forms < MaxForms,
         UNCHANGED <<sink, line, last, events>>,
         lines' = IF kind = "EvalValue" THEN 0 ELSE lines
  PROVE  Inv'
<1> DEFINE begun == BeginValueOutput(bridge, kind)
           open == AcquireValueOutput(begun)
<1>1. bridge \in Bridges
  BY DEF Inv, Typed
<1>2. /\ begun \in Bridges /\ begun.openKind = kind /\ open \in Bridges
      /\ begun.failure = "none"
  BY <1>1, BeginType DEF OpenPort, MayAcquire
<1>3. /\ bridge' = open /\ port' = NewPort(open)
      /\ exec' = [exec EXCEPT !.phase = phase,
                              !.forms = IF kind = "Form" THEN @ + 1 ELSE @]
  BY DEF OpenPort
<1> HIDE DEF begun
<1>4. open.openKind = kind /\ open.active /\ open.failure = "none"
  BY <1>2 DEF AcquireValueOutput, Bridges
<1> HIDE DEF open
<1>5. /\ port' \in Ports /\ port'.kind = kind /\ port'.generation = open.generation
      /\ port'.values = 0 /\ port'.result = sink /\ port'.printer = NoPrinter
  BY <1>2, <1>3, <1>4, NewPortType DEF Inv
<1>6. exec' \in Execs /\ exec'.phase = phase /\ exec'.outcome = "none"
  <2>1. exec \in Execs /\ exec.outcome = "none"
    BY DEF Inv, Typed, Open
  <2>2. (IF kind = "Form" THEN exec.forms + 1 ELSE exec.forms) \in 0..MaxForms
    BY <2>1, BridgeAssumption DEF Execs
  <2> QED BY <1>3, <2>1, <2>2 DEF Execs
<1>7. Typed'
  <2>1. lines' \in Nat
    BY DEF Inv, Typed
  <2> QED BY <1>2, <1>3, <1>5, <1>6, <2>1 DEF Inv, Typed
<1>8. Leased'
  BY <1>3, <1>4, <1>5, <1>6 DEF Leased, IsOpen
<1>9. Printing'
  <2>1. sink = "Continue" => line = <<>>
    BY DEF Inv, Whole
  <2>2. sink # "Inactive" /\ (sink \in Ends => sink # "Continue")
    BY DEF Inv, Typed, Ends
  <2>3. kind = "EvalValue" => lines' = 0
    OBVIOUS
  <2>4. NoPrinter.active = FALSE
    BY DEF NoPrinter
  <2> QED BY <1>5, <2>1, <2>2, <2>3, <2>4 DEF Printing
<1>10. Whole' /\ Open' /\ SuccessMeansWholeOutput'
  BY <1>6 DEF Whole, Open, SuccessMeansWholeOutput
<1>11. EveryLineIsOneValue'
  BY DEF Inv, Typed, EveryLineIsOneValue
<1> QED BY <1>7, <1>8, <1>9, <1>10, <1>11 DEF Inv

\* A step that could not be staged fails.
LEMMA StagingFailsInv ==
  ASSUME Inv, NEW kind \in Kinds, StagingFails(kind),
         exec.phase # "Done", UNCHANGED <<sink, line, last, events>>, lines' = lines \/ lines' = 0
  PROVE  Inv'
<1> DEFINE open == AcquireValueOutput(BeginValueOutput(bridge, kind))
           p == IF kind = "Form" THEN NewPort(open) ELSE Fail(NewPort(open), "InvalidSequence")
<1>1. bridge \in Bridges
  BY DEF Inv, Typed
<1>2. BeginValueOutput(bridge, kind) \in Bridges /\ open \in Bridges
      /\ BeginValueOutput(bridge, kind).openKind = kind
  BY <1>1, BeginType
<1>3. open.openKind \in Kinds
  BY <1>2 DEF AcquireValueOutput, Bridges
<1>4. StepCompletes(kind, Finish(open, p), FALSE)
  BY DEF StagingFails
<1> HIDE DEF open
<1>5. p \in Ports
  <2>1. NewPort(open) \in Ports
    BY <1>2, <1>3, NewPortType DEF Inv
  <2> QED BY <2>1, FailKeeps DEF Results
<1> HIDE DEF p
<1>6. Finish(open, p) \in Bridges
  BY <1>2, <1>5, FinishType
<1> QED BY <1>4, <1>6, StepCompletesInv

\* AutoLISP returns, and its port is finished.
LEMMA ReturnInv ==
  ASSUME Inv, NEW p \in Ports, p.kind = port.kind, p.generation = port.generation,
         NEW succeeded \in BOOLEAN, port # NoPort, succeeded => p = port,
         StepCompletes(port.kind, Finish(bridge, p), succeeded),
         UNCHANGED <<sink, line, last, lines, events>>
  PROVE  Inv'
<1>1. /\ bridge \in Bridges /\ port \in Ports /\ port.kind \in Kinds
      /\ IsOpen(bridge, port) /\ exec.phase # "Done"
  BY DEF Inv, Typed, Leased, Ports
<1>2. Finish(bridge, p) \in Bridges
  BY <1>1, FinishType
<1>3. ASSUME succeeded, CloseValueOutput(Finish(bridge, p), port.kind).failure = "none",
             sink = "Continue"
      PROVE  line = <<>> /\ (port.kind = "EvalValue" => lines = 1)
  <2>1. Finish(bridge, p).failure = "none" /\ p = port
    BY <1>1, <1>2, <1>3, CloseType
  <2> DEFINE failure == CompletionFailure(port)
  <2>2. failure \in Failures \cup {"none"}
    BY <1>1, CompletionFailureType
  <2> HIDE DEF failure
  <2>3. /\ Latch(bridge, failure) \in Bridges
        /\ Latch(bridge, failure).failure = failure
    BY <1>1, <2>2, LatchType DEF IsOpen
  <2>4. Finish(bridge, port) = [Latch(bridge, failure) EXCEPT !.active = FALSE]
    BY <1>1 DEF Finish, ReleaseValueOutput, IsOpen, failure
  <2>5. Finish(bridge, port).failure = failure
    BY <2>3, <2>4 DEF Bridges
  <2>6. CompletionFailure(port) = "none"
    BY <2>1, <2>5 DEF failure
  <2>7. port.result # "Inactive" /\ port.result \notin Ends /\ port.result \in Results
    BY <1>1, <1>3 DEF Inv, Printing, Ports
  <2>8. port.result = "Continue"
    <3> SUFFICES ASSUME port.result # "Continue" PROVE FALSE
      OBVIOUS
    <3>1. BridgeFailure(port) = "none"
      BY <2>6 DEF CompletionFailure
    <3>2. port.result \in {"InvalidSequence", "LimitExceeded"}
      BY <2>7 DEF Results
    <3> QED BY <3>1, <3>2 DEF BridgeFailure
  <2>9. port.printer.active \in BOOLEAN
    BY <1>1 DEF Ports, Printers
  <2>10. ~port.printer.active /\ (port.kind = "EvalValue" => port.values = 1)
    BY <2>6, <2>8, <2>9 DEF CompletionFailure
  <2> QED BY <2>8, <2>10 DEF Inv, Printing
<1> QED BY <1>1, <1>2, <1>3, StepCompletesInv

-----------------------------------------------------------------------------
(***************************************************************************)
(* Every step keeps the invariant.                                         *)
(***************************************************************************)
\* It holds at the beginning.
LEMMA InitInv == Init => Inv
<1> SUFFICES ASSUME Init PROVE Inv
  OBVIOUS
<1>1. Typed
  <2>1. exec \in Execs
    <3>1. 0 \in 0..MaxForms
      BY BridgeAssumption
    <3>2. exec \in [mode : {"Run", "Eval"}, phase : {"BetweenForms"}, forms : {0},
                     cancel : {FALSE}, outcome : {"none"}]
      BY DEF Init
    <3> QED BY <3>1, <3>2 DEF Execs
  <2>2. bridge \in Bridges
    BY DEF Init, Bridges
  <2>3. line \in Texts /\ last \in Texts
    BY DEF Init, Texts
  <2> QED BY <2>1, <2>2, <2>3, BridgeAssumption DEF Init, Typed
<1>2. exec.phase = "BetweenForms" /\ exec.outcome = "none"
  BY DEF Init
<1>3. Leased /\ Printing /\ Whole /\ Open /\ EveryLineIsOneValue /\ SuccessMeansWholeOutput
  BY <1>2 DEF Init, Leased, Printing, Whole, Open, EveryLineIsOneValue, SuccessMeansWholeOutput
<1> QED BY <1>1, <1>3 DEF Inv

\* An event of AutoLISP.
LEMMA LispWritesInv ==
  ASSUME Inv, NEW event \in Events, LispWrites(event)
  PROVE  Inv'
<1>1. Written
  BY EventWrites DEF Inv
<1>2. UNCHANGED <<exec, bridge>> /\ port # NoPort /\ events' = events + 1 /\ events < MaxEvents
  BY DEF LispWrites
<1>3. events' \in 0..MaxEvents
  BY <1>2, BridgeAssumption DEF Inv, Typed
<1>4. Typed'
  BY <1>1, <1>2, <1>3 DEF Inv, Typed, Written, PortKept
<1>5. IsOpen(bridge, port) /\ exec.phase \in {"AwaitingForm", "AwaitingEmit"}
  BY <1>2 DEF Inv, Leased
<1>6. port'.kind = port.kind /\ port'.generation = port.generation
  BY <1>1 DEF Written, PortKept
<1>7. Leased'
  BY <1>2, <1>5, <1>6 DEF Leased, IsOpen
<1>8. exec.outcome = "none"
  BY <1>5 DEF Inv, Open
<1>9. Whole' /\ Open' /\ SuccessMeansWholeOutput'
  BY <1>2, <1>5, <1>8 DEF Whole, Open, SuccessMeansWholeOutput
<1> QED BY <1>1, <1>4, <1>7, <1>9 DEF Inv, Written

\* A form is taken.
LEMMA TakeFormInv ==
  ASSUME Inv, TakeForm
  PROVE  Inv'
<1>1. /\ exec.phase = "BetweenForms" /\ exec.forms < MaxForms /\ "Form" \in Kinds
      /\ UNCHANGED <<sink, line, last, lines, events>> /\ bridge \in Bridges
  <2>1. exec.forms < IF exec.mode = "Eval" THEN 1 ELSE MaxForms
    BY DEF TakeForm
  <2>2. exec.forms < MaxForms
    BY <2>1, BridgeAssumption DEF Inv, Typed, Execs
  <2> QED BY <2>2 DEF TakeForm, output, Kinds, Inv, Typed
<1>2. CASE OpenPort("Form", "AwaitingForm")
  BY <1>1, <1>2, OpenPortInv
<1>3. CASE StagingFails("Form")
  BY <1>1, <1>3, StagingFailsInv
<1>4. CASE StepCompletes("Form", BeginValueOutput(bridge, "Form"), FALSE)
  <2>1. BeginValueOutput(bridge, "Form") \in Bridges
    BY <1>1, BeginType
  <2> QED BY <1>1, <1>4, <2>1, StepCompletesInv
<1> QED BY <1>2, <1>3, <1>4 DEF TakeForm

\* The value of an eval is printed.
LEMMA EmitEvalValueInv ==
  ASSUME Inv, EmitEvalValue
  PROVE  Inv'
<1>1. /\ exec.phase = "EmitEvalValue" /\ lines' = 0 /\ "EvalValue" \in Kinds
      /\ UNCHANGED <<sink, line, last, events>> /\ bridge \in Bridges
  BY DEF EmitEvalValue, Kinds, Inv, Typed
<1>2. CASE OpenPort("EvalValue", "AwaitingEmit")
  BY <1>1, <1>2, OpenPortInv
<1>3. CASE StagingFails("EvalValue")
  BY <1>1, <1>3, StagingFailsInv
<1>4. CASE StepCompletes("EvalValue", BeginValueOutput(bridge, "EvalValue"), TRUE)
  <2> DEFINE begun == BeginValueOutput(bridge, "EvalValue")
  <2>1. begun \in Bridges /\ begun.claimed = FALSE
    BY <1>1, BeginType
  <2>2. CloseValueOutput(begun, "EvalValue").failure # "none"
    BY <1>1, <2>1, CloseType
  <2> HIDE DEF begun
  <2>3. StepCompletes("EvalValue", begun, TRUE)
    BY <1>4 DEF begun
  <2> QED BY <1>1, <2>1, <2>2, <2>3, StepCompletesInv
<1> QED BY <1>2, <1>3, <1>4 DEF EmitEvalValue

\* AutoLISP returns.
LEMMA LispReturnsInv ==
  ASSUME Inv, NEW succeeded \in BOOLEAN, LispReturns(succeeded)
  PROVE  Inv'
<1>1. port \in Ports /\ port # NoPort
  BY DEF LispReturns, Inv, Typed
<1>2. /\ StepCompletes(port.kind, Finish(bridge, port), succeeded)
      /\ UNCHANGED <<sink, line, last, lines, events>>
  BY DEF LispReturns, output
<1> QED BY <1>1, <1>2, ReturnInv

\* AutoCAD cancels the driver.
LEMMA DriverCancelledInv ==
  ASSUME Inv, DriverCancelled
  PROVE  Inv'
<1> DEFINE p == Fail(port, "InvalidSequence")
<1>1. port \in Ports /\ port # NoPort
  BY DEF DriverCancelled, Inv, Typed
<1>2. p \in Ports /\ p.kind = port.kind /\ p.generation = port.generation
  BY <1>1, FailKeeps DEF Results
<1>3. /\ StepCompletes(port.kind, Finish(bridge, p), FALSE)
      /\ UNCHANGED <<sink, line, last, lines, events>>
  BY DEF DriverCancelled, output
<1> HIDE DEF p
<1> QED BY <1>1, <1>2, <1>3, ReturnInv

\* The execution ends in any other way.
LEMMA EndsInv ==
  ASSUME Inv, NEW outcome \in {"Failure", "Cancelled"}, exec' = Ended(outcome),
         bridge' \in Bridges, port' = NoPort \/ exec.phase \notin {"AwaitingForm", "AwaitingEmit"},
         port' = NoPort \/ port' = port, UNCHANGED <<sink, line, last, lines, events>>
  PROVE  Inv'
<1>1. exec' \in Execs /\ exec'.phase = "Done" /\ exec'.outcome = outcome
  BY EndedType DEF Inv
<1>2. port' = NoPort
  BY DEF Inv, Leased
<1>3. Typed'
  BY <1>1, <1>2 DEF Inv, Typed
<1>4. Leased' /\ Printing' /\ Whole' /\ Open' /\ SuccessMeansWholeOutput'
  BY <1>1, <1>2 DEF Leased, Printing, Whole, Open, SuccessMeansWholeOutput
<1>5. EveryLineIsOneValue'
  BY DEF Inv, EveryLineIsOneValue
<1> QED BY <1>3, <1>4, <1>5 DEF Inv

\* The execution is cancelled between two forms.
LEMMA CancelBetweenFormsInv ==
  ASSUME Inv, CancelBetweenForms
  PROVE  Inv'
<1>1. /\ exec.phase = "BetweenForms" /\ exec' = Ended("Cancelled") /\ bridge' \in Bridges
      /\ port' = port /\ UNCHANGED <<sink, line, last, lines, events>>
  BY DEF CancelBetweenForms, output, Inv, Typed
<1> QED BY <1>1, EndsInv

\* The driver fails.
LEMMA DriverFailsInv ==
  ASSUME Inv, DriverFails
  PROVE  Inv'
<1>1. port \in Ports /\ port.kind \in Kinds /\ bridge \in Bridges
  BY DEF DriverFails, Inv, Typed, Ports
<1>2. CloseValueOutput(Finish(bridge, port), port.kind).bridge \in Bridges
  BY <1>1, FinishType, CloseType
<1>3. /\ exec' = Ended("Failure") /\ bridge' \in Bridges /\ port' = NoPort
      /\ UNCHANGED <<sink, line, last, lines, events>>
  BY <1>2 DEF DriverFails, output
<1> QED BY <1>3, EndsInv

\* The undo group is committed.
LEMMA CommitUndoGroupInv ==
  ASSUME Inv, CommitUndoGroup
  PROVE  Inv'
<1>1. /\ exec.phase = "BetweenForms" /\ UNCHANGED <<sink, line, last, lines, events>>
      /\ UNCHANGED <<bridge, port>> /\ bridge' \in Bridges /\ port' = port
  BY DEF CommitUndoGroup, output, Inv, Typed
<1>2. PICK succeeded \in BOOLEAN :
        exec' = CASE ~succeeded -> Ended("Failure")
                  [] succeeded /\ exec.mode = "Run" -> Ended("Success")
                  [] succeeded /\ exec.mode = "Eval" -> [exec EXCEPT !.phase = "EmitEvalValue"]
  BY DEF CommitUndoGroup
<1>3. exec \in Execs /\ exec.mode \in {"Run", "Eval"} /\ exec.outcome = "none" /\ port = NoPort
  BY <1>1 DEF Inv, Typed, Execs, Open, Leased
<1>4. EveryLineIsOneValue' /\ Leased' /\ Printing'
  BY <1>1, <1>3 DEF Inv, EveryLineIsOneValue, Leased, Printing
<1>5. sink' = "Continue" => line' = <<>>
  BY <1>1 DEF Inv, Whole
<1>6. CASE ~succeeded
  <2>1. exec' = Ended("Failure")
    BY <1>2, <1>6
  <2> QED BY <1>1, <2>1, EndsInv
<1>7. CASE succeeded /\ exec.mode = "Run"
  <2>1. exec' = Ended("Success")
    BY <1>2, <1>7
  <2>2. /\ exec' \in Execs /\ exec'.phase = "Done" /\ exec'.outcome = "Success"
        /\ exec'.mode = "Run"
    BY <1>7, <2>1, EndedType DEF Inv
  <2>3. Whole' /\ Open' /\ SuccessMeansWholeOutput'
    BY <1>5, <2>2 DEF Whole, Open, SuccessMeansWholeOutput
  <2>4. Typed'
    BY <1>1, <2>2 DEF Inv, Typed
  <2> QED BY <1>4, <2>3, <2>4 DEF Inv
<1>8. CASE succeeded /\ exec.mode = "Eval"
  <2>1. exec' = [exec EXCEPT !.phase = "EmitEvalValue"]
    BY <1>2, <1>8
  <2>2. exec' \in Execs /\ exec'.phase = "EmitEvalValue" /\ exec'.outcome = "none"
    BY <1>3, <2>1 DEF Execs
  <2>3. Whole' /\ Open' /\ SuccessMeansWholeOutput'
    BY <1>5, <2>2 DEF Whole, Open, SuccessMeansWholeOutput
  <2>4. Typed'
    BY <1>1, <2>2 DEF Inv, Typed
  <2> QED BY <1>4, <2>3, <2>4 DEF Inv
<1> QED BY <1>3, <1>6, <1>7, <1>8

\* A cancel is requested.
LEMMA RequestCancelInv ==
  ASSUME Inv, RequestCancel
  PROVE  Inv'
<1>1. /\ exec' = [exec EXCEPT !.cancel = TRUE] /\ exec \in Execs
      /\ UNCHANGED <<bridge, port, sink, line, last, lines, events>>
  BY DEF RequestCancel, output, Inv, Typed
<1>2. /\ exec' \in Execs /\ exec'.phase = exec.phase /\ exec'.outcome = exec.outcome
      /\ exec'.mode = exec.mode
  BY <1>1 DEF Execs
<1>3. Typed'
  BY <1>1, <1>2 DEF Inv, Typed
<1>4. Leased' /\ Whole' /\ Open' /\ SuccessMeansWholeOutput'
  BY <1>1, <1>2 DEF Inv, Leased, IsOpen, Whole, Open, SuccessMeansWholeOutput
<1>5. Printing' /\ EveryLineIsOneValue'
  BY <1>1 DEF Inv, Printing, EveryLineIsOneValue
<1> QED BY <1>3, <1>4, <1>5 DEF Inv

\* The output ends.
LEMMA OutputEndsInv ==
  ASSUME Inv, OutputEnds
  PROVE  Inv'
<1>1. /\ sink' \in Ends /\ sink' # "Continue"
      /\ UNCHANGED <<exec, bridge, port, line, last, lines, events>>
  BY DEF OutputEnds, output, Ends
<1>2. Typed'
  BY <1>1 DEF Inv, Typed
<1>3. Leased' /\ Whole' /\ Open' /\ SuccessMeansWholeOutput'
  BY <1>1 DEF Inv, Leased, IsOpen, Whole, Open, SuccessMeansWholeOutput
<1>4. Printing' /\ EveryLineIsOneValue'
  BY <1>1 DEF Inv, Printing, EveryLineIsOneValue
<1> QED BY <1>2, <1>3, <1>4 DEF Inv

\* Every step keeps it.
LEMMA NextInv == Inv /\ [Next]_vars => Inv'
<1> SUFFICES ASSUME Inv, [Next]_vars PROVE Inv'
  OBVIOUS
<1>1. CASE TakeForm
  BY <1>1, TakeFormInv
<1>2. CASE CancelBetweenForms
  BY <1>2, CancelBetweenFormsInv
<1>3. CASE CommitUndoGroup
  BY <1>3, CommitUndoGroupInv
<1>4. CASE EmitEvalValue
  BY <1>4, EmitEvalValueInv
<1>5. CASE \E event \in Events : LispWrites(event)
  BY <1>5, LispWritesInv
<1>6. CASE \E succeeded \in BOOLEAN : LispReturns(succeeded)
  BY <1>6, LispReturnsInv
<1>7. CASE DriverCancelled
  BY <1>7, DriverCancelledInv
<1>8. CASE DriverFails
  BY <1>8, DriverFailsInv
<1>9. CASE RequestCancel
  BY <1>9, RequestCancelInv
<1>10. CASE OutputEnds
  BY <1>10, OutputEndsInv
<1>11. CASE UNCHANGED vars
  <2>1. UNCHANGED <<exec, bridge, port, sink, line, last, lines, events>>
    BY <1>11 DEF vars
  <2> QED BY <2>1 DEF Inv, Typed, Leased, IsOpen, Printing, Whole, Open, EveryLineIsOneValue,
                     SuccessMeansWholeOutput
<1> QED BY <1>1, <1>2, <1>3, <1>4, <1>5, <1>6, <1>7, <1>8, <1>9, <1>10, <1>11 DEF Next

\* The invariant of the specification.
LEMMA SpecInv == Spec => []Inv
<1> QED BY InitInv, NextInv, PTL DEF Spec

\* The state of the execution, the lease, the port and the output have their types, for
\* every number of forms, depth of lists and number of events.
THEOREM BridgeTypes == Spec => []TypeOK
<1>1. Inv => TypeOK
  <2> SUFFICES ASSUME Inv PROVE TypeOK
    OBVIOUS
  <2>1. line \in Seq(Tokens) /\ last \in Seq(Tokens)
    BY SeqMonotonic DEF Inv, Typed, Texts
  <2>2. port # NoPort => port.printer.held \in Seq(Tokens)
    <3> SUFFICES ASSUME port \in Ports PROVE port.printer.held \in Seq(Tokens)
      BY DEF Inv, Typed
    <3>1. port.printer.held \in Texts
      BY DEF Ports, Printers
    <3> QED BY <3>1, SeqMonotonic DEF Texts
  <2>3. /\ exec.mode \in {"Run", "Eval"}
        /\ exec.phase \in {"BetweenForms", "AwaitingForm", "EmitEvalValue", "AwaitingEmit", "Done"}
        /\ exec.forms \in 0..MaxForms /\ exec.cancel \in BOOLEAN
        /\ exec.outcome \in {"none", "Success", "Failure", "Cancelled"}
    BY DEF Inv, Typed, Execs
  <2>4. /\ bridge.generation \in Nat /\ bridge.openKind \in Kinds \cup {"none"}
        /\ bridge.active \in BOOLEAN /\ bridge.claimed \in BOOLEAN
        /\ bridge.failure \in Failures \cup {"none"}
    BY DEF Inv, Typed, Bridges
  <2>5. \/ port = NoPort
        \/ /\ port.kind \in Kinds /\ port.generation \in Nat
           /\ port.values \in Nat /\ port.result \in Results
           /\ port.printer.lists \in Seq(ListStates) /\ port.printer.atom \in Atoms
    BY DEF Inv, Typed, Ports, Printers
  <2> QED BY <2>1, <2>2, <2>3, <2>4, <2>5 DEF TypeOK, Inv, Typed
<1> QED BY <1>1, SpecInv, PTL

\* Whatever AutoLISP sends, in whatever order and however often it fails and goes on, every
\* line that ends in the output is one println or one value that the reader reads back,
\* however deep its lists are and however long it is.
THEOREM LinesAreValues == Spec => []EveryLineIsOneValue
<1>1. Inv => EveryLineIsOneValue
  BY DEF Inv
<1> QED BY <1>1, SpecInv, PTL

\* An execution that succeeds has printed whole lines only, and an eval the one line of its
\* value.
THEOREM SuccessPrintsWhole == Spec => []SuccessMeansWholeOutput
<1>1. Inv => SuccessMeansWholeOutput
  BY DEF Inv
<1> QED BY <1>1, SpecInv, PTL

=============================================================================
