------------------------ MODULE DrawingRegistryProofs ------------------------
(***************************************************************************)
(* The registry, for any number of documents, databases, ids and refusals  *)
(* of AutoCAD: a close never loses unsaved work, the host holds nothing    *)
(* that has been destroyed, no change of a drawing is missed, and an id    *)
(* stays with its drawing.                                                 *)
(*                                                                         *)
(* Closing comes first, and the registry's list plays no part in it: the   *)
(* document a close asked about gets no unsaved work until AutoCAD takes   *)
(* it, and a mark which says "not modified" is only ever wrong while a     *)
(* discard is at work on that very database, and is put back.              *)
(*                                                                         *)
(* Then the host.  Its refresh, its retirement of a database and its       *)
(* snapshot are folds, which are shown to be loops over the subscriptions, *)
(* so that a fact of one turn becomes one of them all.  The invariant says *)
(* of each subscription which database it may have, by how far AutoCAD has *)
(* come with destroying it, and what a reactor that is missing is waited   *)
(* for by.                                                                 *)
(***************************************************************************)
EXTENDS DrawingRegistry, SequenceTheorems, WellFoundedInduction, NaturalsInduction, TLAPS

Typed ==
  /\ document \in [Documents -> [state : DocumentStates, made : Nat,
                                 database : Databases \cup {NoDatabase}]]
  /\ database \in [Databases -> {"free", "live", "dying"}]
  /\ dbmod \in [Databases -> BOOLEAN] /\ unsaved \in [Databases -> BOOLEAN]
  /\ operation.phase \in {"none", "native", "closing", "closed"}
  /\ operation.phase \in {"native", "closing"} =>
       Target \in Documents /\ TargetDatabase \in Databases
  /\ operation.phase = "closing" => operation.dbmod \in BOOLEAN

\* A database is one document's.
Owned ==
  /\ \A d \in Documents :
       document[d].database # NoDatabase => database[document[d].database] # "free"
  /\ \A d, e \in Documents :
       document[d].database # NoDatabase /\ document[d].database = document[e].database => d = e

\* The document that is being closed has a database, which will not go before
\* the document does; no other document has unsaved work in the one aimed at.
Closing == operation.phase = "closing" /\ IsOpen(Target)
Aimed ==
  /\ operation.phase = "native" => \A b \in Databases : database[b] # "dying"
  /\ Closing => /\ document[Target].database # NoDatabase
                /\ database[document[Target].database] # "dying"
  /\ operation.phase = "closing" =>
       \A d \in Documents \ {Target} :
         document[d].database = TargetDatabase => ~unsaved[TargetDatabase]

\* Unsaved work is marked, or was when its discard began.
Discarding(b) ==
  operation.phase = "closing" /\ operation.kind = "Discard" /\ b = TargetDatabase
Marked ==
  \A d \in Documents :
    LET b == document[d].database IN
      IsOpen(d) /\ b # NoDatabase /\ unsaved[b] =>
        /\ Discarding(b) => operation.dbmod
        /\ ~Discarding(b) => dbmod[b]

Saveworthy ==
  Closing /\ operation.kind = "Close" => ~unsaved[document[Target].database]

Inv == Typed /\ Owned /\ Aimed /\ Marked /\ Saveworthy

Refusals == {"ok", "error", "duplicate"}

-----------------------------------------------------------------------------
\* Nothing is open, and nothing under way.
LEMMA InitInv == Init => Inv
  BY RegistryAssumption
  DEF Init, Inv, Typed, Owned, Aimed, Marked, Saveworthy, Closing, IsOpen, NoOperation,
      DocumentStates

\* What the host and the plugin do by themselves.
LEMMA NothingKeepsInv ==
  ASSUME Inv, UNCHANGED <<document, database, dbmod, unsaved, operation>>
  PROVE  Inv'
  BY DEF Inv, Typed, Owned, Aimed, Marked, Saveworthy, Closing, Discarding, IsOpen, Target,
         TargetDatabase

\* AutoCAD's own steps with documents and databases.
LEMMA DatabasesKeepInv ==
  ASSUME Inv, operation.phase # "native", DatabaseStep
  PROVE  Inv'
<1> USE RegistryAssumption
    DEF Inv, Typed, Owned, Aimed, Marked, Saveworthy, Closing, Discarding, IsOpen, Target,
        TargetDatabase, DocumentStates, NoOperation, DocumentTaken
<1>1. ASSUME NEW b \in Databases, DatabaseDies(b) PROVE Inv'
  BY <1>1 DEF DatabaseDies
<1>2. ASSUME NEW b \in Databases, ReactorGoodbye(b) PROVE Inv'
  BY <1>2, NothingKeepsInv DEF ReactorGoodbye
<1>3. ASSUME NEW b \in Databases, DatabaseFreed(b) PROVE Inv'
  <2>1. PICK d \in Documents, other \in Databases \cup {NoDatabase} :
          /\ database[b] = "dying" /\ document[d].database = b
          /\ other # NoDatabase => database[other] = "free" /\ document[d].state = "open"
          /\ document' = [document EXCEPT ![d].database = other]
          /\ database' = [c \in Databases |-> IF c = b THEN "free"
                                              ELSE IF c = other THEN "live" ELSE database[c]]
          /\ dbmod' = [c \in Databases |-> IF c = other THEN FALSE ELSE dbmod[c]]
          /\ unsaved' = [c \in Databases |-> IF c = other THEN FALSE ELSE unsaved[c]]
          /\ UNCHANGED operation
    BY <1>3 DEF DatabaseFreed
  <2>2. Typed'
    BY <2>1
  <2>3. Owned'
    BY <2>1
  <2>4. Aimed'
    <3>1. ASSUME Closing' PROVE (document[Target].database # NoDatabase
                                 /\ database[document[Target].database] # "dying")'
      <4>1. Target \in Documents /\ Closing
        BY <2>1, <3>1
      <4>2. d # Target
        BY <2>1, <4>1
      <4>3. document[Target].database \in Databases \ {b, other}
        BY <2>1, <4>1, <4>2
      <4> QED BY <2>1, <4>1, <4>2, <4>3
    <3>2. ASSUME operation.phase = "closing", NEW e \in Documents \ {Target},
                 document'[e].database = TargetDatabase
          PROVE  ~unsaved'[TargetDatabase]
      BY <2>1, <3>2
    <3> QED BY <2>1, <3>1, <3>2
  <2>5. Marked'
    BY <2>1
  <2>6. Saveworthy'
    BY <2>1
  <2> QED BY <2>2, <2>3, <2>4, <2>5, <2>6
<1>4. ASSUME NEW b \in Databases, Edited(b) PROVE Inv'
  BY <1>4 DEF Edited
<1>5. ASSUME NEW d \in Documents, DocumentFreed(d) PROVE Inv'
  BY <1>5 DEF DocumentFreed
<1>6. ASSUME NEW d \in Documents, NEW b \in Databases, DatabaseAssigned(d, b) PROVE Inv'
  BY <1>6 DEF DatabaseAssigned
<1> QED BY <1>1, <1>2, <1>3, <1>4, <1>5, <1>6 DEF DatabaseStep

\* The notifications that the host gets.
LEMMA NotificationsKeepInv ==
  ASSUME Inv, operation.phase # "native", Notification
  PROVE  Inv'
<1> USE RegistryAssumption
    DEF Inv, Typed, Owned, Aimed, Marked, Saveworthy, Closing, Discarding, IsOpen, Target,
        TargetDatabase, DocumentStates, NoOperation, DocumentTaken
<1>1. PICK r \in Refusals :
        \/ \E d \in Documents, b \in Databases : DocumentCreated(d, b, r)
        \/ \E d \in Documents : DocumentActivated(d, r) \/ UserCloses(d, r)
        \/ \E b \in Databases : DatabaseToBeDestroyed(b, r) \/ UserSaves(b, r)
        \/ CommandEnded(r) \/ TitleUpdated(r)
  BY DEF Notification, Refusals
<1>2. ASSUME NEW d \in Documents, NEW b \in Databases, DocumentCreated(d, b, r) PROVE Inv'
  <2>1. /\ document[d].state = "none" /\ database[b] = "free"
        /\ document' = [document EXCEPT ![d] =
                          [state |-> "open", made |-> @.made + 1, database |-> b]]
        /\ database' = [database EXCEPT ![b] = "live"]
        /\ dbmod' = [dbmod EXCEPT ![b] = FALSE] /\ unsaved' = [unsaved EXCEPT ![b] = FALSE]
        /\ UNCHANGED operation
    BY <1>2 DEF DocumentCreated
  <2>2. Typed'
    BY <2>1
  <2>3. Owned'
    BY <2>1
  <2>4. Aimed'
    BY <2>1
  <2>5. Marked'
    BY <2>1
  <2>6. Saveworthy'
    BY <2>1
  <2> QED BY <2>2, <2>3, <2>4, <2>5, <2>6
<1>3. ASSUME NEW d \in Documents, DocumentActivated(d, r) PROVE Inv'
  BY <1>3, NothingKeepsInv DEF DocumentActivated
<1>4. ASSUME NEW d \in Documents, UserCloses(d, r) PROVE Inv'
  BY <1>4 DEF UserCloses, DocumentToBeDestroyed
<1>5. ASSUME NEW b \in Databases, DatabaseToBeDestroyed(b, r) PROVE Inv'
  BY <1>5, NothingKeepsInv DEF DatabaseToBeDestroyed
<1>6. ASSUME NEW b \in Databases, UserSaves(b, r) PROVE Inv'
  BY <1>6 DEF UserSaves, Saved
<1>7. CASE CommandEnded(r) \/ TitleUpdated(r)
  BY <1>7, NothingKeepsInv DEF CommandEnded, TitleUpdated, autocadVars
<1> QED BY <1>1, <1>2, <1>3, <1>4, <1>5, <1>6, <1>7

\* The steps of an operation by id.
LEMMA OperationsKeepInv ==
  ASSUME Inv, OperationStep
  PROVE  Inv'
<1> USE RegistryAssumption
    DEF Inv, Typed, Owned, Aimed, Marked, Saveworthy, Closing, Discarding, IsOpen, Target,
        TargetDatabase, DocumentStates, NoOperation, DocumentTaken, autocadVars
<1>1. ASSUME NEW kind \in OperationKinds, NEW id \in Ids, Take(kind, id) PROVE Inv'
  BY <1>1 DEF Take
<1>2. CASE CloseBegins
  <2>1. /\ operation.phase = "native" /\ operation'.phase = "closing"
        /\ operation'.kind = operation.kind /\ operation.kind \in {"Close", "Discard"}
        /\ operation'.key = operation.key /\ operation'.dbmod = dbmod[TargetDatabase]
        /\ document[Target].database = TargetDatabase
        /\ operation.kind = "Close" => ~dbmod[TargetDatabase]
        /\ dbmod' = [dbmod EXCEPT ![TargetDatabase] =
                        IF operation.kind = "Discard" THEN FALSE ELSE @]
        /\ UNCHANGED <<document, database, unsaved>>
    BY <1>2 DEF CloseBegins, TargetMatches, MayClose
  <2>2. Typed' /\ Owned'
    BY <2>1
  <2>3. Aimed'
    <3>1. Target \in Documents /\ TargetDatabase \in Databases
      BY <2>1
    <3>2. TargetDatabase # NoDatabase /\ database[TargetDatabase] # "dying"
      BY <2>1, <3>1
    <3>3. \A d \in Documents \ {Target} : document[d].database # TargetDatabase
      BY <2>1, <3>1, <3>2
    <3> QED BY <2>1, <3>1, <3>2, <3>3
  <2>4. Marked'
    BY <2>1
  <2>5. Saveworthy'
    BY <2>1
  <2> QED BY <2>2, <2>3, <2>4, <2>5
<1>3. ASSUME NEW r \in Refusals,
             NotDone(r) \/ SwitchTo(r) \/ Save(r) \/ CloseTakes(r) \/ CloseReturns(r)
               \/ CloseFails(r)
      PROVE  Inv'
  <2>1. CASE NotDone(r)
    BY <2>1 DEF NotDone, Complete
  <2>2. CASE SwitchTo(r)
    BY <2>2 DEF SwitchTo, Complete
  <2>3. CASE Save(r)
    BY <2>3 DEF Save, Saved
  <2>4. CASE CloseTakes(r)
    BY <2>4 DEF CloseTakes, DocumentToBeDestroyed
  <2>5. CASE CloseReturns(r)
    BY <2>5 DEF CloseReturns, Complete
  <2>6. CASE CloseFails(r)
    <3>1. /\ operation.phase = "closing" /\ operation' = NoOperation
          /\ dbmod' = [dbmod EXCEPT ![TargetDatabase] =
                         IF operation.kind = "Discard" THEN operation.dbmod ELSE @]
          /\ UNCHANGED <<document, database, unsaved>>
      BY <2>6 DEF CloseFails, Complete
    <3>2. Typed'
      BY <3>1
    <3>3. Owned' /\ Aimed' /\ Saveworthy'
      BY <3>1
    <3>4. Marked'
      BY <3>1
    <3> QED BY <3>2, <3>3, <3>4
  <2> QED BY <1>3, <2>1, <2>2, <2>3, <2>4, <2>5, <2>6
<1> QED BY <1>1, <1>2, <1>3 DEF OperationStep, Refusals

\* The invariant is inductive.
LEMMA NextKeepsInv == Inv /\ [Next]_vars => Inv'
<1>1. ASSUME Inv, Next PROVE Inv'
  BY <1>1, DatabasesKeepInv, NotificationsKeepInv, OperationsKeepInv DEF Next
<1>2. ASSUME Inv, UNCHANGED vars PROVE Inv'
  BY <1>2, NothingKeepsInv DEF vars, autocadVars
<1> QED BY <1>1, <1>2

\* The invariant of closing: what is marked, and that a close stays aimed at the
\* database it asked about (operation.rs, and DocumentHost's close in host.cpp).
THEOREM Invariance == Spec => []Inv
  BY InitInv, NextKeepsInv, PTL DEF Spec

-----------------------------------------------------------------------------
\* A close that does not discard takes no drawing with unsaved work, for any
\* number of drawings, reloads, refusals and failed discards before it.
THEOREM CloseKeepsUnsavedWork == Spec => UnsavedWorkSurvives
<1>1. Inv /\ [Next]_vars =>
        [\A d \in Documents :
           operation.phase = "closing" /\ operation.kind = "Close" /\ d = Target /\ IsOpen(d)
             /\ document'[d].state # "open"
           => ~unsaved[document[d].database]]_vars
  BY DEF Inv, Aimed, Saveworthy, Closing
<1> QED BY <1>1, Invariance, PTL DEF Spec, UnsavedWorkSurvives

-----------------------------------------------------------------------------
(***************************************************************************)
(* Induction on the natural numbers, for the members of a set.             *)
(***************************************************************************)
Less == {p \in Nat \X Nat : p[1] < p[2]}

\* A set of natural numbers that is not empty has a least one.
LEMMA Least ==
  ASSUME NEW T \in SUBSET Nat, T # {}
  PROVE  \E n \in T : \A m \in T : n <= m
<1>1. IsWellFoundedOn(Less, Nat)
  BY NatLessThanWellFounded DEF OpToRel, Less
<1>2. PICK n \in T : \A m \in T : <<m, n>> \notin Less
  BY <1>1, WFMin
<1>3. ASSUME NEW m \in T PROVE n <= m
  <2>1. <<m, n>> \in Nat \X Nat /\ <<m, n>> \notin Less
    BY <1>2, <1>3
  <2> QED BY <2>1 DEF Less
<1> QED BY <1>3

\* A set with 0 that is closed under the successor has all of Nat.
LEMMA Induction ==
  ASSUME NEW T, 0 \in T, \A n \in Nat : n \in T => n + 1 \in T
  PROVE  Nat \subseteq T
<1> SUFFICES ASSUME ~(Nat \subseteq T) PROVE FALSE
  OBVIOUS
<1>1. PICK n \in Nat \ T : \A m \in Nat \ T : n <= m
  BY Least
<1>2. n - 1 \in Nat
  BY <1>1
<1> QED BY <1>1, <1>2

\* Max of the set of a fold, once the sequence is not empty.
LEMMA GreatestOf ==
  ASSUME NEW n \in Nat, NEW s \in SUBSET (1..n), s # {}
  PROVE  /\ Max(s) \in s
         /\ \A k \in s : k <= Max(s)
<1> DEFINE D == {n - k : k \in s}
<1>1. PICK d \in D : \A e \in D : d <= e
  <2>1. D \subseteq Nat
    OBVIOUS
  <2>2. PICK k \in s : TRUE
    OBVIOUS
  <2>3. n - k \in D
    OBVIOUS
  <2>4. D # {}
    BY <2>3
  <2> HIDE DEF D
  <2> QED BY <2>1, <2>4, Least
<1>2. PICK k \in s : d = n - k
  BY <1>1
<1>3. ASSUME NEW m \in s PROVE k >= m
  <2>1. n - m \in D /\ m \in 1..n /\ k \in 1..n
    BY <1>2
  <2>2. d <= n - m
    BY <1>1, <2>1
  <2> HIDE DEF D
  <2> QED BY <1>2, <2>1, <2>2
<1> QED BY <1>2, <1>3 DEF Max

-----------------------------------------------------------------------------
(***************************************************************************)
(* The host's loops over its subscriptions.  Each is a fold, and a fold    *)
(* goes from one subscription to the next.                                 *)
(***************************************************************************)
\* The body of publishDocumentSnapshot's loop, of databaseWillBeDestroyed's, and
\* of what the former sends.
Refreshing(h, s, refusal) ==
  LET refreshed == RefreshSubscription(h, s, refusal)
  IN  [refreshed[1] EXCEPT !.subscriptions = Append(@, refreshed[2])]

Retiring(h, s, b, refusal) ==
  LET detached == DetachDatabaseReactor(h, s, refusal)
  IN  IF s.database # b THEN [h EXCEPT !.subscriptions = Append(@, s)]
      ELSE [Stale(detached[1]) EXCEPT !.subscriptions =
              Append(@, [detached[2] EXCEPT !.database = NoDatabase, !.retired = b])]

Entry(s) ==
  [token |-> s.document, database |-> s.database, modified |-> dbmod'[s.database],
   active |-> s.document \in activeDocument']

Listing(states, s) == IF s.database = NoDatabase THEN states ELSE Append(states, Entry(s))

Turn(loop, acc, s) ==
  IF loop.of = "refresh" THEN Refreshing(acc, s, loop.refusal)
  ELSE IF loop.of = "retire" THEN Retiring(acc, s, loop.database, loop.refusal)
  ELSE Listing(acc, s)

\* The recursive function that such a fold is, over the first n of t.
IsFold(loop, base, t, n, g) ==
  g = [s \in SUBSET (1..n) |->
        IF s = {} THEN base ELSE Turn(loop, g[s \ {Max(s)}], t[Max(s)])]

\* The fold over n elements gives that over n + 1.
LEMMA FoldOfMore ==
  ASSUME NEW loop, NEW base, NEW t, NEW n \in Nat, NEW g, IsFold(loop, base, t, n, g)
  PROVE  \E h : IsFold(loop, base, t, n + 1, h)
<1> DEFINE S == SUBSET (1..n)
           T == SUBSET (1..(n + 1))
           h == [s \in T |-> IF n + 1 \in s THEN Turn(loop, g[s \ {n + 1}], t[n + 1]) ELSE g[s]]
           F(s) == IF s = {} THEN base ELSE Turn(loop, h[s \ {Max(s)}], t[Max(s)])
<1>1. \A s \in S : g[s] = IF s = {} THEN base ELSE Turn(loop, g[s \ {Max(s)}], t[Max(s)])
  BY DEF IsFold
<1>2. ASSUME NEW s \in T PROVE h[s] = F(s)
  <2>1. CASE n + 1 \in s
    <3>1. Max(s) = n + 1
      <4>1. n + 1 \in Nat /\ s \in SUBSET (1..(n + 1)) /\ s # {}
        BY <2>1
      <4> HIDE DEF T
      <4>2. Max(s) \in s /\ n + 1 <= Max(s)
        BY <2>1, <4>1, GreatestOf
      <4>3. Max(s) \in 1..(n + 1)
        BY <4>1, <4>2
      <4> QED BY <4>2, <4>3
    <3>2. s \ {n + 1} \in S /\ s \ {n + 1} \in T /\ n + 1 \notin s \ {n + 1}
      OBVIOUS
    <3>3. h[s \ {n + 1}] = g[s \ {n + 1}]
      BY <3>2
    <3> QED BY <2>1, <3>1, <3>3
  <2>2. CASE n + 1 \notin s
    <3>1. s \in S /\ h[s] = g[s]
      BY <2>2
    <3>2. CASE s = {}
      BY <1>1, <3>1, <3>2
    <3>3. CASE s # {}
      <4>1. s \ {Max(s)} \in T /\ n + 1 \notin s \ {Max(s)}
        BY <2>2
      <4>2. h[s \ {Max(s)}] = g[s \ {Max(s)}]
        BY <4>1
      <4> QED BY <1>1, <3>1, <3>3, <4>2
    <3> QED BY <3>2, <3>3
  <2> QED BY <2>1, <2>2
<1>3. h = [s \in T |-> F(s)]
  BY <1>2
<1> QED BY <1>3 DEF IsFold

\* For every length the recursive definition of the fold is satisfied by a function.
LEMMA FoldExists ==
  ASSUME NEW loop, NEW base, NEW t
  PROVE  \A n \in Nat : \E g : IsFold(loop, base, t, n, g)
<1> DEFINE T == {n \in Nat : \E g : IsFold(loop, base, t, n, g)}
<1>1. 0 \in T
  <2> DEFINE g == [s \in SUBSET (1..0) |-> base]
  <2>1. \A s \in SUBSET (1..0) : s = {}
    OBVIOUS
  <2>2. IsFold(loop, base, t, 0, g)
    BY <2>1 DEF IsFold
  <2> QED BY <2>2
<1>2. \A n \in Nat : n \in T => n + 1 \in T
  BY FoldOfMore
<1> HIDE DEF T
<1>3. Nat \subseteq T
  BY <1>1, <1>2, Induction
<1> QED BY <1>3 DEF T

\* What the loop has come to after each of its turns.
Turns(loop, base, t, f) ==
  /\ f[0] = base
  /\ \A k \in 1..Len(t) : f[k] = Turn(loop, f[k - 1], t[k])

\* A FoldLeft is a loop over its sequence, one turn for each element.
LEMMA FoldTurns ==
  ASSUME NEW loop, NEW base, NEW t, Len(t) \in Nat, NEW g, IsFold(loop, base, t, Len(t), g)
  PROVE  \E f : Turns(loop, base, t, f) /\ g[1..Len(t)] = f[Len(t)]
<1> DEFINE f == [k \in 0..Len(t) |-> g[1..k]]
<1>4. f[0] = base
  <2>1. 1..0 = {} /\ {} \in SUBSET (1..Len(t))
    OBVIOUS
  <2> QED BY <2>1 DEF IsFold
<1>5. ASSUME NEW k \in 1..Len(t) PROVE f[k] = Turn(loop, f[k - 1], t[k])
  <2>1. 1..k \in SUBSET (1..Len(t)) /\ 1..k # {}
    OBVIOUS
  <2>2. Max(1..k) = k
    <3>1. k \in Nat /\ k \in 1..k /\ 1..k \in SUBSET (1..k)
      OBVIOUS
    <3>2. Max(1..k) \in 1..k /\ \A i \in 1..k : i <= Max(1..k)
      BY <2>1, <3>1, GreatestOf
    <3> QED BY <3>1, <3>2
  <2>3. (1..k) \ {k} = 1..(k - 1)
    OBVIOUS
  <2>4. g[1..k] = Turn(loop, g[1..(k - 1)], t[k])
    BY <2>1, <2>2, <2>3 DEF IsFold
  <2>5. k \in 0..Len(t) /\ k - 1 \in 0..Len(t)
    OBVIOUS
  <2>6. f[k] = g[1..k] /\ f[k - 1] = g[1..(k - 1)]
    BY <2>5
  <2> QED BY <2>4, <2>6
<1>6. g[1..Len(t)] = f[Len(t)]
  OBVIOUS
<1> QED BY <1>4, <1>5, <1>6 DEF Turns

\* RefreshSubscriptions as turns: one for each subscription.
LEMMA RefreshTurns ==
  ASSUME NEW h, NEW refusal, h.subscriptions \in Seq(Subscriptions)
  PROVE  \E f : /\ Turns([of |-> "refresh", refusal |-> refusal],
                         [h EXCEPT !.subscriptions = <<>>], h.subscriptions, f)
                /\ RefreshSubscriptions(h, refusal) = f[Len(h.subscriptions)]
<1> DEFINE loop == [of |-> "refresh", refusal |-> refusal]
           t == h.subscriptions
           base == [h EXCEPT !.subscriptions = <<>>]
           g == CHOOSE g : IsFold(loop, base, t, Len(t), g)
<1>1. Len(t) \in Nat /\ DOMAIN t = 1..Len(t)
  BY LenProperties
<1>2. IsFold(loop, base, t, Len(t), g)
  BY <1>1, FoldExists
<1>3. RefreshSubscriptions(h, refusal) = g[1..Len(t)]
  BY <1>1 DEF RefreshSubscriptions, FoldLeft, MapThenFoldSet, IsFold, Turn, Refreshing
<1> HIDE DEF g, base, loop
<1> QED BY <1>1, <1>2, <1>3, FoldTurns DEF base, loop

\* Retire as turns: one for each subscription.
LEMMA RetireTurns ==
  ASSUME NEW h, NEW b, NEW refusal, h.subscriptions \in Seq(Subscriptions)
  PROVE  \E f : /\ Turns([of |-> "retire", database |-> b, refusal |-> refusal],
                         [h EXCEPT !.subscriptions = <<>>], h.subscriptions, f)
                /\ RetireDatabase(h, b, refusal) = f[Len(h.subscriptions)]
<1> DEFINE loop == [of |-> "retire", database |-> b, refusal |-> refusal]
           t == h.subscriptions
           base == [h EXCEPT !.subscriptions = <<>>]
           g == CHOOSE g : IsFold(loop, base, t, Len(t), g)
<1>1. Len(t) \in Nat /\ DOMAIN t = 1..Len(t)
  BY LenProperties
<1>2. IsFold(loop, base, t, Len(t), g)
  BY <1>1, FoldExists
<1>3. RetireDatabase(h, b, refusal) = g[1..Len(t)]
  BY <1>1 DEF RetireDatabase, FoldLeft, MapThenFoldSet, IsFold, Turn, Retiring
<1> HIDE DEF g, base, loop
<1> QED BY <1>1, <1>2, <1>3, FoldTurns DEF base, loop

\* Snapshot as turns: one for each subscription.
LEMMA ListTurns ==
  ASSUME NEW h, h.subscriptions \in Seq(Subscriptions)
  PROVE  \E f : /\ Turns([of |-> "list"], <<>>, h.subscriptions, f)
                /\ Snapshot(h) = f[Len(h.subscriptions)]
<1> DEFINE loop == [of |-> "list"]
           t == h.subscriptions
           g == CHOOSE g : IsFold(loop, <<>>, t, Len(t), g)
<1>1. Len(t) \in Nat /\ DOMAIN t = 1..Len(t)
  BY LenProperties
<1>2. IsFold(loop, <<>>, t, Len(t), g)
  BY <1>1, FoldExists
<1>3. Snapshot(h) = g[1..Len(t)]
  BY <1>1 DEF Snapshot, FoldLeft, MapThenFoldSet, IsFold, Turn, Listing, Entry
<1> HIDE DEF g, loop
<1> QED BY <1>1, <1>2, <1>3, FoldTurns DEF loop

-----------------------------------------------------------------------------
(***************************************************************************)
(* One subscription.                                                       *)
(***************************************************************************)
Hosts == [subscriptions : Seq(Subscriptions), stale : BOOLEAN, uncertain : BOOLEAN]

\* k is h after something has been found out about one of its subscriptions.
Later(h, k) ==
  /\ k \in Hosts /\ k.subscriptions = h.subscriptions
  /\ h.stale => k.stale

\* Marking a host makes a later one.
LEMMA LaterHosts ==
  ASSUME NEW h \in Hosts
  PROVE  /\ Later(h, h)
         /\ Later(h, Stale(h)) /\ Stale(h).stale
         /\ Later(h, Uncertain(h))
         /\ \A condition \in BOOLEAN :
              Later(h, StaleIf(h, condition)) /\ (condition => StaleIf(h, condition).stale)
  BY DEF Later, Hosts, Stale, Uncertain, StaleIf

\* Later is transitive.
LEMMA LaterStill ==
  ASSUME NEW h, NEW k, NEW m, Later(h, k), Later(k, m)
  PROVE  Later(h, m)
  BY DEF Later

\* Detaching a reactor marks what it had seen, and leaves the subscription unobserved.
LEMMA DetachFacts ==
  ASSUME NEW h \in Hosts, NEW s \in Subscriptions, NEW refusal
  PROVE  LET d == DetachDatabaseReactor(h, s, refusal) IN
           /\ Later(h, d[1]) /\ d[2] = Unobserved(s)
           /\ s.changed => d[1].stale
<1>1. s.changed \in BOOLEAN
  BY DEF Subscriptions
<1>2. Later(h, StaleIf(h, s.changed)) /\ (s.changed => StaleIf(h, s.changed).stale)
  BY <1>1, LaterHosts
<1>3. StaleIf(h, s.changed) \in Hosts
  BY <1>2 DEF Later
<1>4. Later(StaleIf(h, s.changed), Uncertain(StaleIf(h, s.changed)))
  BY <1>3, LaterHosts
<1>5. Later(h, Uncertain(StaleIf(h, s.changed)))
  BY <1>2, <1>4, LaterStill
<1>6. s.changed => Uncertain(StaleIf(h, s.changed)).stale
  BY <1>2, <1>4 DEF Later
<1> QED BY <1>2, <1>5, <1>6 DEF DetachDatabaseReactor

\* A subscription that the host gives up observing has nothing left.
LEMMA UnobservedFacts ==
  ASSUME NEW s \in Subscriptions
  PROVE  /\ Unobserved(s) \in Subscriptions
         /\ Unobserved(s).document = s.document /\ Unobserved(s).database = s.database
         /\ Unobserved(s).retired = s.retired
         /\ Unobserved(s).reactor = "none" /\ ~Unobserved(s).changed
  BY DEF Subscriptions, Reactors, Unobserved

\* Retiring a subscription whose reactor AutoCAD has destroyed.
LEMMA RetireGoneFacts ==
  ASSUME NEW h \in Hosts, NEW s \in Subscriptions, NEW refusal
  PROVE  LET g == RetireGone(h, s, refusal) IN
           /\ Later(h, g[1]) /\ g[2] \in Subscriptions
           /\ g[2].document = s.document
           /\ s.reactor # "gone" => g[2] = s
           /\ s.reactor = "gone" =>
                /\ g[2].database = NoDatabase /\ g[2].retired = s.database
                /\ g[2].reactor = "none"
<1> DEFINE d == DetachDatabaseReactor(h, s, refusal)
           gone == [d[2] EXCEPT !.database = NoDatabase, !.retired = s.database]
<1>1. Later(h, d[1]) /\ d[2] = Unobserved(s)
  BY DetachFacts
<1>2. /\ gone \in Subscriptions /\ gone.document = s.document
      /\ gone.database = NoDatabase /\ gone.retired = s.database /\ gone.reactor = "none"
  BY <1>1, UnobservedFacts DEF Subscriptions
<1>3. RetireGone(h, s, refusal) = IF s.reactor = "gone" THEN <<d[1], gone>> ELSE <<h, s>>
  BY DEF RetireGone
<1> HIDE DEF d, gone
<1>4. CASE s.reactor = "gone"
  BY <1>1, <1>2, <1>3, <1>4
<1>5. CASE s.reactor # "gone"
  BY <1>3, <1>5, LaterHosts
<1> QED BY <1>4, <1>5

\* A subscription follows its document to the database it has now.
LEMMA FollowFacts ==
  ASSUME NEW h \in Hosts, NEW s \in Subscriptions, NEW refusal,
         document'[s.document].database \in Databases \cup {NoDatabase}
  PROVE  LET f == FollowDatabase(h, s, refusal)
             now == document'[s.document].database IN
           /\ Later(h, f[1]) /\ f[2] \in Subscriptions
           /\ f[2].document = s.document /\ f[2].database = now
           /\ f[2].reactor = IF s.database = now THEN s.reactor ELSE "none"
<1> DEFINE now == document'[s.document].database
           known == [s EXCEPT !.retired = NoDatabase]
           d == DetachDatabaseReactor(h, known, refusal)
           other == [d[2] EXCEPT !.database = now]
<1>1. /\ known \in Subscriptions /\ known.document = s.document
      /\ known.database = s.database /\ known.reactor = s.reactor
  BY DEF Subscriptions
<1>2. Later(h, d[1]) /\ d[2] = Unobserved(known)
  BY <1>1, DetachFacts
<1>3. /\ other \in Subscriptions /\ other.document = s.document
      /\ other.database = now /\ other.reactor = "none"
  BY <1>1, <1>2, UnobservedFacts DEF Subscriptions
<1>4. FollowDatabase(h, s, refusal) = IF s.database # now THEN <<d[1], other>> ELSE <<h, known>>
  BY DEF FollowDatabase
<1> HIDE DEF d, other, known, now
<1>5. CASE s.database # now
  BY <1>2, <1>3, <1>4, <1>5 DEF now
<1>6. CASE s.database = now
  BY <1>1, <1>4, <1>6, LaterHosts DEF now
<1> QED BY <1>5, <1>6

\* Attaching a reactor, whatever AutoCAD answers.
LEMMA AttachFacts ==
  ASSUME NEW h \in Hosts, NEW s \in Subscriptions, NEW refusal \in Refusals
  PROVE  LET a == AttachDatabaseReactor(h, s, refusal) IN
           /\ Later(h, a[1]) /\ a[2] \in Subscriptions
           /\ a[2].document = s.document /\ a[2].database = s.database
           /\ s.reactor # "none" => a[2].reactor = s.reactor
           /\ s.reactor = "none" =>
                \/ a[2].reactor = "none" /\ a[1].stale
                \/ a[2].reactor = "attached" /\ s.database # NoDatabase
<1> DEFINE on == [s EXCEPT !.reactor = "attached"]
           U == Uncertain(Stale(h))
<1>1. /\ on \in Subscriptions /\ on.document = s.document /\ on.database = s.database
      /\ on.reactor = "attached"
  BY DEF Subscriptions, Reactors
<1>2. Later(h, h) /\ Later(h, Stale(h)) /\ Stale(h).stale
  BY LaterHosts
<1>3. Later(h, U) /\ U.stale
  <2>1. Stale(h) \in Hosts
    BY <1>2 DEF Later
  <2>2. Later(Stale(h), U)
    BY <2>1, LaterHosts
  <2> QED BY <1>2, <2>2, LaterStill DEF Later
<1>4. CASE s.reactor # "none"
  BY <1>2, <1>4 DEF AttachDatabaseReactor
<1>5. CASE s.reactor = "none" /\ (s.database = NoDatabase \/ h.uncertain)
  BY <1>2, <1>5 DEF AttachDatabaseReactor
<1>6. CASE s.reactor = "none" /\ ~(s.database = NoDatabase \/ h.uncertain)
  <2>1. AttachDatabaseReactor(h, s, refusal) =
          CASE refusal = "ok" -> <<h, on>>
            [] refusal = "duplicate" -> <<U, s>>
            [] refusal = "error" -> <<Stale(h), s>>
    BY <1>6 DEF AttachDatabaseReactor
  <2> HIDE DEF on, U
  <2>2. CASE refusal = "ok"
    BY <1>1, <1>2, <1>6, <2>1, <2>2
  <2>3. CASE refusal = "duplicate"
    BY <1>3, <1>6, <2>1, <2>3
  <2>4. CASE refusal = "error"
    BY <1>2, <1>6, <2>1, <2>4
  <2> QED BY <2>2, <2>3, <2>4 DEF Refusals
<1> QED BY <1>4, <1>5, <1>6

\* What a subscription s has become once it is refreshed: it is attached to what
\* its document has, or the host knows that it is not up to date.
Refreshed(s, new, stale) ==
  LET now == document'[s.document].database IN
    /\ new \in Subscriptions /\ new.document = s.document
    /\ new.database # NoDatabase => new.database = now
    /\ new.reactor # "none" => new.reactor = "attached" /\ new.database # NoDatabase
    /\ new.reactor = "attached" \/ stale
    /\ now # NoDatabase => new.database = now \/ new.retired = now
    /\ s.database = NoDatabase /\ s.reactor = "none" /\ s.retired = now /\ now # NoDatabase
         => new.database = NoDatabase /\ new.retired = now /\ new.reactor = "none"

Refreshable(s) ==
  /\ document'[s.document].database \in Databases \cup {NoDatabase}
  /\ s.database # NoDatabase => s.database = document'[s.document].database
  /\ s.reactor # "none" => s.database # NoDatabase

\* One turn of the refresh: the subscription has the database of its document.
LEMMA RefreshOne ==
  ASSUME NEW h \in Hosts, NEW s \in Subscriptions, NEW refusal \in Refusals, Refreshable(s)
  PROVE  LET r == RefreshSubscription(h, s, refusal)
         IN  Later(h, r[1]) /\ Refreshed(s, r[2], r[1].stale)
<1> DEFINE now == document'[s.document].database
           g == RetireGone(h, s, refusal)
           f == FollowDatabase(g[1], g[2], refusal)
           a == AttachDatabaseReactor(f[1], f[2], refusal)
<1>1. /\ Later(h, g[1]) /\ g[1] \in Hosts /\ g[2] \in Subscriptions
      /\ g[2].document = s.document
      /\ s.reactor # "gone" => g[2] = s
      /\ s.reactor = "gone" => /\ g[2].database = NoDatabase /\ g[2].retired = s.database
                               /\ g[2].reactor = "none"
  BY RetireGoneFacts DEF Later
<1>2. s.reactor \in Reactors /\ g[2].reactor \in {"none", "attached"}
  BY <1>1 DEF Subscriptions, Reactors
<1>3. /\ Later(g[1], f[1]) /\ f[1] \in Hosts /\ f[2] \in Subscriptions
      /\ f[2].document = s.document /\ f[2].database = now
      /\ f[2].reactor = IF g[2].database = now THEN g[2].reactor ELSE "none"
  BY <1>1, FollowFacts DEF Later, Refreshable
<1>4. /\ Later(f[1], a[1]) /\ a[2] \in Subscriptions
      /\ a[2].document = f[2].document /\ a[2].database = f[2].database
      /\ f[2].reactor # "none" => a[2].reactor = f[2].reactor
      /\ f[2].reactor = "none" =>
           \/ a[2].reactor = "none" /\ a[1].stale
           \/ a[2].reactor = "attached" /\ f[2].database # NoDatabase
  BY <1>3, AttachFacts
<1>5. RefreshSubscription(h, s, refusal) =
        IF now # NoDatabase /\ now = g[2].retired THEN <<Stale(g[1]), g[2]>> ELSE a
  BY DEF RefreshSubscription
<1>6. Later(g[1], Stale(g[1])) /\ Stale(g[1]).stale
  BY <1>1, LaterHosts
<1>7. Later(h, Stale(g[1])) /\ Later(h, a[1])
  BY <1>1, <1>3, <1>4, <1>6, LaterStill
<1>8. g[2].reactor # "none" => g[2].database # NoDatabase
  BY <1>1, <1>2 DEF Refreshable
<1> HIDE DEF g, f, a
<1>9. CASE now # NoDatabase /\ now = g[2].retired
  <2>1. Refreshed(s, g[2], Stale(g[1]).stale)
    <3>1. g[2].database # NoDatabase => g[2].database = now
      BY <1>1 DEF Refreshable
    <3>2. s.database = NoDatabase /\ s.reactor = "none" /\ s.retired = now => g[2] = s
      BY <1>1
    <3>3. g[2].reactor # "none" => g[2].reactor = "attached" /\ g[2].database # NoDatabase
      BY <1>2, <1>8
    <3>4. g[2] \in Subscriptions /\ g[2].document = s.document
      BY <1>1
    <3> QED BY <1>6, <1>9, <3>1, <3>2, <3>3, <3>4 DEF Refreshed
  <2> QED BY <1>5, <1>7, <1>9, <2>1
<1>10. CASE ~(now # NoDatabase /\ now = g[2].retired)
  <2>1. Refreshed(s, a[2], a[1].stale)
    <3>1. f[2].reactor # "none" => now # NoDatabase /\ f[2].reactor = "attached"
      BY <1>2, <1>3, <1>8
    <3>2. ~(s.database = NoDatabase /\ s.reactor = "none" /\ s.retired = now /\ now # NoDatabase)
      BY <1>1, <1>10
    <3>3. a[2].document = s.document /\ a[2].database = now
      BY <1>3, <1>4
    <3>4. a[2].reactor # "none" => a[2].reactor = "attached" /\ a[2].database # NoDatabase
      BY <1>3, <1>4, <3>1
    <3>5. a[2].reactor = "attached" \/ a[1].stale
      BY <1>4, <3>1
    <3> QED BY <1>4, <3>2, <3>3, <3>4, <3>5 DEF Refreshed
  <2> QED BY <1>5, <1>7, <1>10, <2>1
<1> QED BY <1>9, <1>10

-----------------------------------------------------------------------------
(***************************************************************************)
(* All subscriptions.                                                      *)
(***************************************************************************)

\* Nothing is lost when a later turn marks the host stale.
LEMMA RefreshedStale ==
  ASSUME NEW s, NEW new, NEW stale, NEW later, Refreshed(s, new, stale), stale => later
  PROVE  Refreshed(s, new, later)
  BY DEF Refreshed

LEMMA RefreshAll ==
  ASSUME NEW h \in Hosts, NEW refusal \in Refusals,
         \A i \in 1..Len(h.subscriptions) : Refreshable(h.subscriptions[i])
  PROVE  LET k == RefreshSubscriptions(h, refusal) IN
           /\ k \in Hosts /\ Len(k.subscriptions) = Len(h.subscriptions)
           /\ \A i \in 1..Len(h.subscriptions) :
                Refreshed(h.subscriptions[i], k.subscriptions[i], k.stale)
<1> DEFINE t == h.subscriptions
           loop == [of |-> "refresh", refusal |-> refusal]
           base == [h EXCEPT !.subscriptions = <<>>]
<1>1. t \in Seq(Subscriptions) /\ Len(t) \in Nat /\ DOMAIN t = 1..Len(t)
  BY LenProperties DEF Hosts
<1>2. PICK f : Turns(loop, base, t, f) /\ RefreshSubscriptions(h, refusal) = f[Len(t)]
  BY <1>1, RefreshTurns
<1> DEFINE Done(k) ==
             /\ f[k] \in Hosts /\ Len(f[k].subscriptions) = k
             /\ \A i \in 1..k : Refreshed(t[i], f[k].subscriptions[i], f[k].stale)
           T == {k \in Nat : k <= Len(t) => Done(k)}
<1>3. 0 \in T
  <2>1. base \in Hosts /\ base.subscriptions = <<>> /\ Len(<<>>) = 0
    BY EmptySeq DEF Hosts
  <2>2. f[0] = base
    BY <1>2 DEF Turns
  <2>3. 1..0 = {}
    OBVIOUS
  <2> HIDE DEF base
  <2>4. Done(0)
    BY <2>1, <2>2, <2>3
  <2> QED BY <2>4
<1>4. ASSUME NEW k \in Nat, k \in T PROVE k + 1 \in T
  <2> SUFFICES ASSUME k + 1 <= Len(t) PROVE Done(k + 1)
    OBVIOUS
  <2> DEFINE a == f[k]
             s == t[k + 1]
             r == RefreshSubscription(a, s, refusal)
             b == [r[1] EXCEPT !.subscriptions = Append(@, r[2])]
  <2>1. k + 1 \in 1..Len(t) /\ (k + 1) - 1 = k /\ k <= Len(t)
    BY <1>1
  <2>2. a \in Hosts /\ Len(a.subscriptions) = k
        /\ \A i \in 1..k : Refreshed(t[i], a.subscriptions[i], a.stale)
    BY <1>4, <2>1
  <2>3. s \in Subscriptions /\ Refreshable(s)
    BY <1>1, <2>1, ElementOfSeq
  <2>4. f[k + 1] = b
    <3>1. f[k + 1] = Turn(loop, a, s)
      BY <1>2, <2>1 DEF Turns
    <3>2. Turn(loop, a, s) = Refreshing(a, s, refusal)
      BY DEF Turn
    <3> QED BY <3>1, <3>2 DEF Refreshing
  <2> HIDE DEF a, s, r
  <2>5. Later(a, r[1]) /\ Refreshed(s, r[2], r[1].stale)
    BY <2>2, <2>3, RefreshOne DEF r
  <2>6. r[1] \in Hosts /\ r[1].subscriptions = a.subscriptions /\ (a.stale => r[1].stale)
    BY <2>5 DEF Later
  <2>7. a.subscriptions \in Seq(Subscriptions) /\ r[2] \in Subscriptions
    BY <2>2, <2>5 DEF Hosts, Refreshed
  <2>8. b.subscriptions = Append(a.subscriptions, r[2]) /\ b.stale = r[1].stale
    BY <2>6 DEF Hosts
  <2>9. /\ Append(a.subscriptions, r[2]) \in Seq(Subscriptions)
        /\ Len(Append(a.subscriptions, r[2])) = k + 1
        /\ \A i \in 1..k : Append(a.subscriptions, r[2])[i] = a.subscriptions[i]
        /\ Append(a.subscriptions, r[2])[k + 1] = r[2]
    BY <2>2, <2>7, AppendProperties
  <2>10. b \in Hosts
    BY <2>6, <2>9 DEF Hosts
  <2> HIDE DEF b
  <2>11. ASSUME NEW i \in 1..(k + 1) PROVE Refreshed(t[i], b.subscriptions[i], b.stale)
    <3>1. CASE i = k + 1
      BY <2>5, <2>8, <2>9, <3>1 DEF s
    <3>2. CASE i # k + 1
      <4>1. i \in 1..k
        BY <3>2
      <4>2. Refreshed(t[i], a.subscriptions[i], a.stale)
        BY <2>2, <4>1
      <4>3. Refreshed(t[i], a.subscriptions[i], b.stale)
        BY <2>6, <2>8, <4>2, RefreshedStale
      <4> QED BY <2>8, <2>9, <4>1, <4>3
    <3> QED BY <3>1, <3>2
  <2>12. Len(b.subscriptions) = k + 1
    BY <2>8, <2>9
  <2> QED BY <2>4, <2>10, <2>11, <2>12
<1> HIDE DEF T
<1>5. Nat \subseteq T
  BY <1>3, <1>4, Induction
<1>6. Done(Len(t))
  BY <1>1, <1>5 DEF T
<1> HIDE DEF Done
<1> QED BY <1>2, <1>6 DEF Done

\* What databaseWillBeDestroyed leaves of a subscription s.
Retired(s, b, new, stale) ==
  \/ s.database # b /\ new = s
  \/ /\ s.database = b /\ stale
     /\ new \in Subscriptions /\ new.document = s.document
     /\ new.database = NoDatabase /\ new.retired = b /\ new.reactor = "none"

LEMMA RetireAll ==
  ASSUME NEW h \in Hosts, NEW b \in Databases, NEW refusal
  PROVE  LET k == RetireDatabase(h, b, refusal) IN
           /\ k \in Hosts /\ Len(k.subscriptions) = Len(h.subscriptions)
           /\ h.stale => k.stale
           /\ \A i \in 1..Len(h.subscriptions) :
                Retired(h.subscriptions[i], b, k.subscriptions[i], k.stale)
<1> DEFINE t == h.subscriptions
           loop == [of |-> "retire", database |-> b, refusal |-> refusal]
           base == [h EXCEPT !.subscriptions = <<>>]
<1>1. t \in Seq(Subscriptions) /\ Len(t) \in Nat /\ DOMAIN t = 1..Len(t)
  BY LenProperties DEF Hosts
<1>2. PICK f : Turns(loop, base, t, f) /\ RetireDatabase(h, b, refusal) = f[Len(t)]
  BY <1>1, RetireTurns
<1> DEFINE Done(k) ==
             /\ f[k] \in Hosts /\ Len(f[k].subscriptions) = k
             /\ h.stale => f[k].stale
             /\ \A i \in 1..k : Retired(t[i], b, f[k].subscriptions[i], f[k].stale)
           T == {k \in Nat : k <= Len(t) => Done(k)}
<1>3. 0 \in T
  <2>1. base \in Hosts /\ base.subscriptions = <<>> /\ Len(<<>>) = 0 /\ base.stale = h.stale
    BY EmptySeq DEF Hosts
  <2>2. f[0] = base
    BY <1>2 DEF Turns
  <2>3. 1..0 = {}
    OBVIOUS
  <2> HIDE DEF base
  <2>4. Done(0)
    BY <2>1, <2>2, <2>3
  <2> QED BY <2>4
<1>4. ASSUME NEW k \in Nat, k \in T PROVE k + 1 \in T
  <2> SUFFICES ASSUME k + 1 <= Len(t) PROVE Done(k + 1)
    OBVIOUS
  <2> DEFINE a == f[k]
             s == t[k + 1]
             c == f[k + 1]
  <2>1. k + 1 \in 1..Len(t) /\ (k + 1) - 1 = k /\ k <= Len(t)
    BY <1>1
  <2>2. /\ a \in Hosts /\ Len(a.subscriptions) = k
        /\ h.stale => a.stale
        /\ \A i \in 1..k : Retired(t[i], b, a.subscriptions[i], a.stale)
    BY <1>4, <2>1
  <2>3. s \in Subscriptions
    BY <1>1, <2>1, ElementOfSeq
  <2>4. c = Retiring(a, s, b, refusal)
    <3>1. c = Turn(loop, a, s)
      BY <1>2, <2>1 DEF Turns
    <3>2. Turn(loop, a, s) = Retiring(a, s, b, refusal)
      BY DEF Turn
    <3> QED BY <3>1, <3>2
  <2> HIDE DEF a, s, c
  <2>5. PICK new \in Subscriptions :
          /\ c \in [subscriptions : {Append(a.subscriptions, new)}, stale : BOOLEAN,
                    uncertain : BOOLEAN]
          /\ a.stale => c.stale
          /\ Retired(s, b, new, c.stale)
    <3>1. CASE s.database # b
      <4>1. c = [a EXCEPT !.subscriptions = Append(@, s)]
        BY <2>4, <3>1 DEF Retiring
      <4> QED BY <2>2, <2>3, <3>1, <4>1 DEF Hosts, Retired
    <3>2. CASE s.database = b
      <4> DEFINE d == DetachDatabaseReactor(a, s, refusal)
                 new == [d[2] EXCEPT !.database = NoDatabase, !.retired = b]
      <4>1. Later(a, d[1]) /\ d[2] = Unobserved(s)
        BY <2>2, <2>3, DetachFacts
      <4>2. c = [Stale(d[1]) EXCEPT !.subscriptions = Append(@, new)]
        BY <2>4, <3>2 DEF Retiring
      <4>3. /\ new \in Subscriptions /\ new.document = s.document
            /\ new.database = NoDatabase /\ new.retired = b /\ new.reactor = "none"
        BY <2>3, <4>1, UnobservedFacts DEF Subscriptions
      <4> HIDE DEF d, new
      <4>4. d[1] \in Hosts /\ d[1].subscriptions = a.subscriptions
        BY <4>1 DEF Later
      <4>5. /\ c.subscriptions = Append(a.subscriptions, new) /\ c.stale
            /\ c \in [subscriptions : {Append(a.subscriptions, new)}, stale : BOOLEAN,
                      uncertain : BOOLEAN]
        BY <4>2, <4>4 DEF Hosts, Stale
      <4> QED BY <3>2, <4>3, <4>5 DEF Retired
    <3> QED BY <3>1, <3>2
  <2>7. a.subscriptions \in Seq(Subscriptions)
    BY <2>2 DEF Hosts
  <2>8. c.subscriptions = Append(a.subscriptions, new)
    BY <2>5
  <2>9. /\ Append(a.subscriptions, new) \in Seq(Subscriptions)
        /\ Len(Append(a.subscriptions, new)) = k + 1
        /\ \A i \in 1..k : Append(a.subscriptions, new)[i] = a.subscriptions[i]
        /\ Append(a.subscriptions, new)[k + 1] = new
    BY <2>2, <2>7, AppendProperties
  <2>10. c \in Hosts
    BY <2>5, <2>9 DEF Hosts
  <2>11. ASSUME NEW i \in 1..(k + 1) PROVE Retired(t[i], b, c.subscriptions[i], c.stale)
    <3>1. CASE i = k + 1
      BY <2>5, <2>8, <2>9, <3>1 DEF s
    <3>2. CASE i # k + 1
      <4>1. i \in 1..k
        BY <3>2
      <4>2. Retired(t[i], b, a.subscriptions[i], a.stale)
        BY <2>2, <4>1
      <4>3. Retired(t[i], b, a.subscriptions[i], c.stale)
        BY <2>5, <4>2 DEF Retired
      <4> QED BY <2>8, <2>9, <4>1, <4>3
    <3> QED BY <3>1, <3>2
  <2>12. Len(c.subscriptions) = k + 1
    BY <2>8, <2>9
  <2>13. h.stale => c.stale
    BY <2>2, <2>5
  <2> QED BY <2>10, <2>11, <2>12, <2>13 DEF c
<1> HIDE DEF T
<1>5. Nat \subseteq T
  BY <1>3, <1>4, Induction
<1>6. Done(Len(t))
  BY <1>1, <1>5 DEF T
<1> HIDE DEF Done
<1> QED BY <1>2, <1>6 DEF Done

\* The snapshot has an entry for every subscription that has a database.
LEMMA ListAll ==
  ASSUME NEW h \in Hosts, dbmod' \in [Databases -> BOOLEAN]
  PROVE  \A i \in 1..Len(h.subscriptions) :
           h.subscriptions[i].database # NoDatabase =>
             \E j \in DOMAIN Snapshot(h) : Snapshot(h)[j] = Entry(h.subscriptions[i])
<1> DEFINE t == h.subscriptions
           loop == [of |-> "list"]
           Entries == {Entry(s) : s \in Subscriptions}
<1>1. t \in Seq(Subscriptions) /\ Len(t) \in Nat /\ DOMAIN t = 1..Len(t)
  BY LenProperties DEF Hosts
<1>2. PICK f : Turns(loop, <<>>, t, f) /\ Snapshot(h) = f[Len(t)]
  BY <1>1, ListTurns
<1> DEFINE Done(k) ==
             /\ f[k] \in Seq(Entries)
             /\ \A i \in 1..k :
                  t[i].database # NoDatabase => \E j \in 1..Len(f[k]) : f[k][j] = Entry(t[i])
           T == {k \in Nat : k <= Len(t) => Done(k)}
<1>3. 0 \in T
  <2>1. f[0] = <<>>
    BY <1>2 DEF Turns
  <2>2. f[0] \in Seq(Entries)
    BY <2>1, EmptySeq
  <2> QED BY <2>2
<1>4. ASSUME NEW k \in Nat, k \in T PROVE k + 1 \in T
  <2> SUFFICES ASSUME k + 1 <= Len(t) PROVE Done(k + 1)
    OBVIOUS
  <2> DEFINE a == f[k]
             s == t[k + 1]
             c == f[k + 1]
  <2>1. k + 1 \in 1..Len(t) /\ (k + 1) - 1 = k /\ k <= Len(t)
    BY <1>1
  <2>2. /\ a \in Seq(Entries)
        /\ \A i \in 1..k :
             t[i].database # NoDatabase => \E j \in 1..Len(a) : a[j] = Entry(t[i])
    BY <1>4, <2>1
  <2>3. s \in Subscriptions /\ Entry(s) \in Entries
    BY <1>1, <2>1, ElementOfSeq
  <2>4. c = Listing(a, s)
    <3>1. c = Turn(loop, a, s)
      BY <1>2, <2>1 DEF Turns
    <3>2. Turn(loop, a, s) = Listing(a, s)
      BY DEF Turn
    <3> QED BY <3>1, <3>2
  <2> HIDE DEF a, c, Entries
  <2>5. CASE s.database = NoDatabase
    <3>1. c = a
      BY <2>4, <2>5 DEF Listing
    <3>2. ASSUME NEW i \in 1..(k + 1), t[i].database # NoDatabase
          PROVE  \E j \in 1..Len(c) : c[j] = Entry(t[i])
      <4>1. i \in 1..k
        BY <2>5, <3>2
      <4> QED BY <2>2, <3>1, <3>2, <4>1
    <3> QED BY <2>2, <3>1, <3>2 DEF c
  <2>6. CASE s.database # NoDatabase
    <3>1. c = Append(a, Entry(s))
      BY <2>4, <2>6 DEF Listing
    <3>2. /\ c \in Seq(Entries) /\ Len(c) = Len(a) + 1 /\ Len(a) \in Nat
          /\ \A i \in 1..Len(a) : c[i] = a[i]
          /\ c[Len(a) + 1] = Entry(s)
      BY <2>2, <2>3, <3>1, AppendProperties, LenProperties
    <3>3. ASSUME NEW i \in 1..(k + 1), t[i].database # NoDatabase
          PROVE  \E j \in 1..Len(c) : c[j] = Entry(t[i])
      <4>1. CASE i = k + 1
        <5>1. Len(a) + 1 \in 1..Len(c) /\ c[Len(a) + 1] = Entry(t[i])
          BY <3>2, <4>1
        <5> QED BY <5>1
      <4>2. CASE i # k + 1
        <5>1. i \in 1..k
          BY <4>2
        <5>2. PICK j \in 1..Len(a) : a[j] = Entry(t[i])
          BY <2>2, <3>3, <5>1
        <5>3. j \in 1..Len(c) /\ c[j] = Entry(t[i])
          BY <3>2, <5>2
        <5> QED BY <5>3
      <4> QED BY <4>1, <4>2
    <3> QED BY <3>2, <3>3 DEF c
  <2> QED BY <2>5, <2>6
<1> HIDE DEF T
<1>5. Nat \subseteq T
  BY <1>3, <1>4, Induction
<1>6. Done(Len(t))
  <2>1. Len(t) \in T /\ Len(t) <= Len(t)
    BY <1>1, <1>5
  <2> HIDE DEF Done
  <2> QED BY <2>1 DEF T
<1>7. DOMAIN Snapshot(h) = 1..Len(f[Len(t)])
  BY <1>2, <1>6, LenProperties
<1> HIDE DEF Entries
<1> QED BY <1>2, <1>6, <1>7

-----------------------------------------------------------------------------
(***************************************************************************)
(* What the host knows of AutoCAD's documents.                             *)
(***************************************************************************)
OneEach(h) ==
  \A i, j \in DOMAIN h.subscriptions :
    h.subscriptions[i].document = h.subscriptions[j].document => i = j

OpenOnes(h, doc) == \A d \in Documents : doc[d].state = "open" <=> Subscribed(h, d)

\* A subscription has its document's database or none; where there is a reactor,
\* it is in that database, which dies once the reactor has heard so.
Follows(h, doc, db, td) ==
  \A i \in DOMAIN h.subscriptions :
    LET s == h.subscriptions[i] IN
      /\ s.database # NoDatabase => s.database = doc[s.document].database
      /\ s.reactor # "none" => s.database # NoDatabase
      /\ s.reactor = "gone" => db[s.database] = "dying" /\ "reactor" \in td[s.database]

\* A database that dies is known to the subscription; and once the editor's
\* reactor has been told of it, nothing of it is left but its address.
Buries(h, doc, db, td) ==
  \A i \in DOMAIN h.subscriptions :
    LET s == h.subscriptions[i]
        b == doc[s.document].database IN
      b # NoDatabase /\ db[b] = "dying" =>
        /\ s.database = b \/ s.retired = b
        /\ "editor" \in td[b] =>
             s.database = NoDatabase /\ s.retired = b /\ s.reactor = "none"

Hosting(h, doc, db, td) ==
  OneEach(h) /\ OpenOnes(h, doc) /\ Follows(h, doc, db, td) /\ Buries(h, doc, db, td)

Pending(h) == h.stale \/ \E i \in DOMAIN h.subscriptions : h.subscriptions[i].changed

\* Where no reactor watches a document's database, a refresh is due.
Watched(h) ==
  \A i \in DOMAIN h.subscriptions : h.subscriptions[i].reactor = "attached" \/ Pending(h)

Told ==
  /\ told \in [Databases -> SUBSET {"editor", "reactor"}]
  /\ \A b \in Databases : database[b] # "dying" => told[b] = {}

Registry ==
  /\ host \in Hosts /\ Told
  /\ Hosting(host, document, database, told)
  /\ Watched(host) /\ ChangesAreNoticed

\* What the host's invariant gives of the subscriptions' number and documents.
LEMMA HostDomain ==
  ASSUME NEW h \in Hosts
  PROVE  /\ h.subscriptions \in Seq(Subscriptions)
         /\ Len(h.subscriptions) \in Nat
         /\ DOMAIN h.subscriptions = 1..Len(h.subscriptions)
         /\ \A i \in 1..Len(h.subscriptions) : h.subscriptions[i] \in Subscriptions
  BY LenProperties, ElementOfSeq DEF Hosts

\* k has the subscriptions of h, as far as documents and databases go.
Alike(h, k) ==
  /\ Len(k.subscriptions) = Len(h.subscriptions)
  /\ \A i \in 1..Len(h.subscriptions) :
       LET s == h.subscriptions[i] new == k.subscriptions[i] IN
         /\ new.document = s.document /\ new.database = s.database
         /\ new.retired = s.retired /\ new.reactor = s.reactor

\* What holds of the subscriptions of a host holds of those that are alike.
LEMMA AlikeHosting ==
  ASSUME NEW h \in Hosts, NEW k \in Hosts, Alike(h, k), NEW doc, NEW db, NEW td,
         Hosting(h, doc, db, td)
  PROVE  Hosting(k, doc, db, td)
<1>1. /\ DOMAIN k.subscriptions = 1..Len(h.subscriptions)
      /\ DOMAIN h.subscriptions = 1..Len(h.subscriptions)
  BY HostDomain DEF Alike
<1>2. OneEach(k)
  BY <1>1 DEF Alike, Hosting, OneEach
<1>3. OpenOnes(k, doc)
  BY <1>1 DEF Alike, Hosting, OpenOnes, Subscribed
<1>4. Follows(k, doc, db, td)
  BY <1>1 DEF Alike, Hosting, Follows
<1>5. Buries(k, doc, db, td)
  BY <1>1 DEF Alike, Hosting, Buries
<1> QED BY <1>2, <1>3, <1>4, <1>5 DEF Hosting

\* Taking what the reactors have seen, at the start of a refresh.
LEMMA DrainFacts ==
  ASSUME NEW h \in Hosts
  PROVE  /\ Drain(h) \in Hosts /\ Alike(h, Drain(h))
         /\ Drain(h).stale <=> Pending(h)
         /\ Pending(Drain(h)) <=> Pending(h)
         /\ [Drain(h) EXCEPT !.stale = FALSE] \in Hosts
         /\ Alike(h, [Drain(h) EXCEPT !.stale = FALSE])
<1> DEFINE t == h.subscriptions
           u == [i \in DOMAIN t |-> [t[i] EXCEPT !.changed = FALSE]]
           p == h.stale \/ \E i \in DOMAIN t : t[i].changed
           k == [h EXCEPT !.stale = p, !.subscriptions = u]
<1>1. /\ t \in Seq(Subscriptions) /\ Len(t) \in Nat /\ DOMAIN t = 1..Len(t)
      /\ \A i \in 1..Len(t) : t[i] \in Subscriptions
  BY HostDomain
<1>2. \A i \in 1..Len(t) :
        /\ u[i] \in Subscriptions /\ ~u[i].changed
        /\ u[i].document = t[i].document /\ u[i].database = t[i].database
        /\ u[i].retired = t[i].retired /\ u[i].reactor = t[i].reactor
  BY <1>1 DEF Subscriptions
<1>3. u \in Seq(Subscriptions) /\ Len(u) = Len(t) /\ DOMAIN u = 1..Len(t)
  <2>1. u \in [1..Len(t) -> Subscriptions]
    BY <1>1, <1>2
  <2> HIDE DEF u
  <2> QED BY <1>1, <2>1, IsASeq, LenProperties
<1>4. Drain(h) = k
  BY DEF Drain
<1>5. p \in BOOLEAN /\ (p <=> Pending(h))
  BY DEF Pending, Hosts
<1> HIDE DEF u, p, t
<1>8. k \in Hosts /\ k.subscriptions = u /\ (k.stale <=> Pending(h))
  BY <1>3, <1>5 DEF Hosts
<1> HIDE DEF k
<1>9. [k EXCEPT !.stale = FALSE] \in Hosts /\ [k EXCEPT !.stale = FALSE].subscriptions = u
  BY <1>8 DEF Hosts
<1>10. Pending(k) <=> Pending(h)
  BY <1>2, <1>3, <1>8 DEF Pending
<1>11. Alike(h, k) /\ Alike(h, [k EXCEPT !.stale = FALSE])
  BY <1>2, <1>3, <1>8, <1>9 DEF Alike, t
<1> QED BY <1>4, <1>8, <1>9, <1>10, <1>11

\* The registry lists the document d as it is.
LEMMA ListedFacts ==
  ASSUME NEW k \in Hosts, NEW i \in 1..Len(k.subscriptions), dbmod' \in [Databases -> BOOLEAN],
         ReplaceSnapshot(Snapshot(k)),
         LET s == k.subscriptions[i] IN
           s.database # NoDatabase /\ s.database = document'[s.document].database
  PROVE  Listed(k.subscriptions[i].document)'
<1> DEFINE s == k.subscriptions[i]
           states == Snapshot(k)
<1>1. PICK j \in DOMAIN states : states[j] = Entry(s)
  BY ListAll
<1>2. /\ states[j].token = s.document /\ states[j].database = s.database
      /\ states[j].modified = dbmod'[s.database]
      /\ states[j].active = (s.document \in activeDocument')
  BY <1>1 DEF Entry
<1>3. PICK fresh :
        drawings' = [n \in DOMAIN states |->
          LET kept == KeptId(states[n])
          IN  [token |-> states[n].token, database |-> states[n].database,
               id |-> IF kept = NoId THEN fresh[n] ELSE kept,
               modified |-> states[n].modified, active |-> states[n].active]]
  BY DEF ReplaceSnapshot
<1> HIDE DEF s, states
<1>4. /\ j \in DOMAIN drawings' /\ drawings'[j].token = s.document
      /\ drawings'[j].database = s.database
      /\ drawings'[j].modified = dbmod'[s.database]
      /\ drawings'[j].active = (s.document \in activeDocument')
  BY <1>1, <1>2, <1>3
<1> QED BY <1>4 DEF Listed, s

\* A refresh that goes through lists every document as it is.
LEMMA PublishKeeps ==
  ASSUME Typed', NEW h \in Hosts, NEW refusal \in Refusals,
         Hosting(h, document', database', told'), Publish(h, refusal)
  PROVE  /\ host' \in Hosts /\ Hosting(host', document', database', told')
         /\ Watched(host')
         /\ \A d \in Documents :
              document'[d].state = "open" /\ document'[d].database # NoDatabase =>
                Listed(d)' \/ host'.stale
<1> DEFINE t == h.subscriptions
           k == host'
           u == k.subscriptions
<1>1. /\ Len(t) \in Nat /\ DOMAIN t = 1..Len(t)
      /\ \A i \in 1..Len(t) : t[i] \in Subscriptions
  BY HostDomain
<1>2. /\ \A d \in Documents : document'[d].database \in Databases \cup {NoDatabase}
      /\ dbmod' \in [Databases -> BOOLEAN]
  BY DEF Typed
<1>3. ASSUME NEW i \in 1..Len(t) PROVE Refreshable(t[i])
  <2>1. t[i].document \in Documents
    BY <1>1 DEF Subscriptions
  <2> QED BY <1>1, <1>2, <2>1 DEF Refreshable, Hosting, Follows
<1>4. k = RefreshSubscriptions(h, refusal) /\ ReplaceSnapshot(Snapshot(k))
  BY DEF Publish
<1>5. /\ k \in Hosts /\ Len(u) = Len(t)
      /\ \A i \in 1..Len(t) : Refreshed(t[i], u[i], k.stale)
  BY <1>3, <1>4, RefreshAll
<1>6. DOMAIN u = 1..Len(t) /\ \A i \in 1..Len(t) : u[i].document = t[i].document
  BY <1>5, HostDomain DEF Refreshed
<1>7. OneEach(k)
  BY <1>1, <1>6 DEF Hosting, OneEach
<1>8. OpenOnes(k, document')
  BY <1>1, <1>6 DEF Hosting, OpenOnes, Subscribed
<1>9. Follows(k, document', database', told')
  BY <1>5, <1>6 DEF Follows, Refreshed
<1>10. Buries(k, document', database', told')
  <2> SUFFICES ASSUME NEW i \in 1..Len(t),
                      document'[t[i].document].database # NoDatabase,
                      database'[document'[t[i].document].database] = "dying"
               PROVE  LET b == document'[t[i].document].database IN
                        /\ u[i].database = b \/ u[i].retired = b
                        /\ "editor" \in told'[b] =>
                             u[i].database = NoDatabase /\ u[i].retired = b
                             /\ u[i].reactor = "none"
    BY <1>6 DEF Buries
  <2>1. Refreshed(t[i], u[i], k.stale)
    BY <1>5
  <2>2. LET b == document'[t[i].document].database IN
          "editor" \in told'[b] =>
             t[i].database = NoDatabase /\ t[i].retired = b /\ t[i].reactor = "none"
    BY <1>1 DEF Hosting, Buries
  <2> QED BY <2>1, <2>2 DEF Refreshed
<1>11. Watched(k)
  BY <1>5, <1>6 DEF Watched, Pending, Refreshed
<1>12. ASSUME NEW d \in Documents, document'[d].state = "open", document'[d].database # NoDatabase,
              ~host'.stale
       PROVE  Listed(d)'
  <2>1. PICK i \in 1..Len(t) : t[i].document = d
    BY <1>1, <1>12 DEF Hosting, OpenOnes, Subscribed
  <2>2. u[i].document = d /\ u[i].database = document'[d].database
    BY <1>5, <1>12, <2>1 DEF Refreshed
  <2> QED BY <1>2, <1>4, <1>5, <1>12, <2>2, ListedFacts
<1> QED BY <1>5, <1>7, <1>8, <1>9, <1>10, <1>11, <1>12 DEF Hosting

\* refreshDocumentSnapshot, whatever has happened before it.
LEMMA RefreshKeeps ==
  ASSUME Typed', Told', NEW h \in Hosts, NEW refusal \in Refusals,
         Hosting(h, document', database', told'), RefreshDocumentSnapshot(h, refusal)
  PROVE  Registry'
<1> DEFINE k == [Drain(h) EXCEPT !.stale = FALSE]
<1>1. k \in Hosts /\ Alike(h, k)
  BY DrainFacts
<1>2. Hosting(k, document', database', told')
  BY <1>1, AlikeHosting
<1>3. Publish(k, refusal)
  BY DEF RefreshDocumentSnapshot
<1> HIDE DEF k
<1>4. /\ host' \in Hosts /\ Hosting(host', document', database', told')
      /\ Watched(host')
      /\ \A d \in Documents :
           document'[d].state = "open" /\ document'[d].database # NoDatabase =>
             Listed(d)' \/ host'.stale
  BY <1>1, <1>2, <1>3, PublishKeeps
<1>5. ChangesAreNoticed'
  BY <1>4 DEF ChangesAreNoticed, IsOpen
<1> QED BY <1>4, <1>5 DEF Registry

-----------------------------------------------------------------------------
(***************************************************************************)
(* A document comes, and goes.                                             *)
(***************************************************************************)

\* The host subscribes to a document that AutoCAD has created.
LEMMA SubscribeKeeps ==
  ASSUME Inv, Registry, NEW d \in Documents, NEW b \in Databases,
         document[d].state = "none", database[b] = "free",
         document' = [document EXCEPT ![d] =
                        [state |-> "open", made |-> @.made + 1, database |-> b]],
         database' = [database EXCEPT ![b] = "live"]
  PROVE  /\ Subscribe(host, d) \in Hosts
         /\ Hosting(Subscribe(host, d), document', database', told)
<1> DEFINE t == host.subscriptions
           new == NewSubscription(d)
           k == [host EXCEPT !.subscriptions = Append(@, new)]
           u == Append(t, new)
<1>1. /\ host \in Hosts /\ t \in Seq(Subscriptions)
      /\ Len(t) \in Nat /\ DOMAIN t = 1..Len(t)
      /\ \A i \in 1..Len(t) : t[i] \in Subscriptions /\ t[i].document \in Documents
  BY HostDomain DEF Registry, Subscriptions
<1>2. \A i \in 1..Len(t) : t[i].document # d /\ document[t[i].document].state = "open"
  BY <1>1 DEF Registry, Hosting, OpenOnes, Subscribed
<1>3. Subscribe(host, d) = k
  BY <1>1, <1>2 DEF Subscribe, Subscribed
<1>4. /\ new \in Subscriptions /\ new.document = d /\ new.database = NoDatabase
      /\ new.reactor = "none"
  BY DEF NewSubscription, Subscriptions, Reactors
<1> HIDE DEF new
<1>5. /\ u \in Seq(Subscriptions) /\ Len(u) = Len(t) + 1
      /\ \A i \in 1..Len(t) : u[i] = t[i]
      /\ u[Len(t) + 1] = new
  BY <1>1, <1>4, AppendProperties
<1>6. k.subscriptions = u /\ k \in Hosts
  BY <1>1, <1>5 DEF Hosts
<1>7. DOMAIN u = 1..(Len(t) + 1)
  BY <1>5, LenProperties
<1> HIDE DEF k, u
<1>8. /\ document'[d].state = "open" /\ document'[d].database = b
      /\ \A e \in Documents \ {d} : document'[e] = document[e]
      /\ database'[b] = "live"
      /\ \A c \in Databases \ {b} : database'[c] = database[c]
  BY DEF Inv, Typed
<1>9. OneEach(k)
  <2> SUFFICES ASSUME NEW i \in 1..(Len(t) + 1), NEW j \in 1..(Len(t) + 1),
                      u[i].document = u[j].document
               PROVE  i = j
    BY <1>6, <1>7 DEF OneEach
  <2>1. CASE i \in 1..Len(t) /\ j \in 1..Len(t)
    BY <1>1, <1>5, <2>1 DEF Registry, Hosting, OneEach
  <2>2. CASE i = Len(t) + 1 /\ j \in 1..Len(t)
    BY <1>2, <1>4, <1>5, <2>2
  <2>3. CASE i \in 1..Len(t) /\ j = Len(t) + 1
    BY <1>2, <1>4, <1>5, <2>3
  <2>4. i \in 1..Len(t) \/ i = Len(t) + 1
    BY <1>1
  <2>5. j \in 1..Len(t) \/ j = Len(t) + 1
    BY <1>1
  <2> QED BY <2>1, <2>2, <2>3, <2>4, <2>5
<1>10. OpenOnes(k, document')
  <2>1. Subscribed(k, d)
    <3>1. Len(t) + 1 \in DOMAIN u
      BY <1>1, <1>7
    <3> QED BY <1>4, <1>5, <1>6, <3>1 DEF Subscribed
  <2>2. ASSUME NEW e \in Documents \ {d} PROVE Subscribed(k, e) <=> Subscribed(host, e)
    <3>1. ASSUME NEW i \in 1..Len(t), t[i].document = e PROVE Subscribed(k, e)
      <4>1. i \in DOMAIN u /\ u[i].document = e
        BY <1>1, <1>5, <1>7, <3>1
      <4> QED BY <1>6, <4>1 DEF Subscribed
    <3>2. ASSUME NEW i \in 1..(Len(t) + 1), u[i].document = e PROVE Subscribed(host, e)
      <4>1. i \in 1..Len(t)
        BY <1>1, <1>4, <1>5, <3>2
      <4> QED BY <1>1, <1>5, <3>2, <4>1 DEF Subscribed
    <3> QED BY <1>1, <1>6, <1>7, <3>1, <3>2 DEF Subscribed
  <2> QED BY <1>8, <2>1, <2>2 DEF Registry, Hosting, OpenOnes
<1>11. Follows(k, document', database', told)
  <2> SUFFICES ASSUME NEW i \in 1..(Len(t) + 1)
               PROVE  LET s == u[i] IN
                        /\ s.database # NoDatabase => s.database = document'[s.document].database
                        /\ s.reactor # "none" => s.database # NoDatabase
                        /\ s.reactor = "gone" =>
                             database'[s.database] = "dying" /\ "reactor" \in told[s.database]
    BY <1>6, <1>7 DEF Follows
  <2>1. CASE i \in 1..Len(t)
    <3>1. /\ t[i].database # NoDatabase => t[i].database = document[t[i].document].database
          /\ t[i].reactor # "none" => t[i].database # NoDatabase
          /\ t[i].reactor = "gone" =>
               database[t[i].database] = "dying" /\ "reactor" \in told[t[i].database]
      BY <1>1, <2>1 DEF Registry, Hosting, Follows
    <3>2. t[i].database \in Databases \cup {NoDatabase}
      BY <1>1, <2>1 DEF Subscriptions
    <3> QED BY <1>1, <1>2, <1>5, <1>8, <2>1, <3>1, <3>2
  <2>2. CASE i = Len(t) + 1
    BY <1>4, <1>5, <2>2
  <2> QED BY <1>1, <2>1, <2>2
<1>12. Buries(k, document', database', told)
  <2> SUFFICES ASSUME NEW i \in 1..(Len(t) + 1),
                      document'[u[i].document].database # NoDatabase,
                      database'[document'[u[i].document].database] = "dying"
               PROVE  LET s == u[i]
                          c == document'[s.document].database IN
                        /\ s.database = c \/ s.retired = c
                        /\ "editor" \in told[c] =>
                             s.database = NoDatabase /\ s.retired = c /\ s.reactor = "none"
    BY <1>6, <1>7 DEF Buries
  <2>1. i \in 1..Len(t)
    BY <1>1, <1>4, <1>5, <1>8
  <2>2. u[i] = t[i] /\ t[i].document \in Documents \ {d}
    BY <1>1, <1>2, <1>5, <2>1
  <2>3. document'[t[i].document] = document[t[i].document]
    BY <1>8, <2>2
  <2>4. document[t[i].document].database \in Databases
    BY <2>2, <2>3 DEF Inv, Typed
  <2>5. database[document[t[i].document].database] = "dying"
    BY <1>8, <2>2, <2>3, <2>4
  <2> QED BY <1>1, <2>1, <2>2, <2>3, <2>4, <2>5, RegistryAssumption
          DEF Registry, Hosting, Buries
<1> QED BY <1>3, <1>6, <1>9, <1>10, <1>11, <1>12 DEF Hosting

\* A sequence without its element at i is the rest in the same order.
LEMMA RemoveAtFacts ==
  ASSUME NEW t \in Seq(Subscriptions), NEW m \in 1..Len(t)
  PROVE  /\ RemoveAt(t, m) \in Seq(Subscriptions)
         /\ Len(RemoveAt(t, m)) = Len(t) - 1
         /\ \A i \in 1..(Len(t) - 1) :
              RemoveAt(t, m)[i] = IF i < m THEN t[i] ELSE t[i + 1]
<1> DEFINE a == SubSeq(t, 1, m - 1)
           b == SubSeq(t, m + 1, Len(t))
<1>1. Len(t) \in Nat /\ DOMAIN t = 1..Len(t)
  BY LenProperties
<1>2. /\ a \in Seq(Subscriptions) /\ Len(a) = m - 1
      /\ \A i \in 1..(m - 1) : a[i] = t[i]
  <2>1. \A i \in 1..(m - 1) : i \in 1..Len(t)
    BY <1>1
  <2> QED BY <1>1, <2>1, SubSeqProperties
<1>3. /\ b \in Seq(Subscriptions) /\ Len(b) = Len(t) - m
      /\ \A i \in 1..(Len(t) - m) : b[i] = t[m + i]
  <2>1. \A i \in (m + 1)..Len(t) : i \in 1..Len(t)
    BY <1>1
  <2>2. m + 1 \in 1..(Len(t) + 1) /\ Len(t) \in m..Len(t)
    BY <1>1
  <2>3. /\ b \in Seq(Subscriptions)
        /\ Len(b) = IF m + 1 <= Len(t) THEN Len(t) - (m + 1) + 1 ELSE 0
        /\ \A i \in 1..(Len(t) - (m + 1) + 1) : b[i] = t[m + 1 + i - 1]
    BY <1>1, <2>1, <2>2, SubSeqProperties
  <2> HIDE DEF b
  <2>4. Len(b) = Len(t) - m
    <3>1. CASE m + 1 <= Len(t)
      <4>1. Len(t) - (m + 1) + 1 = Len(t) - m
        BY <1>1
      <4> QED BY <2>3, <3>1, <4>1
    <3>2. CASE ~(m + 1 <= Len(t))
      <4>1. m \in Int /\ Len(t) \in Int /\ m <= Len(t)
        BY <1>1
      <4>2. Len(t) = m
        BY <3>2, <4>1
      <4>3. Len(t) - m = 0
        BY <4>1, <4>2
      <4> QED BY <2>3, <3>2, <4>3
    <3> QED BY <3>1, <3>2
  <2>5. ASSUME NEW i \in 1..(Len(t) - m) PROVE b[i] = t[m + i]
    <3>1. i \in 1..(Len(t) - (m + 1) + 1) /\ m + 1 + i - 1 = m + i
      BY <1>1
    <3> QED BY <2>3, <3>1
  <2> QED BY <2>3, <2>4, <2>5
<1>4. RemoveAt(t, m) = a \o b
  BY DEF RemoveAt
<1> HIDE DEF a, b
<1>5. /\ a \o b \in Seq(Subscriptions)
      /\ Len(a \o b) = Len(a) + Len(b)
      /\ \A i \in 1..(Len(a) + Len(b)) :
           (a \o b)[i] = IF i <= Len(a) THEN a[i] ELSE b[i - Len(a)]
  BY <1>2, <1>3, ConcatProperties
<1>6. Len(a) + Len(b) = Len(t) - 1
  BY <1>1, <1>2, <1>3
<1>7. ASSUME NEW i \in 1..(Len(t) - 1)
      PROVE  (a \o b)[i] = IF i < m THEN t[i] ELSE t[i + 1]
  <2>1. CASE i < m
    BY <1>1, <1>2, <1>5, <1>6, <2>1
  <2>2. CASE ~(i < m)
    <3>1. i - Len(a) \in 1..(Len(t) - m) /\ m + (i - Len(a)) = i + 1 /\ ~(i <= Len(a))
      BY <1>1, <1>2, <2>2
    <3>2. (a \o b)[i] = b[i - Len(a)]
      BY <1>1, <1>5, <1>6, <3>1
    <3> QED BY <1>3, <2>2, <3>1, <3>2
  <2> QED BY <2>1, <2>2
<1> QED BY <1>4, <1>5, <1>6, <1>7

\* The host gives up the subscription of a document that goes.
LEMMA UnsubscribeKeeps ==
  ASSUME Inv, Registry, NEW d \in Documents, NEW refusal, IsOpen(d),
         document' = [document EXCEPT ![d].state = "closing"]
  PROVE  /\ Unsubscribe(host, d, refusal) \in Hosts
         /\ Hosting(Unsubscribe(host, d, refusal), document', database, told)
<1> DEFINE t == host.subscriptions
           m == CHOOSE i \in DOMAIN t : t[i].document = d
           r == DetachDatabaseReactor(host, t[m], refusal)
           u == RemoveAt(t, m)
           k == [r[1] EXCEPT !.subscriptions = RemoveAt(@, m)]
<1>1. /\ host \in Hosts /\ t \in Seq(Subscriptions)
      /\ Len(t) \in Nat /\ DOMAIN t = 1..Len(t)
      /\ \A i \in 1..Len(t) : t[i] \in Subscriptions /\ t[i].document \in Documents
  BY HostDomain DEF Registry, Subscriptions
<1>2. Subscribed(host, d)
  BY DEF Registry, Hosting, OpenOnes, IsOpen
<1>3. m \in 1..Len(t) /\ t[m].document = d
  BY <1>1, <1>2 DEF Subscribed
<1>4. Unsubscribe(host, d, refusal) = k
  BY <1>2 DEF Unsubscribe
<1> HIDE DEF m
<1>5. Later(host, r[1])
  BY <1>1, <1>3, DetachFacts
<1> HIDE DEF r
<1>6. /\ u \in Seq(Subscriptions) /\ Len(u) = Len(t) - 1
      /\ \A i \in 1..(Len(t) - 1) : u[i] = IF i < m THEN t[i] ELSE t[i + 1]
  BY <1>1, <1>3, RemoveAtFacts
<1>7. k \in Hosts /\ k.subscriptions = u
  BY <1>5, <1>6 DEF Later, Hosts
<1>8. DOMAIN u = 1..(Len(t) - 1)
  BY <1>6, LenProperties
<1> HIDE DEF k, u
<1> DEFINE at(i) == IF i < m THEN i ELSE i + 1
<1>9. \A i \in 1..(Len(t) - 1) : at(i) \in 1..Len(t) /\ at(i) # m /\ u[i] = t[at(i)]
  BY <1>1, <1>3, <1>6
<1>10. \A i, j \in 1..(Len(t) - 1) : at(i) = at(j) => i = j
  BY <1>1, <1>3
<1>11. \A n \in 1..Len(t) : n # m => \E i \in 1..(Len(t) - 1) : at(i) = n
  <2> SUFFICES ASSUME NEW n \in 1..Len(t), n # m
               PROVE  \E i \in 1..(Len(t) - 1) : at(i) = n
    OBVIOUS
  <2>1. CASE n < m
    <3>1. n \in 1..(Len(t) - 1) /\ at(n) = n
      BY <1>1, <1>3, <2>1
    <3> QED BY <3>1
  <2>2. CASE ~(n < m)
    <3>1. n - 1 \in 1..(Len(t) - 1) /\ at(n - 1) = n
      BY <1>1, <1>3, <2>2
    <3> QED BY <3>1
  <2> QED BY <2>1, <2>2
<1> HIDE DEF at
<1>12. \A i \in 1..Len(t) : t[i].document = d => i = m
  BY <1>1, <1>3 DEF Registry, Hosting, OneEach
<1>13. \A i \in 1..(Len(t) - 1) : u[i].document \in Documents \ {d}
  BY <1>1, <1>9, <1>12
<1>14. /\ document'[d].state = "closing"
       /\ \A e \in Documents \ {d} : document'[e] = document[e]
  BY DEF Inv, Typed
<1>15. OneEach(k)
  <2> SUFFICES ASSUME NEW i \in 1..(Len(t) - 1), NEW j \in 1..(Len(t) - 1),
                      u[i].document = u[j].document
               PROVE  i = j
    BY <1>7, <1>8 DEF OneEach
  <2>1. at(i) = at(j)
    BY <1>1, <1>9 DEF Registry, Hosting, OneEach
  <2> QED BY <1>10, <2>1
<1>16. OpenOnes(k, document')
  <2>1. ~Subscribed(k, d)
    BY <1>7, <1>8, <1>13 DEF Subscribed
  <2>2. ASSUME NEW e \in Documents \ {d} PROVE Subscribed(k, e) <=> Subscribed(host, e)
    <3>1. ASSUME NEW n \in 1..Len(t), t[n].document = e PROVE Subscribed(k, e)
      <4>1. PICK i \in 1..(Len(t) - 1) : at(i) = n
        BY <1>3, <1>11, <3>1
      <4> QED BY <1>7, <1>8, <1>9, <3>1, <4>1 DEF Subscribed
    <3>2. ASSUME NEW i \in 1..(Len(t) - 1), u[i].document = e PROVE Subscribed(host, e)
      BY <1>1, <1>9, <3>2 DEF Subscribed
    <3> QED BY <1>1, <1>7, <1>8, <3>1, <3>2 DEF Subscribed
  <2> QED BY <1>14, <2>1, <2>2 DEF Registry, Hosting, OpenOnes
<1>17. Follows(k, document', database, told)
  <2> SUFFICES ASSUME NEW i \in 1..(Len(t) - 1)
               PROVE  LET s == u[i] IN
                        /\ s.database # NoDatabase => s.database = document'[s.document].database
                        /\ s.reactor # "none" => s.database # NoDatabase
                        /\ s.reactor = "gone" =>
                             database[s.database] = "dying" /\ "reactor" \in told[s.database]
    BY <1>7, <1>8 DEF Follows
  <2>1. at(i) \in 1..Len(t) /\ u[i] = t[at(i)] /\ document'[u[i].document] = document[u[i].document]
    BY <1>9, <1>13, <1>14
  <2> QED BY <1>1, <2>1 DEF Registry, Hosting, Follows
<1>18. Buries(k, document', database, told)
  <2> SUFFICES ASSUME NEW i \in 1..(Len(t) - 1),
                      document'[u[i].document].database # NoDatabase,
                      database[document'[u[i].document].database] = "dying"
               PROVE  LET s == u[i]
                          c == document'[s.document].database IN
                        /\ s.database = c \/ s.retired = c
                        /\ "editor" \in told[c] =>
                             s.database = NoDatabase /\ s.retired = c /\ s.reactor = "none"
    BY <1>7, <1>8 DEF Buries
  <2>1. at(i) \in 1..Len(t) /\ u[i] = t[at(i)] /\ document'[u[i].document] = document[u[i].document]
    BY <1>9, <1>13, <1>14
  <2> QED BY <1>1, <2>1 DEF Registry, Hosting, Buries
<1> QED BY <1>4, <1>7, <1>15, <1>16, <1>17, <1>18 DEF Hosting

-----------------------------------------------------------------------------
(***************************************************************************)
(* The registry's invariant.                                               *)
(***************************************************************************)

\* No subscription, no drawing listed.
LEMMA InitRegistry == Init => Registry
<1> SUFFICES ASSUME Init PROVE Registry
  OBVIOUS
<1>1. /\ host.subscriptions = <<>> /\ host.subscriptions \in Seq(Subscriptions)
      /\ DOMAIN host.subscriptions = {}
  BY EmptySeq DEF Init
<1>2. host \in Hosts
  BY <1>1 DEF Init, Hosts
<1>3. Hosting(host, document, database, told) /\ Watched(host)
  BY <1>1 DEF Init, Hosting, OneEach, OpenOnes, Subscribed, Follows, Buries, Watched
<1>4. Told /\ ChangesAreNoticed
  BY DEF Init, Told, ChangesAreNoticed, IsOpen
<1> QED BY <1>2, <1>3, <1>4 DEF Registry

\* A step outside the host leaves the invariant.
LEMMA NothingKeepsRegistry ==
  ASSUME Registry, UNCHANGED vars
  PROVE  Registry'
BY DEF Registry, vars, autocadVars, Told, Hosting, OneEach, OpenOnes, Subscribed, Follows, Buries,
       Watched, Pending, ChangesAreNoticed, Listed, IsOpen

\* What the invariant says of the subscriptions, one by one.
LEMMA SubscriptionFacts ==
  ASSUME Inv, Registry
  PROVE  /\ DOMAIN host.subscriptions = 1..Len(host.subscriptions)
         /\ Len(host.subscriptions) \in Nat
         /\ \A i \in DOMAIN host.subscriptions :
              LET s == host.subscriptions[i]
                  b == document[s.document].database IN
                /\ s \in Subscriptions /\ s.document \in Documents
                /\ s.database \in Databases \cup {NoDatabase}
                /\ b \in Databases \cup {NoDatabase}
                /\ s.database # NoDatabase => s.database = b
                /\ s.reactor # "none" => s.database # NoDatabase
                /\ s.reactor = "gone" =>
                     database[s.database] = "dying" /\ "reactor" \in told[s.database]
                /\ b # NoDatabase /\ database[b] = "dying" =>
                     /\ s.database = b \/ s.retired = b
                     /\ "editor" \in told[b] =>
                          s.database = NoDatabase /\ s.retired = b /\ s.reactor = "none"
                /\ s.reactor = "attached" \/ Pending(host)
<1>1. /\ DOMAIN host.subscriptions = 1..Len(host.subscriptions)
      /\ Len(host.subscriptions) \in Nat
      /\ \A i \in DOMAIN host.subscriptions : host.subscriptions[i] \in Subscriptions
  BY HostDomain DEF Registry
<1>2. ASSUME NEW i \in DOMAIN host.subscriptions
      PROVE  LET s == host.subscriptions[i] IN
               /\ s.document \in Documents /\ s.database \in Databases \cup {NoDatabase}
               /\ document[s.document].database \in Databases \cup {NoDatabase}
  BY <1>1, <1>2 DEF Subscriptions, Inv, Typed
<1> QED BY <1>1, <1>2 DEF Registry, Hosting, Follows, Buries, Watched

\* A document begins to lose its database: the host has not been told of it.
LEMMA DatabaseDiesKeeps ==
  ASSUME Inv, Registry, NEW b \in Databases, DatabaseDies(b)
  PROVE  Registry'
<1> DEFINE t == host.subscriptions
<1>1. /\ database[b] = "live" /\ Noticed(b)
      /\ database' = [database EXCEPT ![b] = "dying"]
      /\ UNCHANGED <<document, told, dbmod, activeDocument, host, drawings, operation>>
  BY DEF DatabaseDies
<1>2. told[b] = {}
  BY <1>1 DEF Registry, Told
<1>3. \A c \in Databases : database'[c] = IF c = b THEN "dying" ELSE database[c]
  BY <1>1 DEF Inv, Typed
<1>4. Told'
  BY <1>1, <1>3 DEF Registry, Told
<1>5. OneEach(host) /\ OpenOnes(host, document')
  BY <1>1 DEF Registry, Hosting
<1>6. Follows(host, document', database', told')
  BY <1>1, <1>3, SubscriptionFacts DEF Follows
<1>7. Buries(host, document', database', told')
  <2> SUFFICES ASSUME NEW i \in DOMAIN t,
                      document[t[i].document].database # NoDatabase,
                      database'[document[t[i].document].database] = "dying"
               PROVE  LET c == document[t[i].document].database IN
                        /\ t[i].database = c \/ t[i].retired = c
                        /\ "editor" \in told[c] =>
                             t[i].database = NoDatabase /\ t[i].retired = c /\ t[i].reactor = "none"
    BY <1>1 DEF Buries
  <2>1. CASE document[t[i].document].database = b
    <3>1. t[i].document \in Documents /\ Subscribed(host, t[i].document)
      BY SubscriptionFacts DEF Subscribed
    <3>2. PICK j \in DOMAIN t : t[j].database = b
      BY <1>1, <2>1, <3>1 DEF Noticed
    <3>3. document[t[j].document].database = b /\ t[j].document \in Documents
      BY <3>2, SubscriptionFacts, RegistryAssumption
    <3>4. t[j].document = t[i].document
      BY <2>1, <3>1, <3>3, RegistryAssumption DEF Inv, Owned
    <3>5. i = j
      BY <3>4 DEF Registry, Hosting, OneEach
    <3> QED BY <1>2, <2>1, <3>2, <3>5
  <2>2. CASE document[t[i].document].database # b
    BY <1>3, <2>2, SubscriptionFacts
  <2> QED BY <2>1, <2>2
<1>8. Watched(host)
  BY DEF Registry
<1>9. ChangesAreNoticed'
  <2> SUFFICES ASSUME operation.phase # "closing", NEW d \in Documents, IsOpen(d),
                      document[d].database # NoDatabase,
                      database'[document[d].database] = "live"
               PROVE  Listed(d) \/ Pending(host)
    BY <1>1 DEF ChangesAreNoticed, Listed, IsOpen, Pending
  <2>1. database[document[d].database] = "live"
    BY <1>3 DEF Inv, Typed
  <2> QED BY <2>1 DEF Registry, ChangesAreNoticed, Pending
<1> QED BY <1>1, <1>4, <1>5, <1>6, <1>7, <1>8, <1>9 DEF Registry, Hosting

\* A notification that a reactor gets marks the subscriptions that have it.
LEMMA ObservedFacts ==
  ASSUME Registry, NEW b, NEW reactor \in {"attached", "gone"},
         host' = [host EXCEPT !.subscriptions =
                    [i \in DOMAIN @ |-> IF Observes(@[i], b)
                                        THEN [@[i] EXCEPT !.reactor = reactor, !.changed = TRUE]
                                        ELSE @[i]]]
  PROVE  LET t == host.subscriptions u == host'.subscriptions IN
           /\ host' \in Hosts /\ DOMAIN u = DOMAIN t
           /\ \A i \in DOMAIN t :
                IF Observes(t[i], b)
                THEN /\ u[i].document = t[i].document /\ u[i].database = t[i].database
                     /\ u[i].retired = t[i].retired /\ u[i].reactor = reactor /\ u[i].changed
                ELSE u[i] = t[i]
           /\ Pending(host) => Pending(host')
           /\ \A i \in DOMAIN t : Observes(t[i], b) => Pending(host')
<1> DEFINE t == host.subscriptions
           u == [i \in DOMAIN t |-> IF Observes(t[i], b)
                                    THEN [t[i] EXCEPT !.reactor = reactor, !.changed = TRUE]
                                    ELSE t[i]]
<1>1. /\ Len(t) \in Nat /\ DOMAIN t = 1..Len(t)
      /\ \A i \in 1..Len(t) : t[i] \in Subscriptions
  BY HostDomain DEF Registry
<1>2. \A i \in DOMAIN t :
        /\ u[i] \in Subscriptions
        /\ IF Observes(t[i], b)
           THEN /\ u[i].document = t[i].document /\ u[i].database = t[i].database
                /\ u[i].retired = t[i].retired /\ u[i].reactor = reactor /\ u[i].changed
           ELSE u[i] = t[i]
  BY <1>1 DEF Subscriptions, Reactors
<1>3. u \in Seq(Subscriptions) /\ DOMAIN u = DOMAIN t
  <2>1. u \in [1..Len(t) -> Subscriptions]
    BY <1>1, <1>2
  <2> HIDE DEF u
  <2>2. DOMAIN u = DOMAIN t
    BY <1>1, <2>1
  <2> QED BY <1>1, <2>1, <2>2, SeqDef
<1>4. host' = [host EXCEPT !.subscriptions = u]
  OBVIOUS
<1> HIDE DEF u
<1>5. host' \in Hosts /\ host'.subscriptions = u /\ host'.stale = host.stale
  BY <1>3, <1>4 DEF Registry, Hosts
<1>6. Pending(host) => Pending(host')
  BY <1>2, <1>3, <1>5 DEF Pending
<1>7. \A i \in DOMAIN t : Observes(t[i], b) => Pending(host')
  BY <1>2, <1>3, <1>5 DEF Pending
<1> QED BY <1>2, <1>3, <1>5, <1>6, <1>7

\* The reactor on a database is told that it goes.
LEMMA ReactorGoodbyeKeeps ==
  ASSUME Inv, Registry, NEW b \in Databases, ReactorGoodbye(b)
  PROVE  Registry'
<1> DEFINE t == host.subscriptions
           u == host'.subscriptions
<1>1. /\ database[b] = "dying"
      /\ told' = [told EXCEPT ![b] = @ \cup {"reactor"}]
      /\ UNCHANGED <<document, database, dbmod, activeDocument, drawings, operation>>
  BY DEF ReactorGoodbye
<1>2. /\ host' \in Hosts /\ DOMAIN u = DOMAIN t
      /\ \A i \in DOMAIN t :
           IF Observes(t[i], b)
           THEN /\ u[i].document = t[i].document /\ u[i].database = t[i].database
                /\ u[i].retired = t[i].retired /\ u[i].reactor = "gone" /\ u[i].changed
           ELSE u[i] = t[i]
      /\ Pending(host) => Pending(host')
      /\ \A i \in DOMAIN t : Observes(t[i], b) => Pending(host')
  BY ObservedFacts DEF ReactorGoodbye
<1>3. /\ \A c \in Databases \ {b} : told'[c] = told[c]
      /\ told'[b] = told[b] \cup {"reactor"}
      /\ Told'
  BY <1>1 DEF Registry, Told
<1>4. \A i \in DOMAIN t : u[i].document = t[i].document
  BY <1>2
<1>5. OneEach(host') /\ OpenOnes(host', document')
  BY <1>1, <1>2, <1>4 DEF Registry, Hosting, OneEach, OpenOnes, Subscribed
<1>6. Follows(host', document', database', told')
  <2> SUFFICES ASSUME NEW i \in DOMAIN t
               PROVE  LET s == u[i] IN
                        /\ s.database # NoDatabase => s.database = document[s.document].database
                        /\ s.reactor # "none" => s.database # NoDatabase
                        /\ s.reactor = "gone" =>
                             database[s.database] = "dying" /\ "reactor" \in told'[s.database]
    BY <1>1, <1>2 DEF Follows
  <2>1. CASE Observes(t[i], b)
    BY <1>1, <1>2, <1>3, <2>1, SubscriptionFacts, RegistryAssumption DEF Observes
  <2>2. CASE ~Observes(t[i], b)
    BY <1>2, <1>3, <2>2, SubscriptionFacts
  <2> QED BY <2>1, <2>2
<1>7. Buries(host', document', database', told')
  <2> SUFFICES ASSUME NEW i \in DOMAIN t,
                      document[t[i].document].database # NoDatabase,
                      database[document[t[i].document].database] = "dying"
               PROVE  LET s == u[i]
                          c == document[t[i].document].database IN
                        /\ s.database = c \/ s.retired = c
                        /\ "editor" \in told'[c] =>
                             s.database = NoDatabase /\ s.retired = c /\ s.reactor = "none"
    BY <1>1, <1>2, <1>4 DEF Buries
  <2>1. LET c == document[t[i].document].database IN
          /\ c \in Databases
          /\ t[i].database = c \/ t[i].retired = c
          /\ "editor" \in told'[c] =>
               t[i].database = NoDatabase /\ t[i].retired = c /\ t[i].reactor = "none"
    BY <1>3, SubscriptionFacts
  <2>2. CASE Observes(t[i], b)
    BY <1>2, <2>1, <2>2 DEF Observes
  <2>3. CASE ~Observes(t[i], b)
    BY <1>2, <2>1, <2>3
  <2> QED BY <2>2, <2>3
<1>8. Watched(host')
  BY <1>2, SubscriptionFacts DEF Watched
<1>9. ChangesAreNoticed'
  <2>1. \A d \in Documents : Listed(d) => Listed(d)'
    BY <1>1 DEF Listed
  <2>2. ChangesAreNoticed
    BY DEF Registry
  <2> QED BY <1>1, <1>2, <2>1, <2>2 DEF ChangesAreNoticed, IsOpen, Pending
<1> QED BY <1>2, <1>3, <1>5, <1>6, <1>7, <1>8, <1>9 DEF Registry, Hosting

\* An edit is seen by the reactors on the database.
LEMMA EditedKeeps ==
  ASSUME Inv, Registry, NEW b \in Databases, Edited(b)
  PROVE  Registry'
<1> DEFINE t == host.subscriptions
           u == host'.subscriptions
<1>1. /\ database[b] = "live"
      /\ dbmod' = [dbmod EXCEPT ![b] = TRUE]
      /\ UNCHANGED <<document, database, told, activeDocument, drawings, operation>>
  BY DEF Edited
<1>2. host' = [host EXCEPT !.subscriptions =
                 [i \in DOMAIN @ |-> IF Observes(@[i], b)
                                     THEN [@[i] EXCEPT !.reactor = "attached", !.changed = TRUE]
                                     ELSE @[i]]]
  <2>1. \A i \in DOMAIN t : Observes(t[i], b) =>
          [t[i] EXCEPT !.changed = TRUE] = [t[i] EXCEPT !.reactor = "attached", !.changed = TRUE]
    BY SubscriptionFacts DEF Observes, Subscriptions
  <2> QED BY <2>1 DEF Edited
<1>3. /\ host' \in Hosts /\ DOMAIN u = DOMAIN t
      /\ \A i \in DOMAIN t :
           IF Observes(t[i], b)
           THEN /\ u[i].document = t[i].document /\ u[i].database = t[i].database
                /\ u[i].retired = t[i].retired /\ u[i].reactor = "attached" /\ u[i].changed
           ELSE u[i] = t[i]
      /\ Pending(host) => Pending(host')
      /\ \A i \in DOMAIN t : Observes(t[i], b) => Pending(host')
  BY <1>2, ObservedFacts
<1>4. Alike(host, host')
  <2>1. Len(u) = Len(t)
    BY <1>3, HostDomain DEF Registry
  <2> QED BY <1>3, <2>1, SubscriptionFacts DEF Alike, Observes
<1>5. Hosting(host', document', database', told') /\ Told'
  BY <1>1, <1>3, <1>4, AlikeHosting DEF Registry, Told
<1>6. Watched(host')
  BY <1>3, SubscriptionFacts DEF Watched
<1>7. ChangesAreNoticed'
  <2> SUFFICES ASSUME operation.phase # "closing", NEW d \in Documents, IsOpen(d),
                      document[d].database # NoDatabase, database[document[d].database] = "live"
               PROVE  Listed(d)' \/ Pending(host')
    BY <1>1 DEF ChangesAreNoticed, IsOpen, Pending
  <2>1. Listed(d) \/ Pending(host)
    BY DEF Registry, ChangesAreNoticed, Pending
  <2>2. CASE document[d].database = b
    <3>1. PICK i \in DOMAIN t : t[i].document = d
      BY DEF Registry, Hosting, OpenOnes, Subscribed, IsOpen
    <3>2. t[i].reactor = "attached" => Observes(t[i], b)
      BY <2>2, <3>1, SubscriptionFacts DEF Observes
    <3> QED BY <1>3, <3>2, SubscriptionFacts
  <2>3. CASE document[d].database # b
    <3>1. dbmod'[document[d].database] = dbmod[document[d].database]
      BY <1>1, <2>3 DEF Inv, Typed
    <3>2. Listed(d) => Listed(d)'
      BY <1>1, <3>1 DEF Listed
    <3> QED BY <1>3, <2>1, <3>2
  <2> QED BY <2>2, <2>3
<1> QED BY <1>3, <1>5, <1>6, <1>7 DEF Registry

\* The editor's reactor is told that a database goes.
LEMMA DatabaseToBeDestroyedKeeps ==
  ASSUME Inv, Registry, NEW b \in Databases, NEW refusal, DatabaseToBeDestroyed(b, refusal)
  PROVE  Registry'
<1> DEFINE t == host.subscriptions
           u == host'.subscriptions
<1>1. /\ database[b] = "dying"
      /\ told' = [told EXCEPT ![b] = @ \cup {"editor"}]
      /\ host' = RetireDatabase(host, b, refusal)
      /\ UNCHANGED <<document, database, dbmod, activeDocument, drawings, operation>>
  BY DEF DatabaseToBeDestroyed
<1>2. /\ host' \in Hosts /\ Len(u) = Len(t)
      /\ host.stale => host'.stale
      /\ \A i \in 1..Len(t) : Retired(t[i], b, u[i], host'.stale)
  BY <1>1, RetireAll DEF Registry
<1>3. /\ DOMAIN t = 1..Len(t) /\ DOMAIN u = 1..Len(t)
      /\ \A i \in 1..Len(t) : u[i].document = t[i].document
  BY <1>2, SubscriptionFacts, HostDomain DEF Retired
<1>4. /\ \A c \in Databases \ {b} : told'[c] = told[c]
      /\ told'[b] = told[b] \cup {"editor"}
      /\ Told'
  BY <1>1 DEF Registry, Told
<1>5. OneEach(host') /\ OpenOnes(host', document')
  BY <1>1, <1>3 DEF Registry, Hosting, OneEach, OpenOnes, Subscribed
<1>6. Follows(host', document', database', told')
  <2> SUFFICES ASSUME NEW i \in 1..Len(t)
               PROVE  LET s == u[i] IN
                        /\ s.database # NoDatabase => s.database = document[s.document].database
                        /\ s.reactor # "none" => s.database # NoDatabase
                        /\ s.reactor = "gone" =>
                             database[s.database] = "dying" /\ "reactor" \in told'[s.database]
    BY <1>1, <1>3 DEF Follows
  <2>1. Retired(t[i], b, u[i], host'.stale)
    BY <1>2
  <2>2. CASE u[i] = t[i]
    BY <1>3, <1>4, <2>2, SubscriptionFacts
  <2>3. CASE u[i].database = NoDatabase /\ u[i].reactor = "none"
    BY <2>3
  <2> QED BY <2>1, <2>2, <2>3 DEF Retired
<1>7. Buries(host', document', database', told')
  <2> SUFFICES ASSUME NEW i \in 1..Len(t),
                      document[t[i].document].database # NoDatabase,
                      database[document[t[i].document].database] = "dying"
               PROVE  LET s == u[i]
                          c == document[t[i].document].database IN
                        /\ s.database = c \/ s.retired = c
                        /\ "editor" \in told'[c] =>
                             s.database = NoDatabase /\ s.retired = c /\ s.reactor = "none"
    BY <1>1, <1>3 DEF Buries
  <2> DEFINE c == document[t[i].document].database
  <2>1. /\ c \in Databases
        /\ t[i] \in Subscriptions
        /\ t[i].database # NoDatabase => t[i].database = c
        /\ t[i].reactor # "none" => t[i].database # NoDatabase
        /\ t[i].database = c \/ t[i].retired = c
        /\ "editor" \in told[c] =>
             t[i].database = NoDatabase /\ t[i].retired = c /\ t[i].reactor = "none"
    BY <1>3, SubscriptionFacts
  <2>2. Retired(t[i], b, u[i], host'.stale)
    BY <1>2
  <2> HIDE DEF c
  <2>3. b # NoDatabase
    BY RegistryAssumption
  <2>4. CASE t[i].database = b
    BY <2>1, <2>2, <2>3, <2>4 DEF Retired, c
  <2>5. CASE t[i].database # b
    <3>1. u[i] = t[i]
      BY <2>2, <2>5 DEF Retired
    <3>2. CASE c = b
      BY <2>1, <2>5, <3>1, <3>2 DEF c
    <3>3. CASE c # b
      BY <1>4, <2>1, <3>1, <3>3 DEF c
    <3> QED BY <3>2, <3>3
  <2> QED BY <2>4, <2>5
<1>8. Pending(host) => Pending(host')
  <2>1. ASSUME NEW i \in 1..Len(t), t[i].changed PROVE Pending(host')
    <3>1. u[i] = t[i] \/ host'.stale
      BY <1>2 DEF Retired
    <3> QED BY <1>3, <2>1, <3>1 DEF Pending
  <2> QED BY <1>2, <1>3, <2>1 DEF Pending
<1>9. Watched(host')
  <2>1. ASSUME NEW i \in 1..Len(t) PROVE u[i].reactor = "attached" \/ Pending(host')
    <3>1. u[i] = t[i] \/ host'.stale
      BY <1>2 DEF Retired
    <3> QED BY <1>3, <1>8, <3>1, SubscriptionFacts DEF Pending
  <2> QED BY <1>3, <2>1 DEF Watched
<1>10. ChangesAreNoticed'
  <2>1. \A d \in Documents : Listed(d) => Listed(d)'
    BY <1>1 DEF Listed
  <2>2. ChangesAreNoticed
    BY DEF Registry
  <2> QED BY <1>1, <1>8, <2>1, <2>2 DEF ChangesAreNoticed, IsOpen, Pending
<1> QED BY <1>2, <1>4, <1>5, <1>6, <1>7, <1>9, <1>10 DEF Registry, Hosting

\* A database that all have been told of goes; its document may get another at once.
LEMMA DatabaseFreedKeeps ==
  ASSUME Inv, Inv', Registry, NEW b \in Databases, DatabaseFreed(b)
  PROVE  Registry'
<1> DEFINE t == host.subscriptions
<1>1. /\ database[b] = "dying" /\ told[b] = {"editor", "reactor"}
      /\ told' = [told EXCEPT ![b] = {}]
      /\ UNCHANGED <<activeDocument, host, drawings, operation>>
  BY DEF DatabaseFreed
<1>2. PICK d \in Documents, other \in Databases \cup {NoDatabase} :
        /\ document[d].database = b
        /\ other # NoDatabase => database[other] = "free"
        /\ document' = [document EXCEPT ![d].database = other]
        /\ database' = [c \in Databases |-> IF c = b THEN "free"
                                            ELSE IF c = other THEN "live" ELSE database[c]]
        /\ dbmod' = [c \in Databases |-> IF c = other THEN FALSE ELSE dbmod[c]]
  BY DEF DatabaseFreed
<1>3. /\ document'[d].database = other /\ document'[d].state = document[d].state
      /\ \A e \in Documents \ {d} : document'[e] = document[e]
  BY <1>2 DEF Inv, Typed
<1>4. /\ \A c \in Databases \ {b} : told'[c] = told[c]
      /\ told'[b] = {}
  BY <1>1 DEF Registry, Told
<1>5. ASSUME NEW e \in Documents \ {d}, document[e].database # NoDatabase
      PROVE  LET c == document[e].database IN
               /\ c \in Databases /\ c # b /\ c # other
               /\ database'[c] = database[c] /\ told'[c] = told[c] /\ dbmod'[c] = dbmod[c]
  <2> DEFINE c == document[e].database
  <2>1. c \in Databases /\ c # b /\ database[c] # "free"
    BY <1>2, <1>5, RegistryAssumption DEF Inv, Typed, Owned
  <2>2. c # other
    BY <1>2, <2>1, RegistryAssumption
  <2> QED BY <1>2, <1>4, <2>1, <2>2
<1>6. Told'
  <2>1. ASSUME NEW c \in Databases, database'[c] # "dying" PROVE told'[c] = {}
    <3>1. CASE c = b
      BY <1>4, <3>1
    <3>2. CASE c # b
      <4>1. database[c] # "dying"
        BY <1>2, <2>1, <3>2, RegistryAssumption
      <4> QED BY <1>4, <3>2, <4>1 DEF Registry, Told
    <3> QED BY <3>1, <3>2
  <2> QED BY <1>1, <2>1 DEF Registry, Told
<1>7. OneEach(host) /\ OpenOnes(host, document')
  BY <1>2, <1>3 DEF Registry, Hosting, OpenOnes
<1>8. \A i \in DOMAIN t : t[i].document = d =>
        t[i].database = NoDatabase /\ t[i].reactor = "none"
  BY <1>1, <1>2, SubscriptionFacts, RegistryAssumption
<1>9. Follows(host, document', database', told')
  <2> SUFFICES ASSUME NEW i \in DOMAIN t
               PROVE  LET s == t[i] IN
                        /\ s.database # NoDatabase => s.database = document'[s.document].database
                        /\ s.reactor # "none" => s.database # NoDatabase
                        /\ s.reactor = "gone" =>
                             database'[s.database] = "dying" /\ "reactor" \in told'[s.database]
    BY DEF Follows
  <2>1. CASE t[i].document = d
    BY <1>8, <2>1
  <2>2. CASE t[i].document # d
    <3>1. t[i].document \in Documents \ {d} /\ document'[t[i].document] = document[t[i].document]
      BY <1>3, <2>2, SubscriptionFacts
    <3>2. CASE t[i].database = NoDatabase
      BY <3>2, SubscriptionFacts
    <3>3. CASE t[i].database # NoDatabase
      <4>1. t[i].database = document[t[i].document].database
        BY <3>3, SubscriptionFacts
      <4>2. database'[t[i].database] = database[t[i].database]
            /\ told'[t[i].database] = told[t[i].database]
        BY <1>5, <3>1, <3>3, <4>1
      <4> QED BY <3>1, <3>3, <4>1, <4>2, SubscriptionFacts
    <3> QED BY <3>2, <3>3
  <2> QED BY <2>1, <2>2
<1>10. Buries(host, document', database', told')
  <2> SUFFICES ASSUME NEW i \in DOMAIN t,
                      document'[t[i].document].database # NoDatabase,
                      database'[document'[t[i].document].database] = "dying"
               PROVE  LET c == document'[t[i].document].database IN
                        /\ t[i].database = c \/ t[i].retired = c
                        /\ "editor" \in told'[c] =>
                             t[i].database = NoDatabase /\ t[i].retired = c /\ t[i].reactor = "none"
    BY DEF Buries
  <2>1. t[i].document # d
    BY <1>2, <1>3
  <2>2. t[i].document \in Documents \ {d} /\ document'[t[i].document] = document[t[i].document]
    BY <1>3, <2>1, SubscriptionFacts
  <2>3. LET c == document[t[i].document].database IN
          database'[c] = database[c] /\ told'[c] = told[c]
    BY <1>5, <2>2
  <2> QED BY <2>2, <2>3, SubscriptionFacts
<1>11. Watched(host)
  BY DEF Registry
<1>12. ChangesAreNoticed'
  <2> SUFFICES ASSUME operation.phase # "closing", NEW e \in Documents,
                      document'[e].state = "open",
                      document'[e].database # NoDatabase,
                      database'[document'[e].database] = "live"
               PROVE  Listed(e)' \/ Pending(host)
    BY <1>1 DEF ChangesAreNoticed, IsOpen, Pending
  <2>1. CASE e = d
    <3>1. PICK i \in DOMAIN t : t[i].document = d
      BY <1>3, <2>1 DEF Registry, Hosting, OpenOnes, Subscribed
    <3> QED BY <1>8, <3>1, SubscriptionFacts
  <2>2. CASE e # d
    <3>1. /\ document'[e] = document[e]
          /\ database'[document[e].database] = database[document[e].database]
          /\ dbmod'[document[e].database] = dbmod[document[e].database]
      BY <1>3, <1>5, <2>2
    <3>2. Listed(e) \/ Pending(host)
      BY <3>1 DEF Registry, ChangesAreNoticed, IsOpen, Pending
    <3>3. Listed(e) => Listed(e)'
      BY <1>1, <3>1 DEF Listed
    <3> QED BY <3>2, <3>3
  <2> QED BY <2>1, <2>2
<1> QED BY <1>1, <1>6, <1>7, <1>9, <1>10, <1>11, <1>12 DEF Registry, Hosting

\* A document that the host no longer follows goes.
LEMMA DocumentFreedKeeps ==
  ASSUME Inv, Registry, NEW d \in Documents, DocumentFreed(d)
  PROVE  Registry'
<1>1. /\ document[d].state = "closing"
      /\ document' = [document EXCEPT ![d].state = "none"]
      /\ UNCHANGED <<database, told, dbmod, activeDocument, host, drawings, operation>>
  BY DEF DocumentFreed
<1>2. \A e \in Documents : /\ document'[e].database = document[e].database
                           /\ document'[e].state = "open" <=> document[e].state = "open"
  BY <1>1 DEF Inv, Typed
<1>3. OneEach(host) /\ OpenOnes(host, document') /\ Told' /\ Watched(host)
  BY <1>1, <1>2 DEF Registry, Hosting, OpenOnes, Told
<1>4. Follows(host, document', database', told')
  BY <1>1, <1>2, SubscriptionFacts DEF Follows
<1>5. Buries(host, document', database', told')
  BY <1>1, <1>2, SubscriptionFacts DEF Buries
<1>6. ChangesAreNoticed'
  <2>1. \A e \in Documents : Listed(e) => Listed(e)'
    BY <1>1, <1>2 DEF Listed
  <2> QED BY <1>1, <1>2, <2>1 DEF Registry, ChangesAreNoticed, IsOpen
<1> QED BY <1>1, <1>3, <1>4, <1>5, <1>6 DEF Registry, Hosting

\* A document without a database is given one.
LEMMA DatabaseAssignedKeeps ==
  ASSUME Inv, Registry, NEW d \in Documents, NEW b \in Databases, DatabaseAssigned(d, b)
  PROVE  Registry'
<1> DEFINE t == host.subscriptions
<1>1. /\ document[d].state = "open" /\ document[d].database = NoDatabase /\ database[b] = "free"
      /\ document' = [document EXCEPT ![d].database = b]
      /\ database' = [database EXCEPT ![b] = "live"]
      /\ dbmod' = [dbmod EXCEPT ![b] = FALSE]
      /\ UNCHANGED <<told, activeDocument, host, drawings, operation>>
  BY DEF DatabaseAssigned, IsOpen
<1>2. /\ document'[d].database = b /\ document'[d].state = "open" /\ database'[b] = "live"
      /\ \A e \in Documents \ {d} : document'[e] = document[e]
      /\ \A c \in Databases \ {b} : database'[c] = database[c] /\ dbmod'[c] = dbmod[c]
  BY <1>1 DEF Inv, Typed
<1>3. ASSUME NEW e \in Documents \ {d}, document[e].database # NoDatabase
      PROVE  document[e].database \in Databases \ {b}
  BY <1>1, <1>3 DEF Inv, Typed, Owned
<1>4. Told'
  BY <1>1, <1>2 DEF Registry, Told
<1>5. OneEach(host) /\ OpenOnes(host, document') /\ Watched(host)
  BY <1>1, <1>2 DEF Registry, Hosting, OpenOnes
<1>6. \A i \in DOMAIN t : t[i].document = d =>
        t[i].database = NoDatabase /\ t[i].reactor = "none"
  BY <1>1, SubscriptionFacts
<1>7. Follows(host, document', database', told')
  <2> SUFFICES ASSUME NEW i \in DOMAIN t
               PROVE  LET s == t[i] IN
                        /\ s.database # NoDatabase => s.database = document'[s.document].database
                        /\ s.reactor # "none" => s.database # NoDatabase
                        /\ s.reactor = "gone" =>
                             database'[s.database] = "dying" /\ "reactor" \in told[s.database]
    BY <1>1 DEF Follows
  <2>1. CASE t[i].document = d
    BY <1>6, <2>1
  <2>2. CASE t[i].document # d
    <3>1. t[i].document \in Documents \ {d} /\ document'[t[i].document] = document[t[i].document]
      BY <1>2, <2>2, SubscriptionFacts
    <3> QED BY <1>2, <1>3, <3>1, SubscriptionFacts
  <2> QED BY <2>1, <2>2
<1>8. Buries(host, document', database', told')
  <2> SUFFICES ASSUME NEW i \in DOMAIN t,
                      document'[t[i].document].database # NoDatabase,
                      database'[document'[t[i].document].database] = "dying"
               PROVE  LET c == document'[t[i].document].database IN
                        /\ t[i].database = c \/ t[i].retired = c
                        /\ "editor" \in told[c] =>
                             t[i].database = NoDatabase /\ t[i].retired = c /\ t[i].reactor = "none"
    BY <1>1 DEF Buries
  <2>1. t[i].document # d
    BY <1>2
  <2>2. t[i].document \in Documents \ {d} /\ document'[t[i].document] = document[t[i].document]
    BY <1>2, <2>1, SubscriptionFacts
  <2>3. database[document[t[i].document].database] = "dying"
    BY <1>2, <1>3, <2>2
  <2> QED BY <2>2, <2>3, SubscriptionFacts
<1>9. ChangesAreNoticed'
  <2> SUFFICES ASSUME operation.phase # "closing", NEW e \in Documents,
                      document'[e].state = "open",
                      document'[e].database # NoDatabase,
                      database'[document'[e].database] = "live"
               PROVE  Listed(e)' \/ Pending(host)
    BY <1>1 DEF ChangesAreNoticed, IsOpen, Pending
  <2>1. CASE e = d
    <3>1. PICK i \in DOMAIN t : t[i].document = d
      BY <1>1 DEF Registry, Hosting, OpenOnes, Subscribed
    <3> QED BY <1>6, <3>1, SubscriptionFacts
  <2>2. CASE e # d
    <3>1. /\ document'[e] = document[e]
          /\ database'[document[e].database] = database[document[e].database]
          /\ dbmod'[document[e].database] = dbmod[document[e].database]
      BY <1>2, <1>3, <2>2
    <3>2. Listed(e) \/ Pending(host)
      BY <3>1 DEF Registry, ChangesAreNoticed, IsOpen, Pending
    <3>3. Listed(e) => Listed(e)'
      BY <1>1, <3>1 DEF Listed
    <3> QED BY <3>2, <3>3
  <2> QED BY <2>1, <2>2
<1> QED BY <1>1, <1>4, <1>5, <1>7, <1>8, <1>9 DEF Registry, Hosting

\* AutoCAD's own steps with documents and databases.
LEMMA DatabasesKeepRegistry ==
  ASSUME Inv, Inv', Registry, DatabaseStep
  PROVE  Registry'
  BY DatabaseDiesKeeps, ReactorGoodbyeKeeps, DatabaseFreedKeeps, EditedKeeps, DocumentFreedKeeps,
     DatabaseAssignedKeeps
  DEF DatabaseStep

\* A refresh by itself, or after AutoCAD has activated or saved a document.
LEMMA RefreshOnly ==
  ASSUME Inv', Registry, NEW refusal \in Refusals, UNCHANGED <<document, database, told>>,
         RefreshDocumentSnapshot(host, refusal)
  PROVE  Registry'
<1>1. Told'
  BY DEF Registry, Told
<1>2. host \in Hosts /\ Hosting(host, document', database', told')
  BY DEF Registry
<1> QED BY <1>1, <1>2, RefreshKeeps DEF Inv

\* A close by the user or by an operation.
LEMMA DestroyKeeps ==
  ASSUME Inv, Inv', Registry, NEW d \in Documents, NEW refusal \in Refusals,
         DocumentToBeDestroyed(d, refusal)
  PROVE  Registry'
<1>1. /\ IsOpen(d) /\ document' = [document EXCEPT ![d].state = "closing"]
      /\ UNCHANGED <<database, told>>
      /\ RefreshDocumentSnapshot(Unsubscribe(host, d, refusal), refusal)
  BY DEF DocumentToBeDestroyed
<1>2. /\ Unsubscribe(host, d, refusal) \in Hosts
      /\ Hosting(Unsubscribe(host, d, refusal), document', database', told')
  BY <1>1, UnsubscribeKeeps
<1>3. Told'
  BY <1>1 DEF Registry, Told
<1> QED BY <1>1, <1>2, <1>3, RefreshKeeps DEF Inv

\* What the reactors have seen is kept when it is drained.
LEMMA DrainKeeps ==
  ASSUME Inv, Registry, host' = Drain(host), UNCHANGED <<autocadVars, drawings>>,
         operation.phase # "closing" \/ UNCHANGED operation
  PROVE  Registry'
<1>1. /\ host' \in Hosts /\ Alike(host, host')
      /\ Pending(host') <=> Pending(host)
  BY DrainFacts DEF Registry
<1>2. Hosting(host', document', database', told')
  BY <1>1, AlikeHosting DEF Registry, autocadVars
<1>3. Told'
  BY DEF Registry, Told, autocadVars
<1>4. Watched(host')
  <2>1. DOMAIN host'.subscriptions = DOMAIN host.subscriptions
    BY <1>1, HostDomain, SubscriptionFacts DEF Alike
  <2> QED BY <1>1, <2>1, SubscriptionFacts DEF Watched, Alike
<1>5. ChangesAreNoticed'
  <2>1. \A d \in Documents : Listed(d) => Listed(d)'
    BY DEF Listed, autocadVars
  <2>2. ChangesAreNoticed
    BY DEF Registry
  <2> QED BY <1>1, <2>1, <2>2 DEF ChangesAreNoticed, IsOpen, Pending, autocadVars
<1> QED BY <1>1, <1>2, <1>3, <1>4, <1>5 DEF Registry

\* The notifications that the host gets.
LEMMA NotificationsKeepRegistry ==
  ASSUME Inv, Inv', Registry, Notification
  PROVE  Registry'
<1>1. PICK r \in Refusals :
        \/ \E d \in Documents, b \in Databases : DocumentCreated(d, b, r)
        \/ \E d \in Documents : DocumentActivated(d, r) \/ UserCloses(d, r)
        \/ \E b \in Databases : DatabaseToBeDestroyed(b, r) \/ UserSaves(b, r)
        \/ CommandEnded(r) \/ TitleUpdated(r)
  BY DEF Notification, Refusals
<1>2. ASSUME NEW d \in Documents, NEW b \in Databases, DocumentCreated(d, b, r) PROVE Registry'
  <2>1. /\ document[d].state = "none" /\ database[b] = "free"
        /\ document' = [document EXCEPT ![d] =
                          [state |-> "open", made |-> @.made + 1, database |-> b]]
        /\ database' = [database EXCEPT ![b] = "live"]
        /\ UNCHANGED told
        /\ RefreshDocumentSnapshot(Subscribe(host, d), r)
    BY <1>2 DEF DocumentCreated
  <2>2. /\ Subscribe(host, d) \in Hosts
        /\ Hosting(Subscribe(host, d), document', database', told')
    BY <2>1, SubscribeKeeps
  <2>3. Told'
    BY <2>1 DEF Registry, Told, Inv, Typed
  <2> QED BY <2>1, <2>2, <2>3, RefreshKeeps DEF Inv
<1>3. ASSUME NEW d \in Documents, DocumentActivated(d, r) PROVE Registry'
  BY <1>3, RefreshOnly DEF DocumentActivated
<1>4. ASSUME NEW d \in Documents, UserCloses(d, r) PROVE Registry'
  BY <1>4, DestroyKeeps DEF UserCloses
<1>5. ASSUME NEW b \in Databases, DatabaseToBeDestroyed(b, r) PROVE Registry'
  BY <1>5, DatabaseToBeDestroyedKeeps
<1>6. ASSUME NEW b \in Databases, UserSaves(b, r) PROVE Registry'
  BY <1>6, RefreshOnly DEF UserSaves, Saved
<1>7. CASE TitleUpdated(r)
  BY <1>7, RefreshOnly DEF TitleUpdated, autocadVars
<1>8. CASE CommandEnded(r)
  <2>1. UNCHANGED <<autocadVars, operation>> /\ RefreshDocumentSnapshotIfStale(host, r)
    BY <1>8 DEF CommandEnded
  <2>2. CASE Drain(host).stale
    <3>1. RefreshDocumentSnapshot(host, r)
      BY <2>1, <2>2 DEF RefreshDocumentSnapshotIfStale, RefreshDocumentSnapshot
    <3> QED BY <2>1, <3>1, RefreshOnly DEF autocadVars
  <2>3. CASE ~Drain(host).stale
    BY <2>1, <2>3, DrainKeeps DEF RefreshDocumentSnapshotIfStale
  <2> QED BY <2>2, <2>3
<1> QED BY <1>1, <1>2, <1>3, <1>4, <1>5, <1>6, <1>7, <1>8

\* The steps of an operation by id.
LEMMA OperationsKeepRegistry ==
  ASSUME Inv, Inv', Registry, OperationStep
  PROVE  Registry'
<1>1. ASSUME NEW kind \in OperationKinds, NEW id \in Ids, Take(kind, id) PROVE Registry'
  <2>1. operation.phase # "closing"
    BY <1>1 DEF Take, NoOperation
  <2> QED BY <1>1, <2>1, DrainKeeps DEF Take
<1>2. CASE CloseBegins
  <2>1. /\ operation'.phase = "closing"
        /\ UNCHANGED <<document, database, told, host>>
    BY <1>2 DEF CloseBegins
  <2> QED BY <2>1 DEF Registry, Told, ChangesAreNoticed
<1>3. ASSUME NEW r \in Refusals,
             NotDone(r) \/ SwitchTo(r) \/ Save(r) \/ CloseTakes(r) \/ CloseReturns(r)
               \/ CloseFails(r)
      PROVE  Registry'
  <2>1. CASE NotDone(r)
    BY <2>1, RefreshOnly DEF NotDone, Complete, autocadVars
  <2>2. CASE SwitchTo(r)
    BY <2>2, RefreshOnly DEF SwitchTo, Complete
  <2>3. CASE Save(r)
    BY <2>3, RefreshOnly DEF Save, Saved
  <2>4. CASE CloseTakes(r)
    <3>1. Target \in Documents
      BY <2>4 DEF CloseTakes, Inv, Typed
    <3> QED BY <2>4, <3>1, DestroyKeeps DEF CloseTakes
  <2>5. CASE CloseReturns(r)
    BY <2>5, RefreshOnly DEF CloseReturns, Complete, autocadVars
  <2>6. CASE CloseFails(r)
    BY <2>6, RefreshOnly DEF CloseFails, Complete
  <2> QED BY <1>3, <2>1, <2>2, <2>3, <2>4, <2>5, <2>6
<1> QED BY <1>1, <1>2, <1>3 DEF OperationStep, Refusals

\* The registry's invariant is inductive, given that of closing.
LEMMA NextKeepsRegistry == Inv /\ Registry /\ [Next]_vars => Registry'
<1> SUFFICES ASSUME Inv, Registry, [Next]_vars PROVE Registry'
  OBVIOUS
<1>1. Inv'
  BY NextKeepsInv
<1>2. CASE Next
  BY <1>1, <1>2, DatabasesKeepRegistry, NotificationsKeepRegistry, OperationsKeepRegistry DEF Next
<1>3. CASE UNCHANGED vars
  BY <1>3, NothingKeepsRegistry
<1> QED BY <1>2, <1>3

\* It holds in every reachable state.
LEMMA RegistryAlways == Spec => []Registry
<1>1. Init => Inv /\ Registry
  BY InitInv, InitRegistry
<1>2. Inv /\ Registry /\ [Next]_vars => Inv' /\ Registry'
  BY NextKeepsInv, NextKeepsRegistry
<1> QED BY <1>1, <1>2, PTL DEF Spec

\* The host's subscriptions are to documents that are open, and its reactors in
\* the databases that those documents have: through any destruction, in whichever
\* order AutoCAD tells its reactors of it, and any reuse of an address.
THEOREM HostIsLive == Spec => []HostHoldsLiveObjects
<1>1. Inv /\ Registry => HostHoldsLiveObjects
  <2> SUFFICES ASSUME Inv, Registry, NEW i \in DOMAIN host.subscriptions
               PROVE  LET s == host.subscriptions[i] IN
                        /\ IsOpen(s.document)
                        /\ s.reactor = "attached" => s.database = document[s.document].database
    BY DEF HostHoldsLiveObjects
  <2>1. IsOpen(host.subscriptions[i].document)
    BY SubscriptionFacts DEF Registry, Hosting, OpenOnes, Subscribed, IsOpen
  <2> QED BY <2>1, SubscriptionFacts
<1> QED BY <1>1, Invariance, RegistryAlways, PTL

\* A drawing is listed as it is, or a refresh is due: no refusal of AutoCAD and no
\* reload leaves a change that is neither seen nor waited for.
THEOREM NoChangeIsMissed == Spec => []ChangesAreNoticed
<1>1. Registry => ChangesAreNoticed
  BY DEF Registry
<1> QED BY <1>1, RegistryAlways, PTL

-----------------------------------------------------------------------------
(***************************************************************************)
(* The ids of drawings.                                                    *)
(***************************************************************************)
\* The drawings that are listed are open, and have a token and an id each.
Named ==
  \A i, j \in DOMAIN drawings :
    /\ drawings[i].id \in Ids
    /\ drawings[i].token = drawings[j].token => i = j
    /\ drawings[i].id = drawings[j].id => i = j

ListedAreOpen ==
  \A i \in DOMAIN drawings : drawings[i].token \in Documents /\ IsOpen(drawings[i].token)

\* The snapshot has entries of subscriptions only, and no two of one document.
LEMMA ListOnly ==
  ASSUME NEW h \in Hosts, OneEach(h)
  PROVE  LET states == Snapshot(h) IN
           /\ \A j \in DOMAIN states :
                \E i \in DOMAIN h.subscriptions : states[j].token = h.subscriptions[i].document
           /\ \A j, k \in DOMAIN states : states[j].token = states[k].token => j = k
<1> DEFINE t == h.subscriptions
           loop == [of |-> "list"]
           Entries == {Entry(s) : s \in Subscriptions}
<1>1. t \in Seq(Subscriptions) /\ Len(t) \in Nat /\ DOMAIN t = 1..Len(t)
  BY LenProperties DEF Hosts
<1>2. PICK f : Turns(loop, <<>>, t, f) /\ Snapshot(h) = f[Len(t)]
  BY <1>1, ListTurns
<1> DEFINE Done(k) ==
             /\ f[k] \in Seq(Entries)
             /\ \A j \in 1..Len(f[k]) : \E i \in 1..k : f[k][j].token = t[i].document
             /\ \A j, l \in 1..Len(f[k]) : f[k][j].token = f[k][l].token => j = l
           T == {k \in Nat : k <= Len(t) => Done(k)}
<1>3. 0 \in T
  <2>1. f[0] = <<>>
    BY <1>2 DEF Turns
  <2>2. <<>> \in Seq(Entries) /\ 1..Len(<<>>) = {}
    BY EmptySeq
  <2>3. Done(0)
    BY <2>1, <2>2
  <2> QED BY <2>3
<1>4. ASSUME NEW k \in Nat, k \in T PROVE k + 1 \in T
  <2> SUFFICES ASSUME k + 1 <= Len(t) PROVE Done(k + 1)
    OBVIOUS
  <2> DEFINE a == f[k]
             s == t[k + 1]
             c == f[k + 1]
  <2>1. k + 1 \in 1..Len(t) /\ (k + 1) - 1 = k /\ k <= Len(t) /\ \A i \in 1..k : i \in 1..(k + 1)
    BY <1>1
  <2>2. /\ a \in Seq(Entries)
        /\ \A j \in 1..Len(a) : \E i \in 1..k : a[j].token = t[i].document
        /\ \A j, l \in 1..Len(a) : a[j].token = a[l].token => j = l
    BY <1>4, <2>1
  <2>3. s \in Subscriptions /\ Entry(s) \in Entries /\ Entry(s).token = s.document
    BY <1>1, <2>1, ElementOfSeq DEF Entry
  <2>4. c = Listing(a, s)
    <3>1. c = Turn(loop, a, s)
      BY <1>2, <2>1 DEF Turns
    <3>2. Turn(loop, a, s) = Listing(a, s)
      BY DEF Turn
    <3> QED BY <3>1, <3>2
  <2>5. \A i \in 1..k : t[i].document # s.document
    <3> SUFFICES ASSUME NEW i \in 1..k, t[i].document = s.document PROVE FALSE
      OBVIOUS
    <3>1. i \in DOMAIN t /\ k + 1 \in DOMAIN t /\ i # k + 1
      BY <1>1, <2>1
    <3> QED BY <3>1 DEF OneEach
  <2> HIDE DEF a, c, s, Entries
  <2>6. CASE s.database = NoDatabase
    <3>1. c = a
      BY <2>4, <2>6 DEF Listing
    <3> QED BY <2>1, <2>2, <3>1 DEF c
  <2>7. CASE s.database # NoDatabase
    <3>1. c = Append(a, Entry(s))
      BY <2>4, <2>7 DEF Listing
    <3>2. /\ c \in Seq(Entries) /\ Len(c) = Len(a) + 1 /\ Len(a) \in Nat
          /\ \A i \in 1..Len(a) : c[i] = a[i]
          /\ c[Len(a) + 1] = Entry(s)
      BY <2>2, <2>3, <3>1, AppendProperties, LenProperties
    <3>3. \A j \in 1..Len(c) : j \in 1..Len(a) \/ j = Len(a) + 1
      BY <3>2
    <3>4. ASSUME NEW j \in 1..Len(c) PROVE \E i \in 1..(k + 1) : c[j].token = t[i].document
      <4>1. CASE j \in 1..Len(a)
        BY <2>1, <2>2, <3>2, <4>1
      <4>2. CASE j = Len(a) + 1
        <5>1. k + 1 \in 1..(k + 1)
          OBVIOUS
        <5> QED BY <2>3, <3>2, <4>2, <5>1 DEF s
      <4> QED BY <3>3, <4>1, <4>2
    <3>5. ASSUME NEW j \in 1..Len(c), NEW l \in 1..Len(c), c[j].token = c[l].token PROVE j = l
      <4>1. \A n \in 1..Len(a) : c[n].token # c[Len(a) + 1].token
        BY <2>2, <2>3, <2>5, <3>2
      <4> QED BY <2>2, <3>2, <3>3, <3>5, <4>1
    <3> QED BY <3>2, <3>4, <3>5 DEF c
  <2> QED BY <2>6, <2>7
<1> HIDE DEF T
<1>5. Nat \subseteq T
  BY <1>3, <1>4, Induction
<1>6. Done(Len(t))
  <2>1. Len(t) \in T /\ Len(t) <= Len(t)
    BY <1>1, <1>5
  <2> HIDE DEF Done
  <2> QED BY <2>1 DEF T
<1>7. DOMAIN Snapshot(h) = 1..Len(f[Len(t)])
  BY <1>2, <1>6, LenProperties
<1> HIDE DEF Entries
<1> QED BY <1>1, <1>2, <1>6, <1>7

\* An id that is found is the one listed for the token.
LEMMA KeptIdFacts ==
  ASSUME Named, NEW native
  PROVE  /\ \A i \in DOMAIN drawings :
              drawings[i].token = native.token => KeptId(native) = drawings[i].id
         /\ KeptId(native) = NoId <=> \A i \in DOMAIN drawings : drawings[i].token # native.token
         /\ KeptId(native) # NoId =>
              \E i \in DOMAIN drawings :
                drawings[i].token = native.token /\ drawings[i].id = KeptId(native)
<1> DEFINE known == {i \in DOMAIN drawings : drawings[i].token = native.token}
<1>1. KeptId(native) = IF known = {} THEN NoId ELSE drawings[CHOOSE i \in known : TRUE].id
  BY DEF KeptId
<1>2. CASE known = {}
  BY <1>1, <1>2
<1>3. CASE known # {}
  <2>1. PICK i \in known : KeptId(native) = drawings[i].id
    BY <1>1, <1>3
  <2>2. \A j \in known : j = i
    BY <2>1 DEF Named
  <2>3. KeptId(native) # NoId
    BY <2>1, RegistryAssumption DEF Named
  <2> QED BY <2>1, <2>2, <2>3
<1> QED BY <1>2, <1>3

\* replace_snapshot: a token keeps its id, and no other token is given it.
LEMMA ReplaceFacts ==
  ASSUME Named, NEW states, ReplaceSnapshot(states),
         \A j, k \in DOMAIN states : states[j].token = states[k].token => j = k
  PROVE  /\ Named'
         /\ DOMAIN drawings' = DOMAIN states
         /\ \A j \in DOMAIN states : drawings'[j].token = states[j].token
         /\ \A i \in DOMAIN drawings, j \in DOMAIN states :
              drawings[i].id = drawings'[j].id <=> drawings[i].token = states[j].token
<1> DEFINE N == {i \in DOMAIN states : KeptId(states[i]) = NoId}
           id(j) == drawings'[j].id
<1>1. PICK fresh \in [N -> Ids \ ReservedIds] :
        /\ \A i, j \in DOMAIN fresh : i # j => fresh[i] # fresh[j]
        /\ drawings' = [i \in DOMAIN states |->
             LET kept == KeptId(states[i])
             IN  [token |-> states[i].token, database |-> states[i].database,
                  id |-> IF kept = NoId THEN fresh[i] ELSE kept,
                  modified |-> states[i].modified, active |-> states[i].active]]
  BY DEF ReplaceSnapshot
<1>2. /\ DOMAIN drawings' = DOMAIN states
      /\ \A j \in DOMAIN states :
           /\ drawings'[j].token = states[j].token
           /\ id(j) = IF KeptId(states[j]) = NoId THEN fresh[j] ELSE KeptId(states[j])
  BY <1>1
<1> HIDE DEF id
<1>3. ASSUME NEW j \in DOMAIN states
      PROVE  /\ id(j) \in Ids
             /\ j \in N => id(j) = fresh[j] /\ id(j) \notin ReservedIds
             /\ j \notin N => \E i \in DOMAIN drawings :
                                drawings[i].token = states[j].token /\ drawings[i].id = id(j)
  <2>1. CASE j \in N
    BY <1>1, <1>2, <2>1
  <2>2. CASE j \notin N
    <3>1. KeptId(states[j]) # NoId /\ id(j) = KeptId(states[j])
      BY <1>2, <2>2
    <3>2. PICK i \in DOMAIN drawings :
            drawings[i].token = states[j].token /\ drawings[i].id = id(j)
      BY <3>1, KeptIdFacts
    <3> QED BY <2>2, <3>2 DEF Named
  <2> QED BY <2>1, <2>2
<1>4. ASSUME NEW i \in DOMAIN drawings, NEW j \in DOMAIN states
      PROVE  drawings[i].id = id(j) <=> drawings[i].token = states[j].token
  <2>1. CASE j \in N
    <3>1. drawings[i].token # states[j].token
      BY <2>1, KeptIdFacts
    <3>2. drawings[i].id \in ReservedIds
      BY DEF ReservedIds
    <3> QED BY <1>3, <2>1, <3>1, <3>2
  <2>2. CASE j \notin N
    <3>1. PICK m \in DOMAIN drawings :
            drawings[m].token = states[j].token /\ drawings[m].id = id(j)
      BY <1>3, <2>2
    <3> QED BY <3>1 DEF Named
  <2> QED BY <2>1, <2>2
<1>5. ASSUME NEW j \in DOMAIN states, NEW k \in DOMAIN states, id(j) = id(k)
      PROVE  j = k
  <2>1. CASE j \in N /\ k \in N
    BY <1>1, <1>3, <1>5, <2>1
  <2>2. CASE j \notin N
    <3>1. PICK i \in DOMAIN drawings :
            drawings[i].token = states[j].token /\ drawings[i].id = id(j)
      BY <1>3, <2>2
    <3>2. states[k].token = states[j].token
      BY <1>4, <1>5, <3>1
    <3> QED BY <3>2
  <2>3. CASE k \notin N
    <3>1. PICK i \in DOMAIN drawings :
            drawings[i].token = states[k].token /\ drawings[i].id = id(k)
      BY <1>3, <2>3
    <3>2. states[k].token = states[j].token
      BY <1>4, <1>5, <3>1
    <3> QED BY <3>2
  <2> QED BY <2>1, <2>2, <2>3
<1>6. Named'
  BY <1>2, <1>3, <1>5 DEF Named, id
<1> QED BY <1>2, <1>4, <1>6 DEF id

\* What a step does to the registry's list: it replaces it, or leaves it.  The
\* documents that are open are the same afterwards.
LEMMA StepLists ==
  ASSUME Inv, [Next]_vars
  PROVE  /\ \A d \in Documents : IsOpen(d) => document'[d].made = document[d].made
         /\ \/ ReplaceSnapshot(Snapshot(host'))
            \/ UNCHANGED drawings /\ \A d \in Documents : IsOpen(d) => IsOpen(d)'
<1> DEFINE G == /\ \A d \in Documents : IsOpen(d) => document'[d].made = document[d].made
                /\ \/ ReplaceSnapshot(Snapshot(host'))
                   \/ UNCHANGED drawings /\ \A d \in Documents : IsOpen(d) => IsOpen(d)'
<1>0. \A h, r : RefreshDocumentSnapshot(h, r) => ReplaceSnapshot(Snapshot(host'))
  BY DEF RefreshDocumentSnapshot, Publish
<1>1. ASSUME NEW d \in Documents, NEW r, DocumentToBeDestroyed(d, r) PROVE G
  <2>1. document' = [document EXCEPT ![d].state = "closing"] /\ ReplaceSnapshot(Snapshot(host'))
    BY <1>0, <1>1 DEF DocumentToBeDestroyed
  <2>2. \A e \in Documents : document'[e].made = document[e].made
    BY <2>1 DEF Inv, Typed
  <2> QED BY <2>1, <2>2
<1>2. ASSUME NEW d \in Documents, NEW b \in Databases, NEW r, DocumentCreated(d, b, r) PROVE G
  <2>1. /\ document[d].state = "none"
        /\ \A e \in Documents \ {d} : document'[e] = document[e]
        /\ ReplaceSnapshot(Snapshot(host'))
    BY <1>0, <1>2 DEF DocumentCreated, Inv, Typed
  <2> QED BY <2>1 DEF IsOpen
<1>3. ASSUME UNCHANGED document, ReplaceSnapshot(Snapshot(host')) PROVE G
  BY <1>3
<1>4. ASSUME UNCHANGED <<document, drawings>> PROVE G
  BY <1>4 DEF IsOpen
<1>5. ASSUME NEW r, Notification PROVE G
  <2>1. PICK p \in {"ok", "error", "duplicate"} :
          \/ \E d \in Documents, b \in Databases : DocumentCreated(d, b, p)
          \/ \E d \in Documents : DocumentActivated(d, p) \/ UserCloses(d, p)
          \/ \E b \in Databases : DatabaseToBeDestroyed(b, p) \/ UserSaves(b, p)
          \/ CommandEnded(p)
          \/ TitleUpdated(p)
    BY <1>5 DEF Notification
  <2> HIDE DEF G
  <2>2. ASSUME NEW d \in Documents, DocumentActivated(d, p) PROVE G
    BY <1>0, <1>3, <2>2 DEF DocumentActivated
  <2>3. ASSUME NEW d \in Documents, UserCloses(d, p) PROVE G
    BY <1>1, <2>3 DEF UserCloses
  <2>4. ASSUME NEW b \in Databases, DatabaseToBeDestroyed(b, p) PROVE G
    BY <1>4, <2>4 DEF DatabaseToBeDestroyed
  <2>5. ASSUME NEW b \in Databases, UserSaves(b, p) PROVE G
    BY <1>0, <1>3, <2>5 DEF UserSaves, Saved
  <2>6. CASE CommandEnded(p)
    BY <1>3, <1>4, <2>6 DEF CommandEnded, RefreshDocumentSnapshotIfStale, Publish, autocadVars
  <2>7. CASE TitleUpdated(p)
    BY <1>0, <1>3, <2>7 DEF TitleUpdated, autocadVars
  <2> QED BY <1>2, <2>1, <2>2, <2>3, <2>4, <2>5, <2>6, <2>7
<1>6. ASSUME DatabaseStep PROVE G
  <2>1. ASSUME NEW b \in Databases, DatabaseDies(b) \/ ReactorGoodbye(b) \/ Edited(b) PROVE G
    BY <1>4, <2>1 DEF DatabaseDies, ReactorGoodbye, Edited
  <2>2. ASSUME NEW b \in Databases, DatabaseFreed(b) PROVE G
    <3>1. PICK d \in Documents, other \in Databases \cup {NoDatabase} :
            document' = [document EXCEPT ![d].database = other]
      BY <2>2 DEF DatabaseFreed
    <3>2. UNCHANGED drawings
      BY <2>2 DEF DatabaseFreed
    <3>3. \A e \in Documents : /\ document'[e].made = document[e].made
                               /\ document'[e].state = document[e].state
      BY <3>1 DEF Inv, Typed
    <3> QED BY <3>2, <3>3 DEF IsOpen
  <2>3. ASSUME NEW d \in Documents, DocumentFreed(d) PROVE G
    <3>1. /\ document[d].state = "closing" /\ UNCHANGED drawings
          /\ document' = [document EXCEPT ![d].state = "none"]
      BY <2>3 DEF DocumentFreed
    <3>2. \A e \in Documents : /\ document'[e].made = document[e].made
                               /\ document[e].state = "open" => document'[e].state = "open"
      BY <3>1 DEF Inv, Typed
    <3> QED BY <3>1, <3>2 DEF IsOpen
  <2>4. ASSUME NEW d \in Documents, NEW b \in Databases, DatabaseAssigned(d, b) PROVE G
    <3>1. UNCHANGED drawings /\ document' = [document EXCEPT ![d].database = b]
      BY <2>4 DEF DatabaseAssigned
    <3>2. \A e \in Documents : /\ document'[e].made = document[e].made
                               /\ document'[e].state = document[e].state
      BY <3>1 DEF Inv, Typed
    <3> QED BY <3>1, <3>2 DEF IsOpen
  <2> HIDE DEF G
  <2> QED BY <1>6, <2>1, <2>2, <2>3, <2>4 DEF DatabaseStep
<1>7. ASSUME OperationStep PROVE G
  <2> HIDE DEF G
  <2>1. ASSUME NEW kind \in OperationKinds, NEW id \in Ids, Take(kind, id) PROVE G
    BY <1>4, <2>1 DEF Take, autocadVars
  <2>2. CASE CloseBegins
    BY <1>4, <2>2 DEF CloseBegins
  <2>3. ASSUME NEW r, NotDone(r) PROVE G
    BY <1>0, <1>3, <2>3 DEF NotDone, Complete, autocadVars
  <2>4. ASSUME NEW r, SwitchTo(r) PROVE G
    BY <1>0, <1>3, <2>4 DEF SwitchTo, Complete
  <2>5. ASSUME NEW r, Save(r) PROVE G
    BY <1>0, <1>3, <2>5 DEF Save, Saved
  <2>6. ASSUME NEW r, CloseTakes(r) PROVE G
    <3>1. Target \in Documents
      BY <2>6 DEF CloseTakes, Inv, Typed
    <3> QED BY <1>1, <2>6, <3>1 DEF CloseTakes
  <2>7. ASSUME NEW r, CloseReturns(r) PROVE G
    BY <1>0, <1>3, <2>7 DEF CloseReturns, Complete, autocadVars
  <2>8. ASSUME NEW r, CloseFails(r) PROVE G
    BY <1>0, <1>3, <2>8 DEF CloseFails, Complete
  <2> QED BY <1>7, <2>1, <2>2, <2>3, <2>4, <2>5, <2>6, <2>7, <2>8 DEF OperationStep
<1>8. ASSUME UNCHANGED vars PROVE G
  BY <1>4, <1>8 DEF vars, autocadVars
<1> HIDE DEF G
<1>9. G
  BY <1>5, <1>6, <1>7, <1>8 DEF Next
<1> QED BY <1>9 DEF G

\* A step from a state of the invariant keeps the names.
LEMMA StepKeepsNames ==
  ASSUME Inv, Registry', Named, ListedAreOpen, [Next]_vars
  PROVE  /\ Named' /\ ListedAreOpen'
         /\ \A i \in DOMAIN drawings, j \in DOMAIN drawings' :
              LET before == drawings[i] after == drawings'[j] IN
                (before.id = after.id) <=>
                /\ before.token = after.token
                /\ document[before.token].made = document'[after.token].made
<1>1. ASSUME NEW i \in DOMAIN drawings
      PROVE  document'[drawings[i].token].made = document[drawings[i].token].made
  BY StepLists DEF ListedAreOpen
<1>2. CASE ReplaceSnapshot(Snapshot(host'))
  <2> DEFINE states == Snapshot(host')
  <2>1. host' \in Hosts /\ OneEach(host') /\ OpenOnes(host', document')
    BY DEF Registry, Hosting
  <2>2. /\ \A j \in DOMAIN states :
             \E i \in DOMAIN host'.subscriptions :
               states[j].token = host'.subscriptions[i].document
        /\ \A j, k \in DOMAIN states : states[j].token = states[k].token => j = k
    BY <2>1, ListOnly
  <2> HIDE DEF states
  <2>3. /\ Named' /\ DOMAIN drawings' = DOMAIN states
        /\ \A j \in DOMAIN states : drawings'[j].token = states[j].token
        /\ \A i \in DOMAIN drawings, j \in DOMAIN states :
             drawings[i].id = drawings'[j].id <=> drawings[i].token = states[j].token
    BY <1>2, <2>2, ReplaceFacts DEF states
  <2>4. ASSUME NEW j \in DOMAIN states
        PROVE  states[j].token \in Documents /\ document'[states[j].token].state = "open"
    <3>1. PICK i \in DOMAIN host'.subscriptions :
            states[j].token = host'.subscriptions[i].document
      BY <2>2
    <3>2. host'.subscriptions[i] \in Subscriptions
      BY <2>1, HostDomain
    <3>3. states[j].token \in Documents
      BY <3>1, <3>2 DEF Subscriptions
    <3> QED BY <2>1, <3>1, <3>3 DEF OpenOnes, Subscribed
  <2>5. ListedAreOpen'
    BY <2>3, <2>4 DEF ListedAreOpen, IsOpen
  <2> QED BY <1>1, <2>3, <2>5
<1>3. CASE UNCHANGED drawings /\ \A d \in Documents : IsOpen(d) => IsOpen(d)'
  <2>1. Named' /\ ListedAreOpen'
    BY <1>3 DEF Named, ListedAreOpen
  <2> QED BY <1>1, <1>3, <2>1 DEF Named
<1> QED BY <1>2, <1>3, StepLists

\* A drawing keeps its id while it is listed, and no other drawing is given it,
\* not even one that AutoCAD puts at the same address.
THEOREM IdsAreKept == Spec => IdsFollowDocuments
<1> DEFINE A == \A i \in DOMAIN drawings, j \in DOMAIN drawings' :
                  LET before == drawings[i] after == drawings'[j] IN
                    (before.id = after.id) <=>
                    /\ before.token = after.token
                    /\ document[before.token].made = document'[after.token].made
<1>1. Init => Named /\ ListedAreOpen
  BY DEF Init, Named, ListedAreOpen
<1>2. Inv /\ Registry /\ Named /\ ListedAreOpen /\ [Next]_vars
        => Named' /\ ListedAreOpen' /\ [A]_vars
  BY NextKeepsRegistry, StepKeepsNames
<1>3. IdsFollowDocuments <=> [][A]_vars
  BY PTL DEF IdsFollowDocuments
<1> HIDE DEF A
<1> QED BY <1>1, <1>2, <1>3, Invariance, RegistryAlways, PTL DEF Spec
====
