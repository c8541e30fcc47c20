--------------------------- MODULE DrawingRegistry ---------------------------
(***************************************************************************)
(* Which drawings are open: AutoCAD's documents and their databases, the   *)
(* host's subscriptions to them (native/host.cpp), the plugin's registry   *)
(* of drawings with the ids clients use (drawing.rs), and the operations   *)
(* that switch to, save and close a drawing by its id (operation.rs).      *)
(*                                                                         *)
(* A document is known by its address, which a later document may get      *)
(* again; `document[d].made` counts the documents that had address d.      *)
(* A database is reloaded by destroying it and giving the document another *)
(* one: until that is done the document still returns the old one.  Every  *)
(* database has an address of its own.                                     *)
(*                                                                         *)
(* All of it runs on AutoCAD's main thread: an action is a notification,   *)
(* or a step between two calls into AutoCAD.                               *)
(***************************************************************************)
EXTENDS Naturals, Sequences, SequencesExt

CONSTANTS
  Documents,     \* addresses of documents
  Databases,     \* addresses of databases
  Ids,           \* what nanoid! draws from
  NoId, NoDatabase,
  MaxDocuments,  \* bound on the documents AutoCAD creates
  MaxEdits,      \* bound on the edits
  MaxRefusals    \* bound on the reactor calls AutoCAD refuses

ASSUME RegistryAssumption ==
  /\ NoDatabase \notin Databases /\ NoId \notin Ids
  /\ MaxDocuments \in Nat /\ MaxEdits \in Nat /\ MaxRefusals \in Nat

VARIABLES
  \* AutoCAD
  document,       \* by address: the open document, or what is left of it
  database,       \* by address: "free", "live" or "dying"
  told,           \* whom a dying database has told: "editor", "reactor"
  dbmod, unsaved, \* the modified mark, and whether there is unsaved work
  activeDocument,
  created, edits, refusals,
  \* the host
  host,           \* subscriptions, documentSnapshotStale_ and
                  \* databaseReactorOwnershipUncertain_
  \* the plugin
  drawings,       \* DrawingRegistry
  operation       \* the operation AutoCAD executes

autocadVars == <<document, database, told, dbmod, unsaved, activeDocument, created, edits>>
vars == <<autocadVars, refusals, host, drawings, operation>>

DocumentStates == {"none", "open", "closing"}
Reactors == {"none", "attached", "gone"}
Subscriptions ==
  [document : Documents, database : Databases \cup {NoDatabase},
   retired : Databases \cup {NoDatabase}, reactor : Reactors, changed : BOOLEAN]
Drawings ==
  [token : Documents, database : Databases, id : Ids, modified : BOOLEAN, active : BOOLEAN]
OperationKinds == {"Switch", "Save", "Close", "Discard"}
NoOperation == [phase |-> "none"]
DocumentTaken == [phase |-> "closed"]    \* a close whose document has gone

TypeOK ==
  /\ document \in [Documents -> [state : DocumentStates, made : 0..MaxDocuments,
                                 database : Databases \cup {NoDatabase}]]
  /\ database \in [Databases -> {"free", "live", "dying"}]
  /\ told \in [Databases -> SUBSET {"editor", "reactor"}]
  /\ dbmod \in [Databases -> BOOLEAN] /\ unsaved \in [Databases -> BOOLEAN]
  /\ activeDocument \subseteq Documents
  /\ created \in 0..MaxDocuments /\ edits \in 0..MaxEdits /\ refusals \in 0..MaxRefusals
  /\ host.subscriptions \in Seq(Subscriptions)
  /\ host.stale \in BOOLEAN /\ host.uncertain \in BOOLEAN
  /\ drawings \in Seq(Drawings)
  /\ \/ operation \in {NoOperation, DocumentTaken}
     \/ /\ operation.kind \in OperationKinds /\ operation.id \in Ids
        /\ operation.key \in Documents \X Databases
        /\ operation.phase \in {"native", "closing"}

Init ==
  /\ document = [d \in Documents |-> [state |-> "none", made |-> 0, database |-> NoDatabase]]
  /\ database = [b \in Databases |-> "free"]
  /\ told = [b \in Databases |-> {}]
  /\ dbmod = [b \in Databases |-> FALSE] /\ unsaved = [b \in Databases |-> FALSE]
  /\ activeDocument = {}
  /\ created = 0 /\ edits = 0 /\ refusals = 0
  /\ host = [subscriptions |-> <<>>, stale |-> FALSE, uncertain |-> FALSE]
  /\ drawings = <<>> /\ operation = NoOperation

(***************************************************************************)
(* The host's subscriptions.  `refusal` is AutoCAD's answer to addReactor  *)
(* and removeReactor: "ok", "error" or, to addReactor, "duplicate".  The   *)
(* operators work on the host h and on one of its subscriptions s, and     *)
(* give both as a pair.                                                    *)
(***************************************************************************)
Stale(h) == [h EXCEPT !.stale = TRUE]
StaleIf(h, condition) == [h EXCEPT !.stale = @ \/ condition]
Uncertain(h) == [h EXCEPT !.uncertain = TRUE]
Unobserved(s) == [s EXCEPT !.reactor = "none", !.changed = FALSE]

\* drainDatabaseChanges.
Drain(h) ==
  [h EXCEPT !.stale = @ \/ \E i \in DOMAIN h.subscriptions : h.subscriptions[i].changed,
            !.subscriptions = [i \in DOMAIN @ |-> [@[i] EXCEPT !.changed = FALSE]]]

DetachDatabaseReactor(h, s, refusal) ==
  IF s.reactor = "attached" /\ refusal = "error"
  THEN <<Uncertain(StaleIf(h, s.changed)), Unobserved(s)>>
  ELSE <<StaleIf(h, s.changed), Unobserved(s)>>

\* The reactor has heard that its database is gone.
RetireGone(h, s, refusal) ==
  IF s.reactor = "gone"
  THEN LET detached == DetachDatabaseReactor(h, s, refusal)
       IN  <<detached[1],
             [detached[2] EXCEPT !.database = NoDatabase, !.retired = s.database]>>
  ELSE <<h, s>>

\* The subscription follows its document to another database.
FollowDatabase(h, s, refusal) ==
  LET now == document'[s.document].database
      known == [s EXCEPT !.retired = NoDatabase]
      detached == DetachDatabaseReactor(h, known, refusal)
  IN  IF s.database # now
      THEN <<detached[1], [detached[2] EXCEPT !.database = now]>>
      ELSE <<h, known>>

AttachDatabaseReactor(h, s, refusal) ==
  CASE s.reactor # "none"                         -> <<h, s>>
    [] s.database = NoDatabase \/ h.uncertain     -> <<Stale(h), s>>
    [] OTHER ->
         CASE refusal = "ok"        -> <<h, [s EXCEPT !.reactor = "attached"]>>
           [] refusal = "duplicate" -> <<Uncertain(Stale(h)), s>>
           [] refusal = "error"     -> <<Stale(h), s>>

\* Mutant of RefreshSubscription: a retired database is not remembered.
RefreshSubscriptionAnew(h, s, refusal) ==
  LET known == RetireGone(h, s, refusal)
      followed == FollowDatabase(known[1], known[2], refusal)
  IN  AttachDatabaseReactor(followed[1], followed[2], refusal)

RefreshSubscription(h, s, refusal) ==
  LET known == RetireGone(h, s, refusal)
      followed == FollowDatabase(known[1], known[2], refusal)
      now == document'[s.document].database
  IN  IF now # NoDatabase /\ now = known[2].retired
      THEN <<Stale(known[1]), known[2]>>
      ELSE AttachDatabaseReactor(followed[1], followed[2], refusal)

\* publishDocumentSnapshot refreshes each subscription in turn ...
RefreshSubscriptions(h, refusal) ==
  LET Next1(acc, s) ==
        LET refreshed == RefreshSubscription(acc, s, refusal)
        IN  [refreshed[1] EXCEPT !.subscriptions = Append(@, refreshed[2])]
  IN  FoldLeft(Next1, [h EXCEPT !.subscriptions = <<>>], h.subscriptions)

\* ... and sends what it then sees of those that have a database.
Snapshot(h) ==
  LET List(states, s) ==
        IF s.database = NoDatabase THEN states
        ELSE Append(states, [token |-> s.document, database |-> s.database,
                             modified |-> dbmod'[s.database],
                             active |-> s.document \in activeDocument'])
  IN  FoldLeft(List, <<>>, h.subscriptions)

(***************************************************************************)
(* DrawingRegistry::replace_snapshot.                                      *)
(***************************************************************************)
\* Mutant of KeptId: a drawing is recognised by its database.
KeptIdOfDatabase(native) ==
  LET known == {i \in DOMAIN drawings : drawings[i].database = native.database}
  IN  IF known = {} THEN NoId ELSE drawings[CHOOSE i \in known : TRUE].id

\* take_drawing_id.
KeptId(native) ==
  LET known == {i \in DOMAIN drawings : drawings[i].token = native.token}
  IN  IF known = {} THEN NoId ELSE drawings[CHOOSE i \in known : TRUE].id

ReservedIds == {drawings[i].id : i \in DOMAIN drawings}

\* new_drawing_id draws until it finds an id that no drawing had before.
ReplaceSnapshot(states) ==
  \E fresh \in [{i \in DOMAIN states : KeptId(states[i]) = NoId} -> Ids \ ReservedIds] :
    /\ \A i, j \in DOMAIN fresh : i # j => fresh[i] # fresh[j]
    /\ drawings' = [i \in DOMAIN states |->
         LET kept == KeptId(states[i])
         IN  [token |-> states[i].token, database |-> states[i].database,
              id |-> IF kept = NoId THEN fresh[i] ELSE kept,
              modified |-> states[i].modified, active |-> states[i].active]]

FindById(id) == {i \in DOMAIN drawings : drawings[i].id = id}

(***************************************************************************)
(* Refreshing.                                                             *)
(***************************************************************************)
Refuses(refusal) ==
  /\ refusal \in {"ok", "error", "duplicate"}
  /\ refusals' = refusals + (IF refusal = "ok" THEN 0 ELSE 1)
  /\ refusals' <= MaxRefusals

Publish(h, refusal) ==
  /\ host' = RefreshSubscriptions(h, refusal)
  /\ ReplaceSnapshot(Snapshot(host'))

\* Mutant of RefreshDocumentSnapshot: what publishing finds is forgotten.
RefreshThenFresh(h, refusal) ==
  LET published == RefreshSubscriptions(Drain(h), refusal)
  IN  /\ host' = [published EXCEPT !.stale = FALSE]
      /\ ReplaceSnapshot(Snapshot(host'))

RefreshDocumentSnapshot(h, refusal) == Publish([Drain(h) EXCEPT !.stale = FALSE], refusal)

RefreshDocumentSnapshotIfStale(h, refusal) ==
  IF Drain(h).stale
  THEN Publish([Drain(h) EXCEPT !.stale = FALSE], refusal)
  ELSE host' = Drain(h) /\ UNCHANGED drawings

Subscribed(h, d) == \E i \in DOMAIN h.subscriptions : h.subscriptions[i].document = d

NewSubscription(d) ==
  [document |-> d, database |-> NoDatabase, retired |-> NoDatabase, reactor |-> "none",
   changed |-> FALSE]

\* What subscribe refreshes, the refresh that follows it does too.
Subscribe(h, d) ==
  IF Subscribed(h, d) THEN h
  ELSE [h EXCEPT !.subscriptions = Append(@, NewSubscription(d))]

Unsubscribe(h, d, refusal) ==
  LET mine == CHOOSE i \in DOMAIN h.subscriptions : h.subscriptions[i].document = d
  IN  IF ~Subscribed(h, d) THEN h
      ELSE [DetachDatabaseReactor(h, h.subscriptions[mine], refusal)[1] EXCEPT
              !.subscriptions = RemoveAt(@, mine)]

\* databaseWillBeDestroyed.
RetireDatabase(h, b, refusal) ==
  LET Retire(acc, s) ==
        LET detached == DetachDatabaseReactor(acc, s, refusal)
        IN  IF s.database # b THEN [acc EXCEPT !.subscriptions = Append(@, s)]
            ELSE [Stale(detached[1]) EXCEPT !.subscriptions =
                    Append(@, [detached[2] EXCEPT !.database = NoDatabase, !.retired = b])]
  IN  FoldLeft(Retire, [h EXCEPT !.subscriptions = <<>>], h.subscriptions)

(***************************************************************************)
(* AutoCAD, and what the reactors do about it.                             *)
(***************************************************************************)
IsOpen(d) == document[d].state = "open"

\* documentCreated.
DocumentCreated(d, b, refusal) ==
  /\ created < MaxDocuments /\ document[d].state = "none" /\ database[b] = "free"
  /\ created' = created + 1
  /\ document' = [document EXCEPT ![d] =
                    [state |-> "open", made |-> @.made + 1, database |-> b]]
  /\ database' = [database EXCEPT ![b] = "live"]
  /\ dbmod' = [dbmod EXCEPT ![b] = FALSE] /\ unsaved' = [unsaved EXCEPT ![b] = FALSE]
  /\ Refuses(refusal)
  /\ activeDocument' = activeDocument
  /\ RefreshDocumentSnapshot(Subscribe(host, d), refusal)
  /\ UNCHANGED <<told, edits, operation>>

\* documentActivated and documentBecameCurrent.
DocumentActivated(d, refusal) ==
  /\ IsOpen(d) /\ activeDocument # {d}
  /\ activeDocument' = {d}
  /\ UNCHANGED <<document, database, told, dbmod, unsaved, created, edits, operation>>
  /\ Refuses(refusal)
  /\ RefreshDocumentSnapshot(host, refusal)

\* documentToBeDestroyed: the document and its database are still there.
DocumentToBeDestroyed(d, refusal) ==
  /\ IsOpen(d)
  /\ document' = [document EXCEPT ![d].state = "closing"]
  /\ activeDocument' = activeDocument \ {d}
  /\ UNCHANGED <<database, told, dbmod, unsaved, created, edits>>
  /\ Refuses(refusal)
  /\ RefreshDocumentSnapshot(Unsubscribe(host, d, refusal), refusal)

\* A user closes a drawing; unsaved work is the user's affair.
UserCloses(d, refusal) ==
  /\ operation = NoOperation
  /\ DocumentToBeDestroyed(d, refusal)
  /\ UNCHANGED operation

\* Assumed of AutoCAD: it gives no document a database and destroys it again
\* before any notification has made the host look at the document.
Noticed(b) ==
  \A d \in Documents :
    document[d].database = b /\ Subscribed(host, d) =>
      \E i \in DOMAIN host.subscriptions : host.subscriptions[i].database = b

\* A database goes: with its document, or because the drawing is reloaded.
DatabaseDies(b) ==
  /\ database[b] = "live" /\ Noticed(b)
  /\ operation = NoOperation \/ \E d \in Documents : document[d].database = b /\ ~IsOpen(d)
  /\ database' = [database EXCEPT ![b] = "dying"]
  /\ UNCHANGED <<document, told, dbmod, unsaved, activeDocument, created, edits, refusals,
                 host, drawings, operation>>

Observes(s, b) == s.database = b /\ s.reactor = "attached"

\* goodbye, to the reactor that is attached.
ReactorGoodbye(b) ==
  /\ database[b] = "dying" /\ "reactor" \notin told[b]
  /\ told' = [told EXCEPT ![b] = @ \cup {"reactor"}]
  /\ host' = [host EXCEPT !.subscriptions =
                [i \in DOMAIN @ |-> IF Observes(@[i], b)
                                    THEN [@[i] EXCEPT !.reactor = "gone", !.changed = TRUE]
                                    ELSE @[i]]]
  /\ UNCHANGED <<document, database, dbmod, unsaved, activeDocument, created, edits, refusals,
                 drawings, operation>>

\* databaseToBeDestroyed, to the editor's reactor.
DatabaseToBeDestroyed(b, refusal) ==
  /\ database[b] = "dying" /\ "editor" \notin told[b]
  /\ told' = [told EXCEPT ![b] = @ \cup {"editor"}]
  /\ Refuses(refusal)
  /\ host' = RetireDatabase(host, b, refusal)
  /\ UNCHANGED <<document, database, dbmod, unsaved, activeDocument, created, edits, drawings,
                 operation>>

\* The database is freed; its document has another one, or none yet.
DatabaseFreed(b) ==
  /\ database[b] = "dying" /\ told[b] = {"editor", "reactor"}
  /\ told' = [told EXCEPT ![b] = {}]
  /\ \E d \in Documents : \E other \in Databases \cup {NoDatabase} :
       /\ document[d].database = b
       /\ other # NoDatabase => database[other] = "free" /\ document[d].state = "open"
       /\ document' = [document EXCEPT ![d].database = other]
       /\ database' = [c \in Databases |-> IF c = b THEN "free"
                                           ELSE IF c = other THEN "live" ELSE database[c]]
       /\ dbmod' = [c \in Databases |-> IF c = other THEN FALSE ELSE dbmod[c]]
       /\ unsaved' = [c \in Databases |-> IF c = other THEN FALSE ELSE unsaved[c]]
  /\ UNCHANGED <<activeDocument, created, edits, refusals, host, drawings, operation>>

\* A document that is closing goes after its database.
DocumentFreed(d) ==
  /\ document[d].state = "closing" /\ document[d].database = NoDatabase
  /\ document' = [document EXCEPT ![d].state = "none"]
  /\ UNCHANGED <<database, told, dbmod, unsaved, activeDocument, created, edits, refusals,
                 host, drawings, operation>>

\* A reload comes to its end.
DatabaseAssigned(d, b) ==
  /\ IsOpen(d) /\ document[d].database = NoDatabase /\ database[b] = "free"
  /\ document' = [document EXCEPT ![d].database = b]
  /\ database' = [database EXCEPT ![b] = "live"]
  /\ dbmod' = [dbmod EXCEPT ![b] = FALSE] /\ unsaved' = [unsaved EXCEPT ![b] = FALSE]
  /\ UNCHANGED <<told, activeDocument, created, edits, refusals, host, drawings, operation>>

\* An edit, which a DatabaseReactor hears of where one is attached.
Edited(b) ==
  /\ database[b] = "live" /\ edits < MaxEdits /\ operation = NoOperation
  /\ edits' = edits + 1
  /\ dbmod' = [dbmod EXCEPT ![b] = TRUE] /\ unsaved' = [unsaved EXCEPT ![b] = TRUE]
  /\ host' = [host EXCEPT !.subscriptions =
                [i \in DOMAIN @ |-> IF Observes(@[i], b) THEN [@[i] EXCEPT !.changed = TRUE]
                                    ELSE @[i]]]
  /\ UNCHANGED <<document, database, told, activeDocument, created, refusals, drawings,
                 operation>>

\* commandEnded, commandCancelled, commandFailed, lispEnded, lispCancelled.
CommandEnded(refusal) ==
  /\ UNCHANGED <<autocadVars, operation>>
  /\ Refuses(refusal)
  /\ RefreshDocumentSnapshotIfStale(host, refusal)

\* documentTitleUpdated, abortSave, and the drawing's format being changed.
TitleUpdated(refusal) ==
  /\ UNCHANGED <<autocadVars, operation>>
  /\ Refuses(refusal)
  /\ RefreshDocumentSnapshot(host, refusal)

\* saveComplete.
Saved(b, refusal) ==
  /\ database[b] = "live"
  /\ dbmod' = [dbmod EXCEPT ![b] = FALSE] /\ unsaved' = [unsaved EXCEPT ![b] = FALSE]
  /\ UNCHANGED <<document, database, told, activeDocument, created, edits>>
  /\ Refuses(refusal)
  /\ RefreshDocumentSnapshot(host, refusal)

UserSaves(b, refusal) == operation = NoOperation /\ Saved(b, refusal) /\ UNCHANGED operation

(***************************************************************************)
(* Operations by id.                                                       *)
(***************************************************************************)
Key(i) == <<drawings[i].token, drawings[i].database>>

\* processNextAction takes the operation: Operation::prepare looks its drawing
\* up, and answers a close of a drawing that is listed as modified at once.
Take(kind, id) ==
  /\ operation = NoOperation
  /\ \A b \in Databases : database[b] # "dying"    \* it does not run inside a destruction
  /\ \E i \in FindById(id), key \in Documents \X Databases :
       /\ key = Key(i)
       /\ kind = "Close" => ~drawings[i].modified
       /\ operation' = [phase |-> "native", kind |-> kind, id |-> id, key |-> key]
  /\ host' = Drain(host)
  /\ UNCHANGED <<autocadVars, refusals, drawings>>

\* document(token) and matchesDatabase, right after that.
Target == operation.key[1]
TargetDatabase == operation.key[2]
TargetMatches ==
  /\ Subscribed(host, Target)
  /\ document[Target].database = TargetDatabase

\* processNextAction ends: it refreshes and completes the operation.
Complete(h, refusal) ==
  /\ operation' = NoOperation
  /\ RefreshDocumentSnapshot(h, refusal)

\* Gone, of another generation, busy, refused by AutoCAD, or modified since.
NotDone(refusal) ==
  /\ operation.phase = "native"
  /\ UNCHANGED autocadVars
  /\ Refuses(refusal)
  /\ Complete(host, refusal)

\* activateDocument notifies before it returns.
SwitchTo(refusal) ==
  /\ operation.phase = "native" /\ operation.kind = "Switch" /\ TargetMatches
  /\ activeDocument' = {Target}
  /\ UNCHANGED <<document, database, told, dbmod, unsaved, created, edits>>
  /\ Refuses(refusal)
  /\ Complete(host, refusal)

\* So does saveAs.
Save(refusal) ==
  /\ operation.phase = "native" /\ operation.kind = "Save" /\ TargetMatches
  /\ Saved(TargetDatabase, refusal)
  /\ operation' = NoOperation

\* Mutant of MayClose: what the registry says of the drawing is enough.
MayCloseAsListed == TRUE

\* close asks AutoCAD again whether the drawing is modified.
MayClose == operation.kind = "Discard" \/ ~dbmod[TargetDatabase]

\* appContextCloseDocument, with the drawing unmarked where its changes are
\* discarded: AutoCAD closes it ...
CloseBegins ==
  /\ operation.phase = "native" /\ operation.kind \in {"Close", "Discard"} /\ TargetMatches
  /\ MayClose
  /\ operation' = [phase |-> "closing", kind |-> operation.kind, id |-> operation.id,
                   key |-> operation.key, dbmod |-> dbmod[TargetDatabase]]
  /\ dbmod' = [dbmod EXCEPT ![TargetDatabase] =
                 IF operation.kind = "Discard" THEN FALSE ELSE @]
  /\ UNCHANGED <<document, database, told, unsaved, activeDocument, created, edits, refusals,
                 host, drawings>>

CloseTakes(refusal) ==
  /\ operation.phase = "closing"
  /\ DocumentToBeDestroyed(Target, refusal)
  /\ operation' = DocumentTaken

CloseReturns(refusal) ==
  /\ operation = DocumentTaken
  /\ UNCHANGED autocadVars
  /\ Refuses(refusal)
  /\ Complete(host, refusal)

\* ... or does not, and the mark is put back.
CloseFails(refusal) ==
  /\ operation.phase = "closing"
  /\ dbmod' = [dbmod EXCEPT ![TargetDatabase] =
                 IF operation.kind = "Discard" THEN operation.dbmod ELSE @]
  /\ UNCHANGED <<document, database, told, unsaved, activeDocument, created, edits>>
  /\ Refuses(refusal)
  /\ Complete(host, refusal)

OperationStep ==
  \/ \E kind \in OperationKinds, id \in Ids : Take(kind, id)
  \/ CloseBegins
  \/ \E r \in {"ok", "error", "duplicate"} :
       NotDone(r) \/ SwitchTo(r) \/ Save(r) \/ CloseTakes(r) \/ CloseReturns(r)
       \/ CloseFails(r)

Notification ==
  \E r \in {"ok", "error", "duplicate"} :
    \/ \E d \in Documents, b \in Databases : DocumentCreated(d, b, r)
    \/ \E d \in Documents : DocumentActivated(d, r) \/ UserCloses(d, r)
    \/ \E b \in Databases : DatabaseToBeDestroyed(b, r) \/ UserSaves(b, r)
    \/ CommandEnded(r)
    \/ TitleUpdated(r)

DatabaseStep ==
  \/ \E b \in Databases : DatabaseDies(b) \/ ReactorGoodbye(b) \/ DatabaseFreed(b) \/ Edited(b)
  \/ \E d \in Documents : DocumentFreed(d) \/ \E b \in Databases : DatabaseAssigned(d, b)

\* Nothing comes between taking an operation and calling AutoCAD.
Next ==
  \/ OperationStep
  \/ operation.phase # "native" /\ (Notification \/ DatabaseStep)

Spec == Init /\ [][Next]_vars

\* Addresses and ids are interchangeable.
Symmetry == Permutations(Documents) \cup Permutations(Databases) \cup Permutations(Ids)

(***************************************************************************)
(* Properties.                                                             *)
(***************************************************************************)
\* Whatever the snapshots come to list, and however documents are reloaded
\* and addresses used again, a drawing that stays listed keeps its id, and no
\* other drawing gets it.
IdsFollowDocuments ==
  [][\A i \in DOMAIN drawings, j \in DOMAIN drawings' :
       LET before == drawings[i] after == drawings'[j] IN
         (before.id = after.id) <=>
         /\ before.token = after.token
         /\ document[before.token].made = document'[after.token].made]_vars

\* The host holds on to no document that is being destroyed, and would take
\* its reactor off no database but the one its document has: what it
\* dereferences is there.
HostHoldsLiveObjects ==
  \A i \in DOMAIN host.subscriptions :
    LET s == host.subscriptions[i] IN
      /\ IsOpen(s.document)
      /\ s.reactor = "attached" => s.database = document[s.document].database

Listed(d) ==
  \E i \in DOMAIN drawings :
    /\ drawings[i].token = d /\ drawings[i].database = document[d].database
    /\ drawings[i].modified = dbmod[document[d].database]
    /\ drawings[i].active = (d \in activeDocument)

\* An open drawing is listed as it is, or the end of the next command will
\* list it: no change is ever missed, whatever AutoCAD refuses to observe.
ChangesAreNoticed ==
  operation.phase # "closing" =>
    \A d \in Documents :
      IsOpen(d) /\ document[d].database # NoDatabase /\ database[document[d].database] = "live"
      => \/ Listed(d) \/ host.stale
         \/ \E i \in DOMAIN host.subscriptions : host.subscriptions[i].changed

\* A close that does not discard never closes a drawing with unsaved work,
\* though the registry it is checked against lags behind, and though a close
\* that was to discard it may have failed before.
UnsavedWorkSurvives ==
  [][\A d \in Documents :
       operation.phase = "closing" /\ operation.kind = "Close" /\ d = Target /\ IsOpen(d)
         /\ document'[d].state # "open"
       => ~unsaved[document[d].database]]_vars
=============================================================================
