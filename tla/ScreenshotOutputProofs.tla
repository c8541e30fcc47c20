------------------------ MODULE ScreenshotOutputProofs ------------------------
(***************************************************************************)
(* However many processes take screenshots, and whatever fails, a name of  *)
(* a picture holds a whole picture, staging files are their makers', and a *)
(* printed path keeps its picture.                                         *)
(*                                                                         *)
(* The third rests on the clock: between the inspection of an old picture  *)
(* and its removal another process may remove it too, and what must not    *)
(* happen is that a third one publishes under its name meanwhile.  Names   *)
(* carry the time of their process, and a process that could take so old a *)
(* name is no longer at work (Timely, CleansOldPictures).                 *)
(***************************************************************************)
EXTENDS ScreenshotOutput, TLAPS

ManagedName(name) == \E t \in Nat, o \in Nat : name = GeneratedName("Managed", t, o)
PictureNames == {ExactName} \cup {GeneratedName(d, t, o) : d \in {"Managed", "Directory"},
                                                           t \in Nat, o \in Nat}

ProcessStates ==
  [stage : Stages, destination : Destinations, now : Nat, listed : SUBSET PictureNames,
   cleans : PictureNames \cup {None}, staged : PictureNames \cup {None},
   removeOnDrop : BOOLEAN, ordinal : Nat, path : PictureNames \cup {None},
   answer : {"none", "Ok", "Error"}]
FileStates ==
  [content : {"none", "partial", "whole", "lost"}, synced : BOOLEAN, modified : Nat]

Typed ==
  /\ clock \in Nat
  /\ proc \in [Processes -> ProcessStates]
  /\ files \in [Processes -> FileStates]
  /\ DOMAIN published \subseteq PictureNames
  /\ \A p \in Processes : \A name \in proc[p].listed : ManagedName(name)

\* The stages before a process has a file, and before it has published it.
WithoutFile == {"Idle", "Preparing", "Removing"}
Unpublished == WithoutFile \cup {"Writing", "Syncing", "Publishing"}

\* A process that will still use, or remove, its staging name.
Owns(q) == \/ q.stage \in {"Writing", "Syncing", "Publishing", "Removed"}
           \/ q.stage = "Dropping" /\ q.removeOnDrop

Owned ==
  /\ \A p \in Processes :
       Owns(proc[p]) => proc[p].staged \in DOMAIN staging /\ staging[proc[p].staged] = p
  /\ \A name \in DOMAIN staging :
       /\ staging[name] \in Processes
       /\ proc[staging[name]].staged = name
       /\ proc[staging[name]].stage \notin WithoutFile
       /\ proc[staging[name]].stage # "Killed" => proc[staging[name]].removeOnDrop

\* What is published is on the disk, and is not written any more.
Whole ==
  /\ \A p \in Processes :
       /\ proc[p].stage \in {"Syncing", "Publishing", "Removed"} => files[p].content = "whole"
       /\ proc[p].stage \in {"Publishing", "Removed"} => files[p].synced
  /\ \A name \in DOMAIN published :
       /\ published[name] \in Processes
       /\ files[published[name]].content = "whole" /\ files[published[name]].synced
       /\ proc[published[name]].stage \notin Unpublished

\* A process at work is in the unit of time it started in or in the next;
\* a file is not older than the time in its name.
Timely ==
  /\ \A p \in Processes :
       /\ proc[p].now <= clock
       /\ AtWork(p) => clock <= proc[p].now + 1
       /\ proc[p].stage \in {"Writing", "Syncing", "Publishing"} => proc[p].now <= files[p].modified
  /\ \A name \in DOMAIN published : \A t \in Nat, o \in Nat :
       name = GeneratedName("Managed", t, o) => t <= files[published[name]].modified

\* What a cleanup is about to remove has an old name, and is old.
CleansOldPictures ==
  \A p \in Processes :
    proc[p].stage = "Removing" =>
      /\ \E t \in Nat, o \in Nat : /\ proc[p].cleans = GeneratedName("Managed", t, o)
                                   /\ proc[p].now > t + Retention
      /\ proc[p].cleans \in DOMAIN published =>
           proc[p].now > files[published[proc[p].cleans]].modified + Retention

\* A link that was made is there, or may be gone.
Kept ==
  \A p \in Processes :
    /\ proc[p].answer = "Ok" => proc[p].stage \in {"Dropping", "Ended", "Killed"}
    /\ proc[p].stage = "Removed" \/ proc[p].answer = "Ok" =>
         \/ proc[p].path \in DOMAIN published /\ published[proc[p].path] = p
         \/ proc[p].path[1] = "Managed" /\ clock > files[p].modified + Retention
         \/ powerLost

\* The inductive invariant.
Inv == Typed /\ Owned /\ Whole /\ Timely /\ CleansOldPictures /\ Kept

-----------------------------------------------------------------------------
LEMMA NamesTyped ==
  /\ \A d \in {"Managed", "Directory"}, t \in Nat, o \in Nat :
       GeneratedName(d, t, o) \in PictureNames
  /\ ExactName \in PictureNames
  /\ \A name : ManagedName(name) => name \in PictureNames /\ name[1] = "Managed"
  BY DEF PictureNames, ManagedName, GeneratedName

\* Only generated names begin like this.
LEMMA ManagedByName ==
  ASSUME NEW name \in PictureNames, name[1] = "Managed"
  PROVE  ManagedName(name)
<1>1. ExactName[1] = "Exact"
  BY DEF ExactName
<1>2. ASSUME NEW d \in {"Managed", "Directory"}, NEW t \in Nat, NEW o \in Nat,
             name = GeneratedName(d, t, o)
      PROVE  ManagedName(name)
  <2>1. name[1] = d
    BY <1>2 DEF GeneratedName
  <2> QED BY <1>2, <2>1 DEF ManagedName
<1> QED BY <1>1, <1>2 DEF PictureNames

LEMMA SameName ==
  ASSUME NEW d, NEW t, NEW o, NEW e, NEW u, NEW n, GeneratedName(d, t, o) = GeneratedName(e, u, n)
  PROVE  d = e /\ t = u /\ o = n
<1> DEFINE a == GeneratedName(d, t, o)
           b == GeneratedName(e, u, n)
<1>1. a[1] = d /\ a[2] = t /\ a[3] = o /\ b[1] = e /\ b[2] = u /\ b[3] = n
  BY DEF GeneratedName
<1> QED BY <1>1

LEMMA IdleTyped == IdleProcess \in ProcessStates
  BY DEF IdleProcess, ProcessStates, Stages, Destinations, None

LEMMA OverIs ==
  ASSUME NEW q \in ProcessStates, NEW s \in Stages
  PROVE  /\ Over(q, s) \in ProcessStates
         /\ Over(q, s).stage = s /\ Over(q, s).now = 0 /\ Over(q, s).listed = {}
         /\ Over(q, s).staged = q.staged /\ Over(q, s).removeOnDrop = q.removeOnDrop
         /\ Over(q, s).answer = q.answer
         /\ q.answer = "Ok" => Over(q, s).path = q.path
  BY IdleTyped DEF Over, IdleProcess, ProcessStates, None

LEMMA FailsWithIs ==
  ASSUME NEW q \in ProcessStates
  PROVE  /\ FailsWith(q) \in ProcessStates
         /\ FailsWith(q).stage = IF q.stage \in WithoutFile THEN "Ended" ELSE "Dropping"
         /\ FailsWith(q).now \in {0, q.now} /\ FailsWith(q).listed \subseteq q.listed
         /\ q.stage \notin WithoutFile => FailsWith(q).now = q.now
         /\ FailsWith(q).staged = q.staged /\ FailsWith(q).removeOnDrop = q.removeOnDrop
         /\ FailsWith(q).answer = "Error"
<1> DEFINE e == [q EXCEPT !.answer = "Error"]
<1>1. e \in ProcessStates /\ e.staged = q.staged /\ e.removeOnDrop = q.removeOnDrop
      /\ e.answer = "Error"
  BY DEF ProcessStates
<1>2. CASE q.stage \in WithoutFile
  <2>1. FailsWith(q) = Over(e, "Ended")
    BY <1>2 DEF FailsWith, WithoutFile
  <2>2. "Ended" \in Stages
    BY DEF Stages
  <2> HIDE DEF e
  <2>3. /\ Over(e, "Ended") \in ProcessStates
        /\ Over(e, "Ended").stage = "Ended" /\ Over(e, "Ended").now = 0
        /\ Over(e, "Ended").listed = {} /\ Over(e, "Ended").staged = e.staged
        /\ Over(e, "Ended").removeOnDrop = e.removeOnDrop /\ Over(e, "Ended").answer = e.answer
    BY <1>1, <2>2, OverIs
  <2> QED BY <1>1, <1>2, <2>1, <2>3
<1>3. CASE q.stage \notin WithoutFile
  <2>1. FailsWith(q) = [q EXCEPT !.answer = "Error", !.stage = "Dropping"]
    BY <1>3 DEF FailsWith, WithoutFile
  <2> QED BY <1>3, <2>1 DEF ProcessStates, Stages
<1> QED BY <1>2, <1>3

\* A step of one process.
LEMMA OneProcess ==
  ASSUME Typed, NEW p \in Processes, NEW q \in ProcessStates, proc' = [proc EXCEPT ![p] = q]
  PROVE  /\ proc' \in [Processes -> ProcessStates]
         /\ proc'[p] = q
         /\ \A x \in Processes : x # p => proc'[x] = proc[x]
  BY DEF Typed

LEMMA InitInv == Init => Inv
<1> SUFFICES ASSUME Init PROVE Inv
  OBVIOUS
<1>1. Typed
  <2>1. NoFile \in FileStates
    BY DEF NoFile, FileStates
  <2>2. IdleProcess.listed = {}
    BY DEF IdleProcess
  <2> QED BY <2>1, <2>2, IdleTyped DEF Init, Typed
<1>2. \A p \in Processes : /\ proc[p].stage = "Idle" /\ proc[p].now = 0 /\ proc[p].answer = "none"
  BY DEF Init, IdleProcess
<1>3. DOMAIN staging = {} /\ DOMAIN published = {} /\ clock = 0
  BY DEF Init
<1>4. Owned /\ Whole /\ Timely /\ CleansOldPictures /\ Kept
  BY <1>2, <1>3 DEF Owned, Owns, Whole, Timely, AtWork, CleansOldPictures, Kept
<1> QED BY <1>1, <1>4 DEF Inv

-----------------------------------------------------------------------------
LEMMA FailureKeepsInv ==
  ASSUME Inv, NEW p \in Processes, NEW q \in ProcessStates,
         q.stage = proc[p].stage,
         q.stage \in {"Idle", "Preparing", "Removing", "Writing", "Syncing", "Publishing"},
         q.listed \subseteq proc[p].listed, q.staged = proc[p].staged,
         q.removeOnDrop = proc[p].removeOnDrop, q.now \in {clock, proc[p].now},
         q.stage \notin WithoutFile => q.now = proc[p].now,
         proc' = [proc EXCEPT ![p] = FailsWith(q)],
         UNCHANGED <<disk, clock, powerLost>>
  PROVE  Inv'
<1> DEFINE f == FailsWith(q)
<1>1. /\ f \in ProcessStates /\ f.answer = "Error" /\ f.staged = proc[p].staged
      /\ f.removeOnDrop = proc[p].removeOnDrop /\ f.listed \subseteq proc[p].listed
      /\ f.stage = IF proc[p].stage \in WithoutFile THEN "Ended" ELSE "Dropping"
      /\ f.now \in {0, clock, proc[p].now}
      /\ proc[p].stage \notin WithoutFile => f.now = proc[p].now
  BY FailsWithIs
<1>2. /\ proc' \in [Processes -> ProcessStates] /\ proc'[p] = f
      /\ \A x \in Processes : x # p => proc'[x] = proc[x]
  BY <1>1, OneProcess DEF Inv
<1> HIDE DEF f
<1> USE <1>1, <1>2 DEF Inv, disk
<1>3. Typed'
  BY DEF Typed
<1>4. Owned'
  BY DEF Owned, Owns, WithoutFile
<1>5. Whole'
  BY DEF Whole, Unpublished, WithoutFile
<1>6. Timely'
  BY DEF Timely, AtWork, WithoutFile, Typed, ProcessStates
<1>7. CleansOldPictures'
  BY DEF CleansOldPictures
<1>8. Kept'
  BY DEF Kept
<1> QED BY <1>3, <1>4, <1>5, <1>6, <1>7, <1>8

\* A name that is taken is tried again with the next ordinal.
LEMMA AnotherOrdinalKeepsInv ==
  ASSUME Inv, NEW p \in Processes, proc' = [proc EXCEPT ![p].ordinal = @ + 1],
         UNCHANGED <<disk, clock, powerLost>>
  PROVE  Inv'
<1>1. proc' \in [Processes -> ProcessStates]
  BY DEF Inv, Typed, ProcessStates
<1>2. \A x \in Processes :
        /\ proc'[x].stage = proc[x].stage /\ proc'[x].now = proc[x].now
        /\ proc'[x].listed = proc[x].listed /\ proc'[x].cleans = proc[x].cleans
        /\ proc'[x].staged = proc[x].staged /\ proc'[x].removeOnDrop = proc[x].removeOnDrop
        /\ proc'[x].path = proc[x].path /\ proc'[x].answer = proc[x].answer
  BY DEF Inv, Typed, ProcessStates
<1> USE <1>1, <1>2 DEF Inv, disk
<1>3. Typed'
  BY DEF Typed
<1>4. Owned'
  BY DEF Owned, Owns
<1>5. Whole'
  BY DEF Whole
<1>6. Timely'
  BY DEF Timely, AtWork
<1>7. CleansOldPictures'
  BY DEF CleansOldPictures
<1>8. Kept'
  BY DEF Kept
<1> QED BY <1>3, <1>4, <1>5, <1>6, <1>7, <1>8

-----------------------------------------------------------------------------
LEMMA StartKeepsInv ==
  ASSUME Inv, NEW p \in Processes, NEW destination \in Destinations, Start(p, destination)
  PROVE  Inv'
<1> DEFINE q == [proc[p] EXCEPT !.destination = destination, !.now = clock]
<1>1. /\ q \in ProcessStates /\ q.stage = "Idle" /\ q.listed = proc[p].listed /\ q.now = clock
      /\ q.staged = proc[p].staged /\ q.removeOnDrop = proc[p].removeOnDrop
      /\ q.answer = proc[p].answer /\ proc[p].stage = "Idle"
  BY DEF Inv, Typed, ProcessStates, Start
<1>2. UNCHANGED <<files, staging, published, clock, powerLost>>
  BY DEF Start, disk, environment
<1>3. CASE proc' = [proc EXCEPT ![p] = FailsWith(q)]
  <2> HIDE DEF q
  <2> QED BY <1>1, <1>2, <1>3, FailureKeepsInv DEF disk, WithoutFile
<1>4. ASSUME NEW r \in ProcessStates, proc' = [proc EXCEPT ![p] = r], r.stage = "Preparing",
             r.now = clock, r.staged = proc[p].staged, r.answer = proc[p].answer,
             \A name \in r.listed : ManagedName(name)
      PROVE  Inv'
  <2> HIDE DEF q
  <2>1. /\ proc' \in [Processes -> ProcessStates] /\ proc'[p] = r
        /\ \A x \in Processes : x # p => proc'[x] = proc[x]
    BY <1>4, OneProcess DEF Inv
  <2> USE <1>1, <1>2, <1>4, <2>1 DEF Inv
  <2>2. Typed'
    BY DEF Typed
  <2>3. Owned'
    BY DEF Owned, Owns, WithoutFile
  <2>4. Whole'
    BY DEF Whole, Unpublished, WithoutFile
  <2>5. Timely'
    BY DEF Timely, AtWork, Typed
  <2>6. CleansOldPictures'
    BY DEF CleansOldPictures
  <2>7. Kept'
    BY DEF Kept
  <2> QED BY <2>2, <2>3, <2>4, <2>5, <2>6, <2>7
<1>5. \A name \in ManagedNames : ManagedName(name)
  BY ManagedByName DEF ManagedNames, Inv, Typed
<1>6. ManagedNames \subseteq PictureNames
  BY DEF ManagedNames, Inv, Typed
<1>7. CASE proc' = [proc EXCEPT ![p] = [q EXCEPT !.stage = "Preparing"]]
  <2> DEFINE r == [q EXCEPT !.stage = "Preparing"]
  <2>1. /\ r \in ProcessStates /\ r.stage = "Preparing" /\ r.now = clock /\ r.staged = q.staged
        /\ r.answer = q.answer /\ r.listed = q.listed
    BY <1>1 DEF ProcessStates, Stages
  <2>2. \A name \in proc[p].listed : ManagedName(name)
    BY DEF Inv, Typed
  <2> HIDE DEF q, r
  <2> QED BY <1>1, <1>4, <1>7, <2>1, <2>2 DEF r
<1>8. CASE proc' = [proc EXCEPT ![p] = [q EXCEPT !.stage = "Preparing", !.listed = ManagedNames]]
  <2> DEFINE r == [q EXCEPT !.stage = "Preparing", !.listed = ManagedNames]
  <2>1. /\ r \in ProcessStates /\ r.stage = "Preparing" /\ r.now = clock /\ r.staged = q.staged
        /\ r.answer = q.answer /\ r.listed = ManagedNames
    BY <1>1, <1>6 DEF ProcessStates, Stages
  <2> HIDE DEF q, r
  <2> QED BY <1>1, <1>4, <1>5, <1>8, <2>1 DEF r
<1> QED BY <1>3, <1>7, <1>8 DEF Start, Destinations

LEMMA InspectKeepsInv ==
  ASSUME Inv, NEW p \in Processes, InspectManaged(p)
  PROVE  Inv'
<1>1. PICK name \in proc[p].listed :
        CASE name \notin DOMAIN published -> Fails(p)
          [] name \in DOMAIN published ->
               /\ proc' = [proc EXCEPT ![p].listed = @ \ {name},
                                       ![p].cleans = IF IsExpired(p, name) THEN name ELSE None,
                                       ![p].stage = IF IsExpired(p, name) THEN "Removing" ELSE @]
               /\ UNCHANGED disk
  BY DEF InspectManaged
<1>2. proc[p].stage = "Preparing" /\ UNCHANGED <<clock, powerLost>> /\ proc[p] \in ProcessStates
  BY DEF InspectManaged, environment, Inv, Typed
<1>3. CASE Fails(p)
  BY <1>2, <1>3, FailureKeepsInv DEF Fails, WithoutFile, disk, Inv, Typed
<1>4. CASE ~Fails(p)
  <2> DEFINE r == [proc[p] EXCEPT !.listed = @ \ {name},
                                  !.cleans = IF IsExpired(p, name) THEN name ELSE None,
                                  !.stage = IF IsExpired(p, name) THEN "Removing" ELSE @]
  <2>1. proc' = [proc EXCEPT ![p] = r] /\ UNCHANGED disk /\ name \in DOMAIN published
    BY <1>1, <1>4 DEF Inv, Typed
  <2>2. name \in PictureNames /\ ManagedName(name)
    BY NamesTyped DEF Inv, Typed
  <2>3. /\ r \in ProcessStates /\ r.now = proc[p].now /\ r.staged = proc[p].staged
        /\ r.answer = proc[p].answer /\ r.listed \subseteq proc[p].listed
        /\ r.stage = IF IsExpired(p, name) THEN "Removing" ELSE "Preparing"
        /\ IsExpired(p, name) => r.cleans = name
    BY <1>2, <2>2 DEF ProcessStates, Stages
  <2> HIDE DEF r
  <2>4. /\ proc' \in [Processes -> ProcessStates] /\ proc'[p] = r
        /\ \A x \in Processes : x # p => proc'[x] = proc[x]
    BY <2>1, <2>3, OneProcess DEF Inv
  <2> USE <1>2, <2>1, <2>3, <2>4 DEF Inv, disk
  <2>5. Typed'
    BY DEF Typed
  <2>6. Owned'
    BY DEF Owned, Owns, WithoutFile
  <2>7. Whole'
    BY DEF Whole, Unpublished, WithoutFile
  <2>8. Timely'
    BY DEF Timely, AtWork, Typed
  <2>9. CleansOldPictures'
    <3>1. ASSUME IsExpired(p, name)
          PROVE  /\ r.now > files[published[name]].modified + Retention
                 /\ \E t \in Nat, o \in Nat : /\ name = GeneratedName("Managed", t, o)
                                              /\ r.now > t + Retention
      <4>1. r.now > files[published[name]].modified + Retention
        BY <3>1 DEF IsExpired
      <4>2. PICK t \in Nat, o \in Nat : name = GeneratedName("Managed", t, o)
        BY <2>2 DEF ManagedName
      <4>3. t <= files[published[name]].modified
        BY <4>2 DEF Timely
      <4>4. files[published[name]].modified \in Nat /\ r.now \in Nat
        BY DEF Typed, Whole, FileStates, ProcessStates
      <4> QED BY <4>1, <4>2, <4>3, <4>4, OutputAssumption
    <3> QED BY <3>1 DEF CleansOldPictures
  <2>10. Kept'
    BY DEF Kept
  <2> QED BY <2>5, <2>6, <2>7, <2>8, <2>9, <2>10
<1> QED BY <1>3, <1>4
LEMMA RemoveExpiredKeepsInv ==
  ASSUME Inv, NEW p \in Processes, RemoveExpired(p)
  PROVE  Inv'
<1>1. proc[p].stage = "Removing" /\ UNCHANGED <<clock, powerLost>> /\ proc[p] \in ProcessStates
  BY DEF RemoveExpired, environment, Inv, Typed
<1>2. CASE Fails(p)
  BY <1>1, <1>2, FailureKeepsInv DEF Fails, WithoutFile, disk, Inv, Typed
<1>3. CASE ~Fails(p)
  <2> DEFINE c == proc[p].cleans
             r == [proc[p] EXCEPT !.stage = "Preparing", !.cleans = None]
  <2>1. /\ c \in DOMAIN published /\ published' = Without(published, c)
        /\ proc' = [proc EXCEPT ![p] = r] /\ UNCHANGED <<files, staging>>
    BY <1>3 DEF RemoveExpired, Inv, Typed
  <2>2. /\ r \in ProcessStates /\ r.now = proc[p].now /\ r.staged = proc[p].staged
        /\ r.answer = proc[p].answer /\ r.listed = proc[p].listed /\ r.stage = "Preparing"
    BY <1>1 DEF ProcessStates, Stages
  <2>3. /\ DOMAIN published' = DOMAIN published \ {c}
        /\ \A n \in DOMAIN published' : published'[n] = published[n]
    BY <2>1 DEF Without, Restrict
  <2>4. /\ proc[p].now > files[published[c]].modified + Retention
        /\ c[1] = "Managed"
    BY <1>1, <2>1, NamesTyped DEF Inv, CleansOldPictures, ManagedName
  <2>5. \A x \in Processes : files[x].modified \in Nat
    BY DEF Inv, Typed, FileStates
  <2> HIDE DEF r, c
  <2>6. /\ proc' \in [Processes -> ProcessStates] /\ proc'[p] = r
        /\ \A x \in Processes : x # p => proc'[x] = proc[x]
    BY <2>1, <2>2, OneProcess DEF Inv
  <2> USE <1>1, <2>1, <2>2, <2>3, <2>6 DEF Inv
  <2>7. Typed'
    BY DEF Typed
  <2>8. Owned'
    BY DEF Owned, Owns, WithoutFile
  <2>9. Whole'
    BY DEF Whole, Unpublished, WithoutFile
  <2>10. Timely'
    BY DEF Timely, AtWork, Typed
  <2>11. CleansOldPictures'
    BY DEF CleansOldPictures
  <2>12. Kept'
    <3>1. ASSUME NEW x \in Processes, published[c] = x
          PROVE  clock > files[x].modified + Retention
      <4>1. proc[p].now <= clock /\ proc[p].now \in Nat /\ clock \in Nat
        BY DEF Timely, Typed, ProcessStates
      <4> QED BY <2>4, <2>5, <3>1, <4>1, OutputAssumption
    <3> QED BY <2>4, <3>1 DEF Kept
  <2> QED BY <2>7, <2>8, <2>9, <2>10, <2>11, <2>12
<1> QED BY <1>2, <1>3

LEMMA CreateKeepsInv ==
  ASSUME Inv, NEW p \in Processes, CreateStaged(p)
  PROVE  Inv'
<1> DEFINE name == GeneratedName(DirectoryOf(proc[p]), proc[p].now, proc[p].ordinal)
<1>1. /\ proc[p].stage = "Preparing" /\ UNCHANGED <<clock, published, powerLost>>
      /\ proc[p] \in ProcessStates
  BY DEF CreateStaged, environment, disk, Inv, Typed
<1>2. name \in PictureNames
  BY <1>1, NamesTyped DEF DirectoryOf, ProcessStates
<1> HIDE DEF name
<1>3. CASE MayCreate(staging, name)
  <2> DEFINE r == [proc[p] EXCEPT !.stage = "Writing", !.staged = name, !.removeOnDrop = TRUE,
                                  !.ordinal = 1]
  <2>1. /\ name \notin DOMAIN staging /\ staging' = With(staging, name, p)
        /\ files' = [files EXCEPT ![p].content = "partial", ![p].modified = clock]
        /\ proc' = [proc EXCEPT ![p] = r]
    BY <1>3 DEF CreateStaged, MayCreate, Inv, Typed, name
  <2>2. /\ r \in ProcessStates /\ r.now = proc[p].now /\ r.staged = name /\ r.removeOnDrop
        /\ r.answer = proc[p].answer /\ r.listed = proc[p].listed /\ r.stage = "Writing"
    BY <1>1, <1>2 DEF ProcessStates, Stages
  <2>3. /\ DOMAIN staging' = DOMAIN staging \cup {name}
        /\ staging'[name] = p
        /\ \A n \in DOMAIN staging : staging'[n] = staging[n]
    BY <2>1 DEF With
  <2>4. /\ files' \in [Processes -> FileStates]
        /\ files'[p].modified = clock
        /\ \A x \in Processes : x # p => files'[x] = files[x]
    BY <2>1 DEF Inv, Typed, FileStates
  <2> HIDE DEF r
  <2>5. /\ proc' \in [Processes -> ProcessStates] /\ proc'[p] = r
        /\ \A x \in Processes : x # p => proc'[x] = proc[x]
    BY <2>1, <2>2, OneProcess DEF Inv
  <2> USE <1>1, <2>2, <2>3, <2>4, <2>5 DEF Inv
  <2>6. Typed'
    BY DEF Typed
  <2>7. Owned'
    BY <2>1 DEF Owned, Owns, WithoutFile
  <2>8. Whole'
    BY DEF Whole, Unpublished, WithoutFile
  <2>9. Timely'
    BY DEF Timely, AtWork, Typed, Whole, Unpublished, WithoutFile
  <2>10. CleansOldPictures'
    BY DEF CleansOldPictures, Whole, Unpublished, WithoutFile
  <2>11. Kept'
    BY DEF Kept
  <2> QED BY <2>6, <2>7, <2>8, <2>9, <2>10, <2>11
<1>4. CASE ~MayCreate(staging, name)
  <2>1. proc' = [proc EXCEPT ![p].ordinal = @ + 1] /\ UNCHANGED disk
    BY <1>4 DEF CreateStaged, name
  <2> QED BY <1>1, <2>1, AnotherOrdinalKeepsInv
<1> QED BY <1>3, <1>4

LEMMA WriteKeepsInv ==
  ASSUME Inv, NEW p \in Processes, WriteStaged(p)
  PROVE  Inv'
<1> DEFINE r == [proc[p] EXCEPT !.stage = "Syncing"]
<1>1. /\ proc[p].stage = "Writing" /\ UNCHANGED <<clock, staging, published, powerLost>>
      /\ proc[p] \in ProcessStates /\ proc' = [proc EXCEPT ![p] = r]
      /\ files' = [files EXCEPT ![p].content = "whole", ![p].modified = clock]
  BY DEF WriteStaged, Goes, environment, Inv, Typed
<1>2. /\ r \in ProcessStates /\ r.now = proc[p].now /\ r.staged = proc[p].staged
      /\ r.answer = proc[p].answer /\ r.listed = proc[p].listed /\ r.stage = "Syncing"
      /\ r.removeOnDrop = proc[p].removeOnDrop
  BY <1>1 DEF ProcessStates, Stages
<1>3. /\ files' \in [Processes -> FileStates]
      /\ files'[p].modified = clock /\ files'[p].content = "whole"
      /\ \A x \in Processes : x # p => files'[x] = files[x]
  BY <1>1 DEF Inv, Typed, FileStates
<1> HIDE DEF r
<1>4. /\ proc' \in [Processes -> ProcessStates] /\ proc'[p] = r
      /\ \A x \in Processes : x # p => proc'[x] = proc[x]
  BY <1>1, <1>2, OneProcess DEF Inv
<1> USE <1>1, <1>2, <1>3, <1>4 DEF Inv
<1>5. Typed'
  BY DEF Typed
<1>6. Owned'
  BY DEF Owned, Owns, WithoutFile
<1>7. Whole'
  BY DEF Whole, Unpublished, WithoutFile
<1>8. Timely'
  BY DEF Timely, AtWork, Typed, Whole, Unpublished
<1>9. CleansOldPictures'
  BY DEF CleansOldPictures, Whole, Unpublished
<1>10. Kept'
  BY DEF Kept
<1> QED BY <1>5, <1>6, <1>7, <1>8, <1>9, <1>10

LEMMA SyncKeepsInv ==
  ASSUME Inv, NEW p \in Processes, SyncStaged(p)
  PROVE  Inv'
<1> DEFINE r == [proc[p] EXCEPT !.stage = "Publishing"]
<1>1. /\ proc[p].stage = "Syncing" /\ UNCHANGED <<clock, staging, published, powerLost>>
      /\ proc[p] \in ProcessStates /\ proc' = [proc EXCEPT ![p] = r]
      /\ files' = [files EXCEPT ![p].synced = TRUE]
  BY DEF SyncStaged, Goes, environment, Inv, Typed
<1>2. /\ r \in ProcessStates /\ r.now = proc[p].now /\ r.staged = proc[p].staged
      /\ r.answer = proc[p].answer /\ r.listed = proc[p].listed /\ r.stage = "Publishing"
      /\ r.removeOnDrop = proc[p].removeOnDrop
  BY <1>1 DEF ProcessStates, Stages
<1>3. /\ files' \in [Processes -> FileStates] /\ files'[p].synced
      /\ \A x \in Processes : /\ x # p => files'[x] = files[x]
                              /\ files'[x].content = files[x].content
                              /\ files'[x].modified = files[x].modified
  BY <1>1 DEF Inv, Typed, FileStates
<1> HIDE DEF r
<1>4. /\ proc' \in [Processes -> ProcessStates] /\ proc'[p] = r
      /\ \A x \in Processes : x # p => proc'[x] = proc[x]
  BY <1>1, <1>2, OneProcess DEF Inv
<1> USE <1>1, <1>2, <1>3, <1>4 DEF Inv
<1>5. Typed'
  BY DEF Typed
<1>6. Owned'
  BY DEF Owned, Owns, WithoutFile
<1>7. Whole'
  BY DEF Whole, Unpublished, WithoutFile
<1>8. Timely'
  BY DEF Timely, AtWork, Whole
<1>9. CleansOldPictures'
  BY DEF CleansOldPictures, Whole
<1>10. Kept'
  BY DEF Kept
<1> QED BY <1>5, <1>6, <1>7, <1>8, <1>9, <1>10

LEMMA PublishKeepsInv ==
  ASSUME Inv, NEW p \in Processes, Publish(p)
  PROVE  Inv'
<1> DEFINE path == PathOf(proc[p])
<1>1. /\ proc[p].stage = "Publishing" /\ UNCHANGED <<clock, powerLost>>
      /\ proc[p] \in ProcessStates
  BY DEF Publish, environment, Inv, Typed
<1>2. path \in PictureNames
  BY <1>1, NamesTyped DEF PathOf, ProcessStates, Destinations
<1>3. \A t \in Nat, o \in Nat : path = GeneratedName("Managed", t, o) => t = proc[p].now
  <2> SUFFICES ASSUME NEW t \in Nat, NEW o \in Nat, path = GeneratedName("Managed", t, o)
               PROVE  t = proc[p].now
    OBVIOUS
  <2>1. path # ExactName
    BY DEF ExactName, GeneratedName
  <2> QED BY <2>1, SameName DEF PathOf
<1> HIDE DEF path
<1>4. CASE Fails(p)
  BY <1>1, <1>4, FailureKeepsInv DEF Fails, WithoutFile, disk, Inv, Typed
<1>5. CASE proc' = [proc EXCEPT ![p].ordinal = @ + 1] /\ UNCHANGED disk
  BY <1>1, <1>5, AnotherOrdinalKeepsInv
<1>6. CASE /\ MayLink(path)
           /\ published' = With(published, path, staging[proc[p].staged])
           /\ proc' = [proc EXCEPT ![p].stage = "Removed", ![p].path = path]
           /\ UNCHANGED <<files, staging>>
  <2> DEFINE r == [proc[p] EXCEPT !.stage = "Removed", !.path = path]
  <2>1. proc' = [proc EXCEPT ![p] = r]
    BY <1>6 DEF Inv, Typed
  <2>2. /\ r \in ProcessStates /\ r.now = proc[p].now /\ r.staged = proc[p].staged
        /\ r.answer = proc[p].answer /\ r.listed = proc[p].listed /\ r.stage = "Removed"
        /\ r.removeOnDrop = proc[p].removeOnDrop /\ r.path = path
    BY <1>1, <1>2 DEF ProcessStates, Stages
  <2>3. staging[proc[p].staged] = p
    BY <1>1 DEF Inv, Owned, Owns
  <2>4. /\ path \notin DOMAIN published
        /\ DOMAIN published' = DOMAIN published \cup {path}
        /\ published'[path] = p
        /\ \A n \in DOMAIN published : published'[n] = published[n]
    BY <1>6, <2>3 DEF MayLink, MayCreate, With
  <2>5. UNCHANGED <<files, staging>>
    BY <1>6
  <2> HIDE DEF r
  <2>6. /\ proc' \in [Processes -> ProcessStates] /\ proc'[p] = r
        /\ \A x \in Processes : x # p => proc'[x] = proc[x]
    BY <2>1, <2>2, OneProcess DEF Inv
  <2> USE <1>1, <2>2, <2>4, <2>5, <2>6 DEF Inv
  <2>7. Typed'
    BY <1>2 DEF Typed
  <2>8. Owned'
    BY DEF Owned, Owns, WithoutFile
  <2>9. Whole'
    BY DEF Whole, Unpublished, WithoutFile
  <2>10. Timely'
    <3>1. proc[p].now <= files[p].modified
      BY DEF Timely
    <3>2. \A n \in DOMAIN published', t \in Nat, o \in Nat :
            n = GeneratedName("Managed", t, o) => t <= files[published'[n]].modified
      BY <1>3, <3>1 DEF Timely
    <3>3. \A x \in Processes :
            /\ proc'[x].now <= clock
            /\ proc'[x].stage \notin {"Idle", "Ended", "Killed"} => clock <= proc'[x].now + 1
            /\ proc'[x].stage \in {"Writing", "Syncing", "Publishing"} =>
                 proc'[x].now <= files[x].modified
      BY DEF Timely, AtWork
    <3> QED BY <3>2, <3>3 DEF Timely, AtWork
  <2>11. CleansOldPictures'
    <3>1. ASSUME NEW x \in Processes, proc[x].stage = "Removing" PROVE proc[x].cleans # path
      <4>1. PICK t \in Nat, o \in Nat : /\ proc[x].cleans = GeneratedName("Managed", t, o)
                                        /\ proc[x].now > t + Retention
        BY <3>1 DEF CleansOldPictures
      <4>2. SUFFICES ASSUME proc[x].cleans = path PROVE FALSE
        OBVIOUS
      <4>3. t = proc[p].now
        BY <1>3, <4>1, <4>2
      <4>4. clock <= proc[p].now + 1 /\ proc[x].now <= clock
        BY DEF Timely, AtWork
      <4>5. clock \in Nat /\ proc[p].now \in Nat /\ proc[x].now \in Nat
        BY DEF Typed, ProcessStates
      <4> QED BY <4>1, <4>3, <4>4, <4>5, OutputAssumption
    <3> QED BY <3>1 DEF CleansOldPictures
  <2>12. Kept'
    BY DEF Kept
  <2> QED BY <2>7, <2>8, <2>9, <2>10, <2>11, <2>12
<1> QED BY <1>4, <1>5, <1>6 DEF Publish, path

\* The staging name is taken from the directory, or cannot be.
LEMMA StagingRemoved ==
  ASSUME Inv, NEW p \in Processes, Owns(proc[p]), NEW removed \in BOOLEAN,
         staging' = IF removed THEN Without(staging, proc[p].staged) ELSE staging
  PROVE  /\ \A n \in DOMAIN staging' : n \in DOMAIN staging /\ staging'[n] = staging[n]
         /\ removed => \A n \in DOMAIN staging' : staging'[n] # p
         /\ \A x \in Processes :
              (x # p \/ ~removed) /\ Owns(proc[x]) =>
                proc[x].staged \in DOMAIN staging' /\ staging'[proc[x].staged] = x
<1>1. \A n \in DOMAIN staging : staging[n] = p => proc[p].staged = n
  BY DEF Inv, Owned
<1>2. \A x \in Processes :
        Owns(proc[x]) => proc[x].staged \in DOMAIN staging /\ staging[proc[x].staged] = x
  BY DEF Inv, Owned
<1>3. CASE removed
  <2>1. /\ DOMAIN staging' = DOMAIN staging \ {proc[p].staged}
        /\ \A n \in DOMAIN staging' : staging'[n] = staging[n]
    BY <1>3 DEF Without, Restrict
  <2> QED BY <1>1, <1>2, <1>3, <2>1
<1>4. CASE ~removed
  BY <1>2, <1>4
<1> QED BY <1>3, <1>4

LEMMA OwnedAfterRemoval ==
  ASSUME Owned, NEW p \in Processes,
         \A x \in Processes : x # p => proc'[x] = proc[x],
         \A n \in DOMAIN staging' : n \in DOMAIN staging /\ staging'[n] = staging[n],
         \A x \in Processes : x # p /\ Owns(proc[x]) =>
           proc[x].staged \in DOMAIN staging' /\ staging'[proc[x].staged] = x,
         Owns(proc'[p]) => proc'[p].staged \in DOMAIN staging' /\ staging'[proc'[p].staged] = p,
         \A n \in DOMAIN staging' : staging'[n] = p =>
           /\ proc'[p].staged = n /\ proc'[p].stage \notin WithoutFile
           /\ proc'[p].stage # "Killed" => proc'[p].removeOnDrop
  PROVE  Owned'
<1>1. \A x \in Processes :
        Owns(proc'[x]) => proc'[x].staged \in DOMAIN staging' /\ staging'[proc'[x].staged] = x
  OBVIOUS
<1>2. ASSUME NEW n \in DOMAIN staging'
      PROVE  /\ staging'[n] \in Processes
             /\ proc'[staging'[n]].staged = n
             /\ proc'[staging'[n]].stage \notin WithoutFile
             /\ proc'[staging'[n]].stage # "Killed" => proc'[staging'[n]].removeOnDrop
  <2>1. CASE staging'[n] = p
    BY <2>1
  <2>2. CASE staging'[n] # p
    BY <2>2 DEF Owned
  <2> QED BY <2>1, <2>2
<1> QED BY <1>1, <1>2 DEF Owned, Owns

LEMMA RemoveKeepsInv ==
  ASSUME Inv, NEW p \in Processes, RemoveStaged(p)
  PROVE  Inv'
<1>1. PICK removed \in BOOLEAN :
        /\ staging' = IF removed THEN Without(staging, proc[p].staged) ELSE staging
        /\ proc' = [proc EXCEPT ![p].stage = "Dropping", ![p].answer = "Ok",
                                ![p].removeOnDrop = RemovesOnDrop(removed)]
  BY DEF RemoveStaged
<1>2. /\ proc[p].stage = "Removed" /\ UNCHANGED <<clock, files, published, powerLost>>
      /\ proc[p] \in ProcessStates /\ Owns(proc[p])
  BY DEF RemoveStaged, Inv, Typed, Owns
<1> DEFINE r == [proc[p] EXCEPT !.stage = "Dropping", !.answer = "Ok", !.removeOnDrop = ~removed]
<1>3. proc' = [proc EXCEPT ![p] = r]
  BY <1>1 DEF Inv, Typed, RemovesOnDrop
<1>4. /\ r \in ProcessStates /\ r.now = proc[p].now /\ r.staged = proc[p].staged
      /\ r.answer = "Ok" /\ r.listed = proc[p].listed /\ r.stage = "Dropping"
      /\ r.removeOnDrop = ~removed /\ r.path = proc[p].path
  BY <1>2 DEF ProcessStates, Stages
<1> HIDE DEF r
<1>5. (r.removeOnDrop => ~removed) /\ (~removed => r.removeOnDrop)
  BY <1>4, Zenon
<1>6. /\ proc' \in [Processes -> ProcessStates] /\ proc'[p] = r
      /\ \A x \in Processes : x # p => proc'[x] = proc[x]
  BY <1>3, <1>4, OneProcess DEF Inv
<1>7. /\ \A n \in DOMAIN staging' : n \in DOMAIN staging /\ staging'[n] = staging[n]
      /\ removed => \A n \in DOMAIN staging' : staging'[n] # p
      /\ \A x \in Processes :
           (x # p \/ ~removed) /\ Owns(proc[x]) =>
             proc[x].staged \in DOMAIN staging' /\ staging'[proc[x].staged] = x
  BY <1>1, <1>2, StagingRemoved
<1> USE <1>2, <1>4, <1>5, <1>6, <1>7 DEF Inv
<1>8. Typed'
  BY DEF Typed
<1>9. Owned'
  <2>1. Owns(proc'[p]) =>
          proc'[p].staged \in DOMAIN staging' /\ staging'[proc'[p].staged] = p
    BY DEF Owns
  <2>2. \A n \in DOMAIN staging' : staging'[n] = p =>
          /\ proc'[p].staged = n /\ proc'[p].stage \notin WithoutFile
          /\ proc'[p].stage # "Killed" => proc'[p].removeOnDrop
    BY DEF Owned, WithoutFile
  <2> QED BY <2>1, <2>2, OwnedAfterRemoval
<1>10. Whole'
  BY DEF Whole, Unpublished, WithoutFile
<1>11. Timely'
  BY DEF Timely, AtWork
<1>12. CleansOldPictures'
  BY DEF CleansOldPictures
<1>13. Kept'
  BY DEF Kept
<1> QED BY <1>8, <1>9, <1>10, <1>11, <1>12, <1>13

LEMMA DropKeepsInv ==
  ASSUME Inv, NEW p \in Processes, DropStaged(p)
  PROVE  Inv'
<1>1. PICK removed \in BOOLEAN :
        /\ removed => proc[p].removeOnDrop
        /\ staging' = IF removed THEN Without(staging, proc[p].staged) ELSE staging
        /\ proc' = [proc EXCEPT ![p] = Drop(@, removed)]
  BY DEF DropStaged
<1>2. /\ proc[p].stage = "Dropping" /\ UNCHANGED <<clock, files, published, powerLost>>
      /\ proc[p] \in ProcessStates
  BY DEF DropStaged, Inv, Typed
<1> DEFINE q == [proc[p] EXCEPT !.removeOnDrop = @ /\ ~removed]
           r == Over(q, "Ended")
<1>3. proc' = [proc EXCEPT ![p] = r]
  BY <1>1 DEF Drop
<1>4. /\ q.staged = proc[p].staged /\ q.answer = proc[p].answer /\ q.path = proc[p].path
      /\ q.removeOnDrop = (proc[p].removeOnDrop /\ ~removed)
  BY <1>2 DEF ProcessStates
<1>5. q \in ProcessStates
  <2>1. (proc[p].removeOnDrop /\ ~removed) \in BOOLEAN
    BY Zenon
  <2> QED BY <1>2, <2>1 DEF ProcessStates
<1>6. "Ended" \in Stages
  BY DEF Stages
<1> HIDE DEF q
<1>7. /\ r \in ProcessStates /\ r.now = 0 /\ r.staged = proc[p].staged
      /\ r.answer = proc[p].answer /\ r.listed = {} /\ r.stage = "Ended"
      /\ r.answer = "Ok" => r.path = proc[p].path
  BY <1>4, <1>5, <1>6, OverIs
<1>8. r.removeOnDrop = (proc[p].removeOnDrop /\ ~removed)
  BY <1>4, <1>5, <1>6, OverIs
<1> HIDE DEF r
<1>9. r.removeOnDrop => proc[p].removeOnDrop /\ ~removed
  BY <1>8, Zenon
<1>10. proc[p].removeOnDrop /\ ~removed => r.removeOnDrop
  BY <1>8, Zenon
<1>11. /\ proc' \in [Processes -> ProcessStates] /\ proc'[p] = r
       /\ \A x \in Processes : x # p => proc'[x] = proc[x]
  BY <1>3, <1>7, OneProcess DEF Inv
<1>12. /\ \A n \in DOMAIN staging' : n \in DOMAIN staging /\ staging'[n] = staging[n]
       /\ removed => \A n \in DOMAIN staging' : staging'[n] # p
       /\ \A x \in Processes :
            x # p /\ Owns(proc[x]) =>
              proc[x].staged \in DOMAIN staging' /\ staging'[proc[x].staged] = x
  <2>1. CASE Owns(proc[p])
    <3>1. /\ \A n \in DOMAIN staging' : n \in DOMAIN staging /\ staging'[n] = staging[n]
          /\ removed => \A n \in DOMAIN staging' : staging'[n] # p
          /\ \A x \in Processes :
               (x # p \/ ~removed) /\ Owns(proc[x]) =>
                 proc[x].staged \in DOMAIN staging' /\ staging'[proc[x].staged] = x
      BY <1>1, <2>1, StagingRemoved
    <3> QED BY <3>1, Zenon
  <2>2. CASE ~Owns(proc[p])
    BY <1>1, <1>2, <2>2 DEF Inv, Owned, Owns
  <2> QED BY <2>1, <2>2
<1>13. ASSUME NEW n \in DOMAIN staging', staging'[n] = p
       PROVE  r.staged = n /\ r.stage = "Ended" /\ r.removeOnDrop
  <2>1. staging[n] = p /\ n \in DOMAIN staging
    BY <1>12, <1>13
  <2>2. proc[p].staged = n /\ proc[p].stage # "Killed" /\ proc[p].removeOnDrop
    BY <1>2, <2>1 DEF Inv, Owned
  <2>3. ~removed
    BY <1>12, <1>13, Zenon
  <2>4. r.removeOnDrop
    BY <1>10, <2>2, <2>3, Zenon
  <2> QED BY <1>7, <2>2, <2>4
<1>14. Owned'
  <2>1. ~Owns(proc'[p])
    BY <1>7, <1>11 DEF Owns
  <2>2. \A n \in DOMAIN staging' : staging'[n] = p =>
          /\ proc'[p].staged = n /\ proc'[p].stage \notin WithoutFile
          /\ proc'[p].stage # "Killed" => proc'[p].removeOnDrop
    BY <1>11, <1>13 DEF WithoutFile
  <2>3. /\ \A n \in DOMAIN staging' : n \in DOMAIN staging /\ staging'[n] = staging[n]
        /\ \A x \in Processes :
             x # p /\ Owns(proc[x]) =>
               proc[x].staged \in DOMAIN staging' /\ staging'[proc[x].staged] = x
    BY <1>12, Zenon
  <2> QED BY <1>11, <2>1, <2>2, <2>3, OwnedAfterRemoval DEF Inv
<1> USE <1>2, <1>7, <1>11 DEF Inv
<1>15. Typed'
  BY DEF Typed
<1>16. Whole'
  BY DEF Whole, Unpublished, WithoutFile
<1>17. Timely'
  BY DEF Timely, AtWork, Typed
<1>18. CleansOldPictures'
  BY DEF CleansOldPictures
<1>19. Kept'
  BY DEF Kept
<1> QED BY <1>14, <1>15, <1>16, <1>17, <1>18, <1>19

LEMMA KillKeepsInv ==
  ASSUME Inv, NEW p \in Processes, Kill(p)
  PROVE  Inv'
<1> DEFINE r == Over(proc[p], "Killed")
<1>1. /\ UNCHANGED <<clock, files, staging, published, powerLost>>
      /\ proc' = [proc EXCEPT ![p] = r] /\ proc[p] \in ProcessStates /\ AtWork(p)
  BY DEF Kill, disk, Inv, Typed
<1>2. "Killed" \in Stages
  BY DEF Stages
<1>3. /\ r \in ProcessStates /\ r.now = 0 /\ r.staged = proc[p].staged
      /\ r.answer = proc[p].answer /\ r.listed = {} /\ r.stage = "Killed"
      /\ r.answer = "Ok" => r.path = proc[p].path
  BY <1>1, <1>2, OverIs
<1> HIDE DEF r
<1>4. /\ proc' \in [Processes -> ProcessStates] /\ proc'[p] = r
      /\ \A x \in Processes : x # p => proc'[x] = proc[x]
  BY <1>1, <1>3, OneProcess DEF Inv
<1> USE <1>1, <1>3, <1>4 DEF Inv
<1>5. Typed'
  BY DEF Typed
<1>6. Owned'
  BY DEF Owned, Owns, WithoutFile
<1>7. Whole'
  BY DEF Whole, Unpublished, WithoutFile
<1>8. Timely'
  BY DEF Timely, AtWork, Typed
<1>9. CleansOldPictures'
  BY DEF CleansOldPictures
<1>10. Kept'
  BY DEF Kept
<1> QED BY <1>5, <1>6, <1>7, <1>8, <1>9, <1>10

LEMMA PowerLossKeepsInv ==
  ASSUME Inv, PowerLoss
  PROVE  Inv'
<1>1. /\ powerLost' = TRUE /\ UNCHANGED clock
      /\ proc' = [p \in Processes |-> IF AtWork(p) THEN Over(proc[p], "Killed") ELSE proc[p]]
  BY DEF PowerLoss
<1>2. /\ files' \in [Processes -> FileStates]
      /\ \A p \in Processes :
           /\ files'[p].modified = files[p].modified
           /\ files[p].synced => files'[p] = files[p]
  BY DEF PowerLoss, Inv, Typed, FileStates
<1>3. /\ \A n \in DOMAIN staging' : n \in DOMAIN staging /\ staging'[n] = staging[n]
      /\ \A n \in DOMAIN published' : n \in DOMAIN published /\ published'[n] = published[n]
  BY DEF PowerLoss, Restrict
<1>4. \A p \in Processes : proc[p] \in ProcessStates
  BY DEF Inv, Typed
<1>5. "Killed" \in Stages
  BY DEF Stages
<1>6. ASSUME NEW p \in Processes
      PROVE
        /\ proc'[p] \in ProcessStates
        /\ proc'[p].stage = IF AtWork(p) THEN "Killed" ELSE proc[p].stage
        /\ proc'[p].staged = proc[p].staged /\ proc'[p].removeOnDrop = proc[p].removeOnDrop
        /\ proc'[p].answer = proc[p].answer
        /\ proc'[p].now = 0 \/ (~AtWork(p) /\ proc'[p].now = proc[p].now)
        /\ proc'[p].listed \subseteq proc[p].listed
  <2>1. CASE AtWork(p)
    <3>1. proc'[p] = Over(proc[p], "Killed")
      BY <1>1, <2>1
    <3>2. proc[p] \in ProcessStates /\ "Killed" \in Stages
      BY <1>4, <1>5
    <3>3. /\ Over(proc[p], "Killed") \in ProcessStates
          /\ Over(proc[p], "Killed").stage = "Killed" /\ Over(proc[p], "Killed").now = 0
          /\ Over(proc[p], "Killed").listed = {}
          /\ Over(proc[p], "Killed").staged = proc[p].staged
          /\ Over(proc[p], "Killed").removeOnDrop = proc[p].removeOnDrop
          /\ Over(proc[p], "Killed").answer = proc[p].answer
      BY <3>2, OverIs
    <3>4. {} \subseteq proc[p].listed
      OBVIOUS
    <3> QED BY <1>1, <2>1, <3>1, <3>3, <3>4
  <2>2. CASE ~AtWork(p)
    BY <1>1, <1>4, <2>2
  <2> QED BY <2>1, <2>2
<1>7. proc' \in [Processes -> ProcessStates]
  BY <1>1, <1>6
<1>8. \A p \in Processes : proc'[p].stage \in {"Idle", "Ended", "Killed"}
  BY <1>6 DEF AtWork
<1> USE <1>1, <1>2, <1>3, <1>6, <1>7, <1>8 DEF Inv
<1>9. Typed'
  BY DEF Typed
<1>10. Owned'
  BY DEF Owned, Owns, AtWork, WithoutFile
<1>11. Whole'
  BY DEF Whole, Unpublished, WithoutFile
<1>12. Timely'
  BY DEF Timely, AtWork, Typed, Whole
<1>13. CleansOldPictures'
  BY DEF CleansOldPictures
<1>14. Kept'
  BY DEF Kept, AtWork
<1> QED BY <1>9, <1>10, <1>11, <1>12, <1>13, <1>14

LEMMA TickKeepsInv ==
  ASSUME Inv, Tick
  PROVE  Inv'
<1>1. /\ clock' = clock + 1 /\ UNCHANGED <<proc, files, staging, published, powerLost>>
      /\ \A p \in Processes : AtWork(p) => proc[p].now = clock
  BY DEF Tick, disk
<1>2. clock \in Nat /\ (\A p \in Processes : files[p].modified \in Nat /\ proc[p].now \in Nat)
  BY DEF Inv, Typed, FileStates, ProcessStates
<1> USE <1>1, <1>2 DEF Inv
<1>3. Typed'
  BY DEF Typed
<1>4. Owned'
  BY DEF Owned, Owns
<1>5. Whole'
  BY DEF Whole
<1>6. Timely'
  BY DEF Timely, AtWork
<1>7. CleansOldPictures'
  BY DEF CleansOldPictures
<1>8. Kept'
  BY OutputAssumption DEF Kept
<1> QED BY <1>3, <1>4, <1>5, <1>6, <1>7, <1>8

LEMMA CallFailureKeepsInv ==
  ASSUME Inv, NEW p \in Processes, CallFails(p)
  PROVE  Inv'
<1>1. /\ proc[p].stage \in {"Preparing", "Removing", "Writing", "Syncing", "Publishing"}
      /\ Fails(p) /\ UNCHANGED <<clock, powerLost>> /\ proc[p] \in ProcessStates
  BY DEF CallFails, Inv, Typed
<1> QED BY <1>1, FailureKeepsInv DEF Fails, WithoutFile, disk, Inv, Typed

LEMMA NextKeepsInv == Inv /\ [Next]_vars => Inv'
<1> SUFFICES ASSUME Inv, [Next]_vars PROVE Inv'
  OBVIOUS
<1>1. ASSUME NEW p \in Processes, NEW destination \in Destinations, Start(p, destination)
      PROVE  Inv'
  BY <1>1, StartKeepsInv
<1>2. ASSUME NEW p \in Processes,
             \/ InspectManaged(p) \/ RemoveExpired(p) \/ CreateStaged(p) \/ WriteStaged(p)
             \/ SyncStaged(p) \/ Publish(p)
      PROVE  Inv'
  BY <1>2, InspectKeepsInv, RemoveExpiredKeepsInv, CreateKeepsInv, WriteKeepsInv, SyncKeepsInv,
     PublishKeepsInv
<1>3. ASSUME NEW p \in Processes,
             CallFails(p) \/ RemoveStaged(p) \/ DropStaged(p) \/ Kill(p)
      PROVE  Inv'
  BY <1>3, CallFailureKeepsInv, RemoveKeepsInv, DropKeepsInv, KillKeepsInv
<1>4. CASE PowerLoss \/ Tick
  BY <1>4, PowerLossKeepsInv, TickKeepsInv
<1>5. CASE UNCHANGED vars
  BY <1>5 DEF Inv, Typed, Owned, Owns, Whole, Timely, AtWork, CleansOldPictures, Kept, vars
<1> QED BY <1>1, <1>2, <1>3, <1>4, <1>5 DEF Next

THEOREM Invariance == Spec => []Inv
  BY InitInv, NextKeepsInv, PTL DEF Spec

-----------------------------------------------------------------------------
\* A name that a picture can be found under holds a whole picture, whenever a
\* process is killed, a call fails or the power does (publish_png_in).
THEOREM WholePictures == Spec => []PicturesAreWhole
<1>1. Inv => PicturesAreWhole
  BY DEF Inv, Whole, PicturesAreWhole
<1> QED BY <1>1, Invariance, PTL

\* A path a process printed holds its picture until that expires or the power
\* fails, whatever is published and cleaned up meanwhile (publish_link,
\* cleanup_managed_directory).
THEOREM PathsKept == Spec => []PathsKeepTheirPicture
<1>1. Inv => PathsKeepTheirPicture
  BY DEF Inv, Kept, PathsKeepTheirPicture
<1> QED BY <1>1, Invariance, PTL

\* A staging file is its maker's as long as the maker uses it, and what is left
\* over was left by a process that was killed or could not remove it
\* (StagedFile).
THEOREM StagingOwned == Spec => []StagingFilesAreOwned
<1>1. Inv => StagingFilesAreOwned
  BY DEF Inv, Owned, Owns, StagingFilesAreOwned
<1> QED BY <1>1, Invariance, PTL
=============================================================================
