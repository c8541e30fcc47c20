--------------------------- MODULE ScreenshotOutput ---------------------------
(***************************************************************************)
(* Where `acadctl screenshot` puts its picture                             *)
(* (cli/src/commands/screenshot/output.rs): any number of processes write  *)
(* pictures to the managed directory, to a directory the user names, or to *)
(* the one path the user names.  Each writes a file of its own under a     *)
(* staging name, syncs it, links it under the name it is to have, and      *)
(* removes the staging name.  Those that use the managed directory first   *)
(* remove the pictures there that have expired.                            *)
(*                                                                         *)
(* Nothing but the file system orders the processes; one may be killed     *)
(* between any two of its calls, calls may fail, and the power may fail,   *)
(* when what was not synced is lost and any name may be.                   *)
(*                                                                         *)
(* A process makes one file at most, so a file is named by its process.    *)
(* Time is counted in units of which Retention make up                     *)
(* MANAGED_SCREENSHOT_RETENTION; a screenshot takes less than one (Tick).  *)
(***************************************************************************)
EXTENDS Naturals, FiniteSets, Functions, TLC

CONSTANTS
  Processes,
  Retention,       \* MANAGED_SCREENSHOT_RETENTION
  MaxTime,         \* bound on the clock
  MaxFaults        \* bound on the calls that fail, the processes killed and the losses of power

ASSUME OutputAssumption ==
  Retention \in Nat \ {0} /\ MaxTime \in Nat /\ MaxFaults \in Nat

VARIABLES
  clock,
  proc,       \* the processes
  files,      \* the file each process made
  staging,    \* staging names, each with the file it names
  published,  \* names of pictures, each with the file it names
  faults,     \* calls that failed, processes killed and losses of power
  powerLost   \* whether one was a loss of power

vars == <<clock, proc, files, staging, published, faults, powerLost>>
disk == <<files, staging, published>>
environment == <<clock, faults, powerLost>>

Destinations == {"Managed", "Directory", "Exact"}
Stages == {"Idle", "Preparing", "Removing", "Writing", "Syncing", "Publishing",
           "Removed", "Dropping", "Ended", "Killed"}
None == <<>>
ExactName == <<"Exact">>
GeneratedName(directory, timestamp, ordinal) == <<directory, timestamp, ordinal>>
Names == {None, ExactName}
         \cup {GeneratedName(d, t, o) : d \in {"Managed", "Directory"}, t \in 0..MaxTime,
                                        o \in 1..(Cardinality(Processes) + 1)}

IdleProcess ==
  [stage |-> "Idle", destination |-> "Managed", now |-> 0, listed |-> {}, cleans |-> None,
   staged |-> None, removeOnDrop |-> FALSE, ordinal |-> 1, path |-> None, answer |-> "none"]
NoFile == [content |-> "none", synced |-> FALSE, modified |-> 0]

TypeOK ==
  /\ clock \in 0..MaxTime /\ faults \in 0..MaxFaults /\ powerLost \in BOOLEAN
  /\ DOMAIN proc = Processes /\ DOMAIN files = Processes
  /\ \A p \in Processes :
       /\ proc[p].stage \in Stages /\ proc[p].destination \in Destinations
       /\ proc[p].now \in 0..MaxTime /\ proc[p].listed \subseteq Names
       /\ {proc[p].staged, proc[p].cleans, proc[p].path} \subseteq Names
       /\ proc[p].removeOnDrop \in BOOLEAN /\ proc[p].ordinal \in Nat
       /\ proc[p].answer \in {"none", "Ok", "Error"}
       /\ files[p].content \in {"none", "partial", "whole", "lost"}
       /\ files[p].synced \in BOOLEAN /\ files[p].modified \in 0..MaxTime
  /\ DOMAIN staging \subseteq Names /\ DOMAIN published \subseteq Names
  /\ Range(staging) \subseteq Processes /\ Range(published) \subseteq Processes

Init ==
  /\ clock = 0 /\ faults = 0 /\ powerLost = FALSE
  /\ proc = [p \in Processes |-> IdleProcess]
  /\ files = [p \in Processes |-> NoFile]
  /\ staging = <<>> /\ published = <<>>

(***************************************************************************)
(* The file system.                                                        *)
(***************************************************************************)
With(names, name, file) ==
  [n \in DOMAIN names \cup {name} |-> IF n = name THEN file ELSE names[n]]
Without(names, name) == Restrict(names, DOMAIN names \ {name})

\* open with create_new, and hard_link, take a name nobody has.
MayCreate(names, name) == name \notin DOMAIN names

Faults(n) == faults + n <= MaxFaults /\ faults' = faults + n

AtWork(p) == proc[p].stage \notin {"Idle", "Ended", "Killed"}

Goes(p, stage) == proc' = [proc EXCEPT ![p].stage = stage]

\* A process that is over has no state but what it leaves.
Over(q, stage) ==
  [IdleProcess EXCEPT !.stage = stage, !.staged = q.staged, !.removeOnDrop = q.removeOnDrop,
                      !.path = IF q.answer = "Ok" THEN q.path ELSE None, !.answer = q.answer]

\* An error returns from publish_png_in, and drops the staged file.
FailsWith(q) ==
  IF q.stage \in {"Idle", "Preparing", "Removing"}
  THEN Over([q EXCEPT !.answer = "Error"], "Ended")
  ELSE [q EXCEPT !.answer = "Error", !.stage = "Dropping"]
Fails(p) == proc' = [proc EXCEPT ![p] = FailsWith(@)] /\ UNCHANGED disk

(***************************************************************************)
(* One process.                                                            *)
(***************************************************************************)
ManagedNames == {name \in DOMAIN published : name[1] = "Managed"}

\* A path that exists already is refused before anything is written.
Start(p, destination) ==
  /\ proc[p].stage = "Idle"
  /\ LET q == [proc[p] EXCEPT !.destination = destination, !.now = clock]
     IN  CASE destination = "Managed" ->
                proc' = [proc EXCEPT ![p] = [q EXCEPT !.stage = "Preparing",
                                                      !.listed = ManagedNames]]
           [] destination = "Directory" ->
                proc' = [proc EXCEPT ![p] = [q EXCEPT !.stage = "Preparing"]]
           [] destination = "Exact" ->
                proc' = [proc EXCEPT ![p] = IF ExactName \in DOMAIN published THEN FailsWith(q)
                                            ELSE [q EXCEPT !.stage = "Preparing"]]
  /\ UNCHANGED <<disk, environment>>

IsExpired(p, name) == proc[p].now > files[published[name]].modified + Retention

\* cleanup_managed_directory: each name that read_dir gave is inspected, and
\* removed when its file has expired.  Another process may have removed it.
InspectManaged(p) ==
  /\ proc[p].stage = "Preparing"
  /\ \E name \in proc[p].listed :
       CASE name \notin DOMAIN published -> Fails(p)
         [] name \in DOMAIN published ->
              /\ proc' = [proc EXCEPT ![p].listed = @ \ {name},
                                      ![p].cleans = IF IsExpired(p, name) THEN name ELSE None,
                                      ![p].stage = IF IsExpired(p, name) THEN "Removing" ELSE @]
              /\ UNCHANGED disk
  /\ UNCHANGED environment

RemoveExpired(p) ==
  /\ proc[p].stage = "Removing"
  /\ \/ /\ proc[p].cleans \in DOMAIN published
        /\ published' = Without(published, proc[p].cleans)
        /\ proc' = [proc EXCEPT ![p].stage = "Preparing", ![p].cleans = None]
        /\ UNCHANGED <<files, staging>>
     \/ proc[p].cleans \notin DOMAIN published /\ Fails(p)
  /\ UNCHANGED environment

\* The directory a picture goes to: that of an exact path is the user's too.
DirectoryOf(q) == IF q.destination = "Managed" THEN "Managed" ELSE "Directory"

\* StagedFile::create: one attempt of its loop.
CreateStaged(p) ==
  /\ proc[p].stage = "Preparing" /\ proc[p].listed = {}
  /\ LET name == GeneratedName(DirectoryOf(proc[p]), proc[p].now, proc[p].ordinal) IN
     CASE MayCreate(staging, name) ->
            /\ staging' = With(staging, name, p)
            /\ files' = [files EXCEPT ![p].content = "partial", ![p].modified = clock]
            /\ proc' = [proc EXCEPT ![p].stage = "Writing", ![p].staged = name,
                                    ![p].removeOnDrop = TRUE, ![p].ordinal = 1]
            /\ UNCHANGED published
       [] ~MayCreate(staging, name) ->
            proc' = [proc EXCEPT ![p].ordinal = @ + 1] /\ UNCHANGED disk
  /\ UNCHANGED environment

WriteStaged(p) ==
  /\ proc[p].stage = "Writing"
  /\ files' = [files EXCEPT ![p].content = "whole", ![p].modified = clock]
  /\ Goes(p, "Syncing")
  /\ UNCHANGED <<staging, published, environment>>

\* Published before it is on the disk.
SyncStagedLater(p) ==
  /\ proc[p].stage = "Syncing"
  /\ Goes(p, "Publishing")
  /\ UNCHANGED <<disk, environment>>

SyncStaged(p) ==
  /\ proc[p].stage = "Syncing"
  /\ files' = [files EXCEPT ![p].synced = TRUE]
  /\ Goes(p, "Publishing")
  /\ UNCHANGED <<staging, published, environment>>

CallFails(p) ==
  /\ proc[p].stage \in {"Preparing", "Removing", "Writing", "Syncing", "Publishing"}
  /\ Faults(1)
  /\ Fails(p)
  /\ UNCHANGED <<clock, powerLost>>

PathOf(q) ==
  IF q.destination = "Exact" THEN ExactName ELSE GeneratedName(q.destination, q.now, q.ordinal)

\* A rename replaces what has the name.
MayLinkAsRename(name) == TRUE
\* publish_link: a link never replaces what has the name.
MayLink(name) == MayCreate(published, name)

\* One attempt to link the staged file: a name of one's own is tried with the
\* next ordinal, a path of the user's is not.  A staged file that is gone
\* cannot be linked.
Publish(p) ==
  /\ proc[p].stage = "Publishing"
  /\ LET path == PathOf(proc[p]) IN
     CASE proc[p].staged \notin DOMAIN staging -> Fails(p)
       [] proc[p].staged \in DOMAIN staging /\ MayLink(path) ->
            /\ published' = With(published, path, staging[proc[p].staged])
            /\ proc' = [proc EXCEPT ![p].stage = "Removed", ![p].path = path]
            /\ UNCHANGED <<files, staging>>
       [] OTHER ->
            IF path = ExactName THEN Fails(p)
            ELSE proc' = [proc EXCEPT ![p].ordinal = @ + 1] /\ UNCHANGED disk
  /\ UNCHANGED environment

\* What was removed is removed again on drop.
KeepsRemovingOnDrop(removed) == TRUE
\* StagedFile::remove: only what could not be removed is removed on drop.
RemovesOnDrop(removed) == ~removed

RemoveStaged(p) ==
  /\ proc[p].stage = "Removed"
  /\ \E removed \in BOOLEAN :
       /\ Faults(IF removed THEN 0 ELSE 1)
       /\ staging' = IF removed THEN Without(staging, proc[p].staged) ELSE staging
       /\ proc' = [proc EXCEPT ![p].stage = "Dropping", ![p].answer = "Ok",
                               ![p].removeOnDrop = RemovesOnDrop(removed)]
  /\ UNCHANGED <<clock, files, published, powerLost>>

\* StagedFile::drop: its error is ignored.
Drop(q, removed) == Over([q EXCEPT !.removeOnDrop = @ /\ ~removed], "Ended")
DropStaged(p) ==
  /\ proc[p].stage = "Dropping"
  /\ \E removed \in BOOLEAN :
       /\ removed => proc[p].removeOnDrop
       /\ Faults(IF removed = proc[p].removeOnDrop THEN 0 ELSE 1)
       /\ staging' = IF removed THEN Without(staging, proc[p].staged) ELSE staging
       /\ proc' = [proc EXCEPT ![p] = Drop(@, removed)]
  /\ UNCHANGED <<clock, files, published, powerLost>>

Kill(p) ==
  /\ Faults(1)
  /\ AtWork(p) /\ proc' = [proc EXCEPT ![p] = Over(@, "Killed")]
  /\ UNCHANGED <<clock, disk, powerLost>>

(***************************************************************************)
(* The machine.                                                            *)
(***************************************************************************)
PowerLoss ==
  /\ Faults(1) /\ powerLost' = TRUE
  /\ proc' = [p \in Processes |-> IF AtWork(p) THEN Over(proc[p], "Killed") ELSE proc[p]]
  /\ files' = [p \in Processes |->
                 IF files[p].content = "none" \/ files[p].synced THEN files[p]
                 ELSE [files[p] EXCEPT !.content = "lost"]]
  /\ \E kept \in SUBSET DOMAIN staging : staging' = Restrict(staging, kept)
  /\ \E kept \in SUBSET DOMAIN published : published' = Restrict(published, kept)
  /\ UNCHANGED clock

\* Time passes; a process that was at work before this unit is waited for.
Tick ==
  /\ clock < MaxTime /\ clock' = clock + 1
  /\ \A p \in Processes : AtWork(p) => proc[p].now = clock
  /\ UNCHANGED <<proc, disk, faults, powerLost>>

Next ==
  \/ \E p \in Processes :
       \/ \E destination \in Destinations : Start(p, destination)
       \/ InspectManaged(p)
       \/ RemoveExpired(p)
       \/ CreateStaged(p)
       \/ WriteStaged(p)
       \/ SyncStaged(p)
       \/ CallFails(p)
       \/ Publish(p)
       \/ RemoveStaged(p)
       \/ DropStaged(p)
       \/ Kill(p)
  \/ PowerLoss
  \/ Tick

Spec == Init /\ [][Next]_vars

Symmetry == Permutations(Processes)

(***************************************************************************)
(* Properties.                                                             *)
(***************************************************************************)
\* A name that a picture can be found under holds a whole picture: while it
\* is written, when its process is killed, and after a loss of power.
PicturesAreWhole ==
  \A name \in DOMAIN published : files[published[name]].content = "whole"

\* The path a process printed holds that process's picture and no other,
\* until the picture expires or a loss of power takes the name: no other
\* process replaces it, and no cleanup takes it for an old one.
PathsKeepTheirPicture ==
  \A p \in Processes :
    proc[p].answer = "Ok" =>
      \/ proc[p].path \in DOMAIN published /\ published[proc[p].path] = p
      \/ proc[p].path[1] = "Managed" /\ clock > files[p].modified + Retention
      \/ powerLost

\* A staging file belongs to the process that made it: it has its name until
\* the process removes it, whatever the other processes create and remove in
\* the meantime; and what outlives its process was left by one that was
\* killed or that could not remove it.
StagingFilesAreOwned ==
  /\ \A p \in Processes :
       proc[p].stage \in {"Writing", "Syncing", "Publishing", "Removed"} =>
         proc[p].staged \in DOMAIN staging /\ staging[proc[p].staged] = p
  /\ \A name \in DOMAIN staging :
       LET owner == proc[staging[name]] IN
       owner.staged = name /\ (owner.stage # "Killed" => owner.removeOnDrop)

=============================================================================
