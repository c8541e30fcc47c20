-------------------------- MODULE SerialMutations --------------------------
(***************************************************************************)
(* What the mutation scheduler promises, without wakes, timers or AutoCAD: *)
(* mutations run one at a time, each is started only when no earlier one   *)
(* is still queued, each is answered once, and when AutoCAD's state is in  *)
(* doubt or the plugin stops, nothing starts any more.                     *)
(***************************************************************************)
EXTENDS Naturals

CONSTANT Jobs    \* the jobs in the order of their admission, a set of numbers

VARIABLES
  state,    \* of every job: "new", "queued", "running" or "answered"
  halted    \* nothing starts any more

vars == <<state, halted>>

In(s) == {j \in Jobs : state[j] = s}

Move(jobs, to) == state' = [j \in Jobs |-> IF j \in jobs THEN to ELSE state[j]]

Init ==
  /\ state = [j \in Jobs |-> "new"]
  /\ halted = FALSE

\* Jobs are admitted in order, and none after the end.
Admit(j, to) ==
  /\ ~halted
  /\ j \in In("new")
  /\ \A k \in Jobs : k < j => k \notin In("new")
  /\ to \in {"queued", "answered"}
  /\ Move({j}, to)
  /\ UNCHANGED halted

Start(j) ==
  /\ ~halted
  /\ j \in In("queued")
  /\ In("running") = {}
  /\ \A k \in In("queued") : j <= k
  /\ Move({j}, "running")
  /\ UNCHANGED halted

\* AutoCAD was busy: the job is queued again, ahead of the later ones.
Postpone(j) ==
  /\ j \in In("running")
  /\ Move({j}, "queued")
  /\ UNCHANGED halted

Finish(j) ==
  /\ j \in In("running")
  /\ Move({j}, "answered")
  /\ UNCHANGED halted

\* Cancelled, expired, or settled without AutoCAD.
Withdraw(jobs) ==
  /\ jobs # {}
  /\ jobs \subseteq In("queued")
  /\ Move(jobs, "answered")
  /\ UNCHANGED halted

\* A stop answers the queue; a quarantine also ends the job that caused it.
Halt(jobs) ==
  /\ In("queued") \subseteq jobs
  /\ jobs \subseteq In("queued") \cup In("running")
  /\ Move(jobs, "answered")
  /\ halted' = TRUE

Next ==
  \/ \E j \in Jobs, to \in {"queued", "answered"} : Admit(j, to)
  \/ \E j \in Jobs : Start(j) \/ Postpone(j) \/ Finish(j)
  \/ \E jobs \in SUBSET Jobs : Withdraw(jobs) \/ Halt(jobs)

Spec == Init /\ [][Next]_vars
=============================================================================
