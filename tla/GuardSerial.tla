------------------------------- MODULE GuardSerial -------------------------------
(***************************************************************************)
(* The serialised snapshot executor of spec.md 4.5, one node.  At most one *)
(* operation runs at a time, and each of its effects on the watched        *)
(* process and on the store is one atomic step:                            *)
(*   checkpoint: quiesce, dump (the process stops), commit the image as     *)
(*               round max+1, then the restore that resumes it;            *)
(*   restore:    take the newest archive, kill the process, restore the    *)
(*               image (the external utility may fail), reconnect.         *)
(* An operation may also end early, without touching anything further.     *)
(* Guard under OneAtATime implements this specification (Guard's           *)
(* SerialRefinement).                                                      *)
(***************************************************************************)
EXTENDS Integers, FiniteSetsExt

CONSTANTS MaxOps, MaxVersion, NoDump

Rounds == 0..MaxOps
Versions == 0..MaxVersion

VARIABLES
  op,      \* "idle", or the phase running: "checkpoint" or "restore"
  held,    \* the image the running operation carries, or NoDump
  proc,    \* the watched process: [alive, ver, connected]
  store    \* store[r]: the image archived as round r, or NoDump

vars == <<op, held, proc, store>>

Archived == {r \in Rounds : store[r] # NoDump}
Newest == Max(Archived \cup {0})

Init ==
  /\ op = "idle"
  /\ held = NoDump
  /\ \E alive \in BOOLEAN : proc = [alive |-> alive, ver |-> 0, connected |-> alive]
  /\ store = [r \in Rounds |-> NoDump]

Start ==
  /\ op = "idle"
  /\ \E cmd \in {"checkpoint", "restore"} : op' = cmd
  /\ UNCHANGED <<held, proc, store>>

Quiesce ==
  /\ op = "checkpoint" /\ held = NoDump
  /\ proc' = [proc EXCEPT !.connected = FALSE]
  /\ UNCHANGED <<op, held, store>>

Dump ==
  /\ op = "checkpoint" /\ held = NoDump
  /\ proc.alive /\ ~proc.connected
  /\ held' = proc.ver
  /\ proc' = [proc EXCEPT !.alive = FALSE]
  /\ UNCHANGED <<op, store>>

\* The image becomes a new round above every archive, and the checkpoint
\* goes on as a restore.
Commit ==
  /\ op = "checkpoint" /\ held # NoDump
  /\ Newest + 1 \in Rounds
  /\ store' = [store EXCEPT ![Newest + 1] = held]
  /\ held' = NoDump
  /\ op' = "restore"
  /\ UNCHANGED proc

Extract ==
  /\ op = "restore" /\ held = NoDump
  /\ Archived # {}
  /\ held' = store[Newest]
  /\ UNCHANGED <<op, proc, store>>

Kill ==
  /\ op = "restore" /\ held # NoDump
  /\ proc' = [proc EXCEPT !.alive = FALSE]
  /\ UNCHANGED <<op, held, store>>

Resume ==
  /\ op = "restore" /\ held # NoDump
  /\ ~proc.alive
  /\ proc' = [alive |-> TRUE, ver |-> held, connected |-> FALSE]
  /\ UNCHANGED <<op, held, store>>

\* A restore ends: the staging dir is removed and reconnect is sent.
Finish ==
  /\ op = "restore" /\ held # NoDump
  /\ proc' = [proc EXCEPT !.connected = proc.alive]
  /\ op' = "idle" /\ held' = NoDump
  /\ UNCHANGED store

\* An operation ends at an early return or an exception.
Abandon ==
  /\ op # "idle"
  /\ op' = "idle" /\ held' = NoDump
  /\ UNCHANGED <<proc, store>>

\* The connected process makes progress.
Work ==
  /\ proc.alive /\ proc.connected /\ proc.ver < MaxVersion
  /\ proc' = [proc EXCEPT !.ver = @ + 1]
  /\ UNCHANGED <<op, held, store>>

Next ==
  \/ Start \/ Quiesce \/ Dump \/ Commit \/ Extract \/ Kill \/ Resume
  \/ Finish \/ Abandon \/ Work

Spec == Init /\ [][Next]_vars

=============================================================================
