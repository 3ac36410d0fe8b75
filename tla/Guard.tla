-------------------------------- MODULE Guard --------------------------------
(***************************************************************************)
(* One node's guard (src/APUS/checkpoint/demo/guard_dev/guard.py).        *)
(*                                                                         *)
(* Three executors call inner_checkpoint / inner_restore without any lock: *)
(*   "inner"  the unix-socket InnerHandler (inner process, main thread),   *)
(*   "timer"  timer_checkpoint, a threading.Timer of the inner process,    *)
(*            present only on node TIMER_CK_ID,                            *)
(*   "outer"  the WSGI handlers outer_checkpoint / outer_restore, run in a *)
(*            separate OS process forked by __main__.                      *)
(* The two OS processes each keep their own copy of the global AIM_PID and *)
(* their own reset_pid timer chains.  Shared between them are the watched  *)
(* process, the checkpoint store STORE_BASE and the data dir EXT_RES_DIR.  *)
(*                                                                         *)
(* Every executor runs the code as a sequence of steps (pc); a step is the *)
(* code between two points where another executor may interleave.         *)
(***************************************************************************)
EXTENDS Integers, FiniteSets, FiniteSetsExt, SequencesExt

CONSTANTS
  Actors,        \* subset of {"inner", "timer", "outer"}
  Pid0,          \* the OS pid of the watched process
  NoPid,         \* AIM_PID = -1: no pid found yet
  NoData,        \* a directory that does not exist
  NoDump,        \* no criu image in a staging dir
  RoundArgs,     \* round_id values sent with restore requests
  MaxOps,        \* bound: requests served in one behaviour
  MaxVersion,    \* bound: state changes of the watched process
  CriuMayFail,   \* whether criu dump / restore may exit non-zero
  FdCopyMayFail, \* whether shutil.copy of an open file may raise
  ZipMayFail,    \* whether shutil.make_archive may raise while writing
  FdPaths,       \* regular files the watched process keeps open
  FdBase,        \* FdBase[f]: os.path.basename(f)
  OneAtATime     \* environment: requests arrive only when the guard is idle

ASSUME Actors \subseteq {"inner", "timer", "outer"}
ASSUME MaxOps \in Nat /\ MaxVersion \in Nat
ASSUME FdBase \in [FdPaths -> STRING]

VARIABLES
  pc,        \* pc[a]: the step executor a is about to take
  job,       \* job[a]: the request being served, [cmd, arg]
  staged,    \* staged[a]: a's tempfile.mkdtemp() staging dir
  rnd,       \* rnd[a]: archive round a names (checkpoint) or extracted (restore)
  proc,      \* the watched process: [alive, pid, connected, ver, view]
  files,     \* files[f]: contents of open file f (the version that wrote it)
  disk,      \* contents of EXT_RES_DIR (/data/store/), or NoData
  misplaced, \* contents of /data/ext_res_dir, or NoData
  store,     \* store[r]: the file checkpoint_r.zip of STORE_BASE
  aimPid,    \* aimPid[p]: global AIM_PID of OS process p
  timers,    \* timers[p]: live reset_pid timer chains in OS process p
  ops        \* requests admitted so far (bound)

vars == <<pc, job, staged, rnd, proc, files, disk, misplaced, store,
          aimPid, timers, ops>>

OsProcs == {"innerProc", "outerProc"}
OsProc(a) == IF a = "outer" THEN "outerProc" ELSE "innerProc"
Rounds == 0..MaxOps
Versions == 0..MaxVersion
Bases == {FdBase[f] : f \in FdPaths}
FdDirs == UNION {[B -> Versions] : B \in SUBSET Bases}
NoFds == [b \in {} |-> 0]
Dumps == [pid : {Pid0}, ver : Versions, view : [FdPaths -> Versions]]
Idle == {"idle", "dead"}
Busy(a) == pc[a] \notin Idle
CriuOutcomes == IF CriuMayFail THEN BOOLEAN ELSE {TRUE}
NoDir == [exists |-> FALSE, dump |-> NoDump, data |-> NoData, fds |-> NoFds]
EmptyDir == [exists |-> TRUE, dump |-> NoDump, data |-> NoData, fds |-> NoFds]
NoArchive == [state |-> "none", dump |-> NoDump, data |-> NoData, fds |-> NoFds]
PartialArchive == [state |-> "partial", dump |-> NoDump, data |-> NoData, fds |-> NoFds]

-----------------------------------------------------------------------------
(* Helpers                                                                 *)

Goto(a, s) == pc' = [pc EXCEPT ![a] = s]

\* inner_checkpoint / inner_restore returned: the handler replies, the
\* timer thread schedules its next firing.
Return(a) == Goto(a, "idle")

\* An exception escaped inner_checkpoint / inner_restore.  SocketServer and
\* wsgiref catch it per request; in timer_checkpoint it ends the thread
\* before threading.Timer(CK_TIMER_SECS, timer_checkpoint) is reached.
Raise(a) == Goto(a, IF a = "timer" THEN "dead" ELSE "idle")

\* getMaxCheckPointID: the largest N of a file checkpoint_N.zip, else 0.
MaxCheckPointID == Max({r \in Rounds : store[r].state # "none"} \cup {0})

\* reset_pid: "ps | grep" finds the watched process if it runs; a failed
\* lookup keeps the old AIM_PID.  Every call starts one more timer chain.
FoundPid(p) == IF proc.alive THEN proc.pid ELSE aimPid[p]
ResetPid(p) ==
  /\ aimPid' = [aimPid EXCEPT ![p] = FoundPid(p)]
  /\ timers' = [timers EXCEPT ![p] = @ + 1]

\* A request may start: under the bound, and, when the environment is
\* assumed to send one request at a time, only while no executor is busy.
Admit ==
  /\ ops < MaxOps
  /\ OneAtATime => \A b \in Actors : ~Busy(b)
  /\ ops' = ops + 1

Begin(a, cmd, arg) ==
  /\ pc[a] = "idle"
  /\ Admit
  /\ job' = [job EXCEPT ![a] = [cmd |-> cmd, arg |-> arg]]
  /\ Goto(a, IF cmd = "checkpoint" THEN "ck_disconnect" ELSE "rs_find")
  /\ UNCHANGED <<staged, rnd, proc, files, disk, misplaced, store, aimPid, timers>>

-----------------------------------------------------------------------------
(* Faults a plausible change of the code would introduce; each is checked  *)
(* to be caught by a property (PROJECT.json "mutants").                    *)

\* getNextBaseName skipping a number: checkpoint_<max+2>.
NextRoundSkip == MaxCheckPointID + 2

\* getCurrBaseName taking the first checkpoint file listed, the oldest.
CurrRoundOldest == Min({r \in Rounds : store[r].state # "none"} \cup {MaxOps})

\* unpack_ext_res building src_name from tmpDir instead of fd_dir: every
\* copy back raises and is skipped, the open files keep their contents.
UnpackedFilesWrongDir(a) == files

-----------------------------------------------------------------------------
(* Requests                                                                *)

\* InnerHandler.handle with node_id = SELF_ID: inner_service calls
\* inner_checkpoint or inner_restore.
InnerRequest(a) ==
  /\ a = "inner"
  /\ \E cmd \in {"checkpoint", "restore"}, r \in RoundArgs : Begin(a, cmd, r)

\* outer_checkpoint / outer_restore with node_id = SELF_ID.
OuterRequest(a) ==
  /\ a = "outer"
  /\ \E cmd \in {"checkpoint", "restore"}, r \in RoundArgs : Begin(a, cmd, r)

\* timer_checkpoint: inner_checkpoint(SELF_ID, -1).
TimerCheckpoint(a) ==
  /\ a = "timer"
  /\ Begin(a, "checkpoint", -1)

-----------------------------------------------------------------------------
(* inner_checkpoint                                                        *)

Disconnected == [proc EXCEPT !.connected = FALSE]

\* mkdtemp, send_disconnect_cmd (fails silently if the process is gone),
\* time.sleep(1).
CkDisconnect(a) ==
  /\ pc[a] = "ck_disconnect"
  /\ staged' = [staged EXCEPT ![a] = EmptyDir]
  /\ proc' = Disconnected
  /\ Goto(a, "ck_index")
  /\ UNCHANGED <<job, rnd, files, disk, misplaced, store, aimPid, timers, ops>>

\* reset_pid, then generate_fd_index(tmpDir, AIM_PID): returns -1 for
\* AIM_PID = -1 (inner_checkpoint returns); os.listdir("/proc/PID/fd")
\* raises when that pid is not running.
CkFdIndex(a) ==
  LET p == OsProc(a) IN
  /\ pc[a] = "ck_index"
  /\ ResetPid(p)
  /\ CASE FoundPid(p) = NoPid -> Return(a)
       [] proc.alive /\ proc.pid = FoundPid(p) -> Goto(a, "ck_dump")
       [] OTHER -> Raise(a)
  /\ UNCHANGED <<job, staged, rnd, proc, files, disk, misplaced, store, ops>>

\* criu dump -t AIM_PID: on success the dumped process is gone; on a
\* non-zero exit inner_checkpoint returns, leaving tmpDir and the
\* disconnected process behind.
CkDump(a) ==
  LET pid == aimPid[OsProc(a)] IN
  /\ pc[a] = "ck_dump"
  /\ \E ok \in CriuOutcomes :
       IF ok /\ proc.alive /\ proc.pid = pid
       THEN LET img == [pid |-> proc.pid, ver |-> proc.ver, view |-> proc.view] IN
            /\ staged' = [staged EXCEPT ![a].dump = img]
            /\ proc' = [proc EXCEPT !.alive = FALSE]
            /\ Goto(a, "ck_pack")
       ELSE /\ Return(a)
            /\ UNCHANGED <<staged, proc>>
  /\ UNCHANGED <<job, rnd, files, disk, misplaced, store, aimPid, timers, ops>>

\* The flat fd_dir/ after shutil.copy(item, fd_dir) of the paths of s in
\* turn: a file is stored under its basename, and a later path with the
\* same basename replaces an earlier one.
FdDirOf(s) ==
  [b \in {FdBase[s[i]] : i \in DOMAIN s} |->
     files[s[Max({i \in DOMAIN s : FdBase[s[i]] = b})]]]

\* How many of n indexed files are copied: all, or, when a copy may raise,
\* those before the first failing one.
FdCopied(n) == IF FdCopyMayFail THEN 0..n ELSE {n}

\* pack_ext_res: os.mkdir(fd_dir), then copy the paths of fd_index.txt,
\* written by generate_fd_index in os.listdir order (the open regular
\* files), into fd_dir; the first failing copy makes it return -1 before
\* EXT_RES_DIR is copied; copytree is skipped if the dir is missing.
\* inner_checkpoint ignores the return value.
CkPack(a) ==
  /\ pc[a] = "ck_pack"
  /\ \E s \in SetToSeqs(FdPaths), n \in FdCopied(Cardinality(FdPaths)) :
       staged' = [staged EXCEPT ![a].fds = FdDirOf(SubSeq(s, 1, n)),
                                ![a].data = IF n = Len(s) THEN disk ELSE NoData]
  /\ Goto(a, "ck_name")
  /\ UNCHANGED <<job, rnd, proc, files, disk, misplaced, store, aimPid, timers, ops>>

\* getNextBaseName: checkpoint_<max+1>.
NextRound == MaxCheckPointID + 1

CkName(a) ==
  /\ pc[a] = "ck_name"
  /\ rnd' = [rnd EXCEPT ![a] = NextRound]
  /\ Goto(a, "ck_zip_open")
  /\ UNCHANGED <<job, staged, proc, files, disk, misplaced, store, aimPid, timers, ops>>

\* shutil.make_archive opens checkpoint_N.zip for writing (truncating it).
CkZipOpen(a) ==
  /\ pc[a] = "ck_zip_open"
  /\ store' = [store EXCEPT ![rnd[a]] = PartialArchive]
  /\ Goto(a, "ck_zip_close")
  /\ UNCHANGED <<job, staged, rnd, proc, files, disk, misplaced, aimPid, timers, ops>>

\* make_archive finishes, shutil.rmtree(tmpDir), rsync to the peers (no
\* local effect), then inner_restore(node_id, round_id).
CkZipClose(a) ==
  /\ pc[a] = "ck_zip_close"
  /\ store' = [store EXCEPT ![rnd[a]] =
                 [state |-> "done", dump |-> staged[a].dump, data |-> staged[a].data,
                  fds |-> staged[a].fds]]
  /\ staged' = [staged EXCEPT ![a] = NoDir]
  /\ Goto(a, "rs_find")
  /\ UNCHANGED <<job, rnd, proc, files, disk, misplaced, aimPid, timers, ops>>

\* make_archive raises while writing (zipfile writes checkpoint_N.zip in
\* place): the half-written file stays under its final name, and the
\* exception leaves inner_checkpoint before rmtree(tmpDir) and before the
\* restore that would resume the dumped process.
CkZipFail(a) ==
  /\ pc[a] = "ck_zip_close"
  /\ ZipMayFail
  /\ Raise(a)
  /\ UNCHANGED <<job, staged, rnd, proc, files, disk, misplaced, store, aimPid, timers, ops>>

-----------------------------------------------------------------------------
(* inner_restore                                                           *)

\* getCurrBaseName: the newest archive, whatever round_id asks for.
CurrRound == MaxCheckPointID

\* mkdtemp; if checkpoint_<max>.zip exists, extractall (a zip still being
\* written raises BadZipfile); otherwise return, leaving tmpDir behind.
RsFind(a) ==
  LET m == CurrRound IN
  /\ pc[a] = "rs_find"
  /\ CASE store[m].state = "done" ->
            /\ staged' = [staged EXCEPT ![a] =
                            [exists |-> TRUE, dump |-> store[m].dump, data |-> store[m].data,
                             fds |-> store[m].fds]]
            /\ rnd' = [rnd EXCEPT ![a] = m]
            /\ Goto(a, "rs_kill")
       [] store[m].state = "partial" ->
            /\ staged' = [staged EXCEPT ![a] = EmptyDir]
            /\ Raise(a)
            /\ UNCHANGED rnd
       [] OTHER ->
            /\ staged' = [staged EXCEPT ![a] = EmptyDir]
            /\ Return(a)
            /\ UNCHANGED rnd
  /\ UNCHANGED <<job, proc, files, disk, misplaced, store, aimPid, timers, ops>>

\* reset_pid, pkill -9 AIM_NAME, time.sleep(1).
RsKill(a) ==
  /\ pc[a] = "rs_kill"
  /\ ResetPid(OsProc(a))
  /\ proc' = [proc EXCEPT !.alive = FALSE]
  /\ Goto(a, "rs_unpack")
  /\ UNCHANGED <<job, staged, rnd, files, disk, misplaced, store, ops>>

\* unpack_ext_res, first loop: shutil.copyfile(fd_dir/<basename>, path)
\* for every path of fd_index.txt; a missing copy is skipped.
UnpackedFiles(a) ==
  [f \in FdPaths |-> IF FdBase[f] \in DOMAIN staged[a].fds
                     THEN staged[a].fds[FdBase[f]] ELSE files[f]]

\* unpack_ext_res: the fd files are copied back; then
\* shutil.rmtree(EXT_RES_DIR) (raises if it is missing), and
\* shutil.move(tmpDir/ext_res_dir/, "/data/"), which lands in
\* /data/ext_res_dir and raises if that already exists.  Return ignored.
RsUnpack(a) ==
  /\ pc[a] = "rs_unpack"
  /\ files' = UnpackedFiles(a)
  /\ IF disk = NoData
     THEN UNCHANGED <<disk, misplaced, staged>>
     ELSE /\ disk' = NoData
          /\ IF staged[a].data # NoData /\ misplaced = NoData
             THEN /\ misplaced' = staged[a].data
                  /\ staged' = [staged EXCEPT ![a].data = NoData]
             ELSE UNCHANGED <<misplaced, staged>>
  /\ Goto(a, "rs_criu")
  /\ UNCHANGED <<job, rnd, proc, store, aimPid, timers, ops>>

\* criu restore -d -D tmpDir: recreates the dumped process with its pid;
\* fails while a process holds that pid.  A failure is only logged.
RsCriu(a) ==
  LET img == staged[a].dump IN
  /\ pc[a] = "rs_criu"
  /\ \E ok \in CriuOutcomes :
       proc' = IF ok /\ ~(proc.alive /\ proc.pid = img.pid)
               THEN [alive |-> TRUE, pid |-> img.pid, ver |-> img.ver,
                     view |-> img.view, connected |-> FALSE]
               ELSE proc
  /\ Goto(a, "rs_finish")
  /\ UNCHANGED <<job, staged, rnd, files, disk, misplaced, store, aimPid, timers, ops>>

\* send_reconnect_cmd: the libevent socket answers only while the process
\* runs; a failed connect is caught and ignored.
Reconnected == [proc EXCEPT !.connected = proc.alive]

\* shutil.rmtree(tmpDir), reset_pid, send_reconnect_cmd.
RsFinish(a) ==
  /\ pc[a] = "rs_finish"
  /\ staged' = [staged EXCEPT ![a] = NoDir]
  /\ ResetPid(OsProc(a))
  /\ proc' = Reconnected
  /\ Return(a)
  /\ UNCHANGED <<job, rnd, files, disk, misplaced, store, ops>>

-----------------------------------------------------------------------------
(* Background                                                              *)

\* A reset_pid timer chain fires (and re-arms itself).
RefreshPid(p) ==
  /\ timers[p] > 0
  /\ aimPid' = [aimPid EXCEPT ![p] = FoundPid(p)]
  /\ UNCHANGED <<pc, job, staged, rnd, proc, files, disk, misplaced, store, timers, ops>>

\* The connected watched process serves a request: it writes one of its
\* open files, and its db files in EXT_RES_DIR.  view is what the
\* process's memory holds of each open file.
ProcessWork ==
  /\ proc.alive /\ proc.connected
  /\ proc.ver < MaxVersion
  /\ \E f \in FdPaths :
       /\ proc' = [proc EXCEPT !.ver = @ + 1, !.view[f] = proc.ver + 1]
       /\ files' = [files EXCEPT ![f] = proc.ver + 1]
  /\ disk' = IF disk = NoData THEN NoData ELSE proc.ver + 1
  /\ UNCHANGED <<pc, job, staged, rnd, misplaced, store, aimPid, timers, ops>>

-----------------------------------------------------------------------------

\* init(): STORE_BASE is wiped; the forked processes inherit the AIM_PID
\* found by init's reset_pid; start_inner starts one reset_pid chain.
Init ==
  /\ pc = [a \in Actors |-> "idle"]
  /\ job = [a \in Actors |-> [cmd |-> "restore", arg |-> -1]]
  /\ staged = [a \in Actors |-> NoDir]
  /\ rnd = [a \in Actors |-> 0]
  /\ \E alive \in BOOLEAN :
       /\ proc = [alive |-> alive, pid |-> Pid0, ver |-> 0,
                  view |-> [f \in FdPaths |-> 0], connected |-> alive]
       /\ aimPid = [p \in OsProcs |-> IF alive THEN Pid0 ELSE NoPid]
  /\ files = [f \in FdPaths |-> 0]
  /\ disk = 0
  /\ misplaced = NoData
  /\ store = [r \in Rounds |-> NoArchive]
  /\ timers = [p \in OsProcs |-> IF p = "innerProc" THEN 1 ELSE 0]
  /\ ops = 0

Step(a) ==
  \/ InnerRequest(a) \/ OuterRequest(a) \/ TimerCheckpoint(a)
  \/ CkDisconnect(a) \/ CkFdIndex(a) \/ CkDump(a) \/ CkPack(a)
  \/ CkName(a) \/ CkZipOpen(a) \/ CkZipClose(a) \/ CkZipFail(a)
  \/ RsFind(a) \/ RsKill(a) \/ RsUnpack(a) \/ RsCriu(a) \/ RsFinish(a)

Next ==
  \/ \E a \in Actors : Step(a)
  \/ \E p \in OsProcs : RefreshPid(p)
  \/ ProcessWork

Spec == Init /\ [][Next]_vars

-----------------------------------------------------------------------------
(* Properties                                                              *)

TypeOK ==
  /\ pc \in [Actors -> Idle \cup {"ck_disconnect", "ck_index", "ck_dump",
        "ck_pack", "ck_name", "ck_zip_open", "ck_zip_close", "rs_find",
        "rs_kill", "rs_unpack", "rs_criu", "rs_finish"}]
  /\ job \in [Actors -> [cmd : {"checkpoint", "restore"}, arg : RoundArgs \cup {-1}]]
  /\ staged \in [Actors -> [exists : BOOLEAN, dump : Dumps \cup {NoDump},
                            data : Versions \cup {NoData}, fds : FdDirs]]
  /\ rnd \in [Actors -> Rounds]
  /\ proc \in [alive : BOOLEAN, pid : {Pid0}, ver : Versions,
               view : [FdPaths -> Versions], connected : BOOLEAN]
  /\ files \in [FdPaths -> Versions]
  /\ disk \in Versions \cup {NoData}
  /\ misplaced \in Versions \cup {NoData}
  /\ store \in [Rounds -> [state : {"none", "partial", "done"},
                           dump : Dumps \cup {NoDump}, data : Versions \cup {NoData},
                           fds : FdDirs]]
  /\ aimPid \in [OsProcs -> {Pid0, NoPid}]
  /\ timers \in [OsProcs -> Nat]
  /\ ops \in 0..MaxOps

\* Spec 4.5 and 7, and the docstring of guard.py: restore R selects the
\* archive with the largest round not above R, and fails when there is
\* none.  So a restore request whose inner_restore goes on to kill the
\* process has extracted exactly that archive (getCurrBaseName in RsFind).
RestoreNearest ==
  [][\A a \in Actors :
       job[a].cmd = "restore" /\ pc[a] = "rs_find" /\ pc'[a] = "rs_kill" =>
         LET atOrBelow == {r \in Rounds : r <= job[a].arg /\ store[r].state = "done"}
         IN  atOrBelow # {} /\ rnd'[a] = Max(atOrBelow)]_vars

\* Spec 3: an archive is never mutated after it is created.  A checkpoint
\* must never write over a finished checkpoint_N.zip (getNextBaseName
\* followed by make_archive).
ArchiveImmutable ==
  [][\A r \in Rounds : store[r].state = "done" => store'[r] = store[r]]_store

\* Spec 3: an archive is created atomically (written under a temporary
\* name, then finalized).  So whenever no operation is running, the
\* archive getCurrBaseName picks for the next restore is a complete zip,
\* not one a failed make_archive left half written under its final name.
NewestExtractable ==
  (\A a \in Actors : ~Busy(a)) => store[CurrRound].state # "partial"

\* Spec 5: a failure mid-sequence still removes the staging directory
\* before returning.  So an executor that has finished or abandoned its
\* operation leaves no mkdtemp dir behind (inner_checkpoint's early
\* returns, inner_restore's return when no archive exists).
StagingRemoved ==
  \A a \in Actors : ~Busy(a) => ~staged[a].exists

\* Spec 4.4: after unpack the external-data dir holds the archive's copy,
\* so when no operation runs, the running process and its db files in
\* EXT_RES_DIR are at the same state.
ExtDataRestored ==
  (\A a \in Actors : ~Busy(a)) /\ proc.alive => disk = proc.ver

\* Spec 4.4: pack_ext_res saves every open regular file and unpack_ext_res
\* copies it back before criu restore, so when no operation runs, every
\* file the running process holds open has the contents its memory (the
\* restored image) expects.  fd_dir/ is flat: two open files with the
\* same basename share one copy (guard.py:334).
FdFilesRestored ==
  (\A a \in Actors : ~Busy(a)) /\ proc.alive => files = proc.view

\* Spec 4.10: one recurring pid-refresh timer per daemon.
RefreshTimerSingle ==
  \A p \in OsProcs : timers[p] <= 1

\* Spec 4.5, 3: with one request at a time the guard is the serialised
\* executor of GuardSerial.  Its busy executor's phase is the abstract
\* operation, the image in its staging dir the image held, and the finished
\* zips the abstract store; every other step of the code (pid lookups, the
\* data dir, a zip being written) leaves that view unchanged.
Running == {a \in Actors : Busy(a)}
Active == CHOOSE a \in Running : TRUE
Phase ==
  IF Running = {} THEN "idle"
  ELSE IF pc[Active] \in {"ck_disconnect", "ck_index", "ck_dump", "ck_pack",
                          "ck_name", "ck_zip_open", "ck_zip_close"}
       THEN "checkpoint" ELSE "restore"
\* Before its own mkdtemp (ck_disconnect, rs_find) an operation holds no
\* staging dir; staged may still show a dir an earlier one leaked.
HeldImage ==
  IF Running = {} \/ pc[Active] \in {"ck_disconnect", "rs_find"}
     \/ staged[Active].dump = NoDump
  THEN NoDump
  ELSE staged[Active].dump.ver
Serial == INSTANCE GuardSerial WITH
  op <- Phase,
  held <- HeldImage,
  proc <- [alive |-> proc.alive, ver |-> proc.ver, connected |-> proc.connected],
  store <- [r \in Rounds |-> IF store[r].state = "done" THEN store[r].dump.ver ELSE NoDump]
SerialRefinement == Serial!Spec

\* Spec 4.10: the periodic checkpoint timer reschedules after every firing,
\* so the timer thread never ends.
TimerAlive ==
  \A a \in Actors : pc[a] # "dead"

=============================================================================
