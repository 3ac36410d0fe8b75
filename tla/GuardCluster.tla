---------------------------- MODULE GuardCluster ----------------------------
(***************************************************************************)
(* Several nodes, each running guard.py, seen from the network.  Module   *)
(* Guard models one node's executors step by step; here one checkpoint or *)
(* restore is cut only where another node can observe it: at the dump, at *)
(* the archive write, at the rsync to the peers and at the restore.  What *)
(* is added is what crosses nodes: `route`/`make_req` (a blocking HTTP    *)
(* call to the owner's outer server, answered only after the operation), *)
(* the outer server's listen backlog, `rsync --delete` mirroring the      *)
(* whole STORE_BASE onto every peer, and a guard restart, whose `init`    *)
(* wipes STORE_BASE.                                                       *)
(***************************************************************************)
EXTENDS Integers, Sequences, FiniteSets, FiniteSetsExt

CONSTANTS
    NumNodes,      \* length of NODE_INFO; node ids are its positions
    Leader,        \* TIMER_CK_ID, the node that runs timer_checkpoint
    ReqIds,        \* node ids the unix-socket clients may send
    MaxOps,        \* bound on requests and timer firings, cluster-wide
    MaxVersion,    \* bound on the watched process's progress
    MaxRestarts,   \* bound on guard restarts, cluster-wide
    CriuMayFail,   \* criu dump / restore may return non-zero
    RsyncMayFail   \* an rsync to a peer may fail (peer unreachable)

Nodes == 0 .. NumNodes - 1
Execs == {"inner", "outer", "timer"}
Cmds == {"checkpoint", "restore"}
Local == -1                      \* job.from of a job not received over HTTP
Rounds == 0 .. MaxOps
Versions == 0 .. MaxVersion
Imgs == [node : Nodes, ver : Versions]
NoImg == [node |-> Local, ver |-> 0]
Archives == [round : Rounds, img : Imgs]
Reqs == [from : Nodes, seq : 1 .. MaxOps, cmd : Cmds, id : ReqIds]
NoJob(n) == [from |-> Local, seq |-> 0, cmd |-> "checkpoint", id |-> n]
NoResp == [seq |-> 0, status |-> "none"]
Status == {"none", "ok", "error", "reset"}
CriuOutcomes == IF CriuMayFail THEN BOOLEAN ELSE {TRUE}

VARIABLES
    pc,        \* pc[n][e]: next step of executor e of node n's guard
    job,       \* job[n][e]: the request e is serving
    staged,    \* staged[n][e]: the image in e's tmpDir
    proc,      \* proc[n]: node n's watched process
    store,     \* store[n]: the archives in node n's STORE_BASE
    inbox,     \* inbox[n]: connections queued at node n's outer server
    resp,      \* resp[n]: the HTTP answer to node n's inner handler
    client,    \* client[n]: what node n's unix-socket client got back
    restarts,  \* guard restarts so far
    ops        \* requests and timer firings so far

vars == <<pc, job, staged, proc, store, inbox, resp, client, restarts, ops>>

-----------------------------------------------------------------------------
(* Helpers                                                                 *)

\* Python's NODE_INFO[node_id]: a negative id counts from the end, an id
\* past the end raises IndexError.
InRange(id) == -NumNodes <= id /\ id < NumNodes
Position(id) == IF id < 0 THEN id + NumNodes ELSE id

\* The nodes RSYNC_CMD names: every entry of NODE_INFO whose ip_address is
\* not self_ip (one node per ip address).
Peers(n) == Nodes \ {n}

\* getMaxCheckPointID: the largest N of a checkpoint_N.zip, 0 when none.
MaxCheckPointID(n) == Max({a.round : a \in store[n]} \cup {0})

Busy(n, e) == pc[n][e] \notin {"idle", "dead"}

Goto(n, e, s) == pc' = [pc EXCEPT ![n][e] = s]

Admit == ops < MaxOps /\ ops' = ops + 1

\* The answer to node k's routed request seq reaches it only while that
\* connection is open: k's inner handler still waits in make_req for seq.
Waits(k, seq) == pc[k]["inner"] = "route_wait" /\ job[k]["inner"].seq = seq

Answer(k, seq, status) ==
    IF Waits(k, seq)
    THEN [resp EXCEPT ![k] = [seq |-> seq, status |-> status]]
    ELSE resp

OpStart(cmd) == IF cmd = "checkpoint" THEN "ck_dump" ELSE "rs_find"

\* The end of an operation.  The inner handler answers its client (or its
\* exception closes the socket unanswered), the outer handler's WSGI server
\* sends the body (or a 500 page after an exception), and an exception in
\* the timer thread ends the timer chain.
Finish(n, e, ok) ==
    /\ pc' = [pc EXCEPT ![n][e] = IF e = "timer" /\ ~ok THEN "dead" ELSE "idle"]
    /\ client' = IF e = "inner"
                 THEN [client EXCEPT ![n] = IF ok THEN "answered" ELSE "dropped"]
                 ELSE client
    /\ resp' = IF e = "outer"
               THEN Answer(job[n][e].from, job[n][e].seq, IF ok THEN "ok" ELSE "error")
               ELSE resp
    /\ staged' = [staged EXCEPT ![n][e] = NoImg]
    /\ job' = [job EXCEPT ![n][e] = NoJob(n)]

Return(n, e) == Finish(n, e, TRUE)
Raise(n, e) == Finish(n, e, FALSE)

-----------------------------------------------------------------------------
(* Faults: mutated forms of definitions below                             *)

NextRoundSkip(n) == MaxCheckPointID(n) + 2

AcceptedOkOnly(status) == status = "ok"

-----------------------------------------------------------------------------
(* The guard's handlers                                                    *)

\* InnerHandler.handle: a well-formed "cmd node_id round_id" line.  Its own
\* id is served by inner_service in the handler; any other id is routed.
\* getIPbyID's except clause formats with "..."(node_id, ...), a call of a
\* string, so an id past NODE_INFO raises TypeError and the client gets no
\* answer.
InnerRequest(n) ==
    /\ pc[n]["inner"] = "idle"
    /\ Admit
    /\ \E cmd \in Cmds, id \in ReqIds :
          LET req == [from |-> n, seq |-> ops + 1, cmd |-> cmd, id |-> id]
          IN  /\ job' = [job EXCEPT ![n]["inner"] = IF InRange(id) THEN req ELSE NoJob(n)]
              /\ CASE id = n ->
                        /\ Goto(n, "inner", OpStart(cmd))
                        /\ client' = [client EXCEPT ![n] = "waiting"]
                        /\ UNCHANGED inbox
                   [] InRange(id) ->
                        /\ Goto(n, "inner", "route_wait")
                        /\ inbox' = [inbox EXCEPT ![Position(id)] = Append(@, req)]
                        /\ client' = [client EXCEPT ![n] = "waiting"]
                   [] OTHER ->
                        /\ client' = [client EXCEPT ![n] = "dropped"]
                        /\ UNCHANGED <<pc, inbox>>
    /\ UNCHANGED <<staged, proc, store, resp, restarts>>

\* make_req returns once urlopen has read the body; an HTTP error status or
\* a reset connection raises out of route and the handler.
Accepted(status) == status \in {"ok", "error", "reset"}

RouteRecv(n) ==
    /\ pc[n]["inner"] = "route_wait"
    /\ resp[n].seq = job[n]["inner"].seq
    /\ Accepted(resp[n].status)
    /\ pc' = [pc EXCEPT ![n]["inner"] = "idle"]
    /\ job' = [job EXCEPT ![n]["inner"] = NoJob(n)]
    /\ resp' = [resp EXCEPT ![n] = NoResp]
    /\ client' = [client EXCEPT ![n] = IF resp[n].status = "ok"
                                       THEN "answered" ELSE "dropped"]
    /\ UNCHANGED <<staged, proc, store, inbox, restarts, ops>>

\* The single-threaded WSGI server takes the next queued connection.
\* outer_checkpoint/outer_restore run the operation when node_id is
\* SELF_ID; otherwise they log "access deny" and still send their body.
OuterServe(m) ==
    /\ pc[m]["outer"] = "idle"
    /\ inbox[m] /= << >>
    /\ LET req == Head(inbox[m]) IN
          /\ inbox' = [inbox EXCEPT ![m] = Tail(@)]
          /\ IF req.id = m
             THEN /\ Goto(m, "outer", OpStart(req.cmd))
                  /\ job' = [job EXCEPT ![m]["outer"] = req]
                  /\ UNCHANGED resp
             ELSE /\ resp' = Answer(req.from, req.seq, "ok")
                  /\ UNCHANGED <<pc, job>>
    /\ UNCHANGED <<staged, proc, store, client, restarts, ops>>

\* timer_checkpoint on node TIMER_CK_ID.
TimerCheckpoint(n) ==
    /\ n = Leader
    /\ pc[n]["timer"] = "idle"
    /\ Admit
    /\ Goto(n, "timer", "ck_dump")
    /\ job' = [job EXCEPT ![n]["timer"] = [from |-> Local, seq |-> ops + 1,
                                           cmd |-> "checkpoint", id |-> n]]
    /\ UNCHANGED <<staged, proc, store, inbox, resp, client, restarts>>

-----------------------------------------------------------------------------
(* inner_checkpoint and inner_restore, cut where other nodes can observe   *)

\* mkdtemp, send_disconnect_cmd, reset_pid, generate_fd_index and criu
\* dump.  A dead process's stale pid makes listdir raise; a failed dump
\* returns, leaving the process disconnected.
CkDump(n, e) ==
    /\ pc[n][e] = "ck_dump"
    /\ IF proc[n].alive
       THEN \E ok \in CriuOutcomes :
              IF ok
              THEN /\ proc' = [proc EXCEPT ![n] = [@ EXCEPT !.alive = FALSE,
                                                              !.connected = FALSE]]
                   /\ staged' = [staged EXCEPT ![n][e] = [node |-> n, ver |-> proc[n].ver]]
                   /\ Goto(n, e, "ck_archive")
                   /\ UNCHANGED <<job, client, resp>>
              ELSE /\ proc' = [proc EXCEPT ![n].connected = FALSE]
                   /\ Return(n, e)
       ELSE /\ Raise(n, e)
            /\ UNCHANGED proc
    /\ UNCHANGED <<store, inbox, restarts, ops>>

\* getNextBaseName: one past the largest round in the store.
NextRound(n) == MaxCheckPointID(n) + 1

\* pack_ext_res, make_archive under the next name (replacing a file of that
\* name), rmtree of tmpDir.
CkArchive(n, e) ==
    /\ pc[n][e] = "ck_archive"
    /\ LET r == NextRound(n) IN
          store' = [store EXCEPT ![n] = {a \in @ : a.round /= r}
                                         \cup {[round |-> r, img |-> staged[n][e]]}]
    /\ Goto(n, e, "ck_rsync")
    /\ UNCHANGED <<job, staged, proc, inbox, resp, client, restarts, ops>>

\* RSYNC_CMD: "rsync -aP --delete STORE_BASE user@ip:/tmp" for every peer,
\* joined by ";": each peer's STORE_BASE becomes a copy of this one, its own
\* archives included in what --delete removes.  A peer that cannot be
\* reached is skipped.  Then inner_restore is called.
RsyncThenRestore(n, e) ==
    /\ Goto(n, e, "rs_find")
    /\ UNCHANGED <<job, staged, client, resp>>

CkRsync(n, e) ==
    /\ pc[n][e] = "ck_rsync"
    /\ \E reached \in SUBSET Peers(n) :
          /\ RsyncMayFail \/ reached = Peers(n)
          /\ store' = [k \in Nodes |-> IF k \in reached THEN store[n] ELSE store[k]]
    /\ RsyncThenRestore(n, e)
    /\ UNCHANGED <<proc, inbox, restarts, ops>>

\* inner_restore with no checkpoint_<max>.zip: log and return.
MissingArchive(n, e) ==
    /\ Return(n, e)
    /\ UNCHANGED proc

\* getCurrBaseName, mkdtemp, exists check, extractall.  round_id is unused.
RsFind(n, e) ==
    /\ pc[n][e] = "rs_find"
    /\ IF store[n] /= {}
       THEN LET newest == CHOOSE a \in store[n] : a.round = MaxCheckPointID(n)
            IN  /\ staged' = [staged EXCEPT ![n][e] = newest.img]
                /\ Goto(n, e, "rs_restore")
                /\ UNCHANGED <<job, proc, client, resp>>
       ELSE MissingArchive(n, e)
    /\ UNCHANGED <<store, inbox, restarts, ops>>

\* pkill -9, unpack_ext_res, criu restore (failure only logged), rmtree,
\* reset_pid, send_reconnect_cmd; the restored process carries the image's
\* state, whichever node dumped it.
RsRestore(n, e) ==
    /\ pc[n][e] = "rs_restore"
    /\ \E ok \in CriuOutcomes :
          proc' = [proc EXCEPT ![n] = IF ok
                     THEN [alive |-> TRUE, ver |-> staged[n][e].ver, connected |-> TRUE]
                     ELSE [alive |-> FALSE, ver |-> proc[n].ver, connected |-> FALSE]]
    /\ Return(n, e)
    /\ UNCHANGED <<store, inbox, restarts, ops>>

-----------------------------------------------------------------------------
(* Environment                                                             *)

\* The watched process serves clients between checkpoints.
ProcessWork(n) ==
    /\ proc[n].alive /\ proc[n].connected
    /\ proc[n].ver < MaxVersion
    /\ proc' = [proc EXCEPT ![n].ver = @ + 1]
    /\ UNCHANGED <<pc, job, staged, store, inbox, resp, client, restarts, ops>>

\* The guard on node n dies and is started again.  __main__ forks new
\* inner and outer processes and init() deletes and recreates STORE_BASE.
\* Connections queued at or being served by the old outer server are reset;
\* a client of the old inner server is left unanswered.  The watched
\* process is not touched.
Restart(n) ==
    /\ restarts < MaxRestarts
    /\ restarts' = restarts + 1
    /\ LET waiting == {inbox[n][i] : i \in 1 .. Len(inbox[n])}
                      \cup (IF Busy(n, "outer") THEN {job[n]["outer"]} ELSE {})
       IN  resp' = [k \in Nodes |->
                      IF k = n THEN NoResp
                      ELSE IF \E q \in waiting : q.from = k /\ Waits(k, q.seq)
                           THEN [seq |-> job[k]["inner"].seq, status |-> "reset"]
                           ELSE resp[k]]
    /\ pc' = [pc EXCEPT ![n] = [e \in Execs |-> "idle"]]
    /\ staged' = [staged EXCEPT ![n] = [e \in Execs |-> NoImg]]
    /\ store' = [store EXCEPT ![n] = {}]
    /\ inbox' = [inbox EXCEPT ![n] = << >>]
    /\ client' = [client EXCEPT ![n] = IF Busy(n, "inner") THEN "dropped" ELSE @]
    /\ job' = [job EXCEPT ![n] = [e \in Execs |-> NoJob(n)]]
    /\ UNCHANGED <<proc, ops>>

-----------------------------------------------------------------------------

Init ==
    /\ pc = [n \in Nodes |-> [e \in Execs |-> "idle"]]
    /\ job = [n \in Nodes |-> [e \in Execs |-> NoJob(n)]]
    /\ staged = [n \in Nodes |-> [e \in Execs |-> NoImg]]
    /\ proc = [n \in Nodes |-> [alive |-> TRUE, ver |-> 0, connected |-> TRUE]]
    /\ store = [n \in Nodes |-> {}]
    /\ inbox = [n \in Nodes |-> << >>]
    /\ resp = [n \in Nodes |-> NoResp]
    /\ client = [n \in Nodes |-> "idle"]
    /\ restarts = 0
    /\ ops = 0

\* One step of executor e of node n.
Step(n, e) ==
    \/ CkDump(n, e) \/ CkArchive(n, e) \/ CkRsync(n, e)
    \/ RsFind(n, e) \/ RsRestore(n, e)
    \/ e = "inner" /\ RouteRecv(n)
    \/ e = "outer" /\ OuterServe(n)

Next ==
    \/ \E n \in Nodes :
          \/ InnerRequest(n) \/ TimerCheckpoint(n)
          \/ ProcessWork(n) \/ Restart(n)
          \/ \E e \in Execs : Step(n, e)

Spec == Init /\ [][Next]_vars

\* The servers loop in serve_forever and the executors' steps are local
\* code that ends, so each executor of each node is weakly fair.  Requests,
\* timer firings, the process's work and restarts come from outside and
\* are not.
FairSpec == Spec /\ \A n \in Nodes, e \in Execs : WF_vars(Step(n, e))

-----------------------------------------------------------------------------
(* Properties                                                              *)

TypeOK ==
    /\ pc \in [Nodes -> [Execs -> {"idle", "dead", "route_wait", "ck_dump",
                  "ck_archive", "ck_rsync", "rs_find", "rs_restore"}]]
    /\ proc \in [Nodes -> [alive : BOOLEAN, ver : Versions, connected : BOOLEAN]]
    /\ store \in [Nodes -> SUBSET Archives]
    /\ inbox \in [Nodes -> Seq(Reqs)]
    /\ client \in [Nodes -> {"idle", "waiting", "answered", "dropped"}]


\* A routed request does not block the inner handler forever: make_req
\* returns (or raises) whatever the owner's outer server does with the
\* request, including a restart of that guard.
RoutedAnswered ==
    \A n \in Nodes : pc[n]["inner"] = "route_wait" ~> pc[n]["inner"] = "idle"

InnerReplies ==
    \A n \in Nodes : client[n] /= "dropped"

\* spec.md: the next round number strictly increases on a node and never
\* reuses a number already used there.  rsync --delete replaces a peer's
\* STORE_BASE, so its largest round can go down.
RoundsMonotonic ==
    [][\A n \in Nodes : MaxCheckPointID(n)' >= MaxCheckPointID(n)]_store

=============================================================================
