--------------------------- MODULE AgentLifecycle ---------------------------
(***************************************************************************)
(* The life of one assistant: its agents row, the Deployment and Service   *)
(* that carry it, and the cached reading of its status.                    *)
(*                                                                         *)
(* Each operation is an actor's walk through a fixed series of places: one *)
(* call to the cluster, or one commit, per place (After gives the order).  *)
(* The endpoints written as coroutines have no await between those places, *)
(* so that one runs at a time; the others, the sidebar's refresh among     *)
(* them, run on threads, as does the worker that stops idle assistants.    *)
(* Every operation loads the row once and writes its own outcome over      *)
(* whatever the row holds by then.                                         *)
(***************************************************************************)
EXTENDS Naturals, FiniteSets

CONSTANTS
    User,           \* requests in flight at once
    Sidebar,        \* a browser that keeps GET /api/agents/status going
    Worker,         \* the idle agent stop worker
    Operations,     \* bound: the operations that take place
    MaxFaults,      \* bound: cluster calls that fail or whose answer is lost
    MaxCrashes      \* bound: restarts of the Portal

Actor == User \cup {Sidebar, Worker}

Ops   == {"create", "start", "stop", "restart", "update", "rollout", "delete", "poll",
          "refresh", "idle"}

ASSUME ActorsAssumption ==
    Sidebar \notin User /\ Worker \notin User /\ Sidebar # Worker
ASSUME BoundsAssumption ==
    Operations \subseteq Ops /\ MaxFaults \in Nat /\ MaxCrashes \in Nat

VARIABLES
    row,        \* the agents row: status; last_activity_at within the idle limit
    cluster,    \* the Deployment and the Service
    cache,      \* runtime_status_cache
    busy,       \* the assistant has an active task
    sess,       \* per actor: the operation, where it is, what it has read
    faults, crashes

vars == <<row, cluster, cache, busy, sess, faults, crashes>>

-----------------------------------------------------------------------------
(* Types *)

Statuses    == {"creating", "restarting", "running", "stopped", "deleting", "failed"}
RowStatuses == Statuses \cup {"absent", "gone"}
Deployments == {"none", "zero", "pending", "ready", "stuck"}
Cluster     == [deployment : Deployments, service : BOOLEAN]

\* What the cache may hold
NoReading == "none"
Readings  == Statuses \cup {NoReading}

Calls  == {"patch", "patchsvc", "scale1", "annotate", "scale0", "deploy", "expose",
           "undeploy", "unserve"}
Places == Calls \cup {"idle", "check", "look", "read", "put", "save", "invalidate", "erase"}
Session == [op : Ops \cup {"none"}, at : Places, copy : RowStatuses, seen : Readings,
            ok : BOOLEAN]
Idle    == [op |-> "none", at |-> "idle", copy |-> "absent", seen |-> NoReading,
            ok |-> TRUE]

TypeOK ==
    /\ row \in [status : RowStatuses, recent : BOOLEAN]
    /\ cluster \in Cluster
    /\ cache \in Readings
    /\ busy \in BOOLEAN
    /\ sess \in [Actor -> Session]
    /\ faults \in 0 .. MaxFaults
    /\ crashes \in 0 .. MaxCrashes

Present == row.status \in Statuses

-----------------------------------------------------------------------------
(* Beginning an operation *)

Init ==
    /\ row = [status |-> "absent", recent |-> FALSE]
    /\ cluster = [deployment |-> "none", service |-> FALSE]
    /\ cache = NoReading
    /\ busy = FALSE
    /\ sess = [p \in Actor |-> Idle]
    /\ faults = 0
    /\ crashes = 0

\* utils/state_machine.py
AllowedTransitions ==
    [creating   |-> {"running", "failed", "deleting"},
     running    |-> {"restarting", "stopped", "failed", "deleting"},
     stopped    |-> {"restarting", "running", "failed", "deleting"},
     failed     |-> {"restarting", "running", "deleting"},
     restarting |-> {"running", "failed", "stopped", "deleting"},
     deleting   |-> {}]

CanTransition(target) == target \in AllowedTransitions[row.status]

\* What an operation asks of the row before it begins
May(op) ==
    \/ op = "create" /\ row.status = "absent"
    \/ /\ Present
       /\ \/ op = "start" /\ CanTransition("running")
          \/ op = "stop" /\ CanTransition("stopped")
          \/ op = "restart" /\ row.status \in {"running", "stopped", "failed"}
          \/ op = "rollout" /\ row.status = "running"
          \/ op = "idle" /\ row.status = "running" /\ ~row.recent
          \/ op \in {"update", "delete", "poll", "refresh"}

\* The coroutines; what they do up to their end is one step of the event loop.
Async == {"create", "start", "restart", "update", "poll"}

First == [create |-> "deploy", start |-> "patch", stop |-> "scale0", restart |-> "patch",
          update |-> "patch", rollout |-> "check", idle |-> "check",
          delete |-> "invalidate", poll |-> "read", refresh |-> "look"]

\* The row is created as "creating", and is "deleting" before anything is
\* deleted.
Begin(p, op) ==
    LET loaded == CASE op = "create" -> "creating"
                    [] op = "delete" -> "deleting"
                    [] OTHER         -> row.status
    IN
    /\ op \in Operations /\ sess[p].op = "none" /\ May(op)
    /\ op \in Async => \A q \in Actor : sess[q].op \notin Async
    /\ row' = [status |-> loaded, recent |-> row.recent \/ op = "create"]
    /\ sess' = [sess EXCEPT ![p] = [Idle EXCEPT !.op = op, !.at = First[op], !.copy = loaded]]
    /\ UNCHANGED <<cluster, cache, busy, faults, crashes>>

\* From place to place; "idle" ends the operation.
After(op, at) ==
    CASE at = "deploy"     -> "expose"
      [] at = "check"      -> IF op = "idle" THEN "scale0" ELSE "patch"
      [] at = "patch"      -> "patchsvc"
      [] at = "patchsvc"   -> IF op = "update" THEN "idle" ELSE "scale1"
      [] at = "scale1"     -> IF op = "start" THEN "save" ELSE "annotate"
      [] at = "undeploy"   -> "unserve"
      [] at = "unserve"    -> "erase"
      [] at = "invalidate" -> IF op = "delete" THEN "undeploy" ELSE "idle"
      [] at = "save"       -> IF op \in {"start", "stop", "restart"} THEN "invalidate" ELSE "idle"
      [] OTHER             -> "save"

GoesTo(s, at) == IF at = "idle" THEN Idle ELSE [s EXCEPT !.at = at]
Moved(s)      == GoesTo(s, After(s.op, s.at))

-----------------------------------------------------------------------------
(* Calls to the cluster *)

\* What a call makes of the cluster; nothing, when the object it names is not
\* there.  A new pod template starts a rollout; creating what exists is no error.
Effects(call, c) ==
    LET Deployment(ds) == {[c EXCEPT !.deployment = d] : d \in ds}
        Service(b)     == {[c EXCEPT !.service = b]}
        There          == c.deployment # "none"
        Up             == c.deployment \notin {"none", "zero"}
    IN
    CASE call = "deploy"   -> Deployment({IF There THEN c.deployment ELSE "pending"})
      [] call = "expose"   -> Service(TRUE)
      [] call = "patch"    -> IF There
                              THEN Deployment({c.deployment} \cup IF Up THEN {"pending"} ELSE {})
                              ELSE {}
      [] call = "scale1"   -> IF There THEN Deployment({IF Up THEN c.deployment ELSE "pending"}) ELSE {}
      [] call = "annotate" -> IF There THEN Deployment({IF Up THEN "pending" ELSE "zero"}) ELSE {}
      [] call = "scale0"   -> IF There THEN Deployment({"zero"}) ELSE {}
      [] call = "undeploy" -> IF There THEN Deployment({"none"}) ELSE {}
      [] call = "patchsvc" -> IF c.service THEN {c} ELSE {}
      [] call = "unserve"  -> IF c.service THEN Service(FALSE) ELSE {}

\* Start scales whatever the patch did; restart, update, the rollout and the
\* worker leave the status alone; the others write "failed".
Failed(s) ==
    CASE s.op = "start" /\ s.at \in {"patch", "patchsvc"} -> [s EXCEPT !.at = "scale1"]
      [] s.op \in {"restart", "update", "rollout", "idle"} -> Idle
      [] OTHER -> [s EXCEPT !.at = "save", !.ok = FALSE]

\* One call; "refused" is what the operation does when the object is not there.
CallOf(p, refused) ==
    LET s      == sess[p]
        result == Effects(s.at, cluster)
    IN
    /\ s.at \in Calls
    /\ \/ /\ \E c \in result : cluster' = c
          /\ sess' = [sess EXCEPT ![p] = Moved(s)]
          /\ UNCHANGED faults
       \/ /\ result = {}
          /\ sess' = [sess EXCEPT ![p] = refused]
          /\ UNCHANGED <<cluster, faults>>
       \/ /\ faults < MaxFaults /\ faults' = faults + 1
          /\ \E c \in result \cup {cluster} : cluster' = c
          /\ sess' = [sess EXCEPT ![p] = Failed(s)]
    /\ UNCHANGED <<row, cache, busy, crashes>>

\* Mutant: deleting what is not there counts as done.
CallForgiving(p) ==
    CallOf(p, IF sess[p].op = "delete" THEN Moved(sess[p]) ELSE Failed(sess[p]))

Call(p) == CallOf(p, Failed(sess[p]))

-----------------------------------------------------------------------------
(* Status readings *)

\* Mutant: a Deployment that is not there has a status of its own.
ReadingMissing(deployment, status) ==
    IF deployment = "none" THEN "missing" ELSE "creating"

\* get_agent_runtime_status; a rollout reads as the row's own "restarting"
Reading(deployment, status) ==
    CASE deployment = "zero"    -> "stopped"
      [] deployment = "ready"   -> "running"
      [] deployment = "pending" -> IF status = "restarting" THEN "restarting" ELSE "creating"
      [] OTHER                  -> "failed"

\* A hit in the cache
Hit(p) ==
    /\ sess[p].at = "look" /\ cache # NoReading
    /\ sess' = [sess EXCEPT ![p] = [@ EXCEPT !.at = "save", !.seen = cache]]
    /\ UNCHANGED <<row, cluster, cache, busy, faults, crashes>>

\* A miss, or the single-assistant endpoint, which does not look; an error of
\* any kind reads as "failed".
Read(p) ==
    LET Sees(status) == sess' = [sess EXCEPT ![p] = [@ EXCEPT !.at = "put", !.seen = status]] IN
    /\ sess[p].at = "read" \/ (sess[p].at = "look" /\ cache = NoReading)
    /\ \/ Sees(Reading(cluster.deployment, sess[p].copy)) /\ UNCHANGED faults
       \/ faults < MaxFaults /\ faults' = faults + 1 /\ Sees("failed")
    /\ UNCHANGED <<row, cluster, cache, busy, crashes>>

Put(p) ==
    /\ sess[p].at = "put"
    /\ cache' = sess[p].seen
    /\ sess' = [sess EXCEPT ![p] = Moved(@)]
    /\ UNCHANGED <<row, cluster, busy, faults, crashes>>

Invalidate(p) ==
    /\ sess[p].at = "invalidate"
    /\ cache' = NoReading
    /\ sess' = [sess EXCEPT ![p] = Moved(@)]
    /\ UNCHANGED <<row, cluster, busy, faults, crashes>>

\* Mutant: a reading is kept for ever.
ExpireNever == FALSE /\ UNCHANGED vars

\* The time to live of the entry is over.
Expire ==
    /\ cache # NoReading
    /\ cache' = NoReading
    /\ UNCHANGED <<row, cluster, busy, sess, faults, crashes>>

-----------------------------------------------------------------------------
(* The row *)

\* The idle worker and the rollout leave a busy assistant alone.
CheckFor(p, stops) ==
    /\ sess[p].at = "check"
    /\ sess' = [sess EXCEPT ![p] = IF stops THEN Idle ELSE Moved(@)]
    /\ UNCHANGED <<row, cluster, cache, busy, faults, crashes>>

\* Mutant: the test is the wrong way round.
CheckInverted(p) == CheckFor(p, ~busy)

Check(p) == CheckFor(p, busy)

Outcome(s) ==
    CASE ~s.ok                        -> "failed"
      [] s.op = "create"              -> "creating"
      [] s.op = "start"               -> "running"
      [] s.op \in {"stop", "idle"}    -> "stopped"
      [] s.op \in {"restart", "rollout"} -> "restarting"
      [] OTHER                        -> s.seen

\* The status is written when it differs from the one loaded; saving a row
\* that is gone raises, which ends the operation.
Save(p) ==
    LET s == sess[p] IN
    /\ s.at = "save"
    /\ row' = IF ~Present THEN row
              ELSE [status |-> IF Outcome(s) = s.copy THEN row.status ELSE Outcome(s),
                    recent |-> row.recent \/ s.op \in {"start", "restart"}]
    /\ sess' = [sess EXCEPT ![p] = IF Present THEN Moved(s) ELSE Idle]
    /\ UNCHANGED <<cluster, cache, busy, faults, crashes>>

\* The last step of a deletion
Erase(p) ==
    /\ sess[p].at = "erase"
    /\ row' = [row EXCEPT !.status = "gone"]
    /\ sess' = [sess EXCEPT ![p] = Idle]
    /\ UNCHANGED <<cluster, cache, busy, faults, crashes>>

-----------------------------------------------------------------------------
(* The surroundings *)

\* Pods get ready, or not; they are evicted, they crash, they recover.
Moves(deployment) ==
    CASE deployment = "pending" -> {"ready", "stuck"}
      [] deployment = "ready"   -> {"pending"}
      [] deployment = "stuck"   -> {"ready"}
      [] OTHER                  -> {}

ClusterMoves ==
    /\ \E d \in Moves(cluster.deployment) : cluster' = [cluster EXCEPT !.deployment = d]
    /\ UNCHANGED <<row, cache, busy, sess, faults, crashes>>

\* touch_agent_activity, a plain UPDATE; and the idle limit passing.  Only the
\* idle worker looks.
Activity ==
    /\ Present /\ "idle" \in Operations
    /\ row' = [row EXCEPT !.recent = ~@]
    /\ UNCHANGED <<cluster, cache, busy, sess, faults, crashes>>

\* A task of the assistant begins or ends (TaskDispatch); for those who check.
TaskActivity ==
    /\ Present /\ Operations \cap {"idle", "rollout"} # {}
    /\ busy' = ~busy
    /\ UNCHANGED <<row, cluster, cache, sess, faults, crashes>>

Crash ==
    /\ crashes < MaxCrashes /\ crashes' = crashes + 1
    /\ sess' = [p \in Actor |-> Idle]
    /\ cache' = NoReading
    /\ UNCHANGED <<row, cluster, busy, faults>>

-----------------------------------------------------------------------------

Proceed(p) == \/ Call(p) \/ Check(p) \/ Hit(p) \/ Read(p) \/ Put(p)
              \/ Save(p) \/ Invalidate(p) \/ Erase(p)

Refresh  == Begin(Sidebar, "refresh")
AutoStop == Begin(Worker, "idle")

Next ==
    \/ \E p \in Actor : Proceed(p)
    \/ \E u \in User, op \in Ops \ {"refresh", "idle"} : Begin(u, op)
    \/ Refresh \/ AutoStop
    \/ Expire \/ ClusterMoves \/ Activity \/ TaskActivity \/ Crash

Spec == Init /\ [][Next]_vars

\* Threads and requests run on, the entry expires, a browser keeps refreshing
\* and the worker's rounds come round.
FairSpec ==
    /\ Spec
    /\ \A p \in Actor : WF_vars(Proceed(p))
    /\ WF_vars(Expire) /\ WF_vars(Refresh) /\ WF_vars(AutoStop)

\* And the deletion of an assistant is asked for again and again.
DeletingSpec == FairSpec /\ WF_vars(\E u \in User : Begin(u, "delete"))

-----------------------------------------------------------------------------
(* Properties *)

\* When the row of an assistant is gone nothing of it is left in the cluster:
\* neither a create still under way nor a retried or doubled deletion can leave
\* a Deployment or a Service that no row names any more.
NoOrphan == row.status = "gone" => cluster = [deployment |-> "none", service |-> FALSE]

\* Once the cluster is calm and nobody operates on the assistant any more, the
\* row comes to say what the cluster says, whatever races of starts, stops and
\* refreshes with old readings wrote into it before.
Shown(deployment) == {Reading(deployment, status) : status \in Statuses}
RowFollowsCluster ==
    \A d \in Deployments :
        <>[](/\ Present /\ cluster.deployment = d
             /\ \A p \in Actor : sess[p].op \in {"none", "poll", "refresh", "idle"})
            => <>[](row.status \in Shown(d))

\* No assistant is idle and shown as running for ever: the worker stops it
\* ("once it has had no user traffic", idle_agent_stop_worker.py:3-4).
IdleIsStopped == []<>~(row.status = "running" /\ ~row.recent /\ ~busy)

\* Deleting an assistant removes its record (BEGINNER_GUIDE.md:306).
DeleteRemoves == row.status = "deleting" ~> row.status = "gone"
=============================================================================
