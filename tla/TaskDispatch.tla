---------------------------- MODULE TaskDispatch ----------------------------
(***************************************************************************)
(* The life of an agent task row: created, queued, claimed by a background *)
(* dispatcher thread, submitted to the runtime of its assistant, polled,   *)
(* reconciled, cancelled and run again.                                    *)
(*                                                                         *)
(* Every actor works on the row through an SQLAlchemy session of its own.  *)
(* Session.get() answers from the session's identity map while the loaded  *)
(* instance is not expired, a commit expires it, and a flush writes only   *)
(* the columns whose value differs from the loaded one.  The copy an actor *)
(* loaded is therefore part of the state (sess[p].row), and every write    *)
(* goes through Flush.                                                     *)
(***************************************************************************)
EXTENDS Naturals, FiniteSets

CONSTANTS
    Task,           \* agent_tasks rows (ids)
    Thread,         \* background dispatch threads that can be alive at once
    User,           \* API requests in flight at once
    Worker,         \* the task reconcile worker
    NoTask,         \* sess[p].task of an actor that has no task
    RunOutcomes,    \* what a run in the runtime can end with
    MaxAttempts,    \* bound: how often a row is queued (create + reruns)
    MaxCrashes,     \* bound: Portal process restarts
    MaxFaults,      \* bound: lost requests, answers and runs
    Requests,       \* bound: the kinds of request users send
    MayDelete       \* bound: the assignee may be deleted

SettledStatuses == {"done", "failed", "blocked", "stale", "cancelled",
                    "pending_restart", "cancel_failed"}
ActiveStatuses  == {"queued", "running"}
LateIgnored     == {"stale", "cancelled"}

Actor   == Thread \cup User \cup {Worker}
Attempt == 1 .. MaxAttempts

ASSUME ActorsAssumption ==
    /\ Thread \cap User = {} /\ Worker \notin Thread \cup User
    /\ NoTask \notin Task
ASSUME BoundsAssumption ==
    /\ MaxAttempts \in Nat \ {0} /\ MaxCrashes \in Nat /\ MaxFaults \in Nat
    /\ MayDelete \in BOOLEAN
    /\ Requests \subseteq {"create", "dispatch", "rerun", "cancel"}
ASSUME OutcomesAssumption == RunOutcomes \subseteq SettledStatuses

VARIABLES
    task,       \* the agent_tasks table
    attempt,    \* how often the row was queued: the input its columns describe
    exec,       \* the row's agent_executions entry: none, active, ended
    agent,      \* the assignee's agents row exists
    sess,       \* per actor: program counter, session copy, pending outcome
    batch,      \* the worker's list of active tasks and the copies it loaded
    run,        \* the runtime's record under the task id
    aged,       \* latest attempt whose stale grace window has elapsed
    posts,      \* history: execute requests sent for each attempt
    claimed,    \* history: attempts whose claim UPDATE hit the row
    withdrawn,  \* history: attempts cancelled while still queued
    crashes, faults

vars == <<task, attempt, exec, agent, sess, batch, run, aged, posts, claimed,
          withdrawn, crashes, faults>>
histories == <<posts, claimed, withdrawn>>

-----------------------------------------------------------------------------
(* Types *)

RowStatuses  == {"absent"} \cup ActiveStatuses \cup SettledStatuses
ExecStatuses == {"none", "active", "ended"}
RunStatuses  == {"none", "running", "cancelled"} \cup RunOutcomes

\* "started" is started_at, as the attempt during which it was set; 0 is NULL.
Row     == [status : RowStatuses, started : 0 .. MaxAttempts]
NoRow   == [status |-> "absent", started |-> 0]

Places  == {"idle", "load", "enqueue", "claim", "submit", "answered", "ack",
            "poll", "apply", "settle", "mark", "withdraw", "cancel", "reset",
            "schedule", "sweep", "probe"}
Session == [at : Places, task : Task \cup {NoTask}, row : Row,
            claim : 0 .. MaxAttempts, outcome : RowStatuses, report : ExecStatuses]
Idle    == [at |-> "idle", task |-> NoTask, row |-> NoRow, claim |-> 0,
            outcome |-> "absent", report |-> "none"]
Batch   == [todo : SUBSET Task, rows : [Task -> Row], expired : BOOLEAN]
NoBatch == [todo |-> {}, rows |-> [t \in Task |-> NoRow], expired |-> FALSE]

TypeOK ==
    /\ task \in [Task -> Row]
    /\ attempt \in [Task -> 0 .. MaxAttempts]
    /\ exec \in [Task -> ExecStatuses]
    /\ agent \in BOOLEAN
    /\ sess \in [Actor -> Session]
    /\ \A p \in Actor : sess[p].at # "idle" /\ p # Worker => sess[p].task \in Task
    /\ sess[Worker].at \in {"probe", "apply", "settle", "mark"} => sess[Worker].task \in Task
    /\ batch \in Batch
    /\ run \in [Task -> RunStatuses]
    /\ aged \in [Task -> 0 .. MaxAttempts]
    /\ posts \in [Task -> [Attempt -> Nat]]
    /\ claimed \in [Task -> SUBSET Attempt]
    /\ withdrawn \in [Task -> SUBSET Attempt]
    /\ crashes \in 0 .. MaxCrashes
    /\ faults \in 0 .. MaxFaults

-----------------------------------------------------------------------------
(* The session and the registry *)

\* What a commit leaves in the table: the columns the actor changed with
\* respect to the copy it had loaded, over whatever the table holds now.
Flush(stored, loaded, assigned) ==
    LET Kept(is, was, becomes) == IF becomes = was THEN is ELSE becomes
    IN  [status  |-> Kept(stored.status, loaded.status, assigned.status),
         started |-> Kept(stored.started, loaded.started, assigned.started)]

\* started_at = started_at or now
Started(row, now) ==
    IF row.started = 0 THEN [row EXCEPT !.started = now] ELSE row

\* task.status = status, as _apply_runtime_outcome_to_task assigns it
WithOutcome(row, status, now) ==
    LET settled == [row EXCEPT !.status = status]
    IN  IF status = "running" THEN Started(settled, now) ELSE settled

\* _task_status_to_execution_status, up to ACTIVE_/TERMINAL_EXECUTION_STATUSES
ExecStatus(status) == IF status \in ActiveStatuses THEN "active" ELSE "ended"

\* mark_task_execution_status_best_effort: no execution row, nothing to mark
Marked(e, report) == IF e = "none" THEN e ELSE report

\* Faulty: the window never elapses.
GraceNever(t, row) == FALSE

\* started_at (or updated_at) lies before the stale grace window
GraceElapsed(t, row) ==
    (IF row.started # 0 THEN row.started ELSE attempt[t]) <= aged[t]

\* task_repo.save(): flush, commit, refresh; the actor goes on at "next".  Of
\* the refreshed copy only the status is used, to mark the execution row.
Save(p, assigned, next) ==
    LET t      == sess[p].task
        stored == Flush(task[t], sess[p].row, assigned)
    IN  /\ task' = [task EXCEPT ![t] = stored]
        /\ sess' = [sess EXCEPT ![p] = [Idle EXCEPT
                !.at = next, !.task = t, !.report = ExecStatus(stored.status),
                !.claim = IF next = "ack" THEN sess[p].claim ELSE 0,
                !.outcome = IF next = "ack" THEN sess[p].outcome ELSE "absent"]]

\* An outcome is known and is written next, with ("apply") or without ("settle")
\* a look at the copy.
Settles(p, place, outcome) ==
    sess' = [sess EXCEPT ![p] = [@ EXCEPT !.at = place, !.outcome = outcome]]

\* The worker goes back to its list, every other actor's session is closed.
Over(p) == IF p = Worker THEN [Idle EXCEPT !.at = "sweep"] ELSE Idle

IdleThread(th) == sess[th].at = "idle"
Spawned(t)     == [Idle EXCEPT !.at = "load", !.task = t]

-----------------------------------------------------------------------------
(* API requests *)

Init ==
    /\ task = [t \in Task |-> NoRow]
    /\ attempt = [t \in Task |-> 0]
    /\ exec = [t \in Task |-> "none"]
    /\ agent = TRUE
    /\ sess = [p \in Actor |-> Idle]
    /\ batch = NoBatch
    /\ run = [t \in Task |-> "none"]
    /\ aged = [t \in Task |-> 0]
    /\ posts = [t \in Task |-> [k \in Attempt |-> 0]]
    /\ claimed = [t \in Task |-> {}]
    /\ withdrawn = [t \in Task |-> {}]
    /\ crashes = 0
    /\ faults = 0

\* A request opens a session, loads the row and decides where to go.
Begin(u, t, place) ==
    sess' = [sess EXCEPT ![u] = [Idle EXCEPT !.at = place, !.task = t,
                                             !.row = task[t]]]

\* POST /api/agent-tasks/async goes on to schedule the row; POST
\* /api/agent-tasks leaves it queued.
Create(u, t) ==
    /\ sess[u].at = "idle" /\ task[t].status = "absent" /\ agent
    /\ task' = [task EXCEPT ![t] = [status |-> "queued", started |-> 0]]
    /\ attempt' = [attempt EXCEPT ![t] = 1]
    /\ \/ sess' = [sess EXCEPT ![u] = [Idle EXCEPT !.at = "schedule", !.task = t]]
       \/ UNCHANGED sess
    /\ UNCHANGED <<exec, agent, batch, run, aged, histories, crashes, faults>>

\* POST .../dispatch
RequestDispatch(u, t) ==
    /\ sess[u].at = "idle" /\ agent /\ task[t].status = "queued"
    /\ sess' = [sess EXCEPT ![u] = [Idle EXCEPT !.at = "schedule", !.task = t]]
    /\ UNCHANGED <<task, attempt, exec, agent, batch, run, aged, histories, crashes, faults>>

\* The end of create, dispatch, rerun and follow-up: reset the execution row to
\* queued and start a background thread.
Schedule(u, th) ==
    /\ sess[u].at = "schedule" /\ IdleThread(th)
    /\ exec' = [exec EXCEPT ![sess[u].task] = "active"]
    /\ sess' = [sess EXCEPT ![u] = Idle, ![th] = Spawned(sess[u].task)]
    /\ UNCHANGED <<task, attempt, agent, batch, run, aged, histories, crashes, faults>>

\* POST .../rerun and .../followups: the row and its chain must not be active.
\* The chain query returns the instance already loaded.
RequestRerun(u, t) ==
    /\ sess[u].at = "idle" /\ task[t].status \in SettledStatuses
    /\ attempt[t] < MaxAttempts
    /\ Begin(u, t, "reset")
    /\ UNCHANGED <<task, attempt, exec, agent, batch, run, aged, histories, crashes, faults>>

\* _reset_task_for_dispatch, save.
Reset(u) ==
    LET t == sess[u].task IN
    /\ sess[u].at = "reset" /\ attempt[t] < MaxAttempts
    /\ Save(u, [status |-> "queued", started |-> 0], "schedule")
    /\ attempt' = [attempt EXCEPT ![t] = @ + 1]
    /\ UNCHANGED <<exec, agent, batch, run, aged, histories, crashes, faults>>

\* POST .../cancel: a settled row is returned as it is.
RequestCancel(u, t) ==
    /\ sess[u].at = "idle"
    /\ \/ task[t].status = "queued" /\ Begin(u, t, "withdraw")
       \/ task[t].status = "running" /\ agent /\ Begin(u, t, "cancel")
    /\ UNCHANGED <<task, attempt, exec, agent, batch, run, aged, histories, crashes, faults>>

\* "Task was cancelled before it started."
Withdraw(u) ==
    LET t == sess[u].task IN
    /\ sess[u].at = "withdraw"
    /\ Save(u, [sess[u].row EXCEPT !.status = "cancelled"], "mark")
    /\ withdrawn' = IF task[t].status = "queued"
                    THEN [withdrawn EXCEPT ![t] = @ \cup {attempt[t]}]
                    ELSE withdrawn
    /\ UNCHANGED <<attempt, exec, agent, batch, run, aged, posts, claimed, crashes, faults>>

\* The request ends in an error and leaves the row alone, unless the runtime is
\* unreachable, or has no such task, after the grace window.
CancelRefused(u)     == sess' = [sess EXCEPT ![u] = Idle]
CancelUnreachable(u) == IF GraceElapsed(sess[u].task, sess[u].row)
                        THEN Settles(u, "settle", "stale") ELSE CancelRefused(u)

PostCancel(u) ==
    LET t == sess[u].task IN
    /\ sess[u].at = "cancel"
    /\ \/ /\ run[t] = "running"
          /\ \/ /\ run' = [run EXCEPT ![t] = "cancelled"]
                /\ Settles(u, "apply", "cancelled")
             \/ Settles(u, "apply", "cancel_failed") /\ UNCHANGED run
             \/ CancelRefused(u) /\ UNCHANGED run
          /\ UNCHANGED faults
       \/ /\ run[t] \notin {"none", "running"}
          /\ Settles(u, "apply", run[t])
          /\ UNCHANGED <<run, faults>>
       \/ run[t] = "none" /\ CancelUnreachable(u) /\ UNCHANGED <<run, faults>>
       \/ /\ faults < MaxFaults /\ faults' = faults + 1
          /\ CancelUnreachable(u)
          /\ run' \in {run, [run EXCEPT ![t] = IF @ = "running" THEN "cancelled" ELSE @]}
    /\ UNCHANGED <<task, attempt, exec, agent, batch, aged, histories, crashes>>

-----------------------------------------------------------------------------
(* The background dispatcher: dispatch_task *)

\* The first read: only a queued row with an assignee is dispatched.
Load(th) ==
    LET t == sess[th].task IN
    /\ sess[th].at = "load"
    /\ sess' = [sess EXCEPT ![th] =
            IF task[t].status # "queued" THEN Idle
            ELSE IF agent THEN [@ EXCEPT !.at = "enqueue"]
            ELSE [@ EXCEPT !.row = task[t], !.at = "settle", !.outcome = "failed"]]
    /\ UNCHANGED <<task, attempt, exec, agent, batch, run, aged, histories, crashes, faults>>

\* upsert_task_execution_queued_best_effort commits, so the row is loaded again
\* for its input payload; a bad payload or runtime URL fails the task.
Enqueue(th) ==
    LET t == sess[th].task IN
    /\ sess[th].at = "enqueue"
    /\ exec' = [exec EXCEPT ![t] = "active"]
    /\ \/ sess' = [sess EXCEPT ![th] = [@ EXCEPT !.at = "claim"]]
       \/ sess' = [sess EXCEPT ![th] = [@ EXCEPT !.row = task[t], !.at = "settle",
                                                 !.outcome = "failed"]]
    /\ UNCHANGED <<task, attempt, agent, batch, run, aged, histories, crashes, faults>>

\* UPDATE ... SET status = 'running', started_at = now WHERE id = ? AND status = 'queued',
\* for the statuses the WHERE clause lets through
ClaimOf(th, statuses, started) ==
    LET t == sess[th].task IN
    /\ sess[th].at = "claim"
    /\ IF task[t].status \in statuses
       THEN /\ task' = [task EXCEPT ![t] = [status |-> "running", started |-> started]]
            /\ sess' = [sess EXCEPT ![th] = [Spawned(t) EXCEPT
                            !.at = "submit", !.claim = attempt[t]]]
            /\ claimed' = [claimed EXCEPT ![t] = @ \cup {attempt[t]}]
       ELSE /\ sess' = [sess EXCEPT ![th] = Idle]
            /\ UNCHANGED <<task, claimed>>
    /\ UNCHANGED <<attempt, exec, agent, batch, run, aged, posts, withdrawn, crashes, faults>>
\* Faulty: no test of the status; the row may be running; or cancelled; a start
\* in the future.
ClaimUnguarded(th)  == ClaimOf(th, RowStatuses, attempt[sess[th].task])
ClaimActive(th)     == ClaimOf(th, ActiveStatuses, attempt[sess[th].task])
ClaimWithdrawn(th)  == ClaimOf(th, {"queued", "cancelled"}, attempt[sess[th].task])
ClaimInFuture(th)   == ClaimOf(th, {"queued"}, attempt[sess[th].task] + 1)

Claim(th) == ClaimOf(th, {"queued"}, attempt[sess[th].task])

\* The claimed row is loaded, then POST /api/tasks/execute.  A non-2xx answer
\* is an outcome like any other; a lost request or answer raises.
Submit(th) ==
    LET t == sess[th].task
        Goes(at, outcome) ==
            sess' = [sess EXCEPT ![th] = [@ EXCEPT !.at = at, !.row = task[t],
                                                   !.outcome = outcome]]
    IN
    /\ sess[th].at = "submit"
    /\ posts' = [posts EXCEPT ![t][sess[th].claim] = @ + 1]
    /\ \/ /\ run' = [run EXCEPT ![t] = "running"]
          /\ Goes("answered", "absent")
          /\ UNCHANGED faults
       \/ /\ \E o \in RunOutcomes :
                run' = [run EXCEPT ![t] = o] /\ Goes("answered", o)
          /\ UNCHANGED faults
       \/ /\ faults < MaxFaults /\ faults' = faults + 1
          /\ \/ run' = [run EXCEPT ![t] = "running"] /\ Goes("apply", "failed")
             \/ Goes("apply", "failed") /\ UNCHANGED run
             \/ Goes("answered", "failed") /\ UNCHANGED run
    /\ UNCHANGED <<task, attempt, exec, agent, batch, aged, claimed, withdrawn, crashes>>

\* The answer is recorded: status running, save.
Answered(th) ==
    LET t == sess[th].task IN
    /\ sess[th].at = "answered"
    /\ IF sess[th].row.status \in LateIgnored
       THEN sess' = [sess EXCEPT ![th] = Idle] /\ UNCHANGED task
       ELSE Save(th, WithOutcome(sess[th].row, "running", attempt[t]), "ack")
    /\ UNCHANGED <<attempt, exec, agent, batch, run, aged, histories, crashes, faults>>

\* The execution row is marked, which commits: the row is loaded again, before
\* the polling starts.
Acknowledge(th) ==
    LET t == sess[th].task IN
    /\ sess[th].at = "ack"
    /\ exec' = [exec EXCEPT ![t] = Marked(@, sess[th].report)]
    /\ sess' = [sess EXCEPT ![th] =
            IF sess[th].outcome = "absent"
            THEN [Spawned(t) EXCEPT !.at = "poll", !.row = task[t]]
            ELSE [@ EXCEPT !.at = "apply", !.row = task[t], !.report = "none"]]
    /\ UNCHANGED <<task, attempt, agent, batch, run, aged, histories, crashes, faults>>

\* GET /api/tasks/{id} until the run is over; pending answers, errors and
\* non-2xx answers are polled again, an answer that makes no sense fails the
\* task.  The session is not used meanwhile.
Poll(th) ==
    LET t == sess[th].task IN
    /\ sess[th].at = "poll"
    /\ \/ run[t] \notin {"none", "running"} /\ Settles(th, "apply", run[t]) /\ UNCHANGED faults
       \/ faults < MaxFaults /\ faults' = faults + 1 /\ Settles(th, "apply", "failed")
    /\ UNCHANGED <<task, attempt, exec, agent, batch, run, aged, histories, crashes>>

\* The polling window elapsed: the task is left to the worker as running.
HandOff(th) ==
    /\ sess[th].at = "poll"
    /\ IF sess[th].row.status \in LateIgnored
       THEN sess' = [sess EXCEPT ![th] = Idle] /\ UNCHANGED task
       ELSE Save(th, WithOutcome(sess[th].row, "running", attempt[sess[th].task]), "mark")
    /\ UNCHANGED <<attempt, exec, agent, batch, run, aged, histories, crashes, faults>>

-----------------------------------------------------------------------------
(* Writing an outcome: every actor *)

\* get_by_id, the late-result check and _apply_runtime_outcome_to_task (or
\* _mark_task_failed).  get_by_id answers from the session, so the check is on
\* the copy.  cancel_task's check is on a copy loaded as running: it says the
\* same.
Apply(p) ==
    LET s == sess[p] IN
    /\ s.at = "apply"
    /\ IF s.row.status \in LateIgnored
       THEN sess' = [sess EXCEPT ![p] = Over(p)] /\ UNCHANGED task
       ELSE Save(p, WithOutcome(s.row, s.outcome, attempt[s.task]), "mark")
    /\ UNCHANGED <<attempt, exec, agent, batch, run, aged, histories, crashes, faults>>

\* The same without a check: failures before the claim, a missing assignee, a
\* runtime unreachable or without the task beyond the grace window.
Settle(p) ==
    LET s == sess[p] IN
    /\ s.at = "settle"
    /\ Save(p, WithOutcome(s.row, s.outcome, attempt[s.task]), "mark")
    /\ UNCHANGED <<attempt, exec, agent, batch, run, aged, histories, crashes, faults>>

Mark(p) ==
    LET s == sess[p] IN
    /\ s.at = "mark"
    /\ exec' = [exec EXCEPT ![s.task] = Marked(@, s.report)]
    /\ sess' = [sess EXCEPT ![p] = Over(p)]
    /\ batch' = IF p = Worker THEN [batch EXCEPT !.expired = TRUE] ELSE batch
    /\ UNCHANGED <<task, attempt, agent, run, aged, histories, crashes, faults>>

-----------------------------------------------------------------------------
(* The reconcile worker: AgentTaskReconcileWorker, reconcile_running_task *)

\* One session per round: the active rows are loaded with the list.
StartRound ==
    LET active == {t \in Task : task[t].status \in ActiveStatuses} IN
    /\ sess[Worker].at = "idle" /\ active # {}
    /\ batch' = [todo |-> active, rows |-> task, expired |-> FALSE]
    /\ sess' = [sess EXCEPT ![Worker].at = "sweep"]
    /\ UNCHANGED <<task, attempt, exec, agent, run, aged, histories, crashes, faults>>

\* Faulty: queued rows are left to the thread their request started.
SweepRunningOnly ==
    /\ sess[Worker].at = "sweep" /\ batch.todo # {}
    /\ \E t \in batch.todo :
        LET row == IF batch.expired THEN task[t] ELSE batch.rows[t] IN
        /\ batch' = [batch EXCEPT !.todo = @ \ {t}]
        /\ IF row.status = "running"
           THEN sess' = [sess EXCEPT ![Worker] =
                    [Idle EXCEPT !.at = "probe", !.task = t, !.row = row]]
           ELSE UNCHANGED sess
    /\ UNCHANGED <<task, attempt, exec, agent, run, aged, histories, crashes, faults>>

\* The next row of the round, as loaded with the list unless a commit of this
\* round has expired it.  A queued row gets a background dispatch.
Sweep ==
    /\ sess[Worker].at = "sweep" /\ batch.todo # {}
    /\ \E t \in batch.todo :
        LET row == IF batch.expired THEN task[t] ELSE batch.rows[t]
            Goes(place, outcome) ==
                [Idle EXCEPT !.at = place, !.task = t, !.row = row, !.outcome = outcome]
        IN
        /\ batch' = [batch EXCEPT !.todo = @ \ {t}]
        /\ \/ /\ row.status = "queued"
              /\ \E th \in Thread : IdleThread(th) /\ sess' = [sess EXCEPT ![th] = Spawned(t)]
           \/ /\ row.status = "running"
              /\ sess' = [sess EXCEPT ![Worker] =
                     IF agent THEN Goes("probe", "absent") ELSE Goes("settle", "failed")]
           \/ row.status \in SettledStatuses /\ UNCHANGED sess
    /\ UNCHANGED <<task, attempt, exec, agent, run, aged, histories, crashes, faults>>

EndRound ==
    /\ sess[Worker].at = "sweep" /\ batch.todo = {}
    /\ sess' = [sess EXCEPT ![Worker] = Idle]
    /\ batch' = NoBatch
    /\ UNCHANGED <<task, attempt, exec, agent, run, aged, histories, crashes, faults>>

\* GET /api/tasks/{id}: no answer and 404 settle the row as stale after the
\* grace window; before it, and for a 5xx, only the execution row is marked.  An
\* answer that makes no sense fails the task.
Probe ==
    LET w == sess[Worker]
        t == w.task
        StillRunning == sess' = [sess EXCEPT ![Worker] =
                            [Idle EXCEPT !.at = "mark", !.task = t, !.report = "active"]]
        Missing == IF GraceElapsed(t, w.row)
                   THEN Settles(Worker, "settle", "stale") ELSE StillRunning
    IN
    /\ w.at = "probe"
    /\ \/ run[t] = "none" /\ Missing /\ UNCHANGED <<task, faults>>
       \/ /\ run[t] = "running"
          /\ Save(Worker, Started(w.row, attempt[t]), "mark")
          /\ UNCHANGED faults
       \/ /\ run[t] \notin {"none", "running"}
          /\ Settles(Worker, "apply", run[t])
          /\ UNCHANGED <<task, faults>>
       \/ /\ faults < MaxFaults /\ faults' = faults + 1
          /\ Missing \/ StillRunning \/ Settles(Worker, "apply", "failed")
          /\ UNCHANGED task
    /\ UNCHANGED <<attempt, exec, agent, batch, run, aged, histories, crashes>>

-----------------------------------------------------------------------------
(* The surroundings *)

\* The runtime ends a run.
RunEnds(t) ==
    /\ run[t] = "running"
    /\ \E o \in RunOutcomes : run' = [run EXCEPT ![t] = o]
    /\ UNCHANGED <<task, attempt, exec, agent, sess, batch, aged, histories, crashes, faults>>

\* The runtime restarts and forgets a task: 404 from now on.
RunLost(t) ==
    /\ run[t] # "none"
    /\ faults < MaxFaults /\ faults' = faults + 1
    /\ run' = [run EXCEPT ![t] = "none"]
    /\ UNCHANGED <<task, attempt, exec, agent, sess, batch, aged, histories, crashes>>

\* The grace window of the current attempt elapses.  It is counted from the
\* claim, and longer (300 s by default) than the execute request of that attempt
\* can take (30 s).
Age(t) ==
    /\ aged[t] < attempt[t] /\ task[t].status # "queued"
    /\ \A th \in Thread : ~(sess[th].task = t /\ sess[th].claim = attempt[t])
    /\ aged' = [aged EXCEPT ![t] = attempt[t]]
    /\ UNCHANGED <<task, attempt, exec, agent, sess, batch, run, histories, crashes, faults>>

\* The assignee is deleted.
DeleteAgent ==
    /\ agent /\ MayDelete
    /\ agent' = FALSE
    /\ UNCHANGED <<task, attempt, exec, sess, batch, run, aged, histories, crashes, faults>>

\* The Portal process dies with every session, thread and request in it.
Crash ==
    /\ crashes < MaxCrashes
    /\ crashes' = crashes + 1
    /\ sess' = [p \in Actor |-> Idle]
    /\ batch' = NoBatch
    /\ UNCHANGED <<task, attempt, exec, agent, run, aged, histories, faults>>

-----------------------------------------------------------------------------
(* Specification *)

ThreadStep(th) == \/ Load(th) \/ Enqueue(th) \/ Claim(th) \/ Submit(th)
                  \/ Answered(th) \/ Acknowledge(th) \/ Poll(th) \/ HandOff(th)
                  \/ Apply(th) \/ Settle(th) \/ Mark(th)
WorkerStep     == \/ StartRound \/ Sweep \/ EndRound \/ Probe
                  \/ Apply(Worker) \/ Settle(Worker) \/ Mark(Worker)
\* The steps that finish a request, and those that begin one.
RequestStep(u) == \/ \E th \in Thread : Schedule(u, th)
                  \/ Reset(u) \/ Withdraw(u) \/ PostCancel(u)
                  \/ Apply(u) \/ Settle(u) \/ Mark(u)
Request(u)     == \E t \in Task :
                    \/ "create" \in Requests /\ Create(u, t)
                    \/ "dispatch" \in Requests /\ RequestDispatch(u, t)
                    \/ "rerun" \in Requests /\ RequestRerun(u, t)
                    \/ "cancel" \in Requests /\ RequestCancel(u, t)
Surroundings   == \/ \E t \in Task : RunEnds(t) \/ RunLost(t) \/ Age(t)
                  \/ DeleteAgent \/ Crash

Next == \/ \E th \in Thread : ThreadStep(th)
        \/ WorkerStep
        \/ \E u \in User : RequestStep(u) \/ Request(u)
        \/ Surroundings

Spec == Init /\ [][Next]_vars

\* Threads, the worker and requests under way run on (they are OS threads and
\* coroutines with bounded waits); a polling window elapses; a run ends or is
\* lost; time passes.  Nobody has to send a request, delete or crash anything.
Fairness ==
    /\ \A th \in Thread : WF_vars(ThreadStep(th))
    /\ WF_vars(WorkerStep)
    /\ \A u \in User : WF_vars(RequestStep(u))
    /\ \A t \in Task : WF_vars(RunEnds(t)) /\ WF_vars(Age(t))

FairSpec == Spec /\ Fairness

-----------------------------------------------------------------------------
(* Properties *)

\* An attempt is submitted to the runtime at most once, whoever schedules it
\* (request, worker, both at once, again after a restart): the claim is taken
\* by one thread only, and a thread submits once per claim.
SubmittedOnce == \A t \in Task : \A k \in Attempt : posts[t][k] <= 1

\* A task cancelled while the table still said queued never reaches the
\* runtime, however far dispatchers that had loaded it as queued have come.
WithdrawnNeverSubmitted ==
    \A t \in Task : \A k \in withdrawn[t] : posts[t][k] = 0

\* A queued task does not wait forever: what a crash or a lost thread leaves
\* queued, the worker dispatches.
QueuedIsServed == \A t \in Task :
    task[t].status = "queued" ~> task[t].status # "queued"

\* An active task is settled in the end, through restarts of the Portal and of
\* the runtime, lost requests and answers, and threads that gave up.
ActiveSettles == \A t \in Task :
    task[t].status \in ActiveStatuses ~> task[t].status \in SettledStatuses

\* The attempts of every task keep the books of AttemptLedger.
Ledger == [t \in Task |-> [k \in Attempt |->
    IF k > attempt[t] THEN "unborn"
    ELSE IF k \in claimed[t] THEN "claimed"
    ELSE IF k = attempt[t] /\ task[t].status = "queued" THEN "open" ELSE "closed"]]

Books == INSTANCE AttemptLedger WITH ledger <- Ledger
KeepsTheBooks == Books!LedgerSpec
=============================================================================
