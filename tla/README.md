# Verification of the Engineering Flow Platform Portal

This directory holds TLA+ models of the Portal in `src/app`, the TLC
configurations that check them on small instances, and TLAPS proofs about them.
The Portal is a FastAPI application over SQLite. It creates AI assistants
("agents") as Kubernetes Deployments, sends them tasks and chats over HTTP,
watches sources (Jira, GitHub, mail) for work to delegate to them, and keeps
books about what they did.

One Portal process runs at a time, but a great deal runs inside it:

* endpoints written with `async def` run on the event loop and are atomic
  between two `await`s;
* endpoints written with `def` run on a pool of threads;
* five background workers have threads of their own (delegations, task
  reconciliation, idle stop, usage rollup, connector defaults);
* every dispatched task gets a thread.

All of them meet in the database and in the cluster. Each opens an SQLAlchemy
session (`autoflush=False`); a session answers `get()` from the copy it has
loaded until a commit expires it, and a flush writes only the columns that
differ from the copy. Most of what is hard in this program follows from that:
decisions are made on copies, and writes land on rows that have moved on.

## Contents

| file | what it is |
|---|---|
| `TaskDispatch.tla` | the life of an agent task: API, dispatcher threads, reconcile worker, runtime |
| `AttemptLedger.tla` | what task dispatch promises of the attempts of a task (abstract specification) |
| `TaskDispatch_proofs.tla` | typing, at most one submission, withdrawn attempts, refinement of the ledger |
| `UsageRollup.tla` | the daily usage sums and the retention of executions |
| `AgentLifecycle.tla` | one assistant: row, Deployment and Service, cached status |
| `AgentLifecycle_proofs.tla` | typing, no orphan in the cluster |
| `DelegationRule.tla` | one delegation rule: runs, the items of its source, their tasks and replies |
| `EventLedger.tla` | what delegation promises of an item: tasked once, then answered (abstract specification) |
| `DelegationRule_proofs.tla` | typing, one task per item, refinement of the ledger |
| `ProfileRollout.tla` | a settings row, the Default connectors, the Secret, restarts and what pods booted with |
| `ProfileRollout_proofs.tla` | typing, nothing runs ahead of the row, a revision stands for its settings |
| `ModelChoices.tla` | which models, thinking levels and context sizes are offered and accepted |
| `ModelCatalog.tla` | the catalog in memory, in the table and as registered for validation |
| `ProfileSettings.tla` | what a settings row may hold: reading, shaping, hiding and sealing it |
| `SettingsForm.tla` | what a posted Connectors form makes of a row |
| `RuntimeProjection.tla` | what a row becomes outside the database: proxies, the pod's config, states, tests |
| `Settings.tla` | the settings pages as a whole, with the properties of their forms and readers |
| `SettingsShapes.tla` | the shapes the proofs about settings speak of |
| `Settings_proofs.tla` | what is stored was read by the sanitizer, connections follow the Proxy connector, readers of a row agree, no answer gives a secret away, a stored row is read as it is, what a form's checks let pass the sanitizer keeps |
| `ErrorLog.tla`, `SessionShares.tla`, `ChatRun.tla`, `SessionMetadata.tla` | services beside the core, one module each |
| `DelegationSources.tla`, `DelegationForm.tla` | what a delegation finds; every write of its row |
| `Members.tla` | accounts, allowlist, roles, sign-in |
| `Records_proofs.tla` | of `SessionMetadata`, `SessionShares`, `ChatRun`, `UsageRollup`: a deleted session stays deleted, shared answers are recent, rows tell their runs, sums survive the deletion of what they count |
| `Administration_proofs.tla` | of `Members`, `ModelCatalog`, `ErrorLog`: administrators and roles are kept, what is offered is accepted, counts of errors add up |
| `Delegations_proofs.tla` | of `DelegationSources`, `DelegationForm`: work is what was asked, a rule stays runnable |
| `MC*.tla`, `*.cfg` | the instances TLC checks |
| `PROJECT.json` | components, runs, mutants, map from definitions to source lines, findings, hazards, theorems |

## Inventory

For each part: its state, its operations, whom it meets, what is hard about it,
and what makes it correct.

**Task lifecycle** (`services/task_dispatcher.py`, `api/agent_tasks.py`,
`services/agent_task_reconcile_worker.py`, `repositories/agent_task_repo.py`).
State: `agent_tasks` rows (`status`, `started_at`, ...), the dispatcher threads,
the runtime's record under the task id. Operations: create, dispatch, rerun,
follow-up, cancel; the thread's claim, submission, polling and hand-off; the
worker's sweep and probe. It meets the execution registry (a row beside each
task), the runtime (HTTP) and delegations (which create tasks and hear of their
end). Hard: several threads per queued row; claims against cancels and reruns;
lost requests and answers; restarts; late results; copies that are not
reloaded. Correct when an attempt reaches the runtime at most once, a
cancelled one never, and everything queued or running is settled in the end.

**Execution registry** (`services/agent_execution_registry.py`,
`repositories/agent_execution_repo.py`). State: `agent_executions`. Operations:
open, acknowledge, heartbeat, mark, requeue, all "best effort". Read by the idle
and the rollout checks (`agent_busy`) and by the usage sums. Hard: saved apart
from the task row, so the two may disagree.

**Usage rollup** (`services/usage_rollup_service.py`, `usage_rollup_worker.py`).
State: `usage_daily_rollups`, the throttle of the panel. Operations: rollup of a
day (read, then replace), hourly window, prune with deletion, refresh on
demand. Hard: the panel and the worker replace the same sums from readings of
different ages; executions finish late; a pass may be cut short anywhere.
Correct when a deleted execution is in the sums of its day for ever, and a run
that has ended gets into them.

**Agent lifecycle** (`api/agents.py`, `services/k8s_service.py`,
`runtime_status_cache.py`, `idle_agent_stop_worker.py`, `agent_activity.py`).
State: the `agents` row, the Deployment and the Service, the cached reading.
Operations: create, start, stop, restart, update, delete, single and batch
status, idle stop. Hard: every operation is a series of cluster calls any of
which may fail, and ends by writing its own outcome over the row; refreshes
write what they read some time ago. Correct when nothing stays in the cluster
without a row, the row comes to say what the cluster says, idle assistants are
stopped and active ones are not.

**Delegations** (`services/delegation_worker.py`, `delegation_rule_service.py`,
`delegation_reply_service.py`, `repositories/delegation_rule_repo.py`,
`api/delegation_rules.py`). State: rules (schedule, lock, `state_json`), events
(one per source item: found, claimed, task created, replied), runs. Operations:
create, edit, enable, pause, delete, run now; the worker's locked run; the reply
after a task. Hard: a manual run takes no lock; claims go stale after five
minutes; three parties answer items; a run writes back the state it loaded.
Correct when an item found gets one task, its end gets a reply, a due rule is
run, and deletion is final.

**Delegation schedule, source configuration, pollers**
(`delegation_schedule.py`, `delegation_source_config.py`,
`delegation_source_pollers.py`, `schemas/delegation_rule.py`). State: the columns
of the rule that the form writes, `next_run_at` among them. Operations: create,
patch, delete, Run now, the end of a run; a poll of GitHub, Jira or the timer in
several HTTP calls. Hard: each request works out the row from its own copy;
people go on while a source is read. Correct when a rule that is on keeps a next
run of its own schedule, what was asked for is found once, and the assistant's
own words never start work.

**Profile rollout** (`runtime_profile_service.py`,
`runtime_profile_secret_service.py`, `agent_busy.py`, the `connector_*` services).
State: profile revision and configuration, one Secret per profile, the revision
each agent has applied. Operations: save, sync the Secret, restart who runs and
is not busy, apply on the next start. Hard: concurrent saves, Secrets written in
another order than revisions, busy checks before a restart, best-effort writes.
Correct when an agent shown as up to date runs with the configuration saved
last.

**Connectors and settings forms** (`web.py`, `schemas/runtime_profile.py`,
`connector_registry.py`, `runtime_profile_*_projection.py`,
`runtime_profile_test_service.py`). State: the settings document of a member.
Operations: post a form (fields and cards), replace the document, read it for the
list, a test, the Secret or a prompt. Hard: every reader rewrites what it reads;
cards are renamed, removed and reordered; blank means keep in one place and
clear in another. Correct when a reader gets what was saved, a form touches its
own connector only, secrets are never shown, and all readers agree.

**Model catalog and choices** (`model_catalog_service.py`,
`inference_settings_service.py`). State: the catalog in memory, in the table, and
registered for validation; time stamps of the last look and the last failure.
Hard: three kinds of requests load, fetch and store it at once. Correct when the
picker and the validator read the same list.

**Session shares** (`session_share_service.py`, `share_transcripts.py`,
`share_pages.py`). State: shares, a transcript cache with one flight per token.
Hard: who opens a link may wait for a read begun by another, and for one that a
refresh has overtaken. Correct when nobody sees a transcript older than the
cache allows, a refresh shows what the runtime had after the click, and everyone
who waits is answered.

**Session metadata** (`agent_session_metadata_repo.py`,
`internal_session_metadata.py`). State: a row per chat session. Hard: the runtime
publishes it whole while a member renames, configures and deletes it. Correct
when a deleted session stays deleted and nothing saved is lost.

**Error log** (`error_log_service.py`). State: rows with counts, a queue, a writer
thread, a budget per minute. Hard: counts are bumped from copies; the writer dies,
is stopped and replaced. Correct when every record is in a count, or counted as
dropped.

**Chat proxy** (`api/proxy.py`, the observer in `agent_execution_registry.py`).
State: an execution row per chat. Hard: streams break, end without a final
event, or lose their reader; the row is written best effort. Correct when the row
says what became of the run and nothing reaches the runtime that only the Portal
may vouch for.

**Members** (`api/users.py`, `access_control_service.py`,
`external_login_service.py`, `copilot_auth_service.py`). State: accounts,
allowlist, device flows. Hard: administrators change members at once, beside
sign-ins that create the account. Correct when the bootstrap administrator keeps
its access and roles follow the allowlist.

**Mobile API, capability catalog, git branch cache, help, locale, administration,
usage panels, work overview, password sign-in, schema guard**:
request-response code over single rows, pure formatting or read-only queries.
`PROJECT.json` lists each with the reason it is not modelled.

## How the models relate to the code

Common conventions. An actor is a thread, a request or a worker; `sess[p]` (or
`pass[p]`) is its program counter with the copies it has loaded. One action is
what happens between two points at which another actor may come in: a commit, an
HTTP call, a call to the cluster, an `await`. Operators named as mutants or
`Faulty` are never used by `Next`; `PROJECT.json` substitutes each for the
definition beside it to show that the property it is paired with can fail.

### TaskDispatch and AttemptLedger

| model | code |
|---|---|
| `task[t]` = status, started | `agent_tasks.status`, `.started_at` |
| `exec[t]` | the latest `agent_executions` row of the task |
| `sess[p].row` | the ORM instance in the actor's session |
| `Flush`, `Save` | `AgentTaskRepository.save`: only changed columns are written |
| `Create`, `RequestDispatch`, `RequestRerun`, `Reset`, `Schedule`, `RequestCancel`, `Withdraw`, `PostCancel` | `api/agent_tasks.py` and `cancel_task` |
| `Load` ... `HandOff` | `dispatch_task`, up to the end of the polling window |
| `Apply`, `Settle`, `Mark` | `_apply_runtime_outcome_to_task`, `_mark_task_failed`, the registry |
| `StartRound`, `Sweep`, `Probe`, `EndRound` | the reconcile worker, `reconcile_running_task` |
| `RunEnds`, `RunLost`, `Age` | the runtime, its restarts, the stale grace window |

`started` holds the attempt during which `started_at` was set, and `aged` the
latest attempt whose grace window is over: the comparison of times becomes a
comparison of attempts. `posts`, `claimed` and `withdrawn` are history.

Assumed: the grace window (300 s by default) is longer than the execute request
(30 s); the runtime keeps one record per task id; rows are `agent_async_task`
rows, the only ones the worker looks at.

`AttemptLedger` says what is promised of the attempts of a task: an attempt
opens, and ends once, claimed or closed. `KeepsTheBooks` is the refinement, with
the ledger computed from the row and the history of claims.

### UsageRollup

| model | code |
|---|---|
| `runs[r]` = status, day | `agent_executions`: status, day of `created_at` |
| `sums[d]` = counted, finished | the rollup rows of a day: which runs and which ends they count |
| `Refresh`, `Lapse` | `refresh_recent` and its throttle |
| `RollUpRecent`, `PlanPrune`, `DeleteOld` | the worker's pass: `rollup_recent`, `prune_executions` |
| `ReadDay`, `WriteDay` | `rollup_day`: the SELECT; from the DELETE to the commit |
| `Begin`, `Finish`, `Requeue` | the registry |
| `Abort` | an exception, or a restart, in the middle of a pass |

Sums are sets of runs instead of numbers: a number that could be wrong is a set
that lacks or keeps a member. Assumed: a pass takes less than a day. A run may
stay active, or be run again, however old it is: `late` is history and names the
runs that were active past the retention.

### AgentLifecycle

| model | code |
|---|---|
| `row` = status, recent | `agents.status`, `.last_activity_at` within the idle limit |
| `cluster` | the Deployment (none, zero, pending, ready, stuck) and the Service |
| `cache` | `runtime_status_cache`, one entry |
| `First`, `After` | the order of calls in each operation |
| `Effects`, `Call`, `Failed` | `K8sService`, and what each operation does when a call fails |
| `Reading` | `get_agent_runtime_status` |
| `Hit`, `Read`, `Put`, `Expire`, `Invalidate` | batch and single status, the cache |
| `Check` | the busy checks of the idle worker and of the profile rollout |
| `Save`, `Erase` | the commit of the outcome; the deletion of the row |

Endpoints that are coroutines without an `await` exclude one another (`Async`).
Left out: no-op mode (`K8S_ENABLED=false`), sharing, the contents of the pod
template, the limit of 100 rows per round of the idle worker.

### DelegationRule and EventLedger

| model | code |
|---|---|
| `rule` = enabled, next, locked, state | `delegation_rules`: `enabled`, `next_run_at`, `locked_until`, the `deleted` flag in `state_json` |
| `event[i]`, `stale`, `older` | `delegation_rule_events.status`, and its `updated_at` where it matters: claims over 300 s old, the order of the reply list |
| `task[i]`, `live[i]` | the newest `agent_tasks` row of the item; how many of its rows were not cancelled |
| `sess[p].copy` | `state_json` in the session's instance of the rule; `Loaded` when a commit has expired it |
| `Acquire`, `RunOnce`, `Lapse`, `Tick` | the worker's round and lease, `POST .../run-once`, time |
| `Answer`, `Record`, `EndReplies` | `_process_pending_replies`, by a run or by the thread of a finished task (`TaskEnds`) |
| `Poll`, `Discover`, `Claim`, `Look`, `Create`, `Link` | the source, `_create_task_for_source_item` |
| `EndItems`, `Finish`, `Fail` | the end of `run_rule_once` |
| `Pause`, `Enable`, `Delete` | `update_rule`, `delete_delegation_rule` |

Assumed: less than 300 s pass between the claim of an item and the link of its
task (`Age`); the database does not fail, nor the start of a dispatcher thread;
between a run's last look at the rule and its commit nothing comes in; the rule
keeps its source and its target assistant; a cancelled task is not rerun. The
source is one that is polled; timer rules, with their check for overlap, and the
superseding of pull request reviews are left out.

### ProfileRollout

| model | code |
|---|---|
| `row` = val, custom, rev | `runtime_profiles`: `config_json` by connector, `connector_modes_json`, `revision` |
| `seed` | the Default connectors (`platform_settings`) |
| `Effective` | `effective_config_for`: own connectors from the row, the others from the seed |
| `secret` | the Kubernetes Secret of the profile |
| `agent`, `kube`, `pod` | `status` and `profile_revision_applied`; the Deployment; what the pod read when it booted |
| `sess["ui"]`, `sess["patch"]`, `sess["sync"]` | a handler of the page (event loop), `PATCH /api/runtime-profile` (thread), the rollout of the defaults (background task) |
| `Saved`, `Customized`, `Following`, `Patched`, `Moded` | what each request makes of the row it loaded |
| `Commit`; `PatchValues`, `PatchModes`, `PatchRevision` | the commit of a request of the page, a start or the rollout; the up to three of a PATCH: `save_config`, `apply_connector_modes`, and the revision when the settings moved and no values counted it |
| `Render`, `UpsertSecret`, `RestartIdle`, `LeaveBusy`, `RolloutDone` | `apply_profile_save` and its callers, between two commits or calls |
| `PollStatus`, `PodAnswers`, `RecordAnswer` | `GET /api/agents/{id}/status` |
| `Startup` | the classification of rows from before the modes |
| `Crash`, `PodRestarts`, `UpsertFails`, `RestartFails` | the faults |

A connector's settings are one value. Requests overlap as they like. `mishap` is
history, and names what the code does that takes the ground from a property:

* `stale`: a request changed a row that had changed since it loaded it (or a PATCH
  compared with what an older seed gave);
* `recounted`: and counted the revision up from the older one, so that two changes
  share a revision;
* `torn`: the settings a PATCH has between two of its commits were rendered by
  another writer, or left behind by a crash;
* `lost`: the Portal stopped before the followers of a changed seed got their
  revision, or the member took the connector over first;
* `parked`: Customize brought back values that differ from the seed's;
* `upgraded`: an old row lost a connector to the seed.

`AppliedNotAhead` excludes `recounted` alone. The other properties exclude all six;
`RevisionIsSettings` leaves out in addition the time in which a change is not
settled (`Unsettled`: a changed seed to be rolled out, a PATCH before its last
commit), and `ChangeMovesRevision` the two commits of a PATCH that move settings
without the revision (`PatchOwes'`, `PatchHalfway`).
`AgentLifecycle` has the calls of a restart that
`RestartIdle` takes as one step.

### Settings: ModelChoices, ModelCatalog, ProfileSettings, SettingsForm, RuntimeProjection, Settings

A document is a map of sections, a section a map of fields with rows where it
lists instances. A value is a word; constants say what the code would read in it
(`Folded`, `Number`, `Address`, ...). The modules are operators, one per function
of the code: `Sanitized` and `Canonical` (`schemas/runtime_profile.py`), `Merged`
and `Refused` (`_settings_merge_payload` and its parsers), `Public` (what an
answer shows), `Sealed` (what the Secret encrypts), `Egress` (the proxy of a
connection), `SecretConfig` and `Booted` (the Secret, and the pod's reading of
it), `State`, `InstanceTest`, `ToldOfTools` (the list, the Test buttons, the
instructions). `SettingsForm` has the state: one row, and the catalog registered
when it is posted to. `ModelCatalog` is the life of that catalog: `Start`, `Load`,
`Adopt`, `Register` (`current_catalog`), `Decide`, `Project`, `Fails`, `Store`,
`Persist` (`ensure_catalog`, `store_catalog`), `StoredElsewhere` (another
process), `TimePasses`. `Settings` puts the two side by side, a behaviour being of the forms
or of the catalog, and states the properties.

An address is a word with its parts (`Address`); turning one into a proxy's, an endpoint's
or a site's changes parts, and `AddressAssumption` says that what comes out can be written
again. `WordsAssumption` says that folding a word twice is folding it once, that the
program's own words are lower case, and that a proxy may be called `default`; `FormsAssumption` that what is posted has lists where
lists belong: the parsers of `web.py` build them, and the sanitizer takes anything else
for absent.

### The services

| module | state | actions and code |
|---|---|---|
| `ErrorLog` | rows, queue, writer threads, budget | `Emit`, `Take`, `Look`, `WriterWrites`, `Prune`, `Close` (the handler); `Capture*` (the middleware); `RecordRun` (an execution that failed) |
| `SessionShares` | share, cache, flights, viewers | `AskShare`, `WriteShare`, `Revoke`; `Open`, `RuntimeAnswers`, `Keep`, `Cancelled`, `Serve`, `ServeFile`; the end of the session or the assistant |
| `ChatRun` | requests with their execution rows | `Ask` (gate and body), `Relays`, `StreamEnds`, `GoneBefore`, `OpenFails`, `Answered`, `ForwardFails` (`proxy_agent`); `Outcome` (the observer) |
| `SessionMetadata` | the row, copies of requests | `BeginRequest`, `Find`, `WriteRow`, `Conflict` (`upsert`, `mark_deleted`), `RuntimeDeletes` |
| `DelegationSources` | a pull request or issue, its comments, polls | `StartPoll`, `Search`, `ReadPull`, `ReadComments`, `Record`, `Fails`; what people do in between |
| `DelegationForm` | the rule's row, tabs, a run | `Create`, `Update`, `DeleteRule`, `SaveRule`, `BeginRun`, `EndRun`; schedules, scopes, conditions and connections as operators |
| `Members` | accounts, entries, settings rows, device flow | `Allow`, `CreateUser`, `ChangeRole`, `RemoveAccess` and their writes; `StartDevice` ... `GitHubAnswers`, `ArriveBySSO`, `LookUp`, `CreateAccount`, `SyncToken`; `StartUp`, `ShutDown` |

Of the events of a stream `ChatRun` keeps, as the observer does, the last of each
kind; an answer that came whole counts even when it is empty, an empty event of a
stream does not. `DecideAtGitHub` (`Members`) is the member at GitHub's page.

`WriteRow` of `SessionMetadata` and `SaveRule` of `DelegationForm` write only the
columns that differ from the request's copy, as the session's flush does. `named`,
`gone`, `overlapped`, `mixed`, `planned`, `muddled`, `amiss` are history, as are
`thing.log` (who was asked to review which head, who was assigned) and
`thing.moves` in `DelegationSources`. `left` of a request of `ChatRun` says why its
row was left as it was when the run was over (`Ways`).

## Runs

`PROJECT.json` has one entry per run. In short:

| run | instance | question |
|---|---|---|
| `dispatch_reruns` | 1 task, 2 threads, 2 users, 2 attempts; create, rerun | is an attempt submitted at most once, and every step one of `AttemptLedger` |
| `dispatch_live` | 1 thread, 1 user, 1 attempt; create, dispatch, cancel; 1 restart, 1 fault, assignee may go; fairness | is what was cancelled in the queue never submitted, what is queued served, what is active settled |
| `rollup_keep` | 2 runs, 4 days, a panel, an abort; fairness | do sums survive the deletion of their runs, but for days a late run reopened, and does what ended get into them for good |
| `agent_safe` | 2 users, 1 fault, 1 restart; all but stop and idle | does deletion leave anything in the cluster |
| `agent_live` | 1 user, 1 fault; create, start, stop, refresh, idle; fairness | does the row come to say what the cluster says, is an idle assistant stopped |
| `agent_delete` | 1 user, 1 fault, fairness and retries | *violation*: deletion never ends |
| `delegation_live` | 1 item, worker, 1 manual run, 1 reply thread; 1 edit, 1 fault, 1 restart; fairness | one task per item, every step one of `EventLedger`; are due rules run, shown items tasked, done ones answered |
| `delegation_deleted` | the same, without faults | *violation*: a deletion during a run is undone |
| `rollout` | 1 connector with settings or without, 1 assistant, 3 writers; 2 changes, 1 fault; fairness | can an assistant be ahead of the row, does a revision stand for one setting, do settings arrive or show as pending, does the record come to say what the pod runs |
| `connectors_customize` | the same, with 2 settings | *violation*: taking a connector over changes what assistants get, without a revision |
| `settings` | every form and document of the instance, two sections at a time, under each catalog; the catalog with a looker, an asker and another process | do readers agree with what was saved, is anything lost or shown, is what is offered accepted |
| `services` | the seven services, each in behaviours of its own | the invariant of each, and that viewers of a share are answered |

Why the bounds are enough. The actors interact through one row at a time, so one
task, one assistant or one source item, and the two actors a race takes are the
whole of it: two threads for a double submission, two requests for a doubled
rerun, a request and the sidebar for a stale reading, the worker and a manual run
for a doubled claim. A second attempt is what makes threads of an earlier one
dangerous. One fault and one restart may fall at any step; a second one repeats
what the first could do. Items meet only in the reply list; in `delegation_live`
the list is never full, and its answer to "are done items answered" is for rules
with fewer than 100 waiting events. The window and the retention of the rollup are
two days each, over four days: long enough for a day to leave the window, be
pruned, and be pruned again, also with a run that was active all the while. The theorems remove these bounds for the safety
properties, and cover what no run does (the single status reading `poll`).

In `rollout` two changes let any two writers meet, in either order of their
commits, Secrets and restarts, also between the commits of a PATCH, beside one poll
of the status. `settings` keeps at
most two sections of a document at a time (`MaxSections`): forms and readers meet
in a section, in the section and the proxy's, or in the section and the model's;
one word stands for each sort a check of the code tells apart. A form is posted
with no catalog registered, or with one; a runtime reports two, which differ in
models, windows and efforts, and three stored copies (`MaxStamp`) are a newer, an
older and one fetched meanwhile. Its assistants have a model of one of the
catalogs, of neither, or none. In `services` the
state spaces are added, not multiplied: a behaviour is of one service while the
others stay in an initial state. Three viewers are one whose read is under way,
one who waits for it and one who refreshes; two handlers, tabs or clerks are the
two that race; a share's cache expires after one instant, a comment page is two
long, a queue one and the page of errors two groups, so that each is overrun. A rule is created at instant 2
(`Created`), so that the window of a status poll, which reaches up to a minute before
that, is bounded by something; `DedupWindow` of the error log is one instant. `Members` has the bootstrap
administrator and one other person, whom the deployment lists as an administrator, with
two deeds.

`CHECK_DEADLOCK FALSE` stands where the bounded counters let everything come to
rest: all tasks settled and no request left to make.

### Fairness

* Threads, requests under way and workers are weakly fair: they are OS threads
  and coroutines with bounded waits, and every worker loop catches exceptions
  and comes round again. Beginning a request is not fair, except in
  `DeletingSpec`, where the member keeps asking for the deletion.
* A run of the runtime ends (or the runtime forgets it, which is a fault), and
  time passes (`Age`).
* The cached status expires (time to live) and some browser keeps the sidebar's
  refresh going: without anybody looking, nobody corrects the row.
* The daily window: `RollUpRecent` comes round every hour.
* A due rule is taken up by the worker's next round, leases lapse, claims grow
  old, and runs go on. The source owes nothing, nor does the owner, nor the task.
* A rollout's requests go on, pods boot, the Portal comes up again, and the page
  asks for the status of every assistant (it polls while it is open).
* The event loop resumes a viewer's request whose await is over; the call of the
  runtime ends, by an answer or by its timeout.

## Findings

Each is a run that TLC ends with a counterexample; the quoted lines are in
`PROJECT.json`.

* **Deletion never ends** (`agent_delete`). The Deployment is deleted before the
  Service, and the 404 of the Deployment is an error on every retry.
* **A deletion is undone** (`delegation_deleted`). A run writes the whole of
  `state_json` back from its copy; the flag a deletion set meanwhile is lost.
* **Customize changes what assistants get** (`connectors_customize`). Values that a
  member parked when going back to the shared connector come back, whatever the
  shared one says by then; the code moves no revision and restarts nothing,
  because "nothing the assistants see changes".

### Other divergences met

Not runs of their own; each was read in the code while it was modelled, and where
a model says so it has the behaviour.

* Tasks. The check for a late result looks at the dispatcher's own copy, loaded
  before the polling: a late result overwrites the worker's `stale`
  (`src/README.md:224` says it does not). `TaskDispatch` has it. A doubled rerun
  opens two attempts, which `AttemptLedger` permits. A runtime that answers "pending",
  or with a server error, for ever leaves the row running (`task_dispatcher.py:1349-1392`):
  `ActiveSettles` is for runs that end.
* Usage. One execution that never ends keeps its day the first day of every later
  prune, which recomputes the days after it from executions that are gone; so does one
  that is run again past the retention. `UsageRollup` has both, and `SumsSurvive` leaves
  out the days they touch (`Reopened`). A window longer than the retention does the same
  every hour, and no check refuses such settings (`Apart`).
* Profile rollout. A PATCH that only changes modes commits the moved settings before
  their revision (`api/runtime_profiles.py:65-71`), and a stop in between leaves them
  so: they neither arrive nor show as pending. Two requests that loaded the row
  together give two settings one revision. `ProfileRollout` has both (`PatchOwes`,
  `torn`; `recounted`).
* Idle stop. The worker decides on rows it listed and calls the cluster later: an
  assistant used in between is stopped (`idle_agent_stop_worker.py:6-8` promises
  otherwise).
* Replies. Events of tasks that failed or were cancelled never leave the list of
  the 100 oldest that wait for a reply, and starve the others
  (`DelegationRule` with a list of one).
* Settings forms. The docstring of `_ConnectorFormView` says every other section
  keeps its stored value, but the `llm` section is canonicalised on every save;
  "Blank secrets keep the stored value" (`_settings_parse_troubleshooting_instances`)
  (`web.py:1967`) is not what a blank field does. A Jira, Confluence or Jenkins card
  with a name and no address is accepted and dropped: `FormsKeep` names it.
* Proxy names. `PROXY_NAME_PATTERN` (`schemas/runtime_profile.py:476`) lets a proxy be called
  `env`, `environment`, `none`, `direct` or `off`, but an assignment to one of these is read as
  a word (`proxy_plan.py:54-55`, `:162`): the connection follows the environment or goes direct,
  never through that proxy. `PlanFollows` leaves these names out.
* Readers of settings. "Connected" in the list and usable for the assistant differ
  for AWS, BrowserStack, GitHub and the model; the Jira and Confluence tests probe
  the first row with a credential even when it is switched off
  (`runtime_profile_test_service.py:615-629`, against the docstring at `:72-73`).
  `ReadersFollow` says which agreement there is for each. The metadata of a
  request (`runtime_execution_context_service.py`) comes from the stored row, not
  from the effective settings.
* Catalog. Set under a lock, registered outside of it: two requests may leave the
  list of one shown and that of the other validated (`overlapped`).
* Chat. A run that is over stays running on its row in four cases (`Ways`): the write
  failed; the assistant had no address, a 502 after the row was written
  (`proxy.py:605-608`, `:809-810`); the client left before the body was first read; the
  Portal stopped. `RowTellsRun` allows these four, each only where it can happen.
* Session rows. `mark_deleted` does not expect a row created meanwhile; a publish
  that races a rename can lose the name; saving run settings equal to a stale
  copy writes nothing.
* Sources. `_poll_jira_status` says "Only transitions after the rule was created
  count", its window reaches up to a minute before that; transitions made while a
  rule was off count once it is on again. Mentions beyond the first 50 comments of
  a pull request are never seen; "@me2" reads as a mention of "me"; the comments
  an assistant writes with its own tools carry no marker. `WorkIsWhatWasAsked` asks for
  a move no more than that minute early, and for the name inside the text.
* Delegation form. `misfire_policy` is accepted and never used; an owner who
  changes the schedule during a run gets one next run of the old one; two
  interleavings can leave a rule on with no next run (`planned.raced`).
* Members. Without a configured bootstrap administrator two administrators who
  remove each other at once both pass the check for the last one; a sign-in that
  races an allowlisting can leave the account's role other than the entry's; a
  removed administrator listed in the deployment returns at the next start, with an
  entry for a user beside an account of an administrator
  (`access_control_service.py:35-36`). `MembersHold` leaves these persons out, and says
  nothing of the last administrator where the deployment has no password for the
  bootstrap account.
* Errors. The page shows as many groups as it has room for (`error_log_service.py:437`)
  under totals of all of them. Two requests that count up a row of the Portal from one
  reading lose an occasion; `ErrorsAddUp` speaks of the counts of the log's rows only,
  which one writer writes.

## Proofs

All proofs are checked by TLAPS for every value of the constants that satisfies
the named assumptions (actors distinct, bounds natural numbers).

**TaskDispatch_proofs.** `SubmittedOnce` is not inductive: a state in which two
threads hold the claim of one attempt satisfies it. `IInv` adds that the attempt
a queued row stands for is not claimed yet (`Unclaimed`), that a thread about to
submit holds a claim it has not used (`ClaimsHeld`), that no two threads hold the
same one (`ClaimsApart`), that only claimed attempts were posted
(`PostsClaimed`) and that a withdrawn attempt is over and unclaimed
(`Withdrawals`). Most of the actions disturb none of it: `Quiet` says what they
have in common (no row becomes queued, no thread comes to submit, the books
stay), `QuietKeeps` proves the invariant once for all of them, and each such
action has a lemma that it is quiet. The others (create, reset, withdraw, claim,
submit) have a lemma each. `Refinement` shows that `TaskDispatch` implements
`AttemptLedger`: quiet steps close an attempt or stutter, `Reset` opens the next.

**AgentLifecycle_proofs.** `NoOrphan` needs to know what the place of an operation
says of the cluster: whoever is about to erase the row has seen the Deployment
and the Service go, nothing that could bring them back is under way, and nothing
but a create brings them (`Provision`). `Sound` ties the places to the
operations.

**DelegationRule_proofs.** `OneTask` needs the protocol of the claim: whoever works
on an item holds it alone (`Apart`), its event says `creating_task` and is too
young to be taken over (`InPlace`), a claimable event has no task (`Claims`), and
who is about to create has found none. Runs, replies, edits and time are `Quiet`;
the steps that move an event have a lemma each. `Refinement` then only asks where
each step takes one event (`Forward`).

**ProfileRollout_proofs.** `RevisionIsSettings` is about rows, Secrets and pods; the
steps that make it true are writers that hold what they rendered some time ago.
`IInv` says that nobody is under way while the Portal is down (`Down`) and what a
writer knows of its request (`Asked`); unless a revision was counted up from an
older one, that nothing loaded, rendered, booted or recorded is of a later revision
than the row (`Bounded`); and, without any mishap, that a PATCH that has written
nothing found what its copy still gives (`Compared`), that whoever carries the row's
revision carries its settings, but for what a seed still owes its followers and a
PATCH its last commit (`Told`, with `Agrees`, `Owed` and `PatchOwes`), and that nobody
carries the revision of a PATCH which has not committed its modes (`Unused`). No
writer is supposed alone. Most steps are `Quiet`: they carry no revision to a new
place.

**Records_proofs: SessionMetadata.** `RowKept` says that a deletion sticks and that a name does
while no two requests that carry one overlap. Requests write back copies they read
some steps ago; `MetaIInv` says that no copy is deleted before the row is (`Behind`),
that the runtime's session is gone before a deletion of its row begins, so nothing
publishes it any more (`Gone`), and that a lone request with a title still holds the
title of the row (`Titled`).

**Records_proofs: SessionShares.** `AnswersAreRecent` bounds the age of what a viewer is
shown by the life of the cache and the patience for one read. `ShareIInv` follows the
answer back: a read under way began at most the patience ago (`ReadIsRecent`), who
holds an answer got it from such a read or from a cache not yet expired
(`LoadIsRecent`), and what the cache keeps was read that recently when it was put
there (`CacheIsRecent`). `SomeoneReads` says that a flight viewers wait for has a
reader; that part is a theorem of its own (`NobodyWaitsInVain`), the safety half of
`ViewersAnswered`, which TLC checks.

**Records_proofs: ChatRun.** `RowTellsRun` relates the row of a run to all events the
stream sent. `ChatIInv` says that of each kind of event the last one is kept
(`KeepsLast`), that the row is open exactly until the run is over, or was
left in one of the four ways, each with what had been sent by then (`RowFollows`), and
which events a success was told by (`Success`). `LatestAppended`
is the lemma on sequences all of it rests on.

**Records_proofs: UsageRollup.** `SumsSurvive` is proved of the specification for all
settings and all runs, however long they stay active; that the window and the panel
keep off pruned days (`Apart`: `Window <= Retention + 1`, `Retention >= 2`) and that no
late run reopened the day (`Reopened`) are antecedents of the property; the run has
`Apart` settings, and days of both kinds. Where the settings are `Apart`, `IInv` is inductive: it says
where the days of every pass lie with respect to what is pruned (`PrunedLongAgo`,
`PrunedFirst`, `PanelRecent`, `WindowKept`), and that a run before the cutoff, on a
day that was not reopened, is counted by the reading under way, already in the sums,
or on a day still to be read (`OldKept`). Both antecedents are needed: a longer window
recomputes pruned days every hour, a late run at the next prune.

**Administration_proofs: ModelCatalog.** `PickerIsValidator` compares the list in memory, which the
pickers show, with the list registered for validation; the lock is given up between
the two. `Agreed` says that, as long as no two fills overlapped, at most one request
is about to register, and it holds the list that is in memory. Assumed is that the
bound on stamps is positive.

`ChoicesAccepted` is about the list that is registered, whatever list it is, and any
settings of an assistant, also ones saved under a catalog that is gone. It rests on
lemmas about the operators of `ModelChoices`: a nearest thinking level exists and is one
of those listed (`EffectiveEffortOffered`), no size exceeds the window, which closes
the list (`SizesFit`), and what a stored size means is one of the sizes
(`EffectiveSizeOffered`). Assumed are that ids are not blank, that the Portal's own list
holds the auto ids, and that windows are natural numbers.

**Administration_proofs: Members.** `MembersHold` needs what a request has half done. `MembersIInv` says that
no request under way takes anything from the bootstrap administrator (`Protected`);
that, of a person whose roles are not muddled, at most one request or account
creation is under way (`Lone`), which knows what it found and has written one of
the two roles (`Half`, `AboutToCreate`), and nobody being under way the roles agree
(who was listed again without an entry is muddled too);
how far each visitor has come (`Arrived`); and that nothing is under way while the
Portal is down (`Down`). A step is about one person: `Unrelated` keeps what the
others are owed. That there is an administrator to count needs finitely many
persons, which is assumed.

**Administration_proofs: ErrorLog.** `ErrorsAddUp` says that what happened is in the
table, in the queue or among what was dropped, once, and that every view of the page
adds up to it. `LogIInv` has three ideas. At most one writer lives, and nobody else
touches rows of the Portal's loggers (`Apart`), so the row it found is still there,
and still the newest of its message, when it counts it up (`FoundStands`). Records
reach the table in the order they were emitted (`InOrder`). And every number is the
cardinality of a set of occasions (`Counters`), so that the views add up because they
split one finite set; all the groups are matched to the occasions by a bijection, and
the ones the page has room for are fewer. Assumed are at least one writer thread and natural bounds.

**Delegations_proofs: DelegationSources.** `WorkIsWhatWasAsked` is about polls that read
in several calls while people go on. `SrcIInv` says that a poll during which nobody
did anything still knows the thing as it is (`Knows`), that moves of a status have
moments of their own, the last of which is the present status (`MovesOk`), that who is
asked or assigned now is in the log of who ever was (`LogOk`), and that the key of every
item names what it was found by, for the account the run signed in as (`KeyOk`,
`TimerOk`).

**Delegations_proofs: DelegationForm.** `RuleStaysRunnable` needs what a request is about
to write. `FormIInv` says of every tab that its schedule is one `Normalised` gives,
and that it plans the next run afresh, leaves it as it was read, or takes it away
(`Pending`, `PlanOf`); of the run, that it holds the row it began with (`RunHolds`);
and of the row, that it is `Sound` while no two requests overwrote each other's
columns (`mixed`). The proof attempt corrected the property: that an enabled rule is
not deleted was stated for all rules, and fails when an update and a deletion
interleave with a third request (four requests, more than the run has); it now stands
with the facts that hold while nothing was mixed.

**Settings_proofs.** (Its definitions are in `SettingsShapes`.) `ProxiesFollow` and `ReadersFollow` compare what different functions
make of one row, so they need to know what a row can be. It is what every save leaves
(`ConfigRead`): each section is either empty or what the sanitizer reads of *some*
section with lists where lists belong. Which one does not matter, but that there is one
does: a form is merged with what is stored before it is read, so `MergedLists` shows of
every form that it makes lists of lists (cards by their origin, the single fields of pages
from before there were cards, accounts with their regions). The model provider is left
out of it: its readers take it in any shape. From `SectionRead` follow the shapes the
readers rely on. `ProxySection`: names are set apart, the default is one of them,
assignments name one or none; then `PlannedFollows` goes through the cases of a choice, and
`OldImagesAgreeAny` shows that the flat fields, read again as a section from before names,
give an entry that differs in its name only (`DefaultShape`, `ProxyUrlSettles`).
`ServiceSection`: every row that is kept has its address where each reader looks for it
(`RowsHaveAddress`), which is what makes the list, the instructions and the Test button
agree as far as they do (`SignInAgreesAny` for the two that test a row with a credential). No lemma is by induction over a list: what a selection of rows holds is read off
the places of its rows (`PlacesFill`, `AtIsList`), and the first of several off the
smallest place (`FirstFound`).

`FormsHide` looks for secrets at every depth of what the API answers, so its proof
descends with it: `Clean0` to `Clean3` say that a map holds no secret down to so many
levels, and `PublicSection` of each connector is clean because the section holds only the
fields its sanitizer lets through (`MobileSection`, `AwsSection`, `LlmSection`, ...) and
the redaction names each of those that holds a secret. That the model provider's section,
which no sanitizer rebuilds, holds its own fields only is a second invariant (`ConfigFits`).
The Secret keeps the shape of the row, level by level (`Sealed0` to `Sealed3`), so that
what is found at a place is the sealing of what the row has at that place
(`SecretIsSealed`); and the audit row covers the sections of its secrets because the path
of a secret starts with its section (`SecretStarts`).

`FormsSettle` says that the sanitizer is idempotent on what it stored. The proof goes from
the inside out: a word, a flag, a number or an address that was read is read as it is
(`LowerTwice`, `TruthTwice`, `WithinTwice`, `SiteTwice`, `EndpointTwice`); so is a part of a
section when the section agrees with the part on the part's fields and no other part writes
them (`Agrees`, `TextsTwice`, `MapTwice`); and a list of which one row per key was kept loses
none when it is picked from again (`FirstsAll`, `FirstsApart`). Two sections make the
argument less than routine. PostgreSQL takes the shared settings from its rows when the
section does not mention them: after one reading no row has one left (`NothingLifted`). And
a proxy section of one address becomes a list of one entry that the second reading must
take for a list (`ProxyTwice`); that `default` is a name a proxy may have is what makes it
so. The model provider is read and then set right, so what is stored is what the second
function made of the first one's result: `LlmRead` is kept by both (`CanonicalIsRead`), and
reading settles whatever has it (`LlmReadSettles`). The invariant `ConfigSettled` adds that a
row holds no empty section, which reading would drop.

`FormsKeep` sets two functions side by side that were written apart: what a form's checks
refuse and what the sanitizer drops. The sanitizer keeps one row per folded name, of those
that have a name and what their section asks for (`SitesKept`, `DatabasesKept`,
`AccountsKept`, `ProxiesKept`); a form that is not refused makes rows of exactly that kind,
one for each card that is posted (`NamedPasses`, `ProxyPasses`, `PostedNamed`: a card
without a name is refused only when it has something else, and only such a card could be a
nameless row; for Jira, Confluence and Jenkins an address takes the name's place,
`SitesStored`; an account's regions are checked, so none is dropped, `RegionsStored`).
Merging in the settings that PostgreSQL's instances share takes fields out of
the rows and leaves those the checks read (`NamedRows`). The other half of the property,
that the sections of the other connectors stay, is `FormsSettle`'s idempotence again: the
save reads them once more (`OthersKept`).

**What rests on what.** The theorems assume the named assumptions of their
modules and nothing else; fairness plays no part in them.

Out of the prover's reach, and checked by TLC only: everything under fairness
(`QueuedIsServed`, `ActiveSettles`, `EndedIsCounted`, `RowFollowsCluster`,
`IdleIsStopped`, `DueIsRun`, `FoundIsTasked`, `DoneIsAnswered`, `RecordTellsTruth`,
`SettingsArrive`, `ViewersAnswered`). Every invariant and every action property
of a passing run is a theorem.

## What is not modelled, and why

* Payloads: prompts, results, pod templates, mail and issue texts, the wording of
  instructions and queries. Properties here do not depend on them.
* Failures of SQLite itself. The file is local; `db.commit()` raising is not a
  case the code plans for, except in the usage rollup (`Abort`), the error log
  (`lost`) and the best-effort writes of executions.
* More than one Portal process: the deployment has one replica. (The catalog
  alone is written for several, and `ModelCatalog` has another one.)
* Mobile API, work overview and usage panels: queries and thin endpoints.
* Capability catalog, git branch cache: a value replaced as a whole.
* Sign-in with a password, avatars, preferences, help, locale, assistant types.
* The connectors an assistant reaches on a member's own machine
  (`connector_service.py`, `user_connectors`), uploads and downloads, the form chat
  of `web.py`.
* Front end, Terraform, Kubernetes manifests.

## Plan

Done: `TaskDispatch` with `AttemptLedger`, `UsageRollup`, `AgentLifecycle`,
`DelegationRule` with `EventLedger`, `ProfileRollout`, the settings modules, the
services. What would add most next, in order:

1. `DelegationRule` composed with `DelegationForm` and `DelegationSources`: timer
   rules with their overlap check, edits of the target assistant during a run.
2. `WorkerBatch`: rounds with a limit over rows ordered by age (reconcile 50,
   idle stop 100, delegations 20), to ask who starves.
3. `TaskDispatch`: the outcome normalisation of runtime payloads as operators
   against a reference; tasks that are not `agent_async_task`.
4. An abstract specification for `ProfileRollout`: a register whose readers hold a
   past value and know whether it is the last one.
5. Lemmas about single functions of the settings modules that need no induction: that
   `CanonicalLlm` is idempotent, that `PublicRow` and `PublicUrl` show no secret.
