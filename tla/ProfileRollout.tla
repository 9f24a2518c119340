--------------------------- MODULE ProfileRollout ---------------------------
(***************************************************************************)
(* A member's settings row, the administrator's Default connectors some of *)
(* its connectors follow, the Kubernetes Secret the row is rendered into,  *)
(* and the member's assistants, whose pods read the Secret when they boot. *)
(*                                                                         *)
(* A change of the row is committed, handed to the Secret, and rolled out: *)
(* idle running assistants restart, the others show "restart to apply"     *)
(* while the revision they were started with is below the row's.  The      *)
(* panel's handlers run on the event loop, one at a time (ui); the JSON    *)
(* API (patch) and the administrator's rollout (sync) run on threads, and  *)
(* each of the steps below is what one of them does up to a commit.  The   *)
(* API commits the values, the modes and the revision one after the other. *)
(***************************************************************************)
EXTENDS Naturals, FiniteSets

CONSTANTS
    Conn,           \* connectors that can follow the Default connectors
    Val, NoVal,     \* a connector's settings; NoVal: it has none
    Agent,          \* the member's assistants
    MaxChanges,     \* bound: requests that change settings or (re)start a pod
    MaxFaults       \* bound: failed Secret writes and restarts, pod and Portal crashes

Writer == {"ui", "patch", "sync"}
Val0   == Val \cup {NoVal}

ASSUME RolloutValues == NoVal \notin Val /\ Conn # {} /\ Agent # {}
ASSUME RolloutBounds == MaxChanges \in Nat /\ MaxFaults \in Nat

VARIABLES
    seed,       \* the Default connectors
    row,        \* runtime_profiles: own values, connectors in custom mode, revision
    classified, \* connector_modes_json is not NULL
    secret,     \* efp-profile-<id>: the revision and settings rendered into it
    agent,      \* per assistant: status and profile_revision_applied of its row
    kube,       \* per assistant: none, booting or up
    pod,        \* per assistant: what its pod read from the Secret at its last boot
    sess,       \* per writer: where it is and what it holds
    poll,       \* per assistant: a status request in flight
    up,         \* the Portal serves requests
    mishap,     \* history: why the revision may not tell the settings (see Mishap)
    changes, faults

vars   == <<seed, row, classified, secret, agent, kube, pod, sess, poll, up, mishap,
            changes, faults>>
bounds == <<changes, faults>>

-----------------------------------------------------------------------------
(* Types *)

Settings == [Conn -> Val0]
Row      == [val : Settings, custom : SUBSET Conn, rev : Nat]
Rendered == [rev : Nat, cfg : Settings]
Step     == {"idle", "due", "read", "modes", "moded", "committed", "rendered", "rollout",
             "boot"}
Kind     == {"save", "customize", "follow", "start", "patch", "sync"}
Mode     == {"keep", "system", "custom"}

\* stale: a request committed its change of a row that had changed since it loaded it,
\* or a PATCH compared with what an older seed gave; recounted: and counted the revision
\* up from an older one; torn: the settings a PATCH has between two of its commits were
\* rendered, or left behind by a crash; lost: the followers of a changed seed never got
\* their revision, as the Portal stopped first or the member took the connector over;
\* parked: a connector was customized back to values that differ from the seed's;
\* upgraded: a row from before the modes lost a connector to the seed.
Mishap   == {"stale", "recounted", "torn", "lost", "parked", "upgraded"}

\* want: the request's connector and what it asks of it; for sync, the connector that
\* changed.  copy: the writer's loaded row.  before: the settings a PATCH found; wrote:
\* it changed the values, and counted the revision with them.  out: what a writer renders
\* into the Secret.
Session  == [at : Step, kind : Kind, conn : Conn, val : Val0, mode : Mode, agent : Agent,
             copy : Row, before : Settings, wrote : BOOLEAN, out : Rendered,
             todo : SUBSET Agent, done : SUBSET Agent]
Poll     == [at : {"idle", "asked", "answered"}, mine : Nat, ans : Nat]

NoSettings == [c \in Conn |-> NoVal]
NoPoll     == [at |-> "idle", mine |-> 0, ans |-> 0]
AnyConn    == CHOOSE c \in Conn : TRUE
AnyAgent   == CHOOSE a \in Agent : TRUE
IdleSession ==
    [at |-> "idle", kind |-> "save", conn |-> AnyConn, val |-> NoVal, mode |-> "keep",
     agent |-> AnyAgent, copy |-> [val |-> NoSettings, custom |-> {}, rev |-> 0],
     before |-> NoSettings, wrote |-> FALSE, out |-> [rev |-> 0, cfg |-> NoSettings],
     todo |-> {}, done |-> {}]

TypeOK ==
    /\ seed \in Settings /\ row \in Row /\ classified \in BOOLEAN
    /\ secret \in Rendered
    /\ agent \in [Agent -> [status : {"stopped", "restarting", "running"}, applied : Nat]]
    /\ kube \in [Agent -> {"none", "booting", "up"}]
    /\ pod \in [Agent -> Rendered]
    /\ sess \in [Writer -> Session]
    /\ poll \in [Agent -> Poll]
    /\ up \in BOOLEAN /\ mishap \in SUBSET Mishap
    /\ changes \in 0..MaxChanges /\ faults \in 0..MaxFaults

-----------------------------------------------------------------------------
(* Settings *)

\* What the assistants get: the row, the connectors in system mode from the seed.
Effective(r, s) == [c \in Conn |-> IF c \in r.custom THEN r.val[c] ELSE s[c]]

\* A row from before the modes reads as custom everywhere.
Current == Effective(row, seed)

\* The session updates the columns it changed and leaves the others as they are now.
Write(old, new) ==
    [val    |-> IF new.val # old.val THEN new.val ELSE row.val,
     custom |-> IF new.custom # old.custom THEN new.custom ELSE row.custom,
     rev    |-> IF new.rev # old.rev THEN new.rev ELSE row.rev]

Idle(w)   == sess[w].at = "idle"
Loop      == up /\ Idle("ui")           \* the event loop is free
InFlight  == {w \in Writer : ~Idle(w)}
Seen(ms)  == mishap' = mishap \cup ms

Stopped(w) == sess' = [sess EXCEPT ![w] = IdleSession]

-----------------------------------------------------------------------------
(* Requests *)

Init ==
    /\ seed \in Settings
    /\ classified \in BOOLEAN
    /\ row \in [val : Settings, custom : SUBSET Conn, rev : {1}]
    /\ ~classified => row.custom = Conn
    /\ secret = [rev |-> 1, cfg |-> Current]
    /\ kube \in [Agent -> {"none", "up"}]
    /\ agent = [a \in Agent |-> [status |-> IF kube[a] = "up" THEN "running" ELSE "stopped",
                                 applied |-> 1]]
    /\ pod = [a \in Agent |-> secret]
    /\ sess = [w \in Writer |-> IdleSession]
    /\ poll = [a \in Agent |-> NoPoll]
    /\ up = FALSE /\ mishap = {}
    /\ changes = 0 /\ faults = 0

\* Start-up classifies a row from before the modes: a connector that has no values of
\* its own, or exactly the seed's, follows the seed from now on.
Startup ==
    /\ ~up /\ up' = TRUE
    /\ classified' = TRUE
    /\ IF classified
         THEN UNCHANGED <<row, mishap>>
         ELSE LET own == {c \in Conn : row.val[c] \notin {NoVal, seed[c]}}
                  new == [row EXCEPT !.custom = own,
                            !.val = [c \in Conn |-> IF c \in own THEN row.val[c] ELSE NoVal]]
              IN  /\ row' = new
                  /\ Seen(IF Effective(new, seed) # Current THEN {"upgraded"} ELSE {})
    /\ UNCHANGED <<seed, secret, agent, kube, pod, sess, poll, bounds>>

\* A request loads the row.
Begin(w, kind, c, v, m, a) ==
    /\ up /\ Idle(w) /\ changes < MaxChanges
    /\ w = "ui" => Loop
    /\ sess' = [sess EXCEPT ![w] = [IdleSession EXCEPT
                    !.at = "read", !.kind = kind, !.conn = c, !.val = v, !.mode = m,
                    !.agent = a, !.copy = row,
                    !.before = IF kind = "patch" THEN Current ELSE NoSettings]]
    /\ changes' = changes + 1
    /\ UNCHANGED <<seed, row, classified, secret, agent, kube, pod, poll, up, mishap, faults>>

\* The panel's Save is refused for a connector in system mode.
SaveConnector(c, v) == c \in row.custom /\ Begin("ui", "save", c, v, "keep", AnyAgent)

\* The panel's mode switch: nothing to do for the mode the connector is in.
Customize(c) == c \notin row.custom /\ Begin("ui", "customize", c, NoVal, "custom", AnyAgent)
Follow(c)    == c \in row.custom /\ Begin("ui", "follow", c, NoVal, "system", AnyAgent)

\* PATCH /api/runtime-profile: values for a connector and, or, a mode.
PatchProfile(c, v, m) == Begin("patch", "patch", c, v, m, AnyAgent)

\* POST start and restart of an assistant.
StartAgent(a) ==
    /\ agent[a].status \in {"stopped", "running"}
    /\ Begin("ui", "start", AnyConn, NoVal, "keep", a)

\* The administrator saves the Default connectors; the followers' rollout is queued.
SaveSeed(c, v) ==
    /\ Loop /\ Idle("sync") /\ changes < MaxChanges /\ v # seed[c]
    /\ seed' = [seed EXCEPT ![c] = v]
    /\ sess' = [sess EXCEPT !["sync"] = [IdleSession EXCEPT
                    !.at = "due", !.kind = "sync", !.conn = c]]
    /\ Seen(IF sess["patch"].at \in {"read", "modes", "moded"} THEN {"stale"} ELSE {})
    /\ changes' = changes + 1
    /\ UNCHANGED <<row, classified, secret, agent, kube, pod, poll, up, faults>>

\* The background task loads the row: a member who does not follow has nothing to get.
SyncRead ==
    /\ sess["sync"].at = "due"
    /\ IF sess["sync"].conn \in row.custom
         THEN Stopped("sync")
         ELSE sess' = [sess EXCEPT !["sync"].at = "read", !["sync"].copy = row]
    /\ UNCHANGED <<seed, row, classified, secret, agent, kube, pod, poll, up, mishap, bounds>>

\* POST stop of an assistant.
StopAgent(a) ==
    /\ up /\ agent[a].status = "running" /\ changes < MaxChanges
    /\ agent' = [agent EXCEPT ![a].status = "stopped"]
    /\ kube' = [kube EXCEPT ![a] = "none"]
    /\ changes' = changes + 1
    /\ UNCHANGED <<seed, row, classified, secret, pod, sess, poll, up, mishap, faults>>

-----------------------------------------------------------------------------
(* What each request makes of the row it loaded *)

\* Mutants: the revision is left alone when a connector follows again ...
FollowingQuietly(r, c, s) ==
    [r EXCEPT !.custom = @ \ {c}, !.val[c] = IF @ = s[c] THEN NoVal ELSE @]

\* ... or is counted from one again; a save that changes the values only.
FollowingAfresh(r, c, s) == [FollowingQuietly(r, c, s) EXCEPT !.rev = 1]
SavedQuietly(r, c, v) == [r EXCEPT !.val[c] = v]

\* Mutant: one connector's copy of the seed replaces the settings of all.
CustomizedWhole(r, c, s) == [r EXCEPT !.custom = @ \cup {c}, !.val = s[c]]

Saved(r, c, v) ==
    IF v = r.val[c] THEN r
    ELSE [r EXCEPT !.val[c] = v, !.rev = @ + 1]

\* Values parked in the row come back; otherwise the seed's are copied.
Customized(r, c, s) ==
    [r EXCEPT !.custom = @ \cup {c}, !.val[c] = IF @ # NoVal THEN @ ELSE s[c]]

\* The member's values stay parked, unless they are the seed's.
Following(r, c, s) ==
    LET new == [r EXCEPT !.custom = @ \ {c}, !.val[c] = IF @ = s[c] THEN NoVal ELSE @]
    IN  IF Effective(new, s) = Effective(r, s) THEN new ELSE [new EXCEPT !.rev = @ + 1]

\* Values written for a connector that follows make it the member's own, unless they are
\* the seed's; then the explicit mode.
Marked(r, c, v, s) ==
    IF c \in r.custom \/ v \in {NoVal, r.val[c]} THEN [r EXCEPT !.val[c] = v]
    ELSE IF v = s[c] THEN [r EXCEPT !.val[c] = NoVal]
    ELSE [r EXCEPT !.val[c] = v, !.custom = @ \cup {c}]
Moded(r, c, m) ==
    CASE m = "custom" -> [r EXCEPT !.custom = @ \cup {c}]
      [] m = "system" -> [r EXCEPT !.custom = @ \ {c}]
      [] OTHER -> r
Counted(r) == [r EXCEPT !.rev = @ + 1]

\* A write that leaves the stored values alone leaves the modes alone too.
Patched(r, c, v, s) ==
    LET new == Marked(r, c, v, s)
    IN  IF new.val = r.val THEN r ELSE Counted(new)

NewRow(x) ==
    CASE x.kind = "save"      -> Saved(x.copy, x.conn, x.val)
      [] x.kind = "customize" -> Customized(x.copy, x.conn, seed)
      [] x.kind = "follow"    -> Following(x.copy, x.conn, seed)
      [] x.kind = "sync"      -> Counted(x.copy)
      [] OTHER                -> x.copy

\* Whether the request goes on to the Secret and the assistants.
RollsOut(x, new) == x.kind = "start" \/ (x.kind # "customize" /\ new.rev # x.copy.rev)

-----------------------------------------------------------------------------
(* The steps of a writer *)

\* Customizing leaves the revision alone, whatever values come back.
Restores(x) == x.kind = "customize" /\ x.copy.val[x.conn] \notin {NoVal, seed[x.conn]}

\* The row with the request's changes, and what goes wrong with them: the row is not
\* the loaded one any more, or the connector whose rollout is due follows no more.
Written(w, new) ==
    LET old   == sess[w].copy
        taken == sess["sync"].at = "due" /\ sess["sync"].conn \in row'.custom \ row.custom
    IN  /\ row' = Write(old, new)
        /\ Seen((IF new # old /\ row # old THEN {"stale"} ELSE {})
                \cup (IF new.rev # old.rev /\ row.rev # old.rev THEN {"recounted"} ELSE {})
                \cup (IF taken THEN {"lost"} ELSE {})
                \cup (IF Restores(sess[w]) THEN {"parked"} ELSE {}))

GoesOn(w, x) == sess' = [sess EXCEPT ![w] = [IdleSession EXCEPT
                     !.at = "committed", !.kind = x.kind, !.agent = x.agent,
                     !.copy = IF w = "sync" THEN row' ELSE @]]

Commit(w) ==
    /\ up /\ sess[w].at = "read" /\ sess[w].kind # "patch"
    /\ LET new == NewRow(sess[w])
       IN  /\ Written(w, new)
           /\ IF RollsOut(sess[w], new) THEN GoesOn(w, sess[w]) ELSE Stopped(w)
    /\ UNCHANGED <<seed, classified, secret, agent, kube, pod, poll, up, bounds>>

\* A PATCH commits changed values with their revision, and then has the row as it is ...
PatchValues(w) ==
    /\ up /\ sess[w].at = "read" /\ sess[w].kind = "patch"
    /\ LET x   == sess[w]
           new == Patched(x.copy, x.conn, x.val, seed)
       IN  /\ Written(w, new)
           /\ sess' = [sess EXCEPT
                  ![w].at = IF x.mode = "keep" THEN "moded" ELSE "modes",
                  ![w].wrote = new # x.copy, ![w].val = NoVal,
                  ![w].copy = IF new # x.copy THEN row' ELSE @]
    /\ UNCHANGED <<seed, classified, secret, agent, kube, pod, poll, up, bounds>>

\* ... commits the modes it was given, with no revision ...
PatchModes(w) ==
    /\ up /\ sess[w].at = "modes"
    /\ Written(w, Moded(sess[w].copy, sess[w].conn, sess[w].mode))
    /\ sess' = [sess EXCEPT ![w].at = "moded", ![w].mode = "keep", ![w].copy = row']
    /\ UNCHANGED <<seed, classified, secret, agent, kube, pod, poll, up, bounds>>

\* ... and looks at what has become of the settings: when they moved and no values
\* counted the revision, that is a commit of its own.
Moved(x) == Effective(x.copy, seed) # x.before

PatchRevision(w) ==
    /\ up /\ sess[w].at = "moded"
    /\ LET x == sess[w]
       IN  /\ Written(w, IF Moved(x) /\ ~x.wrote THEN Counted(x.copy) ELSE x.copy)
           /\ IF Moved(x) THEN GoesOn(w, x) ELSE Stopped(w)
    /\ UNCHANGED <<seed, classified, secret, agent, kube, pod, poll, up, bounds>>

\* A PATCH has committed settings that have not got their revision yet.
PatchOwes == sess["patch"].at = "moded" /\ ~sess["patch"].wrote /\ Moved(sess["patch"])

\* A PATCH has counted the revision and not committed all it stands for.
PatchHalfway == sess["patch"].at = "modes" /\ sess["patch"].wrote

\* Mutant: only the member's own values are rendered.
RenderStored(w) ==
    /\ up /\ sess[w].at = "committed"
    /\ sess' = [sess EXCEPT ![w].at = "rendered", ![w].copy = IdleSession.copy,
                   ![w].out = [rev |-> row.rev, cfg |-> row.val]]
    /\ UNCHANGED <<seed, row, classified, secret, agent, kube, pod, poll, up, mishap, bounds>>

\* The administrator's rollout goes on with the row as its commit left it; the audit
\* record of the others made them load it again.
Render(w) ==
    /\ up /\ sess[w].at = "committed"
    /\ LET r == IF w = "sync" THEN sess[w].copy ELSE row
       IN  sess' = [sess EXCEPT ![w].at = "rendered", ![w].copy = IdleSession.copy,
                       ![w].out = [rev |-> r.rev, cfg |-> Effective(r, seed)]]
    /\ Seen(IF PatchHalfway THEN {"torn"} ELSE {})
    /\ UNCHANGED <<seed, row, classified, secret, agent, kube, pod, poll, up, bounds>>

\* After the Secret: the assistants that run by their rows, or the one to start.
NextStep(x, todo) ==
    IF x.kind = "start" THEN [x EXCEPT !.at = "boot"]
    ELSE [x EXCEPT !.at = "rollout", !.todo = todo]

UpsertSecret(w) ==
    /\ up /\ sess[w].at = "rendered"
    /\ secret' = sess[w].out
    /\ sess' = [sess EXCEPT ![w] =
                   NextStep(@, {a \in Agent : agent[a].status = "running"})]
    /\ UNCHANGED <<seed, row, classified, agent, kube, pod, poll, up, mishap, bounds>>

\* A failed write ends a rollout; a start goes on with the Secret as it was.
UpsertFails(w) ==
    /\ up /\ sess[w].at = "rendered" /\ faults < MaxFaults
    /\ IF sess[w].kind = "start"
         THEN sess' = [sess EXCEPT ![w] = NextStep(@, {})]
         ELSE Stopped(w)
    /\ faults' = faults + 1
    /\ UNCHANGED <<seed, row, classified, secret, agent, kube, pod, poll, up, mishap,
                   changes>>

\* A busy assistant keeps its settings; an idle one gets a new pod.
LeaveBusy(w, a) ==
    /\ up /\ sess[w].at = "rollout" /\ a \in sess[w].todo
    /\ sess' = [sess EXCEPT ![w].todo = @ \ {a}]
    /\ UNCHANGED <<seed, row, classified, secret, agent, kube, pod, poll, up, mishap, bounds>>

RestartIdle(w, a) ==
    /\ up /\ sess[w].at = "rollout" /\ a \in sess[w].todo
    /\ kube' = [kube EXCEPT ![a] = "booting"]
    /\ sess' = [sess EXCEPT ![w].todo = @ \ {a}, ![w].done = @ \cup {a}]
    /\ UNCHANGED <<seed, row, classified, secret, agent, pod, poll, up, mishap, bounds>>

\* The restarted assistants are recorded together at the end.
RolloutDone(w) ==
    /\ up /\ sess[w].at = "rollout" /\ sess[w].todo = {}
    /\ agent' = [a \in Agent |->
                    IF a \in sess[w].done
                      THEN [status |-> "restarting", applied |-> sess[w].out.rev]
                      ELSE agent[a]]
    /\ Stopped(w)
    /\ UNCHANGED <<seed, row, classified, secret, kube, pod, poll, up, mishap, bounds>>

\* Start and restart record the revision they read before they wrote the Secret.
BootAgent(w) ==
    /\ up /\ sess[w].at = "boot"
    /\ LET a == sess[w].agent
       IN  /\ kube' = [kube EXCEPT ![a] = "booting"]
           /\ agent' = [agent EXCEPT ![a] = [status |-> "restarting",
                                             applied |-> sess[w].out.rev]]
    /\ Stopped(w)
    /\ UNCHANGED <<seed, row, classified, secret, pod, poll, up, mishap, bounds>>

\* Kubernetes refuses: a rollout goes on with the next assistant, a start ends.
RestartFails(w) ==
    /\ up /\ faults < MaxFaults /\ faults' = faults + 1
    /\ \/ \E a \in sess[w].todo :
            sess[w].at = "rollout" /\ sess' = [sess EXCEPT ![w].todo = @ \ {a}]
       \/ sess[w].at = "boot" /\ Stopped(w)
    /\ UNCHANGED <<seed, row, classified, secret, agent, kube, pod, poll, up, mishap,
                   changes>>

-----------------------------------------------------------------------------
(* Pods and the status endpoint *)

PodBoots(a) ==
    /\ kube[a] = "booting"
    /\ kube' = [kube EXCEPT ![a] = "up"]
    /\ pod' = [pod EXCEPT ![a] = secret]
    /\ UNCHANGED <<seed, row, classified, secret, agent, sess, poll, up, mishap, bounds>>

\* A container that died reads the Secret again.
PodRestarts(a) ==
    /\ kube[a] = "up" /\ faults < MaxFaults
    /\ pod' = [pod EXCEPT ![a] = secret]
    /\ faults' = faults + 1
    /\ UNCHANGED <<seed, row, classified, secret, agent, kube, sess, poll, up, mishap,
                   changes>>

\* Mutant: the pod is never asked.
PollStatusOnly(a) ==
    /\ Loop /\ poll[a].at = "idle"
    /\ agent' = [agent EXCEPT ![a].status = IF kube[a] = "up" THEN "running"
                                            ELSE IF kube[a] = "booting" THEN "restarting"
                                            ELSE "stopped"]
    /\ UNCHANGED <<seed, row, classified, secret, kube, pod, sess, poll, up, mishap, bounds>>

\* GET status: the row's status is refreshed, and a running pod is asked what it
\* booted with, while other requests go on.
PollStatus(a) ==
    /\ Loop /\ poll[a].at = "idle"
    /\ LET s == CASE kube[a] = "up" -> "running"
                  [] kube[a] = "booting" -> "restarting"
                  [] OTHER -> "stopped"
       IN  /\ agent' = [agent EXCEPT ![a].status = s]
           /\ poll' = IF s = "running"
                        THEN [poll EXCEPT ![a] = [NoPoll EXCEPT !.at = "asked",
                                                                !.mine = agent[a].applied]]
                        ELSE poll
    /\ UNCHANGED <<seed, row, classified, secret, kube, pod, sess, up, mishap, bounds>>

PodAnswers(a) ==
    /\ up /\ poll[a].at = "asked"
    /\ poll' = IF kube[a] = "up"
                 THEN [poll EXCEPT ![a].at = "answered", ![a].ans = pod[a].rev]
                 ELSE [poll EXCEPT ![a] = NoPoll]
    /\ UNCHANGED <<seed, row, classified, secret, agent, kube, pod, sess, up, mishap, bounds>>

\* The answer replaces the record when it differs from the copy loaded before asking.
RecordAnswer(a) ==
    /\ Loop /\ poll[a].at = "answered"
    /\ agent' = IF poll[a].ans # poll[a].mine
                  THEN [agent EXCEPT ![a].applied = poll[a].ans] ELSE agent
    /\ poll' = [poll EXCEPT ![a] = NoPoll]
    /\ UNCHANGED <<seed, row, classified, secret, kube, pod, sess, up, mishap, bounds>>

\* The Portal stops: whatever was in flight is gone, a queued rollout too.
Crash ==
    /\ up /\ faults < MaxFaults
    /\ up' = FALSE /\ faults' = faults + 1
    /\ sess' = [w \in Writer |-> IdleSession]
    /\ poll' = [a \in Agent |-> NoPoll]
    /\ Seen((IF sess["sync"].at \in {"due", "read"} THEN {"lost"} ELSE {})
            \cup (IF PatchOwes THEN {"torn"} ELSE {}))
    /\ UNCHANGED <<seed, row, classified, secret, agent, kube, pod, changes>>

-----------------------------------------------------------------------------
Requests ==
    \/ \E c \in Conn, v \in Val0 : SaveConnector(c, v) \/ SaveSeed(c, v)
    \/ \E c \in Conn : Customize(c) \/ Follow(c)
    \/ \E c \in Conn, v \in Val0, m \in Mode : PatchProfile(c, v, m)
    \/ \E a \in Agent : StartAgent(a) \/ StopAgent(a)

WriterStep(w) ==
    \/ Commit(w) \/ PatchValues(w) \/ PatchModes(w) \/ PatchRevision(w)
    \/ Render(w) \/ UpsertSecret(w) \/ RolloutDone(w) \/ BootAgent(w)
    \/ \E a \in Agent : LeaveBusy(w, a) \/ RestartIdle(w, a)

Faults ==
    \/ \E w \in Writer : UpsertFails(w) \/ RestartFails(w)
    \/ \E a \in Agent : PodRestarts(a)
    \/ Crash

StatusStep(a) == PollStatus(a) \/ PodAnswers(a) \/ RecordAnswer(a)

Next ==
    \/ Startup \/ Requests \/ SyncRead \/ Faults
    \/ \E w \in Writer : WriterStep(w)
    \/ \E a \in Agent : PodBoots(a) \/ StatusStep(a)

\* Requests under way are finished, pods boot, and somebody looks at the assistants:
\* the page asks for the status of each again and again.
Fairness ==
    /\ WF_vars(Startup) /\ WF_vars(SyncRead)
    /\ \A w \in Writer : WF_vars(WriterStep(w))
    /\ \A a \in Agent : WF_vars(PodBoots(a)) /\ WF_vars(StatusStep(a))

Spec == Init /\ [][Next]_vars /\ Fairness

-----------------------------------------------------------------------------
(* Properties *)

Pending(a) == agent[a].status = "running" /\ agent[a].applied < row.rev

\* No assistant is recorded ahead of the row, whatever changes overlap with each other,
\* with starts, rollouts, late status answers and crashes: "restart to apply" can still
\* show.  Only a request that counts the revision up from an older one than the row has
\* by then, as the code does for two that loaded the row together, may break this.
AppliedNotAhead ==
    "recounted" \notin mishap =>
        /\ secret.rev <= row.rev
        /\ \A a \in Agent : agent[a].applied <= row.rev /\ pod[a].rev <= row.rev

\* Settings that have not got their revision yet: a changed seed still to be rolled out,
\* and a PATCH before its last commit.
Unsettled == sess["sync"].at \in {"due", "read"} \/ PatchOwes

\* The revision stands for the settings: a pod that booted at the row's revision has the
\* settings the member is shown, while requests overlap as they like.  What breaks this
\* is in the code and named by Mishap: a change made from an outdated copy, a PATCH used
\* or left between two of its commits, a rollout that was lost, parked values that come
\* back.  And a change is unsettled until its own commit of the revision.
RevisionIsSettings ==
    mishap = {} /\ ~Unsettled =>
        /\ secret.rev = row.rev => secret.cfg = Current
        /\ \A a \in Agent : pod[a].rev = row.rev => pod[a].cfg = Current

\* A step that moves what the assistants should have moves the revision with it.  The
\* exceptions are the code's: the seed is saved, and its rollout due; the modes of a
\* PATCH are committed, with the revision still to come, or counted just before with
\* the values and rendered by nobody yet; a mishap was met.
ChangeMovesRevision ==
    [][Current' # Current /\ mishap' = {} =>
          row'.rev > row.rev \/ sess'["sync"].at = "due" \/ PatchOwes' \/ PatchHalfway]_vars

\* Once the requests are over, the record of every running assistant is what its pod
\* says, however late or stale the answers were on the way.
RecordTellsTruth ==
    \A a \in Agent : []<>(kube[a] = "up" => agent[a].applied = pod[a].rev)

\* A change reaches the assistants, although rollouts overtake each other: in the end
\* each running one has the settings, or shows that it needs a restart to get them.  Not
\* so after a mishap.
SettingsArrive ==
    \A a \in Agent :
        <>[](mishap = {} /\ kube[a] = "up" => pod[a].cfg = Current \/ Pending(a))

\* Customizing a connector changes nothing the assistants see.
CustomizeChangesNothing ==
    [][\A c \in Conn : c \notin row.custom /\ c \in row'.custom /\ row'.rev = row.rev
            /\ InFlight = {"ui"} => Current' = Current]_vars
=============================================================================
