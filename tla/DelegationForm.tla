---------------------------- MODULE DelegationForm ----------------------------
(***************************************************************************)
(* The form of a delegation: its schedule, the scope and conditions of its *)
(* source and the connection it works through, and the requests that write *)
(* its row beside the end of a run.  A request reads the row, decides, and *)
(* writes back the columns it changed.                                     *)
(***************************************************************************)
EXTENDS Integers, Sequences

CONSTANTS
    Schedules,      \* what a page or a client may post as a schedule
    Connections,    \* the settings a member may have saved
    Posts,          \* the delegations they may ask for
    Edits,          \* the patches a page or a client may post
    Tab,            \* requests that write the row at once
    MaxTime, MaxRequests    \* bounds: time, requests

\* Seconds are a number or left out, on and off are a flag; the connections of a member are a list.
ASSUME FormAssumption ==
    LET Posted(raw) == raw.every \in Nat \cup {-1} IN
    /\ \A raw \in Schedules : Posted(raw)
    /\ \A posted \in Posts : Posted(posted.schedule) /\ posted.enabled \in BOOLEAN
    /\ \A edit \in Edits : /\ "schedule" \in DOMAIN edit => Posted(edit.schedule)
                           /\ "enabled" \in DOMAIN edit => edit.enabled \in BOOLEAN
    /\ \A conn \in Connections : DOMAIN conn.rows \subseteq Nat \ {0}

VARIABLES
    saved,          \* the connections of the member
    rule,           \* the row, or NoRule
    tab,            \* each request: where it is, the row it read, the row it will write
    running,        \* the run under way: the schedule it read, and its end
    time, requests,
    mixed,          \* history: two requests wrote the row each over a copy the other had not seen
    planned         \* history: when next_run_at was last worked out, by a run that failed, beside another write

formRowVars == <<saved, rule, tab, running, time, requests, mixed, planned>>

-----------------------------------------------------------------------------
(* Schedules.                                                              *)

Never   == -1
Refused == [type |-> "refused"]
OrElse(value, default) == IF value = "" THEN default ELSE value
TypeOf(raw) == IF raw.type # "" THEN raw.type ELSE IF raw.expression # "" THEN "cron" ELSE "interval"

\* A cron expression is checked, its zone looked up and its policies are known words; an interval keeps
\* nothing but its seconds, the row's own when none are posted.
Normalised(raw, interval) ==
    LET misfire == OrElse(raw.misfire, "fire_once")
        overlap == OrElse(raw.overlap, "skip_if_running")
    IN  CASE TypeOf(raw) = "interval" /\ raw.every # 0 ->
               [type |-> "interval", expression |-> "", zone |-> "", every |-> IF raw.every = Never THEN interval ELSE raw.every,
                misfire |-> "", overlap |-> ""]
          [] /\ TypeOf(raw) = "cron" /\ raw.expression = "hourly" /\ raw.zone \in {"", "UTC"}
             /\ misfire \in {"fire_once", "skip"} /\ overlap \in {"skip_if_running", "allow"} ->
               [type |-> "cron", expression |-> raw.expression, zone |-> OrElse(raw.zone, "UTC"), every |-> Never,
                misfire |-> misfire, overlap |-> overlap]
          [] OTHER -> Refused
Every(schedule) == IF schedule.type = "cron" THEN 1 ELSE schedule.every

\* An interval from now; a cron expression's next time, which is after now.
HourLength == 2
NextRun(schedule, now) == IF schedule.type = "interval" THEN now + schedule.every ELSE (now \div HourLength + 1) * HourLength

SchedulePreview(raw, now) ==
    IF Normalised(raw, 1) = Refused THEN [valid |-> FALSE, next |-> Never]
    ELSE [valid |-> TRUE, next |-> NextRun(Normalised(raw, 1), now)]

-----------------------------------------------------------------------------
(* The source and its connection.                                          *)

Sources == {"github_pr_review", "jira_status", "timer"}
Provider == [s \in Sources |-> CASE s = "github_pr_review" -> "github" [] s = "jira_status" -> "jira" [] OTHER -> "timer"]
Fields(source) == CASE Provider[source] = "github" -> {"repository", "labels", "authors"}
                    [] Provider[source] = "jira" -> {"project", "labels", "status"} [] OTHER -> {}
Conditions(source, posted) == posted \cap Fields(source)
Scope(source, posted) == IF Provider[source] = "jira" THEN posted ELSE ""

Usable(row)    == row.on /\ row.url # "" /\ row.auth
Called(row, selector) == selector \in {row.name, row.url}
Selected(rows, selector) ==
    LET fit == {i \in DOMAIN rows : Usable(rows[i]) /\ (selector # "" => Called(rows[i], selector))}
    IN  IF fit = {} THEN 0 ELSE CHOOSE i \in fit : \A j \in fit : i <= j

\* What a run, an answer and the checks of the form work with: 0 when there is nothing.
Resolved(conn, source, scope) ==
    CASE Provider[source] = "timer"  -> 1
      [] Provider[source] = "github" -> IF conn.found /\ conn.github THEN 1 ELSE 0
      [] Provider[source] = "jira"   -> IF conn.found /\ conn.jira THEN Selected(conn.rows, scope) ELSE 0

\* What the form says of it beforehand, with the Jira connections it offers.
Warning(conn, source, scope) ==
    CASE Provider[source] = "timer" -> ""
      [] Provider[source] # "timer" /\ ~conn.found -> "missing"
      [] Provider[source] = "github" /\ conn.found -> IF conn.github THEN "" ELSE "github"
      [] Provider[source] = "jira" /\ conn.found ->
           IF ~conn.jira THEN "not enabled" ELSE IF Selected(conn.rows, scope) # 0 THEN ""
           ELSE IF scope # "" THEN "not in the connections" ELSE "none usable"
Offered(conn) == {OrElse(conn.rows[i].name, conn.rows[i].url) : i \in {j \in DOMAIN conn.rows : conn.rows[j].on /\ conn.rows[j].url # ""}}

-----------------------------------------------------------------------------
(* The row.                                                                *)

NoRule  == [exists |-> FALSE]
RuleColumns == {"exists", "source", "scope", "conditions", "prompt", "schedule", "enabled", "next", "deleted"}
IdleTab    == [at |-> "idle"]
NoRun   == [at |-> "none"]
FormRowInit ==
    /\ saved \in Connections /\ rule = NoRule /\ tab = [t \in Tab |-> IdleTab] /\ running = NoRun
    /\ time = 0 /\ requests = 0 /\ mixed = FALSE /\ planned = [at |-> Never, failed |-> FALSE, raced |-> FALSE]

Fit(row) == /\ row.schedule # Refused
            /\ row.source = "jira_status" => "status" \in row.conditions
            /\ row.source = "timer" => row.prompt
Made(posted) ==
    LET schedule == Normalised(posted.schedule, 1) IN
    [exists |-> TRUE, source |-> posted.source, scope |-> Scope(posted.source, posted.scope),
     conditions |-> Conditions(posted.source, posted.conditions), prompt |-> posted.prompt /\ posted.source = "timer",
     schedule |-> schedule, enabled |-> posted.enabled, deleted |-> FALSE,
     next |-> IF posted.enabled /\ schedule # Refused THEN NextRun(schedule, time) ELSE Never]

Planned == [at |-> time, failed |-> FALSE, raced |-> FALSE]
Create(posted) ==
    /\ rule = NoRule /\ requests < MaxRequests /\ requests' = requests + 1
    /\ Fit(Made(posted)) /\ Resolved(saved, posted.source, Made(posted).scope) # 0
    /\ rule' = Made(posted) /\ planned' = Planned
    /\ UNCHANGED <<saved, tab, running, time, mixed>>

\* What a patch leaves out keeps its value, but a new source drops what belonged to the
\* old one.
Has(edit, field) == field \in DOMAIN edit
Given(edit, field, kept) == IF Has(edit, field) THEN edit[field] ELSE kept
Patched(row, edit) ==
    LET source  == Given(edit, "source", row.source)
        changed == source # row.source
        prompt  == Given(edit, "prompt", row.prompt)
    IN  [row EXCEPT
          !.source = source,
          !.scope = Scope(source, Given(edit, "scope", IF changed THEN "" ELSE @)),
          !.conditions = Conditions(source, Given(edit, "conditions", IF changed THEN {} ELSE @)),
          !.prompt = IF changed /\ source # "timer" THEN FALSE ELSE prompt,
          !.schedule = IF Has(edit, "schedule") THEN Normalised(edit.schedule, IF @.every = Never THEN 1 ELSE @.every) ELSE @,
          !.enabled = Given(edit, "enabled", @)]

\* Mutant: switching on leaves the next run where it was.
ReplansUnlessOn(row, edit, new) == new.enabled /\ (Has(edit, "schedule") \/ new.source # row.source)
\* Switching off takes the next run away; switching on, a schedule and a new source work it
\* out again.
Replans(row, edit, new) == new.enabled /\ (Has(edit, "enabled") \/ Has(edit, "schedule") \/ new.source # row.source)
PlannedNext(row, edit, new) ==
    CASE Has(edit, "enabled") /\ ~new.enabled -> Never
      [] Replans(row, edit, new) -> NextRun(new.schedule, time)
      [] OTHER -> row.next

Revalidated(edit) == DOMAIN edit \cap {"source", "scope"} # {} \/ Given(edit, "enabled", FALSE)
Update(t, edit) ==
    /\ tab[t] = IdleTab /\ rule # NoRule /\ ~rule.deleted /\ requests < MaxRequests /\ requests' = requests + 1
    /\ LET new == Patched(rule, edit) IN
       /\ Fit(new) /\ (Revalidated(edit) => Resolved(saved, new.source, new.scope) # 0)
       /\ tab' = [tab EXCEPT ![t] = [at |-> "write", read |-> rule, replans |-> Replans(rule, edit, new),
                                     new |-> [new EXCEPT !.next = PlannedNext(rule, edit, new)]]]
    /\ UNCHANGED <<saved, rule, running, time, mixed, planned>>

\* A deleted delegation keeps its row.
DeleteRule(t) ==
    /\ tab[t] = IdleTab /\ rule # NoRule /\ ~rule.deleted /\ requests < MaxRequests /\ requests' = requests + 1
    /\ tab' = [tab EXCEPT ![t] = [at |-> "write", read |-> rule, replans |-> FALSE,
                                  new |-> [rule EXCEPT !.deleted = TRUE, !.enabled = FALSE, !.next = Never]]]
    /\ UNCHANGED <<saved, rule, running, time, mixed, planned>>

WrittenRule(read, new) == [c \in RuleColumns |-> IF new[c] # read[c] THEN new[c] ELSE rule[c]]
Raced(read) == rule # read
SaveRule(t) ==
    /\ tab[t].at = "write" /\ tab' = [tab EXCEPT ![t] = IdleTab]
    /\ rule' = WrittenRule(tab[t].read, tab[t].new)
    /\ planned' = IF tab[t].replans THEN [Planned EXCEPT !.raced = Raced(tab[t].read)]
                  ELSE [planned EXCEPT !.raced = @ \/ Raced(tab[t].read)]
    /\ mixed' = (mixed \/ [rule EXCEPT !.next = Never] # [tab[t].read EXCEPT !.next = Never])
    /\ UNCHANGED <<saved, running, time, requests>>

-----------------------------------------------------------------------------
(* A run: the schedule is read when it begins, whether the delegation is   *)
(* on when it ends.                                                        *)

BeginRun == /\ running = NoRun /\ rule # NoRule /\ ~rule.deleted
         /\ running' = [at |-> "run", began |-> rule]
         /\ UNCHANGED <<saved, rule, tab, time, mixed, planned>>
WorkerRuns == BeginRun /\ rule.enabled /\ rule.next \in 0..time /\ UNCHANGED requests
RunNow     == BeginRun /\ requests < MaxRequests /\ requests' = requests + 1

\* The connection of the delegation is looked at without its scope; a run that fails tries
\* again after a minute at the least.
After(r, failed) == IF ~rule.enabled THEN Never
                    ELSE IF failed THEN time + Every(r.began.schedule) ELSE NextRun(r.began.schedule, time)
EndRun(failed) ==
    /\ running.at = "run"
    /\ failed \/ Resolved(saved, running.began.source, "") # 0
    /\ running' = [at |-> "ended", began |-> running.began, read |-> rule, failed |-> failed,
                   new |-> [rule EXCEPT !.next = After(running, failed)]]
    /\ UNCHANGED <<saved, rule, tab, time, requests, mixed, planned>>
Replan ==
    /\ running.at = "ended" /\ running' = NoRun
    /\ rule' = WrittenRule(running.read, running.new)
    /\ planned' = [at |-> time, failed |-> running.failed,
                   raced |-> Raced(running.read) \/ rule.schedule # running.began.schedule]
    /\ UNCHANGED <<saved, tab, time, requests, mixed>>

SaveSettings(conn) == /\ conn # saved /\ requests < MaxRequests /\ requests' = requests + 1 /\ saved' = conn
                      /\ UNCHANGED <<rule, tab, running, time, mixed, planned>>
\* A request decides and writes within the same moment.
TimePasses == /\ time < MaxTime /\ time' = time + 1 /\ running.at # "ended" /\ \A t \in Tab : tab[t] = IdleTab
              /\ UNCHANGED <<saved, rule, tab, running, requests, mixed, planned>>

FormRowNext ==
    \/ \E posted \in Posts : Create(posted)
    \/ \E t \in Tab : SaveRule(t) \/ DeleteRule(t) \/ \E edit \in Edits : Update(t, edit)
    \/ WorkerRuns \/ RunNow \/ Replan \/ TimePasses
    \/ \E failed \in BOOLEAN : EndRun(failed)
    \/ \E conn \in Connections : SaveSettings(conn)

-----------------------------------------------------------------------------
\* Whatever is posted beside whatever run: a delegation that is on, and no other, has a next
\* run, the one its schedule says from the moment it was worked out, unless another write
\* came between; the row holds what a run can work with, and one that is deleted is off,
\* unless two requests overwrote each other;
\* what the form shows beforehand is what is accepted, and the connection it says a run
\* would take is the one taken.
RuleStaysRunnable ==
    /\ rule # NoRule =>
         /\ ~planned.raced => (rule.enabled <=> rule.next # Never)
         /\ rule.enabled /\ ~planned.raced /\ ~planned.failed => rule.next = NextRun(rule.schedule, planned.at)
         /\ Normalised(rule.schedule, 1) = rule.schedule
         /\ ~mixed => /\ Fit(rule) /\ (rule.enabled => ~rule.deleted)
                     /\ rule.conditions \subseteq Fields(rule.source) /\ Scope(rule.source, rule.scope) = rule.scope
    /\ \A raw \in Schedules : LET shown == SchedulePreview(raw, time) IN
         shown.valid = (Normalised(raw, 1) # Refused) /\ (shown.valid => shown.next > time)
    /\ \A source \in Sources, scope \in {"", "one", "two", "gone"} :
         (Warning(saved, source, scope) = "") = (Resolved(saved, source, scope) # 0)
    /\ saved.jira /\ Resolved(saved, "jira_status", "") # 0 =>
         \E name \in Offered(saved) : Resolved(saved, "jira_status", name) = Resolved(saved, "jira_status", "")
=============================================================================
