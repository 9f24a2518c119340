---------------------------- MODULE UsageRollup ----------------------------
(***************************************************************************)
(* The daily usage rollups and the retention of executions.                *)
(*                                                                         *)
(* agent_executions keeps one row per run, filed under the day it was      *)
(* created; usage_daily_rollups keeps the sums of a day.  A rollup of a    *)
(* day reads the day's executions in one step and replaces the day's sums  *)
(* in a later one (the DELETE opens SQLite's write transaction, which the  *)
(* commit ends).  The hourly worker rolls the last Window days up and then *)
(* prunes: it rolls the days older than Retention up and deletes their     *)
(* terminal executions.  The Usage panel rolls today and yesterday up on   *)
(* demand, from a request thread of its own.                               *)
(***************************************************************************)
EXTENDS Integers, FiniteSets

CONSTANTS
    Run,            \* agent_executions rows (ids)
    Panel,          \* requests for the Usage data in flight at once
    Worker,         \* the usage rollup worker
    Window,         \* usage_rollup_window_days
    Retention,      \* execution_retention_days; 0 keeps everything
    LastDay,        \* bound: the days that pass
    MaxAborts       \* bound: passes cut short by an error or a restart

Roller == Panel \cup {Worker}
Day    == 1 .. LastDay

ASSUME RollersAssumption == Worker \notin Panel
ASSUME DaysAssumption ==
    /\ LastDay \in Nat \ {0} /\ Window \in Nat \ {0} /\ Retention \in Nat
    /\ MaxAborts \in Nat

VARIABLES
    today,
    runs,       \* the executions: status, and the day of created_at
    sums,       \* per day, what its rollup rows count: runs, and finished runs
    throttled,  \* the panel refreshed within the last RECENT_REFRESH_SECONDS
    pass,       \* per roller: the pass it is making
    aborts,
    late        \* history: the runs that were active past the retention

vars == <<today, runs, sums, throttled, pass, aborts, late>>

-----------------------------------------------------------------------------
(* Types *)

RunStatuses == {"none", "active", "ended", "pruned"}
Execution   == [status : RunStatuses, day : Day]
DaySums     == [counted : SUBSET Run, finished : SUBSET Run]
NoSums      == [counted |-> {}, finished |-> {}]

Places == {"idle", "recent", "plan", "old", "delete"}
Pass   == [at : Places, days : SUBSET Day, reading : 0 .. LastDay,
           seen : DaySums, born : Day, cutoff : Int]
Idle   == [at |-> "idle", days |-> {}, reading |-> 0, seen |-> NoSums,
           born |-> 1, cutoff |-> 0]

TypeOK ==
    /\ today \in Day
    /\ runs \in [Run -> Execution]
    /\ sums \in [Day -> DaySums]
    /\ throttled \in BOOLEAN
    /\ pass \in [Roller -> Pass]
    /\ aborts \in 0 .. MaxAborts
    /\ late \in SUBSET Run

Present(r) == runs[r].status \in {"active", "ended"}

-----------------------------------------------------------------------------
(* Executions *)

Init ==
    /\ today = 1
    /\ runs = [r \in Run |-> [status |-> "none", day |-> 1]]
    /\ sums = [d \in Day |-> NoSums]
    /\ throttled = FALSE
    /\ pass = [p \in Roller |-> Idle]
    /\ aborts = 0
    /\ late = {}

\* A chat or a task starts: its row is created today.
Begin(r) ==
    /\ runs[r].status = "none"
    /\ runs' = [runs EXCEPT ![r] = [status |-> "active", day |-> today]]
    /\ UNCHANGED <<today, sums, throttled, pass, aborts, late>>

\* mark_status with a terminal status, and the usage the runtime reported
Finish(r) ==
    /\ runs[r].status = "active"
    /\ runs' = [runs EXCEPT ![r].status = "ended"]
    /\ UNCHANGED <<today, sums, throttled, pass, aborts, late>>

\* A task is run again: its latest execution row is reset to queued and keeps
\* its created_at, however old.
Requeue(r) ==
    /\ runs[r].status = "ended"
    /\ runs' = [runs EXCEPT ![r].status = "active"]
    /\ late' = IF runs[r].day < today - Retention THEN late \cup {r} ELSE late
    /\ UNCHANGED <<today, sums, throttled, pass, aborts>>

\* The runs still active when the cutoff passes their day
Overdue(now) == {r \in Run : runs[r].status = "active" /\ runs[r].day < now - Retention}

\* Midnight.  A pass takes less than a day: one that began yesterday is over.
NextDay ==
    /\ today < LastDay
    /\ \A p \in Roller : pass[p].at # "idle" => pass[p].born = today
    /\ today' = today + 1
    /\ late' = late \cup Overdue(today + 1)
    /\ UNCHANGED <<runs, sums, throttled, pass, aborts>>

-----------------------------------------------------------------------------
(* Rolling days up *)

\* Today and the days - 1 days before it
LastDays(days) == {d \in Day : today - days < d /\ d <= today}

\* A pass with a list of days to roll up
NewPass(place, days, born, cutoff) ==
    [Idle EXCEPT !.at = place, !.days = days, !.born = born, !.cutoff = cutoff]

RollUp(p, place, days, born, cutoff) ==
    pass' = [pass EXCEPT ![p] = NewPass(place, days, born, cutoff)]

\* refresh_recent: the mark is set before the days are rolled up.
Refresh(p) ==
    /\ p \in Panel /\ pass[p].at = "idle" /\ ~throttled
    /\ throttled' = TRUE
    /\ RollUp(p, "recent", LastDays(2), today, 0)
    /\ UNCHANGED <<today, runs, sums, aborts, late>>

\* RECENT_REFRESH_SECONDS later
Lapse == throttled /\ throttled' = FALSE /\ UNCHANGED <<today, runs, sums, pass, aborts, late>>

\* The worker's hourly pass: rollup_recent, then prune_executions.
RollUpLast(days) ==
    /\ pass[Worker].at = "idle"
    /\ RollUp(Worker, "recent", LastDays(days), today, 0)
    /\ UNCHANGED <<today, runs, sums, throttled, aborts, late>>

\* Mutant: the pass recomputes today only.
RollUpToday == RollUpLast(1)

RollUpRecent == RollUpLast(Window)

\* rollup_day, the SELECT: the days are taken in order.
ReadDay(p, d) ==
    /\ pass[p].at \in {"recent", "old"} /\ pass[p].reading = 0
    /\ d \in pass[p].days /\ \A e \in pass[p].days : d <= e
    /\ pass' = [pass EXCEPT ![p] = [@ EXCEPT
            !.reading = d,
            !.seen = [counted  |-> {r \in Run : Present(r) /\ runs[r].day = d},
                      finished |-> {r \in Run : runs[r].status = "ended" /\ runs[r].day = d}]]]
    /\ UNCHANGED <<today, runs, sums, throttled, aborts, late>>

\* What follows the last day of a list
AfterDays(p, place) == IF place = "old" THEN "delete" ELSE IF p = Worker THEN "plan" ELSE "idle"

\* rollup_day, from the DELETE to the commit: the day's sums are replaced.
WriteDay(p) ==
    LET d    == pass[p].reading
        rest == pass[p].days \ {d}
        next == IF rest = {} THEN AfterDays(p, pass[p].at) ELSE pass[p].at
    IN  /\ d # 0
        /\ sums' = [sums EXCEPT ![d] = pass[p].seen]
        /\ pass' = [pass EXCEPT ![p] = [@ EXCEPT
                !.reading = 0, !.seen = NoSums, !.days = rest, !.at = next]]
        /\ UNCHANGED <<today, runs, throttled, aborts, late>>

-----------------------------------------------------------------------------
(* Pruning *)

\* Mutant: the walk starts a day before the first one.
DaysFromZero(cutoff) == 0 .. cutoff - 1

\* The days from the oldest execution before the cutoff up to the cutoff
OldDays(cutoff) ==
    {d \in Day : d < cutoff /\ \E r \in Run : Present(r) /\ runs[r].day <= d}

\* Mutant: the old executions are deleted without a last rollup of their days.
PlanUnrolled ==
    /\ pass[Worker].at = "plan"
    /\ RollUp(Worker, "delete", {}, pass[Worker].born, today - Retention)
    /\ UNCHANGED <<today, runs, sums, throttled, aborts, late>>

PlanPrune ==
    LET cutoff == today - Retention
        old    == OldDays(cutoff)
    IN  /\ pass[Worker].at = "plan"
        /\ IF Retention = 0 \/ old = {}
           THEN pass' = [pass EXCEPT ![Worker] = Idle]
           ELSE RollUp(Worker, "old", old, pass[Worker].born, cutoff)
        /\ UNCHANGED <<today, runs, sums, throttled, aborts, late>>

\* The executions before the cutoff in one of the statuses are deleted.
DeleteOf(statuses) ==
    /\ pass[Worker].at = "delete"
    /\ runs' = [r \in Run |->
            IF runs[r].status \in statuses /\ runs[r].day < pass[Worker].cutoff
            THEN [runs[r] EXCEPT !.status = "pruned"] ELSE runs[r]]
    /\ pass' = [pass EXCEPT ![Worker] = Idle]
    /\ UNCHANGED <<today, sums, throttled, aborts, late>>

\* TERMINAL_EXECUTION_STATUSES only
DeleteOld == DeleteOf({"ended"})

\* An exception ends the pass, as does a restart of the Portal.
Abort(p) ==
    /\ pass[p].at # "idle" /\ aborts < MaxAborts
    /\ pass' = [pass EXCEPT ![p] = Idle]
    /\ aborts' = aborts + 1
    /\ UNCHANGED <<today, runs, sums, throttled, late>>

-----------------------------------------------------------------------------

Pruning == PlanPrune \/ DeleteOld

Rolling(p) == (\E d \in Day : ReadDay(p, d)) \/ WriteDay(p)

Next ==
    \/ \E r \in Run : Begin(r) \/ Finish(r) \/ Requeue(r)
    \/ NextDay \/ Lapse \/ RollUpRecent \/ Pruning
    \/ \E p \in Roller : Refresh(p) \/ Rolling(p) \/ Abort(p)

Spec == Init /\ [][Next]_vars

\* The worker's thread and every request's are scheduled.
FairSpec ==
    /\ Spec
    /\ WF_vars(RollUpRecent) /\ WF_vars(Pruning)
    /\ \A p \in Roller : WF_vars(Rolling(p))

-----------------------------------------------------------------------------
(* Properties *)

\* The days the worker's window and the panel roll up again, the panel's pass of
\* yesterday included, end before the days that are pruned.
Apart == Retention >= 2 /\ Window <= Retention + 1

\* A run of that day or an earlier one was active past the retention: its row is
\* kept, and its day and all after it up to the cutoff are rolled up once more,
\* without the rows already deleted.
Reopened(d) == \E r \in late : runs[r].day <= d

\* An execution is only deleted once its result is in the sums of its day, and
\* whatever passes follow, the panel's and the worker's, and wherever they are
\* cut short, the sums keep it ("so the sums outlive the rows"), where the
\* settings keep the two apart and no run of the day or before it outstayed the
\* retention.  The code sees to neither.
SumsSurvive ==
    \A r \in Run :
        runs[r].status = "pruned" /\ Apart /\ ~Reopened(runs[r].day)
            => r \in sums[runs[r].day].finished

\* A run that has ended for good, on a day the worker still rolls up, gets into
\* the sums and stays there: a slower refresh of the panel that read the day
\* before the run ended cannot keep it out ("late finishes land on their start
\* day").
EndedIsCounted ==
    \A r \in Run :
        <>[](runs[r].status = "ended" /\ runs[r].day \in LastDays(Window))
            => <>[](r \in sums[runs[r].day].finished)
=============================================================================
