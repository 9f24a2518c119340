--------------------------- MODULE DelegationRule ---------------------------
(***************************************************************************)
(* One delegation rule, the items its source shows, the task each item     *)
(* gets and the reply each finished task gets.                             *)
(*                                                                         *)
(* A run of the rule answers the items whose tasks are done, polls the     *)
(* source, claims every new item, creates its task, and at its end writes  *)
(* the rule's schedule and state back.  The worker makes one run at a time *)
(* under a lease; a member's "run once" takes no lease; a dispatcher       *)
(* thread answers items, without a run, when it has seen a task done.      *)
(*                                                                         *)
(* Every commit expires the session's copy of the rule, which is loaded    *)
(* again when it is next looked at (Loaded).                               *)
(***************************************************************************)
EXTENDS Naturals, FiniteSets

CONSTANTS
    Item,           \* what the source shows: dedupe keys
    User,           \* manual runs in flight at once
    Reader,         \* dispatcher threads that have just seen a task done
    Worker,         \* the delegation worker
    NoItem,         \* sess[p].item of an actor that works on no item
    ReplyLimit,     \* events looked at by one round of replies (100 in the code)
    MaxEdits,       \* bound: edits of the rule by its owner
    MaxFaults,      \* bound: failed polls and task creations
    MaxCrashes      \* bound: restarts of the Portal

Runner == User \cup {Worker}
Actor  == Runner \cup Reader

ASSUME ActorsAssumption ==
    /\ User \cap Reader = {} /\ Worker \notin User \cup Reader
    /\ NoItem \notin Item
ASSUME BoundsAssumption ==
    /\ ReplyLimit \in Nat \ {0} /\ MaxEdits \in Nat
    /\ MaxFaults \in Nat /\ MaxCrashes \in Nat

VARIABLES
    rule,       \* enabled, next_run_at, locked_until, and state_json's "deleted"
    shown,      \* items the source reports and the rule's conditions match
    event,      \* delegation_rule_events: the status of each item
    stale,      \* items claimed more than 300 s ago
    older,      \* pairs of items, by the time their events came to task_created
    task,       \* the agent task last created for each item
    live,       \* how many of an item's tasks have not been cancelled
    sess,       \* per actor: where it is, its copy of the rule, what it works on
    edits, faults, crashes

vars   == <<rule, shown, event, stale, older, task, live, sess, edits, faults, crashes>>
bounds == <<edits, faults, crashes>>

-----------------------------------------------------------------------------
(* Types *)

\* next_run_at is NULL, in the future or past; locked: locked_until is in the future.
Rule == [enabled : BOOLEAN, next : {"none", "later", "due"}, locked : BOOLEAN,
         state : {"kept", "deleted"}]

Answered      == {"reply_sent", "reply_failed"}
Tasked        == {"task_created"} \cup Answered
EventStatuses == {"absent", "discovered", "creating_task", "failed"} \cup Tasked
TaskStatuses  == {"none", "active", "done", "over", "cancelled"}

Holding == {"look", "create", "link"}
Places  == Holding \cup {"idle", "answer", "record", "poll", "items", "claim", "finish", "fail"}
Session == [at : Places, copy : {"kept", "deleted", "expired"}, todo : SUBSET Item,
            item : Item \cup {NoItem}, reply : Answered]
Idle    == [at |-> "idle", copy |-> "expired", todo |-> {}, item |-> NoItem,
            reply |-> "reply_sent"]

TypeOK ==
    /\ rule \in Rule
    /\ shown \in SUBSET Item
    /\ event \in [Item -> EventStatuses]
    /\ stale \in SUBSET Item
    /\ older \in SUBSET (Item \X Item)
    /\ task \in [Item -> TaskStatuses]
    /\ live \in [Item -> Nat]
    /\ sess \in [Actor -> Session]
    /\ \A p \in Actor : sess[p].at \in Holding \cup {"claim", "record"} => sess[p].item \in Item
    /\ edits \in 0 .. MaxEdits /\ faults \in 0 .. MaxFaults /\ crashes \in 0 .. MaxCrashes

-----------------------------------------------------------------------------
(* Sessions *)

Init ==
    /\ rule = [enabled |-> TRUE, next |-> "later", locked |-> FALSE, state |-> "kept"]
    /\ shown = {}
    /\ event = [i \in Item |-> "absent"]
    /\ stale = {}
    /\ older = {}
    /\ task = [i \in Item |-> "none"]
    /\ live = [i \in Item |-> 0]
    /\ sess = [p \in Actor |-> Idle]
    /\ edits = 0 /\ faults = 0 /\ crashes = 0

\* rule.state_json, loaded again when a commit has expired the copy
Loaded(s) == IF s.copy = "expired" THEN rule.state ELSE s.copy

\* The actor's session becomes s.
Becomes(p, s) == sess' = [sess EXCEPT ![p] = s]

\* The next item of a list, after a commit or a rollback
NextItem(s, place) ==
    [s EXCEPT !.at = place, !.copy = "expired", !.item = NoItem, !.todo = @ \ {s.item}]

-----------------------------------------------------------------------------
(* Runs *)

\* list_events_pending_reply: the events waiting for a reply, the oldest ones.
Pending == {i \in Item : event[i] = "task_created"}
PendingReplies ==
    {i \in Pending : Cardinality({j \in Pending : <<j, i>> \in older}) < ReplyLimit}

\* A run, or a round of replies alone, starts with the list of replies.
Listing(copy) == [Idle EXCEPT !.at = "answer", !.copy = copy, !.todo = PendingReplies]

\* list_due_rules and acquire_due_rule_lock
Acquire ==
    /\ sess[Worker].at = "idle"
    /\ rule.enabled /\ rule.next = "due" /\ ~rule.locked /\ rule.state = "kept"
    /\ rule' = [rule EXCEPT !.locked = TRUE]
    /\ Becomes(Worker, Listing(rule.state))
    /\ UNCHANGED <<shown, event, stale, older, task, live, bounds>>

\* POST .../run-once: a deleted rule is refused, a paused one is not.
RunOnce(u) ==
    /\ sess[u].at = "idle" /\ rule.state = "kept"
    /\ Becomes(u, Listing(rule.state))
    /\ UNCHANGED <<rule, shown, event, stale, older, task, live, bounds>>

\* _process_pending_replies, one event: only a task that is done is answered.
Answer(p) ==
    LET s == sess[p] IN
    /\ s.at = "answer"
    /\ \E i \in s.todo :
        \/ /\ task[i] = "done"
           /\ \E r \in Answered :
                Becomes(p, [s EXCEPT !.at = "record", !.item = i, !.reply = r])
        \/ /\ task[i] # "done"
           /\ Becomes(p, [s EXCEPT !.todo = @ \ {i}])
    /\ UNCHANGED <<rule, shown, event, stale, older, task, live, bounds>>

\* update_event_status, after the reply, for the replies it is called for
RecordOf(p, replies) ==
    LET s == sess[p] IN
    /\ s.at = "record"
    /\ event' = [event EXCEPT ![s.item] = IF s.reply \in replies THEN s.reply ELSE @]
    /\ Becomes(p, NextItem(s, "answer"))
    /\ UNCHANGED <<rule, shown, stale, older, task, live, bounds>>

\* Mutant: a reply that failed is left to be tried again.
RecordSent(p) == RecordOf(p, {"reply_sent"})

Record(p) == RecordOf(p, Answered)

\* All replies done: a run goes on to the source, whose poller looks at the rule.
EndReplies(p) ==
    LET s == sess[p] IN
    /\ s.at = "answer" /\ s.todo = {}
    /\ Becomes(p, IF p \in Reader THEN Idle ELSE [s EXCEPT !.at = "poll", !.copy = Loaded(s)])
    /\ UNCHANGED <<rule, shown, event, stale, older, task, live, bounds>>

\* The HTTP requests to the source; when they fail, so does the run.
Poll(p) ==
    LET s == sess[p] IN
    /\ s.at = "poll"
    /\ \/ Becomes(p, [s EXCEPT !.at = "items", !.todo = shown]) /\ UNCHANGED faults
       \/ /\ faults < MaxFaults /\ faults' = faults + 1
          /\ Becomes(p, [s EXCEPT !.at = "fail"])
    /\ UNCHANGED <<rule, shown, event, stale, older, task, live, edits, crashes>>

\* create_event_or_get_existing; an item that has its task is passed over.
Discover(p) ==
    LET s == sess[p] IN
    /\ s.at = "items"
    /\ \E i \in s.todo :
        /\ event' = [event EXCEPT ![i] = IF @ = "absent" THEN "discovered" ELSE @]
        /\ Becomes(p, IF event[i] \in Tasked THEN NextItem([s EXCEPT !.item = i], "items")
                      ELSE [s EXCEPT !.at = "claim", !.copy = "expired", !.item = i])
    /\ UNCHANGED <<rule, shown, stale, older, task, live, bounds>>

\* claim_event_for_task_creation: UPDATE ... WHERE task_id IS NULL AND (status
\* IN (...) OR status = 'creating_task' AND updated_at < ...), for the statuses
\* and the old claims the WHERE clause lets through
ClaimOf(p, statuses, takenOver) ==
    LET s == sess[p] IN
    /\ s.at = "claim"
    /\ IF event[s.item] \in statuses \/ (event[s.item] = "creating_task" /\ s.item \in takenOver)
       THEN /\ event' = [event EXCEPT ![s.item] = "creating_task"]
            /\ stale' = stale \ {s.item}
            /\ Becomes(p, [s EXCEPT !.at = "look", !.copy = "expired"])
       ELSE /\ Becomes(p, NextItem(s, "items"))
            /\ UNCHANGED <<event, stale>>
    /\ UNCHANGED <<rule, shown, older, task, live, bounds>>

\* Mutants: a claim is never taken over; a fresh one is; what has its task is claimed.
ClaimForEver(p) == ClaimOf(p, {"discovered", "failed"}, {})
ClaimFresh(p)   == ClaimOf(p, {"discovered", "failed"}, Item)
ClaimTasked(p)  == ClaimOf(p, {"discovered", "failed", "task_created"}, stale)

Claim(p) == ClaimOf(p, {"discovered", "failed"}, stale)

\* The event gets its task and waits for the reply.
Linked(p, i) ==
    /\ event' = [event EXCEPT ![i] = "task_created"]
    /\ older' = older \cup (Pending \X {i})
    /\ Becomes(p, NextItem(sess[p], "items"))

\* find_by_dedupe_key, for the task statuses it looks for
LookFor(p, statuses) ==
    LET s == sess[p] IN
    /\ s.at = "look"
    /\ IF task[s.item] \in statuses
       THEN Linked(p, s.item)
       ELSE Becomes(p, [s EXCEPT !.at = "create"]) /\ UNCHANGED <<event, older>>
    /\ UNCHANGED <<rule, shown, stale, task, live, bounds>>

\* Mutant: only tasks still at work are found.
LookActive(p) == LookFor(p, {"active"})

Look(p) == LookFor(p, {"active", "done", "over"})

\* task_repo.create; when it fails, the event does, and the run goes on.
Create(p) ==
    LET s == sess[p]
        i == s.item
    IN
    /\ s.at = "create"
    /\ \/ /\ task' = [task EXCEPT ![i] = "active"]
          /\ live' = [live EXCEPT ![i] = @ + 1]
          /\ Becomes(p, [s EXCEPT !.at = "link", !.copy = "expired"])
          /\ UNCHANGED <<event, faults>>
       \/ /\ faults < MaxFaults /\ faults' = faults + 1
          /\ event' = [event EXCEPT ![i] = "failed"]
          /\ Becomes(p, NextItem(s, "items"))
          /\ UNCHANGED <<task, live>>
    /\ UNCHANGED <<rule, shown, stale, older, edits, crashes>>

\* update_event_status, then the task is dispatched (TaskDispatch).
Link(p) ==
    /\ sess[p].at = "link"
    /\ Linked(p, sess[p].item)
    /\ UNCHANGED <<rule, shown, stale, task, live, bounds>>

\* The run goes on to write back the state it takes for the rule's.
EndItemsWith(p, state) ==
    LET s == sess[p] IN
    /\ s.at = "items" /\ s.todo = {}
    /\ Becomes(p, [s EXCEPT !.at = "finish", !.copy = state])
    /\ UNCHANGED <<rule, shown, event, stale, older, task, live, bounds>>

\* Mutant: the copy is not loaded again.
EndItemsUnread(p) == EndItemsWith(p, sess[p].copy)

\* The state is read before finish_run commits, and written after it.
EndItems(p) == EndItemsWith(p, Loaded(sess[p]))

\* The end of a run, good or bad: the next one is scheduled if the rule is
\* enabled by now, and the lease is given up, whoever holds it.
RunOver(p, state) ==
    /\ rule' = [rule EXCEPT !.next = IF rule.enabled THEN "later" ELSE "none",
                            !.locked = FALSE, !.state = state]
    /\ Becomes(p, Idle)
    /\ UNCHANGED <<shown, event, stale, older, task, live, bounds>>

Finish(p) == sess[p].at = "finish" /\ RunOver(p, sess[p].copy)
Fail(p)   == sess[p].at = "fail" /\ RunOver(p, rule.state)

-----------------------------------------------------------------------------
(* The owner's edits *)

Edit(becomes) ==
    /\ edits < MaxEdits /\ edits' = edits + 1
    /\ rule.state = "kept"
    /\ rule' = becomes
    /\ UNCHANGED <<shown, event, stale, older, task, live, sess, faults, crashes>>

Stopped == [rule EXCEPT !.enabled = FALSE, !.next = "none", !.locked = FALSE]
Pause   == Edit(Stopped)
Enable  == Edit([rule EXCEPT !.enabled = TRUE, !.next = "later"])
Delete  == Edit([Stopped EXCEPT !.state = "deleted"])

-----------------------------------------------------------------------------
(* The surroundings *)

\* next_run_at comes.
Tick ==
    /\ rule.next = "later"
    /\ rule' = [rule EXCEPT !.next = "due"]
    /\ UNCHANGED <<shown, event, stale, older, task, live, sess, bounds>>

\* Mutant: a lease never ends.
LapseNever == FALSE /\ UNCHANGED vars

\* locked_until passes; a run may outlive its lease.
Lapse ==
    /\ rule.locked
    /\ rule' = [rule EXCEPT !.locked = FALSE]
    /\ UNCHANGED <<shown, event, stale, older, task, live, sess, bounds>>

\* 300 s pass after a claim.  What a run does between claiming an item and
\* linking its task takes less.
Age(i) ==
    /\ event[i] = "creating_task" /\ i \notin stale
    /\ \A p \in Actor : ~(sess[p].at \in Holding /\ sess[p].item = i)
    /\ stale' = stale \cup {i}
    /\ UNCHANGED <<rule, shown, event, older, task, live, sess, bounds>>

\* An item appears at the source, or no longer matches.
SourceMoves(i) ==
    /\ shown' = IF i \in shown THEN shown \ {i} ELSE shown \cup {i}
    /\ UNCHANGED <<rule, event, stale, older, task, live, sess, bounds>>

\* A task ends (TaskDispatch): when it is done, the thread that saw it goes on
\* to the replies, unless it dies first.
TaskEnds(i) ==
    /\ task[i] = "active"
    /\ \/ /\ task' = [task EXCEPT ![i] = "done"]
          /\ \/ \E r \in Reader : sess[r].at = "idle" /\ Becomes(r, Listing("expired"))
             \/ UNCHANGED sess
          /\ UNCHANGED live
       \/ /\ task' = [task EXCEPT ![i] = "over"]
          /\ UNCHANGED <<live, sess>>
       \/ /\ task' = [task EXCEPT ![i] = "cancelled"]
          /\ live' = [live EXCEPT ![i] = @ - 1]
          /\ UNCHANGED sess
    /\ UNCHANGED <<rule, shown, event, stale, older, bounds>>

\* The Portal restarts: sessions are gone, the lease and the claims are not.
Crash ==
    /\ crashes < MaxCrashes /\ crashes' = crashes + 1
    /\ sess' = [p \in Actor |-> Idle]
    /\ UNCHANGED <<rule, shown, event, stale, older, task, live, edits, faults>>

-----------------------------------------------------------------------------
(* Specification *)

\* A step of an actor that is under way
Proceed(p) == \/ Answer(p) \/ Record(p) \/ EndReplies(p) \/ Poll(p) \/ Discover(p)
              \/ Claim(p) \/ Look(p) \/ Create(p) \/ Link(p) \/ EndItems(p)
              \/ Finish(p) \/ Fail(p)

Next ==
    \/ \E p \in Actor : Proceed(p)
    \/ Acquire \/ \E u \in User : RunOnce(u)
    \/ Pause \/ Enable \/ Delete
    \/ Tick \/ Lapse \/ Crash
    \/ \E i \in Item : Age(i) \/ SourceMoves(i) \/ TaskEnds(i)

Spec == Init /\ [][Next]_vars

\* The worker's loop catches what a run raises and comes round, requests and
\* threads run on, and time passes.  Nobody has to edit the rule or run it once.
FairSpec ==
    /\ Spec
    /\ \A p \in Actor : WF_vars(Proceed(p))
    /\ WF_vars(Acquire) /\ WF_vars(Tick) /\ WF_vars(Lapse)
    /\ \A i \in Item : WF_vars(Age(i))

-----------------------------------------------------------------------------
(* Properties *)

\* An item has one task at most that was not cancelled, however many runs find
\* it at once and wherever the Portal restarts between claim, task and link.
OneTask == \A i \in Item : live[i] <= 1

\* What was promised about an item stays: see EventLedger.
Ledger == [i \in Item |-> IF event[i] \in Answered THEN "answered"
                          ELSE IF event[i] \in Tasked THEN "tasked" ELSE "new"]
Events == INSTANCE EventLedger WITH ledger <- Ledger
KeepsTheEvents == Events!LedgerSpec

\* A due rule is run: the worker of a Portal that died under its lease included.
DueIsRun == rule.next = "due" ~> rule.next # "due"

\* What an enabled rule's source keeps showing gets its task: through failed
\* polls and creations, and claims whose holder died.
FoundIsTasked ==
    \A i \in Item : []<>~(rule.enabled /\ i \in shown /\ event[i] \notin Tasked)

\* When the task of an enabled rule is done its item is answered in the end
\* (tests/test_delegation_rule_service.py:690, test_reply_sent_when_task_done).
DoneIsAnswered ==
    \A i \in Item : []<>~(rule.enabled /\ task[i] = "done" /\ event[i] = "task_created")

\* Deleting a rule is final ("Delete removes the rule", BEGINNER_GUIDE.md:433).
DeletedStays == [][rule.state = "deleted" => rule'.state = "deleted"]_vars
=============================================================================
