------------------------ MODULE TaskDispatch_proofs ------------------------
(***************************************************************************)
(* Proofs about TaskDispatch, for any number of tasks, threads, requests,  *)
(* attempts, restarts and faults.                                          *)
(***************************************************************************)
EXTENDS TaskDispatch, TLAPS

-----------------------------------------------------------------------------
(* The inductive invariant *)

\* A row exists once it has been queued.
Born == \A t \in Task : task[t].status = "absent" <=> attempt[t] = 0

\* What the place an actor has come to says of its session.
Sound(p, s) ==
    /\ s.at # "idle" /\ p # Worker => s.task \in Task
    /\ p = Worker /\ s.at \in {"probe", "apply", "settle", "mark"} => s.task \in Task
    /\ s.task \in Task => attempt[s.task] # 0
    /\ s.outcome \in SettledStatuses \cup {"absent"}
    /\ s.at \in {"apply", "settle"} => s.outcome # "absent"
    /\ s.at = "withdraw" => s.row.status = "queued"
    /\ s.at = "reset" => s.row.status # "queued"
SoundSessions == \A p \in Actor : Sound(p, sess[p])
SoundBatch == \A t \in batch.todo : attempt[t] # 0

\* The attempt a queued row stands for has not been claimed, nor has a later one.
Unclaimed == \A t \in Task :
    /\ \A k \in claimed[t] : k <= attempt[t]
    /\ task[t].status = "queued" => attempt[t] \notin claimed[t]

\* A claim belongs to the thread that is about to submit it, or has been used.
Holds(p, t, k) == sess[p].at = "submit" /\ sess[p].task = t /\ sess[p].claim = k
ClaimsHeld == \A p \in Actor : sess[p].at = "submit" =>
    /\ sess[p].task \in Task
    /\ sess[p].claim \in claimed[sess[p].task]
    /\ posts[sess[p].task][sess[p].claim] = 0
ClaimsApart == \A p, q \in Actor, t \in Task, k \in Attempt :
    Holds(p, t, k) /\ Holds(q, t, k) => p = q
PostsClaimed == \A t \in Task : \A k \in Attempt : posts[t][k] # 0 => k \in claimed[t]

\* A withdrawn attempt is over and was never claimed.
Withdrawals == \A t \in Task : \A k \in withdrawn[t] :
    /\ k <= attempt[t] /\ k \notin claimed[t]
    /\ task[t].status = "queued" => k # attempt[t]

IInv == /\ TypeOK /\ Born /\ SoundSessions /\ SoundBatch /\ Unclaimed
        /\ ClaimsHeld /\ ClaimsApart /\ PostsClaimed /\ SubmittedOnce /\ Withdrawals

\* A step writes one row at most.
OneRow == \A t, u \in Task : task'[t] # task[t] /\ task'[u] # task[u] => t = u

\* What all steps but the queueing, claiming, submitting and withdrawing ones
\* do: the books stay, no row is queued, no thread comes to submit.
Quiet ==
    /\ UNCHANGED <<attempt, posts, claimed, withdrawn>>
    /\ task' \in [Task -> Row]
    /\ \A t \in Task : /\ task'[t].status = "queued" => task[t].status = "queued"
                       /\ (task'[t].status = "absent" <=> task[t].status = "absent")
    /\ OneRow
    /\ sess' \in [Actor -> Session]
    /\ \A p \in Actor : sess'[p] = sess[p] \/ (sess'[p].at # "submit" /\ Sound(p, sess'[p]))
    /\ batch' \in Batch
    /\ \A t \in batch'.todo : attempt[t] # 0
    /\ exec' \in [Task -> ExecStatuses] /\ agent' \in BOOLEAN
    /\ run' \in [Task -> RunStatuses] /\ aged' \in [Task -> 0 .. MaxAttempts]
    /\ crashes' \in 0 .. MaxCrashes /\ faults' \in 0 .. MaxFaults

THEOREM InitIInv == Init => IInv
<1> SUFFICES ASSUME Init PROVE IInv
  OBVIOUS
<1> USE BoundsAssumption, ActorsAssumption
<1>1. TypeOK
  BY DEF Init, TypeOK, Row, NoRow, RowStatuses, ExecStatuses, Session, Idle, Places,
         Batch, NoBatch, RunStatuses, Attempt, Actor
<1>2. Born /\ SoundSessions /\ SoundBatch /\ Unclaimed
  BY DEF Init, Born, SoundSessions, Sound, SoundBatch, Unclaimed, Idle, NoBatch, NoRow
<1>3. ClaimsHeld /\ ClaimsApart /\ PostsClaimed /\ SubmittedOnce /\ Withdrawals
  BY DEF Init, ClaimsHeld, ClaimsApart, Holds, PostsClaimed, SubmittedOnce,
         Withdrawals, Idle, Attempt
<1> QED
  BY <1>1, <1>2, <1>3 DEF IInv

LEMMA QuietKeeps == ASSUME IInv, Quiet PROVE IInv'
<1> USE DEF IInv, Quiet
<1>1. TypeOK'
  <2>1. \A p \in Actor : sess'[p].at # "idle" /\ p # Worker => sess'[p].task \in Task
    BY DEF SoundSessions, Sound
  <2>2. sess'[Worker].at \in {"probe", "apply", "settle", "mark"} => sess'[Worker].task \in Task
    BY DEF SoundSessions, Sound, Actor
  <2> QED
    BY <2>1, <2>2 DEF TypeOK
<1>2. Born' /\ SoundBatch' /\ Unclaimed' /\ PostsClaimed' /\ SubmittedOnce' /\ Withdrawals'
  <2>1. Born'
    BY DEF Born
  <2>2. SoundBatch'
    BY DEF SoundBatch
  <2>3. Unclaimed'
    BY DEF Unclaimed
  <2>4. PostsClaimed' /\ SubmittedOnce'
    BY DEF PostsClaimed, SubmittedOnce
  <2>5. Withdrawals'
    BY DEF Withdrawals, TypeOK
  <2> QED
    BY <2>1, <2>2, <2>3, <2>4, <2>5
<1>3. SoundSessions'
  BY DEF SoundSessions, Sound
<1>4. \A p \in Actor : sess'[p].at = "submit" => sess'[p] = sess[p]
  OBVIOUS
<1>5. ClaimsHeld'
  BY <1>4 DEF ClaimsHeld
<1>6. ClaimsApart'
  <2> SUFFICES ASSUME NEW p \in Actor, NEW q \in Actor, NEW t \in Task, NEW k \in Attempt,
                      Holds(p, t, k)', Holds(q, t, k)'
               PROVE p = q
    BY DEF ClaimsApart
  <2>1. Holds(p, t, k) /\ Holds(q, t, k)
    BY <1>4 DEF Holds
  <2> QED
    BY <2>1 DEF ClaimsApart
<1> QED
  BY <1>1, <1>2, <1>3, <1>5, <1>6

LEMMA FlushedStatus ==
  ASSUME NEW stored \in Row, NEW loaded \in Row, NEW assigned \in Row
  PROVE  /\ Flush(stored, loaded, assigned) \in Row
         /\ Flush(stored, loaded, assigned).status =
                IF assigned.status = loaded.status THEN stored.status ELSE assigned.status
BY DEF Flush, Row

LEMMA OutcomeRow ==
  ASSUME NEW row \in Row, NEW status \in RowStatuses, NEW now \in 0 .. MaxAttempts
  PROVE  /\ WithOutcome(row, status, now) \in Row
         /\ WithOutcome(row, status, now).status = status
         /\ Started(row, now) \in Row /\ Started(row, now).status = row.status
BY DEF WithOutcome, Started, Row

\* A save that assigns no "queued" neither queues the row nor makes it vanish.
LEMMA SaveQuiet ==
  ASSUME IInv, NEW p \in Actor, sess[p].task \in Task, NEW assigned \in Row,
         \/ assigned.status \in SettledStatuses \cup {"running"}
         \/ assigned.status = sess[p].row.status,
         NEW next \in {"mark", "ack"}, Save(p, assigned, next)
  PROVE  /\ task' \in [Task -> Row]
         /\ \A t \in Task : /\ task'[t].status = "queued" => task[t].status = "queued"
                            /\ (task'[t].status = "absent" <=> task[t].status = "absent")
         /\ OneRow
         /\ sess' \in [Actor -> Session]
         /\ \A q \in Actor : sess'[q] = sess[q] \/ (sess'[q].at # "submit" /\ Sound(q, sess'[q]))
<1> DEFINE t0 == sess[p].task
           stored == Flush(task[t0], sess[p].row, assigned)
<1>1. /\ task[t0] \in Row /\ sess[p] \in Session /\ sess[p].row \in Row
      /\ task \in [Task -> Row] /\ sess \in [Actor -> Session]
  BY DEF IInv, TypeOK, Session
<1>2. /\ stored \in Row
      /\ stored.status = IF assigned.status = sess[p].row.status THEN task[t0].status
                         ELSE assigned.status
  BY <1>1, FlushedStatus
<1>3. attempt[t0] # 0 /\ task[t0].status # "absent"
  BY DEF IInv, SoundSessions, Sound, Born
<1>4. task' = [task EXCEPT ![t0] = stored]
  BY DEF Save
<1>5. task' \in [Task -> Row] /\ \A t \in Task : t # t0 => task'[t] = task[t]
  BY <1>1, <1>2, <1>4
<1>6. task'[t0].status = "queued" => task[t0].status = "queued"
  BY <1>1, <1>2, <1>4 DEF SettledStatuses
<1>7. task'[t0].status # "absent"
  BY <1>1, <1>2, <1>3, <1>4 DEF SettledStatuses
<1> DEFINE s == [Idle EXCEPT !.at = next, !.task = t0, !.report = ExecStatus(stored.status),
                !.claim = IF next = "ack" THEN sess[p].claim ELSE 0,
                !.outcome = IF next = "ack" THEN sess[p].outcome ELSE "absent"]
<1>8. sess' = [sess EXCEPT ![p] = s]
  BY DEF Save
<1>9. ExecStatus(stored.status) \in ExecStatuses
  BY DEF ExecStatus, ExecStatuses
<1>10. /\ s \in Session /\ s.at = next /\ s.task = t0
       /\ s.outcome \in {sess[p].outcome, "absent"}
  <2>1. sess[p].claim \in 0 .. MaxAttempts /\ 0 \in 0 .. MaxAttempts
        /\ sess[p].outcome \in RowStatuses /\ "absent" \in RowStatuses
    BY <1>1, BoundsAssumption DEF Session, RowStatuses
  <2>2. NoRow \in Row
    BY BoundsAssumption DEF NoRow, Row, RowStatuses
  <2> HIDE DEF stored, t0
  <2>3. t0 \in Task
    BY DEF t0
  <2> QED
    BY <1>9, <2>1, <2>2, <2>3 DEF Session, Idle, Places
<1>11. Sound(p, s)
  <2>1. sess[p].outcome \in SettledStatuses \cup {"absent"}
    BY DEF IInv, SoundSessions, Sound
  <2> HIDE DEF s
  <2> QED
    BY <1>3, <1>10, <2>1 DEF Sound
<1> HIDE DEF s, stored, t0
<1>12. sess' \in [Actor -> Session]
  BY <1>1, <1>8, <1>10
<1>13. \A q \in Actor : sess'[q] = sess[q] \/ (sess'[q].at # "submit" /\ Sound(q, sess'[q]))
  BY <1>1, <1>8, <1>10, <1>11
<1> QED
  BY <1>5, <1>6, <1>7, <1>12, <1>13, <1>3 DEF OneRow

-----------------------------------------------------------------------------
(* The quiet actions *)

\* What an action that touches neither the rows nor the books still has to show.
LEMMA SessionStep ==
  ASSUME IInv, UNCHANGED <<task, attempt, posts, claimed, withdrawn>>,
         sess' \in [Actor -> Session],
         \A p \in Actor : sess'[p] = sess[p] \/ (sess'[p].at # "submit" /\ Sound(p, sess'[p])),
         batch' \in Batch, \A t \in batch'.todo : attempt[t] # 0,
         exec' \in [Task -> ExecStatuses], agent' \in BOOLEAN,
         run' \in [Task -> RunStatuses], aged' \in [Task -> 0 .. MaxAttempts],
         crashes' \in 0 .. MaxCrashes, faults' \in 0 .. MaxFaults
  PROVE  Quiet
BY DEF Quiet, OneRow, IInv, TypeOK

\* The same when one session alone changes, and none of the surroundings.
LEMMA OneSession ==
  ASSUME IInv, NEW p \in Actor, NEW s \in Session, s.at # "submit", Sound(p, s),
         sess' = [sess EXCEPT ![p] = s],
         UNCHANGED <<task, attempt, posts, claimed, withdrawn>>,
         batch' \in Batch, \A t \in batch'.todo : attempt[t] # 0,
         exec' \in [Task -> ExecStatuses], agent' \in BOOLEAN,
         run' \in [Task -> RunStatuses], aged' \in [Task -> 0 .. MaxAttempts],
         crashes' \in 0 .. MaxCrashes, faults' \in 0 .. MaxFaults
  PROVE  Quiet
<1>1. sess \in [Actor -> Session]
  BY DEF IInv, TypeOK
<1>2. sess' \in [Actor -> Session]
  BY <1>1
<1>3. \A q \in Actor : sess'[q] = sess[q] \/ (sess'[q].at # "submit" /\ Sound(q, sess'[q]))
  BY <1>1
<1> QED
  BY <1>2, <1>3, SessionStep

LEMMA IdleSession == Idle \in Session /\ \A p \in Actor : Sound(p, Idle)
BY ActorsAssumption, BoundsAssumption
   DEF Idle, Session, Places, NoRow, Row, RowStatuses, ExecStatuses, Sound

\* The parts of IInv an action that leaves them alone hands to OneSession.
LEMMA Unchanging ==
  ASSUME IInv
  PROVE  /\ batch \in Batch /\ \A t \in batch.todo : t \in Task /\ attempt[t] # 0
         /\ exec \in [Task -> ExecStatuses] /\ agent \in BOOLEAN
         /\ run \in [Task -> RunStatuses] /\ aged \in [Task -> 0 .. MaxAttempts]
         /\ crashes \in 0 .. MaxCrashes /\ faults \in 0 .. MaxFaults
         /\ task \in [Task -> Row] /\ attempt \in [Task -> 0 .. MaxAttempts]
         /\ sess \in [Actor -> Session] /\ \A p \in Actor : Sound(p, sess[p])
BY DEF IInv, TypeOK, SoundBatch, SoundSessions, Batch

\* A session that goes on to write an outcome.
LEMMA Settling ==
  ASSUME IInv, NEW p \in Actor, sess[p].task \in Task,
         NEW place \in {"apply", "settle"}, NEW outcome \in SettledStatuses,
         Settles(p, place, outcome),
         UNCHANGED <<task, attempt, posts, claimed, withdrawn, batch, exec, agent, aged, crashes>>,
         run' \in [Task -> RunStatuses], faults' \in 0 .. MaxFaults
  PROVE  Quiet
<1> DEFINE s == [sess[p] EXCEPT !.at = place, !.outcome = outcome]
<1>1. sess[p] \in Session /\ Sound(p, sess[p]) /\ sess' = [sess EXCEPT ![p] = s]
  BY Unchanging DEF Settles
<1>2. s \in Session /\ s.at = place /\ s.outcome = outcome /\ s.task = sess[p].task
  BY <1>1 DEF Session, Places, RowStatuses
<1> HIDE DEF s
<1>3. Sound(p, s)
  BY <1>1, <1>2 DEF Sound, SettledStatuses
<1> QED
  BY <1>1, <1>2, <1>3, Unchanging, OneSession

\* What an actor that is at work knows of its task.
LEMMA AtWork ==
  ASSUME IInv, NEW p \in Actor, sess[p].at # "idle",
         p = Worker => sess[p].at \in {"probe", "apply", "settle", "mark"}
  PROVE  /\ sess[p].task \in Task /\ attempt[sess[p].task] \in 0 .. MaxAttempts
         /\ attempt[sess[p].task] # 0
         /\ sess[p] \in Session /\ sess[p].row \in Row
<1>1. /\ sess[p] \in Session /\ Sound(p, sess[p])
      /\ attempt \in [Task -> 0 .. MaxAttempts]
  BY Unchanging
<1>2. sess[p].task \in Task
  BY <1>1 DEF Sound
<1> QED
  BY <1>1, <1>2 DEF Sound, Session

LEMMA QuietSave ==
  ASSUME IInv, NEW p \in Actor, sess[p].task \in Task, NEW status \in SettledStatuses \cup {"running"},
         NEW next \in {"mark", "ack"}, NEW now \in 0 .. MaxAttempts,
         Save(p, WithOutcome(sess[p].row, status, now), next),
         UNCHANGED <<attempt, posts, claimed, withdrawn, batch, exec, agent, run, aged,
                     crashes, faults>>
  PROVE  Quiet
<1>1. sess[p].row \in Row
  BY Unchanging DEF Session
<1>2. status \in RowStatuses
  BY DEF RowStatuses, ActiveStatuses
<1>3. /\ WithOutcome(sess[p].row, status, now) \in Row
      /\ WithOutcome(sess[p].row, status, now).status = status
  BY <1>1, <1>2, OutcomeRow
<1> QED
  BY <1>3, SaveQuiet, Unchanging DEF Quiet

LEMMA ApplyQuiet == ASSUME IInv, NEW p \in Actor, Apply(p) PROVE Quiet
<1> DEFINE t0 == sess[p].task
<1>1. /\ t0 \in Task /\ attempt[t0] \in 0 .. MaxAttempts
      /\ sess[p].outcome \in SettledStatuses
  <2>1. sess[p].at = "apply"
    BY DEF Apply
  <2>2. Sound(p, sess[p])
    BY Unchanging
  <2> QED
    BY <2>1, <2>2, AtWork DEF Sound
<1>2. CASE sess[p].row.status \in LateIgnored
  <2>1. sess' = [sess EXCEPT ![p] = Over(p)]
    BY <1>2 DEF Apply
  <2>2. Over(p) \in Session /\ Over(p).at # "submit" /\ Sound(p, Over(p))
    BY IdleSession, ActorsAssumption DEF Over, Session, Idle, Places, Sound, Actor
  <2>3. UNCHANGED <<task, attempt, posts, claimed, withdrawn, batch, exec, agent, run, aged,
                    crashes, faults>>
    BY <1>2 DEF Apply, histories
  <2> QED
    BY <2>1, <2>2, <2>3, Unchanging, OneSession
<1>3. CASE sess[p].row.status \notin LateIgnored
  <2>1. Save(p, WithOutcome(sess[p].row, sess[p].outcome, attempt[t0]), "mark")
    BY <1>3 DEF Apply
  <2>2. UNCHANGED <<attempt, posts, claimed, withdrawn, batch, exec, agent, run, aged,
                    crashes, faults>>
    BY DEF Apply, histories
  <2> QED
    BY <1>1, <2>1, <2>2, QuietSave
<1> QED
  BY <1>2, <1>3

LEMMA SettleQuiet == ASSUME IInv, NEW p \in Actor, Settle(p) PROVE Quiet
<1> DEFINE t0 == sess[p].task
<1>1. /\ t0 \in Task /\ attempt[t0] \in 0 .. MaxAttempts
      /\ sess[p].outcome \in SettledStatuses
  <2>1. sess[p].at = "settle"
    BY DEF Settle
  <2>2. Sound(p, sess[p])
    BY Unchanging
  <2> QED
    BY <2>1, <2>2, AtWork DEF Sound
<1>2. Save(p, WithOutcome(sess[p].row, sess[p].outcome, attempt[t0]), "mark")
  BY DEF Settle
<1>3. UNCHANGED <<attempt, posts, claimed, withdrawn, batch, exec, agent, run, aged,
                  crashes, faults>>
  BY DEF Settle, histories
<1> QED
  BY <1>1, <1>2, <1>3, QuietSave

LEMMA MarkQuiet == ASSUME IInv, NEW p \in Actor, Mark(p) PROVE Quiet
<1>1. sess[p].at = "mark" /\ sess' = [sess EXCEPT ![p] = Over(p)]
  BY DEF Mark
<1>2. sess[p].task \in Task /\ sess[p].report \in ExecStatuses
  BY <1>1, AtWork DEF Session
<1>3. exec' \in [Task -> ExecStatuses]
  BY <1>2, Unchanging DEF Mark, Marked
<1>4. batch' \in Batch /\ \A t \in batch'.todo : attempt[t] # 0
  BY Unchanging DEF Mark, Batch
<1>5. Over(p) \in Session /\ Over(p).at # "submit" /\ Sound(p, Over(p))
  BY IdleSession, ActorsAssumption DEF Over, Session, Idle, Places, Sound, Actor
<1>6. UNCHANGED <<task, attempt, posts, claimed, withdrawn, agent, run, aged, crashes, faults>>
  BY DEF Mark, histories
<1> QED
  BY <1>1, <1>3, <1>4, <1>5, <1>6, Unchanging, OneSession

LEMMA LoadQuiet == ASSUME IInv, NEW th \in Thread, Load(th) PROVE Quiet
<1> DEFINE t0 == sess[th].task
<1>1. th \in Actor /\ th # Worker /\ sess[th].at = "load"
  BY ActorsAssumption DEF Load, Actor
<1>2. /\ t0 \in Task /\ attempt[t0] # 0 /\ sess[th] \in Session /\ Sound(th, sess[th])
      /\ task[t0] \in Row
  BY <1>1, AtWork, Unchanging
<1>3. UNCHANGED <<task, attempt, posts, claimed, withdrawn, batch, exec, agent, run, aged,
                  crashes, faults>>
  BY DEF Load, histories
<1>4. CASE task[t0].status # "queued"
  BY <1>1, <1>3, <1>4, IdleSession, Unchanging, OneSession DEF Load, Idle
<1>5. CASE task[t0].status = "queued" /\ agent
  <2> DEFINE s == [sess[th] EXCEPT !.at = "enqueue"]
  <2>1. sess' = [sess EXCEPT ![th] = s]
    BY <1>5 DEF Load
  <2>2. s \in Session /\ s.at = "enqueue" /\ Sound(th, s)
    BY <1>1, <1>2 DEF Session, Places, Sound
  <2> QED
    BY <1>1, <1>3, <2>1, <2>2, Unchanging, OneSession
<1>6. CASE task[t0].status = "queued" /\ ~agent
  <2> DEFINE s == [sess[th] EXCEPT !.row = task[t0], !.at = "settle", !.outcome = "failed"]
  <2>1. sess' = [sess EXCEPT ![th] = s]
    BY <1>6 DEF Load
  <2>2. s \in Session /\ s.at = "settle" /\ s.task = t0 /\ s.outcome = "failed"
    BY <1>2 DEF Session, Places, RowStatuses, SettledStatuses
  <2> HIDE DEF s
  <2>3. Sound(th, s)
    BY <1>1, <1>2, <2>2 DEF Sound, SettledStatuses
  <2> QED
    BY <1>1, <1>3, <2>1, <2>2, <2>3, Unchanging, OneSession
<1> QED
  BY <1>4, <1>5, <1>6

LEMMA EnqueueQuiet == ASSUME IInv, NEW th \in Thread, Enqueue(th) PROVE Quiet
<1> DEFINE t0 == sess[th].task
           goes == [sess[th] EXCEPT !.at = "claim"]
           fails == [sess[th] EXCEPT !.row = task[t0], !.at = "settle", !.outcome = "failed"]
<1>1. th \in Actor /\ th # Worker /\ sess[th].at = "enqueue"
  BY ActorsAssumption DEF Enqueue, Actor
<1>2. /\ t0 \in Task /\ attempt[t0] # 0 /\ sess[th] \in Session /\ Sound(th, sess[th])
      /\ task[t0] \in Row
  BY <1>1, AtWork, Unchanging
<1>3. UNCHANGED <<task, attempt, posts, claimed, withdrawn, batch, agent, run, aged,
                  crashes, faults>>
  BY DEF Enqueue, histories
<1>4. exec' \in [Task -> ExecStatuses]
  BY Unchanging DEF Enqueue, ExecStatuses
<1>5. goes \in Session /\ goes.at = "claim" /\ Sound(th, goes)
  BY <1>1, <1>2 DEF Session, Places, Sound
<1>6. fails \in Session /\ fails.at = "settle" /\ fails.task = t0 /\ fails.outcome = "failed"
  BY <1>2 DEF Session, Places, RowStatuses, SettledStatuses
<1>7. sess' = [sess EXCEPT ![th] = goes] \/ sess' = [sess EXCEPT ![th] = fails]
  BY DEF Enqueue
<1> HIDE DEF goes, fails
<1>8. Sound(th, fails)
  BY <1>1, <1>2, <1>6 DEF Sound, SettledStatuses
<1> QED
  BY <1>1, <1>3, <1>4, <1>5, <1>6, <1>7, <1>8, Unchanging, OneSession

LEMMA AnsweredQuiet == ASSUME IInv, NEW th \in Thread, Answered(th) PROVE Quiet
<1>1. th \in Actor /\ th # Worker /\ sess[th].at = "answered"
  BY ActorsAssumption DEF Answered, Actor
<1>2. sess[th].task \in Task /\ attempt[sess[th].task] \in 0 .. MaxAttempts
  BY <1>1, AtWork
<1>3. UNCHANGED <<attempt, posts, claimed, withdrawn, batch, exec, agent, run, aged,
                  crashes, faults>>
  BY DEF Answered, histories
<1>4. CASE sess[th].row.status \in LateIgnored
  BY <1>1, <1>3, <1>4, IdleSession, Unchanging, OneSession DEF Answered, Idle
<1>5. CASE sess[th].row.status \notin LateIgnored
  <2>1. Save(th, WithOutcome(sess[th].row, "running", attempt[sess[th].task]), "ack")
    BY <1>5 DEF Answered
  <2> QED
    BY <1>1, <1>2, <1>3, <2>1, QuietSave
<1> QED
  BY <1>4, <1>5

LEMMA HandOffQuiet == ASSUME IInv, NEW th \in Thread, HandOff(th) PROVE Quiet
<1>1. th \in Actor /\ th # Worker /\ sess[th].at = "poll"
  BY ActorsAssumption DEF HandOff, Actor
<1>2. sess[th].task \in Task /\ attempt[sess[th].task] \in 0 .. MaxAttempts
  BY <1>1, AtWork
<1>3. UNCHANGED <<attempt, posts, claimed, withdrawn, batch, exec, agent, run, aged,
                  crashes, faults>>
  BY DEF HandOff, histories
<1>4. CASE sess[th].row.status \in LateIgnored
  BY <1>1, <1>3, <1>4, IdleSession, Unchanging, OneSession DEF HandOff, Idle
<1>5. CASE sess[th].row.status \notin LateIgnored
  <2>1. Save(th, WithOutcome(sess[th].row, "running", attempt[sess[th].task]), "mark")
    BY <1>5 DEF HandOff
  <2> QED
    BY <1>1, <1>2, <1>3, <2>1, QuietSave
<1> QED
  BY <1>4, <1>5

LEMMA AcknowledgeQuiet == ASSUME IInv, NEW th \in Thread, Acknowledge(th) PROVE Quiet
<1> DEFINE t0 == sess[th].task
           polls == [Spawned(t0) EXCEPT !.at = "poll", !.row = task[t0]]
           applies == [sess[th] EXCEPT !.at = "apply", !.row = task[t0], !.report = "none"]
<1>1. th \in Actor /\ th # Worker /\ sess[th].at = "ack"
  BY ActorsAssumption DEF Acknowledge, Actor
<1>2. /\ t0 \in Task /\ attempt[t0] # 0 /\ sess[th] \in Session /\ Sound(th, sess[th])
      /\ task[t0] \in Row /\ sess[th].report \in ExecStatuses
  BY <1>1, AtWork, Unchanging DEF Session
<1>3. UNCHANGED <<task, attempt, posts, claimed, withdrawn, batch, agent, run, aged,
                  crashes, faults>>
  BY DEF Acknowledge, histories
<1>4. exec' \in [Task -> ExecStatuses]
  BY <1>2, Unchanging DEF Acknowledge, Marked
<1>5. CASE sess[th].outcome = "absent"
  <2>1. sess' = [sess EXCEPT ![th] = polls]
    BY <1>5 DEF Acknowledge
  <2>2. polls \in Session /\ polls.at = "poll" /\ Sound(th, polls)
    BY <1>1, <1>2, IdleSession DEF Spawned, Idle, Session, Sound, Places
  <2> QED
    BY <1>1, <1>3, <1>4, <2>1, <2>2, Unchanging, OneSession
<1>6. CASE sess[th].outcome # "absent"
  <2>1. sess' = [sess EXCEPT ![th] = applies]
    BY <1>6 DEF Acknowledge
  <2>2. applies \in Session /\ applies.at = "apply" /\ applies.task = t0
        /\ applies.outcome = sess[th].outcome
    BY <1>2 DEF Session, Places, ExecStatuses
  <2> HIDE DEF applies
  <2>3. Sound(th, applies)
    BY <1>1, <1>2, <1>6, <2>2 DEF Sound
  <2> QED
    BY <1>1, <1>3, <1>4, <2>1, <2>2, <2>3, Unchanging, OneSession
<1> QED
  BY <1>5, <1>6

\* What the runtime answers of a run that is over is an outcome.
LEMMA RunOver ==
  ASSUME IInv, NEW t \in Task, run[t] \notin {"none", "running"}
  PROVE  run[t] \in SettledStatuses
<1>1. run[t] \in RunStatuses
  BY Unchanging
<1> QED
  BY <1>1, OutcomesAssumption DEF RunStatuses, SettledStatuses

LEMMA PollQuiet == ASSUME IInv, NEW th \in Thread, Poll(th) PROVE Quiet
<1>1. th \in Actor /\ th # Worker /\ sess[th].at = "poll"
  BY ActorsAssumption DEF Poll, Actor
<1>2. sess[th].task \in Task
  BY <1>1, AtWork
<1>3. UNCHANGED <<task, attempt, posts, claimed, withdrawn, batch, exec, agent, run, aged, crashes>>
  BY DEF Poll, histories
<1>4. faults' \in 0 .. MaxFaults
  BY Unchanging, BoundsAssumption DEF Poll
<1>5. PICK outcome \in SettledStatuses : Settles(th, "apply", outcome)
  BY <1>2, RunOver DEF Poll, SettledStatuses
<1> QED
  BY <1>1, <1>2, <1>3, <1>4, <1>5, Unchanging, Settling

LEMMA StartRoundQuiet == ASSUME IInv, StartRound PROVE Quiet
<1> DEFINE s == [sess[Worker] EXCEPT !.at = "sweep"]
<1>1. Worker \in Actor /\ sess[Worker].at = "idle"
  BY DEF StartRound, Actor
<1>2. sess[Worker] \in Session /\ Sound(Worker, sess[Worker])
  BY <1>1, Unchanging
<1>3. sess' = [sess EXCEPT ![Worker] = s]
  BY <1>1, Unchanging DEF StartRound
<1>4. s \in Session /\ s.at = "sweep" /\ Sound(Worker, s)
  BY <1>1, <1>2 DEF Session, Places, Sound
<1>5. batch' \in Batch /\ \A t \in batch'.todo : attempt[t] # 0
  BY Unchanging DEF StartRound, Batch, IInv, Born, ActiveStatuses
<1>6. UNCHANGED <<task, attempt, posts, claimed, withdrawn, exec, agent, run, aged, crashes, faults>>
  BY DEF StartRound, histories
<1> QED
  BY <1>1, <1>3, <1>4, <1>5, <1>6, Unchanging, OneSession

LEMMA EndRoundQuiet == ASSUME IInv, EndRound PROVE Quiet
<1>1. Worker \in Actor /\ sess' = [sess EXCEPT ![Worker] = Idle]
  BY DEF EndRound, Actor
<1>2. batch' \in Batch /\ \A t \in batch'.todo : attempt[t] # 0
  BY BoundsAssumption DEF EndRound, Batch, NoBatch, NoRow, Row, RowStatuses
<1>3. UNCHANGED <<task, attempt, posts, claimed, withdrawn, exec, agent, run, aged, crashes, faults>>
  BY DEF EndRound, histories
<1> QED
  BY <1>1, <1>2, <1>3, IdleSession, Unchanging, OneSession DEF Idle

LEMMA SweepQuiet == ASSUME IInv, Sweep PROVE Quiet
<1>1. PICK t \in batch.todo :
        LET row == IF batch.expired THEN task[t] ELSE batch.rows[t]
            Goes(place, outcome) ==
                [Idle EXCEPT !.at = place, !.task = t, !.row = row, !.outcome = outcome]
        IN
        /\ batch' = [batch EXCEPT !.todo = @ \ {t}]
        /\ \/ /\ row.status = "queued"
              /\ \E th \in Thread : IdleThread(th) /\ sess' = [sess EXCEPT ![th] = Spawned(t)]
           \/ /\ row.status = "running"
              /\ sess' = [sess EXCEPT ![Worker] =
                     IF agent THEN Goes("probe", "absent") ELSE Goes("settle", "failed")]
           \/ row.status \in SettledStatuses /\ UNCHANGED sess
  BY DEF Sweep
<1> DEFINE row == IF batch.expired THEN task[t] ELSE batch.rows[t]
           probes == [Idle EXCEPT !.at = "probe", !.task = t, !.row = row, !.outcome = "absent"]
           settles == [Idle EXCEPT !.at = "settle", !.task = t, !.row = row, !.outcome = "failed"]
<1>2. t \in Task /\ attempt[t] # 0 /\ row \in Row
  BY Unchanging DEF Batch
<1>3. batch' \in Batch /\ \A u \in batch'.todo : attempt[u] # 0
  BY <1>1, Unchanging DEF Batch
<1>4. UNCHANGED <<task, attempt, posts, claimed, withdrawn, exec, agent, run, aged, crashes, faults>>
  BY DEF Sweep, histories
<1>5. \A th \in Thread : Spawned(t) \in Session /\ Spawned(t).at = "load" /\ Sound(th, Spawned(t))
  BY <1>2, IdleSession, ActorsAssumption DEF Spawned, Idle, Session, Sound, Places
<1>6. Sound(Worker, probes) /\ probes \in Session /\ probes.at = "probe"
  BY <1>2, IdleSession DEF Idle, Session, Sound, Places, RowStatuses
<1>7. Sound(Worker, settles) /\ settles \in Session /\ settles.at = "settle"
  BY <1>2, IdleSession DEF Idle, Session, Sound, Places, RowStatuses, SettledStatuses
<1>8. \/ \E th \in Thread : sess' = [sess EXCEPT ![th] = Spawned(t)]
      \/ sess' = [sess EXCEPT ![Worker] = probes]
      \/ sess' = [sess EXCEPT ![Worker] = settles]
      \/ sess' = sess
  BY <1>1
<1>9. Worker \in Actor /\ \A th \in Thread : th \in Actor
  BY DEF Actor
<1> HIDE DEF row, probes, settles
<1>10. CASE \E th \in Thread : sess' = [sess EXCEPT ![th] = Spawned(t)]
  BY <1>3, <1>4, <1>5, <1>9, <1>10, Unchanging, OneSession
<1>11. CASE sess' = [sess EXCEPT ![Worker] = probes]
  BY <1>3, <1>4, <1>6, <1>9, <1>11, Unchanging, OneSession
<1>12. CASE sess' = [sess EXCEPT ![Worker] = settles]
  BY <1>3, <1>4, <1>7, <1>9, <1>12, Unchanging, OneSession
<1>13. CASE sess' = sess
  BY <1>3, <1>4, <1>13, Unchanging, SessionStep
<1> QED
  BY <1>8, <1>10, <1>11, <1>12, <1>13

LEMMA ProbeQuiet == ASSUME IInv, Probe PROVE Quiet
<1> DEFINE t0 == sess[Worker].task
           marks == [Idle EXCEPT !.at = "mark", !.task = t0, !.report = "active"]
<1>1. Worker \in Actor /\ sess[Worker].at = "probe"
  BY DEF Probe, Actor
<1>2. /\ t0 \in Task /\ attempt[t0] # 0 /\ attempt[t0] \in 0 .. MaxAttempts
      /\ sess[Worker].row \in Row
  BY <1>1, AtWork
<1>3. UNCHANGED <<attempt, posts, claimed, withdrawn, batch, exec, agent, run, aged, crashes>>
  BY DEF Probe, histories
<1>4. faults' \in 0 .. MaxFaults
  BY Unchanging, BoundsAssumption DEF Probe
<1>5. marks \in Session /\ marks.at = "mark" /\ Sound(Worker, marks)
  BY <1>2, IdleSession DEF Idle, Session, Sound, Places, ExecStatuses
<1>6. \/ Save(Worker, Started(sess[Worker].row, attempt[t0]), "mark") /\ UNCHANGED faults
      \/ sess' = [sess EXCEPT ![Worker] = marks] /\ UNCHANGED task
      \/ (\E place \in {"apply", "settle"}, outcome \in SettledStatuses :
             Settles(Worker, place, outcome)) /\ UNCHANGED task
  BY <1>2, RunOver DEF Probe, SettledStatuses
<1>7. CASE Save(Worker, Started(sess[Worker].row, attempt[t0]), "mark") /\ UNCHANGED faults
  <2>1. /\ Started(sess[Worker].row, attempt[t0]) \in Row
        /\ Started(sess[Worker].row, attempt[t0]).status = sess[Worker].row.status
    BY <1>2, OutcomeRow DEF RowStatuses
  <2> QED
    BY <1>1, <1>2, <1>3, <1>7, <2>1, SaveQuiet, Unchanging DEF Quiet
<1> HIDE DEF marks
<1>8. CASE sess' = [sess EXCEPT ![Worker] = marks] /\ UNCHANGED task
  BY <1>1, <1>3, <1>4, <1>5, <1>8, Unchanging, OneSession
<1>9. CASE (\E place \in {"apply", "settle"}, outcome \in SettledStatuses :
             Settles(Worker, place, outcome)) /\ UNCHANGED task
  BY <1>1, <1>2, <1>3, <1>4, <1>9, Unchanging, Settling
<1> QED
  BY <1>6, <1>7, <1>8, <1>9

\* A request that only opens its session.
LEMMA Begins ==
  ASSUME IInv, NEW u \in User, NEW t \in Task, task[t].status # "absent",
         NEW place \in {"reset", "withdraw", "cancel"}, Begin(u, t, place),
         place = "withdraw" => task[t].status = "queued",
         place = "reset" => task[t].status # "queued",
         UNCHANGED <<task, attempt, posts, claimed, withdrawn, batch, exec, agent, run, aged,
                     crashes, faults>>
  PROVE  Quiet
<1> DEFINE s == [Idle EXCEPT !.at = place, !.task = t, !.row = task[t]]
<1>1. u \in Actor /\ u # Worker /\ sess' = [sess EXCEPT ![u] = s]
  BY ActorsAssumption DEF Begin, Actor
<1>2. attempt[t] # 0 /\ task[t] \in Row
  BY Unchanging DEF IInv, Born
<1>3. s \in Session /\ s.at = place /\ Sound(u, s)
  BY <1>1, <1>2, IdleSession DEF Idle, Session, Sound, Places
<1> QED
  BY <1>1, <1>3, Unchanging, OneSession

LEMMA RequestRerunQuiet ==
  ASSUME IInv, NEW u \in User, NEW t \in Task, RequestRerun(u, t) PROVE Quiet
<1>1. task[t].status \notin {"absent", "queued"} /\ Begin(u, t, "reset")
  BY DEF RequestRerun, SettledStatuses
<1> QED
  BY <1>1, Begins DEF RequestRerun, histories

LEMMA RequestCancelQuiet ==
  ASSUME IInv, NEW u \in User, NEW t \in Task, RequestCancel(u, t) PROVE Quiet
<1>1. \/ task[t].status = "queued" /\ Begin(u, t, "withdraw")
      \/ task[t].status = "running" /\ Begin(u, t, "cancel")
  BY DEF RequestCancel
<1> QED
  BY <1>1, Begins DEF RequestCancel, histories

LEMMA RequestDispatchQuiet ==
  ASSUME IInv, NEW u \in User, NEW t \in Task, RequestDispatch(u, t) PROVE Quiet
<1> DEFINE s == [Idle EXCEPT !.at = "schedule", !.task = t]
<1>1. u \in Actor /\ u # Worker /\ sess' = [sess EXCEPT ![u] = s]
  BY ActorsAssumption DEF RequestDispatch, Actor
<1>2. attempt[t] # 0
  BY DEF RequestDispatch, IInv, Born
<1>3. s \in Session /\ s.at = "schedule" /\ Sound(u, s)
  BY <1>1, <1>2, IdleSession DEF Idle, Session, Sound, Places
<1> QED
  BY <1>1, <1>3, Unchanging, OneSession DEF RequestDispatch, histories

LEMMA ScheduleQuiet ==
  ASSUME IInv, NEW u \in User, NEW th \in Thread, Schedule(u, th) PROVE Quiet
<1> DEFINE t0 == sess[u].task
<1>1. /\ u \in Actor /\ u # Worker /\ th \in Actor /\ th # Worker /\ u # th
      /\ sess[u].at = "schedule"
  BY ActorsAssumption DEF Schedule, Actor
<1>2. t0 \in Task /\ attempt[t0] # 0
  BY <1>1, AtWork
<1>3. Spawned(t0) \in Session /\ Spawned(t0).at = "load" /\ Sound(th, Spawned(t0))
  BY <1>1, <1>2, IdleSession DEF Spawned, Idle, Session, Sound, Places
<1>4. sess' = [sess EXCEPT ![u] = Idle, ![th] = Spawned(t0)]
  BY DEF Schedule
<1>5. sess' \in [Actor -> Session]
  BY <1>1, <1>3, <1>4, IdleSession, Unchanging
<1>6. \A p \in Actor : sess'[p] = sess[p] \/ (sess'[p].at # "submit" /\ Sound(p, sess'[p]))
  BY <1>1, <1>3, <1>4, IdleSession, Unchanging DEF Idle
<1>7. exec' \in [Task -> ExecStatuses]
  BY <1>2, Unchanging DEF Schedule, ExecStatuses
<1>8. UNCHANGED <<task, attempt, posts, claimed, withdrawn, batch, agent, run, aged, crashes, faults>>
  BY DEF Schedule, histories
<1> QED
  BY <1>5, <1>6, <1>7, <1>8, Unchanging, SessionStep

LEMMA PostCancelQuiet == ASSUME IInv, NEW u \in User, PostCancel(u) PROVE Quiet
<1> DEFINE t0 == sess[u].task
<1>1. u \in Actor /\ u # Worker /\ sess[u].at = "cancel"
  BY ActorsAssumption DEF PostCancel, Actor
<1>2. t0 \in Task
  BY <1>1, AtWork
<1>3. UNCHANGED <<task, attempt, posts, claimed, withdrawn, batch, exec, agent, aged, crashes>>
  BY DEF PostCancel, histories
<1>4. faults' \in 0 .. MaxFaults /\ run' \in [Task -> RunStatuses]
  BY <1>2, Unchanging, BoundsAssumption DEF PostCancel, RunStatuses
<1>5. \/ sess' = [sess EXCEPT ![u] = Idle]
      \/ \E place \in {"apply", "settle"}, outcome \in SettledStatuses : Settles(u, place, outcome)
  BY <1>2, RunOver DEF PostCancel, CancelUnreachable, CancelRefused, SettledStatuses
<1>6. CASE sess' = [sess EXCEPT ![u] = Idle]
  BY <1>1, <1>3, <1>4, <1>6, IdleSession, Unchanging, OneSession DEF Idle
<1>7. CASE \E place \in {"apply", "settle"}, outcome \in SettledStatuses : Settles(u, place, outcome)
  BY <1>1, <1>2, <1>3, <1>4, <1>7, Settling
<1> QED
  BY <1>5, <1>6, <1>7

LEMMA SurroundingsQuiet == ASSUME IInv, Surroundings PROVE Quiet
<1>1. \A t \in Task : RunEnds(t) \/ RunLost(t) => Quiet
  BY Unchanging, BoundsAssumption, SessionStep DEF RunEnds, RunLost, RunStatuses, histories
<1>2. \A t \in Task : Age(t) => Quiet
  BY Unchanging, SessionStep DEF Age, histories
<1>3. DeleteAgent => Quiet
  BY Unchanging, SessionStep DEF DeleteAgent, histories
<1>4. Crash => Quiet
  <2> SUFFICES ASSUME Crash PROVE Quiet
    OBVIOUS
  <2>1. sess' = [p \in Actor |-> Idle] /\ batch' = NoBatch
    BY DEF Crash
  <2>2. sess' \in [Actor -> Session] /\ \A p \in Actor : sess'[p].at # "submit" /\ Sound(p, sess'[p])
    BY <2>1, IdleSession DEF Idle
  <2>3. batch' \in Batch /\ \A t \in batch'.todo : attempt[t] # 0
    BY <2>1, BoundsAssumption DEF Batch, NoBatch, NoRow, Row, RowStatuses
  <2>4. crashes' \in 0 .. MaxCrashes
    BY Unchanging, BoundsAssumption DEF Crash
  <2> QED
    BY <2>2, <2>3, <2>4, Unchanging, SessionStep DEF Crash, histories
<1> QED
  BY <1>1, <1>2, <1>3, <1>4 DEF Surroundings

-----------------------------------------------------------------------------
(* The actions that write the books *)

\* A step of one actor that comes neither from nor to a submission, over books
\* in which no claim and no post was made.
LEMMA ClaimsStay ==
  ASSUME IInv, sess' \in [Actor -> Session], UNCHANGED <<posts, claimed>>,
         \A p \in Actor : sess'[p] = sess[p] \/ sess'[p].at # "submit"
  PROVE  ClaimsHeld' /\ ClaimsApart' /\ PostsClaimed' /\ SubmittedOnce'
<1>1. \A p \in Actor : sess'[p].at = "submit" => sess'[p] = sess[p]
  OBVIOUS
<1>2. ClaimsHeld'
  BY <1>1 DEF ClaimsHeld, IInv
<1>3. ClaimsApart'
  <2> SUFFICES ASSUME NEW p \in Actor, NEW q \in Actor, NEW t \in Task, NEW k \in Attempt,
                      Holds(p, t, k)', Holds(q, t, k)'
               PROVE p = q
    BY DEF ClaimsApart
  <2>1. Holds(p, t, k) /\ Holds(q, t, k)
    BY <1>1 DEF Holds
  <2> QED
    BY <2>1 DEF ClaimsApart, IInv
<1>4. PostsClaimed' /\ SubmittedOnce'
  BY DEF PostsClaimed, SubmittedOnce, IInv
<1> QED
  BY <1>2, <1>3, <1>4

\* Typing, when every session is sound and every other variable well typed.
LEMMA TypesStay ==
  ASSUME IInv, SoundSessions', sess' \in [Actor -> Session], task' \in [Task -> Row],
         attempt' \in [Task -> 0 .. MaxAttempts], posts' \in [Task -> [Attempt -> Nat]],
         claimed' \in [Task -> SUBSET Attempt], withdrawn' \in [Task -> SUBSET Attempt],
         run' \in [Task -> RunStatuses], faults' \in 0 .. MaxFaults,
         UNCHANGED <<batch, exec, agent, aged, crashes>>
  PROVE  TypeOK'
<1>1. \A p \in Actor : sess'[p].at # "idle" /\ p # Worker => sess'[p].task \in Task
  BY DEF SoundSessions, Sound
<1>2. sess'[Worker].at \in {"probe", "apply", "settle", "mark"} => sess'[Worker].task \in Task
  BY DEF SoundSessions, Sound, Actor
<1> QED
  BY <1>1, <1>2, Unchanging DEF TypeOK

LEMMA Ledgers ==
  ASSUME IInv
  PROVE  /\ posts \in [Task -> [Attempt -> Nat]]
         /\ claimed \in [Task -> SUBSET Attempt] /\ withdrawn \in [Task -> SUBSET Attempt]
         /\ \A t \in Task : /\ attempt[t] \in Nat /\ attempt[t] <= MaxAttempts
                            /\ \A k \in claimed[t] \cup withdrawn[t] : k \in Nat /\ k >= 1
BY BoundsAssumption DEF IInv, TypeOK, Attempt

LEMMA CreateKeeps == ASSUME IInv, NEW u \in User, NEW t \in Task, Create(u, t) PROVE IInv'
<1> DEFINE s == [Idle EXCEPT !.at = "schedule", !.task = t]
<1>1. u \in Actor /\ u # Worker /\ task[t].status = "absent" /\ attempt[t] = 0
  BY ActorsAssumption DEF Create, Actor, IInv, Born
<1>2. /\ task' = [task EXCEPT ![t] = [status |-> "queued", started |-> 0]]
      /\ attempt' = [attempt EXCEPT ![t] = 1]
      /\ sess' = [sess EXCEPT ![u] = s] \/ sess' = sess
      /\ UNCHANGED <<exec, agent, batch, run, aged, posts, claimed, withdrawn, crashes, faults>>
  BY DEF Create, histories
<1>3. /\ task' \in [Task -> Row] /\ attempt' \in [Task -> 0 .. MaxAttempts]
      /\ task'[t].status = "queued" /\ attempt'[t] = 1
      /\ \A v \in Task : v # t => task'[v] = task[v] /\ attempt'[v] = attempt[v]
  BY <1>2, Unchanging, BoundsAssumption DEF Row, RowStatuses, ActiveStatuses
<1>4. s \in Session /\ s.at = "schedule" /\ s.task = t /\ s.outcome = "absent"
  BY IdleSession DEF Idle, Session, Places
<1> HIDE DEF s
<1>5. sess' \in [Actor -> Session]
  BY <1>1, <1>2, <1>4, Unchanging
<1>6. SoundSessions'
  <2> SUFFICES ASSUME NEW p \in Actor PROVE Sound(p, sess[p])'
    BY DEF SoundSessions
  <2>1. CASE sess'[p] = sess[p]
    BY <1>3, <2>1, Unchanging DEF Sound
  <2>2. CASE p = u /\ sess'[p] = s
    BY <1>1, <1>3, <1>4, <2>2 DEF Sound
  <2> QED
    BY <1>1, <1>2, <2>1, <2>2, Unchanging
<1>7. Born' /\ SoundBatch'
  BY <1>2, <1>3 DEF Born, SoundBatch, IInv, TypeOK, Batch
<1>8. claimed[t] = {} /\ withdrawn[t] = {}
  BY <1>1, Ledgers DEF IInv, Unclaimed, Withdrawals
<1>9. Unclaimed' /\ Withdrawals'
  BY <1>2, <1>3, <1>8 DEF Unclaimed, Withdrawals, IInv
<1>10. \A p \in Actor : sess'[p] = sess[p] \/ sess'[p].at # "submit"
  BY <1>2, <1>4, Unchanging
<1>11. TypeOK'
  BY <1>2, <1>3, <1>5, <1>6, Unchanging, Ledgers, TypesStay
<1> QED
  BY <1>2, <1>5, <1>6, <1>7, <1>9, <1>10, <1>11, ClaimsStay DEF IInv

LEMMA ResetKeeps == ASSUME IInv, NEW u \in User, Reset(u) PROVE IInv'
<1> DEFINE t0 == sess[u].task
           assigned == [status |-> "queued", started |-> 0]
           stored == Flush(task[t0], sess[u].row, assigned)
           s == [Idle EXCEPT !.at = "schedule", !.task = t0, !.report = ExecStatus(stored.status),
                             !.claim = 0, !.outcome = "absent"]
<1>1. /\ u \in Actor /\ u # Worker /\ sess[u].at = "reset" /\ attempt[t0] < MaxAttempts
      /\ Save(u, assigned, "schedule")
      /\ attempt' = [attempt EXCEPT ![t0] = @ + 1]
      /\ UNCHANGED <<exec, agent, batch, run, aged, posts, claimed, withdrawn, crashes, faults>>
  BY ActorsAssumption DEF Reset, Actor, histories
<1>2. /\ t0 \in Task /\ attempt[t0] # 0 /\ attempt[t0] \in 0 .. MaxAttempts
      /\ sess[u].row \in Row /\ task[t0] \in Row /\ task[t0].status # "absent"
  BY <1>1, AtWork, Unchanging DEF IInv, Born
<1>3. assigned \in Row /\ assigned.status = "queued"
  BY BoundsAssumption DEF Row, RowStatuses, ActiveStatuses
<1>4. task' = [task EXCEPT ![t0] = stored] /\ sess' = [sess EXCEPT ![u] = s]
  BY <1>1 DEF Save
<1>5. stored \in Row /\ stored.status \in {"queued", task[t0].status}
  BY <1>2, <1>3, FlushedStatus
<1>6. s \in Session /\ s.at = "schedule" /\ s.task = t0 /\ s.outcome = "absent"
  <2>1. ExecStatus(stored.status) \in ExecStatuses
    BY DEF ExecStatus, ExecStatuses
  <2> HIDE DEF stored, t0
  <2> QED
    BY <1>2, <2>1, IdleSession DEF Idle, Session, Places
<1> HIDE DEF s, stored, assigned, t0
<1>7. /\ task' \in [Task -> Row] /\ attempt' \in [Task -> 0 .. MaxAttempts]
      /\ task'[t0].status # "absent" /\ attempt'[t0] = attempt[t0] + 1
      /\ \A v \in Task : v # t0 => task'[v] = task[v] /\ attempt'[v] = attempt[v]
  BY <1>1, <1>2, <1>4, <1>5, Unchanging, BoundsAssumption
<1>8. sess' \in [Actor -> Session]
  BY <1>1, <1>4, <1>6, Unchanging
<1>9. SoundSessions'
  <2> SUFFICES ASSUME NEW p \in Actor PROVE Sound(p, sess[p])'
    BY DEF SoundSessions
  <2>1. CASE p # u
    <3>1. sess'[p] = sess[p] /\ Sound(p, sess[p])
      BY <1>1, <1>4, <2>1, Unchanging
    <3>2. \A v \in Task : attempt[v] # 0 => attempt'[v] # 0
      BY <1>2, <1>7
    <3> QED
      BY <3>1, <3>2 DEF Sound
  <2>2. CASE p = u
    <3>1. sess'[p] = s
      BY <1>1, <1>4, <2>2, Unchanging
    <3> QED
      BY <1>1, <1>2, <1>6, <1>7, <2>2, <3>1 DEF Sound
  <2> QED
    BY <2>1, <2>2
<1>10. Born' /\ SoundBatch'
  BY <1>1, <1>2, <1>7 DEF Born, SoundBatch, IInv, TypeOK, Batch
<1>11. Unclaimed' /\ Withdrawals'
  BY <1>1, <1>2, <1>7, Ledgers DEF Unclaimed, Withdrawals, IInv
<1>12. \A p \in Actor : sess'[p] = sess[p] \/ sess'[p].at # "submit"
  BY <1>4, <1>6, Unchanging
<1>13. TypeOK'
  BY <1>1, <1>7, <1>8, <1>9, Unchanging, Ledgers, TypesStay
<1> QED
  BY <1>1, <1>8, <1>9, <1>10, <1>11, <1>12, <1>13, ClaimsStay DEF IInv

LEMMA WithdrawKeeps == ASSUME IInv, NEW u \in User, Withdraw(u) PROVE IInv'
<1> DEFINE t0 == sess[u].task
           assigned == [sess[u].row EXCEPT !.status = "cancelled"]
<1>1. /\ u \in Actor /\ u # Worker /\ sess[u].at = "withdraw"
      /\ Save(u, assigned, "mark")
      /\ UNCHANGED <<attempt, exec, agent, batch, run, aged, posts, claimed, crashes, faults>>
  BY ActorsAssumption DEF Withdraw, Actor
<1>2. /\ t0 \in Task /\ attempt[t0] # 0 /\ attempt[t0] \in 0 .. MaxAttempts
      /\ sess[u].row \in Row /\ task[t0] \in Row /\ sess[u].row.status = "queued"
  <2>1. Sound(u, sess[u])
    BY <1>1, Unchanging
  <2> QED
    BY <1>1, <2>1, AtWork, Unchanging DEF Sound
<1>3. assigned \in Row /\ assigned.status = "cancelled"
  BY <1>2 DEF Row, RowStatuses, SettledStatuses
<1>4. /\ task' \in [Task -> Row]
      /\ \A t \in Task : /\ task'[t].status = "queued" => task[t].status = "queued"
                         /\ (task'[t].status = "absent" <=> task[t].status = "absent")
      /\ sess' \in [Actor -> Session]
      /\ \A q \in Actor : sess'[q] = sess[q] \/ (sess'[q].at # "submit" /\ Sound(q, sess'[q]))
  BY <1>1, <1>2, <1>3, SaveQuiet DEF SettledStatuses
<1>5. task'[t0].status = "cancelled"
  <2> DEFINE stored == Flush(task[t0], sess[u].row, assigned)
  <2>1. task' = [task EXCEPT ![t0] = stored]
    BY <1>1 DEF Save
  <2> HIDE DEF assigned
  <2>2. stored.status = "cancelled"
    <3>1. stored.status = IF assigned.status = sess[u].row.status THEN task[t0].status
                          ELSE assigned.status
      BY <1>2, <1>3, FlushedStatus
    <3> HIDE DEF stored
    <3> QED
      BY <1>2, <1>3, <3>1
  <2> HIDE DEF stored
  <2> QED
    BY <1>2, <2>1, <2>2, Unchanging
<1> HIDE DEF assigned, t0
<1>6. SoundSessions' /\ Born' /\ SoundBatch'
  <2>1. SoundSessions'
    BY <1>1, <1>4, Unchanging DEF SoundSessions, Sound
  <2>2. Born' /\ SoundBatch'
    BY <1>1, <1>4 DEF Born, SoundBatch, IInv
  <2> QED
    BY <2>1, <2>2
<1>7. withdrawn' = IF task[t0].status = "queued"
                   THEN [withdrawn EXCEPT ![t0] = @ \cup {attempt[t0]}] ELSE withdrawn
  BY DEF Withdraw, t0
<1>8. withdrawn' \in [Task -> SUBSET Attempt]
  BY <1>2, <1>7, Ledgers DEF Attempt
<1>9. Unclaimed'
  BY <1>1, <1>4 DEF Unclaimed, IInv
<1>10. Withdrawals'
  <2> SUFFICES ASSUME NEW t \in Task, NEW k \in withdrawn'[t]
               PROVE /\ k <= attempt[t] /\ k \notin claimed[t]
                     /\ task'[t].status = "queued" => k # attempt[t]
    BY <1>1 DEF Withdrawals
  <2>1. CASE k \in withdrawn[t]
    BY <1>4, <2>1 DEF Withdrawals, IInv
  <2>2. CASE k \notin withdrawn[t]
    <3>1. t = t0 /\ k = attempt[t0] /\ task[t0].status = "queued"
      BY <1>7, <2>2, Ledgers
    <3> QED
      BY <1>2, <1>5, <3>1 DEF Unclaimed, IInv
  <2> QED
    BY <2>1, <2>2
<1>11. TypeOK'
  BY <1>1, <1>4, <1>6, <1>8, Unchanging, Ledgers, TypesStay
<1> QED
  BY <1>1, <1>4, <1>6, <1>9, <1>10, <1>11, ClaimsStay DEF IInv

LEMMA ClaimKeeps == ASSUME IInv, NEW th \in Thread, Claim(th) PROVE IInv'
<1> DEFINE t0 == sess[th].task
           s == [Spawned(t0) EXCEPT !.at = "submit", !.claim = attempt[t0]]
<1>1. /\ th \in Actor /\ th # Worker /\ sess[th].at = "claim"
      /\ UNCHANGED <<attempt, exec, agent, batch, run, aged, posts, withdrawn, crashes, faults>>
  BY ActorsAssumption DEF Claim, ClaimOf, Actor
<1>2. t0 \in Task /\ attempt[t0] # 0 /\ attempt[t0] \in 0 .. MaxAttempts
  BY <1>1, AtWork
<1>3. CASE task[t0].status # "queued"
  <2>1. sess' = [sess EXCEPT ![th] = Idle] /\ UNCHANGED <<task, claimed>>
    BY <1>3 DEF Claim, ClaimOf
  <2> QED
    BY <1>1, <2>1, IdleSession, Unchanging, OneSession, QuietKeeps DEF Idle
<1>4. CASE task[t0].status = "queued"
  <2>1. /\ task' = [task EXCEPT ![t0] = [status |-> "running", started |-> attempt[t0]]]
        /\ sess' = [sess EXCEPT ![th] = s]
        /\ claimed' = [claimed EXCEPT ![t0] = @ \cup {attempt[t0]}]
    BY <1>4 DEF Claim, ClaimOf
  <2>2. /\ s \in Session /\ s.at = "submit" /\ s.task = t0 /\ s.claim = attempt[t0]
        /\ s.outcome = "absent"
    BY <1>2, IdleSession DEF Spawned, Idle, Session, Places
  <2> HIDE DEF s, t0
  <2>3. /\ task' \in [Task -> Row] /\ task'[t0].status = "running"
        /\ \A t \in Task : t # t0 => task'[t] = task[t]
    BY <1>2, <2>1, Unchanging DEF Row, RowStatuses, ActiveStatuses
  <2>4. attempt[t0] \in Attempt /\ claimed' \in [Task -> SUBSET Attempt]
    BY <1>2, <2>1, Ledgers DEF Attempt
  <2>5. attempt[t0] \notin claimed[t0] /\ posts[t0][attempt[t0]] = 0
    BY <1>2, <1>4, <2>4 DEF IInv, Unclaimed, PostsClaimed
  <2>6. sess' \in [Actor -> Session] /\ sess'[th] = s /\ \A p \in Actor : p # th => sess'[p] = sess[p]
    BY <1>1, <2>1, <2>2, Unchanging
  <2>7. SoundSessions'
    <3> SUFFICES ASSUME NEW p \in Actor PROVE Sound(p, sess[p])'
      BY DEF SoundSessions
    <3>1. CASE p = th
      BY <1>1, <1>2, <2>2, <2>6, <3>1 DEF Sound
    <3>2. CASE p # th
      BY <1>1, <2>6, <3>2, Unchanging DEF Sound
    <3> QED
      BY <3>1, <3>2
  <2>8. TypeOK'
    BY <1>1, <2>3, <2>4, <2>6, <2>7, Unchanging, Ledgers, TypesStay
  <2>9. Born' /\ SoundBatch'
    BY <1>1, <1>2, <2>3 DEF Born, SoundBatch, IInv
  <2>10. Unclaimed'
    BY <1>1, <1>2, <2>1, <2>3, Ledgers DEF Unclaimed, IInv
  <2>11. Withdrawals'
    <3> SUFFICES ASSUME NEW t \in Task, NEW k \in withdrawn[t]
                 PROVE /\ k <= attempt[t] /\ k \notin claimed'[t]
                       /\ task'[t].status = "queued" => k # attempt[t]
      BY <1>1 DEF Withdrawals
    <3>1. k <= attempt[t] /\ k \notin claimed[t] /\ (task[t].status = "queued" => k # attempt[t])
      BY DEF Withdrawals, IInv
    <3> QED
      BY <1>4, <2>1, <2>3, <3>1, Ledgers
  <2>12. PostsClaimed' /\ SubmittedOnce'
    BY <1>1, <2>1, Ledgers DEF PostsClaimed, SubmittedOnce, IInv
  <2>13. ClaimsHeld'
    <3> SUFFICES ASSUME NEW p \in Actor, sess'[p].at = "submit"
                 PROVE /\ sess'[p].task \in Task
                       /\ sess'[p].claim \in claimed'[sess'[p].task]
                       /\ posts[sess'[p].task][sess'[p].claim] = 0
      BY <1>1 DEF ClaimsHeld
    <3>1. CASE p = th
      BY <1>2, <2>1, <2>2, <2>5, <2>6, <3>1, Ledgers
    <3>2. CASE p # th
      BY <2>1, <2>6, <3>2, Ledgers DEF ClaimsHeld, IInv
    <3> QED
      BY <3>1, <3>2
  <2>14. ClaimsApart'
    <3> SUFFICES ASSUME NEW p \in Actor, NEW q \in Actor, NEW t \in Task, NEW k \in Attempt,
                        Holds(p, t, k)', Holds(q, t, k)'
                 PROVE p = q
      BY DEF ClaimsApart
    <3>1. \A r \in Actor : r # th /\ Holds(r, t, k)' =>
              Holds(r, t, k) /\ ~(t = t0 /\ k = attempt[t0])
      BY <2>5, <2>6 DEF Holds, ClaimsHeld, IInv
    <3>2. Holds(th, t, k)' => t = t0 /\ k = attempt[t0]
      BY <2>2, <2>6 DEF Holds
    <3> QED
      BY <3>1, <3>2 DEF ClaimsApart, IInv
  <2> QED
    BY <2>7, <2>8, <2>9, <2>10, <2>11, <2>12, <2>13, <2>14 DEF IInv
<1> QED
  BY <1>3, <1>4

LEMMA SubmitKeeps == ASSUME IInv, NEW th \in Thread, Submit(th) PROVE IInv'
<1> DEFINE t0 == sess[th].task
           k0 == sess[th].claim
           s(at, outcome) == [sess[th] EXCEPT !.at = at, !.row = task[t0], !.outcome = outcome]
<1>1. /\ th \in Actor /\ th # Worker /\ sess[th].at = "submit"
      /\ posts' = [posts EXCEPT ![t0][k0] = @ + 1]
      /\ UNCHANGED <<task, attempt, exec, agent, batch, aged, claimed, withdrawn, crashes>>
  BY ActorsAssumption DEF Submit, Actor
<1>2. /\ t0 \in Task /\ attempt[t0] # 0 /\ sess[th] \in Session /\ task[t0] \in Row
      /\ Sound(th, sess[th])
  BY <1>1, AtWork, Unchanging
<1>3. k0 \in claimed[t0] /\ k0 \in Attempt /\ posts[t0][k0] = 0
  BY <1>1, <1>2, Ledgers DEF ClaimsHeld, IInv
<1>4. /\ run' \in [Task -> RunStatuses] /\ faults' \in 0 .. MaxFaults
      /\ \E at \in {"answered", "apply"}, outcome \in SettledStatuses \cup {"absent"} :
            /\ sess' = [sess EXCEPT ![th] = s(at, outcome)]
            /\ at = "apply" => outcome # "absent"
  <2>1. faults' \in 0 .. MaxFaults
    <3>1. faults' = faults \/ (faults < MaxFaults /\ faults' = faults + 1)
      BY DEF Submit
    <3> QED
      BY <3>1, Unchanging, BoundsAssumption
  <2>2. run' \in [Task -> RunStatuses]
    BY <1>2, Unchanging DEF Submit, RunStatuses
  <2>3. \/ sess' = [sess EXCEPT ![th] = s("answered", "absent")]
        \/ \E o \in RunOutcomes : sess' = [sess EXCEPT ![th] = s("answered", o)]
        \/ sess' = [sess EXCEPT ![th] = s("apply", "failed")]
        \/ sess' = [sess EXCEPT ![th] = s("answered", "failed")]
    BY DEF Submit
  <2> HIDE DEF s
  <2> QED
    BY <2>1, <2>2, <2>3, OutcomesAssumption DEF SettledStatuses
<1>5. PICK at \in {"answered", "apply"}, outcome \in SettledStatuses \cup {"absent"} :
        /\ sess' = [sess EXCEPT ![th] = s(at, outcome)]
        /\ at = "apply" => outcome # "absent"
  BY <1>4
<1>6. /\ s(at, outcome) \in Session /\ s(at, outcome).at = at /\ s(at, outcome).task = t0
      /\ s(at, outcome).outcome = outcome
  BY <1>2 DEF Session, Places, RowStatuses
<1> HIDE DEF s, t0, k0
<1>7. /\ sess' \in [Actor -> Session] /\ sess'[th] = s(at, outcome)
      /\ \A p \in Actor : p # th => sess'[p] = sess[p]
  BY <1>1, <1>5, <1>6, Unchanging
<1>8. SoundSessions'
  <2> SUFFICES ASSUME NEW p \in Actor PROVE Sound(p, sess[p])'
    BY DEF SoundSessions
  <2>1. CASE p = th
    BY <1>1, <1>2, <1>5, <1>6, <1>7, <2>1 DEF Sound
  <2>2. CASE p # th
    BY <1>1, <1>7, <2>2, Unchanging DEF Sound
  <2> QED
    BY <2>1, <2>2
<1>9. /\ posts' \in [Task -> [Attempt -> Nat]] /\ posts'[t0][k0] = 1
      /\ \A t \in Task, k \in Attempt : t # t0 \/ k # k0 => posts'[t][k] = posts[t][k]
  BY <1>1, <1>2, <1>3, Ledgers
<1>10. TypeOK'
  BY <1>1, <1>4, <1>7, <1>8, <1>9, Unchanging, Ledgers, TypesStay
<1>11. Born' /\ SoundBatch' /\ Unclaimed' /\ Withdrawals'
  BY <1>1 DEF Born, SoundBatch, Unclaimed, Withdrawals, IInv
<1>12. PostsClaimed' /\ SubmittedOnce'
  BY <1>1, <1>3, <1>9 DEF PostsClaimed, SubmittedOnce, IInv
<1>13. \A p \in Actor : sess'[p].at = "submit" => p # th /\ sess'[p] = sess[p]
  BY <1>6, <1>7
<1>14. ClaimsHeld'
  <2> SUFFICES ASSUME NEW p \in Actor, sess'[p].at = "submit"
               PROVE /\ sess'[p].task \in Task
                     /\ sess'[p].claim \in claimed[sess'[p].task]
                     /\ posts'[sess'[p].task][sess'[p].claim] = 0
    BY <1>1 DEF ClaimsHeld
  <2> DEFINE t == sess[p].task
             k == sess[p].claim
  <2>1. /\ p # th /\ sess'[p] = sess[p] /\ sess[p].at = "submit" /\ t \in Task
        /\ k \in claimed[t] /\ k \in Attempt /\ posts[t][k] = 0
    BY <1>13, Ledgers DEF ClaimsHeld, IInv
  <2>2. t # t0 \/ k # k0
    BY <1>1, <1>2, <1>3, <2>1 DEF ClaimsApart, Holds, IInv, t0, k0
  <2> QED
    BY <1>9, <2>1, <2>2
<1>15. ClaimsApart'
  <2> SUFFICES ASSUME NEW p \in Actor, NEW q \in Actor, NEW t \in Task, NEW k \in Attempt,
                      Holds(p, t, k)', Holds(q, t, k)'
               PROVE p = q
    BY DEF ClaimsApart
  <2>1. Holds(p, t, k) /\ Holds(q, t, k)
    BY <1>13 DEF Holds
  <2> QED
    BY <2>1 DEF ClaimsApart, IInv
<1> QED
  BY <1>8, <1>10, <1>11, <1>12, <1>14, <1>15 DEF IInv

-----------------------------------------------------------------------------
(* The invariant, and what follows from it *)

LEMMA ThreadKeeps == ASSUME IInv, NEW th \in Thread, ThreadStep(th) PROVE IInv'
<1>1. th \in Actor
  BY DEF Actor
<1>2. CASE Claim(th)
  BY <1>2, ClaimKeeps
<1>3. CASE Submit(th)
  BY <1>3, SubmitKeeps
<1>4. CASE ~Claim(th) /\ ~Submit(th)
  <2>1. Quiet
    BY <1>1, <1>4, LoadQuiet, EnqueueQuiet, AnsweredQuiet, AcknowledgeQuiet, PollQuiet,
       HandOffQuiet, ApplyQuiet, SettleQuiet, MarkQuiet DEF ThreadStep
  <2> QED
    BY <2>1, QuietKeeps
<1> QED
  BY <1>2, <1>3, <1>4

LEMMA WorkerKeeps == ASSUME IInv, WorkerStep PROVE IInv'
<1>1. Worker \in Actor
  BY DEF Actor
<1>2. Quiet
  BY <1>1, StartRoundQuiet, SweepQuiet, EndRoundQuiet, ProbeQuiet, ApplyQuiet, SettleQuiet,
     MarkQuiet DEF WorkerStep
<1> QED
  BY <1>2, QuietKeeps

LEMMA RequestKeeps == ASSUME IInv, NEW u \in User, RequestStep(u) \/ Request(u) PROVE IInv'
<1>1. u \in Actor
  BY DEF Actor
<1>2. CASE RequestStep(u)
  <2>1. CASE Reset(u)
    BY <2>1, ResetKeeps
  <2>2. CASE Withdraw(u)
    BY <2>2, WithdrawKeeps
  <2>3. CASE ~Reset(u) /\ ~Withdraw(u)
    <3>1. Quiet
      BY <1>1, <1>2, <2>3, ScheduleQuiet, PostCancelQuiet, ApplyQuiet, SettleQuiet, MarkQuiet
         DEF RequestStep
    <3> QED
      BY <3>1, QuietKeeps
  <2> QED
    BY <2>1, <2>2, <2>3
<1>3. CASE Request(u)
  <2>1. PICK t \in Task : \/ Create(u, t) \/ RequestDispatch(u, t)
                          \/ RequestRerun(u, t) \/ RequestCancel(u, t)
    BY <1>3 DEF Request
  <2>2. CASE Create(u, t)
    BY <2>2, CreateKeeps
  <2>3. CASE ~Create(u, t)
    <3>1. Quiet
      BY <2>1, <2>3, RequestDispatchQuiet, RequestRerunQuiet, RequestCancelQuiet
    <3> QED
      BY <3>1, QuietKeeps
  <2> QED
    BY <2>2, <2>3
<1> QED
  BY <1>2, <1>3

\* IInv is inductive: no step of a thread, the worker, a request, the runtime,
\* the clock or a restart leaves it.
THEOREM NextKeepsIInv == IInv /\ [Next]_vars => IInv'
<1> SUFFICES ASSUME IInv, [Next]_vars PROVE IInv'
  OBVIOUS
<1>1. CASE \E th \in Thread : ThreadStep(th)
  BY <1>1, ThreadKeeps
<1>2. CASE WorkerStep
  BY <1>2, WorkerKeeps
<1>3. CASE \E u \in User : RequestStep(u) \/ Request(u)
  BY <1>3, RequestKeeps
<1>4. CASE Surroundings
  BY <1>4, SurroundingsQuiet, QuietKeeps
<1>5. CASE UNCHANGED vars
  <2>1. Quiet
    BY <1>5, Unchanging, SessionStep DEF vars
  <2> QED
    BY <2>1, QuietKeeps
<1> QED
  BY <1>1, <1>2, <1>3, <1>4, <1>5 DEF Next

THEOREM Invariance == Spec => []IInv
<1>1. Init => IInv
  BY InitIInv
<1>2. IInv /\ [Next]_vars => IInv'
  BY NextKeepsIInv
<1> QED
  BY <1>1, <1>2, PTL DEF Spec

\* Rows, sessions, the worker's list and the histories keep their types
\* (models/agent_task.py, and the places of dispatch_task,
\* reconcile_running_task and cancel_task).
THEOREM TypeCorrect == Spec => []TypeOK
<1>1. IInv => TypeOK
  BY DEF IInv
<1> QED
  BY <1>1, Invariance, PTL

\* claim_queued_for_dispatch lets one thread at most submit an attempt, for any
\* number of requests, worker rounds, threads, reruns and restarts.
THEOREM AtMostOneSubmission == Spec => []SubmittedOnce
<1>1. IInv => SubmittedOnce
  BY DEF IInv
<1> QED
  BY <1>1, Invariance, PTL

\* What cancel_agent_task withdraws from a row still queued never reaches the
\* runtime.
THEOREM WithdrawnStays == Spec => []WithdrawnNeverSubmitted
<1>1. IInv => WithdrawnNeverSubmitted
  BY DEF IInv, WithdrawnNeverSubmitted, Withdrawals, PostsClaimed, TypeOK
<1> QED
  BY <1>1, Invariance, PTL

-----------------------------------------------------------------------------
(* TaskDispatch implements AttemptLedger *)

\* The entry of an attempt in the books.
LEMMA Entry ==
  /\ Ledger \in [Task -> [Attempt -> {"unborn", "open", "claimed", "closed"}]]
  /\ \A t \in Task, k \in Attempt : Ledger[t][k] =
        IF k > attempt[t] THEN "unborn"
        ELSE IF k \in claimed[t] THEN "claimed"
        ELSE IF k = attempt[t] /\ task[t].status = "queued" THEN "open" ELSE "closed"
BY DEF Ledger

LEMMA EntryNext ==
  /\ Ledger' \in [Task -> [Attempt -> {"unborn", "open", "claimed", "closed"}]]
  /\ \A t \in Task, k \in Attempt : Ledger'[t][k] =
        IF k > attempt'[t] THEN "unborn"
        ELSE IF k \in claimed'[t] THEN "claimed"
        ELSE IF k = attempt'[t] /\ task'[t].status = "queued" THEN "open" ELSE "closed"
BY DEF Ledger

\* The books of two states agree when their entries do.
LEMMA SameBooks ==
  ASSUME \A t \in Task, k \in Attempt : Ledger'[t][k] = Ledger[t][k]
  PROVE  Ledger' = Ledger
<1>1. \A t \in Task : Ledger'[t] = Ledger[t]
  BY Entry, EntryNext
<1> QED
  BY <1>1, Entry, EntryNext

\* An entry ends.
LEMMA Ends ==
  ASSUME NEW t \in Task, NEW k \in Attempt, NEW entry, Ledger[t][k] = "open",
         Ledger'[t][k] = entry,
         \A u \in Task, j \in Attempt : u # t \/ j # k => Ledger'[u][j] = Ledger[u][j]
  PROVE  Books!End(t, k, entry)
<1>1. Ledger'[t] = [Ledger[t] EXCEPT ![k] = entry]
  BY Entry, EntryNext
<1>2. \A u \in Task : u # t => Ledger'[u] = Ledger[u]
  BY Entry, EntryNext
<1>3. Ledger' = [Ledger EXCEPT ![t] = [Ledger[t] EXCEPT ![k] = entry]]
  BY <1>1, <1>2, Entry, EntryNext
<1> QED
  BY <1>3 DEF Books!End

\* The next attempt opens.
LEMMA Opens ==
  ASSUME IInv, NEW t \in Task, attempt[t] < MaxAttempts,
         attempt' = [attempt EXCEPT ![t] = attempt[t] + 1], claimed' = claimed,
         task'[t].status = "queued", \A u \in Task : u # t => task'[u] = task[u]
  PROVE  Books!Open(t, attempt[t] + 1)
<1> DEFINE k == attempt[t] + 1
<1>1. /\ k \in Attempt /\ attempt'[t] = k /\ k \in Nat
      /\ \A u \in Task : u # t => attempt'[u] = attempt[u]
      /\ \A j \in Attempt : j \in Nat
  BY Unchanging, BoundsAssumption DEF Attempt
<1>2. k \notin claimed[t] /\ attempt[t] \in Nat /\ \A j \in Attempt : j <= attempt[t] <=> j < k
  BY <1>1, Ledgers DEF Unclaimed, IInv
<1>3. Ledger[t][k] = "unborn"
  BY <1>1, <1>2, Entry
<1>4. \A j \in Attempt : j < k => Ledger[t][j] # "unborn"
  BY <1>1, <1>2, Entry
<1>5. \A j \in Attempt : Ledger'[t][j] =
          IF j = k THEN "open" ELSE IF Ledger[t][j] = "open" THEN "closed" ELSE Ledger[t][j]
  <2> SUFFICES ASSUME NEW j \in Attempt
               PROVE Ledger'[t][j] = IF j = k THEN "open"
                          ELSE IF Ledger[t][j] = "open" THEN "closed" ELSE Ledger[t][j]
    OBVIOUS
  <2>1. CASE j = k
    BY <1>1, <1>2, <2>1, EntryNext
  <2>2. CASE j < k
    BY <1>1, <1>2, <2>2, Entry, EntryNext
  <2>3. CASE j > k
    BY <1>1, <1>2, <2>3, Entry, EntryNext
  <2> QED
    BY <1>1, <2>1, <2>2, <2>3
<1>6. \A u \in Task : u # t => Ledger'[u] = Ledger[u]
  BY <1>1, Entry, EntryNext
<1>7. Ledger'[t] = [j \in Attempt |-> IF j = k THEN "open"
                      ELSE IF Ledger[t][j] = "open" THEN "closed" ELSE Ledger[t][j]]
  BY <1>5, EntryNext
<1> HIDE DEF k
<1>8. Ledger' = [Ledger EXCEPT ![t] = [j \in Attempt |-> IF j = k THEN "open"
                      ELSE IF Ledger[t][j] = "open" THEN "closed" ELSE Ledger[t][j]]]
  BY <1>6, <1>7, Entry, EntryNext
<1>9. Attempt = Books!Attempt
  BY DEF Attempt, Books!Attempt
<1> QED
  BY <1>3, <1>4, <1>8, <1>9 DEF Books!Open, k

\* A row that stops being queued without a claim closes its attempt.
LEMMA QuietBooks ==
  ASSUME IInv, UNCHANGED <<attempt, claimed>>, OneRow,
         \A t \in Task : task'[t].status = "queued" => task[t].status = "queued"
  PROVE  Ledger' = Ledger \/ \E t \in Task, k \in Attempt : Books!End(t, k, "closed")
<1>1. CASE \A t \in Task : task[t].status = "queued" => task'[t].status = "queued"
  <2>1. \A t \in Task, k \in Attempt : Ledger'[t][k] = Ledger[t][k]
    BY <1>1, Entry, EntryNext
  <2> QED
    BY <2>1, SameBooks
<1>2. CASE \E t \in Task : task[t].status = "queued" /\ task'[t].status # "queued"
  <2>1. PICK t \in Task : task[t].status = "queued" /\ task'[t].status # "queued"
    BY <1>2
  <2> DEFINE k == attempt[t]
  <2>2. \A u \in Task : u # t => task'[u] = task[u]
    BY <2>1 DEF OneRow
  <2>3. k \in Attempt /\ k \notin claimed[t]
    BY <2>1, Unchanging, BoundsAssumption DEF IInv, Born, Unclaimed, Attempt
  <2>4. Ledger[t][k] = "open" /\ Ledger'[t][k] = "closed"
    BY <2>1, <2>3, Entry, EntryNext DEF Attempt
  <2>5. \A u \in Task, j \in Attempt : u # t \/ j # k => Ledger'[u][j] = Ledger[u][j]
    BY <2>2, Entry, EntryNext
  <2> QED
    BY <2>3, <2>4, <2>5, Ends
<1> QED
  BY <1>1, <1>2

\* Every step opens an attempt, ends one, or leaves the books alone.
LEMMA QuietStep == ASSUME IInv, Quiet PROVE [Books!LedgerNext]_Ledger
BY QuietBooks DEF Quiet, Books!LedgerNext, Books!Attempt, Attempt

LEMMA CreateStep ==
  ASSUME IInv, NEW u \in User, NEW t \in Task, Create(u, t) PROVE [Books!LedgerNext]_Ledger
<1>1. attempt[t] = 0
  BY DEF Create, IInv, Born
<1>2. /\ attempt' = [attempt EXCEPT ![t] = attempt[t] + 1] /\ claimed' = claimed
      /\ task'[t].status = "queued" /\ \A v \in Task : v # t => task'[v] = task[v]
  BY <1>1, Unchanging DEF Create, histories
<1>3. attempt[t] < MaxAttempts
  BY <1>1, BoundsAssumption
<1>4. Books!Open(t, attempt[t] + 1)
  BY <1>2, <1>3, Opens
<1> QED
  BY <1>1, <1>4, BoundsAssumption DEF Books!LedgerNext, Books!Attempt

LEMMA ResetStep == ASSUME IInv, NEW u \in User, Reset(u) PROVE [Books!LedgerNext]_Ledger
<1> DEFINE t0 == sess[u].task
           assigned == [status |-> "queued", started |-> 0]
           stored == Flush(task[t0], sess[u].row, assigned)
<1>1. /\ u \in Actor /\ u # Worker /\ sess[u].at = "reset" /\ attempt[t0] < MaxAttempts
      /\ Save(u, assigned, "schedule")
      /\ attempt' = [attempt EXCEPT ![t0] = @ + 1] /\ claimed' = claimed
  BY ActorsAssumption DEF Reset, Actor, histories
<1>2. /\ t0 \in Task /\ attempt[t0] \in 0 .. MaxAttempts
      /\ sess[u].row \in Row /\ task[t0] \in Row /\ sess[u].row.status # "queued"
  <2>1. Sound(u, sess[u])
    BY <1>1, Unchanging
  <2> QED
    BY <1>1, <2>1, AtWork, Unchanging DEF Sound
<1>3. assigned \in Row /\ assigned.status = "queued"
  BY BoundsAssumption DEF Row, RowStatuses, ActiveStatuses
<1>4. task' = [task EXCEPT ![t0] = stored]
  BY <1>1 DEF Save
<1>5. stored.status = "queued"
  BY <1>2, <1>3, FlushedStatus
<1> HIDE DEF stored, assigned, t0
<1>6. task'[t0].status = "queued" /\ \A v \in Task : v # t0 => task'[v] = task[v]
  BY <1>2, <1>4, <1>5, Unchanging
<1>7. attempt' = [attempt EXCEPT ![t0] = attempt[t0] + 1]
  BY <1>1
<1>8. Books!Open(t0, attempt[t0] + 1)
  BY <1>1, <1>2, <1>6, <1>7, Opens
<1>9. attempt[t0] + 1 \in Books!Attempt
  BY <1>1, <1>2, BoundsAssumption DEF Books!Attempt
<1> QED
  BY <1>2, <1>8, <1>9 DEF Books!LedgerNext

LEMMA WithdrawStep == ASSUME IInv, NEW u \in User, Withdraw(u) PROVE [Books!LedgerNext]_Ledger
<1> DEFINE assigned == [sess[u].row EXCEPT !.status = "cancelled"]
<1>1. /\ u \in Actor /\ u # Worker /\ sess[u].at = "withdraw" /\ Save(u, assigned, "mark")
      /\ UNCHANGED <<attempt, claimed>>
  BY ActorsAssumption DEF Withdraw, Actor
<1>2. sess[u].task \in Task /\ sess[u].row \in Row
  BY <1>1, AtWork
<1>3. assigned \in Row /\ assigned.status \in SettledStatuses
  BY <1>2 DEF Row, RowStatuses, SettledStatuses
<1>4. OneRow /\ \A t \in Task : task'[t].status = "queued" => task[t].status = "queued"
  BY <1>1, <1>2, <1>3, SaveQuiet
<1> QED
  BY <1>1, <1>4, QuietBooks DEF Books!LedgerNext, Books!Attempt, Attempt

LEMMA ClaimStep == ASSUME IInv, NEW th \in Thread, Claim(th) PROVE [Books!LedgerNext]_Ledger
<1> DEFINE t0 == sess[th].task
           k0 == attempt[t0]
<1>1. th \in Actor /\ th # Worker /\ sess[th].at = "claim" /\ attempt' = attempt
  BY ActorsAssumption DEF Claim, ClaimOf, Actor
<1>2. t0 \in Task /\ k0 # 0 /\ k0 \in 0 .. MaxAttempts
  BY <1>1, AtWork
<1>3. CASE task[t0].status # "queued"
  BY <1>1, <1>3, SameBooks, Entry, EntryNext DEF Claim, ClaimOf
<1>4. CASE task[t0].status = "queued"
  <2>1. /\ task' = [task EXCEPT ![t0] = [status |-> "running", started |-> k0]]
        /\ claimed' = [claimed EXCEPT ![t0] = @ \cup {k0}]
    BY <1>4 DEF Claim, ClaimOf
  <2>2. k0 \in Attempt /\ k0 \notin claimed[t0]
    BY <1>2, <1>4, BoundsAssumption DEF IInv, Unclaimed, Attempt
  <2> HIDE DEF t0
  <2>3. Ledger[t0][k0] = "open" /\ Ledger'[t0][k0] = "claimed"
    BY <1>1, <1>2, <1>4, <2>1, <2>2, Entry, EntryNext, Ledgers
  <2>4. \A u \in Task, j \in Attempt : u # t0 \/ j # k0 => Ledger'[u][j] = Ledger[u][j]
    <3> SUFFICES ASSUME NEW u \in Task, NEW j \in Attempt, u # t0 \/ j # k0
                 PROVE Ledger'[u][j] = Ledger[u][j]
      OBVIOUS
    <3>1. j \in claimed'[u] <=> j \in claimed[u]
      BY <1>2, <2>1, Ledgers
    <3>2. u # t0 => task'[u] = task[u]
      BY <2>1, Unchanging
    <3> QED
      BY <1>1, <3>1, <3>2, Entry, EntryNext
  <2> QED
    BY <1>2, <2>2, <2>3, <2>4, Ends DEF Books!LedgerNext, Books!Attempt, Attempt
<1> QED
  BY <1>3, <1>4

LEMMA SubmitStep == ASSUME IInv, NEW th \in Thread, Submit(th) PROVE [Books!LedgerNext]_Ledger
<1>1. UNCHANGED <<task, attempt, claimed>>
  BY DEF Submit
<1> QED
  BY <1>1, SameBooks, Entry, EntryNext

LEMMA NextStep == ASSUME IInv, [Next]_vars PROVE [Books!LedgerNext]_Ledger
<1>1. ASSUME NEW th \in Thread, ThreadStep(th) PROVE [Books!LedgerNext]_Ledger
  <2>1. th \in Actor
    BY DEF Actor
  <2>2. CASE Claim(th)
    BY <2>2, ClaimStep
  <2>3. CASE Submit(th)
    BY <2>3, SubmitStep
  <2>4. CASE ~Claim(th) /\ ~Submit(th)
    <3>1. Quiet
      BY <1>1, <2>1, <2>4, LoadQuiet, EnqueueQuiet, AnsweredQuiet, AcknowledgeQuiet, PollQuiet,
         HandOffQuiet, ApplyQuiet, SettleQuiet, MarkQuiet DEF ThreadStep
    <3> QED
      BY <3>1, QuietStep
  <2> QED
    BY <2>2, <2>3, <2>4
<1>2. ASSUME WorkerStep PROVE [Books!LedgerNext]_Ledger
  <2>1. Worker \in Actor
    BY DEF Actor
  <2>2. Quiet
    BY <1>2, <2>1, StartRoundQuiet, SweepQuiet, EndRoundQuiet, ProbeQuiet, ApplyQuiet,
       SettleQuiet, MarkQuiet DEF WorkerStep
  <2> QED
    BY <2>2, QuietStep
<1>3. ASSUME NEW u \in User, RequestStep(u) PROVE [Books!LedgerNext]_Ledger
  <2>1. u \in Actor
    BY DEF Actor
  <2>2. CASE Reset(u)
    BY <2>2, ResetStep
  <2>3. CASE Withdraw(u)
    BY <2>3, WithdrawStep
  <2>4. CASE ~Reset(u) /\ ~Withdraw(u)
    <3>1. Quiet
      BY <1>3, <2>1, <2>4, ScheduleQuiet, PostCancelQuiet, ApplyQuiet, SettleQuiet, MarkQuiet
         DEF RequestStep
    <3> QED
      BY <3>1, QuietStep
  <2> QED
    BY <2>2, <2>3, <2>4
<1>4. ASSUME NEW u \in User, Request(u) PROVE [Books!LedgerNext]_Ledger
  <2>1. PICK t \in Task : \/ Create(u, t) \/ RequestDispatch(u, t)
                          \/ RequestRerun(u, t) \/ RequestCancel(u, t)
    BY <1>4 DEF Request
  <2>2. CASE Create(u, t)
    BY <2>2, CreateStep
  <2>3. CASE ~Create(u, t)
    <3>1. Quiet
      BY <2>1, <2>3, RequestDispatchQuiet, RequestRerunQuiet, RequestCancelQuiet
    <3> QED
      BY <3>1, QuietStep
  <2> QED
    BY <2>2, <2>3
<1>5. ASSUME Surroundings PROVE [Books!LedgerNext]_Ledger
  BY <1>5, SurroundingsQuiet, QuietStep
<1>6. ASSUME UNCHANGED vars PROVE [Books!LedgerNext]_Ledger
  BY <1>6, SameBooks, Entry, EntryNext DEF vars
<1> QED
  BY <1>1, <1>2, <1>3, <1>4, <1>5, <1>6 DEF Next

\* Whatever threads, worker and requests do to a row, each of its attempts goes
\* once from queued to claimed or closed and stays there: the dispatcher
\* implements AttemptLedger.
THEOREM Refinement == Spec => KeepsTheBooks
<1>1. Init => Books!LedgerInit
  <2> SUFFICES ASSUME Init PROVE Ledger = [t \in Task |-> [k \in Attempt |-> "unborn"]]
    BY DEF Books!LedgerInit, Books!Attempt, Attempt
  <2>1. \A t \in Task, k \in Attempt : Ledger[t][k] = "unborn"
    BY Entry DEF Init, Attempt
  <2>2. \A t \in Task : Ledger[t] = [k \in Attempt |-> "unborn"]
    BY <2>1, Entry
  <2> QED
    BY <2>2, Entry
<1>2. IInv /\ [Next]_vars => [Books!LedgerNext]_Ledger
  BY NextStep
<1> QED
  BY <1>1, <1>2, Invariance, PTL DEF Spec, KeepsTheBooks, Books!LedgerSpec
=============================================================================
