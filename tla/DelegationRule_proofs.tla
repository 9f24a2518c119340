------------------------ MODULE DelegationRule_proofs ------------------------
(***************************************************************************)
(* OneTask, and KeepsTheEvents, for every number of items, runs, replies,  *)
(* faults and restarts.                                                    *)
(*                                                                         *)
(* OneTask is not inductive.  What keeps a second task from being made is  *)
(* the claim: one actor at most holds an item (Apart), while it does the   *)
(* event says "creating_task" and is too young to be taken over            *)
(* (InPlace), and it goes on to create only after it found no task that    *)
(* counts.  Events that may be claimed afresh have no task (Claims).       *)
(***************************************************************************)
EXTENDS DelegationRule, TLAPS

Standing == {"active", "done", "over"}

\* What the place of an actor says of its item, its event and its tasks
InPlace(s) ==
    /\ s.at \in Holding => event[s.item] = "creating_task" /\ s.item \notin stale
    /\ s.at = "create" => live[s.item] = 0
    /\ s.at \in {"answer", "record"} => \A i \in s.todo : event[i] \in Tasked
    /\ s.at = "record" => event[s.item] \in Tasked
    /\ s.at = "finish" => s.copy # "expired"

InPlaces == \A p \in Actor : InPlace(sess[p])

Apart == \A p, q \in Actor :
    sess[p].at \in Holding /\ sess[q].at \in Holding /\ sess[p].item = sess[q].item => p = q

Claims == \A i \in Item :
    /\ event[i] \in {"absent", "discovered", "failed"} => live[i] = 0
    /\ i \in stale => event[i] = "creating_task"

Counts == \A i \in Item : live[i] = IF task[i] \in Standing THEN 1 ELSE 0

IInv == TypeOK /\ InPlaces /\ Apart /\ Claims /\ Counts

-----------------------------------------------------------------------------
(* Sessions and types *)

\* A session whose place has the item it needs
Fit(s) == s \in Session /\ (s.at \in Holding \cup {"claim", "record"} => s.item \in Item)

SessOK == sess \in [Actor -> Session] /\ \A p \in Actor : Fit(sess[p])

\* TypeOK but for the sessions
RestOK ==
    /\ rule \in Rule
    /\ shown \in SUBSET Item
    /\ event \in [Item -> EventStatuses]
    /\ stale \in SUBSET Item
    /\ older \in SUBSET (Item \X Item)
    /\ task \in [Item -> TaskStatuses]
    /\ live \in [Item -> Nat]
    /\ edits \in 0 .. MaxEdits /\ faults \in 0 .. MaxFaults /\ crashes \in 0 .. MaxCrashes

LEMMA TypeParts == /\ TypeOK <=> RestOK /\ SessOK
                   /\ TypeOK' <=> RestOK' /\ SessOK'
BY DEF TypeOK, RestOK, SessOK, Fit

\* A session that has nothing to do fits.
LEMMA IdleFit == Fit(Idle) /\ Idle.at = "idle" /\ Idle.todo = {}
BY DEF Fit, Idle, Session, Places, Holding, Answered

\* The list of replies holds items that have their task.
LEMMA ListingFit ==
    ASSUME TypeOK, NEW copy \in {"kept", "deleted", "expired"}
    PROVE  /\ Fit(Listing(copy)) /\ Listing(copy).at = "answer"
           /\ \A i \in Listing(copy).todo : event[i] \in Tasked
BY DEF Listing, PendingReplies, Pending, Idle, Fit, Session, Places, Holding, Answered, Tasked, TypeOK

\* So does going on to the next item of a list.
LEMMA NextItemFit ==
    ASSUME NEW s \in Session, NEW place \in {"answer", "items"}
    PROVE  /\ Fit(NextItem(s, place)) /\ NextItem(s, place).at = place
           /\ NextItem(s, place).todo \subseteq s.todo
BY DEF NextItem, Fit, Session, Places, Holding

\* One session becomes another, the rest stay.
LEMMA BecomesOK ==
    ASSUME SessOK, NEW p \in Actor, NEW s, Fit(s), Becomes(p, s)
    PROVE  /\ SessOK' /\ sess'[p] = s
           /\ \A q \in Actor : q # p => sess'[q] = sess[q]
BY DEF SessOK, Fit, Becomes

\* What the poller loads is a state.
LEMMA LoadedKnown ==
    ASSUME TypeOK, NEW p \in Actor
    PROVE  Loaded(sess[p]) \in {"kept", "deleted"}
BY DEF Loaded, TypeOK, Session, Rule

-----------------------------------------------------------------------------
(* Steps that leave events, claims and tasks alone *)

Quiet ==
    /\ UNCHANGED <<event, stale, task, live>>
    /\ \A p \in Actor :
        /\ sess'[p].at \in Holding => sess'[p] = sess[p]
        /\ sess'[p] = sess[p] \/ InPlace(sess'[p])

\* They keep the invariant.
LEMMA QuietKeeps ==
    ASSUME IInv, TypeOK', Quiet
    PROVE  IInv'
<1>1. InPlaces'
  BY DEF IInv, Quiet, InPlaces, InPlace
<1>2. Apart'
  BY DEF IInv, Quiet, Apart
<1>3. Claims' /\ Counts'
  BY DEF IInv, Quiet, Claims, Counts
<1> QED
  BY <1>1, <1>2, <1>3 DEF IInv

\* An actor's own step is quiet when it comes to no claim.
LEMMA BecomesQuiet ==
    ASSUME IInv, NEW p \in Actor, NEW s, Fit(s), Becomes(p, s),
           s.at \notin Holding, InPlace(s), UNCHANGED <<event, stale, task, live>>
    PROVE  Quiet /\ SessOK'
<1>1. /\ SessOK' /\ sess'[p] = s
      /\ \A q \in Actor : q # p => sess'[q] = sess[q]
  BY BecomesOK, TypeParts DEF IInv
<1> QED
  BY <1>1 DEF Quiet

LEMMA AcquireQuiet == ASSUME IInv, Acquire PROVE TypeOK' /\ Quiet
<1> DEFINE s == Listing(rule.state)
<1>1. Fit(s) /\ s.at = "answer" /\ \A i \in s.todo : event[i] \in Tasked
  BY ListingFit DEF IInv, TypeOK, Rule
<1>2. s.at \notin Holding /\ InPlace(s)
  BY <1>1 DEF InPlace, Holding
<1>3. Quiet /\ SessOK'
  BY <1>1, <1>2, BecomesQuiet DEF Acquire, Actor, Runner
<1>4. RestOK'
  BY DEF Acquire, IInv, TypeOK, RestOK, Rule, bounds
<1> QED
  BY <1>3, <1>4, TypeParts

LEMMA RunOnceQuiet == ASSUME IInv, NEW u \in User, RunOnce(u) PROVE TypeOK' /\ Quiet
<1> DEFINE s == Listing(rule.state)
<1>1. Fit(s) /\ s.at = "answer" /\ \A i \in s.todo : event[i] \in Tasked
  BY ListingFit DEF IInv, TypeOK, Rule
<1>2. s.at \notin Holding /\ InPlace(s)
  BY <1>1 DEF InPlace, Holding
<1>3. Quiet /\ SessOK'
  BY <1>1, <1>2, BecomesQuiet DEF RunOnce, Actor, Runner
<1>4. RestOK'
  BY DEF RunOnce, IInv, TypeOK, RestOK, bounds
<1> QED
  BY <1>3, <1>4, TypeParts

LEMMA AnswerQuiet == ASSUME IInv, NEW p \in Actor, Answer(p) PROVE TypeOK' /\ Quiet
<1> DEFINE s == sess[p]
<1>1. s \in Session /\ s.at = "answer" /\ \A i \in s.todo : event[i] \in Tasked
  BY DEF Answer, IInv, TypeOK, InPlaces, InPlace
<1>2. RestOK'
  BY DEF Answer, IInv, TypeOK, RestOK, bounds
<1>3. PICK i \in s.todo :
        \/ \E r \in Answered : Becomes(p, [s EXCEPT !.at = "record", !.item = i, !.reply = r])
        \/ Becomes(p, [s EXCEPT !.todo = @ \ {i}])
  BY DEF Answer
<1>4. UNCHANGED <<event, stale, task, live>>
  BY DEF Answer
<1>5. CASE \E r \in Answered : Becomes(p, [s EXCEPT !.at = "record", !.item = i, !.reply = r])
  <2>1. PICK r \in Answered : Becomes(p, [s EXCEPT !.at = "record", !.item = i, !.reply = r])
    BY <1>5
  <2> DEFINE t == [s EXCEPT !.at = "record", !.item = i, !.reply = r]
  <2>2. t \in Session /\ t.at = "record" /\ t.item = i /\ i \in Item
    BY <1>1 DEF Session, Places
  <2>3. Fit(t) /\ InPlace(t) /\ t.at \notin Holding
    BY <1>1, <2>2 DEF Fit, InPlace, Holding
  <2> QED
    BY <1>2, <1>4, <2>1, <2>3, BecomesQuiet, TypeParts
<1>6. CASE Becomes(p, [s EXCEPT !.todo = @ \ {i}])
  <2> DEFINE t == [s EXCEPT !.todo = @ \ {i}]
  <2>1. t \in Session /\ t.at = "answer" /\ t.todo \subseteq s.todo
    BY <1>1 DEF Session
  <2>2. Fit(t) /\ InPlace(t) /\ t.at \notin Holding
    BY <1>1, <2>1 DEF Fit, InPlace, Holding
  <2> QED
    BY <1>2, <1>4, <1>6, <2>2, BecomesQuiet, TypeParts
<1> QED
  BY <1>3, <1>5, <1>6

LEMMA EndRepliesQuiet == ASSUME IInv, NEW p \in Actor, EndReplies(p) PROVE TypeOK' /\ Quiet
<1> DEFINE s == sess[p]
           t == IF p \in Reader THEN Idle ELSE [s EXCEPT !.at = "poll", !.copy = Loaded(s)]
<1>1. s \in Session /\ Loaded(s) \in {"kept", "deleted"}
  BY LoadedKnown DEF IInv, TypeOK
<1>2. [s EXCEPT !.at = "poll", !.copy = Loaded(s)] \in Session
      /\ [s EXCEPT !.at = "poll", !.copy = Loaded(s)].at = "poll"
  BY <1>1 DEF Session, Places
<1>3. Fit(t) /\ t.at \in {"idle", "poll"}
  BY <1>2, IdleFit DEF Fit, Holding
<1>4. InPlace(t) /\ t.at \notin Holding
  BY <1>3 DEF InPlace, Holding
<1>5. RestOK'
  BY DEF EndReplies, IInv, TypeOK, RestOK, bounds
<1>6. Becomes(p, t) /\ UNCHANGED <<event, stale, task, live>>
  BY DEF EndReplies
<1> HIDE DEF t
<1> QED
  BY <1>3, <1>4, <1>5, <1>6, BecomesQuiet, TypeParts

LEMMA PollQuiet == ASSUME IInv, NEW p \in Actor, Poll(p) PROVE TypeOK' /\ Quiet
<1> DEFINE s == sess[p]
           found == [s EXCEPT !.at = "items", !.todo = shown]
           lost  == [s EXCEPT !.at = "fail"]
<1>1. found \in Session /\ lost \in Session /\ found.at = "items" /\ lost.at = "fail"
  BY DEF IInv, TypeOK, Session, Places
<1>2. /\ Fit(found) /\ InPlace(found) /\ found.at \notin Holding
      /\ Fit(lost) /\ InPlace(lost) /\ lost.at \notin Holding
  BY <1>1 DEF Fit, InPlace, Holding
<1>3. (Becomes(p, found) \/ Becomes(p, lost)) /\ UNCHANGED <<event, stale, task, live>>
  BY DEF Poll
<1>4. RestOK'
  BY BoundsAssumption DEF Poll, IInv, TypeOK, RestOK
<1> HIDE DEF found, lost
<1> QED
  BY <1>2, <1>3, <1>4, BecomesQuiet, TypeParts

LEMMA EndItemsQuiet == ASSUME IInv, NEW p \in Actor, EndItems(p) PROVE TypeOK' /\ Quiet
<1> DEFINE s == sess[p]
           t == [s EXCEPT !.at = "finish", !.copy = Loaded(s)]
<1>1. s \in Session /\ Loaded(s) \in {"kept", "deleted"}
  BY LoadedKnown DEF IInv, TypeOK
<1>2. t \in Session /\ t.at = "finish" /\ t.copy # "expired"
  BY <1>1 DEF Session, Places
<1>3. Fit(t) /\ InPlace(t) /\ t.at \notin Holding
  BY <1>2 DEF Fit, InPlace, Holding
<1>4. RestOK'
  BY DEF EndItems, EndItemsWith, IInv, TypeOK, RestOK, bounds
<1>5. Becomes(p, t) /\ UNCHANGED <<event, stale, task, live>>
  BY DEF EndItems, EndItemsWith
<1> HIDE DEF t
<1> QED
  BY <1>3, <1>4, <1>5, BecomesQuiet, TypeParts

LEMMA RunOverQuiet ==
    ASSUME IInv, NEW p \in Actor, NEW state \in {"kept", "deleted"}, RunOver(p, state)
    PROVE  TypeOK' /\ Quiet
<1>1. Fit(Idle) /\ InPlace(Idle) /\ Idle.at \notin Holding
  BY IdleFit DEF InPlace, Holding
<1>2. RestOK'
  BY DEF RunOver, IInv, TypeOK, RestOK, Rule, bounds
<1>3. Becomes(p, Idle) /\ UNCHANGED <<event, stale, task, live>>
  BY DEF RunOver
<1> QED
  BY <1>1, <1>2, <1>3, BecomesQuiet, TypeParts

LEMMA FinishQuiet == ASSUME IInv, NEW p \in Actor, Finish(p) PROVE TypeOK' /\ Quiet
<1>1. sess[p].copy \in {"kept", "deleted"}
  BY DEF IInv, TypeOK, Session, InPlaces, InPlace, Finish
<1> QED
  BY <1>1, RunOverQuiet DEF Finish

LEMMA FailQuiet == ASSUME IInv, NEW p \in Actor, Fail(p) PROVE TypeOK' /\ Quiet
<1>1. rule.state \in {"kept", "deleted"}
  BY DEF IInv, TypeOK, Rule
<1> QED
  BY <1>1, RunOverQuiet DEF Fail

LEMMA EditsQuiet == ASSUME IInv, Pause \/ Enable \/ Delete PROVE TypeOK' /\ Quiet
<1> DEFINE stopped == [rule EXCEPT !.enabled = FALSE, !.next = "none", !.locked = FALSE]
           gone    == [stopped EXCEPT !.state = "deleted"]
           started == [rule EXCEPT !.enabled = TRUE, !.next = "later"]
<1>a. rule \in Rule
  BY DEF IInv, TypeOK
<1>b. stopped \in Rule /\ gone \in Rule /\ started \in Rule
  BY <1>a DEF Rule
<1>c. rule' \in Rule
  BY <1>b DEF Pause, Enable, Delete, Edit, Stopped
<1>d. edits' \in 0 .. MaxEdits
  BY BoundsAssumption DEF Pause, Enable, Delete, Edit, IInv, TypeOK
<1>1. RestOK'
  BY <1>c, <1>d DEF Pause, Enable, Delete, Edit, IInv, TypeOK, RestOK
<1>2. UNCHANGED <<event, stale, task, live, sess>>
  BY DEF Pause, Enable, Delete, Edit
<1>3. SessOK'
  BY <1>2, TypeParts DEF IInv, SessOK, Fit
<1> QED
  BY <1>1, <1>2, <1>3, TypeParts DEF Quiet

LEMMA TimeQuiet ==
    ASSUME IInv, Tick \/ Lapse \/ \E i \in Item : SourceMoves(i)
    PROVE  TypeOK' /\ Quiet
<1>1. RestOK'
  BY DEF Tick, Lapse, SourceMoves, IInv, TypeOK, RestOK, Rule, bounds
<1>2. UNCHANGED <<event, stale, task, live, sess>>
  BY DEF Tick, Lapse, SourceMoves
<1>3. SessOK'
  BY <1>2, TypeParts DEF IInv, SessOK, Fit
<1> QED
  BY <1>1, <1>2, <1>3, TypeParts DEF Quiet

LEMMA CrashQuiet == ASSUME IInv, Crash PROVE TypeOK' /\ Quiet
<1>1. RestOK'
  BY BoundsAssumption DEF Crash, IInv, TypeOK, RestOK
<1>2. SessOK'
  BY IdleFit DEF Crash, SessOK, Fit
<1>3. \A p \in Actor : sess'[p] = Idle
  BY DEF Crash
<1>4. InPlace(Idle) /\ Idle.at \notin Holding
  BY IdleFit DEF InPlace, Holding
<1> QED
  BY <1>1, <1>2, <1>3, <1>4, TypeParts DEF Quiet, Crash

LEMMA StutterQuiet == ASSUME IInv, UNCHANGED vars PROVE TypeOK' /\ Quiet
BY DEF IInv, Quiet, vars, TypeOK, bounds

-----------------------------------------------------------------------------
(* Steps that move events *)

\* What an actor does leaves the others in place, if it leaves alone what they hold.
LEMMA OthersInPlace ==
    ASSUME IInv, NEW p \in Actor,
           \A q \in Actor : q # p => sess'[q] = sess[q],
           \A i \in Item : event[i] \in Tasked => event'[i] \in Tasked,
           \A q \in Actor : q # p /\ sess[q].at \in Holding =>
                /\ event'[sess[q].item] = event[sess[q].item]
                /\ sess[q].item \in stale' => sess[q].item \in stale
                /\ live[sess[q].item] = 0 => live'[sess[q].item] = 0
    PROVE  \A q \in Actor : q # p => InPlace(sess[q])'
<1> SUFFICES ASSUME NEW q \in Actor, q # p PROVE InPlace(sess[q])'
  OBVIOUS
<1>1. sess'[q] = sess[q] /\ InPlace(sess[q]) /\ sess[q] \in Session
      /\ (sess[q].at \in Holding \cup {"record"} => sess[q].item \in Item)
  BY DEF IInv, InPlaces, TypeOK
<1>2. sess[q].todo \subseteq Item
  BY <1>1 DEF Session
<1> QED
  BY <1>1, <1>2 DEF InPlace, Holding

\* When one actor moves, the others are apart as before.
LEMMA StillApart ==
    ASSUME IInv, NEW p \in Actor,
           \A q \in Actor : q # p => sess'[q] = sess[q],
           sess'[p].at \in Holding =>
                \A q \in Actor : q # p /\ sess[q].at \in Holding => sess[q].item # sess'[p].item
    PROVE  Apart'
BY DEF IInv, Apart

\* A reply is recorded: an item that had its task still has.
LEMMA RecordKeeps == ASSUME IInv, NEW p \in Actor, Record(p) PROVE IInv'
<1> DEFINE s == sess[p]
           t == NextItem(s, "answer")
<1>1. /\ s \in Session /\ s.item \in Item /\ s.at = "record" /\ s.reply \in Answered
      /\ event[s.item] \in Tasked /\ \A i \in s.todo : event[i] \in Tasked
      /\ s.todo \subseteq Item
  BY DEF Record, RecordOf, IInv, TypeOK, InPlaces, InPlace, Session
<1>2. Fit(t) /\ t.at = "answer" /\ t.todo \subseteq s.todo
  BY <1>1, NextItemFit
<1>3. /\ Becomes(p, t) /\ event' = [event EXCEPT ![s.item] = s.reply]
      /\ UNCHANGED <<rule, shown, stale, older, task, live, bounds>>
  BY <1>1 DEF Record, RecordOf
<1> HIDE DEF t
<1>4. /\ SessOK' /\ sess'[p] = t
      /\ \A q \in Actor : q # p => sess'[q] = sess[q]
  BY <1>2, <1>3, BecomesOK, TypeParts DEF IInv
<1>5. RestOK'
  BY <1>1, <1>3 DEF IInv, TypeOK, RestOK, EventStatuses, Tasked, bounds
<1>6. \A i \in Item : event'[i] = event[i] \/ (i = s.item /\ event'[i] \in Tasked /\ event[i] \in Tasked)
  BY <1>1, <1>3 DEF IInv, TypeOK, Tasked
<1>7. \A q \in Actor : sess[q].at \in Holding => event[sess[q].item] = "creating_task" /\ sess[q].item \in Item
  BY DEF IInv, InPlaces, InPlace, TypeOK
<1>8. \A q \in Actor : q # p => InPlace(sess[q])'
  BY <1>3, <1>4, <1>6, <1>7, OthersInPlace DEF Tasked, Answered
<1>9. InPlace(sess[p])'
  BY <1>1, <1>2, <1>4, <1>6 DEF InPlace, Holding
<1>10. Apart'
  BY <1>2, <1>4, StillApart DEF Holding
<1>11. Claims' /\ Counts'
  BY <1>3, <1>6 DEF IInv, Claims, Counts, Tasked, Answered
<1> QED
  BY <1>4, <1>5, <1>8, <1>9, <1>10, <1>11, TypeParts DEF IInv, InPlaces

\* An item becomes known, or is passed over.
LEMMA DiscoverKeeps == ASSUME IInv, NEW p \in Actor, Discover(p) PROVE IInv'
<1> DEFINE s == sess[p]
<1>1. s \in Session /\ s.at = "items" /\ s.todo \subseteq Item
  BY DEF Discover, IInv, TypeOK, Session
<1>2. PICK i \in s.todo :
        /\ event' = [event EXCEPT ![i] = IF @ = "absent" THEN "discovered" ELSE @]
        /\ Becomes(p, IF event[i] \in Tasked THEN NextItem([s EXCEPT !.item = i], "items")
                      ELSE [s EXCEPT !.at = "claim", !.copy = "expired", !.item = i])
  BY DEF Discover
<1> DEFINE passed == NextItem([s EXCEPT !.item = i], "items")
           found  == [s EXCEPT !.at = "claim", !.copy = "expired", !.item = i]
<1>3. /\ [s EXCEPT !.item = i] \in Session
      /\ found \in Session /\ found.at = "claim" /\ found.item = i /\ i \in Item
  BY <1>1 DEF Session, Places
<1>4. Fit(passed) /\ passed.at = "items" /\ Fit(found) /\ found.at = "claim"
  BY <1>3, NextItemFit DEF Fit
<1> HIDE DEF passed, found
<1>5. PICK t : t \in {passed, found} /\ Becomes(p, t)
  BY <1>2 DEF passed, found
<1>6. /\ SessOK' /\ sess'[p] = t
      /\ \A q \in Actor : q # p => sess'[q] = sess[q]
  BY <1>4, <1>5, BecomesOK, TypeParts DEF IInv
<1>7. UNCHANGED <<rule, shown, stale, older, task, live, bounds>>
  BY DEF Discover
<1>8. \A j \in Item : event'[j] = event[j] \/ (event[j] = "absent" /\ event'[j] = "discovered")
  BY <1>1, <1>2 DEF IInv, TypeOK
<1>9. RestOK'
  BY <1>1, <1>2, <1>7 DEF IInv, TypeOK, RestOK, EventStatuses, bounds
<1>10. \A q \in Actor : sess[q].at \in Holding => event[sess[q].item] = "creating_task" /\ sess[q].item \in Item
  BY DEF IInv, InPlaces, InPlace, TypeOK
<1>11. \A q \in Actor : q # p => InPlace(sess[q])'
  BY <1>6, <1>7, <1>8, <1>10, OthersInPlace DEF Tasked, Answered
<1>12. InPlace(sess[p])' /\ Apart'
  BY <1>4, <1>5, <1>6, StillApart DEF InPlace, Holding
<1>13. Claims' /\ Counts'
  BY <1>7, <1>8 DEF IInv, Claims, Counts
<1> QED
  BY <1>6, <1>9, <1>11, <1>12, <1>13, TypeParts DEF IInv, InPlaces

\* A claim is taken where nobody holds the item, or the item is passed over.
LEMMA ClaimKeeps == ASSUME IInv, NEW p \in Actor, Claim(p) PROVE IInv'
<1> DEFINE s == sess[p]
           passed == NextItem(s, "items")
           held   == [s EXCEPT !.at = "look", !.copy = "expired"]
           free   == \/ event[s.item] \in {"discovered", "failed"}
                     \/ event[s.item] = "creating_task" /\ s.item \in stale
<1>1. s \in Session /\ s.item \in Item
  BY DEF Claim, ClaimOf, IInv, TypeOK
<1>2. /\ Fit(passed) /\ passed.at = "items"
      /\ Fit(held) /\ held.at = "look" /\ held.item = s.item
  BY <1>1, NextItemFit DEF Fit, Session, Places, Holding
<1>3. UNCHANGED <<rule, shown, older, task, live, bounds>>
  BY DEF Claim, ClaimOf
<1>4. CASE ~free
  <2>1. Becomes(p, passed) /\ UNCHANGED <<event, stale>>
    BY <1>4 DEF Claim, ClaimOf
  <2>2. InPlace(passed) /\ passed.at \notin Holding
    BY <1>2 DEF InPlace, Holding
  <2>3. RestOK'
    BY <1>3, <2>1 DEF IInv, TypeOK, RestOK, bounds
  <2> HIDE DEF passed
  <2> QED
    BY <1>2, <1>3, <2>1, <2>2, <2>3, BecomesQuiet, QuietKeeps, TypeParts
<1>5. CASE free
  <2>1. /\ Becomes(p, held) /\ event' = [event EXCEPT ![s.item] = "creating_task"]
        /\ stale' = stale \ {s.item}
    BY <1>5 DEF Claim, ClaimOf
  <2> HIDE DEF held
  <2>2. /\ SessOK' /\ sess'[p] = held
        /\ \A q \in Actor : q # p => sess'[q] = sess[q]
    BY <1>2, <2>1, BecomesOK, TypeParts DEF IInv
  <2>3. /\ \A j \in Item : j # s.item => event'[j] = event[j]
        /\ event'[s.item] = "creating_task" /\ s.item \notin stale'
    BY <1>1, <2>1 DEF IInv, TypeOK
  <2>4. RestOK'
    BY <1>1, <1>3, <2>1 DEF IInv, TypeOK, RestOK, EventStatuses, bounds
  <2>5. \A q \in Actor : sess[q].at \in Holding => sess[q].item # s.item /\ sess[q].item \in Item
    BY <1>5 DEF IInv, InPlaces, InPlace, TypeOK
  <2>6. \A q \in Actor : q # p => InPlace(sess[q])'
    BY <1>3, <1>5, <2>1, <2>2, <2>3, <2>5, OthersInPlace DEF Tasked, Answered
  <2>7. InPlace(sess[p])'
    BY <1>2, <2>2, <2>3 DEF InPlace
  <2>8. Apart'
    BY <1>2, <2>2, <2>5, StillApart
  <2>9. Claims' /\ Counts'
    BY <1>3, <2>1, <2>3 DEF IInv, Claims, Counts
  <2> QED
    BY <2>2, <2>4, <2>6, <2>7, <2>8, <2>9, TypeParts DEF IInv, InPlaces
<1> QED
  BY <1>4, <1>5

\* Who holds an item and gives it its task leaves the others in place.
LEMMA LinkedKeeps ==
    ASSUME IInv, NEW p \in Actor, sess[p].at \in Holding, Linked(p, sess[p].item),
           UNCHANGED <<rule, shown, stale, task, live, bounds>>
    PROVE  IInv'
<1> DEFINE s == sess[p]
           t == NextItem(s, "items")
<1>1. s \in Session /\ s.item \in Item /\ event[s.item] = "creating_task" /\ s.item \notin stale
  BY DEF IInv, TypeOK, InPlaces, InPlace
<1>2. Fit(t) /\ t.at = "items"
  BY <1>1, NextItemFit
<1>3. /\ Becomes(p, t) /\ event' = [event EXCEPT ![s.item] = "task_created"]
      /\ older' = older \cup (Pending \X {s.item})
  BY DEF Linked
<1> HIDE DEF t
<1>4. /\ SessOK' /\ sess'[p] = t
      /\ \A q \in Actor : q # p => sess'[q] = sess[q]
  BY <1>2, <1>3, BecomesOK, TypeParts DEF IInv
<1>5. /\ \A j \in Item : j # s.item => event'[j] = event[j]
      /\ event'[s.item] = "task_created"
  BY <1>1, <1>3 DEF IInv, TypeOK
<1>6. older' \in SUBSET (Item \X Item)
  BY <1>1, <1>3 DEF IInv, TypeOK, Pending
<1>7. RestOK'
  BY <1>1, <1>3, <1>6 DEF IInv, TypeOK, RestOK, EventStatuses, Tasked, bounds
<1>8. \A q \in Actor : q # p /\ sess[q].at \in Holding => sess[q].item # s.item /\ sess[q].item \in Item
  BY DEF IInv, Apart, TypeOK
<1>9. \A q \in Actor : q # p => InPlace(sess[q])'
  BY <1>4, <1>5, <1>8, OthersInPlace DEF Tasked, Answered
<1>10. InPlace(sess[p])' /\ Apart'
  BY <1>2, <1>4, StillApart DEF InPlace, Holding
<1>11. Claims' /\ Counts'
  BY <1>1, <1>5 DEF IInv, Claims, Counts
<1> QED
  BY <1>4, <1>7, <1>9, <1>10, <1>11, TypeParts DEF IInv, InPlaces

LEMMA LinkKeeps == ASSUME IInv, NEW p \in Actor, Link(p) PROVE IInv'
BY LinkedKeeps DEF Link, Holding

\* No task that counts is found: the item is about to get one.
LEMMA LookKeeps == ASSUME IInv, NEW p \in Actor, Look(p) PROVE IInv'
<1> DEFINE s == sess[p]
           t == [s EXCEPT !.at = "create"]
<1>1. /\ s \in Session /\ s.item \in Item /\ s.at = "look"
      /\ event[s.item] = "creating_task" /\ s.item \notin stale
  BY DEF IInv, TypeOK, InPlaces, InPlace, Look, LookFor, Holding
<1>2. UNCHANGED <<rule, shown, stale, task, live, bounds>>
  BY DEF Look, LookFor
<1>3. CASE task[s.item] \in Standing
  BY <1>1, <1>2, <1>3, LinkedKeeps DEF Look, LookFor, Standing, Holding
<1>4. CASE task[s.item] \notin Standing
  <2>1. Becomes(p, t) /\ UNCHANGED <<event, older>>
    BY <1>4 DEF Look, LookFor, Standing
  <2>2. Fit(t) /\ t.at = "create" /\ t.item = s.item
    BY <1>1 DEF Fit, Session, Places, Holding
  <2> HIDE DEF t
  <2>3. /\ SessOK' /\ sess'[p] = t
        /\ \A q \in Actor : q # p => sess'[q] = sess[q]
    BY <2>1, <2>2, BecomesOK, TypeParts DEF IInv
  <2>4. RestOK'
    BY <1>2, <2>1 DEF IInv, TypeOK, RestOK, bounds
  <2>5. \A q \in Actor : q # p => InPlace(sess[q])'
    BY <1>2, <2>1, <2>3, OthersInPlace
  <2>6. live[s.item] = 0
    BY <1>1, <1>4 DEF IInv, Counts
  <2>7. InPlace(sess[p])'
    BY <1>1, <1>2, <2>1, <2>2, <2>3, <2>6 DEF InPlace
  <2>8. Apart'
    <3>1. \A q \in Actor : q # p /\ sess[q].at \in Holding => sess[q].item # s.item
      BY <1>1 DEF IInv, Apart, Holding
    <3> QED
      BY <2>2, <2>3, <3>1, StillApart
  <2>9. Claims' /\ Counts'
    BY <1>2, <2>1 DEF IInv, Claims, Counts
  <2> QED
    BY <2>3, <2>4, <2>5, <2>7, <2>8, <2>9, TypeParts DEF IInv, InPlaces
<1> QED
  BY <1>3, <1>4

\* The task is made, by the only holder of an item that has none.
LEMMA CreateKeeps == ASSUME IInv, NEW p \in Actor, Create(p) PROVE IInv'
<1> DEFINE s == sess[p]
           made == [s EXCEPT !.at = "link", !.copy = "expired"]
           lost == NextItem(s, "items")
<1>1. /\ s \in Session /\ s.item \in Item /\ s.at = "create" /\ live[s.item] = 0
      /\ event[s.item] = "creating_task" /\ s.item \notin stale
  BY DEF IInv, TypeOK, InPlaces, InPlace, Create, Holding
<1>2. /\ Fit(made) /\ made.at = "link" /\ made.item = s.item
      /\ Fit(lost) /\ lost.at = "items"
  BY <1>1, NextItemFit DEF Fit, Session, Places, Holding
<1>3. UNCHANGED <<rule, shown, stale, older, edits, crashes>>
  BY DEF Create
<1>4. \A q \in Actor : q # p /\ sess[q].at \in Holding => sess[q].item # s.item /\ sess[q].item \in Item
  BY <1>1 DEF IInv, Apart, TypeOK, Holding
<1>5. CASE /\ task' = [task EXCEPT ![s.item] = "active"] /\ live' = [live EXCEPT ![s.item] = @ + 1]
           /\ Becomes(p, made) /\ UNCHANGED <<event, faults>>
  <2> HIDE DEF made
  <2>1. /\ SessOK' /\ sess'[p] = made
        /\ \A q \in Actor : q # p => sess'[q] = sess[q]
    BY <1>2, <1>5, BecomesOK, TypeParts DEF IInv
  <2>2. /\ \A j \in Item : j # s.item => live'[j] = live[j] /\ task'[j] = task[j]
        /\ live'[s.item] = 1 /\ task'[s.item] = "active"
    BY <1>1, <1>5 DEF IInv, TypeOK
  <2>3. RestOK'
    BY <1>1, <1>3, <1>5 DEF IInv, TypeOK, RestOK, TaskStatuses
  <2>4. \A q \in Actor : q # p => InPlace(sess[q])'
    BY <1>3, <1>4, <1>5, <2>1, <2>2, OthersInPlace
  <2>5. InPlace(sess[p])' /\ Apart'
    BY <1>1, <1>2, <1>3, <1>4, <1>5, <2>1, StillApart DEF InPlace
  <2>6. Claims' /\ Counts'
    BY <1>1, <1>3, <1>5, <2>2 DEF IInv, Claims, Counts, Standing
  <2> QED
    BY <2>1, <2>3, <2>4, <2>5, <2>6, TypeParts DEF IInv, InPlaces
<1>6. CASE /\ faults < MaxFaults /\ faults' = faults + 1
           /\ event' = [event EXCEPT ![s.item] = "failed"]
           /\ Becomes(p, lost) /\ UNCHANGED <<task, live>>
  <2> HIDE DEF lost
  <2>1. /\ SessOK' /\ sess'[p] = lost
        /\ \A q \in Actor : q # p => sess'[q] = sess[q]
    BY <1>2, <1>6, BecomesOK, TypeParts DEF IInv
  <2>2. /\ \A j \in Item : j # s.item => event'[j] = event[j]
        /\ event'[s.item] = "failed"
    BY <1>1, <1>6 DEF IInv, TypeOK
  <2>3. RestOK'
    BY <1>1, <1>3, <1>6, BoundsAssumption DEF IInv, TypeOK, RestOK, EventStatuses
  <2>4. \A q \in Actor : q # p => InPlace(sess[q])'
    BY <1>1, <1>3, <1>4, <1>6, <2>1, <2>2, OthersInPlace DEF Tasked, Answered
  <2>5. InPlace(sess[p])' /\ Apart'
    BY <1>2, <2>1, StillApart DEF InPlace, Holding
  <2>6. Claims' /\ Counts'
    BY <1>1, <1>3, <1>6, <2>2 DEF IInv, Claims, Counts
  <2> QED
    BY <2>1, <2>3, <2>4, <2>5, <2>6, TypeParts DEF IInv, InPlaces
<1> QED
  BY <1>5, <1>6 DEF Create

\* A claim grows old where nobody holds it.
LEMMA AgeKeeps == ASSUME IInv, NEW i \in Item, Age(i) PROVE IInv'
<1>1. /\ stale' = stale \cup {i} /\ event[i] = "creating_task"
      /\ \A p \in Actor : ~(sess[p].at \in Holding /\ sess[p].item = i)
      /\ UNCHANGED <<rule, shown, event, older, task, live, sess, bounds>>
  BY DEF Age
<1>2. TypeOK'
  BY <1>1 DEF IInv, TypeOK, bounds
<1>3. InPlaces' /\ Apart'
  BY <1>1 DEF IInv, InPlaces, InPlace, Apart
<1>4. Claims' /\ Counts'
  BY <1>1 DEF IInv, Claims, Counts
<1> QED
  BY <1>2, <1>3, <1>4 DEF IInv

\* A task ends; a thread may go on to the replies.
LEMMA TaskEndsKeeps == ASSUME IInv, NEW i \in Item, TaskEnds(i) PROVE IInv'
<1>1. /\ task[i] = "active" /\ live[i] = 1
      /\ UNCHANGED <<rule, shown, event, stale, older, bounds>>
  BY DEF TaskEnds, IInv, Counts, Standing
<1>2. \/ task' = [task EXCEPT ![i] = "done"] /\ UNCHANGED live
      \/ task' = [task EXCEPT ![i] = "over"] /\ UNCHANGED live
      \/ task' = [task EXCEPT ![i] = "cancelled"] /\ live' = [live EXCEPT ![i] = @ - 1]
  BY DEF TaskEnds
<1>3. RestOK' /\ Counts'
  BY <1>1, <1>2 DEF IInv, TypeOK, RestOK, Counts, Standing, TaskStatuses, bounds
<1>4. \A j \in Item : live[j] = 0 => live'[j] = 0
  BY <1>1, <1>2 DEF IInv, TypeOK
<1>5. Claims'
  BY <1>1, <1>4 DEF IInv, Claims
<1>6. \A q \in Actor : sess[q].at \in Holding => sess[q].item \in Item
  BY DEF IInv, TypeOK
<1>7. CASE UNCHANGED sess
  <2>1. SessOK' /\ Apart'
    BY <1>7, TypeParts DEF IInv, SessOK, Fit, Apart
  <2>2. InPlaces'
    BY <1>1, <1>4, <1>6, <1>7 DEF IInv, InPlaces, InPlace, Holding
  <2> QED
    BY <1>3, <1>5, <2>1, <2>2, TypeParts DEF IInv
<1>8. CASE \E r \in Reader : sess[r].at = "idle" /\ Becomes(r, Listing("expired"))
  <2>1. PICK r \in Reader : Becomes(r, Listing("expired"))
    BY <1>8
  <2> DEFINE t == Listing("expired")
  <2>2. r \in Actor /\ Fit(t) /\ t.at = "answer" /\ \A j \in t.todo : event[j] \in Tasked
    BY ListingFit DEF IInv, Actor
  <2> HIDE DEF t
  <2>3. /\ SessOK' /\ sess'[r] = t
        /\ \A q \in Actor : q # r => sess'[q] = sess[q]
    BY <2>1, <2>2, BecomesOK, TypeParts DEF IInv, t
  <2>4. \A q \in Actor : q # r => InPlace(sess[q])'
    BY <1>1, <1>4, <1>6, <2>2, <2>3, OthersInPlace
  <2>5. InPlace(sess[r])' /\ Apart'
    BY <1>1, <2>2, <2>3, StillApart DEF InPlace, Holding
  <2> QED
    BY <1>3, <1>5, <2>3, <2>4, <2>5, TypeParts DEF IInv, InPlaces
<1> QED
  BY <1>7, <1>8 DEF TaskEnds

-----------------------------------------------------------------------------
(* Theorems *)

LEMMA InitIInv == Init => IInv
<1> SUFFICES ASSUME Init PROVE IInv
  OBVIOUS
<1>1. \A p \in Actor : sess[p] = Idle
  BY DEF Init
<1>2. SessOK
  BY IdleFit DEF Init, SessOK, Fit
<1>3. RestOK
  BY BoundsAssumption DEF Init, RestOK, Rule, EventStatuses, TaskStatuses
<1>4. InPlaces /\ Apart
  BY <1>1, IdleFit DEF InPlaces, InPlace, Apart, Holding
<1>5. Claims /\ Counts
  BY DEF Init, Claims, Counts, Standing
<1> QED
  BY <1>2, <1>3, <1>4, <1>5, TypeParts DEF IInv

LEMMA NextKeepsIInv == IInv /\ [Next]_vars => IInv'
<1> SUFFICES ASSUME IInv, [Next]_vars PROVE IInv'
  OBVIOUS
<1>1. CASE \E p \in Actor : Proceed(p)
  <2>1. PICK p \in Actor : Proceed(p)
    BY <1>1
  <2> QED
    BY <2>1, QuietKeeps, AnswerQuiet, EndRepliesQuiet, PollQuiet, EndItemsQuiet, FinishQuiet,
       FailQuiet, RecordKeeps, DiscoverKeeps, ClaimKeeps, LookKeeps, CreateKeeps, LinkKeeps
       DEF Proceed
<1>2. CASE Acquire \/ \E u \in User : RunOnce(u)
  BY <1>2, QuietKeeps, AcquireQuiet, RunOnceQuiet
<1>3. CASE Pause \/ Enable \/ Delete
  BY <1>3, QuietKeeps, EditsQuiet
<1>4. CASE Tick \/ Lapse \/ \E i \in Item : SourceMoves(i)
  BY <1>4, QuietKeeps, TimeQuiet
<1>5. CASE Crash \/ UNCHANGED vars
  BY <1>5, QuietKeeps, CrashQuiet, StutterQuiet
<1>6. CASE \E i \in Item : Age(i) \/ TaskEnds(i)
  BY <1>6, AgeKeeps, TaskEndsKeeps
<1> QED
  BY <1>1, <1>2, <1>3, <1>4, <1>5, <1>6 DEF Next

\* The invariant holds of every behaviour: see the head of this module.
THEOREM Invariance == Spec => []IInv
BY InitIInv, NextKeepsIInv, PTL DEF Spec

\* The rule, its events, tasks and runs keep their types, whatever runs at once
\* (DelegationRuleService.run_rule_once, DelegationWorker._run_once).
THEOREM TypeCorrect == Spec => []TypeOK
<1>1. IInv => TypeOK
  BY DEF IInv
<1> QED
  BY <1>1, Invariance, PTL

\* An item never has two tasks that count, for any number of items, runs and
\* restarts (DelegationRuleService._create_task_for_source_item).
THEOREM OneTaskHolds == Spec => []OneTask
<1>1. IInv => OneTask
  BY DEF IInv, Counts, OneTask
<1> QED
  BY <1>1, Invariance, PTL

-----------------------------------------------------------------------------
(* Refinement of EventLedger *)

\* What the ledger says of an event
Entry(e) == IF e \in Answered THEN "answered" ELSE IF e \in Tasked THEN "tasked" ELSE "new"

\* When the event of one item moves forward, or stays, so does the ledger.
LEMMA Forward ==
    ASSUME IInv, NEW i \in Item, NEW to \in EventStatuses, event' = [event EXCEPT ![i] = to],
           event[i] \in Tasked <=> to \in Answered
    PROVE  [Events!LedgerNext]_Ledger
<1>1. event \in [Item -> EventStatuses]
  BY DEF IInv, TypeOK
<1>2. /\ event'[i] = to
      /\ \A j \in Item : j # i => event'[j] = event[j]
  BY <1>1
<1>3. /\ Ledger = [j \in Item |-> Entry(event[j])]
      /\ Ledger' = [j \in Item |-> Entry(event'[j])]
  BY DEF Ledger, Entry
<1>4. Ledger' = [Ledger EXCEPT ![i] = Entry(to)]
  BY <1>2, <1>3
<1>5. Ledger[i] = Entry(event[i])
  BY <1>3
<1>6. CASE to \in Answered
  <2>1. Ledger[i] \in {"tasked", "answered"} /\ Ledger' = [Ledger EXCEPT ![i] = "answered"]
    BY <1>4, <1>5, <1>6 DEF Entry
  <2>2. Events!Reply(i) \/ UNCHANGED Ledger
    BY <1>3, <2>1 DEF Events!Reply
  <2> QED
    BY <2>2 DEF Events!LedgerNext
<1>7. CASE to \notin Answered
  <2>1. Ledger[i] = "new" /\ Entry(to) \in {"new", "tasked"}
    BY <1>5, <1>7 DEF Entry, Tasked
  <2>2. Events!Give(i) \/ UNCHANGED Ledger
    BY <1>3, <1>4, <2>1 DEF Events!Give
  <2> QED
    BY <2>2 DEF Events!LedgerNext
<1> QED
  BY <1>6, <1>7

\* Every step moves one event forward, or none.
LEMMA StepRefines == IInv /\ [Next]_vars => [Events!LedgerNext]_Ledger
<1> SUFFICES ASSUME IInv, [Next]_vars PROVE [Events!LedgerNext]_Ledger
  OBVIOUS
<1> USE DEF Tasked, Answered, EventStatuses
<1>1. CASE UNCHANGED event
  BY <1>1 DEF Ledger
<1>2. ASSUME NEW p \in Actor, Record(p) PROVE [Events!LedgerNext]_Ledger
  <2>1. /\ sess[p].item \in Item /\ sess[p].reply \in Answered /\ event[sess[p].item] \in Tasked
        /\ event' = [event EXCEPT ![sess[p].item] = sess[p].reply]
    BY <1>2 DEF Record, RecordOf, IInv, TypeOK, InPlaces, InPlace, Session
  <2> QED
    BY <2>1, Forward
<1>3. ASSUME NEW p \in Actor, Discover(p) PROVE [Events!LedgerNext]_Ledger
  <2>1. PICK i \in sess[p].todo :
            event' = [event EXCEPT ![i] = IF @ = "absent" THEN "discovered" ELSE @]
    BY <1>3 DEF Discover
  <2>2. i \in Item /\ event \in [Item -> EventStatuses]
    BY DEF IInv, TypeOK, Session
  <2>3. CASE event[i] = "absent"
    BY <2>1, <2>2, <2>3, Forward
  <2>4. CASE event[i] # "absent"
    BY <1>1, <2>1, <2>2, <2>4
  <2> QED
    BY <2>3, <2>4
<1>4. ASSUME NEW p \in Actor, Claim(p), event' # event PROVE [Events!LedgerNext]_Ledger
  <2>1. /\ sess[p].item \in Item /\ event[sess[p].item] \in {"discovered", "failed", "creating_task"}
        /\ event' = [event EXCEPT ![sess[p].item] = "creating_task"]
    BY <1>4 DEF Claim, ClaimOf, IInv, TypeOK
  <2> QED
    BY <2>1, Forward
<1>5. ASSUME NEW p \in Actor, Look(p) \/ Create(p) \/ Link(p), event' # event
      PROVE  [Events!LedgerNext]_Ledger
  <2>1. sess[p].item \in Item /\ event[sess[p].item] = "creating_task"
    BY <1>5 DEF Look, LookFor, Create, Link, IInv, TypeOK, InPlaces, InPlace, Holding
  <2>2. \/ event' = [event EXCEPT ![sess[p].item] = "task_created"]
        \/ event' = [event EXCEPT ![sess[p].item] = "failed"]
    BY <1>5 DEF Look, LookFor, Create, Link, Linked
  <2> QED
    BY <2>1, <2>2, Forward
<1>6. CASE \E p \in Actor : Proceed(p)
  <2>1. PICK p \in Actor : Proceed(p)
    BY <1>6
  <2>2. CASE Answer(p) \/ EndReplies(p) \/ Poll(p) \/ EndItems(p) \/ Finish(p) \/ Fail(p)
    BY <1>1, <2>2 DEF Answer, EndReplies, Poll, EndItems, EndItemsWith, Finish, Fail, RunOver
  <2> QED
    BY <1>1, <1>2, <1>3, <1>4, <1>5, <2>1, <2>2 DEF Proceed
<1>7. CASE ~(\E p \in Actor : Proceed(p))
  BY <1>1, <1>7 DEF Next, vars, Acquire, RunOnce, Pause, Enable, Delete, Edit, Tick, Lapse, Crash,
     Age, SourceMoves, TaskEnds
<1> QED
  BY <1>6, <1>7

\* Each item gets its task once and its answer after that, and neither is taken
\* back, however runs, replies, failures and restarts fall together.
THEOREM Refinement == Spec => KeepsTheEvents
<1>1. Init => Events!LedgerInit
  BY DEF Init, Events!LedgerInit, Ledger, Tasked, Answered
<1> QED
  BY <1>1, StepRefines, Invariance, PTL DEF Spec, KeepsTheEvents, Events!LedgerSpec
=============================================================================
