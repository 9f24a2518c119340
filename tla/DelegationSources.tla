--------------------------- MODULE DelegationSources ---------------------------
(***************************************************************************)
(* What a delegation finds in GitHub, Jira and its timer: the poll of its  *)
(* source, read in several calls while people go on, the conditions, and   *)
(* the key under which a thing asked for starts work once.  One pull       *)
(* request or issue; the claim of a key is the concern of DelegationRule.  *)
(***************************************************************************)
EXTENDS Integers, Sequences, FiniteSets, FiniteSetsExt

CONSTANTS
    Rules,          \* delegations: source, conditions, whether a timer skips while its task runs
    Poll,           \* runs: "worker" waits for the due time, any other is a Run now
    PageSize,       \* comments of a pull request read, the oldest first
    Interval,       \* between two due times
    Created,        \* the half minute the delegation was made at
    Beside,         \* bound: the sources of which two runs go on at once
    MaxActs, MaxTicks   \* bounds: what people do, half minutes

ASSUME SourcesAssumption ==
    /\ PageSize \in Nat \ {0} /\ Interval \in Nat \ {0} /\ Created \in Nat /\ "worker" \in Poll
    /\ \A r \in Rules : r.source \in {"github_pr_review", "github_pr_mention", "jira_assignee", "jira_mention", "jira_status", "timer"}

VARIABLES
    watch,          \* the delegation
    account,        \* who its connection signs in as, "" when it cannot
    thing,          \* the pull request or issue
    comments,       \* its comments
    tick, due,      \* time, next_run_at
    poll,           \* each run: where it is and what it has read
    work,           \* what was started
    taskRuns,       \* a task of the timer is active
    acts,           \* what people did so far
    amiss           \* history: what an undisturbed run missed or started unasked

srcVars == <<watch, account, thing, comments, tick, due, poll, work, taskRuns, acts, amiss>>

Accounts == {"me", "me2"}
\* "@me2" holds "@me": the text of a comment is searched for the account's name.
ReadsAs(mentions, login) == login \in mentions \/ (login = "me" /\ "me2" \in mentions)
\* A Jira account is mentioned by its name or by its id.
IdOf     == [a \in Accounts |-> IF a = "me" THEN "#1" ELSE "#2"]

GitHub   == {"github_pr_review", "github_pr_mention"}
Jira     == {"jira_assignee", "jira_mention", "jira_status"}
\* Beside its moves a thing keeps who was asked to review which head, and who it was assigned to.
Chronicled(t) == [t EXCEPT !.log = @ \cup (t.asked \X {t.head}) \cup (({t.assignee} \cap Accounts) \X {0})]
NoPoll == [at |-> "idle", login |-> "", since |-> 0, acts |-> 0, seen |-> {}, items |-> {}]
SrcInit ==
    /\ watch \in Rules /\ account = "me"
    /\ \E asked \in {{}, {"me"}}, draft \in BOOLEAN :
         /\ watch.source # "github_pr_review" => asked = {} /\ ~draft
         /\ thing = Chronicled([open |-> TRUE, place |-> "here", labels |-> {}, draft |-> draft, head |-> 1, asked |-> asked,
                            status |-> "todo", moves |-> {}, assignee |-> "", log |-> {}])
    /\ comments \in {<<>>} \cup {<<[author |-> "u", mentions |-> {a}, marked |-> FALSE]>> : a \in Accounts}
    /\ watch.source \notin {"github_pr_mention", "jira_mention"} => comments = <<>>
    /\ tick = (IF watch.source = "jira_status" THEN 0 ELSE Created) /\ due = Created + Interval /\ poll = [p \in Poll |-> NoPoll]
    /\ work = {} /\ taskRuns = FALSE /\ acts = 0 /\ amiss = {}

-----------------------------------------------------------------------------
(* People.                                                                 *)

Acts == acts < MaxActs /\ acts' = acts + 1
Happens(new) == /\ Acts /\ thing' = Chronicled(new)
                /\ UNCHANGED <<watch, account, comments, tick, due, poll, work, taskRuns, amiss>>
Review == watch.source = "github_pr_review"
Push(h)      == Review /\ thing.head # h /\ Happens([thing EXCEPT !.head = h])
AskReview(who) == Review /\ Happens([thing EXCEPT !.asked = IF who \in @ THEN @ \ {who} ELSE @ \cup {who}])
Draft        == Review /\ Happens([thing EXCEPT !.draft = ~@])
CloseIt      == thing.open /\ watch.source \in GitHub /\ Happens([thing EXCEPT !.open = FALSE])
Retarget     == watch.source # "timer" /\ Happens([thing EXCEPT !.place = IF @ = "here" THEN "there" ELSE "here"])
Label(l)     == watch.source # "timer" /\ Happens([thing EXCEPT !.labels = IF l \in @ THEN @ \ {l} ELSE @ \cup {l}])
Assign(a)    == watch.source = "jira_assignee" /\ thing.assignee # a /\ Happens([thing EXCEPT !.assignee = a])
Move(s)      == /\ watch.source = "jira_status" /\ thing.status # s /\ \A m \in thing.moves : m.at < tick
                /\ Happens([thing EXCEPT !.status = s, !.moves = @ \cup {[to |-> s, at |-> tick]}])

Mentioned == {"me", "me2", "#1"}
Comment(author, mentions) ==
    /\ watch.source \in {"github_pr_mention", "jira_mention"} /\ Acts
    /\ comments' = Append(comments, [author |-> author, mentions |-> mentions, marked |-> FALSE])
    /\ UNCHANGED <<watch, account, thing, tick, due, poll, work, taskRuns, amiss>>

\* The answer carries the delegation's marker; on GitHub it quotes the comment it answers
\* and names its author.
Reply(w) ==
    /\ w \in work /\ w.key[1] \in {"github_pr_mention", "jira_mention"} /\ account # "" /\ Acts
    /\ LET c == comments[w.key[2]] IN
       \E other \in IF w.key[1] = "jira_mention" THEN SUBSET {"me2"} ELSE {c.mentions \cup {c.author}} :
         comments' = Append(comments, [author |-> account, mentions |-> other, marked |-> TRUE])
    /\ UNCHANGED <<watch, account, thing, tick, due, poll, work, taskRuns, amiss>>

\* The member's connection gets the token of another account, or none.
SignAs(a) == /\ a # account /\ watch.source # "timer" /\ Acts /\ account' = a
             /\ UNCHANGED <<watch, thing, comments, tick, due, poll, work, taskRuns, amiss>>
TaskEnds  == taskRuns /\ taskRuns' = FALSE /\ UNCHANGED <<watch, account, thing, comments, tick, due, poll, work, acts, amiss>>
\* Time matters to a timer and to the entry into a status.
HalfMinute == /\ tick < MaxTicks /\ tick' = tick + 1 /\ watch.source \in {"timer", "jira_status"}
              /\ UNCHANGED <<watch, account, thing, comments, due, poll, work, taskRuns, acts, amiss>>

-----------------------------------------------------------------------------
(* What a reading of the thing finds.                                      *)

\* status CHANGED TO (...) AFTER -<minutes since the delegation was made, and one>m.
EntryWindow(since) == 2 * ((since - Created) \div 2 + 1)
Entered(t, statuses) == {m.at : m \in {n \in t.moves : n.to \in statuses}}
Recently(t, since) == \E at \in Entered(t, watch.wants.statuses) : at > tick - EntryWindow(since)

\* The search: open pull requests only, and of the conditions those a query can tell.
Found(t, login, since) ==
    /\ watch.wants.place \in {"", t.place}
    /\ CASE watch.source = "github_pr_review"  -> t.open /\ (login \in t.asked \/ "team" \in t.asked)
         [] watch.source = "github_pr_mention" -> t.open /\ \E i \in DOMAIN comments : login \in comments[i].mentions
         [] watch.source = "jira_assignee"     -> t.assignee = login
         [] watch.source = "jira_mention"      -> \E i \in DOMAIN comments : login \in comments[i].mentions
         [] watch.source = "jira_status"       -> t.status \in watch.wants.statuses /\ Recently(t, since)

\* The conditions, once what was found is read.
Matches(t) == /\ watch.wants.place \in {"", t.place}
              /\ watch.wants.labels \subseteq t.labels /\ "no" \notin t.labels
              /\ t.draft => watch.wants.drafts

\* Somebody else's comment that reads as naming the account.
Calls(c, login) ==
    c.author # login /\ (ReadsAs(c.mentions, login) \/ (watch.source \in Jira /\ IdOf[login] \in c.mentions))
\* Mutant: the delegations' own answers are read like anybody's.
AnyMention(c, login) == Calls(c, login)
ForeignMention(c, login) == ~c.marked /\ Calls(c, login)

\* The keys: a head once, a comment once, an issue assigned once ever, and a status once
\* for each time it was entered.
MentionKeys(t, login, page) == {<<watch.source, i>> : i \in {j \in 1..page : ForeignMention(comments[j], login)}}
Keys(t, login) ==
    CASE watch.source = "github_pr_review"  -> IF login \in t.asked THEN {<<watch.source, t.head>>} ELSE {}
      [] watch.source = "github_pr_mention" -> MentionKeys(t, login, IF Len(comments) < PageSize THEN Len(comments) ELSE PageSize)
      [] watch.source = "jira_mention"      -> MentionKeys(t, login, Len(comments))
      [] watch.source = "jira_assignee"     -> {<<watch.source, 0>>}
      [] watch.source = "jira_status"       -> {<<watch.source, Max(Entered(t, watch.wants.statuses)), t.status>>}

-----------------------------------------------------------------------------
(* A run.                                                                  *)

PollAt(p, at)  == poll[p].at = at
MayRun(p)  == PollAt(p, "idle") /\ (watch.source \in Beside \/ \A q \in Poll : PollAt(q, "idle"))
Goes(p, r) == poll' = [poll EXCEPT ![p] = r]

\* Who the connection signs in as; without one, or when the call fails, the run fails.
StartPoll(p) ==
    /\ MayRun(p) /\ tick >= Created /\ watch.source # "timer"
    /\ Goes(p, [NoPoll EXCEPT !.at = IF account = "" THEN "fails" ELSE "search", !.login = account, !.since = tick, !.acts = acts])
    /\ UNCHANGED <<watch, account, thing, comments, tick, due, work, taskRuns, acts, amiss>>

\* A timer's item is its due time, or now when it is not due yet; a schedule that skips
\* while the last task is active starts nothing.
StartTimer(p) ==
    /\ MayRun(p) /\ watch.source = "timer" /\ (p = "worker" => due <= tick)
    /\ Goes(p, [NoPoll EXCEPT !.at = "record", !.since = tick, !.acts = acts,
                  !.items = IF watch.skips /\ taskRuns THEN {} ELSE {<<"timer", IF due <= tick THEN due ELSE tick>>}])
    /\ UNCHANGED <<watch, account, thing, comments, tick, due, work, taskRuns, acts, amiss>>

\* Jira's answer holds all a run reads; a pull request is read, and its comments, later.
Search(p) ==
    /\ PollAt(p, "search")
    /\ LET r == poll[p] IN
       Goes(p, IF ~Found(thing, r.login, r.since) THEN [r EXCEPT !.at = "record"]
               ELSE IF watch.source \in GitHub THEN [r EXCEPT !.at = "pull", !.seen = {thing}]
               ELSE [r EXCEPT !.at = "record", !.items = IF Matches(thing) THEN Keys(thing, r.login) ELSE {}])
    /\ UNCHANGED <<watch, account, thing, comments, tick, due, work, taskRuns, acts, amiss>>

\* Labels are the search's; the head, who is asked, the branch and the draft the pull's.
ReadPull(p) ==
    /\ PollAt(p, "pull")
    /\ LET r == poll[p]
           read == [thing EXCEPT !.labels = (CHOOSE t \in r.seen : TRUE).labels]
       IN  Goes(p, IF watch.source = "github_pr_mention" THEN [r EXCEPT !.at = "comments", !.seen = {read}]
                   ELSE [r EXCEPT !.at = "record", !.seen = {}, !.items = IF Matches(read) THEN Keys(read, r.login) ELSE {}])
    /\ UNCHANGED <<watch, account, thing, comments, tick, due, work, taskRuns, acts, amiss>>
ReadComments(p) ==
    /\ PollAt(p, "comments")
    /\ LET r == poll[p] IN
       Goes(p, [r EXCEPT !.at = "record", !.seen = {},
                         !.items = UNION {IF Matches(t) THEN Keys(t, r.login) ELSE {} : t \in r.seen}])
    /\ UNCHANGED <<watch, account, thing, comments, tick, due, work, taskRuns, acts, amiss>>

\* A call that fails ends the run with nothing started, however much it had found.
Fails(p) ==
    /\ poll[p].at \in {"search", "pull", "comments", "fails"}
    /\ Goes(p, NoPoll)
    /\ UNCHANGED <<watch, account, thing, comments, tick, due, work, taskRuns, acts, amiss>>

\* What people asked for, read off the thing in one look.
OnPage(i) == watch.source = "jira_mention" \/ i <= PageSize
Asked(login) ==
    IF watch.source = "timer" \/ ~Matches(thing) \/ (watch.source \in GitHub /\ ~thing.open) THEN {}
    ELSE CASE watch.source = "github_pr_review" -> {<<watch.source, thing.head>> : x \in thing.asked \cap {login}}
           [] watch.source = "jira_assignee"    -> {<<watch.source, 0>> : x \in {thing.assignee} \cap {login}}
           [] watch.source = "jira_status"      ->
                {<<watch.source, m.at, m.to>> : m \in {n \in thing.moves : n.at >= Created /\ n.to = thing.status
                     /\ n.to \in watch.wants.statuses /\ \A o \in thing.moves : o.at <= n.at}}
           [] OTHER -> {<<watch.source, i>> : i \in {j \in DOMAIN comments : OnPage(j) /\ ~comments[j].marked
                          /\ comments[j].author # login /\ login \in comments[j].mentions}}

Started(p, keys) == {[key |-> k, by |-> p, login |-> poll[p].login] : k \in {x \in keys : \A w \in work : w.key # x}}
Quiet(p)  == poll[p].acts = acts /\ poll[p].since = tick
Record(p) ==
    /\ PollAt(p, "record")
    /\ work' = work \cup Started(p, poll[p].items)
    /\ taskRuns' = (taskRuns \/ (watch.source = "timer" /\ Started(p, poll[p].items) # {}))
    /\ amiss' = IF Quiet(p) THEN amiss \cup (Asked(poll[p].login) \ {w.key : w \in work'}) ELSE amiss
    /\ due' = (IF watch.source = "timer" THEN tick + Interval ELSE due) /\ Goes(p, NoPoll)
    /\ UNCHANGED <<watch, account, thing, comments, tick, acts>>

PollStep(p) == StartPoll(p) \/ StartTimer(p) \/ Search(p) \/ ReadPull(p) \/ ReadComments(p) \/ Fails(p) \/ Record(p)
SrcNext ==
    \/ \E p \in Poll : PollStep(p)
    \/ \E w \in work : Reply(w)
    \/ \E h \in 1..2 : Push(h)
    \/ \E who \in {"me", "team"} : AskReview(who)
    \/ \E a \in Accounts \cup {""} : Assign(a) \/ SignAs(a)
    \/ \E s \in {"todo", "test", "done"} : Move(s)
    \/ \E author \in {"u", "me"}, mentions \in {{}} \cup {{m} : m \in Mentioned} : Comment(author, mentions)
    \/ \E l \in {"go", "no"} : Label(l)
    \/ Draft \/ CloseIt \/ Retarget \/ TaskEnds \/ HalfMinute

-----------------------------------------------------------------------------
\* Work has been asked for: of the account the run signed in as, a review of that very head or
\* the issue at some time; by a comment of somebody else that no delegation wrote and whose text
\* holds the account's name ("@me2" holds "@me"); by the entry into a status at that time, once.
\* Entries from before the delegation are not excluded, though _poll_jira_status says so: the
\* window is whole minutes, so it opens up to a minute earlier.  The timer's due times are an
\* interval apart.  A run that nothing disturbed leaves nothing out that stands, except in
\* comments behind the first PageSize of a pull request, which are never read.
WorkOf(source) == {w \in work : w.key[1] = source}
WorkIsWhatWasAsked ==
    /\ \A w \in WorkOf("github_pr_review") : <<w.login, w.key[2]>> \in thing.log
    /\ \A w \in WorkOf("jira_assignee") : <<w.login, 0>> \in thing.log
    /\ \A w \in WorkOf("github_pr_mention") \cup WorkOf("jira_mention") :
          ~comments[w.key[2]].marked /\ Calls(comments[w.key[2]], w.login)
    /\ \A v, w \in WorkOf("jira_status") : /\ v.key[2] = w.key[2] => v.key[3] = w.key[3]
                                          /\ [to |-> v.key[3], at |-> v.key[2]] \in thing.moves
                                          /\ v.key[2] > Created - 2
    /\ \A v, w \in WorkOf("timer") : v # w /\ v.by = "worker" /\ w.by = "worker" =>
          v.key[2] - w.key[2] >= Interval \/ w.key[2] - v.key[2] >= Interval
    /\ amiss = {}
=============================================================================
