-------------------------- MODULE Delegations_proofs ---------------------------
(***************************************************************************)
(* WorkIsWhatWasAsked and RuleStaysRunnable: what a delegation finds at    *)
(* its source, and what its form lets it be, for all rules, events and     *)
(* requests.                                                               *)
(***************************************************************************)
EXTENDS DelegationSources, DelegationForm, WellFoundedInduction, TLAPS

-----------------------------------------------------------------------------
(* What a delegation finds.  Comments are only ever added, moves of a      *)
(* status have moments of their own, and a run during which nobody did     *)
(* anything still knows the thing as it is.                                *)

SrcSpec == SrcInit /\ [][SrcNext]_srcVars

Remark == [author : {"u"} \cup Accounts, mentions : SUBSET ({"u", "#1"} \cup Accounts), marked : BOOLEAN]
Aspects == {"open", "place", "labels", "draft", "head", "asked", "status", "moves", "assignee", "log"}
SrcTypes == /\ watch \in Rules /\ account \in Accounts \cup {""} /\ comments \in Seq(Remark)
            /\ thing = [c \in DOMAIN thing |-> thing[c]] /\ Aspects \subseteq DOMAIN thing
            /\ tick \in Nat /\ due \in Nat /\ acts \in Nat /\ DOMAIN poll = Poll
MovesOk == /\ \A m \in thing.moves : m.at \in Nat /\ m.at <= tick
           /\ \A m, n \in thing.moves : m.at = n.at => m = n
           /\ thing.moves # {} => \E m \in thing.moves : m.to = thing.status /\ \A n \in thing.moves : n.at <= m.at
           /\ \A m \in thing.moves : m = [to |-> m.to, at |-> m.at]
LogOk == /\ \A who \in thing.asked : <<who, thing.head>> \in thing.log
         /\ thing.assignee \in Accounts => <<thing.assignee, 0>> \in thing.log
Mentions == {"github_pr_mention", "jira_mention"}
Names(k, login) == k[2] \in 1..Len(comments) /\ ~comments[k[2]].marked /\ Calls(comments[k[2]], login)
Entry(k) == k[2] > Created - 2 /\ \E m \in thing.moves : k[2] = m.at /\ k[3] = m.to
KeyOk(k, login) ==
    /\ k[1] = watch.source
    /\ watch.source = "github_pr_review" => <<login, k[2]>> \in thing.log
    /\ watch.source = "jira_assignee" => <<login, 0>> \in thing.log
    /\ watch.source \in Mentions => Names(k, login)
    /\ watch.source = "jira_status" => Entry(k)
    /\ watch.source = "timer" => k[2] \in Nat /\ k[2] <= tick
Apart(v, w) == v.key[2] - w.key[2] >= Interval \/ w.key[2] - v.key[2] >= Interval
TimerOk == watch.source = "timer" =>
    /\ \A w \in work : w.by = "worker" => w.key[2] + Interval <= due /\ \A k \in poll["worker"].items : w.key[2] + Interval <= k[2]
    /\ \A v, w \in work : v # w /\ v.by = "worker" /\ w.by = "worker" => Apart(v, w)
RunTypes(r) == /\ r = [c \in DOMAIN NoPoll |-> r[c]] /\ r.acts \in Nat /\ r.acts <= acts /\ r.since \in Nat /\ r.since <= tick
               /\ \A k \in r.items : KeyOk(k, r.login)
               /\ watch.source = "timer" => \A j, k \in r.items : j = k
               /\ r.at \in {"search", "pull", "comments"} => r.since >= Created /\ watch.source # "timer" /\ r.login \in Accounts
               /\ r.at = "pull" => watch.source \in GitHub
               /\ r.at = "comments" => watch.source = "github_pr_mention"
\* What a run knows while nobody did anything since it began.
Knows(r) == /\ r.at \in {"pull", "comments"} => r.seen = {thing}
            /\ r.at = "record" /\ r.since = tick => Asked(r.login) \subseteq r.items
SrcIInv == /\ SrcTypes /\ MovesOk /\ LogOk /\ (\A w \in work : KeyOk(w.key, w.login)) /\ TimerOk /\ amiss = {}
           /\ \A p \in Poll : RunTypes(poll[p]) /\ (poll[p].acts = acts => Knows(poll[p]))

LEMMA InvariantOfWork == SrcIInv => WorkIsWhatWasAsked
<1> SUFFICES ASSUME SrcIInv PROVE WorkIsWhatWasAsked  OBVIOUS
<1>0. \A w \in work : KeyOk(w.key, w.login) /\ w.key[1] = watch.source  BY DEF SrcIInv, KeyOk
<1>1. ASSUME NEW w \in WorkOf("github_pr_mention") \cup WorkOf("jira_mention")
      PROVE  ~comments[w.key[2]].marked /\ Calls(comments[w.key[2]], w.login)
  <2>1. w \in work /\ watch.source \in Mentions  BY <1>0 DEF WorkOf, Mentions
  <2> QED  BY <1>0, <2>1 DEF KeyOk, Names
<1>2. ASSUME NEW v \in WorkOf("jira_status"), NEW w \in WorkOf("jira_status")
      PROVE  /\ v.key[2] = w.key[2] => v.key[3] = w.key[3]
             /\ [to |-> v.key[3], at |-> v.key[2]] \in thing.moves
             /\ v.key[2] > Created - 2
  <2>1. v \in work /\ w \in work /\ watch.source = "jira_status"  BY <1>0 DEF WorkOf
  <2>2. Entry(v.key) /\ Entry(w.key)  BY <1>0, <2>1 DEF KeyOk
  <2>3. \A m, n \in thing.moves : m.at = n.at => m = n  BY DEF SrcIInv, MovesOk
  <2>4. \A m \in thing.moves : m = [to |-> m.to, at |-> m.at]  BY DEF SrcIInv, MovesOk
  <2>5. PICK m \in thing.moves : v.key[2] = m.at /\ v.key[3] = m.to  BY <2>2 DEF Entry
  <2>6. [to |-> v.key[3], at |-> v.key[2]] \in thing.moves  BY <2>4, <2>5
  <2> QED  BY <2>2, <2>3, <2>6 DEF Entry
<1>5. ASSUME NEW w \in WorkOf("github_pr_review") PROVE <<w.login, w.key[2]>> \in thing.log  BY <1>0 DEF WorkOf, KeyOk
<1>6. ASSUME NEW w \in WorkOf("jira_assignee") PROVE <<w.login, 0>> \in thing.log  BY <1>0 DEF WorkOf, KeyOk
<1>3. ASSUME NEW v \in WorkOf("timer"), NEW w \in WorkOf("timer"), v # w, v.by = "worker", w.by = "worker"
      PROVE  v.key[2] - w.key[2] >= Interval \/ w.key[2] - v.key[2] >= Interval
  <2>1. v \in work /\ w \in work /\ watch.source = "timer"  BY <1>0 DEF WorkOf
  <2> QED  BY <1>3, <2>1 DEF SrcIInv, TimerOk, Apart
<1>4. amiss = {}  BY DEF SrcIInv
<1> QED  BY <1>1, <1>2, <1>3, <1>4, <1>5, <1>6 DEF WorkIsWhatWasAsked

\* What a thing keeps of the past: nothing else changes, and what stands now is in it.
LEMMA LoggedKeeps ==
    ASSUME NEW t, t = [c \in DOMAIN t |-> t[c]], Aspects \subseteq DOMAIN t
    PROVE  /\ Chronicled(t) = [c \in DOMAIN t |-> Chronicled(t)[c]] /\ DOMAIN Chronicled(t) = DOMAIN t
           /\ \A c \in DOMAIN t : c # "log" => Chronicled(t)[c] = t[c]
           /\ Chronicled(t).moves = t.moves /\ Chronicled(t).status = t.status
           /\ t.log \subseteq Chronicled(t).log
           /\ \A who \in Chronicled(t).asked : <<who, Chronicled(t).head>> \in Chronicled(t).log
           /\ Chronicled(t).assignee \in Accounts => <<Chronicled(t).assignee, 0>> \in Chronicled(t).log
<1> DEFINE more == (t.asked \X {t.head}) \cup (({t.assignee} \cap Accounts) \X {0})
<1>1. Chronicled(t) = [t EXCEPT !.log = @ \cup more]  BY DEF Chronicled
<1>2. \A who \in t.asked : <<who, t.head>> \in more  OBVIOUS
<1>3. t.assignee \in Accounts => <<t.assignee, 0>> \in more  OBVIOUS
<1> HIDE DEF more
<1>4. DOMAIN Chronicled(t) = DOMAIN t /\ Chronicled(t) = [c \in DOMAIN t |-> Chronicled(t)[c]] /\ Chronicled(t).log = t.log \cup more
      /\ \A c \in DOMAIN t : c # "log" => Chronicled(t)[c] = t[c]
  BY <1>1 DEF Aspects
<1>5. /\ Chronicled(t).asked = t.asked /\ Chronicled(t).head = t.head /\ Chronicled(t).assignee = t.assignee
      /\ Chronicled(t).moves = t.moves /\ Chronicled(t).status = t.status
  BY <1>4 DEF Aspects
<1> QED  BY <1>2, <1>3, <1>4, <1>5

LEMMA SourcesStart == SrcInit => SrcIInv
<1> SUFFICES ASSUME SrcInit PROVE SrcIInv  OBVIOUS
<1>1. PICK asked \in {{}, {"me"}}, draft \in BOOLEAN :
        thing = Chronicled([open |-> TRUE, place |-> "here", labels |-> {}, draft |-> draft, head |-> 1, asked |-> asked,
                        status |-> "todo", moves |-> {}, assignee |-> "", log |-> {}])
  BY DEF SrcInit
<1> DEFINE blank == [open |-> TRUE, place |-> "here", labels |-> {}, draft |-> draft, head |-> 1, asked |-> asked,
                     status |-> "todo", moves |-> {}, assignee |-> "", log |-> {}]
<1>a. blank = [c \in DOMAIN blank |-> blank[c]] /\ Aspects \subseteq DOMAIN blank /\ blank.moves = {}  BY DEF Aspects
<1> HIDE DEF blank
<1>b. thing = Chronicled(blank)  BY <1>1 DEF blank
<1>2. thing = [c \in DOMAIN thing |-> thing[c]] /\ Aspects \subseteq DOMAIN thing /\ thing.moves = {} /\ LogOk
  BY <1>a, <1>b, LoggedKeeps DEF LogOk
<1>3. comments \in Seq(Remark)
  <2>1. \A a \in Accounts : [author |-> "u", mentions |-> {a}, marked |-> FALSE] \in Remark  BY DEF Remark
  <2>2. <<>> \in Seq(Remark) /\ \A r \in Remark : <<r>> \in Seq(Remark)  OBVIOUS
  <2> QED  BY <2>1, <2>2 DEF SrcInit
<1>4. tick \in Nat /\ due \in Nat /\ acts \in Nat /\ DOMAIN poll = Poll /\ watch \in Rules /\ account = "me" /\ work = {} /\ amiss = {}
      /\ \A p \in Poll : poll[p] = NoPoll
  <2>1. DOMAIN poll = Poll /\ \A p \in Poll : poll[p] = NoPoll  BY DEF SrcInit
  <2>0. Created \in Nat /\ Interval \in Nat  BY SourcesAssumption
  <2>2. acts = 0 /\ due = Created + Interval /\ tick \in {0, Created}  BY DEF SrcInit
  <2>3. tick \in Nat /\ due \in Nat /\ acts \in Nat  BY <2>0, <2>2
  <2> QED  BY <2>1, <2>3 DEF SrcInit
<1>5. SrcTypes  BY <1>2, <1>3, <1>4 DEF SrcTypes, Accounts
<1>6. MovesOk  BY <1>2 DEF MovesOk
<1>7. TimerOk  BY <1>4 DEF TimerOk
<1>8. RunTypes(NoPoll) /\ Knows(NoPoll)
  <2>1. acts = 0  BY DEF SrcInit
  <2>2. NoPoll = [c \in DOMAIN NoPoll |-> NoPoll[c]] /\ NoPoll.at = "idle" /\ NoPoll.acts = 0 /\ NoPoll.since = 0 /\ NoPoll.items = {}
    BY DEF NoPoll
  <2> QED  BY <1>4, <2>1, <2>2 DEF RunTypes, Knows
<1> QED  BY <1>2, <1>4, <1>5, <1>6, <1>7, <1>8 DEF SrcIInv

-----------------------------------------------------------------------------
(* People: what they do counts, so no run under way knows the thing any    *)
(* longer, and what was named stays named.                                 *)

LEMMA PeopleKeep ==
    ASSUME SrcIInv, acts' = acts + 1, UNCHANGED <<watch, tick, due, poll, work, amiss>>, SrcTypes', MovesOk', LogOk',
           thing.moves \subseteq thing'.moves, thing.log \subseteq thing'.log,
           \A i \in 1..Len(comments) : i \in 1..Len(comments') /\ comments'[i] = comments[i]
    PROVE  SrcIInv'
<1>1. watch' = watch /\ tick' = tick /\ due' = due /\ poll' = poll /\ work' = work /\ amiss' = amiss /\ acts \in Nat
  BY DEF SrcIInv, SrcTypes
<1>2. ASSUME NEW k, NEW login, KeyOk(k, login) PROVE (KeyOk(k, login))'
  <2>1. Names(k, login) => Names(k, login)'  BY <1>1 DEF Names, Calls
  <2>2. Entry(k) => Entry(k)'  BY DEF Entry
  <2> QED  BY <1>1, <1>2, <2>1, <2>2 DEF KeyOk
<1>3. TimerOk'  BY <1>1 DEF SrcIInv, TimerOk, Apart
<1>4. ASSUME NEW p \in Poll PROVE RunTypes(poll[p])' /\ (poll'[p].acts # acts')
  <2>1. RunTypes(poll[p])  BY DEF SrcIInv
  <2>2. poll[p].acts <= acts /\ poll[p].acts \in Nat  BY <2>1 DEF RunTypes
  <2>3. \A k \in poll[p].items : KeyOk(k, poll[p].login)'  BY <1>1, <1>2, <2>1 DEF RunTypes
  <2>4. acts' = acts + 1 /\ poll'[p] = poll[p]  BY <1>1
  <2>5. poll[p].acts <= acts' /\ poll[p].acts # acts'  BY <1>1, <2>2, <2>4
  <2> QED  BY <1>1, <2>1, <2>3, <2>4, <2>5 DEF RunTypes
<1>5. \A w \in work' : KeyOk(w.key, w.login)'  BY <1>1, <1>2 DEF SrcIInv
<1> QED  BY <1>1, <1>3, <1>4, <1>5 DEF SrcIInv

\* Whoever comments, the comments there were are where they were.
LEMMA CommentKeeps ==
    ASSUME SrcIInv, NEW c \in Remark, acts' = acts + 1, comments' = Append(comments, c),
           UNCHANGED <<watch, account, thing, tick, due, poll, work, amiss>>
    PROVE  SrcIInv'
<1>1. comments \in Seq(Remark)  BY DEF SrcIInv, SrcTypes
<1>2. comments' \in Seq(Remark) /\ \A i \in 1..Len(comments) : i \in 1..Len(comments') /\ comments'[i] = comments[i]
  BY <1>1
<1>3. watch' = watch /\ account' = account /\ thing' = thing /\ tick' = tick /\ due' = due /\ poll' = poll  OBVIOUS
<1>4. acts' \in Nat
  <2>1. acts \in Nat  BY DEF SrcIInv, SrcTypes
  <2> QED  BY <2>1
<1>5. SrcTypes'  BY <1>2, <1>3, <1>4 DEF SrcIInv, SrcTypes
<1>6. MovesOk' /\ LogOk'  BY <1>3 DEF SrcIInv, MovesOk, LogOk
<1> QED  BY <1>2, <1>3, <1>5, <1>6, PeopleKeep

LEMMA ThingKeeps ==
    ASSUME SrcIInv, NEW f \in DOMAIN thing, f \notin {"status", "moves", "log"}, NEW v, Happens([thing EXCEPT ![f] = v])
    PROVE  SrcIInv'
<1> DEFINE t == [thing EXCEPT ![f] = v]
<1>1. /\ acts' = acts + 1 /\ thing' = Chronicled(t) /\ comments' = comments
      /\ watch' = watch /\ account' = account /\ tick' = tick /\ due' = due /\ poll' = poll /\ work' = work /\ amiss' = amiss
  BY DEF Happens, Acts
<1>2. thing = [c \in DOMAIN thing |-> thing[c]] /\ Aspects \subseteq DOMAIN thing  BY DEF SrcIInv, SrcTypes
<1>3. /\ DOMAIN t = DOMAIN thing /\ t = [c \in DOMAIN t |-> t[c]]
      /\ t.moves = thing.moves /\ t.status = thing.status /\ t.log = thing.log
  BY <1>2 DEF Aspects
<1> HIDE DEF t
<1>4. /\ DOMAIN thing' = DOMAIN thing /\ thing' = [c \in DOMAIN thing' |-> thing'[c]]
      /\ thing'.moves = thing.moves /\ thing'.status = thing.status /\ thing.log \subseteq thing'.log /\ LogOk'
  BY <1>1, <1>2, <1>3, LoggedKeeps DEF LogOk
<1>5. SrcTypes'
  <2>1. acts \in Nat  BY DEF SrcIInv, SrcTypes
  <2>2. acts' \in Nat  BY <1>1, <2>1
  <2>3. Aspects \subseteq DOMAIN thing'  BY <1>2, <1>4
  <2> QED  BY <1>1, <1>4, <2>2, <2>3 DEF SrcIInv, SrcTypes
<1>6. MovesOk'  BY <1>1, <1>4 DEF SrcIInv, MovesOk
<1> QED  BY <1>1, <1>4, <1>5, <1>6, PeopleKeep

\* A move has a moment of its own and is the last.
LEMMA MoveKeeps ==
    ASSUME SrcIInv, NEW s, Move(s)
    PROVE  SrcIInv'
<1> DEFINE moved == [to |-> s, at |-> tick]
           t == [thing EXCEPT !.status = s, !.moves = @ \cup {moved}]
<1>1. /\ acts' = acts + 1 /\ thing' = Chronicled(t) /\ comments' = comments
      /\ watch' = watch /\ account' = account /\ tick' = tick /\ due' = due /\ poll' = poll /\ work' = work /\ amiss' = amiss
      /\ \A m \in thing.moves : m.at < tick
  BY DEF Move, Happens, Acts
<1>2. thing = [c \in DOMAIN thing |-> thing[c]] /\ Aspects \subseteq DOMAIN thing /\ tick \in Nat
  BY DEF SrcIInv, SrcTypes
<1>3. /\ DOMAIN thing' = DOMAIN thing /\ thing' = [c \in DOMAIN thing' |-> thing'[c]]
      /\ thing'.moves = thing.moves \cup {moved} /\ thing'.status = s /\ thing.log \subseteq thing'.log /\ LogOk'
  <2> HIDE DEF moved
  <2>1. /\ DOMAIN t = DOMAIN thing /\ t = [c \in DOMAIN t |-> t[c]]
        /\ t.moves = thing.moves \cup {moved} /\ t.status = s /\ t.log = thing.log
    BY <1>2 DEF Aspects
  <2> HIDE DEF t
  <2> QED  BY <1>1, <1>2, <2>1, LoggedKeeps DEF LogOk
<1> HIDE DEF t
<1>4. SrcTypes'
  <2>1. acts \in Nat  BY DEF SrcIInv, SrcTypes
  <2>2. acts' \in Nat  BY <1>1, <2>1
  <2>3. Aspects \subseteq DOMAIN thing'  BY <1>2, <1>3
  <2> QED  BY <1>1, <1>3, <2>2, <2>3 DEF SrcIInv, SrcTypes
<1>5. MovesOk'
  <2>1. moved.at = tick /\ moved.to = s /\ tick' = tick  BY <1>1
  <2>2. /\ \A m \in thing.moves : m.at \in Nat /\ m.at < tick
        /\ \A m, n \in thing.moves : m.at = n.at => m = n
        /\ \A m \in thing.moves : m = [to |-> m.to, at |-> m.at]
    BY <1>1 DEF SrcIInv, MovesOk
  <2>6. moved = [to |-> moved.to, at |-> moved.at]  OBVIOUS
  <2> HIDE DEF moved
  <2>3. \A m \in thing'.moves : m.at \in Nat /\ m.at <= tick  BY <1>2, <1>3, <2>1, <2>2
  <2>4. \A m, n \in thing'.moves : m.at = n.at => m = n  BY <1>2, <1>3, <2>1, <2>2
  <2>5. moved \in thing'.moves /\ moved.to = thing'.status /\ \A n \in thing'.moves : n.at <= moved.at  BY <1>3, <2>1, <2>3
  <2>7. \A m \in thing'.moves : m = [to |-> m.to, at |-> m.at]  BY <1>3, <2>2, <2>6
  <2> QED  BY <2>1, <2>3, <2>4, <2>5, <2>7 DEF MovesOk
<1> QED  BY <1>1, <1>3, <1>4, <1>5, PeopleKeep

LEMMA ActsCount == SrcIInv => acts + 1 \in Nat
<1>1. SrcIInv => acts \in Nat  BY DEF SrcIInv, SrcTypes
<1> QED  BY <1>1

LEMMA SignKeeps ==
    ASSUME SrcIInv, NEW a \in Accounts \cup {""}, SignAs(a)
    PROVE  SrcIInv'
<1>1. /\ acts' = acts + 1 /\ account' = a /\ thing' = thing /\ comments' = comments
      /\ watch' = watch /\ tick' = tick /\ due' = due /\ poll' = poll /\ work' = work /\ amiss' = amiss
  BY DEF SignAs, Acts
<1>2. acts' \in Nat
  <2>1. acts' = acts + 1  BY <1>1
  <2> QED  BY <2>1, ActsCount, Zenon
<1>3. SrcTypes'  BY <1>1, <1>2 DEF SrcIInv, SrcTypes
<1>4. MovesOk' /\ LogOk'  BY <1>1 DEF SrcIInv, MovesOk, LogOk
<1> QED  BY <1>1, <1>3, <1>4, PeopleKeep

\* An answer names who asked, or in Jira whomever its text names.
LEMMA ReplyKeeps ==
    ASSUME SrcIInv, NEW w \in work, Reply(w)
    PROVE  SrcIInv'
<1> DEFINE c == comments[w.key[2]]
<1>1. PICK other \in IF w.key[1] = "jira_mention" THEN SUBSET {"me2"} ELSE {c.mentions \cup {c.author}} :
        comments' = Append(comments, [author |-> account, mentions |-> other, marked |-> TRUE])
  BY DEF Reply
<1>2. /\ account # "" /\ acts' = acts + 1 /\ w.key[1] \in Mentions
      /\ UNCHANGED <<watch, account, thing, tick, due, poll, work, amiss>>
  BY DEF Reply, Acts, Mentions
<1>3. account \in Accounts /\ comments \in Seq(Remark)  BY <1>2 DEF SrcIInv, SrcTypes
<1>4. w.key[2] \in 1..Len(comments)  BY <1>2 DEF SrcIInv, KeyOk, Names
<1>5. c \in Remark  BY <1>3, <1>4
<1>6. other \subseteq {"u", "#1"} \cup Accounts
  <2>1. c.mentions \subseteq {"u", "#1"} \cup Accounts /\ c.author \in {"u"} \cup Accounts  BY <1>5 DEF Remark
  <2> HIDE DEF c
  <2> QED  BY <1>1, <2>1 DEF Accounts
<1>7. [author |-> account, mentions |-> other, marked |-> TRUE] \in Remark  BY <1>3, <1>6 DEF Remark
<1> QED  BY <1>1, <1>2, <1>7, CommentKeeps

LEMMA CommentsKeep ==
    ASSUME SrcIInv, NEW author \in {"u", "me"}, NEW mentions \in {{}} \cup {{m} : m \in Mentioned}, Comment(author, mentions)
    PROVE  SrcIInv'
<1>1. mentions \subseteq {"u", "#1"} \cup Accounts  BY DEF Mentioned, Accounts
<1>2. [author |-> author, mentions |-> mentions, marked |-> FALSE] \in Remark  BY <1>1 DEF Remark, Accounts
<1> QED  BY <1>2, CommentKeeps DEF Comment, Acts

LEMMA HalfMinuteKeeps ==
    ASSUME SrcIInv, HalfMinute
    PROVE  SrcIInv'
<1>1. /\ tick' = tick + 1 /\ tick \in Nat
      /\ watch' = watch /\ account' = account /\ thing' = thing /\ comments' = comments /\ due' = due /\ poll' = poll /\ work' = work
      /\ acts' = acts /\ amiss' = amiss
  BY DEF HalfMinute, SrcIInv, SrcTypes
<1>2. SrcTypes'
  <2>1. tick' \in Nat  BY <1>1
  <2> QED  BY <1>1, <2>1 DEF SrcIInv, SrcTypes
<1>3. MovesOk'
  <2>1. \A m \in thing.moves : m.at \in Nat /\ m.at <= tick'  BY <1>1 DEF SrcIInv, MovesOk
  <2> QED  BY <1>1, <2>1 DEF SrcIInv, MovesOk
<1>4. ASSUME NEW k, NEW login, KeyOk(k, login) PROVE KeyOk(k, login)'
  <2>1. watch.source = "timer" => k[2] \in Nat /\ k[2] <= tick'  BY <1>1, <1>4 DEF KeyOk
  <2> QED  BY <1>1, <1>4, <2>1 DEF KeyOk, Names, Calls, Entry
<1>8. LogOk'  BY <1>1 DEF SrcIInv, LogOk
<1>5. TimerOk'  BY <1>1 DEF SrcIInv, TimerOk, Apart
<1>6. ASSUME NEW p \in Poll PROVE (RunTypes(poll[p]) /\ (poll[p].acts = acts => Knows(poll[p])))'
  <2>1. RunTypes(poll[p]) /\ (poll[p].acts = acts => Knows(poll[p]))  BY DEF SrcIInv
  <2>2. poll[p].since \in Nat /\ poll[p].since <= tick  BY <2>1 DEF RunTypes
  <2>3. poll[p].since <= tick' /\ poll[p].since # tick'  BY <1>1, <2>2
  <2>4. \A k \in poll[p].items : KeyOk(k, poll[p].login)'  BY <1>1, <1>4, <2>1 DEF RunTypes
  <2>5. RunTypes(poll[p])'  BY <1>1, <2>1, <2>3, <2>4 DEF RunTypes
  <2>6. (poll[p].acts = acts => Knows(poll[p]))'  BY <1>1, <2>1, <2>3 DEF Knows
  <2> QED  BY <2>5, <2>6
<1>7. \A w \in work' : KeyOk(w.key, w.login)'  BY <1>1, <1>4 DEF SrcIInv
<1> QED  BY <1>1, <1>2, <1>3, <1>5, <1>6, <1>7, <1>8 DEF SrcIInv

-----------------------------------------------------------------------------
(* A run.                                                                  *)

\* A step of one run: what it holds is well formed, and knows the thing when nobody did anything.
LEMMA RunKeeps ==
    ASSUME SrcIInv, NEW p \in Poll, NEW r, poll' = [poll EXCEPT ![p] = r], UNCHANGED <<watch, account, thing, comments, tick, due, work, acts, amiss>>,
           RunTypes(r), r.acts = acts => Knows(r),
           watch.source = "timer" /\ p = "worker" => \A w \in work : w.by = "worker" => \A k \in r.items : w.key[2] + Interval <= k[2]
    PROVE  SrcIInv'
<1>1. /\ watch' = watch /\ account' = account /\ thing' = thing /\ comments' = comments /\ tick' = tick /\ due' = due /\ work' = work
      /\ acts' = acts /\ amiss' = amiss
  OBVIOUS
<1>2. DOMAIN poll = Poll  BY DEF SrcIInv, SrcTypes
<1>3. DOMAIN poll' = Poll /\ poll'[p] = r /\ \A q \in Poll : q # p => poll'[q] = poll[q]  BY <1>2
<1>4. SrcTypes'  BY <1>1, <1>3 DEF SrcIInv, SrcTypes
<1>5. MovesOk' /\ LogOk'  BY <1>1 DEF SrcIInv, MovesOk, LogOk
<1>6. ASSUME NEW k, NEW login PROVE KeyOk(k, login)' <=> KeyOk(k, login)  BY <1>1 DEF KeyOk, Names, Calls, Entry
<1>7. ASSUME NEW q \in Poll PROVE (RunTypes(poll[q]) /\ (poll[q].acts = acts => Knows(poll[q])))'
  <2>1. RunTypes(poll'[q]) /\ (poll'[q].acts = acts => Knows(poll'[q]))  BY <1>3 DEF SrcIInv
  <2>2. \A k \in poll'[q].items : KeyOk(k, poll[q].login)'  BY <1>6, <2>1 DEF RunTypes
  <2>3. RunTypes(poll[q])'  BY <1>1, <2>1, <2>2 DEF RunTypes
  <2>4. Knows(poll'[q]) => Knows(poll[q])'  BY <1>1 DEF Knows, Asked, Matches, OnPage
  <2> QED  BY <1>1, <2>1, <2>3, <2>4
<1>8. TimerOk'
  <2>1. watch.source = "timer" => \A w \in work : w.by = "worker" => \A k \in poll'["worker"].items : w.key[2] + Interval <= k[2]
    BY <1>3, SourcesAssumption DEF SrcIInv, TimerOk
  <2> QED  BY <1>1, <2>1 DEF SrcIInv, TimerOk, Apart
<1>9. \A w \in work' : KeyOk(w.key, w.login)'  BY <1>1, <1>6 DEF SrcIInv
<1> QED  BY <1>1, <1>4, <1>5, <1>7, <1>8, <1>9 DEF SrcIInv

\* The newest entry into the statuses is the last move, when the issue is in one of them.
LEMMA LastEntry ==
    ASSUME SrcIInv, NEW statuses, thing.status \in statuses, Entered(thing, statuses) # {}
    PROVE  \E m \in thing.moves : /\ m.to = thing.status /\ Max(Entered(thing, statuses)) = m.at /\ m.at \in Nat
                                  /\ \A n \in thing.moves : n.at <= m.at
<1>1. thing.moves # {}  BY DEF Entered
<1>2. PICK m \in thing.moves : m.to = thing.status /\ \A n \in thing.moves : n.at <= m.at  BY <1>1 DEF SrcIInv, MovesOk
<1>3. m.at \in Entered(thing, statuses)  BY <1>2 DEF Entered
<1>4. \A n \in thing.moves : n.at \in Nat  BY DEF SrcIInv, MovesOk
<1>5. Entered(thing, statuses) \subseteq Nat /\ \A at \in Entered(thing, statuses) : at <= m.at  BY <1>2, <1>4 DEF Entered
<1>6. ASSUME NEW S \in SUBSET Nat, NEW top \in S, \A at \in S : at <= top PROVE Max(S) = top
  <2>1. \A x \in S : (\A y \in S : x >= y) => x = top
    <3> SUFFICES ASSUME NEW x \in S, \A y \in S : x >= y PROVE x = top  OBVIOUS
    <3>1. x \in Nat /\ top \in Nat /\ x >= top /\ x <= top  BY <1>6
    <3> QED  BY <3>1
  <2>2. \A y \in S : top >= y  BY <1>6
  <2> QED  BY <1>6, <2>1, <2>2 DEF Max
<1>7. Max(Entered(thing, statuses)) = m.at  BY <1>3, <1>5, <1>6
<1> QED  BY <1>2, <1>4, <1>7

\* The window of the search opens a minute before the delegation was made, at the earliest, and never
\* after it was made.
LEMMA WindowOpens ==
    ASSUME NEW since \in Nat, since >= Created
    PROVE  /\ EntryWindow(since) \in Nat /\ EntryWindow(since) <= since - Created + 2 /\ EntryWindow(since) > since - Created
<1>1. Created \in Nat  BY SourcesAssumption
<1> QED  BY <1>1 DEF EntryWindow

LEMMA Lengths == SrcIInv => Len(comments) \in Nat /\ PageSize \in Nat /\ DOMAIN comments = 1..Len(comments)
<1> SUFFICES ASSUME SrcIInv PROVE Len(comments) \in Nat /\ PageSize \in Nat /\ DOMAIN comments = 1..Len(comments)  OBVIOUS
<1>1. comments \in Seq(Remark)  BY DEF SrcIInv, SrcTypes
<1>2. PageSize \in Nat  BY SourcesAssumption
<1> QED  BY <1>1, <1>2

\* Every key of what a run read names what was asked for.
LEMMA KeysName ==
    ASSUME SrcIInv, NEW t, NEW login \in Accounts, watch.source # "timer",
           watch.source = "github_pr_review" => t.asked = thing.asked /\ t.head = thing.head,
           watch.source = "jira_assignee" => thing.assignee = login,
           watch.source = "jira_status" => t = thing /\ \E since \in Nat : since >= Created /\ since <= tick /\ Found(thing, login, since)
    PROVE  \A k \in Keys(t, login) : KeyOk(k, login)
<1>1. watch.source \in {"github_pr_review", "github_pr_mention", "jira_assignee", "jira_mention", "jira_status"}
  BY SourcesAssumption DEF SrcIInv, SrcTypes
<1>2. Len(comments) \in Nat /\ PageSize \in Nat  BY Lengths
<1>3. CASE watch.source = "github_pr_review"
  <2>1. \A k \in Keys(t, login) : k = <<watch.source, thing.head>> /\ login \in thing.asked  BY <1>3 DEF Keys
  <2> QED  BY <1>3, <2>1 DEF SrcIInv, LogOk, KeyOk, Mentions
<1>4. CASE watch.source = "jira_assignee"
  <2>1. \A k \in Keys(t, login) : k = <<watch.source, 0>> /\ <<login, 0>> \in thing.log  BY <1>4 DEF Keys, SrcIInv, LogOk
  <2> QED  BY <1>4, <2>1 DEF KeyOk, Mentions
<1>5. ASSUME NEW page \in 0..Len(comments), watch.source \in Mentions, NEW k \in MentionKeys(t, login, page) PROVE KeyOk(k, login)
  <2>1. PICK j \in 1..page : ForeignMention(comments[j], login) /\ k = <<watch.source, j>>  BY <1>5 DEF MentionKeys
  <2>2. ~comments[j].marked /\ Calls(comments[j], login)  BY <2>1 DEF ForeignMention
  <2>3. j \in 1..Len(comments) /\ k[1] = watch.source /\ k[2] = j  BY <1>2, <2>1
  <2> QED  BY <1>5, <2>2, <2>3 DEF KeyOk, Names, Mentions
<1>6. CASE watch.source = "github_pr_mention"
  <2>1. Keys(t, login) = MentionKeys(t, login, IF Len(comments) < PageSize THEN Len(comments) ELSE PageSize)  BY <1>6 DEF Keys
  <2>2. (IF Len(comments) < PageSize THEN Len(comments) ELSE PageSize) \in 0..Len(comments)  BY <1>2
  <2> QED  BY <1>5, <1>6, <2>1, <2>2 DEF Mentions
<1>7. CASE watch.source = "jira_mention"
  <2>1. Keys(t, login) = MentionKeys(t, login, Len(comments))  BY <1>7 DEF Keys
  <2> QED  BY <1>2, <1>5, <1>7, <2>1 DEF Mentions
<1>8. CASE watch.source = "jira_status"
  <2>1. PICK since \in Nat : since >= Created /\ since <= tick /\ Found(thing, login, since)  BY <1>8
  <2>2. t = thing /\ thing.status \in watch.wants.statuses /\ Recently(thing, since)  BY <1>8, <2>1 DEF Found
  <2>3. PICK at \in Entered(thing, watch.wants.statuses) : at > tick - EntryWindow(since)  BY <2>2 DEF Recently
  <2>4. PICK m \in thing.moves : /\ m.to = thing.status /\ Max(Entered(thing, watch.wants.statuses)) = m.at /\ m.at \in Nat
                                 /\ \A n \in thing.moves : n.at <= m.at
    BY <2>2, <2>3, LastEntry
  <2>5. at \in Nat /\ at <= m.at  BY <2>3, <2>4 DEF Entered, SrcIInv, MovesOk
  <2>6. tick \in Nat /\ Created \in Nat  BY SourcesAssumption DEF SrcIInv, SrcTypes
  <2>7. m.at > Created - 2  BY <2>1, <2>3, <2>4, <2>5, <2>6, WindowOpens
  <2>8. Keys(t, login) = {<<watch.source, m.at, m.to>>}  BY <1>8, <2>2, <2>4 DEF Keys
  <2> QED  BY <1>8, <2>7, <2>8 DEF KeyOk, Entry, Mentions
<1> QED  BY <1>1, <1>3, <1>4, <1>6, <1>7, <1>8

\* What was asked for is found by a search of this moment, and is among its keys.
LEMMA AskedIsFound ==
    ASSUME SrcIInv, NEW login, tick >= Created, NEW k \in Asked(login)
    PROVE  watch.source # "timer" /\ Matches(thing) /\ Found(thing, login, tick) /\ k \in Keys(thing, login)
<1>0. /\ watch.source # "timer" /\ Matches(thing) /\ watch.wants.place \in {"", thing.place}
      /\ watch.source \in GitHub => thing.open
  BY DEF Asked, Matches
<1>1. watch.source \in {"github_pr_review", "github_pr_mention", "jira_assignee", "jira_mention", "jira_status"}
  BY <1>0, SourcesAssumption DEF SrcIInv, SrcTypes
<1>2. Len(comments) \in Nat /\ PageSize \in Nat /\ DOMAIN comments = 1..Len(comments)  BY Lengths
<1>3. CASE watch.source = "github_pr_review"
  <2>1. k = <<watch.source, thing.head>> /\ login \in thing.asked  BY <1>0, <1>3 DEF Asked
  <2> QED  BY <1>0, <1>3, <2>1 DEF Found, Keys, GitHub
<1>4. CASE watch.source = "jira_assignee"
  <2>1. k = <<watch.source, 0>> /\ login = thing.assignee  BY <1>0, <1>4 DEF Asked, GitHub
  <2> QED  BY <1>0, <1>4, <2>1 DEF Found, Keys
<1>5. CASE watch.source \in Mentions
  <2>1. PICK j \in DOMAIN comments : /\ k = <<watch.source, j>> /\ OnPage(j) /\ ~comments[j].marked /\ comments[j].author # login
                                     /\ login \in comments[j].mentions
    BY <1>0, <1>5 DEF Asked, GitHub, Mentions
  <2>2. ForeignMention(comments[j], login)  BY <2>1 DEF ForeignMention, Calls, ReadsAs
  <2>3. CASE watch.source = "github_pr_mention"
    <3>1. j <= PageSize  BY <2>1, <2>3 DEF OnPage
    <3>2. j \in 1..(IF Len(comments) < PageSize THEN Len(comments) ELSE PageSize)  BY <1>2, <2>1, <3>1
    <3>3. k \in Keys(thing, login)  BY <2>1, <2>2, <2>3, <3>2 DEF Keys, MentionKeys
    <3> QED  BY <1>0, <2>1, <2>3, <3>3 DEF Found, GitHub
  <2>4. CASE watch.source = "jira_mention"
    <3>1. k \in Keys(thing, login)  BY <1>2, <2>1, <2>2, <2>4 DEF Keys, MentionKeys
    <3> QED  BY <1>0, <2>1, <2>4, <3>1 DEF Found
  <2> QED  BY <1>5, <2>3, <2>4 DEF Mentions
<1>6. CASE watch.source = "jira_status"
  <2>1. PICK m \in thing.moves : /\ k = <<watch.source, m.at, m.to>> /\ m.at >= Created /\ m.to = thing.status
                                 /\ m.to \in watch.wants.statuses /\ \A o \in thing.moves : o.at <= m.at
    BY <1>0, <1>6 DEF Asked, GitHub
  <2>2. m.at \in Entered(thing, watch.wants.statuses)  BY <2>1 DEF Entered
  <2>3. PICK n \in thing.moves : /\ n.to = thing.status /\ Max(Entered(thing, watch.wants.statuses)) = n.at /\ n.at \in Nat
                                 /\ \A o \in thing.moves : o.at <= n.at
    BY <2>1, <2>2, LastEntry
  <2>4. m.at \in Nat /\ tick \in Nat /\ Created \in Nat  BY SourcesAssumption DEF SrcIInv, MovesOk, SrcTypes
  <2>5. m.at <= n.at /\ n.at <= m.at  BY <2>1, <2>3
  <2>6. m.at = n.at  BY <2>3, <2>4, <2>5
  <2>7. m.at > tick - EntryWindow(tick)  BY <2>1, <2>4, WindowOpens
  <2>8. Recently(thing, tick)  BY <2>2, <2>7 DEF Recently
  <2>9. k \in Keys(thing, login)  BY <1>6, <2>1, <2>3, <2>6 DEF Keys
  <2> QED  BY <1>0, <1>6, <2>1, <2>8, <2>9 DEF Found
<1> QED  BY <1>0, <1>1, <1>3, <1>4, <1>5, <1>6 DEF Mentions

LEMMA IdleRun == SrcIInv => RunTypes(NoPoll) /\ Knows(NoPoll)
<1> SUFFICES ASSUME SrcIInv PROVE RunTypes(NoPoll) /\ Knows(NoPoll)  OBVIOUS
<1>1. acts \in Nat /\ tick \in Nat  BY DEF SrcIInv, SrcTypes
<1>2. NoPoll = [c \in DOMAIN NoPoll |-> NoPoll[c]] /\ NoPoll.at = "idle" /\ NoPoll.acts = 0 /\ NoPoll.since = 0 /\ NoPoll.items = {}
  BY DEF NoPoll
<1> QED  BY <1>1, <1>2 DEF RunTypes, Knows

LEMMA StartPollKeeps ==
    ASSUME SrcIInv, NEW p \in Poll, StartPoll(p)
    PROVE  SrcIInv'
<1> DEFINE r == [NoPoll EXCEPT !.at = IF account = "" THEN "fails" ELSE "search", !.login = account, !.since = tick, !.acts = acts]
<1>1. /\ poll' = [poll EXCEPT ![p] = r] /\ UNCHANGED <<watch, account, thing, comments, tick, due, work, acts, amiss>>
      /\ tick >= Created /\ watch.source # "timer"
  BY DEF StartPoll, Goes
<1>2. r = [c \in DOMAIN NoPoll |-> r[c]] /\ r.at \in {"fails", "search"} /\ r.since = tick /\ r.acts = acts /\ r.items = {}
      /\ r.login = account /\ (r.at = "search" => account # "")
  BY DEF NoPoll
<1> HIDE DEF r
<1>5. r.at = "search" => r.login \in Accounts
  <2>1. account \in Accounts \cup {""}  BY DEF SrcIInv, SrcTypes
  <2> QED  BY <1>2, <2>1, Zenon
<1>3. acts \in Nat /\ tick \in Nat  BY DEF SrcIInv, SrcTypes
<1>6. r.at # "pull" /\ r.at # "comments" /\ r.at # "record" /\ r.since = tick /\ r.acts = acts /\ r.items = {}
      /\ r = [c \in DOMAIN NoPoll |-> r[c]] /\ (r.at = "search" => r.login \in Accounts)
  BY <1>2, <1>5
<1>4. RunTypes(r) /\ Knows(r)  BY <1>1, <1>3, <1>6 DEF RunTypes, Knows
<1> QED  BY <1>1, <1>2, <1>4, RunKeeps

LEMMA StartTimerKeeps ==
    ASSUME SrcIInv, NEW p \in Poll, StartTimer(p)
    PROVE  SrcIInv'
<1> DEFINE when == IF due <= tick THEN due ELSE tick
           r == [NoPoll EXCEPT !.at = "record", !.since = tick, !.acts = acts, !.items = IF watch.skips /\ taskRuns THEN {} ELSE {<<"timer", when>>}]
<1>1. /\ poll' = [poll EXCEPT ![p] = r] /\ UNCHANGED <<watch, account, thing, comments, tick, due, work, acts, amiss>>
      /\ watch.source = "timer" /\ (p = "worker" => due <= tick)
  BY DEF StartTimer, Goes
<1>2. /\ r = [c \in DOMAIN NoPoll |-> r[c]] /\ r.at = "record" /\ r.since = tick /\ r.acts = acts
      /\ r.items \subseteq {<<"timer", when>>}
  BY DEF NoPoll
<1> HIDE DEF r
<1>3. acts \in Nat /\ tick \in Nat /\ due \in Nat  BY DEF SrcIInv, SrcTypes
<1>4. when \in Nat /\ when <= tick /\ (p = "worker" => when = due)  BY <1>1, <1>3
<1> HIDE DEF when
<1>5. KeyOk(<<"timer", when>>, r.login)  BY <1>1, <1>4 DEF KeyOk, Mentions
<1>6. RunTypes(r)  BY <1>1, <1>2, <1>3, <1>5 DEF RunTypes
<1>7. Knows(r)  BY <1>1, <1>2 DEF Knows, Asked
<1>8. p = "worker" => \A w \in work : w.by = "worker" => \A k \in r.items : w.key[2] + Interval <= k[2]
  BY <1>1, <1>2, <1>4 DEF SrcIInv, TimerOk
<1> QED  BY <1>1, <1>6, <1>7, <1>8, RunKeeps

\* What the search leaves for the calls after it, or the keys of what Jira answered.
LEMMA SearchKeeps ==
    ASSUME SrcIInv, NEW p \in Poll, Search(p)
    PROVE  SrcIInv'
<1>0. PICK r : r = poll[p]  OBVIOUS
<1>1. /\ r.at = "search" /\ UNCHANGED <<watch, account, thing, comments, tick, due, work, acts, amiss>>
      /\ poll' = [poll EXCEPT ![p] = IF ~Found(thing, r.login, r.since) THEN [r EXCEPT !.at = "record"]
                  ELSE IF watch.source \in GitHub THEN [r EXCEPT !.at = "pull", !.seen = {thing}]
                  ELSE [r EXCEPT !.at = "record", !.items = IF Matches(thing) THEN Keys(thing, r.login) ELSE {}]]
  BY <1>0 DEF Search, Goes, PollAt
<1>2. RunTypes(r) /\ watch.source # "timer" /\ r.login \in Accounts /\ r.since \in Nat /\ r.since >= Created /\ r.since <= tick
  BY <1>0, <1>1 DEF SrcIInv, RunTypes
<1>3. r = [c \in DOMAIN NoPoll |-> r[c]] /\ r.acts \in Nat /\ r.acts <= acts /\ \A k \in r.items : KeyOk(k, r.login)  BY <1>2 DEF RunTypes
<1>4. \A k \in Asked(r.login) : r.since = tick => /\ Matches(thing) /\ Found(thing, r.login, tick) /\ k \in Keys(thing, r.login)
  BY <1>2, AskedIsFound
<1>5. CASE ~Found(thing, r.login, r.since)
  <2> DEFINE n == [r EXCEPT !.at = "record"]
  <2>1. n = [c \in DOMAIN NoPoll |-> n[c]] /\ n.at = "record" /\ n.since = r.since /\ n.acts = r.acts /\ n.items = r.items /\ n.login = r.login
    BY <1>3 DEF NoPoll
  <2>2. poll' = [poll EXCEPT ![p] = n]  BY <1>1, <1>5
  <2> HIDE DEF n
  <2>3. RunTypes(n)  BY <1>2, <1>3, <2>1 DEF RunTypes
  <2>4. Knows(n)  BY <1>4, <1>5, <2>1 DEF Knows
  <2> QED  BY <1>1, <1>2, <2>2, <2>3, <2>4, RunKeeps
<1>6. CASE Found(thing, r.login, r.since) /\ watch.source \in GitHub
  <2> DEFINE n == [r EXCEPT !.at = "pull", !.seen = {thing}]
  <2>1. n = [c \in DOMAIN NoPoll |-> n[c]] /\ n.at = "pull" /\ n.since = r.since /\ n.acts = r.acts /\ n.items = r.items /\ n.seen = {thing} /\ n.login = r.login
    BY <1>3 DEF NoPoll
  <2>2. poll' = [poll EXCEPT ![p] = n]  BY <1>1, <1>6
  <2> HIDE DEF n
  <2>3. RunTypes(n)  BY <1>2, <1>3, <1>6, <2>1 DEF RunTypes
  <2>4. Knows(n)  BY <2>1 DEF Knows
  <2> QED  BY <1>1, <1>2, <2>2, <2>3, <2>4, RunKeeps
<1>7. CASE Found(thing, r.login, r.since) /\ watch.source \notin GitHub
  <2> DEFINE keys == IF Matches(thing) THEN Keys(thing, r.login) ELSE {}
             n == [r EXCEPT !.at = "record", !.items = keys]
  <2>1. n = [c \in DOMAIN NoPoll |-> n[c]] /\ n.at = "record" /\ n.since = r.since /\ n.acts = r.acts /\ n.items = keys /\ n.login = r.login
    BY <1>3 DEF NoPoll
  <2>2. poll' = [poll EXCEPT ![p] = n]  BY <1>1, <1>7
  <2>3. \A k \in keys : KeyOk(k, r.login)
    <3>1. watch.source # "github_pr_review"  BY <1>7 DEF GitHub
    <3>2. watch.source = "jira_assignee" => thing.assignee = r.login  BY <1>7 DEF Found
    <3> QED  BY <1>2, <1>7, <3>1, <3>2, KeysName
  <2> HIDE DEF n
  <2>4. RunTypes(n)  BY <1>2, <1>3, <2>1, <2>3 DEF RunTypes
  <2>5. Knows(n)  BY <1>4, <2>1 DEF Knows
  <2> QED  BY <1>1, <1>2, <2>2, <2>4, <2>5, RunKeeps
<1> QED  BY <1>5, <1>6, <1>7

\* The pull request is read later: only a run nobody came between reads the labels it was found with.
LEMMA ReadPullKeeps ==
    ASSUME SrcIInv, NEW p \in Poll, ReadPull(p)
    PROVE  SrcIInv'
<1>0. PICK r : r = poll[p]  OBVIOUS
<1>00. PICK read : read = [thing EXCEPT !.labels = (CHOOSE t \in r.seen : TRUE).labels]  OBVIOUS
<1>1. /\ r.at = "pull" /\ UNCHANGED <<watch, account, thing, comments, tick, due, work, acts, amiss>>
      /\ poll' = [poll EXCEPT ![p] = IF watch.source = "github_pr_mention" THEN [r EXCEPT !.at = "comments", !.seen = {read}]
                  ELSE [r EXCEPT !.at = "record", !.seen = {}, !.items = IF Matches(read) THEN Keys(read, r.login) ELSE {}]]
  BY <1>0, <1>00 DEF ReadPull, Goes, PollAt
<1>2. RunTypes(r) /\ watch.source \in GitHub /\ r.login \in Accounts /\ r.since \in Nat /\ r.since >= Created /\ r.since <= tick /\ (r.acts = acts => Knows(r))
  BY <1>0, <1>1 DEF SrcIInv, RunTypes
<1>3. r = [c \in DOMAIN NoPoll |-> r[c]] /\ r.acts \in Nat /\ r.acts <= acts /\ \A k \in r.items : KeyOk(k, r.login)  BY <1>2 DEF RunTypes
<1>4. r.acts = acts => read = thing
  <2>1. r.acts = acts => (CHOOSE t \in r.seen : TRUE) = thing  BY <1>1, <1>2 DEF Knows
  <2>2. thing = [c \in DOMAIN thing |-> thing[c]]  BY DEF SrcIInv, SrcTypes
  <2>3. [thing EXCEPT !.labels = thing.labels] = thing  BY <2>2
  <2> QED  BY <1>00, <2>1, <2>3
<1>5. watch.source # "timer" /\ watch.source # "jira_status" /\ watch.source # "jira_assignee"  BY <1>2 DEF GitHub
<1>8. read.asked = thing.asked /\ read.head = thing.head
  <2>1. thing = [c \in DOMAIN thing |-> thing[c]] /\ Aspects \subseteq DOMAIN thing  BY DEF SrcIInv, SrcTypes
  <2> QED  BY <1>00, <2>1 DEF Aspects
<1>6. CASE watch.source = "github_pr_mention"
  <2> DEFINE n == [r EXCEPT !.at = "comments", !.seen = {read}]
  <2>1. n = [c \in DOMAIN NoPoll |-> n[c]] /\ n.at = "comments" /\ n.since = r.since /\ n.acts = r.acts /\ n.items = r.items /\ n.seen = {read} /\ n.login = r.login
    BY <1>3 DEF NoPoll
  <2>2. poll' = [poll EXCEPT ![p] = n]  BY <1>1, <1>6
  <2> HIDE DEF n
  <2>3. RunTypes(n)  BY <1>2, <1>3, <1>5, <1>6, <2>1 DEF RunTypes
  <2>4. n.acts = acts => Knows(n)  BY <1>4, <2>1 DEF Knows
  <2> QED  BY <1>1, <1>5, <2>2, <2>3, <2>4, RunKeeps
<1>7. CASE watch.source # "github_pr_mention"
  <2> DEFINE keys == IF Matches(read) THEN Keys(read, r.login) ELSE {}
             n == [r EXCEPT !.at = "record", !.seen = {}, !.items = keys]
  <2>1. n = [c \in DOMAIN NoPoll |-> n[c]] /\ n.at = "record" /\ n.since = r.since /\ n.acts = r.acts /\ n.items = keys /\ n.login = r.login
    BY <1>3 DEF NoPoll
  <2>2. poll' = [poll EXCEPT ![p] = n]  BY <1>1, <1>7
  <2>3. \A k \in keys : KeyOk(k, r.login)  BY <1>2, <1>5, <1>8, KeysName
  <2> HIDE DEF n
  <2>4. RunTypes(n)  BY <1>2, <1>3, <1>5, <2>1, <2>3 DEF RunTypes
  <2>5. n.acts = acts => Knows(n)
    <3>1. \A k \in Asked(r.login) : r.since = tick => Matches(thing) /\ k \in Keys(thing, r.login)  BY <1>2, AskedIsFound
    <3> QED  BY <1>4, <2>1, <3>1 DEF Knows
  <2> QED  BY <1>1, <1>5, <2>2, <2>4, <2>5, RunKeeps
<1> QED  BY <1>6, <1>7

LEMMA ReadCommentsKeep ==
    ASSUME SrcIInv, NEW p \in Poll, ReadComments(p)
    PROVE  SrcIInv'
<1>0. PICK r : r = poll[p]  OBVIOUS
<1> DEFINE keys == UNION {IF Matches(t) THEN Keys(t, r.login) ELSE {} : t \in r.seen}
           n == [r EXCEPT !.at = "record", !.seen = {}, !.items = keys]
<1>1. /\ r.at = "comments" /\ UNCHANGED <<watch, account, thing, comments, tick, due, work, acts, amiss>>
      /\ poll' = [poll EXCEPT ![p] = n]
  BY <1>0 DEF ReadComments, Goes, PollAt
<1>2. RunTypes(r) /\ watch.source = "github_pr_mention" /\ r.login \in Accounts /\ r.since \in Nat /\ r.since >= Created /\ r.since <= tick
      /\ (r.acts = acts => r.seen = {thing})
  BY <1>0, <1>1 DEF SrcIInv, RunTypes, Knows
<1>3. r = [c \in DOMAIN NoPoll |-> r[c]] /\ r.acts \in Nat /\ r.acts <= acts  BY <1>2 DEF RunTypes
<1>4. \A k \in keys : KeyOk(k, r.login)
  <2> SUFFICES ASSUME NEW k \in keys PROVE KeyOk(k, r.login)  OBVIOUS
  <2>1. PICK t \in r.seen : k \in IF Matches(t) THEN Keys(t, r.login) ELSE {}  OBVIOUS
  <2> QED  BY <1>2, <2>1, KeysName
<1>5. r.acts = acts => keys = IF Matches(thing) THEN Keys(thing, r.login) ELSE {}  BY <1>2
<1>6. n = [c \in DOMAIN NoPoll |-> n[c]] /\ n.at = "record" /\ n.since = r.since /\ n.acts = r.acts /\ n.items = keys /\ n.login = r.login
  <2> HIDE DEF keys
  <2> QED  BY <1>3 DEF NoPoll
<1>7. \A k \in Asked(r.login) : r.since = tick => Matches(thing) /\ k \in Keys(thing, r.login)  BY <1>2, AskedIsFound
<1> HIDE DEF n, keys
<1>8. RunTypes(n)  BY <1>2, <1>3, <1>4, <1>6 DEF RunTypes
<1>9. n.acts = acts => Knows(n)  BY <1>5, <1>6, <1>7 DEF Knows
<1> QED  BY <1>1, <1>2, <1>8, <1>9, RunKeeps

\* What a run found is work, once for each key; of what was asked for while nobody did anything, it
\* leaves nothing out.
LEMMA RecordKeeps ==
    ASSUME SrcIInv, NEW p \in Poll, Record(p)
    PROVE  SrcIInv'
<1>0. PICK r : r = poll[p]  OBVIOUS
<1>1. /\ r.at = "record" /\ work' = work \cup Started(p, r.items) /\ poll' = [poll EXCEPT ![p] = NoPoll]
      /\ amiss' = (IF r.acts = acts /\ r.since = tick THEN amiss \cup (Asked(r.login) \ {w.key : w \in work'}) ELSE amiss)
      /\ due' = (IF watch.source = "timer" THEN tick + Interval ELSE due)
      /\ watch' = watch /\ account' = account /\ thing' = thing /\ comments' = comments /\ tick' = tick /\ acts' = acts
  BY <1>0 DEF Record, Goes, PollAt, Quiet
<1>2. RunTypes(r) /\ (r.acts = acts => Knows(r)) /\ \A k \in r.items : KeyOk(k, r.login)  BY <1>0 DEF SrcIInv, RunTypes
<1>3. DOMAIN poll = Poll /\ tick \in Nat /\ due \in Nat  BY DEF SrcIInv, SrcTypes
<1>4. Interval \in Nat /\ "worker" \in Poll  BY SourcesAssumption
<1>5. \A w \in work' : w \in work \/ (w.by = p /\ w.key \in r.items /\ w.login = r.login /\ w = [key |-> w.key, by |-> p, login |-> r.login])
  BY <1>0, <1>1 DEF Started
<1>6. \A w \in work' : KeyOk(w.key, w.login)  BY <1>2, <1>5 DEF SrcIInv
<1>7. \A k \in r.items : \E w \in work' : w.key = k
  <2> SUFFICES ASSUME NEW k \in r.items PROVE \E w \in work' : w.key = k  OBVIOUS
  <2>1. CASE \E w \in work : w.key = k  BY <1>1, <2>1
  <2>2. CASE \A w \in work : w.key # k
    <3>1. [key |-> k, by |-> p, login |-> r.login] \in work'  BY <1>0, <1>1, <2>2 DEF Started
    <3> QED  BY <3>1
  <2> QED  BY <2>1, <2>2
<1>8. amiss' = {}
  <2>1. amiss = {}  BY DEF SrcIInv
  <2>2. r.acts = acts /\ r.since = tick => Asked(r.login) \subseteq r.items  BY <1>1, <1>2 DEF Knows
  <2> QED  BY <1>1, <1>7, <2>1, <2>2
<1>9. TimerOk'
  <2> SUFFICES ASSUME watch.source = "timer" PROVE TimerOk'  BY <1>1 DEF TimerOk
  <2>1. due' = tick + Interval  BY <1>1
  <2>2. \A w \in work' : w.key[2] \in Nat /\ w.key[2] <= tick  BY <1>6 DEF KeyOk
  <2>3. \A w \in work' : w.key[2] + Interval <= due'  BY <1>3, <1>4, <2>1, <2>2
  <2>4. \A v, w \in work : v # w /\ v.by = "worker" /\ w.by = "worker" => Apart(v, w)  BY DEF SrcIInv, TimerOk
  <2>5. \A w \in work : w.by = "worker" => \A k \in poll["worker"].items : w.key[2] + Interval <= k[2]  BY DEF SrcIInv, TimerOk
  <2>6. \A w \in work' : w.by = "worker" => \A k \in poll'["worker"].items : w.key[2] + Interval <= k[2]
    <3>1. CASE p = "worker"
      <4>1. poll'["worker"].items = {}  BY <1>1, <1>3, <1>4, <3>1 DEF NoPoll
      <4> QED  BY <4>1
    <3>2. CASE p # "worker"
      <4>1. poll'["worker"] = poll["worker"]  BY <1>1, <1>3, <1>4, <3>2
      <4> QED  BY <1>5, <2>5, <3>2, <4>1
    <3> QED  BY <3>1, <3>2
  <2>7. ASSUME NEW v \in work', NEW w \in work', v # w, v.by = "worker", w.by = "worker" PROVE Apart(v, w)
    <3>1. CASE v \in work /\ w \in work  BY <2>4, <2>7, <3>1
    <3>2. CASE v \notin work /\ w \in work
      <4>1. v.key \in poll["worker"].items  BY <1>0, <1>5, <2>7, <3>2
      <4>2. w.key[2] + Interval <= v.key[2]  BY <2>5, <2>7, <3>2, <4>1
      <4> QED  BY <1>4, <2>2, <4>2 DEF Apart
    <3>3. CASE v \in work /\ w \notin work
      <4>1. w.key \in poll["worker"].items  BY <1>0, <1>5, <2>7, <3>3
      <4>2. v.key[2] + Interval <= w.key[2]  BY <2>5, <2>7, <3>3, <4>1
      <4> QED  BY <1>4, <2>2, <4>2 DEF Apart
    <3>4. CASE v \notin work /\ w \notin work
      <4>1. v.key = w.key  BY <1>2, <1>5, <3>4 DEF RunTypes
      <4> QED  BY <1>5, <2>7, <3>4, <4>1
    <3> QED  BY <3>1, <3>2, <3>3, <3>4
  <2> QED  BY <1>1, <2>3, <2>6, <2>7 DEF TimerOk, Apart
<1>10. ASSUME NEW k, NEW login, KeyOk(k, login) PROVE KeyOk(k, login)'  BY <1>1, <1>10 DEF KeyOk, Names, Calls, Entry
<1>11. ASSUME NEW q \in Poll PROVE (RunTypes(poll[q]) /\ (poll[q].acts = acts => Knows(poll[q])))'
  <2>1. poll'[q] = NoPoll \/ poll'[q] = poll[q]  BY <1>1, <1>3
  <2>2. RunTypes(poll'[q]) /\ (poll'[q].acts = acts => Knows(poll'[q]))  BY <2>1, IdleRun DEF SrcIInv
  <2>3. \A k \in poll'[q].items : KeyOk(k, poll[q].login)'  BY <1>10, <2>2 DEF RunTypes
  <2>4. RunTypes(poll[q])'  BY <1>1, <2>2, <2>3 DEF RunTypes
  <2>5. Knows(poll'[q]) => Knows(poll[q])'  BY <1>1 DEF Knows, Asked, Matches, OnPage
  <2> QED  BY <1>1, <2>2, <2>4, <2>5
<1>12. due' \in Nat  BY <1>1, <1>3, <1>4
<1>13. SrcTypes'  BY <1>1, <1>3, <1>12 DEF SrcIInv, SrcTypes
<1>14. MovesOk' /\ LogOk'  BY <1>1 DEF SrcIInv, MovesOk, LogOk
<1>15. \A w \in work' : KeyOk(w.key, w.login)'  BY <1>6, <1>10
<1> QED  BY <1>8, <1>9, <1>11, <1>13, <1>14, <1>15 DEF SrcIInv

LEMMA SourcesStep == SrcIInv /\ [SrcNext]_srcVars => SrcIInv'
<1> SUFFICES ASSUME SrcIInv, [SrcNext]_srcVars PROVE SrcIInv'  OBVIOUS
<1>0. Aspects \subseteq DOMAIN thing  BY DEF SrcIInv, SrcTypes
<1>1. ASSUME NEW p \in Poll, PollStep(p) PROVE SrcIInv'
  <2>1. CASE Fails(p)
    <3>1. poll' = [poll EXCEPT ![p] = NoPoll] /\ UNCHANGED <<watch, account, thing, comments, tick, due, work, acts, amiss>>
      BY <2>1 DEF Fails, Goes
    <3>2. NoPoll.items = {}  BY DEF NoPoll
    <3> QED  BY <3>1, <3>2, IdleRun, RunKeeps
  <2> QED  BY <1>1, <2>1, StartPollKeeps, StartTimerKeeps, SearchKeeps, ReadPullKeeps, ReadCommentsKeep, RecordKeeps DEF PollStep
<1>2. CASE \E w \in work : Reply(w)  BY <1>2, ReplyKeeps
<1>3. CASE \E h \in 1..2 : Push(h)
  <2>1. PICK h : Happens([thing EXCEPT !["head"] = h])  BY <1>3 DEF Push
  <2> QED  BY <1>0, <2>1, ThingKeeps DEF Aspects
<1>4. CASE \E who \in {"me", "team"} : AskReview(who)
  <2>1. PICK v : Happens([thing EXCEPT !["asked"] = v])  BY <1>4 DEF AskReview
  <2> QED  BY <1>0, <2>1, ThingKeeps DEF Aspects
<1>5. CASE \E a \in Accounts \cup {""} : Assign(a)
  <2>1. PICK v : Happens([thing EXCEPT !["assignee"] = v])  BY <1>5 DEF Assign
  <2> QED  BY <1>0, <2>1, ThingKeeps DEF Aspects
<1>6. CASE \E a \in Accounts \cup {""} : SignAs(a)  BY <1>6, SignKeeps
<1>7. CASE \E s \in {"todo", "test", "done"} : Move(s)  BY <1>7, MoveKeeps
<1>8. CASE \E author \in {"u", "me"}, mentions \in {{}} \cup {{m} : m \in Mentioned} : Comment(author, mentions)
  BY <1>8, CommentsKeep
<1>9. CASE \E l \in {"go", "no"} : Label(l)
  <2>1. PICK v : Happens([thing EXCEPT !["labels"] = v])  BY <1>9 DEF Label
  <2> QED  BY <1>0, <2>1, ThingKeeps DEF Aspects
<1>10. CASE Draft
  <2>1. PICK v : Happens([thing EXCEPT !["draft"] = v])  BY <1>10 DEF Draft
  <2> QED  BY <1>0, <2>1, ThingKeeps DEF Aspects
<1>11. CASE CloseIt
  <2>1. PICK v : Happens([thing EXCEPT !["open"] = v])  BY <1>11 DEF CloseIt
  <2> QED  BY <1>0, <2>1, ThingKeeps DEF Aspects
<1>12. CASE Retarget
  <2>1. PICK v : Happens([thing EXCEPT !["place"] = v])  BY <1>12 DEF Retarget
  <2> QED  BY <1>0, <2>1, ThingKeeps DEF Aspects
<1>13. CASE HalfMinute  BY <1>13, HalfMinuteKeeps
<1>14. CASE TaskEnds \/ UNCHANGED srcVars
  <2>1. /\ watch' = watch /\ account' = account /\ thing' = thing /\ comments' = comments /\ tick' = tick /\ due' = due /\ work' = work
        /\ poll' = poll /\ acts' = acts /\ amiss' = amiss
    BY <1>14 DEF TaskEnds, srcVars
  <2>2. SrcTypes' /\ MovesOk' /\ LogOk'  BY <2>1 DEF SrcIInv, SrcTypes, MovesOk, LogOk
  <2>3. \A k, login : KeyOk(k, login)' <=> KeyOk(k, login)  BY <2>1 DEF KeyOk, Names, Calls, Entry
  <2>4. TimerOk'  BY <2>1 DEF SrcIInv, TimerOk, Apart
  <2>5. ASSUME NEW p \in Poll PROVE (RunTypes(poll[p]) /\ (poll[p].acts = acts => Knows(poll[p])))'
    <3>1. RunTypes(poll[p]) /\ (poll[p].acts = acts => Knows(poll[p]))  BY DEF SrcIInv
    <3>2. RunTypes(poll[p])'  BY <2>1, <2>3, <3>1 DEF RunTypes
    <3>3. Knows(poll[p]) => Knows(poll[p])'  BY <2>1 DEF Knows, Asked, Matches, OnPage
    <3> QED  BY <2>1, <3>1, <3>2, <3>3
  <2>6. \A w \in work' : KeyOk(w.key, w.login)'  BY <2>1, <2>3 DEF SrcIInv
  <2> QED  BY <2>1, <2>2, <2>4, <2>5, <2>6 DEF SrcIInv
<1> QED  BY <1>1, <1>2, <1>3, <1>4, <1>5, <1>6, <1>7, <1>8, <1>9, <1>10, <1>11, <1>12, <1>13, <1>14 DEF SrcNext

\* However many people, runs and comments there are: work is a review or an issue its account was
\* once asked for, a comment of somebody else that reads as naming it, an entry into a status from
\* no more than a minute before the delegation, worked on once, or a due time of its own; and a run
\* nothing disturbed leaves nothing out but comments it never reads.
THEOREM WorkIsAsked == SrcSpec => []WorkIsWhatWasAsked
<1>1. SrcInit => SrcIInv  BY SourcesStart
<1>2. SrcIInv /\ [SrcNext]_srcVars => SrcIInv'  BY SourcesStep
<1>3. SrcIInv => WorkIsWhatWasAsked  BY InvariantOfWork
<1> QED  BY <1>1, <1>2, <1>3, PTL DEF SrcSpec

-----------------------------------------------------------------------------
(* The form of a delegation.  Every schedule in sight is one Normalised    *)
(* gives; what a request will write is sound unless two requests already   *)
(* overwrote each other, and either plans the next run afresh, or leaves   *)
(* it as it was read, or takes it away.                                    *)

FormSpec == FormRowInit /\ [][FormRowNext]_formRowVars

IntervalOf(n) == [type |-> "interval", expression |-> "", zone |-> "", every |-> n, misfire |-> "", overlap |-> ""]
CronOf(m, o)  == [type |-> "cron", expression |-> "hourly", zone |-> "UTC", every |-> Never, misfire |-> m, overlap |-> o]
IsSchedule(s) == \/ \E n \in Nat \ {0} : s = IntervalOf(n)
                 \/ \E m \in {"fire_once", "skip"}, o \in {"skip_if_running", "allow"} : s = CronOf(m, o)
IsRow(r) == /\ r = [c \in RuleColumns |-> r[c]] /\ IsSchedule(r.schedule) /\ r.enabled \in BOOLEAN /\ r.deleted \in BOOLEAN
            /\ r.next \in Nat \cup {Never} /\ r.exists
Sound(r) == Fit(r) /\ (r.enabled => ~r.deleted) /\ r.conditions \subseteq Fields(r.source) /\ Scope(r.source, r.scope) = r.scope

KeepsNext(w) == /\ w.new.enabled = w.read.enabled /\ w.new.next = w.read.next
                /\ w.new.enabled => w.new.schedule = w.read.schedule
TakesNext(w) == ~w.new.enabled /\ w.new.next = Never
Pending(w) == /\ w.at = "write" /\ IsRow(w.read) /\ IsRow(w.new) /\ w.replans \in BOOLEAN
              /\ ~mixed => Sound(w.new)
              /\ w.replans => w.new.enabled /\ w.new.next = NextRun(w.new.schedule, time)
              /\ ~w.replans => KeepsNext(w) \/ TakesNext(w)

NextAfter(r) == IF ~r.read.enabled THEN Never ELSE IF r.failed THEN time + Every(r.began.schedule) ELSE NextRun(r.began.schedule, time)
RunHolds(r) == /\ r.at \in {"run", "ended"} /\ IsRow(r.began)
               /\ r.at = "ended" => IsRow(r.read) /\ r.failed \in BOOLEAN /\ r.new = [r.read EXCEPT !.next = NextAfter(r)]

PlanOf(r) == /\ ~planned.raced => (r.enabled <=> r.next # Never)
             /\ r.enabled /\ ~planned.raced /\ ~planned.failed => r.next = NextRun(r.schedule, planned.at)
Plan == [at : Nat \cup {Never}, failed : BOOLEAN, raced : BOOLEAN]
FormIInv ==
    /\ saved \in Connections /\ time \in Nat /\ mixed \in BOOLEAN /\ planned \in Plan
    /\ rule # NoRule => IsRow(rule) /\ (~mixed => Sound(rule)) /\ PlanOf(rule) /\ planned.at \in Nat
    /\ DOMAIN tab = Tab
    /\ \A t \in Tab : tab[t] = IdleTab \/ (rule # NoRule /\ Pending(tab[t]))
    /\ running = NoRun \/ (rule # NoRule /\ RunHolds(running))

\* A schedule Normalised gives is one of two shapes, and is its own normal form.
LEMMA NormalisedShape ==
    ASSUME NEW raw, raw.every \in Nat \cup {-1}, NEW i \in Nat \ {0}, Normalised(raw, i) # Refused
    PROVE  IsSchedule(Normalised(raw, i))
<1> DEFINE misfire == OrElse(raw.misfire, "fire_once")
           overlap == OrElse(raw.overlap, "skip_if_running")
           n == IF raw.every = Never THEN i ELSE raw.every
<1>1. CASE TypeOf(raw) = "interval" /\ raw.every # 0
  <2>1. Normalised(raw, i) = IntervalOf(n)  BY <1>1 DEF Normalised, IntervalOf
  <2>2. n \in Nat \ {0}  BY <1>1 DEF Never
  <2> QED  BY <2>1, <2>2 DEF IsSchedule
<1>2. CASE ~(TypeOf(raw) = "interval" /\ raw.every # 0)
  <2>1. /\ TypeOf(raw) = "cron" /\ raw.expression = "hourly" /\ raw.zone \in {"", "UTC"}
        /\ misfire \in {"fire_once", "skip"} /\ overlap \in {"skip_if_running", "allow"}
    BY <1>2 DEF Normalised
  <2>2. Normalised(raw, i) = CronOf(misfire, overlap)  BY <1>2, <2>1 DEF Normalised, CronOf, OrElse
  <2> QED  BY <2>1, <2>2 DEF IsSchedule
<1> QED  BY <1>1, <1>2

LEMMA ShapeKept ==
    ASSUME NEW s, IsSchedule(s)
    PROVE  Normalised(s, 1) = s /\ s # Refused
<1>1. CASE \E n \in Nat \ {0} : s = IntervalOf(n)
  <2>1. PICK n \in Nat \ {0} : s = IntervalOf(n)  BY <1>1
  <2>2. s.type = "interval" /\ s.every = n  BY <2>1 DEF IntervalOf
  <2>3. TypeOf(s) = "interval" /\ n # Never /\ n # 0  BY <2>2 DEF TypeOf, Never
  <2> QED  BY <2>1, <2>2, <2>3 DEF Normalised, IntervalOf, Refused
<1>2. CASE \E m \in {"fire_once", "skip"}, o \in {"skip_if_running", "allow"} : s = CronOf(m, o)
  <2>1. PICK m \in {"fire_once", "skip"}, o \in {"skip_if_running", "allow"} : s = CronOf(m, o)  BY <1>2
  <2>2. TypeOf(s) = "cron" /\ OrElse(s.misfire, "fire_once") = m /\ OrElse(s.overlap, "skip_if_running") = o /\ OrElse(s.zone, "UTC") = "UTC"
    BY <2>1 DEF CronOf, TypeOf, OrElse
  <2>3. s.type = "cron" /\ s.zone = "UTC" /\ s.expression = "hourly" /\ s.misfire = m /\ s.overlap = o  BY <2>1 DEF CronOf
  <2> QED  BY <2>1, <2>2, <2>3 DEF Normalised, CronOf, Refused
<1> QED  BY <1>1, <1>2 DEF IsSchedule

LEMMA SecondsAreSome ==
    ASSUME NEW s, IsSchedule(s)
    PROVE  (IF s.every = Never THEN 1 ELSE s.every) \in Nat \ {0}
<1>1. CASE \E n \in Nat \ {0} : s = IntervalOf(n)
  <2>1. PICK n \in Nat \ {0} : s = IntervalOf(n)  BY <1>1
  <2>2. s.every = n  BY <2>1 DEF IntervalOf
  <2> QED  BY <2>2
<1>2. CASE \E m \in {"fire_once", "skip"}, o \in {"skip_if_running", "allow"} : s = CronOf(m, o)  BY <1>2 DEF CronOf
<1> QED  BY <1>1, <1>2 DEF IsSchedule

\* The next run of a schedule lies ahead, and so does the retry of a run that failed.
LEMMA NextRunAhead ==
    ASSUME NEW s, IsSchedule(s), NEW now \in Nat
    PROVE  NextRun(s, now) \in Nat /\ NextRun(s, now) > now /\ now + Every(s) \in Nat
<1>1. CASE \E n \in Nat \ {0} : s = IntervalOf(n)
  <2>1. PICK n \in Nat \ {0} : s = IntervalOf(n)  BY <1>1
  <2>2. s.type = "interval" /\ s.every = n  BY <2>1 DEF IntervalOf
  <2>3. NextRun(s, now) = now + n /\ Every(s) = n  BY <2>2 DEF NextRun, Every
  <2> QED  BY <2>3
<1>2. CASE \E m \in {"fire_once", "skip"}, o \in {"skip_if_running", "allow"} : s = CronOf(m, o)
  <2>1. s.type = "cron"  BY <1>2 DEF CronOf
  <2>2. NextRun(s, now) = (now \div 2 + 1) * 2 /\ Every(s) = 1  BY <2>1 DEF NextRun, Every, HourLength
  <2>3. (now \div 2 + 1) * 2 \in Nat /\ (now \div 2 + 1) * 2 > now  OBVIOUS
  <2> QED  BY <2>2, <2>3
<1> QED  BY <1>1, <1>2 DEF IsSchedule

\* What a run takes among the connections of a member is the first that fits.
LEMMA FirstFits ==
    ASSUME NEW S \in SUBSET Nat, S # {}
    PROVE  \E i \in S : (CHOOSE k \in S : \A j \in S : k <= j) = i /\ \A j \in S : i <= j
<1>1. \E x \in S : \A y \in S : ~(<<y, x>> \in OpToRel(<, Nat))  BY NatLessThanWellFounded, WFMin
<1>2. PICK x \in S : \A y \in S : ~(<<y, x>> \in OpToRel(<, Nat))  BY <1>1
<1>3. \A y \in S : x <= y
  <2> SUFFICES ASSUME NEW y \in S, y < x PROVE FALSE  OBVIOUS
  <2> QED  BY <1>2, <<y, x>> \in Nat \X Nat DEF OpToRel
<1>4. \A k \in S : (\A j \in S : k <= j) => k = x  BY <1>3
<1> QED  BY <1>3, <1>4

LEMMA OnlyFirst ==
    ASSUME NEW S \in SUBSET Nat, NEW i \in S, \A j \in S : i <= j
    PROVE  (CHOOSE k \in S : \A j \in S : k <= j) = i
<1>1. \A k \in S : (\A j \in S : k <= j) => k = i
  <2> SUFFICES ASSUME NEW k \in S, \A j \in S : k <= j PROVE k = i  OBVIOUS
  <2>1. k <= i /\ i <= k /\ k \in Nat /\ i \in Nat  OBVIOUS
  <2> QED  BY <2>1
<1> QED  BY <1>1

LEMMA OffersWhatIsTaken ==
    ASSUME NEW conn, DOMAIN conn.rows \subseteq Nat \ {0}, conn.jira, Resolved(conn, "jira_status", "") # 0
    PROVE  \E name \in Offered(conn) : Resolved(conn, "jira_status", name) = Resolved(conn, "jira_status", "")
<1> DEFINE rows == conn.rows
           fit(selector) == {i \in DOMAIN rows : Usable(rows[i]) /\ (selector # "" => Called(rows[i], selector))}
<1>1. Provider["jira_status"] = "jira"  BY DEF Provider, Sources
<1>2. \A selector : Resolved(conn, "jira_status", selector) = Selected(rows, selector)
  BY <1>1 DEF Resolved
<1>3. fit("") # {} /\ fit("") \in SUBSET Nat  BY <1>2 DEF Selected
<1>4. PICK i \in fit("") : (CHOOSE k \in fit("") : \A j \in fit("") : k <= j) = i /\ \A j \in fit("") : i <= j  BY <1>3, FirstFits
<1>5. Selected(rows, "") = i  BY <1>3, <1>4 DEF Selected
<1> DEFINE name == OrElse(rows[i].name, rows[i].url)
<1>6. name # "" /\ Called(rows[i], name)  BY <1>4 DEF OrElse, Usable, Called
<1>7. name \in Offered(conn)  BY <1>4 DEF Offered, Usable
<1>8. i \in fit(name) /\ fit(name) \subseteq fit("")  BY <1>4, <1>6
<1>9. \A j \in fit(name) : i <= j  BY <1>4, <1>8
<1>10. (CHOOSE h \in fit(name) : \A j \in fit(name) : h <= j) = i
  <2> HIDE DEF name, fit
  <2> QED  BY <1>3, <1>8, <1>9, OnlyFirst
<1>11. Selected(rows, name) = i  BY <1>6, <1>8, <1>10 DEF Selected
<1> QED  BY <1>2, <1>5, <1>7, <1>11

LEMMA WarnsOfNothing ==
    ASSUME NEW conn, NEW source \in Sources, NEW scope
    PROVE  (Warning(conn, source, scope) = "") = (Resolved(conn, source, scope) # 0)
<1>0. Provider[source] \in {"github", "jira", "timer"}  BY DEF Provider
<1>1. CASE Provider[source] = "timer"  BY <1>1 DEF Warning, Resolved
<1>2. CASE Provider[source] = "github"
  <2>1. CASE conn.found /\ conn.github  BY <1>2, <2>1 DEF Warning, Resolved
  <2>2. CASE ~conn.found  BY <1>2, <2>2 DEF Warning, Resolved
  <2>3. CASE conn.found /\ ~conn.github  BY <1>2, <2>3 DEF Warning, Resolved
  <2> QED  BY <2>1, <2>2, <2>3
<1>3. CASE Provider[source] = "jira"  BY <1>3 DEF Warning, Resolved
<1> QED  BY <1>0, <1>1, <1>2, <1>3

\* What the form shows beforehand is what is accepted and what is taken.
LEMMA FormsTell ==
    ASSUME saved \in Connections, time \in Nat
    PROVE  /\ \A raw \in Schedules : LET shown == SchedulePreview(raw, time) IN
                shown.valid = (Normalised(raw, 1) # Refused) /\ (shown.valid => shown.next > time)
           /\ \A source \in Sources, scope \in {"", "one", "two", "gone"} :
                (Warning(saved, source, scope) = "") = (Resolved(saved, source, scope) # 0)
           /\ saved.jira /\ Resolved(saved, "jira_status", "") # 0 =>
                \E name \in Offered(saved) : Resolved(saved, "jira_status", name) = Resolved(saved, "jira_status", "")
<1>1. ASSUME NEW raw \in Schedules
      PROVE  /\ SchedulePreview(raw, time).valid = (Normalised(raw, 1) # Refused)
             /\ SchedulePreview(raw, time).valid => SchedulePreview(raw, time).next > time
  <2>1. CASE Normalised(raw, 1) = Refused  BY <2>1 DEF SchedulePreview
  <2>2. CASE Normalised(raw, 1) # Refused
    <3>1. IsSchedule(Normalised(raw, 1))  BY <2>2, NormalisedShape, FormAssumption
    <3>2. NextRun(Normalised(raw, 1), time) > time  BY <3>1, NextRunAhead
    <3> QED  BY <2>2, <3>2 DEF SchedulePreview
  <2> QED  BY <2>1, <2>2
<1>2. ASSUME NEW source \in Sources, NEW scope \in {"", "one", "two", "gone"}
      PROVE  (Warning(saved, source, scope) = "") = (Resolved(saved, source, scope) # 0)
  BY WarnsOfNothing
<1>3. ASSUME saved.jira, Resolved(saved, "jira_status", "") # 0
      PROVE  \E name \in Offered(saved) : Resolved(saved, "jira_status", name) = Resolved(saved, "jira_status", "")
  BY <1>3, OffersWhatIsTaken, FormAssumption
<1> QED  BY <1>1, <1>2, <1>3

LEMMA InvariantSays == FormIInv => RuleStaysRunnable
<1> SUFFICES ASSUME FormIInv PROVE RuleStaysRunnable  OBVIOUS
<1>1. ASSUME rule # NoRule
      PROVE  /\ ~planned.raced => (rule.enabled <=> rule.next # Never)
             /\ rule.enabled /\ ~planned.raced /\ ~planned.failed => rule.next = NextRun(rule.schedule, planned.at)
             /\ Normalised(rule.schedule, 1) = rule.schedule
             /\ ~mixed => /\ Fit(rule) /\ (rule.enabled => ~rule.deleted)
                          /\ rule.conditions \subseteq Fields(rule.source) /\ Scope(rule.source, rule.scope) = rule.scope
  <2>1. Normalised(rule.schedule, 1) = rule.schedule  BY <1>1, ShapeKept DEF FormIInv, IsRow
  <2> QED  BY <1>1, <2>1 DEF FormIInv, PlanOf, Sound
<1>2. saved \in Connections /\ time \in Nat  BY DEF FormIInv
<1> QED  BY <1>1, <1>2, FormsTell DEF RuleStaysRunnable

LEMMA FormStarts == FormRowInit => FormIInv
<1> SUFFICES ASSUME FormRowInit PROVE FormIInv  OBVIOUS
<1>1. planned \in Plan  BY DEF FormRowInit, Plan, Never
<1> QED  BY <1>1 DEF FormRowInit, FormIInv

\* A row as it is made: its plan is the one of this moment.
LEMMA MadeRow ==
    ASSUME NEW posted \in Posts, time \in Nat, Fit(Made(posted))
    PROVE  /\ IsRow(Made(posted)) /\ Sound(Made(posted))
           /\ Made(posted).enabled <=> Made(posted).next # Never
           /\ Made(posted).enabled => Made(posted).next = NextRun(Made(posted).schedule, time)
<1> DEFINE made == Made(posted)
           schedule == Normalised(posted.schedule, 1)
<1>0. made = [c \in RuleColumns |-> made[c]]  BY DEF Made, RuleColumns
<1>1. /\ made.exists /\ made.source = posted.source /\ made.scope = Scope(posted.source, posted.scope)
      /\ made.conditions = Conditions(posted.source, posted.conditions) /\ made.schedule = schedule
      /\ made.enabled = posted.enabled /\ made.deleted = FALSE
      /\ made.next = IF posted.enabled /\ schedule # Refused THEN NextRun(schedule, time) ELSE Never
  BY DEF Made, RuleColumns
<1>2. posted.enabled \in BOOLEAN  BY FormAssumption
<1>3. schedule # Refused  BY <1>1 DEF Fit
<1>4. IsSchedule(schedule)  BY <1>3, NormalisedShape, FormAssumption
<1>5. NextRun(schedule, time) \in Nat  BY <1>4, NextRunAhead
<1>6. NextRun(schedule, time) # Never  BY <1>5 DEF Never
<1>7. IsRow(made)  BY <1>0, <1>1, <1>2, <1>3, <1>4, <1>5 DEF IsRow
<1>8. Sound(made)  BY <1>1 DEF Sound, Conditions, Scope
<1> QED  BY <1>1, <1>2, <1>3, <1>6, <1>7, <1>8

\* A patch of a row: what it leaves out keeps its value.
LEMMA PatchedRow ==
    ASSUME NEW row, IsRow(row), NEW edit \in Edits, time \in Nat, Fit(Patched(row, edit))
    PROVE  LET new == Patched(row, edit)
               next == PlannedNext(row, edit, new)
           IN  /\ IsRow([new EXCEPT !.next = next])
               /\ ~row.deleted => Sound([new EXCEPT !.next = next])
               /\ Replans(row, edit, new) => new.enabled /\ next = NextRun(new.schedule, time)
               /\ ~Replans(row, edit, new) => \/ ~new.enabled /\ next = Never
                                              \/ /\ new.enabled = row.enabled /\ next = row.next
                                                 /\ new.enabled => new.schedule = row.schedule
<1> DEFINE new == Patched(row, edit)
           next == PlannedNext(row, edit, new)
           interval == IF row.schedule.every = Never THEN 1 ELSE row.schedule.every
<1>0. new = [c \in RuleColumns |-> new[c]]  BY DEF Patched, IsRow, RuleColumns
<1>1. /\ DOMAIN new = RuleColumns /\ new.exists = row.exists /\ new.deleted = row.deleted /\ new.next = row.next
      /\ new.schedule = IF Has(edit, "schedule") THEN Normalised(edit.schedule, interval) ELSE row.schedule
      /\ new.enabled = Given(edit, "enabled", row.enabled)
  BY DEF Patched, IsRow, RuleColumns
<1>2. PICK posted : new.conditions = Conditions(new.source, posted)
  BY DEF Patched, IsRow, RuleColumns
<1>3. PICK asked : new.scope = Scope(new.source, asked)
  BY DEF Patched, IsRow, RuleColumns
<1>4. new.enabled \in BOOLEAN /\ (~Has(edit, "enabled") => new.enabled = row.enabled)
  BY <1>1, FormAssumption DEF Given, Has, IsRow
<1>5. interval \in Nat \ {0}
  BY SecondsAreSome DEF IsRow
<1>6. IsSchedule(new.schedule)
  <2>1. CASE Has(edit, "schedule")
    <3>1. edit.schedule.every \in Nat \cup {-1}  BY <2>1, FormAssumption DEF Has
    <3>2. new.schedule = Normalised(edit.schedule, interval) /\ new.schedule # Refused  BY <1>1, <2>1 DEF Fit
    <3> HIDE DEF interval, new
    <3> QED  BY <1>5, <3>1, <3>2, NormalisedShape
  <2>2. CASE ~Has(edit, "schedule")  BY <1>1, <2>2 DEF IsRow
  <2> QED  BY <2>1, <2>2
<1>7. NextRun(new.schedule, time) \in Nat  BY <1>6, NextRunAhead
<1>8. next \in Nat \cup {Never}
  <2> HIDE DEF new
  <2> QED  BY <1>7 DEF PlannedNext, IsRow
<1> DEFINE written == [new EXCEPT !.next = next]
<1>9. /\ DOMAIN written = RuleColumns /\ written.next = next /\ written.exists = new.exists /\ written.deleted = new.deleted
      /\ written.schedule = new.schedule /\ written.enabled = new.enabled /\ written.source = new.source
      /\ written.conditions = new.conditions /\ written.scope = new.scope /\ written.prompt = new.prompt
  <2> HIDE DEF new, next
  <2> QED  BY <1>1 DEF RuleColumns
<1>10. IsRow(written)
  <2> HIDE DEF new, next
  <2>1. written = [c \in RuleColumns |-> written[c]]  BY <1>0
  <2> QED  BY <2>1, <1>1, <1>4, <1>6, <1>8, <1>9 DEF IsRow
<1>11. ~row.deleted => Sound(written)
  <2> HIDE DEF new, next
  <2>1. Fit(new)  BY DEF new
  <2>2. Fit(written)  BY <1>9, <2>1 DEF Fit
  <2> QED  BY <1>1, <1>2, <1>3, <1>9, <2>2 DEF Sound, Conditions, Scope
<1>12. Replans(row, edit, new) => new.enabled /\ next = NextRun(new.schedule, time)
  <2> HIDE DEF new
  <2> QED  BY DEF Replans, PlannedNext
<1>13. ~Replans(row, edit, new) => \/ ~new.enabled /\ next = Never
                                   \/ new.enabled = row.enabled /\ next = row.next /\ (new.enabled => new.schedule = row.schedule)
  <2> HIDE DEF new
  <2> QED  BY <1>1, <1>4 DEF Replans, PlannedNext
<1> QED  BY <1>10, <1>11, <1>12, <1>13

-----------------------------------------------------------------------------
\* Writing the columns a request changed: over the row it read it gives the row it wanted, and over
\* another it still gives a row.
LEMMA WrittenKeepsShape ==
    ASSUME IsRow(rule), NEW read, IsRow(read), NEW new, IsRow(new)
    PROVE  IsRow(WrittenRule(read, new))
<1> DEFINE w == WrittenRule(read, new)
<1>0. w = [c \in RuleColumns |-> w[c]]  BY DEF WrittenRule
<1>1. DOMAIN w = RuleColumns /\ \A c \in RuleColumns : w[c] \in {new[c], rule[c]}  BY DEF WrittenRule
<1>2. /\ w.schedule \in {new.schedule, rule.schedule} /\ w.enabled \in {new.enabled, rule.enabled} /\ w.deleted \in {new.deleted, rule.deleted}
      /\ w.next \in {new.next, rule.next} /\ w.exists \in {new.exists, rule.exists}
  BY <1>1 DEF RuleColumns
<1> HIDE DEF w
<1>3. IsSchedule(w.schedule)  BY <1>2 DEF IsRow
<1>4. w.enabled \in BOOLEAN /\ w.deleted \in BOOLEAN /\ w.exists  BY <1>2 DEF IsRow
<1>5. w.next \in Nat \cup {Never}  BY <1>2 DEF IsRow
<1>6. IsRow(w)  BY <1>0, <1>3, <1>4, <1>5 DEF IsRow
<1> QED  BY <1>6 DEF w

LEMMA WrittenUnraced ==
    ASSUME NEW read, rule = read, IsRow(read), NEW new, IsRow(new)
    PROVE  WrittenRule(read, new) = new
<1>1. \A c \in RuleColumns : (IF new[c] # read[c] THEN new[c] ELSE rule[c]) = new[c]  OBVIOUS
<1>2. WrittenRule(read, new) = [c \in RuleColumns |-> new[c]]  BY <1>1 DEF WrittenRule
<1> QED  BY <1>2 DEF IsRow

\* A write over a row no other request changed, whatever a run made of its next run, leaves the row the
\* request wanted but for the next run.
LEMMA WrittenUnmixed ==
    ASSUME IsRow(rule), NEW read, IsRow(read), NEW new, IsRow(new), Sound(new),
           [rule EXCEPT !.next = Never] = [read EXCEPT !.next = Never]
    PROVE  Sound(WrittenRule(read, new))
<1> DEFINE w == WrittenRule(read, new)
<1>1. ASSUME NEW c \in RuleColumns \ {"next"} PROVE w[c] = new[c]
  <2>1. rule[c] = [rule EXCEPT !.next = Never][c] /\ read[c] = [read EXCEPT !.next = Never][c]  BY DEF IsRow
  <2>2. rule[c] = read[c]  BY <2>1
  <2> QED  BY <2>2 DEF WrittenRule
<1>2. /\ w.schedule = new.schedule /\ w.enabled = new.enabled /\ w.deleted = new.deleted /\ w.source = new.source
      /\ w.scope = new.scope /\ w.conditions = new.conditions /\ w.prompt = new.prompt
  <2> HIDE DEF w
  <2> QED  BY <1>1 DEF RuleColumns
<1> HIDE DEF w
<1>3. Fit(w)  BY <1>2 DEF Sound, Fit
<1>4. (w.enabled => ~w.deleted) /\ w.conditions \subseteq Fields(w.source) /\ Scope(w.source, w.scope) = w.scope  BY <1>2 DEF Sound
<1>5. Sound(w)  BY <1>3, <1>4 DEF Sound
<1> QED  BY <1>5 DEF w

LEMMA RowIsThere == ASSUME NEW r, IsRow(r) PROVE r # NoRule
<1>1. r.exists /\ ~NoRule.exists  BY DEF IsRow, NoRule
<1> QED  BY <1>1

-----------------------------------------------------------------------------
(* The steps.                                                              *)

LEMMA CreateKeeps ==
    ASSUME FormIInv, NEW posted \in Posts, Create(posted)
    PROVE  FormIInv'
<1> USE DEF FormIInv, Create
<1>1. time \in Nat /\ Fit(Made(posted)) /\ rule' = Made(posted) /\ planned' = Planned /\ time' = time /\ mixed' = mixed  OBVIOUS
<1>2. /\ IsRow(rule') /\ Sound(rule') /\ (rule'.enabled <=> rule'.next # Never)
      /\ rule'.enabled => rule'.next = NextRun(rule'.schedule, time)
  BY <1>1, MadeRow
<1>3. planned' \in Plan /\ planned'.at \in Nat /\ planned'.at = time  BY <1>1 DEF Planned, Plan
<1>4. PlanOf(rule)'  BY <1>2, <1>3 DEF PlanOf
<1>5. \A t \in Tab : tab[t] = IdleTab  OBVIOUS
<1>6. running = NoRun  OBVIOUS
<1>7. IsRow(rule)' /\ Sound(rule)'  BY <1>2 DEF IsRow, Sound
<1> QED  BY <1>1, <1>3, <1>4, <1>5, <1>6, <1>7

\* A step that leaves the row, its history and the moment alone.
LEMMA RowStays ==
    ASSUME FormIInv, UNCHANGED <<rule, time, mixed, planned>>, saved' \in Connections, DOMAIN tab' = Tab,
           \A t \in Tab : tab'[t] = tab[t] \/ tab'[t] = IdleTab \/ (rule # NoRule /\ Pending(tab'[t])),
           running' = running \/ running' = NoRun \/ (rule # NoRule /\ RunHolds(running'))
    PROVE  FormIInv'
<1>1. rule' = rule /\ time' = time /\ mixed' = mixed /\ planned' = planned  OBVIOUS
<1>2. ASSUME NEW w PROVE Pending(w)' <=> Pending(w)  BY <1>1 DEF Pending
<1>3. ASSUME NEW r PROVE RunHolds(r)' <=> RunHolds(r)  BY <1>1 DEF RunHolds, NextAfter
<1>4. \A t \in Tab : (tab[t] = IdleTab \/ (rule # NoRule /\ Pending(tab[t])))'  BY <1>1 DEF FormIInv, Pending
<1>5. (running = NoRun \/ (rule # NoRule /\ RunHolds(running)))'  BY <1>1 DEF FormIInv, RunHolds, NextAfter
<1> QED  BY <1>1, <1>4, <1>5 DEF FormIInv, PlanOf, Sound, IsRow

LEMMA UpdateKeeps ==
    ASSUME FormIInv, NEW t \in Tab, NEW edit \in Edits, Update(t, edit)
    PROVE  FormIInv'
<1> DEFINE w == [at |-> "write", read |-> rule, replans |-> Replans(rule, edit, Patched(rule, edit)),
                 new |-> [Patched(rule, edit) EXCEPT !.next = PlannedNext(rule, edit, Patched(rule, edit))]]
<1>1. /\ rule # NoRule /\ ~rule.deleted /\ Fit(Patched(rule, edit)) /\ tab' = [tab EXCEPT ![t] = w]
      /\ UNCHANGED <<rule, time, mixed, planned>> /\ saved' = saved /\ running' = running
  BY DEF Update
<1>2. IsRow(rule) /\ time \in Nat  BY <1>1 DEF FormIInv
<1>3. Replans(rule, edit, Patched(rule, edit)) \in BOOLEAN  BY DEF Replans
<1>4. /\ IsRow(w.new) /\ Sound(w.new)
      /\ w.replans => w.new.enabled /\ w.new.next = NextRun(w.new.schedule, time)
      /\ ~w.replans => KeepsNext(w) \/ TakesNext(w)
  <2> DEFINE new == Patched(rule, edit)
             next == PlannedNext(rule, edit, new)
  <2>1. new.schedule = [new EXCEPT !.next = next].schedule /\ new.enabled = [new EXCEPT !.next = next].enabled
    BY DEF Patched
  <2>2. [new EXCEPT !.next = next].next = next
    BY <1>2 DEF Patched, IsRow, RuleColumns
  <2>3. w.new = [new EXCEPT !.next = next] /\ w.read = rule /\ w.replans = Replans(rule, edit, new)  OBVIOUS
  <2>4. /\ IsRow([new EXCEPT !.next = next]) /\ Sound([new EXCEPT !.next = next])
        /\ Replans(rule, edit, new) => new.enabled /\ next = NextRun(new.schedule, time)
        /\ ~Replans(rule, edit, new) => \/ ~new.enabled /\ next = Never
                                        \/ new.enabled = rule.enabled /\ next = rule.next /\ (new.enabled => new.schedule = rule.schedule)
    BY <1>1, <1>2, PatchedRow
  <2> HIDE DEF new, next, w
  <2> QED  BY <2>1, <2>2, <2>3, <2>4 DEF KeepsNext, TakesNext
<1>5. w.at = "write" /\ w.read = rule /\ w.replans \in BOOLEAN  BY <1>3
<1>6. Pending(w)
  <2> HIDE DEF w
  <2> QED  BY <1>2, <1>4, <1>5 DEF Pending
<1>7. DOMAIN tab' = Tab /\ \A u \in Tab : tab'[u] = tab[u] \/ tab'[u] = w
  <2> HIDE DEF w
  <2> QED  BY <1>1 DEF FormIInv
<1>8. saved' \in Connections  BY <1>1 DEF FormIInv
<1> HIDE DEF w
<1> QED  BY <1>1, <1>6, <1>7, <1>8, RowStays

LEMMA DeleteKeeps ==
    ASSUME FormIInv, NEW t \in Tab, DeleteRule(t)
    PROVE  FormIInv'
<1> DEFINE new == [rule EXCEPT !.deleted = TRUE, !.enabled = FALSE, !.next = Never]
           w == [at |-> "write", read |-> rule, replans |-> FALSE, new |-> new]
<1>1. /\ rule # NoRule /\ tab' = [tab EXCEPT ![t] = w]
      /\ UNCHANGED <<rule, time, mixed, planned>> /\ saved' = saved /\ running' = running
  BY DEF DeleteRule
<1>2. IsRow(rule) /\ (~mixed => Sound(rule))  BY <1>1 DEF FormIInv
<1>3. new = [c \in RuleColumns |-> new[c]]  BY <1>2 DEF IsRow
<1>4. /\ new.enabled = FALSE /\ new.deleted = TRUE /\ new.next = Never /\ new.schedule = rule.schedule /\ new.exists = rule.exists
      /\ new.source = rule.source /\ new.scope = rule.scope /\ new.conditions = rule.conditions /\ new.prompt = rule.prompt
  BY <1>2 DEF IsRow, RuleColumns
<1> HIDE DEF new
<1>5. IsRow(new)  BY <1>2, <1>3, <1>4 DEF IsRow
<1>6. ~mixed => Sound(new)
  <2>1. ~mixed => Fit(new)  BY <1>2, <1>4 DEF Sound, Fit
  <2> QED  BY <1>2, <1>4, <2>1 DEF Sound
<1>7. w.at = "write" /\ w.read = rule /\ w.replans = FALSE /\ w.new = new  OBVIOUS
<1> HIDE DEF w
<1>8. TakesNext(w)  BY <1>4, <1>7 DEF TakesNext
<1>9. Pending(w)  BY <1>2, <1>5, <1>6, <1>7, <1>8 DEF Pending
<1>10. DOMAIN tab' = Tab /\ \A u \in Tab : tab'[u] = tab[u] \/ tab'[u] = w  BY <1>1 DEF FormIInv
<1>11. saved' \in Connections  BY <1>1 DEF FormIInv
<1> QED  BY <1>1, <1>9, <1>10, <1>11, RowStays

LEMMA SaveKeeps ==
    ASSUME FormIInv, NEW t \in Tab, SaveRule(t)
    PROVE  FormIInv'
<1>0. PICK w : w = tab[t]  OBVIOUS
<1>1. /\ w.at = "write" /\ tab' = [tab EXCEPT ![t] = IdleTab] /\ rule' = WrittenRule(w.read, w.new)
      /\ planned' = IF w.replans THEN [Planned EXCEPT !.raced = Raced(w.read)] ELSE [planned EXCEPT !.raced = @ \/ Raced(w.read)]
      /\ mixed' = (mixed \/ [rule EXCEPT !.next = Never] # [w.read EXCEPT !.next = Never])
      /\ saved' = saved /\ running' = running /\ time' = time
  BY <1>0 DEF SaveRule
<1>2. rule # NoRule /\ Pending(w)  BY <1>0, <1>1 DEF FormIInv, IdleTab
<1>3. IsRow(rule) /\ time \in Nat /\ mixed \in BOOLEAN /\ planned \in Plan /\ PlanOf(rule) /\ planned.at \in Nat  BY <1>2 DEF FormIInv
<1>4. IsRow(w.read) /\ IsRow(w.new) /\ w.replans \in BOOLEAN  BY <1>2 DEF Pending
<1>5. IsRow(rule')  BY <1>1, <1>3, <1>4, WrittenKeepsShape
<1>6. ~mixed' => Sound(rule')  BY <1>1, <1>2, <1>3, <1>4, WrittenUnmixed DEF Pending
<1>7. Raced(w.read) \in BOOLEAN /\ (~Raced(w.read) => rule' = w.new)
  BY <1>1, <1>4, WrittenUnraced DEF Raced
<1>8. /\ planned' \in Plan /\ planned'.at \in Nat
      /\ w.replans => planned'.at = time /\ planned'.raced = Raced(w.read)
      /\ ~w.replans => /\ planned'.at = planned.at /\ planned'.failed = planned.failed
                       /\ ~planned'.raced => ~planned.raced /\ ~Raced(w.read)
  BY <1>1, <1>3, <1>4, <1>7 DEF Plan, Planned
<1>9. /\ ~planned'.raced => (rule'.enabled <=> rule'.next # Never)
      /\ rule'.enabled /\ ~planned'.raced /\ ~planned'.failed => rule'.next = NextRun(rule'.schedule, planned'.at)
  <2>1. CASE w.replans
    <3>1. w.new.enabled /\ w.new.next = NextRun(w.new.schedule, time)  BY <1>2, <2>1 DEF Pending
    <3>2. NextRun(w.new.schedule, time) \in Nat  BY <1>3, <1>4, NextRunAhead DEF IsRow
    <3>3. w.new.next # Never  BY <3>1, <3>2 DEF Never
    <3> QED  BY <1>7, <1>8, <2>1, <3>1, <3>3
  <2>2. CASE ~w.replans /\ ~planned'.raced
    <3>1. rule' = w.new /\ rule = w.read /\ ~planned.raced  BY <1>7, <1>8, <2>2 DEF Raced
    <3>2. CASE TakesNext(w)  BY <3>1, <3>2 DEF TakesNext
    <3>3. CASE KeepsNext(w)  BY <1>3, <1>8, <2>2, <3>1, <3>3 DEF KeepsNext, PlanOf
    <3> QED  BY <1>2, <2>2, <3>2, <3>3 DEF Pending
  <2> QED  BY <2>1, <2>2, <1>4
<1>10. mixed' \in BOOLEAN  BY <1>1, <1>3
<1>11. ASSUME NEW u \in Tab PROVE (tab[u] = IdleTab \/ (rule # NoRule /\ Pending(tab[u])))'
  <2>1. tab'[u] = IdleTab \/ tab'[u] = tab[u]  BY <1>1 DEF FormIInv
  <2>2. CASE tab'[u] = tab[u] /\ tab[u] # IdleTab
    <3>1. Pending(tab[u])  BY <2>2 DEF FormIInv
    <3>2. mixed => mixed'  BY <1>1, <1>3
    <3>3. Pending(tab[u])'  BY <1>1, <2>2, <3>1, <3>2 DEF Pending, IsRow, Sound, KeepsNext, TakesNext
    <3> QED  BY <1>5, <3>3, RowIsThere
  <2> QED  BY <2>1, <2>2
<1>12. (running = NoRun \/ (rule # NoRule /\ RunHolds(running)))'
  BY <1>1, <1>5, RowIsThere DEF FormIInv, RunHolds, NextAfter
<1>13. DOMAIN tab' = Tab /\ saved' \in Connections  BY <1>1 DEF FormIInv
<1> QED  BY <1>1, <1>3, <1>5, <1>6, <1>8, <1>9, <1>10, <1>11, <1>12, <1>13 DEF FormIInv, PlanOf, IsRow, Sound

LEMMA BeginKeeps ==
    ASSUME FormIInv, BeginRun
    PROVE  FormIInv'
<1>1. /\ rule # NoRule /\ running' = [at |-> "run", began |-> rule] /\ UNCHANGED <<rule, time, mixed, planned>>
      /\ saved' = saved /\ tab' = tab
  BY DEF BeginRun
<1>2. RunHolds(running')  BY <1>1 DEF FormIInv, RunHolds
<1> QED  BY <1>1, <1>2, RowStays DEF FormIInv

LEMMA EndKeeps ==
    ASSUME FormIInv, NEW failed \in BOOLEAN, EndRun(failed)
    PROVE  FormIInv'
<1>1. /\ running.at = "run" /\ UNCHANGED <<rule, time, mixed, planned>> /\ saved' = saved /\ tab' = tab
      /\ running' = [at |-> "ended", began |-> running.began, read |-> rule, failed |-> failed,
                     new |-> [rule EXCEPT !.next = After(running, failed)]]
  BY DEF EndRun
<1>2. rule # NoRule /\ IsRow(running.began) /\ IsRow(rule)  BY <1>1 DEF FormIInv, RunHolds, NoRun
<1>3. NextAfter(running') = After(running, failed)  BY <1>1 DEF NextAfter, After
<1>4. running'.at = "ended" /\ running'.began = running.began /\ running'.read = rule /\ running'.failed = failed
      /\ running'.new = [rule EXCEPT !.next = After(running, failed)]
  BY <1>1
<1>5. RunHolds(running')  BY <1>2, <1>3, <1>4 DEF RunHolds
<1> QED  BY <1>1, <1>2, <1>5, RowStays DEF FormIInv

LEMMA ReplanKeeps ==
    ASSUME FormIInv, Replan
    PROVE  FormIInv'
<1>0. PICK r : r = running  OBVIOUS
<1>1. /\ r.at = "ended" /\ running' = NoRun /\ rule' = WrittenRule(r.read, r.new)
      /\ planned' = [at |-> time, failed |-> r.failed, raced |-> Raced(r.read) \/ rule.schedule # r.began.schedule]
      /\ UNCHANGED <<saved, tab, time, mixed>>
  BY <1>0 DEF Replan
<1>2. rule # NoRule /\ RunHolds(r)  BY <1>0, <1>1 DEF FormIInv, NoRun
<1>3. /\ IsRow(r.began) /\ IsRow(r.read) /\ r.failed \in BOOLEAN /\ r.new = [r.read EXCEPT !.next = NextAfter(r)]
      /\ IsRow(rule) /\ time \in Nat /\ (~mixed => Sound(rule))
  BY <1>1, <1>2 DEF RunHolds, FormIInv
<1>4. NextRun(r.began.schedule, time) \in Nat /\ time + Every(r.began.schedule) \in Nat  BY <1>3, NextRunAhead DEF IsRow
<1>5. NextAfter(r) \in Nat \cup {Never} /\ (r.read.enabled <=> NextAfter(r) # Never)
  BY <1>3, <1>4 DEF NextAfter, Never, IsRow
<1>6. r.new = [c \in RuleColumns |-> r.new[c]] /\ r.new.next = NextAfter(r) /\ \A c \in RuleColumns \ {"next"} : r.new[c] = r.read[c]
  BY <1>3 DEF IsRow, RuleColumns
<1>7. IsRow(r.new)  BY <1>3, <1>5, <1>6 DEF IsRow, RuleColumns
<1>8. IsRow(rule')  BY <1>1, <1>3, <1>7, WrittenKeepsShape
<1>9. \A c \in RuleColumns \ {"next"} : rule'[c] = rule[c]  BY <1>1, <1>6 DEF WrittenRule
<1>10. ~mixed' => Sound(rule')
  <2>1. /\ rule'.schedule = rule.schedule /\ rule'.enabled = rule.enabled /\ rule'.deleted = rule.deleted /\ rule'.source = rule.source
        /\ rule'.scope = rule.scope /\ rule'.conditions = rule.conditions /\ rule'.prompt = rule.prompt
    BY <1>9 DEF RuleColumns
  <2>2. ~mixed => Fit(rule')  BY <1>3, <2>1 DEF Sound, Fit
  <2> QED  BY <1>1, <1>3, <2>1, <2>2 DEF Sound
<1>11. planned' \in Plan /\ planned'.at = time /\ planned'.failed = r.failed /\ (~planned'.raced => rule = r.read /\ rule.schedule = r.began.schedule)
  BY <1>1, <1>3 DEF Plan, Raced
<1>12. /\ ~planned'.raced => (rule'.enabled <=> rule'.next # Never)
       /\ rule'.enabled /\ ~planned'.raced /\ ~planned'.failed => rule'.next = NextRun(rule'.schedule, planned'.at)
  <2> SUFFICES ASSUME ~planned'.raced
               PROVE  /\ rule'.enabled <=> rule'.next # Never
                      /\ rule'.enabled /\ ~planned'.failed => rule'.next = NextRun(rule'.schedule, planned'.at)
    OBVIOUS
  <2>1. rule' = r.new  BY <1>1, <1>3, <1>7, <1>11, WrittenUnraced
  <2>2. rule'.next = NextAfter(r) /\ rule'.enabled = r.read.enabled /\ rule'.schedule = r.began.schedule
    BY <2>1, <1>6, <1>11 DEF RuleColumns
  <2> QED  BY <1>5, <1>11, <2>2 DEF NextAfter
<1>13. \A t \in Tab : (tab[t] = IdleTab \/ (rule # NoRule /\ Pending(tab[t])))'
  BY <1>1, <1>8, RowIsThere DEF FormIInv, Pending, IsRow, Sound, KeepsNext, TakesNext
<1> QED  BY <1>1, <1>3, <1>8, <1>10, <1>11, <1>12, <1>13 DEF FormIInv, PlanOf, IsRow, Sound

LEMMA TimeKeeps ==
    ASSUME FormIInv, TimePasses
    PROVE  FormIInv'
<1>1. /\ time' = time + 1 /\ (\A t \in Tab : tab[t] = IdleTab) /\ running.at # "ended"
      /\ UNCHANGED <<saved, rule, tab, running, mixed, planned>>
  BY DEF TimePasses
<1>2. time' \in Nat  BY <1>1 DEF FormIInv
<1>3. (running = NoRun \/ (rule # NoRule /\ RunHolds(running)))'  BY <1>1 DEF FormIInv, RunHolds, IsRow
<1> QED  BY <1>1, <1>2, <1>3 DEF FormIInv, PlanOf, Sound, IsRow

LEMMA FormStep == FormIInv /\ [FormRowNext]_formRowVars => FormIInv'
<1> SUFFICES ASSUME FormIInv, [FormRowNext]_formRowVars PROVE FormIInv'  OBVIOUS
<1>1. CASE \E posted \in Posts : Create(posted)  BY <1>1, CreateKeeps
<1>2. CASE \E t \in Tab : SaveRule(t)  BY <1>2, SaveKeeps
<1>3. CASE \E t \in Tab : DeleteRule(t)  BY <1>3, DeleteKeeps
<1>4. CASE \E t \in Tab, edit \in Edits : Update(t, edit)  BY <1>4, UpdateKeeps
<1>5. CASE WorkerRuns \/ RunNow  BY <1>5, BeginKeeps DEF WorkerRuns, RunNow
<1>6. CASE Replan  BY <1>6, ReplanKeeps
<1>7. CASE TimePasses  BY <1>7, TimeKeeps
<1>8. CASE \E failed \in BOOLEAN : EndRun(failed)  BY <1>8, EndKeeps
<1>9. CASE \E conn \in Connections : SaveSettings(conn)
  <2>1. PICK conn \in Connections : SaveSettings(conn)  BY <1>9
  <2>2. UNCHANGED <<rule, time, mixed, planned>> /\ saved' = conn /\ tab' = tab /\ running' = running  BY <2>1 DEF SaveSettings
  <2> QED  BY <2>2, RowStays DEF FormIInv
<1>10. CASE UNCHANGED formRowVars
  <2>1. UNCHANGED <<rule, time, mixed, planned>> /\ saved' = saved /\ tab' = tab /\ running' = running  BY <1>10 DEF formRowVars
  <2> QED  BY <2>1, RowStays DEF FormIInv
<1> QED  BY <1>1, <1>2, <1>3, <1>4, <1>5, <1>6, <1>7, <1>8, <1>9, <1>10 DEF FormRowNext

\* Whatever is posted, patched and deleted beside whatever run, the delegation keeps the next run
\* its schedule asks for, holds what a run can work with, and the form tells beforehand what is
\* accepted and taken.
THEOREM DelegationsStayRunnable == FormSpec => []RuleStaysRunnable
<1>1. FormRowInit => FormIInv  BY FormStarts
<1>2. FormIInv /\ [FormRowNext]_formRowVars => FormIInv'  BY FormStep
<1>3. FormIInv => RuleStaysRunnable  BY InvariantSays
<1> QED  BY <1>1, <1>2, <1>3, PTL DEF FormSpec
================================================================================
