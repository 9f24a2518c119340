---------------------------- MODULE SessionShares ----------------------------
(***************************************************************************)
(* A member shares one session read-only.  Who opens the link sees the     *)
(* transcript as the runtime has it: a read of the runtime serves everyone *)
(* who opens the link within a few seconds, and everyone who opens it      *)
(* while the read is under way waits for that one.  Only a signed-in       *)
(* member's Refresh reads again at once.                                   *)
(***************************************************************************)
EXTENDS Integers, Sequences, SequencesExt, FiniteSets

CONSTANTS
    Owner,          \* requests of members who may write to the assistant
    Viewer,         \* requests that open the link
    Insiders,       \* those of them with the session of an allowlisted member
    Refreshes,      \* those that ask for a fresh read
    Files,          \* those for an image of the transcript
    AnyoneEnabled,  \* the deployment lets links be open to anyone
    Session,        \* the messages the session will have had
    TTL,            \* how long a read is served again
    Patience,       \* how long the Portal waits for the runtime
    Nobody,         \* not a request
    MaxTokens, MaxInstant, MaxChanges   \* bounds: links made, time, what members and assistants do

ASSUME SharesAssumption ==
    /\ Insiders \cup Refreshes \cup Files \subseteq Viewer /\ Nobody \notin Viewer
    /\ TTL \in Nat \ {0} /\ Patience \in Nat /\ AnyoneEnabled \in BOOLEAN /\ MaxTokens \in Nat \ {0}

VARIABLES
    share,          \* the row of the session: its token (0: none) and scope
    tokens,         \* links made so far
    asks,           \* what each owner's request read before it writes
    assistant,      \* "running", "stopped", "deleted"
    said,           \* messages of the session at the runtime, -1 once deleted
    instant,
    cached,         \* per token: the transcript kept and when it expires
    inflight,       \* per token: the request whose read the others wait for
    viewer,         \* each viewer's request
    changes         \* what members and assistants did so far

shareVars == <<share, tokens, asks, assistant, said, instant, cached, inflight, viewer, changes>>

Token     == 1..MaxTokens
NoShare   == [token |-> 0, scope |-> "members"]
NoAsk     == [token |-> -1, scope |-> "members"]
NoEntry   == [until |-> 0, answer |-> [status |-> "none"]]
Request(at) == [at |-> at, token |-> 0, since |-> 0, awaits |-> Nobody, answer |-> [status |-> "none"], shared |-> "members"]

ShareInit ==
    /\ share \in {NoShare} \cup [token : {1}, scope : {"members", "anyone"}]
    /\ tokens = share.token /\ asks = [o \in Owner |-> NoAsk]
    /\ assistant = "running" /\ said = 1 /\ instant = 0 /\ changes = 0
    /\ cached = [t \in Token |-> NoEntry] /\ inflight = [t \in Token |-> Nobody]
    /\ viewer = [v \in Viewer |-> Request("idle")]

-----------------------------------------------------------------------------
(* The transcript a viewer gets.                                           *)

\* Insiders' words and attachments, answers, and what a member answered when the assistant
\* asked: never system messages or the results of tools.
Attached(m) == m.images \cup m.others
Rendered(m) == m.text \/ m.blocks
Answers(m)  == m.role = "tool" /\ m.answered
ShownTo(m)    == \/ m.role = "user" /\ (m.text \/ Attached(m) # {})
                 \/ m.role = "assistant" /\ Rendered(m)
                 \/ Answers(m)
Projected(n)  == SelectSeq(SubSeq(Session, 1, n), ShownTo)
\* Only raster images of what is shown: never a file, SVG included.
FileIds(msgs) == UNION {IF msgs[i].role = "user" THEN msgs[i].images ELSE {} : i \in DOMAIN msgs}
Transcript(n) == [status |-> "ok", messages |-> Projected(n), files |-> FileIds(Projected(n)), read |-> instant]
Unavailable(why) == [status |-> why]

-----------------------------------------------------------------------------
(* Sharing, changing the audience and revoking.                            *)

Changes == changes < MaxChanges /\ changes' = changes + 1

\* Anyone is refused when the deployment does not allow it; the row is looked up first.
AskShare(o, scope) ==
    /\ asks[o] = NoAsk /\ assistant # "deleted"
    /\ scope = "anyone" => AnyoneEnabled
    /\ asks' = [asks EXCEPT ![o] = [token |-> share.token, scope |-> scope]]
    /\ Changes /\ UNCHANGED <<share, tokens, assistant, said, instant, cached, inflight, viewer>>

\* The session has one row: a second one, or an update of one that is gone, fails.
WriteShare(o) ==
    /\ asks[o] # NoAsk
    /\ \/ /\ asks[o].token = 0 /\ share.token = 0 /\ tokens < MaxTokens
          /\ tokens' = tokens + 1 /\ share' = [token |-> tokens + 1, scope |-> asks[o].scope]
       \/ /\ asks[o].token = share.token /\ share.token # 0
          /\ share' = [share EXCEPT !.scope = asks[o].scope] /\ UNCHANGED tokens
       \/ asks[o].token # share.token /\ UNCHANGED <<share, tokens>>
    /\ asks' = [asks EXCEPT ![o] = NoAsk]
    /\ UNCHANGED <<assistant, said, instant, cached, inflight, viewer, changes>>

Dropped == [cached EXCEPT ![share.token] = NoEntry]
Revoke ==
    /\ share.token # 0 /\ assistant # "deleted"
    /\ share' = NoShare /\ cached' = Dropped
    /\ Changes /\ UNCHANGED <<tokens, asks, assistant, said, instant, inflight, viewer>>

\* The runtime's session first, then the link, best effort; what was read stays cached.
DeleteSession ==
    /\ said >= 0 /\ assistant = "running" /\ said' = -1
    /\ share' \in {NoShare, share}
    /\ Changes /\ UNCHANGED <<tokens, asks, assistant, instant, cached, inflight, viewer>>

DeleteAgent ==
    /\ assistant # "deleted" /\ assistant' = "deleted"
    /\ share' = NoShare
    /\ cached' = IF share.token = 0 THEN cached ELSE Dropped
    /\ Changes /\ UNCHANGED <<tokens, asks, said, instant, inflight, viewer>>

StopAssistant  == /\ assistant \in {"running", "stopped"}
                  /\ assistant' = IF assistant = "running" THEN "stopped" ELSE "running"
                  /\ Changes /\ UNCHANGED <<share, tokens, asks, said, instant, cached, inflight, viewer>>
Say            == /\ said \in 0..(Len(Session) - 1) /\ assistant = "running" /\ said' = said + 1
                  /\ Changes /\ UNCHANGED <<share, tokens, asks, assistant, instant, cached, inflight, viewer>>

-----------------------------------------------------------------------------
(* Opening the link.  A request runs on the event loop up to its next      *)
(* await, so that the gate, the cache and the reads under way are looked   *)
(* at in one step.                                                         *)

EffectiveScope == IF share.scope = "anyone" /\ ~AnyoneEnabled THEN "members" ELSE share.scope
MayOpen(v)     == EffectiveScope = "anyone" \/ v \in Insiders

Ends(v)        == [viewer EXCEPT ![v] = Request("done")]

\* Mutant: a transcript is served at the moment it expires too.
LiveAlso(t) == cached[t].answer.status # "none" /\ cached[t].until >= instant
Live(t)     == cached[t].answer.status # "none" /\ cached[t].until > instant

Denied(v) ==
    /\ viewer[v].at = "idle" /\ tokens > 0
    /\ share.token = 0 \/ ~MayOpen(v) \/ assistant = "deleted"
    /\ viewer' = Ends(v)
    /\ UNCHANGED <<share, tokens, asks, assistant, said, instant, cached, inflight, changes>>

\* A file is looked for in the transcript, which may come from the cache; a visitor's
\* Refresh is served from it too.
Open(v) ==
    LET t == share.token
        opened == [viewer[v] EXCEPT !.token = t, !.shared = EffectiveScope]
        fresh == v \in Refreshes \cap Insiders
    IN  /\ viewer[v].at = "idle" /\ t # 0 /\ MayOpen(v) /\ assistant # "deleted"
        /\ \/ /\ assistant = "stopped"
              /\ viewer' = [viewer EXCEPT ![v] = [opened EXCEPT !.at = "loaded", !.answer = Unavailable("stopped")]]
              /\ UNCHANGED inflight
           \/ /\ assistant = "running" /\ ~fresh /\ Live(t)
              /\ viewer' = [viewer EXCEPT ![v] = [opened EXCEPT !.at = "loaded", !.answer = cached[t].answer]]
              /\ UNCHANGED inflight
           \/ /\ assistant = "running" /\ ~fresh /\ ~Live(t) /\ inflight[t] # Nobody
              /\ viewer' = [viewer EXCEPT ![v] = [opened EXCEPT !.at = "waiting", !.awaits = inflight[t]]]
              /\ UNCHANGED inflight
           \/ /\ assistant = "running" /\ (fresh \/ (~Live(t) /\ inflight[t] = Nobody))
              /\ viewer' = [viewer EXCEPT ![v] = [opened EXCEPT !.at = "reading", !.since = instant]]
              /\ inflight' = [inflight EXCEPT ![t] = v]
    /\ UNCHANGED <<share, tokens, asks, assistant, said, instant, cached, changes>>

\* The runtime answers with what it has at some moment of the call; a missing session is its 404, anything
\* else that goes wrong, a timeout too, is one fixed sentence.
RuntimeAnswers(v) ==
    /\ viewer[v].at = "reading"
    /\ \E answer \in {Unavailable("unreachable")} \cup
                     (IF assistant # "running" THEN {} ELSE IF said < 0 THEN {Unavailable("missing")} ELSE {Transcript(said)}) :
         viewer' = [viewer EXCEPT ![v].at = "answered", ![v].answer = answer]
    /\ UNCHANGED <<share, tokens, asks, assistant, said, instant, cached, inflight, changes>>

\* When a read began matters to a member's Refresh only.
Since(v) == IF v \in Refreshes \cap Insiders THEN viewer[v].since ELSE 0
\* Mutant: only the read that is still the current one releases who waits.
ReleaseCurrent(v, answer) ==
    [w \in Viewer |-> IF w = v \/ (viewer[w].at = "waiting" /\ viewer[w].awaits = v /\ inflight[viewer[v].token] = v)
                      THEN [viewer[w] EXCEPT !.at = "loaded", !.answer = answer, !.awaits = Nobody, !.since = Since(w)] ELSE viewer[w]]
\* The one who read keeps the transcript and releases who waits: all of them, whether a
\* Refresh has taken the read's place or the one who read is gone.
Release(v, answer) ==
    [w \in Viewer |-> IF w = v \/ (viewer[w].at = "waiting" /\ viewer[w].awaits = v)
                      THEN [viewer[w] EXCEPT !.at = "loaded", !.answer = answer, !.awaits = Nobody, !.since = Since(w)] ELSE viewer[w]]
Landed(v) == inflight' = [t \in Token |-> IF inflight[t] = v THEN Nobody ELSE inflight[t]]
Keep(v) ==
    /\ viewer[v].at = "answered"
    /\ cached' = [t \in Token |-> IF t = viewer[v].token THEN [until |-> instant + TTL, answer |-> viewer[v].answer]
                                  ELSE IF Live(t) THEN cached[t] ELSE NoEntry]
    /\ viewer' = Release(v, viewer[v].answer) /\ Landed(v)
    /\ UNCHANGED <<share, tokens, asks, assistant, said, instant, changes>>
Cancelled(v) ==
    /\ viewer[v].at \in {"reading", "answered"}
    /\ viewer' = Release(v, Unavailable("failed")) /\ Landed(v)
    /\ UNCHANGED <<share, tokens, asks, assistant, said, instant, cached, changes>>

\* A file must be one the transcript shows, and what the runtime serves a raster image.
Serve(v) ==
    /\ viewer[v].at = "loaded"
    /\ \/ viewer' = Ends(v)
       \/ /\ v \in Files /\ viewer[v].answer.status = "ok" /\ viewer[v].answer.files # {}
          /\ viewer' = [viewer EXCEPT ![v].at = "file"]
    /\ UNCHANGED <<share, tokens, asks, assistant, said, instant, cached, inflight, changes>>
ServeFile(v) ==
    /\ viewer[v].at = "file"
    /\ viewer' = Ends(v)
    /\ UNCHANGED <<share, tokens, asks, assistant, said, instant, cached, inflight, changes>>

\* No read of the runtime outlasts the Portal's patience; the event loop takes no time.
TimeGoesOn ==
    /\ instant < MaxInstant /\ instant' = instant + 1
    /\ \A v \in Viewer : /\ viewer[v].at # "loaded"
                         /\ viewer[v].at \in {"reading", "answered"} => instant < viewer[v].since + Patience
    /\ UNCHANGED <<share, tokens, asks, assistant, said, cached, inflight, viewer, changes>>

Loads(v) == RuntimeAnswers(v) \/ Keep(v) \/ Serve(v) \/ ServeFile(v)

ShareNext ==
    \/ \E o \in Owner : WriteShare(o) \/ \E scope \in {"members", "anyone"} : AskShare(o, scope)
    \/ \E v \in Viewer : Open(v) \/ Denied(v) \/ Cancelled(v) \/ Loads(v)
    \/ Revoke \/ DeleteSession \/ DeleteAgent \/ StopAssistant \/ Say \/ TimeGoesOn

\* The event loop resumes some request whose await is over; the call of the runtime ends.
ShareFairness == WF_shareVars(\E v \in Viewer : Loads(v))

-----------------------------------------------------------------------------
\* A transcript is never older than the cache and one read may make it, whichever read a
\* viewer's request waited for, a member's Refresh shows what the runtime had after the
\* click, and a visitor sees a transcript only if the link was open to anyone.
AnswersAreRecent ==
    \A v \in Viewer : LET r == viewer[v] IN
        r.at = "loaded" /\ r.answer.status = "ok" =>
            /\ instant - r.answer.read < TTL + Patience
            /\ v \in Refreshes \cap Insiders => r.answer.read >= r.since
            /\ v \in Insiders \/ r.shared = "anyone"

\* Whoever waits for a transcript gets an answer: requests that are open do not stay so.
AllAnswered     == \A v \in Viewer : viewer[v].at \in {"idle", "done"}
ViewersAnswered == ~AllAnswered ~> AllAnswered
=============================================================================
