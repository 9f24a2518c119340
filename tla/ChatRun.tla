------------------------------- MODULE ChatRun -------------------------------
(***************************************************************************)
(* A chat through the Portal: the gate of the proxy, the body made fit for *)
(* the runtime, the execution row written before and after, and the stream *)
(* passed through while its events are watched.  Requests share nothing    *)
(* but the tables; every write of a row is best effort.                    *)
(***************************************************************************)
EXTENDS Integers, Sequences

CONSTANTS
    Chat,           \* requests
    Visible,        \* the assistant is public
    Enabled,        \* connectors the member has on
    Models,         \* models the assistant's profile offers
    Saved,          \* the model saved for the session, "" for none
    MaxEvents       \* bound: terminal events of a stream

VARIABLES
    agentUp,        \* the assistant's row says running
    chat            \* every request: where it is, its row, what was sent and what came back

chatVars == <<agentUp, chat>>

Roles  == {"admin", "owner", "other"}
Paths  == [kind : {"chat", "stream", "events", "socket", "get"}, write : {FALSE}, shut : {""}]
            \cup [kind : {"respond", "get"}, write : {TRUE}, shut : {""}]
            \cup [kind : {"get"}, write : {FALSE}, shut : {"removed", "internal"}]
\* What a page may put into a body: a model of its own, connectors it asks for, and
\* metadata only the Portal may vouch for.
Bodies == [kind : {"json"}, model : {"", "m1", "gone"}, asks : {{}, {"bridge", "other"}}, forged : BOOLEAN]
            \cup [kind : {"text", "broken"}, model : {""}, asks : {{}}, forged : {FALSE}]
NoBody == [kind |-> "json", model |-> "", asks |-> {}, forged |-> FALSE]

Unsent == [model |-> "", connectors |-> {}, browser |-> FALSE, forged |-> FALSE]
Request0 == [at |-> "idle", path |-> [kind |-> "get", write |-> FALSE, shut |-> ""], sent |-> Unsent, row |-> "none", code |-> 0,
             final |-> "none", error |-> "none", told |-> <<>>, logged |-> 0, left |-> "no"]
ChatInit == agentUp = TRUE /\ chat = [r \in Chat |-> Request0]

-----------------------------------------------------------------------------
(* Who may ask for what.                                                   *)

CanAccess(role) == role \in {"admin", "owner"} \/ Visible
CanWrite(role)  == role \in {"admin", "owner"}
Refusal(role, path) ==
    CASE ~CanAccess(role)            -> 403
      [] path.shut = "removed"       -> 410
      [] path.shut = "internal"      -> 403
      [] path.write /\ ~CanWrite(role) -> 403
      [] ~agentUp                    -> 409
      [] OTHER                       -> 200

Executes(path) == path.kind \in {"chat", "stream"}      \* has a row of its own
Turn(path)     == Executes(path) \/ path.kind = "respond"

\* The request's own model counts before the one saved for the session; a model that the
\* assistant's profile does not offer is refused.
Chosen(body) == IF body.model # "" THEN body.model ELSE Saved
BodyRefusal(body) ==
    CASE body.kind = "text" -> 415 [] body.kind = "broken" -> 400
      [] body.kind = "json" /\ Chosen(body) \notin Models \cup {""} -> 422 [] OTHER -> 200

\* What the page asks for is dropped from the body; a connector goes in when the member
\* has it on, and the browser tool with the bridge.
Injected(wants) == wants \cap Enabled
Forwarded(body) ==
    [model |-> Chosen(body), connectors |-> Injected(body.asks), browser |-> "bridge" \in Injected(body.asks), forged |-> FALSE]

-----------------------------------------------------------------------------
(* The row of a run.                                                       *)

ChatAt(r, at) == chat[r].at = at
Put(r, c)     == chat' = [chat EXCEPT ![r] = c] /\ UNCHANGED agentUp

\* A run that ends failed or stale is recorded in the error log, once for each change.
Marked(c, status) ==
    [c EXCEPT !.at = "ended", !.row = status,
              !.logged = @ + (IF status \in {"failed", "stale"} /\ c.row # status THEN 1 ELSE 0)]
\* The run is over and its row, where there is one, was left as it is: why.
Ways == {"unwritten", "no address", "unwatched", "stopped"}
Leaves(c, why) == [c EXCEPT !.at = "ended", !.left = why]
\* No row, or a write that fails and is forgotten.
EndWith(r, status) ==
    \/ Put(r, Leaves(chat[r], "unwritten"))
    \/ chat[r].row # "none" /\ Put(r, Marked(chat[r], status))

\* Of each kind of event the last one is kept; its content may be empty.
Kinds   == {"final", "error"}
Watched(c, event) ==
    [c EXCEPT !.told = Append(@, event), !.final = IF event[1] = "final" THEN event[2] ELSE @,
              !.error = IF event[1] = "error" THEN event[2] ELSE @]
Content(payload) == payload \notin {"none", "bare"}

Terminal(code, payload) ==
    CASE code >= 400 -> "failed" [] code < 400 /\ payload = "none" -> "stale"
      [] code < 400 /\ payload \in {"failed", "incomplete"} -> "failed" [] OTHER -> "succeeded"
\* Mutant: a final event hides the error that came with it.
OutcomeFinalFirst(c, broken) ==
    IF ~Content(c.final) THEN "stale" ELSE IF broken THEN "failed" ELSE Terminal(c.code, c.final)
\* An error event or a broken stream is a failure, a stream without a final event stale;
\* an event without any content counts as none.
Outcome(c, broken) ==
    IF Content(c.error) \/ broken THEN "failed"
    ELSE IF ~Content(c.final) THEN "stale" ELSE Terminal(c.code, c.final)

-----------------------------------------------------------------------------
TurnedAway(role, path, body) ==
    IF Refusal(role, path) # 200 THEN Refusal(role, path)
    ELSE IF Turn(path) /\ body # NoBody THEN BodyRefusal(body) ELSE 200
Ask(r, role, path, body) ==
    /\ ChatAt(r, "idle")
    /\ \/ /\ TurnedAway(role, path, body) # 200
          /\ Put(r, [chat[r] EXCEPT !.at = "ended", !.code = TurnedAway(role, path, body)])
       \/ /\ TurnedAway(role, path, body) = 200
          /\ Put(r, [chat[r] EXCEPT
                !.path = path, !.sent = IF Turn(path) /\ body # NoBody THEN Forwarded(body) ELSE Unsent,
                !.at = IF Executes(path) /\ body # NoBody THEN "record"
                       ELSE IF path.kind \in {"stream", "events", "socket"} THEN "open" ELSE "forward"])

\* The run is on record before the runtime hears of it.
RecordStarted(r) ==
    /\ ChatAt(r, "record")
    /\ \E row \in {"running", "none"} :
         Put(r, [chat[r] EXCEPT !.row = row, !.at = IF chat[r].path.kind = "stream" THEN "open" ELSE "forward"])

\* An assistant without an address is refused at once, the row stays as it is.
NoAddress(r) == ChatAt(r, "open") /\ Put(r, [Leaves(chat[r], "no address") EXCEPT !.code = 502])
OpenFails(r) == ChatAt(r, "open") /\ EndWith(r, "failed")
Opened(r)    == /\ ChatAt(r, "open")
                /\ \E code \in {200, 500} : Put(r, [chat[r] EXCEPT !.at = "opened", !.code = code])

\* The page may be gone before the first byte is asked for: nobody watches the stream then.
GoneBefore(r) == ChatAt(r, "opened") /\ Put(r, Leaves(chat[r], "unwatched"))
Relays(r)     == ChatAt(r, "opened") /\ chat[r].path.kind # "socket" /\ Put(r, [chat[r] EXCEPT !.at = "streaming"])

StreamEvents == Kinds \X {"ok", "failed", "incomplete", "bare"} \cup {<<"done", "ok">>}
Passes(r, event) ==
    /\ ChatAt(r, "streaming") /\ Len(chat[r].told) < MaxEvents
    /\ Put(r, Watched(chat[r], event))
\* The runtime closed the stream or the page left; or the connection broke.
StreamEnds(r) == ChatAt(r, "streaming") /\ \E broken \in BOOLEAN : EndWith(r, Outcome(chat[r], broken))

\* The page's websocket and the runtime's end together, whichever ends first.
SocketEnds(r) == ChatAt(r, "opened") /\ chat[r].path.kind = "socket" /\ Put(r, [chat[r] EXCEPT !.at = "ended"])

\* A whole answer: JSON, which may be empty, or something else.
Answered(r) ==
    /\ ChatAt(r, "forward")
    /\ \E code \in {200, 500}, payload \in {"ok", "failed", "incomplete", "bare", "none"} :
         \/ Put(r, [Leaves(chat[r], "unwritten") EXCEPT !.code = code])
         \/ /\ chat[r].row # "none"
            /\ Put(r, Marked([Watched(chat[r], <<"final", payload>>) EXCEPT !.code = code], Terminal(code, payload)))
ForwardFails(r) == ChatAt(r, "forward") /\ EndWith(r, "failed")

PortalStops == /\ \E r \in Chat : chat[r].at \notin {"idle", "ended"}
               /\ chat' = [r \in Chat |-> IF chat[r].at \in {"idle", "ended"} THEN chat[r] ELSE Leaves(chat[r], "stopped")]
               /\ UNCHANGED agentUp
AgentStops  == agentUp /\ agentUp' = FALSE /\ UNCHANGED chat

ChatStep(r) ==
    \/ RecordStarted(r) \/ NoAddress(r) \/ OpenFails(r) \/ Opened(r) \/ GoneBefore(r) \/ Relays(r)
    \/ StreamEnds(r) \/ SocketEnds(r) \/ Answered(r) \/ ForwardFails(r)
ChatNext ==
    \/ \E r \in Chat : ChatStep(r) \/ \E e \in StreamEvents : Passes(r, e)
    \/ \E r \in Chat, role \in Roles, path \in Paths, body \in Bodies \cup {NoBody} : Ask(r, role, path, body)
    \/ PortalStops \/ AgentStops

-----------------------------------------------------------------------------
\* A row says succeeded only when the last final event the member got says so, no error
\* stands and the runtime's own status is no error: a whole answer counts as well when it
\* is empty.  A run that is over is over on its row too, but in four cases, in which the row
\* says running for ever: the write failed; the assistant had no address when a stream was to
\* be opened; the page left before the stream was first read; the Portal stopped.  A failure
\* is in the error log once; and nothing reaches the runtime that only the Portal may vouch
\* for.
Latest(told, kind, payload) ==
    \E i \in DOMAIN told : told[i] = <<kind, payload>> /\ \A j \in (i + 1)..Len(told) : told[j][1] # kind
RowTellsRun ==
    \A r \in Chat : LET c == chat[r] IN
        /\ c.row = "succeeded" =>
             /\ c.code < 400
             /\ \A payload \in {"ok", "failed", "incomplete"} : ~Latest(c.told, "error", payload)
             /\ Latest(c.told, "final", "ok") \/ (c.path.kind = "chat" /\ Latest(c.told, "final", "bare"))
        /\ c.at = "ended" /\ c.row = "running" => c.left \in Ways
        /\ c.left \in Ways => c.row \in {"none", "running"}
        /\ c.left \in {"no address", "unwatched"} => c.told = <<>> /\ c.path.kind \notin {"chat", "get", "respond"}
        /\ c.logged = IF c.row \in {"failed", "stale"} THEN 1 ELSE 0
        /\ ~c.sent.forged /\ c.sent.connectors \subseteq Enabled /\ c.sent.model \in Models \cup {""}
        /\ c.sent.browser => "bridge" \in Enabled
=============================================================================
