------------------------------- MODULE ErrorLog -------------------------------
(***************************************************************************)
(* The Portal's error log.  Warnings of its own loggers go through a       *)
(* budget and a bounded queue to one writer thread, which also prunes the  *)
(* table; responses of 500 and more are written by the threads that served *)
(* them.  A problem that repeats within a window bumps the count of its    *)
(* row.  SQLite runs one writing transaction at a time: what a commit      *)
(* writes it writes at once, what it was computed from was read before.    *)
(***************************************************************************)
EXTENDS Integers, Sequences, FiniteSets

CONSTANTS
    Problem,        \* fingerprint, member, assistant and path of what went wrong
    Writer,         \* threads the handler may start, one after the other
    Server,         \* threads that serve requests
    QueueSize, Budget, DedupWindow, Retention, Cap,
    GroupLimit,     \* groups the page shows at most
    MaxSeen, MaxClock   \* bounds: events of the run, time

ASSUME ErrorLogAssumption ==
    /\ QueueSize \in Nat \ {0} /\ Budget \in Nat /\ DedupWindow \in Nat /\ Retention \in Nat /\ Cap \in Nat
    /\ GroupLimit \in Nat /\ Writer # {}

VARIABLES
    events,         \* the rows of error_events
    eventId,        \* ids given so far
    queue,          \* payloads handed to the writer
    writer,         \* what each writer thread does and holds
    stopping,       \* the handler was closed
    spent, minute,  \* the budget of the current minute
    pruneDue,       \* an hour has passed since the last prune
    server,         \* what each serving thread does and holds
    clock,
    emitted, dropped, written, lost,    \* records: let through by the level, and what became of them
    pruned,         \* history: occurrences of log rows that were pruned
    seen            \* history: events so far

errVars == <<events, eventId, queue, writer, stopping, spent, minute, pruneDue, server, clock,
             emitted, dropped, written, lost, pruned, seen>>

None0    == [id |-> 0]
Row(source, p, at) == [source |-> source, problem |-> p, at |-> at]
Resting(place)     == [at |-> place, holds |-> None0, found |-> None0]

ErrInit ==
    /\ events = {} /\ eventId = 0 /\ queue = <<>> /\ server = [s \in Server |-> Resting("idle")]
    /\ writer = [w \in Writer |-> Resting("off")] /\ stopping = FALSE
    /\ spent = 0 /\ minute = 0 /\ pruneDue = FALSE /\ clock = 0
    /\ emitted = 0 /\ dropped = 0 /\ written = 0 /\ lost = 0 /\ pruned = 0 /\ seen = 0

\* The newest row of the same problem seen within the window of it.
Candidates(r) == {e \in events : e.source = r.source /\ e.problem = r.problem /\ e.last >= r.at - DedupWindow}
Newest(rows)  == CHOOSE e \in rows : \A o \in rows : <<o.last, o.id>> = <<e.last, e.id>> \/ o.last < e.last
                                                       \/ (o.last = e.last /\ o.id < e.id)
Existing(r)   == IF Candidates(r) = {} THEN None0 ELSE Newest(Candidates(r))

\* The commit: a row found is written back with the count read then, unless it is gone
\* by now; otherwise a row is added.
Fits(found)   == found = None0 \/ \E e \in events : e.id = found.id
Bumped(found, r) == [found EXCEPT !.count = @ + 1, !.last = IF @ < r.at THEN r.at ELSE @]
Insert(r)     == [id |-> eventId + 1, source |-> r.source, problem |-> r.problem, first |-> r.at, last |-> r.at, count |-> 1]
Recorded(found, r) ==
    IF found = None0 THEN events' = events \cup {Insert(r)} /\ eventId' = eventId + 1
    ELSE /\ events' = {e \in events : e.id # found.id} \cup {Bumped(found, r)}
         /\ UNCHANGED eventId

-----------------------------------------------------------------------------
(* The Portal's loggers.  The handler's lock serialises emit.              *)

Alive(w) == writer[w].at # "off"

\* Mutant: a second writer is started beside the living one.
StartWriterAnyway ==
    \E w \in Writer : ~Alive(w) /\ stopping' = FALSE /\ writer' = [writer EXCEPT ![w] = Resting("loop")]

\* A dead writer is replaced, and with it the order to stop.
EnsureWriter ==
    IF \E w \in Writer : Alive(w) THEN UNCHANGED <<writer, stopping>>
    ELSE stopping' = FALSE /\ writer' = [writer EXCEPT ![CHOOSE w \in Writer : TRUE] = Resting("loop")]

\* A record of an app logger, at the level or above, of a thread that is not writing events.
Emit(p) ==
    /\ seen < MaxSeen /\ seen' = seen + 1
    /\ emitted' = emitted + 1
    /\ minute' = clock
    /\ spent' = (IF minute = clock THEN spent ELSE 0) + 1
    /\ IF spent' > Budget THEN dropped' = dropped + 1 /\ UNCHANGED <<queue, writer, stopping>>
       ELSE /\ EnsureWriter
            /\ IF Len(queue) = QueueSize THEN dropped' = dropped + 1 /\ UNCHANGED queue
               ELSE queue' = Append(queue, Row("log", p, clock)) /\ UNCHANGED dropped
    /\ UNCHANGED <<events, eventId, pruneDue, server, clock, written, lost, pruned>>

\* In its loop, and when it drains what is left after the order to stop.
Take(w) ==
    /\ writer[w].at \in {"loop", "drain"} /\ queue # <<>>
    /\ writer' = [writer EXCEPT ![w] = [at |-> IF @.at = "loop" THEN "hand" ELSE "drained", holds |-> Head(queue), found |-> None0]]
    /\ queue' = Tail(queue)
    /\ UNCHANGED <<events, eventId, stopping, spent, minute, pruneDue, server, clock, emitted, dropped, written, lost, pruned, seen>>

Holding == {"hand", "drained"}
Look(w) ==
    /\ writer[w].at \in Holding
    /\ writer' = [writer EXCEPT ![w].found = Existing(writer[w].holds), ![w].at = IF @ = "hand" THEN "found" ELSE "drain found"]
    /\ UNCHANGED <<events, eventId, queue, stopping, spent, minute, pruneDue, server, clock, emitted, dropped, written, lost, pruned, seen>>

\* After a write of the loop the table may be pruned; a failed write is counted apart.
Rest(w) == IF writer[w].at = "found" THEN "prune" ELSE "drain"
WriterWrites(w) ==
    /\ writer[w].at \in {"found", "drain found"}
    /\ writer' = [writer EXCEPT ![w] = Resting(Rest(w))]
    /\ \/ /\ Fits(writer[w].found) /\ Recorded(writer[w].found, writer[w].holds)
          /\ written' = written + 1 /\ UNCHANGED lost
       \/ lost' = lost + 1 /\ UNCHANGED <<events, eventId, written>>
    /\ UNCHANGED <<queue, stopping, spent, minute, pruneDue, server, clock, emitted, dropped, pruned, seen>>

\* An empty queue is waited on for a second; the order to stop is seen at the loop's head.
WriterRests(w) ==
    /\ \/ writer[w].at = "loop" /\ ~stopping /\ queue = <<>> /\ pruneDue /\ writer' = [writer EXCEPT ![w].at = "prune"]
       \/ writer[w].at = "loop" /\ stopping /\ writer' = [writer EXCEPT ![w].at = "drain"]
       \/ writer[w].at = "drain" /\ queue = <<>> /\ writer' = [writer EXCEPT ![w].at = "off"]
       \/ writer[w].at = "prune" /\ ~pruneDue /\ writer' = [writer EXCEPT ![w].at = "loop"]
    /\ UNCHANGED <<events, eventId, queue, stopping, spent, minute, pruneDue, server, clock, emitted, dropped, written, lost, pruned, seen>>

\* Rows last seen before the retention go, then the oldest beyond the cap; or the table
\* is busy, and the next try is an hour away as well.
Old      == IF Retention = 0 THEN {} ELSE {e \in events : e.last < clock - Retention}
Older(e, o) == e.last < o.last \/ (e.last = o.last /\ e.id < o.id)
OverCap  == IF Cap = 0 THEN {} ELSE {e \in events \ Old : Cardinality({o \in events \ Old : Older(e, o)}) >= Cap}
Occasions(rows)   == UNION {{e} \X (1..e.count) : e \in rows}
Occurrences(rows) == Cardinality(Occasions(rows))
Logged(rows) == {e \in rows : e.source = "log"}
Prune(w) ==
    /\ writer[w].at = "prune" /\ pruneDue
    /\ pruneDue' = FALSE
    /\ writer' = [writer EXCEPT ![w].at = "loop"]
    /\ \/ /\ events' = events \ (Old \cup OverCap)
          /\ pruned' = pruned + Occurrences(Logged(Old \cup OverCap))
       \/ UNCHANGED <<events, pruned>>
    /\ UNCHANGED <<eventId, queue, stopping, spent, minute, server, clock, emitted, dropped, written, lost, seen>>

\* At shutdown the handler is taken off the logger; the process waits five seconds.
Close ==
    /\ ~stopping /\ \E w \in Writer : Alive(w)
    /\ stopping' = TRUE
    /\ UNCHANGED <<events, eventId, queue, writer, spent, minute, pruneDue, server, clock, emitted, dropped, written, lost, pruned, seen>>

-----------------------------------------------------------------------------
(* Responses of 500 and more, unhandled exceptions, runs and tests that    *)
(* failed.                                                                 *)

\* The response ended with 500 or more, or an exception left the app: either goes on unchanged.
Capture(s, p) ==
    /\ server[s].at = "idle" /\ seen < MaxSeen /\ seen' = seen + 1
    /\ server' = [server EXCEPT ![s] = [at |-> "look", holds |-> Row("portal", p, clock), found |-> None0]]
    /\ UNCHANGED <<events, eventId, queue, writer, stopping, spent, minute, pruneDue, clock, emitted, dropped, written, lost, pruned>>

CaptureLook(s) ==
    /\ server[s].at = "look"
    /\ server' = [server EXCEPT ![s].found = Existing(server[s].holds), ![s].at = "commit"]
    /\ UNCHANGED <<events, eventId, queue, writer, stopping, spent, minute, pruneDue, clock, emitted, dropped, written, lost, pruned, seen>>

CaptureWrite(s) ==
    /\ server[s].at = "commit"
    /\ server' = [server EXCEPT ![s] = Resting("idle")]
    /\ \/ Fits(server[s].found) /\ Recorded(server[s].found, server[s].holds)
       \/ UNCHANGED <<events, eventId>>
    /\ UNCHANGED <<queue, writer, stopping, spent, minute, pruneDue, clock, emitted, dropped, written, lost, pruned, seen>>

\* A run that ended failed or stale: a row of its own in the transaction that says so.
RecordRun(p) ==
    /\ seen < MaxSeen /\ seen' = seen + 1
    /\ Recorded(None0, Row("execution", p, clock))
    /\ UNCHANGED <<queue, writer, stopping, spent, minute, pruneDue, server, clock, emitted, dropped, written, lost, pruned>>

HourPasses == /\ clock < MaxClock /\ clock' = clock + 1 /\ pruneDue' = TRUE
        /\ UNCHANGED <<events, eventId, queue, writer, stopping, spent, minute, server, emitted, dropped, written, lost, pruned, seen>>

ErrNext ==
    \/ \E p \in Problem : Emit(p) \/ RecordRun(p)
    \/ \E w \in Writer : Take(w) \/ Look(w) \/ WriterWrites(w) \/ WriterRests(w) \/ Prune(w)
    \/ \E s \in Server : CaptureLook(s) \/ CaptureWrite(s)
    \/ \E s \in Server, p \in Problem : Capture(s, p)
    \/ Close \/ HourPasses

-----------------------------------------------------------------------------
(* Administration > Errors.                                                *)

Filtered(days, source) == {e \in events : e.last >= clock - days /\ (source # "" => e.source = source)}
Totals(rows)   == [rows |-> Cardinality(rows), events |-> Occurrences(rows),
                   failed |-> Occurrences({e \in rows : e.source = "execution"})]
BySource(rows) == [s \in {"execution", "portal", "log"} |-> Occurrences({e \in rows : e.source = s})]
Kind(e)        == <<e.source, e.problem>>
LastSeen(rows)   == CHOOSE t \in {e.last : e \in rows} : \A e \in rows : e.last <= t
AllGroups(rows) ==
    {LET mine == {o \in rows : Kind(o) = Kind(e)}
     IN  [kind |-> Kind(e), count |-> Occurrences(mine), last |-> LastSeen(mine)] : e \in rows}

\* The groups the page may show: the fullest, the latest of equally full ones first, and no
\* more than it has room for.
Before(g, h)   == g.count > h.count \/ (g.count = h.count /\ g.last > h.last)
Groups(rows)   ==
    {page \in SUBSET AllGroups(rows) :
        /\ page = AllGroups(rows) \/ Cardinality(page) = GroupLimit
        /\ Cardinality(page) <= GroupLimit
        /\ \A g \in page, h \in AllGroups(rows) \ page : ~Before(h, g)}
-----------------------------------------------------------------------------
\* Every warning the loggers let through is waiting, in the writer's hand, written, counted
\* as dropped or counted as failed; every one written is in the count of a row or was
\* pruned: whatever requests write, bump and prune meanwhile.  (Only the writer writes rows
\* of the log.  Nothing is said of the counts of rows two requests write at once.)  Rows of
\* one problem of the log are more than a window apart.  The page's totals are those of its
\* sources, and of its groups unless it has room for only some of them: then the groups come
\* to less.
InHand == {w \in Writer : writer[w].at \in Holding \cup {"found", "drain found"}}
ErrorsAddUp ==
    /\ emitted = Len(queue) + Cardinality(InHand) + written + dropped + lost
    /\ Occurrences(Logged(events)) + pruned = written
    /\ \A source \in {"", "execution", "portal", "log"}, days \in 0..1 :
           LET shown == Filtered(days, source)
           IN  /\ Totals(shown).events = BySource(shown)["execution"] + BySource(shown)["portal"] + BySource(shown)["log"]
               /\ \A page \in Groups(shown) :
                     IF Cardinality(AllGroups(shown)) <= GroupLimit
                     THEN Occurrences(page) = Totals(shown).events ELSE Occurrences(page) < Totals(shown).events
    /\ \A e, o \in Logged(events) : e.problem = o.problem /\ e.id < o.id => o.first - e.last > DedupWindow
=============================================================================
