--------------------------- MODULE SessionMetadata ---------------------------
(***************************************************************************)
(* The Portal's row of a chat session.  The runtime publishes it whole     *)
(* while the session runs, and a name for it when it has one; a member     *)
(* saves run settings to it and deletes the session.  Each of them is a    *)
(* request on a thread of its own: it reads the row, changes its copy and  *)
(* writes back the columns it changed, and no other.                       *)
(***************************************************************************)
EXTENDS Integers, FiniteSets

CONSTANTS
    Handler,        \* threads that serve such requests
    Title, Setting, \* names and run settings, "" for none
    MaxWrites       \* bound: requests

\* "untitled" stands for what the panel shows of a session without a name, told apart from
\* every name.
ASSUME SessionMetadataAssumption == "" \in Title /\ "" \in Setting /\ "untitled" \notin Title

VARIABLES
    stored,         \* the row of the session; deleted rows stay as tombstones
    live,           \* the runtime has the session
    request,        \* what each thread does: the copy it read, the copy it will write
    writes,         \* requests so far
    savedSettings,  \* history: the run settings last saved
    named, gone,    \* history: the session was named, deleted
    overlapped      \* history: two requests that write a title ran at once

metaVars == <<stored, live, request, writes, savedSettings, named, gone, overlapped>>

MetaColumns == {"exists", "title", "data", "task", "state", "settings", "deleted"}
NoRow   == [exists |-> FALSE, title |-> "", data |-> 0, task |-> FALSE, state |-> "", settings |-> "", deleted |-> FALSE]
Publishes == [op : {"publish"}, title : Title, task : BOOLEAN, settings : {""}]
Renames   == [op : {"rename"}, title : Title \ {""}, task : {FALSE}, settings : {""}]
Saves     == [op : {"save"}, title : {""}, task : {FALSE}, settings : Setting]
Deletions == [op : {"delete"}, title : {""}, task : {FALSE}, settings : {""}]
Ops       == Publishes \cup Renames \cup Saves \cup Deletions

IdleRequest == [at |-> "idle"]
MetaInit ==
    /\ stored = NoRow /\ live = TRUE /\ request = [w \in Handler |-> IdleRequest] /\ writes = 0
    /\ savedSettings = "" /\ named = FALSE /\ gone = FALSE /\ overlapped = FALSE

-----------------------------------------------------------------------------
\* A publish without a name keeps the stored one, a tombstone's too; a new name keeps the
\* rest of the metadata, of a row that is not deleted.
Kept(found, title) == IF title = "" THEN found.title ELSE title

\* What a request makes of the row it found first; data names the publish that wrote the
\* rest of the metadata.
Metadata(op, found) ==
    IF op.op = "publish" THEN [title |-> Kept(found, op.title), data |-> writes]
    ELSE [title |-> op.title, data |-> IF found.exists /\ ~found.deleted THEN found.data ELSE 0]

\* Nothing takes a deletion back.
Applied(op, meta, copy) ==
    CASE op.op = "publish" -> [copy EXCEPT !.exists = TRUE, !.title = meta.title, !.data = meta.data, !.task = op.task,
                                           !.state = "running"]
      [] op.op = "rename"  -> [copy EXCEPT !.exists = TRUE, !.title = meta.title, !.data = meta.data]
      [] op.op = "save"    -> [copy EXCEPT !.exists = TRUE, !.settings = op.settings]
      [] op.op = "delete"  -> [copy EXCEPT !.exists = TRUE, !.deleted = TRUE,
                                           !.state = IF copy.deleted THEN @ ELSE "deleted"]

Titles(w)  == request[w].at # "idle" /\ request[w].op.op \in {"publish", "rename"}
Become(w, r) == request' = [request EXCEPT ![w] = r]

\* The name is looked up; a row found is the copy the write starts from.
BeginRequest(w, op) ==
    /\ request[w].at = "idle" /\ writes < MaxWrites /\ writes' = writes + 1
    /\ op.op = "delete" => ~live
    /\ Become(w, [at |-> "find", op |-> op, meta |-> Metadata(op, stored), copy |-> stored])
    /\ overlapped' = (overlapped \/ (op.op \in {"publish", "rename"} /\ \E v \in Handler : Titles(v)))
    /\ UNCHANGED <<stored, live, savedSettings, named, gone>>

\* Looked up once more: what was found before is not read again.
Seen(w) == request[w].op.op \in {"publish", "rename"} /\ request[w].copy.exists
             /\ (request[w].op.op = "rename" => ~request[w].copy.deleted)
Find(w) ==
    /\ request[w].at = "find"
    /\ LET copy == IF Seen(w) THEN request[w].copy ELSE stored
       IN  Become(w, [request[w] EXCEPT !.at = "write", !.copy = copy])
    /\ UNCHANGED <<stored, live, writes, savedSettings, named, gone, overlapped>>

\* A save of the settings it found writes none.
Done(w) ==
    LET op == request[w].op IN
    /\ Become(w, IdleRequest)
    /\ savedSettings' = IF op.op = "save" /\ op.settings # request[w].copy.settings THEN op.settings ELSE savedSettings
    /\ named' = (named \/ (op.op \in {"publish", "rename"} /\ op.title # ""))
    /\ gone' = (gone \/ op.op = "delete")

\* Mutant: the whole copy is written back.
WrittenWhole(w, new) == new
Written(w, new) == [c \in MetaColumns |-> IF new[c] # request[w].copy[c] THEN new[c] ELSE stored[c]]
WriteRow(w) ==
    /\ request[w].at = "write" /\ request[w].copy.exists = stored.exists
    /\ stored' = Written(w, Applied(request[w].op, request[w].meta, request[w].copy))
    /\ Done(w)
    /\ UNCHANGED <<live, writes, overlapped>>

\* Another request made the row first: an upsert takes that row and applies its fields to
\* it; a deletion fails, and leaves what the other wrote.
Conflict(w) ==
    /\ request[w].at = "write" /\ request[w].copy.exists # stored.exists
    /\ IF request[w].op.op = "delete" THEN Become(w, IdleRequest)
       ELSE Become(w, [request[w] EXCEPT !.copy = stored])
    /\ UNCHANGED <<stored, live, writes, savedSettings, named, gone, overlapped>>

\* The runtime's session goes first; what it had under way it still publishes.
RuntimeDeletes == live /\ live' = FALSE /\ UNCHANGED <<stored, request, writes, savedSettings, named, gone, overlapped>>

MetaNext ==
    \/ \E w \in Handler : Find(w) \/ WriteRow(w) \/ Conflict(w) \/ \E op \in Ops : BeginRequest(w, op)
    \/ RuntimeDeletes

MetaSpec == MetaInit /\ [][MetaNext]_metaVars

-----------------------------------------------------------------------------
\* The sessions panel: the runtime's sessions, and rows the runtime does not list; never a
\* task's.
OnRecord    == stored.exists /\ ~stored.deleted
TaskSession == OnRecord /\ stored.task
InPanel     == (live \/ OnRecord) /\ ~TaskSession
PanelName == IF stored.title # "" /\ ~stored.deleted THEN stored.title ELSE "untitled"
-----------------------------------------------------------------------------
\* Whoever writes the row in whatever order: a session that was deleted stays deleted, and
\* out of the panel; run settings are the ones saved last; a session that has been named has
\* a name, unless two requests that carry names ran at once.
RowKept ==
    /\ gone => stored.deleted /\ ~InPanel
    /\ stored.settings = savedSettings
    /\ ~overlapped /\ named => stored.title # ""
    /\ ~overlapped /\ named /\ InPanel /\ OnRecord => PanelName # "untitled"
=============================================================================
